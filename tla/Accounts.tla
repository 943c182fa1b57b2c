------------------------------ MODULE Accounts ------------------------------
(***************************************************************************)
(* Passwords and sessions: the requests of api/auth.py with the records    *)
(* and tokens of auth.py, the recreation of the administrator when the     *)
(* server starts (main.py), and the offline reset (reset_password.py),     *)
(* which is another process on the same database.                          *)
(*                                                                         *)
(* A password stands for its salted hash, a signing secret for its number: *)
(* new_secret never repeats one.  A session token is what it is signed     *)
(* with, and for whom; its expiry is left out.  One client is followed,    *)
(* which may hold on to its token or take any that is issued.              *)
(***************************************************************************)
EXTENDS Optional, Integers

CONSTANTS
  Passwords, Names, Admin,
  Setups,       \* setup requests that may be in flight together
  MaxSecrets,   \* bound: secrets generated
  MaxAttempts,  \* MAX_LOGIN_ATTEMPTS
  MaxRestarts   \* bound: crashes of the server

ASSUME AccountsAssumption ==
  /\ Admin \in Names
  /\ None \notin Passwords
  /\ {MaxSecrets, MaxAttempts, MaxRestarts} \subseteq Nat

\* analyst stands for every role that administers nothing.
Roles == {"administrator", "analyst"}

VARIABLES
  authRecord,  \* the auth configuration: password and signing secret
  users,       \* the user records
  session,     \* the token one client holds, of all that were issued
  setups,      \* the setup requests
  login,       \* one login request
  asking,      \* one request to create or to delete a user
  failures,    \* failed logins of its address in the window
  reset,       \* the offline reset
  server,      \* up, down, or starting with the auth record it loaded
  secrets,     \* secrets generated
  crossed,     \* history: somebody else was about to save the administrator
  decided,     \* history: the password of the last reset that ran on its own
  restarts

accountsVars ==
  <<authRecord, users, session, setups, login, asking, failures, reset, server, secrets,
    crossed, decided, restarts>>

NoAuth == [password |-> None, secret |-> 0]

NoUser == [password |-> None, role |-> None]

AdminUser(password) == [password |-> password, role |-> "administrator"]

Idle == [at |-> "none", password |-> None, secret |-> 0]

NotAsking == [at |-> "none", name |-> None]

Up == [at |-> "up", password |-> None]

NoReset == [at |-> "none", password |-> None, secret |-> 0, kept |-> FALSE, after |-> 0]

AccountsInit ==
  /\ authRecord = NoAuth
  /\ users = [n \in Names |-> NoUser]
  /\ session = None
  /\ setups = [r \in Setups |-> Idle]
  /\ login = Idle
  /\ asking = NotAsking
  /\ failures = 0
  /\ reset = NoReset
  /\ server = Up
  /\ secrets = 0
  /\ crossed = FALSE
  /\ decided = None
  /\ restarts = 0

Token(secret, name, role) == [secret |-> secret, sub |-> name, role |-> role]

\* require_auth and token_claims.
Accepted(token) == token # None /\ authRecord # NoAuth /\ token.secret = authRecord.secret

SettingUp == \E r \in Setups : setups[r].at # "none"

\* A creation of the administrator's user record has found none.
CreatingAdmin == asking.at = "saves" /\ asking.name = Admin

Resetting == reset.at \in {"loaded", "half"}

-----------------------------------------------------------------------------
(* api/auth.py.                                                            *)

\* auth_setup: refused once there is a password.
SetupLoads(r) ==
  /\ server = Up
  /\ setups[r] = Idle
  /\ authRecord = NoAuth
  /\ secrets < MaxSecrets
  /\ secrets' = secrets + 1
  /\ \E p \in Passwords :
       setups' = [setups EXCEPT ![r] = [at |-> "loaded", password |-> p, secret |-> secrets']]
  /\ crossed' = (crossed \/ Resetting)
  /\ UNCHANGED <<authRecord, users, session, login, asking, failures, reset, server,
                 decided, restarts>>

SetupSavesAuth(r) ==
  /\ setups[r].at = "loaded"
  /\ authRecord' = [password |-> setups[r].password, secret |-> setups[r].secret]
  /\ setups' = [setups EXCEPT ![r].at = "half"]
  /\ UNCHANGED <<users, session, login, asking, failures, reset, server, secrets, crossed,
                 decided, restarts>>

SetupSavesUser(r) ==
  /\ setups[r].at = "half"
  /\ users' = [users EXCEPT ![Admin] = AdminUser(setups[r].password)]
  /\ session' \in {session, Token(setups[r].secret, Admin, "administrator")}
  /\ setups' = [setups EXCEPT ![r] = Idle]
  /\ UNCHANGED <<authRecord, login, asking, failures, reset, server, secrets, crossed,
                 decided, restarts>>

\* auth_login loads the auth record, refuses an address with too many failures ...
LoginLoads ==
  /\ server = Up
  /\ login = Idle
  /\ authRecord # NoAuth
  /\ failures < MaxAttempts
  /\ login' = [at |-> "loaded", password |-> authRecord.password, secret |-> authRecord.secret]
  /\ UNCHANGED <<authRecord, users, session, setups, asking, failures, reset, server, secrets,
                 crossed, decided, restarts>>

\* The user's own record, or for the administrator the auth record.
Checked(name, fallback) ==
  IF users[name] # NoUser THEN users[name]
  ELSE IF name = Admin THEN AdminUser(fallback) ELSE NoUser

\* ... then loads the user and signs with the secret it loaded before.
LoginAnswers ==
  /\ login.at = "loaded"
  /\ login' = Idle
  /\ \E name \in Names, p \in Passwords :
       LET user == Checked(name, login.password)
       IN  IF user.password = p
           THEN /\ session' \in {session, Token(login.secret, name, user.role)}
                /\ failures' = 0
           ELSE /\ failures' = failures + 1
                /\ UNCHANGED session
  /\ UNCHANGED <<authRecord, users, setups, asking, reset, server, secrets, crossed,
                 decided, restarts>>

\* LOGIN_WINDOW_SECONDS pass.
WindowPasses ==
  /\ failures > 0
  /\ failures' = 0
  /\ UNCHANGED <<authRecord, users, session, setups, login, asking, reset, server, secrets,
                 crossed, decided, restarts>>

Administrator(token) == Accepted(token) /\ token.role = "administrator"

\* create_user and delete_user are for administrators, by the token they sent;
\* neither the bootstrap administrator nor whoever asks can be deleted.
AskUsers(name) ==
  /\ server = Up
  /\ asking = NotAsking
  /\ Administrator(session)
  /\ \E at \in {"creates", "deletes"} :
       /\ at = "deletes" => name \notin {Admin, session.sub}
       /\ asking' = [at |-> at, name |-> name]
  /\ UNCHANGED <<authRecord, users, session, setups, login, failures, reset, server, secrets,
                 crossed, decided, restarts>>

\* create_user looks whether there is such a user ...
CreateChecks ==
  /\ asking.at = "creates"
  /\ IF users[asking.name] = NoUser
     THEN /\ asking' = [asking EXCEPT !.at = "saves"]
          /\ crossed' = (crossed \/ (Resetting /\ asking.name = Admin))
     ELSE asking' = NotAsking /\ UNCHANGED crossed
  /\ UNCHANGED <<authRecord, users, session, setups, login, failures, reset, server, secrets,
                 decided, restarts>>

\* ... hashes the password, and saves the user whoever has come into being.
CreateSaves ==
  /\ asking.at = "saves"
  /\ \E p \in Passwords, r \in Roles :
       users' = [users EXCEPT ![asking.name] = [password |-> p, role |-> r]]
  /\ asking' = NotAsking
  /\ UNCHANGED <<authRecord, session, setups, login, failures, reset, server, secrets,
                 crossed, decided, restarts>>

DeleteUser ==
  /\ asking.at = "deletes"
  /\ users' = [users EXCEPT ![asking.name] = NoUser]
  /\ asking' = NotAsking
  /\ UNCHANGED <<authRecord, session, setups, login, failures, reset, server, secrets,
                 crossed, decided, restarts>>

-----------------------------------------------------------------------------
(* reset_password.py.                                                      *)

\* Mutant: an existing secret is kept, whatever was asked for.
SecretAlwaysKept(existing, keep) == existing # 0

\* _build_record keeps the secret only when asked, and when there is one.
SecretKept(existing, keep) == keep /\ existing # 0

ResetLoads ==
  /\ reset.at \in {"none", "done"}
  /\ secrets < MaxSecrets
  /\ secrets' = secrets + 1
  /\ \E p \in Passwords, keep \in BOOLEAN :
       LET kept == SecretKept(authRecord.secret, keep)
       IN  reset' = [at |-> "loaded", password |-> p, kept |-> keep, after |-> secrets,
                     secret |-> IF kept THEN authRecord.secret ELSE secrets']
  /\ crossed' = (SettingUp \/ server.at = "starting" \/ CreatingAdmin)
  /\ decided' = None
  /\ UNCHANGED <<authRecord, users, session, setups, login, asking, failures, server,
                 restarts>>

ResetSavesAuth ==
  /\ reset.at = "loaded"
  /\ authRecord' = [password |-> reset.password, secret |-> reset.secret]
  /\ reset' = [reset EXCEPT !.at = "half"]
  /\ UNCHANGED <<users, session, setups, login, asking, failures, server, secrets, crossed,
                 decided, restarts>>

\* Mutant: as before there were user records.
ResetLeavesUser ==
  /\ reset.at = "half"
  /\ reset' = [reset EXCEPT !.at = "done"]
  /\ decided' = IF crossed THEN None ELSE reset.password
  /\ UNCHANGED <<authRecord, users, session, setups, login, asking, failures, server, secrets,
                 crossed, restarts>>

ResetSavesUser ==
  /\ reset.at = "half"
  /\ users' = [users EXCEPT ![Admin] = AdminUser(reset.password)]
  /\ reset' = [reset EXCEPT !.at = "done"]
  /\ decided' = IF crossed THEN None ELSE reset.password
  /\ UNCHANGED <<authRecord, session, setups, login, asking, failures, server, secrets,
                 crossed, restarts>>

\* It is interrupted, or the disk fails it, before or between its two saves.
ResetStops ==
  /\ Resetting
  /\ reset' = NoReset
  /\ UNCHANGED <<authRecord, users, session, setups, login, asking, failures, server, secrets,
                 crossed, decided, restarts>>

-----------------------------------------------------------------------------
(* The server stops and starts (lifespan).                                 *)

\* Requests in flight are lost with it, and so is the count of failures.
Stop ==
  /\ server = Up
  /\ restarts < MaxRestarts
  /\ restarts' = restarts + 1
  /\ server' = [at |-> "down", password |-> None]
  /\ setups' = [r \in Setups |-> Idle]
  /\ login' = Idle
  /\ asking' = NotAsking
  /\ failures' = 0
  /\ UNCHANGED <<authRecord, users, session, reset, secrets, crossed, decided>>

\* A password without its administrator, from before there were users or from
\* a setup that was cut short, is about to be completed from the record loaded.
StartLoads ==
  /\ server.at = "down"
  /\ IF authRecord # NoAuth /\ users[Admin] = NoUser
     THEN /\ server' = [at |-> "starting", password |-> authRecord.password]
          /\ crossed' = (crossed \/ Resetting)
     ELSE /\ server' = Up
          /\ UNCHANGED crossed
  /\ UNCHANGED <<authRecord, users, session, setups, login, asking, failures, reset,
                 secrets, decided, restarts>>

StartSavesAdmin ==
  /\ server.at = "starting"
  /\ users' = [users EXCEPT ![Admin] = AdminUser(server.password)]
  /\ server' = Up
  /\ UNCHANGED <<authRecord, session, setups, login, asking, failures, reset, secrets,
                 crossed, decided, restarts>>

AccountsNext ==
  \/ \E r \in Setups : SetupLoads(r) \/ SetupSavesAuth(r) \/ SetupSavesUser(r)
  \/ LoginLoads \/ LoginAnswers \/ WindowPasses
  \/ \E n \in Names : AskUsers(n)
  \/ CreateChecks \/ CreateSaves \/ DeleteUser
  \/ ResetLoads \/ ResetSavesAuth \/ ResetSavesUser \/ ResetStops
  \/ Stop \/ StartLoads \/ StartSavesAdmin

AccountsSpec == AccountsInit /\ [][AccountsNext]_accountsVars

-----------------------------------------------------------------------------
(* Correctness.                                                            *)

AccountsTypeOK ==
  /\ authRecord.password \in Passwords \cup {None}
  /\ {authRecord.secret, login.secret, reset.secret, secrets} \subseteq 0 .. MaxSecrets
  /\ \A n \in Names :
       users[n] = NoUser \/ (users[n].password \in Passwords /\ users[n].role \in Roles)
  /\ session # None =>
       session.secret \in 1 .. secrets /\ session.sub \in Names /\ session.role \in Roles
  /\ failures \in 0 .. MaxAttempts
  /\ asking \in [at : {"none", "creates", "saves", "deletes"}, name : Names \cup {None}]
  /\ server.at \in {"up", "down", "starting"}

\* The administrator's password is the one of the last reset that was carried
\* out, through restarts, logins in flight, users' coming and going and earlier
\* resets or setups that were cut short between their two saves.  Apart are
\* resets that run while somebody else is about to save the administrator: a
\* setup or start-up that has loaded the record before, or a request to create
\* a user of that name which has found none, as a reset cut short leaves it.
ResetTakesEffect ==
  decided # None /\ ~Resetting => Checked(Admin, authRecord.password).password = decided

\* "all existing sessions are logged out" (backend/reset_password.py:171): after
\* a reset without --keep-sessions no session is accepted that was signed with
\* an earlier secret, not even by a login that had loaded the record before.
ResetEndsSessions ==
  decided # None /\ reset.at = "done" /\ ~reset.kept =>
    (Accepted(session) => session.secret > reset.after)
=============================================================================
