---------------------------- MODULE RecordsProofs ----------------------------
(***************************************************************************)
(* Proofs about the records that several requests, other processes and     *)
(* restarts share: Accounts, ToolKeys and Evidence, each for every value   *)
(* of its constants.                                                       *)
(***************************************************************************)
EXTENDS Accounts, ToolKeys, Evidence, TLAPS

-----------------------------------------------------------------------------
(***************************************************************************)
(* Accounts: an offline reset that was carried out decides the             *)
(* administrator's password, and ends the sessions signed before it.       *)
(*                                                                         *)
(* The reset is another process, so both rest on what may still write the  *)
(* records it saved: only a setup or a start-up that had loaded the auth   *)
(* record before, or a request to create the administrator's user record   *)
(* that found none.  The history variable crossed remembers them, and none *)
(* can begin any more once there is a password and an administrator.       *)
(***************************************************************************)

MaybePassword == Passwords \cup {None}

Request == [at : {"none", "loaded", "half"}, password : MaybePassword, secret : Nat]

AccountsTypes ==
  /\ authRecord \in [password : MaybePassword, secret : Nat]
  /\ users \in [Names -> [password : MaybePassword, role : Roles \cup {None}]]
  /\ setups \in [Setups -> Request]
  /\ login \in Request
  /\ asking \in [at : {"none", "creates", "saves", "deletes"}, name : Names \cup {None}]
  /\ asking.at # "none" => asking.name \in Names
  /\ asking.at = "deletes" => asking.name # Admin
  /\ reset \in [at : {"none", "loaded", "half", "done"}, password : MaybePassword,
                secret : Nat, kept : BOOLEAN, after : Nat]
  /\ server \in [at : {"up", "down", "starting"}, password : MaybePassword]
  /\ secrets \in Nat

\* Whoever is about to save a password has one.
SaversHavePasswords ==
  /\ \A r \in Setups : setups[r].at # "none" => setups[r].password \in Passwords
  /\ Resetting => reset.password \in Passwords
  /\ server.at = "starting" => server.password \in Passwords
  /\ authRecord # NoAuth => authRecord.password \in Passwords

LEMMA AccountsTypesInit == AccountsInit => AccountsTypes /\ SaversHavePasswords
  BY AccountsAssumption
     DEF AccountsInit, AccountsTypes, SaversHavePasswords, Resetting, NoAuth, NoUser, Idle,
         NotAsking, Up, NoReset, Request, MaybePassword

LEMMA AccountsTypesNext ==
  AccountsTypes /\ SaversHavePasswords /\ [AccountsNext]_accountsVars
    => AccountsTypes' /\ SaversHavePasswords'
<1> SUFFICES ASSUME AccountsTypes, SaversHavePasswords, [AccountsNext]_accountsVars
             PROVE  AccountsTypes' /\ SaversHavePasswords'
  OBVIOUS
<1> USE AccountsAssumption
        DEF AccountsTypes, SaversHavePasswords, Resetting, MaybePassword, Request
<1>1. ASSUME NEW r \in Setups, SetupLoads(r) PROVE AccountsTypes' /\ SaversHavePasswords'
  BY <1>1 DEF SetupLoads
<1>2. ASSUME NEW r \in Setups, SetupSavesAuth(r) PROVE AccountsTypes' /\ SaversHavePasswords'
  BY <1>2 DEF SetupSavesAuth
<1>3. ASSUME NEW r \in Setups, SetupSavesUser(r) PROVE AccountsTypes' /\ SaversHavePasswords'
  BY <1>3 DEF SetupSavesUser, AdminUser, Idle, Roles
<1>4. CASE LoginLoads
  BY <1>4 DEF LoginLoads
<1>5. CASE LoginAnswers
  BY <1>5 DEF LoginAnswers, Idle
<1>6. CASE WindowPasses
  BY <1>6 DEF WindowPasses
<1>7. ASSUME NEW n \in Names, AskUsers(n) PROVE AccountsTypes' /\ SaversHavePasswords'
  BY <1>7 DEF AskUsers
<1>8. CASE CreateChecks \/ CreateSaves \/ DeleteUser
  BY <1>8 DEF CreateChecks, CreateSaves, DeleteUser, NotAsking, NoUser
<1>9. CASE ResetLoads
  BY <1>9 DEF ResetLoads
<1>10. CASE ResetSavesAuth
  BY <1>10 DEF ResetSavesAuth
<1>11. CASE ResetSavesUser
  BY <1>11 DEF ResetSavesUser, AdminUser, Roles
<1>12. CASE ResetStops
  BY <1>12 DEF ResetStops, NoReset
<1>13. CASE Stop
  BY <1>13 DEF Stop, Idle, NotAsking
<1>14. CASE StartLoads
  BY <1>14 DEF StartLoads, Up
<1>15. CASE StartSavesAdmin
  BY <1>15 DEF StartSavesAdmin, AdminUser, Up, Roles
<1>16. CASE UNCHANGED accountsVars
  BY <1>16 DEF accountsVars
<1> QED
  BY <1>1, <1>2, <1>3, <1>4, <1>5, <1>6, <1>7, <1>8, <1>9, <1>10, <1>11, <1>12, <1>13, <1>14,
     <1>15, <1>16 DEF AccountsNext

-----------------------------------------------------------------------------
(* Nobody else is about to save the administrator's records.               *)

Undisturbed ==
  server.at # "starting" /\ ~CreatingAdmin /\ \A r \in Setups : setups[r].at = "none"

\* The reset on its own is the only one to write, and the auth record is its
\* own once saved.
ResetAlone ==
  Resetting =>
    /\ decided = None
    /\ ~reset.kept => reset.secret > reset.after
    /\ reset.at = "half" => authRecord # NoAuth
    /\ ~crossed => Undisturbed
    /\ ~crossed /\ reset.at = "half" => authRecord.secret = reset.secret

\* Both records are as the last reset left them.
ResetStands ==
  decided # None =>
    /\ reset.at = "done"
    /\ Undisturbed
    /\ authRecord # NoAuth
    /\ authRecord.secret = reset.secret
    /\ users[Admin] = AdminUser(decided)
    /\ ~reset.kept => reset.secret > reset.after

AccountsInv == AccountsTypes /\ SaversHavePasswords /\ ResetAlone /\ ResetStands

LEMMA ResetNext == AccountsInv /\ [AccountsNext]_accountsVars => ResetAlone' /\ ResetStands'
<1> SUFFICES ASSUME AccountsInv, [AccountsNext]_accountsVars
             PROVE  ResetAlone' /\ ResetStands'
  OBVIOUS
<1> USE AccountsAssumption
        DEF AccountsInv, ResetAlone, ResetStands, Undisturbed, Resetting, CreatingAdmin
<1>1. ASSUME NEW r \in Setups, SetupLoads(r) PROVE ResetAlone' /\ ResetStands'
  BY <1>1 DEF SetupLoads, AccountsTypes
<1>2. ASSUME NEW r \in Setups, SetupSavesAuth(r) PROVE ResetAlone' /\ ResetStands'
  <2>1. authRecord' # NoAuth
    BY <1>2 DEF SetupSavesAuth, SaversHavePasswords, NoAuth
  <2> QED
    BY <1>2, <2>1 DEF SetupSavesAuth, AccountsTypes
<1>3. ASSUME NEW r \in Setups, SetupSavesUser(r) PROVE ResetAlone' /\ ResetStands'
  BY <1>3 DEF SetupSavesUser, AccountsTypes, Idle
<1>4. CASE LoginLoads \/ LoginAnswers \/ WindowPasses
  BY <1>4 DEF LoginLoads, LoginAnswers, WindowPasses
<1>5. ASSUME NEW n \in Names, AskUsers(n) PROVE ResetAlone' /\ ResetStands'
  BY <1>5 DEF AskUsers
<1>6. CASE CreateChecks
  <2>1. UNCHANGED <<authRecord, users, setups, reset, server, decided>>
    BY <1>6 DEF CreateChecks
  <2>2. CASE users[asking.name] # NoUser
    <3>1. ~CreatingAdmin' /\ crossed' = crossed
      BY <1>6, <2>2 DEF CreateChecks, NotAsking
    <3> QED
      BY <2>1, <3>1
  <2>3. CASE users[asking.name] = NoUser
    <3>1. asking'.name = asking.name
      BY <1>6, <2>3 DEF CreateChecks, AccountsTypes
    <3>2. crossed' <=> crossed \/ (Resetting /\ asking.name = Admin)
      BY <1>6, <2>3 DEF CreateChecks
    <3>3. decided # None => asking.name # Admin
      BY <2>3 DEF NoUser, AdminUser
    <3> QED
      BY <2>1, <3>1, <3>2, <3>3
  <2> QED
    BY <2>2, <2>3
<1>15. CASE CreateSaves
  BY <1>15 DEF CreateSaves, AccountsTypes, NotAsking
<1>16. CASE DeleteUser
  BY <1>16 DEF DeleteUser, AccountsTypes, NotAsking
<1>7. CASE ResetLoads
  <2>1. PICK p \in Passwords, keep \in BOOLEAN :
          reset' = [at |-> "loaded", password |-> p, kept |-> keep, after |-> secrets,
                    secret |-> IF SecretKept(authRecord.secret, keep) THEN authRecord.secret
                               ELSE secrets']
    BY <1>7 DEF ResetLoads
  <2>2. reset'.at = "loaded" /\ reset'.kept = keep /\ reset'.after = secrets
    BY <2>1
  <2>3. ~keep => reset'.secret = secrets'
    BY <2>1 DEF SecretKept
  <2>4. secrets' > secrets /\ decided' = None
    BY <1>7 DEF ResetLoads, AccountsTypes
  <2>5. ~crossed' => Undisturbed'
    <3>1. ~crossed' => ~SettingUp /\ server.at # "starting" /\ ~CreatingAdmin
      BY <1>7 DEF ResetLoads
    <3>2. UNCHANGED <<setups, server, asking>>
      BY <1>7 DEF ResetLoads
    <3> QED
      BY <3>1, <3>2 DEF SettingUp
  <2> QED
    BY <2>2, <2>3, <2>4, <2>5
<1>8. CASE ResetSavesAuth
  <2>1. authRecord' # NoAuth
    BY <1>8 DEF ResetSavesAuth, SaversHavePasswords, NoAuth
  <2> QED
    BY <1>8, <2>1 DEF ResetSavesAuth, AccountsTypes
<1>9. CASE ResetSavesUser
  BY <1>9 DEF ResetSavesUser, AccountsTypes
<1>10. CASE ResetStops
  BY <1>10 DEF ResetStops, NoReset
<1>11. CASE Stop
  BY <1>11 DEF Stop, Idle, NotAsking
<1>12. CASE StartLoads
  <2>1. UNCHANGED <<authRecord, users, setups, asking, reset, decided>>
    BY <1>12 DEF StartLoads
  <2>2. CASE authRecord # NoAuth /\ users[Admin] = NoUser
    <3>1. decided = None
      BY <2>2 DEF NoUser, AdminUser
    <3>2. crossed' <=> crossed \/ Resetting
      BY <1>12, <2>2 DEF StartLoads
    <3> QED
      BY <2>1, <3>1, <3>2
  <2>3. CASE ~(authRecord # NoAuth /\ users[Admin] = NoUser)
    <3>1. server' = Up /\ crossed' = crossed
      BY <1>12, <2>3 DEF StartLoads
    <3> QED
      BY <2>1, <3>1 DEF Up
  <2> QED
    BY <2>2, <2>3
<1>13. CASE StartSavesAdmin
  BY <1>13 DEF StartSavesAdmin, Up, AccountsTypes
<1>14. CASE UNCHANGED accountsVars
  BY <1>14 DEF accountsVars
<1> QED
  BY <1>1, <1>2, <1>3, <1>4, <1>5, <1>6, <1>7, <1>8, <1>9, <1>10, <1>11, <1>12, <1>13, <1>14,
     <1>15, <1>16
     DEF AccountsNext

LEMMA AccountsInvAlways == AccountsSpec => []AccountsInv
<1>1. AccountsInit => AccountsInv
  BY AccountsTypesInit DEF AccountsInit, AccountsInv, ResetAlone, ResetStands, Resetting, NoReset
<1>2. AccountsInv /\ [AccountsNext]_accountsVars => AccountsInv'
  BY AccountsTypesNext, ResetNext DEF AccountsInv
<1> QED
  BY <1>1, <1>2, PTL DEF AccountsSpec

\* The administrator's password is the one of the last reset that was carried
\* out on its own.
THEOREM ResetAlwaysTakesEffect == AccountsSpec => []ResetTakesEffect
<1>1. AccountsInv => ResetTakesEffect
  BY AccountsAssumption
     DEF AccountsInv, ResetStands, ResetTakesEffect, Checked, AdminUser, NoUser
<1> QED
  BY <1>1, AccountsInvAlways, PTL

\* A reset that was not asked to keep the sessions ends all of those signed
\* before it.
THEOREM ResetAlwaysEndsSessions == AccountsSpec => []ResetEndsSessions
<1>1. AccountsInv => ResetEndsSessions
  BY DEF AccountsInv, ResetStands, ResetEndsSessions, Accepted
<1> QED
  BY <1>1, AccountsInvAlways, PTL

-----------------------------------------------------------------------------
(* Types: every secret in use was generated, and every session was issued  *)
(* to somebody.                                                            *)

Issued == 1 .. secrets

SecretsWereIssued ==
  /\ secrets <= MaxSecrets
  /\ authRecord # NoAuth => authRecord.secret \in Issued
  /\ \A r \in Setups : setups[r].at # "none" => setups[r].secret \in Issued
  /\ login.at = "none" \/ login.secret \in Issued
  /\ reset.at = "none" \/ reset.secret \in Issued
  /\ login.at = "none" => login = Idle
  /\ reset.at = "none" => reset = NoReset

IsUser(u) == u.password \in Passwords /\ u.role \in Roles

UsersAreUsers == \A n \in Names : users[n] = NoUser \/ IsUser(users[n])

LoginKnowsPassword == login.at # "none" => login.password \in Passwords

SessionsWereIssued ==
  session # None => session.secret \in Issued /\ session.sub \in Names /\ session.role \in Roles

FailuresAreCounted ==
  /\ failures \in 0 .. MaxAttempts
  /\ login.at # "none" => failures < MaxAttempts

SignedInv ==
  /\ SecretsWereIssued
  /\ UsersAreUsers
  /\ LoginKnowsPassword
  /\ SessionsWereIssued
  /\ FailuresAreCounted

LEMMA SignedInit == AccountsInit => SignedInv
  BY AccountsAssumption
     DEF AccountsInit, SignedInv, SecretsWereIssued, UsersAreUsers, LoginKnowsPassword,
         SessionsWereIssued, FailuresAreCounted, Idle, NoReset, NoAuth

\* A smaller number of secrets were issued before.
LEMMA IssuedGrows ==
  ASSUME NEW m \in Nat, NEW n \in Nat, m <= n
  PROVE  1 .. m \subseteq 1 .. n
  OBVIOUS

LEMMA SecretsNext ==
  AccountsTypes /\ SecretsWereIssued /\ [AccountsNext]_accountsVars => SecretsWereIssued'
<1> SUFFICES ASSUME AccountsTypes, SecretsWereIssued, [AccountsNext]_accountsVars
             PROVE  SecretsWereIssued'
  OBVIOUS
<1> USE AccountsAssumption DEF SecretsWereIssued
<1>a. secrets \in Nat /\ MaxSecrets \in Nat
  BY DEF AccountsTypes
<1>b. ASSUME secrets' = secrets PROVE Issued' = Issued
  BY <1>b DEF Issued
<1>c. ASSUME secrets' = secrets + 1 PROVE Issued \subseteq Issued' /\ secrets' \in Issued'
  BY <1>a, <1>c DEF Issued
<1>1. ASSUME NEW r \in Setups, SetupLoads(r) PROVE SecretsWereIssued'
  <2>1. secrets' = secrets + 1 /\ secrets' <= MaxSecrets
    BY <1>a, <1>1 DEF SetupLoads
  <2>2. UNCHANGED <<authRecord, login, reset>>
    BY <1>1 DEF SetupLoads
  <2>3. \A q \in Setups : setups'[q].at # "none" => setups'[q].secret \in Issued'
    BY <1>1, <1>c, <2>1 DEF SetupLoads, AccountsTypes
  <2> QED
    BY <1>c, <2>1, <2>2, <2>3
<1>2. ASSUME NEW r \in Setups, SetupSavesAuth(r) PROVE SecretsWereIssued'
  <2>1. Issued' = Issued
    BY <1>2, <1>b DEF SetupSavesAuth
  <2> QED
    BY <1>2, <2>1 DEF SetupSavesAuth, AccountsTypes
<1>3. ASSUME NEW r \in Setups, SetupSavesUser(r) PROVE SecretsWereIssued'
  <2>1. Issued' = Issued
    BY <1>3, <1>b DEF SetupSavesUser
  <2> QED
    BY <1>3, <2>1 DEF SetupSavesUser, AccountsTypes, Idle
<1>4. CASE LoginLoads
  <2>1. Issued' = Issued
    BY <1>4, <1>b DEF LoginLoads
  <2> QED
    BY <1>4, <2>1 DEF LoginLoads
<1>5. CASE LoginAnswers
  <2>1. Issued' = Issued
    BY <1>5, <1>b DEF LoginAnswers
  <2> QED
    BY <1>5, <2>1 DEF LoginAnswers, Idle
<1>6. CASE \/ WindowPasses \/ CreateChecks \/ CreateSaves \/ DeleteUser
           \/ \E n \in Names : AskUsers(n)
  <2>1. UNCHANGED <<authRecord, setups, login, reset, secrets>>
    BY <1>6 DEF WindowPasses, AskUsers, CreateChecks, CreateSaves, DeleteUser
  <2> QED
    BY <1>b, <2>1
<1>7. CASE ResetLoads
  <2>1. secrets' = secrets + 1 /\ secrets' <= MaxSecrets
    BY <1>a, <1>7 DEF ResetLoads
  <2>2. UNCHANGED <<authRecord, login, setups>>
    BY <1>7 DEF ResetLoads
  <2>3. reset'.at = "loaded" /\ reset'.secret \in {authRecord.secret, secrets'}
        /\ (reset'.secret # secrets' => authRecord.secret # 0)
    BY <1>7 DEF ResetLoads, SecretKept
  <2>4. authRecord.secret # 0 => authRecord # NoAuth
    BY DEF NoAuth
  <2>5. reset'.secret \in Issued'
    BY <1>c, <2>1, <2>3, <2>4
  <2> QED
    BY <1>c, <2>1, <2>2, <2>3, <2>5
<1>8. CASE ResetSavesAuth
  <2>1. Issued' = Issued
    BY <1>8, <1>b DEF ResetSavesAuth
  <2> QED
    BY <1>8, <2>1 DEF ResetSavesAuth, AccountsTypes
<1>9. CASE ResetSavesUser
  <2>1. Issued' = Issued
    BY <1>9, <1>b DEF ResetSavesUser
  <2> QED
    BY <1>9, <2>1 DEF ResetSavesUser, AccountsTypes
<1>10. CASE ResetStops
  <2>1. Issued' = Issued
    BY <1>10, <1>b DEF ResetStops
  <2> QED
    BY <1>10, <2>1 DEF ResetStops, NoReset
<1>11. CASE Stop
  <2>1. Issued' = Issued
    BY <1>11, <1>b DEF Stop
  <2> QED
    BY <1>11, <2>1 DEF Stop, Idle
<1>12. CASE StartLoads \/ StartSavesAdmin \/ UNCHANGED accountsVars
  <2>1. UNCHANGED <<authRecord, setups, login, reset, secrets>>
    BY <1>12 DEF StartLoads, StartSavesAdmin, accountsVars
  <2> QED
    BY <1>b, <2>1
<1> QED
  BY <1>1, <1>2, <1>3, <1>4, <1>5, <1>6, <1>7, <1>8, <1>9, <1>10, <1>11, <1>12 DEF AccountsNext

LEMMA UsersNext ==
  AccountsTypes /\ SaversHavePasswords /\ UsersAreUsers /\ LoginKnowsPassword
    /\ [AccountsNext]_accountsVars
    => UsersAreUsers' /\ LoginKnowsPassword'
<1> SUFFICES ASSUME AccountsTypes, SaversHavePasswords, UsersAreUsers, LoginKnowsPassword,
                    [AccountsNext]_accountsVars
             PROVE  UsersAreUsers' /\ LoginKnowsPassword'
  OBVIOUS
<1>a. users \in [Names -> [password : MaybePassword, role : Roles \cup {None}]]
  BY DEF AccountsTypes
<1>b. \A p \in Passwords : IsUser(AdminUser(p))
  BY DEF IsUser, AdminUser, Roles
<1>c. ASSUME NEW n \in Names, NEW u, u = NoUser \/ IsUser(u), users' = [users EXCEPT ![n] = u]
      PROVE UsersAreUsers'
  BY <1>a, <1>c DEF UsersAreUsers
<1>d. ASSUME users' = users PROVE UsersAreUsers'
  BY <1>d DEF UsersAreUsers
<1>e. Admin \in Names
  BY AccountsAssumption
<1>1. ASSUME NEW r \in Setups, SetupLoads(r) \/ SetupSavesAuth(r)
      PROVE UsersAreUsers' /\ LoginKnowsPassword'
  BY <1>1, <1>d DEF SetupLoads, SetupSavesAuth, LoginKnowsPassword
<1>2. ASSUME NEW r \in Setups, SetupSavesUser(r) PROVE UsersAreUsers' /\ LoginKnowsPassword'
  BY <1>2, <1>b, <1>c, <1>e DEF SetupSavesUser, SaversHavePasswords, LoginKnowsPassword
<1>3. CASE LoginLoads
  BY <1>3, <1>d DEF LoginLoads, LoginKnowsPassword, SaversHavePasswords
<1>4. CASE LoginAnswers
  BY <1>4, <1>d DEF LoginAnswers, LoginKnowsPassword, Idle
<1>f. asking.at # "none" => asking.name \in Names
  BY DEF AccountsTypes
<1>5. CASE CreateSaves
  <2>1. PICK p \in Passwords, role \in Roles :
          users' = [users EXCEPT ![asking.name] = [password |-> p, role |-> role]]
    BY <1>5 DEF CreateSaves
  <2>2. IsUser([password |-> p, role |-> role])
    BY DEF IsUser
  <2> QED
    BY <1>5, <1>c, <1>f, <2>1, <2>2 DEF CreateSaves, LoginKnowsPassword
<1>6. CASE DeleteUser
  BY <1>6, <1>c, <1>f DEF DeleteUser, LoginKnowsPassword
<1>7. CASE ResetSavesUser
  BY <1>7, <1>b, <1>c, <1>e DEF ResetSavesUser, SaversHavePasswords, LoginKnowsPassword, Resetting
<1>8. CASE StartSavesAdmin
  BY <1>8, <1>b, <1>c, <1>e DEF StartSavesAdmin, SaversHavePasswords, LoginKnowsPassword
<1>9. CASE Stop
  BY <1>9, <1>d DEF Stop, LoginKnowsPassword, Idle
<1>10. CASE \/ WindowPasses \/ CreateChecks \/ \E n \in Names : AskUsers(n)
            \/ ResetLoads \/ ResetSavesAuth \/ ResetStops \/ StartLoads \/ UNCHANGED accountsVars
  BY <1>10, <1>d DEF WindowPasses, CreateChecks, AskUsers, ResetLoads, ResetSavesAuth, ResetStops,
                     StartLoads, accountsVars, LoginKnowsPassword
<1> QED
  BY <1>1, <1>2, <1>3, <1>4, <1>5, <1>6, <1>7, <1>8, <1>9, <1>10 DEF AccountsNext

LEMMA SessionsNext ==
  AccountsTypes /\ SaversHavePasswords /\ SignedInv /\ [AccountsNext]_accountsVars
    => SessionsWereIssued'
<1> SUFFICES ASSUME AccountsTypes, SaversHavePasswords, SignedInv, [AccountsNext]_accountsVars
             PROVE  SessionsWereIssued'
  OBVIOUS
<1>a. secrets \in Nat
  BY DEF AccountsTypes
<1>b. ASSUME session' = session, secrets' \in {secrets, secrets + 1} PROVE SessionsWereIssued'
  BY <1>a, <1>b DEF SessionsWereIssued, Issued, SignedInv
<1>c. ASSUME NEW secret \in Issued, NEW name \in Names, NEW role \in Roles,
             session' \in {session, Token(secret, name, role)}, secrets' = secrets
      PROVE SessionsWereIssued'
  BY <1>c DEF SessionsWereIssued, Issued, SignedInv, Token
<1>1. ASSUME NEW r \in Setups, SetupSavesUser(r) PROVE SessionsWereIssued'
  <2>1. setups[r].secret \in Issued
    BY <1>1 DEF SetupSavesUser, SignedInv, SecretsWereIssued
  <2> QED
    BY <1>1, <1>c, <2>1, AccountsAssumption DEF SetupSavesUser, Roles
<1>2. CASE LoginAnswers
  <2>1. login.at # "none" /\ login.secret \in Issued
    BY <1>2 DEF LoginAnswers, SignedInv, SecretsWereIssued
  <2>2. ASSUME NEW name \in Names, NEW p \in Passwords,
               Checked(name, login.password).password = p
        PROVE  Checked(name, login.password).role \in Roles
    BY <2>2, AccountsAssumption
       DEF SignedInv, UsersAreUsers, IsUser, Checked, NoUser, AdminUser, Roles
  <2>3. secrets' = secrets
    BY <1>2 DEF LoginAnswers
  <2>4. CASE session' = session
    BY <1>b, <2>3, <2>4
  <2>5. CASE session' # session
    <3>1. PICK name \in Names, p \in Passwords :
            /\ Checked(name, login.password).password = p
            /\ session' \in {session, Token(login.secret, name, Checked(name, login.password).role)}
      BY <1>2, <2>5 DEF LoginAnswers
    <3> QED
      BY <1>c, <2>1, <2>2, <2>3, <3>1
  <2> QED
    BY <2>4, <2>5
<1>3. CASE session' = session
  <2>1. secrets' \in {secrets, secrets + 1}
    BY DEF AccountsNext, SetupLoads, SetupSavesAuth, SetupSavesUser, LoginLoads, LoginAnswers,
           WindowPasses, AskUsers, CreateChecks, CreateSaves, DeleteUser, ResetLoads,
           ResetSavesAuth, ResetSavesUser, ResetStops, Stop, StartLoads, StartSavesAdmin,
           accountsVars
  <2> QED
    BY <1>3, <1>b, <2>1
<1>4. session' = session \/ LoginAnswers \/ \E r \in Setups : SetupSavesUser(r)
  BY DEF AccountsNext, SetupLoads, SetupSavesAuth, LoginLoads, WindowPasses, AskUsers,
         CreateChecks, CreateSaves, DeleteUser, ResetLoads, ResetSavesAuth, ResetSavesUser,
         ResetStops, Stop, StartLoads, StartSavesAdmin, accountsVars
<1> QED
  BY <1>1, <1>2, <1>3, <1>4

LEMMA FailuresNext ==
  FailuresAreCounted /\ [AccountsNext]_accountsVars => FailuresAreCounted'
<1> SUFFICES ASSUME FailuresAreCounted, [AccountsNext]_accountsVars PROVE FailuresAreCounted'
  OBVIOUS
<1> USE AccountsAssumption DEF FailuresAreCounted
<1>1. CASE LoginLoads
  BY <1>1 DEF LoginLoads
<1>2. CASE LoginAnswers
  <2>1. login'.at = "none"
    BY <1>2 DEF LoginAnswers, Idle
  <2>2. failures < MaxAttempts /\ failures' \in {0, failures + 1}
    BY <1>2 DEF LoginAnswers
  <2> QED
    BY <2>1, <2>2
<1>3. CASE WindowPasses
  BY <1>3 DEF WindowPasses
<1>4. CASE Stop
  BY <1>4 DEF Stop, Idle
<1>5. CASE UNCHANGED <<login, failures>>
  BY <1>5
<1>6. UNCHANGED <<login, failures>> \/ LoginLoads \/ LoginAnswers \/ WindowPasses \/ Stop
  BY DEF AccountsNext, SetupLoads, SetupSavesAuth, SetupSavesUser, AskUsers, CreateChecks,
         CreateSaves, DeleteUser, ResetLoads, ResetSavesAuth, ResetSavesUser, ResetStops,
         StartLoads, StartSavesAdmin, accountsVars
<1> QED
  BY <1>1, <1>2, <1>3, <1>4, <1>5, <1>6

\* What the requests, the reset and the sessions hold is of its type: above all,
\* no secret is used that was not generated, no session is anybody's that is no
\* user, and the failed logins never pass their limit.
THEOREM AccountsTypeCorrect == AccountsSpec => []AccountsTypeOK
<1> DEFINE Inv == AccountsTypes /\ SaversHavePasswords /\ SignedInv
<1>1. AccountsInit => Inv
  BY AccountsTypesInit, SignedInit
<1>2. Inv /\ [AccountsNext]_accountsVars => Inv'
  BY AccountsTypesNext, SecretsNext, UsersNext, SessionsNext, FailuresNext DEF SignedInv
<1>3. Inv => AccountsTypeOK
  <2> SUFFICES ASSUME Inv PROVE AccountsTypeOK
    OBVIOUS
  <2>1. secrets \in 0 .. MaxSecrets /\ MaxSecrets \in Nat
    BY AccountsAssumption DEF AccountsTypes, SignedInv, SecretsWereIssued
  <2>2. {authRecord.secret, login.secret, reset.secret} \subseteq Issued \cup {0}
    BY DEF SignedInv, SecretsWereIssued, NoAuth, Idle, NoReset
  <2>3. {authRecord.secret, login.secret, reset.secret, secrets} \subseteq 0 .. MaxSecrets
    BY <2>1, <2>2 DEF Issued
  <2>4. authRecord.password \in Passwords \cup {None} /\ server.at \in {"up", "down", "starting"}
    BY DEF AccountsTypes, MaybePassword
  <2>5. asking \in [at : {"none", "creates", "saves", "deletes"}, name : Names \cup {None}]
    BY DEF AccountsTypes
  <2> QED
    BY <2>3, <2>4, <2>5
       DEF AccountsTypeOK, SignedInv, UsersAreUsers, IsUser, SessionsWereIssued, FailuresAreCounted,
           Issued
<1> QED
  BY <1>1, <1>2, <1>3, PTL DEF AccountsSpec

-----------------------------------------------------------------------------
(***************************************************************************)
(* ToolKeys: its type, that locked variables keep the file's value, and    *)
(* that the newest stored key is the one the tools see.                    *)
(***************************************************************************)

(* What apply and merge return is a value for every key.                   *)
LEMMA ApplyType ==
  ASSUME NEW config \in [Keys -> Setting], NEW env \in [Keys -> Setting],
         NEW locks, NEW respect
  PROVE  Apply(config, env, locks, respect) \in [Keys -> Setting]
  BY DEF Apply

LEMMA MergeType ==
  ASSUME NEW current \in [Keys -> Setting], NEW payload \in [Keys -> Setting \cup {Mask, Clear}]
  PROVE  Merge(current, payload) \in [Keys -> Setting]
  BY DEF Merge, Setting

-----------------------------------------------------------------------------
(* Types.                                                                  *)

LEMMA TypeInit == KeysInit => KeysTypeOK
  BY DEF KeysInit, KeysTypeOK, NoKeys, NotSaving, Setting

LEMMA TypeNext == KeysTypeOK /\ [KeysNext]_keysVars => KeysTypeOK'
<1> SUFFICES ASSUME KeysTypeOK, [KeysNext]_keysVars PROVE KeysTypeOK'
  OBVIOUS
<1> USE DEF KeysTypeOK
<1>1. CASE StartServer
  <2>1. exported' \in [Keys -> Setting] /\ file' \in [Keys -> Setting] /\ stored' \in [Keys -> Setting]
    BY <1>1, KeysAssumption DEF StartServer, Setting
  <2>2. [k \in Keys |-> IF k \in locked' THEN file'[k] ELSE exported'[k]] \in [Keys -> Setting]
    BY <2>1
  <2>3. environ' \in [Keys -> Setting]
    BY <1>1, <2>2, ApplyType DEF StartServer
  <2>4. locked' \subseteq Keys
    BY <1>1 DEF StartServer, FromFile
  <2>5. saving' \in [Savers -> [at : {"none", "loaded", "saved"}, config : [Keys -> Setting]]]
    BY <1>1 DEF StartServer, NotSaving, NoKeys, Setting
  <2>6. reading' \in [Readers -> {Nothing} \cup [Keys -> Setting]]
    BY <1>1 DEF StartServer
  <2>7. raced' \subseteq Keys /\ {starts', saves'} \subseteq Nat
    BY <1>1 DEF StartServer
  <2> QED
    BY <2>1, <2>3, <2>4, <2>5, <2>6, <2>7
<1>2. ASSUME NEW r \in Readers, ReaderLoads(r) PROVE KeysTypeOK'
  BY <1>2 DEF ReaderLoads
<1>3. ASSUME NEW r \in Readers, ReaderApplies(r) PROVE KeysTypeOK'
  <2>1. environ' \in [Keys -> Setting]
    BY <1>3, ApplyType DEF ReaderApplies
  <2> QED
    BY <1>3, <2>1 DEF ReaderApplies
<1>4. ASSUME NEW s \in Savers, SaverLoads(s) PROVE KeysTypeOK'
  <2>1. PICK payload \in [Keys -> Setting \cup {Mask, Clear}] :
          saving' = [saving EXCEPT ![s] = [at |-> "loaded", config |-> Merge(stored, payload)]]
    BY <1>4 DEF SaverLoads
  <2>2. Merge(stored, payload) \in [Keys -> Setting]
    BY MergeType
  <2> QED
    BY <1>4, <2>1, <2>2 DEF SaverLoads
<1>5. ASSUME NEW s \in Savers, SaverSaves(s) PROVE KeysTypeOK'
  <2>1. saving' \in [Savers -> [at : {"none", "loaded", "saved"}, config : [Keys -> Setting]]]
    BY <1>5 DEF SaverSaves
  <2> QED
    BY <1>5, <2>1 DEF SaverSaves
<1>6. ASSUME NEW s \in Savers, SaverApplies(s) PROVE KeysTypeOK'
  <2>1. environ' \in [Keys -> Setting]
    BY <1>6, ApplyType DEF SaverApplies
  <2>2. saving' \in [Savers -> [at : {"none", "loaded", "saved"}, config : [Keys -> Setting]]]
    BY <1>6 DEF SaverApplies, NotSaving, NoKeys, Setting
  <2>3. locked' \subseteq Keys
    BY <1>6 DEF SaverApplies, LocksLeft
  <2> QED
    BY <1>6, <2>1, <2>2, <2>3 DEF SaverApplies
<1>7. CASE UNCHANGED keysVars
  BY <1>7 DEF keysVars
<1> QED
  BY <1>1, <1>2, <1>3, <1>4, <1>5, <1>6, <1>7 DEF KeysNext

(* Every variable of the keys' way into the environment keeps its type.    *)
THEOREM KeysTypeCorrect == KeysSpec => []KeysTypeOK
  BY TypeInit, TypeNext, PTL DEF KeysSpec

-----------------------------------------------------------------------------
(* Locks.                                                                  *)

LEMMA LockedNext == KeysTypeOK /\ LockedStays /\ [KeysNext]_keysVars => LockedStays'
<1> SUFFICES ASSUME KeysTypeOK, LockedStays, [KeysNext]_keysVars, NEW k \in locked'
             PROVE  environ'[k] = file'[k]
  BY DEF LockedStays
<1>0. k \in Keys
  BY TypeNext DEF KeysTypeOK
<1>1. CASE StartServer
  <2> DEFINE supplied == [j \in Keys |-> IF j \in locked' THEN file'[j] ELSE exported'[j]]
  <2>1. environ' = Apply(stored, supplied, locked', TRUE)
    BY <1>1 DEF StartServer
  <2> HIDE DEF supplied
  <2>2. environ'[k] = supplied[k]
    BY <1>0, <2>1 DEF Apply
  <2> QED
    BY <1>0, <2>2 DEF supplied
<1>2. ASSUME NEW r \in Readers, ReaderLoads(r) PROVE environ'[k] = file'[k]
  BY <1>2 DEF ReaderLoads, LockedStays
<1>3. ASSUME NEW r \in Readers, ReaderApplies(r) PROVE environ'[k] = file'[k]
  <2>1. k \in locked /\ environ' = Apply(reading[r], environ, locked, TRUE) /\ file' = file
    BY <1>3 DEF ReaderApplies
  <2>2. environ'[k] = environ[k]
    BY <1>0, <2>1 DEF Apply
  <2> QED
    BY <2>1, <2>2 DEF LockedStays
<1>4. ASSUME NEW s \in Savers, SaverLoads(s) PROVE environ'[k] = file'[k]
  BY <1>4 DEF SaverLoads, LockedStays
<1>5. ASSUME NEW s \in Savers, SaverSaves(s) PROVE environ'[k] = file'[k]
  BY <1>5 DEF SaverSaves, LockedStays
<1>6. ASSUME NEW s \in Savers, SaverApplies(s) PROVE environ'[k] = file'[k]
  <2>1. k \in locked /\ saving[s].config[k] = Blank
    BY <1>6 DEF SaverApplies, LocksLeft
  <2>2. environ'[k] = environ[k]
    BY <1>0, <1>6, <2>1 DEF SaverApplies, Apply
  <2> QED
    BY <1>6, <2>1, <2>2 DEF SaverApplies, LockedStays
<1>7. CASE UNCHANGED keysVars
  BY <1>7 DEF keysVars, LockedStays
<1> QED
  BY <1>1, <1>2, <1>3, <1>4, <1>5, <1>6, <1>7 DEF KeysNext

\* What the credential file supplied survives every assessment, and every save
\* that does not name it.
THEOREM LockedAlwaysStays == KeysSpec => []LockedStays
<1>1. KeysInit => LockedStays
  BY DEF KeysInit, LockedStays
<1> QED
  BY <1>1, TypeInit, TypeNext, LockedNext, PTL DEF KeysSpec

-----------------------------------------------------------------------------
(* Freshness.  While a save is between the database and the environment    *)
(* the two differ, so the invariant says what each request still carries.  *)

\* What a request has loaded and will apply is what is stored.
CarriedIsStored ==
  \A k \in Keys \ raced :
    /\ \A r \in Readers : reading[r] # Nothing => reading[r][k] = stored[k]
    /\ \A s \in Savers : saving[s].at = "saved" => saving[s].config[k] = stored[k]

\* What is stored has been applied, unless a save is about to do so.
AppliedUnlessSaving ==
  Serving /\ (\A s \in Savers : saving[s].at # "saved") =>
    \A k \in Keys \ (locked \cup raced) : stored[k] # Blank => environ[k] = stored[k]

LEMMA CarriedInit == KeysInit => CarriedIsStored
  BY DEF KeysInit, CarriedIsStored, NotSaving

LEMMA CarriedNext == KeysTypeOK /\ CarriedIsStored /\ [KeysNext]_keysVars => CarriedIsStored'
<1> SUFFICES ASSUME KeysTypeOK, CarriedIsStored, [KeysNext]_keysVars, NEW k \in Keys, k \notin raced'
             PROVE  /\ \A r \in Readers : reading'[r] # Nothing => reading'[r][k] = stored'[k]
                    /\ \A s \in Savers : saving'[s].at = "saved" => saving'[s].config[k] = stored'[k]
  BY DEF CarriedIsStored
<1> DEFINE Carried == /\ \A r \in Readers : reading'[r] # Nothing => reading'[r][k] = stored'[k]
                      /\ \A s \in Savers : saving'[s].at = "saved" => saving'[s].config[k] = stored'[k]
<1> USE DEF KeysTypeOK
<1>1. CASE StartServer
  BY <1>1 DEF StartServer, NotSaving
<1>2. ASSUME NEW r \in Readers, ReaderLoads(r) PROVE Carried
  BY <1>2 DEF ReaderLoads, CarriedIsStored
<1>3. ASSUME NEW r \in Readers, ReaderApplies(r) PROVE Carried
  BY <1>3 DEF ReaderApplies, CarriedIsStored
<1>4. ASSUME NEW s \in Savers, SaverLoads(s) PROVE Carried
  BY <1>4 DEF SaverLoads, CarriedIsStored
<1>5. ASSUME NEW s \in Savers, SaverSaves(s) PROVE Carried
  <2>1. /\ \A r \in Readers : reading[r] = Nothing
        /\ \A o \in Savers \ {s} : saving[o] = NotSaving
    BY <1>5 DEF SaverSaves
  <2>2. /\ stored' = saving[s].config
        /\ saving'[s].config = saving[s].config
        /\ \A o \in Savers \ {s} : saving'[o] = saving[o]
    BY <1>5 DEF SaverSaves
  <2>3. reading' = reading
    BY <1>5 DEF SaverSaves
  <2> QED
    BY <2>1, <2>2, <2>3 DEF NotSaving
<1>6. ASSUME NEW s \in Savers, SaverApplies(s) PROVE Carried
  <2>1. /\ saving'[s] = NotSaving
        /\ \A o \in Savers \ {s} : saving'[o] = saving[o]
    BY <1>6 DEF SaverApplies
  <2>2. reading' = reading /\ stored' = stored /\ raced' = raced
    BY <1>6 DEF SaverApplies
  <2> QED
    BY <2>1, <2>2 DEF CarriedIsStored, NotSaving
<1>7. CASE UNCHANGED keysVars
  BY <1>7 DEF keysVars, CarriedIsStored
<1> QED
  BY <1>1, <1>2, <1>3, <1>4, <1>5, <1>6, <1>7 DEF KeysNext

LEMMA AppliedNext ==
  KeysTypeOK /\ CarriedIsStored /\ AppliedUnlessSaving /\ [KeysNext]_keysVars => AppliedUnlessSaving'
<1> SUFFICES ASSUME KeysTypeOK, CarriedIsStored, AppliedUnlessSaving, [KeysNext]_keysVars,
                    Serving', \A s \in Savers : saving'[s].at # "saved",
                    NEW k \in Keys, k \notin locked', k \notin raced', stored'[k] # Blank
             PROVE  environ'[k] = stored'[k]
  BY DEF AppliedUnlessSaving
<1>1. CASE StartServer
  <2> DEFINE supplied == [j \in Keys |-> IF j \in locked' THEN file'[j] ELSE exported'[j]]
  <2>1. environ' = Apply(stored, supplied, locked', TRUE) /\ stored' = stored
    BY <1>1 DEF StartServer
  <2> HIDE DEF supplied
  <2> QED
    BY <2>1 DEF Apply
<1>2. ASSUME NEW r \in Readers, ReaderLoads(r) PROVE environ'[k] = stored'[k]
  BY <1>2 DEF ReaderLoads, AppliedUnlessSaving, Serving
<1>3. ASSUME NEW r \in Readers, ReaderApplies(r) PROVE environ'[k] = stored'[k]
  <2>1. reading[r][k] = stored[k]
    BY <1>3 DEF ReaderApplies, CarriedIsStored
  <2>2. environ'[k] = reading[r][k]
    <3>1. environ' = Apply(reading[r], environ, locked, TRUE) /\ locked' = locked /\ stored' = stored
      BY <1>3 DEF ReaderApplies
    <3> QED
      BY <2>1, <3>1 DEF Apply
  <2> QED
    BY <1>3, <2>1, <2>2 DEF ReaderApplies
<1>4. ASSUME NEW s \in Savers, SaverLoads(s) PROVE environ'[k] = stored'[k]
  <2>1. \A o \in Savers : saving[o].at # "saved"
    <3> TAKE o \in Savers
    <3>1. CASE o = s
      BY <1>4, <3>1 DEF SaverLoads, NotSaving
    <3>2. CASE o # s
      BY <1>4, <3>2 DEF SaverLoads, KeysTypeOK
    <3> QED
      BY <3>1, <3>2
  <2> QED
    BY <1>4, <2>1 DEF SaverLoads, AppliedUnlessSaving, Serving
<1>5. ASSUME NEW s \in Savers, SaverSaves(s) PROVE environ'[k] = stored'[k]
  <2>1. saving'[s].at = "saved"
    BY <1>5 DEF SaverSaves, KeysTypeOK
  <2> QED
    BY <2>1
<1>6. ASSUME NEW s \in Savers, SaverApplies(s) PROVE environ'[k] = stored'[k]
  <2>1. saving[s].config[k] = stored[k]
    BY <1>6 DEF SaverApplies, CarriedIsStored
  <2>2. environ'[k] = saving[s].config[k]
    <3>1. environ' = Apply(saving[s].config, environ, locked, FALSE) /\ stored' = stored
      BY <1>6 DEF SaverApplies
    <3> QED
      BY <2>1, <3>1 DEF Apply
  <2> QED
    BY <1>6, <2>1, <2>2 DEF SaverApplies
<1>7. CASE UNCHANGED keysVars
  BY <1>7 DEF keysVars, AppliedUnlessSaving, Serving
<1> QED
  BY <1>1, <1>2, <1>3, <1>4, <1>5, <1>6, <1>7 DEF KeysNext

\* Once every request is over, the key that was stored last is the one the
\* tools see.
THEOREM NewestAlwaysTakesEffect == KeysSpec => []NewestTakesEffect
<1>1. KeysInit => AppliedUnlessSaving
  BY DEF KeysInit, AppliedUnlessSaving, Serving
<1>2. AppliedUnlessSaving => NewestTakesEffect
  BY DEF AppliedUnlessSaving, NewestTakesEffect, NotSaving
<1> QED
  BY <1>1, <1>2, TypeInit, TypeNext, CarriedInit, CarriedNext, AppliedNext, PTL DEF KeysSpec

-----------------------------------------------------------------------------
(***************************************************************************)
(* Evidence: no screenshot of a completed assessment is lost, and every    *)
(* row's BLOB is its own assessment's.                                     *)
(*                                                                         *)
(* Neither is inductive.  Why a deletion loses nothing is that rows of a   *)
(* completed assessment are annotated before anybody may ask for it: while *)
(* the assessment runs nobody may delete its directory, so every image     *)
(* gowitness's row lists is there to be stored; and legacy rows are        *)
(* annotated before the server takes requests.                             *)
(***************************************************************************)

Statuses == {"none", "running", "completed", "failed", "unwinding", "cancelled"}

\* Rows about some of the images.
RowSet == UNION {[images -> {None} \cup [scan : ScanIds, content : Images]] : images \in SUBSET Images}

Requests ==
  [at : {"none", "rows", "saved"}, scan : Nat, rows : RowSet, left : SUBSET Images,
   stored : BOOLEAN]

\* A request is about an assessment, and about images its row lists.
RequestsFit ==
  \A d \in Deleters : deleting[d].at # "none" =>
    deleting[d].scan \in ScanIds /\ deleting[d].left \subseteq DOMAIN deleting[d].rows

EvidenceTypes ==
  /\ scanStatus \in [ScanIds -> Statuses]
  /\ workspace \in [ScanIds -> {None} \cup SUBSET Images]
  /\ toolsDone \in [ScanIds -> SUBSET Tools]
  /\ shots \in [ScanIds -> RowSet]
  /\ capture \in [ScanIds -> {None} \cup RowSet]
  /\ blobs \subseteq [scan : ScanIds, content : Images]
  /\ deleting \in [Deleters -> Requests]
  /\ accepting \in BOOLEAN

-----------------------------------------------------------------------------
(* Rows.                                                                   *)

LEMMA RowsOfImages ==
  ASSUME NEW images \in SUBSET Images
  PROVE  Unannotated(images) \in RowSet /\ DOMAIN Unannotated(images) = images
  BY DEF Unannotated, RowSet

LEMMA NoRowsType == NoRows \in RowSet /\ DOMAIN NoRows = {}
<1>1. NoRows \in [{} -> {None} \cup [scan : ScanIds, content : Images]]
  BY DEF NoRows
<1> QED
  BY <1>1 DEF RowSet, NoRows

LEMMA RowsHaveImages ==
  ASSUME NEW rows \in RowSet
  PROVE  DOMAIN rows \subseteq Images
  BY DEF RowSet

LEMMA BlobType ==
  ASSUME NEW s \in ScanIds, NEW i \in Images
  PROVE  Blob(s, i) \in [scan : ScanIds, content : Images] /\ Blob(s, i).scan = s
  BY DEF Blob

LEMMA AnnotateType ==
  ASSUME NEW s \in ScanIds, NEW rows \in RowSet, NEW i \in DOMAIN rows
  PROVE  /\ Annotate(s, rows, i) \in RowSet
         /\ DOMAIN Annotate(s, rows, i) = DOMAIN rows
         /\ \A j \in DOMAIN rows \ {i} : Annotate(s, rows, i)[j] = rows[j]
         /\ Annotate(s, rows, i)[i] = IF i \in Present(s) THEN Blob(s, i) ELSE rows[i]
<1>1. PICK images \in SUBSET Images :
        rows \in [images -> {None} \cup [scan : ScanIds, content : Images]]
  BY DEF RowSet
<1>2. Blob(s, i) \in [scan : ScanIds, content : Images]
  BY <1>1, BlobType
<1>3. [rows EXCEPT ![i] = Blob(s, i)] \in [images -> {None} \cup [scan : ScanIds, content : Images]]
  BY <1>1, <1>2
<1> QED
  BY <1>1, <1>3 DEF Annotate, RowSet

LEMMA PresentImages ==
  ASSUME workspace \in [ScanIds -> {None} \cup SUBSET Images], NEW s \in ScanIds
  PROVE  Present(s) \in SUBSET Images
  BY DEF Present

LEMMA NewBlobsType ==
  ASSUME NEW s \in ScanIds, NEW i \in Images
  PROVE  /\ NewBlobs(s, i) \subseteq [scan : ScanIds, content : Images]
         /\ i \in Present(s) => Blob(s, i) \in NewBlobs(s, i)
  BY BlobType DEF NewBlobs

-----------------------------------------------------------------------------
(* Types.                                                                  *)

LEMMA EvidenceTypesInit == EvidenceInit => EvidenceTypes
<1> SUFFICES ASSUME EvidenceInit PROVE EvidenceTypes
  OBVIOUS
<1>1. Unannotated(Images) \in RowSet /\ NoRows \in RowSet
  BY RowsOfImages, NoRowsType
<1>2. NoRequest \in Requests
  BY <1>1 DEF NoRequest, Requests
<1> QED
  BY <1>1, <1>2 DEF EvidenceInit, EvidenceTypes, Statuses

LEMMA EvidenceTypesNext == EvidenceTypes /\ RequestsFit /\ [EvidenceNext]_evidenceVars => EvidenceTypes'
<1> SUFFICES ASSUME EvidenceTypes, RequestsFit, [EvidenceNext]_evidenceVars PROVE EvidenceTypes'
  OBVIOUS
<1> USE DEF EvidenceTypes
<1>0. NoRows \in RowSet
  BY NoRowsType
<1>1. NoRequest \in Requests
  BY <1>0 DEF NoRequest, Requests
<1>2. ASSUME NEW s \in ScanIds, StartScan(s) PROVE EvidenceTypes'
  <2>1. \A r \in ScanIds : Present(r) \in SUBSET Images
    BY PresentImages
  <2>2. PICK from \in {0} \cup ReuseSource(s) :
          workspace' = [workspace EXCEPT ![s] = IF from = 0 THEN {} ELSE Present(from)]
    BY <1>2 DEF StartScan
  <2>3. from # 0 => from \in ScanIds
    BY <2>2 DEF ReuseSource
  <2> QED
    BY <1>2, <2>1, <2>2, <2>3 DEF StartScan, Statuses
<1>3. ASSUME NEW s \in ScanIds, RunOther(s) PROVE EvidenceTypes'
  BY <1>3 DEF RunOther, Tools
<1>4. ASSUME NEW s \in ScanIds, Capture(s) PROVE EvidenceTypes'
  <2>1. PICK taken \in SUBSET Images :
          /\ workspace' = [workspace EXCEPT ![s] = Present(s) \cup taken]
          /\ capture' = [capture EXCEPT ![s] = Unannotated(workspace'[s])]
    BY <1>4 DEF Capture, ReusedRows
  <2>2. workspace'[s] \in SUBSET Images
    BY <2>1, PresentImages
  <2>3. Unannotated(workspace'[s]) \in RowSet
    BY <2>2, RowsOfImages
  <2> QED
    BY <1>4, <2>1, <2>2, <2>3 DEF Capture, ReusedRows
<1>5. ASSUME NEW s \in ScanIds, PersistCapture(s) PROVE EvidenceTypes'
  <2>1. PICK i \in DOMAIN capture[s] :
          /\ capture' = [capture EXCEPT ![s] = Annotate(s, @, i)]
          /\ blobs' = blobs \cup NewBlobs(s, i)
    BY <1>5 DEF PersistCapture
  <2>2. capture[s] \in RowSet /\ i \in Images
    BY <1>5, RowsHaveImages DEF PersistCapture
  <2>3. Annotate(s, capture[s], i) \in RowSet /\ NewBlobs(s, i) \subseteq [scan : ScanIds, content : Images]
    BY <2>2, AnnotateType, NewBlobsType
  <2> QED
    BY <1>5, <2>1, <2>3 DEF PersistCapture
<1>6. ASSUME NEW s \in ScanIds, SaveCapture(s) PROVE EvidenceTypes'
  BY <1>6 DEF SaveCapture, Tools
<1>7. ASSUME NEW s \in ScanIds, CompleteScan(s) \/ FailScan(s) \/ CancelScan(s) PROVE EvidenceTypes'
  BY <1>7 DEF CompleteScan, FailScan, CancelScan, Statuses
<1>8. ASSUME NEW s \in ScanIds, Purge(s) PROVE EvidenceTypes'
  BY <1>0, <1>8 DEF Purge, Statuses
<1>9. ASSUME NEW d \in Deleters, NEW s \in ScanIds, DeleteLists(d, s) PROVE EvidenceTypes'
  <2>1. {i \in DOMAIN shots[s] : shots[s][i] = None} \in SUBSET Images
    BY RowsHaveImages
  <2>2. [at |-> "rows", scan |-> s, rows |-> shots[s],
         left |-> {i \in DOMAIN shots[s] : shots[s][i] = None}, stored |-> FALSE] \in Requests
    BY <2>1 DEF Requests, ScanIds
  <2> QED
    BY <1>9, <2>2 DEF DeleteLists
<1>10. ASSUME NEW d \in Deleters, DeletePersists(d) PROVE EvidenceTypes'
  <2> DEFINE s == deleting[d].scan
  <2>1. PICK i \in deleting[d].left :
          /\ deleting' = [deleting EXCEPT ![d].left = @ \ {i},
                                         ![d].rows = Annotate(s, @, i),
                                         ![d].stored = @ \/ i \in Present(s)]
          /\ blobs' = blobs \cup NewBlobs(s, i)
    BY <1>10 DEF DeletePersists
  <2>2. s \in ScanIds /\ i \in DOMAIN deleting[d].rows
    BY <1>10, <2>1 DEF DeletePersists, RequestsFit
  <2>3. i \in Images /\ deleting[d].rows \in RowSet
    BY <2>1 DEF Requests
  <2>4. Annotate(s, deleting[d].rows, i) \in RowSet /\ NewBlobs(s, i) \subseteq [scan : ScanIds, content : Images]
    BY <2>2, <2>3, AnnotateType, NewBlobsType
  <2> DEFINE storable == deleting[d].stored \/ i \in Present(s)
             request == [deleting[d] EXCEPT !.left = @ \ {i}, !.rows = Annotate(s, @, i), !.stored = storable]
  <2>5. storable \in BOOLEAN
    BY DEF Requests
  <2>6. request \in Requests
    <3> HIDE DEF storable
    <3> QED
      BY <2>4, <2>5 DEF Requests
  <2>7. deleting' = [deleting EXCEPT ![d] = request]
    BY <2>1 DEF Requests
  <2>8. deleting' \in [Deleters -> Requests]
    <3> HIDE DEF request
    <3> QED
      BY <2>6, <2>7
  <2> QED
    BY <1>10, <2>1, <2>4, <2>8 DEF DeletePersists
<1>11. ASSUME NEW d \in Deleters, DeleteSaves(d) PROVE EvidenceTypes'
  BY <1>11 DEF DeleteSaves, Requests
<1>12. ASSUME NEW d \in Deleters, DeleteRemoves(d) PROVE EvidenceTypes'
  BY <1>1, <1>12 DEF DeleteRemoves
<1>13. CASE Die
  BY <1>1, <1>13 DEF Die
<1>14. CASE StartAgain
  <2>1. ASSUME NEW s \in ScanIds
        PROVE  shots'[s] \in RowSet
    <3>1. PICK images \in SUBSET Images :
            shots[s] \in [images -> {None} \cup [scan : ScanIds, content : Images]]
      BY DEF RowSet
    <3>2. shots'[s] = [i \in images |->
             IF shots[s][i] = None /\ i \in Present(s) THEN Blob(s, i) ELSE shots[s][i]]
      BY <1>14, <3>1 DEF StartAgain
    <3>3. shots'[s] \in [images -> {None} \cup [scan : ScanIds, content : Images]]
      BY <3>1, <3>2, BlobType
    <3> QED
      BY <3>3 DEF RowSet
  <2>2. blobs' \subseteq [scan : ScanIds, content : Images]
    <3> DEFINE stale == {x \in ScanIds \X Images : x[2] \in DOMAIN shots[x[1]] /\ shots[x[1]][x[2]] = None}
    <3>1. blobs' = blobs \cup UNION {NewBlobs(row[1], row[2]) : row \in stale}
      BY <1>14 DEF StartAgain
    <3>2. \A row \in stale : NewBlobs(row[1], row[2]) \subseteq [scan : ScanIds, content : Images]
      BY NewBlobsType
    <3> HIDE DEF stale
    <3> QED
      BY <3>1, <3>2
  <2>3. shots' \in [ScanIds -> RowSet]
    BY <1>14, <2>1 DEF StartAgain
  <2>4. scanStatus' \in [ScanIds -> Statuses]
    BY <1>14 DEF StartAgain, Statuses
  <2> QED
    BY <1>14, <2>2, <2>3, <2>4 DEF StartAgain
<1>15. CASE UNCHANGED evidenceVars
  BY <1>15 DEF evidenceVars
<1> QED
  BY <1>2, <1>3, <1>4, <1>5, <1>6, <1>7, <1>8, <1>9, <1>10, <1>11, <1>12, <1>13, <1>14, <1>15
     DEF EvidenceNext

LEMMA RequestsFitInit == EvidenceInit => RequestsFit
  BY DEF EvidenceInit, RequestsFit, NoRequest

LEMMA RequestsFitNext == EvidenceTypes /\ RequestsFit /\ [EvidenceNext]_evidenceVars => RequestsFit'
<1> SUFFICES ASSUME EvidenceTypes, RequestsFit, [EvidenceNext]_evidenceVars PROVE RequestsFit'
  OBVIOUS
<1>1. deleting \in [Deleters -> Requests]
  BY DEF EvidenceTypes
<1>2. CASE UNCHANGED deleting
  BY <1>2 DEF RequestsFit
<1>3. ASSUME NEW d \in Deleters, NEW s \in ScanIds, DeleteLists(d, s) PROVE RequestsFit'
  <2>1. /\ deleting'[d].scan = s
        /\ deleting'[d].rows = shots[s]
        /\ deleting'[d].left = {i \in DOMAIN shots[s] : shots[s][i] = None}
    BY <1>1, <1>3 DEF DeleteLists
  <2>2. \A e \in Deleters \ {d} : deleting'[e] = deleting[e]
    BY <1>1, <1>3 DEF DeleteLists
  <2> QED
    BY <2>1, <2>2 DEF RequestsFit
<1>4. ASSUME NEW d \in Deleters, DeletePersists(d) PROVE RequestsFit'
  <2> DEFINE s == deleting[d].scan
  <2>1. PICK i \in deleting[d].left :
          deleting' = [deleting EXCEPT ![d].left = @ \ {i},
                                       ![d].rows = Annotate(s, @, i),
                                       ![d].stored = @ \/ i \in Present(s)]
    BY <1>4 DEF DeletePersists
  <2>2. deleting[d].at # "none"
    BY <1>4 DEF DeletePersists
  <2>3. s \in ScanIds /\ i \in DOMAIN deleting[d].rows /\ deleting[d].rows \in RowSet
    BY <1>1, <2>1, <2>2 DEF RequestsFit, Requests
  <2>4. DOMAIN Annotate(s, deleting[d].rows, i) = DOMAIN deleting[d].rows
    BY <2>3, AnnotateType
  <2>5. /\ deleting'[d].scan = s
        /\ deleting'[d].rows = Annotate(s, deleting[d].rows, i)
        /\ deleting'[d].left = deleting[d].left \ {i}
    BY <1>1, <2>1 DEF Requests
  <2>6. \A e \in Deleters \ {d} : deleting'[e] = deleting[e]
    BY <1>1, <2>1
  <2> QED
    BY <2>2, <2>3, <2>4, <2>5, <2>6 DEF RequestsFit
<1>5. ASSUME NEW d \in Deleters, DeleteSaves(d) PROVE RequestsFit'
  BY <1>1, <1>5 DEF DeleteSaves, RequestsFit, Requests
<1>6. ASSUME NEW d \in Deleters, DeleteRemoves(d) PROVE RequestsFit'
  BY <1>1, <1>6 DEF DeleteRemoves, RequestsFit, NoRequest
<1>7. CASE Die
  BY <1>7 DEF Die, RequestsFit, NoRequest
<1> QED
  BY <1>2, <1>3, <1>4, <1>5, <1>6, <1>7
     DEF EvidenceNext, StartScan, RunOther, Capture, PersistCapture, SaveCapture, CompleteScan,
         FailScan, CancelScan, Purge, StartAgain, evidenceVars

-----------------------------------------------------------------------------
(* Why nothing is lost.                                                    *)

\* Whatever a row or a request has been annotated with is its own BLOB.
Named(s, rows) == \A i \in DOMAIN rows : rows[i] \in {None, Blob(s, i)}

\* All of it is, and is stored.
Annotated(s, rows) == \A i \in DOMAIN rows : rows[i] = Blob(s, i) /\ Blob(s, i) \in blobs

\* Rows are complete until their assessment fails or is cancelled; before the
\* server has started, those of the legacy assessment may only have the file.
RowsKept ==
  \A s \in ScanIds :
    /\ Named(s, shots[s])
    /\ scanStatus[s] \in {"none", "running", "completed"} =>
         \A i \in DOMAIN shots[s] :
           \/ shots[s][i] = Blob(s, i) /\ Blob(s, i) \in blobs
           \/ ~accepting /\ shots[s][i] = None /\ i \in Present(s)

\* What gowitness's row lists can still be stored while its assessment runs.
CapturesKept ==
  \A s \in ScanIds : capture[s] # None =>
    /\ accepting
    /\ scanStatus[s] \notin {"none", "completed"}
    /\ "gowitness" \notin toolsDone[s]
    /\ scanStatus[s] = "running" => DOMAIN capture[s] \subseteq Present(s)
    /\ \A i \in DOMAIN capture[s] :
         capture[s][i] # None => capture[s][i] = Blob(s, i) /\ Blob(s, i) \in blobs

\* Whoever deletes a completed assessment's directory has listed complete rows.
RequestsKept ==
  \A d \in Deleters : deleting[d].at # "none" =>
    /\ accepting
    /\ Named(deleting[d].scan, deleting[d].rows)
    /\ scanStatus[deleting[d].scan] \notin {"none", "running"}
    /\ scanStatus[deleting[d].scan] = "completed" =>
         Annotated(deleting[d].scan, deleting[d].rows)

EvidenceInv == EvidenceTypes /\ RequestsFit /\ RowsKept /\ CapturesKept /\ RequestsKept

LEMMA BlobsDiffer ==
  ASSUME NEW s, NEW r, NEW i, NEW j
  PROVE  Blob(s, i) = Blob(r, j) <=> s = r /\ i = j
  BY DEF Blob

LEMMA KeptInit == EvidenceInit => RowsKept /\ CapturesKept /\ RequestsKept
<1> SUFFICES ASSUME EvidenceInit PROVE RowsKept /\ CapturesKept /\ RequestsKept
  OBVIOUS
<1>1. CapturesKept /\ RequestsKept
  BY DEF EvidenceInit, CapturesKept, RequestsKept, NoRequest
<1>2. RowsKept
  <2> SUFFICES ASSUME NEW s \in ScanIds, NEW i \in DOMAIN shots[s]
               PROVE  ~accepting /\ shots[s][i] = None /\ i \in Present(s)
    BY DEF RowsKept, Named
  <2>1. s = 1 /\ shots[s] = Unannotated(Images) /\ workspace[s] = Images
    BY NoRowsType DEF EvidenceInit
  <2>2. Present(s) = Images
    BY <2>1, EvidenceAssumption DEF Present
  <2> QED
    BY <2>1, <2>2 DEF EvidenceInit, Unannotated
<1> QED
  BY <1>1, <1>2

LEMMA RowsKeptNext == EvidenceInv /\ [EvidenceNext]_evidenceVars => RowsKept'
<1> SUFFICES ASSUME EvidenceInv, [EvidenceNext]_evidenceVars PROVE RowsKept'
  OBVIOUS
<1>1. /\ RowsKept
      /\ scanStatus \in [ScanIds -> Statuses]
      /\ workspace \in [ScanIds -> {None} \cup SUBSET Images]
      /\ shots \in [ScanIds -> RowSet]
      /\ capture \in [ScanIds -> {None} \cup RowSet]
      /\ accepting \in BOOLEAN
      /\ deleting \in [Deleters -> Requests]
  BY DEF EvidenceInv, EvidenceTypes
<1>2. ASSUME NEW s \in ScanIds, StartScan(s) PROVE RowsKept'
  BY <1>1, <1>2 DEF StartScan, RowsKept, Named, Present
<1>3. ASSUME NEW s \in ScanIds, RunOther(s) PROVE RowsKept'
  BY <1>1, <1>3 DEF RunOther, RowsKept, Named, Present
<1>4. ASSUME NEW s \in ScanIds, Capture(s) PROVE RowsKept'
  BY <1>1, <1>4 DEF Capture, ReusedRows, RowsKept, Named
<1>5. ASSUME NEW s \in ScanIds, PersistCapture(s) PROVE RowsKept'
  BY <1>1, <1>5 DEF PersistCapture, RowsKept, Named, Present
<1>6. ASSUME NEW s \in ScanIds, SaveCapture(s) PROVE RowsKept'
  <2>1. /\ shots'[s] = capture[s]
        /\ \A r \in ScanIds \ {s} : shots'[r] = shots[r]
        /\ \A i \in DOMAIN capture[s] \cap Present(s) : capture[s][i] # None
    BY <1>1, <1>6 DEF SaveCapture
  <2>2. \A i \in DOMAIN capture[s] :
          capture[s][i] # None => capture[s][i] = Blob(s, i) /\ Blob(s, i) \in blobs
    BY <1>6 DEF SaveCapture, EvidenceInv, CapturesKept
  <2>3. /\ scanStatus[s] = "running" => DOMAIN capture[s] \subseteq Present(s)
        /\ scanStatus[s] \notin {"none", "completed"}
    BY <1>6 DEF SaveCapture, EvidenceInv, CapturesKept
  <2>4. scanStatus' = scanStatus /\ workspace' = workspace /\ blobs' = blobs /\ accepting' = accepting
    BY <1>6 DEF SaveCapture, Tools
  <2> QED
    BY <1>1, <2>1, <2>2, <2>3, <2>4 DEF RowsKept, Named, Present
<1>7. ASSUME NEW s \in ScanIds, CompleteScan(s) \/ FailScan(s) \/ CancelScan(s) PROVE RowsKept'
  BY <1>1, <1>7 DEF CompleteScan, FailScan, CancelScan, RowsKept, Named, Present
<1>8. ASSUME NEW s \in ScanIds, Purge(s) PROVE RowsKept'
  BY <1>1, <1>8, NoRowsType DEF Purge, RowsKept, Named, Present, Blob
<1>9. ASSUME NEW d \in Deleters, NEW s \in ScanIds, DeleteLists(d, s) PROVE RowsKept'
  BY <1>1, <1>9 DEF DeleteLists, RowsKept, Named, Present
<1>10. ASSUME NEW d \in Deleters, DeletePersists(d) PROVE RowsKept'
  BY <1>1, <1>10 DEF DeletePersists, RowsKept, Named, Present
<1>11. ASSUME NEW d \in Deleters, DeleteSaves(d) PROVE RowsKept'
  BY <1>1, <1>11 DEF DeleteSaves, RowsKept, Named, Present, EvidenceInv, RequestsKept, Annotated, RequestsFit
<1>12. ASSUME NEW d \in Deleters, DeleteRemoves(d) PROVE RowsKept'
  BY <1>1, <1>12 DEF DeleteRemoves, RowsKept, Named, EvidenceInv, RequestsKept
<1>13. CASE Die
  BY <1>1, <1>13 DEF Die, RowsKept, Named, Present
<1>14. CASE StartAgain
  <2> DEFINE stale == {x \in ScanIds \X Images : x[2] \in DOMAIN shots[x[1]] /\ shots[x[1]][x[2]] = None}
  <2>1. /\ blobs' = blobs \cup UNION {NewBlobs(row[1], row[2]) : row \in stale}
        /\ workspace' = workspace /\ ~accepting
        /\ scanStatus' = [s \in ScanIds |->
             CASE scanStatus[s] = "running" -> "failed"
               [] scanStatus[s] = "unwinding" -> "cancelled"
               [] OTHER -> scanStatus[s]]
        /\ shots' = [s \in ScanIds |-> [i \in DOMAIN shots[s] |->
             IF shots[s][i] = None /\ i \in Present(s) THEN Blob(s, i) ELSE shots[s][i]]]
    BY <1>14 DEF StartAgain
  <2> SUFFICES ASSUME NEW s \in ScanIds, NEW i \in DOMAIN shots'[s]
               PROVE  /\ shots'[s][i] \in {None, Blob(s, i)}
                      /\ scanStatus'[s] \in {"none", "running", "completed"} =>
                           shots'[s][i] = Blob(s, i) /\ Blob(s, i) \in blobs'
    BY DEF RowsKept, Named
  <2>2. i \in DOMAIN shots[s] /\ i \in Images /\ shots[s][i] \in {None, Blob(s, i)}
    BY <1>1, <2>1, RowsHaveImages DEF RowsKept, Named
  <2>3. shots'[s][i] = IF shots[s][i] = None /\ i \in Present(s) THEN Blob(s, i) ELSE shots[s][i]
    BY <2>1, <2>2
  <2>4. scanStatus'[s] \in {"none", "running", "completed"} => scanStatus[s] \in {"none", "completed"}
    BY <1>1, <2>1 DEF Statuses
  <2>5. CASE shots[s][i] = None /\ i \in Present(s)
    <3>1. <<s, i>> \in stale
      BY <2>2, <2>5
    <3> HIDE DEF stale
    <3>2. Blob(s, i) \in NewBlobs(s, i) /\ NewBlobs(s, i) \subseteq blobs'
      <4>1. Blob(s, i) \in NewBlobs(s, i)
        BY <2>2, <2>5, NewBlobsType
      <4>2. NewBlobs(<<s, i>>[1], <<s, i>>[2]) \subseteq blobs'
        BY <2>1, <3>1
      <4> QED
        BY <4>1, <4>2
    <3> QED
      BY <2>3, <2>5, <3>2
  <2>6. CASE ~(shots[s][i] = None /\ i \in Present(s))
    BY <1>1, <2>1, <2>2, <2>3, <2>4, <2>6 DEF RowsKept
  <2> QED
    BY <2>5, <2>6
<1>15. CASE UNCHANGED evidenceVars
  BY <1>1, <1>15 DEF evidenceVars, RowsKept, Named, Present
<1> QED
  BY <1>2, <1>3, <1>4, <1>5, <1>6, <1>7, <1>8, <1>9, <1>10, <1>11, <1>12, <1>13, <1>14, <1>15
     DEF EvidenceNext

LEMMA CapturesKeptNext == EvidenceInv /\ [EvidenceNext]_evidenceVars => CapturesKept'
<1> SUFFICES ASSUME EvidenceInv, [EvidenceNext]_evidenceVars PROVE CapturesKept'
  OBVIOUS
<1>1. /\ CapturesKept
      /\ scanStatus \in [ScanIds -> Statuses]
      /\ workspace \in [ScanIds -> {None} \cup SUBSET Images]
      /\ toolsDone \in [ScanIds -> SUBSET Tools]
      /\ capture \in [ScanIds -> {None} \cup RowSet]
  BY DEF EvidenceInv, EvidenceTypes
<1>2. ASSUME NEW s \in ScanIds, StartScan(s) PROVE CapturesKept'
  BY <1>1, <1>2 DEF StartScan, CapturesKept, Present
<1>3. ASSUME NEW s \in ScanIds, RunOther(s) PROVE CapturesKept'
  BY <1>1, <1>3 DEF RunOther, CapturesKept, Present
<1>4. ASSUME NEW s \in ScanIds, Capture(s) PROVE CapturesKept'
  <2>1. PICK taken \in SUBSET Images :
          /\ workspace' = [workspace EXCEPT ![s] = Present(s) \cup taken]
          /\ capture' = [capture EXCEPT ![s] = Unannotated(workspace'[s])]
    BY <1>4 DEF Capture, ReusedRows
  <2>2. workspace'[s] \in SUBSET Images /\ workspace'[s] = Present(s) \cup taken
    BY <1>1, <2>1, PresentImages
  <2>3. Present(s)' = workspace'[s]
    BY <2>2, EvidenceAssumption DEF Present
  <2>4. DOMAIN capture'[s] = workspace'[s] /\ \A i \in DOMAIN capture'[s] : capture'[s][i] = None
    BY <1>1, <2>1 DEF Unannotated
  <2>5. \A r \in ScanIds \ {s} : capture'[r] = capture[r] /\ workspace'[r] = workspace[r]
    BY <1>1, <2>1
  <2>6. /\ accepting /\ accepting' /\ scanStatus[s] = "running" /\ "gowitness" \notin toolsDone[s]
        /\ scanStatus' = scanStatus /\ toolsDone' = toolsDone /\ blobs' = blobs
    BY <1>4, <1>1 DEF Capture, ReusedRows
  <2> QED
    BY <1>1, <2>3, <2>4, <2>5, <2>6 DEF CapturesKept, Present
<1>5. ASSUME NEW s \in ScanIds, PersistCapture(s) PROVE CapturesKept'
  <2>1. PICK i \in DOMAIN capture[s] :
          /\ i \in Present(s)
          /\ capture' = [capture EXCEPT ![s] = Annotate(s, @, i)]
          /\ blobs' = blobs \cup NewBlobs(s, i)
    BY <1>5 DEF PersistCapture
  <2>2. capture[s] # None /\ capture[s] \in RowSet /\ i \in Images
    BY <1>1, <1>5, <2>1, RowsHaveImages DEF PersistCapture
  <2>3. /\ DOMAIN Annotate(s, capture[s], i) = DOMAIN capture[s]
        /\ \A j \in DOMAIN capture[s] \ {i} : Annotate(s, capture[s], i)[j] = capture[s][j]
        /\ Annotate(s, capture[s], i)[i] = Blob(s, i)
    BY <2>1, <2>2, AnnotateType
  <2>4. Blob(s, i) \in blobs' /\ blobs \subseteq blobs'
    BY <2>1, <2>2, NewBlobsType
  <2>5. capture'[s] = Annotate(s, capture[s], i) /\ \A r \in ScanIds \ {s} : capture'[r] = capture[r]
    BY <1>1, <2>1
  <2>6. UNCHANGED <<scanStatus, toolsDone, workspace, accepting>>
    BY <1>5 DEF PersistCapture
  <2> QED
    BY <1>1, <2>2, <2>3, <2>4, <2>5, <2>6 DEF CapturesKept, Present
<1>6. ASSUME NEW s \in ScanIds, SaveCapture(s) PROVE CapturesKept'
  BY <1>1, <1>6 DEF SaveCapture, CapturesKept, Present
<1>7. ASSUME NEW s \in ScanIds, CompleteScan(s) PROVE CapturesKept'
  BY <1>1, <1>7 DEF CompleteScan, CapturesKept, Present, Tools
<1>8. ASSUME NEW s \in ScanIds, FailScan(s) \/ CancelScan(s) PROVE CapturesKept'
  BY <1>1, <1>8 DEF FailScan, CancelScan, CapturesKept, Present
<1>9. ASSUME NEW s \in ScanIds, Purge(s) PROVE CapturesKept'
  BY <1>1, <1>9 DEF Purge, CapturesKept, Present, Blob
<1>10. ASSUME NEW d \in Deleters, NEW s \in ScanIds, DeleteLists(d, s) PROVE CapturesKept'
  BY <1>1, <1>10 DEF DeleteLists, CapturesKept, Present
<1>11. ASSUME NEW d \in Deleters, DeletePersists(d) PROVE CapturesKept'
  BY <1>1, <1>11 DEF DeletePersists, CapturesKept, Present
<1>12. ASSUME NEW d \in Deleters, DeleteSaves(d) PROVE CapturesKept'
  BY <1>1, <1>12 DEF DeleteSaves, CapturesKept, Present
<1>13. ASSUME NEW d \in Deleters, DeleteRemoves(d) PROVE CapturesKept'
  <2>1. scanStatus[deleting[d].scan] # "running"
    BY <1>13 DEF DeleteRemoves, EvidenceInv, RequestsKept
  <2>2. \A r \in ScanIds \ {deleting[d].scan} : workspace'[r] = workspace[r]
    BY <1>1, <1>13 DEF DeleteRemoves
  <2>3. UNCHANGED <<scanStatus, toolsDone, capture, blobs, accepting>>
    BY <1>13 DEF DeleteRemoves
  <2> QED
    BY <1>1, <2>1, <2>2, <2>3 DEF CapturesKept, Present
<1>14. CASE Die
  BY <1>14 DEF Die, CapturesKept
<1>15. CASE StartAgain
  BY <1>1, <1>15 DEF StartAgain, CapturesKept
<1>16. CASE UNCHANGED evidenceVars
  BY <1>1, <1>16 DEF evidenceVars, CapturesKept, Present
<1> QED
  BY <1>2, <1>3, <1>4, <1>5, <1>6, <1>7, <1>8, <1>9, <1>10, <1>11, <1>12, <1>13, <1>14, <1>15, <1>16
     DEF EvidenceNext

LEMMA RequestsKeptNext == EvidenceInv /\ [EvidenceNext]_evidenceVars => RequestsKept'
<1> SUFFICES ASSUME EvidenceInv, [EvidenceNext]_evidenceVars PROVE RequestsKept'
  OBVIOUS
<1>1. /\ RequestsKept
      /\ RequestsFit
      /\ scanStatus \in [ScanIds -> Statuses]
      /\ deleting \in [Deleters -> Requests]
  BY DEF EvidenceInv, EvidenceTypes
<1>2. ASSUME NEW s \in ScanIds, StartScan(s) PROVE RequestsKept'
  BY <1>1, <1>2 DEF StartScan, RequestsKept, RequestsFit, Named, Annotated
<1>3. ASSUME NEW s \in ScanIds, RunOther(s) \/ Capture(s) \/ SaveCapture(s) PROVE RequestsKept'
  BY <1>1, <1>3 DEF RunOther, Capture, ReusedRows, SaveCapture, RequestsKept, Named, Annotated
<1>4. ASSUME NEW s \in ScanIds, PersistCapture(s) PROVE RequestsKept'
  BY <1>1, <1>4 DEF PersistCapture, RequestsKept, Named, Annotated
<1>5. ASSUME NEW s \in ScanIds, CompleteScan(s) \/ FailScan(s) \/ CancelScan(s) PROVE RequestsKept'
  BY <1>1, <1>5 DEF CompleteScan, FailScan, CancelScan, RequestsKept, RequestsFit, Named, Annotated
<1>6. ASSUME NEW s \in ScanIds, Purge(s) PROVE RequestsKept'
  BY <1>1, <1>6 DEF Purge, RequestsKept, RequestsFit, Named, Annotated, Blob
<1>7. ASSUME NEW d \in Deleters, NEW s \in ScanIds, DeleteLists(d, s) PROVE RequestsKept'
  <2>1. /\ deleting'[d].scan = s
        /\ deleting'[d].rows = shots[s]
        /\ \A e \in Deleters \ {d} : deleting'[e] = deleting[e]
    BY <1>1, <1>7 DEF DeleteLists
  <2>2. /\ accepting /\ accepting' = accepting
        /\ scanStatus[s] \notin {"none", "running"} /\ scanStatus' = scanStatus
        /\ blobs' = blobs
    BY <1>7 DEF DeleteLists
  <2>3. Named(s, shots[s]) /\ (scanStatus[s] = "completed" => Annotated(s, shots[s]))
    BY <2>2 DEF EvidenceInv, RowsKept, Annotated
  <2> QED
    BY <1>1, <2>1, <2>2, <2>3 DEF RequestsKept, Named, Annotated
<1>8. ASSUME NEW d \in Deleters, DeletePersists(d) PROVE RequestsKept'
  <2> DEFINE s == deleting[d].scan
  <2>1. PICK i \in deleting[d].left :
          /\ deleting' = [deleting EXCEPT ![d].left = @ \ {i},
                                         ![d].rows = Annotate(s, @, i),
                                         ![d].stored = @ \/ i \in Present(s)]
          /\ blobs' = blobs \cup NewBlobs(s, i)
    BY <1>8 DEF DeletePersists
  <2>2. /\ deleting'[d].scan = s
        /\ deleting'[d].rows = Annotate(s, deleting[d].rows, i)
        /\ deleting'[d].at = deleting[d].at
        /\ \A e \in Deleters \ {d} : deleting'[e] = deleting[e]
    BY <1>1, <2>1 DEF Requests
  <2>3. s \in ScanIds /\ i \in DOMAIN deleting[d].rows /\ deleting[d].rows \in RowSet /\ i \in Images
    BY <1>1, <1>8, <2>1 DEF DeletePersists, RequestsFit, Requests
  <2>4. /\ DOMAIN Annotate(s, deleting[d].rows, i) = DOMAIN deleting[d].rows
        /\ \A j \in DOMAIN deleting[d].rows \ {i} :
             Annotate(s, deleting[d].rows, i)[j] = deleting[d].rows[j]
        /\ Annotate(s, deleting[d].rows, i)[i] \in {Blob(s, i), deleting[d].rows[i]}
    BY <2>3, AnnotateType
  <2>5. /\ accepting' = accepting /\ scanStatus' = scanStatus /\ blobs \subseteq blobs'
        /\ deleting[d].at # "none"
    BY <1>8, <2>1 DEF DeletePersists
  <2> HIDE DEF s
  <2>6. Named(s, deleting'[d].rows)
    BY <1>1, <2>2, <2>3, <2>4, <2>5 DEF RequestsKept, Named, s
  <2>7. scanStatus[s] = "completed" =>
          \A j \in DOMAIN deleting'[d].rows :
            deleting'[d].rows[j] = Blob(s, j) /\ Blob(s, j) \in blobs'
    <3>1. scanStatus[s] = "completed" => Annotated(s, deleting[d].rows)
      BY <1>1, <2>5 DEF RequestsKept, s
    <3> QED
      BY <2>2, <2>3, <2>4, <2>5, <3>1 DEF Annotated
  <2> QED
    BY <1>1, <2>2, <2>5, <2>6, <2>7 DEF RequestsKept, Named, Annotated, s
<1>9. ASSUME NEW d \in Deleters, DeleteSaves(d) PROVE RequestsKept'
  BY <1>1, <1>9 DEF DeleteSaves, RequestsKept, Requests, Named, Annotated
<1>10. ASSUME NEW d \in Deleters, DeleteRemoves(d) PROVE RequestsKept'
  BY <1>1, <1>10 DEF DeleteRemoves, RequestsKept, Named, Annotated, NoRequest
<1>11. CASE Die
  BY <1>11 DEF Die, RequestsKept, NoRequest
<1>12. CASE StartAgain
  BY <1>1, <1>12 DEF StartAgain, RequestsKept
<1>13. CASE UNCHANGED evidenceVars
  BY <1>1, <1>13 DEF evidenceVars, RequestsKept, Named, Annotated
<1> QED
  BY <1>2, <1>3, <1>4, <1>5, <1>6, <1>7, <1>8, <1>9, <1>10, <1>11, <1>12, <1>13
     DEF EvidenceNext

-----------------------------------------------------------------------------
LEMMA EvidenceInvAlways == EvidenceSpec => []EvidenceInv
<1>1. EvidenceInit => EvidenceInv
  BY EvidenceTypesInit, RequestsFitInit, KeptInit DEF EvidenceInv
<1>2. EvidenceInv /\ [EvidenceNext]_evidenceVars => EvidenceInv'
  BY EvidenceTypesNext, RequestsFitNext, RowsKeptNext, CapturesKeptNext, RequestsKeptNext
     DEF EvidenceInv
<1> QED
  BY <1>1, <1>2, PTL DEF EvidenceSpec

\* No screenshot of a completed assessment is lost, however many requests to
\* delete its directory interleave, and wherever the server dies.
THEOREM ScreenshotsAlwaysKept == EvidenceSpec => []ScreenshotsKept
<1>1. EvidenceInv => ScreenshotsKept
  BY DEF EvidenceInv, RowsKept, ScreenshotsKept
<1> QED
  BY <1>1, EvidenceInvAlways, PTL

\* A row's BLOB is always its own assessment's.
THEOREM RowsAlwaysOwnTheirBlobs == EvidenceSpec => []RowsOwnTheirBlobs
<1>1. EvidenceInv => RowsOwnTheirBlobs
  BY DEF EvidenceInv, RowsKept, Named, RowsOwnTheirBlobs, Blob
<1> QED
  BY <1>1, EvidenceInvAlways, PTL

\* Statuses, images, BLOBs and requests keep their types.
THEOREM EvidenceTypeCorrect == EvidenceSpec => []EvidenceTypeOK
<1>1. EvidenceTypes => EvidenceTypeOK
  <2> SUFFICES ASSUME EvidenceTypes PROVE EvidenceTypeOK
    OBVIOUS
  <2>1. \A s \in ScanIds : DOMAIN shots[s] \subseteq Images
    BY RowsHaveImages DEF EvidenceTypes
  <2>2. \A s \in ScanIds : Present(s) \subseteq Images
    BY PresentImages DEF EvidenceTypes
  <2> QED
    BY <2>1, <2>2 DEF EvidenceTypes, EvidenceTypeOK, Statuses, Requests
<1> QED
  BY <1>1, EvidenceInvAlways, PTL DEF EvidenceInv
=============================================================================
