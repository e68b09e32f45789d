------------------------------- MODULE Access -------------------------------
(* Who may call the HTTP API: the handlers of ApiRoutes                      *)
(* (src/network/http_api) for login, password and users, run by the worker   *)
(* threads of HttpServer (src/network/http_server), over UserStore,          *)
(* JwtHelper and AuthMiddleware (src/system/auth).  UserStore and the login  *)
(* table have a mutex each, held for one call; a handler makes several       *)
(* calls, and other threads run between them.  SHA-256 and HMAC are taken as *)
(* injective: the columns password and salt accept one password, and only    *)
(* issued tokens verify.                                                     *)
EXTENDS Integers, FiniteSets

CONSTANTS
    HttpThreads,            \* worker threads of the HTTP server
    Ips, Names,             \* client addresses; usernames, "admin" included
    Passwords, Short,       \* passwords, and those under 6 characters
    kMaxLoginAttempts, kLoginLockoutMinutes, expiry_seconds_,
    MaxAccessTime,          \* bound: the clock
    MaxLogins, MaxEdits,    \* bounds: requests of each sort
    MaxUsers,               \* bound: ids ever given by the store
    Credentials, Changes,   \* inputs: <<username, password>>, <<old, new>>
    NewUsers, Bodies        \* inputs: users to create, updates of a user

Roles == {"admin", "operator", "viewer"}
Optional(S) == {{}} \union {{v} : v \in S}    \* a field of a JSON body

ASSUME AccessAssumption ==
    /\ IsFiniteSet(HttpThreads)
    /\ kMaxLoginAttempts \in Nat \ {0} /\ kLoginLockoutMinutes \in Nat
    /\ expiry_seconds_ \in Nat
    /\ MaxAccessTime \in Nat /\ MaxLogins \in Nat /\ MaxEdits \in Nat
    /\ MaxUsers \in Nat \ {0}
    /\ "admin" \in Names /\ Short \subseteq Passwords
    /\ "admin123" \in Passwords
    /\ Credentials \subseteq Names \X Passwords
    /\ Changes \subseteq Passwords \X Passwords
    /\ NewUsers \subseteq [username : Names, password : Passwords, role : Roles]
    /\ Bodies \subseteq [role : Optional(Roles), enabled : Optional(BOOLEAN),
                         password : Optional(Passwords)]

VARIABLES
    now,            \* the clock
    users,          \* table users: id -> row
    nextId,         \* its AUTOINCREMENT
    tokens,         \* tokens handed out
    login_attempts_,\* ip -> entry, a count of 0 is no entry
    call,           \* thread -> the request it serves
    logins, edits   \* requests served so far

userVars == <<users, nextId>>
accessVars == <<now, users, nextId, tokens, login_attempts_, call, logins, edits>>

Rows == [username : Names, password : Passwords, role : Roles,
         enabled : BOOLEAN, must_change_password : BOOLEAN]
Ids == 1..MaxUsers
Claims == [user_id : Ids, username : Names, role : Roles, expires_at : Int]
Idle == [pc |-> "idle"]
NoAttempts == [failed_count |-> 0, first_failure |-> 0, locked_until |-> 0]

OrElse(optional, default) == IF optional = {} THEN default
                             ELSE CHOOSE v \in optional : TRUE

Goto(t, pc) == call' = [call EXCEPT ![t].pc = pc]
Return(t) == call' = [call EXCEPT ![t] = Idle]

-----------------------------------------------------------------------------
(* UserStore.                                                               *)

Row(name, password, role, must) ==
    [username |-> name, password |-> password, role |-> role,
     enabled |-> TRUE, must_change_password |-> must]

Insert(id, row) == [i \in DOMAIN users \union {id} |->
                       IF i = id THEN row ELSE users[i]]

CreateDefaultAdmin == Row("admin", "admin123", "admin", TRUE)

(* Rows a username and password open: none or one.                          *)
Authenticate(name, password) ==
    {i \in DOMAIN users : /\ users[i].username = name
                          /\ users[i].enabled
                          /\ users[i].password = password}

GetUserByName(name) == {i \in DOMAIN users : users[i].username = name}

Admins == {i \in DOMAIN users : users[i].role = "admin"}

(* The last admin is kept; the test and the delete are under one lock.      *)
DeleteUser(id) == id \in DOMAIN users
                  /\ (id \in Admins => Cardinality(Admins) > 1)

CanInsert(name) == nextId <= MaxUsers /\ GetUserByName(name) = {}

(* Mutant: the id of a deleted row is given again, as SQLite does for a key *)
(* without AUTOINCREMENT.                                                   *)
RowIdAfterLast == 1 + (IF DOMAIN users = {} THEN 0
                       ELSE CHOOSE i \in DOMAIN users :
                               \A j \in DOMAIN users : j <= i)

(* The id an inserted row gets: one never given before.                     *)
AutoIncrement == nextId

-----------------------------------------------------------------------------
(* AuthMiddleware and JwtHelper.                                            *)

VerifyToken(token) == token \in tokens /\ token.expires_at >= now

(* HasPermission by the kind of path; the prefix of all user routes comes   *)
(* after the two profile routes.                                            *)
HasPermission(role, method, path) ==
    CASE role = "admin" -> TRUE
      [] path = "/api/auth/" -> TRUE
      [] path = "/api/users" -> FALSE
      [] path = "/live/" -> TRUE
      [] path \in {"/api/system/", "/api/onvif/", "/api/channels"} ->
            role = "operator" \/ method = "GET"
      [] path \in {"/api/events", "/api/recordings"} -> method = "GET"
      [] OTHER -> FALSE

(* CheckAuth of a route that needs a login: the account must still exist    *)
(* and be enabled, while the role is the one written into the token.        *)
CheckAuth(token, method, path) ==
    /\ VerifyToken(token)
    /\ token.user_id \in DOMAIN users
    /\ users[token.user_id].enabled
    /\ HasPermission(token.role, method, path)

-----------------------------------------------------------------------------
(* The login table of HttpServer.                                           *)

(* Mutant: the lock is looked at only when the count is at the limit.       *)
LockedAtLimit(e) == e.failed_count = kMaxLoginAttempts /\ now < e.locked_until

Locked(e) == e.failed_count >= kMaxLoginAttempts /\ now < e.locked_until

(* IsLoginLocked forgets an entry whose lock has passed.                    *)
Unlocked(e) == IF e.failed_count >= kMaxLoginAttempts /\ now >= e.locked_until
               THEN NoAttempts ELSE e

AfterFailure(e) ==
    LET count == IF now - e.first_failure >= kLoginLockoutMinutes
                 THEN 0 ELSE e.failed_count
    IN  [failed_count  |-> count + 1,
         first_failure |-> IF count = 0 THEN now ELSE e.first_failure,
         locked_until  |-> IF count + 1 >= kMaxLoginAttempts
                           THEN now + kLoginLockoutMinutes
                           ELSE e.locked_until]

-----------------------------------------------------------------------------
(* HandleLogin.                                                             *)

HandleLogin(t, ip, name, password) ==
    /\ call[t] = Idle /\ logins < MaxLogins
    /\ logins' = logins + 1
    /\ login_attempts_' = [login_attempts_ EXCEPT ![ip] = Unlocked(@)]
    /\ call' = IF Locked(login_attempts_[ip]) THEN call
               ELSE [call EXCEPT ![t] =
                       [pc |-> "authenticate", ip |-> ip, username |-> name,
                        password |-> password]]
    /\ UNCHANGED <<now, userVars, tokens, edits>>

LoginAuthenticate(t) ==
    /\ call[t].pc = "authenticate"
    /\ LET found == Authenticate(call[t].username, call[t].password)
       IN  call' = [call EXCEPT ![t] =
             IF found = {} THEN [pc |-> "failure", ip |-> @.ip]
             ELSE LET id == CHOOSE i \in found : TRUE
                  IN  [pc |-> "success", ip |-> @.ip, user_id |-> id,
                       username |-> users[id].username,
                       role |-> users[id].role]]
    /\ UNCHANGED <<now, userVars, tokens, login_attempts_, logins, edits>>

RecordLoginFailure(t) ==
    /\ call[t].pc = "failure"
    /\ login_attempts_' = [login_attempts_ EXCEPT ![call[t].ip] =
                              AfterFailure(@)]
    /\ Return(t)
    /\ UNCHANGED <<now, userVars, tokens, logins, edits>>

RecordLoginSuccess(t) ==
    /\ call[t].pc = "success"
    /\ login_attempts_' = [login_attempts_ EXCEPT ![call[t].ip] = NoAttempts]
    /\ Goto(t, "token")
    /\ UNCHANGED <<now, userVars, tokens, logins, edits>>

GenerateToken(t) ==
    /\ call[t].pc = "token"
    /\ tokens' = tokens \union
          {[user_id |-> call[t].user_id, username |-> call[t].username,
            role |-> call[t].role, expires_at |-> now + expiry_seconds_]}
    /\ Return(t)
    /\ UNCHANGED <<now, userVars, login_attempts_, logins, edits>>

-----------------------------------------------------------------------------
(* Requests that need a token.  One that CheckAuth refuses changes nothing. *)

Accept(t, token, method, path, request) ==
    /\ call[t] = Idle /\ edits < MaxEdits
    /\ CheckAuth(token, method, path)
    /\ edits' = edits + 1
    /\ call' = [call EXCEPT ![t] = request]
    /\ UNCHANGED <<now, userVars, tokens, login_attempts_, logins>>

(* HandleGetProfile and HandleListUsers read the store in a call of its     *)
(* own, after the account was checked; the profile may be gone by then.     *)
HandleRead(t, token, path) ==
    Accept(t, token, "GET", path, [pc |-> "read"])

ReadStore(t) ==
    /\ call[t].pc = "read"
    /\ Return(t)
    /\ UNCHANGED <<now, userVars, tokens, login_attempts_, logins, edits>>

HandleChangePassword(t, token, old, new) ==
    /\ new \notin Short
    /\ Accept(t, token, "PUT", "/api/auth/",
              [pc |-> "old", user_id |-> token.user_id,
               username |-> token.username, old |-> old, new |-> {new}])

CheckOldPassword(t) ==
    /\ call[t].pc = "old"
    /\ IF Authenticate(call[t].username, call[t].old) = {} THEN Return(t)
       ELSE Goto(t, "change")
    /\ UNCHANGED <<now, userVars, tokens, login_attempts_, logins, edits>>

(* UserStore::ChangePassword, last call of an edit by an admin, last but    *)
(* one of the user's own.                                                   *)
ChangePassword(t) ==
    /\ call[t].pc \in {"change", "reset"}
    /\ LET id == call[t].user_id
       IN  IF id \in DOMAIN users
           THEN /\ users' = [users EXCEPT ![id].password =
                                OrElse(call[t].new, @)]
                /\ IF call[t].pc = "change" THEN Goto(t, "clear")
                                            ELSE Return(t)
           ELSE Return(t) /\ UNCHANGED users
    /\ UNCHANGED <<now, nextId, tokens, login_attempts_, logins, edits>>

ClearMustChangePassword(t) ==
    /\ call[t].pc = "clear"
    /\ users' = IF call[t].user_id \in DOMAIN users
                THEN [users EXCEPT ![call[t].user_id].must_change_password =
                         FALSE]
                ELSE users
    /\ Return(t)
    /\ UNCHANGED <<now, nextId, tokens, login_attempts_, logins, edits>>

HandleCreateUser(t, token, name, password, role) ==
    /\ password \notin Short
    /\ Accept(t, token, "POST", "/api/users",
              [pc |-> "byName", username |-> name, password |-> password,
               role |-> role])

CheckNameFree(t) ==
    /\ call[t].pc = "byName"
    /\ IF GetUserByName(call[t].username) # {} THEN Return(t)
       ELSE Goto(t, "insert")
    /\ UNCHANGED <<now, userVars, tokens, login_attempts_, logins, edits>>

CreateUser(t) ==
    /\ call[t].pc = "insert"
    /\ IF CanInsert(call[t].username)
       THEN /\ users' = Insert(AutoIncrement,
                              Row(call[t].username, call[t].password,
                                  call[t].role, FALSE))
            /\ nextId' = AutoIncrement + 1
       ELSE UNCHANGED userVars
    /\ Return(t)
    /\ UNCHANGED <<now, tokens, login_attempts_, logins, edits>>

(* The body may leave out role, enabled or password: an empty set in place  *)
(* of a set with the value.                                                 *)
HandleUpdateUser(t, token, id, role, enabled, new) ==
    Accept(t, token, "PUT", "/api/users",
           [pc |-> "getUser", user_id |-> id, setRole |-> role,
            setEnabled |-> enabled, new |-> new])

(* What the body leaves out is taken from the row read here and written     *)
(* back in the next step.                                                   *)
GetUserForUpdate(t) ==
    /\ call[t].pc = "getUser"
    /\ IF call[t].user_id \notin DOMAIN users THEN Return(t)
       ELSE LET row == users[call[t].user_id]
            IN  call' = [call EXCEPT
                    ![t].pc = "update",
                    ![t].setRole = {OrElse(@, row.role)},
                    ![t].setEnabled = {OrElse(@, row.enabled)}]
    /\ UNCHANGED <<now, userVars, tokens, login_attempts_, logins, edits>>

(* A short password is refused after the row has been changed.              *)
UpdateUser(t) ==
    /\ call[t].pc = "update"
    /\ IF call[t].user_id \in DOMAIN users
       THEN /\ users' = [users EXCEPT
                  ![call[t].user_id].role = OrElse(call[t].setRole, @),
                  ![call[t].user_id].enabled = OrElse(call[t].setEnabled, @)]
            /\ IF call[t].new \subseteq Short THEN Return(t)
               ELSE Goto(t, "reset")
       ELSE Return(t) /\ UNCHANGED users
    /\ UNCHANGED <<now, nextId, tokens, login_attempts_, logins, edits>>

HandleDeleteUser(t, token, id) ==
    Accept(t, token, "DELETE", "/api/users", [pc |-> "delete", user_id |-> id])

DeleteRow(t) ==
    /\ call[t].pc = "delete"
    /\ users' = IF DeleteUser(call[t].user_id)
                THEN [i \in DOMAIN users \ {call[t].user_id} |-> users[i]]
                ELSE users
    /\ Return(t)
    /\ UNCHANGED <<now, nextId, tokens, login_attempts_, logins, edits>>

-----------------------------------------------------------------------------
AccessTick ==
    /\ now < MaxAccessTime
    /\ now' = now + 1
    /\ UNCHANGED <<userVars, tokens, login_attempts_, call, logins, edits>>

(* The process is restarted: the tables and the tokens in the clients       *)
(* remain (the secret comes from the configuration), the login table does   *)
(* not.                                                                     *)
AccessRestart ==
    /\ login_attempts_' = [ip \in Ips |-> NoAttempts]
    /\ call' = [t \in HttpThreads |-> Idle]
    /\ IF DOMAIN users = {} /\ nextId <= MaxUsers
       THEN /\ users' = Insert(AutoIncrement, CreateDefaultAdmin)
            /\ nextId' = AutoIncrement + 1
       ELSE UNCHANGED userVars
    /\ UNCHANGED <<now, tokens, logins, edits>>

AccessInit ==
    /\ now = 0
    /\ users = [i \in {1} |-> CreateDefaultAdmin] /\ nextId = 2
    /\ tokens = {}
    /\ login_attempts_ = [ip \in Ips |-> NoAttempts]
    /\ call = [t \in HttpThreads |-> Idle]
    /\ logins = 0 /\ edits = 0

LoginStep(t) ==
    \/ \E ip \in Ips, c \in Credentials : HandleLogin(t, ip, c[1], c[2])
    \/ LoginAuthenticate(t) \/ RecordLoginFailure(t)
    \/ RecordLoginSuccess(t) \/ GenerateToken(t)

PasswordStep(t) ==
    \/ \E token \in tokens, path \in {"/api/auth/", "/api/users"} :
          HandleRead(t, token, path)
    \/ ReadStore(t)
    \/ \E token \in tokens, c \in Changes :
          HandleChangePassword(t, token, c[1], c[2])
    \/ CheckOldPassword(t) \/ ChangePassword(t) \/ ClearMustChangePassword(t)

UsersStep(t) ==
    \/ \E token \in tokens, u \in NewUsers :
          HandleCreateUser(t, token, u.username, u.password, u.role)
    \/ CheckNameFree(t) \/ CreateUser(t)
    \/ \E token \in tokens, id \in Ids, b \in Bodies :
          HandleUpdateUser(t, token, id, b.role, b.enabled, b.password)
    \/ GetUserForUpdate(t) \/ UpdateUser(t)
    \/ \E token \in tokens, id \in Ids : HandleDeleteUser(t, token, id)
    \/ DeleteRow(t)

AccessNext ==
    \/ \E t \in HttpThreads : LoginStep(t) \/ PasswordStep(t) \/ UsersStep(t)
    \/ AccessTick
    \/ AccessRestart

AccessSpec == AccessInit /\ [][AccessNext]_accessVars
-----------------------------------------------------------------------------
(* The requests a thread may be serving, by the handler it is in.           *)
Authenticating == [pc : {"authenticate"}, ip : Ips, username : Names,
                   password : Passwords]
Failing == [pc : {"failure"}, ip : Ips]
LoggedIn == [pc : {"success", "token"}, ip : Ips, user_id : Ids,
             username : Names, role : Roles]
Reading == [pc : {"read"}]
Changing == [pc : {"old", "change", "clear"}, user_id : Ids, username : Names,
             old : Passwords, new : Optional(Passwords)]
Creating == [pc : {"byName", "insert"}, username : Names,
             password : Passwords, role : Roles]
Updating == [pc : {"getUser", "update", "reset"}, user_id : Ids,
             setRole : Optional(Roles), setEnabled : Optional(BOOLEAN),
             new : Optional(Passwords)]
Deleting == [pc : {"delete"}, user_id : Ids]

Requests == {Idle} \union Authenticating \union Failing \union LoggedIn
            \union Reading \union Changing \union Creating \union Updating
            \union Deleting

AccessTypeOK ==
    /\ now \in 0..MaxAccessTime
    /\ DOMAIN users \subseteq Ids /\ \A i \in DOMAIN users : users[i] \in Rows
    /\ nextId \in 1..(MaxUsers + 1) /\ \A i \in DOMAIN users : i < nextId
    /\ tokens \subseteq Claims
    /\ login_attempts_ \in [Ips -> [failed_count : Nat, first_failure : Nat,
                                    locked_until : Nat]]
    /\ call \in [HttpThreads -> Requests]
    /\ logins \in 0..MaxLogins /\ edits \in 0..MaxEdits

(* A token, wherever it is, names one account for ever: the account with    *)
(* its id, if there is one, is the account that logged in.  CheckAuth looks *)
(* the account up by id and HandleChangePassword tests the old password by  *)
(* name, so both must mean the same row after any deletes and inserts.      *)
TokenNamesItsUser ==
    \A token \in tokens : token.user_id \in DOMAIN users =>
        users[token.user_id].username = token.username

(* The lock is tested when a login begins and the failure counted when it   *)
(* ends, under separate locks: requests in flight may overrun the limit,    *)
(* but only by one for each other thread.                                   *)
AttemptsBounded ==
    \A ip \in Ips : login_attempts_[ip].failed_count
                       <= kMaxLoginAttempts - 1 + Cardinality(HttpThreads)
=============================================================================
