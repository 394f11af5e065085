---------------------------- MODULE WebSessions ----------------------------
(***************************************************************************)
(* Accounts and web sessions: users_crud.py, sessions.py, credentials.py,  *)
(* session_roles() of blueprints/auth, and the routes that sign in, change *)
(* passwords and remove people (auth, account/profile, admin/users, shared *)
(* sessions).                                                              *)
(*   A browser's cookie holds a name, a stamp of the password hash and the *)
(* id of a row of web_sessions.  Routes read the password, do something    *)
(* and read it again: each read and each write is a step of its own.       *)
(***************************************************************************)
EXTENDS Integers, FiniteSets

CONSTANTS
    People,         \* user names
    Browsers,
    Admins,         \* who is created as an administrator
    Nobody,
    Cli,            \* somebody at the command line
    PasswordsMax,   \* bound: passwords ever set
    SessionsMax,    \* bound: sessions ever created
    ChangesMax      \* bound: what administrators do

VARIABLES
    account,        \* users: the password (its number, 0 without a row) and the role
    nextPw,         \* hashes are salted: no two are the same
    sessions,       \* web_sessions: the owner of each id, Nobody if there is no row
    nextSid,
    cookie,         \* the cookie of each browser
    route,          \* the request each browser is in the middle of
    changes         \* of administrators, so far

webVars == <<account, nextPw, sessions, nextSid, cookie, route, changes>>

Sids     == 1..SessionsMax
Roles    == {"admin", "settings", "none"}
NoCookie == [name |-> Nobody, stamp |-> 0, sid |-> 0, knows |-> 0, raced |-> FALSE]
Free     == [pc |-> "free"]

Gone     == [pw |-> 0, role |-> "none"]

ASSUME WebAssumption ==
    /\ Nobody \notin People /\ Admins \subseteq People
    /\ Cli \notin Browsers /\ PasswordsMax \in Nat /\ SessionsMax \in Nat /\ ChangesMax \in Nat

WebInit ==
    /\ account = [p \in People |->
                     [pw |-> 1, role |-> IF p \in Admins THEN "admin" ELSE "settings"]]
    /\ nextPw = 2 /\ sessions = [s \in Sids |-> Nobody] /\ nextSid = 1
    /\ cookie = [b \in Browsers |-> NoCookie]
    /\ route = [b \in Browsers |-> Free]
    /\ changes = 0

CanLogin(p) == account[p].role \in {"admin", "settings"}

(* Mutant of Valid: the stamp is not compared.                              *)
ValidAnyStamp(c) ==
    /\ c.name # Nobody /\ CanLogin(c.name)
    /\ c.sid # 0 /\ sessions[c.sid] = c.name

(* session_roles() and validate_session(): is the cookie good for a request?*)
Valid(c) ==
    /\ c.name # Nobody /\ CanLogin(c.name)
    /\ c.stamp # 0 /\ c.stamp = account[c.name].pw
    /\ c.sid # 0 /\ sessions[c.sid] = c.name

(* The cookie is cleared when it is not.                                    *)
Visit(b) ==
    /\ route[b] = Free /\ cookie[b] # NoCookie /\ ~Valid(cookie[b])
    /\ cookie' = [cookie EXCEPT ![b] = NoCookie]
    /\ UNCHANGED <<account, nextPw, sessions, nextSid, route, changes>>

-----------------------------------------------------------------------------
(* route_login(): check_password() with the hash as it is now, the roles;   *)
(* then start_session() reads the stamp, ...                                *)
Login(b, p) ==
    /\ route[b] = Free /\ ~Valid(cookie[b])
    /\ account[p].pw # 0 /\ CanLogin(p)
    /\ route' = [route EXCEPT ![b] = [pc |-> "proved", name |-> p, knows |-> account[p].pw]]
    /\ UNCHANGED <<account, nextPw, sessions, nextSid, cookie, changes>>

LoginStamp(b) ==
    /\ route[b].pc = "proved"
    /\ LET r == route[b] IN
       /\ cookie' = [cookie EXCEPT ![b] =
              [name |-> r.name, stamp |-> account[r.name].pw, sid |-> 0, knows |-> r.knows,
               raced |-> r.knows # account[r.name].pw]]
       /\ route' = [route EXCEPT ![b] = [pc |-> "stamped", name |-> r.name]]
    /\ UNCHANGED <<account, nextPw, sessions, nextSid, changes>>

(* ... and create_session() inserts the row, which fails for a user who has *)
(* been deleted (foreign key).                                              *)
LoginRow(b) ==
    /\ route[b].pc = "stamped" /\ nextSid <= SessionsMax
    /\ route' = [route EXCEPT ![b] = Free]
    /\ IF account[route[b].name].pw = 0 THEN UNCHANGED <<sessions, nextSid, cookie>>
       ELSE /\ sessions' = [sessions EXCEPT ![nextSid] = route[b].name]
            /\ nextSid' = nextSid + 1
            /\ cookie' = [cookie EXCEPT ![b].sid = nextSid]
    /\ UNCHANGED <<account, nextPw, changes>>

(* route_logout()                                                           *)
Logout(b) ==
    /\ route[b] = Free /\ cookie[b] # NoCookie
    /\ sessions' = IF cookie[b].sid = 0 THEN sessions ELSE [sessions EXCEPT ![cookie[b].sid] = Nobody]
    /\ cookie' = [cookie EXCEPT ![b] = NoCookie]
    /\ UNCHANGED <<account, nextPw, nextSid, route, changes>>

(* route_change_password(): the session and the current password are        *)
(* checked, the hash is written, and the cookie gets the stamp of whatever  *)
(* hash is there then.                                                      *)
ChangePassword(b) ==
    /\ route[b] = Free /\ Valid(cookie[b])
    /\ cookie[b].knows = account[cookie[b].name].pw
    /\ route' = [route EXCEPT ![b] = [pc |-> "changing", name |-> cookie[b].name]]
    /\ UNCHANGED <<account, nextPw, sessions, nextSid, cookie, changes>>

WritePassword(b) ==
    /\ route[b].pc = "changing"
    /\ LET p == route[b].name IN
       IF account[p].pw = 0 \/ nextPw > PasswordsMax
       THEN route' = [route EXCEPT ![b] = Free] /\ UNCHANGED <<account, nextPw>>
       ELSE /\ account' = [account EXCEPT ![p].pw = nextPw] /\ nextPw' = nextPw + 1
            /\ route' = [route EXCEPT ![b] = [pc |-> "changed", name |-> p, knows |-> nextPw]]
    /\ UNCHANGED <<sessions, nextSid, cookie, changes>>

ChangeStamp(b) ==
    /\ route[b].pc = "changed"
    /\ LET now == account[route[b].name].pw IN
       cookie' = [cookie EXCEPT ![b].stamp = now, ![b].knows = route[b].knows,
                                ![b].raced = @ \/ route[b].knows # now]
    /\ route' = [route EXCEPT ![b] = Free]
    /\ UNCHANGED <<account, nextPw, sessions, nextSid, changes>>

(* The shared session routes: all sessions of the user but this one, or one *)
(* of the others.                                                           *)
RevokeOthers(b) ==
    /\ route[b] = Free /\ Valid(cookie[b])
    /\ LET others == {s \in Sids : sessions[s] = cookie[b].name /\ s # cookie[b].sid} IN
       \E revoked \in {others} \cup {{s} : s \in others} :
          sessions' = [s \in Sids |-> IF s \in revoked THEN Nobody ELSE sessions[s]]
    /\ UNCHANGED <<account, nextPw, nextSid, cookie, route, changes>>

(* delete_user(): rows that refer to the user go with it.                   *)
WithoutUser(p) ==
    /\ account' = [account EXCEPT ![p] = Gone]
    /\ sessions' = [s \in Sids |-> IF sessions[s] = p THEN Nobody ELSE sessions[s]]

(* route_delete_account(), for who is no administrator here.                *)
DeleteOwn(b) ==
    /\ route[b] = Free /\ Valid(cookie[b]) /\ account[cookie[b].name].role # "admin"
    /\ cookie[b].knows = account[cookie[b].name].pw
    /\ WithoutUser(cookie[b].name)
    /\ cookie' = [cookie EXCEPT ![b] = NoCookie]
    /\ UNCHANGED <<nextPw, nextSid, route, changes>>

-----------------------------------------------------------------------------
(* admin/users, and the same from the command line, where nobody is signed  *)
(* in.  An administrator who sets her own password gets its stamp.          *)
IsAdmin(b) == route[b] = Free /\ Valid(cookie[b]) /\ account[cookie[b].name].role = "admin"
Manage(m)  == (m # Cli => IsAdmin(m)) /\ changes < ChangesMax /\ changes' = changes + 1
Self(m)    == IF m = Cli THEN Nobody ELSE cookie[m].name

ManagerCreates(m, p, role) ==
    /\ Manage(m) /\ account[p].pw = 0 /\ nextPw <= PasswordsMax
    /\ account' = [account EXCEPT ![p] = [pw |-> nextPw, role |-> role]]
    /\ nextPw' = nextPw + 1
    /\ UNCHANGED <<sessions, nextSid, cookie, route>>

SetsRole(m, p, role) ==
    /\ Manage(m) /\ account[p].pw # 0
    /\ p = Self(m) => role = "admin"
    /\ account' = [account EXCEPT ![p].role = role]
    /\ UNCHANGED <<nextPw, sessions, nextSid, cookie, route>>

SetsPassword(m, p) ==
    /\ Manage(m) /\ account[p].pw # 0 /\ nextPw <= PasswordsMax
    /\ account' = [account EXCEPT ![p].pw = nextPw] /\ nextPw' = nextPw + 1
    /\ route' = IF p # Self(m) THEN route
                ELSE [route EXCEPT ![m] = [pc |-> "changed", name |-> p, knows |-> nextPw]]
    /\ UNCHANGED <<sessions, nextSid, cookie>>

ManagerDeletes(m, p) ==
    /\ Manage(m) /\ p # Self(m) /\ account[p].pw # 0
    /\ WithoutUser(p)
    /\ UNCHANGED <<nextPw, nextSid, cookie, route>>

AdminRevokes(b, p) ==
    /\ IsAdmin(b) /\ account[p].pw # 0
    /\ sessions' = [s \in Sids |->
          IF sessions[s] = p /\ ~(p = Self(b) /\ s = cookie[b].sid) THEN Nobody ELSE sessions[s]]
    /\ UNCHANGED <<account, nextPw, nextSid, cookie, route, changes>>

(* A session that is too old is deleted, by the request that finds it or by *)
(* the maintenance.                                                         *)
Expire(s) ==
    /\ sessions[s] # Nobody
    /\ sessions' = [sessions EXCEPT ![s] = Nobody]
    /\ UNCHANGED <<account, nextPw, nextSid, cookie, route, changes>>

-----------------------------------------------------------------------------

WebNext ==
    \/ \E b \in Browsers :
          \/ Visit(b) \/ LoginStamp(b) \/ LoginRow(b) \/ Logout(b)
          \/ ChangePassword(b) \/ WritePassword(b) \/ ChangeStamp(b)
          \/ RevokeOthers(b) \/ DeleteOwn(b)
          \/ \E p \in People : Login(b, p) \/ AdminRevokes(b, p)
    \/ \E m \in Browsers \cup {Cli}, p \in People :
          \/ SetsPassword(m, p) \/ ManagerDeletes(m, p)
          \/ \E role \in Roles : ManagerCreates(m, p, role) \/ SetsRole(m, p, role)
    \/ \E s \in Sids : Expire(s)

WebSpec == WebInit /\ [][WebNext]_webVars

-----------------------------------------------------------------------------
(* A changed password ends the sessions of whoever does not know it ("Other *)
(* sessions now invalid, current one stays because it has the new stamp"),  *)
(* unless the session was being opened, or its own change being written,    *)
(* while the password was changed from elsewhere: the stamp is read again   *)
(* after the password was checked.                                          *)
OldPasswordOut ==
    \A b \in Browsers :
        Valid(cookie[b]) /\ ~cookie[b].raced => cookie[b].knows = account[cookie[b].name].pw

(* A session belongs to one browser and to one user who exists: no row      *)
(* survives its user, and no two cookies share a row.                       *)
SessionsOwned ==
    /\ \A s \in Sids : sessions[s] # Nobody => account[sessions[s]].pw # 0
    /\ \A b, c \in Browsers : b # c /\ cookie[b].sid # 0 => cookie[b].sid # cookie[c].sid

(* What sessions promise: both hold.                                        *)
SessionsHold == OldPasswordOut /\ SessionsOwned
=============================================================================
