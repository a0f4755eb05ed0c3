------------------------------- MODULE Console -------------------------------
(***************************************************************************)
(* Who may use the console: signing in and out (drgtw-ui auth.rs over      *)
(* drgtw-ui-auth), the accounts of the team page, the tokens of the forms  *)
(* and the replay of a webhook delivery, over the users, sessions,         *)
(* audit_log and webhook_deliveries tables of drgtw-history.               *)
(*                                                                         *)
(* Signatures are taken to work: a cookie is what a login issued, a form   *)
(* token what a page rendered.  Hashing a password always succeeds.  The   *)
(* configured operator and the session key do not change.                  *)
(***************************************************************************)
EXTENDS Integers, SequencesExt

CONSTANTS Primary,       \* [ui.auth] username
          CoAdmins,      \* other names
          Passwords, PrimaryPassword,
          Ttl,           \* session_ttl_hours
          FirstDelivery, \* a delivery on record
          MaxUsers, MaxAudits, MaxReplays, MaxOutages, SessionsEnd \* bounds

Names == {Primary} \cup CoAdmins
Nobody == "_open_"

ASSUME ConsoleAssumption ==
    /\ Nobody \notin Names /\ Primary \notin CoAdmins
    /\ PrimaryPassword \in Passwords
    /\ Ttl \in Nat \ {0}
    /\ MaxUsers \in Nat /\ MaxAudits \in Nat /\ MaxReplays \in Nat /\ SessionsEnd \in Nat

VARIABLES signedIn,  \* whether [ui.auth] is configured
          gate,      \* PgGate: "connected" or "locked", decided at boot
          database,  \* "up" or "down"
          outages,
          hour,      \* wall clock
          users, nextUser,  \* table users and its sequence
          uiSessions,       \* table sessions
          audit_log, webhook_deliveries,
          login,     \* the sign-in under way: none or one
          cookies,   \* session cookies issued
          tokens,    \* names in the tokens of the forms rendered
          replay     \* the replay under way: none or one

tables == <<users, nextUser, uiSessions, audit_log, webhook_deliveries>>
consoleVars == <<signedIn, gate, database, outages, hour, tables, login, cookies, tokens, replay>>

ConsoleInit ==
    /\ signedIn \in BOOLEAN
    /\ gate = "connected" /\ database = "up" /\ outages = 0 /\ hour = 0
    /\ users = {} /\ nextUser = 1 /\ uiSessions = {}
    /\ audit_log = <<>> /\ webhook_deliveries = <<FirstDelivery>>
    /\ login = {} /\ cookies = {} /\ tokens = {} /\ replay = {}
-----------------------------------------------------------------------------
(* Signing in *)

\* append_audit: a failure is ignored.
Audited(action, actor) ==
    IF gate = "connected" /\ database = "up"
    THEN Append(audit_log, [action |-> action, actor |-> actor, at |-> hour]) ELSE audit_log

find_user(name) == IF database = "up" THEN {u \in users : u.username = name} ELSE {}

\* create_session: the key is the second, the user must still exist.
create_session(user) ==
    IF database = "up" /\ user \in {u.id : u \in users} /\ hour \notin {s.id : s \in uiSessions}
    THEN uiSessions \cup {[id |-> hour, user |-> user, expires |-> hour + Ttl]} ELSE uiSessions

\* post_login: the form's token is that of the configured operator; then the
\* configured operator, then the accounts.
Refuse(name) ==
    /\ audit_log' = Audited("login.failure", name)
    /\ UNCHANGED login
CheckLogin(name, password, token) ==
    LET isPrimary == name = Primary /\ password = PrimaryPassword
        matching == {u \in find_user(name) : u.password = password}
    IN /\ gate = "connected" /\ signedIn /\ login = {} /\ Len(audit_log) < MaxAudits
       /\ IF token # Primary \/ (~isPrimary /\ matching = {})
          THEN Refuse(name)
          ELSE /\ login' = {[name |-> name, user |-> IF isPrimary THEN {} ELSE {u.id : u \in matching},
                             step |-> IF isPrimary THEN "audit" ELSE "session", noted |-> FALSE]}
               /\ UNCHANGED audit_log
       /\ UNCHANGED <<signedIn, gate, database, outages, hour, users, nextUser, uiSessions,
                      webhook_deliveries, cookies, tokens, replay>>

RecordSession ==
    \E l \in login :
        /\ l.step = "session"
        /\ uiSessions' = create_session(CHOOSE id \in l.user : TRUE)
        /\ login' = {[l EXCEPT !.step = "audit"]}
        /\ UNCHANGED <<signedIn, gate, database, outages, hour, users, nextUser, audit_log,
                       webhook_deliveries, cookies, tokens, replay>>

\* Mutant: the entry names the configured operator, as that of a logout does.
AuditPrimaryLogin ==
    \E l \in login :
        /\ l.step = "audit"
        /\ audit_log' = Audited("login.success", Primary)
        /\ login' = {[l EXCEPT !.step = "mint", !.noted = database = "up"]}
        /\ UNCHANGED <<signedIn, gate, database, outages, hour, users, nextUser, uiSessions,
                       webhook_deliveries, cookies, tokens, replay>>

AuditLogin ==
    \E l \in login :
        /\ l.step = "audit"
        /\ audit_log' = Audited("login.success", l.name)
        /\ login' = {[l EXCEPT !.step = "mint", !.noted = database = "up"]}
        /\ UNCHANGED <<signedIn, gate, database, outages, hour, users, nextUser, uiSessions,
                       webhook_deliveries, cookies, tokens, replay>>

\* sign_session; `noted' observes whether the audit entry was kept.
MintCookie ==
    \E l \in login :
        /\ l.step = "mint"
        /\ cookies' = cookies \cup {[sub |-> l.name, exp |-> hour + Ttl, noted |-> l.noted]}
        /\ login' = {}
        /\ UNCHANGED <<signedIn, gate, database, outages, hour, tables, tokens, replay>>

verify_session(cookie) == hour < cookie.exp

\* post_logout clears the browser's cookie; the entry names the configured operator.
Logout(cookie) ==
    /\ gate = "connected" /\ signedIn /\ verify_session(cookie) /\ Len(audit_log) < MaxAudits
    /\ cookies' = cookies \ {cookie}
    /\ audit_log' = Audited("logout", Primary)
    /\ UNCHANGED <<signedIn, gate, database, outages, hour, users, nextUser, uiSessions, webhook_deliveries,
                   login, tokens, replay>>

\* auth_layer: the names a request passes under, Nobody where nobody signs in.
Admitted == IF gate # "connected" THEN {}
            ELSE IF signedIn THEN {c.sub : c \in {c \in cookies : verify_session(c)}} ELSE {Nobody}
-----------------------------------------------------------------------------
(* The pages and their forms *)

\* The name a page puts in its forms: the key pages take the configured operator,
\* the others whoever reads them.
FormName(page, reader) == IF page = "keys" /\ signedIn THEN Primary ELSE reader
\* The name a handler checks the token against.
CheckedName(page, sender) == IF page = "keys" /\ signedIn THEN Primary ELSE sender
csrf_ok(token, name) == ~signedIn \/ token = name

Read(page, reader) ==
    /\ tokens' = tokens \cup {FormName(page, reader)}
    /\ UNCHANGED <<signedIn, gate, database, outages, hour, tables, login, cookies, replay>>

Accepts(page, token, sender) == csrf_ok(token, CheckedName(page, sender))

\* team_create: the sequence gives out an id even if the name is taken.
TeamCreate(token, sender, name, password) ==
    LET creates == Accepts("team", token, sender) /\ name # "" /\ password # "" /\ database = "up"
    IN /\ nextUser <= MaxUsers
       /\ users' = IF creates /\ name \notin {u.username : u \in users}
                   THEN users \cup {[id |-> nextUser, username |-> name, password |-> password]} ELSE users
       /\ nextUser' = IF creates THEN nextUser + 1 ELSE nextUser
       /\ UNCHANGED <<signedIn, gate, database, outages, hour, uiSessions, audit_log, webhook_deliveries,
                      login, cookies, tokens, replay>>

\* team_delete takes no token; the sessions go with the user.
TeamDelete(id) ==
    /\ database = "up"
    /\ users' = {u \in users : u.id # id}
    /\ uiSessions' = {s \in uiSessions : s.user # id}
    /\ UNCHANGED <<signedIn, gate, database, outages, hour, nextUser, audit_log, webhook_deliveries,
                   login, cookies, tokens, replay>>

\* webhooks_replay: the row is read, its payload POSTed, the attempt recorded.
SendReplay(token, sender, id) ==
    /\ replay = {} /\ Len(webhook_deliveries) <= MaxReplays
    /\ replay' = IF Accepts("webhooks", token, sender) /\ database = "up" /\ id \in DOMAIN webhook_deliveries
                 THEN {[of |-> id, row |-> webhook_deliveries[id]]} ELSE {}
    /\ UNCHANGED <<signedIn, gate, database, outages, hour, tables, login, cookies, tokens>>

EndReplay ==
    \E r \in replay, answer \in {"success", "refused", "none"} :
        /\ webhook_deliveries' = IF database = "up"
             THEN Append(webhook_deliveries,
                         [replayOf |-> r.of, status |-> answer, ok |-> answer = "success",
                          attempt |-> r.row.attempt + 1, payload |-> r.row.payload])
             ELSE webhook_deliveries
        /\ replay' = {}
        /\ UNCHANGED <<signedIn, gate, database, outages, hour, users, nextUser, uiSessions, audit_log,
                       login, cookies, tokens>>
-----------------------------------------------------------------------------
HourPasses ==
    /\ hour < SessionsEnd
    /\ hour' = hour + 1
    /\ UNCHANGED <<signedIn, gate, database, outages, tables, login, cookies, tokens, replay>>

Outage ==
    /\ database = "up" => outages < MaxOutages
    /\ database' = IF database = "up" THEN "down" ELSE "up"
    /\ outages' = IF database = "up" THEN outages + 1 ELSE outages
    /\ UNCHANGED <<signedIn, gate, hour, tables, login, cookies, tokens, replay>>

\* build_pg_gate; what was under way is lost, cookies and forms are the browser's.
Reboot ==
    /\ gate' = IF database = "up" THEN "connected" ELSE "locked"
    /\ login' = {} /\ replay' = {}
    /\ UNCHANGED <<signedIn, database, outages, hour, tables, cookies, tokens>>

ConsoleNext ==
    \/ \E name \in Names, password \in Passwords, token \in {Primary, "other"} : CheckLogin(name, password, token)
    \/ RecordSession \/ AuditLogin \/ MintCookie
    \/ \E cookie \in cookies : Logout(cookie)
    \/ \E reader \in Admitted, p \in {"keys", "team", "webhooks"} : Read(p, reader)
    \/ \E sender \in Admitted, token \in tokens :
        \/ \E name \in CoAdmins \cup {""}, password \in Passwords \cup {""} : TeamCreate(token, sender, name, password)
        \/ \E id \in DOMAIN webhook_deliveries \cup {0} : SendReplay(token, sender, id)
    \/ Admitted # {} /\ \E id \in 1 .. MaxUsers : TeamDelete(id)
    \/ EndReplay \/ HourPasses \/ Outage \/ Reboot

ConsoleSpec == ConsoleInit /\ [][ConsoleNext]_consoleVars
-----------------------------------------------------------------------------
(* Whoever holds a session cookie signed in under its name: the audit log    *)
(* has that success, no later than the cookie was issued, unless the         *)
(* database lost the entry (auth.rs post_login, pg append_audit).            *)
SignInAudited ==
    \A c \in cookies : c.noted =>
        \E i \in DOMAIN audit_log :
            /\ audit_log[i].action = "login.success"
            /\ audit_log[i].actor = c.sub /\ audit_log[i].at + Ttl <= c.exp
=============================================================================
