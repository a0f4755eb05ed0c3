---------------------------- MODULE ConsoleProofs ----------------------------
(***************************************************************************)
(* Theorems about the console: who holds a session cookie has signed in    *)
(* (Console), a key saved from a form allows no more than the form did     *)
(* (KeyForm), and the numbers of a page over the usage history agree       *)
(* (History).  The three share no state.                                   *)
(***************************************************************************)
EXTENDS Console, KeyForm, History, FiniteSetTheorems, SequenceTheorems, NaturalsInduction,
        WellFoundedInduction, TLAPS

Actions == {"login.success", "login.failure", "logout"}
AuditEntry == [action : Actions, actor : Names, at : Nat]
LoginStep == [name : Names, user : SUBSET Nat, step : {"session", "audit", "mint"}, noted : BOOLEAN]
Cookie == [sub : Names, exp : Nat, noted : BOOLEAN]

ConsoleTypePart ==
    /\ signedIn \in BOOLEAN /\ gate \in {"connected", "locked"} /\ database \in {"up", "down"}
    /\ hour \in Nat
    /\ nextUser \in Nat /\ \A u \in users : u.id \in Nat
    /\ audit_log \in Seq(AuditEntry)
    /\ login \subseteq LoginStep /\ cookies \subseteq Cookie

\* Nobody is signing in while the gate is locked.
GatePart == login # {} => gate = "connected"

\* The log has a sign-in under this name, by that hour.
Success(log, name, latest) ==
    \E i \in DOMAIN log :
        log[i].action = "login.success" /\ log[i].actor = name /\ log[i].at <= latest

\* Whoever is about to get a cookie has been noted in the log.
NotedPart == \A l \in login : l.step = "mint" /\ l.noted => Success(audit_log, l.name, hour)

\* A cookie expires a session's length after the hour it was issued in.
IssuedPart == \A c \in cookies : c.noted =>
    \E h \in Nat : c.exp = h + Ttl /\ Success(audit_log, c.sub, h)

ConsoleIInv == ConsoleTypePart /\ GatePart /\ NotedPart /\ IssuedPart

\* What a log has, it still has later,
LEMMA SuccessLater ==
    ASSUME NEW log \in Seq(AuditEntry), NEW name, NEW latest \in Nat, NEW later \in Nat,
           latest <= later, Success(log, name, latest)
    PROVE  Success(log, name, later)
<1>1. PICK i \in DOMAIN log :
          log[i].action = "login.success" /\ log[i].actor = name /\ log[i].at <= latest
  BY DEF Success
<1>2. log[i] \in AuditEntry
  OBVIOUS
<1>3. log[i].at \in Nat
  BY <1>2 DEF AuditEntry
<1>4. log[i].at <= later
  BY <1>1, <1>3
<1> QED
  BY <1>1, <1>4 DEF Success

\* and when it has grown.
LEMMA SuccessKept ==
    ASSUME NEW log \in Seq(AuditEntry), NEW entry \in AuditEntry, NEW name, NEW latest \in Nat, NEW later \in Nat,
           latest <= later, Success(log, name, latest)
    PROVE  Success(Append(log, entry), name, later)
<1>1. PICK i \in DOMAIN log :
          log[i].action = "login.success" /\ log[i].actor = name /\ log[i].at <= later
  BY SuccessLater DEF Success
<1>2. Append(log, entry)[i] = log[i] /\ i \in DOMAIN Append(log, entry)
  OBVIOUS
<1> QED
  BY <1>1, <1>2 DEF Success

\* An entry that is made is the last one of the log.
LEMMA SuccessMade ==
    ASSUME NEW log \in Seq(AuditEntry), NEW name \in Names, NEW now \in Nat
    PROVE  Success(Append(log, [action |-> "login.success", actor |-> name, at |-> now]), name, now)
<1> DEFINE entry == [action |-> "login.success", actor |-> name, at |-> now]
<1>1. Len(log) + 1 \in DOMAIN Append(log, entry) /\ Append(log, entry)[Len(log) + 1] = entry
  OBVIOUS
<1>2. entry.action = "login.success" /\ entry.actor = name /\ entry.at <= now
  OBVIOUS
<1> QED
  BY <1>1, <1>2 DEF Success

LEMMA ConsoleInitHolds == ConsoleInit => ConsoleIInv
  BY DEF ConsoleInit, ConsoleIInv, ConsoleTypePart, GatePart, NotedPart, IssuedPart

\* The log grows by an entry or stays.
Grows(log, new) == new = log \/ \E entry \in AuditEntry : new = Append(log, entry)

LEMMA AuditedGrows ==
    ASSUME ConsoleTypePart, NEW action \in Actions, NEW actor \in Names
    PROVE  Grows(audit_log, Audited(action, actor))
<1>1. [action |-> action, actor |-> actor, at |-> hour] \in AuditEntry
  BY DEF AuditEntry, ConsoleTypePart
<1> QED
  BY <1>1 DEF Grows, Audited

LEMMA LogGrown ==
    ASSUME NEW log \in Seq(AuditEntry), NEW new, Grows(log, new)
    PROVE  /\ new \in Seq(AuditEntry)
           /\ \A name : \A latest, later \in Nat :
                 latest <= later /\ Success(log, name, latest) => Success(new, name, later)
<1>1. CASE new = log
  <2>1. ASSUME NEW name, NEW latest \in Nat, NEW later \in Nat, latest <= later, Success(log, name, latest)
        PROVE  Success(log, name, later)
    BY <2>1, SuccessLater
  <2> QED
    BY <1>1, <2>1
<1>2. CASE \E entry \in AuditEntry : new = Append(log, entry)
  BY <1>2, SuccessKept
<1> QED
  BY <1>1, <1>2 DEF Grows

\* The log may grow and time pass: what was noted stays noted.
LEMMA StillNoted ==
    ASSUME ConsoleIInv, Grows(audit_log, audit_log'), hour' \in Nat, hour <= hour',
           \A l \in login' : l.step = "mint" => l \in login,
           cookies' \subseteq cookies
    PROVE  audit_log' \in Seq(AuditEntry) /\ NotedPart' /\ IssuedPart'
<1>1. /\ audit_log' \in Seq(AuditEntry)
      /\ \A name : \A latest, later \in Nat :
            latest <= later /\ Success(audit_log, name, latest) => Success(audit_log', name, later)
  BY LogGrown DEF ConsoleIInv, ConsoleTypePart
<1>2. hour \in Nat
  BY DEF ConsoleIInv, ConsoleTypePart
<1>3. ASSUME NEW l \in login', l.step = "mint", l.noted
      PROVE  Success(audit_log', l.name, hour')
  <2>1. Success(audit_log, l.name, hour)
    BY <1>3 DEF ConsoleIInv, NotedPart
  <2> QED
    BY <1>1, <1>2, <2>1
<1>4. ASSUME NEW c \in cookies', c.noted
      PROVE  \E h \in Nat : c.exp = h + Ttl /\ Success(audit_log', c.sub, h)
  <2>1. PICK h \in Nat : c.exp = h + Ttl /\ Success(audit_log, c.sub, h)
    BY <1>4 DEF ConsoleIInv, IssuedPart
  <2>2. Success(audit_log', c.sub, h)
    BY <1>1, <2>1
  <2> QED
    BY <2>1, <2>2
<1> QED
  BY <1>1, <1>3, <1>4 DEF NotedPart, IssuedPart

\* What most steps leave alone.
LEMMA NothingNoted ==
    ASSUME ConsoleIInv, hour' \in Nat, hour <= hour', login' \subseteq login, cookies' \subseteq cookies,
           audit_log' = audit_log
    PROVE  audit_log' \in Seq(AuditEntry) /\ NotedPart' /\ IssuedPart'
  BY StillNoted DEF Grows

LEMMA CheckLoginStep ==
    ASSUME ConsoleIInv, NEW name \in Names, NEW password, NEW token, CheckLogin(name, password, token)
    PROVE  ConsoleIInv'
<1> USE DEF ConsoleIInv
<1> DEFINE isPrimary == name = Primary /\ password = PrimaryPassword
           matching == {u \in find_user(name) : u.password = password}
           begun == [name |-> name, user |-> IF isPrimary THEN {} ELSE {u.id : u \in matching},
                     step |-> IF isPrimary THEN "audit" ELSE "session", noted |-> FALSE]
<1>1. /\ gate = "connected" /\ signedIn /\ login = {}
      /\ \/ audit_log' = Audited("login.failure", name) /\ login' = login
         \/ login' = {begun} /\ audit_log' = audit_log
      /\ UNCHANGED <<signedIn, gate, database, hour, users, nextUser, cookies>>
  BY DEF CheckLogin, Refuse
<1>2. begun \in LoginStep /\ begun.step # "mint"
  <2>1. {u.id : u \in matching} \subseteq Nat
    BY DEF ConsoleTypePart, find_user
  <2> QED
    BY <2>1 DEF LoginStep
<1>3. Grows(audit_log, audit_log')
  <2>1. "login.failure" \in Actions /\ ConsoleTypePart
    BY DEF Actions
  <2>2. Grows(audit_log, Audited("login.failure", name))
    BY <2>1, AuditedGrows
  <2>3. Grows(audit_log, audit_log)
    BY DEF Grows
  <2> QED
    BY <1>1, <2>2, <2>3
<1>4. \A l \in login' : l \in LoginStep /\ (l.step = "mint" => l \in login)
  BY <1>1, <1>2
<1>5. audit_log' \in Seq(AuditEntry) /\ NotedPart' /\ IssuedPart'
  BY <1>1, <1>3, <1>4, StillNoted DEF ConsoleTypePart
<1>6. ConsoleTypePart'
  BY <1>1, <1>4, <1>5 DEF ConsoleTypePart
<1>7. GatePart'
  BY <1>1 DEF GatePart
<1> QED
  BY <1>5, <1>6, <1>7

LEMMA AuditLoginStep ==
    ASSUME ConsoleIInv, AuditLogin
    PROVE  ConsoleIInv'
<1> USE DEF ConsoleIInv
<1>1. PICK l \in login :
          /\ l.step = "audit"
          /\ audit_log' = Audited("login.success", l.name)
          /\ login' = {[l EXCEPT !.step = "mint", !.noted = database = "up"]}
          /\ UNCHANGED <<signedIn, gate, database, hour, users, nextUser, cookies>>
  BY DEF AuditLogin
<1> DEFINE after == [l EXCEPT !.step = "mint", !.noted = database = "up"]
<1>2. l \in LoginStep /\ l.name \in Names
  BY DEF ConsoleTypePart, LoginStep
<1>3. after \in LoginStep /\ after.name = l.name /\ after.noted = (database = "up")
  BY <1>2 DEF LoginStep
<1>4. Grows(audit_log, audit_log')
  <2>1. "login.success" \in Actions /\ ConsoleTypePart
    BY DEF Actions
  <2>2. Grows(audit_log, Audited("login.success", l.name))
    BY <1>2, <2>1, AuditedGrows
  <2> QED
    BY <1>1, <2>2
<1>5. audit_log \in Seq(AuditEntry) /\ hour \in Nat
  BY DEF ConsoleTypePart
<1>6. /\ audit_log' \in Seq(AuditEntry)
      /\ \A name : \A latest, later \in Nat :
            latest <= later /\ Success(audit_log, name, latest) => Success(audit_log', name, later)
  BY <1>4, <1>5, LogGrown
<1>7. NotedPart'
  <2>1. ASSUME database = "up" PROVE Success(audit_log', l.name, hour)
    <3>1. gate = "connected"
      BY DEF GatePart
    <3>2. audit_log' = Append(audit_log, [action |-> "login.success", actor |-> l.name, at |-> hour])
      BY <1>1, <2>1, <3>1 DEF Audited
    <3> QED
      BY <1>2, <1>5, <3>2, SuccessMade
  <2>2. login' = {after} /\ hour' = hour
    BY <1>1
  <2> HIDE DEF after
  <2>3. \A k \in login' : k.noted => Success(audit_log', k.name, hour')
    BY <1>3, <2>1, <2>2
  <2> QED
    BY <2>3 DEF NotedPart
<1>8. IssuedPart'
  <2>1. ASSUME NEW c \in cookies', c.noted
        PROVE  \E h \in Nat : c.exp = h + Ttl /\ Success(audit_log', c.sub, h)
    <3>1. PICK h \in Nat : c.exp = h + Ttl /\ Success(audit_log, c.sub, h)
      BY <1>1, <2>1 DEF IssuedPart
    <3>2. Success(audit_log', c.sub, h)
      BY <1>6, <3>1
    <3> QED
      BY <3>1, <3>2
  <2> QED
    BY <2>1 DEF IssuedPart
<1>9. ConsoleTypePart'
  BY <1>1, <1>3, <1>6 DEF ConsoleTypePart
<1>10. GatePart'
  BY <1>1 DEF GatePart
<1> QED
  BY <1>7, <1>8, <1>9, <1>10

LEMMA MintCookieStep ==
    ASSUME ConsoleIInv, MintCookie
    PROVE  ConsoleIInv'
<1> USE DEF ConsoleIInv
<1>1. PICK l \in login :
          /\ l.step = "mint"
          /\ cookies' = cookies \cup {[sub |-> l.name, exp |-> hour + Ttl, noted |-> l.noted]}
          /\ login' = {}
          /\ UNCHANGED <<signedIn, gate, database, hour, tables>>
  BY DEF MintCookie
<1> DEFINE minted == [sub |-> l.name, exp |-> hour + Ttl, noted |-> l.noted]
<1>2. l \in LoginStep /\ hour \in Nat /\ Ttl \in Nat
  BY ConsoleAssumption DEF ConsoleTypePart
<1>3. minted \in Cookie
  BY <1>2 DEF LoginStep, Cookie
<1>4. l.noted => Success(audit_log, l.name, hour)
  BY <1>1 DEF NotedPart
<1>5. IssuedPart'
  <2>1. ASSUME NEW c \in cookies', c.noted
        PROVE  \E h \in Nat : c.exp = h + Ttl /\ Success(audit_log, c.sub, h)
    <3>1. CASE c = minted
      BY <1>2, <1>4, <2>1, <3>1
    <3>2. CASE c \in cookies
      BY <2>1, <3>2 DEF IssuedPart
    <3> QED
      BY <1>1, <2>1, <3>1, <3>2
  <2>2. audit_log' = audit_log
    BY <1>1 DEF tables
  <2> QED
    BY <2>1, <2>2 DEF IssuedPart
<1>6. ConsoleTypePart'
  BY <1>1, <1>3 DEF ConsoleTypePart, tables
<1> QED
  BY <1>1, <1>5, <1>6 DEF GatePart, NotedPart

LEMMA LogoutStep ==
    ASSUME ConsoleIInv, NEW cookie \in cookies, Logout(cookie)
    PROVE  ConsoleIInv'
<1> USE DEF ConsoleIInv
<1>1. /\ cookies' = cookies \ {cookie}
      /\ audit_log' = Audited("logout", Primary)
      /\ UNCHANGED <<signedIn, gate, database, hour, users, nextUser, login>>
  BY DEF Logout
<1>2. Grows(audit_log, audit_log')
  <2>1. "logout" \in Actions /\ Primary \in Names /\ ConsoleTypePart
    BY DEF Actions, Names
  <2>2. Grows(audit_log, Audited("logout", Primary))
    BY <2>1, AuditedGrows
  <2> QED
    BY <1>1, <2>2
<1>3. audit_log' \in Seq(AuditEntry) /\ NotedPart' /\ IssuedPart'
  BY <1>1, <1>2, StillNoted DEF ConsoleTypePart
<1>4. ConsoleTypePart'
  BY <1>1, <1>3 DEF ConsoleTypePart
<1> QED
  BY <1>1, <1>3, <1>4 DEF GatePart

\* Steps that neither write the log nor issue a cookie.
LEMMA SilentStep ==
    ASSUME ConsoleIInv, audit_log' = audit_log, cookies' = cookies, signedIn' = signedIn,
           gate' \in {"connected", "locked"}, database' \in {"up", "down"},
           hour' \in Nat, hour <= hour',
           nextUser' \in Nat, \A u \in users' : u.id \in Nat,
           login' = {} \/ (login' = login /\ gate' = gate)
    PROVE  ConsoleIInv'
<1> USE DEF ConsoleIInv
<1>1. NotedPart' /\ IssuedPart'
  BY NothingNoted
<1>2. ConsoleTypePart'
  BY DEF ConsoleTypePart
<1> QED
  BY <1>1, <1>2 DEF GatePart

LEMMA ConsoleStep ==
    ASSUME ConsoleIInv, [ConsoleNext]_consoleVars
    PROVE  ConsoleIInv'
<1>0. /\ gate \in {"connected", "locked"} /\ database \in {"up", "down"} /\ hour \in Nat /\ hour + 1 \in Nat
      /\ nextUser \in Nat /\ nextUser + 1 \in Nat /\ \A u \in users : u.id \in Nat
      /\ hour <= hour /\ hour <= hour + 1
  BY DEF ConsoleIInv, ConsoleTypePart
<1>1. ASSUME NEW name \in Names, NEW password, NEW token, CheckLogin(name, password, token)
      PROVE  ConsoleIInv'
  BY <1>1, CheckLoginStep
<1>2. CASE RecordSession
  <2>1. PICK l \in login :
            /\ l.step = "session"
            /\ login' = {[l EXCEPT !.step = "audit"]}
            /\ UNCHANGED <<signedIn, gate, database, hour, users, nextUser, audit_log, cookies>>
    BY <1>2 DEF RecordSession
  <2> DEFINE after == [l EXCEPT !.step = "audit"]
  <2>2. after \in LoginStep /\ after.step = "audit"
    BY DEF ConsoleIInv, ConsoleTypePart, LoginStep
  <2>3. \A k \in login' : k \in LoginStep /\ k.step # "mint"
    BY <2>1, <2>2
  <2>4. NotedPart'
    BY <2>3 DEF NotedPart
  <2>5. IssuedPart'
    BY <2>1 DEF IssuedPart, ConsoleIInv
  <2> QED
    BY <2>1, <2>3, <2>4, <2>5 DEF ConsoleIInv, ConsoleTypePart, GatePart
<1>3. CASE AuditLogin
  BY <1>3, AuditLoginStep
<1>4. CASE MintCookie
  BY <1>4, MintCookieStep
<1>5. ASSUME NEW cookie \in cookies, Logout(cookie) PROVE ConsoleIInv'
  BY <1>5, LogoutStep
<1>6. ASSUME NEW reader, NEW p, Read(p, reader) PROVE ConsoleIInv'
  BY <1>0, <1>6, SilentStep DEF Read, tables
<1>7. ASSUME NEW sender, NEW token, NEW name, NEW password, TeamCreate(token, sender, name, password)
      PROVE  ConsoleIInv'
  <2>1. nextUser' \in {nextUser, nextUser + 1}
    BY <1>7 DEF TeamCreate
  <2>2. users' = users \/ users' = users \cup {[id |-> nextUser, username |-> name, password |-> password]}
    BY <1>7 DEF TeamCreate
  <2>3. nextUser' \in Nat
    BY <1>0, <2>1
  <2>4. \A u \in users' : u.id \in Nat
    BY <1>0, <2>2
  <2> QED
    BY <1>0, <1>7, <2>3, <2>4, SilentStep DEF TeamCreate
<1>8. ASSUME NEW sender, NEW token, NEW id, SendReplay(token, sender, id) PROVE ConsoleIInv'
  BY <1>0, <1>8, SilentStep DEF SendReplay, tables
<1>9. ASSUME NEW id, TeamDelete(id) PROVE ConsoleIInv'
  BY <1>0, <1>9, SilentStep DEF TeamDelete
<1>10. CASE EndReplay
  BY <1>0, <1>10, SilentStep DEF EndReplay
<1>11. CASE HourPasses
  BY <1>0, <1>11, SilentStep DEF HourPasses, tables
<1>12. CASE Outage
  BY <1>0, <1>12, SilentStep DEF Outage, tables
<1>13. CASE Reboot
  BY <1>0, <1>13, SilentStep DEF Reboot, tables
<1>14. CASE UNCHANGED consoleVars
  BY <1>0, <1>14, SilentStep DEF consoleVars, tables
<1> QED
  BY <1>1, <1>2, <1>3, <1>4, <1>5, <1>6, <1>7, <1>8, <1>9, <1>10, <1>11, <1>12, <1>13, <1>14 DEF ConsoleNext

LEMMA ConsoleImplied == ConsoleIInv => SignInAudited
<1> SUFFICES ASSUME ConsoleIInv, NEW c \in cookies, c.noted
             PROVE  \E i \in DOMAIN audit_log :
                       /\ audit_log[i].action = "login.success"
                       /\ audit_log[i].actor = c.sub /\ audit_log[i].at + Ttl <= c.exp
  BY DEF SignInAudited
<1>1. PICK h \in Nat : c.exp = h + Ttl /\ Success(audit_log, c.sub, h)
  BY DEF ConsoleIInv, IssuedPart
<1>2. PICK i \in DOMAIN audit_log :
          audit_log[i].action = "login.success" /\ audit_log[i].actor = c.sub /\ audit_log[i].at <= h
  BY <1>1 DEF Success
<1>3. audit_log[i] \in AuditEntry
  BY DEF ConsoleIInv, ConsoleTypePart
<1>4. audit_log[i].at \in Nat /\ Ttl \in Nat
  BY <1>3, ConsoleAssumption DEF AuditEntry
<1>5. audit_log[i].at + Ttl <= c.exp
  BY <1>1, <1>2, <1>4
<1> QED
  BY <1>2, <1>5

\* A login under way, the log and the cookies agree at every step of a sign-in,
\* with the database coming and going and the gateway restarting in between.
THEOREM ConsoleInductive == ConsoleSpec => []ConsoleIInv
  BY ConsoleInitHolds, ConsoleStep, PTL DEF ConsoleSpec

\* Whoever holds a session cookie signed in under its name, which the audit log has
\* unless the database lost the entry.
THEOREM AuditedHolds == ConsoleSpec => []SignInAudited
  BY ConsoleInductive, ConsoleImplied, PTL
-----------------------------------------------------------------------------
(* The form of a key *)

IsSeq(s) == s \in Seq(ToSet(s))

\* The values of a field over the lines of an entry.
Values(lines, field) == {lines[i].value : i \in {i \in DOMAIN lines : lines[i].field = field}}

LEMMA ValuesOfConcat ==
    ASSUME NEW S, NEW s \in Seq(S), NEW t \in Seq(S), NEW field
    PROVE  Values(s \o t, field) = Values(s, field) \cup Values(t, field) /\ s \o t \in Seq(S)
<1>1. /\ s \o t \in Seq(S) /\ DOMAIN (s \o t) = 1 .. Len(s) + Len(t)
      /\ DOMAIN s = 1 .. Len(s) /\ DOMAIN t = 1 .. Len(t) /\ Len(s) \in Nat /\ Len(t) \in Nat
      /\ \A i \in 1 .. Len(s) : (s \o t)[i] = s[i]
      /\ \A i \in 1 .. Len(t) : (s \o t)[Len(s) + i] = t[i]
  OBVIOUS
<1>2. ASSUME NEW v \in Values(s \o t, field) PROVE v \in Values(s, field) \cup Values(t, field)
  <2>1. PICK i \in DOMAIN (s \o t) : (s \o t)[i].field = field /\ v = (s \o t)[i].value
    BY <1>2 DEF Values
  <2>2. CASE i <= Len(s)
    <3>1. i \in DOMAIN s /\ (s \o t)[i] = s[i]
      BY <1>1, <2>1, <2>2
    <3> QED
      BY <2>1, <3>1 DEF Values
  <2>3. CASE i > Len(s)
    <3>1. i - Len(s) \in DOMAIN t /\ Len(s) + (i - Len(s)) = i
      BY <1>1, <2>1, <2>3
    <3>2. (s \o t)[i] = t[i - Len(s)]
      BY <1>1, <3>1
    <3> QED
      BY <2>1, <3>1, <3>2 DEF Values
  <2> QED
    BY <1>1, <2>1, <2>2, <2>3
<1>3. ASSUME NEW v \in Values(s, field) PROVE v \in Values(s \o t, field)
  <2>1. PICK i \in DOMAIN s : s[i].field = field /\ v = s[i].value
    BY <1>3 DEF Values
  <2>2. i \in DOMAIN (s \o t) /\ (s \o t)[i] = s[i]
    BY <1>1, <2>1
  <2> QED
    BY <2>1, <2>2 DEF Values
<1>4. ASSUME NEW v \in Values(t, field) PROVE v \in Values(s \o t, field)
  <2>1. PICK i \in DOMAIN t : t[i].field = field /\ v = t[i].value
    BY <1>4 DEF Values
  <2>2. Len(s) + i \in DOMAIN (s \o t) /\ (s \o t)[Len(s) + i] = t[i]
    BY <1>1, <2>1
  <2> QED
    BY <2>1, <2>2 DEF Values
<1> QED
  BY <1>1, <1>2, <1>3, <1>4

LEMMA ValuesOfOne ==
    ASSUME NEW field, NEW value, NEW other
    PROVE  Values(<<Line(field, value)>>, other) = IF other = field THEN {value} ELSE {}
<1>1. DOMAIN <<Line(field, value)>> = {1} /\ <<Line(field, value)>>[1] = Line(field, value)
  OBVIOUS
<1>2. Line(field, value).field = field /\ Line(field, value).value = value
  BY DEF Line
<1> HIDE DEF Line
<1> QED
  BY <1>1, <1>2 DEF Values

\* An optional line is there for the one value, if there is one.
LEMMA ValuesOfOptional ==
    ASSUME NEW field, NEW values, AtMostOne(values), NEW other
    PROVE  Values(Optional(field, values), other) = IF other = field THEN values ELSE {}
<1>1. CASE values = {}
  BY <1>1 DEF Optional, Values
<1>2. CASE values # {}
  <2>1. values = {CHOOSE v \in values : TRUE}
    BY <1>2 DEF AtMostOne
  <2> QED
    BY <1>2, <2>1, ValuesOfOne DEF Optional
<1> QED
  BY <1>1, <1>2

LEMMA OptionalIsSeq ==
    ASSUME NEW S, NEW field, NEW values, \A v \in values : Line(field, v) \in S
    PROVE  Optional(field, values) \in Seq(S)
<1>1. CASE values = {}
  BY <1>1 DEF Optional
<1>2. CASE values # {}
  <2>1. (CHOOSE v \in values : TRUE) \in values
    BY <1>2
  <2> QED
    BY <1>2, <2>1 DEF Optional
<1> QED
  BY <1>1, <1>2

\* Of lines without headers the reader takes every value of a field.
LEMMA ReadOfPlain ==
    ASSUME NEW S, NEW lines \in Seq(S), \A i \in DOMAIN lines : ~lines[i].header
    PROVE  LET k == ReadEntry(lines) IN
           /\ k.key = (CHOOSE v \in Values(lines, "key") : TRUE)
           /\ k.connections = (CHOOSE v \in Values(lines, "connections") : TRUE)
           /\ k.models = Values(lines, "models") /\ k.mcp_servers = Values(lines, "mcp_servers")
           /\ k.rate_limit = Values(lines, "rate_limit") /\ k.budget = Values(lines, "budget")
           /\ k.allow_pii_bypass = FALSE
<1> DEFINE own == {i \in DOMAIN lines : lines[i].header \/ \A j \in 1 .. i : ~lines[j].header}
           At(field) == {lines[i].value : i \in {j \in own : lines[j].field = field}}
<1>1. own = DOMAIN lines
  <2>1. \A i \in DOMAIN lines : \A j \in 1 .. i : j \in DOMAIN lines
    OBVIOUS
  <2> QED
    BY <2>1
<1>2. \A field : At(field) = Values(lines, field)
  BY <1>1 DEF Values
<1> QED
  BY <1>2 DEF ReadEntry

\* A set of numbers that is not empty has a least one.
LEMMA LeastExists ==
    ASSUME NEW S \in SUBSET Nat, S # {}
    PROVE  \E m \in S : \A n \in S : m <= n
<1> DEFINE R == OpToRel(<, Nat)
<1>1. IsWellFoundedOn(R, Nat)
  BY NatLessThanWellFounded
<1>2. \A m, n \in Nat : m < n => <<m, n>> \in R
  BY DEF OpToRel
<1> HIDE DEF R
<1>3. PICK m \in S : \A n \in S : ~(<<n, m>> \in R)
  BY <1>1, WFMin
<1>4. ASSUME NEW n \in S PROVE m <= n
  <2>1. m \in Nat /\ n \in Nat
    OBVIOUS
  <2>2. ~(n < m)
    BY <1>2, <1>3, <2>1, Zenon
  <2>3. QED
    BY <2>1, <2>2
<1>5. QED
  BY <1>4

\* The last ticked box is one that is ticked, and there is one when any is.
LEMMA LastTickedIs ==
    ASSUME NEW boxes, IsSeq(boxes), NEW ticked
    PROVE  /\ LastTicked(ticked, boxes) \subseteq ticked
           /\ AtMostOne(LastTicked(ticked, boxes))
           /\ ticked \cap ToSet(boxes) # {} => LastTicked(ticked, boxes) # {}
<1> DEFINE Hits == {i \in DOMAIN boxes : boxes[i] \in ticked}
<1>1. DOMAIN boxes = 1 .. Len(boxes) /\ Len(boxes) \in Nat
  BY DEF IsSeq
<1>2. LastTicked(ticked, boxes) = {boxes[i] : i \in {i \in Hits : \A j \in Hits : j <= i}}
  BY DEF LastTicked
<1>3. AtMostOne(LastTicked(ticked, boxes))
  <2>1. \A i, k \in Hits : (\A j \in Hits : j <= i) /\ (\A j \in Hits : j <= k) => i = k
    BY <1>1
  <2> QED
    BY <1>2, <2>1 DEF AtMostOne
<1>4. ASSUME ticked \cap ToSet(boxes) # {} PROVE LastTicked(ticked, boxes) # {}
  <2>1. PICK i \in DOMAIN boxes : boxes[i] \in ticked
    BY <1>4 DEF ToSet
  <2> DEFINE Back == {Len(boxes) - h : h \in Hits}
  <2>2. Back \in SUBSET Nat /\ Back # {}
    BY <1>1, <2>1
  <2>3. \E m \in Back : \A n \in Back : m <= n
    BY <2>2, LeastExists
  <2>4. PICK h \in Hits : \A k \in Hits : Len(boxes) - h <= Len(boxes) - k
    BY <2>3
  <2>5. \A k \in Hits : k <= h
    BY <1>1, <2>4
  <2> QED
    BY <1>2, <2>4, <2>5
<1> QED
  BY <1>2, <1>3, <1>4

\* A limit is the one of its two numbers.
LEMMA LimitOfOne ==
    ASSUME NEW first, NEW second, AtMostOne(first), AtMostOne(second)
    PROVE  AtMostOne(Limit(<<first, second>>))
<1>1. ASSUME NEW p \in Limit(<<first, second>>), NEW q \in Limit(<<first, second>>) PROVE p = q
  <2>1. p \in first \X second /\ q \in first \X second
    BY DEF Limit
  <2> QED
    BY <2>1 DEF AtMostOne
<1> QED
  BY <1>1 DEF AtMostOne

\* What is made of a form: its fields, each with its one value.
LEMMA MadeIs ==
    ASSUME NEW f, NEW boxes, NEW k \in build_key_from_form(f, boxes),
           IsSeq(boxes.connection), IsSeq(boxes.mcp_server),
           AtMostOne(f.rl_requests), AtMostOne(f.rl_per_seconds),
           AtMostOne(f.budget_max_usd), AtMostOne(f.budget_per_seconds)
    PROVE  /\ k.key = f.key /\ f.key \in PrefixedKeys
           /\ \E c \in LastTicked(f.connection, boxes.connection) : k.connections = <<c>>
           /\ k.models = {f.models} \ {<<>>}
           /\ k.mcp_servers = {<<m>> : m \in LastTicked(f.mcp_server, boxes.mcp_server)}
           /\ k.rate_limit = Limit(RateNumbers(f)) /\ AtMostOne(k.rate_limit)
           /\ k.budget = Limit(BudgetNumbers(f)) /\ AtMostOne(k.budget)
           /\ k.allow_pii_bypass = FALSE
<1> DEFINE connection == LastTicked(f.connection, boxes.connection)
           mcp == LastTicked(f.mcp_server, boxes.mcp_server)
           cs == {<<c>> : c \in connection}
           ms == {f.models} \ {<<>>}
           ss == {<<m>> : m \in mcp}
           rs == Limit(RateNumbers(f))
           bs == Limit(BudgetNumbers(f))
           Names6 == {"key", "connections", "models", "mcp_servers", "rate_limit", "budget"}
           S == {Line(g, v) : g \in Names6, v \in {f.key} \cup cs \cup ms \cup ss \cup rs \cup bs}
           l1 == <<Line("key", f.key)>>
           l2 == Optional("connections", cs)
           l3 == Optional("models", ms)
           l4 == Optional("mcp_servers", ss)
           l5 == Optional("rate_limit", rs)
           l6 == Optional("budget", bs)
           l23 == l2 \o l3
           l24 == l23 \o l4
           l14 == l1 \o l24
           l56 == l5 \o l6
           lines == l14 \o l56
<1>1. f.key \in PrefixedKeys /\ connection # {} /\ k = ReadEntry(lines)
  BY DEF build_key_from_form, EntryLines
<1>2. AtMostOne(connection) /\ AtMostOne(mcp)
  BY LastTickedIs
<1>3. AtMostOne(cs) /\ AtMostOne(ms) /\ AtMostOne(ss)
  BY <1>2 DEF AtMostOne
<1>4. AtMostOne(rs)
  <2>1. AtMostOne(ReadU32(f.rl_requests)) /\ AtMostOne(ReadU32(f.rl_per_seconds))
    BY DEF AtMostOne, ReadU32
  <2> QED
    BY <2>1, LimitOfOne DEF RateNumbers
<1>5. AtMostOne(bs)
  <2>1. AtMostOne(ReadU32(f.budget_per_seconds))
    BY DEF AtMostOne, ReadU32
  <2> QED
    BY <2>1, LimitOfOne DEF BudgetNumbers
<1>6. \A g \in Names6 : \A v \in {f.key} \cup cs \cup ms \cup ss \cup rs \cup bs : Line(g, v) \in S
  OBVIOUS
<1>7. \A l \in S : l.header = FALSE
  BY DEF Line
<1> HIDE DEF S, cs, ms, ss, rs, bs
<1>8. l1 \in Seq(S)
  <2>1. Line("key", f.key) \in S
    BY <1>6
  <2> QED
    BY <2>1
<1>9. l2 \in Seq(S) /\ l3 \in Seq(S) /\ l4 \in Seq(S) /\ l5 \in Seq(S) /\ l6 \in Seq(S)
  <2>1. /\ \A v \in cs : Line("connections", v) \in S
        /\ \A v \in ms : Line("models", v) \in S
        /\ \A v \in ss : Line("mcp_servers", v) \in S
        /\ \A v \in rs : Line("rate_limit", v) \in S
        /\ \A v \in bs : Line("budget", v) \in S
    BY <1>6
  <2> QED
    BY <2>1, OptionalIsSeq
<1>10. \A g :
          /\ Values(l1, g) = (IF g = "key" THEN {f.key} ELSE {})
          /\ Values(l2, g) = (IF g = "connections" THEN cs ELSE {})
          /\ Values(l3, g) = (IF g = "models" THEN ms ELSE {})
          /\ Values(l4, g) = (IF g = "mcp_servers" THEN ss ELSE {})
          /\ Values(l5, g) = (IF g = "rate_limit" THEN rs ELSE {})
          /\ Values(l6, g) = (IF g = "budget" THEN bs ELSE {})
  BY <1>3, <1>4, <1>5, ValuesOfOne, ValuesOfOptional
<1> HIDE DEF l1, l2, l3, l4, l5, l6
<1>11. lines \in Seq(S) /\ \A g : Values(lines, g) =
          Values(l1, g) \cup Values(l2, g) \cup Values(l3, g) \cup Values(l4, g) \cup Values(l5, g) \cup Values(l6, g)
  <2>1. l23 \in Seq(S) /\ \A g : Values(l23, g) = Values(l2, g) \cup Values(l3, g)
    BY <1>9, ValuesOfConcat
  <2>2. l56 \in Seq(S) /\ \A g : Values(l56, g) = Values(l5, g) \cup Values(l6, g)
    BY <1>9, ValuesOfConcat
  <2> HIDE DEF l23, l56
  <2>3. l24 \in Seq(S) /\ \A g : Values(l24, g) = Values(l23, g) \cup Values(l4, g)
    BY <1>9, <2>1, ValuesOfConcat
  <2> HIDE DEF l24
  <2>4. l14 \in Seq(S) /\ \A g : Values(l14, g) = Values(l1, g) \cup Values(l24, g)
    BY <1>8, <2>3, ValuesOfConcat
  <2> HIDE DEF l14
  <2>5. lines \in Seq(S) /\ \A g : Values(lines, g) = Values(l14, g) \cup Values(l56, g)
    BY <2>2, <2>4, ValuesOfConcat
  <2> HIDE DEF lines
  <2> QED
    BY <2>1, <2>2, <2>3, <2>4, <2>5
<1> HIDE DEF lines
<1>12. \A i \in DOMAIN lines : ~lines[i].header
  <2>1. \A i \in DOMAIN lines : lines[i] \in S
    BY <1>11
  <2> QED
    BY <1>7, <2>1
<1>13. /\ Values(lines, "key") = {f.key} /\ Values(lines, "connections") = cs
       /\ Values(lines, "models") = ms /\ Values(lines, "mcp_servers") = ss
       /\ Values(lines, "rate_limit") = rs /\ Values(lines, "budget") = bs
  <2>1. \A g : Values(lines, g) =
            (IF g = "key" THEN {f.key} ELSE {}) \cup (IF g = "connections" THEN cs ELSE {})
            \cup (IF g = "models" THEN ms ELSE {}) \cup (IF g = "mcp_servers" THEN ss ELSE {})
            \cup (IF g = "rate_limit" THEN rs ELSE {}) \cup (IF g = "budget" THEN bs ELSE {})
    BY <1>10, <1>11
  <2>2. Values(lines, "key") = {f.key}
    BY <2>1
  <2>3. Values(lines, "connections") = cs
    BY <2>1
  <2>4. Values(lines, "models") = ms
    BY <2>1
  <2>5. Values(lines, "mcp_servers") = ss
    BY <2>1
  <2>6. Values(lines, "rate_limit") = rs
    BY <2>1
  <2>7. Values(lines, "budget") = bs
    BY <2>1
  <2> QED
    BY <2>2, <2>3, <2>4, <2>5, <2>6, <2>7
<1>14. /\ k.key = (CHOOSE v \in {f.key} : TRUE) /\ k.connections = (CHOOSE v \in cs : TRUE)
       /\ k.models = ms /\ k.mcp_servers = ss /\ k.rate_limit = rs /\ k.budget = bs
       /\ k.allow_pii_bypass = FALSE
  BY <1>1, <1>11, <1>12, <1>13, ReadOfPlain
<1>15. \E c \in connection : k.connections = <<c>>
  BY <1>1, <1>14 DEF cs
<1> QED
  BY <1>1, <1>4, <1>5, <1>14, <1>15 DEF ms, ss, rs, bs

LEMMA SeqOfOwn ==
    ASSUME NEW S, NEW s \in Seq(S)
    PROVE  IsSeq(s) /\ ToSet(s) \subseteq S
<1>1. /\ s \in [1 .. Len(s) -> S] /\ Len(s) \in Nat /\ DOMAIN s = 1 .. Len(s)
  OBVIOUS
<1>2. s \in [1 .. Len(s) -> ToSet(s)]
  BY <1>1 DEF ToSet
<1>3. s \in Seq(ToSet(s))
  BY <1>1, <1>2
<1> QED
  BY <1>1, <1>3 DEF IsSeq, ToSet

KeyTexts == PrefixedKeys \cup {"", FirstShown.key}
Lists == {<<>>} \cup {<<n>> : n \in ModelNames} \cup FirstShown.models
Numbers == FormNumbers \cup UNION {{p[1], p[2]} : p \in FirstShown.rate_limit \cup FirstShown.budget}
Boxes == [connection : Seq(ToSet(ConnNames)), mcp_server : Seq(ToSet(ServerNames))]
Fields == [key : KeyTexts, connection : SUBSET ToSet(ConnNames), models : Lists,
           mcp_server : SUBSET ToSet(ServerNames),
           rl_requests : SUBSET Numbers, rl_per_seconds : SUBSET Numbers,
           budget_max_usd : SUBSET Numbers, budget_per_seconds : SUBSET Numbers]
Draft == [kind : {"new", "edit"}, touched : Nat, boxes : Boxes, fields : Fields]

\* A form ticks boxes it has, and a number field holds one number.
TicksShown(d) == d.fields.mcp_server \subseteq ToSet(d.boxes.mcp_server)
OneNumber(f) ==
    /\ AtMostOne(f.rl_requests) /\ AtMostOne(f.rl_per_seconds)
    /\ AtMostOne(f.budget_max_usd) /\ AtMostOne(f.budget_per_seconds)

NamesPart == conns \in Seq(ToSet(ConnNames)) /\ servers \in Seq(ToSet(ServerNames))

\* A key has each of its optional parts once.
KeyWhole(k) ==
    /\ k.key \in KeyTexts /\ k.models \subseteq Lists
    /\ \A p \in k.rate_limit \cup k.budget : p[1] \in Numbers /\ p[2] \in Numbers
    /\ AtMostOne(k.models) /\ AtMostOne(k.mcp_servers)
    /\ AtMostOne(k.rate_limit) /\ AtMostOne(k.budget)
ShownPart == KeyWhole(shownKey)

DraftPart == \A d \in draft : d \in Draft /\ TicksShown(d) /\ OneNumber(d.fields)

FormIInv == NamesPart /\ ShownPart /\ DraftPart /\ FormGrantsNoMore

LEMMA FormInitHolds == FormInit => FormIInv
<1> SUFFICES ASSUME FormInit PROVE FormIInv
  OBVIOUS
<1>1. NamesPart
  BY KeyFormAssumption DEF FormInit, NamesPart
<1>2. KeyWhole(FirstShown)
  <2>1. FirstShown.key \in KeyTexts /\ FirstShown.models \subseteq Lists
    BY DEF KeyTexts, Lists
  <2>2. \A p \in FirstShown.rate_limit \cup FirstShown.budget : p[1] \in Numbers /\ p[2] \in Numbers
    BY DEF Numbers
  <2>3. /\ AtMostOne(FirstShown.models) /\ AtMostOne(FirstShown.mcp_servers)
        /\ AtMostOne(FirstShown.rate_limit) /\ AtMostOne(FirstShown.budget)
    BY KeyFormAssumption
  <2> QED
    BY <2>1, <2>2, <2>3 DEF KeyWhole
<1> QED
  BY <1>1, <1>2 DEF FormInit, FormIInv, ShownPart, DraftPart, FormGrantsNoMore

\* The form of a new key and that of the key shown.
LEMMA FreshForms ==
    ASSUME NamesPart, ShownPart
    PROVE  \A d \in {NewForm, EditForm} : d \in Draft /\ TicksShown(d) /\ OneNumber(d.fields)
<1>1. [connection |-> conns, mcp_server |-> servers] \in Boxes
  BY DEF NamesPart, Boxes
<1>2. ToSet(conns) \subseteq ToSet(ConnNames) /\ ToSet(servers) \subseteq ToSet(ServerNames)
  BY SeqOfOwn DEF NamesPart
<1>3. NewForm \in Draft
  BY <1>1 DEF NewForm, Draft, Fields, KeyTexts, Lists
<1>4. TicksShown(NewForm) /\ OneNumber(NewForm.fields)
  BY DEF NewForm, TicksShown, OneNumber, AtMostOne
<1> DEFINE All(lists) == UNION {ToSet(l) : l \in lists}
           Of(limits, part) == {l[part] : l \in limits}
           ticks == ToSet(conns) \cap ToSet(shownKey.connections)
           models == IF shownKey.models = {} THEN <<>> ELSE CHOOSE l \in shownKey.models : TRUE
           mcp == ToSet(servers) \cap All(shownKey.mcp_servers)
           f == [key |-> shownKey.key, connection |-> ticks, models |-> models, mcp_server |-> mcp,
                 rl_requests |-> Of(shownKey.rate_limit, 1),
                 rl_per_seconds |-> Of(shownKey.rate_limit, 2),
                 budget_max_usd |-> Of(shownKey.budget, 1),
                 budget_per_seconds |-> Of(shownKey.budget, 2)]
<1>5. EditForm = [kind |-> "edit", touched |-> 0,
                  boxes |-> [connection |-> conns, mcp_server |-> servers], fields |-> f]
  BY DEF EditForm
<1>6. ticks \subseteq ToSet(ConnNames) /\ mcp \subseteq ToSet(ServerNames) /\ mcp \subseteq ToSet(servers)
  BY <1>2
<1>7. models \in Lists
  <2>1. shownKey.models \subseteq Lists /\ <<>> \in Lists
    BY DEF ShownPart, KeyWhole, Lists
  <2> QED
    BY <2>1
<1>8. \A limits \in {shownKey.rate_limit, shownKey.budget}, part \in {1, 2} :
          Of(limits, part) \subseteq Numbers /\ AtMostOne(Of(limits, part))
  <2>1. \A p \in shownKey.rate_limit \cup shownKey.budget : p[1] \in Numbers /\ p[2] \in Numbers
    BY DEF ShownPart, KeyWhole
  <2>2. AtMostOne(shownKey.rate_limit) /\ AtMostOne(shownKey.budget)
    BY DEF ShownPart, KeyWhole
  <2>3. \A limits \in {shownKey.rate_limit, shownKey.budget}, part \in {1, 2} : AtMostOne(Of(limits, part))
    BY <2>2 DEF AtMostOne
  <2> QED
    BY <2>1, <2>3
<1>9. shownKey.key \in KeyTexts
  BY DEF ShownPart, KeyWhole
<1> HIDE DEF ticks, models, mcp, Of
<1>10. f \in Fields
  BY <1>6, <1>7, <1>8, <1>9 DEF Fields
<1>11. OneNumber(f) /\ f.mcp_server \subseteq ToSet(servers)
  BY <1>6, <1>8 DEF OneNumber
<1> HIDE DEF f
<1>12. EditForm \in Draft
  BY <1>1, <1>5, <1>10 DEF Draft
<1>13. TicksShown(EditForm) /\ OneNumber(EditForm.fields)
  BY <1>5, <1>11 DEF TicksShown
<1> QED
  BY <1>3, <1>4, <1>12, <1>13

LEMMA FilledIn ==
    ASSUME NEW d \in Draft, NEW g \in Fields
    PROVE  LET after == [d EXCEPT !.fields = g, !.touched = @ + 1]
           IN  after \in Draft /\ after.boxes = d.boxes /\ after.fields = g
<1>1. d.touched + 1 \in Nat
  BY DEF Draft
<1>2. \A n \in Nat : LET after == [d EXCEPT !.fields = g, !.touched = n]
                    IN  after \in Draft /\ after.boxes = d.boxes /\ after.fields = g
  BY DEF Draft
<1> QED
  BY <1>1, <1>2

LEMMA FillInStep ==
    ASSUME DraftPart, FillIn
    PROVE  DraftPart'
<1>0. PICK d \in draft : \E field \in DOMAIN d.fields :
        \E value \in
            CASE field = "key" -> PrefixedKeys \cup {""}
              [] field \in DOMAIN d.boxes -> SUBSET ToSet(d.boxes[field])
              [] field = "models" -> {<<>>} \cup {<<n>> : n \in ModelNames}
              [] OTHER -> {{}} \cup {{n} : n \in FormNumbers} :
            draft' = {[d EXCEPT !.fields[field] = value, !.touched = @ + 1]}
  BY Zenon DEF FillIn
<1>1. PICK field \in DOMAIN d.fields :
        \E value \in
            CASE field = "key" -> PrefixedKeys \cup {""}
              [] field \in DOMAIN d.boxes -> SUBSET ToSet(d.boxes[field])
              [] field = "models" -> {<<>>} \cup {<<n>> : n \in ModelNames}
              [] OTHER -> {{}} \cup {{n} : n \in FormNumbers} :
            draft' = {[d EXCEPT !.fields[field] = value, !.touched = @ + 1]}
  BY <1>0, Zenon
<1>2. PICK value \in
            CASE field = "key" -> PrefixedKeys \cup {""}
              [] field \in DOMAIN d.boxes -> SUBSET ToSet(d.boxes[field])
              [] field = "models" -> {<<>>} \cup {<<n>> : n \in ModelNames}
              [] OTHER -> {{}} \cup {{n} : n \in FormNumbers} :
            draft' = {[d EXCEPT !.fields[field] = value, !.touched = @ + 1]}
  BY <1>1
<1>3. d \in Draft /\ TicksShown(d) /\ OneNumber(d.fields)
  BY DEF DraftPart
<1>4. d.boxes \in Boxes /\ d.fields \in Fields /\ d.touched \in Nat /\ d.kind \in {"new", "edit"}
  BY <1>3 DEF Draft
<1>5. /\ ToSet(d.boxes.connection) \subseteq ToSet(ConnNames)
      /\ ToSet(d.boxes.mcp_server) \subseteq ToSet(ServerNames)
  <2>1. d.boxes.connection \in Seq(ToSet(ConnNames)) /\ d.boxes.mcp_server \in Seq(ToSet(ServerNames))
    BY <1>4 DEF Boxes
  <2> QED
    BY <2>1, SeqOfOwn
<1>6. /\ field \in {"key", "connection", "models", "mcp_server", "rl_requests", "rl_per_seconds",
                    "budget_max_usd", "budget_per_seconds"}
      /\ DOMAIN d.boxes = {"connection", "mcp_server"}
  BY <1>4 DEF Fields, Boxes
<1> DEFINE g == [d.fields EXCEPT ![field] = value]
           after == [d EXCEPT !.fields[field] = value, !.touched = @ + 1]
<1>7. after = [d EXCEPT !.fields = g, !.touched = @ + 1]
  BY <1>3 DEF Draft
<1>8. g \in Fields /\ OneNumber(g) /\ g.mcp_server \subseteq ToSet(d.boxes.mcp_server)
  <2>1. CASE field = "key"
    <3>1. value \in KeyTexts
      BY <1>2, <1>6, <2>1 DEF KeyTexts
    <3> QED
      BY <1>3, <1>4, <2>1, <3>1 DEF Fields, OneNumber, TicksShown
  <2>2. CASE field = "connection"
    <3>1. value \subseteq ToSet(ConnNames)
      BY <1>2, <1>5, <1>6, <2>2
    <3> QED
      BY <1>3, <1>4, <2>2, <3>1 DEF Fields, OneNumber, TicksShown
  <2>3. CASE field = "mcp_server"
    <3>1. value \subseteq ToSet(d.boxes.mcp_server)
      BY <1>2, <1>6, <2>3
    <3> QED
      BY <1>3, <1>4, <1>5, <2>3, <3>1 DEF Fields, OneNumber
  <2>4. CASE field = "models"
    <3>1. value \in Lists
      BY <1>2, <1>6, <2>4 DEF Lists
    <3> QED
      BY <1>3, <1>4, <2>4, <3>1 DEF Fields, OneNumber, TicksShown
  <2>5. CASE field \in {"rl_requests", "rl_per_seconds", "budget_max_usd", "budget_per_seconds"}
    <3>1. value \in {{}} \cup {{n} : n \in FormNumbers}
      BY <1>2, <1>6, <2>5
    <3>2. value \in SUBSET Numbers /\ AtMostOne(value)
      BY <3>1 DEF Numbers, AtMostOne
    <3>3. g \in Fields
      BY <1>4, <2>5, <3>2 DEF Fields
    <3>4. g.mcp_server = d.fields.mcp_server
      BY <1>4, <2>5 DEF Fields
    <3>5. OneNumber(g)
      BY <1>3, <1>4, <2>5, <3>2 DEF OneNumber, Fields
    <3> QED
      BY <1>3, <3>3, <3>4, <3>5 DEF TicksShown
  <2> QED
    BY <1>6, <2>1, <2>2, <2>3, <2>4, <2>5
<1> HIDE DEF g
<1>9. after \in Draft /\ after.boxes = d.boxes /\ after.fields = g
  BY <1>3, <1>7, <1>8, FilledIn, ZenonT(60)
<1> HIDE DEF after
<1>10. draft' = {after}
  BY <1>2 DEF after
<1> QED
  BY <1>8, <1>9, <1>10 DEF DraftPart, TicksShown

\* A key that is made is whole, and grants no more than its form.
LEMMA MadeGrantsNoMore ==
    ASSUME NEW d \in Draft, TicksShown(d), OneNumber(d.fields),
           NEW k \in build_key_from_form(d.fields, d.boxes)
    PROVE  KeyWhole(k) /\ GrantsNoMore(k, d.fields)
<1> DEFINE f == d.fields
           mcp == LastTicked(f.mcp_server, d.boxes.mcp_server)
<1>1. f \in Fields /\ d.boxes \in Boxes
  BY DEF Draft
<1>2. IsSeq(d.boxes.connection) /\ IsSeq(d.boxes.mcp_server)
  <2>1. d.boxes.connection \in Seq(ToSet(ConnNames)) /\ d.boxes.mcp_server \in Seq(ToSet(ServerNames))
    BY <1>1 DEF Boxes
  <2> QED
    BY <2>1, SeqOfOwn
<1>3. /\ k.key = f.key /\ f.key \in PrefixedKeys
      /\ \E c \in LastTicked(f.connection, d.boxes.connection) : k.connections = <<c>>
      /\ k.models = {f.models} \ {<<>>}
      /\ k.mcp_servers = {<<m>> : m \in mcp}
      /\ k.rate_limit = Limit(RateNumbers(f)) /\ AtMostOne(k.rate_limit)
      /\ k.budget = Limit(BudgetNumbers(f)) /\ AtMostOne(k.budget)
      /\ k.allow_pii_bypass = FALSE
  BY <1>2, MadeIs, ZenonT(60) DEF OneNumber
<1>4. /\ mcp \subseteq f.mcp_server /\ AtMostOne(mcp)
      /\ f.mcp_server # {} => mcp # {}
  BY <1>2, LastTickedIs DEF TicksShown
<1>5. KeyWhole(k)
  <2>1. k.key \in KeyTexts
    BY <1>3 DEF KeyTexts
  <2>2. k.models \subseteq Lists
    BY <1>1, <1>3 DEF Fields
  <2>3. AtMostOne(k.models) /\ AtMostOne(k.mcp_servers)
    BY <1>3, <1>4 DEF AtMostOne
  <2>4. \A p \in Limit(RateNumbers(f)) \cup Limit(BudgetNumbers(f)) : p[1] \in Numbers /\ p[2] \in Numbers
    <3>1. /\ f.rl_requests \subseteq Numbers /\ f.rl_per_seconds \subseteq Numbers
          /\ f.budget_max_usd \subseteq Numbers /\ f.budget_per_seconds \subseteq Numbers
      BY <1>1 DEF Fields
    <3>2. /\ Limit(RateNumbers(f)) \subseteq Numbers \X Numbers
          /\ Limit(BudgetNumbers(f)) \subseteq Numbers \X Numbers
      BY <3>1 DEF Limit, RateNumbers, BudgetNumbers, ReadU32
    <3> QED
      BY <3>2
  <2> QED
    BY <1>3, <2>1, <2>2, <2>3, <2>4 DEF KeyWhole
<1>6. k.connections # <<>> /\ ToSet(k.connections) \subseteq f.connection
  <2>1. PICK c \in LastTicked(f.connection, d.boxes.connection) : k.connections = <<c>>
    BY <1>3
  <2>2. c \in f.connection
    BY <1>2, LastTickedIs
  <2> QED
    BY <2>1, <2>2 DEF ToSet
<1>7. f.models # <<>> => k.models # {} /\ UNION {ToSet(l) : l \in k.models} \subseteq ToSet(f.models)
  BY <1>3
<1>8. f.mcp_server # {} => k.mcp_servers # {} /\ UNION {ToSet(l) : l \in k.mcp_servers} \subseteq f.mcp_server
  <2>1. \A m : ToSet(<<m>>) = {m}
    BY DEF ToSet
  <2>2. ASSUME NEW l \in k.mcp_servers PROVE ToSet(l) \subseteq f.mcp_server
    BY <1>3, <1>4, <2>1
  <2>3. ASSUME mcp # {} PROVE k.mcp_servers # {}
    <3>1. PICK m : m \in mcp
      BY <2>3
    <3>2. <<m>> \in k.mcp_servers
      BY <1>3, <3>1
    <3> QED
      BY <3>2
  <2> QED
    BY <1>4, <2>2, <2>3
<1> QED
  BY <1>3, <1>5, <1>6, <1>7, <1>8 DEF GrantsNoMore

LEMMA SubmitFormStep ==
    ASSUME FormIInv, SubmitForm
    PROVE  FormIInv'
<1>1. PICK d \in draft :
        /\ draft' = CASE build_key_from_form(d.fields, d.boxes) # {} -> {}
                      [] build_key_from_form(d.fields, d.boxes) = {} /\ d.kind = "new" -> {NewForm}
                      [] build_key_from_form(d.fields, d.boxes) = {} /\ d.kind = "edit" -> {EditForm}
        /\ keySaved' = IF build_key_from_form(d.fields, d.boxes) = {} THEN keySaved
                       ELSE {[fields |-> d.fields, key |-> CHOOSE k \in build_key_from_form(d.fields, d.boxes) : TRUE]}
        /\ shownKey' = IF build_key_from_form(d.fields, d.boxes) # {} /\ d.kind = "edit"
                       THEN CHOOSE k \in build_key_from_form(d.fields, d.boxes) : TRUE ELSE shownKey
        /\ UNCHANGED <<conns, servers>>
  BY Zenon DEF SubmitForm
<1>2. d \in Draft /\ TicksShown(d) /\ OneNumber(d.fields)
  BY DEF FormIInv, DraftPart
<1> DEFINE made == build_key_from_form(d.fields, d.boxes)
           key == CHOOSE k \in made : TRUE
<1>3. d.kind \in {"new", "edit"}
  BY <1>2 DEF Draft
<1>4. made # {} => KeyWhole(key) /\ GrantsNoMore(key, d.fields)
  <2>1. \A k \in made : KeyWhole(k) /\ GrantsNoMore(k, d.fields)
    BY <1>2, MadeGrantsNoMore
  <2> HIDE DEF made
  <2> QED
    BY <2>1
<1>5. draft' \subseteq {NewForm, EditForm}
  <2> HIDE DEF made
  <2>1. draft' = CASE made # {} -> {}
                   [] made = {} /\ d.kind = "new" -> {NewForm}
                   [] made = {} /\ d.kind = "edit" -> {EditForm}
    BY <1>1 DEF made
  <2> QED
    BY <1>3, <2>1
<1>6. keySaved' \subseteq keySaved \/ (made # {} /\ keySaved' = {[fields |-> d.fields, key |-> key]})
  BY <1>1
<1>7. shownKey' = shownKey \/ (made # {} /\ shownKey' = key)
  BY <1>1
<1> HIDE DEF made, key
<1>8. NamesPart'
  BY <1>1 DEF FormIInv, NamesPart
<1>9. ShownPart'
  BY <1>4, <1>7 DEF FormIInv, ShownPart
<1>10. DraftPart'
  <2>1. \A e \in {NewForm, EditForm} : e \in Draft /\ TicksShown(e) /\ OneNumber(e.fields)
    BY FreshForms DEF FormIInv
  <2> QED
    BY <1>5, <2>1 DEF DraftPart
<1>11. FormGrantsNoMore'
  <2>1. CASE keySaved' \subseteq keySaved
    BY <2>1 DEF FormGrantsNoMore, FormIInv
  <2>2. CASE made # {} /\ keySaved' = {[fields |-> d.fields, key |-> key]}
    BY <1>4, <2>2 DEF FormGrantsNoMore
  <2> QED
    BY <1>6, <2>1, <2>2
<1> QED
  BY <1>8, <1>9, <1>10, <1>11 DEF FormIInv

LEMMA WithoutIsSeq ==
    ASSUME NEW S, NEW names \in Seq(S), NEW kept, NEW left \in Without(names, kept)
    PROVE  left \in Seq(S)
<1>1. CASE left = names
  BY <1>1
<1>2. CASE \E i \in DOMAIN names : left = RemoveAt(names, i)
  <2>0. DOMAIN names = 1 .. Len(names)
    OBVIOUS
  <2>1. PICK i \in 1 .. Len(names) : left = SubSeq(names, 1, i - 1) \o SubSeq(names, i + 1, Len(names))
    BY <1>2, <2>0 DEF RemoveAt
  <2>2. SubSeq(names, 1, i - 1) \in Seq(S) /\ SubSeq(names, i + 1, Len(names)) \in Seq(S)
    OBVIOUS
  <2> QED
    BY <2>1, <2>2
<1> QED
  BY <1>1, <1>2 DEF Without

LEMMA FormStep ==
    ASSUME FormIInv, [FormNext]_formVars
    PROVE  FormIInv'
<1>1. CASE ShowForm
  <2>1. draft' \subseteq {NewForm, EditForm} /\ keySaved' = {} /\ UNCHANGED <<conns, servers, shownKey>>
    BY <1>1 DEF ShowForm
  <2>2. \A e \in {NewForm, EditForm} : e \in Draft /\ TicksShown(e) /\ OneNumber(e.fields)
    BY FreshForms DEF FormIInv
  <2>3. DraftPart'
    BY <2>1, <2>2 DEF DraftPart
  <2> QED
    BY <2>1, <2>3 DEF FormIInv, NamesPart, ShownPart, FormGrantsNoMore
<1>2. CASE FillIn
  <2>1. UNCHANGED <<conns, servers, shownKey, keySaved>>
    BY <1>2 DEF FillIn
  <2>2. DraftPart'
    BY <1>2, FillInStep DEF FormIInv
  <2> QED
    BY <2>1, <2>2 DEF FormIInv, NamesPart, ShownPart, FormGrantsNoMore
<1>3. CASE SubmitForm
  BY <1>3, SubmitFormStep
<1>4. CASE ReloadNames
  <2>1. /\ conns' = conns \/ \E kept : conns' \in Without(ConnNames, kept)
        /\ servers' = servers \/ \E kept : servers' \in Without(ServerNames, kept)
        /\ UNCHANGED <<shownKey, draft, keySaved>>
    BY <1>4 DEF ReloadNames
  <2>2. NamesPart'
    BY <2>1, WithoutIsSeq, KeyFormAssumption DEF FormIInv, NamesPart
  <2> QED
    BY <2>1, <2>2 DEF FormIInv, ShownPart, DraftPart, FormGrantsNoMore
<1>5. CASE UNCHANGED formVars
  BY <1>5 DEF formVars, FormIInv, NamesPart, ShownPart, DraftPart, FormGrantsNoMore
<1> QED
  BY <1>1, <1>2, <1>3, <1>4, <1>5 DEF FormNext

\* An open form has the names and numbers it was made with or an operator put in, and a
\* key has each of its parts once, through any edits, refusals and reloads.
THEOREM FormInductive == FormSpec => []FormIInv
  BY FormInitHolds, FormStep, PTL DEF FormSpec

\* A key saved from a form allows no more than the form did, whatever was configured
\* when the form was made and when it was submitted.
THEOREM GrantsHold == FormSpec => []FormGrantsNoMore
  BY FormInductive, PTL DEF FormIInv
-----------------------------------------------------------------------------
(* Sums over the rows of a table *)

\* What holds of 0, and of a number if of the one before it, holds up to any number.
LEMMA UpTo ==
    ASSUME NEW n \in Nat, NEW T, 0 \in T, \A i \in 1 .. n : i - 1 \in T => i \in T
    PROVE  \A i \in 0 .. n : i \in T
<1> DEFINE Unmet == {i \in 0 .. n : i \notin T}
<1>1. SUFFICES ASSUME Unmet # {} PROVE FALSE
  OBVIOUS
<1>2. Unmet \in SUBSET Nat
  OBVIOUS
<1> HIDE DEF Unmet
<1>3. PICK i \in Unmet : \A j \in Unmet : i <= j
  BY <1>1, <1>2, LeastExists
<1> QED
  BY <1>3 DEF Unmet

\* Partial sums of a sequence of numbers.
PartialSums(f, n, terms) ==
    /\ f \in [0 .. n -> Nat] /\ f[0] = 0
    /\ \A i \in 1 .. n : f[i] = f[i - 1] + terms[i]

LEMMA SumsExist ==
    ASSUME NEW n \in Nat, NEW terms \in [1 .. n -> Nat]
    PROVE  \E f : PartialSums(f, n, terms)
<1> DEFINE T == {m \in 0 .. n : \E f : PartialSums(f, m, terms)}
<1>1. 0 \in T
  <2> DEFINE f == [i \in 0 .. 0 |-> 0]
  <2>1. PartialSums(f, 0, terms)
    BY DEF PartialSums
  <2> QED
    BY <2>1
<1>2. ASSUME NEW m \in 1 .. n, m - 1 \in T PROVE m \in T
  <2>1. PICK f : PartialSums(f, m - 1, terms)
    BY <1>2
  <2>2. f \in [0 .. m - 1 -> Nat] /\ f[0] = 0 /\ \A i \in 1 .. m - 1 : f[i] = f[i - 1] + terms[i]
    BY <2>1 DEF PartialSums
  <2> DEFINE g == [i \in 0 .. m |-> IF i = m THEN f[m - 1] + terms[m] ELSE f[i]]
  <2>3. f[m - 1] \in Nat /\ terms[m] \in Nat
    BY <2>2
  <2>4. \A i \in 0 .. m : g[i] \in Nat
    BY <2>2, <2>3
  <2>5. g \in [0 .. m -> Nat] /\ g[0] = 0
    BY <2>2, <2>4
  <2>6. ASSUME NEW i \in 1 .. m PROVE g[i] = g[i - 1] + terms[i]
    <3>1. CASE i = m
      BY <2>2, <3>1
    <3>2. CASE i # m
      <4>1. i \in 1 .. m - 1 /\ i \in 0 .. m /\ i - 1 \in 0 .. m /\ i - 1 # m
        BY <3>2
      <4> QED
        BY <2>2, <3>2, <4>1
    <3> QED
      BY <3>1, <3>2
  <2>7. PartialSums(g, m, terms)
    BY <2>5, <2>6 DEF PartialSums
  <2> QED
    BY <2>7
<1> HIDE DEF T
<1>3. \A m \in 0 .. n : m \in T
  BY <1>1, <1>2, UpTo
<1> QED
  BY <1>3 DEF T

\* Rows with one key each, and numbers in the columns that are added up.
Summed == Columns \ {"requests"}
IsTable(rows) ==
    /\ IsFiniteSet(rows)
    /\ \A row \in rows : \A column \in Summed : row[column] \in SUBSET Nat
    /\ \A r, s \in rows : r.request_id = s.request_id => r = s

LEMMA PartOfTable ==
    ASSUME NEW rows, IsTable(rows), NEW some \in SUBSET rows
    PROVE  IsTable(some)
  BY FS_Subset DEF IsTable

LEMMA AmountIsNat ==
    ASSUME NEW rows, IsTable(rows), NEW column \in Summed, NEW id
    PROVE  Amount(rows, column, id) \in Nat
<1> DEFINE amounts == UNION {row[column] : row \in {r \in rows : r.request_id = id}}
<1>1. amounts \in SUBSET Nat
  BY DEF IsTable
<1> HIDE DEF amounts
<1>2. (IF amounts = {} THEN 0 ELSE CHOOSE amount \in amounts : TRUE) \in Nat
  BY <1>1
<1> QED
  BY <1>2 DEF Amount, amounts

LEMMA AmountOfNone ==
    ASSUME NEW rows, NEW column, NEW id, {r \in rows : r.request_id = id} = {}
    PROVE  Amount(rows, column, id) = 0
<1>1. UNION {row[column] : row \in {r \in rows : r.request_id = id}} = {}
  OBVIOUS
<1> QED
  BY <1>1 DEF Amount

LEMMA AmountOfSame ==
    ASSUME NEW A, NEW B, NEW column, NEW id,
           {r \in A : r.request_id = id} = {r \in B : r.request_id = id}
    PROVE  Amount(A, column, id) = Amount(B, column, id)
<1> DEFINE a == UNION {row[column] : row \in {r \in A : r.request_id = id}}
           b == UNION {row[column] : row \in {r \in B : r.request_id = id}}
<1>1. a = b
  OBVIOUS
<1>2. /\ Amount(A, column, id) = IF a = {} THEN 0 ELSE CHOOSE amount \in a : TRUE
      /\ Amount(B, column, id) = IF b = {} THEN 0 ELSE CHOOSE amount \in b : TRUE
  BY DEF Amount
<1> HIDE DEF a, b
<1> QED
  BY <1>1, <1>2

LEMMA AmountOfUnion ==
    ASSUME NEW rows, IsTable(rows), NEW A \in SUBSET rows, NEW B \in SUBSET rows, A \cap B = {},
           NEW column \in Summed, NEW id
    PROVE  Amount(A \cup B, column, id) = Amount(A, column, id) + Amount(B, column, id)
<1>1. Amount(A, column, id) \in Nat /\ Amount(B, column, id) \in Nat
  BY PartOfTable, AmountIsNat
<1>2. CASE {r \in A : r.request_id = id} = {}
  <2>1. {r \in A \cup B : r.request_id = id} = {r \in B : r.request_id = id}
    BY <1>2
  <2>2. Amount(A \cup B, column, id) = Amount(B, column, id) /\ Amount(A, column, id) = 0
    BY <1>2, <2>1, AmountOfSame, AmountOfNone
  <2> QED
    BY <1>1, <2>2
<1>3. CASE {r \in A : r.request_id = id} # {}
  <2>1. {r \in B : r.request_id = id} = {}
    BY <1>3 DEF IsTable
  <2>2. {r \in A \cup B : r.request_id = id} = {r \in A : r.request_id = id}
    BY <2>1
  <2>3. Amount(A \cup B, column, id) = Amount(A, column, id) /\ Amount(B, column, id) = 0
    BY <2>1, <2>2, AmountOfSame, AmountOfNone
  <2> QED
    BY <1>1, <2>3
<1> QED
  BY <1>2, <1>3

\* f is the recursion of Sum.
SumsRows(f, rows, column) ==
    f = [id \in 0 .. MaxFinished |-> IF id = 0 THEN 0 ELSE f[id - 1] + Amount(rows, column, id)]

LEMMA SumBy ==
    ASSUME NEW rows, IsTable(rows), NEW column \in Summed
    PROVE  \E f : /\ Sum(rows, column) = f[MaxFinished]
                  /\ PartialSums(f, MaxFinished, [id \in 1 .. MaxFinished |-> Amount(rows, column, id)])
<1> DEFINE terms == [id \in 1 .. MaxFinished |-> Amount(rows, column, id)]
           h == CHOOSE f : SumsRows(f, rows, column)
<1>0. MaxFinished \in Nat
  BY HistoryAssumption
<1>1. Sum(rows, column) = h[MaxFinished]
  BY DEF Sum, SumsRows
<1>2. terms \in [1 .. MaxFinished -> Nat]
  BY AmountIsNat
<1>3. \A id \in 1 .. MaxFinished : terms[id] = Amount(rows, column, id)
  OBVIOUS
<1> HIDE DEF h, terms
<1>4. PICK f : PartialSums(f, MaxFinished, terms)
  BY <1>0, <1>2, SumsExist
<1>5. f \in [0 .. MaxFinished -> Nat] /\ f[0] = 0
      /\ \A id \in 1 .. MaxFinished : f[id] = f[id - 1] + Amount(rows, column, id)
  BY <1>3, <1>4 DEF PartialSums
<1>6. SumsRows(f, rows, column)
  <2>1. \A id \in 0 .. MaxFinished : id = 0 \/ id \in 1 .. MaxFinished
    BY <1>0
  <2>2. \A id \in 0 .. MaxFinished : f[id] = IF id = 0 THEN 0 ELSE f[id - 1] + Amount(rows, column, id)
    BY <1>5, <2>1
  <2> QED
    BY <1>5, <2>2 DEF SumsRows
<1>7. SumsRows(h, rows, column)
  BY <1>6, Zenon DEF h
<1>8. h = [id \in 0 .. MaxFinished |-> IF id = 0 THEN 0 ELSE h[id - 1] + Amount(rows, column, id)]
  BY <1>7 DEF SumsRows
<1>9. h[0] = 0 /\ \A id \in 1 .. MaxFinished : h[id] = h[id - 1] + terms[id]
  <2>1. h[0] = 0
    BY <1>0, <1>8
  <2>2. ASSUME NEW id \in 1 .. MaxFinished PROVE h[id] = h[id - 1] + Amount(rows, column, id)
    <3>1. id \in 0 .. MaxFinished /\ id # 0
      BY <1>0
    <3> QED
      BY <1>8, <3>1
  <2> QED
    BY <1>3, <2>1, <2>2
<1>10. h \in [0 .. MaxFinished -> Nat]
  <2> DEFINE T == {m \in 0 .. MaxFinished : h[m] \in Nat}
  <2>1. 0 \in T
    BY <1>0, <1>9
  <2>2. ASSUME NEW m \in 1 .. MaxFinished, m - 1 \in T PROVE m \in T
    BY <1>0, <1>2, <1>9, <2>2
  <2> HIDE DEF T
  <2>3. \A m \in 0 .. MaxFinished : m \in T
    BY <1>0, <2>1, <2>2, UpTo
  <2>4. \A m \in 0 .. MaxFinished : h[m] \in Nat
    BY <2>3 DEF T
  <2>5. h = [id \in 0 .. MaxFinished |-> h[id]]
    BY <1>8
  <2> QED
    BY <2>4, <2>5
<1>11. PartialSums(h, MaxFinished, terms)
  BY <1>9, <1>10 DEF PartialSums
<1> QED
  BY <1>1, <1>11 DEF terms

\* The sum over two sets of rows.
LEMMA SumOfUnion ==
    ASSUME NEW rows, IsTable(rows), NEW A \in SUBSET rows, NEW B \in SUBSET rows, A \cap B = {},
           NEW column \in Summed
    PROVE  /\ Sum(A, column) \in Nat /\ Sum(B, column) \in Nat
           /\ Sum(A \cup B, column) = Sum(A, column) + Sum(B, column)
<1>0. MaxFinished \in Nat
  BY HistoryAssumption
<1> DEFINE Of(R) == [id \in 1 .. MaxFinished |-> Amount(R, column, id)]
<1>1. IsTable(A) /\ IsTable(B) /\ IsTable(A \cup B)
  <2>1. A \cup B \in SUBSET rows
    OBVIOUS
  <2> QED
    BY <2>1, PartOfTable
<1>2. PICK f : Sum(A, column) = f[MaxFinished] /\ PartialSums(f, MaxFinished, Of(A))
  BY <1>1, SumBy
<1>3. PICK g : Sum(B, column) = g[MaxFinished] /\ PartialSums(g, MaxFinished, Of(B))
  BY <1>1, SumBy
<1>4. PICK h : Sum(A \cup B, column) = h[MaxFinished] /\ PartialSums(h, MaxFinished, Of(A \cup B))
  BY <1>1, SumBy
<1>5. \A id \in 1 .. MaxFinished :
          /\ Of(A)[id] \in Nat /\ Of(B)[id] \in Nat
          /\ Of(A \cup B)[id] = Of(A)[id] + Of(B)[id]
  BY <1>1, AmountIsNat, AmountOfUnion
<1> HIDE DEF Of
<1> DEFINE T == {m \in 0 .. MaxFinished : h[m] = f[m] + g[m]}
<1>6. 0 \in T
  BY <1>0, <1>2, <1>3, <1>4 DEF PartialSums
<1>7. ASSUME NEW m \in 1 .. MaxFinished, m - 1 \in T PROVE m \in T
  <2>1. h[m - 1] = f[m - 1] + g[m - 1]
    BY <1>7
  <2>2. m - 1 \in 0 .. MaxFinished /\ m \in 0 .. MaxFinished
    BY <1>0
  <2>3. f[m - 1] \in Nat /\ g[m - 1] \in Nat
    BY <1>2, <1>3, <2>2 DEF PartialSums
  <2>4. /\ h[m] = h[m - 1] + Of(A \cup B)[m]
        /\ f[m] = f[m - 1] + Of(A)[m] /\ g[m] = g[m - 1] + Of(B)[m]
    BY <1>2, <1>3, <1>4 DEF PartialSums
  <2>5. /\ Of(A)[m] \in Nat /\ Of(B)[m] \in Nat
        /\ Of(A \cup B)[m] = Of(A)[m] + Of(B)[m]
    BY <1>5
  <2>6. h[m] = f[m] + g[m]
    BY <2>1, <2>3, <2>4, <2>5
  <2> QED
    BY <2>2, <2>6
<1> HIDE DEF T
<1>8. MaxFinished \in T
  BY <1>0, <1>6, <1>7, UpTo
<1>9. f[MaxFinished] \in Nat /\ g[MaxFinished] \in Nat
  BY <1>0, <1>2, <1>3 DEF PartialSums
<1> QED
  BY <1>2, <1>3, <1>4, <1>8, <1>9 DEF T

\* Any of the columns: of two sets of rows, of none, and of more.
LEMMA CountOfUnion ==
    ASSUME NEW rows, IsTable(rows), NEW A \in SUBSET rows, NEW B \in SUBSET rows, A \cap B = {},
           NEW column \in Columns
    PROVE  /\ Count(A, column) \in Nat /\ Count(B, column) \in Nat
           /\ Count(A \cup B, column) = Count(A, column) + Count(B, column)
<1>1. CASE column = "requests"
  <2>1. IsFiniteSet(A) /\ IsFiniteSet(B)
    BY PartOfTable DEF IsTable
  <2>2. Cardinality(A) \in Nat /\ Cardinality(B) \in Nat
    BY <2>1, FS_CardinalityType
  <2>3. Cardinality(A \cup B) = Cardinality(A) + Cardinality(B) - Cardinality(A \cap B)
    BY <2>1, FS_Union
  <2>4. Cardinality(A \cap B) = 0
    BY FS_EmptySet
  <2> QED
    BY <1>1, <2>2, <2>3, <2>4 DEF Count
<1>2. CASE column # "requests"
  <2>1. column \in Summed
    BY <1>2 DEF Summed
  <2>2. /\ Sum(A, column) \in Nat /\ Sum(B, column) \in Nat
        /\ Sum(A \cup B, column) = Sum(A, column) + Sum(B, column)
    BY <2>1, SumOfUnion, SMTT(40)
  <2>3. \A R : Count(R, column) = Sum(R, column)
    BY <1>2 DEF Count
  <2> QED
    BY <2>2, <2>3
<1> QED
  BY <1>1, <1>2

LEMMA CountOfNone ==
    ASSUME NEW column \in Columns
    PROVE  Count({}, column) = 0
<1>1. ASSUME NEW none, none = {}
      PROVE  Count(none, column) \in Nat /\ Count(none, column) = Count(none, column) + Count(none, column)
  <2>1. IsTable(none)
    BY <1>1, FS_EmptySet DEF IsTable
  <2>2. none \in SUBSET none /\ none \cap none = {} /\ none \cup none = none
    BY <1>1
  <2>3. Count(none, column) \in Nat /\ Count(none \cup none, column) = Count(none, column) + Count(none, column)
    BY <2>1, <2>2, CountOfUnion
  <2> QED
    BY <2>2, <2>3
<1>2. \A n \in Nat : n = n + n => n = 0
  OBVIOUS
<1> DEFINE n == Count({}, column)
<1>3. n \in Nat /\ n = n + n
  BY <1>1
<1> HIDE DEF n
<1>4. n = 0
  BY <1>2, <1>3
<1> QED
  BY <1>4 DEF n

LEMMA CountOfMore ==
    ASSUME NEW rows, IsTable(rows), NEW A \in SUBSET rows, NEW column \in Columns
    PROVE  /\ Count(A, column) \in Nat /\ Count(rows, column) \in Nat
           /\ Count(A, column) <= Count(rows, column)
<1>1. PICK B \in SUBSET rows : A \cap B = {} /\ A \cup B = rows
  <2>1. rows \ A \in SUBSET rows /\ A \cap (rows \ A) = {} /\ A \cup (rows \ A) = rows
    OBVIOUS
  <2> QED
    BY <2>1
<1>2. /\ Count(A, column) \in Nat /\ Count(B, column) \in Nat
      /\ Count(A \cup B, column) = Count(A, column) + Count(B, column)
  <2>1. A \cap B = {}
    BY <1>1
  <2> QED
    BY <2>1, CountOfUnion
<1>3. Count(rows, column) = Count(A, column) + Count(B, column)
  BY <1>1, <1>2, Zenon
<1> QED
  BY <1>2, <1>3

\* The sequence with the next element of S by falling key.
NextFalling(S, key, taken) ==
    LET left == S \ ToSet(taken)
    IN Append(taken, CHOOSE x \in left : \A y \in left : key[y] <= key[x])

\* f is the recursion of Falling.
Falls(f, S, key) ==
    f = [n \in 0 .. Cardinality(S) |-> IF n = 0 THEN <<>> ELSE NextFalling(S, key, f[n - 1])]
FallStep(f, S, key, n) == f[n] = NextFalling(S, key, f[n - 1])

LEMMA FallingBy ==
    ASSUME NEW S, IsFiniteSet(S), NEW key
    PROVE  \E f : /\ Falling(S, key) = f[Cardinality(S)] /\ f[0] = <<>>
                  /\ \A n \in 1 .. Cardinality(S) : FallStep(f, S, key, n)
<1> DEFINE N == Cardinality(S)
           Up(f, m) == /\ f = [n \in 0 .. m |-> f[n]] /\ f[0] = <<>>
                       /\ \A n \in 1 .. m : FallStep(f, S, key, n)
           T == {m \in 0 .. N : \E f : Up(f, m)}
           h == CHOOSE f : Falls(f, S, key)
<1>0. N \in Nat
  BY FS_CardinalityType
<1>1. Falling(S, key) = h[N]
  BY DEF Falling, Falls, NextFalling
<1> HIDE DEF N, h
<1>2. 0 \in T
  <2> DEFINE f == [n \in 0 .. 0 |-> <<>>]
  <2>1. Up(f, 0)
    OBVIOUS
  <2> HIDE DEF f, Up
  <2> QED
    BY <1>0, <2>1
<1>3. ASSUME NEW m \in 1 .. N, m - 1 \in T PROVE m \in T
  <2>1. PICK f : Up(f, m - 1)
    BY <1>3
  <2> DEFINE last == NextFalling(S, key, f[m - 1])
             g == [n \in 0 .. m |-> IF n = m THEN last ELSE f[n]]
  <2> HIDE DEF last
  <2>2. /\ g = [n \in 0 .. m |-> g[n]] /\ g[m] = last /\ m \in Nat /\ m # 0
        /\ \A n \in 0 .. m - 1 : g[n] = f[n]
    OBVIOUS
  <2> HIDE DEF g
  <2>3. g[0] = <<>>
    <3>1. 0 \in 0 .. m - 1
      BY <1>0
    <3>2. g[0] = f[0] /\ f[0] = <<>>
      BY <2>1, <2>2, <3>1
    <3> QED
      BY <3>2
  <2>4. ASSUME NEW n \in 1 .. m PROVE FallStep(g, S, key, n)
    <3>1. CASE n = m
      <4>1. m - 1 \in 0 .. m - 1
        BY <1>0
      <4>2. g[m - 1] = f[m - 1]
        BY <2>2, <4>1
      <4> QED
        BY <2>2, <3>1, <4>2 DEF FallStep, last
    <3>2. CASE n # m
      <4>1. n \in 1 .. m - 1 /\ n \in 0 .. m - 1 /\ n - 1 \in 0 .. m - 1
        BY <1>0, <3>2
      <4>2. g[n] = f[n] /\ g[n - 1] = f[n - 1] /\ FallStep(f, S, key, n)
        BY <2>1, <2>2, <4>1
      <4> QED
        BY <4>2 DEF FallStep
    <3> QED
      BY <3>1, <3>2
  <2>5. Up(g, m)
    BY <2>2, <2>3, <2>4
  <2> HIDE DEF Up
  <2> QED
    BY <1>0, <2>5
<1>4. \E f : Up(f, N)
  <2> HIDE DEF T
  <2>1. \A i \in 0 .. N : i \in T
    BY <1>0, <1>2, <1>3, UpTo
  <2>2. N \in T
    BY <1>0, <2>1
  <2> QED
    BY <2>2 DEF T
<1>5. PICK f : Up(f, N)
  BY <1>4
<1>6. Falls(f, S, key)
  <2>1. ASSUME NEW n \in 0 .. N, n # 0 PROVE f[n] = NextFalling(S, key, f[n - 1])
    <3>1. n \in 1 .. N
      BY <1>0, <2>1
    <3> QED
      BY <1>5, <3>1 DEF FallStep
  <2>2. f = [n \in 0 .. N |-> f[n]] /\ f[0] = <<>>
    BY <1>5
  <2>3. f = [n \in 0 .. N |-> IF n = 0 THEN <<>> ELSE NextFalling(S, key, f[n - 1])]
    BY <2>1, <2>2
  <2> QED
    BY <2>3 DEF Falls, N
<1>7. Falls(h, S, key)
  BY <1>6, Zenon DEF h
<1>8. h = [n \in 0 .. N |-> IF n = 0 THEN <<>> ELSE NextFalling(S, key, h[n - 1])]
  BY <1>7 DEF Falls, N
<1>9. h[0] = <<>>
  BY <1>0, <1>8
<1>10. ASSUME NEW n \in 1 .. N PROVE FallStep(h, S, key, n)
  <2>1. n \in 0 .. N /\ n # 0
    BY <1>0
  <2> QED
    BY <1>8, <2>1 DEF FallStep
<1> QED
  BY <1>1, <1>9, <1>10 DEF N
\* A finite set that is not empty has an element of greatest key.
LEMMA GreatestKey ==
    ASSUME NEW S, IsFiniteSet(S), S # {}, NEW key \in [S -> Int]
    PROVE  \E x \in S : \A y \in S : key[y] <= key[x]
<1> DEFINE N == Cardinality(S)
           Has(R) == \E x \in R : \A y \in R : key[y] <= key[x]
           T == {m \in 0 .. N : \A R \in SUBSET S : Cardinality(R) = m => R = {} \/ Has(R)}
<1>0. N \in Nat /\ \A R \in SUBSET S : IsFiniteSet(R) /\ Cardinality(R) \in Nat
  BY FS_CardinalityType, FS_Subset
<1> HIDE DEF N
<1>1. 0 \in T
  BY <1>0, FS_EmptySet
<1>2. ASSUME NEW m \in 1 .. N, m - 1 \in T PROVE m \in T
  <2>1. ASSUME NEW R \in SUBSET S, Cardinality(R) = m, R # {} PROVE Has(R)
    <3>1. PICK x \in R : TRUE
      BY <2>1
    <3>2. PICK rest \in SUBSET S : rest = R \ {x}
      OBVIOUS
    <3>3. Cardinality(rest) = m - 1
      BY <1>0, <2>1, <3>1, <3>2, FS_RemoveElement
    <3>4. rest = {} \/ Has(rest)
      BY <1>2, <3>3
    <3>5. CASE rest = {}
      <4>1. \A y \in R : y = x
        BY <3>2, <3>5
      <4>2. key[x] <= key[x]
        OBVIOUS
      <4> QED
        BY <3>1, <4>1, <4>2
    <3>6. CASE Has(rest)
      <4>1. PICK z \in rest : \A y \in rest : key[y] <= key[z]
        BY <3>6
      <4>2. z \in R /\ key[z] \in Int /\ key[x] \in Int /\ \A y \in R : key[y] \in Int /\ (y = x \/ y \in rest)
        BY <3>2
      <4>3. CASE key[x] <= key[z]
        BY <4>1, <4>2, <4>3
      <4>4. CASE key[z] <= key[x]
        <5>1. \A y \in R : key[y] <= key[x]
          BY <4>1, <4>2, <4>4
        <5> QED
          BY <5>1
      <4> QED
        BY <4>2, <4>3, <4>4
    <3> QED
      BY <3>4, <3>5, <3>6
  <2>2. m \in 0 .. N
    BY <1>0
  <2> HIDE DEF Has
  <2> QED
    BY <2>1, <2>2
<1> HIDE DEF T
<1>3. N \in T
  BY <1>0, <1>1, <1>2, UpTo
<1> QED
  BY <1>3 DEF T, N

\* ORDER BY returns every element once.
LEMMA FallingIs ==
    ASSUME NEW S, IsFiniteSet(S), NEW key \in [S -> Int]
    PROVE  /\ Falling(S, key) \in Seq(S) /\ Len(Falling(S, key)) = Cardinality(S)
           /\ \A i, j \in DOMAIN Falling(S, key) : Falling(S, key)[i] = Falling(S, key)[j] => i = j
           /\ \A x \in S : \E i \in DOMAIN Falling(S, key) : Falling(S, key)[i] = x
<1> DEFINE N == Cardinality(S)
           Distinct(s) == \A i, j \in 1 .. Len(s) : s[i] = s[j] => i = j
<1>0. N \in Nat
  BY FS_CardinalityType
<1>1. PICK f : /\ Falling(S, key) = f[N] /\ f[0] = <<>>
               /\ \A n \in 1 .. N : FallStep(f, S, key, n)
  BY FallingBy
<1> HIDE DEF N
<1> DEFINE T == {m \in 0 .. N : f[m] \in Seq(S) /\ Len(f[m]) = m /\ Distinct(f[m])}
<1>2. 0 \in T
  <2>1. <<>> \in Seq(S) /\ Len(<<>>) = 0 /\ Distinct(<<>>)
    BY EmptySeq
  <2>2. 0 \in 0 .. N /\ f[0] = <<>>
    BY <1>0, <1>1
  <2> HIDE DEF Distinct
  <2>3. f[0] \in Seq(S) /\ Len(f[0]) = 0 /\ Distinct(f[0])
    BY <2>1, <2>2, Zenon
  <2> QED
    BY <2>2, <2>3
<1>3. ASSUME NEW m \in 1 .. N, m - 1 \in T PROVE m \in T
  <2>1. PICK s \in Seq(S) : s = f[m - 1] /\ Len(s) = m - 1 /\ Distinct(s)
    BY <1>3
  <2> DEFINE left == S \ ToSet(s)
             x == CHOOSE x \in left : \A y \in left : key[y] <= key[x]
  <2>2. f[m] = Append(s, x)
    BY <1>1, <2>1 DEF FallStep, NextFalling
  <2>3. ToSet(s) = {s[i] : i \in 1 .. Len(s)}
    BY <2>1 DEF ToSet
  <2>4. left # {}
    <3>1. s \in Surjection(1 .. m - 1, ToSet(s))
      BY <2>1, <2>3 DEF Surjection
    <3>2. m - 1 \in Nat
      BY <1>0
    <3>3. Cardinality(ToSet(s)) <= m - 1
      BY <3>1, <3>2, FS_SurjCardinalityBound DEF ExistsSurjection
    <3>4. ToSet(s) # S
      BY <1>0, <3>2, <3>3 DEF N
    <3> QED
      BY <2>3, <3>4, SMTT(40)
  <2>5. x \in left
    <3>1. left \in SUBSET S /\ key \in [S -> Int]
      OBVIOUS
    <3>2. IsFiniteSet(left)
      BY <3>1, FS_Subset
    <3> DEFINE part == [y \in left |-> key[y]]
    <3>3. part \in [left -> Int]
      BY <3>1
    <3>4. \E z \in left : \A y \in left : part[y] <= part[z]
      <4> HIDE DEF left, part
      <4> QED
        BY <2>4, <3>2, <3>3, GreatestKey
    <3>5. \E z \in left : \A y \in left : key[y] <= key[z]
      BY <3>4
    <3> HIDE DEF left, part
    <3> QED
      BY <3>5
  <2> HIDE DEF left, x
  <2>6. x \in S /\ \A i \in 1 .. Len(s) : s[i] # x
    BY <2>3, <2>5 DEF left
  <2>7. PICK t \in Seq(S) : t = f[m] /\ Len(t) = m /\ \A i \in 1 .. m : t[i] = IF i = m THEN x ELSE s[i]
    <3>1. Append(s, x) \in Seq(S) /\ Len(Append(s, x)) = m
      BY <1>0, <2>1, <2>6
    <3>2. \A i \in 1 .. m : Append(s, x)[i] = IF i = m THEN x ELSE s[i]
      BY <1>0, <2>1, <2>6
    <3> QED
      BY <2>2, <3>1, <3>2
  <2>8. Distinct(t)
    <3>1. ASSUME NEW i \in 1 .. m, NEW j \in 1 .. m, t[i] = t[j] PROVE i = j
      <4>1. \A k \in 1 .. m : k = m \/ k \in 1 .. Len(s)
        BY <1>0, <2>1
      <4>2. \A k \in 1 .. Len(s) : k \in 1 .. m /\ k # m /\ t[k] = s[k] /\ s[k] # x
        BY <1>0, <2>1, <2>6, <2>7
      <4>3. t[m] = x
        BY <1>0, <2>7
      <4>4. CASE i \in 1 .. Len(s) /\ j \in 1 .. Len(s)
        BY <2>1, <3>1, <4>2, <4>4
      <4>5. CASE i = m
        BY <3>1, <4>1, <4>2, <4>3, <4>5
      <4>6. CASE j = m
        BY <3>1, <4>1, <4>2, <4>3, <4>6
      <4> QED
        BY <4>1, <4>4, <4>5, <4>6
    <3> QED
      BY <2>7, <3>1
  <2>9. m \in 0 .. N
    BY <1>0
  <2> HIDE DEF Distinct
  <2> QED
    BY <2>7, <2>8, <2>9
<1> HIDE DEF T
<1>4. N \in T
  BY <1>0, <1>2, <1>3, UpTo
<1>5. PICK s \in Seq(S) : s = Falling(S, key) /\ Len(s) = N /\ Distinct(s)
  BY <1>1, <1>4 DEF T
<1>6. \A x \in S : \E i \in 1 .. N : s[i] = x
  <2>1. s \in Injection(1 .. N, S)
    BY <1>5 DEF Injection, IsInjective
  <2>2. IsFiniteSet(1 .. N) /\ Cardinality(1 .. N) = N
    BY <1>0, FS_Interval
  <2>3. s \in Surjection(1 .. N, S)
    BY <2>1, <2>2, FS_Injection DEF N
  <2> QED
    BY <2>3 DEF Surjection
<1>7. DOMAIN s = 1 .. N
  BY <1>5
<1> QED
  BY <1>5, <1>6, <1>7 DEF N

-----------------------------------------------------------------------------
(* What the rows of an answer add up to *)

\* f is the recursion of Total.
Totals(f, value, column) ==
    f = [i \in 0 .. Len(value) |-> IF i = 0 THEN 0 ELSE f[i - 1] + value[i][column]]

\* f has the partial sums of a column.
TotalSteps(f, n, value, column) ==
    f[0] = 0 /\ \A i \in 1 .. n : f[i] = f[i - 1] + value[i][column]

LEMMA TotalBy ==
    ASSUME NEW value, NEW n \in Nat, Len(value) = n, NEW column,
           \A i \in 1 .. n : value[i][column] \in Nat
    PROVE  \E f : Total(value, column) = f[n] /\ TotalSteps(f, n, value, column)
<1> DEFINE terms == [i \in 1 .. n |-> value[i][column]]
           h == CHOOSE f : Totals(f, value, column)
<1>1. Total(value, column) = h[n]
  BY DEF Total, Totals
<1>2. terms \in [1 .. n -> Nat]
  OBVIOUS
<1>3. \A i \in 1 .. n : terms[i] = value[i][column]
  OBVIOUS
<1> HIDE DEF h, terms
<1>4. PICK f : PartialSums(f, n, terms)
  BY <1>2, SumsExist
<1>5. f \in [0 .. n -> Nat] /\ f[0] = 0
      /\ \A i \in 1 .. n : f[i] = f[i - 1] + value[i][column]
  BY <1>3, <1>4 DEF PartialSums
<1>6. Totals(f, value, column)
  <2>1. \A i \in 0 .. n : i = 0 \/ i \in 1 .. n
    OBVIOUS
  <2>2. \A i \in 0 .. n : f[i] = IF i = 0 THEN 0 ELSE f[i - 1] + value[i][column]
    BY <1>5, <2>1
  <2> QED
    BY <1>5, <2>2 DEF Totals
<1>7. Totals(h, value, column)
  BY <1>6, Zenon DEF h
<1>8. h = [i \in 0 .. n |-> IF i = 0 THEN 0 ELSE h[i - 1] + value[i][column]]
  BY <1>7 DEF Totals
<1>9. h[0] = 0 /\ \A i \in 1 .. n : h[i] = h[i - 1] + terms[i]
  <2>1. h[0] = 0
    BY <1>8
  <2>2. ASSUME NEW i \in 1 .. n PROVE h[i] = h[i - 1] + value[i][column]
    <3>1. i \in 0 .. n /\ i # 0
      OBVIOUS
    <3> QED
      BY <1>8, <3>1
  <2> QED
    BY <1>3, <2>1, <2>2
<1>10. TotalSteps(h, n, value, column)
  BY <1>3, <1>9 DEF TotalSteps
<1> QED
  BY <1>1, <1>10

\* Counts of disjoint parts of some rows add up to the count of them all.
LEMMA PartsAddUp ==
    ASSUME NEW rows, IsTable(rows), NEW n \in Nat, NEW part \in [1 .. n -> SUBSET rows],
           \A i, j \in 1 .. n : i # j => part[i] \cap part[j] = {},
           NEW column \in Columns, NEW value, Len(value) = n,
           \A i \in 1 .. n : value[i][column] = Count(part[i], column)
    PROVE  Total(value, column) = Count(UNION {part[i] : i \in 1 .. n}, column)
<1> DEFINE Parts(m) == UNION {part[i] : i \in 1 .. m}
<1>1. \A i \in 1 .. n : value[i][column] \in Nat
  BY CountOfMore
<1>2. PICK f : Total(value, column) = f[n] /\ TotalSteps(f, n, value, column)
  BY <1>1, TotalBy, Zenon
<1>3. f[0] = 0 /\ \A i \in 1 .. n : f[i] = f[i - 1] + Count(part[i], column)
  BY <1>2 DEF TotalSteps
<1> DEFINE T == {m \in 0 .. n : f[m] = Count(Parts(m), column)}
<1>4. 0 \in T
  <2>1. Parts(0) = {}
    OBVIOUS
  <2>2. f[0] = Count(Parts(0), column)
    BY <1>3, <2>1, CountOfNone
  <2> HIDE DEF Parts
  <2> QED
    BY <2>2
<1>5. ASSUME NEW m \in 1 .. n, m - 1 \in T PROVE m \in T
  <2>1. m - 1 \in 0 .. n /\ m \in 0 .. n /\ f[m - 1] = Count(Parts(m - 1), column)
    BY <1>5
  <2>2. PICK A \in SUBSET rows : A = Parts(m - 1)
    <3>1. \A i \in 1 .. m - 1 : part[i] \in SUBSET rows
      OBVIOUS
    <3>2. Parts(m - 1) \in SUBSET rows
      BY <3>1
    <3> HIDE DEF Parts
    <3> QED
      BY <3>2
  <2>3. PICK B \in SUBSET rows : B = part[m]
    OBVIOUS
  <2>4. A \cap B = {}
    BY <2>2, <2>3
  <2>5. Parts(m) = A \cup B
    <3>1. 1 .. m = (1 .. m - 1) \cup {m}
      OBVIOUS
    <3> QED
      BY <2>2, <2>3, <3>1
  <2> HIDE DEF Parts, T
  <2>6. Count(A \cup B, column) = Count(A, column) + Count(B, column)
    BY <2>4, CountOfUnion
  <2>7. f[m] = f[m - 1] + Count(part[m], column)
    BY <1>3
  <2>8. Count(Parts(m), column) = Count(A \cup B, column)
    BY <2>5, Zenon
  <2>9. f[m - 1] = Count(A, column) /\ Count(part[m], column) = Count(B, column)
    BY <2>1, <2>2, <2>3, Zenon
  <2>10. f[m] = Count(Parts(m), column)
    BY <2>6, <2>7, <2>8, <2>9
  <2> QED
    BY <2>1, <2>10 DEF T
<1> HIDE DEF T
<1>6. n \in T
  <2>1. \A m \in 0 .. n : m \in T
    BY <1>4, <1>5, UpTo
  <2> QED
    BY <2>1
<1>7. f[n] = Count(Parts(n), column)
  <2> HIDE DEF Parts
  <2> QED
    BY <1>6 DEF T
<1> HIDE DEF Parts
<1>8. Total(value, column) = Count(Parts(n), column)
  BY <1>2, <1>7
<1> QED
  BY <1>8 DEF Parts

LEMMA CountedIs ==
    ASSUME NEW label, NEW rows
    PROVE  /\ Counted(label, rows)["label"] = label
           /\ \A column \in Columns : Counted(label, rows)[column] = Count(rows, column)
<1>1. "label" \notin Columns
  BY DEF Columns
<1> QED
  BY <1>1 DEF Counted

\* The values of a function on a finite set are finitely many.
LEMMA FiniteImage ==
    ASSUME NEW S, IsFiniteSet(S), NEW f, DOMAIN f = S
    PROVE  IsFiniteSet({f[x] : x \in S})
<1> DEFINE g == [x \in S |-> f[x]]
<1>1. g \in Surjection(S, {f[x] : x \in S})
  BY DEF Surjection
<1> HIDE DEF g
<1> QED
  BY <1>1, FS_Surjection

\* The rows a window selects.
LEMMA ChosenIsTable ==
    ASSUME NEW rows, IsTable(rows), NEW since, NEW until
    PROVE  /\ Within(rows, since, until) \in SUBSET rows
           /\ IsTable(Within(rows, since, until)) /\ IsFiniteSet(Within(rows, since, until))
<1>1. Within(rows, since, until) \in SUBSET rows
  BY DEF Within
<1> QED
  BY <1>1, PartOfTable DEF IsTable

\* The buckets of a window add up to it.
LEMMA SeriesAddsUp ==
    ASSUME NEW rows, IsTable(rows), \A row \in rows : row.ts \in Nat,
           NEW since, NEW until, NEW bucket, NEW column \in Columns
    PROVE  Total(usage_timeseries(rows, since, until, bucket), column)
               = Count(Within(rows, since, until), column)
<1> DEFINE Start(row) == date_trunc(bucket, row.ts)
<1>1. PICK chosen \in SUBSET rows :
          chosen = Within(rows, since, until) /\ IsTable(chosen) /\ IsFiniteSet(chosen)
  BY ChosenIsTable
<1>2. \A row \in chosen : Start(row) \in Int
  BY HistoryAssumption DEF date_trunc
<1> DEFINE starts == {Start(row) : row \in chosen}
           key == [start \in starts |-> -start]
           inOrder == Falling(starts, key)
           value == [i \in DOMAIN inOrder |->
                        Counted(inOrder[i], {row \in chosen : Start(row) = inOrder[i]})]
<1>3. usage_timeseries(rows, since, until, bucket) = value
  BY <1>1, Zenon DEF usage_timeseries
<1> HIDE DEF Start
<1>4. IsFiniteSet(starts)
  <2> DEFINE f == [row \in chosen |-> Start(row)]
  <2>1. starts = {f[row] : row \in chosen} /\ DOMAIN f = chosen
    OBVIOUS
  <2> HIDE DEF f, starts
  <2> QED
    BY <1>1, <2>1, FiniteImage
<1>5. key \in [starts -> Int]
  BY <1>2
<1>6. \A row \in chosen : Start(row) \in starts
  OBVIOUS
<1> HIDE DEF starts, key
<1> DEFINE n == Cardinality(starts)
<1>7. /\ inOrder \in Seq(starts) /\ Len(inOrder) = n
      /\ \A i, j \in DOMAIN inOrder : inOrder[i] = inOrder[j] => i = j
      /\ \A x \in starts : \E i \in DOMAIN inOrder : inOrder[i] = x
  BY <1>4, <1>5, FallingIs
<1>8. n \in Nat
  BY <1>4, FS_CardinalityType
<1> HIDE DEF inOrder, n
<1>9. DOMAIN inOrder = 1 .. n
  BY <1>7
<1> DEFINE part == [i \in 1 .. n |-> {row \in chosen : Start(row) = inOrder[i]}]
<1>10. part \in [1 .. n -> SUBSET chosen]
  OBVIOUS
<1>11. \A i, j \in 1 .. n : i # j => part[i] \cap part[j] = {}
  BY <1>7, <1>9
<1>12. UNION {part[i] : i \in 1 .. n} = chosen
  <2>1. \A row \in chosen : \E i \in 1 .. n : inOrder[i] = Start(row)
    BY <1>6, <1>7, <1>9
  <2>2. \A row \in chosen : \E i \in 1 .. n : row \in part[i]
    BY <2>1
  <2> HIDE DEF part
  <2> QED
    BY <1>10, <2>2
<1>13. value = [i \in 1 .. n |-> Counted(inOrder[i], part[i])]
  BY <1>9
<1> HIDE DEF value, part
<1>14. Len(value) = n
  BY <1>8, <1>13
<1>15. \A i \in 1 .. n : value[i][column] = Count(part[i], column)
  BY <1>13, CountedIs
<1>16. Total(value, column) = Count(UNION {part[i] : i \in 1 .. n}, column)
  BY <1>1, <1>8, <1>10, <1>11, <1>14, <1>15, PartsAddUp
<1> QED
  BY <1>1, <1>3, <1>12, <1>16, Zenon

\* So do its labels, unless there may be more of them than the query returns.
LEMMA LabelsAddUp ==
    ASSUME NEW rows, IsTable(rows), NEW since, NEW until, NEW by, NEW column \in Columns,
           Len(usage_by(rows, since, until, by)) < MaxLabels
    PROVE  Total(usage_by(rows, since, until, by), column) = Count(Within(rows, since, until), column)
<1>1. PICK chosen \in SUBSET rows :
          chosen = Within(rows, since, until) /\ IsTable(chosen) /\ IsFiniteSet(chosen)
  BY ChosenIsTable
<1> DEFINE labels == {row[by] : row \in chosen}
           Of(label) == {row \in chosen : row[by] = label}
           counted == {Counted(label, Of(label)) : label \in labels}
           key == [c \in counted |-> c["requests"]]
           ranked == Falling(counted, key)
           n == Cardinality(counted)
<1>2. usage_by(rows, since, until, by) = First(MaxLabels, ranked)
  BY <1>1, Zenon DEF usage_by, ByRequests, ByLabel
<1>3. IsFiniteSet(labels)
  <2> DEFINE f == [row \in chosen |-> row[by]]
  <2>1. labels = {f[row] : row \in chosen} /\ DOMAIN f = chosen
    OBVIOUS
  <2> HIDE DEF f, labels
  <2> QED
    BY <1>1, <2>1, FiniteImage
<1>4. \A row \in chosen : row[by] \in labels
  OBVIOUS
<1>5. \A label : Of(label) \in SUBSET chosen
  OBVIOUS
<1>6. \A row \in chosen : \A label : row \in Of(label) <=> row[by] = label
  OBVIOUS
<1> HIDE DEF labels, Of
<1>7. IsFiniteSet(counted)
  <2> DEFINE f == [label \in labels |-> Counted(label, Of(label))]
  <2>1. counted = {f[label] : label \in labels} /\ DOMAIN f = labels
    OBVIOUS
  <2> HIDE DEF f, counted
  <2> QED
    BY <1>3, <2>1, FiniteImage
<1>8. ASSUME NEW c \in counted
      PROVE  /\ c["label"] \in labels /\ c = Counted(c["label"], Of(c["label"]))
             /\ \A col \in Columns : c[col] = Count(Of(c["label"]), col)
  <2>1. PICK label \in labels : c = Counted(label, Of(label))
    OBVIOUS
  <2>2. c["label"] = label
    BY <2>1, CountedIs
  <2> QED
    BY <2>1, <2>2, CountedIs
<1>9. \A label \in labels : Counted(label, Of(label)) \in counted
  OBVIOUS
<1>10. key \in [counted -> Int]
  <2>1. ASSUME NEW c \in counted PROVE c["requests"] \in Int
    <3>1. "requests" \in Columns
      BY DEF Columns
    <3>2. Of(c["label"]) \in SUBSET chosen
      BY <1>5
    <3>3. Count(Of(c["label"]), "requests") \in Nat
      BY <1>1, <3>1, <3>2, CountOfMore
    <3> HIDE DEF counted
    <3> QED
      BY <1>8, <3>1, <3>3
  <2> HIDE DEF counted
  <2> QED
    BY <2>1
<1> HIDE DEF counted, key
<1>11. /\ ranked \in Seq(counted) /\ Len(ranked) = n
       /\ \A i, j \in DOMAIN ranked : ranked[i] = ranked[j] => i = j
       /\ \A x \in counted : \E i \in DOMAIN ranked : ranked[i] = x
  BY <1>7, <1>10, FallingIs
<1>12. n \in Nat
  BY <1>7, FS_CardinalityType
<1> HIDE DEF ranked, n
<1>13. DOMAIN ranked = 1 .. n /\ \A i \in 1 .. n : ranked[i] \in counted
  BY <1>11
<1>14. First(MaxLabels, ranked) = ranked
  <2>1. MaxLabels \in Nat
    BY HistoryAssumption
  <2>2. CASE MaxLabels < Len(ranked)
    <3>1. Len(SubSeq(ranked, 1, MaxLabels)) = MaxLabels
      BY <1>11, <1>12, <2>1, <2>2
    <3>2. Len(First(MaxLabels, ranked)) = MaxLabels
      BY <2>2, <3>1 DEF First
    <3> QED
      BY <1>2, <2>1, <3>2
  <2>3. CASE ~(MaxLabels < Len(ranked))
    <3>1. First(MaxLabels, ranked) = SubSeq(ranked, 1, Len(ranked))
      BY <2>3 DEF First
    <3>2. SubSeq(ranked, 1, Len(ranked)) = ranked
      BY <1>11
    <3> QED
      BY <3>1, <3>2
  <2> QED
    BY <2>2, <2>3
<1> DEFINE part == [i \in 1 .. n |-> Of(ranked[i]["label"])]
<1>15. part \in [1 .. n -> SUBSET chosen]
  BY <1>5
<1>16. \A i, j \in 1 .. n : i # j => part[i] \cap part[j] = {}
  <2>1. ASSUME NEW i \in 1 .. n, NEW j \in 1 .. n, ranked[i]["label"] = ranked[j]["label"] PROVE i = j
    <3>1. ranked[i] \in counted /\ ranked[j] \in counted
      BY <1>13
    <3>2. ranked[i] = ranked[j]
      BY <1>8, <2>1, <3>1, Zenon
    <3> QED
      BY <1>11, <1>13, <3>2
  <2>2. ASSUME NEW i \in 1 .. n, NEW j \in 1 .. n, NEW row \in part[i], row \in part[j] PROVE i = j
    <3>1. row \in chosen /\ row \in Of(ranked[i]["label"]) /\ row \in Of(ranked[j]["label"])
      BY <1>5, <2>2
    <3>2. row[by] = ranked[i]["label"] /\ row[by] = ranked[j]["label"]
      BY <1>6, <3>1
    <3> QED
      BY <2>1, <3>2
  <2> HIDE DEF part
  <2> QED
    BY <2>2
<1>17. UNION {part[i] : i \in 1 .. n} = chosen
  <2>1. ASSUME NEW row \in chosen PROVE \E i \in 1 .. n : row \in part[i]
    <3>1. Counted(row[by], Of(row[by])) \in counted
      BY <1>4, <1>9
    <3>2. PICK i \in 1 .. n : ranked[i] = Counted(row[by], Of(row[by]))
      BY <1>11, <1>13, <3>1
    <3>3. ranked[i]["label"] = row[by]
      BY <3>2, CountedIs
    <3>4. row \in Of(ranked[i]["label"])
      BY <1>6, <3>3
    <3> QED
      BY <3>4
  <2> HIDE DEF part
  <2> QED
    BY <1>15, <2>1
<1>18. \A i \in 1 .. n : ranked[i][column] = Count(part[i], column)
  BY <1>8, <1>13
<1> HIDE DEF part
<1>19. Total(ranked, column) = Count(UNION {part[i] : i \in 1 .. n}, column)
  BY <1>1, <1>11, <1>12, <1>15, <1>16, <1>18, PartsAddUp
<1> QED
  BY <1>1, <1>2, <1>14, <1>17, <1>19, Zenon

-----------------------------------------------------------------------------
(* The pages over the usage history *)

\* The events of finished requests are numbered, and have numbers in their columns.
EventsPart ==
    /\ IsSeq(finished) /\ Len(finished) <= MaxFinished /\ time \in Nat
    /\ \A i \in DOMAIN finished :
          /\ finished[i].request_id = i /\ finished[i].ts \in Nat
          /\ \A column \in Summed : finished[i][column] \in SUBSET Nat

\* Only they are written.
WrittenPart ==
    /\ usage_events \subseteq ToSet(finished)
    /\ \A task \in spawned : task[2] \in ToSet(finished)

PagePart == \A p \in page :
    /\ p = [name |-> p.name, window |-> p.window, answers |-> p.answers]
    /\ IsSeq(p.answers)

\* What the window of a page has now.
Now(p, column) == Count(Within(usage_events, p.window.since, p.window.until), column)

\* An answer counts no more than there is now, and as much if no row has come since.
CurrentPart == \A p \in page : \A i \in DOMAIN p.answers :
    /\ p.answers[i].rows \in Nat /\ p.answers[i].rows <= Cardinality(usage_events)
    /\ \A column \in Columns : Complete(p.answers[i]) =>
          /\ TotalOf(p.answers[i], column) \in Nat
          /\ TotalOf(p.answers[i], column) <= Now(p, column)
          /\ p.answers[i].rows = Cardinality(usage_events) =>
                TotalOf(p.answers[i], column) = Now(p, column)

\* Two answers of one page.
Agree(a, b) ==
    \A column \in Columns : Complete(a) /\ Complete(b) =>
        /\ TotalOf(a, column) <= TotalOf(b, column)
        /\ a.rows = b.rows => TotalOf(a, column) = TotalOf(b, column)
AgreePart == \A p \in page : \A i, j \in DOMAIN p.answers :
    i < j => Agree(p.answers[i], p.answers[j])

HistoryIInv == EventsPart /\ WrittenPart /\ PagePart /\ CurrentPart /\ AgreePart

LEMMA AppendedSeq ==
    ASSUME NEW s, IsSeq(s), NEW x
    PROVE  /\ Len(s) \in Nat /\ DOMAIN s = 1 .. Len(s)
           /\ IsSeq(Append(s, x))
           /\ DOMAIN Append(s, x) = 1 .. Len(s) + 1 /\ Len(Append(s, x)) = Len(s) + 1
           /\ \A i \in 1 .. Len(s) + 1 : Append(s, x)[i] = IF i = Len(s) + 1 THEN x ELSE s[i]
           /\ ToSet(Append(s, x)) = ToSet(s) \cup {x}
<1>1. s \in Seq(ToSet(s))
  BY DEF IsSeq
<1>2. PICK X : X = ToSet(s) \cup {x}
  OBVIOUS
<1>3. ToSet(s) = {s[i] : i \in DOMAIN s}
  BY DEF ToSet
<1>4. Len(s) \in Nat /\ DOMAIN s = 1 .. Len(s)
  BY <1>1
<1>5. \A i \in 1 .. Len(s) : s[i] \in X
  BY <1>2, <1>3, <1>4
<1>6. s \in Seq(X)
  <2>1. s = [i \in 1 .. Len(s) |-> s[i]]
    BY <1>1
  <2>2. s \in [1 .. Len(s) -> X]
    BY <1>5, <2>1
  <2> QED
    BY <1>4, <2>2, SeqDef
<1>7. x \in X
  BY <1>2
<1>8. PICK t \in Seq(X) : t = Append(s, x)
  <2>1. Append(s, x) \in Seq(X)
    BY <1>6, <1>7
  <2> QED
    BY <2>1, Zenon
<1>9. /\ Len(t) = Len(s) + 1 /\ DOMAIN t = 1 .. Len(s) + 1
      /\ \A i \in 1 .. Len(s) + 1 : t[i] = IF i = Len(s) + 1 THEN x ELSE s[i]
  BY <1>6, <1>7, <1>8
<1>10. ToSet(t) = X
  <2>1. ToSet(t) = {t[i] : i \in DOMAIN t}
    BY DEF ToSet
  <2>2. Len(s) + 1 \in 1 .. Len(s) + 1 /\ \A i \in 1 .. Len(s) : i \in 1 .. Len(s) + 1 /\ i # Len(s) + 1
    BY <1>4
  <2>3. \A i \in DOMAIN t : t[i] \in X
    BY <1>8
  <2>4. x \in ToSet(t) /\ \A i \in 1 .. Len(s) : s[i] \in ToSet(t)
    BY <1>9, <2>1, <2>2
  <2>5. \A y \in ToSet(s) : y \in ToSet(t)
    BY <1>3, <1>4, <2>4
  <2> QED
    BY <1>2, <2>1, <2>3, <2>4, <2>5
<1>11. IsSeq(t)
  BY <1>8, <1>10 DEF IsSeq
<1>12. ToSet(t) = ToSet(s) \cup {x}
  BY <1>2, <1>10
<1> QED
  BY <1>4, <1>8, <1>9, <1>11, <1>12

\* A finished event has its number.
LEMMA EventAt ==
    ASSUME EventsPart, NEW row \in ToSet(finished)
    PROVE  /\ row.request_id \in 1 .. Len(finished) /\ row = finished[row.request_id]
           /\ row.ts \in Nat /\ \A column \in Summed : row[column] \in SUBSET Nat
<1>1. finished \in Seq(ToSet(finished))
  BY DEF EventsPart, IsSeq
<1>2. DOMAIN finished = 1 .. Len(finished)
  BY <1>1
<1>3. PICK i \in DOMAIN finished : row = finished[i]
  BY DEF ToSet
<1>4. /\ finished[i].request_id = i /\ finished[i].ts \in Nat
      /\ \A column \in Summed : finished[i][column] \in SUBSET Nat
  BY <1>3 DEF EventsPart
<1> QED
  BY <1>2, <1>3, <1>4

\* The table has one row per request.
LEMMA EventsAreTable ==
    ASSUME EventsPart, NEW rows \in SUBSET ToSet(finished)
    PROVE  /\ IsTable(rows) /\ \A row \in rows : row.ts \in Nat
           /\ IsFiniteSet(rows) /\ Cardinality(rows) \in Nat
<1>1. \A row \in rows :
          /\ row.request_id \in 1 .. Len(finished) /\ row = finished[row.request_id]
          /\ row.ts \in Nat /\ \A column \in Summed : row[column] \in SUBSET Nat
  BY EventAt
<1>2. Len(finished) \in Nat
  BY AppendedSeq DEF EventsPart
<1>3. IsFiniteSet(rows)
  <2> DEFINE id == [row \in rows |-> row.request_id]
  <2>1. id \in Injection(rows, 1 .. Len(finished))
    <3>1. id \in [rows -> 1 .. Len(finished)]
      BY <1>1
    <3>2. \A r, s \in rows : id[r] = id[s] => r = s
      BY <1>1
    <3> HIDE DEF id
    <3> QED
      BY <3>1, <3>2 DEF Injection, IsInjective
  <2>2. IsFiniteSet(1 .. Len(finished))
    BY <1>2, FS_Interval
  <2> QED
    BY <2>1, <2>2, FS_Injection
<1>4. \A r, s \in rows : r.request_id = s.request_id => r = s
  BY <1>1
<1> QED
  BY <1>1, <1>3, <1>4, FS_CardinalityType DEF IsTable

\* An answer that counts the window counts what it has now.
LEMMA ReplyTotals ==
    ASSUME EventsPart, WrittenPart, NEW p, NEW answer,
           answer.value = Reply(p, answer.question, usage_events), Complete(answer), NEW column \in Columns
    PROVE  TotalOf(answer, column) = Now(p, column)
<1>1. IsTable(usage_events) /\ \A row \in usage_events : row.ts \in Nat
  BY EventsAreTable DEF WrittenPart
<1> DEFINE w == p.window
<1>2. CASE answer.question = "summary"
  <2>1. answer.value = usage_summary(usage_events, w.since, w.until)
    BY <1>2 DEF Reply
  <2>2. column \notin {"pii_count", "error_count"}
    BY DEF Columns
  <2>3. usage_summary(usage_events, w.since, w.until)[column] = Count(Within(usage_events, w.since, w.until), column)
    BY <2>2 DEF usage_summary
  <2> QED
    BY <1>2, <2>1, <2>3 DEF TotalOf, Now
<1>3. CASE answer.question = "timeseries"
  <2>1. answer.value = usage_timeseries(usage_events, w.since, w.until, w.bucket)
    BY <1>3 DEF Reply
  <2>2. Total(usage_timeseries(usage_events, w.since, w.until, w.bucket), column)
            = Count(Within(usage_events, w.since, w.until), column)
    BY <1>1, SeriesAddsUp
  <2> QED
    BY <1>3, <2>1, <2>2 DEF TotalOf, Now
<1>4. CASE answer.question \notin {"summary", "timeseries"}
  <2>1. answer.question \notin {"recent", "pii"} /\ Len(answer.value) < MaxLabels
    BY <1>4 DEF Complete
  <2>2. answer.value = usage_by(usage_events, w.since, w.until, answer.question)
    BY <1>4, <2>1 DEF Reply
  <2>3. Total(answer.value, column) = Count(Within(usage_events, w.since, w.until), column)
    BY <1>1, <2>1, <2>2, LabelsAddUp
  <2> QED
    BY <1>4, <2>3 DEF TotalOf, Now
<1> QED
  BY <1>2, <1>3, <1>4

LEMMA NowIsNat ==
    ASSUME EventsPart, WrittenPart, NEW p, NEW column \in Columns
    PROVE  Now(p, column) \in Nat
<1>1. IsTable(usage_events)
  BY EventsAreTable DEF WrittenPart
<1>2. Within(usage_events, p.window.since, p.window.until) \in SUBSET usage_events
  BY DEF Within
<1> QED
  BY <1>1, <1>2, CountOfMore DEF Now

LEMMA HistoryInitHolds == HistoryInit => HistoryIInv
<1> SUFFICES ASSUME HistoryInit PROVE HistoryIInv
  OBVIOUS
<1>1. IsSeq(<<>>) /\ Len(<<>>) = 0 /\ DOMAIN <<>> = {}
  BY EmptySeq DEF IsSeq
<1>2. EventsPart
  BY <1>1, HistoryAssumption DEF HistoryInit, EventsPart
<1> QED
  BY <1>2 DEF HistoryInit, HistoryIInv, WrittenPart, PagePart, CurrentPart, AgreePart

\* A request finishes.
LEMMA EmitHistoryStep ==
    ASSUME HistoryIInv, NEW usage \in Usages, emit_event(usage)
    PROVE  HistoryIInv'
<1> DEFINE event == [field \in DOMAIN usage \cup {"request_id", "ts"} |->
                       CASE field = "request_id" -> Len(finished) + 1
                         [] field = "ts" -> time
                         [] OTHER -> usage[field]]
<1>1. /\ Len(finished) < MaxFinished /\ finished' = Append(finished, event)
      /\ \A task \in spawned' : task \in spawned \/ task[2] = event
      /\ UNCHANGED <<time, usage_events, page>>
  <2>1. /\ Len(finished) < MaxFinished /\ finished' = Append(finished, event)
        /\ UNCHANGED <<time, usage_events, page>>
    BY Zenon DEF emit_event
  <2>2. \/ spawned' = spawned
        \/ \E into : spawned' = spawned \cup {<<table, event>> : table \in into}
    <3>1. spawned' = IF store = "none" THEN spawned
                     ELSE spawned \cup {<<table, event>> : table \in
                            {"usage"} \cup IF event.pii /\ event.pii_map # {} THEN {"pii"} ELSE {}}
      BY Zenon DEF emit_event
    <3> HIDE DEF event
    <3> QED
      BY <3>1, Zenon
  <2> HIDE DEF event
  <2>3. \A task \in spawned' : task \in spawned \/ task[2] = event
    BY <2>2
  <2> QED
    BY <2>1, <2>3
<1>2. event.request_id = Len(finished) + 1 /\ event.ts = time
  OBVIOUS
<1>3. \A column \in Summed : event[column] \in SUBSET Nat
  <2>1. \A column \in Summed : column \in DOMAIN usage /\ usage[column] \in SUBSET Nat
        /\ column \notin {"request_id", "ts"}
    BY HistoryAssumption DEF Summed, Columns
  <2> QED
    BY <2>1
<1> HIDE DEF event
<1>4. IsSeq(finished)
  BY DEF HistoryIInv, EventsPart
<1>5. /\ Len(finished) \in Nat /\ DOMAIN finished = 1 .. Len(finished)
      /\ IsSeq(finished')
      /\ DOMAIN finished' = 1 .. Len(finished) + 1 /\ Len(finished') = Len(finished) + 1
      /\ \A i \in 1 .. Len(finished) + 1 : finished'[i] = IF i = Len(finished) + 1 THEN event ELSE finished[i]
      /\ ToSet(finished') = ToSet(finished) \cup {event}
  BY <1>1, <1>4, AppendedSeq
<1>6. EventsPart'
  <2>1. ASSUME NEW i \in DOMAIN finished'
        PROVE  /\ finished'[i].request_id = i /\ finished'[i].ts \in Nat
               /\ \A column \in Summed : finished'[i][column] \in SUBSET Nat
    <3>1. CASE i = Len(finished) + 1
      BY <1>2, <1>3, <1>5, <3>1 DEF HistoryIInv, EventsPart
    <3>2. CASE i # Len(finished) + 1
      <4>1. i \in DOMAIN finished /\ finished'[i] = finished[i]
        BY <1>5, <3>2
      <4> QED
        BY <4>1 DEF HistoryIInv, EventsPart
    <3> QED
      BY <3>1, <3>2
  <2>2. Len(finished') <= MaxFinished
    BY <1>1, <1>5, HistoryAssumption
  <2> QED
    BY <1>1, <1>5, <2>1, <2>2 DEF HistoryIInv, EventsPart
<1>7. WrittenPart'
  BY <1>1, <1>5 DEF HistoryIInv, WrittenPart
<1> QED
  BY <1>1, <1>6, <1>7 DEF HistoryIInv, PagePart, CurrentPart, AgreePart, Now

\* A row is kept, or not.
LEMMA WriteHistoryStep ==
    ASSUME HistoryIInv, NEW task \in spawned, Write(task)
    PROVE  HistoryIInv'
<1>1. /\ spawned' \subseteq spawned /\ UNCHANGED <<time, finished, page>>
      /\ usage_events' = usage_events \/ usage_events' = record_usage(usage_events, task[2])
  BY DEF Write
<1>2. usage_events' = usage_events \/ usage_events' = usage_events \cup {task[2]}
  BY <1>1 DEF record_usage
<1>3. EventsPart /\ WrittenPart
  BY DEF HistoryIInv
<1>4. EventsPart'
  BY <1>1, <1>3 DEF EventsPart
<1>5. WrittenPart'
  BY <1>1, <1>2, <1>3 DEF WrittenPart
<1>6. CASE usage_events' = usage_events
  BY <1>1, <1>4, <1>5, <1>6 DEF HistoryIInv, PagePart, CurrentPart, AgreePart, Now
<1>7. CASE usage_events' # usage_events
  <2>1. /\ IsFiniteSet(usage_events) /\ Cardinality(usage_events) \in Nat
    BY <1>3, EventsAreTable DEF WrittenPart
  <2>2. usage_events' = usage_events \cup {task[2]} /\ task[2] \notin usage_events
    BY <1>2, <1>7
  <2>3. Cardinality(usage_events') = Cardinality(usage_events) + 1
    BY <2>1, <2>2, FS_AddElement
  <2>4. IsTable(usage_events')
    <3>1. usage_events' \in SUBSET ToSet(finished)
      BY <1>3, <2>2 DEF WrittenPart
    <3> QED
      BY <1>3, <3>1, EventsAreTable
  <2>5. ASSUME NEW p, NEW column \in Columns 
        PROVE  Now(p, column) \in Nat /\ Now(p, column)' \in Nat /\ Now(p, column) <= Now(p, column)'
    <3> DEFINE A == Within(usage_events, p.window.since, p.window.until)
               B == Within(usage_events', p.window.since, p.window.until)
    <3>1. A \in SUBSET B /\ B \in SUBSET usage_events'
      BY <2>2 DEF Within
    <3>2. Now(p, column) = Count(A, column) /\ Now(p, column)' = Count(B, column)
      BY DEF Now
    <3> HIDE DEF A, B
    <3>3. IsTable(B)
      BY <2>4, <3>1, PartOfTable
    <3>4. Count(A, column) \in Nat /\ Count(B, column) \in Nat /\ Count(A, column) <= Count(B, column)
      BY <3>1, <3>3, CountOfMore
    <3> QED
      BY <3>2, <3>4
  <2>6. CurrentPart'
    <3>1. ASSUME NEW p \in page, NEW i \in DOMAIN p.answers
          PROVE  /\ p.answers[i].rows \in Nat /\ p.answers[i].rows < Cardinality(usage_events')
                 /\ \A column \in Columns : Complete(p.answers[i]) =>
                       /\ TotalOf(p.answers[i], column) \in Nat
                       /\ TotalOf(p.answers[i], column) <= Now(p, column)'
      <4>1. p.answers[i].rows \in Nat /\ p.answers[i].rows <= Cardinality(usage_events)
        BY DEF HistoryIInv, CurrentPart
      <4>2. p.answers[i].rows < Cardinality(usage_events')
        BY <2>1, <2>3, <4>1
      <4>3. ASSUME NEW column \in Columns, Complete(p.answers[i])
            PROVE  /\ TotalOf(p.answers[i], column) \in Nat
                   /\ TotalOf(p.answers[i], column) <= Now(p, column)'
        <5>1. /\ TotalOf(p.answers[i], column) \in Nat
              /\ TotalOf(p.answers[i], column) <= Now(p, column)
          BY <4>3 DEF HistoryIInv, CurrentPart
        <5>2. Now(p, column) \in Nat /\ Now(p, column)' \in Nat /\ Now(p, column) <= Now(p, column)'
          BY <2>5
        <5> QED
          BY <5>1, <5>2
      <4> QED
        BY <4>1, <4>2, <4>3
    <3>2. page' = page /\ Cardinality(usage_events') \in Nat
      BY <1>1, <2>1, <2>3
    <3> QED
      BY <3>1, <3>2 DEF CurrentPart
  <2> QED
    BY <1>1, <1>4, <1>5, <2>6 DEF HistoryIInv, PagePart, AgreePart
<1> QED
  BY <1>6, <1>7

\* A page opens, or is shown; an hour passes.
LEMMA FreshPage ==
    ASSUME HistoryIInv, UNCHANGED <<time, finished, spawned, usage_events>>,
           page' = {} \/ \E name, window : page' = {[name |-> name, window |-> window, answers |-> <<>>]}
    PROVE  HistoryIInv'
<1>1. \A p \in page' : /\ p = [name |-> p.name, window |-> p.window, answers |-> p.answers]
                       /\ p.answers = <<>>
  OBVIOUS
<1>2. IsSeq(<<>>) /\ DOMAIN <<>> = {}
  BY EmptySeq DEF IsSeq
<1>3. \A p \in page' : IsSeq(p.answers) /\ DOMAIN p.answers = {}
  BY <1>1, <1>2
<1>4. EventsPart' /\ WrittenPart'
  BY DEF HistoryIInv, EventsPart, WrittenPart
<1>5. PagePart'
  BY <1>1, <1>3 DEF PagePart
<1>6. CurrentPart' /\ AgreePart'
  BY <1>3 DEF CurrentPart, AgreePart
<1> QED
  BY <1>4, <1>5, <1>6 DEF HistoryIInv

\* A page asks its next question.
LEMMA AskNextStep ==
    ASSUME HistoryIInv, AskNext
    PROVE  HistoryIInv'
<1>1. PICK p \in page : \E answered \in Outcome :
          page' = {[p EXCEPT !.answers = Append(@,
                      [question |-> Asked(p)[Len(p.answers) + 1], answered |-> answered,
                       rows |-> Cardinality(usage_events),
                       value |-> Reply(p, Asked(p)[Len(p.answers) + 1],
                                       IF answered THEN usage_events ELSE {})])]}
  BY DEF AskNext
<1>2. UNCHANGED <<time, finished, spawned, usage_events>>
  BY DEF AskNext
<1>3. PICK answered \in Outcome :
          page' = {[p EXCEPT !.answers = Append(@,
                      [question |-> Asked(p)[Len(p.answers) + 1], answered |-> answered,
                       rows |-> Cardinality(usage_events),
                       value |-> Reply(p, Asked(p)[Len(p.answers) + 1],
                                       IF answered THEN usage_events ELSE {})])]}
  BY <1>1
<1> DEFINE question == Asked(p)[Len(p.answers) + 1]
<1>4. PICK a : a = [question |-> question, answered |-> answered, rows |-> Cardinality(usage_events),
                    value |-> Reply(p, question, IF answered THEN usage_events ELSE {})]
  OBVIOUS
<1>5. EventsPart /\ WrittenPart /\ IsSeq(p.answers)
      /\ p = [name |-> p.name, window |-> p.window, answers |-> p.answers]
  BY DEF HistoryIInv, PagePart
<1>6. PICK q : /\ q = [name |-> p.name, window |-> p.window, answers |-> Append(p.answers, a)]
               /\ page' = {q}
  <2>1. [p EXCEPT !.answers = Append(@, a)] = [name |-> p.name, window |-> p.window, answers |-> Append(p.answers, a)]
    BY <1>5
  <2>2. page' = {[p EXCEPT !.answers = Append(@, a)]}
    BY <1>3, <1>4
  <2> QED
    BY <2>1, <2>2
<1> DEFINE n == Len(p.answers) + 1
<1>7. /\ Len(p.answers) \in Nat /\ DOMAIN p.answers = 1 .. Len(p.answers)
      /\ IsSeq(q.answers) /\ DOMAIN q.answers = 1 .. n
      /\ \A i \in 1 .. n : q.answers[i] = IF i = n THEN a ELSE p.answers[i]
  BY <1>5, <1>6, AppendedSeq
<1>8. /\ Cardinality(usage_events) \in Nat /\ a.rows = Cardinality(usage_events)
      /\ \A column \in Columns : Now(p, column) \in Nat /\ Now(q, column) = Now(p, column)
  <2>1. q.window = p.window
    BY <1>6
  <2>2. Cardinality(usage_events) \in Nat /\ \A column \in Columns : Now(p, column) \in Nat
    BY <1>5, EventsAreTable, NowIsNat DEF WrittenPart
  <2> QED
    BY <1>4, <2>1, <2>2 DEF Now
<1>9. ASSUME Complete(a), NEW column \in Columns PROVE TotalOf(a, column) = Now(p, column)
  <2>1. a.answered = TRUE
    <3>1. a.answered
      BY <1>9 DEF Complete
    <3>2. a.answered = answered /\ answered \in BOOLEAN
      BY <1>4 DEF Outcome
    <3> QED
      BY <3>1, <3>2
  <2>2. a.value = Reply(p, a.question, usage_events)
    BY <1>4, <2>1
  <2> QED
    BY <1>5, <1>9, <2>2, ReplyTotals
<1>10. \A i \in 1 .. Len(p.answers) :
           /\ p.answers[i].rows \in Nat /\ p.answers[i].rows <= Cardinality(usage_events)
           /\ \A column \in Columns : Complete(p.answers[i]) =>
                 /\ TotalOf(p.answers[i], column) \in Nat
                 /\ TotalOf(p.answers[i], column) <= Now(p, column)
                 /\ p.answers[i].rows = Cardinality(usage_events) =>
                       TotalOf(p.answers[i], column) = Now(p, column)
  BY <1>7 DEF HistoryIInv, CurrentPart
<1>11. \A i \in 1 .. n : i = n \/ i \in 1 .. Len(p.answers)
  BY <1>7
<1> HIDE DEF n, question
<1>12. ASSUME NEW i \in 1 .. n
       PROVE  /\ q.answers[i].rows \in Nat /\ q.answers[i].rows <= Cardinality(usage_events)
              /\ \A column \in Columns : Complete(q.answers[i]) =>
                    /\ TotalOf(q.answers[i], column) \in Nat
                    /\ TotalOf(q.answers[i], column) <= Now(q, column)
                    /\ q.answers[i].rows = Cardinality(usage_events) =>
                          TotalOf(q.answers[i], column) = Now(q, column)
  <2>1. CASE i = n
    <3>1. q.answers[i] = a
      BY <1>7, <2>1
    <3> QED
      BY <1>8, <1>9, <3>1
  <2>2. CASE i # n
    <3>1. q.answers[i] = p.answers[i] /\ i \in 1 .. Len(p.answers)
      BY <1>7, <1>11, <2>2
    <3> QED
      BY <1>8, <1>10, <3>1
  <2> QED
    BY <2>1, <2>2
<1>13. ASSUME NEW i \in 1 .. n, NEW j \in 1 .. n, i < j PROVE Agree(q.answers[i], q.answers[j])
  <2>1. i \in 1 .. Len(p.answers) /\ q.answers[i] = p.answers[i]
    BY <1>7, <1>11, <1>13 DEF n
  <2>2. CASE j = n
    <3>1. q.answers[j] = a
      BY <1>7, <2>2
    <3>2. Agree(p.answers[i], a)
      BY <1>8, <1>9, <1>10, <2>1 DEF Agree
    <3> QED
      BY <2>1, <3>1, <3>2
  <2>3. CASE j # n
    <3>1. q.answers[j] = p.answers[j] /\ j \in 1 .. Len(p.answers)
      BY <1>7, <1>11, <2>3
    <3>2. Agree(p.answers[i], p.answers[j])
      BY <1>7, <1>13, <2>1, <3>1 DEF HistoryIInv, AgreePart
    <3> QED
      BY <2>1, <3>1, <3>2
  <2> QED
    BY <2>2, <2>3
<1>14. EventsPart' /\ WrittenPart'
  BY <1>2, <1>5 DEF EventsPart, WrittenPart
<1>15. PagePart'
  <2>1. q.name = p.name /\ q.window = p.window /\ q.answers = Append(p.answers, a)
    BY <1>6
  <2>2. q = [name |-> q.name, window |-> q.window, answers |-> q.answers]
    BY <1>6, <2>1
  <2>3. \A r \in page' : r = q
    BY <1>6
  <2> QED
    BY <1>7, <2>2, <2>3 DEF PagePart
<1>16. CurrentPart'
  <2>1. \A r \in page' : r = q
    BY <1>6
  <2>2. \A column : Now(q, column)' = Now(q, column)
    BY <1>2 DEF Now
  <2> QED
    BY <1>2, <1>7, <1>12, <2>1, <2>2 DEF CurrentPart
<1>17. AgreePart'
  <2>1. \A r \in page' : r = q
    BY <1>6
  <2> QED
    BY <1>7, <1>13, <2>1 DEF AgreePart
<1> QED
  BY <1>14, <1>15, <1>16, <1>17 DEF HistoryIInv

LEMMA HistoryStep ==
    ASSUME HistoryIInv, [HistoryNext]_historyVars
    PROVE  HistoryIInv'
<1>1. CASE \E usage \in Usages : emit_event(usage)
  BY <1>1, EmitHistoryStep
<1>2. CASE \E task \in spawned : Write(task)
  BY <1>2, WriteHistoryStep
<1>3. CASE \E name \in DOMAIN Questions : Open(name)
  BY <1>3, FreshPage DEF Open
<1>4. CASE OpenSeries
  BY <1>4, FreshPage DEF OpenSeries
<1>5. CASE AskNext
  BY <1>5, AskNextStep
<1>6. CASE Show
  BY <1>6, FreshPage DEF Show
<1>7. CASE HistoryTick
  <2>1. /\ page = {} /\ time' = time + 1 /\ UNCHANGED <<finished, spawned, usage_events, page>>
    BY <1>7 DEF HistoryTick
  <2>2. EventsPart'
    BY <2>1 DEF HistoryIInv, EventsPart
  <2> QED
    BY <2>1, <2>2 DEF HistoryIInv, WrittenPart, PagePart, CurrentPart, AgreePart
<1>8. CASE UNCHANGED historyVars
  BY <1>8 DEF historyVars, HistoryIInv, EventsPart, WrittenPart, PagePart, CurrentPart, AgreePart, Now
<1> QED
  BY <1>1, <1>2, <1>3, <1>4, <1>5, <1>6, <1>7, <1>8 DEF HistoryNext

\* The requests a window counts have finished in it.
LEMMA NowHaveFinished ==
    ASSUME EventsPart, WrittenPart, NEW p
    PROVE  Now(p, "requests") <= Cardinality(FinishedIn(p.window)) /\ Cardinality(FinishedIn(p.window)) \in Nat
<1> DEFINE chosen == Within(usage_events, p.window.since, p.window.until)
           id == [row \in chosen |-> row.request_id]
<1>1. Now(p, "requests") = Cardinality(chosen)
  BY DEF Now, Count
<1>2. DOMAIN finished = 1 .. Len(finished) /\ Len(finished) \in Nat
  BY AppendedSeq DEF EventsPart
<1>3. \A row \in chosen : row.request_id \in FinishedIn(p.window) /\ row = finished[row.request_id]
  <2>1. \A row \in chosen : row \in ToSet(finished) /\ p.window.since <= row.ts /\ row.ts < p.window.until
    BY DEF Within, WrittenPart
  <2> QED
    BY <1>2, <2>1, EventAt DEF FinishedIn
<1>4. FinishedIn(p.window) \in SUBSET (1 .. Len(finished))
  BY <1>2 DEF FinishedIn
<1>5. IsFiniteSet(FinishedIn(p.window)) /\ Cardinality(FinishedIn(p.window)) \in Nat
  <2>1. IsFiniteSet(1 .. Len(finished))
    BY <1>2, FS_Interval
  <2>2. IsFiniteSet(FinishedIn(p.window))
    BY <1>4, <2>1, FS_Subset
  <2> QED
    BY <2>2, FS_CardinalityType
<1> HIDE DEF chosen
<1>6. id \in Injection(chosen, FinishedIn(p.window))
  <2>1. id \in [chosen -> FinishedIn(p.window)]
    BY <1>3
  <2>2. \A r, s \in chosen : id[r] = id[s] => r = s
    BY <1>3
  <2> HIDE DEF id
  <2> QED
    BY <2>1, <2>2 DEF Injection, IsInjective
<1>7. Cardinality(chosen) <= Cardinality(FinishedIn(p.window))
  BY <1>5, <1>6, FS_Injection
<1> QED
  BY <1>1, <1>5, <1>7

LEMMA HistoryImplied == HistoryIInv => PageAgrees
<1> SUFFICES ASSUME HistoryIInv, NEW p \in page, NEW i \in DOMAIN p.answers, Complete(p.answers[i])
             PROVE  /\ TotalOf(p.answers[i], "requests") <= Cardinality(FinishedIn(p.window))
                    /\ \A j \in i + 1 .. Len(p.answers), column \in Columns :
                          Complete(p.answers[j]) =>
                             /\ TotalOf(p.answers[i], column) <= TotalOf(p.answers[j], column)
                             /\ p.answers[i].rows = p.answers[j].rows =>
                                   TotalOf(p.answers[i], column) = TotalOf(p.answers[j], column)
  BY DEF PageAgrees
<1>1. EventsPart /\ WrittenPart /\ IsSeq(p.answers) /\ "requests" \in Columns
  BY DEF HistoryIInv, PagePart, Columns
<1>2. TotalOf(p.answers[i], "requests") <= Cardinality(FinishedIn(p.window))
  <2>1. TotalOf(p.answers[i], "requests") \in Nat /\ TotalOf(p.answers[i], "requests") <= Now(p, "requests")
    BY <1>1 DEF HistoryIInv, CurrentPart
  <2>2. Now(p, "requests") <= Cardinality(FinishedIn(p.window)) /\ Cardinality(FinishedIn(p.window)) \in Nat
    BY <1>1, NowHaveFinished
  <2>3. Now(p, "requests") \in Nat
    BY <1>1, NowIsNat
  <2> QED
    BY <2>1, <2>2, <2>3
<1>3. DOMAIN p.answers = 1 .. Len(p.answers)
  BY <1>1, AppendedSeq
<1>4. \A j \in i + 1 .. Len(p.answers) : j \in DOMAIN p.answers /\ i < j
  BY <1>3
<1>5. \A j \in i + 1 .. Len(p.answers) : Agree(p.answers[i], p.answers[j])
  BY <1>4 DEF HistoryIInv, AgreePart
<1> QED
  BY <1>2, <1>5 DEF Agree

\* Whatever is written between its questions, an answer counts no more than its window
\* has now, and as much as long as no row has come.
THEOREM HistoryInductive == HistorySpec => []HistoryIInv
  BY HistoryInitHolds, HistoryStep, PTL DEF HistorySpec

\* The numbers of a page agree, for any buckets, any number of labels and requests, and
\* however writing interleaves with asking and the database fails.
THEOREM PagesAgree == HistorySpec => []PageAgrees
  BY HistoryInductive, HistoryImplied, PTL
=============================================================================
