-------------------------------- MODULE Vault --------------------------------
(***************************************************************************)
(* The entity vault of crates/drgtw-vault/src/lib.rs: a SQLite file that   *)
(* several gateway processes may open, each with the master key of its own *)
(* configuration.  A gateway serves one call at a time (the mutex around   *)
(* its connection); between gateways only SQLite's write lock excludes.    *)
(* Statements of `open' commit one by one; get_or_assign is a transaction  *)
(* that takes the write lock at its BEGIN IMMEDIATE.                       *)
(*                                                                         *)
(* The subkeys, the blind index and the ciphertext of a row are functions  *)
(* of the master key it was written under: the row holds that key.  A      *)
(* placeholder is a kind and a random suffix.  A gateway may stop at any   *)
(* point: SQLite then rolls its transaction back.  What a power failure    *)
(* takes back (synchronous = NORMAL) is not modelled.                      *)
(***************************************************************************)
EXTENDS FiniteSets, Integers

CONSTANTS Gateways, MasterKeys, Kinds, Values, RandomParts,
          MaxDraws     \* candidates tried for a new entity (16 in the code)

ASSUME VaultAssumption ==
    MaxDraws \in Nat \ {0} /\ MasterKeys # {} /\ Kinds # {} /\ Values # {} /\ RandomParts # {}

Entities == Kinds \X Values
VaultPlaceholders == Kinds \X RandomParts
Row == [key : MasterKeys, entity : Entities, placeholder : VaultPlaceholders]

VARIABLES schema,     \* is the schema version recorded?
          check,      \* the key of the key-check row: none or one
          rows,       \* the table of entities
          lock,     \* the gateway that holds the write lock: none or one
          vaultAt, key,    \* where each gateway is, and the key it runs with
          entity, placeholder, draws,  \* what its call is about
          told        \* observer: the <<entity, placeholder>> pairs handed out

vaultDb == <<schema, check, rows, lock>>
vaultCall == <<entity, placeholder, draws>>
vaultVars == <<vaultDb, vaultAt, key, vaultCall, told>>

Opening == {"schema", "addSchema", "check", "addCheck"}
InTransaction == {"select", "draw", "insert"}
Serving == InTransaction \cup {"open", "return"}

VaultTypeOK ==
    /\ schema \in BOOLEAN
    /\ check \in SUBSET MasterKeys
    /\ rows \in SUBSET Row
    /\ lock \in SUBSET Gateways
    /\ vaultAt \in [Gateways -> {"closed"} \cup Opening \cup Serving]
    /\ key \in [Gateways -> MasterKeys]
    /\ entity \in [Gateways -> Entities]
    /\ placeholder \in [Gateways -> VaultPlaceholders]
    /\ draws \in [Gateways -> 0 .. MaxDraws]
    /\ told \in SUBSET (Entities \X VaultPlaceholders)

VaultInit ==
    /\ schema = FALSE /\ check = {} /\ rows = {} /\ lock = {} /\ told = {}
    /\ vaultAt = [g \in Gateways |-> "closed"]
    /\ key = [g \in Gateways |-> CHOOSE k \in MasterKeys : TRUE]
    /\ entity = [g \in Gateways |-> CHOOSE e \in Entities : TRUE]
    /\ placeholder = [g \in Gateways |-> CHOOSE p \in VaultPlaceholders : TRUE]
    /\ draws = [g \in Gateways |-> 0]

Goto(g, from, to) == vaultAt[g] = from /\ vaultAt' = [vaultAt EXCEPT ![g] = to]

-----------------------------------------------------------------------------
\* Opening: each statement is a transaction of its own, and an INSERT that
\* meets a row written since the SELECT fails on the primary key.
Connect(g, k) ==
    /\ Goto(g, "closed", "schema")
    /\ key' = [key EXCEPT ![g] = k]
    /\ UNCHANGED <<vaultDb, vaultCall, told>>

ReadSchema(g) ==
    /\ Goto(g, "schema", IF schema THEN "check" ELSE "addSchema")
    /\ UNCHANGED <<vaultDb, key, vaultCall, told>>

AddSchema(g) ==
    /\ lock = {}
    /\ Goto(g, "addSchema", IF schema THEN "closed" ELSE "check")
    /\ schema' = TRUE
    /\ UNCHANGED <<check, rows, lock, key, vaultCall, told>>

\* Decrypting the check with another key than its own is BadKey.
ReadCheck(g) ==
    /\ Goto(g, "check", CASE check = {}       -> "addCheck"
                          [] check = {key[g]} -> "open"
                          [] OTHER            -> "closed")
    /\ UNCHANGED <<vaultDb, key, vaultCall, told>>

\* Mutant: INSERT OR REPLACE.
CheckReplaced(g) == {key[g]}

\* What the INSERT of the check leaves: a check that is there stays.
CheckAfter(g) == IF check = {} THEN {key[g]} ELSE check

AddCheck(g) ==
    /\ lock = {}
    /\ Goto(g, "addCheck", IF check = {} THEN "open" ELSE "closed")
    /\ check' = CheckAfter(g)
    /\ UNCHANGED <<schema, rows, lock, key, vaultCall, told>>

\* The busy timeout runs out while another gateway writes.
BusyTimeout(g) ==
    /\ lock # {}
    /\ \E at \in {"addSchema", "addCheck"} : Goto(g, at, "closed")
    /\ UNCHANGED <<vaultDb, key, vaultCall, told>>

-----------------------------------------------------------------------------
\* get_or_assign.  (A BEGIN that times out leaves everything as it was.)
LockFree == lock = {}

Begin(g, e) ==
    /\ LockFree
    /\ Goto(g, "open", "select")
    /\ lock' = {g}
    /\ entity' = [entity EXCEPT ![g] = e]
    /\ draws' = [draws EXCEPT ![g] = 0]
    /\ UNCHANGED <<schema, check, rows, key, placeholder, told>>

\* Mutant: the blind index covers the kind only.
IndexedByKind(g) == {r \in rows : r.key = key[g] /\ r.entity[1] = entity[g][1]}

\* The rows whose blind index is that of the entity under the gateway's key.
Indexed(g) == {r \in rows : r.key = key[g] /\ r.entity = entity[g]}

Found(g) ==
    /\ \E r \in Indexed(g) : placeholder' = [placeholder EXCEPT ![g] = r.placeholder]
    /\ Goto(g, "select", "return")
    /\ lock' = {}
    /\ UNCHANGED <<schema, check, rows, key, entity, draws, told>>

Missing(g) ==
    /\ Indexed(g) = {}
    /\ Goto(g, "select", "draw")
    /\ UNCHANGED <<vaultDb, key, vaultCall, told>>

MayDraw(g) == draws[g] < MaxDraws

Taken(p) == \E r \in rows : r.placeholder = p

\* A candidate of the entity's kind with a random suffix.
Draw(g, n) ==
    LET p == <<entity[g][1], n>> IN
    /\ MayDraw(g)
    /\ draws' = [draws EXCEPT ![g] = @ + 1]
    /\ IF Taken(p)
         THEN vaultAt[g] = "draw" /\ UNCHANGED <<vaultAt, placeholder>>
         ELSE /\ Goto(g, "draw", "insert")
              /\ placeholder' = [placeholder EXCEPT ![g] = p]
    /\ UNCHANGED <<vaultDb, key, entity, told>>

\* Every candidate was taken: the call fails, dropping its transaction.
Exhausted(g) ==
    /\ ~MayDraw(g)
    /\ Goto(g, "draw", "open")
    /\ lock' = {}
    /\ UNCHANGED <<schema, check, rows, key, vaultCall, told>>

NewRow(g) == [key |-> key[g], entity |-> entity[g], placeholder |-> placeholder[g]]

Committed(g) == rows \cup {NewRow(g)}

\* What PRIMARY KEY (kind, value_hmac) and UNIQUE refuse.
Conflicts(r) == \E s \in rows : \/ s.key = r.key /\ s.entity = r.entity
                                \/ s.placeholder = r.placeholder

InsertAndCommit(g) ==
    /\ IF Conflicts(NewRow(g))
         THEN Goto(g, "insert", "open") /\ UNCHANGED rows
         ELSE Goto(g, "insert", "return") /\ rows' = Committed(g)
    /\ lock' = {}
    /\ UNCHANGED <<schema, check, key, vaultCall, told>>

Return(g) ==
    /\ Goto(g, "return", "open")
    /\ told' = told \cup {<<entity[g], placeholder[g]>>}
    /\ UNCHANGED <<vaultDb, key, vaultCall>>

\* What lookup_placeholder decrypts at gateway g.
lookup_placeholder(g, p) == {r.entity : r \in {s \in rows : s.placeholder = p /\ s.key = key[g]}}

\* The process stops and its transaction is rolled back.
StopGateway(g) ==
    /\ vaultAt[g] # "closed"
    /\ vaultAt' = [vaultAt EXCEPT ![g] = "closed"]
    /\ lock' = lock \ {g}
    /\ UNCHANGED <<schema, check, rows, key, vaultCall, told>>

-----------------------------------------------------------------------------
Transact(g) ==
    \/ Found(g) \/ Missing(g) \/ Exhausted(g) \/ InsertAndCommit(g) \/ Return(g)
    \/ \E n \in RandomParts : Draw(g, n)

VaultNext == \E g \in Gateways :
    \/ \E k \in MasterKeys : Connect(g, k)
    \/ ReadSchema(g) \/ AddSchema(g) \/ ReadCheck(g) \/ AddCheck(g) \/ BusyTimeout(g)
    \/ \E e \in Entities : Begin(g, e)
    \/ Transact(g)
    \/ StopGateway(g)

VaultSpec == VaultInit /\ [][VaultNext]_vaultVars

-----------------------------------------------------------------------------
\* A vault is never written under two keys, and no gateway serves one with
\* another key than its check's, whoever created the file and whenever it
\* stopped ("a wrong key fails loudly instead of silently corrupting data").
OneKey ==
    /\ \A r \in rows : check = {r.key}
    /\ \A g \in Gateways : vaultAt[g] \in Serving => check = {key[g]}

\* Concurrent assignments never run into each other: the INSERT of a new
\* entity meets neither the entity nor the placeholder.
InsertNeverConflicts ==
    \A g \in Gateways : vaultAt[g] = "insert" => ~Conflicts(NewRow(g))

\* A placeholder that left the vault is restored to its entity by every
\* gateway that serves it, after any restarts.
ToldIsRestored ==
    \A g \in Gateways, t \in told :
        vaultAt[g] \in Serving => lookup_placeholder(g, t[2]) = {t[1]}

\* The vault implements its promise.
Pairs == {<<r.entity, r.placeholder>> : r \in rows}
Assigns == INSTANCE Assignment WITH Placeholders <- VaultPlaceholders, assigned <- Pairs, told <- told
Implements == Assigns!Spec

\* The write lock is held inside a transaction only: no way out of a call, and no
\* stop, keeps it from the other gateways.
LockOnlyInside == \A g \in Gateways : g \in lock => vaultAt[g] \in InTransaction
=============================================================================
