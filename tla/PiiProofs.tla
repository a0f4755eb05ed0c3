------------------------------ MODULE PiiProofs ------------------------------
(***************************************************************************)
(* What the gateway does with personal data and with the texts its rules   *)
(* forbid, for any vault, body, configuration and set of recognizers: the  *)
(* vault (Vault), the masking of a request and the restoring of its answer *)
(* (PiiMasking), the verdict of the guardrails (Guardrails), and the       *)
(* restoring of an answer that arrives in pieces (StreamRestore).          *)
(*                                                                         *)
(* Spans are found, merged and replaced by recursive functions.  Each is   *)
(* shown to satisfy its equation (RecursionExists), and what holds of it   *)
(* at every place follows as a set of numbers without a least missing one  *)
(* (LeastExists, UpTo).                                                    *)
(*                                                                         *)
(* A streamed text is taken apart by what it begins with.  What is held of *)
(* it is settled: whatever comes behind, the whole with its replacements   *)
(* is what the client has, and what is made of the rest behind what is     *)
(* held (Settled).                                                         *)
(***************************************************************************)
EXTENDS Vault, Guardrails, StreamRestore, FiniteSetTheorems, SequenceTheorems, NaturalsInduction,
        WellFoundedInduction, TLAPS

\* The gateway inside a transaction is the one that holds the write lock.
LockPart ==
    /\ lock = {} \/ \E g \in Gateways : lock = {g}
    /\ \A g \in Gateways : vaultAt[g] \in InTransaction <=> lock = {g}

\* What a gateway has read inside its transaction is still so.
FreshPart == \A g \in Gateways :
    /\ vaultAt[g] \in {"draw", "insert"} => ~\E r \in rows : r.entity = entity[g]
    /\ vaultAt[g] = "insert" => ~Taken(placeholder[g])

\* Rows pair entities and placeholders one to one.
PairPart == \A r, s \in rows : r.entity = s.entity <=> r.placeholder = s.placeholder

Stored(e, p) == \E r \in rows : r.entity = e /\ r.placeholder = p

ReturnPart == \A g \in Gateways :
    vaultAt[g] = "return" => Stored(entity[g], placeholder[g])

ToldPart == \A t \in told : Stored(t[1], t[2])

IInv == VaultTypeOK /\ OneKey /\ LockPart /\ FreshPart /\ PairPart /\ ReturnPart /\ ToldPart

\* The vault starts in the invariant.
LEMMA InitHolds == VaultInit => IInv
<1> SUFFICES ASSUME VaultInit PROVE IInv
  OBVIOUS
<1>1. draws \in [Gateways -> 0 .. MaxDraws]
  BY VaultAssumption DEF VaultInit
<1>2. VaultTypeOK
  <2>1. MasterKeys # {} /\ Entities # {} /\ VaultPlaceholders # {}
    <3>1. PICK t \in Kinds, v \in Values, n \in RandomParts : TRUE
      BY VaultAssumption
    <3>2. <<t, v>> \in Entities /\ <<t, n>> \in VaultPlaceholders
      BY DEF Entities, VaultPlaceholders
    <3>3. QED
      BY <3>2, VaultAssumption
  <2>2. (CHOOSE k \in MasterKeys : TRUE) \in MasterKeys
    BY <2>1
  <2>3. (CHOOSE e \in Entities : TRUE) \in Entities
    BY <2>1
  <2>4. (CHOOSE p \in VaultPlaceholders : TRUE) \in VaultPlaceholders
    BY <2>1
  <2>5. QED
    BY <1>1, <2>2, <2>3, <2>4 DEF VaultInit, VaultTypeOK
<1>3. \A g \in Gateways : vaultAt[g] = "closed"
  BY DEF VaultInit
<1>4. LockPart /\ FreshPart /\ ReturnPart
  BY <1>3 DEF VaultInit, LockPart, FreshPart, ReturnPart, InTransaction
<1>5. OneKey /\ PairPart /\ ToldPart
  BY <1>3 DEF VaultInit, OneKey, PairPart, ToldPart, Serving, InTransaction
<1>6. QED
  BY <1>2, <1>4, <1>5 DEF IInv

\* The steps of opening write no row.
LEMMA OpeningStep ==
    ASSUME IInv, NEW g \in Gateways,
           \/ \E k \in MasterKeys : Connect(g, k)
           \/ ReadSchema(g) \/ AddSchema(g) \/ ReadCheck(g) \/ AddCheck(g) \/ BusyTimeout(g)
    PROVE  IInv'
<1>1. CASE \E k \in MasterKeys : Connect(g, k)
  BY <1>1 DEF Connect, Goto, IInv, VaultTypeOK, OneKey, LockPart, FreshPart, PairPart, ReturnPart,
     ToldPart, Stored, Taken, InTransaction, Serving, Opening, vaultDb, vaultCall
<1>2. CASE ReadSchema(g)
  BY <1>2 DEF ReadSchema, Goto, IInv, VaultTypeOK, OneKey, LockPart, FreshPart, PairPart, ReturnPart,
     ToldPart, Stored, Taken, InTransaction, Serving, Opening, vaultDb, vaultCall
<1>3. CASE AddSchema(g)
  BY <1>3 DEF AddSchema, Goto, IInv, VaultTypeOK, OneKey, LockPart, FreshPart, PairPart, ReturnPart,
     ToldPart, Stored, Taken, InTransaction, Serving, Opening, vaultDb, vaultCall
<1>4. CASE ReadCheck(g)
  BY <1>4 DEF ReadCheck, Goto, IInv, VaultTypeOK, OneKey, LockPart, FreshPart, PairPart, ReturnPart,
     ToldPart, Stored, Taken, InTransaction, Serving, Opening, vaultDb, vaultCall
<1>5. CASE AddCheck(g)
  BY <1>5 DEF AddCheck, CheckAfter, Goto, IInv, VaultTypeOK, OneKey, LockPart, FreshPart, PairPart,
     ReturnPart, ToldPart, Stored, Taken, InTransaction, Serving, Opening, vaultDb, vaultCall
<1>6. CASE BusyTimeout(g)
  BY <1>6 DEF BusyTimeout, Goto, IInv, VaultTypeOK, OneKey, LockPart, FreshPart, PairPart, ReturnPart,
     ToldPart, Stored, Taken, InTransaction, Serving, Opening, vaultDb, vaultCall
<1>7. QED
  BY <1>1, <1>2, <1>3, <1>4, <1>5, <1>6

\* The steps of a call but its insert.
LEMMA CallStep ==
    ASSUME IInv, NEW g \in Gateways,
           \/ \E e \in Entities : Begin(g, e)
           \/ Found(g) \/ Missing(g) \/ Exhausted(g) \/ Return(g) \/ StopGateway(g)
           \/ \E n \in RandomParts : Draw(g, n)
    PROVE  IInv'
<1>1. CASE \E e \in Entities : Begin(g, e)
  BY <1>1, VaultAssumption DEF Begin, LockFree, Goto, IInv, VaultTypeOK, OneKey, LockPart, FreshPart,
     PairPart, ReturnPart, ToldPart, Stored, Taken, InTransaction, Serving, Opening, vaultDb, vaultCall
<1>2. CASE Found(g)
  <2>1. PICK r \in Indexed(g) : placeholder' = [placeholder EXCEPT ![g] = r.placeholder]
    BY <1>2 DEF Found
  <2>2. r \in rows /\ r.entity = entity[g] /\ r.placeholder \in VaultPlaceholders
    BY <2>1 DEF Indexed, IInv, VaultTypeOK, Row
  <2>3. UNCHANGED <<schema, check, rows, key, entity, draws, told>> /\ lock' = {}
    BY <1>2 DEF Found
  <2>4. vaultAt[g] = "select" /\ vaultAt' = [vaultAt EXCEPT ![g] = "return"]
    BY <1>2 DEF Found, Goto
  <2>5. VaultTypeOK'
    BY <2>1, <2>2, <2>3, <2>4 DEF IInv, VaultTypeOK, Serving
  <2>6. OneKey' /\ PairPart'
    BY <2>3, <2>4 DEF IInv, VaultTypeOK, OneKey, PairPart, Serving, InTransaction
  <2>7. LockPart'
    BY <2>3, <2>4 DEF IInv, VaultTypeOK, LockPart, InTransaction
  <2>8. FreshPart'
    BY <2>3, <2>4, <2>7 DEF IInv, VaultTypeOK, LockPart, FreshPart, InTransaction
  <2>9. ReturnPart' /\ ToldPart'
    BY <2>1, <2>2, <2>3, <2>4 DEF IInv, VaultTypeOK, ReturnPart, ToldPart, Stored
  <2>10. QED
    BY <2>5, <2>6, <2>7, <2>8, <2>9 DEF IInv
<1>3. CASE Missing(g)
  <2>1. ~\E r \in rows : r.entity = entity[g]
    BY <1>3 DEF Missing, Goto, Indexed, IInv, OneKey, Serving, InTransaction, VaultTypeOK
  <2>2. QED
    BY <1>3, <2>1 DEF Missing, Goto, IInv, VaultTypeOK, OneKey, LockPart, FreshPart, PairPart,
       ReturnPart, ToldPart, Stored, Taken, InTransaction, Serving, Opening, vaultDb, vaultCall
<1>4. CASE Exhausted(g)
  BY <1>4 DEF Exhausted, Goto, IInv, VaultTypeOK, OneKey, LockPart, FreshPart, PairPart, ReturnPart,
     ToldPart, Stored, Taken, InTransaction, Serving, Opening, vaultDb, vaultCall
<1>5. CASE Return(g)
  <2>1. Stored(entity[g], placeholder[g])
    BY <1>5 DEF Return, Goto, IInv, ReturnPart
  <2>2. \A t \in told' : t \in told \/ t = <<entity[g], placeholder[g]>>
    BY <1>5 DEF Return
  <2>3. \A t \in told' : Stored(t[1], t[2])
    BY <2>1, <2>2 DEF IInv, ToldPart
  <2>4. <<entity[g], placeholder[g]>> \in Entities \X VaultPlaceholders
    BY DEF IInv, VaultTypeOK
  <2>5. told' \in SUBSET (Entities \X VaultPlaceholders)
    BY <2>2, <2>4 DEF IInv, VaultTypeOK
  <2>6. ToldPart'
    BY <1>5, <2>3 DEF Return, ToldPart, Stored, vaultDb
  <2>7. QED
    BY <1>5, <2>5, <2>6 DEF Return, Goto, IInv, VaultTypeOK, OneKey, LockPart, FreshPart, PairPart,
       ReturnPart, Stored, Taken, InTransaction, Serving, Opening, vaultDb, vaultCall
<1>6. CASE StopGateway(g)
  <2>1. UNCHANGED <<schema, check, rows, key, entity, placeholder, draws, told>>
    BY <1>6 DEF StopGateway, vaultCall
  <2>2. vaultAt' = [vaultAt EXCEPT ![g] = "closed"] /\ lock' = lock \ {g}
    BY <1>6 DEF StopGateway
  <2>3. VaultTypeOK'
    BY <2>1, <2>2 DEF IInv, VaultTypeOK
  <2>4. \A h \in Gateways : lock' = {h} <=> lock = {h} /\ h # g
    <3>1. lock = {} \/ \E h \in Gateways : lock = {h}
      BY DEF IInv, LockPart
    <3>2. QED
      BY <2>2, <3>1
  <2>5. LockPart'
    BY <2>2, <2>4 DEF IInv, VaultTypeOK, LockPart, InTransaction
  <2>6. QED
    BY <2>1, <2>2, <2>3, <2>5 DEF IInv, VaultTypeOK, OneKey, FreshPart, PairPart, ReturnPart,
       ToldPart, Stored, Taken, Serving, InTransaction
<1>7. CASE \E n \in RandomParts : Draw(g, n)
  <2>1. PICK n \in RandomParts : Draw(g, n)
    BY <1>7
  <2>2. <<entity[g][1], n>> \in VaultPlaceholders
    BY DEF IInv, VaultTypeOK, Entities, VaultPlaceholders
  <2>3. draws' \in [Gateways -> 0 .. MaxDraws]
    BY <2>1, VaultAssumption DEF Draw, MayDraw, IInv, VaultTypeOK
  <2>4. QED
    BY <2>1, <2>2, <2>3 DEF Draw, Goto, IInv, VaultTypeOK, OneKey, LockPart, FreshPart, PairPart,
       ReturnPart, ToldPart, Stored, Taken, InTransaction, Serving, Opening, vaultDb, vaultCall
<1>8. QED
  BY <1>1, <1>2, <1>3, <1>4, <1>5, <1>6, <1>7

\* What a gateway is about to insert is in no row yet.
LEMMA NoConflict ==
    ASSUME IInv, NEW g \in Gateways, vaultAt[g] = "insert" PROVE ~Conflicts(NewRow(g))
  BY DEF IInv, FreshPart, Taken, Conflicts, NewRow

\* The row that an insert adds.
LEMMA InsertAdds ==
    ASSUME IInv, NEW g \in Gateways, InsertAndCommit(g)
    PROVE  /\ Goto(g, "insert", "return")
           /\ rows' = rows \cup {NewRow(g)}
           /\ NewRow(g) \in Row
           /\ NewRow(g).key = key[g]
           /\ NewRow(g).entity = entity[g]
           /\ NewRow(g).placeholder = placeholder[g]
<1>1. vaultAt[g] = "insert"
  BY DEF InsertAndCommit, Goto
<1>2. Goto(g, "insert", "return") /\ rows' = rows \cup {NewRow(g)}
  BY <1>1, NoConflict DEF InsertAndCommit, Committed
<1>3. QED
  BY <1>2 DEF NewRow, Row, IInv, VaultTypeOK

\* An insert keeps the invariant.
LEMMA InsertStep ==
    ASSUME IInv, NEW g \in Gateways, InsertAndCommit(g) PROVE IInv'
<1> DEFINE new == NewRow(g)
<1>1. /\ Goto(g, "insert", "return") /\ rows' = rows \cup {new} /\ new \in Row
      /\ new.key = key[g] /\ new.entity = entity[g] /\ new.placeholder = placeholder[g]
  BY InsertAdds
<1> HIDE DEF new
<1>2. UNCHANGED <<schema, check, key, entity, placeholder, draws, told>> /\ lock' = {}
  BY DEF InsertAndCommit, vaultCall
<1>3. vaultAt[g] = "insert" /\ vaultAt' = [vaultAt EXCEPT ![g] = "return"]
  BY <1>1 DEF Goto
<1>4. \A r \in rows : r.entity # new.entity /\ r.placeholder # new.placeholder
  BY <1>1, <1>3 DEF IInv, FreshPart, Taken
<1>5. VaultTypeOK'
  BY <1>1, <1>2, <1>3 DEF IInv, VaultTypeOK, Serving
<1>6. OneKey'
  BY <1>1, <1>2, <1>3 DEF IInv, VaultTypeOK, OneKey, Serving, InTransaction
<1>7. LockPart'
  BY <1>2, <1>3 DEF IInv, VaultTypeOK, LockPart, InTransaction
<1>8. FreshPart'
  BY <1>2, <1>3, <1>7 DEF IInv, VaultTypeOK, LockPart, FreshPart, InTransaction
<1>9. PairPart'
  BY <1>1, <1>4 DEF IInv, PairPart
<1>10. \A e, p : Stored(e, p) => Stored(e, p)'
  BY <1>1 DEF Stored
<1>11. Stored(entity[g], placeholder[g])'
  BY <1>1, <1>2 DEF Stored
<1>12. ReturnPart'
  BY <1>2, <1>3, <1>10, <1>11 DEF IInv, VaultTypeOK, ReturnPart
<1>13. ToldPart'
  BY <1>2, <1>10 DEF IInv, ToldPart
<1>14. QED
  BY <1>5, <1>6, <1>7, <1>8, <1>9, <1>12, <1>13 DEF IInv

\* What a gateway read, and what the vault holds and has told, agree in every
\* reachable state.
THEOREM Inductive == VaultSpec => []IInv
<1>1. ASSUME IInv, [VaultNext]_vaultVars PROVE IInv'
  <2>1. CASE UNCHANGED vaultVars
    BY <1>1, <2>1 DEF vaultVars, vaultDb, vaultCall, IInv, VaultTypeOK, OneKey, LockPart, FreshPart, PairPart,
       ReturnPart, ToldPart, Stored, Taken
  <2>2. CASE VaultNext
    BY <1>1, <2>2, OpeningStep, CallStep, InsertStep DEF VaultNext, Transact
  <2>3. QED
    BY <1>1, <2>1, <2>2
<1>2. QED
  BY InitHolds, <1>1, PTL DEF VaultSpec

\* The variables keep their types.
THEOREM TypeCorrect == VaultSpec => []VaultTypeOK
<1>1. IInv => VaultTypeOK
  BY DEF IInv
<1>2. QED
  BY <1>1, Inductive, PTL

\* A vault has one key, however many gateways create or open it, with
\* whatever keys, and wherever they stop.
THEOREM OneKeyHolds == VaultSpec => []OneKey
<1>1. IInv => OneKey
  BY DEF IInv
<1>2. QED
  BY <1>1, Inductive, PTL

\* The INSERT of a transaction meets neither its entity nor its placeholder.
THEOREM InsertsFit == VaultSpec => []InsertNeverConflicts
<1>1. IInv => InsertNeverConflicts
  BY NoConflict DEF InsertNeverConflicts
<1>2. QED
  BY <1>1, Inductive, PTL

\* Outside a transaction no gateway has the write lock.
THEOREM LockHolds == VaultSpec => []LockOnlyInside
<1>1. IInv => LockOnlyInside
  BY DEF IInv, LockPart, LockOnlyInside
<1>2. QED
  BY <1>1, Inductive, PTL

\* Every placeholder handed out is restored, by every gateway, to its entity.
THEOREM RestoreHolds == VaultSpec => []ToldIsRestored
<1>1. ASSUME IInv PROVE ToldIsRestored
  <2>1. SUFFICES ASSUME NEW g \in Gateways, NEW t \in told, vaultAt[g] \in Serving
                 PROVE  lookup_placeholder(g, t[2]) = {t[1]}
    BY DEF ToldIsRestored
  <2>2. PICK r \in rows : r.entity = t[1] /\ r.placeholder = t[2]
    BY <1>1 DEF IInv, ToldPart, Stored
  <2>3. \A s \in rows : s.key = key[g]
    BY <1>1, <2>1 DEF IInv, OneKey, VaultTypeOK
  <2>4. \A s \in rows : s.placeholder = t[2] => s.entity = t[1]
    BY <1>1, <2>2 DEF IInv, PairPart
  <2>5. QED
    BY <2>2, <2>3, <2>4 DEF lookup_placeholder
<1>2. QED
  BY <1>1, Inductive, PTL

\* The vault implements Assignment: only an insert assigns, only a return
\* tells.
THEOREM ImplementsHolds == VaultSpec => Implements
<1>1. VaultInit => Assigns!Init
  BY DEF VaultInit, Assigns!Init, Pairs
<1>2. ASSUME IInv, [VaultNext]_vaultVars PROVE [Assigns!Next]_<<Pairs, told>>
  <2>1. CASE \E g \in Gateways : InsertAndCommit(g)
    <3>1. PICK g \in Gateways : InsertAndCommit(g)
      BY <2>1
    <3>2. vaultAt[g] = "insert" /\ told' = told
      BY <3>1 DEF InsertAndCommit, Goto
    <3> DEFINE new == NewRow(g)
    <3>3. /\ rows' = rows \cup {new}
          /\ new.entity = entity[g] /\ new.placeholder = placeholder[g]
      BY <1>2, <3>1, InsertAdds
    <3> HIDE DEF new
    <3>4. Pairs' = Pairs \cup {<<entity[g], placeholder[g]>>}
      BY <3>3 DEF Pairs
    <3>5. \A a \in Pairs : a[1] # entity[g] /\ a[2] # placeholder[g]
      BY <1>2, <3>2 DEF IInv, FreshPart, Taken, Pairs
    <3>6. entity[g] \in Entities /\ placeholder[g] \in VaultPlaceholders
      BY <1>2 DEF IInv, VaultTypeOK
    <3>7. Assigns!Next
      BY <3>2, <3>4, <3>5, <3>6 DEF Assigns!Next, Assigns!Assign
    <3>8. QED
      BY <3>7
  <2>2. CASE \E g \in Gateways : Return(g)
    <3>1. PICK g \in Gateways : Return(g)
      BY <2>2
    <3>2. /\ rows' = rows /\ told' = told \cup {<<entity[g], placeholder[g]>>}
          /\ vaultAt[g] = "return"
      BY <3>1 DEF Return, Goto, vaultDb
    <3>3. <<entity[g], placeholder[g]>> \in Pairs
      BY <1>2, <3>2 DEF Pairs, IInv, ReturnPart, Stored
    <3>4. entity[g] \in Entities /\ placeholder[g] \in VaultPlaceholders
      BY <1>2 DEF IInv, VaultTypeOK
    <3>5. Pairs' = Pairs
      BY <3>2 DEF Pairs
    <3>6. Assigns!Next
      BY <3>2, <3>3, <3>4, <3>5 DEF Assigns!Next, Assigns!Tell
    <3>7. QED
      BY <3>6
  <2>3. ASSUME NEW g \in Gateways,
               \/ \E k \in MasterKeys : Connect(g, k)
               \/ ReadSchema(g) \/ AddSchema(g) \/ ReadCheck(g) \/ AddCheck(g) \/ BusyTimeout(g)
               \/ \E e \in Entities : Begin(g, e)
               \/ Found(g) \/ Missing(g) \/ Exhausted(g) \/ StopGateway(g)
               \/ \E n \in RandomParts : Draw(g, n)
        PROVE  rows' = rows /\ told' = told
    BY <2>3 DEF Connect, ReadSchema, AddSchema, ReadCheck, AddCheck, BusyTimeout, Begin, Found,
       Missing, Exhausted, Draw, StopGateway, vaultDb, vaultCall
  <2>4. CASE rows' = rows /\ told' = told
    BY <2>4 DEF Pairs
  <2>5. CASE UNCHANGED vaultVars
    BY <2>5 DEF vaultVars, vaultDb, Pairs
  <2>6. QED
    BY <1>2, <2>1, <2>2, <2>3, <2>4, <2>5 DEF VaultNext, Transact
<1>3. QED
  BY <1>1, <1>2, Inductive, PTL DEF VaultSpec, Implements, Assigns!Spec
-----------------------------------------------------------------------------
\* A set of numbers that is not empty has a least one.
LEMMA LeastExists ==
    ASSUME NEW S \in SUBSET Nat, S # {}
    PROVE  \E m \in S : \A n \in S : m <= n
<1> DEFINE R == OpToRel(<, Nat)
<1>1. IsWellFoundedOn(R, Nat)
  BY NatLessThanWellFounded
<1>2. \A m, n \in Nat : m < n => <<m, n>> \in R
  BY DEF OpToRel
<1> HIDE DEF R
<1>3. PICK m \in S : \A n \in S : ~(<<n, m>> \in R)
  BY <1>1, WFMin
<1>4. ASSUME NEW n \in S PROVE m <= n
  <2>1. m \in Nat /\ n \in Nat
    OBVIOUS
  <2>2. ~(n < m)
    BY <1>2, <1>3, <2>1, Zenon
  <2>3. QED
    BY <2>1, <2>2
<1>5. QED
  BY <1>4

\* A set of numbers that has 0, and each of 1 to n whose predecessor it has, has all
\* of them.
LEMMA UpTo ==
    ASSUME NEW n \in Nat, NEW T, 0 \in T, \A i \in 1 .. n : i - 1 \in T => i \in T
    PROVE  \A i \in 0 .. n : i \in T
<1> DEFINE Unmet == {i \in 0 .. n : i \notin T}
<1>1. SUFFICES ASSUME Unmet # {} PROVE FALSE
  OBVIOUS
<1>2. Unmet \in SUBSET Nat
  OBVIOUS
<1> HIDE DEF Unmet
<1>3. PICK i \in Unmet : \A j \in Unmet : i <= j
  BY <1>1, <1>2, LeastExists
<1> QED
  BY <1>3 DEF Unmet

\* A bounded set of numbers that is not empty has a greatest one.
LEMMA MaxOf ==
    ASSUME NEW n \in Nat, NEW S \in SUBSET (0 .. n), S # {}
    PROVE  Max(S) \in S /\ \A x \in S : x <= Max(S)
<1> DEFINE Bounds == {u \in Nat : \A x \in S : x <= u}
<1>1. n \in Bounds
  OBVIOUS
<1>2. Bounds \in SUBSET Nat
  OBVIOUS
<1> HIDE DEF Bounds
<1>3. PICK u \in Bounds : \A v \in Bounds : u <= v
  BY <1>1, <1>2, LeastExists
<1>4. u \in Nat /\ \A x \in S : x <= u
  BY <1>3 DEF Bounds
<1>5. u \in S
  <2>1. SUFFICES ASSUME u \notin S PROVE FALSE
    OBVIOUS
  <2>2. \A x \in S : x \in Nat /\ x <= u - 1
    BY <1>4, <2>1
  <2>3. u - 1 \in Nat
    <3>1. PICK x \in S : TRUE
      OBVIOUS
    <3>2. x \in Nat /\ x <= u - 1
      BY <2>2
    <3> QED
      BY <1>4, <3>2
  <2>4. u - 1 \in Bounds
    BY <2>2, <2>3 DEF Bounds
  <2> QED
    BY <1>3, <1>4, <2>4
<1>6. \A x, y \in S : x \in Int /\ (x >= y <=> y <= x)
  OBVIOUS
<1>7. u \in S /\ \A y \in S : u >= y
  BY <1>4, <1>5, <1>6
<1>8. Max(S) \in S /\ \A y \in S : Max(S) >= y
  BY <1>7 DEF Max
<1> QED
  BY <1>6, <1>8

\* f is the recursion over 0 to n from a by G.
Follows(f, S, a, n, G) ==
    f \in [0 .. n -> S] /\ f[0] = a /\ \A i \in 1 .. n : f[i] = G[i][f[i - 1]]

\* Recursion over 0 to n: there is the function it defines.
LEMMA RecursionExists ==
    ASSUME NEW S, NEW a \in S, NEW n \in Nat, NEW G \in [1 .. n -> [S -> S]]
    PROVE  \E f : Follows(f, S, a, n, G)
<1> DEFINE Up(f, m) == f[0] = a /\ \A i \in 1 .. m : f[i] = G[i][f[i - 1]]
           T == {m \in 0 .. n : \E f \in [0 .. m -> S] : Up(f, m)}
<1>1. 0 \in T
  <2>1. Up([i \in 0 .. 0 |-> a], 0)
    OBVIOUS
  <2> HIDE DEF Up
  <2> QED
    BY <2>1
<1>2. ASSUME NEW m \in 1 .. n, m - 1 \in T PROVE m \in T
  <2>1. PICK f \in [0 .. m - 1 -> S] : Up(f, m - 1)
    BY <1>2
  <2> DEFINE g == [i \in 0 .. m |-> IF i = m THEN G[m][f[m - 1]] ELSE f[i]]
  <2>2. f[m - 1] \in S /\ G[m][f[m - 1]] \in S
    OBVIOUS
  <2>3. g \in [0 .. m -> S]
    BY <2>2
  <2>4. Up(g, m)
    <3>1. g[m] = G[m][f[m - 1]] /\ m \in Nat /\ m # 0 /\ \A i \in 0 .. m - 1 : g[i] = f[i]
      OBVIOUS
    <3>2. \A i \in 1 .. m : i - 1 \in 0 .. m - 1 /\ (i = m \/ i \in 1 .. m - 1)
      OBVIOUS
    <3> QED
      BY <2>1, <3>1, <3>2
  <2> HIDE DEF Up, g
  <2> QED
    BY <2>3, <2>4
<1>3. n \in T
  <2> HIDE DEF T
  <2>1. \A i \in 0 .. n : i \in T
    BY <1>1, <1>2, UpTo
  <2> QED
    BY <2>1
<1> QED
  BY <1>3 DEF Follows
-----------------------------------------------------------------------------
\* Spans of a text of n symbols.
Spanned(found, n) ==
    \A d \in found : d.start \in 1 .. n /\ d.end \in d.start + 1 .. n + 1 /\ d.rec \in Nat

\* Among spans that start at one place there is one that goes before the others.
LEMMA FirstIs ==
    ASSUME NEW n \in Nat, NEW found, Spanned(found, n), found # {}, NEW i, \A d \in found : d.start = i
    PROVE  FirstOf(found) \in found
<1> DEFINE Stops == {d.end : d \in found}
           Longest == {d \in found : d.end = Max(Stops)}
           Recs == {d.rec : d \in Longest}
<1>1. Stops \in SUBSET (0 .. n + 1) /\ Stops # {}
  BY DEF Spanned
<1>2. Max(Stops) \in Stops /\ \A x \in Stops : x <= Max(Stops)
  <2> HIDE DEF Stops
  <2>1. n + 1 \in Nat
    OBVIOUS
  <2> QED
    BY <1>1, <2>1, MaxOf
<1>3. Recs \in SUBSET Nat /\ Recs # {}
  BY <1>2 DEF Spanned
<1>4. PICK r \in Recs : \A s \in Recs : r <= s
  <2> HIDE DEF Recs
  <2> QED
    BY <1>3, LeastExists
<1>5. PICK d \in Longest : d.rec = r
  BY <1>4
<1>6. ASSUME NEW c \in found PROVE ~Before(c, d)
  <2>1. c.start = d.start /\ c.end <= d.end /\ c.end \in Int /\ d.end \in Int /\ c.rec \in Nat /\ d.rec \in Nat /\ d.start \in Nat
    BY <1>2, <1>5 DEF Spanned
  <2>2. c.end = d.end => d.rec <= c.rec
    BY <1>4, <1>5
  <2> QED
    BY <2>1, <2>2 DEF Before
<1> HIDE DEF Longest
<1>7. d \in found
  BY <1>5 DEF Longest
<1> QED
  BY <1>6, <1>7 DEF FirstOf

\* Where the last span starts.
Last0(found) == Max({0} \cup {d.start : d \in found})

\* No span starts after the last start.
LEMMA LastStart ==
    ASSUME NEW n \in Nat, NEW found, Spanned(found, n)
    PROVE  Last0(found) \in Nat /\ \A d \in found : d.start \in 1 .. Last0(found)
<1> DEFINE S == {0} \cup {d.start : d \in found}
<1>1. S \in SUBSET (0 .. n) /\ S # {}
  BY DEF Spanned
<1>2. Max(S) \in S /\ \A x \in S : x <= Max(S)
  <2> HIDE DEF S
  <2> QED
    BY <1>1, MaxOf
<1> QED
  BY <1>1, <1>2 DEF Last0, Spanned

\* One position of Merge.
KeepAt(found, i, before) ==
    LET here == {d \in found : d.start = i}
    IN IF here = {} \/ \E k \in before : k.end > i THEN before ELSE before \cup {FirstOf(here)}

\* The function of Merge.
Merging(f, found, n) ==
    f = [i \in 0 .. n |->
            LET before == IF i = 0 THEN {} ELSE f[i - 1]
                here == {d \in found : d.start = i}
            IN IF here = {} \/ \E k \in before : k.end > i THEN before ELSE before \cup {FirstOf(here)}]

\* Merge satisfies its recursion.
LEMMA MergeIs ==
    ASSUME NEW n \in Nat, NEW found, Spanned(found, n)
    PROVE  \E f \in [0 .. Last0(found) -> SUBSET found] :
              /\ Merge(found) = f[Last0(found)]
              /\ f[0] = {} /\ \A i \in 1 .. Last0(found) : f[i] = KeepAt(found, i, f[i - 1])
<1> DEFINE m == Last0(found)
           G == [i \in 1 .. m |-> [before \in SUBSET found |-> KeepAt(found, i, before)]]
<1>1. m \in Nat
  BY LastStart
<1>2. ASSUME NEW i \in 1 .. m, NEW before \in SUBSET found PROVE KeepAt(found, i, before) \in SUBSET found
  <2> DEFINE here == {d \in found : d.start = i}
  <2>1. here # {} => FirstOf(here) \in here
    <3>1. Spanned(here, n) /\ \A d \in here : d.start = i
      BY DEF Spanned
    <3> HIDE DEF here
    <3> QED
      BY <3>1, FirstIs
  <2> QED
    BY <2>1 DEF KeepAt
<1>3. G \in [1 .. m -> [SUBSET found -> SUBSET found]]
  BY <1>2
<1>4. \A i \in 1 .. m, before \in SUBSET found : G[i][before] = KeepAt(found, i, before)
  OBVIOUS
<1> HIDE DEF m, G
<1>5. PICK f \in [0 .. m -> SUBSET found] : f[0] = {} /\ \A i \in 1 .. m : f[i] = G[i][f[i - 1]]
  <2> DEFINE V == SUBSET found  none == {}
  <2>1. none \in V /\ G \in [1 .. m -> [V -> V]]
    BY <1>3
  <2> HIDE DEF V, none
  <2>2. PICK f : Follows(f, V, none, m, G)
    BY <1>1, <2>1, RecursionExists
  <2> QED
    BY <2>2 DEF V, none, Follows
<1>6. \A i \in 1 .. m : f[i] = KeepAt(found, i, f[i - 1])
  <2>1. \A i \in 1 .. m : i - 1 \in 0 .. m
    BY <1>1
  <2> QED
    BY <1>4, <1>5, <2>1
<1>7. {d \in found : d.start = 0} = {}
  BY DEF Spanned
<1>8. Merging(f, found, m)
  <2>1. f = [i \in 0 .. m |-> f[i]]
    BY <1>5
  <2>2. \A i \in 0 .. m : i = 0 \/ i \in 1 .. m
    BY <1>1
  <2> QED
    BY ZenonT(60), <1>5, <1>6, <1>7, <2>1, <2>2 DEF Merging, KeepAt
<1> DEFINE h == CHOOSE g : Merging(g, found, m)
<1>9. Merging(h, found, m)
  BY <1>8
<1>10. Merge(found) = h[m]
  BY DEF Merge, Merging, m, Last0
<1> HIDE DEF h
<1> DEFINE T == {i \in 0 .. m : h[i] = f[i]}
<1>11. 0 \in T
  BY <1>1, <1>5, <1>7, <1>9 DEF Merging
<1>12. ASSUME NEW i \in 1 .. m, i - 1 \in T PROVE i \in T
  <2>1. h[i] = KeepAt(found, i, h[i - 1])
    <3>1. i \in 0 .. m /\ i # 0
      BY <1>1
    <3>2. h[i] = LET before == IF i = 0 THEN {} ELSE h[i - 1]
                     here == {d \in found : d.start = i}
                 IN IF here = {} \/ \E k \in before : k.end > i THEN before ELSE before \cup {FirstOf(here)}
      BY <1>9, <3>1 DEF Merging
    <3> QED
      BY <3>1, <3>2 DEF KeepAt
  <2> QED
    BY <1>1, <1>6, <1>12, <2>1
<1>13. m \in T
  <2> HIDE DEF T
  <2> QED
    BY <1>1, <1>11, <1>12, UpTo
<1> QED
  BY <1>5, <1>6, <1>10, <1>13 DEF m

Apart(kept) == \A c, d \in kept : c = d \/ c.end <= d.start \/ d.end <= c.start

\* What Merge keeps does not overlap, and whatever was found overlaps something kept.
LEMMA MergeKeeps ==
    ASSUME NEW n \in Nat, NEW found, Spanned(found, n)
    PROVE  /\ Merge(found) \subseteq found
           /\ Apart(Merge(found))
           /\ \A d \in found : \E k \in Merge(found) : Overlap(k, d)
<1> DEFINE m == Last0(found)
<1>1. m \in Nat /\ \A d \in found : d.start \in 1 .. m
  BY LastStart
<1>2. PICK f \in [0 .. m -> SUBSET found] :
         /\ Merge(found) = f[m]
         /\ f[0] = {} /\ \A i \in 1 .. m : f[i] = KeepAt(found, i, f[i - 1])
  BY MergeIs
<1> HIDE DEF m
<1> DEFINE Good(i) == /\ Apart(f[i])
                      /\ \A k \in f[i] : k.start <= i
                      /\ \A d \in found : d.start <= i => \E k \in f[i] : Overlap(k, d)
           T == {i \in 0 .. m : Good(i)}
<1>3. \A d \in found : d.start \in Nat /\ d.end \in Nat /\ d.start < d.end /\ d.start # 0
  BY DEF Spanned
<1>4. 0 \in T
  BY <1>1, <1>2, <1>3 DEF Apart
<1>5. ASSUME NEW i \in 1 .. m, i - 1 \in T PROVE i \in T
  <2> DEFINE here == {d \in found : d.start = i}
             before == f[i - 1]
  <2>1. i - 1 \in 0 .. m /\ i \in 0 .. m /\ i \in Nat
    BY <1>1
  <2>2. before \subseteq found /\ Good(i - 1)
    BY <1>2, <1>5, <2>1
  <2>3. f[i] = KeepAt(found, i, before)
    BY <1>2
  <2>4. \A d \in found : d.start <= i => d.start <= i - 1 \/ d \in here
    BY <1>3, <2>1
  <2>5. \A k \in before : k.start <= i - 1 /\ k.start < i
    BY <1>3, <2>1, <2>2
  <2>6. CASE here = {}
    <3>1. f[i] = before
      BY <2>3, <2>6 DEF KeepAt
    <3> QED
      BY <2>1, <2>2, <2>4, <2>5, <2>6, <3>1, <1>3
  <2>7. CASE \E k \in before : k.end > i
    <3>1. f[i] = before
      BY <2>3, <2>7 DEF KeepAt
    <3>2. PICK k \in before : k.end > i
      BY <2>7
    <3>3. \A d \in here : Overlap(k, d)
      BY <1>3, <2>1, <2>2, <2>5, <3>2 DEF Overlap
    <3> QED
      BY <2>1, <2>2, <2>4, <2>5, <3>1, <3>2, <3>3, <1>3
  <2>8. CASE here # {} /\ \A k \in before : ~(k.end > i)
    <3> DEFINE e == FirstOf(here)
    <3>1. e \in here
      <4>1. Spanned(here, n) /\ \A d \in here : d.start = i
        BY DEF Spanned
      <4> HIDE DEF here
      <4> QED
        BY <2>8, <4>1, FirstIs
    <3>2. f[i] = before \cup {e}
      BY <2>3, <2>8 DEF KeepAt
    <3>3. e \in found /\ e.start = i
      BY <3>1
    <3>4. \A d \in here : d.start = i /\ d \in found
      OBVIOUS
    <3> HIDE DEF e, here
    <3>5. \A d \in here : Overlap(e, d)
      BY <1>3, <2>1, <3>3, <3>4 DEF Overlap
    <3>6. Apart(f[i])
      <4>1. \A k \in before : k.end <= e.start
        BY <1>3, <2>1, <2>2, <2>8, <3>3
      <4> QED
        BY <2>2, <3>2, <4>1 DEF Apart
    <3>7. \A k \in f[i] : k.start <= i
      BY <1>3, <2>1, <2>2, <2>5, <3>2, <3>3
    <3>8. \A d \in found : d.start <= i => \E k \in f[i] : Overlap(k, d)
      BY <2>2, <2>4, <3>2, <3>5
    <3> QED
      BY <2>1, <3>6, <3>7, <3>8
  <2> QED
    BY <2>6, <2>7, <2>8
<1>6. m \in T
  <2> HIDE DEF T
  <2>1. \A i \in 0 .. m : i \in T
    BY <1>1, <1>4, <1>5, UpTo
  <2> QED
    BY <1>1, <2>1
<1> QED
  BY <1>1, <1>2, <1>6

\* What recognizers find in a text lies within it.
LEMMA FindsSpanned ==
    ASSUME NEW X, NEW text \in Seq(X), NEW R \in SUBSET DOMAIN Recognizers
    PROVE  Spanned(Finds(text, R), Len(text))
<1>1. Len(text) \in Nat /\ DOMAIN text = 1 .. Len(text)
  OBVIOUS
<1> SUFFICES ASSUME NEW d \in Finds(text, R)
             PROVE  d.start \in 1 .. Len(text) /\ d.end \in d.start + 1 .. Len(text) + 1 /\ d.rec \in Nat
  BY DEF Spanned
<1>2. PICK r \in R : \E g \in Recognizers[r], i \in DOMAIN text :
         d = [start |-> i, end |-> i + Len(g[1]), kind |-> g[2], rec |-> r]
  BY DEF Finds, Candidates
<1>20. PICK g \in Recognizers[r], i \in DOMAIN text :
         d = [start |-> i, end |-> i + Len(g[1]), kind |-> g[2], rec |-> r]
  BY <1>2
<1>3. d.end <= Len(text) + 1
  BY DEF Finds
<1>4. Len(g[1]) \in Nat \ {0}
  <2>1. g[1] \in Seq(Range(g[1])) /\ g[1] # <<>>
    BY <1>2, RecognizerAssumption
  <2> QED
    BY <2>1
<1>5. r \in Nat
  <2>1. Recognizers \in Seq(Range(Recognizers))
    BY RecognizerAssumption
  <2>2. DOMAIN Recognizers = 1 .. Len(Recognizers)
    BY <2>1
  <2> QED
    BY <1>2, <2>2
<1> QED
  BY <1>1, <1>20, <1>3, <1>4, <1>5
-----------------------------------------------------------------------------
(* Masking: which symbol of the text each symbol of the masked text is *)

Covered(p, rep) == \E d \in rep : d.start <= p /\ p < d.end

Aligned(pos, out, text, rep, upto) ==
    /\ pos \in [1 .. Len(out) -> 0 .. upto]
    /\ \A k \in 1 .. Len(out) : IF pos[k] = 0 THEN out[k] \in Tokens
                                ELSE out[k] = text[pos[k]] /\ ~Covered(pos[k], rep)
    /\ \A k \in 1 .. Len(out) :
          pos[k] # 0 /\ pos[k] < upto /\ ~Covered(pos[k] + 1, rep) => k < Len(out) /\ pos[k + 1] = pos[k] + 1
    /\ \A k \in 1 .. Len(out) :
          pos[k] > 1 /\ ~Covered(pos[k] - 1, rep) => k > 1 /\ pos[k - 1] = pos[k] - 1
    /\ \A k \in 1 .. Len(out) - 1 : pos[k] # 0 /\ pos[k + 1] # 0 => pos[k + 1] = pos[k] + 1

\* Up to where the last placeholder was put, or nothing was.
Paused(pos, out, rep, upto) ==
    /\ upto # 0 => Covered(upto, rep)
    /\ out # <<>> => pos[Len(out)] = 0
    /\ \A d \in rep : d.start > upto \/ d.end <= upto + 1

\* What lies between two replaced spans is copied.
LEMMA AlignGap ==
    ASSUME NEW X, NEW out \in Seq(X), NEW text \in Seq(X), NEW rep, NEW upto \in Nat,
           NEW pos, Aligned(pos, out, text, rep, upto), Paused(pos, out, rep, upto),
           NEW z \in upto .. Len(text), \A p \in upto + 1 .. z : ~Covered(p, rep)
    PROVE  LET gap == SubSeq(text, upto + 1, z)
           IN \E q : Aligned(q, out \o gap, text, rep, z)
<1> DEFINE gap == SubSeq(text, upto + 1, z)
           n == Len(out)
           new == out \o gap
           q == [k \in 1 .. n + (z - upto) |-> IF k <= n THEN pos[k] ELSE upto + (k - n)]
<1>1. n \in Nat /\ Len(text) \in Nat /\ z \in Nat /\ z - upto \in Nat /\ upto <= z /\ z <= Len(text)
  OBVIOUS
<1>2. gap \in Seq(X) /\ Len(gap) = z - upto /\ \A j \in 1 .. z - upto : gap[j] = text[upto + j]
  BY <1>1
<1>3. new \in Seq(X) /\ Len(new) = n + (z - upto)
  <2> HIDE DEF gap
  <2> QED
    BY <1>2, ConcatProperties
<1>4. \A k \in 1 .. n : new[k] = out[k]
  <2> HIDE DEF gap
  <2> QED
    BY <1>2, ConcatProperties
<1>5. \A k \in n + 1 .. n + (z - upto) : new[k] = text[upto + (k - n)]
  <2> SUFFICES ASSUME NEW k \in n + 1 .. n + (z - upto) PROVE new[k] = text[upto + (k - n)]
    OBVIOUS
  <2>1. k - n \in 1 .. z - upto /\ k \in 1 .. n + (z - upto) /\ ~(k <= n)
    BY <1>1
  <2>2. new[k] = gap[k - n]
    <3> HIDE DEF gap
    <3> QED
      BY <1>1, <1>2, <2>1, ConcatProperties
  <2> QED
    BY <1>2, <2>1, <2>2
<1> HIDE DEF new, gap
<1>6. /\ pos \in [1 .. n -> 0 .. upto]
      /\ \A k \in 1 .. n : IF pos[k] = 0 THEN out[k] \in Tokens ELSE out[k] = text[pos[k]] /\ ~Covered(pos[k], rep)
      /\ \A k \in 1 .. n :
            pos[k] # 0 /\ pos[k] < upto /\ ~Covered(pos[k] + 1, rep) => k < n /\ pos[k + 1] = pos[k] + 1
      /\ \A k \in 1 .. n : pos[k] > 1 /\ ~Covered(pos[k] - 1, rep) => k > 1 /\ pos[k - 1] = pos[k] - 1
      /\ \A k \in 1 .. n - 1 : pos[k] # 0 /\ pos[k + 1] # 0 => pos[k + 1] = pos[k] + 1
  BY DEF Aligned
<1>7. n # 0 => pos[n] = 0
  BY DEF Paused
<1>8. \A k \in 1 .. n : pos[k] \in Nat /\ pos[k] <= upto /\ (pos[k] # 0 => pos[k] < upto)
  BY <1>6 DEF Paused
<1>9. \A k \in 1 .. n : q[k] = pos[k]
  BY <1>1
<1>10. \A k \in n + 1 .. n + (z - upto) : q[k] = upto + (k - n) /\ q[k] \in upto + 1 .. z /\ ~Covered(q[k], rep)
  BY <1>1
<1>11. q \in [1 .. n + (z - upto) -> 0 .. z]
  BY <1>1, <1>8
<1> HIDE DEF q, n
<1>12. \A k \in 1 .. n + (z - upto) : k \in 1 .. n \/ k \in n + 1 .. n + (z - upto)
  BY <1>1
<1>13. \A k \in 1 .. n + (z - upto) :
          IF q[k] = 0 THEN new[k] \in Tokens ELSE new[k] = text[q[k]] /\ ~Covered(q[k], rep)
  BY <1>1, <1>4, <1>5, <1>6, <1>9, <1>10, <1>12
<1>14. ASSUME NEW k \in 1 .. n + (z - upto), q[k] # 0, q[k] < z, ~Covered(q[k] + 1, rep)
       PROVE  k < n + (z - upto) /\ q[k + 1] = q[k] + 1
  <2>1. CASE k \in 1 .. n
    <3>1. q[k] = pos[k] /\ pos[k] < upto
      BY <1>8, <1>9, <1>14, <2>1
    <3>2. k < n /\ pos[k + 1] = pos[k] + 1
      BY <1>6, <1>14, <2>1, <3>1
    <3>3. k + 1 \in 1 .. n
      BY <1>1, <2>1, <3>2
    <3> QED
      BY <1>1, <1>9, <2>1, <3>1, <3>2, <3>3
  <2>2. CASE k \in n + 1 .. n + (z - upto)
    <3>1. q[k] = upto + (k - n)
      BY <1>10, <2>2
    <3>2. k < n + (z - upto) /\ k + 1 \in n + 1 .. n + (z - upto)
      BY <1>1, <1>14, <2>2, <3>1
    <3>3. q[k + 1] = upto + ((k + 1) - n)
      BY <1>10, <3>2
    <3> QED
      BY <1>1, <2>2, <3>1, <3>2, <3>3
  <2> QED
    BY <1>12, <2>1, <2>2
<1>15. ASSUME NEW k \in 1 .. n + (z - upto), q[k] > 1, ~Covered(q[k] - 1, rep)
       PROVE  k > 1 /\ q[k - 1] = q[k] - 1
  <2>1. CASE k \in 1 .. n
    <3>1. k > 1 /\ pos[k - 1] = pos[k] - 1
      BY <1>6, <1>9, <1>15, <2>1
    <3>2. k - 1 \in 1 .. n
      BY <1>1, <2>1, <3>1
    <3> QED
      BY <1>9, <2>1, <3>1, <3>2
  <2>2. CASE k \in n + 1 .. n + (z - upto)
    <3>1. q[k] = upto + (k - n)
      BY <1>10, <2>2
    <3>2. CASE k = n + 1
      <4>1. q[k] = upto + 1 /\ q[k] - 1 = upto /\ upto # 0
        BY <1>1, <1>15, <3>1, <3>2
      <4> QED
        BY <1>15, <4>1 DEF Paused
    <3>3. CASE k # n + 1
      <4>1. k - 1 \in n + 1 .. n + (z - upto) /\ k > 1
        BY <1>1, <2>2, <3>3
      <4>2. q[k - 1] = upto + ((k - 1) - n)
        BY <1>10, <4>1
      <4> QED
        BY <1>1, <2>2, <3>1, <4>1, <4>2
    <3> QED
      BY <3>2, <3>3
  <2> QED
    BY <1>12, <2>1, <2>2
<1>16. ASSUME NEW k \in 1 .. n + (z - upto) - 1, q[k] # 0, q[k + 1] # 0 PROVE q[k + 1] = q[k] + 1
  <2>1. CASE k \in 1 .. n - 1
    <3>1. k \in 1 .. n /\ k + 1 \in 1 .. n
      BY <1>1, <2>1
    <3> QED
      BY <1>6, <1>9, <1>16, <2>1, <3>1
  <2>2. CASE k = n
    <3>1. k \in 1 .. n
      BY <1>1, <2>2
    <3> QED
      BY <1>7, <1>9, <1>16, <2>2, <3>1
  <2>3. CASE k > n
    <3>1. k \in n + 1 .. n + (z - upto) /\ k + 1 \in n + 1 .. n + (z - upto)
      BY <1>1, <2>3
    <3>2. q[k] = upto + (k - n) /\ q[k + 1] = upto + ((k + 1) - n)
      BY <1>10, <3>1
    <3> QED
      BY <1>1, <3>1, <3>2
  <2> QED
    BY <1>1, <2>1, <2>2, <2>3
<1>17. Aligned(q, new, text, rep, z)
  <2> DEFINE N == n + (z - upto)
  <2>1. /\ Len(new) = N /\ q \in [1 .. N -> 0 .. z]
        /\ \A k \in 1 .. N : IF q[k] = 0 THEN new[k] \in Tokens ELSE new[k] = text[q[k]] /\ ~Covered(q[k], rep)
    BY <1>3, <1>11, <1>13
  <2>2. \A k \in 1 .. N : q[k] # 0 /\ q[k] < z /\ ~Covered(q[k] + 1, rep) => k < N /\ q[k + 1] = q[k] + 1
    BY <1>14
  <2>3. \A k \in 1 .. N : q[k] > 1 /\ ~Covered(q[k] - 1, rep) => k > 1 /\ q[k - 1] = q[k] - 1
    BY <1>15
  <2>4. \A k \in 1 .. N - 1 : q[k] # 0 /\ q[k + 1] # 0 => q[k + 1] = q[k] + 1
    BY <1>1, <1>16
  <2> HIDE DEF N
  <2> QED
    BY <2>1, <2>2, <2>3, <2>4 DEF Aligned
<1> QED
  BY <1>17 DEF new, gap

\* A replaced span is one placeholder.
LEMMA AlignToken ==
    ASSUME NEW X, NEW out \in Seq(X), NEW text \in Seq(X), NEW rep, NEW upto \in Nat,
           NEW pos, Aligned(pos, out, text, rep, upto),
           NEW t \in Tokens, NEW z \in Nat, z > upto, \A p \in upto + 1 .. z : Covered(p, rep),
           \A d \in rep : d.start > z \/ d.end <= z + 1
    PROVE  \E q : /\ Aligned(q, out \o <<t>>, text, rep, z)
                  /\ Paused(q, out \o <<t>>, rep, z)
<1> DEFINE n == Len(out)
           new == out \o <<t>>
           q == [k \in 1 .. n + 1 |-> IF k <= n THEN pos[k] ELSE 0]
<1>1. n \in Nat /\ Len(new) = n + 1 /\ new # <<>> /\ new[n + 1] = t /\ \A k \in 1 .. n : new[k] = out[k]
  OBVIOUS
<1>2. /\ pos \in [1 .. n -> 0 .. upto]
      /\ \A k \in 1 .. n : IF pos[k] = 0 THEN out[k] \in Tokens ELSE out[k] = text[pos[k]] /\ ~Covered(pos[k], rep)
      /\ \A k \in 1 .. n :
            pos[k] # 0 /\ pos[k] < upto /\ ~Covered(pos[k] + 1, rep) => k < n /\ pos[k + 1] = pos[k] + 1
      /\ \A k \in 1 .. n : pos[k] > 1 /\ ~Covered(pos[k] - 1, rep) => k > 1 /\ pos[k - 1] = pos[k] - 1
      /\ \A k \in 1 .. n - 1 : pos[k] # 0 /\ pos[k + 1] # 0 => pos[k + 1] = pos[k] + 1
  BY DEF Aligned
<1>3. /\ q[n + 1] = 0 /\ \A k \in 1 .. n : q[k] = pos[k] /\ pos[k] \in Nat /\ pos[k] <= upto
      /\ q \in [1 .. n + 1 -> 0 .. z]
  <2>1. \A k \in 1 .. n : pos[k] \in 0 .. upto
    BY <1>2
  <2>2. \A k \in 0 .. upto : k \in Nat /\ k <= upto /\ k \in 0 .. z
    OBVIOUS
  <2>3. n + 1 \in 1 .. n + 1 /\ ~(n + 1 <= n) /\ \A k \in 1 .. n : k \in 1 .. n + 1 /\ k <= n
    BY <1>1
  <2>4. \A k \in 1 .. n + 1 : k <= n => k \in 1 .. n
    BY <1>1
  <2> HIDE DEF n
  <2>5. q[n + 1] = 0 /\ \A k \in 1 .. n : q[k] = pos[k]
    BY <2>3
  <2>6. \A k \in 1 .. n + 1 : (IF k <= n THEN pos[k] ELSE 0) \in 0 .. z
    BY <2>1, <2>2, <2>4
  <2>7. q \in [1 .. n + 1 -> 0 .. z]
    BY <2>6
  <2> QED
    BY <2>1, <2>2, <2>5, <2>7
<1>4. \A k \in 1 .. n + 1 : k \in 1 .. n \/ k = n + 1
  BY <1>1
<1> HIDE DEF q, n, new
<1>5. \A k \in 1 .. n + 1 : IF q[k] = 0 THEN new[k] \in Tokens ELSE new[k] = text[q[k]] /\ ~Covered(q[k], rep)
  BY <1>1, <1>2, <1>3, <1>4
<1>6. ASSUME NEW k \in 1 .. n + 1, q[k] # 0, q[k] < z, ~Covered(q[k] + 1, rep)
      PROVE  k < n + 1 /\ q[k + 1] = q[k] + 1
  <2>1. k \in 1 .. n /\ q[k] = pos[k] /\ pos[k] \in Nat /\ pos[k] <= upto
    BY <1>3, <1>4, <1>6
  <2>2. pos[k] < upto
    <3>1. pos[k] = upto => pos[k] + 1 \in upto + 1 .. z
      BY <2>1
    <3> QED
      BY <1>6, <2>1, <3>1
  <2>3. k < n /\ pos[k + 1] = pos[k] + 1
    BY <1>2, <1>6, <2>1, <2>2
  <2>4. k + 1 \in 1 .. n
    BY <1>1, <2>1, <2>3
  <2> QED
    BY <1>1, <1>3, <2>1, <2>3, <2>4
<1>7. ASSUME NEW k \in 1 .. n + 1, q[k] > 1, ~Covered(q[k] - 1, rep) PROVE k > 1 /\ q[k - 1] = q[k] - 1
  <2>1. k \in 1 .. n /\ q[k] = pos[k]
    BY <1>3, <1>4, <1>7
  <2>2. k > 1 /\ pos[k - 1] = pos[k] - 1
    BY <1>2, <1>7, <2>1
  <2>3. k - 1 \in 1 .. n
    BY <1>1, <2>1, <2>2
  <2> QED
    BY <1>3, <2>1, <2>2, <2>3
<1>8. ASSUME NEW k \in 1 .. (n + 1) - 1, q[k] # 0, q[k + 1] # 0 PROVE q[k + 1] = q[k] + 1
  <2>1. k \in 1 .. n - 1 /\ k + 1 \in 1 .. n /\ k \in 1 .. n
    BY <1>1, <1>3, <1>8
  <2> QED
    BY <1>2, <1>3, <1>8, <2>1
<1>9. Aligned(q, new, text, rep, z)
  BY <1>1, <1>3, <1>5, <1>6, <1>7, <1>8 DEF Aligned
<1>10. Paused(q, new, rep, z)
  BY <1>1, <1>3 DEF Paused
<1> QED
  BY <1>9, <1>10 DEF new

\* The n symbols of a text from its i-th on.
LEMMA PartIs ==
    ASSUME NEW X, NEW text \in Seq(X), NEW i \in Nat, i >= 1, NEW n \in Nat, NEW z \in Int, z = i + n - 1,
           z <= Len(text)
    PROVE  /\ SubSeq(text, i, z) \in Seq(X) /\ Len(SubSeq(text, i, z)) = n
           /\ \A j \in 1 .. n : SubSeq(text, i, z)[j] = text[i + (j - 1)]
<1>1. \A j \in i .. z : text[j] \in X
  OBVIOUS
<1>2. /\ SubSeq(text, i, z) \in Seq(X)
      /\ Len(SubSeq(text, i, z)) = IF i <= z THEN z - i + 1 ELSE 0
      /\ \A j \in 1 .. z - i + 1 : SubSeq(text, i, z)[j] = text[i + j - 1]
  BY <1>1, SubSeqProperties
<1> DEFINE u == SubSeq(text, i, z)
<1> HIDE DEF u
<1>3. z - i + 1 = n /\ (i <= z \/ n = 0) /\ \A j \in 1 .. n : i + (j - 1) = i + j - 1
  OBVIOUS
<1>4. Len(u) = n /\ \A j \in 1 .. n : u[j] = text[i + (j - 1)]
  BY <1>2, <1>3 DEF u
<1> QED
  BY <1>2, <1>4 DEF u

\* A match, by what it says of the text.
LEMMA MatchIs ==
    ASSUME NEW X, NEW text \in Seq(X), NEW R \in SUBSET DOMAIN Recognizers, NEW c \in Finds(text, R)
    PROVE  /\ c.start \in 1 .. Len(text) /\ c.end \in c.start + 1 .. Len(text) + 1
           /\ c.rec \in R
           /\ <<SubSeq(text, c.start, c.end - 1), c.kind>> \in Recognizers[c.rec]
           /\ \A j \in 0 .. c.end - c.start - 1 : text[c.start + j] \notin Tokens
<1>1. Spanned(Finds(text, R), Len(text))
  BY FindsSpanned
<1>2. c.start \in 1 .. Len(text) /\ c.end \in c.start + 1 .. Len(text) + 1
  BY <1>1 DEF Spanned
<1>3. <<SubSeq(text, c.start, c.end - 1), c.kind>> \in Recognizers[c.rec]
  BY DEF Finds
<1>4. c.rec \in R
  <2>1. PICK r \in R : \E g \in Recognizers[r], i \in DOMAIN text :
         c = [start |-> i, end |-> i + Len(g[1]), kind |-> g[2], rec |-> r]
    BY DEF Finds, Candidates
  <2> QED
    BY <2>1
<1>5. ASSUME NEW j \in 0 .. c.end - c.start - 1 PROVE text[c.start + j] \notin Tokens
  <2> DEFINE i == c.start  z == c.end - 1  n == c.end - c.start  w == SubSeq(text, i, z)
             g == <<w, c.kind>>
  <2>1. i \in Nat /\ i >= 1 /\ n \in Nat /\ z \in Int /\ z = i + n - 1 /\ z <= Len(text) /\ j \in 0 .. n - 1
        /\ j \in Nat
    BY SMTT(30), <1>2
  <2>20. g \in Recognizers[c.rec] /\ c.rec \in DOMAIN Recognizers /\ g[1] = w
    BY <1>3, <1>4
  <2> HIDE DEF i, z, n
  <2>21. w \in Seq(X) /\ Len(w) = n /\ \A k \in 1 .. n : w[k] = text[i + (k - 1)]
    BY <2>1, PartIs
  <2> HIDE DEF w
  <2>22. j + 1 \in 1 .. n /\ (j + 1) - 1 = j
    BY <2>1
  <2>2. w[j + 1] = text[i + j] /\ j + 1 \in DOMAIN w
    BY <2>21, <2>22
  <2> HIDE DEF g
  <2>23. Range(g[1]) \cap Tokens = {}
    BY <2>20, RecognizerAssumption
  <2>3. Range(w) \cap Tokens = {}
    BY <2>20, <2>23
  <2>4. w[j + 1] \in Range(w)
    BY <2>2 DEF Range
  <2>5. text[i + j] \notin Tokens
    BY <2>2, <2>3, <2>4
  <2> QED
    BY <2>5 DEF i
<1> QED
  BY <1>2, <1>3, <1>4, <1>5

\* What a recognizer knows is found wherever it stands.
LEMMA MatchExists ==
    ASSUME NEW X, NEW text \in Seq(X), NEW R \in SUBSET DOMAIN Recognizers, NEW r \in R,
           NEW i \in 1 .. Len(text), NEW z \in i + 1 .. Len(text) + 1, NEW kind,
           <<SubSeq(text, i, z - 1), kind>> \in Recognizers[r]
    PROVE  [start |-> i, end |-> z, kind |-> kind, rec |-> r] \in Finds(text, R)
<1> DEFINE w == SubSeq(text, i, z - 1)
           g == <<w, kind>>
           c == [start |-> i, end |-> z, kind |-> kind, rec |-> r]
<1>1. Len(w) = z - i /\ i + Len(w) = z /\ z <= Len(text) + 1
  OBVIOUS
<1>2. c = [start |-> i, end |-> i + Len(g[1]), kind |-> g[2], rec |-> r]
  BY <1>1
<1>3. g \in Recognizers[r] /\ i \in DOMAIN text
  OBVIOUS
<1> HIDE DEF g
<1>4. c \in Candidates(text, R)
  BY <1>2, <1>3 DEF Candidates
<1>5. c.start = i /\ c.end = z /\ c.kind = kind /\ c.rec = r
  OBVIOUS
<1> HIDE DEF c
<1> QED
  BY <1>1, <1>4, <1>5 DEF Finds, c

\* Where the masked text matches, the text does, and nothing of that was replaced.
LEMMA MatchMoves ==
    ASSUME NEW X, NEW out \in Seq(X), NEW text \in Seq(X), NEW rep,
           NEW pos, Aligned(pos, out, text, rep, Len(text)),
           NEW R \in SUBSET DOMAIN Recognizers, NEW c \in Finds(out, R)
    PROVE  \E b \in Finds(text, R) :
              /\ b.end - b.start = c.end - c.start
              /\ \A j \in 0 .. c.end - c.start - 1 : pos[c.start + j] = b.start + j
<1> DEFINE i == c.start  n == c.end - c.start
<1>1. /\ i \in 1 .. Len(out) /\ c.end \in i + 1 .. Len(out) + 1 /\ c.rec \in R
      /\ <<SubSeq(out, i, c.end - 1), c.kind>> \in Recognizers[c.rec]
      /\ \A j \in 0 .. n - 1 : out[i + j] \notin Tokens
  BY MatchIs
<1>2. i \in Nat /\ i >= 1 /\ n \in Nat /\ n >= 1 /\ Len(out) \in Nat /\ i + n - 1 <= Len(out) /\ Len(text) \in Nat
      /\ c.end = i + n /\ c.end - 1 = i + n - 1
  BY SMTT(30), <1>1
<1> HIDE DEF i, n
<1>3. \A j \in 0 .. n - 1 : i + j \in 1 .. Len(out)
  BY <1>2
<1>4. \A j \in 0 .. n - 1 : pos[i + j] \in 1 .. Len(text) /\ out[i + j] = text[pos[i + j]]
  <2>1. \A k \in 1 .. Len(out) : pos[k] \in 0 .. Len(text)
    BY DEF Aligned
  <2>2. \A j \in 0 .. n - 1 : pos[i + j] # 0 /\ out[i + j] = text[pos[i + j]]
    BY <1>1, <1>3 DEF Aligned
  <2>3. \A v \in 0 .. Len(text) : v # 0 => v \in 1 .. Len(text)
    BY <1>2
  <2> QED
    BY <1>3, <2>1, <2>2, <2>3
<1> DEFINE p == pos[i]
           T == {j \in 0 .. n - 1 : pos[i + j] = p + j}
<1>5. p \in 1 .. Len(text)
  <2>1. 0 \in 0 .. n - 1 /\ i + 0 = i
    BY <1>2
  <2> QED
    BY <1>4, <2>1
<1>6. \A j \in 0 .. n - 1 : j \in T
  <2>1. n - 1 \in Nat
    BY <1>2
  <2>2. 0 \in T
    BY <1>2, <1>5
  <2>3. ASSUME NEW j \in 1 .. n - 1, j - 1 \in T PROVE j \in T
    <3>1. j - 1 \in 0 .. n - 1 /\ j \in 0 .. n - 1 /\ i + (j - 1) \in 1 .. Len(out) - 1 /\ (i + (j - 1)) + 1 = i + j
      BY <1>2
    <3>2. pos[i + (j - 1)] = p + (j - 1)
      BY <2>3
    <3>3. pos[i + (j - 1)] # 0 /\ pos[i + j] # 0
      BY <1>4, <3>1
    <3> HIDE DEF p
    <3>4. pos[i + j] = pos[i + (j - 1)] + 1
      BY <3>1, <3>3 DEF Aligned
    <3> QED
      BY <1>5, <3>1, <3>2, <3>4
  <2> HIDE DEF T
  <2> QED
    BY <2>1, <2>2, <2>3, UpTo
<1>7. \A j \in 0 .. n - 1 : pos[i + j] = p + j /\ out[i + j] = text[p + j] /\ p + j \in 1 .. Len(text)
  BY <1>4, <1>6
<1> HIDE DEF p, T
<1>8. p + n - 1 \in 1 .. Len(text) /\ p \in Nat
  <2>1. n - 1 \in 0 .. n - 1
    BY <1>2
  <2> QED
    BY <1>2, <1>5, <1>7, <2>1
<1>9. SubSeq(out, i, i + n - 1) = SubSeq(text, p, p + n - 1)
  <2> DEFINE u == SubSeq(out, i, i + n - 1)  v == SubSeq(text, p, p + n - 1)
  <2>10. i + n - 1 \in Int /\ i + n - 1 <= Len(out) /\ p + n - 1 \in Int /\ p + n - 1 <= Len(text) /\ i >= 1 /\ p >= 1
    BY <1>2, <1>8, <1>5
  <2>1. u \in Seq(X) /\ Len(u) = n /\ \A j \in 1 .. n : u[j] = out[i + (j - 1)]
    BY <1>2, <2>10, PartIs
  <2>2. v \in Seq(X) /\ Len(v) = n /\ \A j \in 1 .. n : v[j] = text[p + (j - 1)]
    BY <1>2, <1>8, <2>10, PartIs
  <2>3. \A j \in 1 .. n : j - 1 \in 0 .. n - 1
    BY <1>2
  <2> HIDE DEF u, v
  <2>4. \A j \in 1 .. n : u[j] = v[j]
    BY <1>7, <2>1, <2>2, <2>3
  <2>5. u = v
    BY <2>1, <2>2, <2>4, SeqEqual
  <2> QED
    BY <2>5 DEF u, v
<1> DEFINE b == [start |-> p, end |-> p + n, kind |-> c.kind, rec |-> c.rec]
<1>10. p + n \in p + 1 .. Len(text) + 1 /\ (p + n) - 1 = p + n - 1
  BY <1>2, <1>5, <1>8
<1>11. b \in Finds(text, R)
  <2>1. <<SubSeq(text, p, (p + n) - 1), c.kind>> \in Recognizers[c.rec]
    BY <1>1, <1>2, <1>9, <1>10
  <2> QED
    BY <1>1, <1>5, <1>10, <2>1, MatchExists
<1>12. b.start = p /\ b.end = p + n /\ b.end - b.start = n
  BY <1>2, <1>8
<1> HIDE DEF b
<1> QED
  BY <1>7, <1>11, <1>12 DEF i, n

\* A match of the text of which nothing was replaced is one of the masked text.
LEMMA MatchBack ==
    ASSUME NEW X, NEW out \in Seq(X), NEW text \in Seq(X), NEW rep,
           NEW pos, Aligned(pos, out, text, rep, Len(text)),
           NEW R \in SUBSET DOMAIN Recognizers, NEW d \in Finds(text, R),
           \A p \in d.start .. d.end - 1 : ~Covered(p, rep),
           NEW k \in 1 .. Len(out), pos[k] \in d.start .. d.end - 1
    PROVE  \E b \in Finds(out, R) : b.kind = d.kind /\ b.start <= k /\ k < b.end
<1>1. /\ d.start \in 1 .. Len(text) /\ d.end \in d.start + 1 .. Len(text) + 1 /\ d.rec \in R
      /\ <<SubSeq(text, d.start, d.end - 1), d.kind>> \in Recognizers[d.rec]
  BY MatchIs
<1> DEFINE s == d.start  z == d.end - 1  q == pos[k]
<1>2. s \in Nat /\ s >= 1 /\ z \in Nat /\ s <= z /\ z <= Len(text) /\ q \in Nat /\ s <= q /\ q <= z
      /\ Len(text) \in Nat /\ Len(out) \in Nat /\ d.end = z + 1
  <2> DEFINE a == d.start  e == d.end
  <2>1. a \in 1 .. Len(text) /\ e \in a + 1 .. Len(text) + 1 /\ pos[k] \in a .. e - 1 /\ Len(text) \in Nat /\ Len(out) \in Nat
    BY <1>1
  <2> HIDE DEF a, e
  <2>2. /\ a \in Nat /\ a >= 1 /\ e - 1 \in Nat /\ a <= e - 1 /\ e - 1 <= Len(text) /\ e = (e - 1) + 1
        /\ pos[k] \in Nat /\ a <= pos[k] /\ pos[k] <= e - 1
    BY <2>1
  <2> QED
    BY <2>1, <2>2 DEF a, e
<1>20. pos[k] = q /\ \A p \in s .. z : ~Covered(p, rep)
  OBVIOUS
<1> HIDE DEF s, z, q
<1> DEFINE T == {j \in 0 .. z - q : k + j \in 1 .. Len(out) /\ pos[k + j] = q + j}
           U == {j \in 0 .. q - s : k - j \in 1 .. Len(out) /\ pos[k - j] = q - j}
<1>3. \A j \in 0 .. z - q : j \in T
  <2>1. z - q \in Nat
    BY <1>2
  <2>2. 0 \in T
    BY <1>2, <1>20
  <2>3. ASSUME NEW j \in 1 .. z - q, j - 1 \in T PROVE j \in T
    <3> DEFINE h == k + (j - 1)
    <3>1. h \in 1 .. Len(out) /\ pos[h] = q + (j - 1)
      BY <2>3
    <3>2. h \in Int /\ h + 1 = k + j /\ j \in 0 .. z - q /\ q + j \in s .. z /\ q + j = (q + (j - 1)) + 1 /\ q + (j - 1) # 0
          /\ q + (j - 1) < Len(text)
      BY <1>2
    <3> HIDE DEF h
    <3>3. ~Covered(pos[h] + 1, rep)
      BY <1>20, <3>1, <3>2
    <3>4. h < Len(out) /\ pos[h + 1] = pos[h] + 1
      BY <3>1, <3>2, <3>3 DEF Aligned
    <3>5. k + j \in 1 .. Len(out)
      BY <1>2, <3>1, <3>2, <3>4
    <3> QED
      BY <3>1, <3>2, <3>4, <3>5
  <2> HIDE DEF T
  <2> QED
    BY <2>1, <2>2, <2>3, UpTo
<1>4. \A j \in 0 .. q - s : j \in U
  <2>1. q - s \in Nat
    BY <1>2
  <2>2. 0 \in U
    BY <1>2, <1>20
  <2>3. ASSUME NEW j \in 1 .. q - s, j - 1 \in U PROVE j \in U
    <3> DEFINE h == k - (j - 1)
    <3>1. h \in 1 .. Len(out) /\ pos[h] = q - (j - 1)
      BY <2>3
    <3>2. h \in Int /\ h - 1 = k - j /\ j \in 0 .. q - s /\ q - j \in s .. z /\ q - j = (q - (j - 1)) - 1 /\ q - (j - 1) > 1
      BY <1>2
    <3> HIDE DEF h
    <3>3. ~Covered(pos[h] - 1, rep)
      BY <1>20, <3>1, <3>2
    <3>4. h > 1 /\ pos[h - 1] = pos[h] - 1
      BY <3>1, <3>2, <3>3 DEF Aligned
    <3>5. k - j \in 1 .. Len(out)
      BY <1>2, <3>1, <3>2, <3>4
    <3> QED
      BY <3>1, <3>2, <3>4, <3>5
  <2> HIDE DEF U
  <2> QED
    BY <2>1, <2>2, <2>3, UpTo
<1> DEFINE i == k - (q - s)  n == (z - s) + 1
<1>5. /\ i \in 1 .. Len(out) /\ k + (z - q) \in 1 .. Len(out) /\ i + n - 1 = k + (z - q) /\ n \in Nat /\ n >= 1
  <2>1. q - s \in 0 .. q - s /\ z - q \in 0 .. z - q
    BY <1>2
  <2>2. k - (q - s) \in 1 .. Len(out) /\ k + (z - q) \in 1 .. Len(out)
    BY <1>3, <1>4, <2>1
  <2> QED
    BY <1>2, <2>2
<1>6. \A j \in 0 .. n - 1 : i + j \in 1 .. Len(out) /\ pos[i + j] = s + j
  <2> SUFFICES ASSUME NEW j \in 0 .. n - 1 PROVE i + j \in 1 .. Len(out) /\ pos[i + j] = s + j
    OBVIOUS
  <2>1. CASE s + j >= q
    <3>1. (s + j) - q \in 0 .. z - q /\ k + ((s + j) - q) = i + j /\ q + ((s + j) - q) = s + j
      BY <1>2, <2>1
    <3>2. (s + j) - q \in T
      BY <1>3, <3>1
    <3> QED
      BY <3>1, <3>2
  <2>2. CASE s + j < q
    <3>1. q - (s + j) \in 0 .. q - s /\ k - (q - (s + j)) = i + j /\ q - (q - (s + j)) = s + j
      BY <1>2, <2>2
    <3>2. q - (s + j) \in U
      BY <1>4, <3>1
    <3> QED
      BY <3>1, <3>2
  <2> QED
    BY <1>2, <2>1, <2>2
<1> HIDE DEF T, U
<1>7. i \in Nat /\ i <= k /\ k < i + n /\ i + n - 1 <= Len(out) /\ s + n - 1 = z /\ i + n \in i + 1 .. Len(out) + 1
      /\ (i + n) - 1 = i + n - 1
  BY <1>2, <1>5
<1> HIDE DEF i, n
<1>8. SubSeq(out, i, i + n - 1) = SubSeq(text, s, s + n - 1)
  <2> DEFINE u == SubSeq(out, i, i + n - 1)  v == SubSeq(text, s, s + n - 1)
  <2>10. i + n - 1 \in Int /\ i + n - 1 <= Len(out) /\ s + n - 1 \in Int /\ s + n - 1 <= Len(text) /\ i >= 1 /\ s >= 1
    BY <1>2, <1>5, <1>7
  <2>1. u \in Seq(X) /\ Len(u) = n /\ \A j \in 1 .. n : u[j] = out[i + (j - 1)]
    BY <1>2, <1>5, <1>7, <2>10, PartIs
  <2>11. s \in Nat /\ n \in Nat
    BY <1>2, <1>5
  <2>2. v \in Seq(X) /\ Len(v) = n /\ \A j \in 1 .. n : v[j] = text[s + (j - 1)]
    BY <2>10, <2>11, PartIs
  <2>3. \A j \in 1 .. n : j - 1 \in 0 .. n - 1
    BY <1>5
  <2>4. \A j \in 0 .. n - 1 : out[i + j] = text[s + j]
    <3>1. \A j \in 0 .. n - 1 : s + j # 0
      BY <1>2, <1>5
    <3> QED
      BY <1>6, <3>1 DEF Aligned
  <2> HIDE DEF u, v
  <2>5. \A j \in 1 .. n : u[j] = v[j]
    BY <2>1, <2>2, <2>3, <2>4
  <2>6. u = v
    BY <2>1, <2>2, <2>5, SeqEqual
  <2> QED
    BY <2>6 DEF u, v
<1> DEFINE b == [start |-> i, end |-> i + n, kind |-> d.kind, rec |-> d.rec]
<1>9. b \in Finds(out, R)
  <2>1. <<SubSeq(out, i, (i + n) - 1), d.kind>> \in Recognizers[d.rec]
    BY <1>1, <1>7, <1>8 DEF s, z
  <2> QED
    BY <1>1, <1>5, <1>7, <2>1, MatchExists
<1>10. b.kind = d.kind /\ b.start = i /\ b.end = i + n
  OBVIOUS
<1> HIDE DEF b
<1> QED
  BY <1>7, <1>9, <1>10
-----------------------------------------------------------------------------
\* The numbers of a span.
LEMMA SpanIs ==
    ASSUME NEW n \in Nat, NEW found, Spanned(found, n), NEW d \in found
    PROVE  d.start \in Nat /\ d.end \in Nat /\ d.start >= 1 /\ d.start < d.end /\ d.end <= n + 1
BY DEF Spanned

\* More recognizers find no less.
LEMMA FindsGrow ==
    ASSUME NEW text, NEW R, NEW P \in SUBSET R
    PROVE  Finds(text, P) \subseteq Finds(text, R)
<1>1. Candidates(text, P) \subseteq Candidates(text, R)
  BY DEF Candidates
<1> QED
  BY <1>1 DEF Finds

\* What is found in a text masked by what Merge kept of the allowed kinds.
LEMMA NothingFound ==
    ASSUME NEW X, NEW out \in Seq(X), NEW text \in Seq(X), NEW allowed,
           NEW R \in SUBSET DOMAIN Recognizers, NEW rep, rep = {d \in Merge(Finds(text, R)) : d.kind \in allowed},
           NEW pos, Aligned(pos, out, text, rep, Len(text)),
           NEW P \in SUBSET R, NEW c \in Finds(out, P)
    PROVE  \E d \in Finds(out, DOMAIN Recognizers) : d.kind \notin allowed /\ Overlap(c, d)
<1> DEFINE found == Finds(text, R)  n == c.end - c.start
<1>1. Spanned(found, Len(text)) /\ Len(text) \in Nat
  BY FindsSpanned
<1>2. /\ Merge(found) \subseteq found /\ Apart(Merge(found))
      /\ \A d \in found : \E k \in Merge(found) : Overlap(k, d)
  BY <1>1, MergeKeeps
<1>3. c.start \in 1 .. Len(out) /\ c.end \in c.start + 1 .. Len(out) + 1
  BY MatchIs
<1>4. PICK b \in Finds(text, R) :
         /\ b.end - b.start = n
         /\ \A j \in 0 .. n - 1 : pos[c.start + j] = b.start + j
  <2>3. c \in Finds(out, R)
    BY FindsGrow
  <2> QED
    BY <2>3, MatchMoves
<1>5. PICK k \in Merge(found) : Overlap(k, b)
  BY <1>2
<1>6. /\ b.start \in Nat /\ b.end \in Nat /\ b.start >= 1 /\ b.start < b.end
      /\ k.start \in Nat /\ k.end \in Nat /\ k.start >= 1 /\ k.start < k.end /\ k \in found
      /\ c.start \in Nat /\ c.end \in Nat /\ c.start >= 1 /\ c.start < c.end /\ c.end <= Len(out) + 1 /\ Len(out) \in Nat
  <2>1. b \in found /\ k \in found
    BY <1>2
  <2>2. c \in Finds(out, P) /\ Spanned(Finds(out, P), Len(out)) /\ Len(out) \in Nat
    BY FindsSpanned
  <2> HIDE DEF found
  <2>3. b.start \in Nat /\ b.end \in Nat /\ b.start >= 1 /\ b.start < b.end
    BY <1>1, <2>1, SpanIs
  <2>4. k.start \in Nat /\ k.end \in Nat /\ k.start >= 1 /\ k.start < k.end
    BY <1>1, <2>1, SpanIs
  <2>5. c.start \in Nat /\ c.end \in Nat /\ c.start >= 1 /\ c.start < c.end /\ c.end <= Len(out) + 1
    BY <2>2, SpanIs
  <2> QED
    BY <2>1, <2>2, <2>3, <2>4, <2>5
<1>7. k.start < b.end /\ b.start < k.end
  BY <1>5 DEF Overlap
<1>8. \E p \in b.start .. b.end - 1 : p \in k.start .. k.end - 1
  <2> DEFINE p == IF b.start <= k.start THEN k.start ELSE b.start
  <2> p \in b.start .. b.end - 1 /\ p \in k.start .. k.end - 1
    BY <1>6, <1>7
  <2> QED
    OBVIOUS
<1>9. PICK p \in b.start .. b.end - 1 : p \in k.start .. k.end - 1
  BY <1>8
<1> DEFINE h == c.start + (p - b.start)
<1>10. h \in 1 .. Len(out) /\ c.start <= h /\ h < c.end /\ pos[h] = p /\ p # 0
  <2> DEFINE j == p - b.start  e == c.end  cs == c.start  bs == b.start  be == b.end
  <2>1. /\ be - bs = n /\ n = e - cs /\ bs \in Nat /\ be \in Nat /\ cs \in Nat /\ e \in Nat /\ bs >= 1 /\ cs >= 1
        /\ e <= Len(out) + 1 /\ Len(out) \in Nat /\ p \in bs .. be - 1 /\ j = p - bs
    BY <1>4, <1>6
  <2>3. j \in 0 .. n - 1 /\ bs + j = p /\ cs + j \in 1 .. Len(out) /\ cs <= cs + j /\ cs + j < e /\ p # 0
    <3> HIDE DEF bs, cs, e, n, j, be
    <3>1. j \in 0 .. n - 1 /\ bs + j = p /\ p # 0
      BY <2>1
    <3>2. cs + j \in 1 .. Len(out) /\ cs <= cs + j /\ cs + j < e
      BY <2>1, <3>1
    <3> QED
      BY <3>1, <3>2
  <2>4. pos[c.start + j] = b.start + j
    BY <1>4, <2>3
  <2> QED
    BY <2>3, <2>4
<1> HIDE DEF h, n
<1>11. ~Covered(p, rep)
  BY <1>10 DEF Aligned
<1>12. k.kind \notin allowed
  <2>1. k.start <= p /\ p < k.end
    BY <1>6, <1>9
  <2>2. k \notin rep
    BY <1>11, <2>1 DEF Covered
  <2> QED
    BY <2>2
<1>13. \A x \in k.start .. k.end - 1 : ~Covered(x, rep)
  <2> SUFFICES ASSUME NEW x \in k.start .. k.end - 1, NEW d \in rep, d.start <= x, x < d.end PROVE FALSE
    BY DEF Covered
  <2>1. d \in Merge(found) /\ d.kind \in allowed /\ d # k
    BY <1>12
  <2>2. d.start \in Nat /\ d.end \in Nat
    <3>1. d \in found
      BY <1>2, <2>1
    <3> HIDE DEF found
    <3> QED
      BY <1>1, <3>1 DEF Spanned
  <2>3. d.end <= k.start \/ k.end <= d.start
    BY <1>2, <2>1 DEF Apart
  <2> QED
    BY <1>6, <2>2, <2>3, SMTT(40)
<1>14. PICK d \in Finds(out, R) : d.kind = k.kind /\ d.start <= h /\ h < d.end
  <2>1. pos[h] \in k.start .. k.end - 1
    BY <1>9, <1>10
  <2>2. k \in Finds(text, R)
    BY <1>6
  <2>3. h \in 1 .. Len(out)
    BY <1>10
  <2> HIDE DEF found
  <2> QED
    BY <1>13, <2>1, <2>2, <2>3, MatchBack
<1>15. d \in Finds(out, DOMAIN Recognizers)
  BY FindsGrow
<1>16. Overlap(c, d)
  <2>1. d.start \in Nat /\ d.end \in Nat
    <3>1. d.start \in 1 .. Len(out) /\ d.end \in d.start + 1 .. Len(out) + 1
      BY MatchIs
    <3> QED
      BY <3>1
  <2> QED
    BY <1>6, <1>10, <1>14, <2>1, SMTT(40) DEF Overlap
<1> QED
  BY <1>12, <1>14, <1>15, <1>16

\* The leftmost detection that is left is replaced.
LEMMA ReplaceAligned ==
    ASSUME NEW X, NEW out \in Seq(X), NEW text \in Seq(X), NEW rep, Spanned(rep, Len(text)), Apart(rep),
           NEW upto \in Nat, NEW pos, Aligned(pos, out, text, rep, upto), Paused(pos, out, rep, upto),
           NEW d \in rep, d.start > upto, \A c \in rep : c.start > upto => d.start <= c.start,
           NEW t \in Tokens
    PROVE  /\ LET new == out \o SubSeq(text, upto + 1, d.start - 1) \o <<t>>
              IN \E q : Aligned(q, new, text, rep, d.end - 1) /\ Paused(q, new, rep, d.end - 1)
           /\ {c \in rep : c.start > d.end - 1} = {c \in rep : c.start > upto} \ {d}
<1> DEFINE s == d.start  z == d.end - 1
<1>1. /\ s \in Nat /\ z \in Nat /\ s > upto /\ s <= z /\ z <= Len(text) /\ Len(text) \in Nat /\ s >= 1
      /\ d.end = z + 1 /\ s - 1 \in upto .. Len(text)
  BY DEF Spanned
<1>2. \A c \in rep : c.start \in Nat /\ c.end \in Nat /\ c.start < c.end
  BY DEF Spanned
<1>3. \A c \in rep : c.start > upto \/ c.end <= upto + 1
  BY DEF Paused
<1>4. \A c \in rep : c = d \/ c.end <= s \/ z + 1 <= c.start
  BY <1>1 DEF Apart
<1>5. d.start = s /\ \A c \in rep : c.start > upto => s <= c.start
  OBVIOUS
<1> HIDE DEF s, z
<1>6. \A p \in upto + 1 .. s - 1 : ~Covered(p, rep)
  <2> SUFFICES ASSUME NEW p \in upto + 1 .. s - 1, NEW c \in rep, c.start <= p, p < c.end PROVE FALSE
    BY DEF Covered
  <2> QED
    BY <1>1, <1>2, <1>3, <1>5
<1>7. \A p \in s .. z : Covered(p, rep)
  BY <1>1, <1>5 DEF Covered
<1>8. \A c \in rep : c.start > z \/ c.end <= z + 1
  BY <1>1, <1>2, <1>4
<1> DEFINE gap == SubSeq(text, upto + 1, s - 1)
<1>9. PICK q : Aligned(q, out \o gap, text, rep, s - 1)
  BY <1>1, <1>6, AlignGap
<1>10. out \o gap \in Seq(X)
  <2>1. gap \in Seq(X)
    <3>1. upto + 1 \in Int /\ s - 1 \in Int /\ \A j \in upto + 1 .. s - 1 : text[j] \in X
      BY <1>1
    <3> QED
      BY <3>1, SubSeqProperties
  <2> HIDE DEF gap
  <2> QED
    BY <2>1
<1>11. \E r : Aligned(r, out \o gap \o <<t>>, text, rep, z) /\ Paused(r, out \o gap \o <<t>>, rep, z)
  <2> DEFINE before == out \o gap
  <2>1. before \in Seq(X) /\ Aligned(q, before, text, rep, s - 1)
    BY <1>9, <1>10
  <2>2. s - 1 \in Nat /\ z > s - 1 /\ (s - 1) + 1 = s
    BY <1>1
  <2>3. \A p \in (s - 1) + 1 .. z : Covered(p, rep)
    BY <1>7, <2>2
  <2> HIDE DEF before
  <2>4. \E r : Aligned(r, before \o <<t>>, text, rep, z) /\ Paused(r, before \o <<t>>, rep, z)
    BY <1>1, <1>8, <2>1, <2>2, <2>3, AlignToken
  <2> QED
    BY <2>4 DEF before
<1>12. {c \in rep : c.start > z} = {c \in rep : c.start > upto} \ {d}
  <2>1. ASSUME NEW c \in rep PROVE c.start > z <=> c.start > upto /\ c # d
    <3>1. c.start > z => c.start > upto
      BY <1>1, <1>2
    <3>2. c.start > z => c # d
      BY <1>1, <1>2, <1>5
    <3>3. c.start > upto /\ c # d => c.start > z
      BY <1>1, <1>2, <1>4, <1>5
    <3> QED
      BY <3>1, <3>2, <3>3
  <2> QED
    BY <2>1
<1> QED
  BY <1>11, <1>12 DEF s, z, gap

\* When no detection is left, the rest is copied.
LEMMA FinishAligned ==
    ASSUME NEW X, NEW out \in Seq(X), NEW text \in Seq(X), NEW rep, Spanned(rep, Len(text)),
           NEW upto \in 0 .. Len(text), NEW pos, Aligned(pos, out, text, rep, upto), Paused(pos, out, rep, upto),
           {c \in rep : c.start > upto} = {}
    PROVE  LET rest == SubSeq(text, upto + 1, Len(text))
           IN \E q : Aligned(q, out \o rest, text, rep, Len(text))
<1> DEFINE z == Len(text)
<1>1. z \in Nat /\ z \in upto .. Len(text) /\ upto \in Nat
  OBVIOUS
<1>2. \A p \in upto + 1 .. z : ~Covered(p, rep)
  <2> SUFFICES ASSUME NEW p \in upto + 1 .. z, NEW c \in rep, c.start <= p, p < c.end PROVE FALSE
    BY DEF Covered
  <2>1. c.start \in Nat /\ c.end \in Nat /\ ~(c.start > upto)
    BY DEF Spanned
  <2>2. c.end <= upto + 1
    BY <2>1 DEF Paused
  <2> QED
    BY <1>1, <2>1, <2>2
<1> HIDE DEF z
<1>3. \E q : Aligned(q, out \o SubSeq(text, upto + 1, z), text, rep, z)
  BY <1>1, <1>2, AlignGap
<1> QED
  BY <1>3 DEF z

\* Nothing is done yet.
LEMMA StartAligned ==
    ASSUME NEW text, NEW rep, NEW n, Spanned(rep, n)
    PROVE  /\ Aligned(<<>>, <<>>, text, rep, 0) /\ Paused(<<>>, <<>>, rep, 0)
           /\ {c \in rep : c.start > 0} = rep
<1> DEFINE e == <<>>
<1>1. Len(e) = 0 /\ 1 .. Len(e) = {} /\ 1 .. Len(e) - 1 = {} /\ e \in [1 .. Len(e) -> 0 .. 0]
  OBVIOUS
<1>2. \A d \in rep : d.start \in Nat /\ d.start > 0
  BY DEF Spanned
<1> HIDE DEF e
<1>3. Aligned(e, e, text, rep, 0)
  BY <1>1 DEF Aligned
<1>4. Paused(e, e, rep, 0)
  BY <1>1, <1>2 DEF Paused, e
<1> QED
  BY <1>2, <1>3, <1>4 DEF e
-----------------------------------------------------------------------------
(* Restoring: symbol after symbol *)

\* Appending twice.
LEMMA ConcatMore ==
    ASSUME NEW Y, NEW u \in Seq(Y), NEW v \in Seq(Y), NEW w \in Seq(Y)
    PROVE  u \o (v \o w) = (u \o v) \o w
  OBVIOUS

\* g restores a text symbol after symbol.
RestoredThrough(g, text, entries) ==
    g[0] = <<>> /\ \A i \in 1 .. Len(text) : g[i] = g[i - 1] \o ValueOf(entries, text[i])

\* The function of Restored.
RestoringBy(g, text, entries) ==
    g = [i \in 0 .. Len(text) |-> IF i = 0 THEN <<>> ELSE g[i - 1] \o ValueOf(entries, text[i])]

\* Whatever goes through a text symbol by symbol arrives at what Restored gives.
LEMMA RestoredIs ==
    ASSUME NEW Y, NEW text, Len(text) \in Nat, NEW entries, \A i \in 1 .. Len(text) : ValueOf(entries, text[i]) \in Seq(Y)
    PROVE  /\ \E g \in [0 .. Len(text) -> Seq(Y)] :
                 RestoredThrough(g, text, entries) /\ Restored(text, entries) = g[Len(text)]
           /\ \A g : RestoredThrough(g, text, entries) => Restored(text, entries) = g[Len(text)]
<1> DEFINE n == Len(text)  none == <<>>  S == Seq(Y)
           G == [i \in 1 .. n |-> [before \in S |-> before \o ValueOf(entries, text[i])]]
<1>1. n \in Nat /\ none \in S
  OBVIOUS
<1>2. G \in [1 .. n -> [S -> S]]
  <2> DEFINE v(i) == ValueOf(entries, text[i])
  <2>1. \A i \in 1 .. n : v(i) \in Seq(Y)
    OBVIOUS
  <2> HIDE DEF v, n
  <2>2. \A i \in 1 .. n : \A before \in S : before \o v(i) \in S
    BY <2>1
  <2>3. \A i \in 1 .. n : [before \in S |-> before \o v(i)] \in [S -> S]
    BY <2>2
  <2>4. [i \in 1 .. n |-> [before \in S |-> before \o v(i)]] \in [1 .. n -> [S -> S]]
    BY <2>3
  <2> QED
    BY <2>4 DEF v
<1>3. \A i \in 1 .. n : \A before \in S : G[i][before] = before \o ValueOf(entries, text[i])
  OBVIOUS
<1> HIDE DEF G, none, S
<1>4. PICK f : Follows(f, S, none, n, G)
  BY <1>1, <1>2, RecursionExists
<1>5. f \in [0 .. n -> S] /\ f[0] = none /\ \A i \in 1 .. n : f[i] = G[i][f[i - 1]]
  BY <1>4 DEF Follows
<1>6. \A i \in 1 .. n : f[i] = f[i - 1] \o ValueOf(entries, text[i])
  <2>0. \A i \in 1 .. n : i - 1 \in 0 .. n
    BY <1>1
  <2>1. \A i \in 1 .. n : f[i - 1] \in S
    <3> HIDE DEF n
    <3> QED
      BY <1>5, <2>0
  <2> QED
    BY <1>3, <1>5, <2>1
<1>7. RestoringBy(f, text, entries)
  <2> DEFINE h == [i \in 0 .. n |-> IF i = 0 THEN <<>> ELSE f[i - 1] \o ValueOf(entries, text[i])]
  <2>1. \A i \in 0 .. n : h[i] = IF i = 0 THEN <<>> ELSE f[i - 1] \o ValueOf(entries, text[i])
    OBVIOUS
  <2>2. \A i \in 0 .. n : i = 0 \/ i \in 1 .. n
    BY <1>1
  <2>3. \A i \in 0 .. n : f[i] = h[i]
    BY <1>5, <1>6, <2>1, <2>2 DEF none
  <2>4. f = h
    BY <1>5, <2>3
  <2> QED
    BY <2>4 DEF RestoringBy
<1> DEFINE out == CHOOSE g : RestoringBy(g, text, entries)
<1>8. RestoringBy(out, text, entries)
  BY <1>7
<1>9. Restored(text, entries) = out[n]
  BY DEF Restored, RestoringBy
<1> HIDE DEF out
<1>10. \A i \in 0 .. n : out[i] = IF i = 0 THEN <<>> ELSE out[i - 1] \o ValueOf(entries, text[i])
  BY <1>8 DEF RestoringBy
<1>11. ASSUME NEW g, RestoredThrough(g, text, entries) PROVE Restored(text, entries) = g[n]
  <2> DEFINE T == {i \in 0 .. n : out[i] = g[i]}
  <2>1. 0 \in T
    BY <1>1, <1>10, <1>11 DEF RestoredThrough
  <2>2. ASSUME NEW i \in 1 .. n, i - 1 \in T PROVE i \in T
    <3>1. i # 0 /\ i \in 0 .. n /\ out[i - 1] = g[i - 1]
      BY <2>2
    <3>2. g[i] = g[i - 1] \o ValueOf(entries, text[i])
      BY <1>11 DEF RestoredThrough
    <3>3. out[i] = out[i - 1] \o ValueOf(entries, text[i])
      BY <1>10, <3>1
    <3> QED
      BY <3>1, <3>2, <3>3
  <2> HIDE DEF T
  <2>3. \A i \in 0 .. n : i \in T
    BY <1>1, <2>1, <2>2, UpTo
  <2>4. n \in 0 .. n
    BY <1>1
  <2> QED
    BY <1>9, <2>3, <2>4 DEF T
<1>12. RestoredThrough(f, text, entries)
  BY <1>5, <1>6 DEF RestoredThrough, none
<1>13. Restored(text, entries) = f[n]
  BY <1>11, <1>12
<1> QED
  BY <1>5, <1>11, <1>12, <1>13 DEF S

\* Nothing is restored to nothing.
LEMMA RestoredNone ==
    ASSUME NEW entries PROVE Restored(<<>>, entries) = <<>>
<1> DEFINE none == <<>>  g == [i \in 0 .. 0 |-> none]
<1>1. Len(none) = 0 /\ none \in Seq({}) /\ 1 .. Len(none) = {} /\ Len(none) \in Nat
  OBVIOUS
<1>2. g[0] = none
  OBVIOUS
<1> HIDE DEF none, g
<1>3. RestoredThrough(g, none, entries)
  BY <1>1, <1>2 DEF RestoredThrough, none
<1>4. Restored(none, entries) = g[Len(none)]
  BY <1>1, <1>3, RestoredIs
<1> QED
  BY <1>1, <1>2, <1>4 DEF none

\* Symbols that stand for themselves are given back as they are.
LEMMA RestoredCopy ==
    ASSUME NEW Y, NEW text \in Seq(Y), NEW more \in Seq(Y), NEW entries,
           \A i \in 1 .. Len(text) : ValueOf(entries, text[i]) \in Seq(Y),
           \A i \in 1 .. Len(more) : ValueOf(entries, more[i]) = <<more[i]>>
    PROVE  Restored(text \o more, entries) = Restored(text, entries) \o more
<1> DEFINE n == Len(text)  m == Len(more)  all == text \o more
<1>1. n \in Nat /\ m \in Nat
  OBVIOUS
<1>2. Len(all) = n + m /\ all \in Seq(Y) /\ \A i \in 1 .. n : all[i] = text[i]
  BY ConcatProperties
<1>3. ASSUME NEW i \in n + 1 .. n + m PROVE all[i] = more[i - n] /\ i - n \in 1 .. m
  BY <1>1, ConcatProperties
<1>4. PICK f \in [0 .. n -> Seq(Y)] : RestoredThrough(f, text, entries) /\ Restored(text, entries) = f[n]
  BY <1>1, RestoredIs
<1> DEFINE part(j) == SubSeq(more, 1, j)
           g == [i \in 0 .. n + m |-> IF i <= n THEN f[i] ELSE f[n] \o part(i - n)]
<1>5. \A i \in 0 .. n : g[i] = f[i]
  BY <1>1
<1>6. \A i \in n + 1 .. n + m : g[i] = f[n] \o part(i - n)
  BY SMTT(30), <1>1
<1>7. part(0) = <<>> /\ \A j \in 0 .. m : part(j) \in Seq(Y)
  BY <1>1
<1>8. ASSUME NEW j \in 1 .. m PROVE part(j) = part(j - 1) \o <<more[j]>>
  <2>1. 1 \in 1 .. m /\ j \in 1 .. Len(more)
    BY <1>1
  <2> QED
    BY <2>1, SubSeqRecursiveSecond
<1>9. part(m) = more
  BY SubSeqFull
<1> HIDE DEF n, m, all, part, g
<1>10. f[n] \in Seq(Y) /\ 0 \in 0 .. n /\ n \in 0 .. n
  BY <1>1, <1>4
<1>11. f[n] \o part(0) = f[n]
  <2> DEFINE u == f[n]
  <2>1. u \in Seq(Y)
    BY <1>10
  <2> HIDE DEF u
  <2>2. u \o <<>> = u
    BY <2>1
  <2> QED
    BY <1>7, <2>2 DEF u
<1>12. \A i \in n .. n + m : g[i] = f[n] \o part(i - n)
  <2>1. \A i \in n .. n + m : i = n \/ i \in n + 1 .. n + m
    BY <1>1
  <2>2. n - n = 0
    BY <1>1
  <2> QED
    BY <1>5, <1>6, <1>10, <1>11, <2>1, <2>2
<1>13. ASSUME NEW i \in 1 .. n + m PROVE g[i] = g[i - 1] \o ValueOf(entries, all[i])
  <2>1. CASE i <= n
    <3>1. i \in 1 .. n /\ i \in 0 .. n /\ i - 1 \in 0 .. n
      BY <1>1, <2>1
    <3>2. f[i] = f[i - 1] \o ValueOf(entries, text[i])
      BY <1>4, <3>1 DEF RestoredThrough, n
    <3> QED
      BY <1>2, <1>5, <3>1, <3>2
  <2>2. CASE i > n
    <3>1. i \in n + 1 .. n + m /\ i \in n .. n + m /\ i - 1 \in n .. n + m /\ (i - 1) - n = (i - n) - 1
          /\ i - n \in 1 .. m /\ (i - n) - 1 \in 0 .. m
      BY <1>1, <2>2
    <3> DEFINE j == i - n  u == f[n]  v == part(j - 1)  w == <<more[j]>>
    <3>2. g[i] = u \o part(j) /\ g[i - 1] = u \o v
      BY <1>12, <3>1
    <3>3. part(j) = v \o w
      BY <1>8, <3>1
    <3>4. ValueOf(entries, all[i]) = w
      <4>1. all[i] = more[j]
        BY <1>3, <3>1
      <4>2. ValueOf(entries, more[j]) = <<more[j]>>
        BY <3>1 DEF m
      <4> QED
        BY <4>1, <4>2
    <3>5. u \in Seq(Y) /\ v \in Seq(Y) /\ w \in Seq(Y)
      <4>1. more[j] \in Y
        BY <3>1 DEF m
      <4> QED
        BY <1>7, <1>10, <3>1, <4>1
    <3> HIDE DEF u, v, w, j
    <3>6. u \o (v \o w) = (u \o v) \o w
      BY SMTT(30), <3>5, ConcatMore
    <3> QED
      BY <3>2, <3>3, <3>4, <3>6
  <2>3. i <= n \/ i > n
    BY <1>1
  <2> QED
    BY <2>1, <2>2, <2>3
<1>14. RestoredThrough(g, all, entries)
  <2>1. g[0] = <<>>
    BY <1>4, <1>5, <1>10 DEF RestoredThrough
  <2> QED
    BY <1>2, <1>13, <2>1 DEF RestoredThrough
<1>15. \A i \in 1 .. Len(all) : ValueOf(entries, all[i]) \in Seq(Y)
  <2> SUFFICES ASSUME NEW i \in 1 .. n + m PROVE ValueOf(entries, all[i]) \in Seq(Y)
    BY <1>2
  <2>1. CASE i \in 1 .. n
    BY <1>2, <2>1 DEF n
  <2>2. CASE i \notin 1 .. n
    <3>1. i \in n + 1 .. n + m
      BY <1>1, <2>2
    <3>2. all[i] = more[i - n] /\ i - n \in 1 .. m
      BY <1>3, <3>1
    <3>3. ValueOf(entries, all[i]) = <<more[i - n]>> /\ more[i - n] \in Y
      BY <3>2 DEF m
    <3> QED
      BY <3>3
  <2> QED
    BY <2>1, <2>2
<1>16. Restored(all, entries) = g[n + m]
  <2>1. Len(all) \in Nat
    BY <1>1, <1>2
  <2> QED
    BY <1>2, <1>14, <1>15, <2>1, RestoredIs, SMTT(40)
<1>17. g[n + m] = f[n] \o more
  <2>1. n + m \in n .. n + m /\ (n + m) - n = m
    BY <1>1
  <2> QED
    BY <1>9, <1>12, <2>1
<1> QED
  BY <1>4, <1>16, <1>17 DEF all, n

\* A text without placeholders that are known is restored to itself.
LEMMA RestoredSame ==
    ASSUME NEW Y, NEW text \in Seq(Y), NEW entries,
           \A i \in 1 .. Len(text) : ValueOf(entries, text[i]) = <<text[i]>>
    PROVE  Restored(text, entries) = text
<1> DEFINE none == <<>>
<1>1. none \in Seq(Y) /\ 1 .. Len(none) = {} /\ none \o text = text
  OBVIOUS
<1> HIDE DEF none
<1>2. Restored(none \o text, entries) = Restored(none, entries) \o text
  BY <1>1, RestoredCopy
<1> QED
  BY <1>1, <1>2, RestoredNone DEF none

\* A placeholder is replaced by its value.
LEMMA RestoredToken ==
    ASSUME NEW Y, NEW text \in Seq(Y), NEW t \in Y, NEW entries,
           \A i \in 1 .. Len(text) : ValueOf(entries, text[i]) \in Seq(Y), ValueOf(entries, t) \in Seq(Y)
    PROVE  Restored(text \o <<t>>, entries) = Restored(text, entries) \o ValueOf(entries, t)
<1> DEFINE n == Len(text)  all == text \o <<t>>  v == ValueOf(entries, t)
<1>1. n \in Nat /\ Len(all) = n + 1 /\ all[n + 1] = t /\ \A i \in 1 .. n : all[i] = text[i]
  OBVIOUS
<1>2. PICK f \in [0 .. n -> Seq(Y)] : RestoredThrough(f, text, entries) /\ Restored(text, entries) = f[n]
  BY <1>1, RestoredIs
<1> DEFINE g == [i \in 0 .. n + 1 |-> IF i <= n THEN f[i] ELSE f[n] \o v]
<1>3. \A i \in 0 .. n : g[i] = f[i]
  BY <1>1
<1>4. g[n + 1] = f[n] \o v
  BY <1>1
<1>5. \A i \in 1 .. n + 1 : i = n + 1 \/ i \in 1 .. n
  BY <1>1
<1> HIDE DEF g, all
<1>6. ASSUME NEW i \in 1 .. n + 1 PROVE g[i] = g[i - 1] \o ValueOf(entries, all[i])
  <2>1. CASE i \in 1 .. n
    <3>1. i \in 0 .. n /\ i - 1 \in 0 .. n
      BY <1>1, <2>1
    <3>2. f[i] = f[i - 1] \o ValueOf(entries, text[i])
      BY <1>2, <2>1 DEF RestoredThrough
    <3> QED
      BY <1>1, <1>3, <2>1, <3>1, <3>2
  <2>2. CASE i = n + 1
    <3>1. i - 1 = n /\ n \in 0 .. n
      BY <1>1, <2>2
    <3> QED
      BY <1>1, <1>3, <1>4, <2>2, <3>1
  <2> QED
    BY <1>5, <2>1, <2>2
<1>7. RestoredThrough(g, all, entries)
  <2>1. g[0] = <<>>
    <3>1. 0 \in 0 .. n
      BY <1>1
    <3> QED
      BY <1>2, <1>3, <3>1 DEF RestoredThrough
  <2> QED
    BY <1>1, <1>6, <2>1 DEF RestoredThrough
<1>8. \A i \in 1 .. Len(all) : ValueOf(entries, all[i]) \in Seq(Y)
  <2> SUFFICES ASSUME NEW i \in 1 .. n + 1 PROVE ValueOf(entries, all[i]) \in Seq(Y)
    BY <1>1
  <2>1. CASE i \in 1 .. n
    BY <1>1, <2>1
  <2>2. CASE i = n + 1
    BY <1>1, <2>2
  <2> QED
    BY <1>5, <2>1, <2>2
<1>9. Restored(all, entries) = g[n + 1]
  <2>1. Len(all) \in Nat
    BY <1>1
  <2>2. Restored(all, entries) = g[Len(all)]
    BY <1>7, <1>8, <2>1, RestoredIs
  <2> QED
    BY <1>1, <2>2
<1> QED
  BY <1>2, <1>4, <1>9 DEF all

\* What two maps say the same of is restored alike.
LEMMA RestoredAlike ==
    ASSUME NEW Y, NEW text \in Seq(Y), NEW a, NEW b,
           \A i \in 1 .. Len(text) : ValueOf(a, text[i]) \in Seq(Y) /\ ValueOf(b, text[i]) = ValueOf(a, text[i])
    PROVE  Restored(text, b) = Restored(text, a)
<1>1. Len(text) \in Nat
  OBVIOUS
<1>2. PICK f \in [0 .. Len(text) -> Seq(Y)] : RestoredThrough(f, text, a) /\ Restored(text, a) = f[Len(text)]
  BY <1>1, RestoredIs
<1>3. RestoredThrough(f, text, b)
  BY <1>2 DEF RestoredThrough
<1>4. \A i \in 1 .. Len(text) : ValueOf(b, text[i]) \in Seq(Y)
  OBVIOUS
<1>5. Restored(text, b) = f[Len(text)]
  BY <1>1, <1>3, <1>4, RestoredIs
<1> QED
  BY <1>2, <1>5
-----------------------------------------------------------------------------
WordsOf(r) == UNION {Range(f[1]) : f \in Recognizers[r]}
Symbols == Tokens \cup (UNION {Range(f.text) : f \in Fields}) \cup (UNION {WordsOf(r) : r \in DOMAIN Recognizers})
Working == phase \in {"masking", "replacing", "sent"}
Replacing(i) == phase = "replacing" /\ i = Len(fields)
Done(i) == IF Replacing(i) THEN cursor ELSE Len(fields[i].text)
Needed(f) == DOMAIN Recognizers \ (IF NerEnabled(f) /\ policy.failMode = "closed" THEN {} ELSE {Ner})

\* The types, and how far a body is.
TypesKept ==
    /\ policy \in Policies
    /\ vaulted \subseteq Known /\ known \subseteq Known
    /\ fields \in Seq(Fields) /\ Len(fields) <= MaxFields
    /\ masked \in Seq(Seq(Symbols))
    /\ Len(masked) \in {Len(fields), Len(fields) - 1}
    /\ cursor \in Nat
    /\ phase \in {"idle", "masking", "replacing", "sent", "rejected", "answered"}
    /\ requests \in 0 .. MaxRequests
    /\ Working => Len(masked) = Len(fields)
    /\ phase = "replacing" => fields # <<>> /\ cursor <= Len(Last(fields).text)
    /\ phase # "replacing" \/ ~Visited(Last(fields)) => todo = {}

\* No placeholder stands for two values.
OneToOne(entries) == \A a, b \in entries : a.token = b.token => a = b
\* The map and the vault; without a vault, placeholders are numbered from 1 per kind.
EntriesKept ==
    /\ OneToOne(known)
    /\ policy.store => OneToOne(vaulted) /\ known \subseteq vaulted
    /\ ~policy.store =>
          /\ IsFiniteSet(known)
          /\ \A e \in known : e.token[1] = e.kind /\ e.token[2] <= Cardinality({x \in known : x.kind = e.kind})

\* A text of the body, as far as it is masked: what the recognizers R found in it
\* is replaced, all else is copied, and what is left to be replaced lies ahead.
MaskedPart(i, R) ==
    \E pos \in [1 .. Len(masked[i]) -> 0 .. Done(i)] :
        /\ Aligned(pos, masked[i], fields[i].text, Scan(fields[i].text, R), Done(i))
        /\ Replacing(i) =>
              /\ Paused(pos, masked[i], Scan(fields[i].text, R), cursor)
              /\ todo = {d \in Scan(fields[i].text, R) : d.start > cursor}

\* Every text that is masked was scanned by all the recognizers it needed.
MaskedSoFar ==
    Working => \A i \in DOMAIN fields : Visited(fields[i]) =>
        \E R \in SUBSET DOMAIN Recognizers : Needed(fields[i]) \subseteq R /\ MaskedPart(i, R)

\* What is masked would be restored to what the client wrote.
EchoSoFar ==
    Working /\ ~Typed => \A i \in DOMAIN fields :
        /\ Restored(masked[i], known) = SubSeq(fields[i].text, 1, Done(i))
        /\ \A j \in DOMAIN masked[i] : masked[i][j] \in Tokens => \E e \in known : e.token = masked[i][j]

\* The inductive invariant.
MaskInv == TypesKept /\ EntriesKept /\ MaskedSoFar /\ EchoSoFar /\ EchoRestored

\* A text is a sequence of symbols.
LEMMA TextTyped ==
    ASSUME NEW f \in Fields PROVE f.text \in Seq(Symbols)
<1>1. f.text \in Seq(Range(f.text))
  BY FieldAssumption
<1>2. Range(f.text) \subseteq Symbols
  BY DEF Symbols
<1> DEFINE s == f.text  X == Range(f.text)
<1> HIDE DEF s, X
<1>3. s \in Seq(X) /\ X \subseteq Symbols
  BY <1>1, <1>2 DEF s, X
<1>4. s \in Seq(Symbols)
  <2>1. Len(s) \in Nat /\ s \in [1 .. Len(s) -> X]
    BY <1>3
  <2>2. s \in [1 .. Len(s) -> Symbols]
    BY <1>3, <2>1
  <2> QED
    BY <2>1, <2>2
<1> QED
  BY <1>4 DEF s

\* What an entry knows: a value, and a placeholder that stands for it.
LEMMA ValueTyped ==
    ASSUME NEW e \in Known PROVE e.value \in Seq(Symbols) /\ e.token \in Tokens /\ e.token \in Symbols
<1>1. e.token \in Tokens /\ e.value \in UNION {{f[1] : f \in Recognizers[r]} : r \in DOMAIN Recognizers}
  BY DEF Known
<1>2. PICK r \in DOMAIN Recognizers : e.value \in {f[1] : f \in Recognizers[r]}
  BY <1>1
<1>3. PICK f \in Recognizers[r] : e.value = f[1]
  BY <1>2
<1> DEFINE s == e.value  X == Range(f[1])
<1>4. s \in Seq(X)
  BY <1>3, RecognizerAssumption
<1>5. X \subseteq Symbols
  <2>1. X \subseteq WordsOf(r)
    BY DEF WordsOf
  <2>2. WordsOf(r) \subseteq Symbols
    BY DEF Symbols
  <2> QED
    BY <2>1, <2>2
<1> HIDE DEF s, X
<1>6. s \in Seq(Symbols)
  <2>1. Len(s) \in Nat /\ s \in [1 .. Len(s) -> X]
    BY <1>4
  <2>2. s \in [1 .. Len(s) -> Symbols]
    BY <1>5, <2>1
  <2> QED
    BY <2>1, <2>2
<1>7. Tokens \subseteq Symbols
  BY DEF Symbols
<1> QED
  BY <1>1, <1>6, <1>7 DEF s

\* A symbol is restored to symbols.
LEMMA ValueOfTyped ==
    ASSUME NEW entries, entries \subseteq Known, NEW s \in Symbols PROVE ValueOf(entries, s) \in Seq(Symbols)
<1>1. CASE \E e \in entries : e.token = s
  <2> DEFINE e == CHOOSE e \in entries : e.token = s
  <2>1. e \in entries
    BY <1>1
  <2>2. ValueOf(entries, s) = e.value
    BY <1>1 DEF ValueOf
  <2> HIDE DEF e
  <2> QED
    BY <2>1, <2>2, ValueTyped
<1>2. CASE ~\E e \in entries : e.token = s
  <2>1. ValueOf(entries, s) = <<s>>
    BY <1>2 DEF ValueOf
  <2> QED
    BY <2>1
<1> QED
  BY <1>1, <1>2

\* A known placeholder is restored to its value.
LEMMA ValueOfToken ==
    ASSUME NEW entries, OneToOne(entries), NEW e \in entries PROVE ValueOf(entries, e.token) = e.value
<1> DEFINE c == CHOOSE c \in entries : c.token = e.token
<1>1. c \in entries /\ c.token = e.token
  OBVIOUS
<1>2. ValueOf(entries, e.token) = c.value
  BY DEF ValueOf
<1> HIDE DEF c
<1>3. c = e
  BY <1>1 DEF OneToOne
<1> QED
  BY <1>2, <1>3

\* Any other symbol is restored to itself.
LEMMA ValueOfOther ==
    ASSUME NEW entries, entries \subseteq Known, NEW s, s \notin Tokens PROVE ValueOf(entries, s) = <<s>>
<1>1. \A e \in entries : e.token # s
  BY ValueTyped
<1> QED
  BY <1>1 DEF ValueOf

\* A word is not a placeholder.
LEMMA WordIsNoToken ==
    ASSUME NEW s, s[1] = "word" PROVE s \notin Tokens
<1>1. \A t \in Tokens : t[1] \in KindNames
  BY DEF Tokens
<1> QED
  BY <1>1, RecognizerAssumption

\* When nothing was typed that looks like a placeholder.
LEMMA UntypedText ==
    ASSUME ~Typed, NEW i \in DOMAIN fields, NEW entries, entries \subseteq Known
    PROVE  \A j \in DOMAIN fields[i].text :
              fields[i].text[j] \notin Tokens /\ ValueOf(entries, fields[i].text[j]) = <<fields[i].text[j]>>
<1>1. \A j \in DOMAIN fields[i].text : fields[i].text[j][1] = "word"
  BY DEF Typed
<1> QED
  BY <1>1, WordIsNoToken, ValueOfOther

\* What is scanned of a text lies apart within it.
LEMMA ScanIs ==
    ASSUME NEW f \in Fields, NEW R \in SUBSET DOMAIN Recognizers
    PROVE  /\ Scan(f.text, R) \subseteq Finds(f.text, R)
           /\ Spanned(Scan(f.text, R), Len(f.text)) /\ Apart(Scan(f.text, R))
<1> DEFINE found == Finds(f.text, R)
<1>1. f.text \in Seq(Symbols)
  BY TextTyped
<1>2. Spanned(found, Len(f.text)) /\ Len(f.text) \in Nat
  BY <1>1, FindsSpanned
<1>3. Merge(found) \subseteq found /\ Apart(Merge(found))
  BY <1>2, MergeKeeps
<1>4. Scan(f.text, R) \subseteq Merge(found)
  BY DEF Scan
<1> HIDE DEF found
<1>5. Spanned(Scan(f.text, R), Len(f.text))
  BY <1>2, <1>3, <1>4 DEF Spanned
<1>6. Apart(Scan(f.text, R))
  BY <1>3, <1>4 DEF Apart
<1> QED
  BY <1>3, <1>4, <1>5, <1>6 DEF found

\* The engine starts in the invariant.
LEMMA MaskInitially ==
    ASSUME MaskInit PROVE MaskInv
<1> DEFINE none == <<>>
<1>1. Len(none) = 0 /\ none \in Seq(Fields) /\ none \in Seq(Seq(Symbols)) /\ DOMAIN none = {}
  OBVIOUS
<1> HIDE DEF none
<1>2. fields = none /\ masked = none
  BY DEF MaskInit, none
<1>3. TypesKept
  BY <1>1, <1>2, MaskingAssumption DEF MaskInit, TypesKept, Working
<1>4. EntriesKept
  <2>1. IsFiniteSet({})
    BY FS_EmptySet
  <2> QED
    BY <2>1 DEF MaskInit, EntriesKept, OneToOne
<1>5. phase = "idle"
  BY DEF MaskInit
<1> QED
  BY <1>3, <1>4, <1>5 DEF MaskInv, MaskedSoFar, EchoSoFar, EchoRestored, Working

\* A new request, with a map of its own, keeps the invariant.
LEMMA BeginKept ==
    ASSUME MaskInv, BeginRequest PROVE MaskInv'
<1> DEFINE none == <<>>
<1>1. Len(none) = 0 /\ none \in Seq(Fields) /\ none \in Seq(Seq(Symbols)) /\ DOMAIN none = {}
  OBVIOUS
<1>2. fields' = none /\ masked' = none /\ known' = {} /\ phase' = "masking" /\ todo' = todo
  BY DEF BeginRequest, field
<1>3. todo = {}
  BY DEF BeginRequest, MaskInv, TypesKept
<1> HIDE DEF none
<1>4. TypesKept'
  BY <1>1, <1>2, <1>3, MaskingAssumption DEF BeginRequest, MaskInv, TypesKept, Working, field
<1>5. EntriesKept'
  <2>1. IsFiniteSet({})
    BY FS_EmptySet
  <2> QED
    BY <1>2, <2>1 DEF BeginRequest, MaskInv, EntriesKept, OneToOne
<1> QED
  BY <1>1, <1>2, <1>4, <1>5 DEF MaskInv, MaskedSoFar, EchoSoFar, EchoRestored

\* Steps after which the texts, what is left of the field at hand and the map are as
\* before.
LEMMA PartsKept ==
    ASSUME MaskedSoFar, EchoSoFar, Working, Working',
           fields' = fields, masked' = masked, todo' = todo, cursor' = cursor, known' = known, policy' = policy,
           (phase = "replacing") = (phase' = "replacing")
    PROVE  MaskedSoFar' /\ EchoSoFar'
<1>1. Len(fields') = Len(fields)
  OBVIOUS
<1>2. \A i : Replacing(i)' = Replacing(i) /\ Done(i)' = Done(i)
  BY DEF Replacing, Done
<1>3. ASSUME NEW i, NEW R PROVE MaskedPart(i, R)' = MaskedPart(i, R)
  BY <1>2 DEF MaskedPart, Scan, Replacing
<1>4. \A f : Needed(f)' = Needed(f)
  BY DEF Needed, NerEnabled
<1>5. MaskedSoFar'
  BY <1>3, <1>4 DEF MaskedSoFar
<1>6. EchoSoFar'
  BY <1>2 DEF EchoSoFar, Typed
<1> QED
  BY <1>5, <1>6

\* Sending the body keeps the invariant.
LEMMA SendKept ==
    ASSUME MaskInv, SendBody PROVE MaskInv'
<1>1. /\ fields' = fields /\ masked' = masked /\ todo' = todo /\ cursor' = cursor /\ known' = known
      /\ policy' = policy /\ phase = "masking" /\ phase' = "sent" /\ vaulted' = vaulted /\ requests' = requests
  BY DEF SendBody, field
<1>2. TypesKept'
  BY <1>1 DEF MaskInv, TypesKept, Working
<1>3. EntriesKept'
  BY <1>1 DEF MaskInv, EntriesKept
<1>4. MaskedSoFar' /\ EchoSoFar'
  <2>1. MaskedSoFar /\ EchoSoFar /\ Working /\ Working'
    BY <1>1 DEF MaskInv, Working
  <2> QED
    BY <1>1, <2>1, PartsKept
<1>5. EchoRestored'
  BY <1>1 DEF EchoRestored
<1> QED
  BY <1>2, <1>3, <1>4, <1>5 DEF MaskInv

\* An entity stored for another request keeps the invariant.
LEMMA ElsewhereKept ==
    ASSUME MaskInv, AssignElsewhere PROVE MaskInv'
<1>1. /\ fields' = fields /\ masked' = masked /\ todo' = todo /\ cursor' = cursor /\ known' = known
      /\ policy' = policy /\ phase' = phase /\ requests' = requests /\ answer' = answer /\ restored' = restored
      /\ policy.store /\ vaulted = {}
  BY DEF AssignElsewhere, field
<1>20. PICK r \in DOMAIN Recognizers : \E f \in Recognizers[r] :
         \E e \in Assignments(f[2], f[1]) : vaulted' = vaulted \cup {e}
  BY DEF AssignElsewhere
<1>2. PICK f \in Recognizers[r] : \E e \in Assignments(f[2], f[1]) : vaulted' = vaulted \cup {e}
  BY <1>20
<1>3. PICK e \in Assignments(f[2], f[1]) : vaulted' = {e}
  BY <1>1, <1>2
<1>4. e \in Known
  <2>1. OfValue(vaulted, f[2], f[1]) = {}
    BY <1>1 DEF OfValue
  <2>2. PICK t \in Tokens : e = [kind |-> f[2], value |-> f[1], token |-> t]
    BY <2>1 DEF Assignments
  <2>3. f[2] \in KindNames
    BY <1>2, RecognizerAssumption
  <2>4. f[1] \in UNION {{g[1] : g \in Recognizers[q]} : q \in DOMAIN Recognizers}
    BY <1>2
  <2> QED
    BY <2>2, <2>3, <2>4 DEF Known
<1>5. TypesKept'
  BY <1>1, <1>3, <1>4 DEF MaskInv, TypesKept, Working, Visited
<1>6. EntriesKept'
  <2>1. known = {}
    BY <1>1 DEF MaskInv, EntriesKept
  <2> QED
    BY <1>1, <1>3, <2>1 DEF MaskInv, EntriesKept, OneToOne
<1>7. MaskedSoFar' /\ EchoSoFar'
  <2>1. CASE Working
    <3>1. MaskedSoFar /\ EchoSoFar /\ Working'
      BY <1>1, <2>1 DEF MaskInv, Working
    <3> QED
      BY <1>1, <2>1, <3>1, PartsKept
  <2>2. CASE ~Working
    BY <1>1, <2>2 DEF MaskedSoFar, EchoSoFar, Working
  <2> QED
    BY <2>1, <2>2
<1>8. EchoRestored'
  BY <1>1 DEF MaskInv, EchoRestored, Typed
<1> QED
  BY <1>5, <1>6, <1>7, <1>8 DEF MaskInv

\* A failing store keeps the invariant.
LEMMA StoreFailsKept ==
    ASSUME MaskInv, NEW d, StoreFails(d) PROVE MaskInv'
<1>1. /\ fields' = fields /\ masked' = masked /\ todo' = {} /\ cursor' = cursor /\ known' = known
      /\ policy' = policy /\ phase' = "rejected" /\ vaulted' = vaulted /\ requests' = requests
  BY DEF StoreFails
<1>2. TypesKept'
  BY <1>1 DEF MaskInv, TypesKept, Working
<1>3. EntriesKept'
  BY <1>1 DEF MaskInv, EntriesKept
<1> QED
  BY <1>1, <1>2, <1>3 DEF MaskInv, MaskedSoFar, EchoSoFar, EchoRestored, Working
-----------------------------------------------------------------------------
\* The next text of the body keeps the invariant.
LEMMA ScanKept ==
    ASSUME MaskInv, NEW f \in Fields, NEW nerFails \in BOOLEAN, ScanField(f, nerFails) PROVE MaskInv'
<1> DEFINE none == <<>>
<1>0. PICK n \in Nat, R \in SUBSET DOMAIN Recognizers, refused \in BOOLEAN :
         /\ n = Len(fields)
         /\ R = DOMAIN Recognizers \ (IF NerEnabled(f) /\ ~nerFails THEN {} ELSE {Ner})
         /\ refused = (Visited(f) /\ NerEnabled(f) /\ nerFails /\ Closed)
  <2>1. Len(fields) \in Nat
    BY DEF MaskInv, TypesKept
  <2> QED
    BY <2>1
<1>1. /\ phase = "masking" /\ n < MaxFields
      /\ fields' = Append(fields, f)
      /\ phase' = IF refused THEN "rejected" ELSE "replacing"
      /\ todo' = IF Visited(f) /\ ~refused THEN Scan(f.text, R) ELSE {}
      /\ masked' = IF refused THEN masked ELSE Append(masked, none)
      /\ cursor' = 0
      /\ policy' = policy /\ vaulted' = vaulted /\ known' = known /\ requests' = requests
  BY <1>0 DEF ScanField
<1>2. /\ TypesKept /\ EntriesKept /\ MaskedSoFar /\ EchoSoFar /\ fields \in Seq(Fields) /\ masked \in Seq(Seq(Symbols))
      /\ Len(masked) = n /\ Working /\ DOMAIN fields = 1 .. n
  BY <1>0, <1>1 DEF MaskInv, TypesKept, Working
<1>3. /\ fields' \in Seq(Fields) /\ Len(fields') = n + 1 /\ fields'[n + 1] = f /\ Last(fields') = f
      /\ \A i \in 1 .. n : fields'[i] = fields[i]
      /\ DOMAIN fields' = 1 .. n + 1 /\ DOMAIN fields = 1 .. n /\ MaxFields \in Nat
  BY <1>0, <1>1, <1>2, MaskingAssumption DEF Last
<1>4. none \in Seq(Symbols) /\ Len(none) = 0 /\ DOMAIN none = {} /\ 1 .. 0 = {}
  OBVIOUS
<1>5. f.text \in Seq(Symbols) /\ Len(f.text) \in Nat
  BY TextTyped
<1> HIDE DEF none
<1>6. ~refused => /\ masked' \in Seq(Seq(Symbols)) /\ Len(masked') = n + 1 /\ masked'[n + 1] = none
                  /\ \A i \in 1 .. n : masked'[i] = masked[i]
  BY <1>1, <1>2, <1>4
<1>7. TypesKept'
  <2>1. refused => masked' \in Seq(Seq(Symbols)) /\ Len(masked') = Len(fields') - 1
    BY <1>1, <1>2, <1>3
  <2>2. Len(masked') \in {Len(fields'), Len(fields') - 1} /\ masked' \in Seq(Seq(Symbols))
    BY <1>1, <1>2, <1>3, <1>6, <2>1
  <2>3. n + 1 <= MaxFields
    BY <1>1, <1>2, <1>3
  <2>4. Working' => Len(masked') = Len(fields')
    BY <1>1, <1>2, <1>3, <1>6 DEF Working
  <2>5. fields' # <<>>
    BY <1>1, <1>2
  <2>6. phase' # "replacing" \/ ~Visited(f) => todo' = {}
    BY <1>1
  <2>7. Visited(Last(fields')) = Visited(f)
    BY <1>3
  <2>8. policy' \in Policies /\ vaulted' \subseteq Known /\ known' \subseteq Known /\ requests' \in 0 .. MaxRequests
    BY <1>1, <1>2 DEF TypesKept
  <2>9. phase' \in {"idle", "masking", "replacing", "sent", "rejected", "answered"} /\ cursor' = 0
    BY <1>1
  <2>10. phase' # "replacing" \/ ~Visited(Last(fields')) => todo' = {}
    BY <2>6, <2>7
  <2>11. cursor' \in Nat /\ cursor' <= Len(Last(fields').text)
    BY <1>3, <1>5, <2>9
  <2> QED
    BY <1>3, <2>2, <2>3, <2>4, <2>5, <2>8, <2>9, <2>10, <2>11 DEF TypesKept, Visited
<1>8. EntriesKept'
  BY <1>1, <1>2 DEF EntriesKept
<1>9. CASE refused
  BY <1>1, <1>7, <1>8, <1>9 DEF MaskInv, MaskedSoFar, EchoSoFar, EchoRestored, Working
<1>10. CASE ~refused
  <2>1. phase' = "replacing" /\ phase = "masking" /\ \A i \in 1 .. n + 1 : i \in 1 .. n \/ i = n + 1
    BY <1>1, <1>2, <1>10
  <2>2. \A i \in 1 .. n : ~Replacing(i)' /\ ~Replacing(i) /\ Done(i)' = Done(i) /\ Done(i) = Len(fields[i].text)
    BY <1>2, <1>3, <2>1 DEF Replacing, Done
  <2>3. Replacing(n + 1)' /\ Done(n + 1)' = 0
    BY <1>1, <1>3, <2>1 DEF Replacing, Done
  <2>4. MaskedSoFar'
    <3> SUFFICES ASSUME NEW i \in 1 .. n + 1, Visited(fields'[i])
                 PROVE  \E Q \in SUBSET DOMAIN Recognizers : Needed(fields[i])' \subseteq Q /\ MaskedPart(i, Q)'
      BY <1>3 DEF MaskedSoFar, Visited
    <3>1. CASE i \in 1 .. n
      <4>1. fields'[i] = fields[i] /\ masked'[i] = masked[i] /\ Visited(fields[i])
        BY <1>3, <1>6, <1>10, <3>1
      <4>2. PICK Q \in SUBSET DOMAIN Recognizers : Needed(fields[i]) \subseteq Q /\ MaskedPart(i, Q)
        BY <1>2, <1>3, <3>1, <4>1 DEF MaskedSoFar
      <4>3. PICK pos \in [1 .. Len(masked[i]) -> 0 .. Done(i)] :
               Aligned(pos, masked[i], fields[i].text, Scan(fields[i].text, Q), Done(i))
        BY <4>2 DEF MaskedPart
      <4>4. Scan(fields[i].text, Q)' = Scan(fields[i].text, Q)
        BY <1>1, <4>1 DEF Scan
      <4>5. MaskedPart(i, Q)'
        BY <2>2, <3>1, <4>1, <4>3, <4>4 DEF MaskedPart
      <4>6. Needed(fields[i])' = Needed(fields[i])
        BY <1>1, <4>1 DEF Needed, NerEnabled
      <4> QED
        BY <4>2, <4>5, <4>6
    <3>2. CASE i = n + 1
      <4>1. fields'[i] = f /\ masked'[i] = none /\ Done(i)' = 0 /\ Replacing(i)'
        BY <1>3, <1>6, <1>10, <2>3, <3>2
      <4>2. Scan(fields[i].text, R)' = Scan(f.text, R)
        BY <1>1, <4>1 DEF Scan
      <4>3. todo' = Scan(f.text, R) /\ cursor' = 0
        BY <1>1, <1>10, <3>2, <4>1
      <4>4. Spanned(Scan(f.text, R), Len(f.text))
        BY <1>5, ScanIs
      <4>5. /\ Aligned(none, none, f.text, Scan(f.text, R), 0) /\ Paused(none, none, Scan(f.text, R), 0)
            /\ {c \in Scan(f.text, R) : c.start > 0} = Scan(f.text, R)
        BY <4>4, StartAligned DEF none
      <4>6. none \in [1 .. Len(none) -> 0 .. 0]
        BY <4>5 DEF Aligned
      <4>7. MaskedPart(i, R)'
        BY <4>1, <4>2, <4>3, <4>5, <4>6 DEF MaskedPart
      <4>8. Needed(fields[i])' \subseteq R
        <5>1. Needed(fields[i])' = Needed(f)
          BY <1>1, <4>1 DEF Needed, NerEnabled
        <5>2. Visited(f)
          BY <3>2, <4>1
        <5> QED
          BY <1>0, <1>10, <5>1, <5>2 DEF Needed, Closed
      <4> QED
        BY <1>5, <4>7, <4>8
    <3> QED
      BY <2>1, <3>1, <3>2
  <2>5. EchoSoFar'
    <3> SUFFICES ASSUME ~Typed', NEW i \in 1 .. n + 1
                 PROVE  /\ Restored(masked'[i], known) = SubSeq(fields'[i].text, 1, Done(i)')
                        /\ \A j \in DOMAIN masked'[i] : masked'[i][j] \in Tokens => \E e \in known : e.token = masked'[i][j]
      BY <1>1, <1>3 DEF EchoSoFar
    <3>1. ~Typed
      <4>1. \A k \in 1 .. n : k \in 1 .. n + 1
        BY <1>2
      <4> QED
        BY <1>3, <4>1 DEF Typed
    <3>2. CASE i \in 1 .. n
      BY ZenonT(60), <1>2, <1>3, <1>6, <1>10, <2>2, <3>1, <3>2 DEF EchoSoFar
    <3>3. CASE i = n + 1
      <4>1. masked'[i] = none /\ fields'[i] = f /\ Done(i)' = 0
        BY <1>3, <1>6, <1>10, <2>3, <3>3
      <4>2. SubSeq(f.text, 1, 0) = none
        BY <1>5 DEF none
      <4> QED
        BY <1>4, <4>1, <4>2, RestoredNone DEF none
    <3> QED
      BY <2>1, <3>2, <3>3
  <2>6. EchoRestored'
    BY <2>1 DEF EchoRestored
  <2> QED
    BY <1>7, <1>8, <2>4, <2>5, <2>6 DEF MaskInv
<1> QED
  BY <1>9, <1>10

\* The rest of the text at hand, once nothing of it is left to be replaced.
LEMMA FinishKept ==
    ASSUME MaskInv, FinishField PROVE MaskInv'
<1> DEFINE n == Len(fields)  text == Last(fields).text  out == masked[n]
           rest == SubSeq(text, cursor + 1, Len(text))  new == out \o rest
<1>1. /\ phase = "replacing" /\ todo = {} /\ phase' = "masking" /\ policy' = policy /\ vaulted' = vaulted
      /\ masked' = [masked EXCEPT ![Len(masked)] = @ \o rest]
      /\ fields' = fields /\ todo' = todo /\ cursor' = cursor /\ known' = known /\ requests' = requests
  BY DEF FinishField, field
<1>2. /\ TypesKept /\ EntriesKept /\ MaskedSoFar /\ EchoSoFar /\ fields \in Seq(Fields) /\ masked \in Seq(Seq(Symbols))
      /\ Len(masked) = n /\ n \in Nat /\ Working /\ fields # <<>> /\ cursor \in Nat /\ cursor <= Len(text)
      /\ known \subseteq Known
  BY <1>1 DEF MaskInv, TypesKept, Working
<1>3. n \in 1 .. n /\ n # 0 /\ DOMAIN fields = 1 .. n /\ DOMAIN masked = 1 .. n /\ Last(fields) = fields[n]
      /\ fields[n] \in Fields
  BY <1>2 DEF Last
<1>4. out \in Seq(Symbols) /\ text \in Seq(Symbols) /\ Len(text) \in Nat
  BY <1>2, <1>3, TextTyped
<1>5. rest \in Seq(Symbols)
  <2>1. cursor + 1 \in Int /\ Len(text) \in Int /\ \A j \in cursor + 1 .. Len(text) : text[j] \in Symbols
    BY <1>2, <1>4
  <2> HIDE DEF text
  <2> QED
    BY <2>1, SubSeqProperties
<1>6. new \in Seq(Symbols)
  <2> HIDE DEF out, rest
  <2> QED
    BY <1>4, <1>5
<1>7. masked' \in Seq(Seq(Symbols)) /\ Len(masked') = n /\ masked'[n] = new
      /\ \A i \in 1 .. n : i # n => masked'[i] = masked[i]
  <2> HIDE DEF rest, n
  <2>1. masked' = [masked EXCEPT ![n] = new]
    BY <1>1, <1>2
  <2> HIDE DEF new
  <2>2. DOMAIN masked' = 1 .. n /\ masked'[n] = new /\ \A i \in 1 .. n : i # n => masked'[i] = masked[i]
    BY <1>3, <2>1
  <2>3. masked' \in [1 .. n -> Seq(Symbols)]
    BY <1>2, <1>3, <1>6, <2>1
  <2>4. masked' \in Seq(Seq(Symbols))
    BY <1>2, <2>3
  <2>5. Len(masked') = n
    BY <1>2, <2>2, <2>4
  <2> QED
    BY <2>2, <2>4, <2>5
<1> HIDE DEF new
<1>8. TypesKept'
  BY <1>1, <1>2, <1>7 DEF TypesKept, Working
<1>9. EntriesKept'
  BY <1>1, <1>2 DEF EntriesKept
<1>10. /\ \A i \in 1 .. n : ~Replacing(i)' /\ Done(i)' = Len(fields[i].text)
       /\ \A i \in 1 .. n : i # n => ~Replacing(i) /\ Done(i) = Len(fields[i].text)
       /\ Replacing(n) /\ Done(n) = cursor
  BY <1>1, <1>3 DEF Replacing, Done
<1>11. MaskedSoFar'
  <2> SUFFICES ASSUME NEW i \in 1 .. n, Visited(fields[i])
               PROVE  \E R \in SUBSET DOMAIN Recognizers : Needed(fields[i])' \subseteq R /\ MaskedPart(i, R)'
    BY <1>1, <1>3 DEF MaskedSoFar, Visited
  <2>1. PICK R \in SUBSET DOMAIN Recognizers : Needed(fields[i]) \subseteq R /\ MaskedPart(i, R)
    BY <1>2, <1>3 DEF MaskedSoFar
  <2>2. PICK pos \in [1 .. Len(masked[i]) -> 0 .. Done(i)] :
           /\ Aligned(pos, masked[i], fields[i].text, Scan(fields[i].text, R), Done(i))
           /\ Replacing(i) =>
              /\ Paused(pos, masked[i], Scan(fields[i].text, R), cursor)
              /\ todo = {d \in Scan(fields[i].text, R) : d.start > cursor}
    BY <2>1 DEF MaskedPart
  <2>3. Scan(fields[i].text, R)' = Scan(fields[i].text, R)
    BY <1>1 DEF Scan
  <2>4. \E q : Aligned(q, masked'[i], fields[i].text, Scan(fields[i].text, R), Len(fields[i].text))
    <3>1. CASE i # n
      BY <1>7, <1>10, <2>2, <3>1
    <3>2. CASE i = n
      <4> DEFINE rep == Scan(text, R)
      <4>1. /\ Aligned(pos, out, text, rep, cursor) /\ Paused(pos, out, rep, cursor)
            /\ {c \in rep : c.start > cursor} = {}
        BY <1>1, <1>3, <1>10, <2>2, <3>2
      <4>2. Spanned(rep, Len(text))
        BY <1>3, ScanIs
      <4>3. cursor \in 0 .. Len(text)
        BY <1>2, <1>4
      <4>4. masked'[i] = out \o SubSeq(text, cursor + 1, Len(text)) /\ fields[i].text = text
        BY <1>3, <1>7, <3>2 DEF new
      <4> HIDE DEF rep, out, text
      <4>5. \E q : Aligned(q, out \o SubSeq(text, cursor + 1, Len(text)), text, rep, Len(text))
        BY <1>4, <4>1, <4>2, <4>3, FinishAligned
      <4> QED
        BY <4>4, <4>5 DEF rep
    <3> QED
      BY <3>1, <3>2
  <2>5. PICK q : Aligned(q, masked'[i], fields[i].text, Scan(fields[i].text, R), Len(fields[i].text))
    BY <2>4
  <2>6. q \in [1 .. Len(masked'[i]) -> 0 .. Len(fields[i].text)]
    BY <2>5 DEF Aligned
  <2>7. MaskedPart(i, R)'
    BY <1>1, <1>10, <2>3, <2>5, <2>6 DEF MaskedPart
  <2>8. Needed(fields[i])' = Needed(fields[i])
    BY <1>1 DEF Needed, NerEnabled
  <2> QED
    BY <2>1, <2>7, <2>8
<1>12. EchoSoFar'
  <2> SUFFICES ASSUME ~Typed', NEW i \in 1 .. n
               PROVE  /\ Restored(masked'[i], known) = SubSeq(fields[i].text, 1, Len(fields[i].text))
                      /\ \A j \in DOMAIN masked'[i] : masked'[i][j] \in Tokens => \E e \in known : e.token = masked'[i][j]
    BY <1>1, <1>3, <1>10, ZenonT(60) DEF EchoSoFar
  <2>1. ~Typed
    BY <1>1 DEF Typed
  <2>2. /\ Restored(masked[i], known) = SubSeq(fields[i].text, 1, Done(i))
        /\ \A j \in DOMAIN masked[i] : masked[i][j] \in Tokens => \E e \in known : e.token = masked[i][j]
    BY <1>2, <1>3, <2>1 DEF EchoSoFar
  <2>3. CASE i # n
    BY <1>7, <1>10, <2>2, <2>3
  <2>4. CASE i = n
    <3>1. \A j \in DOMAIN text : text[j] \notin Tokens /\ ValueOf(known, text[j]) = <<text[j]>>
      BY <1>2, <1>3, <2>1, UntypedText
    <3>2. Restored(out, known) = SubSeq(text, 1, cursor)
      BY <1>3, <1>10, <2>2, <2>4
    <3>3. \A j \in DOMAIN out : out[j] \in Tokens => \E e \in known : e.token = out[j]
      BY <2>2, <2>4
    <3>4. masked'[i] = out \o rest /\ fields[i].text = text
      BY <1>3, <1>7, <2>4 DEF new
    <3>5. Len(rest) = Len(text) - cursor /\ \A j \in 1 .. Len(text) - cursor : rest[j] = text[cursor + j] /\ cursor + j \in 1 .. Len(text)
      <4> DEFINE c == Len(text) - cursor
      <4>0. DOMAIN text = 1 .. Len(text) /\ cursor \in Nat /\ cursor <= Len(text) /\ Len(text) \in Nat /\ text \in Seq(Symbols)
        BY <1>2, <1>4
      <4>01. rest = SubSeq(text, cursor + 1, Len(text))
        OBVIOUS
      <4> HIDE DEF text, rest
      <4>1. cursor + 1 \in Nat /\ cursor + 1 >= 1 /\ c \in Nat /\ Len(text) \in Int /\ Len(text) = (cursor + 1) + c - 1
            /\ Len(text) <= Len(text)
        BY <4>0
      <4>2. \A j \in 1 .. c : (cursor + 1) + (j - 1) = cursor + j /\ cursor + j \in 1 .. Len(text)
        BY <4>0
      <4> HIDE DEF c
      <4>3. Len(rest) = c /\ \A j \in 1 .. c : rest[j] = text[(cursor + 1) + (j - 1)]
        BY <4>0, <4>01, <4>1, PartIs
      <4>4. \A j \in 1 .. c : rest[j] = text[cursor + j]
        BY <4>2, <4>3
      <4> QED
        BY <4>2, <4>3, <4>4 DEF c
    <3>6. SubSeq(text, 1, cursor) \o rest = SubSeq(text, 1, Len(text))
      <4>1. 1 \in 1 .. Len(text) + 1 /\ cursor \in 1 - 1 .. Len(text) /\ Len(text) \in cursor .. Len(text)
        BY <1>2, <1>4
      <4> HIDE DEF text
      <4> QED
        BY <1>4, <4>1, ConcatAdjacentSubSeq
    <3> HIDE DEF out, text, rest
    <3>7. \A j \in 1 .. Len(rest) : rest[j] \notin Tokens /\ ValueOf(known, rest[j]) = <<rest[j]>>
      BY <1>4, <3>1, <3>5
    <3>8. \A j \in 1 .. Len(out) : ValueOf(known, out[j]) \in Seq(Symbols)
      BY <1>2, <1>4, ValueOfTyped
    <3>9. Restored(out \o rest, known) = SubSeq(text, 1, Len(text))
      <4>1. Restored(out \o rest, known) = Restored(out, known) \o rest
        BY <1>4, <1>5, <3>7, <3>8, RestoredCopy
      <4> QED
        BY <3>2, <3>6, <4>1
    <3>10. ASSUME NEW j \in DOMAIN (out \o rest), (out \o rest)[j] \in Tokens
           PROVE  \E e \in known : e.token = (out \o rest)[j]
      <4>1. Len(out) \in Nat /\ Len(rest) \in Nat /\ DOMAIN out = 1 .. Len(out) /\ Len(out \o rest) = Len(out) + Len(rest)
            /\ j \in 1 .. Len(out) + Len(rest)
        BY <1>4, <1>5
      <4>2. CASE j <= Len(out)
        <5>1. j \in 1 .. Len(out)
          BY <4>1, <4>2
        <5>2. (out \o rest)[j] = out[j]
          BY <1>4, <1>5, <5>1, ConcatProperties
        <5> QED
          BY <3>3, <3>10, <4>1, <5>1, <5>2
      <4>3. CASE j > Len(out)
        <5>1. j - Len(out) \in 1 .. Len(rest)
          BY <4>1, <4>3
        <5>2. (out \o rest)[j] = rest[j - Len(out)]
          BY <1>4, <1>5, <4>1, <4>3, ConcatProperties
        <5> QED
          BY <3>7, <3>10, <5>1, <5>2
      <4> QED
        BY <4>1, <4>2, <4>3
    <3> QED
      BY <3>4, <3>9, <3>10
  <2> QED
    BY <2>3, <2>4
<1>13. EchoRestored'
  BY <1>1 DEF EchoRestored
<1> QED
  BY <1>8, <1>9, <1>11, <1>12, <1>13 DEF MaskInv
-----------------------------------------------------------------------------
\* An entity is given an entry of its own, which no other has taken.
LEMMA InsertKept ==
    ASSUME EntriesKept, known \subseteq Known, vaulted \subseteq Known, policy' = policy,
           NEW kind, NEW value, NEW e \in Known, GetOrInsert(kind, value, e)
    PROVE  /\ EntriesKept' /\ known' \subseteq Known /\ vaulted' \subseteq Known
           /\ known \subseteq known' /\ e \in known' /\ e.value = value
<1>1. CASE OfValue(known, kind, value) # {}
  <2>1. e \in OfValue(known, kind, value) /\ vaulted' = vaulted /\ known' = known
    BY <1>1 DEF GetOrInsert
  <2>2. EntriesKept'
    BY <2>1 DEF EntriesKept
  <2>3. e \in known /\ e.value = value
    BY <2>1 DEF OfValue
  <2> QED
    BY <2>1, <2>2, <2>3
<1>2. CASE OfValue(known, kind, value) = {}
  <2>1. /\ e \in IF policy.store THEN Assignments(kind, value)
                 ELSE {[kind |-> kind, value |-> value, token |-> <<kind, NextNumber(kind)>>]}
        /\ known' = known \cup {e}
        /\ vaulted' = IF policy.store THEN vaulted \cup {e} ELSE vaulted
    BY <1>2 DEF GetOrInsert
  <2>2. CASE policy.store
    <3>1. OneToOne(vaulted) /\ known \subseteq vaulted /\ vaulted' = vaulted \cup {e}
      BY <2>1, <2>2 DEF EntriesKept
    <3>2. e.value = value /\ OneToOne(vaulted')
      <4>1. CASE OfValue(vaulted, kind, value) # {}
        <5>1. e \in OfValue(vaulted, kind, value)
          BY <2>1, <2>2, <4>1 DEF Assignments
        <5>2. e \in vaulted /\ e.value = value
          BY <5>1 DEF OfValue
        <5>3. vaulted' = vaulted
          BY <3>1, <5>2
        <5> QED
          BY <3>1, <5>2, <5>3
      <4>2. CASE OfValue(vaulted, kind, value) = {}
        <5>1. PICK t \in Tokens : /\ \A x \in vaulted : x.token # t
                                  /\ e = [kind |-> kind, value |-> value, token |-> t]
          BY <2>1, <2>2, <4>2 DEF Assignments
        <5>2. e.token = t /\ e.value = value
          BY <5>1
        <5> QED
          BY <3>1, <5>1, <5>2 DEF OneToOne
      <4> QED
        BY <4>1, <4>2
    <3>3. known' \subseteq vaulted'
      BY <2>1, <3>1
    <3>4. OneToOne(known')
      BY <3>2, <3>3 DEF OneToOne
    <3>5. EntriesKept'
      BY <2>2, <3>2, <3>3, <3>4 DEF EntriesKept
    <3> QED
      BY <2>1, <3>1, <3>2, <3>5
  <2>3. CASE ~policy.store
    <3> DEFINE Of(k) == {x \in known : x.kind = k}
               New(k) == {x \in known' : x.kind = k}
    <3>1. /\ OneToOne(known) /\ IsFiniteSet(known)
          /\ \A x \in known : x.token[1] = x.kind /\ x.token[2] <= Cardinality(Of(x.kind))
      BY <2>3 DEF EntriesKept
    <3>2. e = [kind |-> kind, value |-> value, token |-> <<kind, NextNumber(kind)>>] /\ vaulted' = vaulted
      BY <2>1, <2>3
    <3>3. e.kind = kind /\ e.value = value /\ e.token[1] = kind /\ e.token[2] = 1 + Cardinality(Of(kind))
      BY <3>2 DEF NextNumber
    <3>4. \A k : IsFiniteSet(Of(k)) /\ Cardinality(Of(k)) \in Nat
      BY <3>1, FS_Subset, FS_CardinalityType
    <3>5. e \notin known
      BY <1>2, <3>3 DEF OfValue
    <3>6. New(kind) = Of(kind) \cup {e} /\ e \notin Of(kind)
      BY <2>1, <3>3, <3>5
    <3>7. \A k : k # kind => New(k) = Of(k)
      BY <2>1, <3>3
    <3> HIDE DEF Of, New
    <3>8. Cardinality(New(kind)) = Cardinality(Of(kind)) + 1
      BY <3>4, <3>6, FS_AddElement
    <3>9. \A x \in known : x.token \in KindNames \X (1 .. MaxNumber)
      BY DEF Known, Tokens
    <3>10. \A x \in known : x.token[2] \in Nat
      BY <3>9, MaskingAssumption
    <3>11. \A x \in known : x.token # e.token
      <4> SUFFICES ASSUME NEW x \in known, x.token = e.token PROVE FALSE
        OBVIOUS
      <4>1. x.kind = kind /\ x.token[2] = 1 + Cardinality(Of(kind))
        BY <3>1, <3>3
      <4>2. x.token[2] <= Cardinality(Of(kind))
        BY <3>1, <4>1
      <4> QED
        BY <3>4, <4>1, <4>2
    <3>12. OneToOne(known')
      BY <2>1, <3>1, <3>11 DEF OneToOne
    <3>13. \A x \in known' : x.token[1] = x.kind /\ x.token[2] <= Cardinality(New(x.kind))
      <4>1. ASSUME NEW x \in known PROVE x.token[1] = x.kind /\ x.token[2] <= Cardinality(New(x.kind))
        <5>1. x.token[1] = x.kind /\ x.token[2] <= Cardinality(Of(x.kind)) /\ x.token[2] \in Nat
          BY <3>1, <3>10
        <5>2. CASE x.kind = kind
          <6>1. Cardinality(Of(kind)) \in Nat
            BY <3>4
          <6>2. x.token[2] <= Cardinality(Of(kind)) + 1
            BY <5>1, <5>2, <6>1
          <6> QED
            BY <3>8, <5>1, <5>2, <6>2
        <5>3. CASE x.kind # kind
          BY <3>7, <5>1, <5>3
        <5> QED
          BY <5>2, <5>3
      <4>2. e.token[1] = e.kind /\ e.token[2] <= Cardinality(New(e.kind))
        BY <3>3, <3>4, <3>8
      <4> QED
        BY <2>1, <4>1, <4>2
    <3>14. IsFiniteSet(known')
      BY <2>1, <3>1, FS_AddElement
    <3>15. EntriesKept'
      BY <2>3, <3>12, <3>13, <3>14 DEF EntriesKept, New
    <3> QED
      BY <2>1, <3>2, <3>3, <3>15
  <2> QED
    BY <2>2, <2>3
<1> QED
  BY <1>1, <1>2

\* An entry more changes nothing of what is restored by the others.
LEMMA MoreEntries ==
    ASSUME NEW a, NEW b, a \subseteq b, b \subseteq Known, OneToOne(b), NEW out \in Seq(Symbols),
           \A j \in DOMAIN out : out[j] \in Tokens => \E e \in a : e.token = out[j]
    PROVE  Restored(out, b) = Restored(out, a)
<1>1. OneToOne(a) /\ a \subseteq Known
  BY DEF OneToOne
<1>2. ASSUME NEW j \in 1 .. Len(out) PROVE ValueOf(a, out[j]) \in Seq(Symbols) /\ ValueOf(b, out[j]) = ValueOf(a, out[j])
  <2>1. out[j] \in Symbols /\ j \in DOMAIN out
    OBVIOUS
  <2>2. ValueOf(a, out[j]) \in Seq(Symbols)
    BY <1>1, <2>1, ValueOfTyped
  <2>3. CASE out[j] \in Tokens
    <3>1. PICK e \in a : e.token = out[j]
      BY <2>1, <2>3
    <3>2. ValueOf(a, e.token) = e.value
      BY <1>1, ValueOfToken
    <3>3. ValueOf(b, e.token) = e.value
      BY ValueOfToken
    <3> QED
      BY <2>2, <3>1, <3>2, <3>3
  <2>4. CASE out[j] \notin Tokens
    BY <1>1, <2>2, <2>4, ValueOfOther
  <2> QED
    BY <2>3, <2>4
<1> QED
  BY <1>2, RestoredAlike

\* Replacing a span keeps the invariant.
LEMMA ReplaceKept ==
    ASSUME MaskInv, NEW d \in todo, NEW e \in Known, ReplaceNext(d, e) PROVE MaskInv'
<1>0. PICK n \in Nat, text \in Seq(Symbols), done \in Nat :
         n = Len(fields) /\ text = Last(fields).text /\ done = cursor
  <2>1. phase = "replacing" /\ fields # <<>> /\ fields \in Seq(Fields) /\ cursor \in Nat
    BY DEF MaskInv, TypesKept, ReplaceNext
  <2>2. Len(fields) \in Nat /\ Last(fields) \in Fields
    BY <2>1 DEF Last
  <2> QED
    BY <2>1, <2>2, TextTyped
<1> DEFINE gap == SubSeq(text, done + 1, d.start - 1)  out == masked[n]  new == out \o gap \o <<e.token>>
<1>1. /\ phase = "replacing" /\ Leftmost(d) /\ phase' = phase /\ policy' = policy
      /\ GetOrInsert(d.kind, ValueAt(d), e)
      /\ masked' = [masked EXCEPT ![Len(masked)] = @ \o gap \o <<e.token>>]
      /\ cursor' = d.end - 1 /\ todo' = todo \ {d} /\ fields' = fields /\ requests' = requests
  BY <1>0 DEF ReplaceNext
<1>2. /\ TypesKept /\ EntriesKept /\ MaskedSoFar /\ EchoSoFar /\ fields \in Seq(Fields) /\ masked \in Seq(Seq(Symbols))
      /\ Len(masked) = n /\ Working /\ fields # <<>> /\ cursor <= Len(text)
      /\ known \subseteq Known /\ vaulted \subseteq Known /\ Visited(Last(fields))
  BY <1>0, <1>1 DEF MaskInv, TypesKept, Working
<1>3. n \in 1 .. n /\ n # 0 /\ DOMAIN fields = 1 .. n /\ DOMAIN masked = 1 .. n /\ Last(fields) = fields[n]
      /\ fields[n] \in Fields /\ fields[n].text = text
  BY <1>0, <1>2 DEF Last
<1>4. out \in Seq(Symbols) /\ Len(text) \in Nat /\ e.token \in Tokens /\ e.token \in Symbols
  BY <1>2, <1>3, ValueTyped
<1>5. /\ EntriesKept' /\ known' \subseteq Known /\ vaulted' \subseteq Known
      /\ known \subseteq known' /\ e \in known' /\ e.value = SubSeq(text, d.start, d.end - 1)
  <2>1. /\ EntriesKept' /\ known' \subseteq Known /\ vaulted' \subseteq Known
        /\ known \subseteq known' /\ e \in known' /\ e.value = ValueAt(d)
    BY <1>1, <1>2, InsertKept
  <2> QED
    BY <1>0, <2>1 DEF ValueAt
<1>60. PICK R \in SUBSET DOMAIN Recognizers : Needed(fields[n]) \subseteq R /\ MaskedPart(n, R)
  BY <1>2, <1>3 DEF MaskedSoFar
<1>61. PICK rep : rep = Scan(text, R)
  OBVIOUS
<1>6. rep = Scan(text, R) /\ Needed(fields[n]) \subseteq R /\ MaskedPart(n, R)
  BY <1>60, <1>61
<1>7. /\ \A i \in 1 .. n : i # n => /\ ~Replacing(i)' /\ ~Replacing(i)
                                    /\ Done(i) = Len(fields[i].text) /\ Done(i)' = Len(fields[i].text)
      /\ \A i \in 1 .. n : i = n => Replacing(i) /\ Replacing(i)' /\ Done(i) = done /\ Done(i)' = d.end - 1
  BY <1>0, <1>1, <1>3 DEF Replacing, Done
<1>8. PICK pos : /\ Aligned(pos, out, text, rep, done) /\ Paused(pos, out, rep, done)
                 /\ todo = {c \in rep : c.start > done}
  BY <1>0, <1>3, <1>6, <1>7 DEF MaskedPart
<1>9. Spanned(rep, Len(text)) /\ Apart(rep)
  BY <1>3, <1>6, ScanIs
<1>10. d \in rep /\ d.start > done /\ \A c \in rep : c.start > done => d.start <= c.start
  BY <1>1, <1>8 DEF Leftmost
<1>11. /\ d.start \in Nat /\ d.end \in Nat /\ d.start >= 1 /\ d.start < d.end /\ d.end <= Len(text) + 1
  BY <1>4, <1>9, <1>10, SpanIs
<1>12. gap \in Seq(Symbols) /\ new \in Seq(Symbols)
  <2>1. done + 1 \in Int /\ d.start - 1 \in Int /\ \A j \in done + 1 .. d.start - 1 : text[j] \in Symbols
    BY <1>0, <1>11
  <2>2. gap \in Seq(Symbols)
    BY <1>0, <2>1, SubSeqProperties
  <2> HIDE DEF out
  <2>3. out \o gap \in Seq(Symbols)
    BY <1>4, <2>2
  <2> QED
    BY <1>4, <2>2, <2>3
<1> HIDE DEF gap
<1>13. masked' \in Seq(Seq(Symbols)) /\ Len(masked') = n /\ masked'[n] = new
       /\ \A i \in 1 .. n : i # n => masked'[i] = masked[i]
  <2>1. masked' = [masked EXCEPT ![n] = new]
    BY <1>1, <1>2
  <2> HIDE DEF new
  <2>2. DOMAIN masked' = 1 .. n /\ masked'[n] = new /\ \A i \in 1 .. n : i # n => masked'[i] = masked[i]
    BY <1>3, <2>1
  <2>3. masked' \in [1 .. n -> Seq(Symbols)]
    BY <1>2, <1>3, <1>12, <2>1
  <2>4. masked' \in Seq(Seq(Symbols))
    BY <1>2, <2>3
  <2>5. Len(masked') = n
    BY <1>2, <2>2, <2>4
  <2> QED
    BY <2>2, <2>4, <2>5
<1>14. TypesKept'
  <2>1. cursor' \in Nat /\ cursor' <= Len(Last(fields)'.text)
    BY <1>0, <1>1, <1>4, <1>11
  <2>2. Visited(Last(fields)')
    BY <1>1, <1>2
  <2>3. Len(masked') = Len(fields')
    BY <1>0, <1>1, <1>13
  <2>4. policy' \in Policies /\ requests' \in 0 .. MaxRequests /\ Len(fields') <= MaxFields
    BY <1>1, <1>2 DEF TypesKept
  <2> QED
    BY <1>1, <1>2, <1>5, <1>13, <2>1, <2>2, <2>3, <2>4 DEF TypesKept, Visited
<1>15. PICK q : /\ Aligned(q, new, text, rep, d.end - 1) /\ Paused(q, new, rep, d.end - 1)
                /\ {c \in rep : c.start > d.end - 1} = todo \ {d}
  <2>1. gap = SubSeq(text, done + 1, d.start - 1)
    BY DEF gap
  <2> HIDE DEF out
  <2>2. /\ LET seq == out \o SubSeq(text, done + 1, d.start - 1) \o <<e.token>>
           IN \E q : Aligned(q, seq, text, rep, d.end - 1) /\ Paused(q, seq, rep, d.end - 1)
        /\ {c \in rep : c.start > d.end - 1} = {c \in rep : c.start > done} \ {d}
    BY <1>4, <1>8, <1>9, <1>10, ReplaceAligned
  <2> QED
    BY <1>8, <2>1, <2>2
<1> HIDE DEF new, out
<1>16. MaskedSoFar'
  <2> SUFFICES ASSUME NEW i \in 1 .. n, Visited(fields[i])
               PROVE  \E Q \in SUBSET DOMAIN Recognizers : Needed(fields[i])' \subseteq Q /\ MaskedPart(i, Q)'
    BY <1>1, <1>3 DEF MaskedSoFar, Visited
  <2>1. \A Q : Scan(fields[i].text, Q)' = Scan(fields[i].text, Q)
    BY <1>1 DEF Scan
  <2>2. Needed(fields[i])' = Needed(fields[i])
    BY <1>1 DEF Needed, NerEnabled
  <2>3. CASE i # n
    <3>1. PICK Q \in SUBSET DOMAIN Recognizers : Needed(fields[i]) \subseteq Q /\ MaskedPart(i, Q)
      BY <1>2, <1>3 DEF MaskedSoFar
    <3>2. MaskedPart(i, Q)'
      BY <1>1, <1>7, <1>13, <2>1, <2>3, <3>1 DEF MaskedPart
    <3> QED
      BY <2>2, <3>1, <3>2
  <2>4. CASE i = n
    <3>1. /\ Scan(fields[i].text, R)' = rep /\ masked'[i] = new /\ fields'[i].text = text /\ Done(i)' = d.end - 1
          /\ cursor' = d.end - 1 /\ todo' = todo \ {d}
      BY <1>1, <1>3, <1>6, <1>7, <1>13, <2>1, <2>4
    <3>2. q \in [1 .. Len(new) -> 0 .. d.end - 1]
      BY <1>15 DEF Aligned
    <3>3. MaskedPart(i, R)'
      BY <1>15, <3>1, <3>2 DEF MaskedPart
    <3> QED
      BY <1>6, <2>2, <2>4, <3>3
  <2> QED
    BY <2>3, <2>4
<1>17. EchoSoFar'
  <2> SUFFICES ASSUME ~Typed', NEW i \in 1 .. n
               PROVE  /\ Restored(masked'[i], known') = SubSeq(fields[i].text, 1, Done(i)')
                      /\ \A j \in DOMAIN masked'[i] : masked'[i][j] \in Tokens => \E x \in known' : x.token = masked'[i][j]
    BY <1>1, <1>3 DEF EchoSoFar
  <2>1. ~Typed
    BY <1>1 DEF Typed
  <2>2. /\ Restored(masked[i], known) = SubSeq(fields[i].text, 1, Done(i))
        /\ \A j \in DOMAIN masked[i] : masked[i][j] \in Tokens => \E x \in known : x.token = masked[i][j]
    BY <1>2, <1>3, <2>1 DEF EchoSoFar
  <2>3. masked[i] \in Seq(Symbols) /\ OneToOne(known')
    BY <1>2, <1>3, <1>5 DEF EntriesKept
  <2>4. Restored(masked[i], known') = Restored(masked[i], known)
    BY <1>5, <2>2, <2>3, MoreEntries
  <2>5. \A j \in DOMAIN masked[i] : masked[i][j] \in Tokens => \E x \in known' : x.token = masked[i][j]
    BY <1>5, <2>2
  <2>6. CASE i # n
    BY <1>7, <1>13, <2>2, <2>4, <2>5, <2>6
  <2>7. CASE i = n
    <3> DEFINE s == d.start  z == d.end - 1  part(j) == SubSeq(text, 1, j)
    <3>1. s \in Nat /\ z \in Nat /\ done < s /\ s <= z /\ z <= Len(text) /\ s - 1 \in Nat /\ done \in Nat
      BY <1>10, <1>11
    <3>2. gap = SubSeq(text, done + 1, s - 1) /\ e.value = SubSeq(text, s, z)
      BY <1>5 DEF gap
    <3> HIDE DEF s, z
    <3>3. \A j \in 1 .. Len(text) : text[j] \notin Tokens /\ ValueOf(known', text[j]) = <<text[j]>>
      <4>1. DOMAIN text = 1 .. Len(text)
        OBVIOUS
      <4>2. \A j \in DOMAIN fields[n].text :
               fields[n].text[j] \notin Tokens /\ ValueOf(known', fields[n].text[j]) = <<fields[n].text[j]>>
        BY <1>3, <1>5, <2>1, UntypedText
      <4> QED
        BY <1>3, <4>1, <4>2
    <3>4. Len(gap) = s - 1 - done /\ \A j \in 1 .. s - 1 - done : gap[j] = text[done + j] /\ done + j \in 1 .. Len(text)
      <4> DEFINE c == s - 1 - done
      <4>1. done + 1 \in Nat /\ done + 1 >= 1 /\ c \in Nat /\ s - 1 \in Int /\ s - 1 = (done + 1) + c - 1 /\ s - 1 <= Len(text)
        BY <1>4, <3>1
      <4>2. \A j \in 1 .. c : (done + 1) + (j - 1) = done + j /\ done + j \in 1 .. Len(text)
        BY <1>4, <3>1
      <4> HIDE DEF c
      <4>3. Len(gap) = c /\ \A j \in 1 .. c : gap[j] = text[(done + 1) + (j - 1)]
        BY <3>2, <4>1, PartIs
      <4>4. \A j \in 1 .. c : gap[j] = text[done + j]
        BY <4>2, <4>3
      <4> QED
        BY <4>2, <4>3, <4>4 DEF c
    <3>5. \A j \in 1 .. Len(gap) : gap[j] \notin Tokens /\ ValueOf(known', gap[j]) = <<gap[j]>>
      BY <3>3, <3>4
    <3>6. \A j \in 1 .. Len(out) : ValueOf(known', out[j]) \in Seq(Symbols)
      BY <1>4, <1>5, ValueOfTyped
    <3>7. Restored(out, known') = part(done)
      BY <1>3, <1>7, <2>2, <2>4, <2>7 DEF out
    <3>8. part(done) \o gap = part(s - 1) /\ part(s - 1) \o e.value = part(z)
      <4>1. 1 \in 1 .. Len(text) + 1 /\ done \in 1 - 1 .. Len(text) /\ s - 1 \in done .. Len(text)
            /\ s - 1 \in 1 - 1 .. Len(text) /\ z \in s - 1 .. Len(text) /\ (s - 1) + 1 = s
        BY <1>4, <3>1
      <4>2. part(done) \o SubSeq(text, done + 1, s - 1) = part(s - 1)
        BY <4>1, ConcatAdjacentSubSeq
      <4>3. part(s - 1) \o SubSeq(text, (s - 1) + 1, z) = part(z)
        BY <4>1, ConcatAdjacentSubSeq
      <4> QED
        BY <3>2, <4>1, <4>2, <4>3
    <3>9. Restored(out \o gap, known') = part(s - 1)
      <4>1. Restored(out \o gap, known') = Restored(out, known') \o gap
        <5>1. PICK now : now = known'
          OBVIOUS
        <5>2. \A j \in 1 .. Len(gap) : ValueOf(now, gap[j]) = <<gap[j]>>
          BY <3>5, <5>1
        <5>3. \A j \in 1 .. Len(out) : ValueOf(now, out[j]) \in Seq(Symbols)
          BY <3>6, <5>1
        <5>4. out \in Seq(Symbols) /\ gap \in Seq(Symbols)
          BY <1>4, <1>12
        <5>5. Restored(out \o gap, now) = Restored(out, now) \o gap
          BY <5>2, <5>3, <5>4, RestoredCopy
        <5> QED
          BY <5>1, <5>5
      <4> QED
        BY <3>7, <3>8, <4>1
    <3> DEFINE before == out \o gap
    <3>10. before \in Seq(Symbols)
      BY <1>4, <1>12
    <3>11. new = before \o <<e.token>>
      BY DEF new
    <3>12. ASSUME NEW j \in DOMAIN before, before[j] \in Tokens PROVE \E x \in known' : x.token = before[j]
      <4>1. Len(out) \in Nat /\ Len(gap) \in Nat /\ DOMAIN out = 1 .. Len(out) /\ Len(before) = Len(out) + Len(gap)
            /\ j \in 1 .. Len(out) + Len(gap)
        BY <1>4, <1>12
      <4>2. CASE j <= Len(out)
        <5>1. j \in 1 .. Len(out)
          BY <4>1, <4>2
        <5>2. before[j] = out[j]
          BY <1>4, <1>12, <5>1, ConcatProperties
        <5> QED
          BY <2>5, <2>7, <3>12, <4>1, <5>1, <5>2 DEF out
      <4>3. CASE j > Len(out)
        <5>1. j - Len(out) \in 1 .. Len(gap)
          BY <4>1, <4>3
        <5>2. before[j] = gap[j - Len(out)]
          BY <1>4, <1>12, <4>1, <4>3, ConcatProperties
        <5> QED
          BY <3>5, <3>12, <5>1, <5>2
      <4> QED
        BY <4>1, <4>2, <4>3
    <3>13. ValueOf(known', e.token) = e.value /\ e.value \in Seq(Symbols)
      BY <1>5, <2>3, ValueOfToken, ValueTyped
    <3>14. masked'[i] = new /\ Done(i)' = z /\ fields[i].text = text
      BY <1>3, <1>7, <1>13, <2>7 DEF z
    <3> HIDE DEF before, part
    <3>15. \A j \in 1 .. Len(before) : ValueOf(known', before[j]) \in Seq(Symbols)
      <4>1. \A j \in 1 .. Len(before) : before[j] \in Symbols
        BY <3>10
      <4> QED
        BY <1>5, <4>1, ValueOfTyped
    <3>16. Restored(new, known') = part(z)
      <4>1. Restored(before \o <<e.token>>, known') = Restored(before, known') \o ValueOf(known', e.token)
        BY <1>4, <3>10, <3>13, <3>15, RestoredToken
      <4>2. Restored(before, known') = part(s - 1)
        BY <3>9 DEF before
      <4> QED
        BY <3>8, <3>11, <3>13, <4>1, <4>2
    <3>17. ASSUME NEW j \in DOMAIN new, new[j] \in Tokens PROVE \E x \in known' : x.token = new[j]
      <4>1. Len(before) \in Nat /\ j \in 1 .. Len(before) + 1 /\ new[Len(before) + 1] = e.token
            /\ DOMAIN before = 1 .. Len(before) /\ \A k \in 1 .. Len(before) : new[k] = before[k]
        BY <3>10, <3>11
      <4>2. j \in 1 .. Len(before) \/ j = Len(before) + 1
        BY <4>1
      <4> QED
        BY <1>5, <3>12, <3>17, <4>1, <4>2
    <3> QED
      BY <3>14, <3>16, <3>17 DEF part
  <2> QED
    BY <2>6, <2>7
<1>18. EchoRestored'
  BY <1>1 DEF EchoRestored
<1> QED
  BY <1>5, <1>14, <1>16, <1>17, <1>18 DEF MaskInv

\* An answer keeps the invariant.
LEMMA AnswerKept ==
    ASSUME MaskInv, NEW text, NEW readFails \in BOOLEAN, Answer(text, readFails) PROVE MaskInv'
<1>1. /\ phase = "sent" /\ phase' = "answered" /\ answer' = text
      /\ restored' = IF policy.store /\ ~readFails THEN InVault(InMap(text)) ELSE InMap(text)
      /\ policy' = policy /\ vaulted' = vaulted /\ fields' = fields /\ masked' = masked
      /\ todo' = todo /\ cursor' = cursor /\ known' = known /\ requests' = requests
  BY DEF Answer, field
<1>2. TypesKept'
  BY <1>1 DEF MaskInv, TypesKept, Working
<1>3. EntriesKept'
  BY <1>1 DEF MaskInv, EntriesKept
<1>4. MaskedSoFar' /\ EchoSoFar'
  BY <1>1 DEF MaskedSoFar, EchoSoFar, Working
<1>5. EchoRestored'
  <2> SUFFICES ASSUME ~Typed', NEW i \in DOMAIN fields, masked[i] = text
               PROVE  restored' = fields[i].text
    BY <1>1 DEF EchoRestored
  <2>1. ~Typed /\ vaulted \subseteq Known /\ fields[i] \in Fields
    BY <1>1 DEF Typed, MaskInv, TypesKept
  <2>2. Done(i) = Len(fields[i].text) /\ fields[i].text \in Seq(Symbols)
    BY <1>1, <2>1, TextTyped DEF Done, Replacing
  <2>3. InMap(text) = fields[i].text
    <3>1. Restored(masked[i], known) = SubSeq(fields[i].text, 1, Done(i))
      BY <1>1, <2>1 DEF MaskInv, EchoSoFar, Working
    <3> DEFINE s == fields[i].text
    <3> HIDE DEF s
    <3>2. SubSeq(s, 1, Len(s)) = s
      BY <2>2, SubSeqFull DEF s
    <3> QED
      BY <2>2, <3>1, <3>2 DEF InMap, s
  <2>4. InVault(fields[i].text) = fields[i].text
    <3>1. \A j \in DOMAIN fields[i].text : ValueOf(vaulted, fields[i].text[j]) = <<fields[i].text[j]>>
      BY <2>1, UntypedText
    <3> DEFINE s == fields[i].text
    <3>2. s \in Seq(Symbols) /\ \A j \in 1 .. Len(s) : ValueOf(vaulted, s[j]) = <<s[j]>>
      BY <2>2, <3>1
    <3> HIDE DEF s
    <3>3. Restored(s, vaulted) = s
      BY <3>2, RestoredSame
    <3> QED
      BY <3>3 DEF InVault, s
  <2> QED
    BY <1>1, <2>3, <2>4
<1> QED
  BY <1>2, <1>3, <1>4, <1>5 DEF MaskInv

\* Every step keeps the invariant.
LEMMA MaskStep ==
    ASSUME MaskInv, [MaskNext]_maskVars PROVE MaskInv'
<1>1. CASE BeginRequest
  BY <1>1, BeginKept
<1>2. CASE FinishField
  BY <1>2, FinishKept
<1>3. CASE SendBody
  BY <1>3, SendKept
<1>4. CASE AssignElsewhere
  BY <1>4, ElsewhereKept
<1>5. CASE \E d \in todo : StoreFails(d) \/ \E e \in Known : ReplaceNext(d, e)
  BY <1>5, StoreFailsKept, ReplaceKept
<1>6. CASE \E f \in Fields, nerFails \in BOOLEAN : ScanField(f, nerFails)
  BY <1>6, ScanKept
<1>7. CASE \E text \in Answers, readFails \in BOOLEAN : Answer(text, readFails)
  BY <1>7, AnswerKept
<1>8. CASE UNCHANGED maskVars
  <2>1. /\ fields' = fields /\ masked' = masked /\ todo' = todo /\ cursor' = cursor /\ known' = known
        /\ policy' = policy /\ phase' = phase /\ requests' = requests /\ answer' = answer /\ restored' = restored
        /\ vaulted' = vaulted
    BY <1>8 DEF maskVars
  <2>2. TypesKept' /\ EntriesKept'
    BY <2>1 DEF MaskInv, TypesKept, EntriesKept, Working
  <2>3. MaskedSoFar' /\ EchoSoFar'
    <3>1. CASE Working
      <4>1. MaskedSoFar /\ EchoSoFar /\ Working'
        BY <2>1, <3>1 DEF MaskInv, Working
      <4> QED
        BY <2>1, <3>1, <4>1, PartsKept
    <3>2. CASE ~Working
      BY <2>1, <3>2 DEF MaskedSoFar, EchoSoFar, Working
    <3> QED
      BY <3>1, <3>2
  <2>4. EchoRestored'
    BY <2>1 DEF MaskInv, EchoRestored, Typed
  <2> QED
    BY <2>2, <2>3, <2>4 DEF MaskInv
<1> QED
  BY <1>1, <1>2, <1>3, <1>4, <1>5, <1>6, <1>7, <1>8 DEF MaskNext

\* The invariant implies the properties.
LEMMA MaskInvImplies ==
    ASSUME MaskInv PROVE EntitiesKept /\ MaskTypeOK
<1>1. NothingLeft
  <2> SUFFICES ASSUME phase = "sent", NEW i \in DOMAIN fields, Visited(fields[i]),
                      NEW P, P = DOMAIN Recognizers \
                               (IF NerEnabled(fields[i]) /\ policy.failMode = "closed" THEN {} ELSE {Ner}),
                      NEW c \in Finds(masked[i], P)
               PROVE  \E d \in Finds(masked[i], DOMAIN Recognizers) : d.kind \notin policy.allowed /\ Overlap(c, d)
    BY DEF NothingLeft
  <2>1. Working /\ ~Replacing(i) /\ Done(i) = Len(fields[i].text)
    BY DEF Working, Replacing, Done
  <2>2. PICK R \in SUBSET DOMAIN Recognizers : P \subseteq R /\ MaskedPart(i, R)
    BY <2>1 DEF MaskInv, MaskedSoFar, Needed
  <2>3. fields[i] \in Fields /\ masked[i] \in Seq(Symbols)
    BY <2>1 DEF MaskInv, TypesKept
  <2>4. fields[i].text \in Seq(Symbols)
    BY <2>3, TextTyped
  <2> DEFINE rep == {d \in Merge(Finds(fields[i].text, R)) : d.kind \in policy.allowed}
  <2>5. PICK pos : Aligned(pos, masked[i], fields[i].text, rep, Len(fields[i].text))
    BY <2>1, <2>2 DEF MaskedPart, Scan
  <2> QED
    BY <2>2, <2>3, <2>4, <2>5, NothingFound
<1>2. MaskTypeOK
  <2>1. TypesKept /\ fields \in Seq(Fields) /\ masked \in Seq(Seq(Symbols))
    BY DEF MaskInv, TypesKept
  <2>2. CASE todo = {}
    BY <2>1, <2>2 DEF MaskTypeOK, TypesKept
  <2>3. CASE todo # {}
    <3> DEFINE n == Len(fields)  text == Last(fields).text
    <3>1. phase = "replacing" /\ fields # <<>> /\ Visited(Last(fields))
      BY <2>1, <2>3 DEF TypesKept
    <3>2. n \in DOMAIN fields /\ fields[n] \in Fields /\ Last(fields) = fields[n]
      BY <2>1, <3>1 DEF Last
    <3>3. Working /\ Replacing(n)
      BY <3>1 DEF Working, Replacing
    <3>4. PICK R \in SUBSET DOMAIN Recognizers : MaskedPart(n, R)
      BY <3>1, <3>2, <3>3 DEF MaskInv, MaskedSoFar
    <3>5. todo = {d \in Scan(text, R) : d.start > cursor}
      BY <3>2, <3>3, <3>4 DEF MaskedPart
    <3>6. Spanned(Scan(text, R), Len(text)) /\ Apart(Scan(text, R)) /\ Len(text) \in Nat
      <4>1. Last(fields) \in Fields
        BY <3>2
      <4>2. text \in Seq(Symbols)
        BY <4>1, TextTyped
      <4>3. Spanned(Scan(Last(fields).text, R), Len(Last(fields).text)) /\ Apart(Scan(Last(fields).text, R))
        BY <4>1, ScanIs
      <4> QED
        BY <4>2, <4>3
    <3> HIDE DEF text, n
    <3>7. \A d \in todo : d.start > cursor /\ d.end <= Len(text) + 1
      BY <3>5, <3>6, SpanIs
    <3>8. \A c, d \in todo : c = d \/ c.end <= d.start \/ d.end <= c.start
      BY <3>5, <3>6 DEF Apart
    <3> QED
      BY <2>1, <3>7, <3>8 DEF MaskTypeOK, TypesKept, text
  <2> QED
    BY <2>2, <2>3
<1> QED
  BY <1>1, <1>2 DEF MaskInv, EntitiesKept

\* A body is masked text after text, what is left to replace lies ahead of the cursor and
\* does not overlap, and the map and the vault hold known entries.
THEOREM MaskTypesCorrect == MaskSpec => []MaskTypeOK
<1>1. MaskSpec => []MaskInv
  BY MaskInitially, MaskStep, PTL DEF MaskSpec
<1> QED
  BY <1>1, MaskInvImplies, PTL

\* No entity that the engine must see reaches the model, nothing else is changed, and
\* an echo of what was sent is restored to what the client wrote (anonymize_body,
\* anonymize_text, restore_response).
THEOREM EntitiesStayKept == MaskSpec => []EntitiesKept
<1>1. MaskSpec => []MaskInv
  BY MaskInitially, MaskStep, PTL DEF MaskSpec
<1> QED
  BY <1>1, MaskInvImplies, PTL
-----------------------------------------------------------------------------
(* What is read for the guardrails *)

\* u stands somewhere in g.
Part(u, g) == \E o \in 0 .. Len(g) - Len(u) : SubSeq(g, o + 1, o + Len(u)) = u

\* A text is a part of itself,
LEMMA PartSelf ==
    ASSUME NEW Y, NEW u \in Seq(Y) PROVE Part(u, u)
<1>1. 0 \in 0 .. Len(u) - Len(u) /\ 0 + 1 = 1 /\ 0 + Len(u) = Len(u)
  OBVIOUS
<1>2. SubSeq(u, 1, Len(u)) = u
  BY SubSeqFull
<1> QED
  BY <1>1, <1>2 DEF Part

\* what is a part stays one when a text is appended,
LEMMA PartBefore ==
    ASSUME NEW Y, NEW u \in Seq(Y), NEW g \in Seq(Y), NEW h \in Seq(Y), Part(u, g) PROVE Part(u, g \o h)
<1> DEFINE n == Len(u)  all == g \o h
<1>1. PICK o \in 0 .. Len(g) - n : SubSeq(g, o + 1, o + n) = u
  BY DEF Part
<1>2. n \in Nat /\ Len(g) \in Nat /\ Len(h) \in Nat /\ o \in Nat /\ o + n <= Len(g)
  BY <1>1
<1>3. all \in Seq(Y) /\ Len(all) = Len(g) + Len(h) /\ \A i \in 1 .. Len(g) : all[i] = g[i]
  BY ConcatProperties
<1> HIDE DEF all, n
<1> DEFINE p == SubSeq(all, o + 1, o + n)  q == SubSeq(g, o + 1, o + n)
<1>4. o + 1 \in Nat /\ o + 1 >= 1 /\ o + n \in Int /\ o + n = (o + 1) + n - 1 /\ o + n <= Len(all) /\ o \in 0 .. Len(all) - n
  BY <1>2, <1>3
<1>5. p \in Seq(Y) /\ Len(p) = n /\ \A j \in 1 .. n : p[j] = all[(o + 1) + (j - 1)]
  BY <1>2, <1>3, <1>4, PartIs
<1>6. q \in Seq(Y) /\ Len(q) = n /\ \A j \in 1 .. n : q[j] = g[(o + 1) + (j - 1)]
  BY <1>2, <1>4, PartIs
<1>7. \A j \in 1 .. n : (o + 1) + (j - 1) \in 1 .. Len(g)
  BY <1>2
<1> HIDE DEF p, q
<1>8. \A j \in 1 .. n : p[j] = q[j]
  BY <1>3, <1>5, <1>6, <1>7
<1>9. p = q
  BY <1>5, <1>6, <1>8, SeqEqual
<1> QED
  BY <1>1, <1>4, <1>9 DEF Part, p, q, all, n

\* and so is the text that was appended.
LEMMA PartAfter ==
    ASSUME NEW Y, NEW g \in Seq(Y), NEW u \in Seq(Y) PROVE Part(u, g \o u)
<1> DEFINE n == Len(u)  all == g \o u  o == Len(g)
<1>1. n \in Nat /\ o \in Nat
  OBVIOUS
<1>2. all \in Seq(Y) /\ Len(all) = o + n
  BY ConcatProperties
<1>3. ASSUME NEW i \in o + 1 .. o + n PROVE all[i] = u[i - o]
  BY <1>1, ConcatProperties
<1> HIDE DEF all, n, o
<1> DEFINE p == SubSeq(all, o + 1, o + n)
<1>4. o + 1 \in Nat /\ o + 1 >= 1 /\ o + n \in Int /\ o + n = (o + 1) + n - 1 /\ o + n <= Len(all) /\ o \in 0 .. Len(all) - n
  BY <1>1, <1>2
<1>5. p \in Seq(Y) /\ Len(p) = n /\ \A j \in 1 .. n : p[j] = all[(o + 1) + (j - 1)]
  BY <1>1, <1>2, <1>4, PartIs
<1>6. \A j \in 1 .. n : (o + 1) + (j - 1) \in o + 1 .. o + n /\ ((o + 1) + (j - 1)) - o = j
  BY <1>1
<1> HIDE DEF p
<1>7. \A j \in 1 .. n : p[j] = u[j]
  BY <1>3, <1>5, <1>6
<1>8. p = u
  BY <1>5, <1>7, SeqEqual DEF n
<1> QED
  BY <1>4, <1>8 DEF Part, p, all, n

\* The function of CollectText.
Collecting(g, body, when) ==
    g = [i \in 0 .. Len(body) |->
            IF i = 0 THEN <<>>
            ELSE IF body[i].place \in ReadIn(when) THEN Join(g[i - 1], body[i].text) ELSE g[i - 1]]

\* Every text that is read is a part of the text that is collected.
LEMMA Collected ==
    ASSUME NEW Y, NEW body, Len(body) \in Nat, DOMAIN body = 1 .. Len(body),
           \A i \in 1 .. Len(body) : body[i].text \in Seq(Y), Separator \in Y, NEW when
    PROVE  /\ CollectText(body, when) \in Seq(Y)
           /\ \A f \in CollectedFields(body, when) : f.text \in Seq(Y) /\ Part(f.text, CollectText(body, when))
<1> DEFINE n == Len(body)  none == <<>>  S == Seq(Y)
           At(i, before) == IF body[i].place \in ReadIn(when) THEN Join(before, body[i].text) ELSE before
           G == [i \in 1 .. n |-> [before \in S |-> At(i, before)]]
<1>1. n \in Nat /\ none \in S
  OBVIOUS
<1>2. ASSUME NEW i \in 1 .. n, NEW before \in S PROVE Join(before, body[i].text) \in S
  <2> DEFINE t == body[i].text
  <2>1. t \in Seq(Y) /\ <<Separator>> \in Seq(Y)
    OBVIOUS
  <2> HIDE DEF t
  <2>2. before \o <<Separator>> \o t \in Seq(Y)
    BY <2>1
  <2>3. Join(before, t) \in Seq(Y)
    BY <2>1, <2>2 DEF Join
  <2> QED
    BY <2>3 DEF t
<1>3. \A i \in 1 .. n, before \in S : At(i, before) \in S
  BY <1>2
<1> HIDE DEF n, S, none
<1>4. G \in [1 .. n -> [S -> S]]
  <2> HIDE DEF At
  <2> QED
    BY <1>3
<1>5. \A i \in 1 .. n, before \in S : G[i][before] = At(i, before)
  OBVIOUS
<1> HIDE DEF G
<1>6. PICK f : Follows(f, S, none, n, G)
  BY <1>1, <1>4, RecursionExists
<1>7. f \in [0 .. n -> S] /\ f[0] = none /\ \A i \in 1 .. n : f[i] = G[i][f[i - 1]]
  BY <1>6 DEF Follows
<1>8. \A i \in 1 .. n : f[i] = At(i, f[i - 1])
  <2>1. \A i \in 1 .. n : i - 1 \in 0 .. n
    BY <1>1
  <2> QED
    BY <1>5, <1>7, <2>1
<1>9. Collecting(f, body, when)
  <2> DEFINE h == [i \in 0 .. n |-> IF i = 0 THEN <<>> ELSE At(i, f[i - 1])]
  <2>1. \A i \in 0 .. n : i = 0 \/ i \in 1 .. n
    BY <1>1
  <2>2. \A i \in 0 .. n : f[i] = IF i = 0 THEN <<>> ELSE At(i, f[i - 1])
    BY <1>7, <1>8, <2>1 DEF none
  <2>3. f = h
    BY <1>7, <2>2
  <2> QED
    BY <2>3 DEF Collecting, n
<1> DEFINE out == CHOOSE g : Collecting(g, body, when)
<1>10. Collecting(out, body, when)
  BY <1>9
<1>11. CollectText(body, when) = out[n]
  BY DEF CollectText, Collecting, n
<1> HIDE DEF out
<1>12. \A i \in 0 .. n : out[i] = IF i = 0 THEN <<>> ELSE At(i, out[i - 1])
  BY <1>10 DEF Collecting, n
<1> DEFINE T == {i \in 0 .. n : /\ out[i] \in Seq(Y)
                                /\ \A k \in 1 .. i : body[k].place \in ReadIn(when) => Part(body[k].text, out[i])}
<1>13. 0 \in T
  <2>1. 0 \in 0 .. n /\ 1 .. 0 = {}
    BY <1>1
  <2>2. out[0] = <<>>
    BY <1>12, <2>1
  <2>3. out[0] \in Seq(Y)
    BY <2>2
  <2> QED
    BY <2>1, <2>3
<1>14. ASSUME NEW i \in 1 .. n, i - 1 \in T PROVE i \in T
  <2>1. /\ i \in 0 .. n /\ i # 0 /\ out[i - 1] \in Seq(Y)
        /\ \A k \in 1 .. i - 1 : body[k].place \in ReadIn(when) => Part(body[k].text, out[i - 1])
    BY <1>1, <1>14
  <2>2. out[i] = At(i, out[i - 1])
    BY <1>12, <2>1
  <2>3. \A k \in 1 .. i : k = i \/ k \in 1 .. i - 1
    BY <1>1
  <2>4. \A k \in 1 .. i : body[k].text \in Seq(Y)
    BY <1>1 DEF n
  <2>5. CASE body[i].place \notin ReadIn(when)
    BY <2>1, <2>2, <2>3, <2>5
  <2>6. CASE body[i].place \in ReadIn(when)
    <3> DEFINE before == out[i - 1]  t == body[i].text  sep == <<Separator>>
    <3>1. out[i] = Join(before, t) /\ before \in Seq(Y) /\ t \in Seq(Y) /\ sep \in Seq(Y)
      BY <2>1, <2>2, <2>4, <2>6
    <3> HIDE DEF before, sep
    <3>2. out[i] \in Seq(Y) /\ Part(t, out[i]) /\ \A u \in Seq(Y) : Part(u, before) => Part(u, out[i])
      <4> HIDE DEF t
      <4>1. CASE before = <<>>
        <5>1. out[i] = t /\ before \o t = t
          BY <3>1, <4>1 DEF Join
        <5>2. Part(t, t) /\ \A u \in Seq(Y) : Part(u, before) => Part(u, before \o t)
          BY <3>1, PartSelf, PartBefore
        <5> QED
          BY <3>1, <5>1, <5>2
      <4>2. CASE before # <<>>
        <5>1. out[i] = (before \o sep) \o t
          BY <3>1, <4>2 DEF Join, sep
        <5>2. before \o sep \in Seq(Y)
          BY <3>1
        <5>3. (before \o sep) \o t \in Seq(Y)
          BY <3>1, <5>2
        <5>4. Part(t, (before \o sep) \o t)
          BY <3>1, <5>2, PartAfter
        <5>5. ASSUME NEW u \in Seq(Y), Part(u, before) PROVE Part(u, (before \o sep) \o t)
          <6>1. Part(u, before \o sep)
            BY <3>1, <5>5, PartBefore
          <6> QED
            BY <3>1, <5>2, <6>1, PartBefore
        <5> QED
          BY <5>1, <5>3, <5>4, <5>5
      <4> QED
        BY <4>1, <4>2
    <3>3. ASSUME NEW k \in 1 .. i, body[k].place \in ReadIn(when) PROVE Part(body[k].text, out[i])
      <4>1. CASE k = i
        BY <3>2, <4>1
      <4>2. CASE k \in 1 .. i - 1
        BY <2>1, <2>4, <3>2, <3>3, <4>2 DEF before
      <4> QED
        BY <2>3, <4>1, <4>2
    <3> QED
      BY <2>1, <3>2, <3>3
  <2> QED
    BY <2>5, <2>6
<1>15. n \in T
  <2> HIDE DEF T
  <2>1. \A i \in 0 .. n : i \in T
    BY <1>1, <1>13, <1>14, UpTo
  <2>2. n \in 0 .. n
    BY <1>1
  <2> QED
    BY <2>1, <2>2
<1>16. ASSUME NEW f2 \in CollectedFields(body, when)
       PROVE  f2.text \in Seq(Y) /\ Part(f2.text, CollectText(body, when))
  <2>1. PICK k \in 1 .. n : body[k] = f2
    BY DEF CollectedFields, Range, n
  <2>2. f2.place \in ReadIn(when)
    BY DEF CollectedFields
  <2> QED
    BY <1>11, <1>15, <2>1, <2>2 DEF n
<1> QED
  BY <1>11, <1>15, <1>16
-----------------------------------------------------------------------------
(* What a rule finds *)

\* What is at i to z in u is in g, too, o symbols further on.
ShiftedPart(g, u, o, i, z) ==
    /\ i + o \in 1 .. Len(g) /\ z + o \in i + o + 1 .. Len(g) + 1
    /\ SubSeq(g, i + o, (z + o) - 1) = SubSeq(u, i, z - 1)

\* A part of a part.
LEMMA PartSymbols ==
    ASSUME NEW Y, NEW g \in Seq(Y), NEW u \in Seq(Y), NEW o \in 0 .. Len(g) - Len(u),
           SubSeq(g, o + 1, o + Len(u)) = u,
           NEW i \in 1 .. Len(u), NEW z \in i + 1 .. Len(u) + 1
    PROVE  ShiftedPart(g, u, o, i, z)
<1> DEFINE n == Len(u)  m == Len(g)
<1>1. n \in Nat /\ m \in Nat /\ o \in Nat /\ o + n <= m /\ i \in 1 .. n /\ z \in i + 1 .. n + 1 /\ SubSeq(g, o + 1, o + n) = u
  OBVIOUS
<1>2. Len(u) = n /\ Len(g) = m
  OBVIOUS
<1> HIDE DEF n, m
<1>3. i + o \in 1 .. m /\ z + o \in i + o + 1 .. m + 1
  BY <1>1
<1> DEFINE c == z - i
           p == SubSeq(g, i + o, (z + o) - 1)
           q == SubSeq(u, i, z - 1)
           w == SubSeq(g, o + 1, o + n)
<1>4. /\ c \in Nat /\ i + o \in Nat /\ i + o >= 1 /\ (z + o) - 1 \in Int /\ (z + o) - 1 = (i + o) + c - 1 /\ (z + o) - 1 <= m
      /\ i \in Nat /\ i >= 1 /\ z - 1 \in Int /\ z - 1 = i + c - 1 /\ z - 1 <= n
      /\ o + 1 \in Nat /\ o + 1 >= 1 /\ o + n \in Int /\ o + n = (o + 1) + n - 1
  BY <1>1
<1>8. \A j \in 1 .. c : i + (j - 1) \in 1 .. n /\ (o + 1) + ((i + (j - 1)) - 1) = (i + o) + (j - 1)
  BY <1>1
<1> HIDE DEF c
<1>5. p \in Seq(Y) /\ Len(p) = c /\ \A j \in 1 .. c : p[j] = g[(i + o) + (j - 1)]
  BY SMTT(30), <1>2, <1>4, PartIs
<1>6. q \in Seq(Y) /\ Len(q) = c /\ \A j \in 1 .. c : q[j] = u[i + (j - 1)]
  BY SMTT(30), <1>2, <1>4, PartIs
<1>7. w = u /\ \A j \in 1 .. n : w[j] = g[(o + 1) + (j - 1)]
  BY <1>1, <1>2, <1>4, PartIs
<1> HIDE DEF p, q, w
<1>9. \A j \in 1 .. c : p[j] = q[j]
  <2> TAKE j \in 1 .. c
  <2> DEFINE k == i + (j - 1)
  <2>1. k \in 1 .. n /\ (o + 1) + (k - 1) = (i + o) + (j - 1) /\ q[j] = u[k] /\ p[j] = g[(i + o) + (j - 1)]
    BY <1>5, <1>6, <1>8
  <2> HIDE DEF k
  <2>2. u[k] = g[(o + 1) + (k - 1)]
    BY <1>7, <2>1
  <2> QED
    BY <2>1, <2>2
<1>10. p = q
  BY <1>5, <1>6, <1>9, SeqEqual
<1> QED
  BY <1>2, <1>3, <1>10 DEF p, q, ShiftedPart

\* Spans inside a text of n symbols.
Bounded(spans, n) == \A s \in spans : s.start \in 1 .. n /\ s.end \in s.start + 1 .. n + 1

\* What one regex finds: some match, if there is one.
LEMMA FindIterIs ==
    ASSUME NEW X, NEW g \in Seq(X), NEW pattern
    PROVE  /\ Bounded(FindIter(pattern, g), Len(g))
           /\ \A i \in 1 .. Len(g) : \A z \in i + 1 .. Len(g) + 1 :
                 SubSeq(g, i, z - 1) \in pattern => FindIter(pattern, g) # {}
<1> DEFINE n == Len(g)
           places == {[start |-> i, end |-> j, rec |-> 0] : i, j \in 1 .. n + 1}
           found == {c \in places : c.start < c.end /\ SubSeq(g, c.start, c.end - 1) \in pattern}
<1>1. n \in Nat
  OBVIOUS
<1>2. FindIter(pattern, g) = Merge(found)
  BY DEF FindIter
<1> HIDE DEF n
<1>3. Spanned(found, n)
  <2> SUFFICES ASSUME NEW d \in found
               PROVE  d.start \in 1 .. n /\ d.end \in d.start + 1 .. n + 1 /\ d.rec \in Nat
    BY DEF Spanned
  <2>1. PICK i, j \in 1 .. n + 1 : d = [start |-> i, end |-> j, rec |-> 0]
    OBVIOUS
  <2>2. d.start = i /\ d.end = j /\ d.rec = 0 /\ d.start < d.end
    BY <2>1
  <2> HIDE DEF found
  <2> QED
    BY <1>1, <2>2
<1>4. Merge(found) \subseteq found /\ \A d \in found : \E k \in Merge(found) : Overlap(k, d)
  <2> HIDE DEF found
  <2> QED
    BY <1>1, <1>3, MergeKeeps
<1>5. Bounded(Merge(found), n)
  <2> HIDE DEF found
  <2> QED
    BY <1>3, <1>4 DEF Spanned, Bounded
<1>6. ASSUME NEW i \in 1 .. n, NEW z \in i + 1 .. n + 1, SubSeq(g, i, z - 1) \in pattern PROVE Merge(found) # {}
  <2> DEFINE d == [start |-> i, end |-> z, rec |-> 0]
  <2>1. i \in 1 .. n + 1 /\ z \in 1 .. n + 1 /\ i < z
    BY <1>1
  <2>2. d \in places /\ d.start = i /\ d.end = z
    BY <2>1
  <2> HIDE DEF d, places
  <2>3. d \in found
    BY <1>6, <2>1, <2>2
  <2> HIDE DEF found
  <2> QED
    BY <1>4, <2>3
<1> QED
  BY SMTT(30), <1>2, <1>5, <1>6 DEF n

\* What Find finds, with the recognizer.
SpansOf(rule, text, nerFails) ==
    LET matched(patterns) == UNION {FindIter(p, text) : p \in patterns}
    IN CASE rule.kind = "prompt_injection" -> matched(BuiltinPatterns \cup rule.patterns)
         [] rule.kind = "banned_content" -> matched(rule.patterns)
         [] rule.kind = "contact_info" -> {d \in Detected(text, nerFails) : d.kind \in ActsOn(rule)}

\* What a rule finds lies inside the text.
LEMMA FindIs ==
    ASSUME NEW X, NEW g \in Seq(X), NEW rule, NEW nerFails,
           rule.kind \in {"prompt_injection", "banned_content", "contact_info"}
    PROVE  /\ Bounded(Find(rule, g, nerFails), Len(g))
           /\ SpansOf(rule, g, nerFails) # {} => Find(rule, g, nerFails) # {}
<1> DEFINE spans == SpansOf(rule, g, nerFails)  n == Len(g)
<1>1. Find(rule, g, nerFails) = {[start |-> s.start, end |-> s.end] : s \in spans}
  BY DEF Find, SpansOf
<1>2. \A patterns : Bounded(UNION {FindIter(p, g) : p \in patterns}, n)
  <2>1. \A p : Bounded(FindIter(p, g), n)
    BY FindIterIs
  <2> HIDE DEF n
  <2> QED
    BY <2>1 DEF Bounded
<1>3. Bounded(Detected(g, nerFails), n)
  <2> DEFINE S == DOMAIN Recognizers \ (IF nerFails THEN {Ner} ELSE {})
  <2>1. Detected(g, nerFails) \subseteq Merge(Finds(g, S))
    BY DEF Detected, Scan
  <2>2. Spanned(Finds(g, S), n) /\ n \in Nat
    BY FindsSpanned
  <2> HIDE DEF S, n
  <2>3. Merge(Finds(g, S)) \subseteq Finds(g, S)
    BY <2>2, MergeKeeps
  <2> QED
    BY <2>1, <2>2, <2>3 DEF Spanned, Bounded
<1> HIDE DEF n
<1>4. Bounded(spans, n)
  <2>1. CASE rule.kind = "prompt_injection"
    <3>1. spans = UNION {FindIter(p, g) : p \in BuiltinPatterns \cup rule.patterns}
      BY <2>1 DEF SpansOf
    <3> HIDE DEF spans
    <3> QED
      BY <1>2, <3>1
  <2>2. CASE rule.kind = "banned_content"
    <3>1. spans = UNION {FindIter(p, g) : p \in rule.patterns}
      BY <2>2 DEF SpansOf
    <3> HIDE DEF spans
    <3> QED
      BY <1>2, <3>1
  <2>3. CASE rule.kind = "contact_info"
    <3>1. spans = {d \in Detected(g, nerFails) : d.kind \in ActsOn(rule)}
      BY <2>3 DEF SpansOf
    <3> HIDE DEF spans
    <3> QED
      BY <1>3, <3>1 DEF Bounded
  <2> QED
    BY <2>1, <2>2, <2>3
<1> HIDE DEF spans
<1>5. Bounded(Find(rule, g, nerFails), n)
  BY <1>1, <1>4 DEF Bounded
<1>6. spans # {} => Find(rule, g, nerFails) # {}
  BY <1>1
<1> QED
  BY <1>5, <1>6 DEF spans, n

\* A rule finds something in a text that is read in which it is meant to.
LEMMA MeantIsFound ==
    ASSUME NEW Y, GuardText \in Seq(Y), NEW rule,
           rule.kind \in {"prompt_injection", "banned_content", "contact_info"},
           NEW f, f.text \in Seq(Y), Part(f.text, GuardText), Meant(rule, f)
    PROVE  Find(rule, GuardText, modelFails) # {}
<1>00. PICK nf : nf = modelFails
  OBVIOUS
<1>01. PICK g \in Seq(Y), t \in Seq(Y) : g = GuardText /\ t = f.text
  OBVIOUS
<1>0. g = GuardText /\ t = f.text /\ nf = modelFails
  BY <1>00, <1>01
<1> SUFFICES SpansOf(rule, g, nf) # {}
  BY <1>0, FindIs
<1>1. CASE rule.kind = "contact_info"
  <2> DEFINE P == DOMAIN Recognizers \ (IF nf THEN {Ner} ELSE {})
             wanted == ActsOn(rule) \cap policy.allowed
  <2>0. \E d \in Finds(t, P), o \in {k \in 0 .. Len(g) - Len(t) : SubSeq(g, k + 1, k + Len(t)) = t} :
           /\ d.kind \in wanted
           /\ \A c \in Finds(g, DOMAIN Recognizers) :
                 c.kind \in wanted \/ ~Overlap(c, [start |-> d.start + o, end |-> d.end + o])
    BY <1>0, <1>1 DEF Meant
  <2>1. PICK d \in Finds(t, P), o \in 0 .. Len(g) - Len(t) :
           /\ SubSeq(g, o + 1, o + Len(t)) = t /\ d.kind \in wanted
           /\ \A c \in Finds(g, DOMAIN Recognizers) :
                 c.kind \in wanted \/ ~Overlap(c, [start |-> d.start + o, end |-> d.end + o])
    BY <2>0
  <2> HIDE DEF wanted
  <2>2. P \in SUBSET DOMAIN Recognizers
    OBVIOUS
  <2> HIDE DEF P
  <2>3. /\ d.start \in 1 .. Len(t) /\ d.end \in d.start + 1 .. Len(t) + 1 /\ d.rec \in P
        /\ <<SubSeq(t, d.start, d.end - 1), d.kind>> \in Recognizers[d.rec]
    BY <2>2, MatchIs
  <2> DEFINE i == d.start  z == d.end
  <2>4. /\ i + o \in 1 .. Len(g) /\ z + o \in i + o + 1 .. Len(g) + 1
        /\ SubSeq(g, i + o, (z + o) - 1) = SubSeq(t, i, z - 1)
    <3> HIDE DEF i, z
    <3>1. i \in 1 .. Len(t) /\ z \in i + 1 .. Len(t) + 1
      BY <2>3 DEF i, z
    <3>2. ShiftedPart(g, t, o, i, z)
      BY <2>1, <3>1, PartSymbols
    <3> QED
      BY <3>2 DEF ShiftedPart
  <2>5. <<SubSeq(g, i + o, (z + o) - 1), d.kind>> \in Recognizers[d.rec]
    BY <2>3, <2>4
  <2> DEFINE b == [start |-> i + o, end |-> z + o, kind |-> d.kind, rec |-> d.rec]
  <2>6. b \in Finds(g, P)
    BY <2>2, <2>3, <2>4, <2>5, MatchExists
  <2>7. b.start = i + o /\ b.end = z + o
    OBVIOUS
  <2> HIDE DEF b
  <2>8. Spanned(Finds(g, P), Len(g)) /\ Len(g) \in Nat
    BY <2>2, FindsSpanned
  <2>9. PICK k \in Merge(Finds(g, P)) : Overlap(k, b) /\ k \in Finds(g, P)
    BY <2>6, <2>8, MergeKeeps
  <2>10. k \in Finds(g, DOMAIN Recognizers)
    BY <2>2, <2>9, FindsGrow
  <2>11. Overlap(k, [start |-> d.start + o, end |-> d.end + o])
    BY <2>7, <2>9 DEF Overlap
  <2>12. k.kind \in wanted
    BY <2>1, <2>10, <2>11
  <2>13. k \in Detected(g, nf) /\ k.kind \in ActsOn(rule)
    BY <2>9, <2>12 DEF Detected, Scan, P, wanted
  <2>14. SpansOf(rule, g, nf) = {c \in Detected(g, nf) : c.kind \in ActsOn(rule)}
    BY <1>1 DEF SpansOf
  <2> QED
    BY <2>13, <2>14
<1>2. CASE rule.kind # "contact_info"
  <2>1. PICK p \in rule.patterns \cup (IF rule.kind = "prompt_injection" THEN BuiltinPatterns ELSE {}) :
           \E i, j \in 1 .. Len(t) + 1 : i < j /\ SubSeq(t, i, j - 1) \in p
    BY <1>0, <1>2 DEF Meant
  <2>2. PICK i, j \in 1 .. Len(t) + 1 : i < j /\ SubSeq(t, i, j - 1) \in p
    BY <2>1
  <2>3. i \in 1 .. Len(t) /\ j \in i + 1 .. Len(t) + 1
    BY <2>2
  <2>4. PICK o \in 0 .. Len(g) - Len(t) : SubSeq(g, o + 1, o + Len(t)) = t
    BY <1>0 DEF Part
  <2>5. /\ i + o \in 1 .. Len(g) /\ j + o \in i + o + 1 .. Len(g) + 1
        /\ SubSeq(g, i + o, (j + o) - 1) = SubSeq(t, i, j - 1)
    <3>1. ShiftedPart(g, t, o, i, j)
      BY <2>3, <2>4, PartSymbols
    <3> QED
      BY <3>1 DEF ShiftedPart
  <2>6. SubSeq(g, i + o, (j + o) - 1) \in p
    BY <2>2, <2>5
  <2>7. FindIter(p, g) # {}
    BY <2>5, <2>6, FindIterIs
  <2>8. CASE rule.kind = "prompt_injection"
    <3>1. SpansOf(rule, g, nf) = UNION {FindIter(q, g) : q \in BuiltinPatterns \cup rule.patterns}
      BY <2>8 DEF SpansOf
    <3>2. p \in BuiltinPatterns \cup rule.patterns
      BY <2>8
    <3> QED
      BY <2>7, <3>1, <3>2
  <2>9. CASE rule.kind = "banned_content"
    <3>1. SpansOf(rule, g, nf) = UNION {FindIter(q, g) : q \in rule.patterns}
      BY <2>9 DEF SpansOf
    <3>2. p \in rule.patterns
      BY <2>9
    <3> QED
      BY <2>7, <3>1, <3>2
  <2> QED
    BY <1>2, <2>8, <2>9
<1> QED
  BY <1>1, <1>2
-----------------------------------------------------------------------------
(* What the rules come to *)

\* What the first m rules come to: the first that blocks, or else what was found of
\* each of the others.
CameTo(out, rules, m, when, text, nerFails) ==
    LET hits(i) == RunsIn(rules[i], when) /\ Find(rules[i], text, nerFails) # {}
    IN IF out.blockedBy # {}
       THEN \E i \in 1 .. m : hits(i) /\ rules[i].action = "block" /\ out.blockedBy = {rules[i].name}
       ELSE /\ \A i \in 1 .. m : hits(i) => rules[i].action # "block"
            /\ out.redactions = UNION {Find(rules[i], text, nerFails) :
                                          i \in {k \in 1 .. m : hits(k) /\ rules[k].action = "redact"}}
            /\ out.flags = {rules[i].name : i \in {k \in 1 .. m : hits(k) /\ rules[k].action = "flag"}}

FindingsOf(names, spans) == [blockedBy : SUBSET names, redactions : SUBSET spans, flags : SUBSET names]

\* The function of Evaluate.
Evaluating(g, rules, when, text, nerFails) ==
    g = [i \in 0 .. Len(rules) |->
            IF i = 0 THEN NoFindings
            ELSE IF RunsIn(rules[i], when) THEN ApplyRule(g[i - 1], rules[i], Find(rules[i], text, nerFails))
            ELSE g[i - 1]]

\* The verdict on what the rules came to.
VerdictOn(found) ==
    IF found.blockedBy # {} THEN [verdict |-> "block", of |-> found.blockedBy, spans |-> <<>>]
    ELSE IF found.redactions # {}
    THEN [verdict |-> "redact", of |-> {}, spans |-> MergeSpans(found.redactions)]
    ELSE IF found.flags # {} THEN [verdict |-> "flag", of |-> found.flags, spans |-> <<>>]
    ELSE [verdict |-> "allow", of |-> {}, spans |-> <<>>]

\* The verdict is that on what all the rules come to.
LEMMA EvaluateIs ==
    ASSUME NEW rules, Len(rules) \in Nat,
           \A i \in 1 .. Len(rules) : rules[i].action \in {"block", "redact", "flag"},
           NEW when, NEW text, NEW nerFails
    PROVE  \E out : /\ Evaluate(rules, when, text, nerFails) = VerdictOn(out)
                    /\ CameTo(out, rules, Len(rules), when, text, nerFails)
<1> DEFINE n == Len(rules)
           F(i) == Find(rules[i], text, nerFails)
           Runs(i) == RunsIn(rules[i], when)
           names == {rules[i].name : i \in 1 .. n}
           spans == UNION {F(i) : i \in 1 .. n}
           S == FindingsOf(names, spans)
           none == NoFindings
           At(i, before) == IF Runs(i) THEN ApplyRule(before, rules[i], F(i)) ELSE before
           G == [i \in 1 .. n |-> [before \in S |-> At(i, before)]]
<1>1. n \in Nat /\ none \in S
  <2>1. none = [blockedBy |-> {}, redactions |-> {}, flags |-> {}]
    BY DEF NoFindings
  <2> HIDE DEF names, spans
  <2> QED
    BY <2>1 DEF FindingsOf
<1>2. ASSUME NEW i \in 1 .. n, NEW before \in S PROVE ApplyRule(before, rules[i], F(i)) \in S
  <2>1. rules[i].name \in names /\ F(i) \subseteq spans /\ rules[i].action \in {"block", "redact", "flag"}
    OBVIOUS
  <2> DEFINE fi == F(i)  r == rules[i]
  <2>2. r.name \in names /\ fi \subseteq spans /\ r.action \in {"block", "redact", "flag"}
    BY <2>1
  <2> HIDE DEF names, spans, fi, r
  <2>3. before = [blockedBy |-> before.blockedBy, redactions |-> before.redactions, flags |-> before.flags]
        /\ before.blockedBy \in SUBSET names /\ before.redactions \in SUBSET spans /\ before.flags \in SUBSET names
    BY DEF FindingsOf
  <2>4. /\ [before EXCEPT !.blockedBy = {r.name}] \in S
        /\ [before EXCEPT !.redactions = @ \cup fi] \in S
        /\ [before EXCEPT !.flags = @ \cup {r.name}] \in S
    BY <2>2, <2>3 DEF FindingsOf
  <2> HIDE DEF S
  <2>5. ApplyRule(before, r, fi) \in S
    BY <2>2, <2>4 DEF ApplyRule
  <2> QED
    BY <2>5 DEF fi, r
<1>3. \A i \in 1 .. n, before \in S : At(i, before) \in S
  BY <1>2
<1> HIDE DEF n, S, none
<1>4. G \in [1 .. n -> [S -> S]]
  <2> HIDE DEF At
  <2> QED
    BY <1>3
<1>5. \A i \in 1 .. n, before \in S : G[i][before] = At(i, before)
  OBVIOUS
<1> HIDE DEF G
<1>6. PICK f : Follows(f, S, none, n, G)
  BY <1>1, <1>4, RecursionExists
<1>7. f \in [0 .. n -> S] /\ f[0] = none /\ \A i \in 1 .. n : f[i] = G[i][f[i - 1]]
  BY <1>6 DEF Follows
<1>8. \A i \in 1 .. n : f[i] = At(i, f[i - 1])
  <2>1. \A i \in 1 .. n : i - 1 \in 0 .. n
    BY <1>1
  <2> HIDE DEF At
  <2> QED
    BY <1>5, <1>7, <2>1
<1>9. Evaluating(f, rules, when, text, nerFails)
  <2> DEFINE h == [i \in 0 .. n |-> IF i = 0 THEN NoFindings ELSE At(i, f[i - 1])]
  <2>1. \A i \in 0 .. n : i = 0 \/ i \in 1 .. n
    BY <1>1
  <2>2. \A i \in 0 .. n : f[i] = IF i = 0 THEN NoFindings ELSE At(i, f[i - 1])
    <3> HIDE DEF At
    <3> QED
      BY <1>7, <1>8, <2>1 DEF none
  <2>3. f = h
    <3> HIDE DEF At
    <3> QED
      BY <1>7, <2>2
  <2> QED
    BY <2>3 DEF Evaluating, n
<1> DEFINE out == CHOOSE g : Evaluating(g, rules, when, text, nerFails)
<1>10. Evaluating(out, rules, when, text, nerFails)
  BY <1>9
<1>11. Evaluate(rules, when, text, nerFails) = VerdictOn(out[n])
  BY DEF Evaluate, Evaluating, VerdictOn, n
<1> HIDE DEF out
<1>12. \A i \in 0 .. n : out[i] = IF i = 0 THEN NoFindings ELSE At(i, out[i - 1])
  BY <1>10 DEF Evaluating, n
<1> DEFINE Q(i) == CameTo(out[i], rules, i, when, text, nerFails)
           T == {i \in 0 .. n : out[i] \in S /\ Q(i)}
<1>13. 0 \in T
  <2>1. 0 \in 0 .. n /\ 1 .. 0 = {}
    BY <1>1
  <2>2. out[0] = NoFindings
    BY <1>12, <2>1
  <2>3. out[0].blockedBy = {} /\ out[0].redactions = {} /\ out[0].flags = {}
    BY <2>2 DEF NoFindings
  <2>4. Q(0)
    BY <2>1, <2>3 DEF CameTo
  <2> QED
    BY <1>1, <2>1, <2>2, <2>4 DEF none
<1>14. ASSUME NEW i \in 1 .. n, i - 1 \in T PROVE i \in T
  <2>1. i \in 0 .. n /\ i # 0 /\ out[i - 1] \in S /\ Q(i - 1)
    BY <1>1, <1>14
  <2>2. out[i] = At(i, out[i - 1])
    BY <1>12, <2>1
  <2>3. 1 .. i = (1 .. i - 1) \cup {i} /\ i \notin 1 .. i - 1
    BY <1>1
  <2>4. out[i] \in S
    BY <1>3, <2>1, <2>2
  <2>5. Q(i)
    <3> DEFINE b == out[i - 1]  a == out[i]
               hits(k) == RunsIn(rules[k], when) /\ F(k) # {}
               now == 1 .. i  past == 1 .. i - 1
    <3>1. b \in S /\ a = At(i, b) /\ now = past \cup {i} /\ i \notin past /\ i \in now
      BY <2>1, <2>2, <2>3
    <3>2. rules[i].action \in {"block", "redact", "flag"}
      BY DEF n
    <3>3. IF b.blockedBy # {}
          THEN \E k \in past : hits(k) /\ rules[k].action = "block" /\ b.blockedBy = {rules[k].name}
          ELSE /\ \A k \in past : hits(k) => rules[k].action # "block"
               /\ b.redactions = UNION {F(j) : j \in {k \in past : hits(k) /\ rules[k].action = "redact"}}
               /\ b.flags = {rules[j].name : j \in {k \in past : hits(k) /\ rules[k].action = "flag"}}
      BY <2>1 DEF CameTo
    <3> SUFFICES
          IF a.blockedBy # {}
          THEN \E k \in now : hits(k) /\ rules[k].action = "block" /\ a.blockedBy = {rules[k].name}
          ELSE /\ \A k \in now : hits(k) => rules[k].action # "block"
               /\ a.redactions = UNION {F(j) : j \in {k \in now : hits(k) /\ rules[k].action = "redact"}}
               /\ a.flags = {rules[j].name : j \in {k \in now : hits(k) /\ rules[k].action = "flag"}}
      BY DEF CameTo
    <3>4. a = IF Runs(i) THEN ApplyRule(b, rules[i], F(i)) ELSE b
      BY <3>1
    <3>5. b = [blockedBy |-> b.blockedBy, redactions |-> b.redactions, flags |-> b.flags]
      BY <3>1 DEF S, FindingsOf
    <3> HIDE DEF b, a, now, past, F, At
    <3>6. CASE b.blockedBy # {}
      <4>1. a = b
        BY <3>4, <3>6 DEF ApplyRule
      <4> QED
        BY <3>1, <3>3, <3>6, <4>1
    <3>7. CASE b.blockedBy = {} /\ ~hits(i)
      <4>1. a = b
        BY <3>4, <3>7 DEF ApplyRule
      <4>2. \A k \in now : hits(k) => k \in past
        BY <3>1, <3>7
      <4>3. /\ {k \in now : hits(k) /\ rules[k].action = "redact"} = {k \in past : hits(k) /\ rules[k].action = "redact"}
            /\ {k \in now : hits(k) /\ rules[k].action = "flag"} = {k \in past : hits(k) /\ rules[k].action = "flag"}
        BY <3>1, <4>2
      <4> HIDE DEF hits
      <4> QED
        BY <3>3, <3>7, <4>1, <4>2, <4>3
    <3>8. CASE b.blockedBy = {} /\ hits(i) /\ rules[i].action = "block"
      <4>1. a = [b EXCEPT !.blockedBy = {rules[i].name}]
        BY <3>4, <3>8 DEF ApplyRule
      <4>2. a.blockedBy = {rules[i].name}
        BY <3>5, <4>1
      <4> QED
        BY <3>1, <3>8, <4>2
    <3>9. CASE b.blockedBy = {} /\ hits(i) /\ rules[i].action = "redact"
      <4>1. a = [b EXCEPT !.redactions = @ \cup F(i)]
        BY <3>4, <3>9 DEF ApplyRule
      <4>2. a.blockedBy = {} /\ a.redactions = b.redactions \cup F(i) /\ a.flags = b.flags
        BY <3>5, <3>9, <4>1
      <4>3. /\ {k \in now : hits(k) /\ rules[k].action = "redact"}
                 = {k \in past : hits(k) /\ rules[k].action = "redact"} \cup {i}
            /\ {k \in now : hits(k) /\ rules[k].action = "flag"} = {k \in past : hits(k) /\ rules[k].action = "flag"}
        BY <3>1, <3>9
      <4>4. \A k \in now : hits(k) => rules[k].action # "block"
        BY <3>1, <3>3, <3>9
      <4> HIDE DEF hits
      <4>5. \A A : UNION {F(j) : j \in A \cup {i}} = (UNION {F(j) : j \in A}) \cup F(i)
        OBVIOUS
      <4> QED
        BY <3>3, <3>9, <4>2, <4>3, <4>4, <4>5
    <3>10. CASE b.blockedBy = {} /\ hits(i) /\ rules[i].action = "flag"
      <4>1. a = [b EXCEPT !.flags = @ \cup {rules[i].name}]
        BY <3>4, <3>10 DEF ApplyRule
      <4>2. a.blockedBy = {} /\ a.redactions = b.redactions /\ a.flags = b.flags \cup {rules[i].name}
        BY <3>5, <3>10, <4>1
      <4>3. /\ {k \in now : hits(k) /\ rules[k].action = "flag"}
                 = {k \in past : hits(k) /\ rules[k].action = "flag"} \cup {i}
            /\ {k \in now : hits(k) /\ rules[k].action = "redact"} = {k \in past : hits(k) /\ rules[k].action = "redact"}
        BY <3>1, <3>10
      <4>4. \A k \in now : hits(k) => rules[k].action # "block"
        BY <3>1, <3>3, <3>10
      <4> HIDE DEF hits
      <4>5. \A A : {rules[j].name : j \in A \cup {i}} = {rules[j].name : j \in A} \cup {rules[i].name}
        OBVIOUS
      <4> QED
        BY <3>3, <3>10, <4>2, <4>3, <4>4, <4>5
    <3> QED
      BY <3>2, <3>6, <3>7, <3>8, <3>9, <3>10
  <2> QED
    BY <2>1, <2>4, <2>5
<1>15. n \in T
  <2> HIDE DEF T
  <2>1. \A i \in 0 .. n : i \in T
    BY <1>1, <1>13, <1>14, UpTo
  <2>2. n \in 0 .. n
    BY <1>1
  <2> QED
    BY <2>1, <2>2
<1>16. CameTo(out[n], rules, n, when, text, nerFails)
  BY <1>15
<1> QED
  BY <1>11, <1>16 DEF n
-----------------------------------------------------------------------------
(* The spans of a redaction *)

SpanOf(n) == [start : 1 .. n, end : 1 .. n + 1]

\* What the sweep has done with the spans that start at i or before.
Swept(out, found, i) ==
    /\ \A k \in 1 .. Len(out) : out[k].start < out[k].end /\ out[k].start <= i
    /\ \A k \in 1 .. Len(out) - 1 : out[k].end <= out[k + 1].start
    /\ \A s \in found : s.start <= i => \E k \in 1 .. Len(out) : out[k].start <= s.start /\ s.end <= out[k].end
    /\ \A k \in 1 .. Len(out) : \A x \in out[k].start .. out[k].end - 1 :
          \E s \in found : s.start <= x /\ x <= s.end - 1

\* One place of the sweep.
SweptMore(spans, i, before) ==
    IF Ends(spans, i) = {} THEN before
    ELSE IF before = <<>> \/ i >= Last(before).end
    THEN Append(before, [start |-> i, end |-> Max(Ends(spans, i))])
    ELSE [before EXCEPT ![Len(before)].end = Max({@} \cup Ends(spans, i))]

\* The function of MergeSpans.
Sweeping(g, spans) ==
    g = [i \in 0 .. Max(Starts(spans)) |-> SweptMore(spans, i, IF i = 0 THEN <<>> ELSE g[i - 1])]

\* One step of the sweep.
LEMMA SweepStep ==
    ASSUME NEW n \in Nat, NEW found, Bounded(found, n), NEW i \in 1 .. n, NEW before \in Seq(SpanOf(n))
    PROVE  /\ SweptMore(found, i, before) \in Seq(SpanOf(n))
           /\ Swept(before, found, i - 1) => Swept(SweptMore(found, i, before), found, i)
<1> DEFINE E == Ends(found, i)  e == Max(E)  m == Len(before)  out == SweptMore(found, i, before)
<1>1. \A s \in found : s.start \in 1 .. n /\ s.end \in s.start + 1 .. n + 1
  BY DEF Bounded
<1>2. E \subseteq 0 .. n + 1 /\ (\A s \in found : s.start = i => s.end \in E)
      /\ \A x \in E : \E s \in found : s.start = i /\ s.end = x
  BY <1>1 DEF Ends
<1>3. \A x \in E : x \in i + 1 .. n + 1
  BY <1>1, <1>2
<1>4. \A s \in found : s.start <= i => s.start <= i - 1 \/ s.start = i
  BY <1>1
<1>5. CASE E = {}
  <2>1. out = before
    BY <1>5 DEF SweptMore
  <2>2. \A s \in found : s.start <= i => s.start <= i - 1
    BY <1>2, <1>4, <1>5
  <2>3. ASSUME Swept(before, found, i - 1) PROVE Swept(before, found, i)
    <3>1. \A k \in 1 .. m : before[k] \in SpanOf(n)
      OBVIOUS
    <3>2. \A k \in 1 .. m : before[k].start \in 1 .. n
      BY <3>1 DEF SpanOf
    <3>3. \A k \in 1 .. m : before[k].start <= i - 1 /\ before[k].start < before[k].end
      BY <2>3 DEF Swept
    <3>4. \A k \in 1 .. m : before[k].start <= i
      BY <3>2, <3>3
    <3> HIDE DEF E
    <3> QED
      BY <2>2, <2>3, <3>4 DEF Swept
  <2> QED
    BY <2>1, <2>3
<1>6. CASE E # {}
  <2>1. e \in E /\ \A x \in E : x <= e
    <3> HIDE DEF E
    <3>1. n + 1 \in Nat
      OBVIOUS
    <3> QED
      BY <1>2, <1>6, <3>1, MaxOf
  <2>2. e \in i + 1 .. n + 1 /\ \E s \in found : s.start = i /\ s.end = e
    BY <1>2, <1>3, <2>1
  <2>3. \A s \in found : s.start = i => s.end <= e
    BY <1>2, <2>1
  <2>4. m \in Nat /\ \A k \in 1 .. m : before[k] \in SpanOf(n)
    OBVIOUS
  <2>5. \A k \in 1 .. m : before[k].start \in 1 .. n /\ before[k].end \in 1 .. n + 1
    BY <2>4 DEF SpanOf
  <2>6. before # <<>> => m \in 1 .. m /\ Last(before) = before[m]
    BY <2>4 DEF Last
  <2>7. CASE before = <<>> \/ i >= Last(before).end
    <3> DEFINE new == [start |-> i, end |-> e]
    <3>1. out = Append(before, new)
      BY <1>6, <2>7 DEF SweptMore
    <3>2. new \in SpanOf(n) /\ new.start = i /\ new.end = e
      BY <2>2 DEF SpanOf
    <3> HIDE DEF new, out
    <3>3. out \in Seq(SpanOf(n)) /\ Len(out) = m + 1 /\ out[m + 1] = new /\ \A k \in 1 .. m : out[k] = before[k]
      BY <3>1, <3>2
    <3>4. ASSUME Swept(before, found, i - 1) PROVE Swept(out, found, i)
      <4>0. /\ \A k \in 1 .. m : before[k].start < before[k].end /\ before[k].start <= i - 1
            /\ \A k \in 1 .. m - 1 : before[k].end <= before[k + 1].start
            /\ \A s \in found : s.start <= i - 1 =>
                  \E k \in 1 .. m : before[k].start <= s.start /\ s.end <= before[k].end
            /\ \A k \in 1 .. m : \A x \in before[k].start .. before[k].end - 1 :
                  \E s \in found : s.start <= x /\ x <= s.end - 1
        BY <3>4 DEF Swept
      <4> HIDE DEF m, e, E
      <4>1. \A k \in 1 .. m + 1 : k \in 1 .. m \/ k = m + 1
        BY <2>4
      <4>2. \A k \in 1 .. m + 1 : out[k].start < out[k].end /\ out[k].start <= i
        BY <2>2, <2>5, <3>2, <3>3, <4>0, <4>1
      <4>3. ASSUME NEW k \in 1 .. m PROVE out[k].end <= out[k + 1].start
        <5>1. k \in 1 .. m - 1 \/ k = m
          BY <2>4
        <5>2. CASE k \in 1 .. m - 1
          <6>1. k + 1 \in 1 .. m
            BY <2>4, <5>2
          <6> QED
            BY <3>3, <4>0, <5>2, <6>1
        <5>3. CASE k = m
          <6>1. before # <<>>
            BY <2>4, <5>3 DEF m
          <6> QED
            BY <2>5, <2>6, <2>7, <3>2, <3>3, <5>3, <6>1
        <5> QED
          BY <5>1, <5>2, <5>3
      <4>4. ASSUME NEW s \in found, s.start <= i
            PROVE  \E k \in 1 .. m + 1 : out[k].start <= s.start /\ s.end <= out[k].end
        <5>1. CASE s.start = i
          <6>1. m + 1 \in 1 .. m + 1 /\ i <= i
            BY <2>4
          <6> QED
            BY <2>3, <3>2, <3>3, <5>1, <6>1
        <5>2. CASE s.start <= i - 1
          <6>1. PICK k \in 1 .. m : before[k].start <= s.start /\ s.end <= before[k].end
            BY <4>0, <5>2
          <6>2. k \in 1 .. m + 1
            BY <2>4
          <6> QED
            BY <3>3, <6>1, <6>2
        <5> QED
          BY <1>4, <4>4, <5>1, <5>2
      <4>5. ASSUME NEW k \in 1 .. m + 1, NEW x \in out[k].start .. out[k].end - 1
            PROVE  \E s \in found : s.start <= x /\ x <= s.end - 1
        <5>1. CASE k \in 1 .. m
          BY <3>3, <4>0, <4>5, <5>1
        <5>2. CASE k = m + 1
          <6>1. x \in i .. e - 1
            BY <3>2, <3>3, <4>5, <5>2
          <6> QED
            BY <2>2, <6>1
        <5> QED
          BY <4>1, <5>1, <5>2
      <4>6. (m + 1) - 1 = m
        BY <2>4
      <4> QED
        BY <3>3, <4>2, <4>3, <4>4, <4>5, <4>6 DEF Swept
    <3> QED
      BY <3>3, <3>4 DEF out
  <2>8. CASE before # <<>> /\ ~(i >= Last(before).end)
    <3> DEFINE M == {before[m].end} \cup E
               z == Max(M)
    <3>1. m \in 1 .. m /\ before[m].end \in 1 .. n + 1 /\ before[m].start \in 1 .. n /\ i < before[m].end
      BY <2>5, <2>6, <2>8
    <3>2. z \in M /\ \A x \in M : x <= z
      <4>1. M \in SUBSET (0 .. n + 1) /\ M # {} /\ n + 1 \in Nat
        BY <1>2, <3>1
      <4> HIDE DEF M
      <4> QED
        BY <4>1, MaxOf
    <3>3. z \in 1 .. n + 1 /\ before[m].end <= z /\ e <= z /\ (z = before[m].end \/ z = e)
      <4>1. z = before[m].end \/ z \in E
        BY <3>2
      <4>2. e \in M /\ before[m].end \in M
        BY <2>1
      <4> HIDE DEF M, E, e, z
      <4>3. e <= z /\ before[m].end <= z
        BY <3>2, <4>2
      <4>4. z \in E => z = e
        BY <1>3, <2>1, <4>3
      <4> QED
        BY <2>2, <3>1, <4>1, <4>3, <4>4
    <3> DEFINE new == [before[m] EXCEPT !.end = z]
    <3>4. out = [before EXCEPT ![m].end = z]
      BY <1>6, <2>8 DEF SweptMore
    <3>5. new \in SpanOf(n) /\ new.start = before[m].start /\ new.end = z
      <4> HIDE DEF m, z
      <4>1. before[m] \in SpanOf(n)
        BY <2>4, <3>1
      <4> QED
        BY <3>3, <4>1 DEF SpanOf
    <3>6. out = [before EXCEPT ![m] = new]
      BY <3>4
    <3> HIDE DEF new, out, z, M
    <3>7. out \in Seq(SpanOf(n)) /\ Len(out) = m /\ out[m] = new /\ \A k \in 1 .. m - 1 : out[k] = before[k]
      BY <2>4, <3>1, <3>5, <3>6
    <3>8. ASSUME Swept(before, found, i - 1) PROVE Swept(out, found, i)
      <4>0. /\ \A k \in 1 .. m : before[k].start < before[k].end /\ before[k].start <= i - 1
            /\ \A k \in 1 .. m - 1 : before[k].end <= before[k + 1].start
            /\ \A s \in found : s.start <= i - 1 =>
                  \E k \in 1 .. m : before[k].start <= s.start /\ s.end <= before[k].end
            /\ \A k \in 1 .. m : \A x \in before[k].start .. before[k].end - 1 :
                  \E s \in found : s.start <= x /\ x <= s.end - 1
        BY <3>8 DEF Swept
      <4> HIDE DEF m, e, E
      <4>1. \A k \in 1 .. m : k \in 1 .. m - 1 \/ k = m
        BY <2>4
      <4>7. \A k \in 1 .. m : out[k].start = before[k].start /\ before[k].end <= out[k].end
        BY <2>5, <3>3, <3>5, <3>7, <4>1, SMTT(40)
      <4>8. \A k \in 1 .. m : out[k].end \in 1 .. n + 1
        BY <2>5, <3>3, <3>5, <3>7, <4>1
      <4>2. \A k \in 1 .. m : out[k].start < out[k].end /\ out[k].start <= i
        BY <2>5, <4>0, <4>7, <4>8
      <4>3. ASSUME NEW k \in 1 .. m - 1 PROVE out[k].end <= out[k + 1].start
        <5>1. k + 1 \in 1 .. m
          BY <2>4
        <5> QED
          BY <3>7, <4>0, <4>7, <5>1
      <4>4. ASSUME NEW s \in found, s.start <= i
            PROVE  \E k \in 1 .. m : out[k].start <= s.start /\ s.end <= out[k].end
        <5>1. CASE s.start = i
          <6>1. before[m].start <= i - 1
            BY <3>1, <4>0
          <6>2. out[m].start <= s.start /\ s.end <= out[m].end
            BY SMTT(30), <1>1, <2>2, <2>3, <3>1, <3>3, <3>5, <3>7, <5>1, <6>1
          <6> QED
            BY <3>1, <6>2
        <5>2. CASE s.start <= i - 1
          <6>1. PICK k \in 1 .. m : before[k].start <= s.start /\ s.end <= before[k].end
            BY <4>0, <5>2
          <6>2. out[k].start <= s.start /\ s.end <= out[k].end
            BY <1>1, <2>5, <4>7, <4>8, <6>1
          <6> QED
            BY <6>2
        <5> QED
          BY <1>4, <4>4, <5>1, <5>2
      <4>5. ASSUME NEW k \in 1 .. m, NEW x \in out[k].start .. out[k].end - 1
            PROVE  \E s \in found : s.start <= x /\ x <= s.end - 1
        <5>1. CASE x \in before[k].start .. before[k].end - 1
          BY <4>0, <5>1
        <5>2. CASE k = m /\ x \notin before[k].start .. before[k].end - 1
          <6>1. x \in before[m].start .. z - 1 /\ x \notin before[m].start .. before[m].end - 1
            BY <3>5, <3>7, <4>5, <5>2
          <6>2. z = e
            BY <3>3, <6>1
          <6>3. i <= x /\ x <= e - 1
            BY <2>2, <3>1, <6>1, <6>2
          <6> QED
            BY <2>2, <6>3
        <5> QED
          BY <3>7, <4>1, <4>5, <5>1, <5>2
      <4> QED
        BY <3>7, <4>2, <4>3, <4>4, <4>5 DEF Swept
    <3> QED
      BY <3>7, <3>8 DEF out
  <2> QED
    BY <2>7, <2>8
<1> QED
  BY <1>5, <1>6

\* The spans that merge_spans gives.
LEMMA MergeSpansIs ==
    ASSUME NEW n \in Nat, NEW found, Bounded(found, n)
    PROVE  /\ MergeSpans(found) \in Seq(SpanOf(n))
           /\ Swept(MergeSpans(found), found, Max(Starts(found)))
           /\ \A s \in found : s.start <= Max(Starts(found))
<1> DEFINE none == <<>>  S == Seq(SpanOf(n))  top == Max(Starts(found))
           At(i, before) == SweptMore(found, i, before)
           G == [i \in 1 .. top |-> [before \in S |-> At(i, before)]]
<1>0. \A s \in found : s.start \in 1 .. n
  BY DEF Bounded
<1>1. top \in 0 .. n /\ \A s \in found : s.start <= top
  <2>1. Starts(found) \in SUBSET (0 .. n) /\ Starts(found) # {} /\ \A s \in found : s.start \in Starts(found)
    BY <1>0 DEF Starts
  <2>2. top \in Starts(found) /\ \A x \in Starts(found) : x <= top
    BY <2>1, MaxOf
  <2> QED
    BY <2>1, <2>2
<1> HIDE DEF top
<1>2. top \in Nat /\ none \in S /\ \A i \in 1 .. top : i \in 1 .. n
  BY <1>1
<1>3. \A i \in 1 .. top, before \in S : At(i, before) \in S
  BY <1>2, SweepStep
<1> HIDE DEF S, none
<1>4. G \in [1 .. top -> [S -> S]]
  <2> HIDE DEF At
  <2> QED
    BY <1>3
<1>5. \A i \in 1 .. top, before \in S : G[i][before] = At(i, before)
  OBVIOUS
<1> HIDE DEF G
<1>6. PICK f : Follows(f, S, none, top, G)
  BY <1>2, <1>4, RecursionExists
<1>7. f \in [0 .. top -> S] /\ f[0] = none /\ \A i \in 1 .. top : f[i] = G[i][f[i - 1]]
  BY <1>6 DEF Follows
<1>8. \A i \in 1 .. top : f[i] = At(i, f[i - 1])
  <2>1. \A i \in 1 .. top : i - 1 \in 0 .. top
    BY <1>2
  <2> HIDE DEF At
  <2> QED
    BY <1>5, <1>7, <2>1
<1>9. At(0, none) = none
  <2>1. Ends(found, 0) = {}
    BY <1>0 DEF Ends
  <2> QED
    BY <2>1 DEF SweptMore
<1>10. Sweeping(f, found)
  <2> DEFINE h == [i \in 0 .. top |-> At(i, IF i = 0 THEN <<>> ELSE f[i - 1])]
  <2>1. \A i \in 0 .. top : i = 0 \/ i \in 1 .. top
    BY <1>2
  <2>2. \A i \in 0 .. top : f[i] = At(i, IF i = 0 THEN <<>> ELSE f[i - 1])
    <3> HIDE DEF At
    <3> QED
      BY <1>7, <1>8, <1>9, <2>1 DEF none
  <2>3. f = h
    <3> HIDE DEF At
    <3> QED
      BY <1>7, <2>2
  <2> QED
    BY <2>3 DEF Sweeping, top
<1> DEFINE out == CHOOSE g : Sweeping(g, found)
<1>11. Sweeping(out, found)
  BY <1>10
<1>12. MergeSpans(found) = out[top]
  BY DEF MergeSpans, Sweeping, SweptMore, top
<1> HIDE DEF out
<1>13. \A i \in 0 .. top : out[i] = At(i, IF i = 0 THEN <<>> ELSE out[i - 1])
  BY <1>11 DEF Sweeping, top
<1> DEFINE T == {i \in 0 .. top : out[i] \in Seq(SpanOf(n)) /\ Swept(out[i], found, i)}
<1>14. 0 \in T
  <2>1. 0 \in 0 .. top
    BY <1>2
  <2>2. out[0] = <<>>
    BY <1>9, <1>13, <2>1 DEF none
  <2>3. Swept(<<>>, found, 0)
    <3>1. Len(<<>>) = 0 /\ 1 .. 0 = {} /\ 1 .. 0 - 1 = {}
      OBVIOUS
    <3>2. \A s \in found : ~(s.start <= 0)
      BY <1>0
    <3> QED
      BY <3>1, <3>2 DEF Swept
  <2>4. out[0] \in Seq(SpanOf(n)) /\ Swept(out[0], found, 0)
    BY <2>2, <2>3
  <2> QED
    BY <2>1, <2>4
<1>15. ASSUME NEW i \in 1 .. top, i - 1 \in T PROVE i \in T
  <2>1. i \in 0 .. top /\ i # 0 /\ i \in 1 .. n /\ out[i - 1] \in Seq(SpanOf(n)) /\ Swept(out[i - 1], found, i - 1)
    BY <1>2, <1>15
  <2>2. out[i] = SweptMore(found, i, out[i - 1])
    BY <1>13, <2>1
  <2>3. out[i] \in Seq(SpanOf(n)) /\ Swept(out[i], found, i)
    BY <2>1, <2>2, SweepStep
  <2> QED
    BY <2>1, <2>3
<1>16. top \in T
  <2> HIDE DEF T
  <2>1. \A i \in 0 .. top : i \in T
    BY <1>2, <1>14, <1>15, UpTo
  <2>2. top \in 0 .. top
    BY <1>2
  <2> QED
    BY <2>1, <2>2
<1> QED
  BY <1>1, <1>12, <1>16 DEF top
-----------------------------------------------------------------------------
(* The verdict *)

\* The rules and the body that are at hand.
LEMMA GuardHand ==
    ASSUME guardRules \in RuleLists, guarded \in ScannedBodies
    PROVE  /\ Len(guardRules) \in Nat
           /\ \A i \in 1 .. Len(guardRules) : guardRules[i] \in Range(guardRules)
           /\ \A r \in Range(guardRules) : \E i \in 1 .. Len(guardRules) : r = guardRules[i]
           /\ \A r \in Range(guardRules) : /\ r.kind \in {"prompt_injection", "banned_content", "contact_info"}
                                           /\ r.action \in {"block", "redact", "flag"}
           /\ \E Y : /\ GuardText \in Seq(Y)
                     /\ \A f \in CollectedFields(guarded, guardPhase) :
                           f.text \in Seq(Y) /\ Part(f.text, GuardText)
<1>1. guardRules \in Seq(Range(guardRules))
      /\ \A r \in Range(guardRules) : /\ r.kind \in {"prompt_injection", "banned_content", "contact_info"}
                                      /\ r.action \in {"block", "redact", "flag"}
  BY RuleAssumption
<1>2. /\ Len(guardRules) \in Nat /\ DOMAIN guardRules = 1 .. Len(guardRules)
      /\ \A i \in 1 .. Len(guardRules) : guardRules[i] \in Range(guardRules)
      /\ \A r \in Range(guardRules) : \E i \in 1 .. Len(guardRules) : r = guardRules[i]
  <2>1. Len(guardRules) \in Nat /\ DOMAIN guardRules = 1 .. Len(guardRules)
    BY <1>1
  <2> QED
    BY <2>1 DEF Range
<1>3. \E Y : /\ GuardText \in Seq(Y)
             /\ \A f \in CollectedFields(guarded, guardPhase) : f.text \in Seq(Y) /\ Part(f.text, GuardText)
  <2>1. guarded \in Seq(Range(guarded)) /\ \A f \in Range(guarded) : f.text \in Seq(Range(f.text))
    BY BodyAssumption
  <2> DEFINE m == Len(guarded)
             Y == {Separator} \cup UNION {Range(guarded[i].text) : i \in 1 .. m}
  <2>2. m \in Nat /\ DOMAIN guarded = 1 .. m
    BY <2>1
  <2>3. ASSUME NEW i \in 1 .. m PROVE guarded[i].text \in Seq(Y)
    <3> DEFINE t == guarded[i].text
    <3>1. guarded[i] \in Range(guarded)
      BY <2>2 DEF Range
    <3>2. t \in Seq(Range(t))
      BY <2>1, <3>1
    <3>3. Range(t) \subseteq Y
      OBVIOUS
    <3> HIDE DEF t, Y
    <3>4. t \in Seq(Y)
      BY <3>2, <3>3
    <3> QED
      BY <3>4 DEF t
  <2>4. Separator \in Y
    OBVIOUS
  <2> HIDE DEF Y
  <2>5. /\ CollectText(guarded, guardPhase) \in Seq(Y)
        /\ \A f \in CollectedFields(guarded, guardPhase) :
              f.text \in Seq(Y) /\ Part(f.text, CollectText(guarded, guardPhase))
    BY <2>2, <2>3, <2>4, Collected
  <2> QED
    BY <2>5 DEF GuardText
<1> QED
  BY <1>1, <1>2, <1>3

\* What a verdict says of what the rules came to.
LEMMA VerdictOnIs ==
    ASSUME NEW out, NEW given, given = VerdictOn(out)
    PROVE  /\ out.blockedBy # {} => given.verdict = "block" /\ given.of = out.blockedBy
           /\ out.blockedBy = {} =>
                 /\ given.verdict = IF out.redactions # {} THEN "redact" ELSE IF out.flags # {} THEN "flag" ELSE "allow"
                 /\ given.of = {} \/ given.of = out.flags
                 /\ given.verdict = "redact" => given.spans = MergeSpans(out.redactions)
<1>1. CASE out.blockedBy # {}
  <2>1. given = [verdict |-> "block", of |-> out.blockedBy, spans |-> <<>>]
    BY <1>1 DEF VerdictOn
  <2> QED
    BY <1>1, <2>1
<1>2. CASE out.blockedBy = {} /\ out.redactions # {}
  <2>1. given = [verdict |-> "redact", of |-> {}, spans |-> MergeSpans(out.redactions)]
    BY <1>2 DEF VerdictOn
  <2> QED
    BY <1>2, <2>1
<1>3. CASE out.blockedBy = {} /\ out.redactions = {} /\ out.flags # {}
  <2>1. given = [verdict |-> "flag", of |-> out.flags, spans |-> <<>>]
    BY <1>3 DEF VerdictOn
  <2> QED
    BY <1>3, <2>1
<1>4. CASE out.blockedBy = {} /\ out.redactions = {} /\ out.flags = {}
  <2>1. given = [verdict |-> "allow", of |-> {}, spans |-> <<>>]
    BY <1>4 DEF VerdictOn
  <2> QED
    BY <1>4, <2>1
<1> QED
  BY <1>1, <1>2, <1>3, <1>4

\* Every verdict stands.
LEMMA VerdictHolds ==
    ASSUME guardRules \in RuleLists, guarded \in ScannedBodies
    PROVE  VerdictStands
<1> DEFINE n == Len(guardRules)  text == GuardText  when == guardPhase  nf == modelFails
           F(r) == Find(r, text, nf)
<1>1. /\ n \in Nat
      /\ \A i \in 1 .. n : guardRules[i] \in Range(guardRules)
      /\ \A r \in Range(guardRules) : \E i \in 1 .. n : r = guardRules[i]
      /\ \A r \in Range(guardRules) : /\ r.kind \in {"prompt_injection", "banned_content", "contact_info"}
                                      /\ r.action \in {"block", "redact", "flag"}
  BY GuardHand
<1>2. PICK Y : /\ text \in Seq(Y)
               /\ \A f \in CollectedFields(guarded, guardPhase) : f.text \in Seq(Y) /\ Part(f.text, text)
  BY GuardHand
<1>3. PICK out : Verdict = VerdictOn(out) /\ CameTo(out, guardRules, n, when, text, nf)
  BY <1>1, EvaluateIs DEF Verdict
<1>31. /\ out.blockedBy # {} => Verdict.verdict = "block" /\ Verdict.of = out.blockedBy
       /\ out.blockedBy = {} =>
             /\ Verdict.verdict = IF out.redactions # {} THEN "redact" ELSE IF out.flags # {} THEN "flag" ELSE "allow"
             /\ Verdict.of = {} \/ Verdict.of = out.flags
             /\ Verdict.verdict = "redact" => Verdict.spans = MergeSpans(out.redactions)
  BY <1>3, VerdictOnIs
<1>4. ASSUME NEW r \in Running, MeantText(r) PROVE F(r) # {}
  <2>1. r.kind \in {"prompt_injection", "banned_content", "contact_info"}
    BY <1>1 DEF Running
  <2>2. PICK f \in CollectedFields(guarded, guardPhase) : Meant(r, f)
    BY <1>4 DEF MeantText
  <2> QED
    BY <1>2, <2>1, <2>2, MeantIsFound
<1>5. \A r \in Running : \E i \in 1 .. n : r = guardRules[i] /\ RunsIn(guardRules[i], when)
  BY <1>1 DEF Running
<1>6. \A i \in 1 .. n : RunsIn(guardRules[i], when) => guardRules[i] \in Running
  BY <1>1 DEF Running
<1>7. \A r \in Running : r.action \in {"block", "redact", "flag"}
  BY <1>1 DEF Running
<1> DEFINE hits(i) == RunsIn(guardRules[i], when) /\ F(guardRules[i]) # {}
<1>8. IF out.blockedBy # {}
      THEN \E i \in 1 .. n : hits(i) /\ guardRules[i].action = "block" /\ out.blockedBy = {guardRules[i].name}
      ELSE /\ \A i \in 1 .. n : hits(i) => guardRules[i].action # "block"
           /\ out.redactions = UNION {F(guardRules[i]) : i \in {k \in 1 .. n : hits(k) /\ guardRules[k].action = "redact"}}
           /\ out.flags = {guardRules[i].name : i \in {k \in 1 .. n : hits(k) /\ guardRules[k].action = "flag"}}
  BY <1>3 DEF CameTo
<1>9. RulesActedOn
  <2> HIDE DEF n, text, when, nf, F
  <2>1. CASE out.blockedBy # {}
    <3>1. Verdict.verdict = "block" /\ Verdict.of = out.blockedBy
      BY <1>31, <2>1
    <3>2. PICK i \in 1 .. n : hits(i) /\ out.blockedBy = {guardRules[i].name}
      BY <1>8, <2>1
    <3>3. guardRules[i] \in Running /\ F(guardRules[i]) # {}
      BY <1>6, <3>2
    <3> QED
      BY <1>7, <3>1, <3>2, <3>3 DEF RulesActedOn, F, text, nf
  <2>2. CASE out.blockedBy = {}
    <3>1. /\ \A i \in 1 .. n : hits(i) => guardRules[i].action # "block"
          /\ out.redactions = UNION {F(guardRules[i]) : i \in {k \in 1 .. n : hits(k) /\ guardRules[k].action = "redact"}}
          /\ out.flags = {guardRules[i].name : i \in {k \in 1 .. n : hits(k) /\ guardRules[k].action = "flag"}}
      BY <1>8, <2>2
    <3>2. ASSUME NEW r \in Running, MeantText(r)
          PROVE  /\ r.action # "block"
                 /\ r.action = "redact" => out.redactions # {}
                 /\ r.action = "flag" => out.flags # {}
      <4>1. PICK i \in 1 .. n : r = guardRules[i] /\ RunsIn(guardRules[i], when)
        BY <1>5
      <4>2. hits(i) /\ F(r) # {} /\ F(guardRules[i]) = F(r) /\ guardRules[i].action = r.action
        BY <1>4, <3>2, <4>1
      <4> HIDE DEF hits
      <4>3. r.action # "block"
        BY <3>1, <4>1, <4>2
      <4>4. ASSUME r.action = "redact" PROVE out.redactions # {}
        <5>1. i \in {k \in 1 .. n : hits(k) /\ guardRules[k].action = "redact"}
          BY <4>2, <4>4
        <5>2. F(guardRules[i]) \subseteq out.redactions
          BY <3>1, <5>1
        <5> QED
          BY <4>2, <5>2
      <4>5. ASSUME r.action = "flag" PROVE out.flags # {}
        <5>1. i \in {k \in 1 .. n : hits(k) /\ guardRules[k].action = "flag"}
          BY <4>2, <4>5
        <5>2. guardRules[i].name \in out.flags
          BY <3>1, <5>1
        <5> QED
          BY <5>2
      <4> QED
        BY <4>3, <4>4, <4>5
    <3>3. /\ Verdict.verdict = IF out.redactions # {} THEN "redact" ELSE IF out.flags # {} THEN "flag" ELSE "allow"
          /\ Verdict.of \subseteq out.flags
      BY <1>31, <2>2
    <3>4. ASSUME NEW name \in Verdict.of PROVE \E r \in Running : r.name = name /\ F(r) # {}
      <4>1. PICK i \in 1 .. n : hits(i) /\ name = guardRules[i].name
        BY <3>1, <3>3
      <4> QED
        BY <1>6, <4>1
    <3> QED
      BY <1>7, <3>2, <3>3, <3>4 DEF RulesActedOn, F, text, nf
  <2> QED
    BY <2>1, <2>2
<1>10. SpansMerged
  <2> DEFINE found == UNION {F(r) : r \in {q \in Running : Redacting(q)}}
  <2> SUFFICES ASSUME Verdict.verdict = "redact"
               PROVE  /\ Positions(Range(Verdict.spans)) = Positions(found)
                      /\ \A i \in 1 .. Len(Verdict.spans) - 1 : Verdict.spans[i].end <= Verdict.spans[i + 1].start
                      /\ \A s \in found : \E i \in DOMAIN Verdict.spans :
                            Verdict.spans[i].start <= s.start /\ s.end <= Verdict.spans[i].end
    BY DEF SpansMerged, text, nf, F
  <2>1. out.blockedBy = {} /\ Verdict.spans = MergeSpans(out.redactions)
    BY <1>31
  <2>2. out.redactions = found
    <3> HIDE DEF n, text, when, nf, F
    <3>1. out.redactions = UNION {F(guardRules[i]) : i \in {k \in 1 .. n : hits(k) /\ guardRules[k].action = "redact"}}
      BY <1>8, <2>1
    <3>2. ASSUME NEW s \in out.redactions PROVE s \in found
      <4>1. PICK i \in {k \in 1 .. n : hits(k) /\ guardRules[k].action = "redact"} : s \in F(guardRules[i])
        BY <3>1
      <4>2. guardRules[i] \in Running /\ Redacting(guardRules[i])
        BY <1>6, <4>1 DEF Redacting
      <4> QED
        BY <4>1, <4>2
    <3>3. ASSUME NEW s \in found PROVE s \in out.redactions
      <4>1. PICK r \in Running : Redacting(r) /\ s \in F(r)
        OBVIOUS
      <4>2. PICK i \in 1 .. n : r = guardRules[i] /\ RunsIn(guardRules[i], when)
        BY <1>5
      <4>3. i \in {k \in 1 .. n : hits(k) /\ guardRules[k].action = "redact"}
        BY <4>1, <4>2 DEF Redacting
      <4> HIDE DEF hits
      <4> QED
        BY <3>1, <4>1, <4>2, <4>3
    <3> QED
      BY <3>2, <3>3
  <2>3. Len(text) \in Nat /\ Bounded(found, Len(text))
    <3>1. \A r \in Running : Bounded(F(r), Len(text))
      <4> TAKE r \in Running
      <4>1. r.kind \in {"prompt_injection", "banned_content", "contact_info"}
        BY <1>1 DEF Running
      <4> QED
        BY <1>2, <4>1, FindIs
    <3>2. Len(text) \in Nat
      BY <1>2
    <3> HIDE DEF F, text
    <3> QED
      BY <3>1, <3>2 DEF Bounded
  <2> DEFINE m == Len(text)  top == Max(Starts(found))  spans == MergeSpans(found)
  <2> HIDE DEF found
  <2>4. spans \in Seq(SpanOf(m)) /\ Swept(spans, found, top) /\ \A s \in found : s.start <= top
    BY <2>3, MergeSpansIs
  <2>5. Verdict.spans = spans
    BY <2>1, <2>2
  <2>6. m \in Nat /\ Bounded(found, m)
    BY <2>3
  <2> HIDE DEF spans, m, top
  <2>7. Len(spans) \in Nat /\ DOMAIN spans = 1 .. Len(spans) /\ \A k \in 1 .. Len(spans) : spans[k] \in SpanOf(m)
    BY <2>4
  <2>8. \A k \in 1 .. Len(spans) : spans[k].start \in Int /\ spans[k].end \in Int
    BY <2>6, <2>7 DEF SpanOf
  <2>9. /\ \A k \in 1 .. Len(spans) - 1 : spans[k].end <= spans[k + 1].start
        /\ \A s \in found : \E k \in 1 .. Len(spans) : spans[k].start <= s.start /\ s.end <= spans[k].end
        /\ \A k \in 1 .. Len(spans) : \A x \in spans[k].start .. spans[k].end - 1 :
              \E s \in found : s.start <= x /\ x <= s.end - 1
    BY <2>4 DEF Swept
  <2>10. \A s \in found : s.start \in Int /\ s.end \in Int
    BY <2>6 DEF Bounded
  <2>11. ASSUME NEW x \in Positions(Range(spans)) PROVE x \in Positions(found)
    <3>1. PICK p \in Range(spans) : x \in p.start .. p.end - 1
      BY DEF Positions
    <3>2. PICK k \in 1 .. Len(spans) : p = spans[k]
      BY <2>7 DEF Range
    <3>3. PICK s \in found : s.start <= x /\ x <= s.end - 1
      BY <2>9, <3>1, <3>2
    <3>4. x \in s.start .. s.end - 1
      BY <2>8, <2>10, <3>1, <3>2, <3>3
    <3> QED
      BY <3>4 DEF Positions
  <2>12. ASSUME NEW x \in Positions(found) PROVE x \in Positions(Range(spans))
    <3>1. PICK s \in found : x \in s.start .. s.end - 1
      BY DEF Positions
    <3>2. PICK k \in 1 .. Len(spans) : spans[k].start <= s.start /\ s.end <= spans[k].end
      BY <2>9
    <3>3. x \in spans[k].start .. spans[k].end - 1
      BY <2>8, <2>10, <3>1, <3>2
    <3>4. spans[k] \in Range(spans)
      BY <2>7 DEF Range
    <3> QED
      BY <3>3, <3>4 DEF Positions
  <2>13. Positions(Range(spans)) = Positions(found)
    BY <2>11, <2>12
  <2> QED
    BY <2>5, <2>7, <2>9, <2>13
<1> QED
  BY <1>9, <1>10 DEF VerdictStands

\* The verdict on a text is the one its rules call for.
THEOREM VerdictsStand == GuardSpec => []VerdictStands
<1> DEFINE Inv == guardRules \in RuleLists /\ guarded \in ScannedBodies
<1>1. GuardInit => Inv
  BY DEF GuardInit
<1>2. Inv /\ [UNCHANGED <<guardVars, policy>>]_<<guardVars, policy>> => Inv'
  BY DEF guardVars
<1>3. Inv => VerdictStands
  BY VerdictHolds
<1> QED
  BY <1>1, <1>2, <1>3, PTL DEF GuardSpec
-----------------------------------------------------------------------------
\* Texts are put together by an operator that stays unexpanded: what is needed
\* of it is in the lemmas on it.
Cat(a, b) == a \o b

\* Two texts put together have all their symbols.
LEMMA CatTyped == \A S : \A a, b \in Seq(S) : Cat(a, b) \in Seq(S) /\ Len(Cat(a, b)) = Len(a) + Len(b)
  BY ConcatProperties DEF Cat

\* The empty text adds nothing.
LEMMA CatEmpty == \A S : \A a \in Seq(S) : Cat(a, <<>>) = a /\ Cat(<<>>, a) = a
  BY ConcatEmptySeq DEF Cat

\* Texts are put together in any grouping.
LEMMA CatTwice == \A S : \A a, b, c \in Seq(S) : Cat(Cat(a, b), c) = Cat(a, Cat(b, c))
  BY ConcatAssociative DEF Cat

\* What is put behind a text is known from the whole.
LEMMA CatCancel == \A S : \A a, b, c \in Seq(S) : Cat(a, b) = Cat(a, c) => b = c
  BY ConcatSimplifications, Zenon DEF Cat

\* What a text is put behind is known from the whole.
LEMMA CatCancelRight == \A S : \A a, b, c \in Seq(S) : Cat(a, c) = Cat(b, c) => a = b
  BY ConcatSimplifications, Zenon DEF Cat

\* The empty text is the only one without symbols.
LEMMA NoText == \A S : <<>> \in Seq(S) /\ Len(<<>>) = 0 /\ \A a \in Seq(S) : Len(a) \in Nat /\ (Len(a) = 0 => a = <<>>)
  BY EmptySeq, LenProperties

\* A text is what it starts with and what is behind that.
LEMMA SplitAt ==
    ASSUME NEW S, NEW t \in Seq(S), NEW k \in 0 .. Len(t)
    PROVE  /\ SubSeq(t, 1, k) \in Seq(S) /\ SubSeq(t, k + 1, Len(t)) \in Seq(S)
           /\ Len(SubSeq(t, 1, k)) = k /\ Len(SubSeq(t, k + 1, Len(t))) = Len(t) - k
           /\ t = Cat(SubSeq(t, 1, k), SubSeq(t, k + 1, Len(t)))
<1>1. Len(t) \in Nat /\ \A i \in 1 .. Len(t) : t[i] \in S
  OBVIOUS
<1> DEFINE a == SubSeq(t, 1, k)
           b == SubSeq(t, k + 1, Len(t))
<1>2. a \in Seq(S) /\ Len(a) = k /\ \A i \in 1 .. k : a[i] = t[i]
  BY <1>1, SubSeqProperties
<1>3. /\ b \in Seq(S) /\ Len(b) = Len(t) - k
      /\ \A i \in 1 .. Len(t) - k : b[i] = t[k + i]
  <2>1. \A i \in k + 1 .. Len(t) : t[i] \in S
    BY <1>1
  <2>2. /\ b \in Seq(S)
        /\ Len(b) = IF k + 1 <= Len(t) THEN Len(t) - (k + 1) + 1 ELSE 0
        /\ \A i \in 1 .. Len(t) - (k + 1) + 1 : b[i] = t[k + 1 + i - 1]
    BY <1>1, <2>1, SubSeqProperties
  <2> HIDE DEF b
  <2> QED
    BY <1>1, <2>2
<1> HIDE DEF a, b
<1>4. t = a \o b
  <2>1. /\ a \o b \in Seq(S) /\ Len(a \o b) = Len(a) + Len(b)
        /\ \A i \in 1 .. Len(a) + Len(b) : (a \o b)[i] = IF i <= Len(a) THEN a[i] ELSE b[i - Len(a)]
    BY <1>2, <1>3, ConcatProperties
  <2>2. ASSUME NEW i \in 1 .. Len(t) PROVE t[i] = (a \o b)[i]
    <3>1. CASE i <= k
      BY <1>1, <1>2, <1>3, <2>1, <3>1
    <3>2. CASE i > k
      <4>1. i - k \in 1 .. Len(t) - k
        BY <1>1, <3>2
      <4>2. b[i - k] = t[k + (i - k)]
        BY <1>3, <4>1
      <4>3. k + (i - k) = i
        BY <1>1
      <4>4. (a \o b)[i] = b[i - k]
        <5>1. i \in 1 .. Len(a) + Len(b) /\ ~(i <= Len(a))
          BY <1>1, <1>2, <1>3, <3>2
        <5> QED
          BY <1>2, <2>1, <5>1
      <4> QED
        BY <4>2, <4>3, <4>4, Zenon
    <3>3. i <= k \/ i > k
      BY <1>1
    <3> QED
      BY <3>1, <3>2, <3>3
  <2>3. Len(t) = Len(a \o b)
    BY <1>1, <1>2, <1>3, <2>1
  <2> QED
    BY <2>1, <2>2, <2>3, SeqEqual
<1> QED
  BY <1>2, <1>3, <1>4 DEF a, b, Cat

\* The longer of two beginnings of a text begins with the shorter one.
LEMMA Levi ==
    \A S : \A a, b, c, d \in Seq(S) :
        Cat(a, b) = Cat(c, d) /\ Len(a) <= Len(c) =>
            \E e \in Seq(S) : c = Cat(a, e) /\ b = Cat(e, d)
<1> SUFFICES ASSUME NEW S, NEW a \in Seq(S), NEW b \in Seq(S), NEW c \in Seq(S), NEW d \in Seq(S),
                    Cat(a, b) = Cat(c, d), Len(a) <= Len(c)
             PROVE  \E e \in Seq(S) : c = Cat(a, e) /\ b = Cat(e, d)
  OBVIOUS
<1>1. Len(a) \in 0 .. Len(c) /\ Len(a) \in Nat
  BY NoText
<1> DEFINE start == SubSeq(c, 1, Len(a))
           e == SubSeq(c, Len(a) + 1, Len(c))
<1>2. start \in Seq(S) /\ e \in Seq(S) /\ Len(start) = Len(a) /\ c = Cat(start, e)
  BY <1>1, SplitAt
<1> HIDE DEF start, e
<1>3. Cat(a, b) = Cat(start, Cat(e, d)) /\ Cat(e, d) \in Seq(S)
  <2>1. Cat(Cat(start, e), d) = Cat(start, Cat(e, d))
    BY <1>2, CatTwice
  <2>2. Cat(e, d) \in Seq(S)
    BY <1>2, CatTyped
  <2> QED
    BY <1>2, <2>1, <2>2
<1> DEFINE x == Cat(a, b)
           f == Cat(e, d)
<1>4. start = a
  <2>1. ASSUME NEW i \in 1 .. Len(a) PROVE start[i] = a[i]
    <3>1. i \in 1 .. Len(a) + Len(b) /\ i \in 1 .. Len(start) + Len(f) /\ i <= Len(a) /\ i <= Len(start)
      BY <1>1, <1>2, <1>3, NoText
    <3>2. x[i] = a[i]
      BY <3>1, ConcatProperties DEF Cat
    <3> HIDE DEF f
    <3>3. Cat(start, f)[i] = start[i]
      BY <1>3, <3>1, ConcatProperties DEF Cat, f
    <3> HIDE DEF x
    <3>4. x = Cat(start, f)
      BY <1>3 DEF x, f
    <3> QED
      BY <3>2, <3>3, <3>4, Zenon
  <2> QED
    BY <1>2, <2>1, SeqEqual
<1>5. Cat(a, b) = Cat(a, f)
  BY <1>3, <1>4
<1>6. b = f
  BY <1>3, <1>5, CatCancel, Zenon
<1> QED
  BY <1>2, <1>4, <1>6

\* A placeholder starts a text that is the placeholder and a rest.
LEMMA StartsIs ==
    \A S : \A p, t \in Seq(S) : StartsAt(p, t, 1) <=> \E w \in Seq(S) : t = Cat(p, w)
<1> SUFFICES ASSUME NEW S, NEW p \in Seq(S), NEW t \in Seq(S)
             PROVE  StartsAt(p, t, 1) <=> \E w \in Seq(S) : t = Cat(p, w)
  OBVIOUS
<1>1. Len(p) \in Nat /\ Len(t) \in Nat /\ 1 + Len(p) - 1 = Len(p)
  BY NoText
<1>2. ASSUME StartsAt(p, t, 1) PROVE \E w \in Seq(S) : t = Cat(p, w)
  <2>1. Len(p) \in 0 .. Len(t) /\ SubSeq(t, 1, Len(p)) = p
    BY <1>1, <1>2 DEF StartsAt
  <2> DEFINE w == SubSeq(t, Len(p) + 1, Len(t))
  <2>2. w \in Seq(S) /\ t = Cat(SubSeq(t, 1, Len(p)), w)
    BY <2>1, SplitAt
  <2> HIDE DEF w
  <2> QED
    BY <2>1, <2>2
<1>3. ASSUME NEW w \in Seq(S), t = Cat(p, w) PROVE StartsAt(p, t, 1)
  <2>1. Len(t) = Len(p) + Len(w) /\ Len(w) \in Nat
    BY <1>3, CatTyped, NoText
  <2>2. Len(p) \in 0 .. Len(t)
    BY <1>1, <2>1
  <2> DEFINE a == SubSeq(t, 1, Len(p))
             b == SubSeq(t, Len(p) + 1, Len(t))
  <2>3. a \in Seq(S) /\ b \in Seq(S) /\ a = SubSeq(t, 1, Len(p)) /\ Len(a) = Len(p) /\ t = Cat(a, b)
    BY <2>2, SplitAt
  <2> HIDE DEF a, b
  <2>4. Len(p) <= Len(a)
    BY <1>1, <2>3
  <2>5. PICK e \in Seq(S) : a = Cat(p, e)
    <3>1. Cat(p, w) = Cat(a, b)
      BY <1>3, <2>3, Zenon
    <3>2. p \in Seq(S) /\ w \in Seq(S) /\ a \in Seq(S) /\ b \in Seq(S)
      BY <2>3
    <3>3. \E e \in Seq(S) : a = Cat(p, e) /\ w = Cat(e, b)
      BY <2>4, <3>1, <3>2, Levi
    <3> QED
      BY <3>3
  <2>6. Len(e) = 0
    BY <1>1, <2>3, <2>5, CatTyped, NoText
  <2>7. a = p
    BY <2>5, <2>6, NoText, CatEmpty
  <2> QED
    BY <1>1, <2>2, <2>3, <2>7 DEF StartsAt
<1> QED
  BY <1>2, <1>3

\* What starts behind the beginning of a text starts in the rest.
LEMMA StartsBehind ==
    ASSUME NEW S, NEW u \in Seq(S), NEW w \in Seq(S), NEW p \in Seq(S), NEW i \in Nat \ {0}
    PROVE  StartsAt(p, Cat(u, w), Len(u) + i) <=> StartsAt(p, w, i)
<1>1. Len(u) \in Nat /\ Len(w) \in Nat /\ Len(p) \in Nat /\ i \in Nat /\ i >= 1
  OBVIOUS
<1>2. Len(Cat(u, w)) = Len(u) + Len(w)
  BY CatTyped
<1>3. Len(u) + i + Len(p) - 1 <= Len(Cat(u, w)) <=> i + Len(p) - 1 <= Len(w)
  BY <1>1, <1>2
<1>4. ASSUME i + Len(p) - 1 <= Len(w)
      PROVE  SubSeq(Cat(u, w), Len(u) + i, Len(u) + i + Len(p) - 1) = SubSeq(w, i, i + Len(p) - 1)
  <2>1. CASE Len(p) = 0
    BY <1>1, <2>1, SubSeqEmpty
  <2>2. CASE Len(p) # 0
    <3>1. /\ Len(u) + i \in Len(u) + 1 .. Len(u) + Len(w)
          /\ Len(u) + i + Len(p) - 1 \in Len(u) + 1 .. Len(u) + Len(w)
      BY <1>1, <1>4, <2>2
    <3>2. /\ Len(u) + i - Len(u) = i
          /\ Len(u) + i + Len(p) - 1 - Len(u) = i + Len(p) - 1
      BY <1>1
    <3> QED
      BY <3>1, <3>2, SubSeqOfConcat2 DEF Cat
  <2> QED
    BY <2>1, <2>2
<1> QED
  BY <1>3, <1>4 DEF StartsAt

\* What is found at the places of a text goes on to the next place.
Fit(found, S) ==
    /\ found \in Seq([shown : Seq(S), taken : Nat])
    /\ \A i \in 1 .. Len(found) : found[i].taken >= 1 /\ i + found[i].taken <= Len(found) + 1

\* What is found at a place, by its parts.
LEMMA FitIs ==
    ASSUME NEW S, NEW found, Fit(found, S)
    PROVE  /\ Len(found) \in Nat
           /\ \A i \in 1 .. Len(found) :
                  /\ found[i] \in [shown : Seq(S), taken : Nat]
                  /\ found[i].shown \in Seq(S) /\ found[i].taken \in Nat /\ found[i].taken >= 1
                  /\ i + found[i].taken <= Len(found) + 1
<1> DEFINE R == [shown : Seq(S), taken : Nat]
<1>1. found \in Seq(R)
  BY DEF Fit
<1>2. \A r \in R : r.shown \in Seq(S) /\ r.taken \in Nat
  OBVIOUS
<1> HIDE DEF R
<1>3. Len(found) \in Nat /\ \A i \in 1 .. Len(found) : found[i] \in R
  BY <1>1, LenProperties, ElementOfSeq
<1>4. \A i \in 1 .. Len(found) : found[i].taken >= 1 /\ i + found[i].taken <= Len(found) + 1
  BY DEF Fit
<1> QED
  BY <1>2, <1>3, <1>4 DEF R

\* f is the recursion of Rewrite.
Rewrites(f, found) ==
    f = [i \in 1 .. Len(found) + 1 |->
            IF i > Len(found) THEN <<>> ELSE found[i].shown \o f[i + found[i].taken]]
RewriteStep(f, found, i) == f[i] = Cat(found[i].shown, f[i + found[i].taken])

\* The recursion of Rewrite has its equation at every place.
LEMMA RewriteBy ==
    ASSUME NEW S, NEW found, Fit(found, S)
    PROVE  \E f : /\ Rewrite(found) = f[1] /\ f[Len(found) + 1] = <<>>
                  /\ \A i \in 1 .. Len(found) : RewriteStep(f, found, i)
<1> DEFINE N == Len(found)
           Up(f, m) == /\ f = [i \in N + 1 - m .. N + 1 |-> f[i]] /\ f[N + 1] = <<>>
                       /\ \A i \in N + 1 - m .. N : RewriteStep(f, found, i)
           T == {m \in 0 .. N : \E f : Up(f, m)}
           h == CHOOSE f : Rewrites(f, found)
<1>0. N \in Nat /\ \A i \in 1 .. N : found[i].taken \in Nat /\ found[i].taken >= 1 /\ i + found[i].taken <= N + 1
  BY FitIs
<1>1. Rewrite(found) = h[1]
  BY DEF Rewrite, Rewrites
<1> HIDE DEF N, h
<1>2. 0 \in T
  <2> DEFINE f == [i \in N + 1 - 0 .. N + 1 |-> <<>>]
  <2>1. f = [i \in N + 1 - 0 .. N + 1 |-> f[i]] /\ f[N + 1] = <<>>
    BY <1>0
  <2>2. \A i \in N + 1 - 0 .. N : FALSE
    BY <1>0
  <2>3. Up(f, 0)
    BY <2>1, <2>2
  <2> HIDE DEF f, Up
  <2> QED
    BY <1>0, <2>3
<1>3. ASSUME NEW m \in 1 .. N, m - 1 \in T PROVE m \in T
  <2>1. PICK f : Up(f, m - 1)
    BY <1>3
  <2> DEFINE k == N + 1 - m
             new == Cat(found[k].shown, f[k + found[k].taken])
             g == [i \in N + 1 - m .. N + 1 |-> IF i = k THEN new ELSE f[i]]
  <2>a. k \in 1 .. N /\ N + 1 - (m - 1) = k + 1 /\ N + 1 - m = k
    BY <1>0
  <2> HIDE DEF new
  <2>2. /\ g = [i \in N + 1 - m .. N + 1 |-> g[i]] /\ g[k] = new
        /\ \A i \in k + 1 .. N + 1 : g[i] = f[i]
    BY <1>0, <2>a
  <2> HIDE DEF g, k
  <2>3. g[N + 1] = <<>>
    <3>1. N + 1 \in k + 1 .. N + 1
      BY <1>0, <2>a
    <3>2. f[N + 1] = <<>>
      BY <2>1
    <3> QED
      BY <2>2, <3>1, <3>2
  <2>4. ASSUME NEW i \in N + 1 - m .. N PROVE RewriteStep(g, found, i)
    <3> DEFINE j == i + found[i].taken
    <3>0. i \in 1 .. N /\ j \in k + 1 .. N + 1
      BY <1>0, <2>a
    <3> HIDE DEF j
    <3>1. g[j] = f[j]
      BY <2>2, <3>0
    <3>2. CASE i = k
      BY <2>2, <3>1, <3>2 DEF RewriteStep, new, j
    <3>3. CASE i # k
      <4>1. i \in N + 1 - (m - 1) .. N /\ i \in k + 1 .. N + 1
        BY <1>0, <2>a, <3>3
      <4>2. g[i] = f[i] /\ RewriteStep(f, found, i)
        BY <2>1, <2>2, <4>1
      <4> QED
        BY <3>1, <4>2 DEF RewriteStep, j
    <3> QED
      BY <3>2, <3>3
  <2>5. Up(g, m)
    BY <2>2, <2>3, <2>4
  <2> HIDE DEF Up
  <2> QED
    BY <1>0, <2>5
<1>4. \E f : Up(f, N)
  <2> HIDE DEF T
  <2>1. \A i \in 0 .. N : i \in T
    BY <1>0, <1>2, <1>3, UpTo
  <2>2. N \in T
    BY <1>0, <2>1
  <2> QED
    BY <2>2 DEF T
<1>5. PICK f : Up(f, N)
  BY <1>4
<1>6. Rewrites(f, found)
  <2>1. ASSUME NEW i \in 1 .. N + 1
        PROVE  f[i] = IF i > N THEN <<>> ELSE found[i].shown \o f[i + found[i].taken]
    <3>1. CASE i > N
      <4>1. i = N + 1
        BY <1>0, <3>1
      <4> QED
        BY <1>5, <3>1, <4>1
    <3>2. CASE ~(i > N)
      <4>1. i \in N + 1 - N .. N
        BY <1>0, <3>2
      <4>2. RewriteStep(f, found, i)
        BY <1>5, <4>1
      <4> QED
        BY <3>2, <4>2 DEF RewriteStep, Cat
    <3> QED
      BY <3>1, <3>2
  <2>2. f = [i \in 1 .. N + 1 |-> f[i]]
    <3>1. N + 1 - N = 1
      BY <1>0
    <3> QED
      BY <1>5, <3>1
  <2>3. f = [i \in 1 .. N + 1 |-> IF i > N THEN <<>> ELSE found[i].shown \o f[i + found[i].taken]]
    BY <2>1, <2>2
  <2> QED
    BY <2>3 DEF Rewrites, N
<1>7. Rewrites(h, found)
  BY <1>6, Zenon DEF h
<1>8. h = [i \in 1 .. N + 1 |-> IF i > N THEN <<>> ELSE found[i].shown \o h[i + found[i].taken]]
  BY <1>7 DEF Rewrites, N
<1>9. h[N + 1] = <<>>
  BY <1>0, <1>8
<1>10. ASSUME NEW i \in 1 .. N PROVE RewriteStep(h, found, i)
  <2>1. i \in 1 .. N + 1 /\ ~(i > N)
    BY <1>0
  <2> QED
    BY <1>8, <2>1 DEF RewriteStep, Cat
<1> QED
  BY <1>1, <1>9, <1>10 DEF N

\* From a place on, the rewritten text is that of what is found from there on.
LEMMA RewriteCut ==
    ASSUME NEW S, NEW found, Fit(found, S), NEW k \in 0 .. Len(found), NEW f,
           f[Len(found) + 1] = <<>>, \A i \in 1 .. Len(found) : RewriteStep(f, found, i)
    PROVE  /\ Fit(SubSeq(found, k + 1, Len(found)), S)
           /\ Rewrite(SubSeq(found, k + 1, Len(found))) = f[k + 1]
           /\ f[k + 1] \in Seq(S)
<1> DEFINE N == Len(found)
           R == [shown : Seq(S), taken : Nat]
           tail == SubSeq(found, k + 1, N)
<1>1. N \in Nat /\ k \in Nat /\ k <= N /\ \A i \in 1 .. N : found[i] \in R
  BY FitIs
<1>2. \A i \in 1 .. N : /\ found[i].taken \in Nat /\ found[i].taken >= 1
                       /\ i + found[i].taken <= N + 1 /\ found[i].shown \in Seq(S)
  BY FitIs
<1>3. tail \in Seq(R) /\ Len(tail) = N - k /\ \A i \in 1 .. N - k : tail[i] = found[k + i]
  <2>1. \A i \in k + 1 .. N : found[i] \in R
    BY <1>1
  <2> HIDE DEF R
  <2>2. /\ tail \in Seq(R)
        /\ Len(tail) = IF k + 1 <= N THEN N - (k + 1) + 1 ELSE 0
        /\ \A i \in 1 .. N - (k + 1) + 1 : tail[i] = found[k + 1 + i - 1]
    BY <1>1, <2>1, SubSeqProperties
  <2> HIDE DEF tail, N
  <2> QED
    BY <1>1, <2>2
<1> HIDE DEF tail, N
<1>4. ASSUME NEW i \in 1 .. N - k
      PROVE  /\ k + i \in 1 .. N /\ tail[i].taken = found[k + i].taken /\ tail[i].shown = found[k + i].shown
             /\ tail[i].taken \in Nat /\ tail[i].taken >= 1 /\ i + tail[i].taken <= N - k + 1
             /\ tail[i].shown \in Seq(S)
  <2>1. k + i \in 1 .. N
    BY <1>1
  <2>2. tail[i] = found[k + i]
    BY <1>1, <1>3, <2>1
  <2>3. /\ found[k + i].taken \in Nat /\ found[k + i].taken >= 1 /\ k + i + found[k + i].taken <= N + 1
        /\ found[k + i].shown \in Seq(S)
    BY <1>2, <2>1
  <2> QED
    BY <1>1, <2>1, <2>2, <2>3
<1>5. Fit(tail, S)
  BY <1>3, <1>4 DEF Fit, R
<1>6. PICK g : /\ Rewrite(tail) = g[1] /\ g[N - k + 1] = <<>>
               /\ \A i \in 1 .. N - k : RewriteStep(g, tail, i)
  BY <1>3, <1>5, RewriteBy
<1> DEFINE Same(i) == g[i] = f[k + i] /\ g[i] \in Seq(S)
           T == {m \in 0 .. N - k : \A i \in N - k + 1 - m .. N - k + 1 : Same(i)}
<1>7. 0 \in T
  <2>1. Same(N - k + 1)
    <3>1. k + (N - k + 1) = N + 1
      BY <1>1
    <3> QED
      BY <1>6, <3>1, NoText DEF N
  <2>2. \A i \in N - k + 1 - 0 .. N - k + 1 : i = N - k + 1
    BY <1>1
  <2> HIDE DEF Same
  <2> QED
    BY <1>1, <2>1, <2>2
<1>8. ASSUME NEW m \in 1 .. N - k, m - 1 \in T PROVE m \in T
  <2> DEFINE i == N - k + 1 - m
             j == i + tail[i].taken
  <2>1. i \in 1 .. N - k
    BY <1>1
  <2>2. /\ k + i \in 1 .. N /\ tail[i].taken = found[k + i].taken /\ tail[i].shown = found[k + i].shown
        /\ tail[i].shown \in Seq(S) /\ j \in N - k + 1 - (m - 1) .. N - k + 1
        /\ k + j = k + i + found[k + i].taken
    <3>1. /\ k + i \in 1 .. N /\ tail[i].taken = found[k + i].taken /\ tail[i].shown = found[k + i].shown
          /\ tail[i].taken \in Nat /\ tail[i].taken >= 1 /\ i + tail[i].taken <= N - k + 1
          /\ tail[i].shown \in Seq(S)
      BY <1>4, <2>1
    <3>2. i \in Nat /\ N - k + 1 - (m - 1) = i + 1
      BY <1>1, <2>1
    <3> HIDE DEF i
    <3>3. j \in i + 1 .. N - k + 1
      BY <1>1, <3>1, <3>2, SMTT(40)
    <3>4. k + j = k + i + found[k + i].taken
      BY <1>1, <3>1, <3>2
    <3> QED
      BY <3>1, <3>2, <3>3, <3>4
  <2> HIDE DEF j
  <2>3. g[j] = f[k + j] /\ g[j] \in Seq(S)
    BY <1>8, <2>2
  <2>4. g[i] = Cat(tail[i].shown, g[j])
    <3>1. RewriteStep(g, tail, i)
      BY <1>6, <2>1
    <3> QED
      BY <3>1 DEF RewriteStep, j
  <2>5. f[k + i] = Cat(found[k + i].shown, f[k + j])
    <3>1. RewriteStep(f, found, k + i)
      BY <2>2 DEF N
    <3> HIDE DEF i
    <3> QED
      BY <2>2, <3>1 DEF RewriteStep
  <2>6. Same(i)
    <3> HIDE DEF i
    <3> QED
      BY <2>2, <2>3, <2>4, <2>5, CatTyped
  <2>7. \A n \in N - k + 1 - m .. N - k + 1 : n = i \/ n \in N - k + 1 - (m - 1) .. N - k + 1
    BY <1>1
  <2> HIDE DEF Same, i
  <2> QED
    BY <1>1, <1>8, <2>6, <2>7
<1>9. N - k \in T
  <2> HIDE DEF T
  <2>1. N - k \in Nat
    BY <1>1
  <2>2. \A m \in 0 .. N - k : m \in T
    BY <1>7, <1>8, <2>1, UpTo
  <2> QED
    BY <2>1, <2>2
<1>10. Same(1)
  <2>1. 1 \in N - k + 1 - (N - k) .. N - k + 1
    BY <1>1
  <2> QED
    BY <1>9, <2>1
<1> QED
  BY <1>5, <1>6, <1>10 DEF tail, N

\* A text is rewritten where it starts, then what is behind that.
LEMMA RewriteFirst ==
    ASSUME NEW S, NEW found, Fit(found, S)
    PROVE  /\ Rewrite(found) \in Seq(S)
           /\ Len(found) = 0 => Rewrite(found) = <<>>
           /\ Len(found) # 0 =>
                  Rewrite(found) = Cat(found[1].shown, Rewrite(SubSeq(found, found[1].taken + 1, Len(found))))
<1>1. PICK f : /\ Rewrite(found) = f[1] /\ f[Len(found) + 1] = <<>>
               /\ \A i \in 1 .. Len(found) : RewriteStep(f, found, i)
  BY RewriteBy
<1>2. Len(found) \in Nat
  BY FitIs
<1>3. \A k \in 0 .. Len(found) : /\ Rewrite(SubSeq(found, k + 1, Len(found))) = f[k + 1]
                                 /\ f[k + 1] \in Seq(S)
  BY <1>1, RewriteCut
<1>4. f[1] \in Seq(S)
  <2>1. 0 \in 0 .. Len(found) /\ 0 + 1 = 1
    BY <1>2
  <2> QED
    BY <1>3, <2>1
<1>5. ASSUME Len(found) # 0
      PROVE  Rewrite(found) = Cat(found[1].shown, Rewrite(SubSeq(found, found[1].taken + 1, Len(found))))
  <2>1. 1 \in 1 .. Len(found)
    BY <1>2, <1>5
  <2>2. found[1].taken \in 0 .. Len(found) /\ 1 + found[1].taken = found[1].taken + 1
    BY <1>2, <2>1, FitIs
  <2>3. RewriteStep(f, found, 1)
    BY <1>1, <2>1
  <2> QED
    BY <1>1, <1>3, <2>2, <2>3 DEF RewriteStep
<1> QED
  BY <1>1, <1>4, <1>5

\* f is the recursion of FlattenSeq.
Flattens(f, seqs) ==
    f = [i \in 1 .. Len(seqs) |-> IF i = 1 THEN seqs[i] ELSE f[i - 1] \o seqs[i]]
FlattenStep(f, seqs, i) == f[i] = IF i = 1 THEN seqs[i] ELSE f[i - 1] \o seqs[i]

\* The recursion of FlattenSeq has its equation at every place.
LEMMA FlattenBy ==
    ASSUME NEW X, NEW seqs \in Seq(X), Len(seqs) # 0
    PROVE  \E f : /\ FlattenSeq(seqs) = f[Len(seqs)]
                  /\ \A i \in 1 .. Len(seqs) : FlattenStep(f, seqs, i)
<1> DEFINE N == Len(seqs)
           Up(f, m) == f = [i \in 1 .. m |-> f[i]] /\ \A i \in 1 .. m : FlattenStep(f, seqs, i)
           T == {m \in 0 .. N : \E f : Up(f, m)}
           h == CHOOSE f : Flattens(f, seqs)
<1>0. N \in Nat
  OBVIOUS
<1>1. FlattenSeq(seqs) = h[N]
  BY DEF FlattenSeq, Flattens
<1> HIDE DEF N, h
<1>2. 0 \in T
  <2> DEFINE f == [i \in 1 .. 0 |-> <<>>]
  <2>1. Up(f, 0)
    OBVIOUS
  <2> HIDE DEF f, Up
  <2> QED
    BY <1>0, <2>1
<1>3. ASSUME NEW m \in 1 .. N, m - 1 \in T PROVE m \in T
  <2>1. PICK f : Up(f, m - 1)
    BY <1>3
  <2> DEFINE grown == IF m = 1 THEN seqs[m] ELSE f[m - 1] \o seqs[m]
             g == [i \in 1 .. m |-> IF i = m THEN grown ELSE f[i]]
  <2> HIDE DEF grown
  <2>2. /\ g = [i \in 1 .. m |-> g[i]] /\ g[m] = grown /\ m \in Nat /\ m # 0
        /\ \A i \in 1 .. m - 1 : g[i] = f[i]
    OBVIOUS
  <2> HIDE DEF g
  <2>3. ASSUME NEW i \in 1 .. m PROVE FlattenStep(g, seqs, i)
    <3>1. CASE i = m
      <4>1. m # 1 => m - 1 \in 1 .. m - 1
        BY <1>0
      <4>2. m # 1 => g[m - 1] = f[m - 1]
        BY <2>2, <4>1
      <4> QED
        BY <2>2, <3>1, <4>2 DEF FlattenStep, grown
    <3>2. CASE i # m
      <4>1. i \in 1 .. m - 1 /\ (i # 1 => i - 1 \in 1 .. m - 1)
        BY <1>0, <3>2
      <4>2. g[i] = f[i] /\ (i # 1 => g[i - 1] = f[i - 1]) /\ FlattenStep(f, seqs, i)
        BY <2>1, <2>2, <4>1
      <4> QED
        BY <4>2 DEF FlattenStep
    <3> QED
      BY <3>1, <3>2
  <2>4. Up(g, m)
    BY <2>2, <2>3
  <2> HIDE DEF Up
  <2> QED
    BY <1>0, <2>4
<1>4. \E f : Up(f, N)
  <2> HIDE DEF T
  <2>1. \A i \in 0 .. N : i \in T
    BY <1>0, <1>2, <1>3, UpTo
  <2>2. N \in T
    BY <1>0, <2>1
  <2> QED
    BY <2>2 DEF T
<1>5. PICK f : Up(f, N)
  BY <1>4
<1>6. Flattens(f, seqs)
  <2>1. ASSUME NEW i \in 1 .. N PROVE f[i] = IF i = 1 THEN seqs[i] ELSE f[i - 1] \o seqs[i]
    BY <1>5 DEF FlattenStep
  <2>2. f = [i \in 1 .. N |-> f[i]]
    BY <1>5
  <2>3. f = [i \in 1 .. N |-> IF i = 1 THEN seqs[i] ELSE f[i - 1] \o seqs[i]]
    BY <2>1, <2>2
  <2> QED
    BY <2>3 DEF Flattens, N
<1>7. Flattens(h, seqs)
  BY <1>6, Zenon DEF h
<1>8. h = [i \in 1 .. N |-> IF i = 1 THEN seqs[i] ELSE h[i - 1] \o seqs[i]]
  BY <1>7 DEF Flattens, N
<1>9. ASSUME NEW i \in 1 .. N PROVE FlattenStep(h, seqs, i)
  BY <1>8 DEF FlattenStep
<1> QED
  BY <1>1, <1>9 DEF N

\* Sequences put together are a sequence of the same elements.
LEMMA FlattenTyped ==
    ASSUME NEW X, NEW seqs \in Seq(Seq(X))
    PROVE  FlattenSeq(seqs) \in Seq(X)
<1>1. CASE Len(seqs) = 0
  <2>1. FlattenSeq(seqs) = <<>>
    BY <1>1, EmptySeq DEF FlattenSeq
  <2> QED
    BY <2>1
<1>2. CASE Len(seqs) # 0
  <2>1. PICK f : /\ FlattenSeq(seqs) = f[Len(seqs)]
                 /\ \A i \in 1 .. Len(seqs) : FlattenStep(f, seqs, i)
    BY <1>2, FlattenBy
  <2>2. Len(seqs) \in Nat /\ \A i \in 1 .. Len(seqs) : seqs[i] \in Seq(X)
    BY LenProperties, ElementOfSeq
  <2> DEFINE T == {i \in 0 .. Len(seqs) : i = 0 \/ f[i] \in Seq(X)}
  <2>3. 0 \in T
    BY <2>2
  <2>4. ASSUME NEW i \in 1 .. Len(seqs), i - 1 \in T PROVE i \in T
    <3>1. FlattenStep(f, seqs, i) /\ seqs[i] \in Seq(X)
      BY <2>1, <2>2
    <3>2. CASE i = 1
      BY <2>2, <3>1, <3>2 DEF FlattenStep
    <3>3. CASE i # 1
      <4>1. f[i - 1] \in Seq(X)
        BY <2>2, <2>4, <3>3
      <4>2. f[i] = Cat(f[i - 1], seqs[i])
        BY <3>1, <3>3 DEF FlattenStep, Cat
      <4>3. f[i] \in Seq(X)
        BY <3>1, <4>1, <4>2, CatTyped
      <4> QED
        BY <2>2, <4>3
    <3> QED
      BY <3>2, <3>3
  <2> HIDE DEF T
  <2>5. \A i \in 0 .. Len(seqs) : i \in T
    BY <2>2, <2>3, <2>4, UpTo
  <2>6. Len(seqs) \in T
    BY <2>2, <2>5
  <2>7. f[Len(seqs)] \in Seq(X)
    BY <1>2, <2>6 DEF T
  <2> QED
    BY <2>1, <2>7
<1> QED
  BY <1>1, <1>2

\* What a placeholder stands for is a text, escaped as well.
LEMMA EscapedTyped == \A p \in Placeholders : Escaped[p] \in Texts
<1> SUFFICES ASSUME NEW p \in Placeholders PROVE Escaped[p] \in Texts
  OBVIOUS
<1> DEFINE s == Original[p]
           part(i) == IF s[i] = Quote THEN <<"\\", Quote>> ELSE <<s[i]>>
           seqs == [i \in DOMAIN s |-> part(i)]
<1>1. Escaped[p] = FlattenSeq(seqs)
  BY DEF Escaped, Escape
<1>2. s \in Seq(Range(s)) /\ Range(s) \subseteq Signs
  BY StreamAssumption DEF Signs
<1>3. s \in Seq(Signs) /\ Quote \in Signs /\ "\\" \in Signs
  <2>1. Quote \in Signs /\ "\\" \in Signs
    BY DEF Signs
  <2> HIDE DEF s
  <2> QED
    BY <1>2, <2>1, SeqMonotonic
<1>4. Len(s) \in Nat /\ DOMAIN s = 1 .. Len(s) /\ \A i \in 1 .. Len(s) : s[i] \in Signs
  <2> HIDE DEF s
  <2> QED
    BY <1>3, LenProperties, ElementOfSeq
<1> HIDE DEF s
<1>5. \A i \in 1 .. Len(s) : part(i) \in Seq(Signs)
  <2>1. ASSUME NEW a \in Signs, NEW b \in Signs PROVE <<a, b>> \in Seq(Signs) /\ <<a>> \in Seq(Signs)
    OBVIOUS
  <2> QED
    BY <1>3, <1>4, <2>1
<1> HIDE DEF part
<1>6. seqs \in Seq(Seq(Signs))
  <2>1. seqs \in [1 .. Len(s) -> Seq(Signs)]
    BY <1>4, <1>5
  <2> QED
    BY <1>4, <2>1
<1> HIDE DEF seqs
<1> QED
  BY <1>1, <1>6, FlattenTyped DEF Texts

\* Placeholders are texts.
LEMMA PlaceholderTyped ==
    \A p \in Placeholders : p \in Texts /\ p # <<>> /\ Len(p) \in Nat /\ Len(p) >= 1
<1> SUFFICES ASSUME NEW p \in Placeholders PROVE p \in Texts /\ p # <<>> /\ Len(p) \in Nat /\ Len(p) >= 1
  OBVIOUS
<1>1. p \in Seq(Alphabet) /\ p # <<>>
  BY StreamAssumption
<1>2. Alphabet \subseteq Signs
  BY DEF Signs
<1>3. p \in Texts
  BY <1>1, <1>2, SeqMonotonic DEF Texts
<1>4. Len(p) \in Nat /\ Len(p) # 0
  BY <1>1, NoText
<1> QED
  BY <1>1, <1>3, <1>4

\* The longest of texts that are not longer than n.
LEMMA LongestIs ==
    ASSUME NEW n \in Nat, NEW ps, ps # {}, \A p \in ps : Len(p) \in 0 .. n
    PROVE  LongestOf(ps) \in ps /\ \A q \in ps : Len(q) <= Len(LongestOf(ps))
<1> DEFINE lens == {Len(p) : p \in ps}
<1>1. lens # {} /\ lens \in SUBSET (0 .. n)
  OBVIOUS
<1>2. Max(lens) \in lens /\ \A x \in lens : x <= Max(lens)
  BY <1>1, MaxOf
<1>3. PICK p \in ps : Len(p) = Max(lens)
  BY <1>2
<1>4. \A q \in ps : Len(q) \in lens
  OBVIOUS
<1>5. \A q \in ps : Len(q) <= Len(p)
  BY <1>2, <1>3, <1>4
<1>6. \E x \in ps : \A q \in ps : Len(q) <= Len(x)
  BY <1>5
<1> QED
  BY <1>6 DEF LongestOf

\* A text with a first symbol and the rest.
LEMMA FirstSign ==
    ASSUME NEW S, NEW t \in Seq(S), Len(t) # 0
    PROVE  \E c \in S, r \in Seq(S) : /\ <<c>> \in Seq(S) /\ Len(<<c>>) = 1 /\ c = t[1]
                                      /\ t = Cat(<<c>>, r) /\ Len(t) = Len(r) + 1
<1>1. Len(t) \in Nat /\ 1 \in 0 .. Len(t) /\ 1 \in 1 .. Len(t)
  BY NoText
<1> DEFINE a == SubSeq(t, 1, 1)
           r == SubSeq(t, 1 + 1, Len(t))
<1>2. a \in Seq(S) /\ r \in Seq(S) /\ Len(a) = 1 /\ Len(r) = Len(t) - 1 /\ t = Cat(a, r)
  BY <1>1, SplitAt
<1>3. a[1] = t[1] /\ t[1] \in S
  BY <1>1, SubSeqProperties
<1> HIDE DEF a, r
<1>4. a = <<t[1]>>
  <2>1. <<t[1]>> \in Seq(S) /\ Len(<<t[1]>>) = 1 /\ <<t[1]>>[1] = t[1]
    BY <1>3
  <2>2. \A i \in 1 .. Len(a) : a[i] = <<t[1]>>[i]
    BY <1>2, <1>3, <2>1
  <2> QED
    BY <1>2, <2>1, <2>2, SeqEqual
<1> QED
  BY <1>1, <1>2, <1>3, <1>4

\* The symbols of two texts put together.
LEMMA CatAt ==
    ASSUME NEW S, NEW u \in Seq(S), NEW w \in Seq(S)
    PROVE  /\ \A i \in 1 .. Len(u) : Cat(u, w)[i] = u[i]
           /\ \A i \in 1 .. Len(w) : Cat(u, w)[Len(u) + i] = w[i]
<1>1. Len(u) \in Nat /\ Len(w) \in Nat
  OBVIOUS
<1>2. \A i \in 1 .. Len(u) + Len(w) : Cat(u, w)[i] = IF i <= Len(u) THEN u[i] ELSE w[i - Len(u)]
  BY ConcatProperties DEF Cat
<1>3. ASSUME NEW i \in 1 .. Len(u) PROVE Cat(u, w)[i] = u[i]
  <2>1. i \in 1 .. Len(u) + Len(w) /\ i <= Len(u)
    BY <1>1
  <2> QED
    BY <1>2, <2>1
<1>4. ASSUME NEW i \in 1 .. Len(w) PROVE Cat(u, w)[Len(u) + i] = w[i]
  <2> DEFINE j == Len(u) + i
  <2>1. j \in 1 .. Len(u) + Len(w) /\ ~(j <= Len(u)) /\ j - Len(u) = i
    BY <1>1
  <2> HIDE DEF j
  <2>2. Cat(u, w)[j] = w[j - Len(u)]
    BY <1>2, <2>1
  <2>3. Cat(u, w)[j] = w[i]
    BY <2>1, <2>2, Zenon
  <2> QED
    BY <2>3 DEF j
<1> QED
  BY <1>3, <1>4

\* Whether a placeholder is replaced before the rest r.
Free(r, finish) == IF r = <<>> THEN finish ELSE r[1] \notin Digits
\* Whether EntityMap::restore takes a placeholder before the rest r.
Closes(r) == r # <<>> => r[1] \notin Digits \cup {"_"}

\* What ApplyReplacements finds at place i, and at each place.
AppliedAt(text, finish, i) ==
    LET ps == {p \in Placeholders : StartsAt(p, text, i)}
        p == LongestOf(ps)
    IN IF ps = {} THEN [shown |-> <<text[i]>>, taken |-> 1]
       ELSE [shown |-> IF MayReplace(text, i + Len(p), finish) THEN Escaped[p] ELSE p,
             taken |-> Len(p)]
AppliedPlaces(text, finish) == [i \in DOMAIN text |-> AppliedAt(text, finish, i)]

\* ApplyReplacements rewrites a text with what is found at its places.
LEMMA ApplyIs == ASSUME NEW text, NEW finish
    PROVE  ApplyReplacements(text, finish) = Rewrite(AppliedPlaces(text, finish))
  BY Zenon DEF ApplyReplacements, AppliedPlaces, AppliedAt

\* What is found at a place is found there behind any other text.
LEMMA ApplyShifted ==
    ASSUME NEW u \in Texts, NEW w \in Texts, NEW finish, NEW i \in 1 .. Len(w)
    PROVE  AppliedAt(Cat(u, w), finish, Len(u) + i) = AppliedAt(w, finish, i)
<1> DEFINE t == Cat(u, w)
<1>1. Len(u) \in Nat /\ Len(w) \in Nat /\ Len(t) = Len(u) + Len(w) /\ i \in Nat \ {0}
  BY CatTyped, NoText DEF Texts
<1>2. \A n \in 1 .. Len(w) : t[Len(u) + n] = w[n]
  BY CatAt DEF Texts
<1>3. \A p \in Placeholders : StartsAt(p, t, Len(u) + i) <=> StartsAt(p, w, i)
  BY <1>1, StartsBehind, PlaceholderTyped DEF Texts
<1> HIDE DEF t
<1>4. \A p \in Placeholders : MayReplace(t, Len(u) + i + Len(p), finish) <=> MayReplace(w, i + Len(p), finish)
  <2>1. ASSUME NEW p \in Placeholders
        PROVE  MayReplace(t, Len(u) + i + Len(p), finish) <=> MayReplace(w, i + Len(p), finish)
    <3>1. Len(p) \in Nat
      BY PlaceholderTyped
    <3> DEFINE n == i + Len(p)
    <3>2. n \in Nat /\ n >= 1 /\ Len(u) + i + Len(p) = Len(u) + n /\ (Len(u) + n > Len(t) <=> n > Len(w))
      BY <1>1, <3>1
    <3> HIDE DEF n
    <3>3. n <= Len(w) => t[Len(u) + n] = w[n]
      BY <1>1, <1>2, <3>2
    <3>4. MayReplace(t, Len(u) + n, finish) <=> MayReplace(w, n, finish)
      BY <1>1, <3>2, <3>3 DEF MayReplace
    <3> QED
      BY <3>2, <3>4 DEF n
  <2> QED
    BY <2>1
<1>5. t[Len(u) + i] = w[i]
  BY <1>2
<1>6. AppliedAt(t, finish, Len(u) + i) = AppliedAt(w, finish, i)
  <2> DEFINE ps == {p \in Placeholders : StartsAt(p, w, i)}
  <2>1. {p \in Placeholders : StartsAt(p, t, Len(u) + i)} = ps
    BY <1>3
  <2> HIDE DEF ps
  <2>2. CASE ps = {}
    BY <1>5, <2>1, <2>2 DEF AppliedAt, ps
  <2>3. CASE ps # {}
    <3> DEFINE p == LongestOf(ps)
    <3>1. \A q \in ps : q \in Placeholders /\ Len(q) \in 0 .. Len(w)
      BY <1>1, PlaceholderTyped DEF ps, StartsAt
    <3>2. p \in Placeholders
      BY <1>1, <2>3, <3>1, LongestIs
    <3>3. MayReplace(t, Len(u) + i + Len(p), finish) <=> MayReplace(w, i + Len(p), finish)
      BY <1>4, <3>2
    <3> HIDE DEF p
    <3>4. AppliedAt(t, finish, Len(u) + i) =
              [shown |-> IF MayReplace(t, Len(u) + i + Len(p), finish) THEN Escaped[p] ELSE p, taken |-> Len(p)]
      BY <2>1, <2>3, Zenon DEF AppliedAt, p
    <3>5. AppliedAt(w, finish, i) =
              [shown |-> IF MayReplace(w, i + Len(p), finish) THEN Escaped[p] ELSE p, taken |-> Len(p)]
      BY <2>3, Zenon DEF AppliedAt, p, ps
    <3> QED
      BY <3>3, <3>4, <3>5
  <2> QED
    BY <2>2, <2>3
<1> QED
  BY <1>6 DEF t

\* What is found at a place goes on to a place of the text.
LEMMA ApplyTyped ==
    ASSUME NEW t \in Texts, NEW finish, NEW i \in 1 .. Len(t)
    PROVE  /\ AppliedAt(t, finish, i) \in [shown : Texts, taken : Nat]
           /\ AppliedAt(t, finish, i).taken >= 1 /\ i + AppliedAt(t, finish, i).taken <= Len(t) + 1
<1> DEFINE ps == {q \in Placeholders : StartsAt(q, t, i)}
           p == LongestOf(ps)
<1>1. Len(t) \in Nat /\ t[i] \in Signs /\ <<t[i]>> \in Texts
  <2>1. Len(t) \in Nat /\ t[i] \in Signs
    BY NoText, ElementOfSeq DEF Texts
  <2> QED
    BY <2>1 DEF Texts
<1>2. \A q \in ps : q \in Placeholders /\ Len(q) \in 0 .. Len(t) /\ Len(q) >= 1 /\ i + Len(q) <= Len(t) + 1
  <2>1. \A q \in ps : q \in Placeholders /\ StartsAt(q, t, i)
    BY Zenon
  <2> HIDE DEF ps
  <2> QED
    BY <1>1, <2>1, PlaceholderTyped DEF StartsAt
<1>3. CASE ps = {}
  <2>1. AppliedAt(t, finish, i) = [shown |-> <<t[i]>>, taken |-> 1]
    BY <1>3 DEF AppliedAt
  <2> QED
    BY <1>1, <2>1
<1>4. CASE ps # {}
  <2>1. p \in ps
    BY <1>1, <1>2, <1>4, LongestIs
  <2>2. p \in Placeholders /\ Len(p) \in Nat /\ Len(p) >= 1 /\ i + Len(p) <= Len(t) + 1
    BY <1>2, <2>1
  <2> DEFINE shows == IF MayReplace(t, i + Len(p), finish) THEN Escaped[p] ELSE p
  <2>3. shows \in Texts
    BY <2>2, EscapedTyped, PlaceholderTyped
  <2>4. AppliedAt(t, finish, i) = [shown |-> shows, taken |-> Len(p)]
    BY <1>4 DEF AppliedAt
  <2> HIDE DEF shows, p
  <2> QED
    BY <2>2, <2>3, <2>4
<1> QED
  BY <1>3, <1>4

\* What is found at the places of a text can be rewritten.
LEMMA ApplyFits ==
    ASSUME NEW t \in Texts, NEW finish
    PROVE  Fit(AppliedPlaces(t, finish), Signs) /\ Len(AppliedPlaces(t, finish)) = Len(t)
<1> DEFINE R == [shown : Seq(Signs), taken : Nat]
           f == AppliedPlaces(t, finish)
<1>1. Len(t) \in Nat /\ DOMAIN t = 1 .. Len(t)
  BY NoText, LenProperties DEF Texts
<1>2. \A i \in 1 .. Len(t) : f[i] = AppliedAt(t, finish, i)
  BY <1>1 DEF AppliedPlaces
<1>3. \A i \in 1 .. Len(t) : f[i] \in R /\ f[i].taken >= 1 /\ i + f[i].taken <= Len(t) + 1
  BY <1>2, ApplyTyped DEF Texts
<1>4. f = [i \in 1 .. Len(t) |-> f[i]]
  BY <1>1 DEF AppliedPlaces
<1> HIDE DEF f, R
<1>5. f \in Seq(R) /\ Len(f) = Len(t)
  <2>1. f \in [1 .. Len(t) -> R]
    BY <1>3, <1>4
  <2> QED
    BY <1>1, <2>1
<1> QED
  BY <1>3, <1>5 DEF Fit, f, R

\* What is found behind the beginning of a text is what is found in its rest.
LEMMA ApplyBehind ==
    ASSUME NEW u \in Texts, NEW w \in Texts, NEW finish
    PROVE  SubSeq(AppliedPlaces(Cat(u, w), finish), Len(u) + 1, Len(u) + Len(w)) = AppliedPlaces(w, finish)
<1> DEFINE t == Cat(u, w)
           R == [shown : Seq(Signs), taken : Nat]
           f == AppliedPlaces(t, finish)
           g == AppliedPlaces(w, finish)
           k == Len(u)
           tail == SubSeq(f, k + 1, k + Len(w))
<1>1. /\ t \in Texts /\ k \in Nat /\ Len(w) \in Nat /\ Len(t) = k + Len(w)
      /\ DOMAIN t = 1 .. Len(t) /\ DOMAIN w = 1 .. Len(w)
  BY CatTyped, NoText, LenProperties DEF Texts
<1>2. f \in Seq(R) /\ Len(f) = Len(t) /\ g \in Seq(R) /\ Len(g) = Len(w)
  <2> HIDE DEF t
  <2> QED
    BY <1>1, ApplyFits DEF Fit
<1>3. \A i \in 1 .. Len(t) : f[i] = AppliedAt(t, finish, i) /\ f[i] \in R
  <2>1. \A i \in 1 .. Len(t) : f[i] = AppliedAt(t, finish, i)
    BY <1>1 DEF AppliedPlaces
  <2> QED
    BY <1>2, <2>1, ElementOfSeq
<1>4. \A i \in 1 .. Len(w) : g[i] = AppliedAt(w, finish, i)
  BY <1>1 DEF AppliedPlaces
<1>5. \A i \in 1 .. Len(w) : AppliedAt(t, finish, k + i) = AppliedAt(w, finish, i)
  BY ApplyShifted
<1> HIDE DEF f, g, t, R, k
<1>6. tail \in Seq(R) /\ Len(tail) = Len(w) /\ \A i \in 1 .. Len(w) : tail[i] = f[k + i]
  <2>1. \A i \in k + 1 .. k + Len(w) : f[i] \in R
    BY <1>1, <1>3
  <2>2. /\ tail \in Seq(R)
        /\ Len(tail) = IF k + 1 <= k + Len(w) THEN k + Len(w) - (k + 1) + 1 ELSE 0
        /\ \A i \in 1 .. k + Len(w) - (k + 1) + 1 : tail[i] = f[k + 1 + i - 1]
    BY <1>1, <2>1, SubSeqProperties
  <2> HIDE DEF tail
  <2> QED
    BY <1>1, <2>2
<1>7. ASSUME NEW i \in 1 .. Len(w) PROVE tail[i] = g[i]
  <2>1. k + i \in 1 .. Len(t)
    BY <1>1
  <2> HIDE DEF tail
  <2> QED
    BY <1>3, <1>4, <1>5, <1>6, <2>1
<1>8. tail = g
  <2> HIDE DEF tail
  <2> QED
    BY <1>2, <1>6, <1>7, SeqEqual
<1> QED
  BY <1>8 DEF f, g, t, k

\* What a text begins with comes before what the rest gives.
LEMMA ApplyUnfold ==
    ASSUME NEW x \in Texts, NEW r \in Texts, NEW finish,
           Len(x) # 0, AppliedAt(Cat(x, r), finish, 1).taken = Len(x)
    PROVE  ApplyReplacements(Cat(x, r), finish) = Cat(AppliedAt(Cat(x, r), finish, 1).shown, ApplyReplacements(r, finish))
<1> DEFINE t == Cat(x, r)
           f == AppliedPlaces(t, finish)
<1>1. t \in Texts /\ Len(t) = Len(x) + Len(r) /\ Len(x) \in Nat /\ Len(r) \in Nat /\ DOMAIN t = 1 .. Len(t)
  BY CatTyped, NoText, LenProperties DEF Texts
<1>2. Fit(f, Signs) /\ Len(f) = Len(t)
  <2> HIDE DEF t
  <2> QED
    BY <1>1, ApplyFits
<1>3. f[1] = AppliedAt(t, finish, 1)
  <2>1. 1 \in DOMAIN t
    BY <1>1
  <2> HIDE DEF t
  <2> QED
    BY <2>1 DEF AppliedPlaces
<1>4. SubSeq(f, Len(x) + 1, Len(x) + Len(r)) = AppliedPlaces(r, finish)
  BY ApplyBehind
<1>5. ApplyReplacements(t, finish) = Rewrite(f) /\ ApplyReplacements(r, finish) = Rewrite(AppliedPlaces(r, finish))
  BY ApplyIs
<1> HIDE DEF f, t
<1>6. Rewrite(f) = Cat(f[1].shown, Rewrite(SubSeq(f, f[1].taken + 1, Len(f))))
  BY <1>1, <1>2, RewriteFirst
<1>7. f[1].taken = Len(x) /\ Len(f) = Len(x) + Len(r)
  BY <1>1, <1>2, <1>3 DEF t
<1>8. ApplyReplacements(t, finish) = Cat(AppliedAt(t, finish, 1).shown, ApplyReplacements(r, finish))
  BY <1>3, <1>4, <1>5, <1>6, <1>7, Zenon
<1> QED
  BY <1>8 DEF t

\* A text with its replacements is a text; nothing comes of nothing.
LEMMA ApplyText ==
    ASSUME NEW t \in Texts, NEW finish
    PROVE  ApplyReplacements(t, finish) \in Texts /\ (t = <<>> => ApplyReplacements(t, finish) = <<>>)
<1>1. Fit(AppliedPlaces(t, finish), Signs) /\ Len(AppliedPlaces(t, finish)) = Len(t)
  BY ApplyFits
<1>2. ApplyReplacements(t, finish) = Rewrite(AppliedPlaces(t, finish))
  BY ApplyIs
<1> QED
  BY <1>1, <1>2, RewriteFirst, NoText DEF Texts

\* A text that no placeholder starts begins with its first symbol.
LEMMA ApplyLiteral ==
    ASSUME NEW c \in Signs, NEW r \in Texts, NEW finish,
           \A p \in Placeholders, w \in Texts : Cat(<<c>>, r) # Cat(p, w)
    PROVE  ApplyReplacements(Cat(<<c>>, r), finish) = Cat(<<c>>, ApplyReplacements(r, finish))
<1> DEFINE x == <<c>>
           t == Cat(x, r)
<1>1. x \in Texts /\ Len(x) = 1 /\ x[1] = c
  BY DEF Texts
<1> HIDE DEF x
<1>2. t \in Texts /\ t[1] = c
  <2>1. 1 \in 1 .. Len(x)
    BY <1>1
  <2> QED
    <3>1. x \in Seq(Signs) /\ r \in Seq(Signs)
      BY <1>1 DEF Texts
    <3>2. Cat(x, r) \in Seq(Signs) /\ Cat(x, r)[1] = x[1]
      BY <2>1, <3>1, CatTyped, CatAt
    <3> QED
      BY <1>1, <3>2 DEF Texts
<1> DEFINE ps == {q \in Placeholders : StartsAt(q, t, 1)}
<1>3. ps = {}
  <2> HIDE DEF t
  <2>1. SUFFICES ASSUME NEW p \in Placeholders, p \in ps PROVE FALSE
    OBVIOUS
  <2>2. StartsAt(p, t, 1)
    BY <2>1
  <2>3. PICK w \in Texts : t = Cat(p, w)
    BY <1>2, <2>2, StartsIs, PlaceholderTyped DEF Texts
  <2> QED
    BY <2>3 DEF t, x
<1> HIDE DEF t
<1>4. AppliedAt(t, finish, 1) = [shown |-> <<c>>, taken |-> 1]
  BY <1>2, <1>3 DEF AppliedAt
<1>5. ApplyReplacements(t, finish) = Cat(AppliedAt(t, finish, 1).shown, ApplyReplacements(r, finish))
  <2>1. AppliedAt(Cat(x, r), finish, 1).taken = Len(x) /\ Len(x) # 0
    BY <1>1, <1>4 DEF t
  <2>2. ApplyReplacements(Cat(x, r), finish) = Cat(AppliedAt(Cat(x, r), finish, 1).shown, ApplyReplacements(r, finish))
    BY <1>1, <2>1, ApplyUnfold
  <2> QED
    BY <2>2 DEF t
<1>6. ApplyReplacements(t, finish) = Cat(x, ApplyReplacements(r, finish))
  BY <1>4, <1>5 DEF x
<1> QED
  BY <1>6 DEF t, x

\* A text begins with the longest placeholder that starts it.
LEMMA ApplyLongest ==
    ASSUME NEW p \in Placeholders, NEW r \in Texts, NEW finish,
           \A q \in Placeholders, w \in Texts : Cat(p, r) = Cat(q, w) => Len(q) <= Len(p)
    PROVE  ApplyReplacements(Cat(p, r), finish) = Cat(IF Free(r, finish) THEN Escaped[p] ELSE p, ApplyReplacements(r, finish))
<1> DEFINE t == Cat(p, r)
           ps == {q \in Placeholders : StartsAt(q, t, 1)}
           l == LongestOf(ps)
<1>1. /\ p \in Texts /\ Len(p) \in Nat /\ Len(p) >= 1 /\ t \in Texts
      /\ Len(t) \in Nat /\ Len(t) = Len(p) + Len(r) /\ Len(r) \in Nat
  BY PlaceholderTyped, CatTyped, NoText DEF Texts
<1>2. StartsAt(p, t, 1)
  <2>1. \E w \in Texts : t = Cat(p, w)
    OBVIOUS
  <2> HIDE DEF t
  <2> QED
    BY <1>1, <2>1, StartsIs DEF Texts
<1>3. MayReplace(t, 1 + Len(p), finish) <=> Free(r, finish)
  <2>1. CASE Len(r) = 0
    <3>1. 1 + Len(p) > Len(t) /\ r = <<>>
      BY <1>1, <2>1, NoText DEF Texts
    <3> HIDE DEF t
    <3> QED
      BY <3>1 DEF MayReplace, Free
  <2>2. CASE Len(r) # 0
    <3>1. ~(1 + Len(p) > Len(t)) /\ r # <<>> /\ 1 \in 1 .. Len(r) /\ 1 + Len(p) = Len(p) + 1
      BY <1>1, <2>2, NoText DEF Texts
    <3>2. t[Len(p) + 1] = r[1]
      BY <1>1, <3>1, CatAt DEF Texts
    <3> HIDE DEF t
    <3> QED
      BY <3>1, <3>2 DEF MayReplace, Free
  <2> QED
    BY <2>1, <2>2
<1>4. p \in ps
  BY <1>2
<1>5. \A q \in ps : q \in Texts /\ Len(q) \in 0 .. Len(t) /\ SubSeq(t, 1, Len(q)) = q
  <2> HIDE DEF t
  <2>1. ASSUME NEW q \in ps PROVE q \in Texts /\ Len(q) \in 0 .. Len(t) /\ SubSeq(t, 1, Len(q)) = q
    <3>1. q \in Texts /\ Len(q) \in Nat /\ Len(q) >= 1
      BY PlaceholderTyped
    <3>2. 1 + Len(q) - 1 = Len(q)
      BY <3>1
    <3>3. 1 + Len(q) - 1 <= Len(t) /\ SubSeq(t, 1, 1 + Len(q) - 1) = q
      BY DEF StartsAt
    <3> QED
      BY <1>1, <3>1, <3>2, <3>3
  <2> QED
    BY <2>1
<1>6. \A q \in ps : Len(q) <= Len(p)
  <2> HIDE DEF t
  <2>1. ASSUME NEW q \in ps PROVE Len(q) <= Len(p)
    <3>1. q \in Placeholders /\ q \in Texts /\ StartsAt(q, t, 1)
      BY PlaceholderTyped
    <3>2. PICK w \in Texts : t = Cat(q, w)
      BY <1>1, <3>1, StartsIs DEF Texts
    <3> QED
      BY <3>1, <3>2 DEF t
  <2> QED
    BY <2>1
<1>7. l \in ps /\ \A q \in ps : Len(q) <= Len(l)
  <2> HIDE DEF ps
  <2> QED
    BY <1>1, <1>4, <1>5, LongestIs
<1>8. l = p
  <2>1. Len(l) <= Len(p) /\ Len(p) <= Len(l) /\ Len(l) \in Nat /\ Len(p) \in Nat
    BY <1>1, <1>4, <1>5, <1>6, <1>7
  <2>2. Len(l) = Len(p)
    BY <2>1
  <2> QED
    BY <1>4, <1>5, <1>7, <2>2
<1>9. AppliedAt(t, finish, 1) = [shown |-> IF Free(r, finish) THEN Escaped[p] ELSE p, taken |-> Len(p)]
  <2>1. ps # {}
    BY <1>4
  <2>2. AppliedAt(t, finish, 1) =
            [shown |-> IF MayReplace(t, 1 + Len(l), finish) THEN Escaped[l] ELSE l, taken |-> Len(l)]
    <3> HIDE DEF t
    <3> QED
      BY <2>1, Zenon DEF AppliedAt
  <2> HIDE DEF t, ps, l
  <2> QED
    BY <1>3, <1>8, <2>2
<1> HIDE DEF t, ps, l
<1>10. ApplyReplacements(t, finish) = Cat(AppliedAt(t, finish, 1).shown, ApplyReplacements(r, finish))
  <2>1. AppliedAt(t, finish, 1).taken = Len(p)
    BY <1>9
  <2>2. Len(p) # 0
    BY <1>1
  <2> QED
    BY <1>1, <2>1, <2>2, ApplyUnfold DEF t
<1>11. AppliedAt(t, finish, 1).shown = IF Free(r, finish) THEN Escaped[p] ELSE p
  BY <1>9
<1> QED
  BY <1>10, <1>11, Zenon DEF t

\* What Restore finds at place i, and at each place.
Whole(text, p, i) == StartsAt(p, text, i) /\ (i + Len(p) > Len(text) \/ text[i + Len(p)] \notin Digits \cup {"_"})
RestoredAt(text, values, i) ==
    LET ps == {p \in Placeholders : Whole(text, p, i)}
    IN IF ps = {} THEN [shown |-> <<text[i]>>, taken |-> 1]
       ELSE [shown |-> values[LongestOf(ps)], taken |-> Len(LongestOf(ps))]
RestoredPlaces(text, values) == [i \in DOMAIN text |-> RestoredAt(text, values, i)]

\* Restore rewrites a text with what is found at its places.
LEMMA RestoreIs == ASSUME NEW text, NEW values
    PROVE  Restore(text, values) = Rewrite(RestoredPlaces(text, values))
  BY Zenon DEF Restore, RestoredPlaces, RestoredAt, Whole

\* What is found at a place is found there behind any other text.
LEMMA RestoreShifted ==
    ASSUME NEW u \in Texts, NEW w \in Texts, NEW values, NEW i \in 1 .. Len(w)
    PROVE  RestoredAt(Cat(u, w), values, Len(u) + i) = RestoredAt(w, values, i)
<1> DEFINE t == Cat(u, w)
<1>1. Len(u) \in Nat /\ Len(w) \in Nat /\ Len(t) = Len(u) + Len(w) /\ i \in Nat \ {0}
  BY CatTyped, NoText DEF Texts
<1>2. \A n \in 1 .. Len(w) : t[Len(u) + n] = w[n]
  BY CatAt DEF Texts
<1>3. \A p \in Placeholders : StartsAt(p, t, Len(u) + i) <=> StartsAt(p, w, i)
  BY <1>1, StartsBehind, PlaceholderTyped DEF Texts
<1> HIDE DEF t
<1>4. \A p \in Placeholders : Whole(t, p, Len(u) + i) <=> Whole(w, p, i)
  <2>1. ASSUME NEW p \in Placeholders PROVE Whole(t, p, Len(u) + i) <=> Whole(w, p, i)
    <3>1. Len(p) \in Nat
      BY PlaceholderTyped
    <3> DEFINE n == i + Len(p)
    <3>2. n \in Nat /\ n >= 1 /\ Len(u) + i + Len(p) = Len(u) + n /\ (Len(u) + n > Len(t) <=> n > Len(w))
      BY <1>1, <3>1
    <3> HIDE DEF n
    <3>3. n <= Len(w) => t[Len(u) + n] = w[n]
      BY <1>1, <1>2, <3>2
    <3>4. \/ Len(u) + n > Len(t) /\ n > Len(w)
          \/ ~(Len(u) + n > Len(t)) /\ ~(n > Len(w)) /\ t[Len(u) + n] = w[n]
      BY <1>1, <3>2, <3>3
    <3>5. (Len(u) + i + Len(p) > Len(t) \/ t[Len(u) + i + Len(p)] \notin Digits \cup {"_"})
              <=> (i + Len(p) > Len(w) \/ w[i + Len(p)] \notin Digits \cup {"_"})
      <4>1. (Len(u) + n > Len(t) \/ t[Len(u) + n] \notin Digits \cup {"_"})
                <=> (n > Len(w) \/ w[n] \notin Digits \cup {"_"})
        BY <3>4
      <4> QED
        BY <3>2, <4>1 DEF n
    <3> QED
      BY <1>3, <3>5 DEF Whole
  <2> QED
    BY <2>1
<1>5. t[Len(u) + i] = w[i]
  BY <1>2
<1>6. RestoredAt(t, values, Len(u) + i) = RestoredAt(w, values, i)
  <2>1. {p \in Placeholders : Whole(t, p, Len(u) + i)} = {p \in Placeholders : Whole(w, p, i)}
    BY <1>4
  <2> QED
    BY <1>5, <2>1, Zenon DEF RestoredAt
<1> QED
  BY <1>6 DEF t

\* What is found at a place goes on to a place of the text.
LEMMA RestoreTyped ==
    ASSUME NEW t \in Texts, NEW values, \A q \in Placeholders : values[q] \in Texts, NEW i \in 1 .. Len(t)
    PROVE  /\ RestoredAt(t, values, i) \in [shown : Texts, taken : Nat]
           /\ RestoredAt(t, values, i).taken >= 1 /\ i + RestoredAt(t, values, i).taken <= Len(t) + 1
<1> DEFINE ps == {q \in Placeholders : Whole(t, q, i)}
           p == LongestOf(ps)
<1>1. Len(t) \in Nat /\ t[i] \in Signs /\ <<t[i]>> \in Texts
  <2>1. Len(t) \in Nat /\ t[i] \in Signs
    BY NoText, ElementOfSeq DEF Texts
  <2> QED
    BY <2>1 DEF Texts
<1>2. \A q \in ps : q \in Placeholders /\ Len(q) \in 0 .. Len(t) /\ Len(q) >= 1 /\ i + Len(q) <= Len(t) + 1
  <2>1. \A q \in ps : q \in Placeholders /\ StartsAt(q, t, i)
    BY Zenon DEF Whole
  <2> HIDE DEF ps
  <2> QED
    BY <1>1, <2>1, PlaceholderTyped DEF StartsAt
<1>3. CASE ps = {}
  <2>1. RestoredAt(t, values, i) = [shown |-> <<t[i]>>, taken |-> 1]
    BY <1>3 DEF RestoredAt
  <2> QED
    BY <1>1, <2>1
<1>4. CASE ps # {}
  <2>1. p \in ps
    BY <1>1, <1>2, <1>4, LongestIs
  <2>2. p \in Placeholders /\ Len(p) \in Nat /\ Len(p) >= 1 /\ i + Len(p) <= Len(t) + 1
    BY <1>2, <2>1
  <2> DEFINE shows == values[p]
  <2>3. shows \in Texts
    BY <2>2, EscapedTyped, PlaceholderTyped
  <2>4. RestoredAt(t, values, i) = [shown |-> shows, taken |-> Len(p)]
    BY <1>4 DEF RestoredAt
  <2> HIDE DEF shows, p
  <2> QED
    BY <2>2, <2>3, <2>4
<1> QED
  BY <1>3, <1>4

\* What is found at the places of a text can be rewritten.
LEMMA RestoreFits ==
    ASSUME NEW t \in Texts, NEW values, \A q \in Placeholders : values[q] \in Texts
    PROVE  Fit(RestoredPlaces(t, values), Signs) /\ Len(RestoredPlaces(t, values)) = Len(t)
<1> DEFINE R == [shown : Seq(Signs), taken : Nat]
           f == RestoredPlaces(t, values)
<1>1. Len(t) \in Nat /\ DOMAIN t = 1 .. Len(t)
  BY NoText, LenProperties DEF Texts
<1>2. \A i \in 1 .. Len(t) : f[i] = RestoredAt(t, values, i)
  BY <1>1 DEF RestoredPlaces
<1>3. \A i \in 1 .. Len(t) : f[i] \in R /\ f[i].taken >= 1 /\ i + f[i].taken <= Len(t) + 1
  BY <1>2, RestoreTyped DEF Texts
<1>4. f = [i \in 1 .. Len(t) |-> f[i]]
  BY <1>1 DEF RestoredPlaces
<1> HIDE DEF f, R
<1>5. f \in Seq(R) /\ Len(f) = Len(t)
  <2>1. f \in [1 .. Len(t) -> R]
    BY <1>3, <1>4
  <2> QED
    BY <1>1, <2>1
<1> QED
  BY <1>3, <1>5 DEF Fit, f, R

\* What is found behind the beginning of a text is what is found in its rest.
LEMMA RestoreBehind ==
    ASSUME NEW u \in Texts, NEW w \in Texts, NEW values, \A q \in Placeholders : values[q] \in Texts
    PROVE  SubSeq(RestoredPlaces(Cat(u, w), values), Len(u) + 1, Len(u) + Len(w)) = RestoredPlaces(w, values)
<1> DEFINE t == Cat(u, w)
           R == [shown : Seq(Signs), taken : Nat]
           f == RestoredPlaces(t, values)
           g == RestoredPlaces(w, values)
           k == Len(u)
           tail == SubSeq(f, k + 1, k + Len(w))
<1>1. /\ t \in Texts /\ k \in Nat /\ Len(w) \in Nat /\ Len(t) = k + Len(w)
      /\ DOMAIN t = 1 .. Len(t) /\ DOMAIN w = 1 .. Len(w)
  BY CatTyped, NoText, LenProperties DEF Texts
<1>2. f \in Seq(R) /\ Len(f) = Len(t) /\ g \in Seq(R) /\ Len(g) = Len(w)
  <2> HIDE DEF t
  <2> QED
    BY <1>1, RestoreFits DEF Fit
<1>3. \A i \in 1 .. Len(t) : f[i] = RestoredAt(t, values, i) /\ f[i] \in R
  <2>1. \A i \in 1 .. Len(t) : f[i] = RestoredAt(t, values, i)
    BY <1>1 DEF RestoredPlaces
  <2> QED
    BY <1>2, <2>1, ElementOfSeq
<1>4. \A i \in 1 .. Len(w) : g[i] = RestoredAt(w, values, i)
  BY <1>1 DEF RestoredPlaces
<1>5. \A i \in 1 .. Len(w) : RestoredAt(t, values, k + i) = RestoredAt(w, values, i)
  BY RestoreShifted
<1> HIDE DEF f, g, t, R, k
<1>6. tail \in Seq(R) /\ Len(tail) = Len(w) /\ \A i \in 1 .. Len(w) : tail[i] = f[k + i]
  <2>1. \A i \in k + 1 .. k + Len(w) : f[i] \in R
    BY <1>1, <1>3
  <2>2. /\ tail \in Seq(R)
        /\ Len(tail) = IF k + 1 <= k + Len(w) THEN k + Len(w) - (k + 1) + 1 ELSE 0
        /\ \A i \in 1 .. k + Len(w) - (k + 1) + 1 : tail[i] = f[k + 1 + i - 1]
    BY <1>1, <2>1, SubSeqProperties
  <2> HIDE DEF tail
  <2> QED
    BY <1>1, <2>2
<1>7. ASSUME NEW i \in 1 .. Len(w) PROVE tail[i] = g[i]
  <2>1. k + i \in 1 .. Len(t)
    BY <1>1
  <2> HIDE DEF tail
  <2> QED
    BY <1>3, <1>4, <1>5, <1>6, <2>1
<1>8. tail = g
  <2> HIDE DEF tail
  <2> QED
    BY <1>2, <1>6, <1>7, SeqEqual
<1> QED
  BY <1>8 DEF f, g, t, k

\* What a text begins with comes before what the rest gives.
LEMMA RestoreUnfold ==
    ASSUME NEW x \in Texts, NEW r \in Texts, NEW values, \A q \in Placeholders : values[q] \in Texts,
           Len(x) # 0, RestoredAt(Cat(x, r), values, 1).taken = Len(x)
    PROVE  Restore(Cat(x, r), values) = Cat(RestoredAt(Cat(x, r), values, 1).shown, Restore(r, values))
<1> DEFINE t == Cat(x, r)
           f == RestoredPlaces(t, values)
<1>1. t \in Texts /\ Len(t) = Len(x) + Len(r) /\ Len(x) \in Nat /\ Len(r) \in Nat /\ DOMAIN t = 1 .. Len(t)
  BY CatTyped, NoText, LenProperties DEF Texts
<1>2. Fit(f, Signs) /\ Len(f) = Len(t)
  <2> HIDE DEF t
  <2> QED
    BY <1>1, RestoreFits
<1>3. f[1] = RestoredAt(t, values, 1)
  <2>1. 1 \in DOMAIN t
    BY <1>1
  <2> HIDE DEF t
  <2> QED
    BY <2>1 DEF RestoredPlaces
<1>4. SubSeq(f, Len(x) + 1, Len(x) + Len(r)) = RestoredPlaces(r, values)
  BY RestoreBehind
<1>5. Restore(t, values) = Rewrite(f) /\ Restore(r, values) = Rewrite(RestoredPlaces(r, values))
  BY RestoreIs
<1> HIDE DEF f, t
<1>6. Rewrite(f) = Cat(f[1].shown, Rewrite(SubSeq(f, f[1].taken + 1, Len(f))))
  BY <1>1, <1>2, RewriteFirst
<1>7. f[1].taken = Len(x) /\ Len(f) = Len(x) + Len(r)
  BY <1>1, <1>2, <1>3 DEF t
<1>8. Restore(t, values) = Cat(RestoredAt(t, values, 1).shown, Restore(r, values))
  BY <1>3, <1>4, <1>5, <1>6, <1>7, Zenon
<1> QED
  BY <1>8 DEF t

\* A restored text is a text; nothing comes of nothing.
LEMMA RestoreText ==
    ASSUME NEW t \in Texts, NEW values, \A q \in Placeholders : values[q] \in Texts
    PROVE  Restore(t, values) \in Texts /\ (t = <<>> => Restore(t, values) = <<>>)
<1>1. Fit(RestoredPlaces(t, values), Signs) /\ Len(RestoredPlaces(t, values)) = Len(t)
  BY RestoreFits
<1>2. Restore(t, values) = Rewrite(RestoredPlaces(t, values))
  BY RestoreIs
<1> QED
  BY <1>1, <1>2, RewriteFirst, NoText DEF Texts

\* A text that no placeholder starts begins with its first symbol.
LEMMA RestoreLiteral ==
    ASSUME NEW c \in Signs, NEW r \in Texts, NEW values, \A q \in Placeholders : values[q] \in Texts,
           \A p \in Placeholders, w \in Texts : Cat(<<c>>, r) = Cat(p, w) => ~Closes(w)
    PROVE  Restore(Cat(<<c>>, r), values) = Cat(<<c>>, Restore(r, values))
<1> DEFINE x == <<c>>
           t == Cat(x, r)
<1>1. x \in Texts /\ Len(x) = 1 /\ x[1] = c
  BY DEF Texts
<1> HIDE DEF x
<1>2. t \in Texts /\ t[1] = c
  <2>1. 1 \in 1 .. Len(x)
    BY <1>1
  <2> QED
    <3>1. x \in Seq(Signs) /\ r \in Seq(Signs)
      BY <1>1 DEF Texts
    <3>2. Cat(x, r) \in Seq(Signs) /\ Cat(x, r)[1] = x[1]
      BY <2>1, <3>1, CatTyped, CatAt
    <3> QED
      BY <1>1, <3>2 DEF Texts
<1> DEFINE ps == {q \in Placeholders : Whole(t, q, 1)}
<1>3. ps = {}
  <2> HIDE DEF t
  <2>1. SUFFICES ASSUME NEW p \in Placeholders, p \in ps PROVE FALSE
    OBVIOUS
  <2>2. StartsAt(p, t, 1)
    BY <2>1 DEF Whole
  <2>3. PICK w \in Texts : t = Cat(p, w)
    BY <1>2, <2>2, StartsIs, PlaceholderTyped DEF Texts
  <2>4. ~Closes(w)
    BY <2>3 DEF t, x
  <2>5. Closes(w)
    <3>1. w # <<>> => Len(w) # 0 /\ Len(w) \in Nat
      BY NoText DEF Texts
    <3>2. Len(t) = Len(p) + Len(w) /\ Len(p) \in Nat
      BY <2>3, PlaceholderTyped, CatTyped DEF Texts
    <3>3. ASSUME w # <<>> PROVE w[1] \notin Digits \cup {"_"}
      <4>1. 1 \in 1 .. Len(w) /\ ~(1 + Len(p) > Len(t)) /\ 1 + Len(p) = Len(p) + 1
        BY <3>1, <3>2, <3>3
      <4>2. t[Len(p) + 1] = w[1]
        BY <2>3, <4>1, PlaceholderTyped, CatAt DEF Texts
      <4>3. t[1 + Len(p)] \notin Digits \cup {"_"}
        BY <2>1, <4>1 DEF Whole
      <4> QED
        BY <4>1, <4>2, <4>3
    <3> QED
      BY <3>3 DEF Closes
  <2> QED
    BY <2>4, <2>5
<1> HIDE DEF t
<1>4. RestoredAt(t, values, 1) = [shown |-> <<c>>, taken |-> 1]
  BY <1>2, <1>3 DEF RestoredAt
<1>5. Restore(t, values) = Cat(RestoredAt(t, values, 1).shown, Restore(r, values))
  <2>1. RestoredAt(Cat(x, r), values, 1).taken = Len(x) /\ Len(x) # 0
    BY <1>1, <1>4 DEF t
  <2>2. Restore(Cat(x, r), values) = Cat(RestoredAt(Cat(x, r), values, 1).shown, Restore(r, values))
    BY <1>1, <2>1, RestoreUnfold
  <2> QED
    BY <2>2 DEF t
<1>6. Restore(t, values) = Cat(x, Restore(r, values))
  BY <1>4, <1>5 DEF x
<1> QED
  BY <1>6 DEF t, x

\* A text begins with the longest placeholder that starts it.
LEMMA RestoreLongest ==
    ASSUME NEW p \in Placeholders, NEW r \in Texts, NEW values, \A q \in Placeholders : values[q] \in Texts, Closes(r),
           \A q \in Placeholders, w \in Texts : Cat(p, r) = Cat(q, w) /\ Closes(w) => Len(q) <= Len(p)
    PROVE  Restore(Cat(p, r), values) = Cat(values[p], Restore(r, values))
<1> DEFINE t == Cat(p, r)
           ps == {q \in Placeholders : Whole(t, q, 1)}
           l == LongestOf(ps)
<1>1. /\ p \in Texts /\ Len(p) \in Nat /\ Len(p) >= 1 /\ t \in Texts
      /\ Len(t) \in Nat /\ Len(t) = Len(p) + Len(r) /\ Len(r) \in Nat
  BY PlaceholderTyped, CatTyped, NoText DEF Texts
<1>2. StartsAt(p, t, 1)
  <2>1. \E w \in Texts : t = Cat(p, w)
    OBVIOUS
  <2> HIDE DEF t
  <2> QED
    BY <1>1, <2>1, StartsIs DEF Texts
<1>3. ASSUME NEW q \in Placeholders, NEW w \in Texts, t = Cat(q, w)
      PROVE  Closes(w) <=> (1 + Len(q) > Len(t) \/ t[1 + Len(q)] \notin Digits \cup {"_"})
  <2>1. q \in Texts /\ Len(t) = Len(q) + Len(w) /\ Len(q) \in Nat /\ Len(w) \in Nat
    BY <1>3, PlaceholderTyped, CatTyped, NoText DEF Texts
  <2> HIDE DEF t
  <2>2. CASE Len(w) = 0
    <3>1. 1 + Len(q) > Len(t) /\ w = <<>>
      BY <2>1, <2>2, NoText DEF Texts
    <3> QED
      BY <3>1 DEF Closes
  <2>3. CASE Len(w) # 0
    <3>1. ~(1 + Len(q) > Len(t)) /\ w # <<>> /\ 1 \in 1 .. Len(w) /\ 1 + Len(q) = Len(q) + 1
      BY <2>1, <2>3, NoText DEF Texts
    <3>2. t[Len(q) + 1] = w[1]
      BY <1>3, <2>1, <3>1, CatAt DEF Texts
    <3> QED
      BY <3>1, <3>2 DEF Closes
  <2> QED
    BY <2>2, <2>3
<1>4. p \in ps
  <2>1. 1 + Len(p) > Len(t) \/ t[1 + Len(p)] \notin Digits \cup {"_"}
    BY <1>3
  <2> HIDE DEF t
  <2> QED
    BY <1>2, <2>1 DEF Whole
<1>5. \A q \in ps : q \in Texts /\ Len(q) \in 0 .. Len(t) /\ SubSeq(t, 1, Len(q)) = q
  <2> HIDE DEF t
  <2>1. ASSUME NEW q \in ps PROVE q \in Texts /\ Len(q) \in 0 .. Len(t) /\ SubSeq(t, 1, Len(q)) = q
    <3>1. q \in Texts /\ Len(q) \in Nat /\ Len(q) >= 1
      BY PlaceholderTyped
    <3>2. 1 + Len(q) - 1 = Len(q)
      BY <3>1
    <3>3. 1 + Len(q) - 1 <= Len(t) /\ SubSeq(t, 1, 1 + Len(q) - 1) = q
      BY DEF StartsAt, Whole
    <3> QED
      BY <1>1, <3>1, <3>2, <3>3
  <2> QED
    BY <2>1
<1>6. \A q \in ps : Len(q) <= Len(p)
  <2> HIDE DEF t
  <2>1. ASSUME NEW q \in ps PROVE Len(q) <= Len(p)
    <3>1. q \in Placeholders /\ q \in Texts /\ Whole(t, q, 1)
      BY PlaceholderTyped
    <3>2. PICK w \in Texts : t = Cat(q, w)
      BY <1>1, <3>1, StartsIs, ZenonT(60) DEF Texts, Whole
    <3>3. Closes(w)
      BY <1>3, <3>1, <3>2 DEF Whole
    <3> QED
      BY <3>1, <3>2, <3>3 DEF t
  <2> QED
    BY <2>1
<1>7. l \in ps /\ \A q \in ps : Len(q) <= Len(l)
  <2> HIDE DEF ps
  <2> QED
    BY <1>1, <1>4, <1>5, LongestIs
<1>8. l = p
  <2>1. Len(l) <= Len(p) /\ Len(p) <= Len(l) /\ Len(l) \in Nat /\ Len(p) \in Nat
    BY <1>1, <1>4, <1>5, <1>6, <1>7
  <2>2. Len(l) = Len(p)
    BY <2>1
  <2> QED
    BY <1>4, <1>5, <1>7, <2>2
<1>9. RestoredAt(t, values, 1) = [shown |-> values[p], taken |-> Len(p)]
  <2>1. ps # {}
    BY <1>4
  <2>2. RestoredAt(t, values, 1) = [shown |-> values[l], taken |-> Len(l)]
    <3> HIDE DEF t
    <3> QED
      BY <2>1, Zenon DEF RestoredAt
  <2> HIDE DEF t, ps, l
  <2> QED
    BY <1>8, <2>2
<1> HIDE DEF t, ps, l
<1>10. Restore(t, values) = Cat(RestoredAt(t, values, 1).shown, Restore(r, values))
  <2>1. RestoredAt(t, values, 1).taken = Len(p)
    BY <1>9
  <2>2. Len(p) # 0
    BY <1>1
  <2> QED
    BY <1>1, <2>1, <2>2, RestoreUnfold DEF t
<1>11. RestoredAt(t, values, 1).shown = values[p]
  BY <1>9
<1> QED
  BY <1>10, <1>11, Zenon DEF t

\* The algebra of texts.
LEMMA TextLen ==
    /\ <<>> \in Texts /\ Len(<<>>) = 0
    /\ \A a \in Texts : Len(a) \in Nat /\ (Len(a) = 0 <=> a = <<>>) /\ Cat(a, <<>>) = a /\ Cat(<<>>, a) = a
  BY NoText, CatEmpty DEF Texts

\* Two texts put together are a text.
LEMMA TextCat ==
    \A a, b \in Texts : /\ Cat(a, b) \in Texts /\ Len(Cat(a, b)) = Len(a) + Len(b)
                        /\ Cat(a, b) = <<>> => a = <<>> /\ b = <<>>
<1> SUFFICES ASSUME NEW a \in Texts, NEW b \in Texts
             PROVE  /\ Cat(a, b) \in Texts /\ Len(Cat(a, b)) = Len(a) + Len(b)
                    /\ Cat(a, b) = <<>> => a = <<>> /\ b = <<>>
  OBVIOUS
<1>1. Cat(a, b) \in Texts /\ Len(Cat(a, b)) = Len(a) + Len(b)
  BY CatTyped DEF Texts
<1> QED
  BY <1>1, TextLen

\* Texts are put together in any grouping.
LEMMA TextAssoc == \A a, b, c \in Texts : Cat(Cat(a, b), c) = Cat(a, Cat(b, c))
  BY CatTwice DEF Texts

\* A part of a text is known from the whole and the other part.
LEMMA TextCancel ==
    \A a, b, c \in Texts : (Cat(a, b) = Cat(a, c) => b = c) /\ (Cat(a, c) = Cat(b, c) => a = b)
  BY CatCancel, CatCancelRight DEF Texts

\* The longer of two beginnings of a text begins with the shorter one.
LEMMA TextLevi ==
    \A a, b, c, d \in Texts : Cat(a, b) = Cat(c, d) /\ Len(a) <= Len(c) =>
        \E e \in Texts : c = Cat(a, e) /\ b = Cat(e, d)
  BY Levi DEF Texts

\* A text that is not empty is its first symbol and the rest.
LEMMA TextFirst == \A t \in Texts : t # <<>> => \E c \in Signs, r \in Texts :
    <<c>> \in Texts /\ Len(<<c>>) = 1 /\ <<c>> # <<>> /\ t = Cat(<<c>>, r) /\ Len(t) = Len(r) + 1
<1> SUFFICES ASSUME NEW t \in Texts, t # <<>>
             PROVE  \E c \in Signs, r \in Texts :
                        <<c>> \in Texts /\ Len(<<c>>) = 1 /\ <<c>> # <<>> /\ t = Cat(<<c>>, r) /\ Len(t) = Len(r) + 1
  OBVIOUS
<1>1. Len(t) # 0
  BY TextLen
<1>2. PICK c \in Signs, r \in Texts : <<c>> \in Texts /\ Len(<<c>>) = 1 /\ t = Cat(<<c>>, r) /\ Len(t) = Len(r) + 1
  <2>1. t \in Seq(Signs)
    BY DEF Texts
  <2>2. \E c \in Signs, r \in Seq(Signs) :
            /\ <<c>> \in Seq(Signs) /\ Len(<<c>>) = 1 /\ c = t[1]
            /\ t = Cat(<<c>>, r) /\ Len(t) = Len(r) + 1
    BY <1>1, <2>1, FirstSign
  <2> QED
    BY <2>2, Zenon DEF Texts
<1>3. <<c>> # <<>>
  BY <1>2, TextLen
<1> QED
  BY <1>2, <1>3

\* The first symbol of two texts.
LEMMA TextHead == \A a, b \in Texts : a # <<>> => Cat(a, b)[1] = a[1] /\ Cat(a, b) # <<>>
<1> SUFFICES ASSUME NEW a \in Texts, NEW b \in Texts, a # <<>> PROVE Cat(a, b)[1] = a[1] /\ Cat(a, b) # <<>>
  OBVIOUS
<1>1. 1 \in 1 .. Len(a)
  BY TextLen
<1>2. a \in Seq(Signs) /\ b \in Seq(Signs)
  BY DEF Texts
<1>3. \A i \in 1 .. Len(a) : Cat(a, b)[i] = a[i]
  BY <1>2, CatAt
<1> QED
  BY <1>1, <1>3, TextCat

\* A text starts with what it begins with, behind any other text as well.
LEMMA TextStarts ==
    /\ \A p, t \in Texts : StartsAt(p, t, 1) <=> \E w \in Texts : t = Cat(p, w)
    /\ \A p, u, w \in Texts : StartsAt(p, Cat(u, w), Len(u) + 1) <=> StartsAt(p, w, 1)
<1>1. \A p, t \in Texts : StartsAt(p, t, 1) <=> \E w \in Texts : t = Cat(p, w)
  BY StartsIs DEF Texts
<1>2. ASSUME NEW p \in Texts, NEW u \in Texts, NEW w \in Texts
      PROVE  StartsAt(p, Cat(u, w), Len(u) + 1) <=> StartsAt(p, w, 1)
  <2>1. p \in Seq(Signs) /\ u \in Seq(Signs) /\ w \in Seq(Signs) /\ 1 \in Nat \ {0}
    BY DEF Texts
  <2>2. \A i \in Nat \ {0} : StartsAt(p, Cat(u, w), Len(u) + i) <=> StartsAt(p, w, i)
    BY <2>1, StartsBehind
  <2> QED
    BY <2>1, <2>2
<1> QED
  BY <1>1, <1>2

\* The symbol behind the first of two texts is the first of the second.
LEMMA TextNext == \A a, b \in Texts : b # <<>> => Cat(a, b)[Len(a) + 1] = b[1]
<1> SUFFICES ASSUME NEW a \in Texts, NEW b \in Texts, b # <<>> PROVE Cat(a, b)[Len(a) + 1] = b[1]
  OBVIOUS
<1>1. 1 \in 1 .. Len(b)
  BY TextLen
<1>2. a \in Seq(Signs) /\ b \in Seq(Signs)
  BY DEF Texts
<1>3. \A i \in 1 .. Len(b) : Cat(a, b)[Len(a) + i] = b[i]
  BY <1>2, CatAt
<1> QED
  BY <1>1, <1>3

\* What is behind the beginning of a text.
LEMMA TextBehind ==
    ASSUME NEW u \in Texts, NEW w \in Texts
    PROVE  SubSeq(Cat(u, w), Len(u) + 1, Len(u) + Len(w)) = w /\ SubSeq(Cat(u, w), 1, Len(u)) = u
<1> DEFINE q == Cat(u, w)
           a == SubSeq(q, 1, Len(u))
           b == SubSeq(q, Len(u) + 1, Len(q))
<1>1. /\ q \in Texts /\ Len(q) = Len(u) + Len(w) /\ Len(u) \in Nat /\ Len(w) \in Nat
      /\ Len(u) \in 0 .. Len(q)
  BY TextCat, TextLen
<1>2. StartsAt(u, q, 1)
  <2>1. \E x \in Texts : q = Cat(u, x)
    OBVIOUS
  <2> HIDE DEF q
  <2> QED
    BY <1>1, <2>1, StartsIs DEF Texts
<1>3. a = u
  <2>1. 1 + Len(u) - 1 = Len(u)
    BY <1>1
  <2> HIDE DEF q
  <2> QED
    BY <1>2, <2>1 DEF StartsAt
<1>4. a \in Texts /\ b \in Texts /\ q = Cat(a, b)
  <2> HIDE DEF q
  <2> QED
    BY <1>1, SplitAt DEF Texts
<1> HIDE DEF a, b
<1>5. Cat(u, w) = Cat(u, b)
  BY <1>3, <1>4
<1>6. b = w
  BY <1>4, <1>5, TextCancel
<1> QED
  BY <1>1, <1>3, <1>6 DEF a, b

\* The tail of a placeholder neither starts with a placeholder nor starts one.
LEMMA TailsStand ==
    \A p, q \in Placeholders, u, w, r \in Texts :
        q = Cat(u, w) /\ u # <<>> /\ w # <<>> => w # Cat(p, r) /\ p # Cat(w, r)
<1> SUFFICES ASSUME NEW p \in Placeholders, NEW q \in Placeholders,
                    NEW u \in Texts, NEW w \in Texts, NEW r \in Texts,
                    q = Cat(u, w), u # <<>>, w # <<>>
             PROVE  w # Cat(p, r) /\ p # Cat(w, r)
  OBVIOUS
<1>1. p \in Texts /\ q \in Texts
  BY PlaceholderTyped
<1>2. /\ Len(q) = Len(u) + Len(w) /\ Len(u) \in Nat /\ Len(w) \in Nat /\ Len(u) # 0 /\ Len(w) # 0
  BY TextCat, TextLen
<1>3. Len(u) + 1 \in 2 .. Len(q)
  BY <1>2
<1>4. ~StartsAt(p, q, Len(u) + 1) /\ ~StartsAt(SubSeq(q, Len(u) + 1, Len(q)), p, 1)
  BY <1>3, StreamAssumption
<1>5. SubSeq(q, Len(u) + 1, Len(q)) = w
  BY <1>2, TextBehind
<1>6. StartsAt(p, q, Len(u) + 1) <=> StartsAt(p, w, 1)
  BY <1>1, TextStarts
<1>7. ~StartsAt(p, w, 1) /\ ~StartsAt(w, p, 1)
  BY <1>4, <1>5, <1>6
<1> QED
  BY <1>1, <1>7, TextStarts

\* What begins a placeholder, or what a placeholder stands for, is followed by a
\* digit in a placeholder.
LEMMA DigitBehind ==
    \A p, q \in Placeholders, u, w \in Texts : \A part \in {Escaped[p], p} :
        q = Cat(u, Cat(part, w)) /\ w # <<>> => w[1] \in Digits
<1> SUFFICES ASSUME NEW p \in Placeholders, NEW q \in Placeholders, NEW u \in Texts, NEW w \in Texts,
                    NEW part \in {Escaped[p], p}, q = Cat(u, Cat(part, w)), w # <<>>
             PROVE  w[1] \in Digits
  OBVIOUS
<1>1. part \in Texts /\ q \in Texts
  BY PlaceholderTyped, EscapedTyped
<1> DEFINE b == Cat(part, w)
           a == Cat(u, part)
<1>2. b \in Texts /\ Len(b) = Len(part) + Len(w) /\ a \in Texts /\ Len(a) = Len(u) + Len(part) /\ q = Cat(a, w)
  <2>1. b \in Texts /\ Len(b) = Len(part) + Len(w)
    BY <1>1, TextCat
  <2>2. a \in Texts /\ Len(a) = Len(u) + Len(part)
    BY <1>1, TextCat
  <2>3. q = Cat(a, w)
    BY <1>1, TextAssoc
  <2> QED
    BY <2>1, <2>2, <2>3
<1>b. q = Cat(u, b)
  OBVIOUS
<1>3. Len(q) = Len(u) + Len(b) /\ Len(u) \in Nat /\ Len(w) \in Nat /\ Len(part) \in Nat /\ Len(w) # 0
  <2> HIDE DEF b
  <2> QED
    <3>1. Len(q) = Len(u) + Len(b)
      <4>1. b \in Texts
        BY <1>2
      <4> QED
        BY <1>b, <4>1, TextCat
    <3>2. Len(u) \in Nat /\ Len(w) \in Nat /\ Len(part) \in Nat /\ Len(w) # 0
      BY <1>1, TextLen
    <3> QED
      BY <3>1, <3>2
<1>4. StartsAt(part, b, 1)
  <2>1. \E x \in Texts : b = Cat(part, x)
    OBVIOUS
  <2> HIDE DEF b
  <2> QED
    BY <1>1, <1>2, <2>1, TextStarts
<1> HIDE DEF a
<1>5. StartsAt(part, q, Len(u) + 1)
  <2> HIDE DEF b
  <2> QED
    BY <1>1, <1>2, <1>b, <1>4, TextStarts
<1> HIDE DEF b
<1> DEFINE i == Len(u) + 1
<1>6. i \in 1 .. Len(q) /\ i + Len(part) <= Len(q) /\ i + Len(part) = Len(a) + 1
  BY <1>2, <1>3
<1>7. StartsAt(part, q, i)
  BY <1>5
<1> HIDE DEF i
<1>8. q[i + Len(part)] \in Digits
  BY <1>6, <1>7, StreamAssumption
<1>9. q[Len(a) + 1] = w[1]
  BY <1>2, TextNext
<1> QED
  BY <1>6, <1>8, <1>9

\* The longest placeholder that starts a text.
LEMMA LongestStart ==
    ASSUME NEW t \in Texts, NEW p0 \in Placeholders, NEW w0 \in Texts, t = Cat(p0, w0)
    PROVE  \E p \in Placeholders, w \in Texts :
               t = Cat(p, w) /\ \A q \in Placeholders, x \in Texts : t = Cat(q, x) => Len(q) <= Len(p)
<1> DEFINE ps == {p \in Placeholders : \E w \in Texts : t = Cat(p, w)}
<1>1. p0 \in ps
  OBVIOUS
<1>2. \A p \in ps : Len(p) \in 0 .. Len(t)
  <2>1. ASSUME NEW p \in Placeholders, NEW w \in Texts, t = Cat(p, w) PROVE Len(p) \in 0 .. Len(t)
    <3>1. p \in Texts
      BY PlaceholderTyped
    <3>2. Len(t) = Len(p) + Len(w) /\ Len(p) \in Nat /\ Len(w) \in Nat
      BY <2>1, <3>1, TextCat, TextLen
    <3> QED
      BY <3>2
  <2> QED
    BY <2>1
<1>3. Len(t) \in Nat
  BY TextLen
<1>4. LongestOf(ps) \in ps /\ \A q \in ps : Len(q) <= Len(LongestOf(ps))
  <2> HIDE DEF ps
  <2> QED
    BY <1>1, <1>2, <1>3, LongestIs
<1> DEFINE l == LongestOf(ps)
<1>5. l \in ps /\ \A q \in ps : Len(q) <= Len(l)
  BY <1>4
<1> HIDE DEF l
<1> QED
  BY <1>5

\* A set of texts that has each text when it has all shorter ones has all.
LEMMA TextInduction ==
    ASSUME NEW T, \A t \in Texts : (\A r \in Texts : Len(r) < Len(t) => r \in T) => t \in T
    PROVE  \A t \in Texts : t \in T
<1> DEFINE Short == {m \in Nat : \A r \in Texts : Len(r) <= m => r \in T}
<1>1. SUFFICES ASSUME NEW t \in Texts PROVE t \in T
  OBVIOUS
<1>2. \A r \in Texts : Len(r) \in Nat
  BY TextLen
<1>3. 0 \in Short
  <2>1. ASSUME NEW r \in Texts, Len(r) <= 0 PROVE r \in T
    <3>1. \A s \in Texts : ~(Len(s) < Len(r))
      BY <1>2, <2>1
    <3> QED
      BY <3>1
  <2> QED
    BY <2>1
<1>4. ASSUME NEW m \in 1 .. Len(t), m - 1 \in Short PROVE m \in Short
  <2>1. ASSUME NEW r \in Texts, Len(r) <= m PROVE r \in T
    <3>1. \A s \in Texts : Len(s) < Len(r) => Len(s) <= m - 1
      BY <1>2, <2>1
    <3>2. \A s \in Texts : Len(s) < Len(r) => s \in T
      BY <1>4, <3>1
    <3> QED
      BY <3>2
  <2>2. m \in Nat
    OBVIOUS
  <2> QED
    BY <2>1, <2>2
<1> HIDE DEF Short
<1>5. \A m \in 0 .. Len(t) : m \in Short
  BY <1>2, <1>3, <1>4, UpTo
<1>6. Len(t) \in Short
  BY <1>2, <1>5
<1>7. Len(t) <= Len(t)
  BY <1>2
<1> QED
  BY <1>6, <1>7 DEF Short

\* Two ways to cut a text.
Cuts(a, b, c, d) ==
    \/ \E e \in Texts : c = Cat(a, e) /\ b = Cat(e, d)
    \/ \E e \in Texts : e # <<>> /\ a = Cat(c, e) /\ d = Cat(e, b)

\* One of two beginnings of a text begins with the other.
LEMMA TextCuts == \A a, b, c, d \in Texts : Cat(a, b) = Cat(c, d) => Cuts(a, b, c, d)
<1> SUFFICES ASSUME NEW a \in Texts, NEW b \in Texts, NEW c \in Texts, NEW d \in Texts, Cat(a, b) = Cat(c, d)
             PROVE  \/ \E e \in Texts : c = Cat(a, e) /\ b = Cat(e, d)
                    \/ \E e \in Texts : e # <<>> /\ a = Cat(c, e) /\ d = Cat(e, b)
  BY Zenon DEF Cuts
<1>1. Len(a) \in Nat /\ Len(c) \in Nat
  BY TextLen
<1>2. CASE Len(a) <= Len(c)
  <2>1. \E e \in Texts : c = Cat(a, e) /\ b = Cat(e, d)
    BY <1>2, TextLevi
  <2> QED
    BY <2>1
<1>3. CASE ~(Len(a) <= Len(c))
  <2>1. Len(c) <= Len(a)
    BY <1>1, <1>3
  <2>2. PICK e \in Texts : a = Cat(c, e) /\ d = Cat(e, b)
    BY <2>1, TextLevi
  <2>3. e # <<>>
    <3>1. SUFFICES ASSUME e = <<>> PROVE FALSE
      OBVIOUS
    <3>2. a = c
      BY <2>2, <3>1, TextLen
    <3> QED
      BY <1>1, <1>3, <3>2
  <2> QED
    BY <2>2, <2>3
<1> QED
  BY <1>2, <1>3

\* No placeholder starts in z before w; none that ends does.
Plain(z, w) ==
    \A a, b \in Texts : z = Cat(a, b) /\ b # <<>> =>
        \A p \in Placeholders, r \in Texts : Cat(b, w) # Cat(p, r)
Dull(z, w) ==
    \A a, b \in Texts : z = Cat(a, b) /\ b # <<>> =>
        \A p \in Placeholders, r \in Texts : Cat(b, w) = Cat(p, r) => ~Closes(r)

\* A beginning in which no placeholder starts stays as it is.
LEMMA ApplyPlain ==
    ASSUME NEW w \in Texts, NEW finish
    PROVE  \A z \in Texts : Plain(z, w) => ApplyReplacements(Cat(z, w), finish) = Cat(z, ApplyReplacements(w, finish))
<1> DEFINE Kept(z) == ApplyReplacements(Cat(z, w), finish) = Cat(z, ApplyReplacements(w, finish))
           T == {z \in Texts : Plain(z, w) => Kept(z)}
<1>1. ASSUME NEW z \in Texts, \A y \in Texts : Len(y) < Len(z) => y \in T, Plain(z, w) PROVE Kept(z)
  <2>1. CASE z = <<>>
    <3>1. Cat(z, w) = w /\ ApplyReplacements(w, finish) \in Texts
      BY <2>1, TextLen, ApplyText
    <3>2. Cat(z, ApplyReplacements(w, finish)) = ApplyReplacements(w, finish)
      BY <2>1, <3>1, TextLen
    <3> QED
      BY <3>1, <3>2
  <2>2. CASE z # <<>>
    <3>1. PICK c \in Signs, y \in Texts :
              /\ <<c>> \in Texts /\ z = Cat(<<c>>, y) /\ Len(z) = Len(y) + 1
      BY <2>2, TextFirst
    <3>2. Cat(z, w) = Cat(<<c>>, Cat(y, w)) /\ Cat(y, w) \in Texts
      BY <3>1, TextAssoc, TextCat
    <3>3. \A p \in Placeholders, r \in Texts : Cat(<<c>>, Cat(y, w)) # Cat(p, r)
      <4>1. z = Cat(<<>>, z) /\ <<>> \in Texts
        BY TextLen
      <4>2. \A p \in Placeholders, r \in Texts : Cat(z, w) # Cat(p, r)
        BY <1>1, <2>2, <4>1 DEF Plain
      <4> QED
        BY <3>2, <4>2
    <3>4. ApplyReplacements(Cat(<<c>>, Cat(y, w)), finish) = Cat(<<c>>, ApplyReplacements(Cat(y, w), finish))
      BY <3>2, <3>3, ApplyLiteral
    <3>5. Plain(y, w)
      <4>1. ASSUME NEW a \in Texts, NEW b \in Texts, y = Cat(a, b), b # <<>>,
                   NEW p \in Placeholders, NEW r \in Texts
            PROVE  Cat(b, w) # Cat(p, r)
        <5>1. z = Cat(Cat(<<c>>, a), b) /\ Cat(<<c>>, a) \in Texts
          BY <3>1, <4>1, TextAssoc, TextCat
        <5> QED
          BY <1>1, <4>1, <5>1 DEF Plain
      <4> QED
        BY <4>1 DEF Plain
    <3>6. Kept(y)
      <4>1. Len(y) < Len(z)
        BY <3>1, TextLen
      <4>2. y \in T
        BY <1>1, <4>1
      <4> QED
        BY <3>5, <4>2
    <3>7. Cat(<<c>>, Cat(y, ApplyReplacements(w, finish))) = Cat(z, ApplyReplacements(w, finish))
      BY <3>1, TextAssoc, ApplyText
    <3> QED
      BY <3>2, <3>4, <3>6, <3>7
  <2> QED
    BY <2>1, <2>2
<1> HIDE DEF Kept
<1>2. \A z \in Texts : (\A y \in Texts : Len(y) < Len(z) => y \in T) => z \in T
  BY <1>1
<1> HIDE DEF T
<1>3. \A z \in Texts : z \in T
  BY <1>2, TextInduction
<1> QED
  BY <1>3 DEF T, Kept

\* A beginning in which no placeholder starts that ends stays as it is.
LEMMA RestoreDull ==
    ASSUME NEW w \in Texts, NEW values, \A q \in Placeholders : values[q] \in Texts
    PROVE  \A z \in Texts : Dull(z, w) => Restore(Cat(z, w), values) = Cat(z, Restore(w, values))
<1> DEFINE Kept(z) == Restore(Cat(z, w), values) = Cat(z, Restore(w, values))
           T == {z \in Texts : Dull(z, w) => Kept(z)}
<1>0. Restore(w, values) \in Texts
  BY RestoreText
<1>1. ASSUME NEW z \in Texts, \A y \in Texts : Len(y) < Len(z) => y \in T, Dull(z, w) PROVE Kept(z)
  <2>1. CASE z = <<>>
    <3>1. Cat(z, w) = w
      BY <2>1, TextLen
    <3>2. Cat(z, Restore(w, values)) = Restore(w, values)
      BY <1>0, <2>1, TextLen
    <3> QED
      BY <3>1, <3>2
  <2>2. CASE z # <<>>
    <3>1. PICK c \in Signs, y \in Texts :
              /\ <<c>> \in Texts /\ z = Cat(<<c>>, y) /\ Len(z) = Len(y) + 1
      BY <2>2, TextFirst
    <3>2. Cat(z, w) = Cat(<<c>>, Cat(y, w)) /\ Cat(y, w) \in Texts
      BY <3>1, TextAssoc, TextCat
    <3>3. \A p \in Placeholders, r \in Texts : Cat(<<c>>, Cat(y, w)) = Cat(p, r) => ~Closes(r)
      <4>1. z = Cat(<<>>, z) /\ <<>> \in Texts
        BY TextLen
      <4>2. \A p \in Placeholders, r \in Texts : Cat(z, w) = Cat(p, r) => ~Closes(r)
        BY <1>1, <2>2, <4>1 DEF Dull
      <4> QED
        BY <3>2, <4>2
    <3>4. Restore(Cat(<<c>>, Cat(y, w)), values) = Cat(<<c>>, Restore(Cat(y, w), values))
      BY <3>2, <3>3, RestoreLiteral
    <3>5. Dull(y, w)
      <4>1. ASSUME NEW a \in Texts, NEW b \in Texts, y = Cat(a, b), b # <<>>,
                   NEW p \in Placeholders, NEW r \in Texts, Cat(b, w) = Cat(p, r)
            PROVE  ~Closes(r)
        <5>1. z = Cat(Cat(<<c>>, a), b) /\ Cat(<<c>>, a) \in Texts
          BY <3>1, <4>1, TextAssoc, TextCat
        <5> QED
          BY <1>1, <4>1, <5>1 DEF Dull
      <4> QED
        BY <4>1 DEF Dull
    <3>6. Kept(y)
      <4>1. Len(y) < Len(z)
        BY <3>1, TextLen
      <4>2. y \in T
        BY <1>1, <4>1
      <4> QED
        BY <3>5, <4>2
    <3>7. Cat(<<c>>, Cat(y, Restore(w, values))) = Cat(z, Restore(w, values))
      BY <1>0, <3>1, TextAssoc
    <3> QED
      BY <3>2, <3>4, <3>6, <3>7
  <2> QED
    BY <2>1, <2>2
<1> HIDE DEF Kept
<1>2. \A z \in Texts : (\A y \in Texts : Len(y) < Len(z) => y \in T) => z \in T
  BY <1>1
<1> HIDE DEF T
<1>3. \A z \in Texts : z \in T
  BY <1>2, TextInduction
<1> QED
  BY <1>3 DEF T, Kept

\* What is behind the beginning of a placeholder stays as it is.
LEMMA ApplyInside ==
    ASSUME NEW q \in Placeholders, NEW u \in Texts, NEW x \in Texts, NEW v \in Texts, NEW finish,
           q = Cat(u, Cat(x, v)), u # <<>>
    PROVE  ApplyReplacements(x, finish) = x
<1>1. Plain(x, <<>>)
  <2>1. ASSUME NEW a \in Texts, NEW b \in Texts, x = Cat(a, b), b # <<>>,
               NEW p \in Placeholders, NEW r \in Texts, Cat(b, <<>>) = Cat(p, r)
        PROVE  FALSE
    <3>0. p \in Texts /\ q \in Texts
      BY PlaceholderTyped
    <3>1. b = Cat(p, r)
      BY <2>1, TextLen
    <3>2. Cat(x, v) = Cat(a, Cat(b, v)) /\ Cat(b, v) \in Texts /\ Cat(u, a) \in Texts
      BY <2>1, TextAssoc, TextCat
    <3>3. q = Cat(Cat(u, a), Cat(b, v))
      BY <3>2, TextAssoc
    <3>4. Cat(b, v) = Cat(p, Cat(r, v)) /\ Cat(r, v) \in Texts
      BY <3>0, <3>1, TextAssoc, TextCat
    <3>5. Cat(u, a) # <<>> /\ Cat(b, v) # <<>>
      BY <2>1, TextCat
    <3> QED
      BY <3>2, <3>3, <3>4, <3>5, TailsStand
  <2> QED
    BY <2>1 DEF Plain
<1>2. <<>> \in Texts /\ ApplyReplacements(<<>>, finish) = <<>> /\ Cat(x, <<>>) = x
  BY TextLen, ApplyText
<1>3. ApplyReplacements(Cat(x, <<>>), finish) = Cat(x, ApplyReplacements(<<>>, finish))
  BY <1>1, <1>2, ApplyPlain
<1> QED
  BY <1>2, <1>3

\* The beginning of a placeholder stays as it is.
Begins(t) == \E q \in Placeholders, e \in Texts : q = Cat(t, e)

\* Nothing is replaced in the beginning of a placeholder.
LEMMA ApplyBeginning ==
    ASSUME NEW t \in Texts, Begins(t)
    PROVE  ApplyReplacements(t, FALSE) = t
<1>1. PICK q \in Placeholders, e \in Texts : q = Cat(t, e)
  BY DEF Begins
<1>2. CASE t = <<>>
  BY <1>2, ApplyText
<1>3. ASSUME t # <<>>, NEW p0 \in Placeholders, NEW w0 \in Texts, t = Cat(p0, w0)
      PROVE  ApplyReplacements(t, FALSE) = t
  <2>1. PICK p \in Placeholders, r \in Texts :
            t = Cat(p, r) /\ \A s \in Placeholders, x \in Texts : t = Cat(s, x) => Len(s) <= Len(p)
    BY <1>3, LongestStart
  <2>2. ApplyReplacements(Cat(p, r), FALSE) = Cat(IF Free(r, FALSE) THEN Escaped[p] ELSE p, ApplyReplacements(r, FALSE))
    BY <2>1, ApplyLongest, ZenonT(60)
  <2>3. p \in Texts /\ p # <<>> /\ Cat(r, e) \in Texts
    BY PlaceholderTyped, TextCat
  <2>4. q = Cat(p, Cat(r, e)) /\ <<>> \in Texts /\ q = Cat(<<>>, Cat(p, Cat(r, e)))
    <3>1. q = Cat(p, Cat(r, e))
      BY <1>1, <2>1, <2>3, TextAssoc
    <3>2. q \in Texts
      BY PlaceholderTyped
    <3> QED
      BY <3>1, <3>2, TextLen
  <2>5. ~Free(r, FALSE)
    <3>1. CASE r = <<>>
      BY <3>1 DEF Free
    <3>2. CASE r # <<>>
      <4>1. Cat(r, e) # <<>> /\ Cat(r, e)[1] = r[1]
        BY <3>2, TextHead
      <4>2. Cat(r, e)[1] \in Digits
        BY <2>3, <2>4, <4>1, DigitBehind
      <4> QED
        BY <3>2, <4>1, <4>2 DEF Free
    <3> QED
      BY <3>1, <3>2
  <2>6. ApplyReplacements(r, FALSE) = r
    <3>1. ASSUME NEW finish PROVE ApplyReplacements(r, finish) = r
      <4>1. p \in Texts /\ p # <<>> /\ r \in Texts /\ e \in Texts /\ q = Cat(p, Cat(r, e))
        BY <2>3, <2>4
      <4> QED
        BY <4>1, ApplyInside
    <3> QED
      BY <3>1
  <2> QED
    BY <2>1, <2>2, <2>5, <2>6
<1>4. ASSUME t # <<>>, \A p \in Placeholders, w \in Texts : t # Cat(p, w) PROVE ApplyReplacements(t, FALSE) = t
  <2>1. PICK c \in Signs, r \in Texts : <<c>> \in Texts /\ <<c>> # <<>> /\ t = Cat(<<c>>, r)
    BY <1>4, TextFirst
  <2>2. ApplyReplacements(Cat(<<c>>, r), FALSE) = Cat(<<c>>, ApplyReplacements(r, FALSE))
    BY <1>4, <2>1, ApplyLiteral
  <2>3. q = Cat(<<c>>, Cat(r, e))
    BY <1>1, <2>1, TextAssoc
  <2>4. ApplyReplacements(r, FALSE) = r
    <3>1. ASSUME NEW finish PROVE ApplyReplacements(r, finish) = r
      BY <2>1, <2>3, ApplyInside
    <3> QED
      BY <3>1
  <2> QED
    BY <2>1, <2>2, <2>4
<1> QED
  BY <1>2, <1>3, <1>4

\* A text that gives what is behind the beginning of a placeholder has nothing to
\* replace: an original is followed by a digit there, and no digit ends a placeholder.
LEMMA ApplyToInside ==
    ASSUME NEW t0 \in Texts, NEW q0 \in Placeholders, NEW u0 \in Texts, NEW v0 \in Texts,
           q0 = Cat(u0, Cat(ApplyReplacements(t0, FALSE), v0)), u0 # <<>>
    PROVE  ApplyReplacements(t0, FALSE) = t0
<1> DEFINE A(t) == ApplyReplacements(t, FALSE)
           Same(t) == \A q \in Placeholders, u, v \in Texts : q = Cat(u, Cat(A(t), v)) /\ u # <<>> => A(t) = t
           T == {t \in Texts : Same(t)}
<1>1. ASSUME NEW t \in Texts, \A s \in Texts : Len(s) < Len(t) => s \in T,
             NEW q \in Placeholders, NEW u \in Texts, NEW v \in Texts, q = Cat(u, Cat(A(t), v)), u # <<>>
      PROVE  A(t) = t
  <2>1. CASE t = <<>>
    BY <2>1, ApplyText
  <2>2. ASSUME t # <<>>, NEW p0 \in Placeholders, NEW w0 \in Texts, t = Cat(p0, w0)
        PROVE  A(t) = t
    <3>1. PICK p \in Placeholders, r \in Texts :
              t = Cat(p, r) /\ \A s \in Placeholders, x \in Texts : t = Cat(s, x) => Len(s) <= Len(p)
      BY <2>2, LongestStart
    <3>a. ApplyReplacements(Cat(p, r), FALSE) =
              Cat(IF Free(r, FALSE) THEN Escaped[p] ELSE p, ApplyReplacements(r, FALSE))
      <4>1. \A s \in Placeholders, x \in Texts : Cat(p, r) = Cat(s, x) => Len(s) <= Len(p)
        BY <3>1
      <4>2. ASSUME NEW finish
            PROVE  ApplyReplacements(Cat(p, r), finish) =
                       Cat(IF Free(r, finish) THEN Escaped[p] ELSE p, ApplyReplacements(r, finish))
        BY <4>1, ApplyLongest
      <4> QED
        BY <4>2
    <3>2. A(t) = Cat(IF Free(r, FALSE) THEN Escaped[p] ELSE p, A(r))
      BY <3>1, <3>a
    <3>3. p \in Texts /\ p # <<>> /\ Escaped[p] \in Texts /\ A(r) \in Texts /\ A(t) \in Texts
      BY PlaceholderTyped, EscapedTyped, ApplyText
    <3>4. Len(r) < Len(t)
      <4>1. Len(t) = Len(p) + Len(r)
        BY <3>1, <3>3, TextCat
      <4>2. Len(p) \in Nat /\ Len(p) >= 1 /\ Len(r) \in Nat
        BY PlaceholderTyped, TextLen
      <4> QED
        BY <4>1, <4>2
    <3> HIDE DEF A
    <3>5. ASSUME NEW part \in Texts, A(t) = Cat(part, A(r))
          PROVE  q = Cat(u, Cat(part, Cat(A(r), v))) /\ q = Cat(Cat(u, part), Cat(A(r), v))
                 /\ Cat(u, part) # <<>> /\ Cat(u, part) \in Texts /\ Cat(part, Cat(A(r), v)) \in Texts
                 /\ Cat(A(r), v) \in Texts
      <4>1. Cat(A(t), v) = Cat(part, Cat(A(r), v)) /\ Cat(A(r), v) \in Texts
        BY <3>3, <3>5, TextAssoc, TextCat
      <4>2. Cat(u, part) \in Texts /\ Cat(u, part) # <<>> /\ Cat(part, Cat(A(r), v)) \in Texts
        BY <1>1, <4>1, TextCat
      <4>3. q = Cat(u, Cat(part, Cat(A(r), v)))
        BY <1>1, <4>1
      <4>4. q = Cat(Cat(u, part), Cat(A(r), v))
        BY <4>1, <4>3, TextAssoc
      <4> QED
        BY <4>1, <4>2, <4>3, <4>4
    <3>6. CASE ~Free(r, FALSE)
      <4>1. A(t) = Cat(p, A(r))
        BY <3>2, <3>6
      <4> DEFINE w == Cat(p, Cat(A(r), v))
      <4>2. q = Cat(u, w) /\ w \in Texts /\ w = Cat(p, Cat(A(r), v)) /\ Cat(A(r), v) \in Texts
        BY <3>3, <3>5, <4>1
      <4> HIDE DEF w
      <4>3. w # <<>>
        BY <3>3, <4>2, TextCat
      <4> QED
        BY <1>1, <4>2, <4>3, TailsStand
    <3>7. CASE Free(r, FALSE)
      <4>1. A(t) = Cat(Escaped[p], A(r))
        BY <3>2, <3>7
      <4> DEFINE u2 == Cat(u, Escaped[p])
                 w == Cat(A(r), v)
      <4>2. q = Cat(u2, w) /\ q = Cat(u, Cat(Escaped[p], w)) /\ u2 \in Texts /\ u2 # <<>> /\ w \in Texts
        BY <3>3, <3>5, <4>1
      <4>a. w = Cat(A(r), v)
        OBVIOUS
      <4> HIDE DEF u2, w
      <4>3. r \in T
        BY <1>1, <3>4
      <4>4. A(r) = r
        BY <4>2, <4>3, <4>a
      <4>5. r # <<>> /\ r[1] \notin Digits
        BY <3>7 DEF Free
      <4>6. w # <<>> /\ w[1] = r[1]
        BY <4>4, <4>5, <4>a, TextHead
      <4>7. w[1] \in Digits
        BY <4>2, <4>6, DigitBehind
      <4> QED
        BY <4>5, <4>6, <4>7
    <3> QED
      BY <3>6, <3>7
  <2>3. ASSUME t # <<>>, \A p \in Placeholders, w \in Texts : t # Cat(p, w) PROVE A(t) = t
    <3>1. PICK c \in Signs, r \in Texts : <<c>> \in Texts /\ <<c>> # <<>> /\ t = Cat(<<c>>, r) /\ Len(t) = Len(r) + 1
      BY <2>3, TextFirst
    <3>2. A(t) = Cat(<<c>>, A(r))
      BY <2>3, <3>1, ApplyLiteral, ZenonT(60)
    <3>3. A(r) \in Texts /\ A(t) \in Texts
      BY ApplyText
    <3>4. Len(r) < Len(t)
      BY <3>1, TextLen
    <3> DEFINE x == <<c>>
               u2 == Cat(u, x)
    <3>5. x \in Texts /\ A(t) = Cat(x, A(r)) /\ t = Cat(x, r)
      BY <3>1, <3>2
    <3> HIDE DEF x, A
    <3>6. Cat(A(t), v) = Cat(x, Cat(A(r), v)) /\ Cat(A(r), v) \in Texts
      BY <3>3, <3>5, TextAssoc, TextCat
    <3>7. u2 \in Texts /\ u2 # <<>> /\ q = Cat(u2, Cat(A(r), v))
      BY <1>1, <3>5, <3>6, TextAssoc, TextCat
    <3> HIDE DEF u2
    <3>8. r \in T
      BY <1>1, <3>4
    <3>9. A(r) = r
      BY <3>7, <3>8
    <3> QED
      BY <3>5, <3>9
  <2> QED
    BY <2>1, <2>2, <2>3
<1>a. q0 = Cat(u0, Cat(A(t0), v0))
  OBVIOUS
<1> HIDE DEF A
<1>2. \A t \in Texts : (\A s \in Texts : Len(s) < Len(t) => s \in T) => t \in T
  BY <1>1
<1> HIDE DEF T
<1>3. \A t \in Texts : t \in T
  BY <1>2, TextInduction
<1>4. A(t0) = t0
  BY <1>3, <1>a DEF T
<1> QED
  BY <1>4 DEF A

\* What is released of a text and what is held: the longest end of the text with
\* its replacements that begins a placeholder.
Beginning(z) == z = <<>> \/ Begins(z)
HeldOf(t, z) ==
    \A a, b \in Texts : t = Cat(a, b) /\ Begins(b) => Len(b) <= Len(z)

\* What Process releases and what it holds: all of the text with its replacements, and
\* as much of its end as may become a placeholder.
LEMMA ProcessIs ==
    ASSUME NEW t \in Texts
    PROVE  \E y, z \in Texts :
               /\ Process(t, FALSE) = [release |-> y, hold |-> z]
               /\ ApplyReplacements(t, FALSE) = Cat(y, z)
               /\ Beginning(z) /\ HeldOf(ApplyReplacements(t, FALSE), z)
<1> DEFINE T == ApplyReplacements(t, FALSE)
           ks == {0} \cup {k \in 1 .. Len(T) : \E p \in Placeholders :
                     k <= Len(p) /\ SubSeq(T, Len(T) - k + 1, Len(T)) = SubSeq(p, 1, k)}
           n == Len(T) - Max(ks)
           y == SubSeq(T, 1, n)
           z == SubSeq(T, n + 1, Len(T))
<1>1. T \in Texts /\ Len(T) \in Nat
  BY ApplyText, TextLen
<1>2. Holdback(T) = Max(ks)
  BY DEF Holdback
<1>3. Process(t, FALSE) = [release |-> y, hold |-> z]
  <2>1. Process(t, FALSE) = [release |-> SubSeq(T, 1, Len(T) - Max(ks)),
                             hold |-> SubSeq(T, Len(T) - Max(ks) + 1, Len(T))]
    <3> HIDE DEF ks, y, z, n
    <3> QED
      BY <1>2, Zenon DEF Process
  <2> QED
    BY <2>1
<1> HIDE DEF T
<1>4. Max(ks) \in ks /\ (\A k \in ks : k <= Max(ks)) /\ Max(ks) \in 0 .. Len(T)
  <2>1. ks \in SUBSET (0 .. Len(T)) /\ ks # {}
    BY <1>1
  <2> HIDE DEF ks
  <2> QED
    <3>1. Max(ks) \in ks /\ \A k \in ks : k <= Max(ks)
      BY <1>1, <2>1, MaxOf
    <3> QED
      BY <2>1, <3>1
<1> DEFINE m == Max(ks)
<1>5. m \in 0 .. Len(T) /\ n \in 0 .. Len(T) /\ n = Len(T) - m
  <2>1. m \in 0 .. Len(T)
    BY <1>4, Zenon
  <2> HIDE DEF m, ks
  <2> QED
    BY <1>1, <2>1 DEF m
<1>6. \A k \in 1 .. Len(T) : k \in ks <=> \E p \in Placeholders :
          k <= Len(p) /\ SubSeq(T, Len(T) - k + 1, Len(T)) = SubSeq(p, 1, k)
  BY <1>1
<1>7. m \in ks /\ \A k \in ks : k <= m
  BY <1>4
<1> HIDE DEF ks, n, m
<1>8. y \in Texts /\ z \in Texts /\ Len(z) = m /\ T = Cat(y, z)
  <2>1. Len(T) - n = m
    BY <1>1, <1>5
  <2> QED
    BY <1>1, <1>5, <2>1, SplitAt DEF Texts
<1>9. Beginning(z)
  <2>1. CASE m = 0
    <3>1. z = <<>>
      BY <1>8, <2>1, TextLen
    <3> QED
      BY <3>1 DEF Beginning
  <2>2. CASE m # 0
    <3>1. m \in 1 .. Len(T)
      BY <1>1, <1>5, <2>2
    <3>2. PICK p \in Placeholders : m <= Len(p) /\ SubSeq(T, Len(T) - m + 1, Len(T)) = SubSeq(p, 1, m)
      BY <1>6, <1>7, <3>1
    <3>3. p \in Texts /\ Len(p) \in Nat /\ m \in 0 .. Len(p)
      BY <1>5, <3>2, PlaceholderTyped
    <3> DEFINE a == SubSeq(p, 1, m)
               b == SubSeq(p, m + 1, Len(p))
    <3>4. a \in Texts /\ b \in Texts /\ p = Cat(a, b)
      BY <3>3, SplitAt DEF Texts
    <3>5. z = a
      BY <1>5, <3>2
    <3> HIDE DEF a, b, z
    <3> QED
      BY <3>4, <3>5 DEF Beginning, Begins
  <2> QED
    BY <2>1, <2>2
<1>10. HeldOf(T, z)
  <2> HIDE DEF y, z
  <2>1. ASSUME NEW a \in Texts, NEW b \in Texts, T = Cat(a, b), Begins(b) PROVE Len(b) <= Len(z)
    <3>0. Len(a) \in Nat /\ Len(b) \in Nat /\ Len(T) = Len(a) + Len(b)
      BY <2>1, TextLen, TextCat
    <3>1. CASE Len(b) = 0
      BY <1>5, <1>8, <3>1
    <3>2. CASE Len(b) # 0
      <4>1. PICK p \in Placeholders, e \in Texts : p = Cat(b, e)
        BY <2>1 DEF Begins
      <4>2. Len(b) <= Len(p) /\ SubSeq(p, 1, Len(b)) = b
        <5>1. Len(p) = Len(b) + Len(e) /\ Len(e) \in Nat
          BY <4>1, TextLen, TextCat
        <5>2. SubSeq(Cat(b, e), 1, Len(b)) = b
          BY TextBehind
        <5> QED
          BY <3>0, <4>1, <5>1, <5>2
      <4>3. SubSeq(T, Len(T) - Len(b) + 1, Len(T)) = b
        <5>1. SubSeq(Cat(a, b), Len(a) + 1, Len(a) + Len(b)) = b
          BY TextBehind
        <5>2. Len(T) - Len(b) + 1 = Len(a) + 1
          BY <3>0
        <5> QED
          BY <2>1, <3>0, <5>1, <5>2
      <4>4. Len(b) \in 1 .. Len(T)
        BY <3>0, <3>2
      <4>5. Len(b) \in ks
        BY <1>6, <4>2, <4>3, <4>4
      <4> QED
        BY <1>7, <1>8, <4>5
    <3> QED
      BY <3>1, <3>2
  <2> QED
    BY <2>1 DEF HeldOf
<1> HIDE DEF y, z
<1>11. y \in Texts /\ z \in Texts /\ Process(t, FALSE) = [release |-> y, hold |-> z] /\ T = Cat(y, z)
  BY <1>3, <1>8
<1> QED
  BY <1>9, <1>10, <1>11 DEF T

\* At the end all is released.
LEMMA RestIs == \A t \in Texts : Rest(t) = ApplyReplacements(t, TRUE)
<1> SUFFICES ASSUME NEW t \in Texts PROVE Rest(t) = ApplyReplacements(t, TRUE)
  OBVIOUS
<1> DEFINE T == ApplyReplacements(t, TRUE)
<1>1. T \in Texts /\ Len(T) \in Nat
  BY ApplyText, TextLen
<1>2. Rest(t) = SubSeq(T, 1, Len(T) - 0)
  BY Zenon DEF Rest, Process
<1> HIDE DEF T
<1>3. SubSeq(Cat(T, <<>>), 1, Len(T)) = T
  BY <1>1, TextLen, TextBehind
<1>4. SubSeq(T, 1, Len(T)) = T
  BY <1>1, <1>3, TextLen
<1>5. Len(T) - 0 = Len(T)
  BY <1>1
<1>6. Rest(t) = T
  BY <1>2, <1>4, <1>5, Zenon
<1> QED
  BY <1>6 DEF T

\* What the placeholders of a text stand for makes none with what is behind them.
Unmixed(t) ==
    \A p \in Placeholders, u, w \in Texts : t = Cat(u, Cat(p, w)) => Plain(Escaped[p], w)

\* If no placeholder starts in a text, none does in its end.
LEMMA PlainBehind ==
    \A a, b, w \in Texts : Plain(Cat(a, b), w) => Plain(b, w)
<1> SUFFICES ASSUME NEW a \in Texts, NEW b \in Texts, NEW w \in Texts, Plain(Cat(a, b), w),
                    NEW c \in Texts, NEW d \in Texts, b = Cat(c, d), d # <<>>,
                    NEW p \in Placeholders, NEW r \in Texts
             PROVE  Cat(d, w) # Cat(p, r)
  BY DEF Plain
<1>1. Cat(a, b) = Cat(Cat(a, c), d) /\ Cat(a, c) \in Texts
  BY TextAssoc, TextCat
<1> QED
  BY <1>1 DEF Plain

\* The end of a text in which no original makes a placeholder is one.
LEMMA UnmixedBehind == \A a, t \in Texts : Unmixed(Cat(a, t)) => Unmixed(t)
<1> SUFFICES ASSUME NEW a \in Texts, NEW t \in Texts, Unmixed(Cat(a, t)),
                    NEW p \in Placeholders, NEW u \in Texts, NEW w \in Texts, t = Cat(u, Cat(p, w))
             PROVE  Plain(Escaped[p], w)
  BY DEF Unmixed
<1>1. Cat(p, w) \in Texts
  BY PlaceholderTyped, TextCat
<1>2. Cat(a, t) = Cat(Cat(a, u), Cat(p, w)) /\ Cat(a, u) \in Texts
  BY <1>1, TextAssoc, TextCat
<1> QED
  BY <1>2 DEF Unmixed

\* So is the text with a beginning in which no placeholder starts.
LEMMA UnmixedBefore == \A z, w \in Texts : Plain(z, w) /\ Unmixed(w) => Unmixed(Cat(z, w))
<1> SUFFICES ASSUME NEW z \in Texts, NEW w \in Texts, Plain(z, w), Unmixed(w),
                    NEW p \in Placeholders, NEW u \in Texts, NEW x \in Texts, Cat(z, w) = Cat(u, Cat(p, x))
             PROVE  Plain(Escaped[p], x)
  BY DEF Unmixed
<1>1. Cat(p, x) \in Texts
  BY PlaceholderTyped, TextCat
<1>2. CASE \E e \in Texts : u = Cat(z, e) /\ w = Cat(e, Cat(p, x))
  BY <1>2 DEF Unmixed
<1>3. ASSUME NEW e \in Texts, e # <<>>, z = Cat(u, e), Cat(p, x) = Cat(e, w) PROVE FALSE
  BY <1>3 DEF Plain
<1>4. \/ \E e \in Texts : u = Cat(z, e) /\ w = Cat(e, Cat(p, x))
      \/ \E e \in Texts : e # <<>> /\ z = Cat(u, e) /\ Cat(p, x) = Cat(e, w)
  <2> DEFINE d == Cat(p, x)
  <2>1. d \in Texts /\ Cat(z, w) = Cat(u, d)
    BY <1>1
  <2> HIDE DEF d
  <2>2. \/ \E e \in Texts : u = Cat(z, e) /\ w = Cat(e, d)
        \/ \E e \in Texts : e # <<>> /\ z = Cat(u, e) /\ d = Cat(e, w)
    <3>1. Cuts(z, w, u, d)
      BY <2>1, TextCuts
    <3> QED
      BY <3>1, Zenon DEF Cuts
  <2> QED
    BY <2>2 DEF d
<1> QED
  BY <1>2, <1>3, <1>4

\* A placeholder that starts a text that is not the beginning of one is in it.
LEMMA StartsWithin ==
    ASSUME NEW t \in Texts, NEW v \in Texts, ~Begins(t), NEW p \in Placeholders, NEW w \in Texts,
           Cat(t, v) = Cat(p, w)
    PROVE  \E e \in Texts : e # <<>> /\ t = Cat(p, e) /\ w = Cat(e, v)
<1>1. p \in Texts
  BY PlaceholderTyped
<1>2. ~\E e \in Texts : p = Cat(t, e)
  BY DEF Begins
<1>3. \/ \E e \in Texts : p = Cat(t, e) /\ v = Cat(e, w)
      \/ \E e \in Texts : e # <<>> /\ t = Cat(p, e) /\ w = Cat(e, v)
  <2>1. Cuts(t, v, p, w)
    BY <1>1, TextCuts
  <2> QED
    BY <2>1, Zenon DEF Cuts
<1> QED
  BY <1>2, <1>3

\* What a text begins with is replaced alike whatever comes behind the text, unless
\* the text is the beginning of a placeholder.
LEMMA FirstStep ==
    ASSUME NEW t \in Texts, t # <<>>, ~Begins(t)
    PROVE  \E x, r, X \in Texts :
               /\ x # <<>> /\ t = Cat(x, r) /\ Len(r) < Len(t)
               /\ ApplyReplacements(t, FALSE) = Cat(X, ApplyReplacements(r, FALSE))
               /\ \A v \in Texts, finish \in BOOLEAN :
                      ApplyReplacements(Cat(t, v), finish) = Cat(X, ApplyReplacements(Cat(r, v), finish))
               /\ \/ /\ X = x
                     /\ \A y, z, e \in Texts :
                            x = Cat(y, z) /\ y # <<>> /\ z # <<>> => ~Begins(Cat(z, e))
                  \/ x \in Placeholders /\ X = Escaped[x]
<1> DEFINE Goal(x, r, X) ==
               /\ x # <<>> /\ t = Cat(x, r) /\ Len(r) < Len(t)
               /\ ApplyReplacements(t, FALSE) = Cat(X, ApplyReplacements(r, FALSE))
               /\ \A v \in Texts, finish \in BOOLEAN :
                      ApplyReplacements(Cat(t, v), finish) = Cat(X, ApplyReplacements(Cat(r, v), finish))
               /\ \/ /\ X = x
                     /\ \A y, z, e \in Texts :
                            x = Cat(y, z) /\ y # <<>> /\ z # <<>> => ~Begins(Cat(z, e))
                  \/ x \in Placeholders /\ X = Escaped[x]
<1>0. ASSUME NEW x \in Texts, NEW r \in Texts, NEW X \in Texts, x # <<>>, t = Cat(x, r),
             \A v \in Texts, finish \in BOOLEAN :
                 ApplyReplacements(Cat(t, v), finish) = Cat(X, ApplyReplacements(Cat(r, v), finish)),
             \/ /\ X = x
                /\ \A y, z, e \in Texts : x = Cat(y, z) /\ y # <<>> /\ z # <<>> => ~Begins(Cat(z, e))
             \/ x \in Placeholders /\ X = Escaped[x]
      PROVE  Goal(x, r, X)
  <2>1. Len(r) < Len(t)
    <3>1. Len(t) = Len(x) + Len(r) /\ Len(x) \in Nat /\ Len(r) \in Nat /\ Len(x) # 0
      BY <1>0, TextCat, TextLen
    <3> QED
      BY <3>1
  <2>2. ApplyReplacements(t, FALSE) = Cat(X, ApplyReplacements(r, FALSE))
    <3>1. <<>> \in Texts /\ Cat(t, <<>>) = t /\ Cat(r, <<>>) = r /\ FALSE \in BOOLEAN
      BY TextLen
    <3>2. ApplyReplacements(Cat(t, <<>>), FALSE) = Cat(X, ApplyReplacements(Cat(r, <<>>), FALSE))
      BY <1>0, <3>1
    <3> QED
      BY <3>1, <3>2
  <2> QED
    BY <1>0, <2>1, <2>2
<1>1. ASSUME \A p \in Placeholders, w \in Texts : t # Cat(p, w)
      PROVE  \E x, r, X \in Texts : Goal(x, r, X)
  <2>1. PICK c \in Signs, r \in Texts : <<c>> \in Texts /\ Len(<<c>>) = 1 /\ <<c>> # <<>> /\ t = Cat(<<c>>, r)
    BY TextFirst
  <2>2. ASSUME NEW v \in Texts, NEW finish \in BOOLEAN
        PROVE  ApplyReplacements(Cat(t, v), finish) = Cat(<<c>>, ApplyReplacements(Cat(r, v), finish))
    <3>1. Cat(r, v) \in Texts /\ Cat(t, v) = Cat(<<c>>, Cat(r, v))
      BY <2>1, TextCat, TextAssoc
    <3>2. \A p \in Placeholders, w \in Texts : Cat(<<c>>, Cat(r, v)) # Cat(p, w)
      <4>1. ASSUME NEW p \in Placeholders, NEW w \in Texts, Cat(t, v) = Cat(p, w) PROVE FALSE
        BY <1>1, <4>1, StartsWithin
      <4> QED
        BY <3>1, <4>1
    <3>3. ApplyReplacements(Cat(<<c>>, Cat(r, v)), finish) = Cat(<<c>>, ApplyReplacements(Cat(r, v), finish))
      BY <3>1, <3>2, ApplyLiteral
    <3> QED
      BY <3>1, <3>3
  <2>3. \A y, z, e \in Texts : <<c>> = Cat(y, z) /\ y # <<>> /\ z # <<>> => ~Begins(Cat(z, e))
    <3>1. ASSUME NEW y \in Texts, NEW z \in Texts, <<c>> = Cat(y, z), y # <<>>, z # <<>> PROVE FALSE
      <4>1. 1 = Len(y) + Len(z) /\ Len(y) \in Nat /\ Len(z) \in Nat /\ Len(y) # 0 /\ Len(z) # 0
        BY <2>1, <3>1, TextCat, TextLen
      <4> QED
        BY <4>1
    <3> QED
      BY <3>1
  <2> DEFINE x == <<c>>
  <2>4. /\ x \in Texts /\ x # <<>> /\ t = Cat(x, r)
        /\ \A v \in Texts, finish \in BOOLEAN :
               ApplyReplacements(Cat(t, v), finish) = Cat(x, ApplyReplacements(Cat(r, v), finish))
        /\ \A y, z, e \in Texts : x = Cat(y, z) /\ y # <<>> /\ z # <<>> => ~Begins(Cat(z, e))
    BY <2>1, <2>2, <2>3
  <2> HIDE DEF x, Goal
  <2>5. Goal(x, r, x)
    BY <1>0, <2>4
  <2> QED
    BY <2>4, <2>5
<1>2. ASSUME NEW p0 \in Placeholders, NEW w0 \in Texts, t = Cat(p0, w0)
      PROVE  \E x, r, X \in Texts : Goal(x, r, X)
  <2>1. PICK p \in Placeholders, r \in Texts :
            t = Cat(p, r) /\ \A q \in Placeholders, w \in Texts : t = Cat(q, w) => Len(q) <= Len(p)
    BY <1>2, LongestStart
  <2>2. p \in Texts /\ p # <<>> /\ Escaped[p] \in Texts /\ r # <<>>
    <3>1. p \in Texts /\ p # <<>> /\ Escaped[p] \in Texts
      BY PlaceholderTyped, EscapedTyped
    <3>2. ASSUME r = <<>> PROVE FALSE
      <4>1. p = Cat(t, <<>>) /\ <<>> \in Texts
        BY <2>1, <3>1, <3>2, TextLen
      <4> QED
        BY <4>1 DEF Begins
    <3> QED
      BY <3>1, <3>2
  <2> DEFINE X == IF Free(r, FALSE) THEN Escaped[p] ELSE p
  <2>3. X \in Texts
    BY <2>2
  <2>4. ASSUME NEW v \in Texts, NEW finish \in BOOLEAN
        PROVE  ApplyReplacements(Cat(t, v), finish) = Cat(X, ApplyReplacements(Cat(r, v), finish))
    <3>1. Cat(r, v) \in Texts /\ Cat(t, v) = Cat(p, Cat(r, v))
      BY <2>1, <2>2, TextCat, TextAssoc
    <3>2. \A q \in Placeholders, w \in Texts : Cat(p, Cat(r, v)) = Cat(q, w) => Len(q) <= Len(p)
      <4>1. ASSUME NEW q \in Placeholders, NEW w \in Texts, Cat(t, v) = Cat(q, w) PROVE Len(q) <= Len(p)
        <5>1. \E e \in Texts : e # <<>> /\ t = Cat(q, e) /\ w = Cat(e, v)
          BY <4>1, StartsWithin
        <5> QED
          BY <2>1, <5>1
      <4> QED
        BY <3>1, <4>1
    <3>3. ApplyReplacements(Cat(p, Cat(r, v)), finish) =
              Cat(IF Free(Cat(r, v), finish) THEN Escaped[p] ELSE p, ApplyReplacements(Cat(r, v), finish))
      BY <3>1, <3>2, ApplyLongest
    <3>4. Free(Cat(r, v), finish) <=> Free(r, FALSE)
      <4>1. Cat(r, v) # <<>> /\ Cat(r, v)[1] = r[1]
        BY <2>2, TextHead
      <4> QED
        BY <2>2, <4>1 DEF Free
    <3> QED
      BY <3>1, <3>3, <3>4
  <2>5. \A y, z, e \in Texts : p = Cat(y, z) /\ y # <<>> /\ z # <<>> => ~Begins(Cat(z, e))
    <3>1. ASSUME NEW y \in Texts, NEW z \in Texts, NEW e \in Texts, p = Cat(y, z), y # <<>>, z # <<>>,
                 NEW q \in Placeholders, NEW d \in Texts, q = Cat(Cat(z, e), d)
          PROVE  FALSE
      <4>1. q = Cat(z, Cat(e, d)) /\ Cat(e, d) \in Texts
        BY <3>1, TextAssoc, TextCat
      <4> QED
        BY <3>1, <4>1, TailsStand
    <3> QED
      BY <3>1 DEF Begins
  <2>6. X = p \/ X = Escaped[p]
    OBVIOUS
  <2> HIDE DEF X, Goal
  <2>7. Goal(p, r, X)
    BY <1>0, <2>1, <2>2, <2>3, <2>4, <2>5, <2>6
  <2> QED
    BY <2>2, <2>3, <2>7
<1> QED
  BY <1>1, <1>2

\* A text with its replacements has one longest end that begins a placeholder.
LEMMA HeldOnce ==
    ASSUME NEW t \in Texts, NEW y \in Texts, NEW z \in Texts, NEW a \in Texts, NEW b \in Texts,
           t = Cat(y, z), Beginning(z), HeldOf(t, z), t = Cat(a, b), Beginning(b), HeldOf(t, b)
    PROVE  y = a /\ z = b
<1>1. Len(z) \in Nat /\ Len(b) \in Nat
  BY TextLen
<1>2. Len(z) <= Len(b)
  <2>1. CASE z = <<>>
    BY <1>1, <2>1, TextLen
  <2>2. CASE Begins(z)
    BY <2>2 DEF HeldOf
  <2> QED
    BY <2>1, <2>2 DEF Beginning
<1>3. Len(b) <= Len(z)
  <2>1. CASE b = <<>>
    BY <1>1, <2>1, TextLen
  <2>2. CASE Begins(b)
    BY <2>2 DEF HeldOf
  <2> QED
    BY <2>1, <2>2 DEF Beginning
<1>4. Len(y) = Len(a) /\ Len(y) \in Nat /\ Len(a) \in Nat
  <2>1. Len(t) = Len(y) + Len(z) /\ Len(t) = Len(a) + Len(b) /\ Len(y) \in Nat /\ Len(a) \in Nat
    <3>1. Len(Cat(y, z)) = Len(y) + Len(z) /\ Len(Cat(a, b)) = Len(a) + Len(b)
      BY TextCat
    <3> QED
      BY <3>1, TextLen
  <2> QED
    BY <1>1, <1>2, <1>3, <2>1
<1>5. Cuts(y, z, a, b)
  <2>1. Cat(y, z) = Cat(a, b)
    OBVIOUS
  <2> QED
    BY <2>1, TextCuts
<1>6. ASSUME NEW e \in Texts, Len(e) = 0 PROVE e = <<>>
  BY <1>6, TextLen
<1>7. CASE \E e \in Texts : a = Cat(y, e) /\ z = Cat(e, b)
  <2>1. PICK e \in Texts : a = Cat(y, e) /\ z = Cat(e, b)
    BY <1>7
  <2>2. Len(a) = Len(y) + Len(e) /\ Len(e) \in Nat
    BY <2>1, TextCat, TextLen
  <2>3. e = <<>>
    BY <1>4, <1>6, <2>2
  <2> QED
    BY <2>1, <2>3, TextLen
<1>8. CASE \E e \in Texts : e # <<>> /\ y = Cat(a, e) /\ b = Cat(e, z)
  <2>1. PICK e \in Texts : e # <<>> /\ y = Cat(a, e)
    BY <1>8
  <2>2. Len(y) = Len(a) + Len(e) /\ Len(e) \in Nat
    BY <2>1, TextCat, TextLen
  <2> QED
    BY <1>4, <1>6, <2>1, <2>2
<1> QED
  BY <1>5, <1>7, <1>8, Zenon DEF Cuts

\* What Process releases of a text, and what it holds, is what will be made of the
\* text whatever comes behind it.
Given(t, y, z) ==
    \A v \in Texts, finish \in BOOLEAN :
        Unmixed(Cat(t, v)) =>
            /\ ApplyReplacements(Cat(t, v), finish) = Cat(y, ApplyReplacements(Cat(z, v), finish))
            /\ Unmixed(Cat(z, v))
Splits(t, y, z) ==
    /\ ApplyReplacements(t, FALSE) = Cat(y, z)
    /\ Beginning(z) /\ HeldOf(ApplyReplacements(t, FALSE), z)

\* Process splits every text so.
LEMMA SplitExists == \A t \in Texts : \E y, z \in Texts :
    Process(t, FALSE) = [release |-> y, hold |-> z] /\ Splits(t, y, z)
<1> SUFFICES ASSUME NEW t \in Texts
             PROVE  \E y, z \in Texts : Process(t, FALSE) = [release |-> y, hold |-> z] /\ Splits(t, y, z)
  OBVIOUS
<1> QED
  BY ProcessIs, Zenon DEF Splits

\* The end of a text that begins a placeholder, or is empty, is held.
LEMMA GivenBeginning ==
    ASSUME NEW t \in Texts, NEW y \in Texts, NEW z \in Texts, Splits(t, y, z), t = <<>> \/ Begins(t)
    PROVE  Given(t, y, z)
<1>1. ApplyReplacements(t, FALSE) = t
  BY ApplyBeginning, ApplyText
<1>2. t = Cat(<<>>, t) /\ <<>> \in Texts /\ Beginning(t)
  BY TextLen DEF Beginning
<1>3. HeldOf(t, t)
  <2>1. ASSUME NEW a \in Texts, NEW b \in Texts, t = Cat(a, b) PROVE Len(b) <= Len(t)
    <3>1. Len(t) = Len(a) + Len(b) /\ Len(a) \in Nat /\ Len(b) \in Nat
      BY <2>1, TextCat, TextLen
    <3> QED
      BY <3>1
  <2> QED
    BY <2>1 DEF HeldOf
<1>4. y = <<>> /\ z = t
  <2>1. t = Cat(y, z) /\ Beginning(z) /\ HeldOf(t, z)
    BY <1>1 DEF Splits
  <2> QED
    BY <1>2, <1>3, <2>1, HeldOnce
<1>5. ASSUME NEW v \in Texts, NEW finish \in BOOLEAN, Unmixed(Cat(t, v))
      PROVE  /\ ApplyReplacements(Cat(t, v), finish) = Cat(y, ApplyReplacements(Cat(z, v), finish))
             /\ Unmixed(Cat(z, v))
  <2>1. ApplyReplacements(Cat(t, v), finish) \in Texts
    BY TextCat, ApplyText
  <2> QED
    BY <1>4, <1>5, <2>1, TextLen
<1> QED
  BY <1>5 DEF Given

\* What is held of a text that does not begin a placeholder is what is held of its
\* rest, or an original makes a placeholder with the rest.
LEMMA GivenBehind ==
    ASSUME NEW t \in Texts, NEW y \in Texts, NEW z \in Texts, Splits(t, y, z), t # <<>>, ~Begins(t),
           \A s \in Texts : Len(s) < Len(t) => \A a, b \in Texts : Splits(s, a, b) => Given(s, a, b)
    PROVE  Given(t, y, z)
<1>1. PICK x \in Texts, r \in Texts, X \in Texts :
          /\ x # <<>> /\ t = Cat(x, r) /\ Len(r) < Len(t)
          /\ ApplyReplacements(t, FALSE) = Cat(X, ApplyReplacements(r, FALSE))
          /\ \A v \in Texts, finish \in BOOLEAN :
                 ApplyReplacements(Cat(t, v), finish) = Cat(X, ApplyReplacements(Cat(r, v), finish))
          /\ \/ /\ X = x
                /\ \A c, d, e \in Texts :
                       x = Cat(c, d) /\ c # <<>> /\ d # <<>> => ~Begins(Cat(d, e))
             \/ x \in Placeholders /\ X = Escaped[x]
  BY FirstStep, ZenonT(60)
<1> DEFINE T == ApplyReplacements(t, FALSE)
           R == ApplyReplacements(r, FALSE)
<1>2. PICK a \in Texts, b \in Texts : Splits(r, a, b)
  BY SplitExists
<1>3. Given(r, a, b)
  BY <1>1, <1>2
<1>4. T \in Texts /\ R \in Texts /\ T = Cat(X, R) /\ R = Cat(a, b) /\ T = Cat(y, z)
  BY <1>1, <1>2, ApplyText DEF Splits
<1>5. Beginning(z) /\ HeldOf(T, z) /\ Beginning(b) /\ HeldOf(R, b)
  BY <1>2 DEF Splits
<1>6. \A v \in Texts : Cat(t, v) = Cat(x, Cat(r, v)) /\ Cat(r, v) \in Texts
  BY <1>1, TextAssoc, TextCat
<1>7. \A v \in Texts : Unmixed(Cat(t, v)) => Unmixed(Cat(r, v))
  BY <1>6, UnmixedBehind
<1>r. R = ApplyReplacements(r, FALSE)
  OBVIOUS
<1> HIDE DEF T, R
<1>8. Cuts(X, R, y, z)
  <2>1. Cat(X, R) = Cat(y, z)
    BY <1>4
  <2> QED
    BY <1>4, <2>1, TextCuts
\* What is held is behind the replacement.
<1>9. ASSUME NEW e \in Texts, y = Cat(X, e), R = Cat(e, z) PROVE Given(t, y, z)
  <2>1. HeldOf(R, z)
    <3>1. ASSUME NEW c \in Texts, NEW d \in Texts, R = Cat(c, d), Begins(d) PROVE Len(d) <= Len(z)
      <4>1. T = Cat(Cat(X, c), d) /\ Cat(X, c) \in Texts
        <5>1. Cat(Cat(X, c), d) = Cat(X, Cat(c, d)) /\ Cat(X, c) \in Texts
          BY TextAssoc, TextCat
        <5> QED
          BY <1>4, <3>1, <5>1
      <4> QED
        BY <1>5, <3>1, <4>1 DEF HeldOf
    <3> QED
      BY <3>1 DEF HeldOf
  <2>2. e = a /\ z = b
    BY <1>4, <1>5, <1>9, <2>1, HeldOnce
  <2>3. ASSUME NEW v \in Texts, NEW finish \in BOOLEAN, Unmixed(Cat(t, v))
        PROVE  /\ ApplyReplacements(Cat(t, v), finish) = Cat(y, ApplyReplacements(Cat(z, v), finish))
               /\ Unmixed(Cat(z, v))
    <3>1. Unmixed(Cat(r, v))
      BY <1>7, <2>3
    <3>2. /\ ApplyReplacements(Cat(r, v), finish) = Cat(a, ApplyReplacements(Cat(b, v), finish))
          /\ Unmixed(Cat(b, v))
      BY <1>3, <3>1 DEF Given
    <3>3. ApplyReplacements(Cat(t, v), finish) = Cat(X, ApplyReplacements(Cat(r, v), finish))
      BY <1>1
    <3> DEFINE g == ApplyReplacements(Cat(b, v), finish)
    <3>4. g \in Texts
      BY TextCat, ApplyText
    <3>5. ApplyReplacements(Cat(t, v), finish) = Cat(X, Cat(a, g))
      BY <3>2, <3>3
    <3> HIDE DEF g
    <3>6. Cat(X, Cat(a, g)) = Cat(Cat(X, a), g)
      BY <3>4, TextAssoc
    <3>7. ApplyReplacements(Cat(t, v), finish) = Cat(y, g)
      BY <1>9, <2>2, <3>5, <3>6
    <3> QED
      BY <2>2, <3>2, <3>7 DEF g
  <2> QED
    BY <2>3 DEF Given
\* It is the end of an original with the rest.
<1>10. ASSUME NEW e \in Texts, e # <<>>, X = Cat(y, e), z = Cat(e, R) PROVE Given(t, y, z)
  <2>1. Begins(z)
    <3>1. z # <<>>
      BY <1>4, <1>10, TextCat
    <3> QED
      BY <1>5, <3>1 DEF Beginning
  <2>2. R = r
    <3>1. PICK q \in Placeholders, d \in Texts : q = Cat(z, d)
      BY <2>1 DEF Begins
    <3>2. q = Cat(e, Cat(R, d))
      BY <1>4, <1>10, <3>1, TextAssoc
    <3>3. q = Cat(e, Cat(ApplyReplacements(r, FALSE), d))
      BY <1>r, <3>2
    <3>4. ApplyReplacements(r, FALSE) = r
      BY <1>10, <3>3, ApplyToInside
    <3> QED
      BY <1>r, <3>4
  <2>3. X # x
    <3>1. ASSUME X = x, y = <<>> PROVE FALSE
      <4>1. x = e
        BY <1>10, <3>1, TextLen
      <4>2. z = t
        BY <1>1, <1>10, <2>2, <4>1
      <4> QED
        BY <2>1, <4>2
    <3>2. ASSUME X = x, y # <<>> PROVE FALSE
      <4>1. x = Cat(y, e)
        BY <1>10, <3>2
      <4>2. CASE \A c, d, f \in Texts : x = Cat(c, d) /\ c # <<>> /\ d # <<>> => ~Begins(Cat(d, f))
        <5>1. ~Begins(Cat(e, R))
          BY <1>4, <1>10, <3>2, <4>1, <4>2
        <5> QED
          BY <1>10, <2>1, <5>1
      <4>3. CASE x \in Placeholders /\ X = Escaped[x]
        <5>1. PICK q \in Placeholders, d \in Texts : q = Cat(z, d)
          BY <2>1 DEF Begins
        <5>2. q = Cat(e, Cat(R, d)) /\ Cat(R, d) \in Texts
          BY <1>4, <1>10, <5>1, TextAssoc, TextCat
        <5> QED
          BY <1>10, <3>2, <4>1, <4>3, <5>2, TailsStand
      <4> QED
        BY <1>1, <4>2, <4>3
    <3> QED
      BY <3>1, <3>2
  <2>4. x \in Placeholders /\ X = Escaped[x]
    BY <1>1, <2>3
  <2>5. ASSUME NEW v \in Texts, NEW finish \in BOOLEAN, Unmixed(Cat(t, v))
        PROVE  /\ ApplyReplacements(Cat(t, v), finish) = Cat(y, ApplyReplacements(Cat(z, v), finish))
               /\ Unmixed(Cat(z, v))
    <3> DEFINE w == Cat(r, v)
               g == ApplyReplacements(w, finish)
    <3>1. w \in Texts /\ Cat(t, v) = Cat(x, w) /\ Cat(z, v) = Cat(e, w) /\ Unmixed(w) /\ g \in Texts
      BY <1>6, <1>7, <1>10, <2>2, <2>5, TextAssoc, ApplyText
    <3>2. ApplyReplacements(Cat(t, v), finish) = Cat(X, g)
      BY <1>1
    <3>g. g = ApplyReplacements(w, finish)
      OBVIOUS
    <3> HIDE DEF w, g
    <3>3. Plain(e, w)
      <4>1. Cat(t, v) = Cat(<<>>, Cat(x, w)) /\ <<>> \in Texts
        <5>1. Cat(x, w) \in Texts
          BY <3>1, TextCat
        <5> QED
          BY <3>1, <5>1, TextLen
      <4>2. Plain(X, w)
        BY <2>4, <2>5, <3>1, <4>1 DEF Unmixed
      <4> QED
        BY <1>10, <3>1, <4>2, PlainBehind
    <3>4. ApplyReplacements(Cat(e, w), finish) = Cat(e, g)
      BY <3>1, <3>3, <3>g, ApplyPlain
    <3>5. Unmixed(Cat(e, w))
      BY <3>1, <3>3, UnmixedBefore
    <3>6. Cat(X, g) = Cat(y, Cat(e, g))
      BY <1>10, <3>1, TextAssoc
    <3> QED
      BY <3>1, <3>2, <3>4, <3>5, <3>6
  <2> QED
    BY <2>5 DEF Given
<1> QED
  BY <1>8, <1>9, <1>10, Zenon DEF Cuts

\* What Process releases is right whatever comes, by induction on the length of the text.
LEMMA ProcessGives ==
    \A t \in Texts : \A y, z \in Texts : Splits(t, y, z) => Given(t, y, z)
<1> DEFINE T == {t \in Texts : \A y, z \in Texts : Splits(t, y, z) => Given(t, y, z)}
<1>1. ASSUME NEW t \in Texts, \A s \in Texts : Len(s) < Len(t) => s \in T,
             NEW y \in Texts, NEW z \in Texts, Splits(t, y, z)
      PROVE  Given(t, y, z)
  <2>1. CASE t = <<>> \/ Begins(t)
    BY <1>1, <2>1, GivenBeginning
  <2>2. CASE ~(t = <<>> \/ Begins(t))
    <3>1. \A s \in Texts : Len(s) < Len(t) => \A a, b \in Texts : Splits(s, a, b) => Given(s, a, b)
      BY <1>1
    <3> QED
      BY <1>1, <2>2, <3>1, GivenBehind
  <2> QED
    BY <2>1, <2>2
<1>2. \A t \in Texts : (\A s \in Texts : Len(s) < Len(t) => s \in T) => t \in T
  BY <1>1
<1> HIDE DEF T
<1>3. \A t \in Texts : t \in T
  BY <1>2, TextInduction
<1> QED
  BY <1>3 DEF T

\* No placeholder is before `_'.
NoBar(t) ==
    \A p \in Placeholders, u, w \in Texts : t = Cat(u, Cat(p, w)) /\ w # <<>> => w[1] # "_"

\* No placeholder is before `_' in the end of such a text.
LEMMA NoBarBehind == \A a, t \in Texts : NoBar(Cat(a, t)) => NoBar(t)
<1> SUFFICES ASSUME NEW a \in Texts, NEW t \in Texts, NoBar(Cat(a, t)),
                    NEW p \in Placeholders, NEW u \in Texts, NEW w \in Texts, t = Cat(u, Cat(p, w)), w # <<>>
             PROVE  w[1] # "_"
  BY DEF NoBar
<1>1. Cat(p, w) \in Texts
  BY PlaceholderTyped, TextCat
<1>2. Cat(a, t) = Cat(Cat(a, u), Cat(p, w)) /\ Cat(a, u) \in Texts
  BY <1>1, TextAssoc, TextCat
<1> QED
  BY <1>2 DEF NoBar

\* The two restorers agree on a text with no placeholder before `_'.
LEMMA RestoreIsApply ==
    \A t \in Texts : NoBar(t) => ApplyReplacements(t, TRUE) = Restore(t, Escaped)
<1> DEFINE Same(t) == ApplyReplacements(t, TRUE) = Restore(t, Escaped)
           T == {t \in Texts : NoBar(t) => Same(t)}
<1>0. \A q \in Placeholders : Escaped[q] \in Texts
  BY EscapedTyped
<1>1. ASSUME NEW t \in Texts, \A s \in Texts : Len(s) < Len(t) => s \in T, NoBar(t)
      PROVE  Same(t)
  <2>0. t = Cat(<<>>, t) /\ <<>> \in Texts
    BY TextLen
  <2>1. CASE t = <<>>
    <3>1. ApplyReplacements(t, TRUE) = <<>> /\ Restore(t, Escaped) = <<>>
      BY <1>0, <2>1, ApplyText, RestoreText
    <3> QED
      BY <3>1
  <2>2. ASSUME NEW x \in Texts, NEW r \in Texts, t = Cat(x, r), x # <<>> PROVE Same(r) /\ NoBar(r)
    <3>1. Len(r) < Len(t)
      <4>1. Len(t) = Len(x) + Len(r) /\ Len(x) \in Nat /\ Len(r) \in Nat /\ Len(x) # 0
        BY <2>2, TextCat, TextLen
      <4> QED
        BY <4>1
    <3>2. NoBar(r)
      BY <1>1, <2>2, NoBarBehind
    <3> HIDE DEF Same
    <3> QED
      BY <1>1, <3>1, <3>2
  <2>3. ASSUME t # <<>>, \A p \in Placeholders, w \in Texts : t # Cat(p, w) PROVE Same(t)
    <3>1. PICK c \in Signs, r \in Texts : <<c>> \in Texts /\ <<c>> # <<>> /\ t = Cat(<<c>>, r)
      BY <2>3, TextFirst
    <3>2. ApplyReplacements(Cat(<<c>>, r), TRUE) = Cat(<<c>>, ApplyReplacements(r, TRUE))
      BY <2>3, <3>1, ApplyLiteral
    <3>3. Restore(Cat(<<c>>, r), Escaped) = Cat(<<c>>, Restore(r, Escaped))
      <4>1. \A p \in Placeholders, w \in Texts : Cat(<<c>>, r) = Cat(p, w) => ~Closes(w)
        BY <2>3, <3>1
      <4> QED
        BY <1>0, <4>1, RestoreLiteral
    <3>4. Same(r)
      BY <2>2, <3>1
    <3> QED
      BY <3>1, <3>2, <3>3, <3>4
  <2>4. ASSUME t # <<>>, NEW p0 \in Placeholders, NEW w0 \in Texts, t = Cat(p0, w0) PROVE Same(t)
    <3>1. PICK p \in Placeholders, r \in Texts :
              t = Cat(p, r) /\ \A q \in Placeholders, w \in Texts : t = Cat(q, w) => Len(q) <= Len(p)
      BY <2>4, LongestStart
    <3>2. p \in Texts /\ p # <<>>
      BY PlaceholderTyped
    <3>3. \A q \in Placeholders, w \in Texts : Cat(p, r) = Cat(q, w) => Len(q) <= Len(p)
      BY <3>1
    <3>4. ApplyReplacements(Cat(p, r), TRUE) =
              Cat(IF Free(r, TRUE) THEN Escaped[p] ELSE p, ApplyReplacements(r, TRUE))
      BY <3>3, ApplyLongest
    <3>5. Same(r)
      BY <2>2, <3>1, <3>2
    <3>6. Free(r, TRUE) <=> Closes(r)
      <4>1. r # <<>> => r[1] # "_"
        <5>1. t = Cat(<<>>, Cat(p, r))
          BY <2>0, <3>1
        <5> QED
          BY <1>1, <2>0, <5>1 DEF NoBar
      <4> QED
        BY <4>1 DEF Free, Closes
    <3>7. CASE Free(r, TRUE)
      <4>1. Restore(Cat(p, r), Escaped) = Cat(Escaped[p], Restore(r, Escaped))
        BY <1>0, <3>3, <3>6, <3>7, RestoreLongest
      <4>2. ApplyReplacements(Cat(p, r), TRUE) = Cat(Escaped[p], ApplyReplacements(r, TRUE))
        BY <3>4, <3>7
      <4> QED
        BY <3>1, <3>5, <4>1, <4>2
    <3>8. CASE ~Free(r, TRUE)
      <4>1. Dull(p, r)
        <5>1. ASSUME NEW a \in Texts, NEW b \in Texts, p = Cat(a, b), b # <<>>,
                     NEW q \in Placeholders, NEW w \in Texts, Cat(b, r) = Cat(q, w)
              PROVE  ~Closes(w)
          <6>0. q \in Texts /\ q # <<>>
            BY PlaceholderTyped
          <6>1. CASE a = <<>>
            <7>1. p = b
              BY <5>1, <6>1, TextLen
            <7>2. Len(q) <= Len(p)
              BY <3>3, <5>1, <7>1
            <7>3. PICK e \in Texts : p = Cat(q, e) /\ w = Cat(e, r)
              <8>1. Cat(q, w) = Cat(p, r)
                BY <5>1, <7>1
              <8> QED
                BY <3>2, <6>0, <7>2, <8>1, TextLevi
            <7>4. CASE e = <<>>
              <8>1. w = r
                BY <7>3, <7>4, TextLen
              <8> QED
                BY <3>6, <3>8, <8>1
            <7>5. CASE e # <<>>
              <8>1. p = Cat(<<>>, Cat(q, e))
                BY <2>0, <3>2, <7>3, TextLen
              <8>2. e[1] \in Digits
                BY <2>0, <7>5, <8>1, DigitBehind
              <8>3. w # <<>> /\ w[1] = e[1]
                BY <7>3, <7>5, TextHead
              <8> QED
                BY <8>2, <8>3 DEF Closes
            <7> QED
              BY <7>4, <7>5
          <6>2. CASE a # <<>>
            <7>1. Cuts(q, w, b, r)
              <8>1. Cat(q, w) = Cat(b, r)
                BY <5>1
              <8> QED
                BY <6>0, <8>1, TextCuts
            <7>2. ~\E e \in Texts : b = Cat(q, e)
              BY <5>1, <6>2, TailsStand
            <7>3. ~\E e \in Texts : q = Cat(b, e)
              BY <5>1, <6>2, TailsStand
            <7> QED
              BY <7>1, <7>2, <7>3, Zenon DEF Cuts
          <6> QED
            BY <6>1, <6>2
        <5> QED
          BY <5>1 DEF Dull
      <4>2. Restore(Cat(p, r), Escaped) = Cat(p, Restore(r, Escaped))
        BY <1>0, <3>2, <4>1, RestoreDull
      <4>3. ApplyReplacements(Cat(p, r), TRUE) = Cat(p, ApplyReplacements(r, TRUE))
        BY <3>4, <3>8
      <4> QED
        BY <3>1, <3>5, <4>2, <4>3
    <3> QED
      BY <3>7, <3>8
  <2> HIDE DEF Same
  <2> QED
    BY <2>1, <2>3, <2>4
<1> HIDE DEF Same
<1>2. \A t \in Texts : (\A s \in Texts : Len(s) < Len(t) => s \in T) => t \in T
  BY <1>1
<1> HIDE DEF T
<1>3. \A t \in Texts : t \in T
  BY <1>2, TextInduction
<1> QED
  BY <1>3 DEF T, Same

\* What Comparable asks at each place of a text.
LEMMA ComparableIs ==
    ASSUME NEW t \in Texts, Comparable(t)
    PROVE  Unmixed(t) /\ NoBar(t)
<1>1. ASSUME NEW p \in Placeholders, NEW u \in Texts, NEW w \in Texts, t = Cat(u, Cat(p, w))
      PROVE  /\ w # <<>> => w[1] # "_"
             /\ \A q \in Placeholders, j \in DOMAIN Escaped[p] :
                    ~StartsAt(q, SubSeq(Escaped[p], j, Len(Escaped[p])) \o w, 1)
  <2>1. p \in Texts /\ Len(p) \in Nat /\ Len(p) >= 1
    BY PlaceholderTyped
  <2> DEFINE x == Cat(p, w)
             y == Cat(u, p)
             i == Len(u) + 1
  <2>2. x \in Texts /\ Len(x) = Len(p) + Len(w) /\ y \in Texts /\ Len(y) = Len(u) + Len(p) /\ t = Cat(y, w)
    <3>1. x \in Texts /\ Len(x) = Len(p) + Len(w)
      BY <2>1, TextCat
    <3>2. y \in Texts /\ Len(y) = Len(u) + Len(p)
      BY <2>1, TextCat
    <3>3. t = Cat(y, w)
      BY <1>1, <2>1, TextAssoc
    <3> QED
      BY <3>1, <3>2, <3>3
  <2>3. t = Cat(u, x)
    BY <1>1
  <2>4. StartsAt(p, x, 1)
    <3>1. \E e \in Texts : x = Cat(p, e)
      OBVIOUS
    <3> HIDE DEF x
    <3> QED
      BY <2>1, <2>2, <3>1, TextStarts
  <2> HIDE DEF x, y
  <2>5. Len(u) \in Nat /\ Len(w) \in Nat /\ Len(t) = Len(u) + Len(x) /\ Len(t) = Len(y) + Len(w)
    <3>1. Len(Cat(u, x)) = Len(u) + Len(x) /\ Len(Cat(y, w)) = Len(y) + Len(w)
      BY <2>2, TextCat
    <3> QED
      BY <2>2, <2>3, <3>1, TextLen
  <2>6. i \in 1 .. Len(t) /\ i + Len(p) = Len(y) + 1
    BY <2>1, <2>2, <2>5
  <2>7. StartsAt(p, t, i)
    BY <2>1, <2>2, <2>3, <2>4, TextStarts
  <2>8. SubSeq(t, i + Len(p), Len(t)) = w
    <3>1. SubSeq(Cat(y, w), Len(y) + 1, Len(y) + Len(w)) = w
      BY <2>2, TextBehind
    <3> HIDE DEF i
    <3> QED
      BY <2>2, <2>5, <2>6, <3>1
  <2>9. i \in DOMAIN t
    <3>1. t \in Seq(Signs)
      BY DEF Texts
    <3> HIDE DEF i
    <3> QED
      BY <2>6, <3>1, LenProperties
  <2> HIDE DEF i
  <2>10. /\ SubSeq(t, i + Len(p), Len(t)) # <<>> => SubSeq(t, i + Len(p), Len(t))[1] # "_"
         /\ \A q \in Placeholders, j \in DOMAIN Escaped[p] :
                ~StartsAt(q, SubSeq(Escaped[p], j, Len(Escaped[p])) \o SubSeq(t, i + Len(p), Len(t)), 1)
    BY <2>7, <2>9, Zenon DEF Comparable
  <2> QED
    BY <2>8, <2>10, Zenon
<1>2. NoBar(t)
  BY <1>1 DEF NoBar
<1>3. ASSUME NEW p \in Placeholders, NEW u \in Texts, NEW w \in Texts, t = Cat(u, Cat(p, w)),
             NEW a \in Texts, NEW b \in Texts, Escaped[p] = Cat(a, b), b # <<>>,
             NEW q \in Placeholders, NEW r \in Texts, Cat(b, w) = Cat(q, r)
      PROVE  FALSE
  <2>1. Escaped[p] \in Texts /\ q \in Texts
    BY EscapedTyped, PlaceholderTyped
  <2> DEFINE x == Escaped[p]
             j == Len(a) + 1
  <2>2. x \in Texts /\ x = Cat(a, b)
    BY <1>3, <2>1
  <2>x. Escaped[p] = x
    OBVIOUS
  <2> HIDE DEF x
  <2>3. Len(x) = Len(a) + Len(b) /\ Len(a) \in Nat /\ Len(b) \in Nat /\ Len(b) # 0
    <3>1. Len(x) = Len(a) + Len(b)
      BY <2>2, TextCat
    <3>2. Len(a) \in Nat /\ Len(b) \in Nat /\ Len(b) # 0
      BY <1>3, TextLen
    <3> QED
      BY <3>1, <3>2
  <2>4. j \in 1 .. Len(x)
    BY <2>3
  <2>5. SubSeq(x, j, Len(x)) = b
    <3>1. SubSeq(Cat(a, b), Len(a) + 1, Len(a) + Len(b)) = b
      BY TextBehind
    <3> QED
      BY <2>2, <2>3, <3>1
  <2>6. j \in DOMAIN x
    <3>1. x \in Seq(Signs)
      BY <2>2 DEF Texts
    <3> HIDE DEF j
    <3> QED
      BY <2>4, <3>1, LenProperties
  <2> HIDE DEF j
  <2>7. ~StartsAt(q, SubSeq(x, j, Len(x)) \o w, 1)
    BY <1>1, <1>3, <2>6, <2>x, Zenon
  <2>8. ~StartsAt(q, Cat(b, w), 1)
    BY <2>5, <2>7, Zenon DEF Cat
  <2>9. Cat(b, w) \in Texts
    BY TextCat
  <2> QED
    BY <1>3, <2>1, <2>8, <2>9, TextStarts
<1>4. Unmixed(t)
  BY <1>3, Zenon DEF Unmixed, Plain
<1> QED
  BY <1>2, <1>4

\* What was sent of a stream is, whatever comes, what the client got and what will be
\* made of what is held; at the end, it is all.
Settled(sent, got, hold) ==
    \A v \in Texts, finish \in BOOLEAN :
        Unmixed(Cat(sent, v)) =>
            /\ ApplyReplacements(Cat(sent, v), finish) = Cat(got, ApplyReplacements(Cat(hold, v), finish))
            /\ Unmixed(Cat(hold, v))
Finished(sent, shown) == Unmixed(sent) => ApplyReplacements(sent, TRUE) = shown

\* Nothing sent is settled.
LEMMA SettledAtStart == Settled(<<>>, <<>>, <<>>)
<1>1. ASSUME NEW v \in Texts, NEW finish \in BOOLEAN, Unmixed(Cat(<<>>, v))
      PROVE  /\ ApplyReplacements(Cat(<<>>, v), finish) = Cat(<<>>, ApplyReplacements(Cat(<<>>, v), finish))
             /\ Unmixed(Cat(<<>>, v))
  <2>1. Cat(<<>>, v) \in Texts
    BY TextLen, TextCat
  <2>2. ApplyReplacements(Cat(<<>>, v), finish) \in Texts
    BY <2>1, ApplyText
  <2> QED
    BY <1>1, <2>2, TextLen
<1> QED
  BY <1>1 DEF Settled

\* A piece fed to a restorer leaves its stream settled, and holds the beginning of a
\* placeholder.
LEMMA SettledFeeds ==
    ASSUME NEW sent \in Texts, NEW got \in Texts, NEW hold \in Texts, NEW piece \in Texts,
           Settled(sent, got, hold)
    PROVE  \E y, z \in Texts :
               /\ Feed(hold, piece) = [release |-> y, hold |-> z] /\ Beginning(z)
               /\ Settled(Cat(sent, piece), Cat(got, y), z)
<1> DEFINE t == Cat(hold, piece)
<1>1. t \in Texts /\ Feed(hold, piece) = Process(t, FALSE)
  BY TextCat DEF Feed, Cat
<1>t. t = Cat(hold, piece)
  OBVIOUS
<1> HIDE DEF t
<1>2. PICK y \in Texts, z \in Texts : Process(t, FALSE) = [release |-> y, hold |-> z] /\ Splits(t, y, z)
  BY <1>1, SplitExists
<1>3. Given(t, y, z) /\ Beginning(z)
  BY <1>1, <1>2, ProcessGives DEF Splits
<1>4. ASSUME NEW v \in Texts, NEW finish \in BOOLEAN, Unmixed(Cat(Cat(sent, piece), v))
      PROVE  /\ ApplyReplacements(Cat(Cat(sent, piece), v), finish) =
                    Cat(Cat(got, y), ApplyReplacements(Cat(z, v), finish))
             /\ Unmixed(Cat(z, v))
  <2>1. Cat(Cat(sent, piece), v) = Cat(sent, Cat(piece, v)) /\ Cat(piece, v) \in Texts
    BY TextAssoc, TextCat
  <2>2. Cat(hold, Cat(piece, v)) = Cat(t, v)
    BY <1>t, TextAssoc
  <2>3. /\ ApplyReplacements(Cat(sent, Cat(piece, v)), finish) =
               Cat(got, ApplyReplacements(Cat(hold, Cat(piece, v)), finish))
        /\ Unmixed(Cat(hold, Cat(piece, v)))
    BY <1>4, <2>1, Zenon DEF Settled
  <2>4. /\ ApplyReplacements(Cat(t, v), finish) = Cat(y, ApplyReplacements(Cat(z, v), finish))
        /\ Unmixed(Cat(z, v))
    BY <1>3, <2>2, <2>3 DEF Given
  <2> DEFINE g == ApplyReplacements(Cat(z, v), finish)
  <2>5. g \in Texts
    BY TextCat, ApplyText
  <2>6. ApplyReplacements(Cat(Cat(sent, piece), v), finish) = Cat(got, Cat(y, g))
    BY <2>1, <2>2, <2>3, <2>4
  <2> HIDE DEF g
  <2>7. Cat(got, Cat(y, g)) = Cat(Cat(got, y), g)
    BY <2>5, TextAssoc
  <2> QED
    BY <2>4, <2>6, <2>7 DEF g
<1>5. Settled(Cat(sent, piece), Cat(got, y), z)
  BY <1>4 DEF Settled
<1> QED
  BY <1>1, <1>2, <1>3, <1>5

\* What is released at the end of a stream completes it.
LEMMA SettledFinishes ==
    \A sent, got, hold \in Texts : Settled(sent, got, hold) => Finished(sent, Cat(got, Rest(hold)))
<1> SUFFICES ASSUME NEW sent \in Texts, NEW got \in Texts, NEW hold \in Texts, Settled(sent, got, hold), Unmixed(sent)
             PROVE  ApplyReplacements(sent, TRUE) = Cat(got, Rest(hold))
  BY DEF Finished
<1>1. <<>> \in Texts /\ Cat(sent, <<>>) = sent /\ Cat(hold, <<>>) = hold /\ TRUE \in BOOLEAN
  BY TextLen
<1>2. ApplyReplacements(Cat(sent, <<>>), TRUE) = Cat(got, ApplyReplacements(Cat(hold, <<>>), TRUE))
  BY <1>1 DEF Settled
<1> QED
  BY <1>1, <1>2, RestIs

\* What is released at the end is a text, and nothing if nothing is held.
LEMMA RestTyped == (\A hold \in Texts : Rest(hold) \in Texts) /\ Rest(<<>>) = <<>>
  BY RestIs, ApplyText, TextLen

\* A completed stream is what EntityMap::restore makes of what was sent.
LEMMA FinishedRestores ==
    ASSUME NEW sent \in Texts, NEW shown, Finished(sent, shown), Comparable(sent)
    PROVE  shown = Restore(sent, Escaped)
<1>1. Unmixed(sent) /\ NoBar(sent)
  BY ComparableIs
<1> QED
  BY <1>1, RestoreIsApply DEF Finished

\* The texts of a response, and what the client has of them.
Sent(kinds, parts) ==
    Cat(IF kinds[0] = "text" THEN parts[0] ELSE <<>>, IF kinds[1] = "text" THEN parts[1] ELSE <<>>)
Got(has) == Cat(has[0].text, has[1].text)
Haves == [Blocks -> [text : Texts, args : Texts]]

\* The two blocks and the restorers.
LEMMA BlocksAre == 0 \in Blocks /\ 1 \in Blocks /\ (\A b \in Blocks : b = 0 \/ b = 1)
                   /\ Content \in Restorers /\ \A b \in Blocks : b \in Restorers /\ b # Content
  BY DEF Blocks, Restorers, Content

\* The texts of a response, as one text.
LEMMA SentTyped ==
    ASSUME NEW kinds, NEW parts \in [Blocks -> Texts]
    PROVE  Sent(kinds, parts) \in Texts
<1>1. parts[0] \in Texts /\ parts[1] \in Texts /\ <<>> \in Texts
  BY BlocksAre, TextLen
<1> QED
  BY <1>1, TextCat DEF Sent

\* A piece of the block that comes last grows the text at its end.
LEMMA SentGrows ==
    ASSUME NEW kinds, NEW parts \in [Blocks -> Texts], NEW b \in Blocks, NEW piece \in Texts,
           kinds[b] = "text", b = 0 => kinds[1] # "text" \/ parts[1] = <<>>
    PROVE  Sent(kinds, [parts EXCEPT ![b] = Cat(@, piece)]) = Cat(Sent(kinds, parts), piece)
<1>1. parts[0] \in Texts /\ parts[1] \in Texts /\ <<>> \in Texts
  BY BlocksAre, TextLen
<1> DEFINE more == [parts EXCEPT ![b] = Cat(@, piece)]
<1>2. \A c \in Blocks : more[c] = IF c = b THEN Cat(parts[c], piece) ELSE parts[c]
  OBVIOUS
<1> HIDE DEF more
<1>3. CASE b = 0
  <2>1. more[0] = Cat(parts[0], piece) /\ more[1] = parts[1] /\ Cat(parts[0], piece) \in Texts
    <3>1. 0 \in Blocks /\ 1 \in Blocks
      BY BlocksAre
    <3>2. Cat(parts[0], piece) \in Texts
      BY <1>1, TextCat
    <3> QED
      BY <1>2, <1>3, <3>1, <3>2
  <2>2. /\ Sent(kinds, more) = Cat(Cat(parts[0], piece), <<>>)
        /\ Sent(kinds, parts) = Cat(parts[0], <<>>)
    BY <1>3, <2>1 DEF Sent
  <2> QED
    BY <1>1, <2>1, <2>2, TextLen DEF more
<1>4. CASE b = 1
  <2> DEFINE x == IF kinds[0] = "text" THEN parts[0] ELSE <<>>
  <2>1. more[1] = Cat(parts[1], piece) /\ more[0] = parts[0] /\ x \in Texts
    BY <1>1, <1>2, <1>4, BlocksAre
  <2>2. Sent(kinds, more) = Cat(x, Cat(parts[1], piece)) /\ Sent(kinds, parts) = Cat(x, parts[1])
    BY <1>4, <2>1 DEF Sent
  <2> HIDE DEF x
  <2> QED
    BY <1>1, <2>1, <2>2, TextAssoc DEF more
<1> QED
  BY <1>3, <1>4, BlocksAre

\* What the client has once a piece is shown.
LEMMA ReleaseIs ==
    ASSUME NEW has \in Haves, NEW b \in Blocks, NEW side \in {"text", "args"}, NEW x \in Texts
    PROVE  /\ Release(has, b, side, x) \in Haves
           /\ \A c \in Blocks :
                  /\ Release(has, b, side, x)[c].text = IF c = b /\ side = "text" THEN Cat(has[c].text, x) ELSE has[c].text
                  /\ Release(has, b, side, x)[c].args = IF c = b /\ side = "args" THEN Cat(has[c].args, x) ELSE has[c].args
<1>1. \A c \in Blocks : has[c] \in [text : Texts, args : Texts] /\ has[c].text \in Texts /\ has[c].args \in Texts
  BY DEF Haves
<1> DEFINE new == [has[b] EXCEPT ![side] = @ \o x]
<1>2. /\ new \in [text : Texts, args : Texts]
      /\ new.text = IF side = "text" THEN Cat(has[b].text, x) ELSE has[b].text
      /\ new.args = IF side = "args" THEN Cat(has[b].args, x) ELSE has[b].args
  <2>1. Cat(has[b].text, x) \in Texts /\ Cat(has[b].args, x) \in Texts
    BY <1>1, TextCat
  <2>2. CASE side = "text"
    <3>1. new = [has[b] EXCEPT !.text = Cat(@, x)]
      BY <2>2 DEF Cat
    <3> HIDE DEF new
    <3> QED
      BY <1>1, <2>1, <2>2, <3>1
  <2>3. CASE side = "args"
    <3>1. new = [has[b] EXCEPT !.args = Cat(@, x)]
      BY <2>3 DEF Cat
    <3> HIDE DEF new
    <3> QED
      BY <1>1, <2>1, <2>3, <3>1
  <2> QED
    BY <2>2, <2>3
<1>3. Release(has, b, side, x) = [has EXCEPT ![b] = new]
  BY DEF Release
<1> HIDE DEF new
<1> QED
  BY <1>1, <1>2, <1>3 DEF Haves

\* What the client has are texts.
LEMMA GotTyped == \A has \in Haves :
    Got(has) \in Texts /\ \A b \in Blocks : has[b].text \in Texts /\ has[b].args \in Texts
<1>1. \A has \in Haves, b \in Blocks : has[b].text \in Texts /\ has[b].args \in Texts
  BY DEF Haves
<1> QED
  BY <1>1, BlocksAre, TextCat DEF Got

\* A piece shown in the block that comes last grows the text at its end.
LEMMA GotGrows ==
    ASSUME NEW has \in Haves, NEW b \in Blocks, NEW x \in Texts, b = 0 => has[1].text = <<>>
    PROVE  Got(Release(has, b, "text", x)) = Cat(Got(has), x)
<1>1. has[0].text \in Texts /\ has[1].text \in Texts /\ Cat(has[0].text, x) \in Texts
  BY BlocksAre, GotTyped, TextCat
<1> DEFINE new == Release(has, b, "text", x)
<1>2. \A c \in Blocks : new[c].text = IF c = b THEN Cat(has[c].text, x) ELSE has[c].text
  BY ReleaseIs
<1> HIDE DEF new
<1>3. CASE b = 0
  <2>1. new[0].text = Cat(has[0].text, x) /\ new[1].text = <<>> /\ has[1].text = <<>>
    BY <1>2, <1>3, BlocksAre
  <2>2. Got(new) = Cat(has[0].text, x) /\ Got(has) = has[0].text
    BY <1>1, <2>1, TextLen DEF Got
  <2> QED
    BY <2>2 DEF new
<1>4. CASE b = 1
  <2>1. new[1].text = Cat(has[1].text, x) /\ new[0].text = has[0].text
    BY <1>2, <1>4, BlocksAre
  <2>2. Got(new) = Cat(has[0].text, Cat(has[1].text, x)) /\ Got(has) = Cat(has[0].text, has[1].text)
    BY <2>1 DEF Got
  <2> QED
    BY <1>1, <2>2, TextAssoc DEF new
<1> QED
  BY <1>3, <1>4, BlocksAre

\* Types, and that a restorer holds the beginning of a placeholder.
StreamShape ==
    /\ format \in {"openai", "anthropic"}
    /\ blockKind \in [Blocks -> {"text", "tool"}]
    /\ format = "openai" => blockKind[1] = "tool"
    /\ held \in [Restorers -> Texts] /\ \A r \in Restorers : Beginning(held[r])
    /\ clientHas \in Haves
    /\ last \in Blocks
    /\ ended \in {"no", "terminator", "eof", "error"}
    /\ fed \in [Blocks -> Texts]

\* The second block has nothing before it begins, and no text of an OpenAI response.
OrderPart ==
    /\ format = "openai" \/ last = 0 => clientHas[1].text = <<>>
    /\ format = "anthropic" /\ last = 0 => fed[1] = <<>>

\* Until the gateway ends it, the text, and each tool call, is settled.
SettledPart ==
    ended \in {"no", "error"} =>
        /\ Settled(Sent(blockKind, fed), Got(clientHas), held[Content])
        /\ \A b \in Blocks : blockKind[b] = "tool" => Settled(fed[b], clientHas[b].args, held[b])

\* What was sent is what the client got and what would be flushed.
FinishedPart ==
    /\ Finished(Sent(blockKind, fed), Cat(Got(clientHas), Rest(held[Content])))
    /\ \A b \in Blocks : blockKind[b] = "tool" => Finished(fed[b], Cat(clientHas[b].args, Rest(held[b])))

\* What the gateway ends holds nothing back.
ReleasedPart == ended \in {"terminator", "eof"} => \A r \in Restorers : held[r] = <<>>

StreamInv == StreamShape /\ OrderPart /\ SettledPart /\ FinishedPart /\ ReleasedPart

\* What is settled is finished by what would be flushed.
LEMMA SettledEnough ==
    ASSUME NEW kinds, NEW parts \in [Blocks -> Texts], NEW has \in Haves, NEW holds \in [Restorers -> Texts],
           Settled(Sent(kinds, parts), Got(has), holds[Content]),
           \A b \in Blocks : kinds[b] = "tool" => Settled(parts[b], has[b].args, holds[b])
    PROVE  /\ Finished(Sent(kinds, parts), Cat(Got(has), Rest(holds[Content])))
           /\ \A b \in Blocks : kinds[b] = "tool" => Finished(parts[b], Cat(has[b].args, Rest(holds[b])))
<1>1. Sent(kinds, parts) \in Texts /\ Got(has) \in Texts /\ holds[Content] \in Texts
  BY SentTyped, GotTyped, BlocksAre
<1>2. \A b \in Blocks : parts[b] \in Texts /\ has[b].args \in Texts /\ holds[b] \in Texts
  BY GotTyped, BlocksAre
<1> QED
  BY <1>1, <1>2, SettledFinishes

\* A response starts in the invariant.
LEMMA StreamStarts == StreamInit => StreamInv
<1> SUFFICES ASSUME StreamInit PROVE StreamInv
  OBVIOUS
<1> USE DEF StreamInit
<1>0. <<>> \in Texts /\ Beginning(<<>>)
  BY TextLen DEF Beginning
<1>1. StreamShape
  <2>1. format = "openai" => blockKind[1] = "tool"
    BY BlocksAre
  <2>2. held \in [Restorers -> Texts] /\ \A r \in Restorers : Beginning(held[r])
    BY <1>0
  <2>3. clientHas \in Haves
    BY <1>0 DEF Haves
  <2>4. fed \in [Blocks -> Texts]
    BY <1>0
  <2> QED
    BY <2>1, <2>2, <2>3, <2>4, BlocksAre DEF StreamShape
<1>2. OrderPart
  BY BlocksAre DEF OrderPart
<1>3. SettledPart
  <2>1. fed[0] = <<>> /\ fed[1] = <<>> /\ clientHas[0].text = <<>> /\ clientHas[1].text = <<>>
    BY BlocksAre
  <2>2. held[Content] = <<>> /\ \A b \in Blocks : held[b] = <<>> /\ clientHas[b].args = <<>> /\ fed[b] = <<>>
    BY BlocksAre
  <2>3. Cat(<<>>, <<>>) = <<>>
    BY TextLen
  <2>4. Sent(blockKind, fed) = <<>> /\ Got(clientHas) = <<>>
    BY <2>1, <2>3, Zenon DEF Sent, Got
  <2> QED
    BY <2>2, <2>4, SettledAtStart DEF SettledPart
<1>4. FinishedPart
  BY <1>1, <1>3, SettledEnough DEF StreamShape, SettledPart, FinishedPart
<1>5. ReleasedPart
  BY DEF ReleasedPart
<1> QED
  BY <1>1, <1>2, <1>3, <1>4, <1>5 DEF StreamInv

\* A piece of a block.
LEMMA DeltaKeeps ==
    ASSUME StreamInv, NEW b \in Blocks, NEW piece \in Texts, Delta(b, piece)
    PROVE  StreamInv'
<1>0. /\ StreamShape /\ OrderPart /\ ended = "no"
      /\ format' = format /\ blockKind' = blockKind /\ ended' = ended /\ last' = b
      /\ fed' = [fed EXCEPT ![b] = Cat(@, piece)]
      /\ format = "anthropic" => b >= last
  BY DEF StreamInv, Delta, Cat
<1>1. /\ held \in [Restorers -> Texts] /\ clientHas \in Haves /\ fed \in [Blocks -> Texts]
      /\ blockKind \in [Blocks -> {"text", "tool"}] /\ format \in {"openai", "anthropic"}
      /\ format = "openai" => blockKind[1] = "tool"
  BY <1>0 DEF StreamShape
<1>2. /\ Settled(Sent(blockKind, fed), Got(clientHas), held[Content])
      /\ \A c \in Blocks : blockKind[c] = "tool" => Settled(fed[c], clientHas[c].args, held[c])
  BY <1>0 DEF StreamInv, SettledPart
<1>3. fed' \in [Blocks -> Texts] /\ \A c \in Blocks : fed[c] \in Texts /\ fed'[c] = IF c = b THEN Cat(fed[c], piece) ELSE fed[c]
  <2>1. Cat(fed[b], piece) \in Texts
    BY <1>1, TextCat
  <2> QED
    BY <1>0, <1>1, <2>1
<1>4. b = 0 => format = "openai" \/ last = 0
  <2>1. last = 0 \/ last = 1
    BY <1>0, BlocksAre DEF StreamShape
  <2> QED
    BY <1>0, <1>1, <2>1
<1>5. b = 0 => clientHas[1].text = <<>> /\ (blockKind[1] # "text" \/ fed[1] = <<>>)
  BY <1>0, <1>1, <1>4 DEF OrderPart
<1> DEFINE r == RestorerOf(b)
<1>6. r \in Restorers /\ r = IF blockKind[b] = "text" THEN Content ELSE b
  BY BlocksAre DEF RestorerOf
<1> DEFINE done == Feed(held[r], piece)
<1>7. /\ held' = [held EXCEPT ![r] = done.hold]
      /\ clientHas' = Release(clientHas, b, Field(b), done.release)
  BY DEF Delta
<1> HIDE DEF r
<1>8. held[r] \in Texts
  BY <1>1, <1>6
<1>9. CASE blockKind[b] = "text"
  <2>1. r = Content /\ Field(b) = "text"
    BY <1>6, <1>9 DEF Field
  <2>2. Sent(blockKind, fed) \in Texts /\ Got(clientHas) \in Texts /\ held[Content] \in Texts
    BY <1>1, SentTyped, GotTyped, BlocksAre
  <2>3. PICK y \in Texts, z \in Texts :
            /\ Feed(held[Content], piece) = [release |-> y, hold |-> z] /\ Beginning(z)
            /\ Settled(Cat(Sent(blockKind, fed), piece), Cat(Got(clientHas), y), z)
    BY <1>2, <2>2, SettledFeeds
  <2>4. held' = [held EXCEPT ![Content] = z] /\ clientHas' = Release(clientHas, b, "text", y)
    BY <1>7, <2>1, <2>3
  <2>5. Sent(blockKind, fed') = Cat(Sent(blockKind, fed), piece)
    <3>1. b = 0 => blockKind[1] # "text" \/ fed[1] = <<>>
      BY <1>5
    <3>2. Sent(blockKind, [fed EXCEPT ![b] = Cat(@, piece)]) = Cat(Sent(blockKind, fed), piece)
      BY <1>1, <1>9, <3>1, SentGrows
    <3> QED
      BY <1>0, <3>2
  <2>6. Got(clientHas') = Cat(Got(clientHas), y)
    BY <1>1, <1>5, <2>4, GotGrows
  <2>7. /\ clientHas' \in Haves
        /\ \A c \in Blocks :
               /\ clientHas'[c].text = IF c = b THEN Cat(clientHas[c].text, y) ELSE clientHas[c].text
               /\ clientHas'[c].args = clientHas[c].args
    <3> DEFINE new == Release(clientHas, b, "text", y)
    <3>1. "text" \in {"text", "args"} /\ "text" # "args"
      OBVIOUS
    <3>2. /\ new \in Haves
          /\ \A c \in Blocks :
                 /\ new[c].text = IF c = b /\ "text" = "text" THEN Cat(clientHas[c].text, y) ELSE clientHas[c].text
                 /\ new[c].args = IF c = b /\ "text" = "args" THEN Cat(clientHas[c].args, y) ELSE clientHas[c].args
      BY <1>1, <3>1, ReleaseIs
    <3>3. clientHas' = new
      BY <2>4
    <3> HIDE DEF new
    <3> QED
      BY <3>1, <3>2, <3>3
  <2>8. /\ held' \in [Restorers -> Texts] /\ (\A s \in Restorers : Beginning(held'[s]))
        /\ held'[Content] = z /\ \A c \in Blocks : held'[c] = held[c]
    <3>1. \A s \in Restorers : Beginning(held[s])
      BY <1>0 DEF StreamShape
    <3> QED
      BY <1>1, <2>3, <2>4, <3>1, BlocksAre
  <2>9. StreamShape'
    BY <1>0, <1>1, <1>3, <2>7, <2>8 DEF StreamShape
  <2>10. OrderPart'
    <3>1. format = "openai" => b = 0
      BY <1>1, <1>9, BlocksAre
    <3>2. b = 0 => clientHas'[1].text = clientHas[1].text /\ fed'[1] = fed[1]
      BY <1>3, <2>7, BlocksAre
    <3> QED
      BY <1>0, <1>4, <3>1, <3>2, BlocksAre DEF OrderPart
  <2>11. /\ Settled(Sent(blockKind, fed'), Got(clientHas'), held'[Content])
         /\ \A c \in Blocks : blockKind[c] = "tool" => Settled(fed'[c], clientHas'[c].args, held'[c])
    <3>1. Settled(Sent(blockKind, fed'), Got(clientHas'), held'[Content])
      BY <2>3, <2>5, <2>6, <2>8
    <3>2. ASSUME NEW c \in Blocks, blockKind[c] = "tool" PROVE Settled(fed'[c], clientHas'[c].args, held'[c])
      <4>1. fed'[c] = fed[c] /\ clientHas'[c].args = clientHas[c].args /\ held'[c] = held[c]
        BY <1>3, <1>9, <2>7, <2>8, <3>2
      <4> QED
        BY <1>2, <3>2, <4>1
    <3> QED
      BY <3>1, <3>2
  <2>12. FinishedPart'
    BY <1>0, <1>3, <2>7, <2>8, <2>11, SettledEnough DEF FinishedPart
  <2>13. SettledPart' /\ ReleasedPart'
    BY <1>0, <2>11 DEF SettledPart, ReleasedPart
  <2> QED
    BY <2>9, <2>10, <2>12, <2>13 DEF StreamInv
<1>10. CASE blockKind[b] = "tool"
  <2>1. r = b /\ Field(b) = "args"
    BY <1>6, <1>10 DEF Field
  <2>2. fed[b] \in Texts /\ clientHas[b].args \in Texts /\ held[b] \in Texts
    BY <1>1, <1>3, GotTyped, BlocksAre
  <2>3. PICK y \in Texts, z \in Texts :
            /\ Feed(held[b], piece) = [release |-> y, hold |-> z] /\ Beginning(z)
            /\ Settled(Cat(fed[b], piece), Cat(clientHas[b].args, y), z)
    BY <1>2, <1>10, <2>2, SettledFeeds
  <2>4. held' = [held EXCEPT ![b] = z] /\ clientHas' = Release(clientHas, b, "args", y)
    BY <1>7, <2>1, <2>3
  <2>5. /\ clientHas' \in Haves
        /\ \A c \in Blocks :
               /\ clientHas'[c].text = clientHas[c].text
               /\ clientHas'[c].args = IF c = b THEN Cat(clientHas[c].args, y) ELSE clientHas[c].args
    <3> DEFINE new == Release(clientHas, b, "args", y)
    <3>1. "args" \in {"text", "args"} /\ "args" # "text"
      OBVIOUS
    <3>2. /\ new \in Haves
          /\ \A c \in Blocks :
                 /\ new[c].text = IF c = b /\ "args" = "text" THEN Cat(clientHas[c].text, y) ELSE clientHas[c].text
                 /\ new[c].args = IF c = b /\ "args" = "args" THEN Cat(clientHas[c].args, y) ELSE clientHas[c].args
      BY <1>1, <3>1, ReleaseIs
    <3>3. clientHas' = new
      BY <2>4
    <3> HIDE DEF new
    <3> QED
      BY <3>1, <3>2, <3>3
  <2>6. /\ held' \in [Restorers -> Texts] /\ (\A s \in Restorers : Beginning(held'[s]))
        /\ held'[Content] = held[Content] /\ \A c \in Blocks : held'[c] = IF c = b THEN z ELSE held[c]
    <3>1. \A s \in Restorers : Beginning(held[s])
      BY <1>0 DEF StreamShape
    <3> QED
      BY <1>1, <2>3, <2>4, <3>1, BlocksAre
  <2>7. Sent(blockKind, fed') = Sent(blockKind, fed) /\ Got(clientHas') = Got(clientHas)
    <3>1. \A c \in Blocks : blockKind[c] = "text" => fed'[c] = fed[c]
      BY <1>3, <1>10
    <3>2. Sent(blockKind, fed') = Sent(blockKind, fed)
      BY <3>1, BlocksAre, Zenon DEF Sent
    <3>3. Got(clientHas') = Got(clientHas)
      BY <2>5, BlocksAre, Zenon DEF Got
    <3> QED
      BY <3>2, <3>3
  <2>8. StreamShape'
    BY <1>0, <1>1, <1>3, <2>5, <2>6 DEF StreamShape
  <2>9. OrderPart'
    <3>1. clientHas'[1].text = clientHas[1].text /\ (b = 0 => fed'[1] = fed[1])
      BY <1>3, <2>5, BlocksAre
    <3> QED
      BY <1>0, <1>4, <3>1, BlocksAre DEF OrderPart
  <2>10. /\ Settled(Sent(blockKind, fed'), Got(clientHas'), held'[Content])
         /\ \A c \in Blocks : blockKind[c] = "tool" => Settled(fed'[c], clientHas'[c].args, held'[c])
    <3>1. Settled(Sent(blockKind, fed'), Got(clientHas'), held'[Content])
      BY <1>2, <2>6, <2>7
    <3>2. ASSUME NEW c \in Blocks, blockKind[c] = "tool" PROVE Settled(fed'[c], clientHas'[c].args, held'[c])
      <4>1. CASE c = b
        <5>1. fed'[c] = Cat(fed[b], piece) /\ clientHas'[c].args = Cat(clientHas[b].args, y) /\ held'[c] = z
          BY <1>3, <2>5, <2>6, <4>1
        <5> QED
          BY <2>3, <5>1
      <4>2. CASE c # b
        <5>1. fed'[c] = fed[c] /\ clientHas'[c].args = clientHas[c].args /\ held'[c] = held[c]
          BY <1>3, <2>5, <2>6, <4>2
        <5> QED
          BY <1>2, <3>2, <5>1
      <4> QED
        BY <4>1, <4>2
    <3> QED
      BY <3>1, <3>2
  <2>11. FinishedPart'
    BY <1>0, <1>3, <2>5, <2>6, <2>10, SettledEnough DEF FinishedPart
  <2>12. SettledPart' /\ ReleasedPart'
    BY <1>0, <2>10 DEF SettledPart, ReleasedPart
  <2> QED
    BY <2>8, <2>9, <2>11, <2>12 DEF StreamInv
<1> QED
  BY <1>1, <1>9, <1>10

\* The end of the stream: what is held is released, and nothing is left.
LEMMA EndKeeps ==
    ASSUME StreamInv, NEW how \in {"terminator", "eof"}, EndOfStream(how)
    PROVE  StreamInv'
<1>0. /\ StreamShape /\ OrderPart /\ FinishedPart
      /\ format' = format /\ blockKind' = blockKind /\ ended' = how /\ last' = last /\ fed' = fed
  BY DEF StreamInv, EndOfStream
<1>1. held \in [Restorers -> Texts] /\ clientHas \in Haves /\ last \in Blocks
      /\ format \in {"openai", "anthropic"}
  BY <1>0 DEF StreamShape
<1> DEFINE textBlock == IF format = "openai" THEN 0 ELSE last
           rest == [r \in Restorers |-> IF r \in Flushed THEN Rest(held[r]) ELSE <<>>]
           shown == [b \in Blocks |-> [clientHas[b] EXCEPT !.args = @ \o rest[b]]]
<1>2. held' = [r \in Restorers |-> <<>>] /\ clientHas' = Release(shown, textBlock, "text", rest[Content])
  <2>1. Flush
    BY DEF EndOfStream
  <2>2. clientHas' = Release(shown, textBlock, "text", rest[Content])
    BY <2>1, Zenon DEF Flush
  <2>3. held' = [r \in Restorers |-> IF r \in Flushed THEN <<>> ELSE held[r]]
    BY <2>1, Zenon DEF Flush
  <2>4. held' = [r \in Restorers |-> <<>>]
    BY <2>3 DEF Flushed
  <2> QED
    BY <2>2, <2>4
<1>3. \A r \in Restorers : rest[r] = Rest(held[r]) /\ rest[r] \in Texts
  BY <1>1, RestTyped DEF Flushed
<1> HIDE DEF rest
<1>4. /\ shown \in Haves
      /\ \A b \in Blocks : shown[b].text = clientHas[b].text /\ shown[b].args = Cat(clientHas[b].args, rest[b])
  <2>1. \A b \in Blocks : /\ clientHas[b] \in [text : Texts, args : Texts]
                          /\ clientHas[b].text \in Texts /\ Cat(clientHas[b].args, rest[b]) \in Texts
    BY <1>1, <1>3, BlocksAre, GotTyped, TextCat DEF Haves
  <2>2. shown = [b \in Blocks |-> [clientHas[b] EXCEPT !.args = Cat(@, rest[b])]]
    BY DEF Cat
  <2> HIDE DEF shown
  <2> QED
    BY <2>1, <2>2 DEF Haves
<1> HIDE DEF shown
<1>5. textBlock \in Blocks /\ (textBlock = 0 => shown[1].text = <<>>)
  BY <1>0, <1>1, <1>4, BlocksAre DEF OrderPart
<1> DEFINE x == rest[Content]
<1>6. x \in Texts /\ x = Rest(held[Content])
  BY <1>3, BlocksAre
<1>7. clientHas' = Release(shown, textBlock, "text", x)
  BY <1>2
<1>a. format = "openai" \/ last = 0 => textBlock = 0
  OBVIOUS
<1> HIDE DEF x, textBlock
<1>8. /\ clientHas' \in Haves
      /\ \A b \in Blocks :
             /\ clientHas'[b].text = IF b = textBlock THEN Cat(clientHas[b].text, x) ELSE clientHas[b].text
             /\ clientHas'[b].args = Cat(clientHas[b].args, rest[b])
  BY <1>4, <1>5, <1>6, <1>7, ReleaseIs
<1>9. Got(clientHas') = Cat(Got(clientHas), x)
  <2>1. Got(clientHas') = Cat(Got(shown), x)
    BY <1>4, <1>5, <1>6, <1>7, GotGrows
  <2>2. Got(shown) = Got(clientHas)
    BY <1>4, BlocksAre, Zenon DEF Got
  <2> QED
    BY <2>1, <2>2
<1>10. \A r \in Restorers : held'[r] = <<>>
  BY <1>2
<1>11. StreamShape'
  <2>1. <<>> \in Texts /\ Beginning(<<>>)
    BY TextLen DEF Beginning
  <2>2. held' \in [Restorers -> Texts] /\ \A r \in Restorers : Beginning(held'[r])
    BY <1>2, <2>1
  <2> QED
    BY <1>0, <1>8, <2>2 DEF StreamShape
<1>12. OrderPart'
  <2>1. format = "openai" \/ last = 0 => clientHas'[1].text = clientHas[1].text
    BY <1>8, <1>a, BlocksAre
  <2> QED
    BY <1>0, <2>1 DEF OrderPart
<1>13. FinishedPart'
  <2>1. Rest(<<>>) = <<>> /\ held'[Content] = <<>> /\ \A b \in Blocks : held'[b] = <<>>
    BY <1>10, RestTyped, BlocksAre
  <2>2. Cat(Got(clientHas'), <<>>) = Cat(Got(clientHas), Rest(held[Content]))
    BY <1>6, <1>8, <1>9, GotTyped, TextLen
  <2>3. \A b \in Blocks : Cat(clientHas'[b].args, <<>>) = Cat(clientHas[b].args, Rest(held[b]))
    <3>1. ASSUME NEW b \in Blocks PROVE Cat(clientHas'[b].args, <<>>) = Cat(clientHas[b].args, Rest(held[b]))
      <4>1. clientHas'[b].args \in Texts
        BY <1>8, GotTyped
      <4>2. Cat(clientHas'[b].args, <<>>) = clientHas'[b].args
        BY <4>1, TextLen
      <4>3. rest[b] = Rest(held[b])
        BY <1>3, BlocksAre
      <4> QED
        BY <1>8, <4>2, <4>3
    <3> QED
      BY <3>1
  <2>4. Finished(Sent(blockKind, fed), Cat(Got(clientHas'), Rest(held'[Content])))
    BY <1>0, <2>1, <2>2 DEF FinishedPart
  <2>5. ASSUME NEW b \in Blocks, blockKind[b] = "tool"
        PROVE  Finished(fed[b], Cat(clientHas'[b].args, Rest(held'[b])))
    BY <1>0, <2>1, <2>3, <2>5 DEF FinishedPart
  <2> QED
    BY <1>0, <2>4, <2>5 DEF FinishedPart
<1>14. SettledPart' /\ ReleasedPart'
  BY <1>0, <1>10 DEF SettledPart, ReleasedPart
<1> QED
  BY <1>11, <1>12, <1>13, <1>14 DEF StreamInv

\* What the upstream sends are texts.
LEMMA PiecesTyped == Pieces \subseteq Texts
<1>1. Alphabet \subseteq Signs
  BY DEF Signs
<1>2. \A a, c \in Signs : <<a>> \in Seq(Signs) /\ <<a, c>> \in Seq(Signs)
  OBVIOUS
<1>3. ASSUME NEW s \in Pieces PROVE s \in Seq(Signs)
  <2>1. CASE s \in {<<a>> : a \in Alphabet}
    BY <1>1, <1>2, <2>1
  <2>2. CASE s \in Alphabet \X Alphabet
    <3>1. PICK a \in Alphabet, c \in Alphabet : s = <<a, c>>
      BY <2>2
    <3> QED
      BY <1>1, <1>2, <3>1
  <2> QED
    BY <2>1, <2>2 DEF Pieces
<1> QED
  BY <1>3 DEF Texts

\* Every step keeps the invariant.
LEMMA StreamStep == StreamInv /\ [StreamNext]_streamVars => StreamInv'
<1> SUFFICES ASSUME StreamInv, [StreamNext]_streamVars PROVE StreamInv'
  OBVIOUS
<1>1. ASSUME NEW b \in Blocks, NEW piece \in Pieces, Delta(b, piece) PROVE StreamInv'
  BY <1>1, PiecesTyped, DeltaKeeps
<1>2. ASSUME NEW how \in {"terminator", "eof"}, EndOfStream(how) PROVE StreamInv'
  BY <1>2, EndKeeps
<1>3. CASE StreamError
  <2>1. /\ ended = "no" /\ ended' = "error"
        /\ UNCHANGED <<format, blockKind, held, clientHas, last, fed>>
    BY <1>3 DEF StreamError
  <2>2. StreamShape' /\ OrderPart' /\ FinishedPart'
    BY <2>1 DEF StreamInv, StreamShape, OrderPart, FinishedPart
  <2>3. SettledPart' /\ ReleasedPart'
    BY <2>1 DEF StreamInv, SettledPart, ReleasedPart
  <2> QED
    BY <2>2, <2>3 DEF StreamInv
<1>4. CASE UNCHANGED streamVars
  BY <1>4 DEF streamVars, StreamInv, StreamShape, OrderPart, SettledPart, FinishedPart, ReleasedPart
<1> QED
  BY <1>1, <1>2, <1>3, <1>4 DEF StreamNext

\* However a response is cut and interleaved, each restorer holds what may become a
\* placeholder, and nothing else of its stream is missing (transform_openai,
\* transform_anthropic, flush_holdbacks).
THEOREM StreamInductive == StreamSpec => []StreamInv
  BY StreamStarts, StreamStep, PTL DEF StreamSpec

\* What has nothing to escape is restored by the originals.
LEMMA RestoreUnescaped ==
    ASSUME NEW t \in Texts, NothingEscaped(t)
    PROVE  Restore(t, Escaped) = Restore(t, Original)
<1>1. Len(t) \in Nat /\ DOMAIN t = 1 .. Len(t)
  BY NoText, LenProperties DEF Texts
<1>2. ASSUME NEW i \in 1 .. Len(t) PROVE RestoredAt(t, Escaped, i) = RestoredAt(t, Original, i)
  <2> DEFINE ps == {p \in Placeholders : Whole(t, p, i)}
             longest == LongestOf(ps)
  <2>1. CASE ps = {}
    <3>1. \A values : ps = {} => RestoredAt(t, values, i) = [shown |-> <<t[i]>>, taken |-> 1]
      BY Zenon DEF RestoredAt
    <3> QED
      BY <2>1, <3>1
  <2>2. CASE ps # {}
    <3>1. \A p \in ps : p \in Placeholders /\ StartsAt(p, t, i)
      BY Zenon DEF Whole
    <3>2. \A p \in ps : Len(p) \in 0 .. Len(t)
      <4> HIDE DEF ps
      <4> QED
        BY <1>1, <3>1, PlaceholderTyped DEF StartsAt
    <3>3. longest \in ps
      <4> HIDE DEF ps
      <4> QED
        BY <1>1, <2>2, <3>2, LongestIs
    <3>4. Escaped[longest] = Original[longest]
      <4> HIDE DEF ps, longest
      <4> QED
        BY <1>1, <3>1, <3>3 DEF NothingEscaped
    <3>5. \A values : ps # {} =>
              RestoredAt(t, values, i) = [shown |-> values[longest], taken |-> Len(longest)]
      BY Zenon DEF RestoredAt
    <3> HIDE DEF ps, longest
    <3>6. RestoredAt(t, Escaped, i) = [shown |-> Escaped[longest], taken |-> Len(longest)]
      BY <2>2, <3>5
    <3>7. RestoredAt(t, Original, i) = [shown |-> Original[longest], taken |-> Len(longest)]
      BY <2>2, <3>5
    <3> QED
      BY <3>4, <3>6, <3>7
  <2> QED
    BY <2>1, <2>2
<1>3. RestoredPlaces(t, Escaped) = RestoredPlaces(t, Original)
  BY <1>1, <1>2, Zenon DEF RestoredPlaces
<1>4. \A values : Restore(t, values) = Rewrite(RestoredPlaces(t, values))
  BY RestoreIs
<1> QED
  BY <1>3, <1>4

\* The invariant implies what the run checks.
LEMMA StreamEnough == StreamInv => StreamTypeOK /\ StreamRestored
<1> SUFFICES ASSUME StreamInv PROVE StreamTypeOK /\ StreamRestored
  OBVIOUS
<1>1. StreamShape /\ FinishedPart /\ ReleasedPart
  BY DEF StreamInv
<1>2. StreamTypeOK
  <2>1. ASSUME NEW r \in Restorers PROVE held[r] = <<>> \/ \E p \in Placeholders : Len(held[r]) <= Len(p)
    <3>1. held[r] \in Texts /\ Beginning(held[r])
      BY <1>1 DEF StreamShape
    <3>2. ASSUME NEW p \in Placeholders, NEW e \in Texts, p = Cat(held[r], e) PROVE Len(held[r]) <= Len(p)
      <4>1. Len(p) = Len(held[r]) + Len(e)
        BY <3>1, <3>2, TextCat
      <4> QED
        BY <3>1, <4>1, TextLen
    <3> QED
      BY <3>1, <3>2 DEF Beginning, Begins
  <2> QED
    BY <1>1, <2>1 DEF StreamShape, StreamTypeOK, Haves
<1>3. fed \in [Blocks -> Texts] /\ clientHas \in Haves /\ held \in [Restorers -> Texts]
  BY <1>1 DEF StreamShape
<1>4. All(fed, "text") = Sent(blockKind, fed) /\ Sent(blockKind, fed) \in Texts
  <2>1. All(fed, "text") = Sent(blockKind, fed)
    BY Zenon DEF All, Sent, Cat
  <2> QED
    BY <1>3, <2>1, SentTyped
<1>5. clientHas[0].text \o clientHas[1].text = Got(clientHas)
  BY Zenon DEF Got, Cat
<1>6. ASSUME Comparable(Sent(blockKind, fed))
      PROVE  Got(clientHas) \o Rest(held[Content]) = Restore(Sent(blockKind, fed), Escaped)
  <2>1. Finished(Sent(blockKind, fed), Cat(Got(clientHas), Rest(held[Content])))
    BY <1>1 DEF FinishedPart
  <2>2. Cat(Got(clientHas), Rest(held[Content])) = Restore(Sent(blockKind, fed), Escaped)
    BY <1>4, <1>6, <2>1, FinishedRestores
  <2> QED
    BY <2>2, Zenon DEF Cat
<1>7. ASSUME NEW b \in Blocks, blockKind[b] = "tool", Comparable(fed[b])
      PROVE  clientHas[b].args \o Rest(held[b]) = Restore(fed[b], Escaped)
  <2>1. Finished(fed[b], Cat(clientHas[b].args, Rest(held[b]))) /\ fed[b] \in Texts
    BY <1>1, <1>3, <1>7 DEF FinishedPart
  <2>2. Cat(clientHas[b].args, Rest(held[b])) = Restore(fed[b], Escaped)
    BY <1>7, <2>1, FinishedRestores
  <2> QED
    BY <2>2, Zenon DEF Cat
<1>8. ended \in {"terminator", "eof"} => \A r \in Restorers : held[r] = <<>>
  BY <1>1 DEF ReleasedPart
<1>9. StreamRestored
  <2>0. ASSUME Comparable(Sent(blockKind, fed)), NothingEscaped(Sent(blockKind, fed))
        PROVE  Got(clientHas) \o Rest(held[Content]) = Restore(Sent(blockKind, fed), Original)
    BY <1>4, <1>6, <2>0, RestoreUnescaped
  <2>1. LET sent == All(fed, "text")
            whole == clientHas[0].text \o clientHas[1].text \o Rest(held[Content])
        IN Comparable(sent) =>
               /\ whole = Restore(sent, Escaped)
               /\ NothingEscaped(sent) => whole = Restore(sent, Original)
    BY <1>4, <1>5, <1>6, <2>0, Zenon
  <2>2. \A b \in Blocks : blockKind[b] = "tool" /\ Comparable(fed[b]) =>
           clientHas[b].args \o Rest(held[b]) = Restore(fed[b], Escaped)
    BY <1>7, Zenon
  <2> QED
    BY <1>8, <2>1, <2>2, Zenon DEF StreamRestored
<1> QED
  BY <1>2, <1>9

\* A stream keeps its shape, and a restorer holds no more than a placeholder
\* (longest_prefix_suffix).
THEOREM StreamTypesCorrect == StreamSpec => []StreamTypeOK
  BY StreamInductive, StreamEnough, PTL

\* However a response is cut, interleaved and ended, the client gets the whole with the
\* placeholders replaced that EntityMap::restore replaces, by their originals as JSON
\* escapes them (StreamRestorer under sse_restore.rs), and a text whose originals have
\* nothing to escape as EntityMap::restore makes it, for any placeholders and originals
\* of StreamAssumption.
THEOREM StreamRestoredHolds == StreamSpec => []StreamRestored
  BY StreamInductive, StreamEnough, PTL

=============================================================================
