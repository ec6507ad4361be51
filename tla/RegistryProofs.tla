--------------------------- MODULE RegistryProofs ---------------------------
(***************************************************************************)
(* Proofs about the registry wrapper: every open handle has exactly one    *)
(* owner, for any number of objects and handles, as long as no constructor *)
(* has closed an open key whose value it found in its memory; what a getter *)
(* gives of a value that is written meanwhile; and what an enumeration     *)
(* gives of names that change meanwhile, for any number of names, changes  *)
(* and enumerations.                                                       *)
(***************************************************************************)
EXTENDS Registry, FiniteSetTheorems, SequenceTheorems, TLAPS

(* Every open handle is owned, once, and nothing else is owned, until a    *)
(* constructor closes a key that is not its own.                           *)
OwnedOnce == TypeOK /\ KeysOwned

LEMMA InitOwnership == Init => OwnedOnce
  BY RegKeysConstants
  DEF Init, OwnedOnce, KeysOwned, TypeOK, OwnedIsOpen, OneOwner, NothingLeaks, Owned, Value

(* None of the three parts is kept without the others: a Close closes      *)
(* another owner's key unless OneOwner holds, and a key that is opened has *)
(* a handle without an owner only if OwnedIsOpen holds.                    *)
LEMMA NextOwnership == OwnedOnce /\ [Next]_vars => OwnedOnce'
<1> SUFFICES ASSUME OwnedOnce, [Next]_vars PROVE OwnedOnce'
  OBVIOUS
<1> USE RegKeysConstants
    DEF OwnedOnce, KeysOwned, TypeOK, OwnedIsOpen, OneOwner, NothingLeaks, Owned, Value,
        Wrap, Does, Throws, Ends, Closed, IsValid, IsPredefined, Fresh
<1>1. ASSUME NEW o \in Object, NEW v \in Value, FromHandle(o, v)
      PROVE  OwnedOnce'
  BY <1>1 DEF FromHandle
<1>2. ASSUME NEW o \in Object, NEW p \in Object, FromMove(o, p)
      PROVE  OwnedOnce'
  BY <1>2 DEF FromMove
<1>3. ASSUME NEW o \in Object, NEW old \in Leftover, NEW v \in Handle,
             FromSubKey(o, old, v)
      PROVE  OwnedOnce'
  <2>1. /\ alive' = alive \union {o} /\ m_hKey' = [m_hKey EXCEPT ![o] = v]
        /\ raw' = raw /\ o \in Object \ alive /\ v \in Handle \ open
        /\ open' \subseteq open \union {v}
    BY <1>3 DEF FromSubKey
  <2>2. ~ strayed' => ~ strayed /\ old \notin open \union {v}
    BY <1>3, Zenon DEF FromSubKey
  <2>3. old \notin open \union {v} => open' = open \union {v}
    BY <1>3 DEF FromSubKey
  <2>. QED  BY <2>1, <2>2, <2>3
<1>4. ASSUME NEW o \in Object, NotFromSubKey(o)
      PROVE  OwnedOnce'
  BY <1>4 DEF NotFromSubKey
<1>5. ASSUME NEW o \in Object, Destroy(o)
      PROVE  OwnedOnce'
  BY <1>5 DEF Destroy
<1>6. ASSUME NEW o \in Object, NEW p \in Object, MoveAssign(o, p)
      PROVE  OwnedOnce'
  BY <1>6 DEF MoveAssign
<1>7. ASSUME NEW o \in Object, NEW p \in Object, SwapWith(o, p)
      PROVE  OwnedOnce'
  BY <1>7 DEF SwapWith
<1>8. ASSUME NEW o \in Object, NEW v \in Value, Attach(o, v)
      PROVE  OwnedOnce'
  BY <1>8 DEF Attach
<1>9. ASSUME NEW o \in Object, Close(o)
      PROVE  OwnedOnce'
  BY <1>9 DEF Close
<1>10. ASSUME NEW o \in Object, Detach(o)
       PROVE  OwnedOnce'
  BY <1>10 DEF Detach
<1>11. ASSUME NEW o \in Object, NEW v \in Handle, Create(o, v)
       PROVE  OwnedOnce'
  BY <1>11 DEF Create
<1>12. ASSUME NEW o \in Object, NEW v \in Handle, ConnectRegistry(o, v)
       PROVE  OwnedOnce'
  BY <1>12 DEF ConnectRegistry
<1>13. ASSUME NEW o \in Object, CreateFails(o)
       PROVE  OwnedOnce'
  BY <1>13 DEF CreateFails
<1>14. ASSUME NEW o \in Object, ConnectFails(o)
       PROVE  OwnedOnce'
  BY <1>14 DEF ConnectFails
<1>15. ASSUME NEW o \in Object, LoadKey(o)
       PROVE  OwnedOnce'
  BY <1>15 DEF LoadKey
<1>16. ASSUME NEW v \in Handle, OpenRaw(v)
       PROVE  OwnedOnce'
  BY <1>16 DEF OpenRaw
<1>17. ASSUME NEW v \in Handle, CloseRaw(v)
       PROVE  OwnedOnce'
  BY <1>17 DEF CloseRaw
<1>18. CASE UNCHANGED vars
  BY <1>18 DEF vars
<1> QED
  BY <1>1, <1>2, <1>3, <1>4, <1>5, <1>6, <1>7, <1>8, <1>9, <1>10, <1>11, <1>12,
     <1>13, <1>14, <1>15, <1>16, <1>17, <1>18
  DEF Next, Construction, Ownership, System

(* However objects are constructed, moved, swapped, attached, detached and *)
(* fail, and whatever is in the memory they are constructed in: until a    *)
(* constructor closes an open key that it found there, no handle is closed *)
(* behind its owner's back, none is owned and so closed twice, and none is *)
(* left open without an owner (WinReg.hpp:356-489, 536-572).               *)
THEOREM KeysOwnedOnce == Spec => []KeysOwned
<1>1. OwnedOnce /\ [Next]_vars => OwnedOnce'
  BY NextOwnership
<1>2. OwnedOnce => KeysOwned
  BY DEF OwnedOnce
<1>. QED
  BY InitOwnership, <1>1, <1>2, PTL DEF Spec

----------------------------------------------------------------------------
(* Enumerations.                                                           *)

Distinct(s) == \A i, j \in DOMAIN s : s[i] = s[j] => i = j

NamesType ==
  /\ names \in Seq(Name) /\ Distinct(names)
  /\ before \in Seq(Name) /\ Distinct(before)
  /\ list \in Seq(Name)
  /\ pc \in {"idle", "enum"}
  /\ index \in Nat /\ count \in Nat
  /\ pc = "enum" => /\ enumOutcome = "none"
                    /\ count = Len(before) /\ index <= count
                    /\ Len(list) = index

(* While nothing is added: all is listed, or nothing is gone and the list  *)
(* is what comes first, or fewer names are left than were counted, and the *)
(* count is not reached.                                                   *)
Missing ==
  pc = "enum" /\ "add" \notin edits =>
    \/ index = count /\ list = before
    \/ names = before /\ \A i \in 1 .. index : list[i] = before[i]
    \/ Len(names) < count /\ index < count

(* The places e at which the names there were before are now.              *)
Places(e) ==
  /\ e \in [DOMAIN before -> DOMAIN names]
  /\ \A j \in DOMAIN before : names[e[j]] = before[j]
  /\ \A j, l \in DOMAIN before : j < l => e[j] < e[l]

Listed == Enumeration!ToSet(list)

(* The first k of them are listed; the others lie ahead.                   *)
ListedUpTo(e, k) ==
  /\ \A j \in DOMAIN before : before[j] \in Listed <=> j <= k
  /\ \A j \in DOMAIN before : k < j => index < e[j]

(* While nothing is removed the names there were keep their order, and the *)
(* enumeration is past those that are listed and before the others.        *)
Ahead ==
  pc = "enum" /\ "remove" \notin edits =>
    \E e \in [DOMAIN before -> DOMAIN names], k \in 0 .. Len(before) :
      Places(e) /\ ListedUpTo(e, k)

EnumerationInv == NamesType /\ Missing /\ Ahead /\ EnumerationRight


LEMMA InitEnumeration == Enumeration!Init => EnumerationInv
<1>. SUFFICES ASSUME Enumeration!Init PROVE EnumerationInv
  OBVIOUS
<1>1. names \in Seq(Name) /\ Distinct(names)
  <2>1. PICK S \in SUBSET Name : names \in Enumeration!SetToSeqs(S)
    BY DEF Enumeration!Init, Enumeration!SetToAllKPermutations
  <2>2. Cardinality(S) \in Nat
    <3>1. IsFiniteSet(Name)
      BY RegistryConstants
      DEF Enumeration!RegEnumerationConstants, Enumeration!IsFiniteSet, IsFiniteSet
    <3>. QED  BY <2>1, <3>1, FS_Subset, FS_CardinalityType
  <2>3. PICK n \in Nat : n = Enumeration!Cardinality(S)
    BY <2>2 DEF Enumeration!Cardinality, Cardinality
  <2>4. /\ names \in [1 .. n -> S]
        /\ \A i, j \in 1 .. n : i # j => names[i] # names[j]
    BY <2>1, <2>3 DEF Enumeration!SetToSeqs
  <2>. QED  BY <2>1, <2>4 DEF Distinct
<1>. QED
  BY <1>1, EmptySeq
  DEF Enumeration!Init, EnumerationInv, NamesType, Distinct, Missing, Ahead,
      EnumerationRight, Enumeration!EnumerationRight, Enumeration!RemovalsNoticed,
      Enumeration!AdditionsCutTheEnd

(* A name more, in its place or behind its place.                          *)
LEMMA Inserted ==
  ASSUME NEW S, NEW s \in Seq(S), Distinct(s), NEW n \in S, n \notin Enumeration!ToSet(s),
         NEW i \in 1 .. Len(s) + 1
  PROVE  LET t == Enumeration!InsertAt(s, i, n)
         IN  /\ t \in Seq(S) /\ Distinct(t) /\ DOMAIN t = 1 .. Len(s) + 1
             /\ t[i] = n
             /\ \A j \in 1 .. Len(s) : t[IF j < i THEN j ELSE j + 1] = s[j]
<1>. DEFINE t == Enumeration!InsertAt(s, i, n)
            a == SubSeq(s, 1, i - 1)
            b == SubSeq(s, i, Len(s))
<1>1. i \in Nat \ {0} /\ Len(s) \in Nat /\ DOMAIN s = 1 .. Len(s)
  OBVIOUS
<1>2. /\ a \in Seq(S) /\ Len(a) = i - 1
      /\ \A k \in 1 .. i - 1 : a[k] = s[k]
  BY <1>1
<1>3. /\ b \in Seq(S) /\ Len(b) = Len(s) + 1 - i
      /\ \A k \in 1 .. Len(s) + 1 - i : b[k] = s[i + k - 1]
  BY <1>1
<1>4. t = a \o <<n>> \o b
  BY DEF Enumeration!InsertAt
<1>. HIDE DEF a, b, t
<1>5. /\ t \in Seq(S) /\ Len(t) = Len(s) + 1
      /\ \A k \in 1 .. i - 1 : t[k] = a[k]
      /\ t[i] = n
      /\ \A k \in i + 1 .. Len(s) + 1 : t[k] = b[k - i]
  <2>1. <<n>> \in Seq(S) /\ Len(<<n>>) = 1 /\ <<n>>[1] = n
    OBVIOUS
  <2>. DEFINE c == a \o <<n>>
  <2>2. /\ c \in Seq(S) /\ Len(c) = i
        /\ \A k \in 1 .. i : c[k] = IF k <= i - 1 THEN a[k] ELSE n
    BY <1>1, <1>2, <2>1, ConcatProperties
  <2>. HIDE DEF c
  <2>3. Len(c) + Len(b) = Len(s) + 1
    BY <1>1, <1>3, <2>2
  <2>4. /\ c \o b \in Seq(S) /\ Len(c \o b) = Len(c) + Len(b)
        /\ \A k \in 1 .. Len(c) + Len(b) :
             (c \o b)[k] = IF k <= Len(c) THEN c[k] ELSE b[k - Len(c)]
    BY <1>3, <2>2, ConcatProperties
  <2>5. t = c \o b
    BY <1>4 DEF c
  <2>. QED  BY <1>1, <2>2, <2>3, <2>4, <2>5
<1>6. DOMAIN t = 1 .. Len(s) + 1
  BY <1>5
<1>7. /\ \A k \in 1 .. i - 1 : t[k] = s[k]
      /\ \A k \in i + 1 .. Len(s) + 1 : t[k] = s[k - 1]
  BY <1>1, <1>2, <1>3, <1>5
<1>8. \A j \in 1 .. Len(s) : t[IF j < i THEN j ELSE j + 1] = s[j]
  BY <1>1, <1>7
<1>9. Distinct(t)
  <2>1. \A j \in 1 .. Len(s) : s[j] # n
    BY <1>1 DEF Enumeration!ToSet
  <2>2. ASSUME NEW j \in 1 .. Len(s) + 1
        PROVE  \/ j = i
               \/ \E k \in 1 .. Len(s) : t[j] = s[k] /\ j = IF k < i THEN k ELSE k + 1
    <3>1. CASE j < i
      BY <1>1, <1>7, <3>1
    <3>2. CASE j > i
      <4>1. j - 1 \in 1 .. Len(s) /\ t[j] = s[j - 1]
        BY <1>1, <1>7, <3>2
      <4>. QED  BY <1>1, <3>2, <4>1
    <3>. QED  BY <1>1, <3>1, <3>2
  <2>3. ASSUME NEW j \in 1 .. Len(s) + 1, NEW l \in 1 .. Len(s) + 1, t[j] = t[l]
        PROVE  j = l
    <3>1. CASE j = i \/ l = i
      BY <1>5, <2>1, <2>2, <2>3, <3>1
    <3>2. CASE j # i /\ l # i
      <4>1. PICK k \in 1 .. Len(s) : t[j] = s[k] /\ j = IF k < i THEN k ELSE k + 1
        BY <2>2, <3>2
      <4>2. PICK m \in 1 .. Len(s) : t[l] = s[m] /\ l = IF m < i THEN m ELSE m + 1
        BY <2>2, <3>2
      <4>3. k = m
        BY <1>1, <2>3, <4>1, <4>2 DEF Distinct
      <4>. QED  BY <4>1, <4>2, <4>3
    <3>. QED  BY <3>1, <3>2
  <2>. QED  BY <1>6, <2>3 DEF Distinct
<1>. QED  BY <1>5, <1>6, <1>8, <1>9 DEF t

(* A name less.                                                            *)
LEMMA Removed ==
  ASSUME NEW S, NEW s \in Seq(S), Distinct(s), NEW i \in DOMAIN s
  PROVE  LET t == Enumeration!RemoveAt(s, i)
         IN  t \in Seq(S) /\ Distinct(t) /\ Len(t) = Len(s) - 1
<1>. DEFINE t == Enumeration!RemoveAt(s, i)
            a == SubSeq(s, 1, i - 1)
            b == SubSeq(s, i + 1, Len(s))
<1>1. /\ i \in Nat \ {0} /\ Len(s) \in Nat /\ DOMAIN s = 1 .. Len(s)
      /\ i <= Len(s)
  OBVIOUS
<1>2. /\ a \in Seq(S) /\ Len(a) = i - 1
      /\ \A k \in 1 .. i - 1 : a[k] = s[k]
  BY <1>1
<1>3. /\ b \in Seq(S) /\ Len(b) = Len(s) - i
      /\ \A k \in 1 .. Len(s) - i : b[k] = s[i + k]
  BY <1>1
<1>4. t = a \o b
  BY DEF Enumeration!RemoveAt
<1>. HIDE DEF a, b, t
<1>5. /\ t \in Seq(S) /\ Len(t) = Len(s) - 1
      /\ \A k \in 1 .. i - 1 : t[k] = a[k]
      /\ \A k \in i .. Len(s) - 1 : t[k] = b[k - i + 1]
  <2>1. Len(a) + Len(b) = Len(s) - 1
    BY <1>1, <1>2, <1>3
  <2>2. /\ a \o b \in Seq(S) /\ Len(a \o b) = Len(a) + Len(b)
        /\ \A k \in 1 .. Len(a) + Len(b) :
             (a \o b)[k] = IF k <= Len(a) THEN a[k] ELSE b[k - Len(a)]
    BY <1>2, <1>3, ConcatProperties
  <2>3. ASSUME NEW k \in i .. Len(s) - 1 PROVE t[k] = b[k - i + 1]
    <3>1. /\ k \in 1 .. Len(a) + Len(b) /\ ~ (k <= Len(a))
          /\ k - Len(a) = k - i + 1
      BY <1>1, <1>2, <2>1
    <3>. QED  BY <1>4, <2>2, <3>1
  <2>. QED  BY <1>1, <1>2, <1>4, <2>1, <2>2, <2>3, SMTT(30)
<1>6. DOMAIN t = 1 .. Len(s) - 1
  BY <1>5
<1>7. /\ \A k \in 1 .. i - 1 : t[k] = s[k]
      /\ \A k \in i .. Len(s) - 1 : t[k] = s[k + 1]
  <2>1. ASSUME NEW k \in i .. Len(s) - 1 PROVE t[k] = s[k + 1]
    <3>1. k - i + 1 \in 1 .. Len(s) - i /\ i + (k - i + 1) = k + 1
      BY <1>1
    <3>. QED  BY <1>3, <1>5, <3>1
  <2>. QED  BY <1>1, <1>2, <1>5, <2>1
<1>8. Distinct(t)
  <2>1. \A j \in 1 .. Len(s) - 1 : \E k \in 1 .. Len(s) :
          t[j] = s[k] /\ k = IF j < i THEN j ELSE j + 1
    BY <1>1, <1>7
  <2>. QED  BY <1>1, <1>6, <2>1 DEF Distinct
<1>. QED  BY <1>5, <1>8 DEF t


(* Of an enumeration that does not run only what it gave is asked.         *)
LEMMA Resting ==
  ASSUME EnumerationRight, pc' = "idle",
         UNCHANGED <<list, enumOutcome, before, edits>>
  PROVE  Missing' /\ Ahead' /\ EnumerationRight'
<1>1. Missing' /\ Ahead'
  BY DEF Missing, Ahead
<1>2. EnumerationRight'
  BY DEF EnumerationRight, Enumeration!EnumerationRight,
         Enumeration!RemovalsNoticed, Enumeration!AdditionsCutTheEnd
<1>. QED  BY <1>1, <1>2

(* An enumeration that has not returned gives nothing.                     *)
LEMMA NothingGiven ==
  ASSUME enumOutcome' # "returned"
  PROVE  EnumerationRight'
BY DEF EnumerationRight, Enumeration!EnumerationRight, Enumeration!RemovalsNoticed,
       Enumeration!AdditionsCutTheEnd

LEMMA BeginEnumeration ==
  ASSUME EnumerationInv, Enumeration!QueryInfoKey
  PROVE  EnumerationInv'
<1>1. NamesType'
  BY EmptySeq DEF Enumeration!QueryInfoKey, EnumerationInv, NamesType, Distinct
<1>2. Missing'
  BY DEF Enumeration!QueryInfoKey, Missing
<1>3. Ahead'
  <2>. PICK e : e = [j \in DOMAIN names |-> j]
    OBVIOUS
  <2>1. /\ names \in Seq(Name) /\ DOMAIN names = 1 .. Len(names) /\ Len(names) \in Nat
        /\ before' = names /\ names' = names /\ index' = 0 /\ list' = <<>>
    BY DEF Enumeration!QueryInfoKey, EnumerationInv, NamesType
  <2>2. e \in [DOMAIN before' -> DOMAIN names'] /\ 0 \in 0 .. Len(before')
    BY <2>1
  <2>3. Places(e)'
    BY <2>1 DEF Places
  <2>4. ListedUpTo(e, 0)'
    BY <2>1 DEF ListedUpTo, Listed, Enumeration!ToSet
  <2>. QED  BY <2>2, <2>3, <2>4 DEF Ahead
<1>. QED
  BY <1>1, <1>2, <1>3, NothingGiven DEF Enumeration!QueryInfoKey, EnumerationInv

LEMMA EnumerateName ==
  ASSUME EnumerationInv, Enumeration!Enum, Enumeration!Delivered
  PROVE  EnumerationInv'
<1>1. /\ pc = "enum" /\ pc' = "enum" /\ index < count /\ index < Len(names)
      /\ index' = index + 1 /\ list' = Append(list, names[index + 1])
      /\ UNCHANGED <<names, count, enumOutcome, before, edits>>
  BY DEF Enumeration!Enum, Enumeration!Delivered
<1>2. /\ names \in Seq(Name) /\ DOMAIN names = 1 .. Len(names) /\ Len(names) \in Nat
      /\ before \in Seq(Name) /\ DOMAIN before = 1 .. Len(before)
      /\ Len(before) \in Nat /\ list \in Seq(Name)
      /\ index \in Nat /\ count = Len(before) /\ Len(list) = index
      /\ enumOutcome = "none"
  BY <1>1 DEF EnumerationInv, NamesType
<1>3. names[index + 1] \in Name
  BY <1>1, <1>2
<1>4. /\ list' \in Seq(Name) /\ Len(list') = index + 1
      /\ DOMAIN list = 1 .. index /\ DOMAIN list' = 1 .. index + 1
      /\ \A k \in 1 .. index : list'[k] = list[k]
      /\ list'[index + 1] = names[index + 1]
  BY <1>1, <1>2, <1>3
<1>5. NamesType'
  BY <1>1, <1>2, <1>4 DEF EnumerationInv, NamesType, Distinct
<1>6. Missing'
  <2>. SUFFICES ASSUME "add" \notin edits
                PROVE  \/ names = before /\ \A i \in 1 .. index + 1 : list'[i] = before[i]
                       \/ Len(names) < count /\ index + 1 < count
    BY <1>1 DEF Missing
  <2>1. CASE names = before /\ \A i \in 1 .. index : list[i] = before[i]
    BY <1>2, <1>4, <2>1
  <2>2. CASE Len(names) < count /\ index < count
    BY <1>1, <1>2, <2>2
  <2>. QED  BY <1>1, <1>2, <2>1, <2>2 DEF EnumerationInv, Missing
<1>7. Ahead'
  <2>. SUFFICES ASSUME "remove" \notin edits
                PROVE  \E e \in [DOMAIN before -> DOMAIN names],
                          k \in 0 .. Len(before) : Places(e) /\ ListedUpTo(e, k)'
    BY <1>1 DEF Ahead, Places
  <2>1. PICK e \in [DOMAIN before -> DOMAIN names], k \in 0 .. Len(before) :
          Places(e) /\ ListedUpTo(e, k)
    BY <1>1 DEF EnumerationInv, Ahead
  <2>2. Listed' = Listed \cup {names[index + 1]}
    <3>1. \A m \in 1 .. index + 1 : m \in 1 .. index \/ m = index + 1
      BY <1>2
    <3>2. index + 1 \in 1 .. index + 1 /\ 1 .. index \subseteq 1 .. index + 1
      BY <1>2
    <3>. QED  BY <1>4, <3>1, <3>2 DEF Listed, Enumeration!ToSet
  <2>3. CASE \E j \in DOMAIN before : k < j /\ e[j] = index + 1
    <3>1. PICK j \in DOMAIN before : k < j /\ e[j] = index + 1
      BY <2>3
    <3>2. j = k + 1
      <4>. SUFFICES ASSUME j # k + 1 PROVE FALSE
        OBVIOUS
      <4>1. k + 1 \in DOMAIN before /\ k + 1 < j /\ k < k + 1
        BY <1>2, <3>1
      <4>2. e[k + 1] < e[j] /\ index < e[k + 1] /\ e[k + 1] \in Nat
        BY <1>2, <2>1, <3>1, <4>1 DEF Places, ListedUpTo
      <4>. QED  BY <1>2, <3>1, <4>2
    <3>3. names[index + 1] = before[k + 1]
      BY <2>1, <3>1, <3>2 DEF Places
    <3>4. \A l \in DOMAIN before : before[l] \in Listed' <=> l <= k + 1
      <4>1. \A l \in DOMAIN before : before[l] = before[k + 1] <=> l = k + 1
        BY <3>1, <3>2 DEF EnumerationInv, NamesType, Distinct
      <4>. QED  BY <1>2, <2>1, <2>2, <3>3, <4>1 DEF ListedUpTo
    <3>5. ASSUME NEW l \in DOMAIN before, k + 1 < l PROVE index + 1 < e[l]
      BY <2>1, <3>1, <3>2, <3>5 DEF Places
    <3>6. ListedUpTo(e, k + 1)'
      BY <1>1, <3>4, <3>5 DEF ListedUpTo
    <3>7. k + 1 \in 0 .. Len(before)
      BY <1>2, <3>1, <3>2
    <3>. QED  BY <2>1, <3>6, <3>7
  <2>4. CASE ~ \E j \in DOMAIN before : k < j /\ e[j] = index + 1
    <3>1. ASSUME NEW l \in DOMAIN before, before[l] = names[index + 1]
          PROVE  l <= k
      <4>1. e[l] \in DOMAIN names /\ names[e[l]] = names[index + 1]
        BY <2>1, <3>1 DEF Places
      <4>2. e[l] = index + 1
        BY <1>1, <1>2, <4>1 DEF EnumerationInv, NamesType, Distinct
      <4>. QED  BY <1>2, <2>4, <4>2
    <3>2. \A l \in DOMAIN before : before[l] \in Listed' <=> l <= k
      BY <2>1, <2>2, <3>1 DEF ListedUpTo
    <3>3. ASSUME NEW l \in DOMAIN before, k < l PROVE index + 1 < e[l]
      <4>1. e[l] \in Nat /\ index < e[l] /\ e[l] # index + 1
        BY <1>2, <2>1, <2>4, <3>3 DEF ListedUpTo
      <4>. QED  BY <1>2, <4>1
    <3>4. ListedUpTo(e, k)'
      BY <1>1, <3>2, <3>3 DEF ListedUpTo
    <3>. QED  BY <2>1, <3>4
  <2>. QED  BY <2>3, <2>4
<1>. QED
  BY <1>1, <1>2, <1>5, <1>6, <1>7, NothingGiven DEF EnumerationInv

LEMMA EndEnumeration ==
  ASSUME EnumerationInv, Enumeration!EnumDone
  PROVE  EnumerationInv'
<1>1. /\ pc = "enum" /\ count <= index /\ pc' = "idle"
      /\ UNCHANGED <<names, index, count, list, before, edits>>
  BY DEF Enumeration!EnumDone, Enumeration!local, EnumerationInv, NamesType
<1>2. /\ before \in Seq(Name) /\ DOMAIN before = 1 .. Len(before)
      /\ Len(before) \in Nat /\ list \in Seq(Name) /\ DOMAIN list = 1 .. Len(list)
      /\ index \in Nat /\ count = Len(before) /\ Len(list) = index /\ index = count
  BY <1>1 DEF EnumerationInv, NamesType
<1>3. NamesType'
  BY <1>1, <1>2 DEF EnumerationInv, NamesType, Distinct
<1>4. Missing' /\ Ahead'
  BY <1>1 DEF Missing, Ahead
<1>5. "add" \notin edits => list = before
  BY <1>1, <1>2 DEF EnumerationInv, Missing
<1>6. ASSUME "remove" \notin edits
      PROVE  \E k \in 0 .. Len(before) :
               Enumeration!ToSet(list) \intersect Enumeration!ToSet(before)
               = Enumeration!ToSet(SubSeq(before, 1, k))
  <2>1. PICK e \in [DOMAIN before -> DOMAIN names], k \in 0 .. Len(before) :
          Places(e) /\ ListedUpTo(e, k)
    BY <1>1, <1>6 DEF EnumerationInv, Ahead
  <2>2. Enumeration!ToSet(list) \intersect Enumeration!ToSet(before)
        = {before[j] : j \in 1 .. k}
    <3>1. \A j \in DOMAIN before : before[j] \in Listed <=> j \in 1 .. k
      BY <1>2, <2>1 DEF ListedUpTo
    <3>2. 1 .. k \subseteq DOMAIN before
      BY <1>2
    <3>. QED  BY <3>1, <3>2 DEF Listed, Enumeration!ToSet
  <2>3. /\ DOMAIN SubSeq(before, 1, k) = 1 .. k
        /\ \A j \in 1 .. k : SubSeq(before, 1, k)[j] = before[j]
    BY <1>2, <2>1
  <2>4. Enumeration!ToSet(SubSeq(before, 1, k)) = {before[j] : j \in 1 .. k}
    BY <2>3 DEF Enumeration!ToSet
  <2>. QED  BY <2>2, <2>4
<1>7. EnumerationRight'
  BY <1>1, <1>2, <1>5, <1>6
  DEF EnumerationRight, Enumeration!EnumerationRight, Enumeration!RemovalsNoticed,
      Enumeration!AdditionsCutTheEnd
<1>. QED  BY <1>3, <1>4, <1>7 DEF EnumerationInv

LEMMA NameInserted ==
  ASSUME EnumerationInv, NEW n \in Name, NEW i \in 1 .. Len(names) + 1,
         Enumeration!Insert(n, i)
  PROVE  EnumerationInv'
<1>1. /\ names' = Enumeration!InsertAt(names, i, n)
      /\ n \notin Enumeration!ToSet(names)
      /\ UNCHANGED <<pc, count, index, list, enumOutcome, before>>
      /\ edits' = IF pc = "idle" THEN edits ELSE edits \union {"add"}
  BY DEF Enumeration!Insert, Enumeration!Change, Enumeration!local
<1>2. /\ names \in Seq(Name) /\ Distinct(names) /\ i \in Nat
      /\ DOMAIN names = 1 .. Len(names) /\ Len(names) \in Nat
      /\ pc \in {"idle", "enum"}
  BY DEF EnumerationInv, NamesType
<1>3. /\ names' \in Seq(Name) /\ Distinct(names)'
      /\ DOMAIN names' = 1 .. Len(names) + 1
      /\ \A j \in 1 .. Len(names) : names'[IF j < i THEN j ELSE j + 1] = names[j]
  BY <1>1, <1>2, Inserted DEF Distinct
<1>4. NamesType'
  BY <1>1, <1>3 DEF EnumerationInv, NamesType, Distinct
<1>5. CASE pc = "idle"
  BY <1>1, <1>4, <1>5, Resting DEF EnumerationInv
<1>6. CASE pc = "enum"
  <2>1. Missing'
    BY <1>1, <1>6 DEF Missing
  <2>2. EnumerationRight'
    BY <1>1, <1>6, NothingGiven DEF EnumerationInv, NamesType
  <2>3. ASSUME "remove" \notin edits PROVE Ahead'
    <3>1. PICK e \in [DOMAIN before -> DOMAIN names], k \in 0 .. Len(before) :
            Places(e) /\ ListedUpTo(e, k)
      BY <1>6, <2>3 DEF EnumerationInv, Ahead
    <3>. DEFINE at(p) == IF p < i THEN p ELSE p + 1
                f == [j \in DOMAIN before |-> at(e[j])]
    <3>2. \A j \in DOMAIN before : e[j] \in 1 .. Len(names)
      BY <1>2, <3>1
    <3>3. f \in [DOMAIN before -> DOMAIN names']
      BY <1>2, <1>3, <3>2
    <3>4. Places(f)'
      <4>1. \A j \in DOMAIN before : names'[f[j]] = before[j]
        BY <1>3, <3>1, <3>2 DEF Places
      <4>2. ASSUME NEW j \in DOMAIN before, NEW l \in DOMAIN before, j < l
            PROVE  f[j] < f[l]
        <5>1. e[j] < e[l]
          BY <3>1, <4>2 DEF Places
        <5>. QED  BY <1>2, <3>2, <5>1
      <4>. QED  BY <1>1, <3>3, <4>1, <4>2 DEF Places
    <3>5. ListedUpTo(f, k)'
      <4>1. \A j \in DOMAIN before : before[j] \in Listed' <=> j <= k
        BY <1>1, <3>1 DEF ListedUpTo, Listed
      <4>2. ASSUME NEW j \in DOMAIN before, k < j PROVE index < f[j]
        <5>1. index < e[j] /\ index \in Nat
          BY <3>1, <4>2 DEF ListedUpTo, EnumerationInv, NamesType
        <5>. QED  BY <1>2, <3>2, <5>1
      <4>. QED  BY <1>1, <4>1, <4>2 DEF ListedUpTo
    <3>. QED  BY <1>1, <3>3, <3>4, <3>5 DEF Ahead
  <2>4. "remove" \in edits => Ahead'
    BY <1>1 DEF Ahead
  <2>. QED  BY <1>4, <2>1, <2>2, <2>3, <2>4 DEF EnumerationInv
<1>. QED  BY <1>2, <1>5, <1>6

LEMMA NameRemoved ==
  ASSUME EnumerationInv, NEW i \in DOMAIN names, Enumeration!Drop(i)
  PROVE  EnumerationInv'
<1>1. /\ names' = Enumeration!RemoveAt(names, i)
      /\ UNCHANGED <<pc, count, index, list, enumOutcome, before>>
      /\ edits' = IF pc = "idle" THEN edits ELSE edits \union {"remove"}
  BY DEF Enumeration!Drop, Enumeration!Change, Enumeration!local
<1>2. /\ names \in Seq(Name) /\ Distinct(names) /\ Len(names) \in Nat
      /\ pc \in {"idle", "enum"}
  BY DEF EnumerationInv, NamesType
<1>3. names' \in Seq(Name) /\ Distinct(names)' /\ Len(names') = Len(names) - 1
  BY <1>1, <1>2, Removed DEF Distinct
<1>4. NamesType'
  BY <1>1, <1>3 DEF EnumerationInv, NamesType, Distinct
<1>5. CASE pc = "idle"
  BY <1>1, <1>4, <1>5, Resting DEF EnumerationInv
<1>6. CASE pc = "enum"
  <2>1. Ahead'
    BY <1>1, <1>6 DEF Ahead
  <2>2. EnumerationRight'
    BY <1>1, <1>6, NothingGiven DEF EnumerationInv, NamesType
  <2>3. /\ before \in Seq(Name) /\ list \in Seq(Name) /\ Len(list) = index
        /\ count = Len(before) /\ index <= count /\ index \in Nat
        /\ Len(before) \in Nat
        /\ DOMAIN before = 1 .. Len(before) /\ DOMAIN list = 1 .. Len(list)
    BY <1>6 DEF EnumerationInv, NamesType
  <2>4. ASSUME "add" \notin edits
        PROVE  \/ index = count /\ list = before
               \/ Len(names') < count /\ index < count
    <3>1. CASE names = before /\ \A j \in 1 .. index : list[j] = before[j]
      <4>1. CASE index = count
        BY <2>3, <3>1, <4>1
      <4>2. CASE index # count
        BY <1>2, <1>3, <2>3, <3>1, <4>2
      <4>. QED  BY <4>1, <4>2
    <3>2. CASE Len(names) < count /\ index < count
      BY <1>2, <1>3, <2>3, <3>2
    <3>. QED  BY <1>6, <2>4, <3>1, <3>2 DEF EnumerationInv, Missing
  <2>5. Missing'
    BY <1>1, <2>4 DEF Missing
  <2>. QED  BY <1>4, <2>1, <2>2, <2>5 DEF EnumerationInv
<1>. QED  BY <1>2, <1>5, <1>6

LEMMA StepEnumeration ==
  EnumerationInv /\ [Enumeration!Next]_enumerationVars => EnumerationInv'
<1>. SUFFICES ASSUME EnumerationInv, [Enumeration!Next]_enumerationVars
              PROVE  EnumerationInv'
  OBVIOUS
<1>1. ASSUME Enumeration!Enum, ~ Enumeration!Delivered PROVE EnumerationInv'
  <2>1. /\ pc' = "idle" /\ enumOutcome' = "thrown"
        /\ UNCHANGED <<names, count, index, list, before, edits>>
    BY <1>1 DEF Enumeration!Enum
  <2>2. NamesType' /\ Missing' /\ Ahead'
    BY <2>1 DEF EnumerationInv, NamesType, Distinct, Missing, Ahead
  <2>. QED  BY <2>1, <2>2, NothingGiven DEF EnumerationInv
<1>2. CASE UNCHANGED enumerationVars
  <2>1. NamesType' /\ Missing'
    BY <1>2 DEF enumerationVars, EnumerationInv, NamesType, Distinct, Missing
  <2>2. Ahead'
    BY <1>2
    DEF enumerationVars, EnumerationInv, Ahead, Places, ListedUpTo, Listed
  <2>3. EnumerationRight'
    BY <1>2
    DEF enumerationVars, EnumerationInv, EnumerationRight,
        Enumeration!EnumerationRight, Enumeration!RemovalsNoticed,
        Enumeration!AdditionsCutTheEnd
  <2>. QED  BY <2>1, <2>2, <2>3 DEF EnumerationInv
<1>. QED
  BY <1>1, <1>2, BeginEnumeration, EnumerateName, EndEnumeration, NameInserted,
     NameRemoved
  DEF Enumeration!Next

(* An enumeration that returns lists what there was if nothing was added   *)
(* meanwhile, and a beginning of it and all that is new if nothing was     *)
(* removed, however many names are added and removed and wherever          *)
(* (WinReg.hpp:1153-1179, 1228-1257).                                      *)
THEOREM EnumerationsRight == Enumeration!Spec => []EnumerationRight
<1>1. Enumeration!Spec =>
        Enumeration!Init /\ [][Enumeration!Next]_enumerationVars
  BY DEF Enumeration!Spec, Enumeration!vars, Enumeration!local, enumerationVars
<1>2. EnumerationInv => EnumerationRight
  BY DEF EnumerationInv
<1>. QED  BY <1>1, <1>2, InitEnumeration, StepEnumeration, PTL

----------------------------------------------------------------------------
(* Multi-strings.                                                          *)

LEMMA Smallest ==
  ASSUME NEW T, T \subseteq Nat, T # {}
  PROVE  \E x \in T : \A y \in T : x <= y
<1>1. PICK x \in T : \A y \in T : ~ (<<y, x>> \in OpToRel(<, Nat))
  BY NatLessThanWellFounded, WFMin, Zenon
<1>2. \A y \in T : <<y, x>> \in Nat \X Nat /\ ~ (y < x)
  BY <1>1 DEF OpToRel
<1>3. ASSUME NEW y \in T PROVE x <= y
  <2>1. x \in Nat /\ y \in Nat /\ ~ (y < x)
    BY <1>2
  <2>. QED  BY <2>1
<1>. QED  BY <1>3

(* What a function is defined to be on 1 .. n, value by value, some        *)
(* function is: g[i] is what the first i of the sequences ss make          *)
(* together, f[k] where string k of data begins.                           *)
Joined(g, ss, n) ==
  g = [i \in 1 .. n |-> IF i = 1 THEN ss[i] ELSE g[i - 1] \o ss[i]]
Begins(f, data, n) ==
  f = [k \in 1 .. n |-> IF k = 1 THEN 1 ELSE Values!EndOfString(data, f[k - 1]) + 1]

LEMMA JoinsExist ==
  ASSUME NEW ss, NEW n \in Nat
  PROVE  \E g : Joined(g, ss, n)
<1>. DEFINE S == {m \in Nat : ~ \E g : Joined(g, ss, m)}
<1>. SUFFICES ASSUME S # {} PROVE FALSE
  OBVIOUS
<1>1. PICK k \in S : \A j \in S : k <= j
  <2>1. S \subseteq Nat
    OBVIOUS
  <2>. QED  BY <2>1, Smallest
<1>2. k # 0
  <2>. SUFFICES ASSUME k = 0 PROVE FALSE
    OBVIOUS
  <2>1. Joined([i \in 1 .. 0 |-> 0], ss, 0)
    BY DEF Joined
  <2>. QED  BY <2>1
<1>3. k \in Nat /\ k - 1 \in Nat
  BY <1>2
<1>4. k - 1 \notin S
  <2>. SUFFICES ASSUME k - 1 \in S PROVE FALSE
    OBVIOUS
  <2>. HIDE DEF S
  <2>1. k <= k - 1
    BY <1>1
  <2>. QED  BY <1>3, <2>1
<1>5. PICK g : Joined(g, ss, k - 1)
  BY <1>3, <1>4
<1>. DEFINE h == [i \in 1 .. k |-> IF i # k THEN g[i]
                                   ELSE IF k = 1 THEN ss[k] ELSE g[k - 1] \o ss[k]]
<1>6. ASSUME NEW i \in 1 .. k
      PROVE  h[i] = IF i = 1 THEN ss[i] ELSE h[i - 1] \o ss[i]
  <2>1. CASE i = k
    <3>1. k # 1 => h[k - 1] = g[k - 1]
      BY <1>3
    <3>. QED  BY <2>1, <3>1
  <2>2. CASE i # k
    <3>1. i \in 1 .. k - 1 /\ h[i] = g[i] /\ (i # 1 => h[i - 1] = g[i - 1])
      BY <1>3, <2>2
    <3>2. g[i] = IF i = 1 THEN ss[i] ELSE g[i - 1] \o ss[i]
      BY <1>5, <3>1 DEF Joined
    <3>. QED  BY <3>1, <3>2
  <2>. QED  BY <2>1, <2>2
<1>7. h = [i \in 1 .. k |-> h[i]]
  OBVIOUS
<1>. HIDE DEF h
<1>8. Joined(h, ss, k)
  BY <1>6, <1>7 DEF Joined
<1>. QED  BY <1>1, <1>8

LEMMA BeginsExist ==
  ASSUME NEW data, NEW n \in Nat
  PROVE  \E f : Begins(f, data, n)
<1>. DEFINE S == {m \in Nat : ~ \E f : Begins(f, data, m)}
            After(p) == Values!EndOfString(data, p) + 1
<1>. SUFFICES ASSUME S # {} PROVE FALSE
  OBVIOUS
<1>1. PICK k \in S : \A j \in S : k <= j
  <2>1. S \subseteq Nat
    OBVIOUS
  <2>. QED  BY <2>1, Smallest
<1>2. k # 0
  <2>. SUFFICES ASSUME k = 0 PROVE FALSE
    OBVIOUS
  <2>1. Begins([i \in 1 .. 0 |-> 0], data, 0)
    BY DEF Begins
  <2>. QED  BY <2>1
<1>3. k \in Nat /\ k - 1 \in Nat
  BY <1>2
<1>4. k - 1 \notin S
  <2>. SUFFICES ASSUME k - 1 \in S PROVE FALSE
    OBVIOUS
  <2>. HIDE DEF S
  <2>1. k <= k - 1
    BY <1>1
  <2>. QED  BY <1>3, <2>1
<1>5. PICK f : Begins(f, data, k - 1)
  BY <1>3, <1>4
<1>. DEFINE h == [i \in 1 .. k |-> IF i # k THEN f[i]
                                   ELSE IF k = 1 THEN 1 ELSE After(f[k - 1])]
<1>6. ASSUME NEW i \in 1 .. k
      PROVE  h[i] = IF i = 1 THEN 1 ELSE After(h[i - 1])
  <2>1. CASE i = k
    <3>1. k # 1 => h[k - 1] = f[k - 1]
      BY <1>3
    <3>. QED  BY <2>1, <3>1
  <2>2. CASE i # k
    <3>1. i \in 1 .. k - 1 /\ h[i] = f[i] /\ (i # 1 => h[i - 1] = f[i - 1])
      BY <1>3, <2>2
    <3>2. f[i] = IF i = 1 THEN 1 ELSE After(f[i - 1])
      BY <1>5, <3>1 DEF Begins
    <3>. QED  BY <3>1, <3>2
  <2>. QED  BY <2>1, <2>2
<1>7. h = [i \in 1 .. k |-> h[i]]
  OBVIOUS
<1>. HIDE DEF h
<1>8. Begins(h, data, k)
  BY <1>6, <1>7 DEF Begins
<1>. QED  BY <1>1, <1>8

(* List is a row of strings of the registry, and g what they make together *)
(* with their terminators.                                                 *)
Texts(texts, g) ==
  /\ texts \in Seq(Seq(Nat)) /\ texts # <<>>
  /\ \A k \in 1 .. Len(texts) : \A i \in 1 .. Len(texts[k]) : texts[k][i] # 0
  /\ Joined(g, [k \in DOMAIN texts |-> Values!Terminated(texts[k])], Len(texts))

(* What is in front of string k.                                           *)
Front(g, k) == IF k = 1 THEN 0 ELSE Len(g[k - 1])

(* The first m strings of a texts are in s, each where the one before ends. *)
LaidOut(s, texts, g, m) ==
  \A k \in 1 .. m :
    /\ \A i \in 1 .. Len(texts[k]) : s[Front(g, k) + i] = texts[k][i]
    /\ s[Front(g, k) + Len(texts[k]) + 1] = 0
    /\ Front(g, k) \in Nat
    /\ Front(g, k + 1) = Front(g, k) + Len(texts[k]) + 1
    /\ Front(g, k + 1) <= Len(s)

LEMMA TailOfJoined ==
  ASSUME NEW r \in Seq(Nat), NEW t \in Seq(Nat), NEW x, x = Len(r),
         NEW q \in Nat, Len(t) = q
  PROVE  /\ x \in Nat /\ r \o t \in Seq(Nat) /\ Len(r \o t) = x + q
         /\ \A i \in 1 .. q : (r \o t)[x + i] = t[i]
<1>1. /\ r \o t \in Seq(Nat) /\ Len(r \o t) = Len(r) + Len(t)
      /\ \A p \in 1 .. Len(r) + Len(t) :
           (r \o t)[p] = IF p <= Len(r) THEN r[p] ELSE t[p - Len(r)]
  OBVIOUS
<1>2. x \in Nat
  OBVIOUS
<1>3. ASSUME NEW i \in 1 .. q PROVE (r \o t)[x + i] = t[i]
  <2>1. x + i \in 1 .. x + q /\ ~ (x + i <= x) /\ x + i - x = i
    BY <1>2
  <2>. QED  BY <1>1, <1>2, <2>1
<1>. QED  BY <1>1, <1>2, <1>3

LEMMA BehindLaidOut ==
  ASSUME NEW texts \in Seq(Seq(Nat)), NEW g, NEW m \in 0 .. Len(texts),
         NEW s \in Seq(Nat), NEW t \in Seq(Nat), LaidOut(s, texts, g, m)
  PROVE  LaidOut(s \o t, texts, g, m)
<1>1. /\ Len(s \o t) = Len(s) + Len(t) /\ Len(s) \in Nat /\ Len(t) \in Nat
      /\ \A n \in 1 .. Len(s) : (s \o t)[n] = s[n]
  OBVIOUS
<1>. SUFFICES ASSUME NEW k \in 1 .. m
     PROVE  /\ \A i \in 1 .. Len(texts[k]) : (s \o t)[Front(g, k) + i] = texts[k][i]
            /\ (s \o t)[Front(g, k) + Len(texts[k]) + 1] = 0
            /\ Front(g, k) \in Nat
            /\ Front(g, k + 1) = Front(g, k) + Len(texts[k]) + 1
            /\ Front(g, k + 1) <= Len(s \o t)
  BY DEF LaidOut
<1>. PICK x : x = Front(g, k)
  OBVIOUS
<1>. PICK y : y = Front(g, k + 1)
  OBVIOUS
<1>. PICK l : l = Len(texts[k])
  OBVIOUS
<1>2. l \in Nat
  <2>1. texts[k] \in Seq(Nat)
    OBVIOUS
  <2>. QED  BY <2>1
<1>3. /\ \A i \in 1 .. l : s[x + i] = texts[k][i]
      /\ s[x + l + 1] = 0
      /\ x \in Nat /\ y = x + l + 1 /\ y <= Len(s)
  BY DEF LaidOut
<1>4. \A i \in 1 .. l : x + i \in 1 .. Len(s)
  BY ONLY <1>1, <1>2, <1>3
<1>5. x + l + 1 \in 1 .. Len(s) /\ y <= Len(s \o t)
  BY ONLY <1>1, <1>2, <1>3
<1>. QED  BY <1>1, <1>3, <1>4, <1>5

LEMMA JoinedLaidOut ==
  ASSUME NEW texts, NEW g, Texts(texts, g), NEW m \in 1 .. Len(texts)
  PROVE  /\ g[m] \in Seq(Nat) /\ LaidOut(g[m], texts, g, m)
         /\ Front(g, m + 1) = Len(g[m])
<1>. DEFINE Right(n) == /\ g[n] \in Seq(Nat) /\ LaidOut(g[n], texts, g, n)
                        /\ Front(g, n + 1) = Len(g[n])
            S == {n \in 1 .. Len(texts) : ~ Right(n)}
<1>. SUFFICES ASSUME S # {} PROVE FALSE
  OBVIOUS
<1>. HIDE DEF Right
<1>1. PICK k \in S : \A j \in S : k <= j
  <2>1. S \subseteq Nat
    OBVIOUS
  <2>. QED  BY <2>1, Smallest
<1>2. /\ k \in 1 .. Len(texts) /\ ~ Right(k) /\ k \in Nat /\ k >= 1
      /\ texts \in Seq(Seq(Nat)) /\ DOMAIN texts = 1 .. Len(texts)
      /\ Len(texts) \in Nat
  BY <1>1 DEF Texts
<1>. PICK t : t = Values!Terminated(texts[k])
  OBVIOUS
<1>. PICK l : l = Len(texts[k])
  OBVIOUS
<1>3. /\ texts[k] \in Seq(Nat) /\ l \in Nat
      /\ t \in Seq(Nat) /\ Len(t) = l + 1 /\ t[l + 1] = 0
      /\ \A i \in 1 .. l : t[i] = texts[k][i]
  <2>1. texts[k] \in Seq(Nat)
    BY <1>2
  <2>. QED  BY <2>1 DEF Values!Terminated, Values!NUL
<1>4. g[k] = IF k = 1 THEN t ELSE g[k - 1] \o t
  <2>. PICK ss : ss = [i \in DOMAIN texts |-> Values!Terminated(texts[i])]
    OBVIOUS
  <2>1. g = [i \in 1 .. Len(texts) |-> IF i = 1 THEN ss[i] ELSE g[i - 1] \o ss[i]]
    BY DEF Texts, Joined
  <2>2. ss[k] = t
    BY <1>2
  <2>. QED  BY <1>2, <2>1, <2>2
<1>5. Front(g, k + 1) = Len(g[k])
  BY <1>2 DEF Front
<1>. PICK x : x = Front(g, k)
  OBVIOUS
<1>6. ASSUME x \in Nat, g[k] \in Seq(Nat), Len(g[k]) = x + l + 1,
             \A i \in 1 .. l + 1 : g[k][x + i] = t[i],
             LaidOut(g[k], texts, g, k - 1)
      PROVE  FALSE
  <2>1. /\ \A i \in 1 .. l : g[k][x + i] = texts[k][i]
        /\ g[k][x + l + 1] = 0
    <3>1. \A i \in 1 .. l : i \in 1 .. l + 1
      BY <1>3
    <3>2. l + 1 \in 1 .. l + 1 /\ x + (l + 1) = x + l + 1
      <4>1. x \in Nat /\ l \in Nat
        BY <1>3, <1>6
      <4>. QED  BY ONLY <4>1
    <3>3. \A i \in 1 .. l : g[k][x + i] = t[i]
      BY ONLY <1>6, <3>1
    <3>4. g[k][x + (l + 1)] = t[l + 1]
      BY ONLY <1>6, <3>2
    <3>. QED  BY ONLY <1>3, <3>2, <3>3, <3>4
  <2>2. Front(g, k + 1) = x + l + 1 /\ Front(g, k + 1) <= Len(g[k])
    BY <1>3, <1>5, <1>6
  <2>3. LaidOut(g[k], texts, g, k)
    <3>. SUFFICES ASSUME NEW j \in 1 .. k
         PROVE  /\ \A i \in 1 .. Len(texts[j]) : g[k][Front(g, j) + i] = texts[j][i]
                /\ g[k][Front(g, j) + Len(texts[j]) + 1] = 0
                /\ Front(g, j) \in Nat
                /\ Front(g, j + 1) = Front(g, j) + Len(texts[j]) + 1
                /\ Front(g, j + 1) <= Len(g[k])
      BY DEF LaidOut
    <3>1. CASE j = k
      BY <1>6, <2>1, <2>2, <3>1
    <3>2. CASE j # k
      <4>1. j \in 1 .. k - 1
        BY <1>2, <3>2
      <4>. QED  BY <1>6, <4>1 DEF LaidOut
    <3>. QED  BY <3>1, <3>2
  <2>. QED  BY <1>2, <1>5, <1>6, <2>3 DEF Right
<1>7. CASE k = 1
  <2>1. x = 0 /\ g[k] = t
    BY <1>4, <1>7 DEF Front
  <2>2. \A i \in 1 .. l + 1 : g[k][x + i] = t[i]
    <3>1. \A i \in 1 .. l + 1 : 0 + i = i
      BY <1>3
    <3>. QED  BY <2>1, <3>1
  <2>3. LaidOut(g[k], texts, g, k - 1)
    <3>1. 1 .. k - 1 = {}
      BY <1>7
    <3>. QED  BY <3>1 DEF LaidOut
  <2>4. Len(g[k]) = x + l + 1
    BY <1>3, <2>1
  <2>. QED  BY <1>3, <1>6, <2>1, <2>2, <2>3, <2>4
<1>8. CASE k # 1
  <2>. PICK n : n = k - 1
    OBVIOUS
  <2>1. /\ n \in 1 .. Len(texts) /\ ~ (k <= n) /\ n + 1 = k
        /\ n \in 0 .. Len(texts)
    BY <1>2, <1>8
  <2>2. Right(n)
    <3>1. n \notin S
      BY <1>1, <2>1
    <3>. QED  BY <2>1, <3>1
  <2>3. g[n] \in Seq(Nat) /\ LaidOut(g[n], texts, g, n) /\ Len(g[n]) = x
    BY <2>1, <2>2 DEF Right
  <2>4. g[k] = g[n] \o t
    BY <1>4, <1>8
  <2>5. LaidOut(g[k], texts, g, n)
    BY ONLY <1>2, <1>3, <2>1, <2>3, <2>4, BehindLaidOut
  <2>6. /\ x \in Nat /\ g[k] \in Seq(Nat) /\ Len(g[k]) = x + (l + 1)
        /\ \A i \in 1 .. l + 1 : g[k][x + i] = t[i]
    <3>. PICK r : r = g[n]
      OBVIOUS
    <3>1. r \in Seq(Nat) /\ Len(r) = x /\ t \in Seq(Nat) /\ Len(t) = l + 1 /\ l + 1 \in Nat
      BY <1>3, <2>3
    <3>2. /\ x \in Nat /\ r \o t \in Seq(Nat) /\ Len(r \o t) = x + (l + 1)
          /\ \A i \in 1 .. l + 1 : (r \o t)[x + i] = t[i]
      BY ONLY <3>1, TailOfJoined
    <3>3. g[k] = r \o t
      BY <2>4
    <3>. QED  BY ONLY <3>2, <3>3
  <2>7. x + (l + 1) = x + l + 1
    BY <1>3, <2>6
  <2>. QED  BY <1>6, <2>5, <2>6, <2>7
<1>. QED  BY <1>7, <1>8

LEMMA FlattenJoined ==
  ASSUME NEW ss, Len(ss) \in Nat \ {0}
  PROVE  \E g : Joined(g, ss, Len(ss)) /\ Values!FlattenSeq(ss) = g[Len(ss)]
<1>. DEFINE n == Len(ss)
            F == CHOOSE g : g = [i \in 1 .. n |->
                                  IF i = 1 THEN ss[i] ELSE g[i - 1] \o ss[i]]
<1>1. \E g : g = [i \in 1 .. n |-> IF i = 1 THEN ss[i] ELSE g[i - 1] \o ss[i]]
  BY JoinsExist DEF Joined
<1>2. F = [i \in 1 .. n |-> IF i = 1 THEN ss[i] ELSE F[i - 1] \o ss[i]]
  BY <1>1, Zenon
<1>3. Values!FlattenSeq(ss) = F[n]
  BY DEF Values!FlattenSeq
<1>. HIDE DEF F
<1>. QED  BY <1>2, <1>3 DEF Joined

(* The registry's form of a row of strings.                                *)
LEMMA Built ==
  ASSUME NEW texts \in Seq(Seq(Nat)), texts # <<>>,
         \A k \in 1 .. Len(texts) : \A i \in 1 .. Len(texts[k]) : texts[k][i] # 0
  PROVE  \E g, s : /\ Values!BuildMultiString(texts) = Append(s, 0)
                   /\ s \in Seq(Nat) /\ LaidOut(s, texts, g, Len(texts))
                   /\ Front(g, Len(texts) + 1) = Len(s)
<1>. PICK ss : ss = [k \in DOMAIN texts |-> Values!Terminated(texts[k])]
  OBVIOUS
<1>1. Len(texts) \in Nat \ {0} /\ DOMAIN texts = 1 .. Len(texts) /\ Len(ss) = Len(texts)
  OBVIOUS
<1>2. PICK g : Joined(g, ss, Len(texts)) /\ Values!FlattenSeq(ss) = g[Len(texts)]
  BY <1>1, FlattenJoined
<1>3. Texts(texts, g)
  BY <1>2 DEF Texts
<1>4. /\ g[Len(texts)] \in Seq(Nat) /\ LaidOut(g[Len(texts)], texts, g, Len(texts))
      /\ Front(g, Len(texts) + 1) = Len(g[Len(texts)])
  <2>1. Len(texts) \in 1 .. Len(texts)
    BY <1>1
  <2>. QED  BY <1>3, <2>1, JoinedLaidOut
<1>5. Values!BuildMultiString(texts) = Append(g[Len(texts)], 0)
  BY <1>2 DEF Values!BuildMultiString, Values!NUL
<1>. QED  BY <1>4, <1>5

(* A string ends at its terminator.                                        *)
LEMMA EndIs ==
  ASSUME NEW data \in Seq(Nat), NEW p \in Nat, NEW e \in p .. Len(data),
         data[e] = 0, \A j \in p .. e - 1 : data[j] # 0
  PROVE  Values!EndOfString(data, p) = e
<1>. DEFINE Is(i) == data[i] = 0 /\ \A j \in p .. i - 1 : data[j] # 0
<1>1. Len(data) \in Nat
  OBVIOUS
<1>2. ASSUME NEW i \in p .. Len(data), Is(i) PROVE i = e
  <2>1. ~ (i < e)
    BY <1>1, <1>2
  <2>2. ~ (e < i)
    BY <1>1, <1>2
  <2>. QED  BY <1>1, <2>1, <2>2
<1>3. \E i \in p .. Len(data) : Is(i)
  OBVIOUS
<1>4. Values!EndOfString(data, p) = CHOOSE i \in p .. Len(data) : Is(i)
  BY DEF Values!EndOfString, Values!NUL
<1>5. /\ (CHOOSE i \in p .. Len(data) : Is(i)) \in p .. Len(data)
      /\ Is(CHOOSE i \in p .. Len(data) : Is(i))
  <2>. HIDE DEF Is
  <2>. QED  BY <1>3, Zenon
<1>. QED  BY <1>2, <1>4, <1>5

(* A row of strings with a NUL behind it.                                  *)
InForm(data, texts, g) ==
  /\ data \in Seq(Nat) /\ texts \in Seq(Seq(Nat))
  /\ \A k \in 1 .. Len(texts) : \A i \in 1 .. Len(texts[k]) : texts[k][i] # 0
  /\ LaidOut(data, texts, g, Len(texts))
  /\ Front(g, Len(texts) + 1) + 1 <= Len(data)
  /\ data[Front(g, Len(texts) + 1) + 1] = 0

(* String k begins in front of the place that is behind the strings before *)
(* it, and what begins behind the last is the NUL.                         *)
LEMMA BeginsBehind ==
  ASSUME NEW data, NEW texts, NEW g, InForm(data, texts, g),
         NEW f, NEW m \in Nat, Begins(f, data, m), Len(texts) < m,
         NEW k \in 1 .. Len(texts) + 1
  PROVE  f[k] = Front(g, k) + 1
<1>. DEFINE S == {n \in 1 .. Len(texts) + 1 : f[n] # Front(g, n) + 1}
<1>. SUFFICES ASSUME S # {} PROVE FALSE
  OBVIOUS
<1>1. Len(texts) \in Nat /\ Len(data) \in Nat
  BY DEF InForm
<1>2. PICK n \in S : \A j \in S : n <= j
  <2>1. S \subseteq Nat
    BY <1>1
  <2>. QED  BY <2>1, Smallest
<1>3. n \in 1 .. Len(texts) + 1 /\ n \in 1 .. m /\ f[n] # Front(g, n) + 1
  BY <1>1, <1>2
<1>4. f[n] = IF n = 1 THEN 1 ELSE Values!EndOfString(data, f[n - 1]) + 1
  BY <1>3 DEF Begins
<1>5. CASE n = 1
  BY <1>3, <1>4, <1>5 DEF Front
<1>6. CASE n # 1
  <2>. PICK i : i = n - 1
    OBVIOUS
  <2>1. i \in 1 .. Len(texts) /\ i \in 1 .. Len(texts) + 1 /\ ~ (n <= i) /\ i + 1 = n
    BY <1>1, <1>3, <1>6
  <2>. PICK x : x = Front(g, i)
    OBVIOUS
  <2>. PICK l : l = Len(texts[i])
    OBVIOUS
  <2>2. f[i] = x + 1
    <3>1. i \notin S
      BY <1>2, <2>1
    <3>. QED  BY <2>1, <3>1
  <2>3. /\ \A j \in 1 .. l : data[x + j] = texts[i][j] /\ texts[i][j] # 0
        /\ data[x + l + 1] = 0 /\ x \in Nat
        /\ Front(g, n) = x + l + 1 /\ Front(g, n) <= Len(data)
    BY <2>1 DEF InForm, LaidOut
  <2>4. l \in Nat
    <3>1. texts[i] \in Seq(Nat)
      BY <2>1 DEF InForm
    <3>. QED  BY <3>1
  <2>5. Values!EndOfString(data, x + 1) = x + l + 1
    <3>. PICK e : e = x + l + 1
      OBVIOUS
    <3>1. x \in Nat /\ l \in Nat /\ Len(data) \in Nat /\ e = x + l + 1 /\ e <= Len(data)
      BY <1>1, <2>3, <2>4
    <3>2. x + 1 \in Nat /\ e \in x + 1 .. Len(data)
      BY ONLY <3>1
    <3>3. ASSUME NEW j \in x + 1 .. e - 1 PROVE data[j] # 0
      <4>1. j - x \in 1 .. l /\ x + (j - x) = j
        BY ONLY <3>1, j \in x + 1 .. e - 1
      <4>2. data[x + (j - x)] = texts[i][j - x] /\ texts[i][j - x] # 0
        BY ONLY <2>3, <4>1
      <4>. QED  BY ONLY <4>1, <4>2
    <3>4. data \in Seq(Nat) /\ data[e] = 0
      BY <2>3 DEF InForm
    <3>5. Values!EndOfString(data, x + 1) = e
      BY ONLY <3>2, <3>3, <3>4, EndIs
    <3>. QED  BY <3>5
  <2>. QED  BY <1>3, <1>4, <1>6, <2>2, <2>3, <2>5
<1>. QED  BY <1>5, <1>6

(* As many strings as begin, as many characters are in front, at least.    *)
LEMMA FrontGrows ==
  ASSUME NEW data, NEW texts, NEW g, InForm(data, texts, g),
         NEW k \in 1 .. Len(texts) + 1
  PROVE  Front(g, k) \in Nat /\ k <= Front(g, k) + 1
<1>. DEFINE Grown(n) == Front(g, n) \in Nat /\ n <= Front(g, n) + 1
            S == {n \in 1 .. Len(texts) + 1 : ~ Grown(n)}
<1>. SUFFICES ASSUME S # {} PROVE FALSE
  OBVIOUS
<1>1. Len(texts) \in Nat
  BY DEF InForm
<1>2. PICK n \in S : \A j \in S : n <= j
  <2>1. S \subseteq Nat
    BY <1>1
  <2>. QED  BY <2>1, Smallest
<1>3. n \in 1 .. Len(texts) + 1 /\ ~ Grown(n)
  BY <1>2
<1>4. CASE n = 1
  BY <1>3, <1>4 DEF Front
<1>5. CASE n # 1
  <2>. PICK i : i = n - 1
    OBVIOUS
  <2>1. i \in 1 .. Len(texts) /\ i \in 1 .. Len(texts) + 1 /\ ~ (n <= i) /\ i + 1 = n
    BY <1>1, <1>3, <1>5
  <2>2. Grown(i)
    <3>1. i \notin S
      BY <1>2, <2>1
    <3>. QED  BY <2>1, <3>1
  <2>3. Front(g, n) = Front(g, i) + Len(texts[i]) + 1
    BY <2>1 DEF InForm, LaidOut
  <2>4. Len(texts[i]) \in Nat
    <3>1. texts[i] \in Seq(Nat)
      BY <2>1 DEF InForm
    <3>. QED  BY <3>1
  <2>. QED  BY <1>3, <2>1, <2>2, <2>3, <2>4
<1>. QED  BY <1>4, <1>5

(* What is parsed is the strings as far as the first empty one.            *)
UpToEmpty(got, texts) ==
  \E e \in 1 .. Len(texts) + 1 :
    /\ got = [k \in 1 .. e - 1 |-> texts[k]]
    /\ \A k \in 1 .. e - 1 : texts[k] # <<>>
    /\ e = Len(texts) + 1 \/ texts[e] = <<>>

LEMMA Slice ==
  ASSUME NEW s \in Seq(Nat), NEW x \in Nat, NEW q \in Nat, x + q <= Len(s),
         NEW t \in Seq(Nat), Len(t) = q, \A j \in 1 .. q : s[x + j] = t[j]
  PROVE  SubSeq(s, x + 1, x + q) = t
<1>. PICK r : r = SubSeq(s, x + 1, x + q)
  OBVIOUS
<1>. PICK a \in Nat : a = x + 1
  OBVIOUS
<1>. PICK b \in Nat : b = x + q
  OBVIOUS
<1>1. \A i \in a .. b : s[i] \in Nat
  OBVIOUS
<1>2. r \in Seq(Nat)
  BY <1>1, SubSeqProperties
<1>3. Len(r) = q
  <2>1. Len(r) = IF a <= b THEN b - a + 1 ELSE 0
    BY <1>1, SubSeqProperties
  <2>. QED  BY <2>1
<1>4. \A j \in 1 .. q : r[j] = t[j]
  <2>1. \A j \in 1 .. b - a + 1 : r[j] = s[a + j - 1]
    BY <1>1, SubSeqProperties
  <2>2. b - a + 1 = q /\ \A j \in 1 .. q : a + j - 1 = x + j
    OBVIOUS
  <2>. QED  BY <2>1, <2>2
<1>. QED  BY <1>2, <1>3, <1>4

LEMMA NextBegins ==
  ASSUME NEW f, NEW data, NEW m \in Nat, Begins(f, data, m),
         NEW k \in Nat, k # 0, k < m
  PROVE  f[k + 1] = Values!EndOfString(data, f[k]) + 1
<1>. PICK n : n = k + 1
  OBVIOUS
<1>1. n \in 1 .. m /\ n # 1 /\ n - 1 = k
  OBVIOUS
<1>2. f[n] = IF n = 1 THEN 1 ELSE Values!EndOfString(data, f[n - 1]) + 1
  BY <1>1 DEF Begins
<1>. QED  BY <1>1, <1>2

LEMMA FormParsed ==
  ASSUME NEW data, NEW texts, NEW g, InForm(data, texts, g)
  PROVE  UpToEmpty(Values!ParsedMultiString(data), texts)
<1>. PICK m : m = Len(data)
  OBVIOUS
<1>. PICK n : n = Len(texts)
  OBVIOUS
<1>1. m \in Nat /\ n \in Nat /\ data \in Seq(Nat) /\ texts \in Seq(Seq(Nat))
  BY DEF InForm
<1>. DEFINE F == CHOOSE f : f = [k \in 1 .. m |->
                    IF k = 1 THEN 1 ELSE Values!EndOfString(data, f[k - 1]) + 1]
<1>2. Begins(F, data, m)
  <2>1. \E f : f = [k \in 1 .. m |->
                    IF k = 1 THEN 1 ELSE Values!EndOfString(data, f[k - 1]) + 1]
    <3>1. \E f : Begins(f, data, m)
      BY <1>1, BeginsExist
    <3>. QED  BY <3>1, Zenon DEF Begins
  <2>2. F = [k \in 1 .. m |->
                IF k = 1 THEN 1 ELSE Values!EndOfString(data, F[k - 1]) + 1]
    BY <2>1, Zenon
  <2>. QED  BY <2>2, Zenon DEF Begins
<1>. DEFINE Stops(k) == /\ data[F[k]] = 0
                        /\ \A j \in 1 .. k - 1 : data[F[j]] # 0
            E == CHOOSE k \in 1 .. m : Stops(k)
<1>3. Values!ParsedMultiString(data) =
        [k \in 1 .. E - 1 |->
           SubSeq(data, F[k], Values!EndOfString(data, F[k]) - 1)]
  BY DEF Values!ParsedMultiString, Values!NUL
<1>. HIDE DEF F, E
<1>4. n < m /\ Front(g, n + 1) + 1 <= m /\ data[Front(g, n + 1) + 1] = 0
  <2>1. Front(g, n + 1) \in Nat /\ n + 1 <= Front(g, n + 1) + 1
    <3>1. n + 1 \in 1 .. Len(texts) + 1
      BY <1>1
    <3>. QED  BY <3>1, FrontGrows
  <2>. QED  BY <1>1, <2>1 DEF InForm
<1>5. \A k \in 1 .. n + 1 : F[k] = Front(g, k) + 1
  BY <1>1, <1>2, <1>4, BeginsBehind
<1>. PICK L : L = [k \in 1 .. n |-> Len(texts[k])]
  OBVIOUS
<1>6. ASSUME NEW k \in 1 .. n
      PROVE  /\ texts[k] \in Seq(Nat) /\ Len(texts[k]) \in Nat /\ k \in DOMAIN texts
             /\ Front(g, k) \in Nat
             /\ data[F[k]] = 0 <=> texts[k] = <<>>
             /\ SubSeq(data, F[k], Values!EndOfString(data, F[k]) - 1) = texts[k]
  <2>. PICK x : x = Front(g, k)
    OBVIOUS
  <2>. PICK t : t = texts[k]
    OBVIOUS
  <2>1. t \in Seq(Nat) /\ Len(t) \in Nat /\ k \in DOMAIN texts
    BY <1>1
  <2>2. F[k] = x + 1 /\ F[k + 1] = Front(g, k + 1) + 1
    BY <1>1, <1>5
  <2>3. /\ \A j \in 1 .. Len(t) : data[x + j] = t[j] /\ t[j] # 0
        /\ data[x + Len(t) + 1] = 0 /\ x \in Nat
        /\ Front(g, k + 1) = x + Len(t) + 1 /\ Front(g, k + 1) <= m
    BY DEF InForm, LaidOut
  <2>4. F[k + 1] = Values!EndOfString(data, F[k]) + 1
    <3>1. k \in Nat /\ k # 0 /\ k < m
      BY <1>1, <1>4
    <3>. QED  BY ONLY <1>1, <1>2, <3>1, NextBegins
  <2>. PICK e : e = Values!EndOfString(data, F[k])
    OBVIOUS
  <2>5. e = x + Len(t) + 1
    <3>. PICK z : z = x + Len(t) + 1
      OBVIOUS
    <3>1. x \in Nat /\ Len(t) \in Nat /\ z = x + Len(t) + 1 /\ z <= m
      BY <2>1, <2>3
    <3>2. ASSUME NEW j \in x + 1 .. z - 1 PROVE data[j] # 0
      <4>1. j - x \in 1 .. Len(t) /\ x + (j - x) = j
        BY ONLY <3>1, j \in x + 1 .. z - 1
      <4>2. data[x + (j - x)] = t[j - x] /\ t[j - x] # 0
        BY ONLY <2>3, <4>1
      <4>. QED  BY ONLY <4>1, <4>2
    <3>3. Values!EndOfString(data, x + 1) = x + Len(t) + 1
      <4>1. x + 1 \in Nat /\ z \in x + 1 .. m
        BY ONLY <1>1, <3>1
      <4>2. data \in Seq(Nat) /\ data[z] = 0 /\ z \in x + 1 .. Len(data)
        BY <1>1, <2>3, <4>1
      <4>3. Values!EndOfString(data, x + 1) = z
        BY ONLY <3>2, <4>1, <4>2, EndIs
      <4>. QED  BY <4>3
    <3>4. F[k] = x + 1
      BY <2>2
    <3>. QED  BY ONLY <3>3, <3>4, e = Values!EndOfString(data, F[k]), Zenon
  <2>6. SubSeq(data, x + 1, e - 1) = t
    <3>. PICK q : q = Len(t)
      OBVIOUS
    <3>1. q \in Nat /\ x \in Nat /\ x + q + 1 <= m
      BY <2>1, <2>3
    <3>2. e = x + q + 1
      BY <2>5
    <3>3. e - 1 = x + q /\ x + q <= m
      BY ONLY <1>1, <3>1, <3>2
    <3>4. /\ data \in Seq(Nat) /\ t \in Seq(Nat) /\ Len(t) = q
          /\ x + q <= Len(data) /\ \A j \in 1 .. q : data[x + j] = t[j]
      BY <1>1, <2>1, <2>3, <3>3
    <3>5. SubSeq(data, x + 1, x + q) = t
      BY ONLY <3>1, <3>4, Slice
    <3>. QED  BY <3>3, <3>5
  <2>7. data[F[k]] = 0 <=> t = <<>>
    <3>1. CASE t = <<>>
      <4>1. x + Len(t) + 1 = x + 1
        BY <2>1, <2>3, <3>1
      <4>. QED  BY <2>2, <2>3, <3>1, <4>1
    <3>2. CASE t # <<>>
      <4>1. 1 \in 1 .. Len(t)
        BY <2>1, <3>2
      <4>2. data[x + 1] = t[1] /\ t[1] # 0
        BY ONLY <2>3, <4>1
      <4>. QED  BY <2>2, <3>2, <4>2
    <3>. QED  BY <3>1, <3>2
  <2>. QED  BY <2>1, <2>2, <2>3, <2>6, <2>7
<1>7. data[F[n + 1]] = 0 /\ n + 1 \in 1 .. m
  <2>1. n + 1 \in 1 .. n + 1
    BY <1>1
  <2>2. n + 1 \in 1 .. m
    BY <1>1, <1>4
  <2>3. F[n + 1] = Front(g, n + 1) + 1
    BY ONLY <1>5, <2>1
  <2>. QED  BY <1>4, <2>2, <2>3
<1>8. E \in 1 .. m /\ Stops(E) /\ E \in 1 .. n + 1
  <2>. DEFINE S == {k \in 1 .. n + 1 : data[F[k]] = 0}
  <2>1. S \subseteq Nat /\ S # {}
    <3>1. n + 1 \in S
      BY <1>1, <1>7
    <3>. QED  BY <3>1
  <2>2. PICK k \in S : \A j \in S : k <= j
    BY <2>1, Smallest
  <2>3. k \in 1 .. m /\ Stops(k)
    <3>1. k \in 1 .. m /\ data[F[k]] = 0
      BY <1>1, <1>4, <2>2
    <3>2. ASSUME NEW j \in 1 .. k - 1 PROVE data[F[j]] # 0
      <4>1. j \in 1 .. n + 1 /\ ~ (k <= j)
        BY <1>1, <2>2
      <4>. QED  BY <2>2, <4>1
    <3>. QED  BY <3>1, <3>2
  <2>4. E \in 1 .. m /\ Stops(E)
    <3>. HIDE DEF Stops
    <3>. QED  BY <2>3, Zenon DEF E
  <2>5. ~ (n + 1 < E)
    <3>. SUFFICES ASSUME n + 1 < E PROVE FALSE
      OBVIOUS
    <3>1. n + 1 \in 1 .. E - 1
      BY <1>1, <2>4
    <3>. QED  BY <1>7, <2>4, <3>1
  <2>. HIDE DEF Stops
  <2>6. n \in Nat /\ E \in 1 .. m /\ ~ (n + 1 < E) /\ m \in Nat
    BY <1>1, <2>4, <2>5
  <2>7. E \in 1 .. n + 1
    BY ONLY <2>6
  <2>. QED  BY ONLY <2>4, <2>7
<1>9. \A k \in 1 .. E - 1 : k \in 1 .. n
  BY <1>1, <1>8
<1>10. Values!ParsedMultiString(data) = [k \in 1 .. E - 1 |-> texts[k]]
  <2>1. \A k \in 1 .. E - 1 :
          SubSeq(data, F[k], Values!EndOfString(data, F[k]) - 1) = texts[k]
    BY ONLY <1>6, <1>9
  <2>. QED  BY ONLY <1>3, <2>1, Zenon
<1>11. \A k \in 1 .. E - 1 : texts[k] # <<>>
  BY <1>6, <1>8, <1>9
<1>12. E = n + 1 \/ texts[E] = <<>>
  <2>1. E \in 1 .. n \/ E = n + 1
    BY <1>1, <1>8
  <2>. QED  BY <1>6, <1>8, <2>1
<1>. QED  BY <1>8, <1>10, <1>11, <1>12 DEF UpToEmpty

(* A list that the program sets is delivered as it is written, and parsed  *)
(* up to its first empty string.                                           *)
LEMMA ListBack ==
  ASSUME NEW texts \in Lists
  PROVE  LET b == Values!BuildMultiString(texts)
         IN /\ b \in Seq(Nat)
            /\ Values!Reported(Values!Value("REG_MULTI_SZ", b)) = b
            /\ UpToEmpty(Values!ParsedMultiString(b), texts)
<1>. PICK b : b = Values!BuildMultiString(texts)
  OBVIOUS
<1>1. /\ texts \in Seq(Seq(Nat))
      /\ \A k \in 1 .. Len(texts) : \A i \in 1 .. Len(texts[k]) : texts[k][i] # 0
  <2>1. texts \in Seq(Strings) /\ Strings \subseteq Seq(Nat)
    BY RegistryConstants DEF Values!RegValuesConstants
  <2>2. \A k \in DOMAIN texts : 0 \notin Values!ToSet(texts[k])
    BY RegistryConstants DEF Values!RegValuesConstants
  <2>3. texts \in Seq(Seq(Nat))
    BY <2>1
  <2>4. ASSUME NEW k \in 1 .. Len(texts), NEW i \in 1 .. Len(texts[k])
        PROVE  texts[k][i] # 0
    <3>1. k \in DOMAIN texts /\ texts[k] \in Seq(Nat)
      BY <2>3
    <3>2. i \in DOMAIN texts[k]
      BY <3>1
    <3>3. texts[k][i] \in Values!ToSet(texts[k])
      BY <3>2 DEF Values!ToSet
    <3>. QED  BY <2>2, <3>1, <3>3
  <2>. QED  BY <2>3, <2>4
<1>2. ASSUME b \in Seq(Nat), NEW m \in Nat, Len(b) = m + 2, b[m + 1] = 0, b[m + 2] = 0,
             NEW g, InForm(b, texts, g)
      PROVE  /\ Values!Reported(Values!Value("REG_MULTI_SZ", b)) = b
             /\ UpToEmpty(Values!ParsedMultiString(b), texts)
  <2>1. \A i \in Len(b) - 2 + 1 .. Len(b) : b[i] = 0
    <3>1. \A i \in Len(b) - 2 + 1 .. Len(b) : i = m + 1 \/ i = m + 2
      BY ONLY Len(b) = m + 2, m \in Nat
    <3>. QED  BY <1>2, <3>1
  <2>2. Len(b) >= 2
    BY <1>2
  <2>3. Values!Reported(Values!Value("REG_MULTI_SZ", b)) = b
    BY <2>1, <2>2 DEF Values!Reported, Values!Value, Values!NUL
  <2>. QED  BY <1>2, <2>3, FormParsed
<1>3. CASE texts = <<>>
  <2>1. b = <<0, 0>>
    BY <1>3 DEF Values!BuildMultiString, Values!NUL
  <2>2. b \in Seq(Nat) /\ Len(b) = 0 + 2 /\ b[0 + 1] = 0 /\ b[0 + 2] = 0
    BY ONLY <2>1
  <2>3. InForm(b, texts, <<>>)
    BY <1>1, <1>3, <2>2 DEF InForm, LaidOut, Front
  <2>. QED  BY <1>2, <2>2, <2>3
<1>4. CASE texts # <<>>
  <2>1. PICK g, s : /\ b = Append(s, 0)
                    /\ s \in Seq(Nat) /\ LaidOut(s, texts, g, Len(texts))
                    /\ Front(g, Len(texts) + 1) = Len(s)
    BY <1>1, <1>4, Built
  <2>. PICK n : n = Len(texts)
    OBVIOUS
  <2>2. n \in Nat /\ n # 0 /\ texts[n] \in Seq(Nat) /\ n \in 1 .. n
    BY <1>1, <1>4
  <2>3. /\ Front(g, n) \in Nat /\ Len(texts[n]) \in Nat
        /\ Len(s) = Front(g, n) + Len(texts[n]) + 1
        /\ s[Front(g, n) + Len(texts[n]) + 1] = 0
    BY <2>1, <2>2 DEF LaidOut
  <2>. PICK m : m = Front(g, n) + Len(texts[n])
    OBVIOUS
  <2>4. m \in Nat /\ Len(s) = m + 1 /\ s[m + 1] = 0
    BY <2>3
  <2>5. /\ b \in Seq(Nat) /\ Len(b) = m + 2 /\ b[m + 1] = 0 /\ b[m + 2] = 0
    BY ONLY <2>1, <2>4
  <2>6. LaidOut(b, texts, g, n)
    <3>1. b = s \o <<0>> /\ <<0>> \in Seq(Nat) /\ n \in 0 .. Len(texts)
      BY <2>1, <2>2
    <3>. QED  BY <1>1, <2>1, <3>1, BehindLaidOut
  <2>7. InForm(b, texts, g)
    <3>1. Front(g, Len(texts) + 1) = m + 1
      BY <2>1, <2>4
    <3>2. m + 1 + 1 = m + 2 /\ m + 2 <= m + 2
      BY ONLY <2>4
    <3>3. /\ Front(g, Len(texts) + 1) + 1 <= Len(b)
          /\ b[Front(g, Len(texts) + 1) + 1] = 0
      BY ONLY <2>5, <3>1, <3>2
    <3>4. LaidOut(b, texts, g, Len(texts))
      BY <2>6
    <3>. QED  BY ONLY <1>1, <2>5, <3>3, <3>4 DEF InForm
  <2>. QED  BY <1>2, <2>4, <2>5, <2>7
<1>. QED  BY <1>3, <1>4

----------------------------------------------------------------------------
(* Values.                                                                 *)

Stored == [type : Values!Type, data : Seq(Nat)]

StringTypes == {"REG_SZ", "REG_EXPAND_SZ"}
Told(v) == Len(Values!Reported(v))
Running == valueCall # Values!Idle

ValuesType ==
  /\ value \in Stored /\ during \subseteq Stored
  /\ set.type \in StringTypes \cup {"REG_BINARY"} => set.data \in Seq(Nat)
  /\ Running => /\ valueCall.type \in Values!Sized
                /\ valueCall.step = "contents"
                /\ result = Values!Nothing

(* What the program has set is what the key holds, strings terminated and  *)
(* lists in the registry's form.                                           *)
SetHeld ==
  /\ set.type \in StringTypes =>
       value = Values!Value(set.type, Values!Terminated(set.data))
  /\ set.type \in Values!Fixed \cup {"REG_BINARY"} => value = set
  /\ set.type = "REG_MULTI_SZ" =>
       /\ set.data \in Lists
       /\ value = Values!Value(set.type, Values!BuildMultiString(set.data))

(* While a getter runs, the size it was told is that of a value of its     *)
(* type during the call, and of the only one if the program set it.        *)
SizeTold ==
  Running =>
    /\ value \in during
    /\ \E v \in during : v.type = valueCall.type /\ size = Told(v)
    /\ set.type \in Values!Sized => during = {value}

ValuesInv == ValuesType /\ SetHeld /\ SizeTold /\ Values!ValuesRight

----------------------------------------------------------------------------

LEMMA ReportedStored ==
  ASSUME NEW v \in Stored
  PROVE  /\ Values!Reported(v) \in Seq(Nat) /\ Told(v) \in Nat
         /\ v.type = "REG_BINARY" => Values!Reported(v) = v.data
         /\ v.type \in StringTypes =>
              /\ Told(v) # 0
              /\ Values!Reported(v)[Told(v)] = 0
<1>1. v.data \in Seq(Nat) /\ Len(v.data) \in Nat
  BY DEF Stored
<1>2. ASSUME NEW s \in Seq(Nat)
      PROVE  /\ Values!Terminated(s) \in Seq(Nat)
             /\ Len(Values!Terminated(s)) = Len(s) + 1
             /\ Values!Terminated(s)[Len(s) + 1] = 0
  BY <1>2 DEF Values!Terminated, Values!NUL
<1>3. /\ Values!Reported(v) \in Seq(Nat)
      /\ v.type = "REG_BINARY" => Values!Reported(v) = v.data
  BY <1>1, <1>2 DEF Values!Reported
<1>4. ASSUME v.type \in StringTypes
      PROVE  Told(v) # 0 /\ Values!Reported(v)[Told(v)] = 0
  <2>. DEFINE ends == /\ Len(v.data) >= 1
                      /\ \A i \in Len(v.data) - 1 + 1 .. Len(v.data) : v.data[i] = 0
  <2>1. Values!Reported(v) = IF ends THEN v.data ELSE Values!Terminated(v.data)
    BY <1>4 DEF Values!Reported, Values!NUL, StringTypes
  <2>2. CASE ends
    <3>1. Len(v.data) \in Len(v.data) - 1 + 1 .. Len(v.data) /\ Len(v.data) # 0
      BY <1>1, <2>2
    <3>2. v.data[Len(v.data)] = 0
      BY <2>2, <3>1
    <3>. QED  BY <2>1, <2>2, <3>1, <3>2 DEF Told
  <2>3. CASE ~ ends
    <3>1. Told(v) = Len(v.data) + 1
      BY <1>1, <1>2, <2>1, <2>3 DEF Told
    <3>2. Values!Reported(v)[Len(v.data) + 1] = 0
      BY <1>1, <1>2, <2>1, <2>3
    <3>. QED  BY <1>1, <3>1, <3>2
  <2>. QED  BY <2>2, <2>3
<1>. QED  BY <1>3, <1>4 DEF Told

(* What was terminated is reported as it is.                               *)
LEMMA TerminatedReported ==
  ASSUME NEW s \in Seq(Nat), NEW t \in StringTypes
  PROVE  Values!Reported(Values!Value(t, Values!Terminated(s))) = Values!Terminated(s)
<1>. PICK d : d = Values!Terminated(s)
  OBVIOUS
<1>1. d \in Seq(Nat) /\ Len(d) = Len(s) + 1 /\ d[Len(s) + 1] = 0 /\ Len(s) \in Nat
  BY DEF Values!Terminated, Values!NUL
<1>2. /\ Len(d) >= 1
      /\ \A i \in Len(d) - 1 + 1 .. Len(d) : d[i] = 0
  BY <1>1
<1>. QED  BY <1>2 DEF Values!Reported, Values!Value, Values!NUL, StringTypes

(* Without its last character, which is NUL, it is what was terminated.    *)
LEMMA ShortenedTerminated ==
  ASSUME NEW s \in Seq(Nat), Len(s) # 0, s[Len(s)] = 0
  PROVE  /\ SubSeq(s, 1, Len(s) - 1) \in Seq(Nat)
         /\ Values!Terminated(SubSeq(s, 1, Len(s) - 1)) = s
<1>. PICK n \in Nat : n = Len(s) - 1
  OBVIOUS
<1>. PICK r : r = SubSeq(s, 1, n)
  OBVIOUS
<1>1. Len(s) = n + 1 /\ \A i \in 1 .. n : s[i] \in Nat
  OBVIOUS
<1>2. r \in Seq(Nat) /\ Len(r) = n /\ \A i \in 1 .. n : r[i] = s[i]
  <2>1. r \in Seq(Nat)
    BY <1>1, SubSeqProperties
  <2>2. Len(r) = n
    BY <1>1
  <2>3. \A i \in 1 .. n : r[i] = s[i]
    BY <1>1
  <2>. QED  BY <2>1, <2>2, <2>3
<1>3. /\ Append(r, 0) \in Seq(Nat) /\ Len(Append(r, 0)) = Len(s)
      /\ \A i \in 1 .. Len(s) : Append(r, 0)[i] = s[i]
  BY <1>1, <1>2
<1>4. Append(r, 0) = s
  BY <1>3
<1>. QED  BY <1>2, <1>4 DEF Values!Terminated, Values!NUL

LEMMA TerminatedShortened ==
  ASSUME NEW s \in Seq(Nat)
  PROVE  SubSeq(Values!Terminated(s), 1, Len(Values!Terminated(s)) - 1) = s
BY DEF Values!Terminated

LEMMA ValueFields ==
  \A t, d : /\ Values!Value(t, d).type = t /\ Values!Value(t, d).data = d
            /\ t \in Values!Type /\ d \in Seq(Nat) => Values!Value(t, d) \in Stored
BY DEF Values!Value, Stored

LEMMA ResultFields ==
  /\ Values!Nothing.how = "none"
  /\ \A t : Values!Thrown(t).how = "thrown" /\ Values!Thrown(t).type = t
  /\ \A t, d : /\ Values!Returned(t, d).how = "value"
               /\ Values!Returned(t, d).type = t /\ Values!Returned(t, d).data = d
BY DEF Values!Nothing, Values!Thrown, Values!Returned, Values!Result

(* A result that is no value of a type and no failed get says nothing.     *)
LEMMA SaysNothing ==
  ASSUME \/ result' = Values!Nothing
         \/ result' = Values!Thrown("none")
  PROVE  Values!ValuesRight'
<1>1. /\ result'.how # "value"
      /\ result'.how = "thrown" => result'.type = "none"
  BY ResultFields
<1>. QED  BY <1>1 DEF Values!ValuesRight, Values!PlainComesBack, Values!ListComesBack, Values!StringOfOneMoment,
     Values!BlobWholeOrPadded, Values!ThrowsForAReason, Values!Got, Values!Sized,
     Values!Fixed

LEMMA AbsentStored ==
  Values!Absent \in Stored /\ Values!Absent.type = "absent"
BY DEF Values!Absent, Values!Value, Stored, Values!Type

(* The program sets a value.                                               *)
LEMMA SetStep ==
  ASSUME ValuesInv, NEW t \in Values!Type, NEW plain, NEW data \in Seq(Nat),
         Values!Sets(t, plain, data),
         \/ t \in StringTypes /\ plain \in Seq(Nat) /\ data = Values!Terminated(plain)
         \/ t = "REG_MULTI_SZ" /\ plain \in Lists /\ data = Values!BuildMultiString(plain)
         \/ t \in Values!Fixed \cup {"REG_BINARY"} /\ data = plain
  PROVE  ValuesInv'
<1>1. /\ valueCall = Values!Idle /\ valueCall' = Values!Idle
      /\ value' = Values!Value(t, data) /\ set' = Values!Value(t, plain)
      /\ result' = Values!Nothing /\ during' = {value, value'}
  BY DEF Values!Sets, Values!Alone, Values!Call
<1>2. /\ value' \in Stored /\ set'.type = t /\ set'.data = plain
  BY <1>1, ValueFields
<1>3. ~ Running'
  BY <1>1 DEF Running
<1>4. ValuesType'
  BY <1>1, <1>2, <1>3 DEF ValuesInv, ValuesType, Values!Fixed, StringTypes
<1>5. SetHeld'
  BY <1>1, <1>2 DEF SetHeld, Values!Fixed, StringTypes
<1>6. Values!ValuesRight'
  BY <1>1, SaysNothing
<1>. QED  BY <1>3, <1>4, <1>5, <1>6 DEF ValuesInv, SizeTold

(* Calls that change nothing or delete the value.                          *)
LEMMA AloneStep ==
  ASSUME ValuesInv,
         \/ Values!Refused \/ Values!DeleteValue
         \/ \E t \in Values!Fixed : Values!GetNumber(t)
  PROVE  ValuesInv'
<1>1. /\ valueCall = Values!Idle /\ valueCall' = Values!Idle
      /\ \/ value' = value /\ set' = set
         \/ value' = Values!Absent /\ set' = Values!Absent
      /\ during' = {value, value'}
  BY DEF Values!Refused, Values!DeleteValue, Values!GetNumber, Values!Alone, Values!Call
<1>2. Values!Absent \in Stored /\ Values!Absent.type = "absent"
  BY AbsentStored
<1>3. ~ Running'
  BY <1>1 DEF Running
<1>4. ValuesType'
  BY <1>1, <1>2, <1>3 DEF ValuesInv, ValuesType, StringTypes
<1>5. SetHeld'
  BY <1>1, <1>2 DEF ValuesInv, SetHeld, Values!Fixed, StringTypes
<1>6. Values!ValuesRight'
  <2>1. CASE result' = Values!Nothing \/ result' = Values!Thrown("none")
    BY <2>1, SaysNothing
  <2>2. ASSUME NEW t \in Values!Fixed, value.type = t, value' = value, set' = set,
               result' = Values!Returned(t, value.data)
        PROVE  Values!ValuesRight'
    <3>1. result'.how = "value" /\ result'.type = t /\ result'.data = value.data
      BY <2>2, ResultFields
    <3>2. set.type = t => set = value
      BY <2>2 DEF ValuesInv, SetHeld
    <3>3. t \notin Values!Sized
      BY DEF Values!Fixed, Values!Sized
    <3>. QED  BY <2>2, <3>1, <3>2, <3>3
         DEF Values!ValuesRight, Values!PlainComesBack, Values!ListComesBack, Values!StringOfOneMoment,
         Values!BlobWholeOrPadded, Values!ThrowsForAReason, Values!Got, Values!Sized
  <2>3. ASSUME NEW t \in Values!Fixed, value.type # t, value' = value,
               result' = Values!Thrown(t)
        PROVE  Values!ValuesRight'
    <3>1. result'.how = "thrown" /\ result'.type = t /\ value \in during'
      BY <1>1, <2>3, ResultFields
    <3>. QED  BY <2>3, <3>1
         DEF Values!ValuesRight, Values!PlainComesBack, Values!ListComesBack, Values!StringOfOneMoment,
         Values!BlobWholeOrPadded, Values!ThrowsForAReason, Values!Got
  <2>. QED  BY <2>1, <2>2, <2>3
       DEF Values!Refused, Values!DeleteValue, Values!GetNumber, Values!Alone
<1>. QED  BY <1>3, <1>4, <1>5, <1>6 DEF ValuesInv, SizeTold

(* A getter asks for the size.                                             *)
LEMMA AskStep ==
  ASSUME ValuesInv, NEW t \in Values!Sized, Values!AskSize(t)
  PROVE  ValuesInv'
<1>1. /\ value' = value /\ set' = set /\ during' = {value}
  BY DEF Values!AskSize
<1>2. value \in Stored
  BY DEF ValuesInv, ValuesType
<1>3. SetHeld'
  BY <1>1 DEF ValuesInv, SetHeld
<1>4. CASE value.type = t
  <2>1. /\ valueCall' = [type |-> t, step |-> "contents"]
        /\ size' = Told(value) /\ result' = Values!Nothing
    BY <1>4 DEF Values!AskSize, Told
  <2>2. ValuesType'
    BY <1>1, <1>2, <2>1 DEF ValuesInv, ValuesType
  <2>3. SizeTold'
    BY <1>1, <1>4, <2>1 DEF SizeTold, Told, Values!Reported
  <2>4. Values!ValuesRight'
    BY <2>1, SaysNothing
  <2>. QED  BY <1>3, <2>2, <2>3, <2>4 DEF ValuesInv
<1>5. CASE value.type # t
  <2>1. valueCall' = Values!Idle /\ result' = Values!Thrown(t)
    BY <1>5 DEF Values!AskSize, Values!Throw
  <2>2. ~ Running'
    BY <2>1 DEF Running
  <2>3. ValuesType'
    BY <1>1, <1>2, <2>2 DEF ValuesInv, ValuesType
  <2>4. Values!ValuesRight'
    <3>1. result'.how = "thrown" /\ result'.type = t
      BY <2>1, ResultFields
    <3>. QED  BY <1>1, <1>5, <3>1
         DEF Values!ValuesRight, Values!PlainComesBack, Values!ListComesBack, Values!StringOfOneMoment,
         Values!BlobWholeOrPadded, Values!ThrowsForAReason, Values!Got
  <2>. QED  BY <1>3, <2>2, <2>3, <2>4 DEF ValuesInv, SizeTold
<1>. QED  BY <1>4, <1>5

(* The other process writes.                                               *)
LEMMA ForeignStep ==
  ASSUME ValuesInv, NEW v \in {Values!Absent} \cup Foreign, Values!Foreigner(v)
  PROVE  ValuesInv'
<1>1. /\ value' = v /\ set' = Values!Absent
      /\ UNCHANGED <<valueCall, size, result>>
      /\ during' = IF valueCall = Values!Idle THEN during ELSE during \cup {v}
  BY DEF Values!Foreigner
<1>2. v \in Stored /\ Values!Absent.type = "absent"
  BY RegistryConstants, AbsentStored DEF Values!RegValuesConstants, Stored
<1>3. ValuesType'
  BY <1>1, <1>2 DEF ValuesInv, ValuesType, Running, StringTypes
<1>4. SetHeld'
  BY <1>1, <1>2 DEF SetHeld, StringTypes, Values!Fixed
<1>5. SizeTold'
  <2>. SUFFICES ASSUME Running PROVE SizeTold'
    BY <1>1 DEF SizeTold, Running
  <2>1. during' = during \cup {v} /\ set'.type \notin Values!Sized
    BY <1>1, <1>2 DEF Running, Values!Sized
  <2>2. PICK w \in during : w.type = valueCall.type /\ size = Told(w)
    BY DEF ValuesInv, SizeTold
  <2>3. w \in during' /\ w.type = valueCall'.type /\ size' = Told(w)'
    BY <1>1, <2>1, <2>2 DEF Told, Values!Reported
  <2>. QED  BY <1>1, <2>1, <2>3 DEF SizeTold
<1>6. Values!ValuesRight'
  <2>1. CASE Running
    <3>1. result' = Values!Nothing
      BY <1>1, <2>1 DEF ValuesInv, ValuesType
    <3>. QED  BY <3>1, SaysNothing
  <2>2. CASE ~ Running
    <3>1. during' = during /\ result' = result /\ set'.type = "absent"
      BY <1>1, <1>2, <2>2 DEF Running
    <3>2. Values!PlainComesBack' /\ Values!ListComesBack'
      BY <3>1 DEF Values!PlainComesBack, Values!ListComesBack, Values!Got, Values!Sized,
         Values!Fixed
    <3>. QED  BY <3>1, <3>2
         DEF ValuesInv, Values!ValuesRight, Values!StringOfOneMoment, Values!Terminated,
         Values!BlobWholeOrPadded, Values!ThrowsForAReason, Values!Got, Values!Reported
  <2>. QED  BY <2>1, <2>2
<1>. QED  BY <1>3, <1>4, <1>5, <1>6 DEF ValuesInv

(* What has to be shown of a value that is returned, by its type.          *)
LEMMA ReturnsTrue ==
  ASSUME NEW t, result'.how = "value", result'.type = t,
         set'.type = t /\ t # "REG_MULTI_SZ" => result'.data = set'.data,
         t \in StringTypes => Values!StringOfOneMoment',
         t = "REG_BINARY" => Values!BlobWholeOrPadded',
         t = "REG_MULTI_SZ" => Values!ListComesBack'
  PROVE  Values!ValuesRight'
<1>1. Values!PlainComesBack'
  BY DEF Values!PlainComesBack
<1>2. t \notin StringTypes => Values!StringOfOneMoment'
  BY DEF Values!StringOfOneMoment, Values!Got, StringTypes
<1>3. t # "REG_BINARY" => Values!BlobWholeOrPadded'
  BY DEF Values!BlobWholeOrPadded, Values!Got
<1>4. Values!ThrowsForAReason'
  BY DEF Values!ThrowsForAReason
<1>5. t # "REG_MULTI_SZ" => Values!ListComesBack'
  BY DEF Values!ListComesBack, Values!Got
<1>. QED  BY <1>1, <1>2, <1>3, <1>4, <1>5 DEF Values!ValuesRight

(* What is got of a list, as the property says it.                         *)
LEMMA PrefixOfList ==
  ASSUME NEW X, NEW texts \in Seq(X), NEW got, UpToEmpty(got, texts)
  PROVE  /\ Values!IsPrefix(got, texts) /\ <<>> \notin Values!ToSet(got)
         /\ Len(got) < Len(texts) => texts[Len(got) + 1] = <<>>
<1>1. PICK e \in 1 .. Len(texts) + 1 :
        /\ got = [k \in 1 .. e - 1 |-> texts[k]]
        /\ \A k \in 1 .. e - 1 : texts[k] # <<>>
        /\ e = Len(texts) + 1 \/ texts[e] = <<>>
  BY DEF UpToEmpty
<1>2. Len(texts) \in Nat /\ e - 1 \in Nat /\ \A k \in 1 .. e - 1 : texts[k] \in X
  OBVIOUS
<1>3. got \in Seq(X) /\ Len(got) = e - 1 /\ DOMAIN got = 1 .. e - 1
  BY <1>1, <1>2
<1>4. Len(got) <= Len(texts) /\ SubSeq(texts, 1, Len(got)) = got
  <2>1. \A k \in 1 .. e - 1 : texts[0 + k] = got[k]
    BY <1>1, <1>2
  <2>. QED  BY <1>1, <1>2, <1>3, <2>1
<1>5. Values!IsPrefix(got, texts)
  <2>1. SubSeq(got, 1, Len(got)) = got
    BY <1>2, <1>3
  <2>. QED  BY <1>4, <2>1 DEF Values!IsPrefix
<1>6. <<>> \notin Values!ToSet(got)
  BY <1>1, <1>3 DEF Values!ToSet
<1>7. Len(got) < Len(texts) => texts[Len(got) + 1] = <<>>
  BY <1>1, <1>2, <1>3
<1>. QED  BY <1>5, <1>6, <1>7

(* A getter that was told a size takes what is there now, if it fits.      *)
LEMMA TakeStep ==
  ASSUME ValuesInv, Values!GetContents
  PROVE  ValuesInv'
<1>. PICK t : t = valueCall.type
  OBVIOUS
<1>1. /\ value' = value /\ set' = set /\ during' = during
      /\ valueCall.step = "contents" /\ valueCall' = Values!Idle
  BY DEF Values!GetContents, Values!Throw
<1>2. Running /\ ~ Running'
  BY <1>1 DEF Running, Values!Idle
<1>3. /\ value \in Stored /\ during \subseteq Stored /\ t \in Values!Sized
      /\ value \in during
      /\ set.type \in Values!Sized => during = {value}
  BY <1>2 DEF ValuesInv, ValuesType, SizeTold
<1>4. PICK w \in during : w.type = t /\ size = Told(w)
  BY <1>2 DEF ValuesInv, SizeTold
<1>5. /\ w \in Stored /\ size \in Nat /\ Told(value) \in Nat
      /\ Values!Reported(value) \in Seq(Nat)
  BY <1>3, <1>4, ReportedStored
<1>6. ValuesType'
  BY <1>1, <1>2 DEF ValuesInv, ValuesType
<1>7. SetHeld'
  BY <1>1 DEF ValuesInv, SetHeld
<1>8. CASE value.type = t /\ Values!Fits
  <2>. PICK d : d = Values!Reported(value)
    OBVIOUS
  <2>1. /\ result' = Values!Returned(t, Values!Contents(t, size, d))
        /\ Len(d) <= size
    BY <1>8 DEF Values!GetContents, Values!Fits
  <2>2. /\ result'.how = "value" /\ result'.type = t
        /\ result'.data = Values!Contents(t, size, d)
    BY <2>1, ResultFields
  <2>3. ASSUME t \in StringTypes PROVE Values!ValuesRight'
    <3>1. result'.data = SubSeq(d, 1, Len(d) - 1)
      BY <2>2, <2>3 DEF Values!Contents, StringTypes
    <3>2. /\ d \in Seq(Nat) /\ Len(d) # 0 /\ d[Len(d)] = 0
      BY <1>3, <1>8, <2>3, ReportedStored DEF Told
    <3>3. Values!Terminated(result'.data) = d
      BY <3>1, <3>2, ShortenedTerminated
    <3>4. set.type = t => result'.data = set.data
      <4>. SUFFICES ASSUME set.type = t PROVE result'.data = set.data
        OBVIOUS
      <4>1. /\ value = Values!Value(t, Values!Terminated(set.data))
            /\ set.data \in Seq(Nat)
        BY <2>3 DEF ValuesInv, ValuesType, SetHeld
      <4>2. d = Values!Terminated(set.data)
        BY <2>3, <4>1, TerminatedReported
      <4>. QED  BY <3>1, <4>1, <4>2, TerminatedShortened
    <3>5. Values!StringOfOneMoment'
      <4>1. /\ value \in during' /\ value.type = result'.type
            /\ Values!Reported(value) = Values!Terminated(result'.data)
        BY <1>1, <1>3, <1>8, <2>2, <3>3
      <4>. QED  BY <4>1 DEF Values!StringOfOneMoment, Values!Reported, Values!Terminated
    <3>6. t # "REG_BINARY" /\ t # "REG_MULTI_SZ"
      BY <2>3 DEF StringTypes
    <3>. QED  BY <1>1, <2>2, <3>4, <3>5, <3>6, ReturnsTrue
  <2>4. ASSUME t = "REG_BINARY" PROVE Values!ValuesRight'
    <3>. PICK z : z = [i \in 1 .. size - Len(d) |-> 0]
      OBVIOUS
    <3>1. result'.data = d \o z
      BY <2>2, <2>4 DEF Values!Contents
    <3>2. d = value.data /\ size = Len(w.data)
      BY <1>3, <1>4, <1>5, <1>8, <2>4, ReportedStored DEF Told
    <3>3. /\ d \in Seq(Nat) /\ z \in Seq(Nat) /\ Len(z) = size - Len(d)
          /\ \A i \in 1 .. Len(z) : z[i] = 0
      BY <1>5, <2>1
    <3>4. /\ Len(d \o z) = size
          /\ SubSeq(d, 1, Len(d)) = SubSeq(d \o z, 1, Len(d))
          /\ \A i \in Len(d) + 1 .. size : (d \o z)[i] = 0
      BY <1>5, <2>1, <3>3
    <3>5. Values!BlobWholeOrPadded'
      <4>1. /\ value \in during' /\ w \in during'
            /\ value.type = "REG_BINARY" /\ w.type = "REG_BINARY"
            /\ Len(result'.data) = Len(w.data)
            /\ Values!IsPrefix(value.data, result'.data)
            /\ \A i \in Len(value.data) + 1 .. Len(result'.data) : result'.data[i] = 0
        BY <1>1, <1>3, <1>4, <1>8, <2>1, <2>4, <3>1, <3>2, <3>4 DEF Values!IsPrefix
      <4>. QED  BY <4>1 DEF Values!BlobWholeOrPadded, Values!IsPrefix
    <3>6. set.type = t => result'.data = set.data
      <4>. SUFFICES ASSUME set.type = t PROVE result'.data = set.data
        OBVIOUS
      <4>1. value = set /\ w = value
        BY <1>3, <1>4, <2>4 DEF ValuesInv, SetHeld, Values!Sized
      <4>2. size = Len(d) /\ z = <<>>
        BY <3>2, <3>3, <4>1
      <4>. QED  BY <3>1, <3>2, <3>3, <4>1, <4>2
    <3>7. t \notin StringTypes /\ t # "REG_MULTI_SZ"
      BY <2>4 DEF StringTypes
    <3>. QED  BY <1>1, <2>2, <3>5, <3>6, <3>7, ReturnsTrue
  <2>5. ASSUME t = "REG_MULTI_SZ" PROVE Values!ValuesRight'
    <3>1. t \notin StringTypes /\ t # "REG_BINARY"
      BY <2>5 DEF StringTypes
    <3>2. Values!ListComesBack'
      <4>. SUFFICES ASSUME set.type = t PROVE Values!ListComesBack'
        BY <1>1, <2>5 DEF Values!ListComesBack
      <4>. PICK texts : texts = set.data
        OBVIOUS
      <4>1. texts \in Lists /\ value = Values!Value(t, Values!BuildMultiString(texts))
        BY <2>5 DEF ValuesInv, SetHeld
      <4>2. UpToEmpty(Values!ParsedMultiString(d), texts)
        BY <2>5, <4>1, ListBack
      <4>3. result'.data = Values!ParsedMultiString(d)
        BY <2>2, <2>5 DEF Values!Contents
      <4>. PICK got : got = result'.data
        OBVIOUS
      <4>4. UpToEmpty(got, texts)
        BY <4>2, <4>3
      <4>5. texts \in Seq(Strings)
        BY <4>1, RegistryConstants DEF Values!RegValuesConstants
      <4>6. /\ Values!IsPrefix(got, texts) /\ <<>> \notin Values!ToSet(got)
            /\ Len(got) < Len(texts) => texts[Len(got) + 1] = <<>>
        BY ONLY <4>4, <4>5, PrefixOfList
      <4>7. Values!IsPrefix(result.data, set.data)' = Values!IsPrefix(got, texts)
        BY <1>1 DEF Values!IsPrefix
      <4>8. Values!ToSet(result.data)' = Values!ToSet(got)
        BY DEF Values!ToSet
      <4>. QED  BY <1>1, <4>6, <4>7, <4>8 DEF Values!ListComesBack
    <3>. QED  BY <1>1, <2>2, <2>5, <3>1, <3>2, ReturnsTrue
  <2>6. Values!ValuesRight'
    <3>1. t \in StringTypes \/ t = "REG_BINARY" \/ t = "REG_MULTI_SZ"
      BY <1>3 DEF Values!Sized, StringTypes
    <3>. QED  BY <2>3, <2>4, <2>5, <3>1
  <2>. QED  BY <1>2, <1>6, <1>7, <2>6 DEF ValuesInv, SizeTold
<1>9. CASE ~ (value.type = t /\ Values!Fits)
  <2>1. result' = Values!Thrown(t)
    BY <1>9 DEF Values!GetContents, Values!Throw
  <2>2. result'.how = "thrown" /\ result'.type = t
    BY <2>1, ResultFields
  <2>3. \E v \in during' : v.type # t \/ during' # {v}
    <3>1. CASE value.type # t
      BY <1>1, <1>3, <3>1
    <3>2. CASE ~ Values!Fits
      <4>1. Told(value) # Told(w)
        BY <1>4, <1>5, <3>2 DEF Values!Fits, Told
      <4>. QED  BY <1>1, <1>3, <1>4, <4>1
    <3>. QED  BY <1>9, <3>1, <3>2
  <2>4. Values!ValuesRight'
    BY <2>2, <2>3
    DEF Values!ValuesRight, Values!PlainComesBack, Values!ListComesBack, Values!StringOfOneMoment, Values!BlobWholeOrPadded,
        Values!ThrowsForAReason, Values!Got
  <2>. QED  BY <1>2, <1>6, <1>7, <2>4 DEF ValuesInv, SizeTold
<1>. QED  BY <1>8, <1>9

(* The system refuses the second call of a getter.                         *)
LEMMA RefusedStep ==
  ASSUME ValuesInv, Values!ContentsRefused
  PROVE  ValuesInv'
<1>1. /\ value' = value /\ set' = set /\ during' = during
      /\ valueCall.step = "contents" /\ valueCall' = Values!Idle
      /\ result' = Values!Thrown("none")
  BY DEF Values!ContentsRefused, Values!Throw
<1>2. Running /\ ~ Running'
  BY <1>1 DEF Running, Values!Idle
<1>3. ValuesType'
  BY <1>1, <1>2 DEF ValuesInv, ValuesType
<1>4. SetHeld'
  BY <1>1 DEF ValuesInv, SetHeld
<1>. QED  BY <1>1, <1>2, <1>3, <1>4, SaysNothing DEF ValuesInv, SizeTold

LEMMA StepValues ==
  ValuesInv /\ [Values!Next]_valuesVars => ValuesInv'
<1>. SUFFICES ASSUME ValuesInv, [Values!Next]_valuesVars
              PROVE  ValuesInv'
  OBVIOUS
<1>0. /\ Numbers \subseteq Nat /\ Strings \subseteq Seq(Nat)
      /\ Blobs \subseteq Seq(Nat)
  BY RegistryConstants DEF Values!RegValuesConstants
<1>1. ASSUME NEW n \in Numbers, NEW t \in Values!Fixed, Values!SetNumber(t, n)
      PROVE  ValuesInv'
  <2>1. t \in Values!Type /\ <<n>> \in Seq(Nat)
    BY <1>0, <1>1 DEF Values!Type
  <2>. QED  BY <1>1, <2>1, SetStep DEF Values!SetNumber
<1>2. ASSUME NEW s \in Strings, NEW t \in StringTypes, Values!SetString(t, s)
      PROVE  ValuesInv'
  <2>1. t \in Values!Type /\ s \in Seq(Nat) /\ Values!Terminated(s) \in Seq(Nat)
    BY <1>0, <1>2 DEF StringTypes, Values!Terminated, Values!NUL, Values!Type, Values!Sized
  <2>. QED  BY <1>2, <2>1, SetStep DEF Values!SetString
<1>3. ASSUME NEW l \in Lists, Values!SetMultiString(l)
      PROVE  ValuesInv'
  <2>1. Values!BuildMultiString(l) \in Seq(Nat) /\ "REG_MULTI_SZ" \in Values!Type
    BY <1>3, ListBack DEF Values!Type, Values!Sized
  <2>. QED  BY <1>3, <2>1, SetStep DEF Values!SetMultiString
<1>4. ASSUME NEW b \in Blobs, Values!SetBinary(b)
      PROVE  ValuesInv'
  <2>1. b \in Seq(Nat) /\ "REG_BINARY" \in Values!Type
    BY <1>0, <1>4 DEF Values!Type, Values!Sized
  <2>. QED  BY <1>4, <2>1, SetStep DEF Values!SetBinary
<1>5. CASE UNCHANGED valuesVars
  <2>. USE <1>5 DEF valuesVars
  <2>1. ValuesType'
    BY DEF ValuesInv, ValuesType, Running
  <2>2. SetHeld'
    BY DEF ValuesInv, SetHeld
  <2>3. SizeTold'
    BY DEF ValuesInv, SizeTold, Running, Told, Values!Reported
  <2>4. Values!ValuesRight'
    BY DEF ValuesInv, Values!ValuesRight, Values!PlainComesBack, Values!ListComesBack, Values!StringOfOneMoment,
       Values!BlobWholeOrPadded, Values!ThrowsForAReason, Values!Got,
       Values!Reported, Values!Terminated
  <2>. QED  BY <2>1, <2>2, <2>3, <2>4 DEF ValuesInv
<1>. QED
  BY <1>1, <1>2, <1>3, <1>4, <1>5, AloneStep, AskStep, TakeStep, RefusedStep, ForeignStep
  DEF Values!Next, StringTypes

(* In every call that returns or throws (WinReg.hpp:575-748, 795-1062):    *)
(* a number, string or blob that the program has set comes back, a list up *)
(* to its first empty string, a string is of one moment of the call, a     *)
(* blob is what it was at one moment with zeros up to the size of another, *)
(* and a throw has a reason; whatever another process writes between the   *)
(* two calls.                                                              *)
THEOREM ValuesGot == Values!Spec => []ValuesRight
<1>1. Values!Init => ValuesInv
  <2>. SUFFICES ASSUME Values!Init PROVE ValuesInv
    OBVIOUS
  <2>1. /\ value \in {Values!Absent} \cup Foreign /\ valueCall = Values!Idle
        /\ result = Values!Nothing /\ during = {} /\ set = Values!Absent
    BY DEF Values!Init
  <2>2. value \in Stored /\ set.type = "absent"
    BY <2>1, RegistryConstants, AbsentStored DEF Values!RegValuesConstants, Stored
  <2>3. result.how = "none"
    BY <2>1, ResultFields
  <2>4. Values!ValuesRight
    BY <2>3 DEF Values!ValuesRight, Values!PlainComesBack, Values!ListComesBack, Values!StringOfOneMoment,
       Values!BlobWholeOrPadded, Values!ThrowsForAReason, Values!Got
  <2>. QED  BY <2>1, <2>2, <2>4 DEF ValuesInv, ValuesType, SetHeld, SizeTold, Running,
            StringTypes, Values!Fixed
<1>2. Values!Spec => Values!Init /\ [][Values!Next]_valuesVars
  BY DEF Values!Spec, Values!vars, valuesVars
<1>3. ValuesInv => ValuesRight
  BY DEF ValuesInv, ValuesRight
<1>. QED  BY <1>1, <1>2, <1>3, StepValues, PTL
=============================================================================
