-------------------------- MODULE RegEnumeration ---------------------------
(***************************************************************************)
(* EnumSubKeys and EnumValues of WinReg.hpp: the number of names is asked  *)
(* once, then each name by its index, while another process adds and       *)
(* removes names.  The registry keeps the names in an order of its own.    *)
(***************************************************************************)
EXTENDS Integers, Sequences, SequencesExt, FiniteSets, FiniteSetsExt

CONSTANTS
  Name,        \* the names of subkeys or of values
  Length,      \* name -> its length
  MaxChanges,  \* bound: what the other process does
  MaxCalls     \* bound: the enumerations

RegEnumerationConstants ==
  /\ MaxChanges \in Nat /\ MaxCalls \in Nat
  /\ IsFiniteSet(Name)
  /\ Length \in [Name -> Nat]

VARIABLES
  names,    \* what there is, in the order of the indices
  changes,
  calls,
  pc,       \* "idle" or "enum"
  count, room,  \* how many names there were, and the buffer for one
  index,
  list,     \* the names so far
  outcome,  \* "none", "thrown" or "returned"
  before,   \* what there was when the count was asked
  edits     \* what the other process has done since: "add" and "remove"

local == <<count, room, index, list>>
vars == <<names, changes, calls, pc, local, outcome, before, edits>>

Init ==
  /\ names \in UNION {SetToAllKPermutations(S) : S \in SUBSET Name}
  /\ changes = 0 /\ calls = 0
  /\ pc = "idle"
  /\ count = 0 /\ room = 0 /\ index = 0 /\ list = <<>>
  /\ outcome = "none"
  /\ before = <<>> /\ edits = {}

QueryInfoKey ==
  /\ pc = "idle" /\ calls < MaxCalls
  /\ calls' = calls + 1
  /\ count' = Len(names)
  /\ room' = 1 + Max({Length[n] : n \in ToSet(names)} \union {0})
  /\ index' = 0 /\ list' = <<>>
  /\ pc' = "enum" /\ outcome' = "none"
  /\ before' = names /\ edits' = {}
  /\ UNCHANGED <<names, changes>>

(* The system has a name with that index and it fits.                      *)
Delivered == index < Len(names) /\ Length[names[index + 1]] < room

(* Mutant: the name is taken as far as it fits.                            *)
EnumMutant ==
  /\ pc = "enum" /\ index < count
  /\ IF index < Len(names)
     THEN list' = Append(list, names[index + 1]) /\ index' = index + 1
     ELSE list' = list /\ index' = count
  /\ UNCHANGED <<names, changes, calls, pc, count, room, outcome, before,
                 edits>>

(* RegEnumKeyEx and RegEnumValue, which fail if there is no such index.    *)
Enum ==
  /\ pc = "enum" /\ index < count
  /\ IF Delivered
     THEN /\ list' = Append(list, names[index + 1])
          /\ index' = index + 1
          /\ UNCHANGED <<pc, outcome>>
     ELSE /\ outcome' = "thrown" /\ pc' = "idle"
          /\ UNCHANGED <<list, index>>
  /\ UNCHANGED <<names, changes, calls, count, room, before, edits>>

EnumDone ==
  /\ pc = "enum" /\ index >= count
  /\ pc' = "idle" /\ outcome' = "returned"
  /\ UNCHANGED <<names, changes, calls, local, before, edits>>

----------------------------------------------------------------------------
(* The other process.                                                      *)

Change(edit) ==
  /\ changes < MaxChanges
  /\ changes' = changes + 1
  /\ edits' = IF pc = "idle" THEN edits ELSE edits \union {edit}
  /\ UNCHANGED <<calls, pc, local, outcome, before>>

Insert(n, i) ==
  /\ n \notin ToSet(names)
  /\ names' = InsertAt(names, i, n)
  /\ Change("add")

Drop(i) ==
  /\ names' = RemoveAt(names, i)
  /\ Change("remove")

Next ==
  \/ QueryInfoKey \/ Enum \/ EnumDone
  \/ \E n \in Name, i \in 1 .. Len(names) + 1 : Insert(n, i)
  \/ \E i \in DOMAIN names : Drop(i)

Spec == Init /\ [][Next]_vars

----------------------------------------------------------------------------
(* Properties.                                                             *)

(* Where nothing is added meanwhile an enumeration that returns lists      *)
(* exactly what there was, in order: what is removed before its turn makes *)
(* it throw (WinReg.hpp:1153-1179, 1228-1257).                             *)
RemovalsNoticed ==
  outcome = "returned" /\ "add" \notin edits => list = before

(* Where nothing is removed meanwhile no name is passed over: what is added*)
(* in front makes some come twice and leaves out as many at the end        *)
(* (WinReg.hpp:1153-1179, 1228-1257).                                      *)
AdditionsCutTheEnd ==
  outcome = "returned" /\ "remove" \notin edits =>
    /\ Len(list) = Len(before)
    /\ \E k \in 0 .. Len(before) :
         ToSet(list) \intersect ToSet(before) = ToSet(SubSeq(before, 1, k))

(* What an enumeration that met changes gives is known.                    *)
EnumerationRight == RemovalsNoticed /\ AdditionsCutTheEnd
=============================================================================
