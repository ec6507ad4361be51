----------------------------- MODULE RegValues -----------------------------
(***************************************************************************)
(* The value setters and getters of WinReg.hpp on one value of a key that  *)
(* another process writes as well.  Data of variable length is got in two  *)
(* calls, for the size and for the contents.  Characters and bytes are     *)
(* small numbers, NUL is 0; sizes are counted in characters.               *)
(***************************************************************************)
EXTENDS Integers, Sequences, SequencesExt

CONSTANTS
  Numbers, Strings, Lists, Blobs,  \* what the program sets
  Foreign,      \* the values the other process writes
  MaxChanges,   \* bound: what the other process does
  MaxCalls      \* bound: the calls of the program

Sized == {"REG_SZ", "REG_EXPAND_SZ", "REG_MULTI_SZ", "REG_BINARY"}
Fixed == {"REG_DWORD", "REG_QWORD"}
Type == Sized \union Fixed \union {"other", "absent"}

RegValuesConstants ==
  /\ MaxChanges \in Nat /\ MaxCalls \in Nat
  /\ Numbers \subseteq Nat /\ Strings \subseteq Seq(Nat) /\ Blobs \subseteq Seq(Nat)
  /\ Lists \subseteq Seq(Strings)
  /\ Foreign \subseteq [type : Type, data : Seq(Nat)]
  /\ \A s \in Strings : 0 \notin ToSet(s)
  /\ \A l \in Lists : \A i \in DOMAIN l : 0 \notin ToSet(l[i])

VARIABLES
  value,    \* what the key holds under the name, [type, data], or Absent
  changes,
  calls,
  call,     \* the call that runs: its type and what it does next
  size,     \* the size it was told
  result,   \* what came of it: "value", "thrown" or "none", and the data
  during,   \* what the key has held since the call began
  set       \* what the program set, while that is what the key holds

vars == <<value, changes, calls, call, size, result, during, set>>

NUL == 0

Value(t, d) == [type |-> t, data |-> d]
Absent == Value("absent", <<>>)
Idle == [type |-> "none", step |-> "none"]
Result(how, t, d) == [how |-> how, type |-> t, data |-> d]
Nothing == Result("none", "none", <<>>)
Thrown(t) == Result("thrown", t, <<>>)
Returned(t, d) == Result("value", t, d)

Init ==
  /\ value \in {Absent} \union Foreign
  /\ changes = 0 /\ calls = 0
  /\ call = Idle /\ size = 0
  /\ result = Nothing /\ during = {}
  /\ set = Absent

----------------------------------------------------------------------------
(* The layout of strings and lists in the registry.                        *)

Terminated(s) == Append(s, NUL)

(* Each string with its NUL and one NUL behind the last; two for no string.*)
BuildMultiString(list) ==
  IF list = <<>> THEN <<NUL, NUL>>
  ELSE Append(FlattenSeq([i \in DOMAIN list |-> Terminated(list[i])]), NUL)

(* Where the string that begins at a character ends.                       *)
EndOfString(data, p) ==
  CHOOSE i \in p .. Len(data) :
    data[i] = NUL /\ \A j \in p .. i - 1 : data[j] # NUL

(* The strings of a multi-string, as far as the first empty one: each      *)
(* begins behind the end of the one before.                                *)
ParsedMultiString(data) ==
  LET begin[k \in 1 .. Len(data)] ==
        IF k = 1 THEN 1 ELSE EndOfString(data, begin[k - 1]) + 1
      empty == CHOOSE k \in 1 .. Len(data) :
                 /\ data[begin[k]] = NUL
                 /\ \A j \in 1 .. k - 1 : data[begin[j]] # NUL
  IN [k \in 1 .. empty - 1 |->
        SubSeq(data, begin[k], EndOfString(data, begin[k]) - 1)]

(* What RegGetValue delivers: strings are terminated if they are not.      *)
Reported(v) ==
  LET ends(n) ==
        /\ Len(v.data) >= n
        /\ \A i \in Len(v.data) - n + 1 .. Len(v.data) : v.data[i] = NUL
  IN CASE v.type \in {"REG_SZ", "REG_EXPAND_SZ"} ->
            IF ends(1) THEN v.data ELSE Terminated(v.data)
       [] v.type = "REG_MULTI_SZ" ->
            IF ends(2) THEN v.data
            ELSE IF ends(1) THEN Terminated(v.data)
            ELSE Terminated(Terminated(v.data))
       [] OTHER -> v.data

----------------------------------------------------------------------------
(* Calls that ask the system once.                                         *)

Call ==
  /\ call = Idle /\ calls < MaxCalls
  /\ calls' = calls + 1

Alone(v, r) ==
  /\ Call
  /\ value' = v /\ result' = r
  /\ during' = {value, v}
  /\ UNCHANGED <<changes, call, size>>

Sets(t, plain, data) ==
  Alone(Value(t, data), Nothing) /\ set' = Value(t, plain)

SetNumber(t, n) == Sets(t, <<n>>, <<n>>)

SetString(t, s) == Sets(t, s, Terminated(s))

SetMultiString(list) == Sets("REG_MULTI_SZ", list, BuildMultiString(list))

SetBinary(data) == Sets("REG_BINARY", data, data)

(* The system refuses a call for a reason that is not the value's: a right *)
(* that is missing, a key that was deleted.                                *)
Refused == Alone(value, Thrown("none")) /\ UNCHANGED set

GetNumber(t) ==
  /\ Alone(value,
           IF value.type = t THEN Returned(t, value.data) ELSE Thrown(t))
  /\ UNCHANGED set

DeleteValue ==
  /\ Alone(Absent, IF value = Absent THEN Thrown("none") ELSE Nothing)
  /\ set' = Absent

----------------------------------------------------------------------------
(* GetStringValue, GetExpandStringValue (with its default, DontExpand),    *)
(* GetMultiStringValue and GetBinaryValue.                                 *)

Throw(t) == result' = Thrown(t) /\ call' = Idle /\ size' = 0

AskSize(t) ==
  /\ Call
  /\ IF value.type = t
     THEN /\ call' = [type |-> t, step |-> "contents"]
          /\ size' = Len(Reported(value))
          /\ result' = Nothing
     ELSE Throw(t)
  /\ during' = {value}
  /\ UNCHANGED <<value, changes, set>>

(* Mutant: a string is as long as the buffer, as binary data is.           *)
ContentsMutant(t, n, data) ==
  LET all == data \o [i \in 1 .. n - Len(data) |-> 0] IN
  CASE t \in {"REG_SZ", "REG_EXPAND_SZ"} -> SubSeq(all, 1, n - 1)
    [] t = "REG_MULTI_SZ" -> ParsedMultiString(data)
    [] t = "REG_BINARY" -> all

(* What the getter makes of a buffer of n characters that holds data.      *)
Contents(t, n, data) ==
  CASE t \in {"REG_SZ", "REG_EXPAND_SZ"} -> SubSeq(data, 1, Len(data) - 1)
    [] t = "REG_MULTI_SZ" -> ParsedMultiString(data)
    [] t = "REG_BINARY" -> data \o [i \in 1 .. n - Len(data) |-> 0]

Fits == Len(Reported(value)) <= size

GetContents ==
  /\ call.step = "contents"
  /\ IF value.type = call.type /\ Fits
     THEN /\ result' = Returned(call.type,
                                 Contents(call.type, size, Reported(value)))
          /\ call' = Idle /\ size' = 0
     ELSE Throw(call.type)
  /\ UNCHANGED <<value, changes, calls, during, set>>

ContentsRefused ==
  /\ call.step = "contents"
  /\ Throw("none")
  /\ UNCHANGED <<value, changes, calls, during, set>>

----------------------------------------------------------------------------
(* The other process.                                                      *)

Foreigner(v) ==
  /\ changes < MaxChanges /\ v # value
  /\ changes' = changes + 1
  /\ value' = v
  /\ during' = IF call = Idle THEN during ELSE during \union {v}
  /\ set' = Absent
  /\ UNCHANGED <<calls, call, size, result>>

Next ==
  \/ \E n \in Numbers, t \in Fixed : SetNumber(t, n)
  \/ \E s \in Strings, t \in {"REG_SZ", "REG_EXPAND_SZ"} : SetString(t, s)
  \/ \E list \in Lists : SetMultiString(list)
  \/ \E data \in Blobs : SetBinary(data)
  \/ \E t \in Fixed : GetNumber(t)
  \/ \E t \in Sized : AskSize(t)
  \/ Refused \/ DeleteValue \/ GetContents \/ ContentsRefused
  \/ \E v \in {Absent} \union Foreign : Foreigner(v)

Spec == Init /\ [][Next]_vars

----------------------------------------------------------------------------
(* Properties.                                                             *)

Got(types) == result.how = "value" /\ result.type \in types

(* A number, string or blob that the program has set and nobody has        *)
(* written since comes back as it was (WinReg.hpp:575-656, 750-952,        *)
(* 1026-1062; WinRegTest.cpp).                                             *)
PlainComesBack ==
  Got(Sized \union Fixed) /\ set.type = result.type
    /\ set.type # "REG_MULTI_SZ" => result.data = set.data

(* A list comes back up to its first empty string (WinReg.hpp:661-717,     *)
(* 955-1022; WinRegTest.cpp).                                              *)
ListComesBack ==
  Got({"REG_MULTI_SZ"}) /\ set.type = "REG_MULTI_SZ" =>
    /\ IsPrefix(result.data, set.data)
    /\ <<>> \notin ToSet(result.data)
    /\ Len(result.data) < Len(set.data) =>
         set.data[Len(result.data) + 1] = <<>>

(* A string that is got is one the value was at some moment of the call,   *)
(* never the size of one with the contents of another                      *)
(* (WinReg.hpp:852-892, 913-952).                                          *)
StringOfOneMoment ==
  Got({"REG_SZ", "REG_EXPAND_SZ"}) =>
    \E v \in during : v.type = result.type
                      /\ Reported(v) = Terminated(result.data)

(* Binary data that is got is no shorter than what the value was when it   *)
(* was read: it has that in front and zeros behind up to what it was when  *)
(* the size was asked (WinReg.hpp:1026-1061).                              *)
BlobWholeOrPadded ==
  Got({"REG_BINARY"}) =>
    \E v, w \in during :
      /\ v.type = "REG_BINARY" /\ w.type = "REG_BINARY"
      /\ Len(result.data) = Len(w.data)
      /\ IsPrefix(v.data, result.data)
      /\ \A i \in Len(v.data) + 1 .. Len(result.data) : result.data[i] = 0

(* A get throws for the value's sake only when the value is not there, is  *)
(* of another type or has changed between the two calls                    *)
(* (WinReg.hpp:852-886).                                                   *)
ThrowsForAReason ==
  result.how = "thrown" /\ result.type \in Sized \union Fixed =>
    \E v \in during : v.type # result.type \/ during # {v}

(* What is got is what was set or what the value was during the call, and  *)
(* what is not got has a reason.                                           *)
ValuesRight ==
  /\ PlainComesBack /\ ListComesBack
  /\ StringOfOneMoment /\ BlobWholeOrPadded /\ ThrowsForAReason

(* Binary data that is got is what the value was at some moment: violated, *)
(* what shrinks between the calls is returned with the old size            *)
(* (WinReg.hpp:1048-1061).                                                 *)
BlobOfOneMoment ==
  Got({"REG_BINARY"}) => Value("REG_BINARY", result.data) \in during
=============================================================================
