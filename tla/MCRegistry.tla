----------------------------- MODULE MCRegistry -----------------------------
(***************************************************************************)
(* The registry wrapper: the keys of RegKeys, three objects and three      *)
(* handles; one value that another process writes too; and an enumeration  *)
(* of four names, one longer than the others.  A behaviour is of one part; *)
(* the others stay where they began.                                       *)
(***************************************************************************)
EXTENDS Registry, Integers, Sequences, SequencesExt, TLC

CONSTANTS Parts, n1, n2, n3, long

VARIABLE part

----------------------------------------------------------------------------
(* Characters 1 and 2; strings, lists and blobs of lengths 0, 1 and 2; the *)
(* other process also leaves strings without their terminators.            *)

MCStrings == {<<>>, <<1>>, <<1, 2>>}

Entry(t, d) == [type |-> t, data |-> d]

MCForeign ==
  {Entry("REG_SZ", <<1>>), Entry("REG_SZ", <<2, 2, 0>>),
   Entry("REG_EXPAND_SZ", <<>>),
   Entry("REG_MULTI_SZ", <<1>>), Entry("REG_MULTI_SZ", <<1, 0, 2, 0>>),
   Entry("REG_MULTI_SZ", <<0, 0>>),
   Entry("REG_BINARY", <<>>), Entry("REG_BINARY", <<2>>),
   Entry("REG_BINARY", <<2, 2, 2>>), Entry("REG_DWORD", <<1>>)}

MCLength == (n1 :> 1) @@ (n2 :> 1) @@ (n3 :> 1) @@ (long :> 2)

MCLists == BoundedSeq(MCStrings, 3)
MCBlobs == {<<1>>, <<1, 2>>}

----------------------------------------------------------------------------
(* One part runs; each of the others has one of its initial states.        *)

ValuesWait == Values!Init /\ value = Values!Absent
EnumerationWaits == Enumeration!Init /\ names = <<>>

RegistryInit ==
  /\ part \in Parts
  /\ Init
  /\ part # "values" => ValuesWait
  /\ part # "enumeration" => EnumerationWaits
  /\ part = "values" => Values!Init
  /\ part = "enumeration" => Enumeration!Init

KeysStep ==
  part = "keys" /\ Next /\ UNCHANGED <<part, valuesVars, enumerationVars>>

ValuesStep ==
  part = "values" /\ Values!Next /\ UNCHANGED <<part, vars, enumerationVars>>

EnumerationStep ==
  part = "enumeration" /\ Enumeration!Next /\ UNCHANGED <<part, vars, valuesVars>>

RegistryNext == KeysStep \/ ValuesStep \/ EnumerationStep

RegistrySpec ==
  RegistryInit /\ [][RegistryNext]_<<part, vars, valuesVars, enumerationVars>>
=============================================================================
