------------------------------ MODULE Registry ------------------------------
(***************************************************************************)
(* The registry wrapper: who owns which key (RegKeys), and side by side    *)
(* with it one value that another process writes too (RegValues) and an    *)
(* enumeration of names that another process changes (RegEnumeration).     *)
(***************************************************************************)
EXTENDS RegKeys, Naturals

CONSTANTS
  Numbers, Strings, Lists, Blobs, Foreign,  \* RegValues: what is set
  MaxValueChanges, MaxValueCalls,           \* bounds
  Name, Length,                             \* RegEnumeration: the names
  MaxChanges, MaxCalls                      \* bounds

VARIABLES
  value, valueChanges, valueCalls, valueCall, size, result, during, set,
  names, changes, calls, pc, count, room, index, list, enumOutcome, before, edits

Values == INSTANCE RegValues WITH
  MaxChanges <- MaxValueChanges, MaxCalls <- MaxValueCalls,
  changes <- valueChanges, calls <- valueCalls, call <- valueCall

Enumeration == INSTANCE RegEnumeration WITH outcome <- enumOutcome

ASSUME RegistryConstants ==
  Values!RegValuesConstants /\ Enumeration!RegEnumerationConstants

valuesVars ==
  <<value, valueChanges, valueCalls, valueCall, size, result, during, set>>
enumerationVars ==
  <<names, changes, calls, pc, count, room, index, list, enumOutcome, before,
    edits>>

(* The properties of the two parts; those of RegKeys are its own.          *)

ValuesRight == Values!ValuesRight
EnumerationRight == Enumeration!EnumerationRight

(* A statement of the source that the code does not keep.                  *)
BlobOfOneMoment == Values!BlobOfOneMoment
=============================================================================
