---------------------------- MODULE ExportTable -----------------------------
(***************************************************************************)
(* MemoryGetProcAddress: the address of an exported function, asked for by *)
(* name or by ordinal.  The first search by name builds a sorted table of  *)
(* the names, which may fail for want of memory and is then built by a     *)
(* later search.                                                           *)
(***************************************************************************)
EXTENDS Integers, Sequences, FiniteSets

CONSTANTS
  Directories, \* the export directories of the modules
  Names,       \* the names asked for, numbers in the order of strcmp
  Ordinals     \* the ordinals asked for

(* names[i] is the i-th name and the index of its function, in any order;  *)
(* functions[i] is the address of the function with index i - 1.           *)
Directory == [base : Nat, names : Seq([name : Names, idx : Nat]),
              functions : Seq(Nat)]

ExportTableConstants ==
  /\ Names \subseteq Nat
  /\ Ordinals \subseteq Nat
  /\ Directories \subseteq Directory
  /\ \A d \in Directories : \A i, j \in DOMAIN d.names :
       d.names[i].name = d.names[j].name => i = j

Query == [by : {"name"}, key : Names] \cup [by : {"ordinal"}, key : Ordinals]

NoProc == -1   \* the result NULL
Behind == -2   \* whatever stands behind the table of addresses

VARIABLES
  exports,          \* the module's export directory
  pc,               \* "idle", "check", "fill", "sort", "search" or "index"
  query,            \* what is asked for
  nameExportsTable, \* the table, <<>> while it is not allocated
  lo, hi,           \* the range lo .. hi - 1 that is still to be searched
  idx,              \* the index found
  result            \* the last answer

vars == <<exports, pc, query, nameExportsTable, lo, hi, idx, result>>

Init ==
  /\ exports \in Directories
  /\ pc = "idle"
  /\ query \in Query
  /\ nameExportsTable = <<>>
  /\ lo = 1 /\ hi = 1
  /\ idx = 0
  /\ result = NoProc

Ask ==
  /\ pc = "idle"
  /\ query' \in Query
  /\ pc' = "check"
  /\ UNCHANGED <<exports, nameExportsTable, lo, hi, idx, result>>

NotFound ==
  /\ result' = NoProc
  /\ pc' = "idle"
  /\ UNCHANGED <<exports, query, nameExportsTable, lo, hi, idx>>

NoExports == exports.names = <<>> \/ exports.functions = <<>>

ExportsNothing == pc = "check" /\ NoExports /\ NotFound

(* Mutant: the base of the ordinals is left out.                           *)
ByOrdinalMutant ==
  /\ pc = "check"
  /\ ~ NoExports
  /\ query.by = "ordinal"
  /\ query.key >= exports.base
  /\ idx' = query.key
  /\ pc' = "index"
  /\ UNCHANGED <<exports, query, nameExportsTable, lo, hi, result>>

ByOrdinal ==
  /\ pc = "check"
  /\ ~ NoExports
  /\ query.by = "ordinal"
  /\ query.key >= exports.base
  /\ idx' = query.key - exports.base
  /\ pc' = "index"
  /\ UNCHANGED <<exports, query, nameExportsTable, lo, hi, result>>

OrdinalBelowBase ==
  /\ pc = "check"
  /\ ~ NoExports
  /\ query.by = "ordinal"
  /\ query.key < exports.base
  /\ NotFound

(* bsearch looks at all of the table.                                      *)
SearchTable ==
  /\ pc' = "search"
  /\ lo' = 1 /\ hi' = Len(nameExportsTable) + 1

ByName ==
  /\ pc = "check"
  /\ ~ NoExports
  /\ query.by = "name"
  /\ IF nameExportsTable = <<>>
     THEN pc' = "fill" /\ UNCHANGED <<lo, hi>>
     ELSE SearchTable
  /\ UNCHANGED <<exports, query, nameExportsTable, idx, result>>

OutOfMemory == pc = "fill" /\ NotFound

Fill ==
  /\ pc = "fill"
  /\ nameExportsTable' = exports.names
  /\ pc' = "sort"
  /\ UNCHANGED <<exports, query, lo, hi, idx, result>>

(* qsort by strcmp.                                                        *)
Rank(i) ==
  1 + Cardinality({j \in DOMAIN nameExportsTable :
                     nameExportsTable[j].name < nameExportsTable[i].name})

Sort ==
  /\ pc = "sort"
  /\ nameExportsTable' =
       [k \in DOMAIN nameExportsTable |->
          nameExportsTable[CHOOSE i \in DOMAIN nameExportsTable : Rank(i) = k]]
  /\ SearchTable
  /\ UNCHANGED <<exports, query, idx, result>>

Middle == (lo + hi) \div 2

Halve ==
  /\ pc = "search" /\ lo < hi
  /\ \/ /\ query.key < nameExportsTable[Middle].name
        /\ hi' = Middle /\ UNCHANGED lo
     \/ /\ query.key > nameExportsTable[Middle].name
        /\ lo' = Middle + 1 /\ UNCHANGED hi
  /\ UNCHANGED <<exports, pc, query, nameExportsTable, idx, result>>

Found ==
  /\ pc = "search" /\ lo < hi
  /\ query.key = nameExportsTable[Middle].name
  /\ idx' = nameExportsTable[Middle].idx
  /\ pc' = "index"
  /\ UNCHANGED <<exports, query, nameExportsTable, lo, hi, result>>

NameMissing == pc = "search" /\ lo >= hi /\ NotFound

(* The index is compared with > : the one behind the table passes.         *)
IndexRefused ==
  /\ pc = "index"
  /\ idx > Len(exports.functions)
  /\ NotFound

IndexTaken ==
  /\ pc = "index"
  /\ idx <= Len(exports.functions)
  /\ result' = IF idx < Len(exports.functions)
               THEN exports.functions[idx + 1] ELSE Behind
  /\ pc' = "idle"
  /\ UNCHANGED <<exports, query, nameExportsTable, lo, hi, idx>>

Search ==
  \/ ExportsNothing \/ ByOrdinal \/ OrdinalBelowBase \/ ByName
  \/ OutOfMemory \/ Fill \/ Sort \/ Halve \/ Found \/ NameMissing
  \/ IndexRefused \/ IndexTaken

Next == Ask \/ Search

Spec == Init /\ [][Next]_vars /\ WF_vars(Search)

----------------------------------------------------------------------------
(* Properties.                                                             *)

Index(d, q) ==
  IF q.by = "ordinal" THEN q.key - d.base
  ELSE LET hits == {i \in DOMAIN d.names : d.names[i].name = q.key}
       IN  IF hits = {} THEN -1 ELSE d.names[CHOOSE i \in hits : TRUE].idx

(* The address the directory gives for a query.                            *)
Exported(d, q) ==
  IF Index(d, q) \in 0 .. Len(d.functions) - 1
  THEN d.functions[Index(d, q) + 1] ELSE NoProc

Answered(q) == pc' = "idle" /\ pc # "idle" /\ query = q

(* In a directory with names, each answer is the address the directory     *)
(* gives for the name or ordinal, or none: also when the table was built   *)
(* by this search, by an earlier one, or after one that got no memory      *)
(* (MemoryModule.c:785-832).  The index behind the table is left to        *)
(* InTable.                                                                *)
AnswersRight ==
  [][\A q \in Query :
       Answered(q) /\ ~ NoExports /\ Index(exports, q) # Len(exports.functions) =>
         result' \in {Exported(exports, q)}
                     \cup (IF pc = "fill" THEN {NoProc} ELSE {})]_vars

(* "name <-> ordinal number don't match" (MemoryModule.c:826): an index    *)
(* outside the table of addresses is refused.                              *)
InTable == result # Behind

(* "Supports loading both by name and by ordinal value"                    *)
(* (MemoryModule.h:100-101): a function that has an ordinal is found by it. *)
OrdinalsFound ==
  [][\A q \in Query :
       /\ Answered(q)
       /\ q.by = "ordinal"
       /\ Index(exports, q) \in 0 .. Len(exports.functions) - 1
       => result' # NoProc]_vars
=============================================================================
