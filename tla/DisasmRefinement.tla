-------------------------- MODULE DisasmRefinement --------------------------
(* The walk of Disasm implements the promises of Extraction.               *)
EXTENDS Disasm

CONSTANT CodeAddress   \* the addresses a CALL of some image leads to

ASSUME CodeAddressConstant == CodeAddress \subseteq Addr

StartOf(i) == gvDisassembleFilePaths[i].start

FinishedStarts == {StartOf(i) : i \in {k \in DOMAIN files : files[k].closed}}
LostStarts == {StartOf(i) : i \in {k \in DOMAIN files : ~ files[k].created}}

E == INSTANCE Extraction WITH
       Function <- CodeAddress,
       MaxDepth <- gdwMaxCallNumber,
       active <- [i \in DOMAIN Opened |-> Opened[i].start],
       finished <- FinishedStarts,
       lost <- LostStarts,
       exported <- {gvdwCallAddress[i] : i \in DOMAIN gvdwCallAddress},
       used <- CalledNames

(* Every step of the walk begins, loses or finishes a function or adds one *)
(* call the way Extraction allows, or changes nothing Extraction sees.     *)
ImplementsExtraction == E!Init /\ [][E!Next]_E!vars
=============================================================================
