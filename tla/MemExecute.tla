----------------------------- MODULE MemExecute ----------------------------
(***************************************************************************)
(* fMemExecute of MemoryOper.cpp: an executable that has been read into    *)
(* memory is laid out section by section, relocated, bound to its imports  *)
(* and entered.  Addresses are offsets from the image's base.              *)
(***************************************************************************)
EXTENDS Integers, Sequences, SequencesExt, FiniteSetsExt

CONSTANTS
  Images,     \* the files, as records
  Alignment,  \* SectionAlignment
  Types       \* what dwType may be

SectionHeader == [VirtualAddress : Nat, VirtualSize : Nat,
                  SizeOfRawData : Nat, PointerToRawData : Nat]

(* relocs are the relocation blocks up to the terminating one, each as the *)
(* set of the places it relocates; imports are the libraries.              *)
Image == [length : Nat, headers : Nat, sections : Seq(SectionHeader),
          relocs : Seq(SUBSET Nat), imports : Seq(STRING),
          valid : BOOLEAN, entry : BOOLEAN]

MemExecuteConstants ==
  /\ Alignment \in Nat \ {0}
  /\ Images \subseteq Image

VARIABLES
  image, dwType,
  pc,
  ulImageSize,  \* the memory that is needed, then allocated; 0 for none
  peSecH,       \* the section that is next, to be counted or copied
  Pt,           \* where it goes
  placed,       \* the ranges that were written, <<from, to>>, in order
  myreloc,      \* the relocation block that is next
  added,        \* place -> how often the distance was added
  myimport,     \* the import that is next
  bound,        \* the libraries whose imports were written
  iRetValue,
  entered       \* the entry point has been called

layout == <<ulImageSize, peSecH, Pt, placed>>
fixups == <<myreloc, added, myimport, bound>>
vars == <<image, dwType, pc, layout, fixups, iRetValue, entered>>

Places(im) == UNION ToSet(im.relocs)

Init ==
  /\ image \in Images /\ dwType \in Types
  /\ pc = "check"
  /\ ulImageSize = 0 /\ peSecH = 1 /\ Pt = 0 /\ placed = <<>>
  /\ myreloc = 1 /\ added = [p \in Places(image) |-> 0]
  /\ myimport = 1 /\ bound = {}
  /\ iRetValue = 0 /\ entered = FALSE

Larger(a, b) == IF a < b THEN b ELSE a

fGetAlignedSize(Origin) ==
  ((Origin + Alignment - 1) \div Alignment) * Alignment

HeaderSize == fGetAlignedSize(image.headers)

SectionEnd(s) ==
  fGetAlignedSize(s.VirtualAddress +
    IF s.VirtualSize # 0 THEN s.VirtualSize ELSE s.SizeOfRawData)

(* Mutant: a section adds its size wherever it lies.                       *)
SizeWithMutant(res, s) ==
  res + fGetAlignedSize(Larger(s.VirtualSize, s.SizeOfRawData))

(* The size of the image up to and with section s.                         *)
SizeWith(res, s) ==
  IF s.VirtualAddress # 0 THEN SectionEnd(s)
  ELSE res + fGetAlignedSize(Larger(s.VirtualSize, s.SizeOfRawData))

InFile(s) == s.PointerToRawData + s.SizeOfRawData <= image.length

(* The headers end where the first section's data begins in the file.      *)
HeaderBytes ==
  Min({image.headers} \union
      {s.PointerToRawData : s \in {t \in ToSet(image.sections) :
                                     t.PointerToRawData # 0}})

Goto(label) == pc' = label

Return(value) == iRetValue' = value /\ Goto("done")

----------------------------------------------------------------------------
(* fAlignPEToMem.                                                          *)

fAlignPEToMem ==
  /\ pc = "check"
  /\ IF image.valid
     THEN Goto("size") /\ ulImageSize' = HeaderSize /\ UNCHANGED iRetValue
     ELSE Return(-1) /\ UNCHANGED ulImageSize
  /\ UNCHANGED <<image, dwType, peSecH, Pt, placed, fixups, entered>>

(* One section's part of the size, unless it is not all in the file.       *)
fCalcTotalImageSize ==
  /\ pc = "size" /\ peSecH <= Len(image.sections)
  /\ InFile(image.sections[peSecH])
  /\ ulImageSize' = SizeWith(ulImageSize, image.sections[peSecH])
  /\ peSecH' = peSecH + 1
  /\ UNCHANGED <<image, dwType, pc, Pt, placed, fixups, iRetValue, entered>>

NotInFile ==
  /\ pc = "size" /\ peSecH <= Len(image.sections)
  /\ ~ InFile(image.sections[peSecH])
  /\ ulImageSize' = 0
  /\ Return(-1)
  /\ UNCHANGED <<image, dwType, peSecH, Pt, placed, fixups, entered>>

SizeKnown ==
  /\ pc = "size" /\ peSecH > Len(image.sections)
  /\ IF ulImageSize # 0 THEN Goto("allocate") /\ UNCHANGED iRetValue
     ELSE Return(-1)
  /\ UNCHANGED <<image, dwType, layout, fixups, entered>>

VirtualAlloc ==
  /\ pc = "allocate"
  /\ placed' = << <<0, HeaderBytes>> >>
  /\ Pt' = HeaderSize
  /\ peSecH' = 1
  /\ Goto("copy")
  /\ UNCHANGED <<image, dwType, ulImageSize, fixups, iRetValue, entered>>

AllocFails ==
  /\ pc = "allocate"
  /\ Return(-1)
  /\ UNCHANGED <<image, dwType, layout, fixups, entered>>

CopySection ==
  /\ pc = "copy" /\ peSecH <= Len(image.sections)
  /\ LET s == image.sections[peSecH]
         to == IF s.VirtualAddress # 0 THEN s.VirtualAddress ELSE Pt
         size == IF s.SizeOfRawData = 0 THEN s.VirtualSize
                 ELSE Larger(s.VirtualSize, s.SizeOfRawData)
     IN /\ placed' = IF s.SizeOfRawData = 0 THEN placed
                     ELSE Append(placed, <<to, to + s.SizeOfRawData>>)
        /\ Pt' = to + fGetAlignedSize(size)
  /\ peSecH' = peSecH + 1
  /\ UNCHANGED <<image, dwType, pc, ulImageSize, fixups, iRetValue, entered>>

----------------------------------------------------------------------------
(* fPECallEntryPoint.                                                      *)

fHasRelocationTable == image.relocs # <<>>

fPECallEntryPoint ==
  /\ pc = "copy" /\ peSecH > Len(image.sections)
  /\ Goto(IF fHasRelocationTable THEN "relocate" ELSE "enter")
  /\ UNCHANGED <<image, dwType, layout, fixups, iRetValue, entered>>

fDoRelocation ==
  /\ pc = "relocate" /\ myreloc <= Len(image.relocs)
  /\ added' = [p \in DOMAIN added |->
                 added[p] + IF p \in image.relocs[myreloc] THEN 1 ELSE 0]
  /\ myreloc' = myreloc + 1
  /\ UNCHANGED <<image, dwType, pc, layout, myimport, bound, iRetValue,
                 entered>>

RelocationDone ==
  /\ pc = "relocate" /\ myreloc > Len(image.relocs)
  /\ Goto("import")
  /\ UNCHANGED <<image, dwType, layout, fixups, iRetValue, entered>>

(* A library that cannot be loaded leaves its imports 0, and the rebuilding*)
(* goes on.                                                                *)
fRebuildIAT ==
  /\ pc = "import" /\ myimport <= Len(image.imports)
  /\ \/ bound' = bound \union {image.imports[myimport]}
     \/ bound' = bound
  /\ myimport' = myimport + 1
  /\ UNCHANGED <<image, dwType, pc, layout, myreloc, added, iRetValue,
                 entered>>

IATDone ==
  /\ pc = "import" /\ myimport > Len(image.imports)
  /\ Goto("enter")
  /\ UNCHANGED <<image, dwType, layout, fixups, iRetValue, entered>>

Enter ==
  /\ pc = "enter"
  /\ IF dwType \in {"dll", "exe"}
     THEN /\ entered' = (dwType = "exe" \/ image.entry)
          /\ Return(1)
     ELSE /\ UNCHANGED entered
          /\ Return(-2)
  /\ UNCHANGED <<image, dwType, layout, fixups>>

Next ==
  \/ fAlignPEToMem \/ fCalcTotalImageSize \/ NotInFile \/ SizeKnown
  \/ VirtualAlloc \/ AllocFails \/ CopySection
  \/ fPECallEntryPoint \/ fDoRelocation \/ RelocationDone
  \/ fRebuildIAT \/ IATDone \/ Enter

Spec == Init /\ [][Next]_vars

----------------------------------------------------------------------------
(* Properties.                                                             *)

(* What a linker writes: the sections behind the headers, in order, apart, *)
(* and with no more data in the file than memory; or sections without any  *)
(* addresses; and no place relocated in two blocks.                        *)
Linked(m) ==
  /\ \/ \A s \in ToSet(m.sections) : s.VirtualAddress = 0
     \/ /\ \A s \in ToSet(m.sections) :
             /\ s.VirtualAddress # 0
             /\ fGetAlignedSize(m.headers) <= s.VirtualAddress
             /\ s.VirtualAddress + s.SizeOfRawData <= SectionEnd(s)
        /\ \A j, k \in DOMAIN m.sections :
             j < k => SectionEnd(m.sections[j]) <= m.sections[k].VirtualAddress
  /\ \A i, j \in DOMAIN m.relocs : i # j => m.relocs[i] \cap m.relocs[j] = {}

(* Nothing is written outside the memory that was allocated: the size      *)
(* computed first is enough for what the copying does afterwards           *)
(* (MemoryOper.cpp:92-131, 171-213).                                       *)
PlacedInImage == \A i \in DOMAIN placed : placed[i][2] <= ulImageSize

(* No section is written over the headers or over another section          *)
(* (MemoryOper.cpp:189-213).                                               *)
PlacedApart ==
  \A i, j \in DOMAIN placed :
    i < j => placed[i][2] <= placed[j][1] \/ placed[j][2] <= placed[i][1]

(* An image with a relocation table is entered with the distance added     *)
(* once to every place the table lists (MemoryOper.cpp:238-269).           *)
RelocatedOnce ==
  iRetValue = 1 => \A p \in Places(image) : added[p] = 1

(* The layout fills the memory at most and does not overlap, and what is   *)
(* laid out fits the address it is at.                                     *)
PlacedRight == PlacedInImage /\ PlacedApart /\ RelocatedOnce

(* The program's entry is called with its imports repaired: violated for   *)
(* one without a relocation table, as executables mostly are               *)
(* (MemoryOper.cpp:341-345).                                               *)
EnteredWithImports == entered => myimport > Len(image.imports)
=============================================================================
