---------------------------- MODULE SectionPages ----------------------------
(***************************************************************************)
(* FinalizeSections and FinalizeSection of MemoryModule.c: the pages of a  *)
(* loaded image get the access rights its sections ask for, and sections   *)
(* that are no longer needed give their pages back.  Sections may share a  *)
(* page, protection is per page, and only whole pages can be given back.   *)
(***************************************************************************)
EXTENDS Naturals, Sequences, FiniteSets

CONSTANTS
  PageSize,
  Images        \* the images whose sections are finalized

Right == {"execute", "read", "write"}

(* raw is SizeOfRawData; data tells which of the image's totals stands in  *)
(* for it when it is 0.  Addresses count from the image's base.            *)
Section == [address : Nat, raw : Nat, rights : SUBSET Right,
            discardable : BOOLEAN, data : {"initialized", "uninitialized", "none"}]

Image == [sections : Seq(Section), alignment : Nat \ {0}, size : Nat,
          initialized : Nat, uninitialized : Nat]

SectionPagesConstants ==
  /\ PageSize \in Nat \ {0}
  /\ Images \subseteq Image
  /\ \A m \in Images : m.sections # <<>>

VARIABLES
  image,       \* the image being finalized
  i,           \* the section the loop is at
  sectionData, \* the SECTIONFINALIZEDATA: sections gathered so far
  protect,     \* protect[p]: the rights of page p
  committed,   \* the pages not given back
  result       \* "running", "TRUE" or "FALSE"

vars == <<image, i, sectionData, protect, committed, result>>

Page == 0 .. (image.size - 1) \div PageSize

PageOf(a) == a \div PageSize

PagesOf(address, size) ==
  IF size = 0 THEN {} ELSE PageOf(address) .. PageOf(address + size - 1)

GetRealSectionSize(m, s) ==
  CASE s.raw # 0                                 -> s.raw
    [] s.raw = 0 /\ s.data = "initialized"       -> m.initialized
    [] s.raw = 0 /\ s.data = "uninitialized"     -> m.uninitialized
    [] s.raw = 0 /\ s.data = "none"              -> 0

(* The bytes of a section that were copied, or cleared when it has none in *)
(* the file (CopySections, MemoryModule.c:160-208).                        *)
Copied(m, s) == IF s.raw = 0 THEN m.alignment ELSE s.raw

Gathered(s) ==
  [address |-> s.address, size |-> GetRealSectionSize(image, s), rights |-> s.rights,
   discardable |-> s.discardable]

Init ==
  /\ image \in Images
  /\ i = 2
  /\ sectionData = Gathered(image.sections[1])
  /\ protect = [p \in Page |-> {"read", "write"}]
  /\ committed = Page
  /\ result = "running"

----------------------------------------------------------------------------

SharesPage(s) ==
  \/ PageOf(sectionData.address) = PageOf(s.address)
  \/ sectionData.address + sectionData.size > PageOf(s.address) * PageSize

(* Mutant: two sections are discardable together when the later one is.    *)
JoinedMutant(s) ==
  [sectionData EXCEPT
     !.rights = @ \cup s.rights,
     !.discardable = s.discardable,
     !.size = s.address + GetRealSectionSize(image, s) - sectionData.address]

(* Shared pages get the rights of all, and are discardable if all are.     *)
Joined(s) ==
  [sectionData EXCEPT
     !.rights = @ \cup s.rights,
     !.discardable = @ /\ s.discardable,
     !.size = s.address + GetRealSectionSize(image, s) - sectionData.address]

Join ==
  /\ result = "running"
  /\ i <= Len(image.sections)
  /\ SharesPage(image.sections[i])
  /\ sectionData' = Joined(image.sections[i])
  /\ i' = i + 1
  /\ UNCHANGED <<image, protect, committed, result>>

Gone == PagesOf(sectionData.address, sectionData.size)

MayDecommit(last) ==
  /\ sectionData.address % PageSize = 0
  /\ \/ last
     \/ image.alignment = PageSize
     \/ sectionData.size % PageSize = 0

(* FinalizeSection: VirtualProtect may fail, and does beyond the image.    *)
Discard(last) ==
  /\ sectionData.discardable
  /\ committed' = IF MayDecommit(last) /\ Gone \subseteq Page
                  THEN committed \ Gone ELSE committed
  /\ UNCHANGED protect

Protect ==
  /\ ~ sectionData.discardable
  /\ Gone \subseteq committed
  /\ protect' = [p \in Page |-> IF p \in Gone THEN sectionData.rights ELSE protect[p]]
  /\ UNCHANGED committed

Finalize(last) ==
  \/ sectionData.size = 0 /\ UNCHANGED <<protect, committed>>
  \/ sectionData.size # 0 /\ Discard(last)
  \/ sectionData.size # 0 /\ Protect

FinalizePrevious ==
  /\ result = "running"
  /\ i <= Len(image.sections)
  /\ ~ SharesPage(image.sections[i])
  /\ Finalize(FALSE)
  /\ sectionData' = Gathered(image.sections[i])
  /\ i' = i + 1
  /\ UNCHANGED <<image, result>>

FinalizeLast ==
  /\ result = "running"
  /\ i > Len(image.sections)
  /\ Finalize(TRUE)
  /\ result' = "TRUE"
  /\ UNCHANGED <<image, i, sectionData>>

FinalizeFails ==
  /\ result = "running"
  /\ i <= Len(image.sections) => ~ SharesPage(image.sections[i])
  /\ sectionData.size # 0
  /\ ~ sectionData.discardable
  /\ result' = "FALSE"
  /\ UNCHANGED <<image, i, sectionData, protect, committed>>

Finalizing == Join \/ FinalizePrevious \/ FinalizeLast \/ FinalizeFails

Terminated == result # "running" /\ UNCHANGED vars

Next == Finalizing \/ Terminated

Spec == Init /\ [][Next]_vars /\ WF_vars(Finalizing)

----------------------------------------------------------------------------
(* Properties.                                                             *)

Sections == 1 .. Len(image.sections)

Extent(k) ==
  LET s == image.sections[k]
  IN  PagesOf(s.address, Copied(image, s))

(* What a linker writes, and the proofs take for granted: sections in      *)
(* order and apart; and a kept section with nothing in the file, for whose *)
(* size a total of the image stands in, lies in the pages of that total.   *)
Linked(m) ==
  /\ \A j, k \in DOMAIN m.sections :
       j < k => m.sections[j].address + Copied(m, m.sections[j])
                  <= m.sections[k].address
  /\ \A k \in DOMAIN m.sections :
       LET s == m.sections[k]
       IN  ~ s.discardable /\ GetRealSectionSize(m, s) # 0
           => PagesOf(s.address, Copied(m, s))
                \subseteq PagesOf(s.address, GetRealSectionSize(m, s))

(* A section that is needed is usable as a whole: each of its pages is     *)
(* there and has at least the rights the section asks for, whichever       *)
(* sections share the page (MemoryModule.c:303-330).                       *)
KeptUsable ==
  result = "TRUE" =>
    \A k \in Sections :
      /\ ~ image.sections[k].discardable
      /\ GetRealSectionSize(image, image.sections[k]) # 0
      => \A p \in Extent(k) : p \in committed
                              /\ image.sections[k].rights \subseteq protect[p]

(* Section k is gathered with section j before it: each section from j + 1 *)
(* to k starts on a page that an earlier one of them reaches.              *)
Chained(j, k) ==
  j <= k /\ \A n \in j + 1 .. k : \E m \in j .. n - 1 :
    LET s == image.sections[m]
        t == image.sections[n]
    IN  \/ PageOf(s.address) = PageOf(t.address)
        \/ s.address + GetRealSectionSize(image, s) > PageOf(t.address) * PageSize

(* No page has a right that none of the sections chained to one of its own *)
(* sections asks for: write access does not spread past shared pages       *)
(* (the combination of MemoryModule.c:310-317 ends where sharing ends).    *)
NoStrayRights ==
  result = "TRUE" =>
    \A k \in Sections :
      /\ ~ image.sections[k].discardable
      /\ image.sections[k].raw # 0
      => \A p \in Extent(k) : \A x \in protect[p] :
           \E j \in Sections : /\ x \in image.sections[j].rights
                               /\ Chained(j, k) \/ Chained(k, j)

(* A page is given back only if every section on it may be discarded       *)
(* (MemoryModule.c:249-259).                                               *)
OnlyDiscardedGone ==
  \A p \in Page \ committed : \A k \in Sections :
    p \in Extent(k) => image.sections[k].discardable

(* What is needed is usable, nothing has rights it was not given, and only *)
(* what may be discarded is gone.                                          *)
PagesRight == KeptUsable /\ NoStrayRights /\ OnlyDiscardedGone
=============================================================================
