------------------------------- MODULE Loader -------------------------------
(***************************************************************************)
(* The loaders that TLAPS proves about: the modules that are loaded and    *)
(* freed (MemoryModule), and beside them the pages of one image whose      *)
(* sections are finalized (SectionPages), the directories of one module    *)
(* that are searched (ExportTable, ResourceTree) and a file that is        *)
(* executed from memory (MemExecute).                                      *)
(***************************************************************************)
EXTENDS MemoryModule

CONSTANTS
  PageSize, PagedImages,               \* SectionPages
  Directories, ExportNames, Ordinals,  \* ExportTable
  Trees, ResourceTypes, ResourceNames, \* ResourceTree
  Languages, ThreadLanguage, StringBlocks, BlockSize,
  Files, Alignment, FileTypes          \* MemExecute

VARIABLES
  pageImage, section, sectionData, protect, committed, pageResult,
  exports, exportPc, exportQuery, nameExportsTable, lo, hi, idx, result,
  tree, treeQuery, path, start, end, treePc, found, block, wanted, data, left,
  image, dwType, pc, ulImageSize, peSecH, Pt, placed, myreloc, added, myimport,
  bound, iRetValue, entered

Pages == INSTANCE SectionPages WITH
  Images <- PagedImages, image <- pageImage, i <- section, result <- pageResult

Exports == INSTANCE ExportTable WITH
  Names <- ExportNames, pc <- exportPc, query <- exportQuery

Resources == INSTANCE ResourceTree WITH
  Types <- ResourceTypes, Names <- ResourceNames, Blocks <- StringBlocks,
  query <- treeQuery, pc <- treePc

Execution == INSTANCE MemExecute WITH Images <- Files, Types <- FileTypes

ASSUME PagesConstants == Pages!SectionPagesConstants
ASSUME ExportsConstants == Exports!ExportTableConstants
ASSUME ResourcesConstants == Resources!ResourceTreeConstants
ASSUME FilesConstants == Execution!MemExecuteConstants

pagesVars ==
  <<pageImage, section, sectionData, protect, committed, pageResult>>
exportsVars ==
  <<exports, exportPc, exportQuery, nameExportsTable, lo, hi, idx, result>>
resourcesVars ==
  <<tree, treeQuery, path, start, end, treePc, found, block, wanted, data, left>>
executionVars ==
  <<image, dwType, pc, ulImageSize, peSecH, Pt, placed, myreloc, added, myimport,
    bound, iRetValue, entered>>

PagesRight == Pages!PagesRight
AnswersRight == Exports!AnswersRight
FoundRight == Resources!FoundRight
PlacedRight == Execution!PlacedRight
=============================================================================
