SPECIFICATION LoaderSpec
CONSTANTS
  Parts = {"modules", "pages", "exports", "resources", "execution"}
  s1 = s1
  s2 = s2
  user = user
  net = net
  Slot <- MCSlot
  Library <- MCLibrary
  HostRefs <- MCHostRefs
  Images <- MCImages
  PageSize = 2
  PagedImages <- MCPagedImages
  Directories <- MCDirectories
  ExportNames = {1, 2, 3, 4}
  Ordinals <- MCOrdinals
  Trees <- MCTrees
  ResourceTypes <- MCResourceTypes
  ResourceNames <- MCResourceNames
  Languages = {0, 9}
  ThreadLanguage = 8
  StringBlocks <- MCStringBlocks
  BlockSize = 3
  Files <- MCFiles
  Alignment = 2
  FileTypes = {"dll", "exe", "other"}
  ProcMayMiss = TRUE
INVARIANTS LifeInOrder PagesRight FoundRight PlacedRight
PROPERTIES AnswersRight LoadersEnd
CHECK_DEADLOCK FALSE
