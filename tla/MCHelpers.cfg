SPECIFICATION HelpersSpec
CONSTANTS
  Parts = {"log", "trace", "queries", "splits", "url", "sums", "export"}
  p1 = p1
  p2 = p2
  t1 = t1
  t2 = t2
  Processes = {p1, p2}
  Threads = {t1, t2}
  None = nobody
  Process <- MCProcess
  MaxSize = 1
  MaxFiles = 3
  Viewable = {0, 1}
  MaxRecords <- MCMaxRecords
  MaxInits = 1
  MaxCrashes = 1
  w = w
  v = v
  r = r
  Tracers = {t1, t2}
  Writers = {w, v}
  Readers = {r}
  Strings = {t2}
  CharSize = 2
  Length <- MCLength
  MaxTraceCalls = 1
  MaxFull = 2
  Adapter = {a1, a2, a3}
  Places = 2
  Module = {m1, m2}
  Name = {"one"}
  MaxId = 2
  MaxChanges = 2
  MaxQueries = 1
  Char <- MCChar
  Delims = {","}
  Patterns <- MCPatterns
  Words <- MCWords
  MaxText = 4
  Codes <- MCCodes
  BufferSizes = {1, 2, 4, 5, 8}
  MaxLength = 3
  Byte = 3
  Base = 7
  MaxSelection = 7
  MaxPacket = 7
  MaxRange = 70
INVARIANTS LogFilesRight TextsWhole AnswersOfTheCall SplitsRight EncodingRight SumsRight ExportRight
PROPERTIES OnlyOldestLost HelpersEnd
CHECK_DEADLOCK FALSE
