------------------------------ MODULE Helpers -------------------------------
(***************************************************************************)
(* The helper libraries and two of the menu commands: the rolling log of   *)
(* RollingFile; side by side with it a file that is traced to, replaced    *)
(* and read (TraceFile) and questions to a system that changes             *)
(* (SystemQueries); and of what only computes the string splitters         *)
(* (StringSplits), the URL coders (UrlCoding), the two checksums           *)
(* (Checksums) and the export of an array (ArrayExport).                   *)
(***************************************************************************)
EXTENDS RollingFile

CONSTANTS
  Tracers, Writers, Readers, Strings, \* TraceFile: the callers
  CharSize, Length,                   \* and their texts
  MaxTraceCalls, MaxFull,             \* bounds
  Adapter, Module, Name, Places,      \* SystemQueries: what there may be
  MaxId, MaxChanges, MaxQueries,      \* bounds
  Char, Delims, Patterns, Words,      \* StringSplits: texts and separators
  MaxText,                            \* bound
  Codes, BufferSizes,                 \* UrlCoding: the characters, the buffers
  MaxLength,                          \* bound
  Byte, Base, MaxSelection, MaxPacket, \* Checksums: widths, lengths
  MaxRange                            \* bound of ArrayExport

VARIABLES
  file, full, fills, tracePc, traceCalls, position, traceResult, lone,
  adapters, modules, processes, changes, calls, query, step, size, handles,
  answer, unnamed, outcome, known,
  mode, done, text, pattern, pos, begin, elt, quote, result, words,
  src, bufferSize, base, encoded, decoded, urlPos, urlMode,
  loop, buffer, summed, adlerA, adlerB, ulCheckSum, checksum,
  exportPc, itype, lBufLen, sizeRead, exportAt, exported, kept

Trace == INSTANCE TraceFile WITH
  MaxCalls <- MaxTraceCalls,
  pc <- tracePc, calls <- traceCalls, result <- traceResult

Queries == INSTANCE SystemQueries WITH MaxCalls <- MaxQueries

Splits == INSTANCE StringSplits WITH MaxLength <- MaxText

Url == INSTANCE UrlCoding WITH
  size <- bufferSize, pos <- urlPos, mode <- urlMode

Sums == INSTANCE Checksums WITH
  MaxSize <- MaxSelection, data <- buffer, index <- summed,
  a <- adlerA, b <- adlerB

Export == INSTANCE ArrayExport WITH
  MaxLength <- MaxRange, pc <- exportPc, i <- exportAt, file <- exported

ASSUME SharingConstants ==
  Trace!TraceFileConstants /\ Queries!SystemQueriesConstants

ASSUME SplitsConstants == Splits!StringSplitsConstants

ASSUME CodingConstants == Url!UrlCodingConstants

ASSUME SumsConstants == Sums!ChecksumsConstants

ASSUME ExportConstants == Export!ArrayExportConstants

traceVars ==
  <<file, full, fills, tracePc, traceCalls, position, traceResult, lone>>
queriesVars ==
  <<adapters, modules, processes, changes, calls, query, step, size, handles,
    answer, unnamed, outcome, known>>
splitsVars ==
  <<mode, done, text, pattern, pos, begin, elt, quote, result, words>>
urlVars == <<src, bufferSize, base, encoded, decoded, urlPos, urlMode>>
sumsVars == <<loop, buffer, summed, adlerA, adlerB, ulCheckSum, checksum>>
exportVars == <<exportPc, itype, lBufLen, sizeRead, exportAt, exported, kept>>

(* The properties of the other parts.  LogFilesRight and OnlyOldestLost are  *)
(* RollingFile's own.                                                      *)

TextsWhole == Trace!TextsWhole
AnswersOfTheCall == Queries!AnswersOfTheCall
SplitsRight == Splits!SplitsRight
EncodingRight == Url!EncodingRight
SumsRight == Sums!SumsRight
ExportRight == Export!ExportRight

(* Every call of MyWriteFile comes to its end unless the disk stays full,  *)
(* and every call of a splitter but for the empty pattern (FileOper.cpp:   *)
(* 34-45, IString.cpp:709-719).                                            *)
HelpersEnd == Trace!WriteEnds /\ Splits!SplittersEnd

(* Statements of the source that the code does not keep.                   *)
FailuresToldApart == Queries!FailuresToldApart
VectorFilled == Queries!VectorFilled
=============================================================================
