----------------------------- MODULE MCHelpers ------------------------------
(***************************************************************************)
(* The helper libraries and the two menu commands that only compute: the   *)
(* rolling log of RollingFile, the trace file, the questions to the system, *)
(* the string splitters, the URL coders, the checksums and the array       *)
(* export.  A behaviour is of one part; the others stay where they began.  *)
(***************************************************************************)
EXTENDS Helpers, TLC

CONSTANTS Parts, p1, p2, t1, t2, w, v, r

VARIABLE part

----------------------------------------------------------------------------

(* A thread each of two processes that log to the same file; the log and   *)
(* its first backup may be open elsewhere.                                 *)
MCProcess == (t1 :> p1) @@ (t2 :> p2)
MCMaxRecords == (t1 :> 4) @@ (t2 :> 1)

(* Two tracers, one of them of a string of one wide character, two writers, *)
(* of texts of two bytes and of one, and a reader.                         *)
MCLength == (t1 :> 2) @@ (t2 :> 2) @@ (w :> 2) @@ (v :> 1)

(* Texts for the URL coders are of codes of every class, and of those next *)
(* to where the hexadecimal digits change from numbers to letters.         *)
MCCodes == {32, 37, 43, 47, 97, 154, 159, 160, 255}

(* Short texts of letters, separators, spaces and, for the quoted words,   *)
(* quotes of both kinds.                                                   *)
MCChar == {"x", ",", " ", "\\", "\""}
MCPatterns == {<<>>, <<",">>, <<",", "x">>, <<"x", "x">>}
MCWords == UNION {[1 .. n -> {"x", ",", "'", "\""}] : n \in 0 .. 2}

helpersVars ==
  <<part, vars, traceVars, queriesVars, splitsVars, urlVars, sumsVars,
    exportVars>>

----------------------------------------------------------------------------
(* One part runs; each of the others has one of its initial states, the    *)
(* splitters one from which nothing is due.                                *)

QueriesWait ==
  /\ Queries!Init
  /\ adapters = {} /\ modules = {}
  /\ processes = [n \in 1 .. 2 |-> Queries!Nobody]
SplitsWait == Splits!Start("pattern", <<"x">>, <<>>, <<>>) /\ Splits!Hangs
UrlWaits == Url!Init /\ src = <<>> /\ bufferSize = Url!Grows
SumsWait == Sums!Init /\ loop = "sum" /\ buffer = <<>>
ExportWaits ==
  Export!Init /\ itype = 1 /\ lBufLen = 0 /\ exported = Export!NoFile

HelpersInit ==
  /\ part \in Parts
  /\ Init
  /\ Trace!Init
  /\ part # "queries" => QueriesWait
  /\ part # "splits" => SplitsWait
  /\ part # "url" => UrlWaits
  /\ part # "sums" => SumsWait
  /\ part # "export" => ExportWaits
  /\ part = "queries" => Queries!Init
  /\ part = "splits" => Splits!Init
  /\ part = "url" => Url!Init
  /\ part = "sums" => Sums!Init
  /\ part = "export" => Export!Init

LogStep ==
  /\ part = "log" /\ Next
  /\ UNCHANGED <<part, traceVars, queriesVars, splitsVars, urlVars, sumsVars,
                 exportVars>>

Others ==
  <<part, vars, queriesVars, splitsVars, urlVars, sumsVars, exportVars>>

WriterProceeds(c) == part = "trace" /\ Trace!Step(c) /\ UNCHANGED Others

TraceStep == part = "trace" /\ Trace!Next /\ UNCHANGED Others

QueriesStep ==
  /\ part = "queries" /\ Queries!Next
  /\ UNCHANGED <<part, vars, traceVars, splitsVars, urlVars, sumsVars,
                 exportVars>>

SplitsStep ==
  /\ part = "splits" /\ Splits!Next
  /\ UNCHANGED <<part, vars, traceVars, queriesVars, urlVars, sumsVars,
                 exportVars>>

UrlStep ==
  /\ part = "url" /\ Url!Next
  /\ UNCHANGED <<part, vars, traceVars, queriesVars, splitsVars, sumsVars,
                 exportVars>>

SumsStep ==
  /\ part = "sums" /\ Sums!Next
  /\ UNCHANGED <<part, vars, traceVars, queriesVars, splitsVars, urlVars,
                 exportVars>>

ExportStep ==
  /\ part = "export" /\ Export!Next
  /\ UNCHANGED <<part, vars, traceVars, queriesVars, splitsVars, urlVars,
                 sumsVars>>

HelpersNext ==
  \/ LogStep \/ TraceStep \/ QueriesStep \/ SplitsStep \/ UrlStep \/ SumsStep
  \/ ExportStep

(* A call of MyWriteFile or of a splitter that was begun runs on.          *)
HelpersSpec ==
  /\ HelpersInit /\ [][HelpersNext]_helpersVars
  /\ \A c \in {w, v} : WF_helpersVars(WriterProceeds(c))
  /\ WF_helpersVars(SplitsStep)
=============================================================================
