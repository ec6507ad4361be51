------------------------------ MODULE MCLoader ------------------------------
(***************************************************************************)
(* The loaders of images from memory, on instances of their parts: modules *)
(* that are loaded and freed, the pages of one image, one export directory,*)
(* one resource tree, and an image that fMemExecute lays out.  A behaviour *)
(* is of one part; the others stay where they began.                       *)
(***************************************************************************)
EXTENDS Loader, Integers, SequencesExt, FiniteSetsExt, TLC

CONSTANTS Parts, s1, s2, user, net

VARIABLE part

----------------------------------------------------------------------------
(* Two modules at a time out of a DLL and an EXE that share a library; the *)
(* host holds one of the libraries.  A third file is refused.              *)

MCSlot == {s1, s2}
MCDll == [valid |-> TRUE, isDLL |-> TRUE, relocs |-> TRUE, entry |-> TRUE,
          imports |-> <<user, net>>]
MCExe == [valid |-> TRUE, isDLL |-> FALSE, relocs |-> FALSE, entry |-> TRUE,
          imports |-> <<net>>]
Refused == [MCExe EXCEPT !.valid = FALSE, !.entry = FALSE, !.imports = <<>>]

MCLibrary == {user, net}
MCHostRefs == (user :> 1) @@ (net :> 0)
MCImages == {MCDll, MCExe, Refused}

----------------------------------------------------------------------------
(* Three sections of up to three units, aligned to half a page or a page,  *)
(* and two aligned to two pages; a page has two units.                     *)

Length(place, alignment) == IF place[2] = 0 THEN alignment ELSE place[2]

(* [address, raw] of n sections below size, in order and disjoint.         *)
Layouts(n, alignment, size) ==
  {l \in [1 .. n -> {a \in 0 .. size - 1 : a % alignment = 0} \X {0, 1, 3}] :
     /\ \A k \in 1 .. n - 1 : l[k][1] + Length(l[k], alignment) <= l[k + 1][1]
     /\ l[n][1] + Length(l[n], alignment) <= size}

PagedSection(place, rights, discardable) ==
  [address |-> place[1], raw |-> place[2], rights |-> rights,
   discardable |-> discardable,
   data |-> IF discardable THEN "none"
            ELSE IF rights = {"read"} THEN "initialized" ELSE "uninitialized"]

PagedImagesOf(n, alignment, size) ==
  {[sections |-> [k \in 1 .. n |-> PagedSection(l[k], r[k], d[k])],
    alignment |-> alignment, size |-> size,
    initialized |-> 3, uninitialized |-> 3] :
     l \in Layouts(n, alignment, size), r \in [1 .. n -> {{"read"}, {"write"}}],
     d \in [1 .. n -> BOOLEAN]}

MCPagedImages ==
  PagedImagesOf(3, 1, 6) \cup PagedImagesOf(3, 2, 6) \cup PagedImagesOf(2, 4, 8)

FirstPagedImage == CHOOSE m \in PagedImages : TRUE

ASSUME ImagesLinked == \A m \in PagedImages : Pages!Linked(m)

----------------------------------------------------------------------------
(* Export directories of up to three functions and three names, the names  *)
(* in any order, some of them for one function or for none.                *)

Orders == {<<>>, <<2>>, <<3, 1>>, <<2, 3, 1>>}

MCDirectories ==
  UNION {{[base |-> 5,
           names |-> [n \in DOMAIN o |-> [name |-> o[n], idx |-> x[n]]],
           functions |-> SubSeq(<<70, 71, 72>>, 1, k)] :
            x \in [1 .. Len(o) -> 0 .. 3], k \in {0, 2, 3}} : o \in Orders}

FirstDirectory == CHOOSE d \in Directories : TRUE

MCOrdinals == 4 .. 9

----------------------------------------------------------------------------
(* Trees with up to four types and names of both kinds, and languages that *)
(* are there, missing, or the thread's.                                    *)

Id(n) == <<"id", n>>
Named(n) == <<"name", n>>

Paths(names, languages) ==
  {<<t, n, l>> : t \in {Id(5), Named(2)}, n \in names, l \in languages}

NameSets ==
  {{Id(0)}, {Named(3)}, {Id(1), Id(5)}, {Id(0), Id(4), Named(1)},
   {Id(1), Id(4), Id(5)}, {Id(0), Id(1), Id(4), Id(5), Named(3)}}

MCTrees ==
  {{}, {<<Id(6), Id(1), Id(7)>>, <<Id(6), Id(2), Id(8)>>}}
  \cup {Paths(s, l) : s \in NameSets,
                      l \in {{Id(3), Id(8)}, {Named(1), Id(9)}, {Named(1)}}}

Text(n) == <<"#", n>>

MCResourceTypes == {Id(5), Id(6), Named(2), Text(5)}
MCResourceNames ==
  {Id(0), Id(1), Id(2), Id(4), Id(5), Named(1), Named(3), Text(4), Text(65537)}

MCStringBlocks == {[k \in 0 .. 2 |-> 0], [k \in 0 .. 2 |-> k]}

FirstBlock == CHOOSE b \in StringBlocks : TRUE

----------------------------------------------------------------------------
(* Files of up to three sections with sizes up to three bytes, in pages of *)
(* two.                                                                    *)

File(sections, relocs, imports) ==
  [length |-> 5, headers |-> 2, sections |-> sections, relocs |-> relocs,
   imports |-> imports, valid |-> TRUE, entry |-> TRUE]

Section(va, vs, raw) ==
  [VirtualAddress |-> va, VirtualSize |-> vs, SizeOfRawData |-> raw,
   PointerToRawData |-> IF raw = 0 THEN 0 ELSE 2]

Aligned(n) == ((n + 1) \div 2) * 2

(* What a linker writes: sections in order, apart, with no more data in    *)
(* the file than fits their pages; or no addresses at all.                 *)
Linked ==
  {<<>>} \union
  {ss \in BoundedSeq([va : {2, 4, 6}, vs : {0, 1, 3}, raw : 0 .. 2], 3) :
     /\ \A n \in DOMAIN ss : ss[n].raw <= Aligned(ss[n].vs) \/ ss[n].vs = 0
     /\ \A n \in 1 .. Len(ss) - 1 :
          ss[n].va + Aligned(IF ss[n].vs = 0 THEN ss[n].raw ELSE ss[n].vs)
            <= ss[n + 1].va}
  \union BoundedSeq([va : {0}, vs : 0 .. 3, raw : {0, 1, 3}], 2)

Sections(ss) == [n \in DOMAIN ss |-> Section(ss[n].va, ss[n].vs, ss[n].raw)]

Plain == <<Section(2, 2, 2), Section(4, 3, 2)>>

MCFiles ==
  {File(Sections(ss), << {1} >>, <<"a">>) : ss \in Linked}
  \union {File(Plain, r, n) :
            r \in {<<>>, << {2, 3} >>, << {2}, {}, {3, 4} >>},
            n \in {<<>>, <<"a">>, <<"a", "b">>}}
  \union {[File(Plain, <<>>, <<>>) EXCEPT !.valid = FALSE],
          [File(Plain, <<>>, <<>>) EXCEPT !.length = 3],
          [File(Plain, <<>>, <<>>) EXCEPT !.entry = FALSE]}

FirstFile == CHOOSE f \in Files : TRUE

ASSUME FilesLinked == \A f \in Files : Execution!Linked(f)

----------------------------------------------------------------------------
loaderVars ==
  <<part, vars, pagesVars, exportsVars, resourcesVars, executionVars>>

(* One part runs; each of the others has one of its initial states.        *)

PagesWait == Pages!Init /\ pageImage = FirstPagedImage
ExportsWait ==
  /\ Exports!Init
  /\ exports = FirstDirectory
  /\ exportQuery = [by |-> "ordinal", key |-> 4]
ResourcesWait == Resources!Init /\ tree = {} /\ block = FirstBlock
ExecutionWaits == Execution!Init /\ image = FirstFile /\ dwType = "dll"

LoaderInit ==
  /\ part \in Parts
  /\ Init
  /\ part # "pages" => PagesWait
  /\ part # "exports" => ExportsWait
  /\ part # "resources" => ResourcesWait
  /\ part # "execution" => ExecutionWaits
  /\ part = "pages" => Pages!Init
  /\ part = "exports" => Exports!Init
  /\ part = "resources" => Resources!Init
  /\ part = "execution" => Execution!Init

Runs(p, next) == part = p /\ next /\ UNCHANGED part

ModulesProceed(s) ==
  /\ Runs("modules", Proceed(s))
  /\ UNCHANGED <<pagesVars, exportsVars, resourcesVars, executionVars>>

ModulesStep ==
  /\ Runs("modules", Next)
  /\ UNCHANGED <<pagesVars, exportsVars, resourcesVars, executionVars>>

PagesStep ==
  /\ Runs("pages", Pages!Finalizing)
  /\ UNCHANGED <<vars, exportsVars, resourcesVars, executionVars>>

ExportsSearch ==
  /\ Runs("exports", Exports!Search)
  /\ UNCHANGED <<vars, pagesVars, resourcesVars, executionVars>>

ExportsAsk ==
  /\ Runs("exports", Exports!Ask)
  /\ UNCHANGED <<vars, pagesVars, resourcesVars, executionVars>>

ResourcesSearch ==
  /\ Runs("resources", Resources!Search)
  /\ UNCHANGED <<vars, pagesVars, exportsVars, executionVars>>

ResourcesCall ==
  /\ Runs("resources", Resources!Call \/ Resources!NoResources)
  /\ UNCHANGED <<vars, pagesVars, exportsVars, executionVars>>

ExecutionStep ==
  /\ Runs("execution", Execution!Next)
  /\ UNCHANGED <<vars, pagesVars, exportsVars, resourcesVars>>

LoaderNext ==
  \/ ModulesStep \/ PagesStep \/ ExportsAsk \/ ExportsSearch
  \/ ResourcesCall \/ ResourcesSearch \/ ExecutionStep

(* A call that was begun runs on; nobody has to make one.                  *)
LoaderSpec ==
  /\ LoaderInit /\ [][LoaderNext]_loaderVars
  /\ \A s \in Slot : WF_loaderVars(ModulesProceed(s))
  /\ WF_loaderVars(ResourcesSearch)

----------------------------------------------------------------------------
(* Properties: those of MemoryModule and Loader, and the others.              *)

LoadersEnd == CallsEnd /\ Resources!SearchEnds

(* Statements of the source that the code does not keep, like ImportsStay; *)
(* the parts say what they are about.                                      *)
InTable == Exports!InTable
OrdinalsFound == Exports!OrdinalsFound
EnteredWithImports == Execution!EnteredWithImports
=============================================================================
