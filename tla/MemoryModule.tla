---------------------------- MODULE MemoryModule ----------------------------
(***************************************************************************)
(* MemoryLoadLibraryEx, MemoryFreeLibrary, MemoryCallEntryPoint and the    *)
(* life of a module loaded from memory: what it takes from the process     *)
(* (address space, heap, references to libraries), the order in which it   *)
(* takes it, and what is given back when any of the steps fails.  Several  *)
(* threads load and free modules at a time; they meet in the address space *)
(* and in the reference counts the system keeps of libraries.              *)
(***************************************************************************)
EXTENDS Naturals, Sequences, FiniteSets

CONSTANTS
  Slot,         \* the modules there may be at a time, each with its thread
  Library,      \* the libraries images import from
  HostRefs,     \* HostRefs[l]: references to l the rest of the process holds
  Images,       \* the images that are loaded
  ProcMayMiss   \* whether a library may lack an imported function

(* An image as far as the loader looks at it: whether its headers are      *)
(* accepted, what it is, whether relocations were kept, whether it has an  *)
(* entry point, and the libraries of its import descriptors in order.      *)
Image == [valid : BOOLEAN, isDLL : BOOLEAN, relocs : BOOLEAN,
          entry : BOOLEAN, imports : Seq(Library)]

ASSUME MemoryModuleConstants ==
  /\ HostRefs \in [Library -> Nat]
  /\ Images \subseteq Image
  /\ ProcMayMiss \in BOOLEAN

VARIABLES
  mod,      \* mod[s]: the MEMORYMODULE of slot s and where its thread is
  blocks,   \* blocks[s]: where the image of slot s is in the address space
  heap,     \* the slots whose MEMORYMODULE is allocated
  tables,   \* the slots whose nameExportsTable is allocated
  attached, \* the slots whose library was attached and not detached
  refs      \* refs[l]: the system's reference count of library l

vars == <<mod, blocks, heap, tables, attached, refs>>

Locations == {"idle", "alloc", "heap", "sections", "relocate", "import",
              "procs", "finalize", "entry", "loaded", "detach", "release"}

Module == [pc : Locations, pe : Image, modules : Seq(Library), next : Nat,
           initialized : BOOLEAN, isRelocated : BOOLEAN, ran : BOOLEAN]

NoImage == [valid |-> FALSE, isDLL |-> FALSE, relocs |-> FALSE,
            entry |-> FALSE, imports |-> <<>>]

NoModule == [pc |-> "idle", pe |-> NoImage, modules |-> <<>>, next |-> 1,
             initialized |-> FALSE, isRelocated |-> FALSE, ran |-> FALSE]

Init ==
  /\ mod = [s \in Slot |-> NoModule]
  /\ blocks = [s \in Slot |-> "none"]
  /\ heap = {}
  /\ tables = {}
  /\ attached = {}
  /\ refs = HostRefs

At(s, pc) == mod[s].pc = pc

Go(s, pc) == mod' = [mod EXCEPT ![s].pc = pc]

----------------------------------------------------------------------------
(* The system's libraries.                                                 *)

LoadLibrary(l) == refs' = [refs EXCEPT ![l] = @ + 1]

(* A library goes away with its last reference.                            *)
FreeLibrary(l) == refs' = [refs EXCEPT ![l] = IF @ > 0 THEN @ - 1 ELSE 0]

----------------------------------------------------------------------------
(* Loading.                                                                *)

(* The headers are checked before anything is taken.                       *)
LoadRefused(s) ==
  /\ At(s, "idle")
  /\ \E pe \in Images : ~ pe.valid
  /\ UNCHANGED vars

Load(s) ==
  /\ At(s, "idle")
  /\ \E pe \in Images :
       /\ pe.valid
       /\ mod' = [mod EXCEPT ![s] = [NoModule EXCEPT !.pc = "alloc", !.pe = pe]]
  /\ UNCHANGED <<blocks, heap, tables, attached, refs>>

(* Images of one program want the same address: a second one goes          *)
(* elsewhere.  The first try may fail for other reasons as well.           *)
BaseTaken(s) ==
  \E t \in Slot : blocks[t] = "base" /\ mod[t].pe = mod[s].pe

AllocBlock(s) ==
  /\ At(s, "alloc")
  /\ \E where \in {"base", "elsewhere"} :
       /\ where = "base" => ~ BaseTaken(s)
       /\ blocks' = [blocks EXCEPT ![s] = where]
  /\ Go(s, "heap")
  /\ UNCHANGED <<heap, tables, attached, refs>>

AllocFails(s) ==
  /\ At(s, "alloc")
  /\ mod' = [mod EXCEPT ![s] = NoModule]
  /\ UNCHANGED <<blocks, heap, tables, attached, refs>>

HeapAlloc(s) ==
  /\ At(s, "heap")
  /\ heap' = heap \cup {s}
  /\ Go(s, "sections")
  /\ UNCHANGED <<blocks, tables, attached, refs>>

HeapAllocFails(s) ==
  /\ At(s, "heap")
  /\ mod' = [mod EXCEPT ![s] = NoModule]
  /\ blocks' = [blocks EXCEPT ![s] = "none"]
  /\ UNCHANGED <<heap, tables, attached, refs>>

(* From here on every failure goes through MemoryFreeLibrary.              *)
Fail(s) ==
  /\ Go(s, "detach")
  /\ UNCHANGED <<blocks, heap, tables, attached, refs>>

CopySections(s) ==
  /\ At(s, "sections")
  /\ \/ Fail(s)
     \/ Go(s, "relocate") /\ UNCHANGED <<blocks, heap, tables, attached, refs>>

(* A block elsewhere needs relocations; without them loading goes on, and  *)
(* only MemoryCallEntryPoint looks at the result.                          *)
PerformBaseRelocation(s) ==
  /\ At(s, "relocate")
  /\ mod' = [mod EXCEPT
               ![s].isRelocated = (blocks[s] = "base" \/ mod[s].pe.relocs),
               ![s].pc = "import"]
  /\ UNCHANGED <<blocks, heap, tables, attached, refs>>

----------------------------------------------------------------------------
(* BuildImportTable: one descriptor at a time.                             *)

ImportLibrary(s) ==
  /\ At(s, "import")
  /\ mod[s].next <= Len(mod[s].pe.imports)
  /\ LET l == mod[s].pe.imports[mod[s].next]
     IN  /\ LoadLibrary(l)
         /\ mod' = [mod EXCEPT ![s].modules = Append(@, l), ![s].pc = "procs"]
  /\ UNCHANGED <<blocks, heap, tables, attached>>

(* LoadLibrary fails, or the list of modules cannot grow and the new       *)
(* reference is given back at once.                                        *)
ImportFails(s) ==
  /\ At(s, "import")
  /\ mod[s].next <= Len(mod[s].pe.imports)
  /\ Fail(s)

ImportProcs(s) ==
  /\ At(s, "procs")
  /\ mod' = [mod EXCEPT ![s].next = @ + 1, ![s].pc = "import"]
  /\ UNCHANGED <<blocks, heap, tables, attached, refs>>

(* A function is missing: the library is freed here, and stays in modules, *)
(* which MemoryFreeLibrary frees once more.                                *)
ImportProcMissing(s) ==
  /\ At(s, "procs")
  /\ ProcMayMiss
  /\ FreeLibrary(mod[s].modules[Len(mod[s].modules)])
  /\ Go(s, "detach")
  /\ UNCHANGED <<blocks, heap, tables, attached>>

ImportDone(s) ==
  /\ At(s, "import")
  /\ mod[s].next > Len(mod[s].pe.imports)
  /\ Go(s, "finalize")
  /\ UNCHANGED <<blocks, heap, tables, attached, refs>>

(* A page's protection may fail to change (see SectionPages).              *)
FinalizeSections(s) ==
  /\ At(s, "finalize")
  /\ \/ Fail(s)
     \/ Go(s, "entry") /\ UNCHANGED <<blocks, heap, tables, attached, refs>>

----------------------------------------------------------------------------
(* The entry point.                                                        *)

HasDllEntry(s) == mod[s].pe.isDLL /\ mod[s].pe.entry

AttachSucceeds(s) ==
  /\ At(s, "entry")
  /\ HasDllEntry(s)
  /\ attached' = attached \cup {s}
  /\ mod' = [mod EXCEPT ![s].initialized = TRUE, ![s].pc = "loaded"]
  /\ UNCHANGED <<blocks, heap, tables, refs>>

(* Mutant: the module counts as initialized before its entry has agreed.   *)
AttachFailsMutant(s) ==
  /\ At(s, "entry")
  /\ HasDllEntry(s)
  /\ mod' = [mod EXCEPT ![s].initialized = TRUE, ![s].pc = "detach"]
  /\ UNCHANGED <<blocks, heap, tables, attached, refs>>

AttachFails(s) ==
  /\ At(s, "entry")
  /\ HasDllEntry(s)
  /\ Fail(s)

NoAttach(s) ==
  /\ At(s, "entry")
  /\ ~ HasDllEntry(s)
  /\ Go(s, "loaded")
  /\ UNCHANGED <<blocks, heap, tables, attached, refs>>

MayCallEntry(s) ==
  /\ ~ mod[s].pe.isDLL
  /\ mod[s].pe.entry
  /\ mod[s].isRelocated

CallEntryPoint(s) ==
  /\ At(s, "loaded")
  /\ MayCallEntry(s)
  /\ mod' = [mod EXCEPT ![s].ran = TRUE]
  /\ UNCHANGED <<blocks, heap, tables, attached, refs>>

(* The first MemoryGetProcAddress by name builds the table (ExportTable).  *)
BuildNameTable(s) ==
  /\ At(s, "loaded")
  /\ s \notin tables
  /\ tables' = tables \cup {s}
  /\ UNCHANGED <<mod, blocks, heap, attached, refs>>

----------------------------------------------------------------------------
(* MemoryFreeLibrary.                                                      *)

Free(s) ==
  /\ At(s, "loaded")
  /\ Go(s, "detach")
  /\ UNCHANGED <<blocks, heap, tables, attached, refs>>

Detach(s) ==
  /\ At(s, "detach")
  /\ attached' = IF mod[s].initialized THEN attached \ {s} ELSE attached
  /\ tables' = tables \ {s}
  /\ mod' = [mod EXCEPT ![s].next = 1, ![s].pc = "release"]
  /\ UNCHANGED <<blocks, heap, refs>>

(* Mutant: the loop over the libraries does not advance.                   *)
ReleaseLibraryMutant(s) ==
  /\ At(s, "release")
  /\ mod[s].next <= Len(mod[s].modules)
  /\ FreeLibrary(mod[s].modules[mod[s].next])
  /\ UNCHANGED <<mod, blocks, heap, tables, attached>>

ReleaseLibrary(s) ==
  /\ At(s, "release")
  /\ mod[s].next <= Len(mod[s].modules)
  /\ FreeLibrary(mod[s].modules[mod[s].next])
  /\ mod' = [mod EXCEPT ![s].next = @ + 1]
  /\ UNCHANGED <<blocks, heap, tables, attached>>

ReleaseMemory(s) ==
  /\ At(s, "release")
  /\ mod[s].next > Len(mod[s].modules)
  /\ blocks' = [blocks EXCEPT ![s] = "none"]
  /\ heap' = heap \ {s}
  /\ mod' = [mod EXCEPT ![s] = NoModule]
  /\ UNCHANGED <<tables, attached, refs>>

----------------------------------------------------------------------------

Import(s) ==
  ImportLibrary(s) \/ ImportFails(s) \/ ImportProcs(s)
  \/ ImportProcMissing(s) \/ ImportDone(s)

Entry(s) == AttachSucceeds(s) \/ AttachFails(s) \/ NoAttach(s)

(* What a thread does without being asked: the middle of a load or a free. *)
Proceed(s) ==
  \/ AllocBlock(s) \/ AllocFails(s) \/ HeapAlloc(s) \/ HeapAllocFails(s)
  \/ CopySections(s) \/ PerformBaseRelocation(s) \/ Import(s)
  \/ FinalizeSections(s) \/ Entry(s)
  \/ Detach(s) \/ ReleaseLibrary(s) \/ ReleaseMemory(s)

Call(s) == LoadRefused(s) \/ Load(s) \/ CallEntryPoint(s)
           \/ BuildNameTable(s) \/ Free(s)

Next == \E s \in Slot : Proceed(s) \/ Call(s)

(* A call that was begun runs on; nobody has to make one.                  *)
Spec == Init /\ [][Next]_vars /\ \A s \in Slot : WF_vars(Proceed(s))

----------------------------------------------------------------------------
(* Properties.                                                             *)

(* The references module s holds to library l at this moment.              *)
Held(s, l) ==
  {i \in DOMAIN mod[s].modules :
     /\ mod[s].modules[i] = l
     /\ At(s, "release") => i >= mod[s].next}

(* No reference is kept by a module that is gone: the system counts at most*)
(* those of the host and of every module that is there                     *)
(* (MemoryModule.c:432-450 takes, 849-854 gives back).                     *)
NoReferenceKept ==
  \A l \in Library :
    refs[l] <= HostRefs[l]
               + Cardinality(UNION {{s} \X Held(s, l) : s \in Slot})

(* A module's code may run from its attaching to its detaching.            *)
MayRun(s) ==
  \/ mod[s].pc \in {"entry", "loaded"}
  \/ mod[s].initialized /\ At(s, "detach")

(* While a module's code may run, the libraries it was bound to are loaded,*)
(* whatever other modules load, fail to load or free in the meantime       *)
(* (MemoryModule.c:432-475, 849-857).                                      *)
ImportsStay ==
  \A s \in Slot : MayRun(s) =>
    \A i \in DOMAIN mod[s].modules : refs[mod[s].modules[i]] > 0

(* A slot whose load failed or whose module was freed has nothing left of  *)
(* the process, and a library was told of its end before its code went.    *)
NothingLeft ==
  \A s \in Slot :
    /\ At(s, "idle") => blocks[s] = "none" /\ s \notin heap /\ s \notin tables
    /\ blocks[s] = "none" => s \notin attached

(* A library is detached exactly if it was attached: once for each time,   *)
(* and never when its entry refused (MemoryModule.c:720-727, 842-846).     *)
DetachAfterAttach ==
  \A s \in Slot : mod[s].initialized =>
    (s \in attached <=> mod[s].pc \in {"loaded", "detach"})

(* "The entry point can only be executed if the EXE has been loaded to the *)
(* correct base address or it could be relocated" (MemoryModule.h:111-113).*)
EntryRelocated ==
  \A s \in Slot : mod[s].ran => blocks[s] = "base" \/ mod[s].pe.relocs

(* Wherever a load fails, and whatever the other modules do: what a module *)
(* took is given back, in order, and it never ran unprepared.              *)
LifeInOrder ==
  NoReferenceKept /\ NothingLeft /\ DetachAfterAttach /\ EntryRelocated

(* Every load and every free that was begun comes to its end.              *)
CallsEnd == \A s \in Slot : [](mod[s].pc # "idle" => <>(mod[s].pc \in {"idle", "loaded"}))
=============================================================================
