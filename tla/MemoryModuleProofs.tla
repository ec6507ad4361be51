-------------------------- MODULE MemoryModuleProofs ------------------------
(***************************************************************************)
(* Proofs that modules loaded from memory take and give back in order, for *)
(* every number of modules, images and libraries, that the pages of an     *)
(* image get the rights of the sections on them, for every page size, that *)
(* a file executed from memory is laid out inside its memory and relocated *)
(* once, for every alignment, and that a function or a resource searched   *)
(* for is the one asked for, for every directory and every tree.           *)
(***************************************************************************)
EXTENDS Loader, FiniteSetTheorems, SequenceTheorems, WellFoundedInduction, TLAPS

TypeInv ==
  /\ mod \in [Slot -> Module]
  /\ blocks \in [Slot -> {"none", "base", "elsewhere"}]
  /\ refs \in [Library -> Nat]

(* What a module has of the process at each place of its life.             *)
Stage(s) ==
  /\ mod[s].pc \in {"idle", "alloc"} <=> blocks[s] = "none"
  /\ s \in heap => mod[s].pc \notin {"idle", "alloc", "heap"}
  /\ s \in tables => mod[s].pc \in {"loaded", "detach"}
  /\ s \in attached <=> mod[s].initialized /\ mod[s].pc \in {"loaded", "detach"}
  /\ mod[s].initialized => mod[s].pc \in {"loaded", "detach", "release"}
  /\ mod[s].isRelocated => mod[s].pc \notin {"idle", "alloc"}
  /\ mod[s].isRelocated => blocks[s] = "base" \/ mod[s].pe.relocs
  /\ mod[s].ran => mod[s].isRelocated
  /\ mod[s].next \in Nat \ {0}
  /\ mod[s].pc \in {"idle", "alloc", "heap"} => mod[s].modules = <<>>

StageInv == \A s \in Slot : Stage(s)

(* The references to a library, of all modules.                            *)
HeldBy(l) == [s \in Slot |-> Held(s, l)]

Pairs(f) == UNION {{s} \X f[s] : s \in Slot}

RefsInv ==
  \A l \in Library :
    /\ IsFiniteSet(Pairs(HeldBy(l)))
    /\ refs[l] <= HostRefs[l] + Cardinality(Pairs(HeldBy(l)))

Inv == TypeInv /\ StageInv /\ RefsInv

----------------------------------------------------------------------------
(* What a step changes of the references held.                             *)

(* The libraries of a module and where its thread is decide what it holds. *)
LEMMA HeldSame ==
  ASSUME NEW s, NEW l, mod'[s].modules = mod[s].modules,
         \A i \in DOMAIN mod[s].modules :
           (mod'[s].pc = "release" => i >= mod'[s].next)
           <=> (mod[s].pc = "release" => i >= mod[s].next)
  PROVE  Held(s, l)' = Held(s, l)
BY DEF Held, At

LEMMA SameRefs ==
  ASSUME RefsInv, \A l \in Library : refs'[l] <= refs[l],
         \A l \in Library : refs[l] \in Nat /\ refs'[l] \in Nat,
         \A s \in Slot : \A l \in Library : Held(s, l)' = Held(s, l)
  PROVE  RefsInv'
<1>1. ASSUME NEW l \in Library
      PROVE  /\ IsFiniteSet(Pairs(HeldBy(l)'))
             /\ refs'[l] <= HostRefs[l] + Cardinality(Pairs(HeldBy(l)'))
  <2>1. HeldBy(l)' = HeldBy(l)
    BY DEF HeldBy
  <2>2. PICK f : f = HeldBy(l)
    OBVIOUS
  <2>3. /\ IsFiniteSet(Pairs(f)) /\ refs[l] <= HostRefs[l] + Cardinality(Pairs(f))
    BY <2>2 DEF RefsInv
  <2>4. Cardinality(Pairs(f)) \in Nat /\ HostRefs[l] \in Nat
    BY <2>3, FS_CardinalityType, MemoryModuleConstants
  <2>5. refs'[l] <= HostRefs[l] + Cardinality(Pairs(f))
    BY <2>3, <2>4
  <2>6. HeldBy(l)' = f
    BY <2>1, <2>2
  <2>. QED  BY <2>3, <2>5, <2>6, Zenon
<1>. QED  BY <1>1 DEF RefsInv, Pairs

----------------------------------------------------------------------------

LEMMA InitInv == Init => Inv
<1>. SUFFICES ASSUME Init PROVE Inv
  OBVIOUS
<1>1. NoModule \in Module
  BY DEF NoModule, NoImage, Module, Image, Locations
<1>2. TypeInv
  BY <1>1, MemoryModuleConstants DEF Init, TypeInv
<1>3. StageInv
  BY DEF Init, StageInv, Stage, NoModule
<1>4. ASSUME NEW l \in Library
      PROVE  /\ IsFiniteSet(Pairs(HeldBy(l)))
             /\ refs[l] <= HostRefs[l] + Cardinality(Pairs(HeldBy(l)))
  <2>1. ASSUME NEW s \in Slot PROVE Held(s, l) = {}
    BY DEF Init, Held, NoModule
  <2>2. Pairs(HeldBy(l)) = {}
    BY <2>1 DEF Pairs, HeldBy
  <2>. QED  BY <2>2, FS_EmptySet, MemoryModuleConstants DEF Init
<1>. QED  BY <1>2, <1>3, <1>4 DEF Inv, RefsInv

(* A library that is freed loses one reference at most, and no other does. *)
LEMMA Freed ==
  ASSUME refs \in [Library -> Nat], NEW l, FreeLibrary(l)
  PROVE  /\ refs' \in [Library -> Nat]
         /\ \A k \in Library : refs'[k] <= refs[k]
         /\ \A k \in Library \ {l} : refs'[k] = refs[k]
         /\ l \in Library => refs'[l] = 0 \/ refs'[l] = refs[l] - 1
<1>1. CASE l \in Library
  <2>1. (IF refs[l] > 0 THEN refs[l] - 1 ELSE 0) \in Nat
    BY <1>1
  <2>2. refs' = [refs EXCEPT ![l] = IF refs[l] > 0 THEN refs[l] - 1 ELSE 0]
    BY DEF FreeLibrary
  <2>3. refs' \in [Library -> Nat] /\ \A k \in Library \ {l} : refs'[k] = refs[k]
    BY <2>1, <2>2
  <2>4. refs'[l] = IF refs[l] > 0 THEN refs[l] - 1 ELSE 0
    BY <1>1, <2>2
  <2>5. refs'[l] <= refs[l] /\ (refs'[l] = 0 \/ refs'[l] = refs[l] - 1)
    BY <1>1, <2>4
  <2>. QED  BY <2>3, <2>5
<1>2. CASE l \notin Library
  <2>1. PICK n : refs' = [refs EXCEPT ![l] = n]
    BY Zenon DEF FreeLibrary
  <2>2. refs' = refs
    BY <1>2, <2>1
  <2>. QED  BY <1>2, <2>2
<1>. QED  BY <1>1, <1>2

LEMMA GoType ==
  ASSUME TypeInv, NEW s \in Slot, NEW c \in Locations, Go(s, c)
  PROVE  mod' \in [Slot -> Module]
BY DEF TypeInv, Go, Module

LEMMA NextType ==
  ASSUME TypeInv, NEW s \in Slot, mod[s].next \in Nat, NEW c \in Locations,
         mod' = [mod EXCEPT ![s].next = @ + 1, ![s].pc = c]
  PROVE  mod' \in [Slot -> Module]
<1>1. mod[s].next + 1 \in Nat /\ mod[s] \in Module
  BY DEF TypeInv
<1>. DEFINE new == [mod[s] EXCEPT !.next = mod[s].next + 1, !.pc = c]
<1>2. new \in Module
  BY <1>1 DEF Module
<1>3. mod' = [mod EXCEPT ![s] = new]
  BY DEF TypeInv
<1>. HIDE DEF new
<1>. QED  BY <1>2, <1>3 DEF TypeInv

LEMMA TypeStep ==
  ASSUME TypeInv, StageInv, NEW s \in Slot, Proceed(s) \/ Call(s)
  PROVE  TypeInv'
<1>. USE DEF TypeInv, At
<1>1. mod[s] \in Module /\ NoModule \in Module /\ mod[s].next \in Nat \ {0}
  BY DEF NoModule, NoImage, Module, Image, Locations, StageInv, Stage
<1>2. CASE LoadRefused(s) \/ BuildNameTable(s)
  BY <1>2 DEF LoadRefused, BuildNameTable, vars
<1>3. CASE Load(s)
  <2>1. PICK pe \in Images : mod' = [mod EXCEPT ![s] = [NoModule EXCEPT !.pc = "alloc", !.pe = pe]]
    BY <1>3 DEF Load
  <2>2. [NoModule EXCEPT !.pc = "alloc", !.pe = pe] \in Module
    BY <1>1, MemoryModuleConstants DEF Module, Locations
  <2>. QED  BY <1>3, <2>1, <2>2 DEF Load
<1>4. CASE AllocBlock(s) \/ HeapAlloc(s)
  BY <1>4, GoType DEF AllocBlock, HeapAlloc, Locations
<1>5. CASE AllocFails(s) \/ HeapAllocFails(s) \/ ReleaseMemory(s)
  BY <1>1, <1>5 DEF AllocFails, HeapAllocFails, ReleaseMemory
<1>6. CASE CopySections(s) \/ FinalizeSections(s) \/ ImportFails(s) \/ AttachFails(s)
  BY <1>6, GoType DEF CopySections, FinalizeSections, ImportFails, AttachFails, Fail,
     Locations
<1>7. CASE ImportDone(s) \/ NoAttach(s) \/ Free(s)
  BY <1>7, GoType DEF ImportDone, NoAttach, Free, Locations
<1>8. CASE PerformBaseRelocation(s) \/ ImportProcs(s) \/ AttachSucceeds(s)
           \/ CallEntryPoint(s) \/ Detach(s)
  <2>1. CASE ImportProcs(s)
    BY <1>1, <2>1, NextType DEF ImportProcs, Locations
  <2>2. CASE PerformBaseRelocation(s)
    BY <1>1, <2>2 DEF PerformBaseRelocation, Module, Locations
  <2>3. CASE AttachSucceeds(s)
    BY <1>1, <2>3 DEF AttachSucceeds, Module, Locations
  <2>4. CASE CallEntryPoint(s)
    BY <1>1, <2>4 DEF CallEntryPoint, Module
  <2>5. CASE Detach(s)
    BY <1>1, <2>5 DEF Detach, Module, Locations
  <2>. QED  BY <1>8, <2>1, <2>2, <2>3, <2>4, <2>5
<1>9. CASE ImportLibrary(s)
  <2>. DEFINE l == mod[s].pe.imports[mod[s].next]
  <2>1. /\ l \in Library /\ LoadLibrary(l)
        /\ mod' = [mod EXCEPT ![s].modules = Append(@, l), ![s].pc = "procs"]
        /\ UNCHANGED blocks
    BY <1>1, <1>9 DEF ImportLibrary, Module, Image
  <2>. HIDE DEF l
  <2>2. Append(mod[s].modules, l) \in Seq(Library)
    BY <1>1, <2>1 DEF Module
  <2>3. mod' \in [Slot -> Module]
    BY <1>1, <2>1, <2>2 DEF Module, Locations
  <2>. QED  BY <2>1, <2>3 DEF LoadLibrary
<1>10. CASE ImportProcMissing(s)
  BY <1>10, GoType, Freed DEF ImportProcMissing, Locations
<1>11. CASE ReleaseLibrary(s)
  <2>1. PICK l : FreeLibrary(l)
    BY <1>11 DEF ReleaseLibrary
  <2>2. mod' \in [Slot -> Module]
    <3>1. mod' = [mod EXCEPT ![s].next = @ + 1, ![s].pc = mod[s].pc]
      BY <1>1, <1>11 DEF ReleaseLibrary, Module
    <3>. QED  BY <1>1, <3>1, NextType DEF Module
  <2>. QED  BY <1>11, <2>1, <2>2, Freed DEF ReleaseLibrary
<1>. QED
  BY <1>2, <1>3, <1>4, <1>5, <1>6, <1>7, <1>8, <1>9, <1>10, <1>11
  DEF Proceed, Call, Import, Entry

LEMMA StageStep ==
  ASSUME TypeInv, StageInv, NEW s \in Slot, Proceed(s) \/ Call(s)
  PROVE  StageInv'
<1>. SUFFICES ASSUME NEW t \in Slot PROVE Stage(t)'
  BY DEF StageInv
<1>. USE DEF TypeInv, Stage, At
<1>1. /\ mod[s] \in Module /\ mod[t] \in Module /\ Stage(s) /\ Stage(t)
  BY DEF StageInv
<1>. USE <1>1
<1>2. CASE LoadRefused(s) \/ BuildNameTable(s)
  BY <1>2 DEF LoadRefused, BuildNameTable, vars
<1>3. ASSUME Fail(s), mod[s].pc \in {"sections", "import", "finalize", "entry"}
      PROVE  Stage(t)'
  BY <1>3 DEF Fail, Go, Module
<1>4. CASE CopySections(s) \/ FinalizeSections(s) \/ ImportFails(s) \/ AttachFails(s)
  <2>1. CASE Fail(s)
    BY <1>3, <1>4, <2>1 DEF CopySections, FinalizeSections, ImportFails, AttachFails
  <2>2. ASSUME mod[s].pc \in {"sections", "finalize"},
               NEW c \in {"relocate", "entry"}, Go(s, c),
               UNCHANGED <<blocks, heap, tables, attached>>
        PROVE  Stage(t)'
    BY <2>2 DEF Go, Module
  <2>. QED  BY <1>4, <2>1, <2>2 DEF CopySections, FinalizeSections, ImportFails, AttachFails
<1>5. CASE Load(s)
  BY <1>5 DEF Load, Go, Module, NoModule, HasDllEntry, MayCallEntry
<1>6. CASE AllocBlock(s)
  BY <1>6 DEF AllocBlock, Go, Module, NoModule, HasDllEntry, MayCallEntry
<1>7. CASE AllocFails(s)
  BY <1>7 DEF AllocFails, Go, Module, NoModule, HasDllEntry, MayCallEntry
<1>8. CASE HeapAlloc(s)
  BY <1>8 DEF HeapAlloc, Go, Module, NoModule, HasDllEntry, MayCallEntry
<1>9. CASE HeapAllocFails(s)
  BY <1>9 DEF HeapAllocFails, Go, Module, NoModule, HasDllEntry, MayCallEntry
<1>10. CASE PerformBaseRelocation(s)
  BY <1>10 DEF PerformBaseRelocation, Go, Module, NoModule, HasDllEntry, MayCallEntry
<1>11. CASE ImportLibrary(s)
  BY <1>11 DEF ImportLibrary, Go, Module, NoModule, HasDllEntry, MayCallEntry
<1>12. CASE ImportProcs(s)
  BY <1>12 DEF ImportProcs, Go, Module, NoModule, HasDllEntry, MayCallEntry
<1>13. CASE ImportProcMissing(s)
  BY <1>13 DEF ImportProcMissing, Go, Module, NoModule, HasDllEntry, MayCallEntry
<1>14. CASE ImportDone(s)
  BY <1>14 DEF ImportDone, Go, Module, NoModule, HasDllEntry, MayCallEntry
<1>15. CASE AttachSucceeds(s)
  BY <1>15 DEF AttachSucceeds, Go, Module, NoModule, HasDllEntry, MayCallEntry
<1>16. CASE NoAttach(s)
  BY <1>16 DEF NoAttach, Go, Module, NoModule, HasDllEntry, MayCallEntry
<1>17. CASE CallEntryPoint(s)
  BY <1>17 DEF CallEntryPoint, Go, Module, NoModule, HasDllEntry, MayCallEntry
<1>18. CASE Detach(s)
  BY <1>18 DEF Detach, Go, Module, NoModule, HasDllEntry, MayCallEntry
<1>19. CASE ReleaseLibrary(s)
  BY <1>19 DEF ReleaseLibrary, Go, Module, NoModule, HasDllEntry, MayCallEntry
<1>20. CASE ReleaseMemory(s)
  BY <1>20 DEF ReleaseMemory, Go, Module, NoModule, HasDllEntry, MayCallEntry
<1>21. CASE Free(s)
  BY <1>21 DEF Free, Go, Module
<1>. QED
  BY <1>2, <1>3, <1>4, <1>5, <1>6, <1>7, <1>8, <1>9, <1>10, <1>11, <1>12, <1>13, <1>14, <1>15, <1>16, <1>17, <1>18, <1>19, <1>20, <1>21
  DEF Proceed, Call, Import, Entry

(* The step of one module leaves what the others hold.                     *)
LEMMA OthersHold ==
  ASSUME TypeInv, NEW s \in Slot, Proceed(s) \/ Call(s), NEW t \in Slot \ {s}, NEW l
  PROVE  Held(t, l)' = Held(t, l)
<1>1. mod'[t] = mod[t]
  BY DEF TypeInv, Proceed, Call, Import, Entry, Go, Fail, vars,
     LoadRefused, Load, AllocBlock, AllocFails, HeapAlloc, HeapAllocFails, CopySections,
     PerformBaseRelocation, ImportLibrary, ImportFails, ImportProcs, ImportProcMissing,
     ImportDone, FinalizeSections, AttachSucceeds, AttachFails, NoAttach, CallEntryPoint,
     BuildNameTable, Free, Detach, ReleaseLibrary, ReleaseMemory
<1>. QED  BY <1>1 DEF Held, At

(* A reference is taken.                                                   *)
LEMMA ImportRefs ==
  ASSUME Inv, TypeInv', NEW s \in Slot, ImportLibrary(s)
  PROVE  RefsInv'
<1>. PICK k : k = mod[s].pe.imports[mod[s].next]
  OBVIOUS
<1>1. /\ refs' = [refs EXCEPT ![k] = @ + 1] /\ mod[s].pc = "import"
      /\ mod' = [mod EXCEPT ![s].modules = Append(@, k), ![s].pc = "procs"]
  BY DEF ImportLibrary, LoadLibrary, At
<1>2. /\ mod[s] \in Module /\ mod[s].modules \in Seq(Library)
      /\ mod'[s].modules = Append(mod[s].modules, k) /\ mod'[s].pc = "procs"
  BY <1>1 DEF Inv, TypeInv, Module
<1>. PICK n : n = Len(mod[s].modules) + 1
  OBVIOUS
<1>3. ASSUME NEW l \in Library
      PROVE  Held(s, l)' = IF l = k THEN Held(s, l) \cup {n} ELSE Held(s, l)
  <2>1. DOMAIN mod'[s].modules = DOMAIN mod[s].modules \cup {n}
    BY <1>2
  <2>2. /\ \A i \in DOMAIN mod[s].modules : mod'[s].modules[i] = mod[s].modules[i]
        /\ mod'[s].modules[n] = k
    BY <1>2
  <2>. QED  BY <1>1, <1>2, <2>1, <2>2 DEF Held, At
<1>4. ASSUME NEW l \in Library
      PROVE  /\ IsFiniteSet(Pairs(HeldBy(l)'))
             /\ refs'[l] <= HostRefs[l] + Cardinality(Pairs(HeldBy(l)'))
  <2>. PICK f : f = HeldBy(l)
    OBVIOUS
  <2>. PICK g : g = HeldBy(l)'
    OBVIOUS
  <2>1. /\ IsFiniteSet(Pairs(f)) /\ refs[l] <= HostRefs[l] + Cardinality(Pairs(f))
    BY DEF Inv, RefsInv
  <2>2. Cardinality(Pairs(f)) \in Nat /\ HostRefs[l] \in Nat /\ refs[l] \in Nat
    BY <2>1, FS_CardinalityType, MemoryModuleConstants DEF Inv, TypeInv
  <2>3. /\ \A t \in Slot \ {s} : g[t] = f[t]
        /\ f[s] = Held(s, l) /\ g[s] = Held(s, l)'
    BY OthersHold DEF HeldBy, Inv, Proceed, Import
  <2>4. CASE l = k
    <3>1. Pairs(g) = Pairs(f) \cup {<<s, n>>}
      <4>1. g[s] = f[s] \cup {n}
        BY <1>3, <2>3, <2>4
      <4>2. \A t \in Slot \ {s} : g[t] = f[t]
        BY <2>3
      <4>. QED  BY <4>1, <4>2 DEF Pairs
    <3>2. n \notin f[s]
      BY <1>2, <2>3 DEF Held
    <3>3. <<s, n>> \notin Pairs(f)
      BY <3>2 DEF Pairs
    <3>4. /\ IsFiniteSet(Pairs(g)) /\ Cardinality(Pairs(g)) = Cardinality(Pairs(f)) + 1
      <4>1. /\ IsFiniteSet(Pairs(f) \cup {<<s, n>>})
            /\ Cardinality(Pairs(f) \cup {<<s, n>>}) = Cardinality(Pairs(f)) + 1
        BY <2>1, <3>3, FS_AddElement
      <4>. QED  BY <3>1, <4>1, Zenon
    <3>5. refs'[l] = refs[l] + 1
      BY <1>1, <2>4 DEF Inv, TypeInv
    <3>6. refs'[l] <= HostRefs[l] + Cardinality(Pairs(g))
      BY <2>1, <2>2, <3>4, <3>5
    <3>. QED  BY <3>4, <3>6
  <2>5. CASE l # k
    <3>1. g = f
      BY <1>3, <2>3, <2>5 DEF HeldBy
    <3>2. refs'[l] = refs[l]
      BY <1>1, <2>5 DEF Inv, TypeInv
    <3>. QED  BY <2>1, <3>1, <3>2
  <2>. QED  BY <2>4, <2>5
<1>. QED  BY <1>4 DEF RefsInv, Pairs

(* A reference is given back.                                              *)
LEMMA ReleaseRefs ==
  ASSUME Inv, TypeInv', NEW s \in Slot, ReleaseLibrary(s)
  PROVE  RefsInv'
<1>. PICK n : n = mod[s].next
  OBVIOUS
<1>. PICK k : k = mod[s].modules[n]
  OBVIOUS
<1>1. /\ FreeLibrary(k) /\ mod[s].pc = "release" /\ n <= Len(mod[s].modules)
      /\ mod' = [mod EXCEPT ![s].next = @ + 1]
  BY DEF ReleaseLibrary, At
<1>2. /\ mod[s] \in Module /\ mod[s].modules \in Seq(Library) /\ n \in Nat \ {0}
      /\ mod'[s].modules = mod[s].modules /\ mod'[s].pc = "release"
      /\ mod'[s].next = n + 1
  BY <1>1 DEF Inv, TypeInv, StageInv, Stage, Module
<1>3. ASSUME NEW l \in Library
      PROVE  Held(s, l)' = IF l = k THEN Held(s, l) \ {n} ELSE Held(s, l)
  BY <1>1, <1>2 DEF Held, At
<1>4. ASSUME NEW l \in Library
      PROVE  /\ IsFiniteSet(Pairs(HeldBy(l)'))
             /\ refs'[l] <= HostRefs[l] + Cardinality(Pairs(HeldBy(l)'))
  <2>. PICK f : f = HeldBy(l)
    OBVIOUS
  <2>. PICK g : g = HeldBy(l)'
    OBVIOUS
  <2>1. /\ IsFiniteSet(Pairs(f)) /\ refs[l] <= HostRefs[l] + Cardinality(Pairs(f))
    BY DEF Inv, RefsInv
  <2>2. Cardinality(Pairs(f)) \in Nat /\ HostRefs[l] \in Nat /\ refs[l] \in Nat
    BY <2>1, FS_CardinalityType, MemoryModuleConstants DEF Inv, TypeInv
  <2>3. /\ \A t \in Slot \ {s} : g[t] = f[t]
        /\ f[s] = Held(s, l) /\ g[s] = Held(s, l)'
    BY OthersHold DEF HeldBy, Inv, Proceed
  <2>4. CASE l = k
    <3>1. Pairs(g) = Pairs(f) \ {<<s, n>>}
      <4>1. g[s] = f[s] \ {n}
        BY <1>3, <2>3, <2>4
      <4>2. \A t \in Slot \ {s} : g[t] = f[t]
        BY <2>3
      <4>. QED  BY <4>1, <4>2 DEF Pairs
    <3>2. n \in f[s]
      BY <1>1, <1>2, <2>3, <2>4 DEF Held, At
    <3>3. <<s, n>> \in Pairs(f)
      BY <3>2 DEF Pairs
    <3>4. /\ IsFiniteSet(Pairs(g)) /\ Cardinality(Pairs(g)) = Cardinality(Pairs(f)) - 1
      BY <2>1, <3>1, <3>3, FS_RemoveElement
    <3>5. refs'[l] = 0 \/ refs'[l] = refs[l] - 1
      BY <1>1, <2>4, Freed DEF Inv, TypeInv
    <3>6. Cardinality(Pairs(g)) \in Nat
      BY <3>4, FS_CardinalityType
    <3>7. refs'[l] <= HostRefs[l] + Cardinality(Pairs(g))
      BY <2>1, <2>2, <3>4, <3>5, <3>6
    <3>. QED  BY <3>4, <3>7
  <2>5. CASE l # k
    <3>1. g = f
      BY <1>3, <2>3, <2>5 DEF HeldBy
    <3>2. refs'[l] = refs[l]
      BY <1>1, <2>5, Freed DEF Inv, TypeInv
    <3>. QED  BY <2>1, <3>1, <3>2
  <2>. QED  BY <2>4, <2>5
<1>. QED  BY <1>4 DEF RefsInv, Pairs

LEMMA RefsStep ==
  ASSUME Inv, TypeInv', NEW s \in Slot, Proceed(s) \/ Call(s)
  PROVE  RefsInv'
<1>1. CASE ImportLibrary(s)
  BY <1>1, ImportRefs
<1>2. CASE ReleaseLibrary(s)
  BY <1>2, ReleaseRefs
<1>. SUFFICES ASSUME ~ ImportLibrary(s), ~ ReleaseLibrary(s) PROVE RefsInv'
  BY <1>1, <1>2
<1>. USE DEF Inv, TypeInv
<1>3. \A l \in Library : refs'[l] <= refs[l]
  <2>1. CASE ImportProcMissing(s)
    BY <2>1, Freed DEF ImportProcMissing
  <2>2. CASE ~ ImportProcMissing(s)
    <3>1. refs' = refs
      BY <2>2 DEF Proceed, Call, Import, Entry, Fail, vars, LoadRefused, Load,
         AllocBlock, AllocFails, HeapAlloc, HeapAllocFails, CopySections,
         PerformBaseRelocation, ImportFails, ImportProcs, ImportDone, FinalizeSections,
         AttachSucceeds, AttachFails, NoAttach, CallEntryPoint, BuildNameTable, Free,
         Detach, ReleaseMemory
    <3>. QED  BY <3>1
  <2>. QED  BY <2>1, <2>2
<1>4. mod[s] \in Module /\ DOMAIN mod[s].modules \subseteq Nat \ {0} /\ Stage(s)
  BY DEF Module, StageInv
<1>5. ASSUME NEW l \in Library PROVE Held(s, l)' = Held(s, l)
  <2>1. CASE Load(s) \/ AllocFails(s) \/ HeapAllocFails(s) \/ ReleaseMemory(s)
    <3>1. CASE ReleaseMemory(s)
      BY <1>4, <3>1 DEF Held, At, Module, ReleaseMemory, NoModule
    <3>2. CASE Load(s)
      <4>1. mod[s].modules = <<>>
        BY <1>4, <3>2 DEF Load, At, Stage
      <4>2. mod'[s].modules = <<>>
        BY <3>2 DEF Load, NoModule
      <4>. QED  BY <4>1, <4>2 DEF Held
    <3>3. CASE AllocFails(s) \/ HeapAllocFails(s)
      <4>1. mod[s].modules = <<>>
        BY <1>4, <3>3 DEF AllocFails, HeapAllocFails, At, Stage
      <4>2. mod'[s].modules = <<>>
        BY <3>3 DEF AllocFails, HeapAllocFails, NoModule
      <4>. QED  BY <4>1, <4>2 DEF Held
    <3>. QED  BY <2>1, <3>1, <3>2, <3>3
  <2>2. CASE Detach(s)
    <3>1. /\ mod[s].pc = "detach" /\ mod'[s].modules = mod[s].modules
          /\ mod'[s].next = 1
      BY <1>4, <2>2 DEF Detach, At, Module
    <3>. QED  BY <1>4, <3>1, HeldSame
  <2>3. CASE UNCHANGED mod
    BY <2>3 DEF Held, At
  <2>4. ASSUME mod'[s].modules = mod[s].modules, mod[s].pc # "release",
               mod'[s].pc # "release"
        PROVE  Held(s, l)' = Held(s, l)
    BY <2>4, HeldSame
  <2>5. CASE PerformBaseRelocation(s) \/ ImportProcs(s)
    BY <1>4, <2>4, <2>5 DEF PerformBaseRelocation, ImportProcs, At, Module
  <2>6. CASE AttachSucceeds(s) \/ CallEntryPoint(s)
    BY <1>4, <2>4, <2>6 DEF AttachSucceeds, CallEntryPoint, At, Module
  <2>7. CASE mod[s].pc # "release" /\ \E c \in Locations \ {"release"} : Go(s, c)
    BY <1>4, <2>4, <2>7 DEF Go, Module
  <2>8. CASE \/ AllocBlock(s) \/ HeapAlloc(s) \/ CopySections(s) \/ ImportFails(s)
             \/ ImportProcMissing(s) \/ ImportDone(s) \/ FinalizeSections(s)
             \/ AttachFails(s) \/ NoAttach(s) \/ Free(s)
    BY <2>7, <2>8
    DEF AllocBlock, HeapAlloc, CopySections, ImportFails, ImportProcMissing, ImportDone,
        FinalizeSections, AttachFails, NoAttach, Free, Fail, At, Locations
  <2>9. CASE LoadRefused(s) \/ BuildNameTable(s)
    BY <2>3, <2>9 DEF LoadRefused, BuildNameTable, vars
  <2>. QED
    BY <2>1, <2>2, <2>5, <2>6, <2>8, <2>9 DEF Proceed, Call, Import, Entry
<1>6. ASSUME NEW t \in Slot, NEW l \in Library PROVE Held(t, l)' = Held(t, l)
  BY <1>5, OthersHold
<1>. QED  BY <1>3, <1>6, SameRefs

----------------------------------------------------------------------------

LEMMA StepInv == Inv /\ [Next]_vars => Inv'
<1>. SUFFICES ASSUME Inv, [Next]_vars PROVE Inv'
  OBVIOUS
<1>1. CASE UNCHANGED vars
  <2>1. TypeInv' /\ StageInv'
    BY <1>1 DEF Inv, TypeInv, StageInv, Stage, vars
  <2>2. RefsInv'
    BY <1>1 DEF Inv, RefsInv, Pairs, HeldBy, Held, At, vars
  <2>. QED  BY <2>1, <2>2 DEF Inv
<1>2. ASSUME NEW s \in Slot, Proceed(s) \/ Call(s) PROVE Inv'
  BY <1>2, TypeStep, StageStep, RefsStep DEF Inv
<1>. QED  BY <1>1, <1>2 DEF Next

(* Wherever a load fails and whatever other modules do, what a module took *)
(* is given back, in order, and its code never runs unprepared             *)
(* (MemoryModule.c:540-752, 837-875), for every number of modules.         *)
THEOREM LivesInOrder == Spec => []LifeInOrder
<1>1. Inv => LifeInOrder
  <2>. SUFFICES ASSUME Inv PROVE LifeInOrder
    OBVIOUS
  <2>1. NoReferenceKept
    <3>1. ASSUME NEW l \in Library
          PROVE  Pairs(HeldBy(l)) = UNION {{s} \X Held(s, l) : s \in Slot}
      BY DEF Pairs, HeldBy
    <3>. QED  BY <3>1, Zenon DEF Inv, RefsInv, NoReferenceKept
  <2>2. NothingLeft /\ DetachAfterAttach /\ EntryRelocated
    BY DEF Inv, StageInv, Stage, NothingLeft, DetachAfterAttach, EntryRelocated, At
  <2>. QED  BY <2>1, <2>2 DEF LifeInOrder
<1>. QED  BY InitInv, StepInv, <1>1, PTL DEF Spec

----------------------------------------------------------------------------
(* The pages of an image (SectionPages).                                   *)

(* The hypothesis of the theorem: images as a linker writes them.          *)
LinkedImages == \A m \in PagedImages : Pages!Linked(m)

Sec(k) == pageImage.sections[k]

Address(k) == Sec(k).address

Size(k) == Pages!GetRealSectionSize(pageImage, Sec(k))

PageAt(k) == Pages!PageOf(Address(k))

Kept(k) == ~ Sec(k).discardable /\ Size(k) # 0

(* Where the sections that were gathered begin, and what follows them.     *)
Begins == sectionData.address

Follows == sectionData.address + sectionData.size

(* The sections from g on have been gathered and wait for their pages.     *)
GatheredFrom(g) ==
  /\ Begins = Address(g)
  /\ Follows = Address(section - 1) + Size(section - 1)
  /\ sectionData.discardable <=> \A j \in g .. section - 1 : Sec(j).discardable
  /\ \A j \in g .. section - 1 : Sec(j).rights \subseteq sectionData.rights
  /\ \A x \in sectionData.rights : \E j \in g .. section - 1 : x \in Sec(j).rights
  /\ \A n \in g + 1 .. section - 1 :
       \/ PageAt(g) = PageAt(n)
       \/ Address(n - 1) + Size(n - 1) > PageAt(n) * PageSize

(* Section k has what it needs, and its pages no right of others.          *)
Usable(k) ==
  Kept(k) => \A p \in Pages!Extent(k) : p \in committed
                                        /\ Sec(k).rights \subseteq protect[p]

OwnRights(k) ==
  ~ Sec(k).discardable /\ Sec(k).raw # 0 =>
    \A p \in Pages!Extent(k) : \A x \in protect[p] :
      \E j \in Pages!Sections : /\ x \in Sec(j).rights
                                /\ Pages!Chained(j, k) \/ Pages!Chained(k, j)

Settled(g) ==
  \A k \in 1 .. g - 1 : Usable(k) /\ OwnRights(k)

(* The kept sections before g end on pages before its own.                 *)
Behind(g) ==
  \A k \in 1 .. g - 1 : Kept(k) => \A p \in Pages!Extent(k) : p < PageAt(g)

PagesType ==
  /\ pageImage \in PagedImages
  /\ section \in 2 .. Len(pageImage.sections) + 1
  /\ sectionData \in [address : Nat, size : Nat, rights : SUBSET Pages!Right,
                      discardable : BOOLEAN]
  /\ protect = [p \in Pages!Page |-> protect[p]]
  /\ committed \subseteq Pages!Page
  /\ pageResult \in {"running", "TRUE", "FALSE"}

Gathering ==
  \E g \in 1 .. section - 1 : GatheredFrom(g) /\ Settled(g) /\ Behind(g)

PagesInv ==
  /\ PagesType
  /\ pageResult = "running" => Gathering
  /\ pageResult = "TRUE" => Settled(Len(pageImage.sections) + 1)
  /\ Pages!OnlyDiscardedGone

----------------------------------------------------------------------------
(* Division into pages.                                                    *)

LEMMA PageSizePositive == PageSize \in Nat \ {0}
BY PagesConstants DEF Pages!SectionPagesConstants

LEMMA PageBounds ==
  \A a \in Nat : /\ Pages!PageOf(a) \in Nat
                 /\ Pages!PageOf(a) * PageSize \in Nat
                 /\ Pages!PageOf(a) * PageSize <= a
                 /\ a < Pages!PageOf(a) * PageSize + PageSize
BY PageSizePositive DEF Pages!PageOf

LEMMA PagesApart ==
  \A q, r \in Nat : q < r => q * PageSize + PageSize <= r * PageSize
<1>1. SUFFICES ASSUME NEW q \in Nat, NEW r \in Nat, q < r
               PROVE  q * PageSize + PageSize <= r * PageSize
  OBVIOUS
<1>2. PICK d \in Nat : r = q + 1 + d
  <2>1. r - q - 1 \in Nat /\ r = q + 1 + (r - q - 1)
    BY <1>1
  <2>. QED  BY <2>1
<1>3. r * PageSize = q * PageSize + PageSize + d * PageSize
  BY <1>2, PageSizePositive
<1>4. d * PageSize \in Nat /\ q * PageSize \in Nat
  BY PageSizePositive
<1>. QED  BY <1>3, <1>4, PageSizePositive

(* A later place is on the same page or a later one.                       *)
LEMMA PageMonotone ==
  \A a, b \in Nat : a <= b => Pages!PageOf(a) <= Pages!PageOf(b)
<1>1. SUFFICES ASSUME NEW a \in Nat, NEW b \in Nat, a <= b,
                      ~ (Pages!PageOf(a) <= Pages!PageOf(b))
               PROVE  FALSE
  OBVIOUS
<1>2. Pages!PageOf(b) * PageSize + PageSize <= Pages!PageOf(a) * PageSize
  BY <1>1, PageBounds, PagesApart
<1>. QED  BY <1>1, <1>2, PageBounds, PageSizePositive

(* What is before the start of a page is on an earlier page.               *)
LEMMA PageBefore ==
  \A a, b \in Nat :
    a < Pages!PageOf(b) * PageSize => Pages!PageOf(a) < Pages!PageOf(b)
<1>1. SUFFICES ASSUME NEW a \in Nat, NEW b \in Nat,
                      a < Pages!PageOf(b) * PageSize,
                      ~ (Pages!PageOf(a) < Pages!PageOf(b))
               PROVE  FALSE
  OBVIOUS
<1>2. CASE Pages!PageOf(a) = Pages!PageOf(b)
  BY <1>1, <1>2, PageBounds
<1>3. CASE Pages!PageOf(b) < Pages!PageOf(a)
  <2>1. Pages!PageOf(b) * PageSize + PageSize <= Pages!PageOf(a) * PageSize
    BY <1>3, PageBounds, PagesApart
  <2>. QED  BY <1>1, <2>1, PageBounds, PageSizePositive
<1>. QED  BY <1>1, <1>2, <1>3, PageBounds

----------------------------------------------------------------------------
(* The sections of the image.                                              *)

LEMMA SectionFields ==
  ASSUME pageImage \in PagedImages, NEW k \in 1 .. Len(pageImage.sections)
  PROVE  /\ Sec(k) \in Pages!Section
         /\ Address(k) \in Nat /\ Size(k) \in Nat
         /\ Pages!Copied(pageImage, Sec(k)) \in Nat \ {0}
         /\ Sec(k).raw # 0 => /\ Size(k) = Sec(k).raw
                             /\ Pages!Copied(pageImage, Sec(k)) = Sec(k).raw
<1>1. pageImage \in Pages!Image
  BY PagesConstants DEF Pages!SectionPagesConstants
<1>2. /\ Sec(k) \in Pages!Section /\ pageImage.alignment \in Nat \ {0}
      /\ pageImage.initialized \in Nat /\ pageImage.uninitialized \in Nat
  BY <1>1 DEF Pages!Image, Sec
<1>3. /\ Address(k) \in Nat /\ Sec(k).raw \in Nat
      /\ Sec(k).data \in {"initialized", "uninitialized", "none"}
  BY <1>2 DEF Pages!Section, Address
<1>4. Size(k) \in Nat /\ (Sec(k).raw # 0 => Size(k) = Sec(k).raw)
  BY <1>2, <1>3 DEF Size, Pages!GetRealSectionSize
<1>. QED  BY <1>2, <1>3, <1>4 DEF Pages!Copied

LEMMA SectionTypes ==
  ASSUME PagesType, NEW k \in 1 .. Len(pageImage.sections)
  PROVE  /\ Sec(k) \in Pages!Section
         /\ Address(k) \in Nat /\ Size(k) \in Nat
         /\ Pages!Copied(pageImage, Sec(k)) \in Nat \ {0}
         /\ Sec(k).raw # 0 => /\ Size(k) = Sec(k).raw
                             /\ Pages!Copied(pageImage, Sec(k)) = Sec(k).raw
BY SectionFields DEF PagesType

(* The sections are in order and apart.                                    *)
LEMMA SectionsApart ==
  ASSUME PagesType, LinkedImages,
         NEW j \in 1 .. Len(pageImage.sections),
         NEW k \in 1 .. Len(pageImage.sections), j < k
  PROVE  Address(j) + Pages!Copied(pageImage, Sec(j)) <= Address(k)
<1>1. DOMAIN pageImage.sections = 1 .. Len(pageImage.sections)
  BY PagesConstants DEF PagesType, Pages!SectionPagesConstants, Pages!Image
<1>. QED  BY <1>1 DEF LinkedImages, PagesType, Pages!Linked, Sec, Address

LEMMA AddressesRise ==
  ASSUME PagesType, LinkedImages,
         NEW j \in 1 .. Len(pageImage.sections),
         NEW k \in 1 .. Len(pageImage.sections)
  PROVE  /\ Address(k) \in Nat /\ PageAt(k) \in Nat
         /\ j < k => Address(j) < Address(k)
         /\ j <= k => PageAt(j) <= PageAt(k)
<1>1. /\ Address(j) \in Nat /\ Address(k) \in Nat
      /\ Pages!Copied(pageImage, Sec(j)) \in Nat \ {0}
  BY SectionTypes DEF Pages!Section
<1>2. j < k => Address(j) < Address(k)
  BY <1>1, SectionsApart
<1>3. j <= k => Address(j) <= Address(k)
  BY <1>1, <1>2
<1>. QED  BY <1>1, <1>2, <1>3, PageBounds, PageMonotone DEF PageAt

(* The pages of a section.                                                 *)
LastByte(k) == Address(k) + Pages!Copied(pageImage, Sec(k)) - 1

LEMMA ExtentPages ==
  ASSUME PagesType, NEW k \in 1 .. Len(pageImage.sections)
  PROVE  /\ LastByte(k) \in Nat /\ Address(k) <= LastByte(k)
         /\ Pages!Extent(k) = PageAt(k) .. Pages!PageOf(LastByte(k))
         /\ PageAt(k) \in Nat /\ Pages!PageOf(LastByte(k)) \in Nat
<1>1. /\ Address(k) \in Nat /\ Pages!Copied(pageImage, Sec(k)) \in Nat \ {0}
  BY SectionTypes
<1>2. LastByte(k) \in Nat /\ Address(k) <= LastByte(k)
  BY <1>1 DEF LastByte
<1>3. Pages!Extent(k) = PageAt(k) .. Pages!PageOf(LastByte(k))
  BY <1>1 DEF Pages!Extent, Pages!PagesOf, PageAt, Sec, Address, LastByte
<1>. QED  BY <1>1, <1>2, <1>3, PageBounds DEF PageAt

(* A section that starts on a page comes after the pages of those before.  *)
LEMMA ExtentBefore ==
  ASSUME PagesType, LinkedImages,
         NEW j \in 1 .. Len(pageImage.sections),
         NEW k \in 1 .. Len(pageImage.sections), j < k,
         Address(k) % PageSize = 0,
         NEW p \in Pages!Extent(j)
  PROVE  p < PageAt(k)
<1>1. /\ LastByte(j) \in Nat /\ LastByte(j) < Address(k)
      /\ Address(k) \in Nat
  <2>1. Address(j) + Pages!Copied(pageImage, Sec(j)) <= Address(k)
    BY SectionsApart
  <2>2. /\ Address(j) \in Nat /\ Address(k) \in Nat
        /\ Pages!Copied(pageImage, Sec(j)) \in Nat
    BY SectionTypes
  <2>3. LastByte(j) \in Nat
    BY ExtentPages
  <2>. QED  BY <2>1, <2>2, <2>3 DEF LastByte
<1>2. Address(k) = PageAt(k) * PageSize
  <2>. DEFINE a == Address(k)
  <2>1. a \in Nat /\ a % PageSize = 0
    BY <1>1
  <2>. HIDE DEF a
  <2>2. a = (a \div PageSize) * PageSize
    BY <2>1, PageSizePositive
  <2>. QED  BY <2>2 DEF PageAt, Pages!PageOf, a
<1>3. Pages!PageOf(LastByte(j)) < PageAt(k)
  BY <1>1, <1>2, PageBefore DEF PageAt
<1>4. /\ p \in PageAt(j) .. Pages!PageOf(LastByte(j))
      /\ PageAt(j) \in Nat /\ Pages!PageOf(LastByte(j)) \in Nat
  BY ExtentPages
<1>5. PageAt(k) \in Nat
  BY <1>1, PageBounds DEF PageAt
<1>. QED  BY <1>3, <1>4, <1>5

LEMMA ExtentAfter ==
  ASSUME PagesType, LinkedImages,
         NEW j \in 1 .. Len(pageImage.sections),
         NEW k \in 1 .. Len(pageImage.sections), j <= k,
         NEW p \in Pages!Extent(k)
  PROVE  PageAt(j) <= p
<1>1. /\ p \in PageAt(k) .. Pages!PageOf(LastByte(k))
      /\ PageAt(k) \in Nat /\ Pages!PageOf(LastByte(k)) \in Nat
  BY ExtentPages
<1>2. PageAt(j) <= PageAt(k) /\ PageAt(j) \in Nat
  BY AddressesRise
<1>. QED  BY <1>1, <1>2

----------------------------------------------------------------------------
(* The sections that have been gathered.                                   *)

LEMMA GonePages ==
  ASSUME PagesType
  PROVE  /\ Begins \in Nat /\ Follows \in Nat /\ Begins <= Follows
         /\ sectionData.size # 0 <=> Begins # Follows
         /\ Begins # Follows =>
              /\ Follows - 1 \in Nat
              /\ Pages!Gone = Pages!PageOf(Begins) .. Pages!PageOf(Follows - 1)
<1>1. sectionData.address \in Nat /\ sectionData.size \in Nat
  BY DEF PagesType
<1>2. /\ Begins \in Nat /\ Follows \in Nat /\ Begins <= Follows
      /\ sectionData.size # 0 <=> Begins # Follows
  BY <1>1 DEF Begins, Follows
<1>. QED  BY <1>1, <1>2 DEF Pages!Gone, Pages!PagesOf, Begins, Follows

(* A section that shares no page with them is behind their pages.          *)
LEMMA GoneBefore ==
  ASSUME PagesType, sectionData.size # 0,
         NEW k \in 1 .. Len(pageImage.sections), ~ Pages!SharesPage(Sec(k)),
         NEW p \in Pages!Gone
  PROVE  p < PageAt(k)
<1>1. /\ Begins \in Nat /\ Follows \in Nat /\ Follows - 1 \in Nat
      /\ Address(k) \in Nat
  BY SectionTypes, GonePages
<1>2. p \in Pages!PageOf(Begins) .. Pages!PageOf(Follows - 1)
  BY GonePages
<1>3. Pages!PageOf(Begins) \in Nat /\ Pages!PageOf(Follows - 1) \in Nat
  BY <1>1, PageBounds
<1>4. /\ ~ (Follows > PageAt(k) * PageSize)
      /\ PageAt(k) * PageSize \in Nat /\ PageAt(k) \in Nat
  BY <1>1, PageBounds DEF Pages!SharesPage, PageAt, Address, Follows
<1>5. Pages!PageOf(Follows - 1) < PageAt(k)
  BY <1>1, <1>4, PageBefore DEF PageAt
<1>. QED  BY <1>2, <1>3, <1>4, <1>5

(* The pages that are set are all those of the kept sections gathered.     *)
LEMMA ExtentGone ==
  ASSUME PagesType, LinkedImages, NEW g \in 1 .. section - 1, GatheredFrom(g),
         NEW k \in g .. section - 1, Kept(k)
  PROVE  sectionData.size # 0 /\ Pages!Extent(k) \subseteq Pages!Gone
<1>. DEFINE l == section - 1
            ending == Address(l) + Size(l)
<1>1. /\ l \in 1 .. Len(pageImage.sections) /\ k \in 1 .. Len(pageImage.sections)
      /\ g \in 1 .. Len(pageImage.sections) /\ g <= k /\ k <= l
  BY DEF PagesType
<1>2. /\ Address(g) \in Nat /\ Address(k) \in Nat /\ Address(l) \in Nat
      /\ Size(l) \in Nat /\ Pages!Copied(pageImage, Sec(k)) \in Nat \ {0}
  BY <1>1, SectionTypes
<1>3. Address(g) <= Address(k) /\ PageAt(g) <= PageAt(k)
  <2>1. g = k \/ g < k
    BY <1>1
  <2>. QED  BY <1>1, <1>2, <2>1, AddressesRise
<1>4. Begins = Address(g) /\ Follows = ending
  BY DEF GatheredFrom
<1>5. /\ Pages!Extent(k) = PageAt(k) .. Pages!PageOf(LastByte(k))
      /\ LastByte(k) \in Nat
  BY <1>1, ExtentPages
<1>6. PageAt(g) \in Nat /\ PageAt(k) \in Nat
  BY <1>2, PageBounds DEF PageAt
<1>7. ASSUME ending > Address(g)
      PROVE  /\ sectionData.size # 0
             /\ Pages!Gone = PageAt(g) .. Pages!PageOf(ending - 1)
             /\ ending - 1 \in Nat
  <2>1. Begins # Follows
    BY <1>2, <1>4, <1>7
  <2>. QED  BY <1>4, <2>1, GonePages DEF PageAt
<1>8. CASE k < l
  <2>1. Address(k) + Pages!Copied(pageImage, Sec(k)) <= Address(l)
    BY <1>1, <1>8, SectionsApart
  <2>2. ending > Address(g) /\ LastByte(k) <= ending - 1
    BY <1>2, <1>3, <2>1 DEF LastByte
  <2>. HIDE DEF ending
  <2>3. Pages!PageOf(LastByte(k)) <= Pages!PageOf(ending - 1)
    BY <1>5, <1>7, <2>2, PageMonotone
  <2>4. Pages!PageOf(LastByte(k)) \in Nat /\ Pages!PageOf(ending - 1) \in Nat
    BY <1>5, <1>7, <2>2, PageBounds
  <2>. QED  BY <1>3, <1>5, <1>6, <1>7, <2>2, <2>3, <2>4
<1>9. CASE k = l
  <2>1. Size(k) \in Nat /\ Size(k) # 0 /\ ending = Address(k) + Size(k)
    BY <1>2, <1>9 DEF Kept
  <2>2. ending > Address(g)
    <3>1. Address(k) + Size(k) > Address(g)
      BY <1>2, <1>3, <2>1
    <3>. QED  BY <2>1, <3>1
  <2>3. /\ DOMAIN pageImage.sections = 1 .. Len(pageImage.sections)
        /\ Pages!Linked(pageImage)
    BY PagesConstants
    DEF PagesType, LinkedImages, Pages!SectionPagesConstants, Pages!Image
  <2>4. Pages!Extent(k) \subseteq Pages!PagesOf(Address(k), Size(k))
    BY <1>1, <2>3 DEF Kept, Pages!Linked, Pages!Extent, Sec, Size, Address
  <2>5. Pages!Extent(k) \subseteq PageAt(k) .. Pages!PageOf(ending - 1)
    <3>1. Pages!PagesOf(Address(k), Size(k))
            = PageAt(k) .. Pages!PageOf((Address(k) + Size(k)) - 1)
      <4>1. Address(k) + Size(k) - 1 = (Address(k) + Size(k)) - 1
        BY <1>2, <2>1
      <4>. QED  BY <2>1, <4>1 DEF Pages!PagesOf, PageAt
    <3>. QED  BY <2>1, <2>4, <3>1
  <2>. HIDE DEF ending
  <2>6. Pages!PageOf(ending - 1) \in Nat
    BY <1>7, <2>2, PageBounds
  <2>. QED  BY <1>3, <1>6, <1>7, <2>2, <2>5, <2>6
<1>. QED  BY <1>1, <1>8, <1>9

(* Sections that are gathered together are chained.                        *)
LEMMA GatheredChained ==
  ASSUME PagesType, LinkedImages, NEW g \in 1 .. section - 1, GatheredFrom(g),
         NEW j \in g .. section - 1, NEW k \in j .. section - 1
  PROVE  Pages!Chained(j, k)
<1>1. SUFFICES ASSUME NEW n \in j + 1 .. k
               PROVE  \E m \in j .. n - 1 :
                        \/ PageAt(m) = PageAt(n)
                        \/ Address(m) + Size(m) > PageAt(n) * PageSize
  BY DEF Pages!Chained, Sec, Size, PageAt, Address
<1>2. /\ n \in g + 1 .. section - 1 /\ n - 1 \in j .. n - 1 /\ j \in j .. n - 1
      /\ \A m \in {g, j, n} : m \in 1 .. Len(pageImage.sections)
  BY SMTT(30) DEF PagesType
<1>3. CASE PageAt(g) = PageAt(n)
  <2>1. /\ PageAt(g) <= PageAt(j) /\ PageAt(j) <= PageAt(n)
        /\ PageAt(j) \in Nat /\ PageAt(n) \in Nat
    BY <1>2, AddressesRise
  <2>. QED  BY <1>2, <1>3, <2>1
<1>4. CASE Address(n - 1) + Size(n - 1) > PageAt(n) * PageSize
  BY <1>2, <1>4
<1>. QED  BY <1>2, <1>3, <1>4 DEF GatheredFrom

LEMMA GoneFrom ==
  ASSUME PagesType, NEW g \in 1 .. section - 1, GatheredFrom(g),
         sectionData.size # 0, NEW p \in Pages!Gone
  PROVE  PageAt(g) <= p
<1>1. p \in PageAt(g) .. Pages!PageOf(Follows - 1)
  BY GonePages DEF GatheredFrom, PageAt
<1>2. PageAt(g) \in Nat /\ Pages!PageOf(Follows - 1) \in Nat
  BY GonePages, PageBounds DEF GatheredFrom, PageAt
<1>. QED  BY <1>1, <1>2

----------------------------------------------------------------------------
(* A step.                                                                 *)

LEMMA SameImage ==
  ASSUME pageImage' = pageImage
  PROVE  /\ Pages!Page' = Pages!Page /\ Pages!Sections' = Pages!Sections
         /\ \A k : /\ Sec(k)' = Sec(k) /\ Size(k)' = Size(k)
                   /\ Address(k)' = Address(k) /\ PageAt(k)' = PageAt(k)
                   /\ Kept(k)' <=> Kept(k)
                   /\ Pages!Extent(k)' = Pages!Extent(k)
         /\ \A j, k : Pages!Chained(j, k)' <=> Pages!Chained(j, k)
<1>1. Pages!Page' = Pages!Page /\ Pages!Sections' = Pages!Sections
  BY DEF Pages!Page, Pages!Sections
<1>2. \A k : /\ Sec(k)' = Sec(k) /\ Size(k)' = Size(k)
             /\ Address(k)' = Address(k) /\ PageAt(k)' = PageAt(k)
  BY DEF Sec, Size, Address, PageAt
<1>3. \A k : (Kept(k)' <=> Kept(k)) /\ Pages!Extent(k)' = Pages!Extent(k)
  BY <1>2 DEF Kept, Pages!Extent
<1>4. \A j, k : Pages!Chained(j, k)' <=> Pages!Chained(j, k)
  BY DEF Pages!Chained
<1>. QED  BY <1>1, <1>2, <1>3, <1>4

(* A kept section with bytes in the file has a size.                       *)
LEMMA FilledKept ==
  ASSUME PagesType, NEW k \in 1 .. Len(pageImage.sections),
         ~ Sec(k).discardable, Sec(k).raw # 0
  PROVE  Kept(k)
BY SectionTypes DEF Kept

(* Finalizing settles the sections that were gathered, and no others.      *)
LEMMA FinalizeSettles ==
  ASSUME PagesType, LinkedImages, Pages!OnlyDiscardedGone,
         NEW g \in 1 .. section - 1, GatheredFrom(g), Settled(g), Behind(g),
         NEW last \in BOOLEAN, Pages!Finalize(last), pageImage' = pageImage,
         \A k \in section .. Len(pageImage.sections) :
           \A p \in Pages!Gone : sectionData.size # 0 => p < PageAt(k)
  PROVE  /\ committed' \subseteq Pages!Page
         /\ protect' = [p \in Pages!Page |-> protect'[p]]
         /\ \A k \in 1 .. section - 1 : Usable(k)' /\ OwnRights(k)'
         /\ Pages!OnlyDiscardedGone'
<1>. DEFINE Rest == /\ \A k \in 1 .. section - 1 : Usable(k)' /\ OwnRights(k)'
                    /\ Pages!OnlyDiscardedGone'
<1>1. /\ committed' \subseteq committed /\ committed \subseteq Pages!Page
      /\ protect = [p \in Pages!Page |-> protect[p]]
  BY DEF PagesType, Pages!Finalize, Pages!Discard, Pages!Protect
<1>2. \A k \in 1 .. section - 1 : k \in 1 .. Len(pageImage.sections)
  BY DEF PagesType
<1>3. \A k \in g .. section - 1 : Kept(k) =>
        sectionData.size # 0 /\ Pages!Extent(k) \subseteq Pages!Gone
  BY ExtentGone
<1>4. ASSUME NEW k \in 1 .. g - 1, Kept(k), NEW p \in Pages!Extent(k)
      PROVE  /\ p \in committed /\ Sec(k).rights \subseteq protect[p]
             /\ sectionData.size # 0 => p \notin Pages!Gone
  <2>1. p \in committed /\ Sec(k).rights \subseteq protect[p] /\ p < PageAt(g)
    BY <1>4 DEF Settled, Usable, Behind
  <2>2. k \in 1 .. Len(pageImage.sections)
    BY <1>2
  <2>3. PageAt(g) \in Nat /\ p \in Int
    BY <1>2, <2>2, AddressesRise, ExtentPages
  <2>. QED  BY <2>1, <2>3, GoneFrom
<1>5. \A k \in 1 .. section - 1 :
        ~ Sec(k).discardable /\ Sec(k).raw # 0 => Kept(k)
  BY <1>2, FilledKept
<1>6. ASSUME UNCHANGED <<protect, committed>>,
             \A k \in g .. section - 1 : ~ Kept(k)
      PROVE  Rest
  <2>1. Pages!OnlyDiscardedGone'
    BY <1>6 DEF Pages!OnlyDiscardedGone, Pages!Page, Pages!Sections, Pages!Extent
  <2>2. ASSUME NEW k \in 1 .. section - 1 PROVE Usable(k)' /\ OwnRights(k)'
    <3>1. CASE k < g
      <4>1. Usable(k) /\ OwnRights(k)
        BY <3>1 DEF Settled
      <4>. QED  BY <1>6, <4>1, SameImage DEF Usable, OwnRights
    <3>2. CASE k >= g
      <4>1. ~ Kept(k)
        BY <1>6, <3>2
      <4>. QED  BY <1>5, <4>1, SameImage DEF Usable, OwnRights
    <3>. QED  BY <3>1, <3>2
  <2>. QED  BY <2>1, <2>2
<1>7. CASE sectionData.size = 0
  <2>1. UNCHANGED <<protect, committed>>
    BY <1>7 DEF Pages!Finalize
  <2>. QED  BY <1>1, <1>3, <1>6, <1>7, <2>1
<1>8. CASE sectionData.size # 0 /\ Pages!Discard(last)
  <2>1. /\ protect' = protect
        /\ \A k \in g .. section - 1 : Sec(k).discardable /\ ~ Kept(k)
    BY <1>8 DEF Pages!Discard, GatheredFrom, Kept
  <2>2. CASE committed' = committed
    BY <1>1, <1>6, <2>1, <2>2
  <2>3. CASE committed' = committed \ Pages!Gone /\ Pages!MayDecommit(last)
    <3>1. ASSUME NEW k \in 1 .. section - 1 PROVE Usable(k)' /\ OwnRights(k)'
      <4>1. CASE k < g /\ Kept(k)
        <5>1. \A p \in Pages!Extent(k) : p \in committed'
                                          /\ Sec(k).rights \subseteq protect'[p]
          BY <1>4, <1>8, <2>1, <2>3, <4>1
        <5>2. OwnRights(k)
          BY <4>1 DEF Settled
        <5>. QED  BY <2>1, <5>1, <5>2, SameImage DEF Usable, OwnRights
      <4>2. CASE ~ Kept(k)
        BY <1>5, <4>2, SameImage DEF Usable, OwnRights
      <4>. QED  BY <2>1, <4>1, <4>2
    <3>2. Pages!OnlyDiscardedGone'
      <4>1. SUFFICES ASSUME NEW p \in Pages!Page \ committed', NEW k \in Pages!Sections,
                            p \in Pages!Extent(k)
                     PROVE  Sec(k).discardable
        BY SameImage DEF Pages!OnlyDiscardedGone, Sec
      <4>2. CASE p \notin committed
        BY <4>1, <4>2 DEF Pages!OnlyDiscardedGone, Sec
      <4>3. CASE p \in Pages!Gone
        <5>1. k \in 1 .. Len(pageImage.sections) /\ g \in 1 .. Len(pageImage.sections)
          BY <1>2 DEF Pages!Sections
        <5>2. PageAt(g) \in Nat /\ PageAt(k) \in Nat /\ p \in Int
          BY <4>1, <5>1, AddressesRise, ExtentPages
        <5>3. CASE k < g
          <6>1. Address(g) % PageSize = 0
            BY <2>3 DEF Pages!MayDecommit, GatheredFrom, Begins
          <6>2. p < PageAt(g)
            BY <4>1, <5>1, <5>3, <6>1, ExtentBefore
          <6>3. PageAt(g) <= p
            BY <1>8, <4>3, GoneFrom
          <6>. QED  BY <5>2, <6>2, <6>3
        <5>4. CASE k \in g .. section - 1
          BY <2>1, <5>4
        <5>5. CASE k >= section
          <6>1. p < PageAt(k)
            BY <1>8, <4>3, <5>1, <5>5 DEF PagesType
          <6>2. PageAt(k) <= p
            BY <4>1, <5>1, ExtentAfter
          <6>. QED  BY <5>2, <6>1, <6>2
        <5>. QED  BY <5>1, <5>3, <5>4, <5>5 DEF PagesType
      <4>. QED  BY <2>3, <4>1, <4>2, <4>3
    <3>. QED  BY <1>1, <2>1, <3>1, <3>2
  <2>. QED  BY <1>8, <2>2, <2>3 DEF Pages!Discard
<1>9. CASE sectionData.size # 0 /\ Pages!Protect
  <2>1. /\ committed' = committed /\ Pages!Gone \subseteq committed
        /\ protect' = [p \in Pages!Page |-> IF p \in Pages!Gone
                                            THEN sectionData.rights ELSE protect[p]]
    <3>1. DOMAIN protect = Pages!Page
      BY <1>1
    <3>. QED  BY <1>9, <3>1 DEF Pages!Protect
  <2>2. ASSUME NEW k \in 1 .. section - 1, Kept(k)
        PROVE  Usable(k)' /\ OwnRights(k)'
    <3>1. CASE k < g
      <4>1. \A p \in Pages!Extent(k) :
              p \in committed' /\ Sec(k).rights \subseteq protect'[p]
              /\ protect'[p] = protect[p]
        BY <1>1, <1>4, <1>9, <2>1, <2>2, <3>1
      <4>2. OwnRights(k)
        BY <3>1 DEF Settled
      <4>. QED  BY <4>1, <4>2, SameImage DEF Usable, OwnRights
    <3>2. CASE k \in g .. section - 1
      <4>1. \A p \in Pages!Extent(k) :
              p \in committed' /\ protect'[p] = sectionData.rights
        BY <1>1, <1>3, <2>1, <2>2, <3>2
      <4>2. Sec(k).rights \subseteq sectionData.rights
        BY <3>2 DEF GatheredFrom
      <4>3. ASSUME NEW x \in sectionData.rights
            PROVE  \E j \in Pages!Sections :
                     /\ x \in Sec(j).rights
                     /\ Pages!Chained(j, k) \/ Pages!Chained(k, j)
        <5>1. PICK j \in g .. section - 1 : x \in Sec(j).rights
          BY DEF GatheredFrom
        <5>2. j \in Pages!Sections
          BY <1>2 DEF Pages!Sections
        <5>3. CASE j <= k
          BY <3>2, <5>1, <5>2, <5>3, GatheredChained
        <5>4. CASE k <= j
          BY <3>2, <5>1, <5>2, <5>4, GatheredChained
        <5>. QED  BY <5>3, <5>4
      <4>. QED  BY <4>1, <4>2, <4>3, SameImage DEF Usable, OwnRights
    <3>. QED  BY <3>1, <3>2
  <2>3. ASSUME NEW k \in 1 .. section - 1, ~ Kept(k)
        PROVE  Usable(k)' /\ OwnRights(k)'
    BY <1>5, <2>3, SameImage DEF Usable, OwnRights
  <2>4. Pages!OnlyDiscardedGone'
    BY <2>1, SameImage DEF Pages!OnlyDiscardedGone
  <2>. QED  BY <1>1, <2>1, <2>2, <2>3, <2>4
<1>. QED  BY <1>7, <1>8, <1>9 DEF Pages!Finalize

(* One section begins a new gathering.                                     *)
LEMMA GatheredType ==
  ASSUME pageImage \in PagedImages, NEW k \in 1 .. Len(pageImage.sections)
  PROVE  Pages!Gathered(Sec(k)) \in
           [address : Nat, size : Nat, rights : SUBSET Pages!Right,
            discardable : BOOLEAN]
<1>1. /\ Sec(k).address \in Nat /\ Sec(k).rights \in SUBSET Pages!Right
      /\ Sec(k).discardable \in BOOLEAN
      /\ Pages!GetRealSectionSize(pageImage, Sec(k)) \in Nat
  BY SectionFields DEF Pages!Section, Size
<1>. QED  BY <1>1 DEF Pages!Gathered

LEMMA JoinStep ==
  ASSUME PagesInv, LinkedImages, Pages!Join
  PROVE  PagesInv'
<1>. DEFINE s == Sec(section)
            d == sectionData'
<1>1. /\ pageResult = "running" /\ section <= Len(pageImage.sections)
      /\ Pages!SharesPage(s) /\ section' = section + 1
      /\ UNCHANGED <<pageImage, protect, committed, pageResult>>
      /\ d = Pages!Joined(s)
  BY DEF Pages!Join, Sec
<1>2. PagesType /\ section \in 2 .. Len(pageImage.sections)
  BY <1>1 DEF PagesInv, PagesType
<1>3. PICK g \in 1 .. section - 1 : GatheredFrom(g) /\ Settled(g) /\ Behind(g)
  BY <1>1 DEF PagesInv, Gathering
<1>4. /\ section \in 1 .. Len(pageImage.sections) /\ g \in 1 .. Len(pageImage.sections)
      /\ g < section
  BY <1>2
<1>5. /\ Address(section) \in Nat /\ Size(section) \in Nat /\ Begins \in Nat
      /\ Begins < Address(section)
  <2>1. Address(section) \in Nat /\ Size(section) \in Nat
    BY <1>2, <1>4, SectionTypes
  <2>2. Begins \in Nat /\ Begins = Address(g) /\ Address(g) < Address(section)
    BY <1>2, <1>3, <1>4, AddressesRise, GonePages DEF GatheredFrom
  <2>. QED  BY <2>1, <2>2
<1>6. d = [address |-> Begins,
           size |-> Address(section) + (Size(section) - Begins),
           rights |-> sectionData.rights \cup s.rights,
           discardable |-> sectionData.discardable /\ s.discardable]
  BY <1>1, <1>2 DEF Pages!Joined, PagesType, Begins, Address, Size
<1>7. /\ s.rights \in SUBSET Pages!Right /\ s.discardable \in BOOLEAN
      /\ sectionData.rights \in SUBSET Pages!Right
      /\ sectionData.discardable \in BOOLEAN
  BY <1>2, <1>4, SectionTypes DEF Pages!Section, PagesType
<1>8. /\ Address(section) + (Size(section) - Begins) \in Nat
      /\ Begins + (Address(section) + (Size(section) - Begins))
           = Address(section) + Size(section)
  BY <1>5
<1>9. /\ Begins' = Begins /\ Follows' = Address(section) + Size(section)
      /\ d.rights = sectionData.rights \cup s.rights
      /\ d.discardable <=> sectionData.discardable /\ s.discardable
  BY <1>6, <1>8 DEF Begins, Follows
<1>10. PagesType'
  <2>1. d \in [address : Nat, size : Nat, rights : SUBSET Pages!Right,
               discardable : BOOLEAN]
    BY <1>5, <1>6, <1>7, <1>8
  <2>2. section' \in 2 .. Len(pageImage.sections) + 1
    BY <1>1, <1>2
  <2>. QED  BY <1>1, <1>2, <2>1, <2>2, SameImage DEF PagesType
<1>11. GatheredFrom(g)'
  <2>. HIDE DEF d
  <2>1. \A j \in g .. section : j = section \/ j \in g .. section - 1
    BY <1>2
  <2>2. section' - 1 = section /\ section \in g .. section
    BY <1>1, <1>2, <1>4
  <2>3. \A n \in g + 1 .. section : n = section \/ n \in g + 1 .. section - 1
    BY <1>2
  <2>4. \/ PageAt(g) = PageAt(section)
        \/ Address(section - 1) + Size(section - 1) > PageAt(section) * PageSize
    <3>1. \/ Pages!PageOf(Begins) = Pages!PageOf(Address(section))
          \/ Follows > Pages!PageOf(Address(section)) * PageSize
      BY <1>1 DEF Pages!SharesPage, Begins, Follows, Address
    <3>. QED  BY <1>3, <3>1 DEF GatheredFrom, PageAt
  <2>5. d.discardable <=> \A j \in g .. section : Sec(j).discardable
    <3>1. sectionData.discardable <=> \A j \in g .. section - 1 : Sec(j).discardable
      BY <1>3 DEF GatheredFrom
    <3>2. g .. section = (g .. section - 1) \cup {section}
      BY <1>2, <1>4
    <3>. QED  BY <1>9, <3>1, <3>2
  <2>6. \A j \in g .. section : Sec(j).rights \subseteq d.rights
    BY <1>3, <1>9, <2>1 DEF GatheredFrom
  <2>7. \A x \in d.rights : \E j \in g .. section : x \in Sec(j).rights
    <3>1. g .. section - 1 \subseteq g .. section
      BY <1>2
    <3>. QED  BY <1>3, <1>9, <2>2, <3>1 DEF GatheredFrom
  <2>8. \A n \in g + 1 .. section :
          \/ PageAt(g) = PageAt(n)
          \/ Address(n - 1) + Size(n - 1) > PageAt(n) * PageSize
    BY <1>3, <2>3, <2>4 DEF GatheredFrom
  <2>9. Begins' = Address(g) /\ Follows' = Address(section) + Size(section)
    BY <1>3, <1>9 DEF GatheredFrom
  <2>. QED  BY <1>1, <2>2, <2>5, <2>6, <2>7, <2>8, <2>9, SameImage
            DEF GatheredFrom, d
<1>12. Settled(g)' /\ Behind(g)'
  BY <1>1, <1>3, SameImage DEF Settled, Behind, Usable, OwnRights
<1>13. g \in 1 .. section' - 1
  BY <1>1, <1>2, <1>4
<1>14. Pages!OnlyDiscardedGone'
  BY <1>1, SameImage DEF PagesInv, Pages!OnlyDiscardedGone, Sec
<1>. QED  BY <1>1, <1>10, <1>11, <1>12, <1>13, <1>14 DEF PagesInv, Gathering

LEMMA FinalizePreviousStep ==
  ASSUME PagesInv, LinkedImages, Pages!FinalizePrevious
  PROVE  PagesInv'
<1>. DEFINE s == Sec(section)
<1>1. /\ pageResult = "running" /\ section <= Len(pageImage.sections)
      /\ ~ Pages!SharesPage(s) /\ Pages!Finalize(FALSE) /\ section' = section + 1
      /\ UNCHANGED <<pageImage, pageResult>>
      /\ sectionData' = Pages!Gathered(s)
  BY DEF Pages!FinalizePrevious, Sec
<1>2. PagesType /\ section \in 2 .. Len(pageImage.sections)
      /\ section \in 1 .. Len(pageImage.sections)
  BY <1>1 DEF PagesInv, PagesType
<1>3. PICK g \in 1 .. section - 1 : GatheredFrom(g) /\ Settled(g) /\ Behind(g)
  BY <1>1 DEF PagesInv, Gathering
<1>4. \A p \in Pages!Gone : sectionData.size # 0 => p < PageAt(section)
  BY <1>1, <1>2, GoneBefore
<1>5. ASSUME NEW k \in section .. Len(pageImage.sections), NEW p \in Pages!Gone,
             sectionData.size # 0
      PROVE  p < PageAt(k)
  <2>1. p < PageAt(section)
    BY <1>4, <1>5
  <2>2. PageAt(section) <= PageAt(k) /\ PageAt(section) \in Nat /\ PageAt(k) \in Nat
    BY <1>2, AddressesRise
  <2>3. p \in Int
    <3>1. /\ p \in Pages!PageOf(Begins) .. Pages!PageOf(Follows - 1)
          /\ Begins \in Nat /\ Follows - 1 \in Nat
      BY <1>2, <1>5, GonePages
    <3>. QED  BY <3>1, PageBounds
  <2>. QED  BY <2>1, <2>2, <2>3
<1>6. /\ committed' \subseteq Pages!Page
      /\ protect' = [p \in Pages!Page |-> protect'[p]]
      /\ \A k \in 1 .. section - 1 : Usable(k)' /\ OwnRights(k)'
      /\ Pages!OnlyDiscardedGone'
  <2>1. Pages!OnlyDiscardedGone
    BY DEF PagesInv
  <2>. QED  BY <1>1, <1>2, <1>3, <1>5, <2>1, FinalizeSettles
<1>7. PagesType'
  <2>1. section' \in 2 .. Len(pageImage.sections) + 1
    BY <1>1, <1>2
  <2>2. Pages!Gathered(s) \in [address : Nat, size : Nat,
                               rights : SUBSET Pages!Right, discardable : BOOLEAN]
    BY <1>2, GatheredType DEF PagesType
  <2>. QED  BY <1>1, <1>2, <1>6, <2>1, <2>2, SameImage DEF PagesType
<1>. PICK h \in 1 .. Len(pageImage.sections) : h = section
  BY <1>2
<1>8. /\ h \in 1 .. section' - 1 /\ section' - 1 = h
      /\ h .. h = {h} /\ h + 1 .. h = {}
  BY <1>1, <1>2
<1>9. GatheredFrom(h)'
  <2>1. /\ Begins' = Address(h) /\ Follows' = Address(h) + Size(h)
        /\ sectionData'.rights = Sec(h).rights
        /\ sectionData'.discardable = Sec(h).discardable
    BY <1>1 DEF Begins, Follows, Pages!Gathered, Address, Size
  <2>. QED  BY <1>1, <1>8, <2>1, SameImage DEF GatheredFrom
<1>10. Settled(h)'
  BY <1>1, <1>6 DEF Settled
<1>11. Behind(h)'
  <2>1. SUFFICES ASSUME NEW k \in 1 .. section - 1, Kept(k), NEW p \in Pages!Extent(k)
                 PROVE  p < PageAt(section)
    BY <1>1, SameImage DEF Behind
  <2>2. k \in 1 .. Len(pageImage.sections) /\ g \in 1 .. Len(pageImage.sections)
        /\ g <= section
    BY <1>2
  <2>3. CASE k < g
    <3>1. p < PageAt(g)
      BY <1>3, <2>1, <2>3 DEF Behind
    <3>2. PageAt(g) <= PageAt(section) /\ PageAt(section) \in Nat /\ PageAt(g) \in Nat
      BY <1>2, <2>2, AddressesRise
    <3>3. p \in Int
      BY <1>2, <2>1, <2>2, ExtentPages
    <3>. QED  BY <3>1, <3>2, <3>3
  <2>4. CASE k \in g .. section - 1
    BY <1>2, <1>3, <1>4, <2>1, <2>4, ExtentGone
  <2>. QED  BY <2>2, <2>3, <2>4
<1>12. Gathering'
  BY <1>8, <1>9, <1>10, <1>11 DEF Gathering
<1>. QED  BY <1>1, <1>6, <1>7, <1>12 DEF PagesInv

LEMMA FinalizeLastStep ==
  ASSUME PagesInv, LinkedImages, Pages!FinalizeLast
  PROVE  PagesInv'
<1>1. /\ pageResult = "running" /\ section > Len(pageImage.sections)
      /\ Pages!Finalize(TRUE) /\ pageResult' = "TRUE"
      /\ UNCHANGED <<pageImage, section, sectionData>>
  BY DEF Pages!FinalizeLast
<1>2. PagesType /\ section = Len(pageImage.sections) + 1
  BY <1>1 DEF PagesInv, PagesType
<1>3. PICK g \in 1 .. section - 1 : GatheredFrom(g) /\ Settled(g) /\ Behind(g)
  BY <1>1 DEF PagesInv, Gathering
<1>4. section .. Len(pageImage.sections) = {}
  BY <1>1, <1>2 DEF PagesType
<1>5. /\ committed' \subseteq Pages!Page
      /\ protect' = [p \in Pages!Page |-> protect'[p]]
      /\ \A k \in 1 .. section - 1 : Usable(k)' /\ OwnRights(k)'
      /\ Pages!OnlyDiscardedGone'
  <2>1. Pages!OnlyDiscardedGone
    BY DEF PagesInv
  <2>. QED  BY <1>1, <1>2, <1>3, <1>4, <2>1, FinalizeSettles
<1>6. PagesType'
  BY <1>1, <1>2, <1>5, SameImage DEF PagesType
<1>7. Settled(Len(pageImage.sections) + 1)'
  BY <1>1, <1>2, <1>5 DEF Settled
<1>. QED  BY <1>1, <1>5, <1>6, <1>7 DEF PagesInv

LEMMA FinalizeFailsStep ==
  ASSUME PagesInv, Pages!FinalizeFails
  PROVE  PagesInv'
<1>1. /\ pageResult' = "FALSE"
      /\ UNCHANGED <<pageImage, section, sectionData, protect, committed>>
  BY DEF Pages!FinalizeFails
<1>2. PagesType'
  BY <1>1, SameImage DEF PagesInv, PagesType
<1>3. Pages!OnlyDiscardedGone'
  BY <1>1, SameImage DEF PagesInv, Pages!OnlyDiscardedGone, Sec
<1>. QED  BY <1>1, <1>2, <1>3 DEF PagesInv

LEMMA PagesBegin ==
  ASSUME Pages!Init
  PROVE  PagesInv
<1>1. /\ pageImage \in PagedImages /\ section = 2
      /\ sectionData = Pages!Gathered(Sec(1))
      /\ protect = [p \in Pages!Page |-> {"read", "write"}]
      /\ committed = Pages!Page /\ pageResult = "running"
  BY DEF Pages!Init, Sec
<1>2. Len(pageImage.sections) \in Nat /\ Len(pageImage.sections) # 0
  BY <1>1, PagesConstants DEF Pages!SectionPagesConstants, Pages!Image
<1>3. 1 \in 1 .. Len(pageImage.sections) /\ 1 .. section - 1 = {1}
      /\ 1 .. 1 = {1} /\ 1 .. 0 = {} /\ 2 .. 1 = {}
  BY <1>1, <1>2
<1>4. PagesType
  <2>1. section \in 2 .. Len(pageImage.sections) + 1
    BY <1>1, <1>2
  <2>. QED  BY <1>1, <1>3, <2>1, GatheredType DEF PagesType
<1>5. GatheredFrom(1)
  <2>1. /\ Begins = Address(1) /\ Follows = Address(1) + Size(1)
        /\ sectionData.rights = Sec(1).rights
        /\ sectionData.discardable = Sec(1).discardable
    BY <1>1 DEF Begins, Follows, Pages!Gathered, Address, Size
  <2>. QED  BY <1>1, <1>3, <2>1 DEF GatheredFrom
<1>6. Settled(1) /\ Behind(1)
  BY <1>3 DEF Settled, Behind
<1>7. Gathering
  BY <1>3, <1>5, <1>6 DEF Gathering
<1>8. Pages!OnlyDiscardedGone
  BY <1>1 DEF Pages!OnlyDiscardedGone
<1>. QED  BY <1>1, <1>4, <1>7, <1>8 DEF PagesInv

(* The invariant says of a finished run what the property does.            *)
LEMMA PagesInvRight ==
  PagesInv => Pages!PagesRight
<1>. SUFFICES ASSUME PagesInv PROVE Pages!PagesRight
  OBVIOUS
<1>1. pageResult = "TRUE" => \A k \in Pages!Sections : Usable(k) /\ OwnRights(k)
  <2>1. Len(pageImage.sections) + 1 - 1 = Len(pageImage.sections)
    <3>1. pageImage \in Pages!Image
      BY PagesConstants DEF PagesInv, PagesType, Pages!SectionPagesConstants
    <3>. QED  BY <3>1 DEF Pages!Image
  <2>. QED  BY <2>1 DEF PagesInv, Settled, Pages!Sections
<1>2. Pages!KeptUsable
  BY <1>1 DEF Pages!KeptUsable, Usable, Kept, Sec, Size
<1>3. Pages!NoStrayRights
  BY <1>1 DEF Pages!NoStrayRights, OwnRights, Sec
<1>. QED  BY <1>2, <1>3 DEF PagesInv, Pages!PagesRight

(* Once the pages of an image are set, each section that is kept is usable *)
(* as a whole, no page has a right that no section sharing it asks for,    *)
(* and what was given back belonged to no section that is kept             *)
(* (FinalizeSections and FinalizeSection, MemoryModule.c:240-334), for     *)
(* every page size and every image that is Linked.                         *)
THEOREM PagesSetRight == LinkedImages => (Pages!Spec => []PagesRight)
<1>. SUFFICES ASSUME LinkedImages PROVE Pages!Spec => []PagesRight
  OBVIOUS
<1>1. Pages!Init => PagesInv
  BY PagesBegin
<1>2. PagesInv /\ [Pages!Next]_(Pages!vars) => PagesInv'
  <2>. SUFFICES ASSUME PagesInv, [Pages!Next]_(Pages!vars) PROVE PagesInv'
    OBVIOUS
  <2>1. CASE Pages!Join
    BY <2>1, JoinStep
  <2>2. CASE Pages!FinalizePrevious
    BY <2>2, FinalizePreviousStep
  <2>3. CASE Pages!FinalizeLast
    BY <2>3, FinalizeLastStep
  <2>4. CASE Pages!FinalizeFails
    BY <2>4, FinalizeFailsStep
  <2>5. CASE UNCHANGED Pages!vars
    <3>1. UNCHANGED pagesVars
      BY <2>5 DEF Pages!vars, pagesVars
    <3>2. PagesType'
      BY <3>1, SameImage DEF pagesVars, PagesInv, PagesType
    <3>3. \A g : Settled(g)' <=> Settled(g)
      BY <3>1, SameImage DEF pagesVars, Settled, Usable, OwnRights
    <3>4. \A g : (GatheredFrom(g)' <=> GatheredFrom(g)) /\ (Behind(g)' <=> Behind(g))
      BY <3>1, SameImage DEF pagesVars, GatheredFrom, Behind, Begins, Follows
    <3>5. pageResult' = "running" => Gathering'
      BY <3>1, <3>3, <3>4 DEF pagesVars, PagesInv, Gathering
    <3>6. pageResult' = "TRUE" => Settled(Len(pageImage.sections) + 1)'
      BY <3>1, <3>3 DEF pagesVars, PagesInv
    <3>7. Pages!OnlyDiscardedGone'
      BY <3>1, SameImage DEF pagesVars, PagesInv, Pages!OnlyDiscardedGone, Sec
    <3>. QED  BY <3>2, <3>5, <3>6, <3>7 DEF PagesInv
  <2>. QED  BY <2>1, <2>2, <2>3, <2>4, <2>5
            DEF Pages!Next, Pages!Finalizing, Pages!Terminated
<1>3. PagesInv => PagesRight
  BY PagesInvRight DEF PagesRight
<1>. QED  BY <1>1, <1>2, <1>3, PTL DEF Pages!Spec

----------------------------------------------------------------------------
(* Execution from memory.                                                  *)

LinkedFiles == \A f \in Files : Execution!Linked(f)

Header(k) == image.sections[k]
SectionCount == Len(image.sections)
Aligned(n) == Execution!fGetAlignedSize(n)
HeaderEnd == Execution!HeaderSize
AtAddress(k) == Header(k).VirtualAddress
RawSize(k) == Header(k).SizeOfRawData
MemorySize(k) == Execution!Larger(Header(k).VirtualSize, RawSize(k))
EndOf(k) == Execution!SectionEnd(Header(k))

(* Where section k goes when Pt is x.                                      *)
Place(x, k) == IF AtAddress(k) # 0 THEN AtAddress(k) ELSE x

(* e holds the sizes of the image up to each of the first n - 1 sections.  *)
Sizes(e, n) ==
  /\ \A k \in 1 .. n : e[k] \in Nat
  /\ e[1] = HeaderEnd
  /\ \A k \in 1 .. n - 1 : e[k + 1] = Execution!SizeWith(e[k], Header(k))
  /\ \A j, k \in 1 .. n : j <= k => e[j] <= e[k]

FileType ==
  /\ image \in Files
  /\ ulImageSize \in Nat
  /\ peSecH \in 1 .. SectionCount + 1
  /\ Pt \in Nat
  /\ placed \in Seq(Nat \X Nat)
  /\ myreloc \in 1 .. Len(image.relocs) + 1

(* Sections without addresses follow each other.                           *)
FollowOn == \A k \in 1 .. SectionCount : AtAddress(k) = 0

Counting ==
  \E e : Sizes(e, peSecH) /\ ulImageSize = e[peSecH]

Counted ==
  \E e : Sizes(e, SectionCount + 1) /\ ulImageSize = e[SectionCount + 1]

CopyingWith(e) ==
  /\ Sizes(e, SectionCount + 1) /\ ulImageSize = e[SectionCount + 1]
  /\ FollowOn => Pt = e[peSecH]
  /\ \A n \in DOMAIN placed : placed[n][2] <= e[peSecH]

Copying == \E e : CopyingWith(e)

(* The places of the blocks done have the distance added once, the others  *)
(* have not.                                                               *)
AddedOnce ==
  added = [p \in Execution!Places(image) |->
             IF \E n \in 1 .. myreloc - 1 : p \in image.relocs[n] THEN 1 ELSE 0]

Laid ==
  /\ pc \in {"check", "size", "allocate"} => placed = <<>>
  /\ pc = "check" => peSecH = 1
  /\ pc = "size" => Counting
  /\ pc = "allocate" => Counted
  /\ pc = "copy" => Copying
  /\ Execution!PlacedInImage /\ Execution!PlacedApart

Relocated ==
  /\ AddedOnce
  /\ pc \in {"import", "enter"} \/ iRetValue = 1 => myreloc = Len(image.relocs) + 1
  /\ iRetValue # 0 => pc = "done"

ExecutionInv == FileType /\ Laid /\ Relocated

----------------------------------------------------------------------------
(* Sizes.                                                                  *)

LEMMA AlignedSize ==
  \A n \in Nat : Aligned(n) \in Nat /\ n <= Aligned(n)
<1>1. Alignment \in Nat \ {0}
  BY FilesConstants DEF Execution!MemExecuteConstants
<1>2. ASSUME NEW n \in Nat PROVE Aligned(n) \in Nat /\ n <= Aligned(n)
  <2>. PICK m \in Nat : m = n + (Alignment - 1)
    BY <1>1
  <2>1. Aligned(n) = (m \div Alignment) * Alignment
    BY <1>1 DEF Aligned, Execution!fGetAlignedSize
  <2>2. /\ m \div Alignment \in Nat
        /\ (m \div Alignment) * Alignment \in Nat
        /\ m < (m \div Alignment) * Alignment + Alignment
    BY <1>1
  <2>. QED  BY <1>1, <2>1, <2>2
<1>. QED  BY <1>2

(* A set of numbers that is not empty has a smallest.                      *)
LEMMA Smallest ==
  ASSUME NEW T, T \subseteq Nat, T # {}
  PROVE  \E x \in T : \A y \in T : x <= y
<1>1. PICK x \in T : \A y \in T : ~ (<<y, x>> \in OpToRel(<, Nat))
  BY NatLessThanWellFounded, WFMin, Zenon
<1>2. \A y \in T : <<y, x>> \in Nat \X Nat /\ ~ (y < x)
  BY <1>1 DEF OpToRel
<1>3. ASSUME NEW y \in T PROVE x <= y
  <2>1. x \in Nat /\ y \in Nat /\ ~ (y < x)
    BY <1>2
  <2>. QED  BY <2>1
<1>. QED  BY <1>3

LEMMA HeaderTypes ==
  ASSUME image \in Files
  PROVE  /\ SectionCount \in Nat /\ DOMAIN image.sections = 1 .. SectionCount
         /\ \A k \in 1 .. SectionCount :
              /\ Header(k) \in Execution!SectionHeader
              /\ AtAddress(k) \in Nat /\ RawSize(k) \in Nat
              /\ MemorySize(k) \in Nat /\ RawSize(k) <= MemorySize(k)
              /\ EndOf(k) \in Nat
         /\ image.headers \in Nat /\ HeaderEnd \in Nat
         /\ image.relocs \in Seq(SUBSET Nat)
<1>1. image \in Execution!Image
  BY FilesConstants DEF Execution!MemExecuteConstants
<1>2. /\ image.sections \in Seq(Execution!SectionHeader)
      /\ image.headers \in Nat /\ image.relocs \in Seq(SUBSET Nat)
  BY <1>1 DEF Execution!Image
<1>3. ASSUME NEW k \in 1 .. SectionCount
      PROVE  /\ Header(k) \in Execution!SectionHeader
             /\ AtAddress(k) \in Nat /\ RawSize(k) \in Nat
             /\ MemorySize(k) \in Nat /\ RawSize(k) <= MemorySize(k)
             /\ EndOf(k) \in Nat
  <2>1. Header(k) \in Execution!SectionHeader
    BY <1>2 DEF Header, SectionCount
  <2>2. /\ AtAddress(k) \in Nat /\ RawSize(k) \in Nat
        /\ Header(k).VirtualSize \in Nat
    BY <2>1 DEF Execution!SectionHeader, AtAddress, RawSize
  <2>3. MemorySize(k) \in Nat /\ RawSize(k) <= MemorySize(k)
    BY <2>2 DEF MemorySize, Execution!Larger
  <2>4. EndOf(k) \in Nat
    <3>1. AtAddress(k) + (IF Header(k).VirtualSize # 0 THEN Header(k).VirtualSize
                          ELSE RawSize(k)) \in Nat
      BY <2>2
    <3>. QED  BY <3>1, AlignedSize
              DEF EndOf, Execution!SectionEnd, Aligned, AtAddress, RawSize
  <2>. QED  BY <2>1, <2>2, <2>3, <2>4
<1>4. HeaderEnd \in Nat
  BY <1>2, AlignedSize DEF HeaderEnd, Execution!HeaderSize, Aligned
<1>5. SectionCount \in Nat /\ DOMAIN image.sections = 1 .. SectionCount
  BY <1>2 DEF SectionCount
<1>. QED  BY <1>2, <1>3, <1>4, <1>5

(* What the linker did, in the terms above.                                *)
LEMMA LinkedHeaders ==
  ASSUME image \in Files, LinkedFiles
  PROVE  /\ \/ FollowOn
            \/ /\ \A k \in 1 .. SectionCount :
                    /\ AtAddress(k) # 0 /\ HeaderEnd <= AtAddress(k)
                    /\ AtAddress(k) + RawSize(k) <= EndOf(k)
               /\ \A j, k \in 1 .. SectionCount :
                    j < k => EndOf(j) <= AtAddress(k)
         /\ \A i, j \in DOMAIN image.relocs :
              i # j => image.relocs[i] \cap image.relocs[j] = {}
<1>1. Execution!Linked(image)
  BY DEF LinkedFiles
<1>2. /\ DOMAIN image.sections = 1 .. SectionCount
      /\ Execution!ToSet(image.sections) = {Header(k) : k \in 1 .. SectionCount}
  BY HeaderTypes DEF Execution!ToSet, Header
<1>. QED  BY <1>1, <1>2
          DEF Execution!Linked, FollowOn, AtAddress, RawSize, EndOf, Header, HeaderEnd,
              Execution!HeaderSize

(* The size of the image with one more section.                            *)
LEMMA SizeStep ==
  ASSUME image \in Files, LinkedFiles, NEW k \in 1 .. SectionCount,
         NEW e, Sizes(e, k)
  PROVE  /\ Execution!SizeWith(e[k], Header(k)) \in Nat
         /\ e[k] \in Nat
         /\ e[k] <= Place(e[k], k)
         /\ Place(e[k], k) + RawSize(k) <= Execution!SizeWith(e[k], Header(k))
         /\ FollowOn => Execution!SizeWith(e[k], Header(k)) = e[k] + Aligned(MemorySize(k))
<1>. DEFINE new == Execution!SizeWith(e[k], Header(k))
<1>1. /\ SectionCount \in Nat
      /\ AtAddress(k) \in Nat /\ RawSize(k) \in Nat /\ MemorySize(k) \in Nat
      /\ RawSize(k) <= MemorySize(k) /\ EndOf(k) \in Nat
  BY HeaderTypes
<1>2. Aligned(MemorySize(k)) \in Nat /\ MemorySize(k) <= Aligned(MemorySize(k))
  BY <1>1, AlignedSize
<1>3. new = IF AtAddress(k) # 0 THEN EndOf(k) ELSE e[k] + Aligned(MemorySize(k))
  BY DEF Execution!SizeWith, AtAddress, EndOf, Aligned, MemorySize, RawSize
<1>4. e[k] \in Nat
  BY DEF Sizes
<1>. HIDE DEF new
<1>5. CASE FollowOn
  <2>1. AtAddress(k) = 0
    BY <1>5 DEF FollowOn
  <2>. QED  BY <1>1, <1>2, <1>3, <1>4, <2>1 DEF Place, new
<1>6. CASE ~ FollowOn
  <2>1. /\ AtAddress(k) # 0 /\ HeaderEnd <= AtAddress(k)
        /\ AtAddress(k) + RawSize(k) <= EndOf(k)
        /\ \A j \in 1 .. k - 1 : EndOf(j) <= AtAddress(k)
    BY <1>1, <1>6, LinkedHeaders
  <2>2. e[k] <= AtAddress(k)
    <3>1. CASE k = 1
      BY <2>1, <3>1 DEF Sizes
    <3>2. CASE k # 1
      <4>. PICK j \in 1 .. k - 1 : j + 1 = k
        <5>1. k - 1 \in 1 .. k - 1 /\ (k - 1) + 1 = k
          BY <1>1, <3>2
        <5>. QED  BY <5>1
      <4>1. e[k] = Execution!SizeWith(e[j], Header(j))
        BY DEF Sizes
      <4>2. AtAddress(j) # 0
        BY <1>1, <1>6, LinkedHeaders
      <4>3. e[k] = EndOf(j)
        BY <4>1, <4>2 DEF Execution!SizeWith, AtAddress, EndOf
      <4>. QED  BY <2>1, <4>3
    <3>. QED  BY <3>1, <3>2
  <2>. QED  BY <1>1, <1>3, <1>4, <1>6, <2>1, <2>2 DEF Place, new
<1>. QED  BY <1>5, <1>6

LEMMA SizesExtend ==
  ASSUME image \in Files, LinkedFiles, NEW k \in 1 .. SectionCount,
         NEW e, Sizes(e, k)
  PROVE  \E d : Sizes(d, k + 1) /\ d[k + 1] = Execution!SizeWith(e[k], Header(k))
<1>. PICK new : new = Execution!SizeWith(e[k], Header(k))
  OBVIOUS
<1>. DEFINE d == [n \in 1 .. k + 1 |-> IF n = k + 1 THEN new ELSE e[n]]
<1>1. SectionCount \in Nat /\ AtAddress(k) \in Nat /\ RawSize(k) \in Nat
  BY HeaderTypes
<1>2. new \in Nat /\ e[k] \in Nat /\ e[k] <= new
  <2>1. /\ new \in Nat /\ e[k] \in Nat /\ e[k] <= Place(e[k], k)
        /\ Place(e[k], k) + RawSize(k) <= new
    BY SizeStep
  <2>2. Place(e[k], k) \in Nat
    BY <1>1, <2>1 DEF Place
  <2>. QED  BY <1>1, <2>1, <2>2
<1>3. /\ \A n \in 1 .. k + 1 : d[n] \in Nat
      /\ d[1] = HeaderEnd /\ d[k + 1] = new
      /\ \A n \in 1 .. k : d[n] = e[n]
  BY <1>1, <1>2 DEF Sizes
<1>. HIDE DEF d
<1>4. \A n \in 1 .. k : d[n + 1] = Execution!SizeWith(d[n], Header(n))
  <2>1. ASSUME NEW n \in 1 .. k PROVE d[n + 1] = Execution!SizeWith(d[n], Header(n))
    <3>1. CASE n = k
      BY <1>3, <3>1
    <3>2. CASE n # k
      <4>1. n \in 1 .. k - 1 /\ n + 1 \in 1 .. k
        BY <1>1, <3>2
      <4>. QED  BY <1>3, <4>1 DEF Sizes
    <3>. QED  BY <3>1, <3>2
  <2>. QED  BY <2>1
<1>5. ASSUME NEW i \in 1 .. k + 1, NEW j \in 1 .. k + 1, i <= j PROVE d[i] <= d[j]
  <2>1. CASE j \in 1 .. k
    <3>1. i \in 1 .. k /\ e[i] <= e[j]
      BY <1>1, <1>5, <2>1 DEF Sizes
    <3>. QED  BY <1>3, <2>1, <3>1
  <2>2. CASE j = k + 1
    <3>1. CASE i = k + 1
      BY <1>2, <1>3, <2>2, <3>1
    <3>2. CASE i \in 1 .. k
      <4>1. e[i] <= e[k] /\ e[i] \in Nat /\ d[i] = e[i]
        BY <1>1, <1>3, <3>2 DEF Sizes
      <4>. QED  BY <1>2, <1>3, <2>2, <4>1
    <3>. QED  BY <1>1, <3>1, <3>2
  <2>. QED  BY <1>1, <2>1, <2>2
<1>. QED
  <2>1. 1 .. (k + 1) - 1 = 1 .. k
    BY <1>1
  <2>2. Sizes(d, k + 1)
    BY <1>3, <1>4, <1>5, <2>1 DEF Sizes
  <2>. QED  BY <1>3, <2>2

(* No more is copied of the headers than there is.                         *)
LEMMA HeadersFit ==
  ASSUME image \in Files
  PROVE  Execution!HeaderBytes \in Nat /\ Execution!HeaderBytes <= HeaderEnd
<1>. DEFINE T == {image.headers} \union
                 {s.PointerToRawData :
                    s \in {t \in Execution!ToSet(image.sections) :
                             t.PointerToRawData # 0}}
<1>1. T \subseteq Nat
  <2>1. \A s \in Execution!ToSet(image.sections) : s.PointerToRawData \in Nat
    BY HeaderTypes DEF Execution!ToSet, Header, Execution!SectionHeader
  <2>. QED  BY <2>1, HeaderTypes
<1>2. image.headers \in T
  OBVIOUS
<1>3. Execution!HeaderBytes = CHOOSE x \in T : \A y \in T : x <= y
  BY DEF Execution!HeaderBytes, Execution!Min
<1>. HIDE DEF T
<1>4. \E x \in T : \A y \in T : x <= y
  BY <1>1, <1>2, Smallest
<1>5. /\ Execution!HeaderBytes \in T /\ Execution!HeaderBytes <= image.headers
  BY <1>2, <1>3, <1>4
<1>6. image.headers \in Nat /\ image.headers <= HeaderEnd /\ HeaderEnd \in Nat
  BY HeaderTypes, AlignedSize DEF HeaderEnd, Execution!HeaderSize, Aligned
<1>. QED  BY <1>1, <1>5, <1>6

----------------------------------------------------------------------------
(* Steps.                                                                  *)

LEMMA SameFile ==
  ASSUME image' = image
  PROVE  /\ SectionCount' = SectionCount
         /\ \A e, n : Sizes(e, n)' <=> Sizes(e, n)
         /\ FollowOn' <=> FollowOn
         /\ Execution!Places(image)' = Execution!Places(image)
BY DEF SectionCount, Sizes, FollowOn, AtAddress, Header, HeaderEnd, Execution!HeaderSize,
       Execution!SizeWith, Execution!SectionEnd, Execution!Places

(* A step that leaves the layout alone.                                    *)
LEMMA SameLayout ==
  ASSUME ExecutionInv, UNCHANGED <<image, ulImageSize, peSecH, Pt, placed>>
  PROVE  /\ Execution!PlacedInImage' /\ Execution!PlacedApart'
         /\ SectionCount' = SectionCount
         /\ (Counted' <=> Counted) /\ (Copying' <=> Copying)
<1>1. Execution!PlacedInImage' /\ Execution!PlacedApart'
  BY DEF ExecutionInv, Laid, Execution!PlacedInImage, Execution!PlacedApart
<1>. PICK n : n = SectionCount + 1
  OBVIOUS
<1>2. SectionCount' = SectionCount /\ n = SectionCount' + 1
      /\ (FollowOn' <=> FollowOn) /\ \A e : Sizes(e, n)' <=> Sizes(e, n)
  BY SameFile
<1>3. /\ Counted <=> \E e : Sizes(e, n) /\ ulImageSize = e[n]
      /\ Counted' <=> \E e : Sizes(e, n)' /\ ulImageSize' = e[n]
  BY <1>2 DEF Counted, Sizes
<1>4. Counted' <=> Counted
  BY <1>2, <1>3
<1>5. \A e : CopyingWith(e)' <=> CopyingWith(e)
  <2>1. ASSUME NEW e PROVE CopyingWith(e)' <=> CopyingWith(e)
    <3>1. /\ CopyingWith(e) <=>
               /\ Sizes(e, n) /\ ulImageSize = e[n]
               /\ FollowOn => Pt = e[peSecH]
               /\ \A i \in DOMAIN placed : placed[i][2] <= e[peSecH]
          /\ CopyingWith(e)' <=>
               /\ Sizes(e, n)' /\ ulImageSize' = e[n]
               /\ FollowOn' => Pt' = e[peSecH']
               /\ \A i \in DOMAIN placed' : placed'[i][2] <= e[peSecH']
      BY <1>2 DEF CopyingWith, Sizes
    <3>. QED  BY <1>2, <3>1
  <2>. QED  BY <2>1
<1>. QED  BY <1>1, <1>2, <1>4, <1>5 DEF Copying

(* A step that leaves the relocations alone.                               *)
LEMMA SameFixups ==
  ASSUME ExecutionInv, UNCHANGED <<image, myreloc, added>>,
         pc' \notin {"import", "enter"},
         (iRetValue' = iRetValue /\ pc # "done") \/ (iRetValue' = -1 /\ pc' = "done")
  PROVE  Relocated'
<1>1. AddedOnce'
  BY DEF ExecutionInv, Relocated, AddedOnce, Execution!Places
<1>. QED  BY <1>1 DEF ExecutionInv, Relocated

LEMMA CheckStep ==
  ASSUME ExecutionInv, Execution!fAlignPEToMem
  PROVE  ExecutionInv'
<1>1. /\ pc = "check" /\ image' = image /\ placed' = placed /\ placed = <<>>
      /\ peSecH' = peSecH /\ peSecH = 1 /\ Pt' = Pt
      /\ UNCHANGED <<myreloc, added>>
  BY DEF Execution!fAlignPEToMem, Execution!fixups, ExecutionInv, Laid
<1>2. \/ pc' = "size" /\ ulImageSize' = HeaderEnd /\ iRetValue' = iRetValue
      \/ pc' = "done" /\ ulImageSize' = ulImageSize /\ iRetValue' = -1
  BY DEF Execution!fAlignPEToMem, Execution!Goto, Execution!Return, HeaderEnd
<1>3. Relocated'
  BY <1>1, <1>2, SameFixups
<1>4. SectionCount' = SectionCount /\ HeaderEnd \in Nat
  BY <1>1, HeaderTypes, SameFile DEF ExecutionInv, FileType
<1>5. FileType'
  BY <1>1, <1>2, <1>4 DEF ExecutionInv, FileType
<1>6. pc' = "size" => Counting'
  <2>. PICK e : e = [n \in {1} |-> HeaderEnd]
    OBVIOUS
  <2>1. /\ 1 .. 1 = {1} /\ 1 .. 1 - 1 = {} /\ e[1] = HeaderEnd
    OBVIOUS
  <2>2. Sizes(e, 1)
    BY <1>4, <2>1 DEF Sizes
  <2>3. Sizes(e, 1)'
    BY <1>1, <2>2, SameFile
  <2>4. Counting' <=> \E d : Sizes(d, 1)' /\ ulImageSize' = d[1]
    BY <1>1 DEF Counting, Sizes
  <2>. QED  BY <1>2, <2>1, <2>3, <2>4
<1>7. Execution!PlacedInImage' /\ Execution!PlacedApart'
  BY <1>1 DEF Execution!PlacedInImage, Execution!PlacedApart
<1>8. Laid'
  BY <1>1, <1>2, <1>6, <1>7 DEF Laid
<1>. QED  BY <1>3, <1>5, <1>8 DEF ExecutionInv

LEMMA CountStep ==
  ASSUME ExecutionInv, LinkedFiles, Execution!fCalcTotalImageSize
  PROVE  ExecutionInv'
<1>. PICK k : k = peSecH
  OBVIOUS
<1>1. /\ pc = "size" /\ k <= SectionCount /\ k \in 1 .. SectionCount + 1
      /\ ulImageSize' = Execution!SizeWith(ulImageSize, Header(k))
      /\ peSecH' = k + 1
      /\ UNCHANGED <<image, pc, Pt, placed, myreloc, added, iRetValue>>
      /\ image \in Files /\ placed = <<>> /\ Counting
  BY DEF Execution!fCalcTotalImageSize, Execution!fixups, ExecutionInv, FileType, Laid,
         Header, SectionCount
<1>2. SectionCount' = SectionCount /\ SectionCount \in Nat /\ k \in 1 .. SectionCount
  BY <1>1, SameFile, HeaderTypes
<1>3. PICK e : Sizes(e, k) /\ ulImageSize = e[k]
  BY <1>1 DEF Counting
<1>4. Relocated'
  BY <1>1, SameFixups
<1>5. PICK d : Sizes(d, k + 1) /\ d[k + 1] = ulImageSize'
  BY <1>1, <1>2, <1>3, SizesExtend
<1>6. FileType'
  <2>1. ulImageSize' \in Nat
    BY <1>1, <1>2, <1>3, SizeStep
  <2>. QED  BY <1>1, <1>2, <2>1 DEF ExecutionInv, FileType
<1>7. Counting'
  <2>1. Sizes(d, k + 1)'
    BY <1>1, <1>5, SameFile
  <2>2. Counting' <=> \E f : Sizes(f, k + 1)' /\ ulImageSize' = f[k + 1]
    BY <1>1 DEF Counting, Sizes
  <2>. QED  BY <1>5, <2>1, <2>2
<1>8. Execution!PlacedInImage' /\ Execution!PlacedApart'
  BY <1>1 DEF Execution!PlacedInImage, Execution!PlacedApart
<1>9. Laid'
  BY <1>1, <1>7, <1>8 DEF Laid
<1>. QED  BY <1>4, <1>6, <1>9 DEF ExecutionInv

LEMMA NotInFileStep ==
  ASSUME ExecutionInv, Execution!NotInFile
  PROVE  ExecutionInv'
<1>1. /\ ulImageSize' = 0 /\ iRetValue' = -1 /\ pc' = "done" /\ placed = <<>>
      /\ UNCHANGED <<image, peSecH, Pt, placed, myreloc, added>>
  BY DEF Execution!NotInFile, Execution!Return, Execution!Goto, Execution!fixups,
         ExecutionInv, Laid
<1>2. Relocated'
  BY <1>1, SameFixups
<1>3. FileType'
  BY <1>1, SameFile DEF ExecutionInv, FileType
<1>4. Laid'
  BY <1>1 DEF Laid, Execution!PlacedInImage, Execution!PlacedApart
<1>. QED  BY <1>2, <1>3, <1>4 DEF ExecutionInv

LEMMA AllocStep ==
  ASSUME ExecutionInv, Execution!VirtualAlloc
  PROVE  ExecutionInv'
<1>. PICK h : h = Execution!HeaderBytes
  OBVIOUS
<1>. PICK n : n = SectionCount + 1
  OBVIOUS
<1>1. /\ pc = "allocate" /\ pc' = "copy" /\ peSecH' = 1
      /\ placed' = << <<0, h>> >> /\ Pt' = HeaderEnd
      /\ UNCHANGED <<image, ulImageSize, myreloc, added, iRetValue>>
      /\ image \in Files /\ Counted
  BY DEF Execution!VirtualAlloc, Execution!fixups, Execution!Goto, ExecutionInv,
         FileType, Laid, HeaderEnd
<1>2. /\ SectionCount' = SectionCount /\ SectionCount \in Nat /\ HeaderEnd \in Nat
      /\ h \in Nat /\ h <= HeaderEnd
  BY <1>1, SameFile, HeaderTypes, HeadersFit
<1>3. PICK e : Sizes(e, n) /\ ulImageSize = e[n]
  BY <1>1 DEF Counted
<1>4. Relocated'
  BY <1>1, SameFixups
<1>5. FileType'
  <2>1. << <<0, h>> >> \in Seq(Nat \X Nat)
    BY <1>2
  <2>. QED  BY <1>1, <1>2, <2>1 DEF ExecutionInv, FileType
<1>6. e[1] = HeaderEnd /\ e[1] <= e[n]
  BY <1>2, <1>3 DEF Sizes
<1>7. DOMAIN placed' = {1} /\ placed'[1][1] = 0 /\ placed'[1][2] = h
  BY <1>1
<1>8. CopyingWith(e)'
  <2>1. Sizes(e, n)'
    BY <1>1, <1>3, SameFile
  <2>2. Sizes(e, SectionCount + 1)' /\ ulImageSize' = e[(SectionCount + 1)']
    BY <1>1, <1>2, <1>3, <2>1 DEF Sizes
  <2>. QED  BY <1>1, <1>2, <1>6, <1>7, <2>2 DEF CopyingWith
<1>9. Execution!PlacedInImage'
  <2>1. h <= ulImageSize'
    BY <1>1, <1>2, <1>3, <1>5, <1>6 DEF FileType
  <2>. QED  BY <1>7, <2>1 DEF Execution!PlacedInImage
<1>10. Execution!PlacedApart'
  BY <1>7 DEF Execution!PlacedApart
<1>11. Laid'
  BY <1>1, <1>8, <1>9, <1>10 DEF Laid, Copying
<1>. QED  BY <1>4, <1>5, <1>11 DEF ExecutionInv

LEMMA CopyStep ==
  ASSUME ExecutionInv, LinkedFiles, Execution!CopySection
  PROVE  ExecutionInv'
<1>. PICK k : k = peSecH
  OBVIOUS
<1>. PICK n : n = SectionCount + 1
  OBVIOUS
<1>. PICK to : to = Place(Pt, k)
  OBVIOUS
<1>1. /\ pc = "copy" /\ k <= SectionCount /\ k \in 1 .. SectionCount + 1
      /\ placed' = IF RawSize(k) = 0 THEN placed
                   ELSE Append(placed, <<to, to + RawSize(k)>>)
      /\ Pt' = to + Aligned(IF RawSize(k) = 0 THEN Header(k).VirtualSize
                            ELSE MemorySize(k))
      /\ peSecH' = k + 1
      /\ UNCHANGED <<image, pc, ulImageSize, myreloc, added, iRetValue>>
      /\ image \in Files /\ Copying
  BY DEF Execution!CopySection, Execution!fixups, ExecutionInv, FileType, Laid, Header,
         SectionCount, Place, AtAddress, RawSize, MemorySize, Aligned
<1>2. /\ SectionCount' = SectionCount /\ SectionCount \in Nat /\ k \in 1 .. SectionCount
      /\ k + 1 \in 1 .. n /\ k \in 1 .. n - 1 /\ k \in 1 .. n /\ n \in 1 .. n
      /\ AtAddress(k) \in Nat /\ RawSize(k) \in Nat /\ MemorySize(k) \in Nat
      /\ Pt \in Nat /\ to \in Nat
  BY <1>1, SameFile, HeaderTypes, SMTT(30) DEF ExecutionInv, FileType, Place
<1>3. Pt' = to + Aligned(MemorySize(k))
  <2>1. Header(k).VirtualSize \in Nat
    BY <1>1, <1>2, HeaderTypes DEF Execution!SectionHeader
  <2>2. RawSize(k) = 0 => MemorySize(k) = Header(k).VirtualSize
    BY <2>1 DEF MemorySize, Execution!Larger
  <2>. QED  BY <1>1, <2>2
<1>4. PICK e : CopyingWith(e)
  BY <1>1 DEF Copying
<1>5. /\ Sizes(e, n) /\ ulImageSize = e[n] /\ (FollowOn => Pt = e[k])
      /\ \A i \in DOMAIN placed : placed[i][2] <= e[k]
  BY <1>4, Zenon DEF CopyingWith
<1>6. Sizes(e, k)
  BY <1>2, <1>5 DEF Sizes
<1>7. /\ e[k] \in Nat /\ e[k + 1] \in Nat /\ e[n] \in Nat
      /\ e[k] <= e[k + 1] /\ e[k + 1] <= e[n]
      /\ e[k + 1] = Execution!SizeWith(e[k], Header(k))
  BY <1>2, <1>5 DEF Sizes
<1>8. to = Place(e[k], k)
  <2>1. CASE FollowOn
    BY <1>5, <2>1
  <2>2. CASE ~ FollowOn
    BY <1>1, <1>2, <2>2, LinkedHeaders DEF Place
  <2>. QED  BY <2>1, <2>2
<1>9. /\ e[k] <= to /\ to + RawSize(k) <= e[k + 1]
      /\ FollowOn => e[k + 1] = e[k] + Aligned(MemorySize(k))
  BY <1>1, <1>2, <1>6, <1>7, <1>8, SizeStep
<1>10. Relocated'
  BY <1>1, SameFixups
<1>11. /\ placed \in Seq(Nat \X Nat)
       /\ placed' \in Seq(Nat \X Nat)
       /\ Pt' \in Nat
  <2>1. placed \in Seq(Nat \X Nat) /\ to + RawSize(k) \in Nat
    BY <1>2 DEF ExecutionInv, FileType
  <2>2. Aligned(MemorySize(k)) \in Nat
    BY <1>2, AlignedSize
  <2>3. Pt' \in Nat
    BY <1>2, <1>3, <2>2
  <2>4. placed' \in Seq(Nat \X Nat)
    <3>1. <<to, to + RawSize(k)>> \in Nat \X Nat
      BY <1>2, <2>1
    <3>2. Append(placed, <<to, to + RawSize(k)>>) \in Seq(Nat \X Nat)
      BY <2>1, <3>1
    <3>. QED  BY <1>1, <2>1, <3>2
  <2>. QED  BY <2>1, <2>3, <2>4
<1>12. FileType'
  BY <1>1, <1>2, <1>11 DEF ExecutionInv, FileType
<1>13. \A i \in DOMAIN placed' :
         \/ /\ i \in DOMAIN placed /\ placed'[i] = placed[i]
            /\ placed[i][2] \in Nat /\ placed[i][2] <= e[k]
         \/ /\ i = Len(placed) + 1
            /\ placed'[i][1] = to /\ placed'[i][2] = to + RawSize(k)
  <2>1. \A i \in DOMAIN placed : placed[i][2] \in Nat /\ placed[i][2] <= e[k]
    BY <1>5, <1>11
  <2>. QED  BY <1>1, <1>11, <2>1, SMTT(30)
<1>14. \A i \in DOMAIN placed' : placed'[i][2] <= e[k + 1]
  <2>1. ASSUME NEW i \in DOMAIN placed' PROVE placed'[i][2] <= e[k + 1]
    <3>1. CASE /\ placed'[i] = placed[i]
               /\ placed[i][2] \in Nat /\ placed[i][2] <= e[k]
      BY <1>7, <3>1
    <3>2. CASE placed'[i][2] = to + RawSize(k)
      BY <1>9, <3>2
    <3>. QED  BY <1>13, <3>1, <3>2
  <2>. QED  BY <2>1
<1>15. CopyingWith(e)'
  <2>1. Sizes(e, n)'
    BY <1>1, <1>5, SameFile
  <2>2. Sizes(e, SectionCount + 1)' /\ ulImageSize' = e[(SectionCount + 1)']
    BY <1>1, <1>2, <1>5, <2>1 DEF Sizes
  <2>3. FollowOn' => Pt' = e[k + 1]
    <3>1. CASE FollowOn
      <4>1. to = e[k]
        BY <1>2, <1>5, <1>8, <3>1 DEF Place, FollowOn
      <4>. QED  BY <1>3, <1>9, <3>1, <4>1
    <3>2. CASE ~ FollowOn
      BY <1>1, <3>2, SameFile
    <3>. QED  BY <3>1, <3>2
  <2>. QED  BY <1>1, <1>14, <2>2, <2>3 DEF CopyingWith
<1>16. Execution!PlacedInImage'
  <2>1. ASSUME NEW i \in DOMAIN placed' PROVE placed'[i][2] <= ulImageSize'
    <3>1. placed'[i][2] <= e[k + 1] /\ placed'[i][2] \in Nat
      BY <1>2, <1>13, <1>14
    <3>. QED  BY <1>1, <1>5, <1>7, <3>1
  <2>. QED  BY <2>1 DEF Execution!PlacedInImage
<1>17. Execution!PlacedApart'
  <2>1. ASSUME NEW i \in DOMAIN placed', NEW j \in DOMAIN placed', i < j
        PROVE  placed'[i][2] <= placed'[j][1] \/ placed'[j][2] <= placed'[i][1]
    <3>1. i \in DOMAIN placed /\ placed'[i] = placed[i]
      <4>1. DOMAIN placed = 1 .. Len(placed) /\ Len(placed) \in Nat
        BY <1>11
      <4>2. j \in 1 .. Len(placed) + 1
        BY <1>13, <4>1
      <4>. QED  BY <1>13, <2>1, <4>1, <4>2
    <3>2. CASE j \in DOMAIN placed /\ placed'[j] = placed[j]
      BY <2>1, <3>1, <3>2 DEF ExecutionInv, Laid, Execution!PlacedApart
    <3>3. CASE placed'[j][1] = to
      <4>1. placed[i][2] \in Nat /\ placed[i][2] <= e[k]
        <5>1. placed[i] \in Nat \X Nat
          BY <1>11, <3>1
        <5>. QED  BY <1>5, <3>1, <5>1
      <4>. QED  BY <1>2, <1>7, <1>9, <3>1, <3>3, <4>1
    <3>. QED  BY <1>13, <3>2, <3>3
  <2>. QED  BY <2>1 DEF Execution!PlacedApart
<1>18. Laid'
  BY <1>1, <1>15, <1>16, <1>17 DEF Laid, Copying
<1>. QED  BY <1>10, <1>12, <1>18 DEF ExecutionInv

(* The distance is added to the places of one more block.                  *)
LEMMA RelocateStep ==
  ASSUME ExecutionInv, LinkedFiles, Execution!fDoRelocation
  PROVE  ExecutionInv'
<1>. PICK m : m = myreloc
  OBVIOUS
<1>1. /\ pc = "relocate" /\ m <= Len(image.relocs) /\ m \in 1 .. Len(image.relocs) + 1
      /\ added' = [p \in DOMAIN added |->
                     added[p] + IF p \in image.relocs[m] THEN 1 ELSE 0]
      /\ myreloc' = m + 1
      /\ UNCHANGED <<image, pc, ulImageSize, peSecH, Pt, placed, iRetValue>>
      /\ image \in Files
  BY DEF Execution!fDoRelocation, Execution!layout, ExecutionInv, FileType
<1>2. /\ Len(image.relocs) \in Nat /\ DOMAIN image.relocs = 1 .. Len(image.relocs)
      /\ \A i, j \in DOMAIN image.relocs :
           i # j => image.relocs[i] \cap image.relocs[j] = {}
  BY <1>1, HeaderTypes, LinkedHeaders
<1>3. AddedOnce'
  <2>1. /\ Execution!Places(image)' = Execution!Places(image)
        /\ (1 .. myreloc - 1)' = 1 .. m /\ 1 .. m = (1 .. m - 1) \cup {m}
    BY <1>1, <1>2, SameFile
  <2>2. ASSUME NEW p \in Execution!Places(image)
        PROVE  added'[p] = IF \E i \in 1 .. m : p \in image.relocs[i] THEN 1 ELSE 0
    <3>1. /\ added[p] = IF \E i \in 1 .. m - 1 : p \in image.relocs[i] THEN 1 ELSE 0
          /\ added'[p] = added[p] + IF p \in image.relocs[m] THEN 1 ELSE 0
      BY <1>1, <2>2 DEF ExecutionInv, Relocated, AddedOnce
    <3>2. p \in image.relocs[m] => ~ \E i \in 1 .. m - 1 : p \in image.relocs[i]
      BY <1>1, <1>2
    <3>. QED  BY <2>1, <3>1, <3>2
  <2>3. added' = [p \in Execution!Places(image) |-> added'[p]]
    BY <1>1 DEF ExecutionInv, Relocated, AddedOnce
  <2>. QED  BY <1>1, <2>1, <2>2, <2>3 DEF AddedOnce
<1>4. Relocated'
  BY <1>1, <1>3 DEF ExecutionInv, Relocated
<1>5. FileType'
  BY <1>1, <1>2, SameFile DEF ExecutionInv, FileType
<1>6. Laid'
  BY <1>1, SameLayout DEF ExecutionInv, Laid
<1>. QED  BY <1>4, <1>5, <1>6 DEF ExecutionInv

(* The other steps go to a place of the program or return.                 *)
LEMMA GoStep ==
  ASSUME ExecutionInv,
         \/ Execution!SizeKnown \/ Execution!AllocFails \/ Execution!fPECallEntryPoint
         \/ Execution!RelocationDone \/ Execution!fRebuildIAT \/ Execution!IATDone
         \/ Execution!Enter \/ UNCHANGED Execution!vars
  PROVE  ExecutionInv'
<1>1. UNCHANGED <<image, ulImageSize, peSecH, Pt, placed, myreloc, added>>
  BY DEF Execution!SizeKnown, Execution!AllocFails, Execution!fPECallEntryPoint,
         Execution!RelocationDone, Execution!fRebuildIAT, Execution!IATDone,
         Execution!Enter, Execution!vars, Execution!layout, Execution!fixups
<1>2. /\ iRetValue' = iRetValue \/ pc' = "done"
      /\ pc' = "check" => pc = "check"
      /\ pc' = "size" => pc = "size"
      /\ pc' = "allocate" => \/ pc = "allocate"
                             \/ pc = "size" /\ peSecH = SectionCount + 1
      /\ pc' = "copy" => pc = "copy"
      /\ pc' \in {"import", "enter"} \/ iRetValue' = 1
           => \/ pc \in {"import", "enter"} \/ iRetValue = 1
              \/ pc = "relocate" /\ myreloc > Len(image.relocs)
              \/ image.relocs = <<>>
      /\ iRetValue' # iRetValue => pc' = "done"
      /\ pc = "done" => pc' = "done"
  <2>. USE DEF Execution!Goto, Execution!Return
  <2>1. CASE Execution!SizeKnown
    <3>1. peSecH \in 1 .. SectionCount + 1 /\ SectionCount \in Nat
      BY HeaderTypes DEF ExecutionInv, FileType
    <3>. QED  BY <2>1, <3>1 DEF Execution!SizeKnown, SectionCount
  <2>2. CASE Execution!AllocFails
    BY <2>2 DEF Execution!AllocFails
  <2>3. CASE Execution!fPECallEntryPoint
    BY <2>3 DEF Execution!fPECallEntryPoint, Execution!fHasRelocationTable
  <2>4. CASE Execution!RelocationDone
    BY <2>4 DEF Execution!RelocationDone
  <2>5. CASE Execution!fRebuildIAT \/ Execution!IATDone
    BY <2>5 DEF Execution!fRebuildIAT, Execution!IATDone
  <2>6. CASE Execution!Enter
    BY <2>6 DEF Execution!Enter
  <2>7. CASE UNCHANGED Execution!vars
    <3>1. pc' = pc /\ iRetValue' = iRetValue
      BY <2>7 DEF Execution!vars
    <3>. QED  BY <3>1
  <2>. QED  BY <2>1, <2>2, <2>3, <2>4, <2>5, <2>6, <2>7
<1>3. FileType'
  BY <1>1, SameFile DEF ExecutionInv, FileType
<1>4. AddedOnce'
  BY <1>1 DEF ExecutionInv, Relocated, AddedOnce, Execution!Places
<1>5. Relocated'
  <2>1. image.relocs = <<>> => Len(image.relocs) = 0
    OBVIOUS
  <2>. QED  BY <1>1, <1>2, <1>4, <2>1, HeaderTypes DEF ExecutionInv, FileType, Relocated
<1>6. pc' = "size" => Counting'
  <2>1. Counting' <=> Counting
    BY <1>1 DEF Counting, Sizes, Header, HeaderEnd, Execution!HeaderSize,
                Execution!SizeWith, Execution!SectionEnd
  <2>. QED  BY <1>2, <2>1 DEF ExecutionInv, Laid
<1>7. (pc = "size" /\ peSecH = SectionCount + 1) => Counted
  BY DEF ExecutionInv, Laid, Counting, Counted
<1>8. Laid'
  BY <1>1, <1>2, <1>6, <1>7, SameLayout DEF ExecutionInv, Laid
<1>. QED  BY <1>3, <1>5, <1>8 DEF ExecutionInv

LEMMA ExecutionBegins ==
  ASSUME Execution!Init
  PROVE  ExecutionInv
<1>1. /\ image \in Files /\ pc = "check" /\ ulImageSize = 0 /\ peSecH = 1 /\ Pt = 0
      /\ placed = <<>> /\ myreloc = 1 /\ iRetValue = 0
      /\ added = [p \in Execution!Places(image) |-> 0]
  BY DEF Execution!Init
<1>2. SectionCount \in Nat /\ Len(image.relocs) \in Nat
  BY <1>1, HeaderTypes
<1>3. FileType
  BY <1>1, <1>2 DEF FileType
<1>4. Laid
  BY <1>1 DEF Laid, Execution!PlacedInImage, Execution!PlacedApart
<1>5. 1 .. 1 - 1 = {}
  OBVIOUS
<1>6. Relocated
  BY <1>1, <1>5 DEF Relocated, AddedOnce
<1>. QED  BY <1>3, <1>4, <1>6 DEF ExecutionInv

(* A program that was entered has the distance in all places of its table. *)
LEMMA ExecutionInvRight ==
  ExecutionInv => PlacedRight
<1>. SUFFICES ASSUME ExecutionInv PROVE PlacedRight
  OBVIOUS
<1>1. Execution!RelocatedOnce
  <2>. SUFFICES ASSUME iRetValue = 1, NEW p \in Execution!Places(image)
                PROVE  added[p] = 1
    BY DEF Execution!RelocatedOnce
  <2>1. /\ myreloc = Len(image.relocs) + 1 /\ Len(image.relocs) \in Nat
        /\ DOMAIN image.relocs = 1 .. Len(image.relocs)
    BY HeaderTypes DEF ExecutionInv, FileType, Relocated
  <2>2. PICK n \in DOMAIN image.relocs : p \in image.relocs[n]
    BY DEF Execution!Places, Execution!ToSet
  <2>3. n \in 1 .. myreloc - 1
    BY <2>1
  <2>. QED  BY <2>2, <2>3 DEF ExecutionInv, Relocated, AddedOnce
<1>. QED  BY <1>1 DEF ExecutionInv, Laid, PlacedRight, Execution!PlacedRight

(* What fMemExecute writes of a linked file stays in the memory that was   *)
(* allocated and overwrites nothing that it wrote before, and a program    *)
(* that is entered had the distance added once to every place of its       *)
(* relocation table (MemoryOper.cpp:92-269), for every alignment and       *)
(* every number of sections, blocks and imports.                           *)
THEOREM ExecutionPlaced == LinkedFiles => (Execution!Spec => []PlacedRight)
<1>. SUFFICES ASSUME LinkedFiles PROVE Execution!Spec => []PlacedRight
  OBVIOUS
<1>1. ExecutionInv /\ [Execution!Next]_(Execution!vars) => ExecutionInv'
  <2>. SUFFICES ASSUME ExecutionInv, [Execution!Next]_(Execution!vars)
                PROVE  ExecutionInv'
    OBVIOUS
  <2>. QED
    BY CheckStep, CountStep, NotInFileStep, AllocStep, CopyStep, RelocateStep, GoStep,
       Zenon
    DEF Execution!Next
<1>. QED  BY <1>1, ExecutionBegins, ExecutionInvRight, PTL DEF Execution!Spec

----------------------------------------------------------------------------
(* Ranks: how many elements of a finite set are before one of them.        *)

Ordered(S, R) ==
  /\ IsFiniteSet(S)
  /\ \A x \in S : <<x, x>> \notin R
  /\ \A x, y \in S : x # y => <<x, y>> \in R \/ <<y, x>> \in R
  /\ \A x, y, z \in S : <<x, y>> \in R /\ <<y, z>> \in R => <<x, z>> \in R

Below(S, R, k) == {x \in S : <<x, k>> \in R}

LEMMA RankType ==
  ASSUME NEW S, NEW R, Ordered(S, R), NEW k \in S
  PROVE  /\ Cardinality(S) \in Nat
         /\ Cardinality(Below(S, R, k)) \in 0 .. Cardinality(S) - 1
<1>1. IsFiniteSet(S) /\ k \notin Below(S, R, k) /\ Below(S, R, k) \subseteq S
  BY DEF Ordered, Below
<1>2. /\ IsFiniteSet(Below(S, R, k))
      /\ Cardinality(Below(S, R, k)) <= Cardinality(S)
      /\ Cardinality(Below(S, R, k)) # Cardinality(S)
  BY <1>1, FS_Subset
<1>3. Cardinality(S) \in Nat /\ Cardinality(Below(S, R, k)) \in Nat
  BY <1>1, <1>2, FS_CardinalityType
<1>. QED  BY <1>2, <1>3

LEMMA RankGrows ==
  ASSUME NEW S, NEW R, Ordered(S, R), NEW a \in S, NEW b \in S, <<a, b>> \in R
  PROVE  Cardinality(Below(S, R, a)) < Cardinality(Below(S, R, b))
<1>1. /\ Below(S, R, a) \subseteq Below(S, R, b) /\ Below(S, R, b) \subseteq S
      /\ a \in Below(S, R, b) /\ a \notin Below(S, R, a)
      /\ IsFiniteSet(S)
  BY DEF Ordered, Below
<1>2. IsFiniteSet(Below(S, R, b))
  BY <1>1, FS_Subset
<1>3. /\ Cardinality(Below(S, R, a)) <= Cardinality(Below(S, R, b))
      /\ Cardinality(Below(S, R, a)) # Cardinality(Below(S, R, b))
  BY <1>1, <1>2, FS_Subset
<1>4. /\ Cardinality(Below(S, R, a)) \in Nat
      /\ Cardinality(Below(S, R, b)) \in Nat
  BY RankType
<1>. QED  BY <1>3, <1>4

LEMMA RankEach ==
  ASSUME NEW S, NEW R, Ordered(S, R), NEW n \in 0 .. Cardinality(S) - 1
  PROVE  \E k \in S : Cardinality(Below(S, R, k)) = n
<1>. DEFINE c == Cardinality(S)
            f == [k \in S |-> Cardinality(Below(S, R, k))]
<1>1. c \in Nat /\ IsFiniteSet(S)
  BY FS_CardinalityType DEF Ordered
<1>2. f \in [S -> 0 .. c - 1]
  BY RankType
<1>3. ASSUME NEW a \in S, NEW b \in S, a # b PROVE f[a] # f[b]
  <2>1. <<a, b>> \in R \/ <<b, a>> \in R
    BY <1>3 DEF Ordered
  <2>2. f[a] < f[b] \/ f[b] < f[a]
    BY <2>1, RankGrows
  <2>. QED  BY <1>2, <2>2
<1>4. f \in Injection(S, 0 .. c - 1)
  <2>. HIDE DEF f, c
  <2>. QED  BY <1>2, <1>3 DEF Injection, IsInjective
<1>5. IsFiniteSet(0 .. c - 1) /\ Cardinality(0 .. c - 1) = c
  BY <1>1, FS_Interval
<1>6. f \in Surjection(S, 0 .. c - 1)
  BY <1>4, <1>5, FS_Injection
<1>. QED  BY <1>6 DEF Surjection

----------------------------------------------------------------------------
(* The search for an exported function.                                    *)

ExportEntry == [name : ExportNames, idx : Nat]

(* The table is sorted by its names, which are those of the directory.     *)
Sorted(t) == \A i, j \in DOMAIN t : i < j => t[i].name < t[j].name

Within(t, u) == \A i \in DOMAIN t : \E j \in DOMAIN u : u[j] = t[i]

TableSorted ==
  /\ Sorted(nameExportsTable)
  /\ Within(nameExportsTable, exports.names)
  /\ Within(exports.names, nameExportsTable)

(* Each entry that the search has left behind is on its side of the name.  *)
Halved ==
  /\ lo \in 1 .. Len(nameExportsTable) + 1
  /\ hi \in 1 .. Len(nameExportsTable) + 1
  /\ \A i \in 1 .. lo - 1 : nameExportsTable[i].name < exportQuery.key
  /\ \A i \in hi .. Len(nameExportsTable) :
       exportQuery.key < nameExportsTable[i].name

ExportsType ==
  /\ exports \in Directories
  /\ exportQuery \in Exports!Query
  /\ nameExportsTable \in Seq(ExportEntry)
  /\ exportPc \in {"idle", "check", "fill", "sort", "search", "index"}
  /\ idx \in Nat

ExportsInv ==
  /\ ExportsType
  /\ exportPc \in {"fill", "sort", "search"} => exportQuery.by = "name"
  /\ exportPc = "sort" => nameExportsTable = exports.names
  /\ exportPc # "sort" => nameExportsTable = <<>> \/ TableSorted
  /\ exportPc = "search" => TableSorted /\ Halved
  /\ exportPc = "index" => idx = Exports!Index(exports, exportQuery)

LEMMA DirectoryType ==
  ASSUME ExportsType
  PROVE  /\ exports.names \in Seq(ExportEntry) /\ exports.base \in Nat
         /\ exports.functions \in Seq(Nat)
         /\ ExportNames \subseteq Nat
         /\ \A i, j \in DOMAIN exports.names :
              exports.names[i].name = exports.names[j].name => i = j
<1>1. exports \in Exports!Directory
  BY ExportsConstants DEF Exports!ExportTableConstants, ExportsType
<1>. QED  BY <1>1, ExportsConstants
          DEF Exports!ExportTableConstants, ExportsType, Exports!Directory, ExportEntry

LEMMA QueryType ==
  ASSUME ExportsType
  PROVE  /\ exportQuery.key \in Nat
         /\ exportQuery.by \in {"name", "ordinal"}
BY ExportsConstants DEF Exports!ExportTableConstants, ExportsType, Exports!Query

(* The names are distinct, so the entry of a name is the one chosen.       *)
LEMMA IndexOf ==
  ASSUME ExportsType, exportQuery.by = "name",
         NEW j \in DOMAIN exports.names, exports.names[j].name = exportQuery.key
  PROVE  Exports!Index(exports, exportQuery) = exports.names[j].idx
<1>. DEFINE hits == {i \in DOMAIN exports.names : exports.names[i].name = exportQuery.key}
<1>1. hits = {j}
  BY DirectoryType
<1>2. (CHOOSE i \in hits : TRUE) = j
  <2>. HIDE DEF hits
  <2>. QED  BY <1>1
<1>3. Exports!Index(exports, exportQuery)
      = IF hits = {} THEN -1 ELSE exports.names[CHOOSE i \in hits : TRUE].idx
  BY DEF Exports!Index
<1>. HIDE DEF hits
<1>. QED  BY <1>1, <1>2, <1>3

LEMMA NoIndexOf ==
  ASSUME exportQuery.by = "name",
         \A j \in DOMAIN exports.names : exports.names[j].name # exportQuery.key
  PROVE  Exports!Index(exports, exportQuery) = -1
BY DEF Exports!Index

(* The instances count as this module does.                                *)
LEMMA SameCount ==
  ASSUME NEW X
  PROVE  /\ Exports!Cardinality(X) = Cardinality(X)
         /\ Resources!Cardinality(X) = Cardinality(X)
BY Zenon DEF Cardinality, Exports!Cardinality, Resources!Cardinality

(* The entries in the order of their ranks are sorted.                     *)
LEMMA SortStep ==
  ASSUME ExportsInv, exportPc = "sort", Exports!Sort
  PROVE  /\ TableSorted' /\ nameExportsTable' \in Seq(ExportEntry)
         /\ Len(nameExportsTable') = Len(nameExportsTable)
<1>. DEFINE T == nameExportsTable
            S == DOMAIN T
            R == {r \in S \X S : T[r[1]].name < T[r[2]].name}
            Rank(i) == 1 + Cardinality(Below(S, R, i))
            Pick(k) == CHOOSE i \in S : Exports!Rank(i) = k
<1>1. /\ T = exports.names /\ T \in Seq(ExportEntry) /\ S = 1 .. Len(T) /\ Len(T) \in Nat
      /\ \A i \in S : T[i].name \in Nat
      /\ \A i, j \in S : T[i].name = T[j].name => i = j
  <2>1. T = exports.names
    BY DEF ExportsInv
  <2>2. /\ T \in Seq(ExportEntry) /\ ExportNames \subseteq Nat
        /\ \A i, j \in S : T[i].name = T[j].name => i = j
    BY <2>1, DirectoryType DEF ExportsInv
  <2>3. S = 1 .. Len(T) /\ Len(T) \in Nat
    BY <2>2
  <2>4. ASSUME NEW i \in S PROVE T[i].name \in Nat
    <3>1. T[i] \in ExportEntry
      BY <2>2, <2>3, <2>4, ElementOfSeq
    <3>. QED  BY <2>2, <3>1 DEF ExportEntry
  <2>. QED  BY <2>1, <2>2, <2>3, <2>4
<1>2. IsFiniteSet(S) /\ Cardinality(S) = Len(T)
  BY <1>1, FS_Interval
<1>3. Ordered(S, R)
  <2>1. \A x \in S : <<x, x>> \notin R
    BY <1>1
  <2>2. \A x, y \in S : x # y => <<x, y>> \in R \/ <<y, x>> \in R
    BY <1>1
  <2>3. \A x, y, z \in S : <<x, y>> \in R /\ <<y, z>> \in R => <<x, z>> \in R
    BY <1>1
  <2>. QED  BY <1>2, <2>1, <2>2, <2>3 DEF Ordered
<1>4. \A i \in S : {j \in S : T[j].name < T[i].name} = Below(S, R, i)
  BY DEF Below
<1>5. \A i \in S : Exports!Rank(i) = Rank(i)
  <2>. SUFFICES ASSUME NEW i \in S PROVE Exports!Rank(i) = Rank(i)
    OBVIOUS
  <2>1. {j \in S : T[j].name < T[i].name} = Below(S, R, i)
    BY <1>4
  <2>2. Exports!Rank(i) = 1 + Cardinality({j \in S : T[j].name < T[i].name})
    BY SameCount, Zenon DEF Exports!Rank
  <2>. HIDE DEF S, T, R
  <2>. QED  BY ONLY <2>1, <2>2, Zenon
<1>6. \A i \in S : Rank(i) \in 1 .. Len(T)
  BY <1>1, <1>2, <1>3, RankType
<1>7. \A k \in S : Pick(k) \in S /\ Rank(Pick(k)) = k
  <2>. TAKE k \in S
  <2>1. k - 1 \in 0 .. Cardinality(S) - 1 /\ k \in Nat
    BY <1>1, <1>2
  <2>2. PICK i \in S : Cardinality(Below(S, R, i)) = k - 1
    <3>. HIDE DEF S, R
    <3>. QED  BY <1>3, <2>1, RankEach
  <2>3. Rank(i) = k
    BY ONLY <2>1, <2>2
  <2>4. Exports!Rank(i) = k
    BY <1>5, <2>3
  <2>. HIDE DEF S
  <2>5. Pick(k) \in S /\ Exports!Rank(Pick(k)) = k
    BY <2>2, <2>4, Zenon
  <2>. HIDE DEF Pick, Rank
  <2>. QED  BY <1>5, <2>5
<1>8. \A i, j \in S : T[i].name < T[j].name <=> Rank(i) < Rank(j)
  <2>. TAKE i, j \in S
  <2>a. ASSUME NEW a \in S, NEW b \in S, T[a].name < T[b].name
        PROVE  Rank(a) < Rank(b)
    <3>1. <<a, b>> \in R
      BY <2>a
    <3>. HIDE DEF R, S
    <3>2. Cardinality(Below(S, R, a)) < Cardinality(Below(S, R, b))
      BY <1>3, <3>1, RankGrows
    <3>3. /\ Cardinality(Below(S, R, a)) \in Nat
          /\ Cardinality(Below(S, R, b)) \in Nat
      BY <1>3, RankType
    <3>. QED  BY ONLY <3>2, <3>3
  <2>1. T[i].name < T[j].name => Rank(i) < Rank(j)
    BY <2>a
  <2>2. T[j].name < T[i].name => Rank(j) < Rank(i)
    BY <2>a
  <2>3. T[i].name = T[j].name => Rank(i) = Rank(j)
    BY <1>1
  <2>4. Rank(i) \in Nat /\ Rank(j) \in Nat /\ T[i].name \in Nat /\ T[j].name \in Nat
    BY <1>1, <1>6
  <2>. HIDE DEF Rank, T
  <2>. QED  BY <2>1, <2>2, <2>3, <2>4
<1>9. nameExportsTable' = [k \in S |-> T[Pick(k)]] /\ exports' = exports
  BY Zenon DEF Exports!Sort
<1>. HIDE DEF Rank, R, Pick
<1>10. /\ nameExportsTable' \in Seq(ExportEntry) /\ DOMAIN nameExportsTable' = S
       /\ Len(nameExportsTable') = Len(nameExportsTable)
  BY <1>1, <1>7, <1>9
<1>11. Sorted(nameExportsTable')
  <2>. SUFFICES ASSUME NEW i \in S, NEW j \in S, i < j
                PROVE  T[Pick(i)].name < T[Pick(j)].name
    BY <1>9, <1>10 DEF Sorted
  <2>. QED  BY <1>7, <1>8
<1>12. Within(nameExportsTable', exports.names')
  BY <1>1, <1>7, <1>9, <1>10 DEF Within
<1>13. Within(exports.names', nameExportsTable')
  <2>. SUFFICES ASSUME NEW i \in S PROVE T[Pick(Rank(i))] = T[i]
    BY <1>1, <1>6, <1>9, <1>10 DEF Within
  <2>1. Rank(i) \in S
    BY <1>1, <1>6
  <2>2. Pick(Rank(i)) \in S /\ Rank(Pick(Rank(i))) = Rank(i)
    BY <1>7, <2>1
  <2>3. /\ ~ (T[Pick(Rank(i))].name < T[i].name)
        /\ ~ (T[i].name < T[Pick(Rank(i))].name)
    BY <1>1, <1>6, <1>8, <2>1, <2>2
  <2>4. T[Pick(Rank(i))].name \in Nat /\ T[i].name \in Nat
    BY <1>1, <2>2
  <2>5. T[Pick(Rank(i))].name = T[i].name
    BY <2>3, <2>4
  <2>. QED  BY <1>1, <2>2, <2>5
<1>. QED  BY <1>10, <1>11, <1>12, <1>13 DEF TableSorted

LEMMA ExportsBegin ==
  ASSUME Exports!Init
  PROVE  ExportsInv
BY DEF Exports!Init, ExportsInv, ExportsType

(* The table is sorted and not empty when it is searched.                  *)
LEMMA SearchBegins ==
  ASSUME ExportsInv, nameExportsTable' \in Seq(ExportEntry), TableSorted',
         Len(nameExportsTable') = Len(nameExportsTable), Exports!SearchTable,
         UNCHANGED <<exports, exportQuery, idx>>,
         exportQuery.by = "name"
  PROVE  ExportsInv'
<1>1. /\ lo' = 1 /\ hi' = Len(nameExportsTable') + 1 /\ exportPc' = "search"
      /\ Len(nameExportsTable') \in Nat
  BY DEF Exports!SearchTable
<1>2. 1 .. lo' - 1 = {} /\ hi' .. Len(nameExportsTable') = {}
  BY <1>1
<1>3. Halved'
  BY <1>1, <1>2 DEF Halved
<1>. QED  BY <1>1, <1>3 DEF ExportsInv, ExportsType

(* An entry found half way is on one side of all the others.               *)
LEMMA HalveStep ==
  ASSUME ExportsInv, Exports!Halve
  PROVE  ExportsInv'
<1>1. /\ lo \in Nat /\ hi \in Nat /\ lo < hi /\ lo >= 1 /\ hi <= Len(nameExportsTable) + 1
      /\ Len(nameExportsTable) \in Nat /\ exportQuery.key \in Nat /\ TableSorted
      /\ DOMAIN nameExportsTable = 1 .. Len(nameExportsTable)
  BY QueryType DEF ExportsInv, ExportsType, Halved, Exports!Halve
<1>2. ASSUME NEW i \in 1 .. Len(nameExportsTable)
      PROVE  nameExportsTable[i].name \in Nat
  <2>1. nameExportsTable[i] \in ExportEntry
    BY ElementOfSeq DEF ExportsInv, ExportsType
  <2>. QED  BY <2>1, DirectoryType DEF ExportEntry, ExportsInv
<1>. DEFINE m == Exports!Middle
<1>3. m \in Nat /\ lo <= m /\ m < hi /\ m \in 1 .. Len(nameExportsTable)
  BY <1>1 DEF Exports!Middle
<1>. HIDE DEF m
<1>4. \A i, j \in 1 .. Len(nameExportsTable) :
        i < j => nameExportsTable[i].name < nameExportsTable[j].name
  BY <1>1 DEF TableSorted, Sorted
<1>5. /\ \A i \in 1 .. lo - 1 : nameExportsTable[i].name < exportQuery.key
      /\ \A i \in hi .. Len(nameExportsTable) :
            exportQuery.key < nameExportsTable[i].name
  BY DEF ExportsInv, Halved, Exports!Halve
<1>6. /\ nameExportsTable' = nameExportsTable /\ exportQuery' = exportQuery
      /\ exportPc' = "search" /\ exportPc = "search"
      /\ exports' = exports /\ idx' = idx
  BY DEF Exports!Halve
<1>7. CASE exportQuery.key < nameExportsTable[m].name /\ hi' = m /\ lo' = lo
  <2>1. ASSUME NEW i \in m .. Len(nameExportsTable)
        PROVE  exportQuery.key < nameExportsTable[i].name
    <3>1. i \in 1 .. Len(nameExportsTable) /\ (i = m \/ m < i)
      BY <1>1, <1>3
    <3>2. i = m \/ nameExportsTable[m].name < nameExportsTable[i].name
      BY <1>3, <1>4, <3>1
    <3>3. /\ nameExportsTable[m].name \in Nat /\ nameExportsTable[i].name \in Nat
      BY <1>2, <1>3, <3>1
    <3>. QED  BY <1>1, <1>7, <3>2, <3>3
  <2>2. Halved'
    BY <1>1, <1>3, <1>5, <1>6, <1>7, <2>1 DEF Halved
  <2>. QED  BY <1>6, <2>2 DEF ExportsInv, ExportsType, TableSorted
<1>8. CASE exportQuery.key > nameExportsTable[m].name /\ lo' = m + 1 /\ hi' = hi
  <2>1. ASSUME NEW i \in 1 .. lo' - 1
        PROVE  nameExportsTable[i].name < exportQuery.key
    <3>1. i \in 1 .. Len(nameExportsTable) /\ (i = m \/ i < m)
      BY <1>1, <1>3, <1>8
    <3>2. i = m \/ nameExportsTable[i].name < nameExportsTable[m].name
      BY <1>3, <1>4, <3>1
    <3>3. /\ nameExportsTable[m].name \in Nat /\ nameExportsTable[i].name \in Nat
      BY <1>2, <1>3, <3>1
    <3>. QED  BY <1>1, <1>8, <3>2, <3>3
  <2>2. Halved'
    BY <1>1, <1>3, <1>5, <1>6, <1>8, <2>1 DEF Halved
  <2>. QED  BY <1>6, <2>2 DEF ExportsInv, ExportsType, TableSorted
<1>. QED  BY <1>7, <1>8 DEF Exports!Halve, m

(* An entry found has the index that the directory gives the name.         *)
LEMMA FoundStep ==
  ASSUME ExportsInv, Exports!Found
  PROVE  ExportsInv'
<1>1. /\ lo \in Nat /\ hi \in Nat /\ lo < hi /\ lo >= 1 /\ hi <= Len(nameExportsTable) + 1
      /\ Len(nameExportsTable) \in Nat /\ TableSorted
      /\ DOMAIN nameExportsTable = 1 .. Len(nameExportsTable)
      /\ exportQuery.by = "name"
  BY DEF ExportsInv, ExportsType, Halved, Exports!Found
<1>2. PICK m \in DOMAIN nameExportsTable :
        /\ exportQuery.key = nameExportsTable[m].name
        /\ idx' = nameExportsTable[m].idx
  <2>1. Exports!Middle \in DOMAIN nameExportsTable
    BY <1>1 DEF Exports!Middle
  <2>. QED  BY <2>1 DEF Exports!Found
<1>3. PICK j \in DOMAIN exports.names : exports.names[j] = nameExportsTable[m]
  BY <1>1 DEF TableSorted, Within
<1>4. idx' = Exports!Index(exports, exportQuery)
  BY <1>1, <1>2, <1>3, IndexOf DEF ExportsInv
<1>5. idx' \in Nat
  <2>1. nameExportsTable[m] \in ExportEntry
    BY ElementOfSeq, <1>1 DEF ExportsInv, ExportsType
  <2>. QED  BY <1>2, <2>1 DEF ExportEntry
<1>. QED
  BY <1>1, <1>4, <1>5
  DEF ExportsInv, ExportsType, TableSorted, Exports!Found, Exports!Index

(* A name that the search has passed by is not in the directory.           *)
LEMMA MissingStep ==
  ASSUME ExportsInv, Exports!NameMissing
  PROVE  Exports!Index(exports, exportQuery) = -1
<1>1. /\ lo \in Nat /\ hi \in Nat /\ lo >= hi /\ TableSorted /\ Halved
      /\ Len(nameExportsTable) \in Nat /\ exportQuery.key \in Nat
      /\ DOMAIN nameExportsTable = 1 .. Len(nameExportsTable)
      /\ exportQuery.by = "name"
  BY QueryType DEF ExportsInv, ExportsType, Halved, Exports!NameMissing
<1>2. ASSUME NEW j \in DOMAIN exports.names PROVE exports.names[j].name # exportQuery.key
  <2>1. PICK i \in DOMAIN nameExportsTable : nameExportsTable[i] = exports.names[j]
    BY <1>1 DEF TableSorted, Within
  <2>2. i \in 1 .. lo - 1 \/ i \in hi .. Len(nameExportsTable)
    BY <1>1
  <2>3. nameExportsTable[i].name # exportQuery.key
    <3>1. nameExportsTable[i].name \in Nat
      <4>1. nameExportsTable[i] \in ExportEntry
        BY ElementOfSeq, <1>1 DEF ExportsInv, ExportsType
      <4>. QED  BY <4>1, DirectoryType DEF ExportEntry, ExportsInv
    <3>. QED  BY <1>1, <2>2, <3>1 DEF Halved
  <2>. QED  BY <2>1, <2>3
<1>. QED  BY <1>1, <1>2, NoIndexOf

LEMMA ExportsStep ==
  ASSUME ExportsInv, [Exports!Next]_(Exports!vars)
  PROVE  ExportsInv'
<1>. USE DEF ExportsInv, ExportsType
<1>1. ASSUME UNCHANGED Exports!vars PROVE ExportsInv'
  BY <1>1 DEF Exports!vars, TableSorted, Halved, Exports!Index
<1>2. ASSUME Exports!Ask PROVE ExportsInv'
  BY <1>2 DEF Exports!Ask, TableSorted
<1>3. ASSUME Exports!NotFound, exportPc # "sort" PROVE ExportsInv'
  BY <1>3 DEF Exports!NotFound, TableSorted
<1>4. ASSUME Exports!ByOrdinal PROVE ExportsInv'
  <2>1. idx' = exportQuery.key - exports.base /\ idx' \in Nat
    BY <1>4, DirectoryType, QueryType DEF Exports!ByOrdinal
  <2>. QED  BY <1>4, <2>1 DEF Exports!ByOrdinal, TableSorted, Exports!Index
<1>5. ASSUME Exports!ByName PROVE ExportsInv'
  <2>1. CASE nameExportsTable = <<>>
    BY <1>5, <2>1 DEF Exports!ByName
  <2>2. CASE nameExportsTable # <<>>
    <3>1. /\ TableSorted' /\ nameExportsTable' \in Seq(ExportEntry)
          /\ Len(nameExportsTable') = Len(nameExportsTable)
      BY <1>5, <2>2 DEF Exports!ByName, TableSorted
    <3>. QED  BY <1>5, <2>2, <3>1, SearchBegins DEF Exports!ByName
  <2>. QED  BY <2>1, <2>2
<1>6. ASSUME Exports!Fill PROVE ExportsInv'
  BY <1>6, DirectoryType DEF Exports!Fill
<1>7. ASSUME Exports!Sort PROVE ExportsInv'
  BY <1>7, SortStep, SearchBegins DEF Exports!Sort
<1>8. ASSUME Exports!IndexTaken PROVE ExportsInv'
  BY <1>8 DEF Exports!IndexTaken, TableSorted
<1>. QED
  BY <1>1, <1>2, <1>3, <1>4, <1>5, <1>6, <1>7, <1>8, HalveStep, FoundStep
  DEF Exports!Next, Exports!Search, Exports!ExportsNothing, Exports!OrdinalBelowBase,
      Exports!OutOfMemory, Exports!NameMissing, Exports!IndexRefused

(* What an answer is, in a step that gives one.                            *)
RightAnswer ==
  \A q \in Exports!Query :
    Exports!Answered(q) /\ ~ Exports!NoExports
    /\ Exports!Index(exports, q) # Len(exports.functions) =>
      result' \in {Exports!Exported(exports, q)}
                  \cup (IF exportPc = "fill" THEN {Exports!NoProc} ELSE {})

LEMMA AnswerGiven ==
  ASSUME ExportsInv, [Exports!Next]_(Exports!vars)
  PROVE  [RightAnswer]_(Exports!vars)
<1>. SUFFICES ASSUME Exports!Next,
                     NEW q \in Exports!Query, Exports!Answered(q), ~ Exports!NoExports,
                     Exports!Index(exports, q) # Len(exports.functions)
              PROVE  result' \in {Exports!Exported(exports, q)}
                        \cup (IF exportPc = "fill" THEN {Exports!NoProc} ELSE {})
  BY DEF RightAnswer
<1>1. /\ q = exportQuery /\ exportPc' = "idle" /\ exportPc # "idle"
      /\ Len(exports.functions) \in Nat
  BY DirectoryType DEF Exports!Answered, ExportsInv
<1>2. ASSUME Exports!OrdinalBelowBase PROVE result' = Exports!Exported(exports, q)
  <2>1. Exports!Index(exports, q) < 0 /\ Exports!Index(exports, q) \in Int
    BY <1>1, <1>2, DirectoryType, QueryType
    DEF Exports!OrdinalBelowBase, Exports!Index, ExportsInv
  <2>2. Exports!Index(exports, q) \notin 0 .. Len(exports.functions) - 1
    BY <2>1
  <2>. QED  BY <1>2, <2>2 DEF Exports!OrdinalBelowBase, Exports!NotFound, Exports!Exported
<1>3. ASSUME Exports!OutOfMemory PROVE exportPc = "fill" /\ result' = Exports!NoProc
  BY <1>3 DEF Exports!OutOfMemory, Exports!NotFound
<1>4. ASSUME Exports!NameMissing PROVE result' = Exports!Exported(exports, q)
  <2>1. Exports!Index(exports, q) = -1
    BY <1>1, <1>4, MissingStep
  <2>2. Exports!Index(exports, q) \notin 0 .. Len(exports.functions) - 1
    BY <2>1
  <2>. QED  BY <1>4, <2>2 DEF Exports!NameMissing, Exports!NotFound, Exports!Exported
<1>5. ASSUME exportPc = "index"
      PROVE  Exports!Index(exports, q) = idx /\ idx \in Nat
  BY <1>1, <1>5 DEF ExportsInv, ExportsType
<1>6. ASSUME Exports!IndexRefused PROVE result' = Exports!Exported(exports, q)
  <2>1. Exports!Index(exports, q) \notin 0 .. Len(exports.functions) - 1
    BY <1>1, <1>5, <1>6 DEF Exports!IndexRefused
  <2>. QED  BY <1>6, <2>1 DEF Exports!IndexRefused, Exports!NotFound, Exports!Exported
<1>7. ASSUME Exports!IndexTaken PROVE result' = Exports!Exported(exports, q)
  <2>1. /\ idx < Len(exports.functions)
        /\ Exports!Index(exports, q) \in 0 .. Len(exports.functions) - 1
        /\ Exports!Index(exports, q) = idx
    BY <1>1, <1>5, <1>7 DEF Exports!IndexTaken
  <2>. QED  BY <1>7, <2>1 DEF Exports!IndexTaken, Exports!Exported
<1>8. ~ Exports!ExportsNothing
  BY DEF Exports!ExportsNothing
<1>9. \/ Exports!OrdinalBelowBase \/ Exports!OutOfMemory \/ Exports!NameMissing
      \/ Exports!IndexRefused \/ Exports!IndexTaken
  BY <1>1, <1>8
  DEF Exports!Next, Exports!Search, Exports!Ask, Exports!ByOrdinal, Exports!ByName,
      Exports!SearchTable, Exports!Fill, Exports!Sort, Exports!Halve, Exports!Found
<1>. QED  BY <1>2, <1>3, <1>4, <1>6, <1>7, <1>9

(* An exported function that is asked for by its name or its ordinal is    *)
(* answered with the address the directory gives it, or with none, for     *)
(* every directory and in every order of the questions, of searches that   *)
(* build the sorted table and of searches that get no memory for it        *)
(* (MemoryModule.c:785-832).                                               *)
THEOREM FunctionsAnswered == Exports!Spec => AnswersRight
<1>1. ExportsInv /\ [Exports!Next]_(Exports!vars) => ExportsInv'
  BY ExportsStep
<1>2. ExportsInv /\ [Exports!Next]_(Exports!vars) => [RightAnswer]_(Exports!vars)
  BY AnswerGiven
<1>3. Exports!Spec => [][RightAnswer]_(Exports!vars)
  BY <1>1, <1>2, ExportsBegin, PTL DEF Exports!Spec
<1>. QED  BY <1>3 DEF AnswersRight, Exports!AnswersRight, RightAnswer

----------------------------------------------------------------------------
(* The search for a resource.                                              *)

Triple == Resources!Key \X Resources!Key \X Resources!Key

(* The paths of a search for q, and those who lie below the first n keys.  *)
Prefix(q, n) == [i \in 1 .. n |-> q[i]]

Under(t, q, n) == {x \in t : \A i \in 1 .. n : x[i] = q[i]}

Level(t, q, n) == {x[n + 1] : x \in Under(t, q, n)}

(* A name or number is before another in a directory.                      *)
KeyOrder == {r \in Resources!Key \X Resources!Key : Resources!Before(r[1], r[2])}

LEMMA TreeType ==
  ASSUME NEW t \in Trees
  PROVE  t \subseteq Triple /\ IsFiniteSet(t)
<1>1. Resources!IsFiniteSet(t) <=> IsFiniteSet(t)
  BY Zenon DEF IsFiniteSet, Resources!IsFiniteSet
<1>2. t \in Resources!Tree
  BY ResourcesConstants DEF Resources!ResourceTreeConstants
<1>. QED  BY <1>1, <1>2 DEF Resources!Tree, Triple

LEMMA PrefixType ==
  ASSUME NEW q \in Triple, NEW n \in 0 .. 2
  PROVE  /\ Prefix(q, n) \in Seq(Resources!Key) /\ Len(Prefix(q, n)) = n
         /\ \A x \in Triple :
              SubSeq(x, 1, n) = Prefix(q, n) <=> \A i \in 1 .. n : x[i] = q[i]
         /\ q[n + 1] \in Resources!Key
         /\ Append(Prefix(q, n), q[n + 1]) = Prefix(q, n + 1)
         /\ Prefix(q, 3) = q /\ Prefix(q, 0) = <<>>
<1>1. ASSUME NEW x \in Triple
      PROVE  /\ x \in Seq(Resources!Key) /\ Len(x) = 3
             /\ \A i \in 1 .. 3 : x[i] \in Resources!Key
             /\ x = [i \in 1 .. 3 |-> x[i]]
  <2>. DEFINE Key == Resources!Key
  <2>1. x \in Key \X Key \X Key
    BY DEF Triple
  <2>. HIDE DEF Key
  <2>2. PICK a \in Key, b \in Key, c \in Key : x = <<a, b, c>>
    BY ONLY <2>1
  <2>3. x \in Seq(Key) /\ Len(x) = 3
    BY ONLY <2>2
  <2>4. \A i \in 1 .. 3 : x[i] \in Key
    BY ONLY <2>2
  <2>5. DOMAIN x = 1 .. 3
    BY ONLY <2>3
  <2>6. x = [i \in DOMAIN x |-> x[i]]
    BY ONLY <2>3
  <2>. QED  BY <2>3, <2>4, <2>5, <2>6 DEF Key
<1>2. ASSUME NEW m \in 0 .. 3 
      PROVE  Prefix(q, m) \in Seq(Resources!Key) /\ Len(Prefix(q, m)) = m
  <2>1. \A i \in 1 .. m : q[i] \in Resources!Key
    BY <1>1
  <2>. QED  BY <2>1 DEF Prefix
<1>3. ASSUME NEW x \in Triple
      PROVE  SubSeq(x, 1, n) = Prefix(q, n) <=> \A i \in 1 .. n : x[i] = q[i]
  <2>1. SubSeq(x, 1, n) = [i \in 1 .. n |-> x[i]]
    BY <1>1
  <2>. QED  BY <2>1 DEF Prefix
<1>4. q[n + 1] \in Resources!Key
  BY <1>1
<1>5. Append(Prefix(q, n), q[n + 1]) = Prefix(q, n + 1)
  BY <1>2, <1>4 DEF Prefix
<1>6. Prefix(q, 3) = q /\ Prefix(q, 0) = <<>>
  BY <1>1 DEF Prefix
<1>7. n \in 0 .. 3
  OBVIOUS
<1>8. Prefix(q, n) \in Seq(Resources!Key) /\ Len(Prefix(q, n)) = n
  BY ONLY <1>2, <1>7, Zenon
<1>. QED  BY ONLY <1>3, <1>4, <1>5, <1>6, <1>8, Zenon

LEMMA LevelType ==
  ASSUME NEW t \in Trees, NEW q \in Triple, NEW n \in 0 .. 2
  PROVE  /\ Level(t, q, n) \subseteq Resources!Key
         /\ IsFiniteSet(Level(t, q, n))
<1>. DEFINE U == Under(t, q, n)
            f == [x \in U |-> x[n + 1]]
<1>1. U \subseteq t /\ t \subseteq Triple /\ IsFiniteSet(t) /\ IsFiniteSet(U)
  BY TreeType, FS_Subset DEF Under
<1>2. f \in Surjection(U, Level(t, q, n))
  BY DEF Level, Surjection
<1>3. IsFiniteSet(Level(t, q, n))
  <2>. HIDE DEF U, f
  <2>. QED  BY <1>1, <1>2, FS_Surjection
<1>4. \A x \in Triple : x[n + 1] \in Resources!Key
  BY DEF Triple
<1>5. Level(t, q, n) \subseteq Resources!Key
  BY <1>1, <1>4 DEF Level
<1>. QED  BY <1>3, <1>5

LEMMA KeysAre ==
  ASSUME tree \in Trees, NEW q \in Triple, NEW n \in 0 .. 2
  PROVE  Resources!Keys(Prefix(q, n)) = Level(tree, q, n)
<1>1. Len(Prefix(q, n)) = n /\ tree \subseteq Triple
  BY TreeType, PrefixType
<1>2. {x \in tree : SubSeq(x, 1, n) = Prefix(q, n)} = Under(tree, q, n)
  BY <1>1, PrefixType DEF Under
<1>. QED  BY <1>1, <1>2 DEF Resources!Keys, Level

LEMMA KeysOrdered ==
  ASSUME NEW K, K \subseteq Resources!Key, IsFiniteSet(K)
  PROVE  Ordered(K, KeyOrder)
<1>1. \A k \in K : k = <<k[1], k[2]>> /\ k[1] \in {"name", "id"} /\ k[2] \in Nat
  BY DEF Resources!Key
<1>2. \A x, y \in K : <<x, y>> \in KeyOrder <=> Resources!Before(x, y)
  BY DEF KeyOrder
<1>3. \A x \in K : <<x, x>> \notin KeyOrder
  BY <1>1, <1>2 DEF Resources!Before
<1>4. \A x, y \in K : x # y => <<x, y>> \in KeyOrder \/ <<y, x>> \in KeyOrder
  <2>. TAKE x, y \in K
  <2>1. x # y => x[1] # y[1] \/ x[2] # y[2]
    BY <1>1
  <2>. QED  BY <1>1, <1>2, <2>1 DEF Resources!Before
<1>5. \A x, y, z \in K :
        <<x, y>> \in KeyOrder /\ <<y, z>> \in KeyOrder => <<x, z>> \in KeyOrder
  <2>. TAKE x, y, z \in K
  <2>1. Resources!Before(x, y) /\ Resources!Before(y, z) => Resources!Before(x, z)
    BY <1>1 DEF Resources!Before
  <2>. QED  BY <1>2, <2>1
<1>. QED  BY <1>3, <1>4, <1>5 DEF Ordered

(* How many keys of a level are before one of them.                        *)
RankIn(q, n, k) == Cardinality(Below(Level(tree, q, n), KeyOrder, k))

LEMMA EntryAt ==
  ASSUME tree \in Trees, NEW q \in Triple, NEW n \in 0 .. 2,
         NEW m \in 0 .. Cardinality(Level(tree, q, n)) - 1
  PROVE  /\ Resources!Entries(Prefix(q, n))[m] \in Level(tree, q, n)
         /\ RankIn(q, n, Resources!Entries(Prefix(q, n))[m]) = m
<1>. DEFINE K == Level(tree, q, n)
            P == Prefix(q, n)
<1>1. K = Resources!Keys(P) /\ K \subseteq Resources!Key /\ Ordered(K, KeyOrder)
  BY KeysAre, LevelType, KeysOrdered
<1>2. m \in 0 .. Resources!Cardinality(Resources!Keys(P)) - 1
  <2>. HIDE DEF P
  <2>. QED  BY <1>1, SameCount, Zenon
<1>3. ASSUME NEW k \in K
      PROVE  Resources!Cardinality({x \in K : Resources!Before(x, k)})
             = Cardinality(Below(K, KeyOrder, k))
  <2>1. {x \in K : Resources!Before(x, k)} = Below(K, KeyOrder, k)
    BY <1>1 DEF Below, KeyOrder
  <2>. HIDE DEF K
  <2>. QED  BY <2>1, SameCount, Zenon
<1>4. \E k \in K : Resources!Cardinality({x \in K : Resources!Before(x, k)}) = m
  <2>1. PICK k \in K : Cardinality(Below(K, KeyOrder, k)) = m
    <3>. HIDE DEF K
    <3>. QED  BY <1>1, RankEach DEF K
  <2>. HIDE DEF K
  <2>. QED  BY <1>3, <2>1
<1>. DEFINE e == CHOOSE k \in K : Resources!Cardinality({x \in K : Resources!Before(x, k)}) = m
<1>5. Resources!Entries(P)[m] = e
  <2>. DEFINE KP == Resources!Keys(P)
  <2>1. Resources!Entries(P)[m]
        = CHOOSE k \in KP : Resources!Cardinality({x \in KP : Resources!Before(x, k)}) = m
    <3>. HIDE DEF P
    <3>. QED  BY <1>2 DEF Resources!Entries
  <2>. HIDE DEF KP, K, P
  <2>2. KP = K
    BY <1>1 DEF KP
  <2>. QED  BY <2>1, <2>2, Zenon
<1>6. e \in K /\ Resources!Cardinality({x \in K : Resources!Before(x, e)}) = m
  <2>. HIDE DEF K
  <2>. QED  BY <1>4, Zenon
<1>. HIDE DEF e
<1>7. Cardinality(Below(K, KeyOrder, e)) = m
  <2>. HIDE DEF K
  <2>. QED  BY <1>3, <1>6
<1>. QED  BY <1>5, <1>6, <1>7 DEF RankIn

(* The range that a directory is opened with holds the rank of its key.    *)
LEMMA OpenRange ==
  ASSUME tree \in Trees, NEW q \in Triple, NEW n \in 0 .. 2,
         Resources!Open(Prefix(q, n), q[n + 1])
  PROVE  /\ path' = Prefix(q, n)
         /\ start' \in 0 .. Cardinality(Level(tree, q, n))
         /\ end' \in 0 .. Cardinality(Level(tree, q, n))
         /\ q[n + 1] \in Level(tree, q, n) =>
              RankIn(q, n, q[n + 1]) \in start' .. end' - 1
<1>. DEFINE K == Level(tree, q, n)
            N == {k \in K : k[1] = "name"}
            key == q[n + 1]
<1>1. /\ Resources!Keys(Prefix(q, n)) = K /\ K \subseteq Resources!Key
      /\ Ordered(K, KeyOrder) /\ IsFiniteSet(K)
  BY KeysAre, LevelType, KeysOrdered
<1>2. Resources!NamedEntries(Prefix(q, n)) = N
  BY <1>1 DEF Resources!NamedEntries
<1>3. /\ Resources!Cardinality(Resources!Keys(Prefix(q, n))) = Cardinality(K)
      /\ Resources!Cardinality(Resources!NamedEntries(Prefix(q, n))) = Cardinality(N)
  <2>. HIDE DEF K, N
  <2>. QED  BY <1>1, <1>2, SameCount, Zenon
<1>4. /\ path' = Prefix(q, n)
      /\ start' = IF key[1] = "name" THEN 0 ELSE Cardinality(N)
      /\ end' = IF key[1] = "name" THEN Cardinality(N) ELSE Cardinality(K)
  <2>. HIDE DEF K, N
  <2>. QED  BY <1>3 DEF Resources!Open
<1>5. /\ IsFiniteSet(N) /\ Cardinality(N) \in Nat /\ Cardinality(K) \in Nat
      /\ Cardinality(N) <= Cardinality(K)
  <2>1. N \subseteq K
    OBVIOUS
  <2>. HIDE DEF K, N
  <2>. QED  BY <1>1, <2>1, FS_Subset, FS_CardinalityType
<1>6. ASSUME key \in K
      PROVE  Cardinality(Below(K, KeyOrder, key)) \in start' .. end' - 1
  <2>. DEFINE B == Below(K, KeyOrder, key)
  <2>1. Cardinality(K) \in Nat /\ Cardinality(B) \in 0 .. Cardinality(K) - 1
    <3>. HIDE DEF K, key
    <3>. QED  BY <1>1, <1>6, RankType
  <2>2. \A k \in K : k[1] \in {"name", "id"} /\ k[2] \in Nat
    BY <1>1 DEF Resources!Key
  <2>3. \A k \in K : k \in B <=> Resources!Before(k, key)
    BY <1>1, <1>6 DEF Below, KeyOrder
  <2>4. CASE key[1] = "name"
    <3>1. B \subseteq N /\ B # N
      <4>1. key \in N /\ key \notin B
        BY <1>6, <2>2, <2>3, <2>4 DEF Resources!Before
      <4>2. B \subseteq N
        BY <2>2, <2>3, <2>4 DEF Resources!Before, Below
      <4>. QED  BY <4>1, <4>2
    <3>. HIDE DEF B, N, K, key
    <3>2. Cardinality(B) <= Cardinality(N) /\ Cardinality(B) # Cardinality(N)
      BY <1>5, <3>1, FS_Subset
    <3>. QED  BY ONLY <1>4, <1>5, <2>1, <2>4, <3>2 DEF B
  <2>5. CASE key[1] # "name"
    <3>1. N \subseteq B
      BY <1>6, <2>2, <2>3, <2>5 DEF Resources!Before
    <3>2. IsFiniteSet(B)
      BY <1>1, FS_Subset DEF Below
    <3>. HIDE DEF B, N, K, key
    <3>3. Cardinality(N) <= Cardinality(B)
      BY <3>1, <3>2, FS_Subset
    <3>. QED  BY ONLY <1>4, <1>5, <2>1, <2>5, <3>3 DEF B
  <2>. QED  BY <2>4, <2>5
<1>7. start' \in 0 .. Cardinality(K) /\ end' \in 0 .. Cardinality(K)
  <2>. HIDE DEF K, N, key
  <2>. QED  BY <1>4, <1>5
<1>. QED  BY <1>4, <1>6, <1>7 DEF RankIn

(* The resource that is found in a tree for a path.                        *)
RightResource(t, q) ==
  IF q \in t THEN q
  ELSE IF \A r \in Under(t, q, 2) : r[3][1] = "name" THEN <<>>
  ELSE CHOOSE r \in Under(t, q, 2) :
         \A x \in Under(t, q, 2) : x = r \/ Resources!Before(r[3], x[3])

Depth == Len(path)

(* The keys found are those asked for, and the next one, if it is there,   *)
(* is in the range that is still to be searched.                           *)
SearchPlace ==
  /\ treeQuery \in Triple
  /\ Depth \in 0 .. 2 /\ path = Prefix(treeQuery, Depth)
  /\ start \in 0 .. Cardinality(Level(tree, treeQuery, Depth))
  /\ end \in 0 .. Cardinality(Level(tree, treeQuery, Depth))
  /\ treeQuery[Depth + 1] \in Level(tree, treeQuery, Depth) =>
       RankIn(treeQuery, Depth, treeQuery[Depth + 1]) \in start .. end - 1

FoundPlace ==
  \/ treeQuery = <<>>
  \/ treeQuery \in Triple /\ found = RightResource(tree, treeQuery)

WalkPlace ==
  /\ wanted # BlockSize /\ left \in 0 .. wanted
  /\ data = Resources!Lengths(block)[wanted - left]

ResourcesInv ==
  /\ tree \in Trees /\ block \in StringBlocks /\ wanted \in 0 .. BlockSize
  /\ treePc \in {"idle", "search", "walk"}
  /\ treePc = "search" => SearchPlace
  /\ treePc # "search" => FoundPlace
  /\ treePc = "walk" => WalkPlace

LEMMA LengthsExist ==
  ASSUME NEW b, NEW n \in Nat
  PROVE  \E g : g = [i \in 0 .. n |-> IF i = 0 THEN 0 ELSE g[i - 1] + b[i - 1] + 1]
<1>. DEFINE Sums(g, m) ==
              g = [i \in 0 .. m |-> IF i = 0 THEN 0 ELSE g[i - 1] + b[i - 1] + 1]
            S == {m \in Nat : ~ \E g : Sums(g, m)}
<1>. SUFFICES ASSUME S # {} PROVE FALSE
  OBVIOUS
<1>1. PICK k \in S : \A j \in S : k <= j
  <2>1. S \subseteq Nat
    OBVIOUS
  <2>. QED  BY <2>1, Smallest
<1>2. k # 0
  <2>. SUFFICES ASSUME k = 0 PROVE FALSE
    OBVIOUS
  <2>1. Sums([i \in 0 .. 0 |-> 0], 0)
    OBVIOUS
  <2>. QED  BY <2>1
<1>3. k \in Nat /\ k - 1 \in Nat
  BY <1>2
<1>4. k - 1 \notin S
  <2>. SUFFICES ASSUME k - 1 \in S PROVE FALSE
    OBVIOUS
  <2>. HIDE DEF S
  <2>1. k <= k - 1
    BY <1>1
  <2>. QED  BY <1>3, <2>1
<1>5. PICK g : Sums(g, k - 1)
  BY <1>3, <1>4
<1>. DEFINE h == [i \in 0 .. k |-> IF i # k THEN g[i] ELSE g[k - 1] + b[k - 1] + 1]
<1>6. ASSUME NEW i \in 0 .. k
      PROVE  h[i] = IF i = 0 THEN 0 ELSE h[i - 1] + b[i - 1] + 1
  <2>1. CASE i = k
    <3>1. h[k - 1] = g[k - 1]
      BY <1>3
    <3>. QED  BY <1>2, <2>1, <3>1
  <2>2. CASE i # k
    <3>1. i \in 0 .. k - 1 /\ h[i] = g[i] /\ (i # 0 => h[i - 1] = g[i - 1])
      BY <1>3, <2>2
    <3>2. g[i] = IF i = 0 THEN 0 ELSE g[i - 1] + b[i - 1] + 1
      BY <1>5, <3>1
    <3>. QED  BY <3>1, <3>2
  <2>. QED  BY <2>1, <2>2
<1>7. h = [i \in 0 .. k |-> h[i]]
  OBVIOUS
<1>8. Sums(h, k)
  <2>. HIDE DEF h
  <2>. QED  BY <1>6, <1>7
<1>. QED  BY <1>8

(* How the strings of a block follow each other.                           *)
LEMMA LengthsFollow ==
  ASSUME NEW b
  PROVE  /\ Resources!Lengths(b)[0] = 0
         /\ \A n \in 1 .. BlockSize :
              Resources!Lengths(b)[n] = Resources!Lengths(b)[n - 1] + b[n - 1] + 1
<1>. DEFINE F == CHOOSE g : g = [i \in 0 .. BlockSize |->
                                  IF i = 0 THEN 0 ELSE g[i - 1] + b[i - 1] + 1]
<1>1. BlockSize \in Nat
  BY ResourcesConstants DEF Resources!ResourceTreeConstants
<1>2. F = [i \in 0 .. BlockSize |-> IF i = 0 THEN 0 ELSE F[i - 1] + b[i - 1] + 1]
  <2>1. \E g : g = [i \in 0 .. BlockSize |-> IF i = 0 THEN 0 ELSE g[i - 1] + b[i - 1] + 1]
    BY <1>1, LengthsExist
  <2>. QED  BY <2>1, Zenon
<1>3. Resources!Lengths(b) = F
  BY DEF Resources!Lengths
<1>. HIDE DEF F
<1>. QED  BY <1>1, <1>2, <1>3

LEMMA ResourcesBegin ==
  ASSUME Resources!Init
  PROVE  ResourcesInv
<1>1. BlockSize \in Nat
  BY ResourcesConstants DEF Resources!ResourceTreeConstants
<1>2. /\ tree \in Trees /\ block \in StringBlocks /\ wanted = BlockSize
      /\ treeQuery = <<>> /\ treePc = "idle"
  BY DEF Resources!Init, Resources!NoString
<1>3. wanted \in 0 .. BlockSize
  BY <1>1, <1>2
<1>. QED  BY <1>2, <1>3 DEF ResourcesInv, FoundPlace

LEMMA FindStep ==
  ASSUME ResourcesInv, NEW type \in Resources!Asked, NEW name \in Resources!Asked,
         NEW language \in Languages, NEW string \in 0 .. BlockSize,
         Resources!Find(type, name, language, string)
  PROVE  ResourcesInv'
<1>. DEFINE l == Resources!Language(language)
            t == Resources!Meant(type)
            q == <<t, Resources!Meant(name), l>>
<1>0. ASSUME NEW a \in Resources!Asked
      PROVE  Resources!Meant(a) \in Resources!Key
  <2>1. ASSUME NEW n \in Nat PROVE n % 65536 \in Nat
    OBVIOUS
  <2>. QED  BY <2>1 DEF Resources!Asked, Resources!Meant, Resources!Key
<1>1. l \in Resources!Key /\ t \in Resources!Key
  BY <1>0, ResourcesConstants
  DEF Resources!ResourceTreeConstants, Resources!Language, Resources!LanguageKey,
      Resources!Key
<1>2. q \in Triple /\ q[1] = t
  BY <1>0, <1>1 DEF Triple
<1>3. /\ tree \in Trees /\ tree' = tree /\ block' = block /\ treeQuery' = q
      /\ wanted' = string /\ treePc' = "search" /\ Resources!Open(<<>>, t)
  BY DEF Resources!Find, ResourcesInv
<1>. HIDE DEF l, t
<1>. HIDE DEF q
<1>4. Prefix(q, 0) = <<>> /\ Len(Prefix(q, 0)) = 0
  BY <1>2, PrefixType
<1>5. /\ path' = Prefix(q, 0)
      /\ start' \in 0 .. Cardinality(Level(tree, q, 0))
      /\ end' \in 0 .. Cardinality(Level(tree, q, 0))
      /\ q[1] \in Level(tree, q, 0) => RankIn(q, 0, q[1]) \in start' .. end' - 1
  <2>1. Resources!Open(Prefix(q, 0), q[0 + 1])
    BY <1>2, <1>3, <1>4
  <2>. QED  BY <1>2, <1>3, <2>1, OpenRange
<1>6. SearchPlace'
  BY <1>2, <1>3, <1>4, <1>5 DEF SearchPlace, Depth, RankIn
<1>. QED  BY <1>3, <1>6 DEF ResourcesInv

(* What the search looks at half way.                                      *)
LEMMA ProbeRank ==
  ASSUME ResourcesInv, treePc = "search", start < end
  PROVE  /\ Resources!Middle \in start .. end - 1
         /\ start \in Nat /\ end \in Nat
         /\ Resources!Probe \in Level(tree, treeQuery, Depth)
         /\ RankIn(treeQuery, Depth, Resources!Probe) = Resources!Middle
         /\ Resources!Searched = treeQuery[Depth + 1]
<1>1. SearchPlace /\ tree \in Trees
  BY DEF ResourcesInv
<1>. DEFINE c == Cardinality(Level(tree, treeQuery, Depth))
<1>2. c \in Nat
  BY <1>1, LevelType, FS_CardinalityType DEF SearchPlace
<1>3. start \in 0 .. c /\ end \in 0 .. c
  BY <1>1 DEF SearchPlace
<1>. HIDE DEF c
<1>4. Resources!Middle \in start .. end - 1 /\ Resources!Middle \in 0 .. c - 1
  BY <1>2, <1>3 DEF Resources!Middle
<1>5. /\ Resources!Probe \in Level(tree, treeQuery, Depth)
      /\ RankIn(treeQuery, Depth, Resources!Probe) = Resources!Middle
  <2>1. Resources!Probe = Resources!Entries(Prefix(treeQuery, Depth))[Resources!Middle]
    BY <1>1 DEF Resources!Probe, SearchPlace
  <2>. QED  BY <1>1, <1>4, <2>1, EntryAt DEF SearchPlace, c
<1>. QED  BY <1>2, <1>3, <1>4, <1>5 DEF Resources!Searched, Depth

(* Of two keys of a level the one that is before has the lower rank.       *)
LEMMA RanksApart ==
  ASSUME ResourcesInv, treePc = "search",
         NEW a \in Level(tree, treeQuery, Depth), NEW b \in Level(tree, treeQuery, Depth),
         Resources!Before(a, b)
  PROVE  /\ RankIn(treeQuery, Depth, a) < RankIn(treeQuery, Depth, b)
         /\ RankIn(treeQuery, Depth, a) \in Nat
         /\ RankIn(treeQuery, Depth, b) \in Nat
<1>. DEFINE K == Level(tree, treeQuery, Depth)
<1>1. K \subseteq Resources!Key /\ Ordered(K, KeyOrder)
  BY LevelType, KeysOrdered DEF ResourcesInv, SearchPlace
<1>2. a \in K /\ b \in K /\ <<a, b>> \in KeyOrder
  BY <1>1 DEF KeyOrder
<1>. HIDE DEF K
<1>3. /\ Cardinality(Below(K, KeyOrder, a)) < Cardinality(Below(K, KeyOrder, b))
      /\ Cardinality(Below(K, KeyOrder, a)) \in Nat
      /\ Cardinality(Below(K, KeyOrder, b)) \in Nat
  BY <1>1, <1>2, RankGrows, RankType
<1>. QED  BY <1>3 DEF K, RankIn

LEMMA LowerStep ==
  ASSUME ResourcesInv, Resources!Lower
  PROVE  ResourcesInv'
<1>1. /\ treePc = "search" /\ start < end /\ UNCHANGED <<tree, treeQuery, path, start, treePc>>
      /\ UNCHANGED <<block, wanted>> /\ Resources!Before(Resources!Searched, Resources!Probe)
      /\ end' = IF end # Resources!Middle THEN Resources!Middle ELSE Resources!Middle - 1
  BY DEF Resources!Lower, Resources!walk
<1>2. SearchPlace
  BY <1>1 DEF ResourcesInv
<1>. DEFINE c == Cardinality(Level(tree, treeQuery, Depth))
            k == treeQuery[Depth + 1]
            r == RankIn(treeQuery, Depth, k)
            m == Resources!Middle
<1>3. /\ start \in Nat /\ end \in Nat /\ m \in start .. end - 1 /\ end' = m
      /\ end \in 0 .. c /\ c \in Nat
  BY <1>1, <1>2, ProbeRank, LevelType, FS_CardinalityType DEF SearchPlace, ResourcesInv
<1>4. k \in Level(tree, treeQuery, Depth) => r \in start .. m - 1
  <2>. SUFFICES ASSUME k \in Level(tree, treeQuery, Depth) PROVE r \in start .. m - 1
    OBVIOUS
  <2>1. r < m
    BY <1>1, ProbeRank, RanksApart
  <2>2. r \in start .. end - 1
    BY <1>2 DEF SearchPlace
  <2>. HIDE DEF r, m
  <2>. QED  BY <1>3, <2>1, <2>2
<1>. HIDE DEF c, m
<1>5. end' \in 0 .. c
  BY <1>3
<1>6. SearchPlace'
  BY <1>1, <1>2, <1>3, <1>4, <1>5 DEF SearchPlace, Depth, RankIn, c
<1>. QED  BY <1>1, <1>6 DEF ResourcesInv

LEMMA UpperStep ==
  ASSUME ResourcesInv, Resources!Upper
  PROVE  ResourcesInv'
<1>1. /\ treePc = "search" /\ start < end /\ UNCHANGED <<tree, treeQuery, path, end, treePc>>
      /\ UNCHANGED <<block, wanted>> /\ Resources!Before(Resources!Probe, Resources!Searched)
      /\ start' = IF start # Resources!Middle THEN Resources!Middle ELSE Resources!Middle + 1
  BY DEF Resources!Upper, Resources!walk
<1>2. SearchPlace
  BY <1>1 DEF ResourcesInv
<1>. DEFINE c == Cardinality(Level(tree, treeQuery, Depth))
            k == treeQuery[Depth + 1]
            r == RankIn(treeQuery, Depth, k)
            m == Resources!Middle
<1>3. /\ start \in Nat /\ end \in Nat /\ m \in start .. end - 1
      /\ end \in 0 .. c /\ c \in Nat
  BY <1>1, <1>2, ProbeRank, LevelType, FS_CardinalityType DEF SearchPlace, ResourcesInv
<1>4. k \in Level(tree, treeQuery, Depth) => r \in m + 1 .. end - 1
  <2>. SUFFICES ASSUME k \in Level(tree, treeQuery, Depth) PROVE r \in m + 1 .. end - 1
    OBVIOUS
  <2>1. m < r
    BY <1>1, ProbeRank, RanksApart
  <2>2. r \in start .. end - 1
    BY <1>2 DEF SearchPlace
  <2>. HIDE DEF r, m
  <2>. QED  BY <1>3, <2>1, <2>2
<1>. HIDE DEF c, m
<1>5. start' \in 0 .. c /\ start' <= m + 1 /\ m \in Nat /\ start' \in Nat
  BY <1>1, <1>3 DEF m
<1>6. k \in Level(tree, treeQuery, Depth) => r \in start' .. end - 1
  <2>. HIDE DEF r
  <2>. QED  BY <1>3, <1>4, <1>5
<1>7. SearchPlace'
  BY <1>1, <1>2, <1>5, <1>6 DEF SearchPlace, Depth, RankIn, c
<1>. QED  BY <1>1, <1>7 DEF ResourcesInv

LEMMA DescendStep ==
  ASSUME ResourcesInv, Resources!Descend
  PROVE  ResourcesInv'
<1>. DEFINE n == Depth + 1
            q == treeQuery
<1>1. /\ treePc = "search" /\ start < end /\ UNCHANGED <<tree, treeQuery, treePc>>
      /\ UNCHANGED <<block, wanted>> /\ Resources!Probe = Resources!Searched
      /\ Depth < 2
      /\ Resources!Open(Append(path, Resources!Probe), q[Depth + 2])
  BY DEF Resources!Descend, Resources!walk, Depth
<1>2. SearchPlace /\ tree \in Trees
  BY <1>1 DEF ResourcesInv
<1>3. n \in 1 .. 2 /\ n \in 0 .. 2 /\ q \in Triple /\ Depth \in 0 .. 2 /\ path = Prefix(q, Depth)
      /\ Depth + 2 = n + 1
  BY <1>1, <1>2 DEF SearchPlace
<1>4. Append(path, Resources!Probe) = Prefix(q, n)
  <2>1. Resources!Probe = q[Depth + 1]
    BY <1>1, ProbeRank
  <2>2. Append(Prefix(q, Depth), q[Depth + 1]) = Prefix(q, Depth + 1)
    BY <1>3, PrefixType
  <2>. HIDE DEF Depth
  <2>. QED  BY ONLY <1>3, <2>1, <2>2 DEF n
<1>5. Len(Prefix(q, n)) = n
  BY <1>3, PrefixType
<1>6. Resources!Open(Prefix(q, n), q[n + 1])
  <2>. HIDE DEF n, q
  <2>. QED  BY ONLY <1>1, <1>3, <1>4, Zenon
<1>. HIDE DEF n, q
<1>7. /\ path' = Prefix(q, n)
      /\ start' \in 0 .. Cardinality(Level(tree, q, n))
      /\ end' \in 0 .. Cardinality(Level(tree, q, n))
      /\ q[n + 1] \in Level(tree, q, n) => RankIn(q, n, q[n + 1]) \in start' .. end' - 1
  BY <1>2, <1>3, <1>6, OpenRange
<1>8. Depth' = n
  BY <1>5, <1>7 DEF Depth
<1>9. SearchPlace'
  BY <1>1, <1>3, <1>7, <1>8 DEF SearchPlace, RankIn, q
<1>. QED  BY <1>1, <1>9 DEF ResourcesInv

(* A search that has no range left did not miss the key.                   *)
LEMMA KeyNotThere ==
  ASSUME ResourcesInv, treePc = "search", start >= end
  PROVE  treeQuery[Depth + 1] \notin Level(tree, treeQuery, Depth)
<1>1. SearchPlace
  BY DEF ResourcesInv
<1>. DEFINE c == Cardinality(Level(tree, treeQuery, Depth))
<1>2. c \in Nat
  BY <1>1, LevelType, FS_CardinalityType DEF SearchPlace, ResourcesInv
<1>3. start \in 0 .. c /\ end \in 0 .. c
  BY <1>1 DEF SearchPlace
<1>. HIDE DEF c
<1>4. start .. end - 1 = {}
  BY <1>2, <1>3
<1>. QED  BY <1>1, <1>4 DEF SearchPlace

(* The members of a tree that begin with the path of a search.             *)
LEMMA UnderLevel ==
  ASSUME NEW t \in Trees, NEW q \in Triple, NEW n \in 0 .. 2, NEW x \in Under(t, q, n + 1)
  PROVE  q[n + 1] \in Level(t, q, n)
<1>1. x \in Under(t, q, n) /\ x[n + 1] = q[n + 1]
  BY DEF Under
<1>. QED  BY <1>1 DEF Level

LEMMA MemberUnder ==
  ASSUME NEW t \in Trees, NEW q \in Triple
  PROVE  /\ \A x : x = q /\ x \in t => x \in Under(t, q, 3)
         /\ \A x \in Under(t, q, 3) : x = q
         /\ \A n \in 0 .. 3 : Under(t, q, 3) \subseteq Under(t, q, n)
         /\ Under(t, q, 2) \subseteq Under(t, q, 1)
<1>1. ASSUME NEW x \in Under(t, q, 3) PROVE x = q
  <2>1. x \in Triple /\ \A i \in 1 .. 3 : x[i] = q[i]
    BY TreeType DEF Under
  <2>2. Prefix(x, 3) = x /\ Prefix(q, 3) = q
    BY <2>1, PrefixType
  <2>3. Prefix(x, 3) = Prefix(q, 3)
    BY <2>1 DEF Prefix
  <2>. QED  BY <2>2, <2>3
<1>2. \A x : x = q /\ x \in t => x \in Under(t, q, 3)
  BY DEF Under
<1>. QED  BY <1>1, <1>2 DEF Under

LEMMA FoundSettles ==
  ASSUME ResourcesInv, treePc = "search",
         UNCHANGED <<tree, treeQuery, block, wanted>>,
         treePc' \in {"idle", "walk"},
         treePc' = "walk" => wanted # BlockSize /\ left' = wanted /\ data' = 0,
         found' = RightResource(tree, treeQuery)
  PROVE  ResourcesInv'
<1>1. treeQuery \in Triple /\ wanted \in 0 .. BlockSize
  BY DEF ResourcesInv, SearchPlace
<1>2. FoundPlace'
  <2>1. RightResource(tree, treeQuery)' = RightResource(tree, treeQuery)
    BY DEF RightResource, Under
  <2>. QED  BY <1>1, <2>1 DEF FoundPlace
<1>3. ASSUME treePc' = "walk" PROVE WalkPlace'
  <2>1. /\ wanted' = wanted /\ left' = wanted /\ data' = 0 /\ block' = block
        /\ wanted # BlockSize
    BY <1>3
  <2>2. BlockSize \in Nat /\ wanted \in Nat
    BY <1>1, ResourcesConstants DEF Resources!ResourceTreeConstants
  <2>3. left' \in 0 .. wanted' /\ wanted' - left' = 0
    BY <2>1, <2>2
  <2>4. Resources!Lengths(block')[0] = 0
    BY LengthsFollow
  <2>. QED  BY <2>1, <2>3, <2>4 DEF WalkPlace
<1>. QED  BY <1>1, <1>2, <1>3 DEF ResourcesInv

LEMMA FoundLanguageStep ==
  ASSUME ResourcesInv, Resources!FoundLanguage
  PROVE  ResourcesInv'
<1>1. /\ treePc = "search" /\ start < end /\ Depth = 2
      /\ Resources!Probe = Resources!Searched
      /\ Resources!Take(Append(path, Resources!Probe))
  BY DEF Resources!FoundLanguage, Depth
<1>2. /\ treeQuery \in Triple /\ path = Prefix(treeQuery, 2) /\ tree \in Trees
  BY <1>1 DEF ResourcesInv, SearchPlace
<1>3. /\ Resources!Probe = treeQuery[2 + 1]
      /\ Resources!Probe \in Level(tree, treeQuery, 2)
  BY <1>1, ProbeRank
<1>4. Append(path, Resources!Probe) = treeQuery
  BY <1>2, <1>3, PrefixType
<1>5. treeQuery \in tree
  <2>1. PICK x \in Under(tree, treeQuery, 2) : x[3] = treeQuery[3]
    BY <1>3 DEF Level
  <2>2. x \in Under(tree, treeQuery, 3)
    BY <2>1 DEF Under
  <2>. QED  BY <1>2, <2>2, MemberUnder DEF Under
<1>6. found' = RightResource(tree, treeQuery)
  BY <1>1, <1>4, <1>5 DEF Resources!Take, RightResource
<1>7. /\ UNCHANGED <<tree, treeQuery, block, wanted>> /\ treePc' \in {"idle", "walk"}
      /\ treePc' = "walk" => wanted # BlockSize /\ left' = wanted /\ data' = 0
  BY <1>1 DEF Resources!Take, Resources!NoString
<1>. QED  BY <1>1, <1>6, <1>7, FoundSettles

LEMMA KeyMissingStep ==
  ASSUME ResourcesInv, Resources!KeyMissing
  PROVE  ResourcesInv'
<1>1. /\ treePc = "search" /\ start >= end /\ Depth < 2
      /\ treePc' = "idle" /\ found' = <<>> /\ UNCHANGED <<tree, treeQuery, block, wanted>>
  BY DEF Resources!KeyMissing, Depth, Resources!NotFound, Resources!walk
<1>2. /\ treeQuery \in Triple /\ Depth \in {0, 1} /\ tree \in Trees
      /\ treeQuery[Depth + 1] \notin Level(tree, treeQuery, Depth)
  BY <1>1, KeyNotThere DEF ResourcesInv, SearchPlace
<1>3. Under(tree, treeQuery, Depth + 1) = {}
  BY <1>2, UnderLevel
<1>4. Under(tree, treeQuery, 2) = {}
  BY <1>2, <1>3, MemberUnder
<1>5. treeQuery \notin tree
  BY <1>2, <1>4, MemberUnder
<1>6. found' = RightResource(tree, treeQuery)
  BY <1>1, <1>4, <1>5 DEF RightResource
<1>. QED  BY <1>1, <1>6, FoundSettles

(* The first language of a directory is the one before all the others.     *)
LEMMA FirstLanguage ==
  ASSUME tree \in Trees, NEW q \in Triple, Level(tree, q, 2) # {}
  PROVE  LET e == Resources!Entries(Prefix(q, 2))[0]
             A == Under(tree, q, 2)
         IN  Append(Prefix(q, 2), e)
             = CHOOSE r \in A : \A x \in A : x = r \/ Resources!Before(r[3], x[3])
<1>. DEFINE e == Resources!Entries(Prefix(q, 2))[0]
            A == Under(tree, q, 2)
            K == Level(tree, q, 2)
            First(r) == \A x \in A : x = r \/ Resources!Before(r[3], x[3])
<1>1. K \subseteq Resources!Key /\ IsFiniteSet(K) /\ Ordered(K, KeyOrder) /\ K # {}
  BY LevelType, KeysOrdered
<1>2. e \in K /\ Cardinality(Below(K, KeyOrder, e)) = 0
  <2>1. 0 \in 0 .. Cardinality(K) - 1
    <3>. HIDE DEF K
    <3>1. Cardinality(K) \in Nat /\ Cardinality(K) # 0
      BY <1>1, FS_CardinalityType, FS_EmptySet
    <3>. QED  BY <3>1
  <2>. QED  BY <2>1, EntryAt DEF RankIn
<1>3. Below(K, KeyOrder, e) = {}
  <2>. HIDE DEF K, e
  <2>1. IsFiniteSet(Below(K, KeyOrder, e))
    BY <1>1, FS_Subset DEF Below
  <2>. QED  BY <1>2, <2>1, FS_EmptySet
<1>4. \A x \in A : x \in Triple /\ x[3] \in K /\ x[1] = q[1] /\ x[2] = q[2]
  BY TreeType DEF Under, Level
<1>5. ASSUME NEW x \in A, NEW y \in A, x[3] = y[3] PROVE x = y
  BY <1>4, <1>5 DEF Triple
<1>6. \A x, y \in K : Resources!Before(x, y) <=> <<x, y>> \in KeyOrder
  BY <1>1 DEF KeyOrder
<1>7. PICK r \in A : r[3] = e
  BY <1>2 DEF Level
<1>8. First(r)
  <2>. SUFFICES ASSUME NEW x \in A, x # r PROVE Resources!Before(r[3], x[3])
    OBVIOUS
  <2>1. x[3] \in K /\ x[3] # e
    BY <1>4, <1>5, <1>7
  <2>2. <<x[3], e>> \notin KeyOrder
    BY <1>3, <2>1 DEF Below
  <2>3. <<e, x[3]>> \in KeyOrder
    BY <1>1, <1>2, <2>1, <2>2 DEF Ordered
  <2>. QED  BY <1>2, <1>6, <1>7, <2>1, <2>3
<1>9. ASSUME NEW s \in A, First(s) PROVE s = r
  <2>. SUFFICES ASSUME s # r PROVE FALSE
    OBVIOUS
  <2>1. Resources!Before(r[3], s[3]) /\ Resources!Before(s[3], r[3])
    BY <1>8, <1>9
  <2>2. s[3] \in K /\ <<s[3], e>> \in KeyOrder
    BY <1>4, <1>6, <1>7, <1>2, <2>1
  <2>. QED  BY <1>3, <2>2 DEF Below
<1>10. (CHOOSE s \in A : First(s)) = r
  <2>. HIDE DEF A, First
  <2>. QED  BY <1>8, <1>9, Zenon
<1>11. Append(Prefix(q, 2), e) = r
  <2>1. r \in Triple /\ r[1] = q[1] /\ r[2] = q[2] /\ r[3] = e
    BY <1>4, <1>7
  <2>. HIDE DEF e, A, K
  <2>2. Prefix(r, 2) = Prefix(q, 2)
    BY <2>1 DEF Prefix
  <2>. QED  BY <2>1, <2>2, PrefixType
<1>. QED  BY <1>10, <1>11, Zenon

LEMMA LanguageMissingStep ==
  ASSUME ResourcesInv, Resources!LanguageMissing
  PROVE  ResourcesInv'
<1>1. treePc = "search" /\ start >= end /\ Depth = 2
  BY DEF Resources!LanguageMissing, Depth
<1>. DEFINE q == treeQuery
            K == Level(tree, q, 2)
<1>2. /\ q \in Triple /\ path = Prefix(q, 2) /\ tree \in Trees /\ q[3] \notin K
  BY <1>1, KeyNotThere DEF ResourcesInv, SearchPlace
<1>3. q \notin tree
  BY <1>2, UnderLevel, MemberUnder
<1>4. Resources!Keys(path) = K
  BY <1>2, KeysAre
<1>5. CASE K = Resources!NamedEntries(path)
  <2>1. \A k \in K : k[1] = "name"
    BY <1>4, <1>5 DEF Resources!NamedEntries
  <2>2. \A r \in Under(tree, q, 2) : r[3][1] = "name"
    BY <2>1 DEF Level
  <2>3. Resources!NotFound
    BY <1>4, <1>5 DEF Resources!LanguageMissing
  <2>4. found' = RightResource(tree, q)
    BY <1>3, <2>2, <2>3 DEF Resources!NotFound, RightResource
  <2>. QED  BY <1>1, <2>3, <2>4, FoundSettles DEF Resources!NotFound, Resources!walk
<1>6. CASE K # Resources!NamedEntries(path)
  <2>1. PICK k \in K : k[1] # "name"
    BY <1>4, <1>6 DEF Resources!NamedEntries
  <2>2. ~ \A r \in Under(tree, q, 2) : r[3][1] = "name"
    BY <2>1 DEF Level
  <2>3. Resources!Take(Append(path, Resources!Entries(path)[0]))
    BY <1>4, <1>6 DEF Resources!LanguageMissing
  <2>4. Append(path, Resources!Entries(path)[0])
        = CHOOSE r \in Under(tree, q, 2) :
            \A x \in Under(tree, q, 2) : x = r \/ Resources!Before(r[3], x[3])
    BY <1>2, <2>1, FirstLanguage
  <2>5. found' = Append(path, Resources!Entries(path)[0])
    BY <2>3 DEF Resources!Take
  <2>6. found' = RightResource(tree, q)
    <3>. HIDE DEF q
    <3>. QED  BY <1>3, <2>2, <2>4, <2>5, Zenon DEF RightResource
  <2>7. /\ UNCHANGED <<tree, treeQuery, block, wanted>> /\ treePc' \in {"idle", "walk"}
        /\ treePc' = "walk" => wanted # BlockSize /\ left' = wanted /\ data' = 0
    BY <2>3 DEF Resources!Take, Resources!NoString
  <2>. QED  BY <1>1, <2>6, <2>7, FoundSettles
<1>. QED  BY <1>5, <1>6

LEMMA StepOverStep ==
  ASSUME ResourcesInv, Resources!StepOver
  PROVE  ResourcesInv'
<1>1. /\ treePc = "walk" /\ left > 0 /\ left' = left - 1
      /\ data' = data + block[wanted - left] + 1
      /\ UNCHANGED <<tree, treeQuery, treePc, found, block, wanted>>
  BY DEF Resources!StepOver
<1>2. /\ wanted \in 0 .. BlockSize /\ left \in 0 .. wanted /\ BlockSize \in Nat
      /\ data = Resources!Lengths(block)[wanted - left] /\ wanted # BlockSize
  BY <1>1, ResourcesConstants DEF ResourcesInv, WalkPlace, Resources!ResourceTreeConstants
<1>. DEFINE n == wanted - left'
<1>3. n \in 1 .. BlockSize /\ n - 1 = wanted - left /\ left' \in 0 .. wanted
  BY <1>1, <1>2
<1>. HIDE DEF n
<1>4. Resources!Lengths(block)[n] = Resources!Lengths(block)[n - 1] + block[n - 1] + 1
  BY <1>3, LengthsFollow
<1>5. data' = Resources!Lengths(block)[n]
  BY <1>1, <1>2, <1>3, <1>4
<1>6. WalkPlace'
  BY <1>1, <1>2, <1>3, <1>5 DEF WalkPlace, n
<1>7. FoundPlace'
  <2>1. RightResource(tree, treeQuery)' = RightResource(tree, treeQuery)
    BY <1>1 DEF RightResource, Under
  <2>. QED  BY <1>1, <2>1 DEF FoundPlace, ResourcesInv
<1>. QED  BY <1>1, <1>6, <1>7 DEF ResourcesInv

LEMMA StaySettled ==
  ASSUME ResourcesInv, UNCHANGED <<tree, treeQuery, found, block, wanted>>,
         \/ treePc' = "idle" /\ treePc # "search"
         \/ UNCHANGED <<path, start, end, treePc, data, left>>
  PROVE  ResourcesInv'
<1>1. RightResource(tree, treeQuery)' = RightResource(tree, treeQuery)
  BY DEF RightResource, Under
<1>2. FoundPlace => FoundPlace'
  BY <1>1 DEF FoundPlace
<1>3. UNCHANGED <<path, start, end, data, left>> => (SearchPlace => SearchPlace')
  BY DEF SearchPlace, Depth, RankIn
<1>4. UNCHANGED <<path, start, end, data, left>> => (WalkPlace => WalkPlace')
  BY DEF WalkPlace
<1>. QED  BY <1>2, <1>3, <1>4 DEF ResourcesInv

LEMMA CallStep ==
  ASSUME ResourcesInv, Resources!Call
  PROVE  ResourcesInv'
<1>1. /\ ResourceTypes \subseteq Resources!Asked /\ ResourceNames \subseteq Resources!Asked
      /\ BlockSize \in Nat /\ BlockSize > 0
  BY ResourcesConstants DEF Resources!ResourceTreeConstants
<1>2. ASSUME NEW t \in ResourceTypes, NEW n \in ResourceNames, NEW l \in Languages,
             Resources!Find(t, n, l, Resources!NoString)
      PROVE  ResourcesInv'
  <2>1. Resources!NoString \in 0 .. BlockSize
    BY <1>1 DEF Resources!NoString
  <2>. QED  BY <1>1, <1>2, <2>1, FindStep
<1>3. ASSUME NEW id \in 0 .. 2 * BlockSize - 1, NEW l \in Languages,
             Resources!LoadString(id, l)
      PROVE  ResourcesInv'
  <2>1. id \in Nat
    BY <1>1
  <2>2. id % BlockSize \in 0 .. BlockSize /\ id \div BlockSize + 1 \in Nat
    BY <1>1, <2>1
  <2>3. <<"id", 6>> \in Resources!Key /\ <<"id", id \div BlockSize + 1>> \in Resources!Key
    BY <2>2 DEF Resources!Key
  <2>4. Resources!Key \subseteq Resources!Asked
    BY DEF Resources!Asked
  <2>. QED  BY <1>3, <2>2, <2>3, <2>4, FindStep DEF Resources!LoadString
<1>. QED  BY <1>2, <1>3 DEF Resources!Call

LEMMA ResourcesStep ==
  ASSUME ResourcesInv, [Resources!Next]_(Resources!vars)
  PROVE  ResourcesInv'
<1>1. ASSUME UNCHANGED Resources!vars PROVE ResourcesInv'
  BY <1>1, StaySettled DEF Resources!vars, Resources!walk
<1>2. ASSUME Resources!Copy PROVE ResourcesInv'
  BY <1>2, StaySettled DEF Resources!Copy, Resources!walk
<1>. QED
  BY <1>1, <1>2, CallStep, LowerStep, UpperStep, DescendStep, FoundLanguageStep,
     KeyMissingStep, LanguageMissingStep, StepOverStep
  DEF Resources!Next, Resources!Search, Resources!NoResources

LEMMA ResourcesInvRight ==
  ResourcesInv => FoundRight
<1>. SUFFICES ASSUME ResourcesInv PROVE FoundRight
  OBVIOUS
<1>1. Resources!FindsRight
  <2>1. Resources!Available = Under(tree, treeQuery, 2)
    BY DEF Resources!Available, Under
  <2>. SUFFICES ASSUME treePc # "search", treeQuery # <<>>
                PROVE  found = RightResource(tree, treeQuery)
    BY <2>1, Zenon DEF Resources!FindsRight, RightResource
  <2>. QED  BY DEF ResourcesInv, FoundPlace
<1>2. Resources!StringRight
  <2>. SUFFICES ASSUME treePc = "walk", left = 0
                PROVE  data = Resources!Lengths(block)[wanted]
    BY DEF Resources!StringRight
  <2>1. BlockSize \in Nat /\ wanted \in 0 .. BlockSize /\ WalkPlace
    BY ResourcesConstants DEF ResourcesInv, Resources!ResourceTreeConstants
  <2>2. wanted - left = wanted
    BY <2>1
  <2>. QED  BY <2>1, <2>2 DEF WalkPlace
<1>. QED  BY <1>1, <1>2 DEF FoundRight, Resources!FoundRight

(* A search finds the resource asked for, or the first of its languages,   *)
(* or none, exactly when there is none, and a string of a block begins     *)
(* behind the strings before it, for every finite tree and every length of *)
(* the blocks (MemoryModule.c:890-1104).                                   *)
THEOREM ResourcesFound == Resources!Spec => []FoundRight
<1>1. ResourcesInv /\ [Resources!Next]_(Resources!vars) => ResourcesInv'
  BY ResourcesStep
<1>. QED  BY <1>1, ResourcesBegin, ResourcesInvRight, PTL DEF Resources!Spec

=============================================================================
