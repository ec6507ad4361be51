--------------------------- MODULE SystemQueries ---------------------------
(***************************************************************************)
(* What the helpers of MachineOper.cpp and ProcessOper.cpp learn from a    *)
(* system that changes while they ask.  Two of them ask for a size first   *)
(* and for the contents afterwards; the third goes through a snapshot.     *)
(***************************************************************************)
EXTENDS Integers, Sequences, SequencesExt, FiniteSets

CONSTANTS
  Adapter, Module, Name,  \* what there may be on the system
  Places,                 \* the entries of the caller's array: 10
  MaxId,                  \* bound: the process ids
  MaxChanges,             \* bound: the changes of the system
  MaxCalls                \* bound: the calls of the helpers

Nobody == "nobody"
Garbage == "garbage"

SystemQueriesConstants ==
  /\ Name \intersect {"idle", "vector", "array", "modules", Nobody} = {}
  /\ Garbage \notin Module
  /\ Places \in Nat
  /\ MaxId \in Nat /\ MaxChanges \in Nat /\ MaxCalls \in Nat
  /\ IsFiniteSet(Adapter) /\ IsFiniteSet(Module)

VARIABLES
  adapters, modules,  \* what there is now
  processes,          \* id -> name, or Nobody
  changes,
  calls,
  query,     \* the helper that runs, and "idle" between the calls
  step,      \* the call of the system it makes next
  size,      \* the number of entries its buffer has room for
  handles,   \* what it still has to look at
  answer,    \* what it gives its caller
  unnamed,   \* the handles it got no name for
  outcome,   \* how it came to its answer
  known      \* what has been on the system since the helper was called

system == <<adapters, modules, processes>>
local == <<size, handles>>
vars ==
  <<system, changes, calls, query, step, local, answer, unnamed, outcome, known>>

Id == 1 .. MaxId

Existing == [adapters |-> adapters, modules |-> modules, processes |-> processes]

Init ==
  /\ adapters \in SUBSET Adapter
  /\ modules \in SUBSET Module
  /\ processes \in [Id -> Name \union {Nobody}]
  /\ changes = 0 /\ calls = 0
  /\ query = "idle" /\ step = "none"
  /\ size = 0 /\ handles = <<>>
  /\ answer = <<>> /\ unnamed = 0 /\ outcome = "none"
  /\ known = {}

Begin(q, first) ==
  /\ step = "none" /\ calls < MaxCalls
  /\ calls' = calls + 1
  /\ query' = q /\ step' = first
  /\ answer' = <<>> /\ unnamed' = 0 /\ outcome' = "none"
  /\ known' = {Existing}
  /\ UNCHANGED <<system, changes>>

Return(how) ==
  /\ step' = "none" /\ outcome' = how
  /\ UNCHANGED <<system, changes, calls, query, unnamed, known>>

Goto(s) ==
  /\ step' = s
  /\ UNCHANGED <<system, changes, calls, query, outcome, known>>

----------------------------------------------------------------------------
(* fGetAllMACAndIP and fGetAllMACAndIPArray: first a buffer for one        *)
(* adapter, then, if that is too small, one of the size asked for.         *)

GetAdapters(kind) ==
  /\ kind \in {"vector", "array"}
  /\ Begin(kind, "size")
  /\ size' = 1 /\ handles' = <<>>

AskSize ==
  /\ query \in {"vector", "array"} /\ step = "size"
  /\ size' = IF Cardinality(adapters) > size THEN Cardinality(adapters) ELSE size
  /\ Goto("fetch")
  /\ UNCHANGED <<handles, answer, unnamed>>

(* Either of the two buffers cannot be had.                                *)
NoMemory ==
  /\ query \in {"vector", "array"} /\ step = "size"
  /\ Return("no memory")
  /\ UNCHANGED <<local, answer>>

Ready == query \in {"vector", "array"} /\ step = "fetch"

Fits == adapters # {} /\ Cardinality(adapters) <= size

(* The list of the vector's kind is a copy: the caller's stays as it was.  *)
FetchVector ==
  /\ Ready /\ Fits /\ query = "vector"
  /\ Return("listed")
  /\ UNCHANGED <<local, answer>>

(* The loop goes over all adapters, and writes behind an array that has    *)
(* fewer places.                                                           *)
FetchArray ==
  /\ Ready /\ Fits /\ query = "array"
  /\ answer' = SetToSeq(adapters)
  /\ Return(IF Cardinality(adapters) <= Places THEN "listed" ELSE "overrun")
  /\ UNCHANGED local

(* More adapters than there were, or none: no error is reported.           *)
FetchNothing ==
  /\ Ready /\ ~Fits
  /\ Return("nothing")
  /\ UNCHANGED <<local, answer>>

----------------------------------------------------------------------------
(* fGetModuleNameVectorEx.                                                 *)

GetModules ==
  /\ Begin("modules", "size")
  /\ size' = 0 /\ handles' = <<>>

EnumFails ==
  /\ query = "modules" /\ step \in {"size", "fetch"}
  /\ Return("failed")
  /\ UNCHANGED <<local, answer>>

AskModules ==
  /\ query = "modules" /\ step = "size"
  /\ size' = Cardinality(modules)
  /\ Goto("fetch")
  /\ UNCHANGED <<handles, answer, unnamed>>

(* EnumProcessModules fills the buffer and says how many there are; what   *)
(* is behind those that had room was never written.                        *)
EnumModules ==
  LET all == SetToSeq(modules) IN
  /\ query = "modules" /\ step = "fetch"
  /\ handles' = [i \in 1 .. Len(all) |-> IF i <= size THEN all[i] ELSE Garbage]
  /\ Goto("name")
  /\ UNCHANGED <<size, answer, unnamed>>

Naming == query = "modules" /\ step = "name" /\ handles # <<>>

(* The name of a handle: of the module if it is still there; of a handle   *)
(* that is none, of whatever module it happens to be.                      *)
Named ==
  /\ Naming
  /\ \E m \in modules :
       /\ Head(handles) \in {m, Garbage}
       /\ answer' = Append(answer, m)
  /\ handles' = Tail(handles)
  /\ Goto("name")
  /\ UNCHANGED <<size, unnamed>>

(* GetModuleFileNameEx may fail, or give a path without a backslash, for a *)
(* module that is there too.                                               *)
NotNamed ==
  /\ Naming
  /\ unnamed' = unnamed + 1
  /\ handles' = Tail(handles)
  /\ Goto("name")
  /\ UNCHANGED <<size, answer>>

ModulesListed ==
  /\ query = "modules" /\ step = "name" /\ handles = <<>>
  /\ Return("listed")
  /\ UNCHANGED <<local, answer>>

----------------------------------------------------------------------------
(* fGetProcessIdByName.  The snapshot is not closed.                       *)

FindProcess(name) ==
  /\ Begin(name, "snapshot")
  /\ size' = 0 /\ handles' = <<>>

SnapshotFails ==
  /\ query \in Name /\ step = "snapshot"
  /\ answer' = <<0>>
  /\ Return("no snapshot")
  /\ UNCHANGED local

Snapshot ==
  /\ query \in Name /\ step = "snapshot"
  /\ handles' = [i \in Id |-> <<i, processes[i]>>]
  /\ Goto("walk")
  /\ UNCHANGED <<size, answer, unnamed>>

(* Mutant: the entry behind the match is returned.                         *)
WalkMutant ==
  /\ query \in Name /\ step = "walk" /\ handles # <<>>
  /\ IF Head(handles)[2] = query
     THEN /\ answer' = <<(Head(handles)[1] % MaxId) + 1>>
          /\ Return("found")
          /\ UNCHANGED local
     ELSE /\ handles' = Tail(handles)
          /\ Goto("walk")
          /\ UNCHANGED <<size, answer, unnamed>>

Walk ==
  /\ query \in Name /\ step = "walk" /\ handles # <<>>
  /\ IF Head(handles)[2] = query
     THEN /\ answer' = <<Head(handles)[1]>>
          /\ Return("found")
          /\ UNCHANGED local
     ELSE /\ handles' = Tail(handles)
          /\ Goto("walk")
          /\ UNCHANGED <<size, answer, unnamed>>

WalkEnds ==
  /\ query \in Name /\ step = "walk" /\ handles = <<>>
  /\ answer' = <<0>>
  /\ Return("not found")
  /\ UNCHANGED local

----------------------------------------------------------------------------
(* The system: adapters come and go, the process loads and frees modules,  *)
(* processes start and end.                                                *)

Toggle(S, x) == IF x \in S THEN S \ {x} ELSE S \union {x}

SystemChanges ==
  /\ step # "none" /\ changes < MaxChanges
  /\ \/ /\ \E a \in Adapter : adapters' = Toggle(adapters, a)
        /\ UNCHANGED <<modules, processes>>
     \/ /\ \E m \in Module : modules' = Toggle(modules, m)
        /\ UNCHANGED <<adapters, processes>>
     \/ /\ \E i \in Id : \E n \in Name \union {Nobody} :
             processes' = [processes EXCEPT ![i] = n]
        /\ UNCHANGED <<adapters, modules>>
  /\ changes' = changes + 1
  /\ known' = known \union {Existing'}
  /\ UNCHANGED <<calls, query, step, local, answer, unnamed, outcome>>

Helper ==
  \/ AskSize \/ NoMemory \/ FetchVector \/ FetchArray \/ FetchNothing
  \/ EnumFails \/ AskModules \/ EnumModules \/ Named \/ NotNamed \/ ModulesListed
  \/ SnapshotFails \/ Snapshot \/ Walk \/ WalkEnds

Next ==
  \/ \E kind \in {"vector", "array"} : GetAdapters(kind)
  \/ GetModules
  \/ \E n \in Name : FindProcess(n)
  \/ Helper
  \/ SystemChanges

Spec == Init /\ [][Next]_vars

----------------------------------------------------------------------------
(* Properties.                                                             *)

Quiet == Cardinality(known) = 1

(* The adapters in the array are all those the system had at one moment of *)
(* the call; there are none in it although nothing changed only if there   *)
(* are none; and what is behind the array is written over only if the      *)
(* system had more adapters than it has places (MachineOper.cpp:143-178).  *)
AdaptersOfOneMoment ==
  query = "array" /\ step = "none" =>
    /\ outcome = "listed" => \E k \in known : ToSet(answer) = k.adapters
    /\ outcome = "overrun" => \E k \in known : Cardinality(k.adapters) > Places
    /\ outcome = "nothing" /\ Quiet => adapters = {}

(* A name in the list is that of a module the process had during the call. *)
(* The names, with those that could not be got, are as many as the modules *)
(* at one moment of it.  A module is listed twice only if the process had  *)
(* more modules at one moment of the call than at another: what is behind  *)
(* the handles that had room was never written (ProcessOper.cpp:90-119).   *)
ModulesWereThere ==
  query = "modules" =>
    /\ \A i \in DOMAIN answer : \E k \in known : answer[i] \in k.modules
    /\ outcome = "listed" =>
         \E k \in known : Len(answer) + unnamed = Cardinality(k.modules)
    /\ \/ IsInjective(answer)
       \/ \E j, k \in known : Cardinality(j.modules) < Cardinality(k.modules)

(* The id found belonged to a process of that name, and the first one, at  *)
(* a moment of the call; whether it still does nobody knows                *)
(* (ProcessOper.cpp:140-157).                                              *)
IdWasThere ==
  outcome = "found" =>
    \E k \in known :
      /\ k.processes[answer[1]] = query
      /\ \A i \in 1 .. answer[1] - 1 : k.processes[i] # query

(* What a helper answers was so during its call.                           *)
AnswersOfTheCall == AdaptersOfOneMoment /\ ModulesWereThere /\ IdWasThere

(* "0 : not found" and "no snapshot" are told apart, as the comment before *)
(* the function says (ProcessOper.cpp:126-130).                            *)
FailuresToldApart ==
  /\ outcome = "no snapshot" => answer = <<-1>>
  /\ outcome = "not found" => answer = <<-2>>

(* The caller's vector holds the adapters after the call, as in the demo   *)
(* before the function (MachineOper.cpp:11-15).                            *)
VectorFilled ==
  query = "vector" /\ outcome = "listed" => answer # <<>>
=============================================================================
