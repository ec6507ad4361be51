---------------------------- MODULE ResourceTree ----------------------------
(***************************************************************************)
(* MemoryFindResourceEx and MemoryLoadStringEx: a resource is looked for   *)
(* in a tree of three levels, type, name and language, each a directory    *)
(* that is searched by halving; a string is one of a block that is walked  *)
(* from its start.                                                         *)
(***************************************************************************)
EXTENDS Naturals, Sequences, FiniteSets

CONSTANTS
  Trees,          \* the resources of the modules that are searched
  Types, Names,   \* the keys asked for, of either kind
  Languages,      \* the languages asked for; 0 asks for the thread's
  ThreadLanguage,
  Blocks,         \* the string blocks: the lengths of BlockSize strings
  BlockSize       \* 16

(* A key is a name or a number; both kinds are kept in order, names first. *)
Key == {"name", "id"} \X Nat

(* Besides a name or a number a caller may ask for "#" and a number as     *)
(* text, which is cut to the 16 bits of a number.                          *)
Asked == Key \union ({"#"} \X Nat)

Meant(a) == IF a[1] = "#" THEN <<"id", a[2] % 65536>> ELSE a

LanguageKey(l) == <<"id", l>>

(* A tree is the set of the paths to its resources.                        *)
Tree == {t \in SUBSET (Key \X Key \X Key) : IsFiniteSet(t)}

ResourceTreeConstants ==
  /\ Trees \subseteq Tree
  /\ Types \subseteq Asked /\ Names \subseteq Asked
  /\ Languages \subseteq Nat /\ ThreadLanguage \in Nat
  /\ BlockSize \in Nat \ {0}
  /\ Blocks \subseteq [0 .. BlockSize - 1 -> Nat]

VARIABLES
  tree,       \* the resources of the module
  query,      \* the path asked for
  path,       \* the keys found so far
  start, end, \* the range of entries still to be searched
  pc,         \* "idle", "search" or "walk"
  found,      \* the resource found last, <<>> for none
  block,      \* the string block at that resource
  wanted,     \* the string asked for within the block, or NoString
  data,       \* the offset the walk is at
  left        \* the strings still to be stepped over

walk == <<block, wanted, data, left>>

NoString == BlockSize   \* a resource of another kind is asked for

vars == <<tree, query, path, start, end, pc, found, walk>>

----------------------------------------------------------------------------
(* A directory: the next keys below a path, names before numbers, sorted.  *)

Keys(p) ==
  {r[Len(p) + 1] : r \in {x \in tree : SubSeq(x, 1, Len(p)) = p}}

Before(a, b) ==
  \/ a[1] = "name" /\ b[1] = "id"
  \/ a[1] = b[1] /\ a[2] < b[2]

Entries(p) ==
  [n \in 0 .. Cardinality(Keys(p)) - 1 |->
     CHOOSE k \in Keys(p) : Cardinality({x \in Keys(p) : Before(x, k)}) = n]

NamedEntries(p) == {k \in Keys(p) : k[1] = "name"}

(* A search for a name looks at the named entries, one for a number at the *)
(* others.                                                                 *)
Open(p, key) ==
  /\ path' = p
  /\ start' = IF key[1] = "name" THEN 0 ELSE Cardinality(NamedEntries(p))
  /\ end' = IF key[1] = "name" THEN Cardinality(NamedEntries(p))
            ELSE Cardinality(Keys(p))

Init ==
  /\ tree \in Trees
  /\ query = <<>>
  /\ path = <<>>
  /\ start = 0 /\ end = 0
  /\ pc = "idle"
  /\ found = <<>>
  /\ block \in Blocks
  /\ wanted = NoString /\ data = 0 /\ left = 0

Language(l) == LanguageKey(IF l = 0 THEN ThreadLanguage ELSE l)

Find(type, name, language, string) ==
  /\ pc = "idle"
  /\ tree # {}
  /\ query' = <<Meant(type), Meant(name), Language(language)>>
  /\ Open(<<>>, Meant(type))
  /\ found' = <<>>
  /\ wanted' = string
  /\ pc' = "search"
  /\ UNCHANGED <<tree, block, data, left>>

(* The type of string tables is RT_STRING; each block is named by number.  *)
LoadString(id, language) ==
  Find(<<"id", 6>>, <<"id", id \div BlockSize + 1>>, language, id % BlockSize)

Middle == (start + end) \div 2

Searched == query[Len(path) + 1]

Probe == Entries(path)[Middle]

Lower ==
  /\ pc = "search" /\ start < end
  /\ Before(Searched, Probe)
  /\ end' = IF end # Middle THEN Middle ELSE Middle - 1
  /\ UNCHANGED <<tree, query, path, start, pc, found, walk>>

Upper ==
  /\ pc = "search" /\ start < end
  /\ Before(Probe, Searched)
  /\ start' = IF start # Middle THEN Middle ELSE Middle + 1
  /\ UNCHANGED <<tree, query, path, end, pc, found, walk>>

Descend ==
  /\ pc = "search" /\ start < end
  /\ Probe = Searched
  /\ Len(path) < 2
  /\ Open(Append(path, Probe), query[Len(path) + 2])
  /\ UNCHANGED <<tree, query, pc, found, walk>>

Close == path' = <<>> /\ start' = 0 /\ end' = 0

Take(p) ==
  /\ Close
  /\ found' = p
  /\ IF wanted = NoString
     THEN pc' = "idle" /\ UNCHANGED left
     ELSE pc' = "walk" /\ left' = wanted
  /\ data' = 0
  /\ UNCHANGED <<tree, query, block, wanted>>

FoundLanguage ==
  /\ pc = "search" /\ start < end
  /\ Probe = Searched
  /\ Len(path) = 2
  /\ Take(Append(path, Probe))

NotFound ==
  /\ found' = <<>>
  /\ pc' = "idle"
  /\ Close
  /\ UNCHANGED <<tree, query, walk>>

KeyMissing == pc = "search" /\ start >= end /\ Len(path) < 2 /\ NotFound

(* Mutant: only the language asked for will do.                            *)
LanguageMissingMutant ==
  pc = "search" /\ start >= end /\ Len(path) = 2 /\ NotFound

(* A language that is missing is replaced by the directory's first entry,  *)
(* provided one of the entries has a number.                               *)
LanguageMissing ==
  /\ pc = "search" /\ start >= end /\ Len(path) = 2
  /\ IF Keys(path) = NamedEntries(path) THEN NotFound
     ELSE Take(Append(path, Entries(path)[0]))

----------------------------------------------------------------------------
(* MemoryLoadStringEx: from string to string by their lengths.  How much   *)
(* of it the buffer of the caller takes is not modelled.                   *)

StepOver ==
  /\ pc = "walk" /\ left > 0
  /\ data' = data + block[wanted - left] + 1
  /\ left' = left - 1
  /\ UNCHANGED <<tree, query, path, start, end, pc, found, block, wanted>>

Copy ==
  /\ pc = "walk" /\ left = 0
  /\ pc' = "idle"
  /\ UNCHANGED <<tree, query, path, start, end, found, walk>>

----------------------------------------------------------------------------

Search ==
  \/ Lower \/ Upper \/ Descend \/ FoundLanguage \/ KeyMissing
  \/ LanguageMissing \/ StepOver \/ Copy

Call ==
  \/ \E t \in Types, n \in Names, l \in Languages : Find(t, n, l, NoString)
  \/ \E id \in 0 .. 2 * BlockSize - 1, l \in Languages : LoadString(id, l)

NoResources == pc = "idle" /\ tree = {} /\ UNCHANGED vars

Next == Search \/ Call \/ NoResources

Spec == Init /\ [][Next]_vars /\ WF_vars(Search)

----------------------------------------------------------------------------
(* Properties.                                                             *)

Available == {r \in tree : r[1] = query[1] /\ r[2] = query[2]}

(* An answer is the resource asked for; or, where its language is missing, *)
(* the first of the same type and name; or none, exactly when there is no  *)
(* such, or its languages all have names (MemoryModule.c:1023-1049).       *)
FindsRight ==
  pc # "search" /\ query # <<>> =>
    found = (IF query \in tree THEN query
             ELSE IF \A r \in Available : r[3][1] = "name" THEN <<>>
             ELSE CHOOSE r \in Available :
                    \A x \in Available : x = r \/ Before(r[3], x[3]))

(* How far the string n of a block is from its start.                      *)
Lengths(b) ==
  LET f[n \in 0 .. BlockSize] == IF n = 0 THEN 0 ELSE f[n - 1] + b[n - 1] + 1
  IN  f

(* A string of a block begins behind the strings before it and the word    *)
(* each keeps its length in (MemoryModule.c:1098-1101).                    *)
StringRight ==
  pc = "walk" /\ left = 0 => data = Lengths(block)[wanted]

(* What is found is what was asked for: a resource, or a string of one.    *)
FoundRight == FindsRight /\ StringRight

(* Every search ends, whether the key is below, between, above or missing. *)
SearchEnds == (pc = "search") ~> (pc = "idle")
=============================================================================
