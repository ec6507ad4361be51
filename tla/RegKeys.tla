------------------------------ MODULE RegKeys ------------------------------
(***************************************************************************)
(* The registry keys of WinReg.hpp: objects that own a handle each and     *)
(* give it from one to the other.  The system may give the value of a      *)
(* closed handle to the next key that is opened.                           *)
(***************************************************************************)
CONSTANTS
  Object,    \* where the program keeps its RegKey objects
  Handle,    \* the values of real key handles
  Null, Predefined,  \* no handle, and those like HKEY_CURRENT_USER
  Leftover   \* what m_hKey may be before a constructor has set it

ASSUME RegKeysConstants ==
  /\ Null \notin Handle /\ Predefined \notin Handle /\ Null # Predefined
  /\ Leftover \subseteq Handle \union {Null, Predefined}

VARIABLES
  alive,    \* the objects that are constructed
  m_hKey,   \* object -> the handle it wraps
  open,     \* the handles that are open
  raw,      \* the handles the program holds without an object, to close them
  call,     \* the last call
  outcome,  \* "done", or "thrown" if it threw a RegException
  loading,  \* of a LoadKey: the key of the object and the key it passed on
  strayed   \* a constructor has closed an open key it found in its memory

vars == <<alive, m_hKey, open, raw, call, outcome, loading, strayed>>

Value == Handle \union {Null, Predefined}

Init ==
  /\ alive = {} /\ m_hKey \in [Object -> {Null}]
  /\ open = {} /\ raw = {}
  /\ call = "none" /\ outcome = "done" /\ loading = <<Null, Null>>
  /\ strayed = FALSE

IsValid(v) == v # Null
IsPredefined(v) == v = Predefined

(* Close, on an object whose m_hKey is v: what of s is open afterwards.    *)
Closed(v, s) == IF IsValid(v) /\ ~IsPredefined(v) THEN s \ {v} ELSE s

Ends(c, how) ==
  call' = c /\ outcome' = how /\ loading' = <<Null, Null>> /\ UNCHANGED strayed
Does(c) == Ends(c, "done")
Throws(c) == Ends(c, "thrown")

Wrap(o, v) == m_hKey' = [m_hKey EXCEPT ![o] = v]

(* The system opens a key.                                                 *)
Fresh == Handle \ open

----------------------------------------------------------------------------
(* Constructors and the destructor.                                        *)

FromHandle(o, v) ==
  /\ o \in Object \ alive /\ v \in raw \union {Null, Predefined}
  /\ alive' = alive \union {o} /\ Wrap(o, v)
  /\ raw' = raw \ {v}
  /\ Does("construct") /\ UNCHANGED open

FromMove(o, other) ==
  /\ o \in Object \ alive /\ other \in alive
  /\ alive' = alive \union {o}
  /\ m_hKey' = [m_hKey EXCEPT ![o] = m_hKey[other], ![other] = Null]
  /\ Does("construct") /\ UNCHANGED <<open, raw>>

(* The constructor that opens a key calls Create, which closes m_hKey      *)
(* before anything has been stored there: a value the memory still has may *)
(* be that of an open key, or of the one just opened.                      *)
FromSubKey(o, old, v) ==
  /\ o \in Object \ alive /\ old \in Leftover /\ v \in Fresh
  /\ alive' = alive \union {o} /\ Wrap(o, v)
  /\ open' = Closed(old, open \union {v})
  /\ strayed' = (strayed \/ old \in open \union {v})
  /\ call' = "construct" /\ outcome' = "done" /\ loading' = <<Null, Null>>
  /\ UNCHANGED raw

(* It throws, and there is no object.                                      *)
NotFromSubKey(o) ==
  /\ o \in Object \ alive
  /\ Throws("construct") /\ UNCHANGED <<alive, m_hKey, open, raw>>

Destroy(o) ==
  /\ o \in alive
  /\ alive' = alive \ {o}
  /\ open' = Closed(m_hKey[o], open) /\ Wrap(o, Null)
  /\ Does("destroy") /\ UNCHANGED raw

----------------------------------------------------------------------------
(* Ownership.                                                              *)

(* Mutant: the key that is assigned to is not closed.                      *)
MoveAssignMutant(o, other) ==
  /\ o \in alive /\ other \in alive /\ o # other
  /\ m_hKey' = [m_hKey EXCEPT ![o] = m_hKey[other], ![other] = Null]
  /\ Does("assign") /\ UNCHANGED <<alive, open, raw>>

MoveAssign(o, other) ==
  /\ o \in alive /\ other \in alive
  /\ IF o # other /\ m_hKey[o] # m_hKey[other]
     THEN /\ open' = Closed(m_hKey[o], open)
          /\ m_hKey' = [m_hKey EXCEPT ![o] = m_hKey[other], ![other] = Null]
     ELSE UNCHANGED <<open, m_hKey>>
  /\ Does("assign") /\ UNCHANGED <<alive, raw>>

Close(o) ==
  /\ o \in alive
  /\ open' = Closed(m_hKey[o], open) /\ Wrap(o, Null)
  /\ Does("close") /\ UNCHANGED <<alive, raw>>

Detach(o) ==
  /\ o \in alive
  /\ raw' = raw \union ({m_hKey[o]} \intersect Handle)
  /\ Wrap(o, Null)
  /\ Does("detach") /\ UNCHANGED <<alive, open>>

(* The program attaches what is its own to give.                           *)
Attach(o, v) ==
  /\ o \in alive /\ v \in raw \union {Null, Predefined}
  /\ IF m_hKey[o] # v
     THEN open' = Closed(m_hKey[o], open) /\ Wrap(o, v)
     ELSE UNCHANGED <<open, m_hKey>>
  /\ raw' = raw \ {v}
  /\ Does("attach") /\ UNCHANGED alive

SwapWith(o, other) ==
  /\ o \in alive /\ other \in alive
  /\ m_hKey' = [m_hKey EXCEPT ![o] = m_hKey[other], ![other] = m_hKey[o]]
  /\ Does("swap") /\ UNCHANGED <<alive, open, raw>>

----------------------------------------------------------------------------
(* Calls of the system that give the object another key.                   *)

(* Create and Open: the old key is closed once the new one is there.       *)
Create(o, v) ==
  /\ o \in alive /\ v \in Fresh
  /\ open' = Closed(m_hKey[o], open \union {v}) /\ Wrap(o, v)
  /\ Does("create") /\ UNCHANGED <<alive, raw>>

CreateFails(o) ==
  /\ o \in alive
  /\ Throws("create") /\ UNCHANGED <<alive, m_hKey, open, raw>>

(* ConnectRegistry closes the old key first, so that the system may give   *)
(* its handle again.                                                       *)
ConnectRegistry(o, v) ==
  /\ o \in alive /\ v \in Handle \ Closed(m_hKey[o], open)
  /\ open' = Closed(m_hKey[o], open) \union {v} /\ Wrap(o, v)
  /\ Does("connect") /\ UNCHANGED <<alive, raw>>

ConnectFails(o) ==
  /\ o \in alive
  /\ open' = Closed(m_hKey[o], open) /\ Wrap(o, Null)
  /\ Throws("connect") /\ UNCHANGED <<alive, raw>>

(* LoadKey closes its own key first and then hands RegLoadKey what is left *)
(* of it, no handle, which RegLoadKey refuses.                             *)
LoadKey(o) ==
  /\ o \in alive
  /\ open' = Closed(m_hKey[o], open) /\ Wrap(o, Null)
  /\ call' = "load" /\ loading' = <<m_hKey[o], m_hKey'[o]>>
  /\ outcome' = "thrown"
  /\ UNCHANGED <<alive, raw, strayed>>

----------------------------------------------------------------------------
(* What the program does with handles of its own.                          *)

OpenRaw(v) ==
  /\ v \in Fresh
  /\ open' = open \union {v} /\ raw' = raw \union {v}
  /\ Does("raw") /\ UNCHANGED <<alive, m_hKey>>

CloseRaw(v) ==
  /\ v \in raw
  /\ open' = open \ {v} /\ raw' = raw \ {v}
  /\ Does("raw") /\ UNCHANGED <<alive, m_hKey>>

Construction(o) ==
  \/ \E v \in Value : FromHandle(o, v)
  \/ \E other \in Object : FromMove(o, other)
  \/ \E old \in Leftover, v \in Handle : FromSubKey(o, old, v)
  \/ NotFromSubKey(o)
  \/ Destroy(o)

Ownership(o) ==
  \/ \E other \in Object : MoveAssign(o, other) \/ SwapWith(o, other)
  \/ \E v \in Value : Attach(o, v)
  \/ Close(o) \/ Detach(o)

System(o) ==
  \/ \E v \in Handle : Create(o, v) \/ ConnectRegistry(o, v)
  \/ CreateFails(o) \/ ConnectFails(o) \/ LoadKey(o)

Next ==
  \/ \E o \in Object : Construction(o) \/ Ownership(o) \/ System(o)
  \/ \E v \in Handle : OpenRaw(v) \/ CloseRaw(v)

Spec == Init /\ [][Next]_vars

----------------------------------------------------------------------------
(* Properties.                                                             *)

Owned == {m_hKey[o] : o \in alive} \intersect Handle

TypeOK ==
  /\ alive \subseteq Object /\ m_hKey \in [Object -> Value]
  /\ open \subseteq Handle /\ raw \subseteq Handle

(* What an object wraps is open: no handle is closed behind the back of    *)
(* its owner, by whatever moves and swaps it came there                    *)
(* (WinReg.hpp:378-489).                                                   *)
OwnedIsOpen == Owned \union raw \subseteq open

(* A handle has one owner, so that it is closed once and the key that gets *)
(* its value next is left alone (WinReg.hpp:370-376, 457-489).             *)
OneOwner ==
  /\ \A o, p \in alive :
       m_hKey[o] = m_hKey[p] /\ m_hKey[o] \in Handle => o = p
  /\ raw \intersect Owned = {}

(* Every open handle has an owner that will close it (WinReg.hpp:378-420,  *)
(* 536-572).                                                               *)
NothingLeaks == open \subseteq Owned \union raw

(* Whatever is opened has one owner, and what has an owner is open, as     *)
(* long as no constructor has closed a key it found in its memory          *)
(* (WinReg.hpp:356-366, 541).                                              *)
KeysOwned == ~ strayed => OwnedIsOpen /\ OneOwner /\ NothingLeaks

(* Only a key that the object has opened itself is closed when it opens    *)
(* another ("Safely close any previously opened key", WinReg.hpp:540):     *)
(* violated, the constructors do not set m_hKey before they call Create.   *)
OwnKeyClosed == ~ strayed

(* RegLoadKey is asked to load into the key the object wraps: violated, the *)
(* key is closed and forgotten first (WinReg.hpp:1299-1308).               *)
LoadsIntoItsKey == call = "load" => loading[2] = loading[1]
=============================================================================
