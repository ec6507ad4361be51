----------------------------- MODULE PingProofs -----------------------------
(***************************************************************************)
(* Proof that a ping counts only its own answer as a success, for every    *)
(* number of addresses, tries and sequence numbers that PingConstants      *)
(* allows, whatever the network and the clock do.                          *)
(***************************************************************************)
EXTENDS Ping, Integers, TLAPS

(* The numbers that have been used since the call began, at most.          *)
Used == (host - 1) * Tries
        + (IF pc = "object" THEN 0
           ELSE IF pc = "send" THEN try
           ELSE IF pc = "done" THEN Tries ELSE try + 1)

(* p's number was used d numbers ago.                                      *)
Age(p, d) ==
  /\ d \in Nat
  /\ p.seq + d = s_usPacketSeq \/ p.seq + d = s_usPacketSeq + SeqSpace

(* Numbers come back only after SeqSpace of them, which is longer than the *)
(* call and the late answers to those before it reach.                     *)
OldEnough(p) ==
  \E d \in Nat :
    /\ Age(p, d)
    /\ d + 1 <= Late + Used
    /\ d + 1 <= SeqSpace
    /\ pc \in {"wait", "check"} /\ d = 0 => p.of = <<host, try>>

PlaceInv ==
  /\ pc \in {"object", "send", "wait", "check", "done"}
  /\ host \in 1 .. NHosts + 1
  /\ pc \in {"send", "wait", "check"} => host <= NHosts
  /\ try \in 0 .. Tries - 1
  /\ s_usPacketSeq \in 0 .. SeqSpace - 1

PacketsInv ==
  pc # "done" =>
    \A p \in network : p \in Packet /\ p.mine /\ OldEnough(p)

AnswerInv == pc # "done" => answer = NoAnswer

Inv == PlaceInv /\ PacketsInv /\ AnswerInv /\ SuccessIsOwn

----------------------------------------------------------------------------
(* Arithmetic.                                                             *)

LEMMA Constants ==
  /\ NHosts \in Nat /\ SeqSpace \in Nat /\ Late \in Nat
  /\ Tries \in Nat \ {0}
  /\ NHosts * Tries \in Nat /\ NHosts * Tries + Late <= SeqSpace
BY PingConstants

LEMMA Sizes == Late \in Nat /\ SeqSpace \in Nat
BY PingConstants

LEMMA Order ==
  ASSUME NEW u \in Nat, NEW v \in Nat, NEW d \in Nat
  PROVE  /\ v >= u /\ d + 1 <= Late + u => d + 1 <= Late + v
         /\ v >= u + 1 /\ d + 1 <= Late + u => d + 1 + 1 <= Late + v
         /\ Late + u + 1 <= SeqSpace /\ d + 1 <= Late + u
              => d + 2 <= SeqSpace /\ d + 1 + 1 <= SeqSpace
         /\ d + 1 \in Nat /\ d + 1 # 0
BY Sizes

LEMMA Modulo ==
  ASSUME NEW n \in Nat \ {0}, NEW k \in Nat, k < 2 * n
  PROVE  k % n = IF k < n THEN k ELSE k - n
OBVIOUS

LEMMA Product ==
  ASSUME NEW h \in Nat, h <= NHosts
  PROVE  /\ h * Tries \in Nat /\ h * Tries <= NHosts * Tries
         /\ (h + 1) * Tries = h * Tries + Tries
BY Constants

----------------------------------------------------------------------------

LEMMA InitInv == Init => Inv
<1>. SUFFICES ASSUME Init PROVE Inv
  OBVIOUS
<1>1. PlaceInv /\ AnswerInv /\ SuccessIsOwn
  BY Constants DEF Init, PlaceInv, AnswerInv, SuccessIsOwn
<1>2. ASSUME NEW p \in network
      PROVE  p \in Packet /\ p.mine /\ OldEnough(p)
  <2>1. PICK k \in 1 .. Late : p = LateReply(k)
    BY DEF Init
  <2>. DEFINE x == s_usPacketSeq + SeqSpace + 1 - k
  <2>2. /\ k <= SeqSpace /\ SeqSpace \in Nat \ {0} /\ k \in Nat \ {0}
        /\ s_usPacketSeq \in 0 .. SeqSpace - 1
        /\ x \in Nat /\ x < 2 * SeqSpace
    BY Constants, <1>1 DEF PlaceInv
  <2>3. p.mine /\ p.seq = x % SeqSpace
    BY <2>1 DEF LateReply
  <2>4. p.seq = IF x < SeqSpace THEN x ELSE x - SeqSpace
    <3>. HIDE DEF x
    <3>. QED  BY <2>2, <2>3, Modulo
  <2>5. Used = 0
    BY Constants DEF Init, Used
  <2>6. Age(p, k - 1)
    BY <2>2, <2>4 DEF Age
  <2>7. OldEnough(p)
    <3>1. k - 1 \in Nat /\ (k - 1) + 1 <= Late + Used /\ (k - 1) + 1 <= SeqSpace
      BY Constants, <2>2, <2>5
    <3>2. pc \notin {"wait", "check"}
      BY DEF Init
    <3>. QED  BY <2>6, <3>1, <3>2 DEF OldEnough
  <2>8. p.seq \in 0 .. SeqSpace - 1
    BY <2>2, <2>4
  <2>9. p \in Packet
    <3>. DEFINE n == x % SeqSpace
    <3>1. p = [type |-> "reply", mine |-> TRUE, seq |-> n, of |-> <<0, 0>>]
      BY <2>1, Zenon DEF LateReply, Elsewhere
    <3>. HIDE DEF n
    <3>2. <<0, 0>> \in Try
      BY Constants DEF Try
    <3>3. n \in 0 .. SeqSpace - 1
      BY <2>8, <3>1
    <3>. QED  BY <3>1, <3>2, <3>3 DEF Packet
  <2>. QED  BY <2>3, <2>7, <2>9
<1>. QED  BY <1>1, <1>2 DEF Inv, PacketsInv

(* The numbers used are bounded by the requests of the whole call.         *)
LEMMA UsedBounded ==
  ASSUME PlaceInv, pc # "done"
  PROVE  /\ Used \in Nat /\ Late + Used <= SeqSpace
         /\ pc = "send" => Late + Used + 1 <= SeqSpace
<1>1. /\ (host - 1) * Tries \in Nat /\ (host - 1) * Tries <= NHosts * Tries
      /\ host <= NHosts => (host - 1) * Tries + Tries <= NHosts * Tries
  <2>1. host - 1 \in Nat /\ host - 1 <= NHosts /\ host \in Nat
    BY Constants DEF PlaceInv
  <2>2. /\ (host - 1) * Tries \in Nat /\ (host - 1) * Tries <= NHosts * Tries
        /\ ((host - 1) + 1) * Tries = (host - 1) * Tries + Tries
    BY <2>1, Product
  <2>3. host <= NHosts => host * Tries <= NHosts * Tries
    BY <2>1, Product
  <2>4. (host - 1) + 1 = host
    BY <2>1
  <2>. QED  BY <2>2, <2>3, <2>4
<1>. DEFINE m == (host - 1) * Tries
            n == NHosts * Tries
<1>2. Used = m + (IF pc = "object" THEN 0
                  ELSE IF pc = "send" THEN try
                  ELSE IF pc = "done" THEN Tries ELSE try + 1)
  BY DEF Used
<1>3. /\ m \in Nat /\ n \in Nat /\ m <= n /\ (host <= NHosts => m + Tries <= n)
      /\ n + Late <= SeqSpace
  BY <1>1, Constants
<1>. HIDE DEF m, n
<1>. QED  BY <1>2, <1>3, Constants DEF PlaceInv

(* A new number makes every earlier one older by one.                      *)
LEMMA NextNumber ==
  ASSUME PlaceInv, s_usPacketSeq' = NextSeq, NEW p, p.seq \in 0 .. SeqSpace - 1,
         NEW d \in Nat, Age(p, d), d + 2 <= SeqSpace
  PROVE  p.seq + (d + 1) = s_usPacketSeq' \/ p.seq + (d + 1) = s_usPacketSeq' + SeqSpace
<1>1. /\ SeqSpace \in Nat \ {0} /\ s_usPacketSeq \in 0 .. SeqSpace - 1
      /\ s_usPacketSeq + 1 \in Nat /\ s_usPacketSeq + 1 < 2 * SeqSpace
  BY Constants DEF PlaceInv
<1>2. s_usPacketSeq' = IF s_usPacketSeq + 1 < SeqSpace THEN s_usPacketSeq + 1
                       ELSE s_usPacketSeq + 1 - SeqSpace
  <2>. DEFINE x == s_usPacketSeq + 1
  <2>1. s_usPacketSeq' = x % SeqSpace
    BY Zenon DEF NextSeq
  <2>2. x \in Nat /\ x < 2 * SeqSpace /\ SeqSpace \in Nat \ {0}
    BY <1>1
  <2>3. s_usPacketSeq' = IF x < SeqSpace THEN x ELSE x - SeqSpace
    <3>. HIDE DEF x
    <3>1. x % SeqSpace = IF x < SeqSpace THEN x ELSE x - SeqSpace
      BY <2>2, Modulo
    <3>. QED  BY <2>1, <3>1
  <2>. QED  BY <1>1, <2>3 DEF x
<1>. QED  BY <1>1, <1>2 DEF Age

LEMMA NextInRange ==
  ASSUME PlaceInv
  PROVE  NextSeq \in 0 .. SeqSpace - 1
<1>1. /\ SeqSpace \in Nat \ {0} /\ s_usPacketSeq \in 0 .. SeqSpace - 1
      /\ s_usPacketSeq + 1 \in Nat /\ s_usPacketSeq + 1 < 2 * SeqSpace
  BY Constants DEF PlaceInv
<1>. QED  BY <1>1, Modulo DEF NextSeq

(* Where the program goes on after a try that failed, the numbers used     *)
(* include that of the try.                                                *)
LEMMA AfterTry ==
  ASSUME PlaceInv, pc \in {"send", "wait", "check"}, TryFails,
         s_usPacketSeq' \in 0 .. SeqSpace - 1
  PROVE  /\ PlaceInv' /\ pc' \in {"send", "object"}
         /\ Used' \in Nat /\ Used \in Nat
         /\ Used' >= Used + (IF pc = "send" THEN 1 ELSE 0)
<1>. DEFINE m == (host - 1) * Tries
<1>1. /\ host \in 1 .. NHosts /\ try \in 0 .. Tries - 1 /\ Tries \in Nat \ {0}
      /\ m \in Nat /\ NHosts \in Nat
  <2>1. host \in 1 .. NHosts /\ host - 1 \in Nat /\ host - 1 <= NHosts
    BY Constants DEF PlaceInv
  <2>. QED  BY <2>1, Product, Constants DEF PlaceInv
<1>2. Used = m + (IF pc = "send" THEN try ELSE try + 1)
  BY DEF Used
<1>3. CASE try + 1 < Tries
  <2>1. host' = host /\ try' = try + 1 /\ pc' = "send"
    BY <1>3 DEF TryFails
  <2>2. Used' = m + (try + 1)
    BY <2>1 DEF Used
  <2>. HIDE DEF m
  <2>. QED  BY <1>1, <1>2, <1>3, <2>1, <2>2 DEF PlaceInv
<1>4. CASE ~ (try + 1 < Tries)
  <2>1. host' = host + 1 /\ try' = try /\ pc' = "object"
    BY <1>4 DEF TryFails
  <2>2. Used' = (host + 1 - 1) * Tries + 0
    BY <1>1, <2>1 DEF Used
  <2>3. (host + 1 - 1) * Tries = m + Tries
    <3>1. host - 1 \in Nat /\ host - 1 <= NHosts /\ (host - 1) + 1 = host + 1 - 1
      BY <1>1
    <3>2. ((host - 1) + 1) * Tries = (host - 1) * Tries + Tries
      BY <3>1, Product
    <3>. QED  BY <3>1, <3>2
  <2>. HIDE DEF m
  <2>. QED  BY <1>1, <1>2, <1>4, <2>1, <2>2, <2>3 DEF PlaceInv
<1>. QED  BY <1>3, <1>4

----------------------------------------------------------------------------

(* A packet stays as old as it was while no number is used.                *)
LEMMA SameAge ==
  ASSUME PlaceInv, NEW p, OldEnough(p), s_usPacketSeq' = s_usPacketSeq,
         Used \in Nat, Used' \in Nat, Used' >= Used,
         \/ pc' \notin {"wait", "check"}
         \/ pc \in {"wait", "check"} /\ UNCHANGED <<host, try>>
  PROVE  OldEnough(p)'
<1>1. PICK d \in Nat :
        /\ Age(p, d) /\ d + 1 <= Late + Used /\ d + 1 <= SeqSpace
        /\ pc \in {"wait", "check"} /\ d = 0 => p.of = <<host, try>>
  BY DEF OldEnough
<1>2. d + 1 <= Late + Used'
  BY <1>1, Order, Zenon
<1>3. d \in Nat
      /\ (p.seq + d = s_usPacketSeq' \/ p.seq + d = s_usPacketSeq' + SeqSpace)
  BY <1>1 DEF Age
<1>4. pc' \in {"wait", "check"} /\ d = 0 => p.of = <<host', try'>>
  BY <1>1
<1>. QED  BY <1>1, <1>2, <1>3, <1>4 DEF OldEnough, Age

(* With a new number it is older, and so not the answer to the new try.    *)
LEMMA OlderAge ==
  ASSUME PlaceInv, NEW p, p.seq \in 0 .. SeqSpace - 1, OldEnough(p),
         s_usPacketSeq' = NextSeq, Used \in Nat, Used' \in Nat,
         Used' >= Used + 1, Late + Used + 1 <= SeqSpace
  PROVE  OldEnough(p)'
<1>1. PICK d \in Nat : Age(p, d) /\ d + 1 <= Late + Used
  BY DEF OldEnough
<1>2. d + 2 <= SeqSpace /\ d + 1 + 1 <= SeqSpace /\ d + 1 + 1 <= Late + Used'
  BY <1>1, Order, Zenon
<1>3. /\ d + 1 \in Nat /\ d + 1 # 0
      /\ p.seq + (d + 1) = s_usPacketSeq'
         \/ p.seq + (d + 1) = s_usPacketSeq' + SeqSpace
  BY <1>1, <1>2, Order, NextNumber, Zenon
<1>. QED  BY <1>2, <1>3 DEF OldEnough, Age

(* Only the number and the try of a packet tell its age.                   *)
LEMMA CopyAge ==
  ASSUME NEW p, NEW q, p.seq = q.seq, p.of = q.of, OldEnough(q)
  PROVE  OldEnough(p)
BY DEF OldEnough, Age

(* A step that uses no number, leaves the packets or copies one, and starts*)
(* no wait for another try.                                                *)
LEMMA QuietStep ==
  ASSUME Inv, pc # "done", s_usPacketSeq' = s_usPacketSeq,
         Used \in Nat, Used' \in Nat, Used' >= Used,
         \/ pc' \notin {"wait", "check"}
         \/ pc \in {"wait", "check"} /\ UNCHANGED <<host, try>>,
         \A p \in network' :
           \/ p \in network
           \/ \E q \in network : p = [q EXCEPT !.type = "reply"]
  PROVE  PacketsInv'
<1>1. ASSUME NEW p \in network' PROVE p \in Packet /\ p.mine /\ OldEnough(p)
  <2>1. CASE p \in network
    BY <2>1 DEF Inv, PacketsInv
  <2>2. CASE \E q \in network : p = [q EXCEPT !.type = "reply"]
    <3>1. PICK q \in network : p = [q EXCEPT !.type = "reply"]
      BY <2>2
    <3>2. q \in Packet /\ q.mine /\ OldEnough(q)
      BY <3>1 DEF Inv, PacketsInv
    <3>3. p \in Packet /\ p.mine = q.mine /\ p.seq = q.seq /\ p.of = q.of
      BY <3>1, <3>2 DEF Packet
    <3>. QED  BY <3>2, <3>3, CopyAge
  <2>. QED  BY <2>1, <2>2
<1>2. ASSUME NEW p \in network' PROVE OldEnough(p)'
  BY <1>1, SameAge DEF Inv
<1>. QED  BY <1>1, <1>2 DEF PacketsInv

(* A step that uses a number and leaves the packets.                       *)
LEMMA NumberStep ==
  ASSUME Inv, pc = "send", s_usPacketSeq' = NextSeq,
         Used' \in Nat, Used' >= Used + 1, NEW p \in network
  PROVE  p \in Packet /\ p.mine /\ OldEnough(p)'
<1>1. p \in Packet /\ p.mine /\ OldEnough(p) /\ p.seq \in 0 .. SeqSpace - 1
  BY DEF Inv, PacketsInv, Packet
<1>2. Used \in Nat /\ Late + Used + 1 <= SeqSpace
  BY UsedBounded DEF Inv
<1>3. OldEnough(p)'
  BY <1>1, <1>2, OlderAge DEF Inv
<1>. QED  BY <1>1, <1>3

(* The packet of the request that is sent.                                 *)
LEMMA RequestAge ==
  ASSUME Inv, Send, Used' \in Nat, Used' >= 1,
         NEW p, p = [type |-> "request", mine |-> TRUE, seq |-> NextSeq,
                     of |-> <<host, try>>]
  PROVE  p \in Packet /\ p.mine /\ OldEnough(p)'
<1>1. NextSeq \in 0 .. SeqSpace - 1
  BY NextInRange DEF Inv
<1>2. <<host, try>> \in Try
  BY Constants DEF Inv, PlaceInv, Send, Try
<1>3. p \in Packet /\ p.mine /\ p.seq = NextSeq /\ p.of = <<host, try>>
  BY <1>1, <1>2 DEF Packet
<1>4. s_usPacketSeq' = NextSeq /\ host' = host /\ try' = try
  BY DEF Send
<1>5. NextSeq + 0 = NextSeq /\ 0 + 1 <= SeqSpace
  BY <1>1, Sizes
<1>6. 0 + 1 <= Late + Used'
  <2>1. ASSUME NEW u \in Nat, u >= 1 PROVE 0 + 1 <= Late + u
    BY <2>1, Sizes
  <2>. QED  BY <2>1, Zenon
<1>. QED  BY <1>3, <1>4, <1>5, <1>6 DEF OldEnough, Age

----------------------------------------------------------------------------

LEMMA StepInv == Inv /\ [Next]_vars => Inv'
<1>. SUFFICES ASSUME Inv, [Next]_vars PROVE Inv'
  OBVIOUS
<1>1. CASE UNCHANGED <<pc, host, try, s_usPacketSeq, answer>>
           /\ \A p \in network' :
                \/ p \in network
                \/ \E q \in network : p = [q EXCEPT !.type = "reply"]
  <2>1. PlaceInv' /\ AnswerInv' /\ SuccessIsOwn'
    BY <1>1 DEF Inv, PlaceInv, AnswerInv, SuccessIsOwn
  <2>2. CASE pc = "done"
    BY <1>1, <2>1, <2>2 DEF Inv, PacketsInv
  <2>3. CASE pc # "done"
    <3>1. Used' = Used
      BY <1>1 DEF Used
    <3>2. Used \in Nat
      BY <2>3, UsedBounded DEF Inv
    <3>3. ASSUME NEW u \in Nat PROVE u >= u
      OBVIOUS
    <3>4. Used' \in Nat /\ Used' >= Used
      BY <3>1, <3>2, <3>3, Zenon
    <3>. QED  BY <1>1, <2>1, <2>3, <3>2, <3>4, QuietStep DEF Inv
  <2>. QED  BY <2>2, <2>3
<1>2. CASE NewObject
  <2>1. /\ pc = "object" /\ pc' = "send" /\ try' = 0
        /\ UNCHANGED <<host, s_usPacketSeq, network, answer>> /\ host <= NHosts
    BY <1>2 DEF NewObject
  <2>2. PlaceInv' /\ AnswerInv' /\ SuccessIsOwn'
    BY <2>1, Constants DEF Inv, PlaceInv, AnswerInv, SuccessIsOwn
  <2>3. Used' = Used
    BY <2>1 DEF Used
  <2>4. Used \in Nat
    BY <2>1, UsedBounded DEF Inv
  <2>5. ASSUME NEW u \in Nat PROVE u >= u
    OBVIOUS
  <2>6. Used' \in Nat /\ Used' >= Used
    BY <2>3, <2>4, <2>5, Zenon
  <2>. QED  BY <2>1, <2>2, <2>4, <2>6, QuietStep DEF Inv
<1>3. CASE NoMoreHosts
  <2>1. pc' = "done" /\ answer' = NoAnswer
    BY <1>3 DEF NoMoreHosts, Inv, AnswerInv
  <2>2. PlaceInv'
    BY <1>3 DEF NoMoreHosts, Inv, PlaceInv
  <2>. QED  BY <2>1, <2>2 DEF Inv, PacketsInv, AnswerInv, SuccessIsOwn
<1>4. CASE SendNotReady \/ TimeOut
  <2>1. /\ pc \in {"send", "wait", "check"} /\ TryFails
        /\ UNCHANGED <<s_usPacketSeq, network, answer>>
    BY <1>4 DEF SendNotReady, TimeOut, TryFails
  <2>2. /\ PlaceInv' /\ pc' \in {"send", "object"} /\ Used \in Nat /\ Used' \in Nat
        /\ Used' >= Used + (IF pc = "send" THEN 1 ELSE 0)
    BY <2>1, AfterTry DEF Inv, PlaceInv
  <2>3. AnswerInv' /\ SuccessIsOwn'
    BY <2>1 DEF Inv, AnswerInv, SuccessIsOwn
  <2>4. ASSUME NEW u \in Nat, NEW v \in Nat, v >= u + (IF pc = "send" THEN 1 ELSE 0)
        PROVE  v >= u
    BY <2>4
  <2>5. Used' >= Used
    BY <2>2, <2>4, Zenon
  <2>6. PacketsInv'
    BY <2>1, <2>2, <2>5, QuietStep
  <2>. QED  BY <2>2, <2>3, <2>6 DEF Inv
<1>5. CASE SendFails
  <2>1. /\ pc = "send" /\ TryFails /\ s_usPacketSeq' = NextSeq
        /\ UNCHANGED <<network, answer>>
    BY <1>5 DEF SendFails, TryFails
  <2>2. s_usPacketSeq' \in 0 .. SeqSpace - 1
    BY <2>1, NextInRange DEF Inv
  <2>3. /\ PlaceInv' /\ Used \in Nat /\ Used' \in Nat
        /\ Used' >= Used + (IF pc = "send" THEN 1 ELSE 0)
    BY <2>1, <2>2, AfterTry DEF Inv
  <2>4. Used' >= Used + 1
    BY <2>1, <2>3, Zenon
  <2>5. AnswerInv' /\ SuccessIsOwn'
    BY <2>1 DEF Inv, AnswerInv, SuccessIsOwn
  <2>6. PacketsInv'
    BY <2>1, <2>3, <2>4, NumberStep DEF PacketsInv
  <2>. QED  BY <2>3, <2>5, <2>6 DEF Inv
<1>6. CASE Send
  <2>. PICK q : q = [type |-> "request", mine |-> TRUE, seq |-> NextSeq,
                     of |-> <<host, try>>]
    OBVIOUS
  <2>1. /\ pc = "send" /\ pc' = "wait" /\ s_usPacketSeq' = NextSeq
        /\ network' = network \cup {q} /\ UNCHANGED <<host, try, answer>>
    BY <1>6, Zenon DEF Send
  <2>2. s_usPacketSeq' \in 0 .. SeqSpace - 1
    BY <2>1, NextInRange DEF Inv
  <2>3. PlaceInv' /\ AnswerInv' /\ SuccessIsOwn'
    BY <2>1, <2>2 DEF Inv, PlaceInv, AnswerInv, SuccessIsOwn
  <2>4. Used \in Nat /\ Used' = Used + 1 /\ Used' \in Nat
    <3>. DEFINE m == (host - 1) * Tries
    <3>1. /\ host - 1 \in Nat /\ host - 1 <= NHosts
          /\ try \in Nat /\ host \in Nat
      BY <2>1, Constants DEF Inv, PlaceInv
    <3>2. m \in Nat
      BY <3>1, Product
    <3>3. Used = m + try
      BY <2>1 DEF Used
    <3>4. Used' = m + (try + 1)
      BY <2>1, <3>1 DEF Used
    <3>. HIDE DEF m
    <3>. QED  BY <3>1, <3>2, <3>3, <3>4
  <2>5. ASSUME NEW u \in Nat, NEW v \in Nat, v = u + 1
        PROVE  v >= u + 1 /\ v >= 1
    BY <2>5
  <2>6. Used' >= Used + 1 /\ Used' >= 1
    BY <2>4, <2>5, Zenon
  <2>7. q \in Packet /\ q.mine /\ OldEnough(q)'
    BY <1>6, <2>4, <2>6, RequestAge, Zenon
  <2>8. ASSUME NEW p \in network' PROVE p \in Packet /\ p.mine /\ OldEnough(p)'
    <3>1. CASE p = q
      BY <2>7, <3>1
    <3>2. CASE p \in network
      BY <2>1, <2>4, <2>6, <3>2, NumberStep, Zenon
    <3>. QED  BY <2>1, <3>1, <3>2
  <2>9. PacketsInv'
    BY <2>8 DEF PacketsInv
  <2>. QED  BY <2>3, <2>9 DEF Inv
<1>7. CASE ReceiveAnswer
  <2>1. PICK p \in Visible : Matches(p) /\ answer' = p
    BY <1>7 DEF ReceiveAnswer
  <2>2. /\ pc = "wait" /\ pc' = "done"
        /\ UNCHANGED <<host, try, s_usPacketSeq>>
    BY <1>7 DEF ReceiveAnswer
  <2>3. p \in network /\ p.type = "reply" /\ p.seq = s_usPacketSeq
    BY <2>1 DEF Visible, Matches
  <2>4. OldEnough(p)
    BY <2>2, <2>3 DEF Inv, PacketsInv
  <2>5. p.of = <<host, try>>
    <3>1. PICK d \in Nat :
            /\ Age(p, d) /\ d + 1 <= SeqSpace
            /\ pc \in {"wait", "check"} /\ d = 0 => p.of = <<host, try>>
      BY <2>4 DEF OldEnough
    <3>2. d = 0
      BY <2>3, <3>1, Sizes DEF Age, Inv, PlaceInv
    <3>. QED  BY <2>2, <3>1, <3>2
  <2>6. PlaceInv'
    BY <2>2 DEF Inv, PlaceInv
  <2>. QED  BY <2>1, <2>2, <2>3, <2>5, <2>6
            DEF Inv, PacketsInv, AnswerInv, SuccessIsOwn
<1>8. CASE ReceiveOther \/ WaitEnds \/ WaitAgain
  <2>1. /\ pc \in {"wait", "check"} /\ pc' \in {"wait", "check"}
        /\ UNCHANGED <<host, try, s_usPacketSeq, answer>>
    BY <1>8 DEF ReceiveOther, WaitEnds, WaitAgain
  <2>2. network' \subseteq network
    BY <1>8 DEF ReceiveOther, WaitEnds, WaitAgain
  <2>3. PlaceInv' /\ AnswerInv' /\ SuccessIsOwn'
    BY <2>1 DEF Inv, PlaceInv, AnswerInv, SuccessIsOwn
  <2>4. Used' = Used
    BY <2>1 DEF Used
  <2>5. Used \in Nat
    BY <2>1, UsedBounded DEF Inv
  <2>6. ASSUME NEW u \in Nat PROVE u >= u
    OBVIOUS
  <2>7. Used' \in Nat /\ Used' >= Used
    BY <2>4, <2>5, <2>6, Zenon
  <2>8. PacketsInv'
    BY <2>1, <2>2, <2>5, <2>7, QuietStep
  <2>. QED  BY <2>3, <2>8 DEF Inv
<1>9. CASE Network \/ Tick \/ SetClock \/ UNCHANGED vars
  BY <1>1, <1>9 DEF Network, Answer, Lose, Tick, SetClock, vars
<1>. QED  BY <1>2, <1>3, <1>4, <1>5, <1>6, <1>7, <1>8, <1>9
          DEF Next, Program, Terminated

(* A success is the answer to the very request of the last try, for every  *)
(* number of addresses, tries and sequence numbers, whatever is lost,      *)
(* duplicated or late (ParseUrl.cpp:113-116).                              *)
THEOREM SuccessOwn == Spec => []SuccessIsOwn
<1>1. Inv => SuccessIsOwn
  BY DEF Inv
<1>. QED  BY InitInv, StepInv, <1>1, PTL DEF Spec
=============================================================================
