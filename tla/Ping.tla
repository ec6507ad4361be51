-------------------------------- MODULE Ping --------------------------------
(***************************************************************************)
(* pingurl, pingIp and ParseUrl::PingCore: an echo request to each of the  *)
(* addresses of a host, a few times each, until one is answered.  The raw  *)
(* socket sees every ICMP packet that reaches this machine: replies to     *)
(* earlier requests, other programs' packets, and its own requests when it *)
(* pings this machine.  Packets are lost, duplicated and delayed.          *)
(***************************************************************************)
EXTENDS Naturals

CONSTANTS
  NHosts,      \* how many addresses the host has
  Local,       \* those that are addresses of this machine
  Tries,       \* 4, the requests per address
  SeqSpace,    \* 65536, the sequence numbers
  Late,        \* how many requests before this call may still be answered
  Timeout,     \* dwTimeout, in units of the wait of 100 ms
  MaxClockSets \* bound on the changes of the local time

ASSUME PingConstants ==
  /\ {NHosts, SeqSpace, Late, Timeout, MaxClockSets} \subseteq Nat
  /\ Tries \in Nat \ {0}
  /\ Local \subseteq 1 .. NHosts
  /\ NHosts * Tries + Late <= SeqSpace

VARIABLES
  pc,          \* "object", "send", "wait", "check" or "done"
  host,        \* the address pingurl is at
  try,         \* the try pingIp is at
  ready,       \* m_bIsInitSucc
  s_usPacketSeq,
  elapsed,     \* GetTickCountCalibrate() - ulSendTimestamp, up to Timeout
  clockSets,   \* how often the local time was changed
  network,     \* the packets on their way
  answer       \* the packet taken for the answer

time == <<elapsed, clockSets>>
vars == <<pc, host, try, ready, s_usPacketSeq, time, network, answer>>

(* An ICMP packet: echo request, echo reply or other; whether its m_usID is*)
(* this process's; and, unseen by the program, the try it belongs to.      *)
Try == (0 .. NHosts) \X (0 .. Tries - 1)
Packet == [type : {"request", "reply", "other"}, mine : BOOLEAN,
           seq : 0 .. SeqSpace - 1, of : Try]

Elsewhere == <<0, 0>>   \* the try of another call or of another program

NoAnswer == [type |-> "other", mine |-> FALSE, seq |-> 0, of |-> Elsewhere]

LateReply(k) == [type |-> "reply", mine |-> TRUE,
                 seq |-> (s_usPacketSeq + SeqSpace + 1 - k) % SeqSpace,
                 of |-> Elsewhere]

Init ==
  /\ pc = "object"
  /\ host = 1
  /\ try = 0
  /\ ready = FALSE
  /\ s_usPacketSeq \in 0 .. SeqSpace - 1
  /\ elapsed = 0
  /\ clockSets = 0
  /\ network \in SUBSET {LateReply(k) : k \in 1 .. Late}
  /\ answer = NoAnswer

----------------------------------------------------------------------------
(* The network.                                                            *)

(* A host answers a request that reaches it.                               *)
Answer(p) ==
  /\ p.type = "request"
  /\ network' = network \cup {[p EXCEPT !.type = "reply"]}

Lose(p) == network' = network \ {p}

Network ==
  /\ \E p \in network : Answer(p) \/ Lose(p)
  /\ UNCHANGED <<pc, host, try, ready, s_usPacketSeq, time, answer>>

----------------------------------------------------------------------------
(* Time.  It is read from the local clock, which may be set while a request*)
(* is out; set back behind the request, the unsigned difference is huge.   *)

Waiting == pc \in {"wait", "check"}

Tick ==
  /\ Waiting
  /\ elapsed < Timeout
  /\ elapsed' = elapsed + 1
  /\ UNCHANGED <<pc, host, try, ready, s_usPacketSeq, clockSets, network, answer>>

SetClock ==
  /\ Waiting
  /\ clockSets < MaxClockSets
  /\ clockSets' = clockSets + 1
  /\ elapsed' \in 0 .. Timeout
  /\ UNCHANGED <<pc, host, try, ready, s_usPacketSeq, network, answer>>

----------------------------------------------------------------------------
(* The program.                                                            *)

(* A ParseUrl is made for every address; its socket may be refused.        *)
NewObject ==
  /\ pc = "object"
  /\ host <= NHosts
  /\ ready' \in BOOLEAN
  /\ try' = 0
  /\ pc' = "send"
  /\ UNCHANGED <<host, s_usPacketSeq, time, network, answer>>

NoMoreHosts ==
  /\ pc = "object"
  /\ host > NHosts
  /\ pc' = "done"
  /\ UNCHANGED <<host, try, ready, s_usPacketSeq, time, network, answer>>

(* PingCore returns FALSE: the next try, or the next address.              *)
TryFails ==
  /\ IF try + 1 < Tries
     THEN try' = try + 1 /\ pc' = "send" /\ UNCHANGED host
     ELSE host' = host + 1 /\ pc' = "object" /\ UNCHANGED try
  /\ UNCHANGED <<ready, time, answer>>

SendNotReady ==
  /\ pc = "send"
  /\ ~ ready
  /\ TryFails
  /\ UNCHANGED <<s_usPacketSeq, network>>

NextSeq == (s_usPacketSeq + 1) % SeqSpace

(* The number is used up also when sendto fails.                           *)
SendFails ==
  /\ pc = "send"
  /\ ready
  /\ s_usPacketSeq' = NextSeq
  /\ TryFails
  /\ UNCHANGED network

Send ==
  /\ pc = "send"
  /\ ready
  /\ s_usPacketSeq' = NextSeq
  /\ network' = network \cup {[type |-> "request", mine |-> TRUE,
                               seq |-> NextSeq, of |-> <<host, try>>]}
  /\ elapsed' = 0
  /\ pc' = "wait"
  /\ UNCHANGED <<host, try, ready, clockSets, answer>>

(* What the raw socket may read: what is on its way, but for requests to   *)
(* other machines, and whatever other programs are sent, at any time.      *)
Visible ==
  {p \in network : p.type = "request" => p.of[1] \in Local} \cup
  {p \in Packet : ~ p.mine /\ p.of = Elsewhere}

(* Mutant: the sequence number is not compared.                            *)
MatchesMutant(p) == p.mine /\ p.type = "reply"

Matches(p) == p.mine /\ p.type = "reply" /\ p.seq = s_usPacketSeq

ReceiveAnswer ==
  /\ pc = "wait"
  /\ \E p \in Visible :
       /\ Matches(p)
       /\ network' \in {network, network \ {p}}
       /\ answer' = p
  /\ pc' = "done"
  /\ UNCHANGED <<host, try, ready, s_usPacketSeq, time>>

(* Mutant: after another packet the time is not looked at.                 *)
ReceiveOtherMutant ==
  /\ pc = "wait"
  /\ \E p \in Visible : ~ Matches(p) /\ network' \in {network, network \ {p}}
  /\ UNCHANGED <<pc, host, try, ready, s_usPacketSeq, time, answer>>

ReceiveOther ==
  /\ pc = "wait"
  /\ \E p \in Visible : ~ Matches(p) /\ network' \in {network, network \ {p}}
  /\ pc' = "check"
  /\ UNCHANGED <<host, try, ready, s_usPacketSeq, time, answer>>

(* The wait ends without a packet, or recvfrom fails.                      *)
WaitEnds ==
  /\ pc = "wait"
  /\ pc' = "check"
  /\ UNCHANGED <<host, try, ready, s_usPacketSeq, time, network, answer>>

WaitAgain ==
  /\ pc = "check"
  /\ elapsed < Timeout
  /\ pc' = "wait"
  /\ UNCHANGED <<host, try, ready, s_usPacketSeq, time, network, answer>>

TimeOut ==
  /\ pc = "check"
  /\ elapsed >= Timeout
  /\ TryFails
  /\ UNCHANGED <<s_usPacketSeq, network>>

Program ==
  \/ NewObject \/ NoMoreHosts \/ SendNotReady \/ SendFails \/ Send
  \/ ReceiveAnswer \/ ReceiveOther \/ WaitEnds \/ WaitAgain \/ TimeOut

(* pingurl has returned.                                                   *)
Terminated == pc = "done" /\ UNCHANGED vars

Next == Program \/ Network \/ Tick \/ SetClock \/ Terminated

(* The program runs and time passes; nothing is asked of the network.      *)
Spec == Init /\ [][Next]_vars /\ WF_vars(Program) /\ WF_vars(Tick)

----------------------------------------------------------------------------
(* Properties.                                                             *)

(* A success is the answer to the very request of the last try: not a late *)
(* answer to a request given up on, by this call or one before it, and not *)
(* a request seen on its own way out (ParseUrl.cpp:113-116), also where the*)
(* sequence numbers run over.                                              *)
SuccessIsOwn ==
  answer # NoAnswer => answer.type = "reply" /\ answer.of = <<host, try>>

(* pingurl returns, however many packets of others keep arriving and       *)
(* whenever the local time is changed (ParseUrl.cpp:95-132).               *)
Terminates == <>(pc = "done")
=============================================================================
