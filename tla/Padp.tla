-------------------------------- MODULE Padp --------------------------------
(***************************************************************************)
(* The Packet Assembly/Disassembly Protocol (src/libpconn/padp.c) on top   *)
(* of SLP (src/libpconn/slp.c), carrying DLP requests and responses over a *)
(* serial line that loses and damages packets.                             *)
(*                                                                         *)
(* The PC sends a request with padp_write and reads the response with      *)
(* padp_read; the Palm reads a request, executes it and writes the         *)
(* response.  The Palm's end is the same code with PCONNFL_EMULATEPALM:    *)
(* it answers under the transaction ID it last saw.  A message longer than *)
(* MaxPacket travels in fragments, each acknowledged before the next.      *)
(***************************************************************************)
EXTENDS Integers, Sequences

CONSTANTS
    PC, Palm,        \* the two ends of the line
    MaxPacket,       \* PADP_MAX_PACKET_LEN, in units of data
    MaxRetries,      \* PADP_MAX_RETRIES
    MaxTries,        \* times dlp_dlpc_req sends a request, 5 in the code
    XidTop,          \* the largest value of the transaction ID's type
    FirstXid,        \* the transaction ID left over from the handshake
    RequestLengths,  \* the lengths a request can have
    ResponseLengths, \* the lengths a response can have
    SameCommand,     \* do all requests have the same DLP command ID?
    MaxCalls,        \* bound: requests the PC makes
    MaxLost,         \* bound: packets the line loses or damages
    MaxEarly,        \* bound: timeouts that expire with an answer on its way
    MaxTickles       \* bound: tickles the Palm sends

Ends == {PC, Palm}
Other(e) == IF e = PC THEN Palm ELSE PC

ASSUME PadpAssumption ==
    /\ PC # Palm
    /\ MaxPacket \in Nat \ {0} /\ MaxRetries \in Nat \ {0} /\ MaxTries \in Nat \ {0}
    /\ XidTop \in Nat /\ XidTop > 2 /\ FirstXid \in 0 .. XidTop
    /\ RequestLengths \subseteq Nat \ {0} /\ ResponseLengths \subseteq Nat \ {0}
    /\ SameCommand \in BOOLEAN
    /\ MaxCalls \in Nat /\ MaxLost \in Nat /\ MaxEarly \in Nat /\ MaxTickles \in Nat

FIRST == "first"
LAST  == "last"

(* A unit of data remembers where it comes from: who wrote it, in which    *)
(* message (the number of the request, or of the execution it answers),    *)
(* and at which place.                                                     *)
Unit == [from : Ends, number : Nat, at : Nat]
Message(from, number, len) ==
    [i \in 1 .. len |-> [from |-> from, number |-> number, at |-> i]]

(* A packet: PADP header, SLP transaction ID and data.                     *)
Packet == [type : {"data", "ack", "tickle"}, flags : SUBSET {FIRST, LAST},
           size : Nat, xid : 0 .. XidTop, body : Seq(Unit)]

VARIABLES
    wire,     \* packets on their way to each end, in order
    st,       \* what each end is doing
    out,      \* padp_write: the message
    offset,   \* padp_write: where the current fragment starts
    attempt,  \* padp_write: attempts to send it
    xid,      \* padp.xid
    lastXid,  \* slp.last_xid
    blocked,  \* the ends inside slp_read that have dropped a damaged packet
    inbuf,    \* padp_read: the fragments so far
    msgLen,   \* padp_read: the length the first fragment announced
    got,      \* the message padp_read returned last
    calls,    \* requests the PC has made; the last one is the current one
    tries,    \* dlp_dlpc_req: times the current request has timed out
    executed, \* the requests the Palm has executed, in order
    answer,   \* the execution whose response a call returned last, or 0
    lost, early, tickles, \* used up of MaxLost, MaxEarly, MaxTickles
    doubt     \* ghost: an ACK has been lost, or a timer was early

writeVars == <<out, offset, attempt>>
xidVars   == <<xid, lastXid, blocked>>
readVars  == <<inbuf, msgLen, got>>
dlpVars   == <<calls, tries, executed, answer>>
lineVars  == <<lost, early, tickles, doubt>>
vars == <<wire, st, writeVars, xidVars, readVars, dlpVars, lineVars>>

(* idle: between calls; send and await: in padp_write; read and more: in   *)
(* padp_read, before and after the first fragment; execute: between them;  *)
(* dead: PCONNSTAT_LOST.                                                   *)
States == {"idle", "send", "await", "read", "more", "execute", "dead"}

TypeOK ==
    /\ wire \in [Ends -> Seq(Packet)] /\ st \in [Ends -> States]
    /\ out \in [Ends -> Seq(Unit)] /\ offset \in [Ends -> Nat]
    /\ attempt \in [Ends -> 0 .. MaxRetries]
    /\ xid \in [Ends -> 0 .. XidTop] /\ lastXid \in [Ends -> 0 .. XidTop]
    /\ blocked \subseteq Ends
    /\ inbuf \in [Ends -> Seq(Unit)] /\ msgLen \in [Ends -> Nat]
    /\ got \in [Ends -> Seq(Unit)]
    /\ calls \in Nat /\ tries \in 0 .. MaxTries /\ executed \in Seq(Nat) /\ answer \in Nat
    /\ lost \in Nat /\ early \in Nat /\ tickles \in Nat /\ doubt \in BOOLEAN

(* The data of a fragment, a message and a buffer in use is never empty.   *)
Filled ==
    /\ \A e \in Ends : \A i \in DOMAIN wire[e] :
          wire[e][i].type = "data" => wire[e][i].body # <<>> /\ wire[e][i].size > 0
    /\ \A e \in Ends : st[e] \in {"send", "await"} => offset[e] < Len(out[e])
    /\ \A e \in Ends : st[e] = "more" => inbuf[e] # <<>> /\ msgLen[e] > 0
    /\ st[Palm] = "execute" => got[Palm] # <<>>

Init ==
    /\ wire = [e \in Ends |-> <<>>]
    /\ st = [e \in Ends |-> IF e = PC THEN "idle" ELSE "read"]
    /\ out = [e \in Ends |-> <<>>]
    /\ offset = [e \in Ends |-> 0] /\ attempt = [e \in Ends |-> 0]
    /\ xid = [e \in Ends |-> FirstXid] /\ lastXid = [e \in Ends |-> FirstXid]
    /\ blocked = {}
    /\ inbuf = [e \in Ends |-> <<>>] /\ msgLen = [e \in Ends |-> 0]
    /\ got = [e \in Ends |-> <<>>]
    /\ calls = 0 /\ tries = 0 /\ executed = <<>> /\ answer = 0
    /\ lost = 0 /\ early = 0 /\ tickles = 0 /\ doubt = FALSE

-----------------------------------------------------------------------------
(* bump_xid: the next ID, in the width of the type, skipping 0xff and 0.   *)
(* The operators named Wrong... are mistakes that a change to the code     *)
(* could make; no specification uses them, the properties notice them.     *)
WrongReserved(x) == LET next == (x + 1) % (XidTop + 1)
                    IN  IF next = 0 THEN 1 ELSE next
Bump(x) == LET next == (x + 1) % (XidTop + 1)
           IN  IF next \in {0, XidTop} THEN 1 ELSE next

(* padp_ack: no flags, the size of the packet, the ID of the last packet.  *)
Ack(p) == [type |-> "ack", flags |-> {}, size |-> p.size, xid |-> p.xid, body |-> <<>>]

(* The fragment of the message that starts at offset[e].                   *)
WrongLast(e) ==
    LET left  == Len(out[e]) - offset[e]
        first == offset[e] = 0
        last  == left < MaxPacket
    IN  [type  |-> "data",
         flags |-> {f \in {FIRST, LAST} : (f = FIRST /\ first) \/ (f = LAST /\ last)},
         size  |-> IF first THEN Len(out[e]) ELSE offset[e],
         xid   |-> xid[e],
         body  |-> SubSeq(out[e], offset[e] + 1, offset[e] + (IF last THEN left ELSE MaxPacket))]

Fragment(e) ==
    LET left  == Len(out[e]) - offset[e]
        first == offset[e] = 0
        last  == left <= MaxPacket
    IN  [type  |-> "data",
         flags |-> {f \in {FIRST, LAST} : (f = FIRST /\ first) \/ (f = LAST /\ last)},
         size  |-> IF first THEN Len(out[e]) ELSE offset[e],
         xid   |-> xid[e],
         body  |-> SubSeq(out[e], offset[e] + 1, offset[e] + (IF last THEN left ELSE MaxPacket))]

Goto(e, state) == st' = [st EXCEPT ![e] = state]

(* A packet of this type arrives at e, is taken off the line, noted by SLP, *)
(* and perhaps acknowledged.                                               *)
Arrives(e, types) == wire[e] # <<>> /\ Head(wire[e]).type \in types
Arrived(e)        == Head(wire[e])
Take(e) ==
    /\ wire' = [wire EXCEPT ![e] = Tail(@)]
    /\ lastXid' = [lastXid EXCEPT ![e] = Arrived(e).xid] /\ blocked' = blocked \ {e}
TakeAndAck(e) ==
    /\ wire' = [wire EXCEPT ![e] = Tail(@), ![Other(e)] = Append(@, Ack(Arrived(e)))]
    /\ lastXid' = [lastXid EXCEPT ![e] = Arrived(e).xid] /\ blocked' = blocked \ {e}

(* How padp_write and padp_read return an error that is no timeout: the    *)
(* call fails, and the caller may go on to the next one.                   *)
Failed(e) == Goto(e, IF e = PC THEN "idle" ELSE "read")

-----------------------------------------------------------------------------
(* padp_write.                                                             *)

Write(e, message) ==
    /\ Goto(e, "send")
    /\ out' = [out EXCEPT ![e] = message]
    /\ offset' = [offset EXCEPT ![e] = 0]
    /\ attempt' = [attempt EXCEPT ![e] = 0]
    /\ xid' = [xid EXCEPT ![e] = IF e = Palm THEN lastXid[e] ELSE Bump(@)]

(* The PC's next DLP request.                                              *)
Call ==
    /\ st[PC] = "idle" /\ calls < MaxCalls
    /\ \E len \in RequestLengths : Write(PC, Message(PC, calls + 1, len))
    /\ calls' = calls + 1 /\ tries' = 0
    /\ UNCHANGED <<wire, lastXid, blocked, readVars, executed, answer, lineVars>>

Send(e) ==
    /\ st[e] = "send"
    /\ wire' = [wire EXCEPT ![Other(e)] = Append(@, Fragment(e))]
    /\ Goto(e, "await")
    /\ UNCHANGED <<writeVars, xidVars, readVars, dlpVars, lineVars>>

WrongEmptyEnd(e) ==
    /\ st[e] = "await" /\ Arrives(e, {"ack"}) /\ Take(e)
    /\ IF Arrived(e).xid # xid[e]
       THEN Failed(e) /\ UNCHANGED writeVars
       ELSE /\ offset' = [offset EXCEPT ![e] = @ + MaxPacket]
            /\ attempt' = [attempt EXCEPT ![e] = 0]
            /\ Goto(e, IF offset[e] + MaxPacket <= Len(out[e]) THEN "send" ELSE "read")
            /\ UNCHANGED out
    /\ UNCHANGED <<xid, readVars, dlpVars, lineVars>>

(* An ACK: only its ID is looked at, which is the same for all fragments.  *)
AckArrives(e) ==
    /\ st[e] = "await" /\ Arrives(e, {"ack"}) /\ Take(e)
    /\ IF Arrived(e).xid # xid[e]
       THEN Failed(e) /\ UNCHANGED writeVars
       ELSE /\ offset' = [offset EXCEPT ![e] = @ + MaxPacket]
            /\ attempt' = [attempt EXCEPT ![e] = 0]
            /\ Goto(e, IF offset[e] + MaxPacket < Len(out[e]) THEN "send" ELSE "read")
            /\ UNCHANGED out
    /\ UNCHANGED <<xid, readVars, dlpVars, lineVars>>

(* Data instead of an ACK: "send the Palm an ACK so it'll shut up".        *)
DataInsteadOfAck(e) ==
    /\ st[e] = "await" /\ Arrives(e, {"data"}) /\ TakeAndAck(e)
    /\ xid' = [xid EXCEPT ![e] = IF e = Palm THEN Arrived(e).xid ELSE Bump(Arrived(e).xid)]
    /\ Goto(e, "send")
    /\ UNCHANGED <<writeVars, readVars, dlpVars, lineVars>>

TickleInsteadOfAck(e) ==
    /\ st[e] = "await" /\ Arrives(e, {"tickle"}) /\ Take(e)
    /\ Goto(e, "send")
    /\ UNCHANGED <<writeVars, xid, readVars, dlpVars, lineVars>>

(* A timer runs only until the first byte of a packet is there: slp_read   *)
(* then reads until a packet is good, however long that takes.  A timeout  *)
(* is due when nothing that could end the wait is on its way: the other    *)
(* end is busy elsewhere for longer than the timer runs, or has nothing    *)
(* left to answer, or sits in slp_read itself.                             *)
Quiet(e, busy, sending) ==
    \/ st[Other(e)] \in busy
    \/ wire[Other(e)] = <<>> /\ (st[Other(e)] \notin sending \/ Other(e) \in blocked)
Expire(due) ==
    \/ due /\ UNCHANGED <<early, doubt>>
    \/ ~due /\ early < MaxEarly /\ early' = early + 1 /\ doubt' = TRUE

WrongOneMore(e) ==
    /\ st[e] = "await" /\ wire[e] = <<>> /\ e \notin blocked
    /\ Expire(Quiet(e, {"idle", "execute", "dead"}, {"send"}))
    /\ attempt' = [attempt EXCEPT ![e] = @ + 1]
    /\ Goto(e, IF attempt[e] < MaxRetries THEN "send" ELSE "dead")
    /\ UNCHANGED <<wire, out, offset, xidVars, readVars, dlpVars, lost, tickles>>

AckTimeout(e) ==
    /\ st[e] = "await" /\ wire[e] = <<>> /\ e \notin blocked
    /\ Expire(Quiet(e, {"idle", "execute", "dead"}, {"send"}))
    /\ attempt' = [attempt EXCEPT ![e] = @ + 1]
    /\ Goto(e, IF attempt[e] + 1 < MaxRetries THEN "send" ELSE "dead")
    /\ UNCHANGED <<wire, out, offset, xidVars, readVars, dlpVars, lost, tickles>>

-----------------------------------------------------------------------------
(* padp_read.                                                              *)

(* What the reader does with a whole message: the Palm executes it, the PC *)
(* takes it if the response names the command it has sent (dlp_recv_resp). *)
Return(e, message) ==
    /\ got' = [got EXCEPT ![e] = message]
    /\ IF e = Palm THEN Goto(e, "execute") /\ UNCHANGED answer
       ELSE /\ Goto(e, "idle")
            /\ LET n == message[1].number IN
               answer' = IF SameCommand \/ executed[n] = calls THEN n ELSE answer

ReadFirst(e) ==
    /\ st[e] = "read" /\ Arrives(e, {"data"}) /\ TakeAndAck(e)
    /\ xid' = [xid EXCEPT ![e] = Arrived(e).xid]
    /\ IF Arrived(e).flags = {FIRST, LAST}
       THEN Return(e, Arrived(e).body) /\ UNCHANGED <<inbuf, msgLen>>
       ELSE /\ Goto(e, "more")
            /\ inbuf' = [inbuf EXCEPT ![e] = Arrived(e).body]
            /\ msgLen' = [msgLen EXCEPT ![e] = Arrived(e).size]
            /\ UNCHANGED <<got, answer>>
    /\ UNCHANGED <<writeVars, calls, tries, executed, lineVars>>

(* The first len units of a buffer that these fragments have been copied   *)
(* to; what lies behind them was never written.                            *)
Undefined == [from |-> PC, number |-> 0, at |-> 0]
Buffer(soFar, len) == [i \in 1 .. len |-> IF i <= Len(soFar) THEN soFar[i] ELSE Undefined]

WrongNoAck(e) ==
    /\ st[e] = "more" /\ Arrives(e, {"data"})
    /\ IF FIRST \in Arrived(e).flags \/ Arrived(e).size # Len(inbuf[e])
       THEN Take(e) /\ Failed(e) /\ UNCHANGED <<xid, readVars, answer>>
       ELSE LET soFar == inbuf[e] \o Arrived(e).body IN
            /\ Take(e)
            /\ xid' = [xid EXCEPT ![e] = Arrived(e).xid]
            /\ inbuf' = [inbuf EXCEPT ![e] = soFar]
            /\ UNCHANGED msgLen
            /\ IF LAST \in Arrived(e).flags
               THEN Return(e, Buffer(soFar, msgLen[e]))
               ELSE UNCHANGED <<st, got, answer>>
    /\ UNCHANGED <<writeVars, calls, tries, executed, lineVars>>

(* The next fragment; a first one, or one at the wrong offset, is an error. *)
ReadMore(e) ==
    /\ st[e] = "more" /\ Arrives(e, {"data"})
    /\ IF FIRST \in Arrived(e).flags \/ Arrived(e).size # Len(inbuf[e])
       THEN Take(e) /\ Failed(e) /\ UNCHANGED <<xid, readVars, answer>>
       ELSE LET soFar == inbuf[e] \o Arrived(e).body IN
            /\ TakeAndAck(e)
            /\ xid' = [xid EXCEPT ![e] = Arrived(e).xid]
            /\ inbuf' = [inbuf EXCEPT ![e] = soFar]
            /\ UNCHANGED msgLen
            /\ IF LAST \in Arrived(e).flags
               THEN Return(e, Buffer(soFar, msgLen[e]))
               ELSE UNCHANGED <<st, got, answer>>
    /\ UNCHANGED <<writeVars, calls, tries, executed, lineVars>>

(* ACKs and tickles are ignored while reading.                             *)
ReadRetry(e) ==
    /\ st[e] \in {"read", "more"} /\ Arrives(e, {"ack", "tickle"}) /\ Take(e)
    /\ UNCHANGED <<st, writeVars, xid, readVars, dlpVars, lineVars>>

(* dlp_dlpc_req sends the request again when the response does not come,   *)
(* as a new message; the last time, it gives the connection up.            *)
Retry ==
    /\ tries' = tries + 1
    /\ \/ tries + 1 < MaxTries /\ Write(PC, out[PC])
       \/ tries + 1 >= MaxTries /\ Goto(PC, "dead") /\ UNCHANGED <<writeVars, xid>>

(* The Palm can wait for a request as long as it takes.                    *)
WrongWaitForever(e) ==
    /\ st[e] = "more"
    /\ wire[e] = <<>> /\ e \notin blocked
    /\ Expire(Quiet(e, {"idle", "dead"}, {"send", "await", "execute"}))
    /\ IF e = PC THEN Retry ELSE Failed(e) /\ UNCHANGED <<writeVars, xid, tries>>
    /\ UNCHANGED <<wire, lastXid, blocked, readVars, calls, executed, answer, lost, tickles>>

ReadTimeout(e) ==
    /\ st[e] = "more" \/ (st[e] = "read" /\ e = PC)
    /\ wire[e] = <<>> /\ e \notin blocked
    /\ Expire(Quiet(e, {"idle", "dead"}, {"send", "await", "execute"}))
    /\ IF e = PC THEN Retry ELSE Failed(e) /\ UNCHANGED <<writeVars, xid, tries>>
    /\ UNCHANGED <<wire, lastXid, blocked, readVars, calls, executed, answer, lost, tickles>>

-----------------------------------------------------------------------------
(* The Palm (external): it executes a request and answers it; a long one   *)
(* makes it send tickles.                                                  *)
Execute ==
    /\ st[Palm] = "execute"
    /\ executed' = Append(executed, got[Palm][1].number)
    /\ \E len \in ResponseLengths : Write(Palm, Message(Palm, Len(executed) + 1, len))
    /\ UNCHANGED <<wire, lastXid, blocked, readVars, calls, tries, answer, lineVars>>

Tickle ==
    /\ st[Palm] = "execute" /\ tickles < MaxTickles
    /\ tickles' = tickles + 1
    /\ wire' = [wire EXCEPT ![PC] =
          Append(@, [type |-> "tickle", flags |-> {}, size |-> 0, xid |-> lastXid[Palm],
                     body |-> <<>>])]
    /\ UNCHANGED <<st, writeVars, xidVars, readVars, dlpVars, lost, early, doubt>>

(* The line drops a packet.                                                *)
Lose(e) ==
    /\ wire[e] # <<>> /\ lost < MaxLost /\ lost' = lost + 1
    /\ doubt' = (doubt \/ Arrived(e).type = "ack")
    /\ wire' = [wire EXCEPT ![e] = Tail(@)]
    /\ UNCHANGED <<st, writeVars, xidVars, readVars, dlpVars, early, tickles>>

(* The line damages a packet: slp_read finds a bad checksum or CRC, drops  *)
(* the packet on the floor and goes back to read the next.                 *)
Damage(e) ==
    /\ st[e] \in {"await", "read", "more"}
    /\ wire[e] # <<>> /\ lost < MaxLost /\ lost' = lost + 1
    /\ doubt' = (doubt \/ Arrived(e).type = "ack")
    /\ wire' = [wire EXCEPT ![e] = Tail(@)] /\ blocked' = blocked \cup {e}
    /\ UNCHANGED <<st, writeVars, xid, lastXid, readVars, dlpVars, early, tickles>>

EndStep(e) ==
    \/ Send(e) \/ AckArrives(e) \/ DataInsteadOfAck(e) \/ TickleInsteadOfAck(e) \/ AckTimeout(e)
    \/ ReadFirst(e) \/ ReadMore(e) \/ ReadRetry(e) \/ ReadTimeout(e)

Next == Call \/ Execute \/ Tickle \/ \E e \in Ends : EndStep(e) \/ Lose(e) \/ Damage(e)

Spec == Init /\ [][Next]_vars
FairSpec == Spec /\ WF_vars(Execute) /\ \A e \in Ends : WF_vars(EndStep(e))

-----------------------------------------------------------------------------
(* "When the sender receives an ACK, it knows that the packet was received *)
(* correctly": once padp_write has returned success, the message that      *)
(* padp_read returned last at the other end is the one that was written.   *)
AckedMeansDelivered ==
    \A e \in Ends : out[e] # <<>> /\ offset[e] >= Len(out[e]) => got[Other(e)] = out[e]

(* That is so as long as no ACK is lost and no timer is early.             *)
Reliable == ~doubt => AckedMeansDelivered

(* The PC never sends a request under one of the two reserved IDs, however *)
(* often it has had to change the ID in the middle of a message.           *)
NoReservedXid ==
    \A i \in DOMAIN wire[Palm] :
        wire[Palm][i].type = "data" => wire[Palm][i].xid \notin {0, XidTop}

(* "If no ACK has been received within a certain amount of time, it        *)
(* retransmits": every call returns, fails, or finds the connection lost.  *)
CallEnds == st[PC] # "idle" ~> st[PC] \in {"idle", "dead"}

(* That is so unless the PC waits in slp_read, past all of its timers, for *)
(* a packet to follow the damaged one.                                     *)
CallEndsOrBlocks == st[PC] # "idle" ~> st[PC] \in {"idle", "dead"} \/ PC \in blocked

(* The abstract specification, and what in this one stands for its state:  *)
(* the calls are executed in order, and as long as no ACK is lost and no   *)
(* timer is early, once, and each returns the answer it was given.         *)
RemoteCalls == INSTANCE Rpc WITH pending <- st[PC] \notin {"idle", "dead"}
RpcSpec == RemoteCalls!Spec
=============================================================================
