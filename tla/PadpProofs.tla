------------------------------ MODULE PadpProofs ------------------------------
(***************************************************************************)
(* What holds of PADP for every size of packet and width of the            *)
(* transaction ID, and for any number of calls, losses and early timers;   *)
(* at the end, what Rpc promises in turn, which PADP implements.           *)
(***************************************************************************)
EXTENDS Padp, SequenceTheorems, TLAPS

(* The elements of a sequence with one more at its end.                    *)
LEMMA AppendedTo ==
    ASSUME NEW S, NEW s \in Seq(S), NEW p \in S, NEW t, t = Append(s, p)
    PROVE  /\ t # <<>> /\ Len(t) = Len(s) + 1 /\ t[Len(s) + 1] = p
           /\ \A i \in 1 .. Len(s) : t[i] = s[i]
<1>1. Len(t) = Len(s) + 1 /\ Len(s) \in Nat
  BY SMT
<1>2. Len(<<>>) = 0
  BY SMT
<1>3. t # <<>>
  BY <1>1, <1>2, SMT
<1>4. t[Len(s) + 1] = p
  BY SMT
<1>5. \A i \in 1 .. Len(s) : t[i] = s[i]
  BY SMT
<1> QED
  BY <1>1, <1>3, <1>4, <1>5, Zenon

LEMMA SecondOnLine ==
    ASSUME NEW S, NEW s \in Seq(S), Len(s) = 1, NEW p, NEW t, t = Append(s, p)
    PROVE  Len(t) = 2 /\ t[1] = s[1] /\ t[2] = p /\ t # <<>>
<1>1. PICK T : S \subseteq T /\ p \in T
  <2>1. S \subseteq S \cup {p} /\ p \in S \cup {p}
    OBVIOUS
  <2> QED
    BY <2>1, Zenon
<1>2. s \in Seq(T)
  BY <1>1, SeqMonotonic, Zenon
<1>3. /\ t # <<>> /\ Len(t) = Len(s) + 1 /\ t[Len(s) + 1] = p
      /\ \A i \in 1 .. Len(s) : t[i] = s[i]
  BY <1>1, <1>2, AppendedTo
<1>4. Len(s) + 1 = 2 /\ 1 \in 1 .. Len(s)
  OBVIOUS
<1> QED
  BY <1>3, <1>4

USE PadpAssumption

(* What is on the line: packets, whose data is not empty, and whose ID is  *)
(* not a reserved one when they carry a request.                           *)
WireOK ==
    /\ wire \in [Ends -> Seq(Packet)]
    /\ \A e \in Ends : \A i \in DOMAIN wire[e] :
          wire[e][i].type = "data" => wire[e][i].body # <<>> /\ wire[e][i].size > 0
    /\ NoReservedXid

(* What each end has, as far as it matters to what it does next.           *)
EndOK ==
    /\ \A e \in Ends : st[e] \in {"send", "await"} =>
          offset[e] < Len(out[e]) /\ attempt[e] < MaxRetries
    /\ \A e \in Ends : st[e] = "more" => inbuf[e] # <<>> /\ msgLen[e] > 0
    /\ st[Palm] = "execute" => got[Palm] # <<>>
    /\ st[PC] \in {"send", "await"} => xid[PC] \notin {0, XidTop}
    /\ st[PC] \notin {"idle", "dead"} => out[PC] # <<>> /\ tries < MaxTries

Inv == TypeOK /\ WireOK /\ EndOK

(* The two ends of the line.                                               *)
LEMMA EndsFacts ==
    /\ PC \in Ends /\ Palm \in Ends
    /\ \A e \in Ends : Other(e) \in Ends /\ Other(e) # e /\ (e = PC \/ e = Palm)
    /\ Other(PC) = Palm /\ Other(Palm) = PC
BY DEF Ends, Other

(* An end that has just begun to send has attempts left.                   *)
LEMMA ZeroAttempts == 0 \in 0 .. MaxRetries /\ 0 < MaxRetries
OBVIOUS

(* bump_xid never leaves the width of the type, nor yields a reserved ID.  *)
LEMMA BumpType == ASSUME NEW x \in 0 .. XidTop PROVE Bump(x) \in 1 .. XidTop - 1
<1>1. CASE x = XidTop
  <2>1. (x + 1) % (XidTop + 1) = 0
    BY <1>1
  <2> QED
    BY <2>1 DEF Bump
<1>2. CASE x < XidTop
  <2>1. (x + 1) % (XidTop + 1) = x + 1
    BY <1>2
  <2> QED
    BY <2>1, <1>2 DEF Bump
<1> QED
  BY <1>1, <1>2

(* Taking the first packet off a line leaves the others.                   *)
LEMMA TakeType ==
    ASSUME Inv, NEW e \in Ends, wire[e] # <<>>
    PROVE  /\ Arrived(e) \in Packet /\ Len(wire[e]) > 0
           /\ Arrived(e).type = "data" => Arrived(e).body # <<>> /\ Arrived(e).size > 0
           /\ Tail(wire[e]) \in Seq(Packet)
           /\ \A i \in DOMAIN Tail(wire[e]) :
                 i + 1 \in DOMAIN wire[e] /\ Tail(wire[e])[i] = wire[e][i + 1]
<1>1. wire[e] \in Seq(Packet) /\ 1 \in DOMAIN wire[e] /\ Len(wire[e]) > 0
  BY DEF Inv, WireOK
<1>2. Arrived(e) = wire[e][1]
  BY <1>1 DEF Arrived
<1>3. Arrived(e) \in Packet
  BY <1>1, <1>2
<1>4. Arrived(e).type = "data" => Arrived(e).body # <<>> /\ Arrived(e).size > 0
  BY <1>1, <1>2 DEF Inv, WireOK
<1> QED
  BY <1>1, <1>3, <1>4

(* So the line stays in order, whoever takes a packet off it.              *)
LEMMA DropOK ==
    ASSUME Inv, NEW e \in Ends, wire[e] # <<>>, wire' = [wire EXCEPT ![e] = Tail(@)]
    PROVE  WireOK'
<1>1. wire \in [Ends -> Seq(Packet)]
  BY DEF Inv, WireOK
<1>2. \A f \in Ends : wire'[f] = IF f = e THEN Tail(wire[e]) ELSE wire[f]
  BY <1>1
<1>3. wire' \in [Ends -> Seq(Packet)]
  BY <1>1, TakeType
<1>4. \A f \in Ends : \A i \in DOMAIN wire'[f] :
         \E j \in DOMAIN wire[f] : wire'[f][i] = wire[f][j]
  BY <1>2, TakeType
<1> QED
  BY <1>3, <1>4, EndsFacts DEF Inv, WireOK, NoReservedXid

(* SLP notes the ID of a packet it hands on.                               *)
LEMMA TakeOK ==
    ASSUME Inv, NEW e \in Ends, wire[e] # <<>>, Take(e)
    PROVE  WireOK' /\ lastXid' \in [Ends -> 0 .. XidTop] /\ blocked' \subseteq Ends
<1>1. WireOK'
  BY DropOK DEF Take
<1>2. Arrived(e).xid \in 0 .. XidTop
  BY TakeType DEF Packet
<1>3. /\ lastXid' = [lastXid EXCEPT ![e] = Arrived(e).xid] /\ lastXid \in [Ends -> 0 .. XidTop]
      /\ blocked' = blocked \ {e} /\ blocked \subseteq Ends
  BY DEF Take, Inv, TypeOK
<1> QED
  BY <1>1, <1>2, <1>3

(* Putting a packet on a line: acknowledgements are never requests.        *)
LEMMA TakeAndAckOK ==
    ASSUME Inv, NEW e \in Ends, wire[e] # <<>>, TakeAndAck(e)
    PROVE  WireOK' /\ lastXid' \in [Ends -> 0 .. XidTop] /\ blocked' \subseteq Ends
<1> DEFINE o == Other(e)
<1>1. /\ wire' = [wire EXCEPT ![e] = Tail(wire[e]), ![o] = Append(@, Ack(Arrived(e)))]
      /\ wire \in [Ends -> Seq(Packet)] /\ o \in Ends /\ o # e
  BY EndsFacts DEF TakeAndAck, Inv, WireOK
<1>2. \A f \in Ends : wire'[f] = IF f = e THEN Tail(wire[e])
                                ELSE IF f = o THEN Append(wire[o], Ack(Arrived(e))) ELSE wire[f]
  BY <1>1
<1>3. Ack(Arrived(e)) \in Packet /\ Ack(Arrived(e)).type = "ack"
  <2>1. Arrived(e).size \in Nat /\ Arrived(e).xid \in 0 .. XidTop
    BY TakeType DEF Packet
  <2>2. {} \in SUBSET {FIRST, LAST} /\ <<>> \in Seq(Unit)
    OBVIOUS
  <2> QED
    BY <2>1, <2>2 DEF Ack, Packet
<1>4. wire' \in [Ends -> Seq(Packet)]
  <2>1. Append(wire[o], Ack(Arrived(e))) \in Seq(Packet)
    BY <1>1, <1>3
  <2> QED
    BY <1>1, <2>1, TakeType
<1>5. \A f \in Ends : \A i \in DOMAIN wire'[f] :
         \/ wire'[f][i].type = "ack"
         \/ \E j \in DOMAIN wire[f] : wire'[f][i] = wire[f][j]
  <2> SUFFICES ASSUME NEW f \in Ends, NEW i \in DOMAIN wire'[f]
               PROVE \/ wire'[f][i].type = "ack"
                     \/ \E j \in DOMAIN wire[f] : wire'[f][i] = wire[f][j]
    OBVIOUS
  <2>1. CASE f = e
    <3>1. wire'[f] = Tail(wire[e])
      BY <2>1, <1>2
    <3>2. i \in DOMAIN Tail(wire[e])
      BY <3>1
    <3>3. i + 1 \in DOMAIN wire[f] /\ wire'[f][i] = wire[f][i + 1]
      BY <2>1, <3>1, <3>2, TakeType
    <3> QED
      BY <3>3
  <2>2. CASE f = o
    <3>1. wire'[f] = Append(wire[o], Ack(Arrived(e))) /\ wire[o] \in Seq(Packet)
      BY <2>2, <1>1, <1>2
    <3>2. i \in DOMAIN wire[o] \/ i = Len(wire[o]) + 1
      BY <3>1
    <3> QED
      BY <3>1, <3>2, <1>3, <2>2
  <2> QED
    BY <2>1, <2>2, EndsFacts
<1>6. WireOK'
  <2>1. ASSUME NEW f \in Ends, NEW i \in DOMAIN wire'[f], wire'[f][i].type = "data"
        PROVE  \E j \in DOMAIN wire[f] : wire'[f][i] = wire[f][j] /\ wire[f][j].type = "data"
    BY <2>1, <1>5
  <2>2. ASSUME NEW f \in Ends, NEW i \in DOMAIN wire'[f], wire'[f][i].type = "data"
        PROVE  wire'[f][i].body # <<>> /\ wire'[f][i].size > 0
    BY <2>1, <2>2 DEF Inv, WireOK
  <2>3. ASSUME NEW i \in DOMAIN wire'[Palm], wire'[Palm][i].type = "data"
        PROVE  wire'[Palm][i].xid \notin {0, XidTop}
    BY <2>1, <2>3, EndsFacts DEF Inv, WireOK, NoReservedXid
  <2> QED
    BY <1>4, <2>2, <2>3 DEF WireOK, NoReservedXid
<1>7. Arrived(e).xid \in 0 .. XidTop
  BY TakeType DEF Packet
<1>8. /\ lastXid' = [lastXid EXCEPT ![e] = Arrived(e).xid] /\ lastXid \in [Ends -> 0 .. XidTop]
      /\ blocked' = blocked \ {e} /\ blocked \subseteq Ends
  BY DEF TakeAndAck, Inv, TypeOK
<1> QED
  BY <1>6, <1>7, <1>8

(* A fragment holds data, and the IDs of requests are not reserved ones.   *)
LEMMA FragmentType ==
    ASSUME Inv, NEW e \in Ends, st[e] = "send"
    PROVE  /\ Fragment(e) \in Packet /\ Fragment(e).type = "data"
           /\ Fragment(e).body # <<>> /\ Fragment(e).size > 0
           /\ e = PC => Fragment(e).xid \notin {0, XidTop}
<1> DEFINE left == Len(out[e]) - offset[e]
           n == IF left <= MaxPacket THEN left ELSE MaxPacket
<1>1. out[e] \in Seq(Unit) /\ offset[e] \in Nat /\ offset[e] < Len(out[e]) /\ xid[e] \in 0 .. XidTop
  BY DEF Inv, TypeOK, EndOK
<1>2. n \in Nat /\ n > 0 /\ offset[e] + n <= Len(out[e])
  BY <1>1
<1>3. Fragment(e).body = SubSeq(out[e], offset[e] + 1, offset[e] + n)
  BY DEF Fragment
<1>4. SubSeq(out[e], offset[e] + 1, offset[e] + n) \in Seq(Unit)
  BY <1>1, <1>2
<1>5. Len(SubSeq(out[e], offset[e] + 1, offset[e] + n)) = n
  BY <1>1, <1>2
<1>6. Fragment(e).body \in Seq(Unit) /\ Fragment(e).body # <<>>
  <2>1. Len(Fragment(e).body) > 0
    BY <1>2, <1>3, <1>5
  <2>2. ASSUME NEW s \in Seq(Unit), Len(s) > 0 PROVE s # <<>>
    BY <2>2
  <2>3. Fragment(e).body \in Seq(Unit)
    BY <1>3, <1>4
  <2> QED
    BY <2>1, <2>2, <2>3
<1>7. Fragment(e).size \in Nat /\ Fragment(e).size > 0
  BY <1>1 DEF Fragment
<1>8. Fragment(e).type = "data" /\ Fragment(e).xid = xid[e] /\ Fragment(e).flags \in SUBSET {FIRST, LAST}
  BY DEF Fragment
<1>9. Fragment(e) \in Packet
  <2>1. Fragment(e) = [type |-> "data", flags |-> Fragment(e).flags, size |-> Fragment(e).size,
                       xid |-> xid[e], body |-> Fragment(e).body]
    BY DEF Fragment
  <2> QED
    BY <2>1, <1>1, <1>6, <1>7, <1>8 DEF Packet
<1>10. e = PC => xid[e] \notin {0, XidTop}
  BY DEF Inv, EndOK
<1> QED
  BY <1>6, <1>7, <1>8, <1>9, <1>10

(* Appending a good packet to a line.                                      *)
LEMMA AppendOK ==
    ASSUME Inv, NEW f \in Ends, NEW p \in Packet,
           p.type = "data" => p.body # <<>> /\ p.size > 0,
           f = Palm /\ p.type = "data" => p.xid \notin {0, XidTop},
           wire' = [wire EXCEPT ![f] = Append(@, p)]
    PROVE  WireOK'
<1>1. wire \in [Ends -> Seq(Packet)]
  BY DEF Inv, WireOK
<1>2. wire' \in [Ends -> Seq(Packet)]
  BY <1>1
<1>3. \A g \in Ends : wire'[g] = IF g = f THEN Append(wire[f], p) ELSE wire[g]
  BY <1>1
<1>4. ASSUME NEW g \in Ends, NEW i \in DOMAIN wire'[g]
      PROVE  \/ g = f /\ wire'[g][i] = p
             \/ \E j \in DOMAIN wire[g] : wire'[g][i] = wire[g][j]
  <2>1. CASE g = f
    <3>1. wire'[g] = Append(wire[f], p) /\ wire[f] \in Seq(Packet)
      BY <2>1, <1>1, <1>3
    <3>2. i \in DOMAIN wire[f] \/ i = Len(wire[f]) + 1
      BY <3>1, <1>4
    <3> QED
      BY <3>1, <3>2, <2>1
  <2>2. CASE g # f
    BY <2>2, <1>3, <1>4
  <2> QED
    BY <2>1, <2>2
<1>5. ASSUME NEW g \in Ends, NEW i \in DOMAIN wire'[g], wire'[g][i].type = "data"
      PROVE  wire'[g][i].body # <<>> /\ wire'[g][i].size > 0
  BY <1>4, <1>5 DEF Inv, WireOK
<1>6. ASSUME NEW i \in DOMAIN wire'[Palm], wire'[Palm][i].type = "data"
      PROVE  wire'[Palm][i].xid \notin {0, XidTop}
  BY <1>4, <1>6, EndsFacts DEF Inv, WireOK, NoReservedXid
<1> QED
  BY <1>2, <1>5, <1>6 DEF WireOK, NoReservedXid

(* The line is empty at first, and both ends are at rest.                  *)
LEMMA InitInv == Init => Inv
<1> SUFFICES ASSUME Init PROVE Inv
  OBVIOUS
<1>1. TypeOK
  <2>1. /\ wire \in [Ends -> Seq(Packet)] /\ st \in [Ends -> States]
        /\ out \in [Ends -> Seq(Unit)] /\ inbuf \in [Ends -> Seq(Unit)] /\ got \in [Ends -> Seq(Unit)]
    BY DEF Init, States
  <2>2. /\ offset \in [Ends -> Nat] /\ attempt \in [Ends -> 0 .. MaxRetries]
        /\ msgLen \in [Ends -> Nat]
        /\ xid \in [Ends -> 0 .. XidTop] /\ lastXid \in [Ends -> 0 .. XidTop]
        /\ blocked \subseteq Ends
    BY DEF Init
  <2>3. /\ calls \in Nat /\ tries \in 0 .. MaxTries /\ executed \in Seq(Nat) /\ answer \in Nat
        /\ lost \in Nat /\ early \in Nat /\ tickles \in Nat
    BY DEF Init
  <2>4. doubt \in BOOLEAN
    BY Zenon DEF Init
  <2> QED
    BY <2>1, <2>2, <2>3, <2>4 DEF TypeOK
<1>2. WireOK
  BY <1>1, EndsFacts DEF Init, WireOK, NoReservedXid, TypeOK
<1>3. EndOK
  BY EndsFacts DEF Init, EndOK
<1> QED
  BY <1>1, <1>2, <1>3 DEF Inv

(* padp_write: the message to write is not empty.                          *)
LEMMA MessageType ==
    ASSUME NEW e \in Ends, NEW n \in Nat, NEW len \in Nat \ {0}
    PROVE  Message(e, n, len) \in Seq(Unit) /\ Len(Message(e, n, len)) = len
BY DEF Message, Unit

(* The PC's padp_write starts under a new ID, whether the request is sent  *)
(* for the first time or again.                                            *)
LEMMA RequestOK ==
    ASSUME Inv, NEW m \in Seq(Unit), m # <<>>, Write(PC, m),
           tries' \in 0 .. MaxTries, tries' < MaxTries,
           UNCHANGED <<wire, lastXid, blocked, inbuf, msgLen, got>>
    PROVE  /\ st' \in [Ends -> States] /\ out' \in [Ends -> Seq(Unit)]
           /\ offset' \in [Ends -> Nat] /\ attempt' \in [Ends -> 0 .. MaxRetries]
           /\ xid' \in [Ends -> 0 .. XidTop]
           /\ WireOK' /\ EndOK'
<1>1. /\ st' = [st EXCEPT ![PC] = "send"] /\ out' = [out EXCEPT ![PC] = m]
      /\ offset' = [offset EXCEPT ![PC] = 0] /\ attempt' = [attempt EXCEPT ![PC] = 0]
      /\ xid' = [xid EXCEPT ![PC] = Bump(xid[PC])]
  BY EndsFacts DEF Write, Goto
<1>2. Bump(xid[PC]) \in 0 .. XidTop /\ Bump(xid[PC]) \notin {0, XidTop}
  <2>1. xid[PC] \in 0 .. XidTop
    BY EndsFacts DEF Inv, TypeOK
  <2>2. Bump(xid[PC]) \in 1 .. XidTop - 1
    BY <2>1, BumpType
  <2> QED
    BY <2>2
<1>3. st' \in [Ends -> States] /\ out' \in [Ends -> Seq(Unit)]
  BY <1>1, EndsFacts DEF Inv, TypeOK, States
<1>4. offset' \in [Ends -> Nat]
  BY <1>1 DEF Inv, TypeOK
<1>5. attempt' \in [Ends -> 0 .. MaxRetries]
  BY <1>1, ZeroAttempts DEF Inv, TypeOK
<1>6. xid' \in [Ends -> 0 .. XidTop]
  BY <1>1, <1>2 DEF Inv, TypeOK
<1>7. WireOK'
  BY DEF Inv, WireOK, NoReservedXid
<1>8. EndOK'
  <2>1. Len(m) > 0
    OBVIOUS
  <2>2. /\ st'[PC] = "send" /\ offset'[PC] = 0 /\ out'[PC] = m
        /\ xid'[PC] = Bump(xid[PC]) /\ attempt'[PC] = 0
    BY <1>1, EndsFacts DEF Inv, TypeOK
  <2>3. \A e \in Ends : e # PC => /\ st'[e] = st[e] /\ offset'[e] = offset[e] /\ out'[e] = out[e]
                                  /\ attempt'[e] = attempt[e]
                                  /\ inbuf'[e] = inbuf[e] /\ msgLen'[e] = msgLen[e]
    BY <1>1 DEF Inv, TypeOK
  <2> QED
    BY <1>2, <2>1, <2>2, <2>3, EndsFacts, ZeroAttempts DEF Inv, EndOK
<1> QED
  BY <1>3, <1>4, <1>5, <1>6, <1>7, <1>8

(* A new request.                                                          *)
LEMMA CallInv == ASSUME Inv, Call PROVE Inv'
<1>1. PICK len \in RequestLengths : Write(PC, Message(PC, calls + 1, len))
  BY DEF Call
<1> DEFINE m == Message(PC, calls + 1, len)
<1>2. calls + 1 \in Nat /\ len \in Nat \ {0}
  BY DEF Inv, TypeOK
<1>3. m \in Seq(Unit) /\ Len(m) = len
  BY <1>2, EndsFacts, MessageType
<1>4. Write(PC, m)
  BY <1>1
<1> HIDE DEF m
<1>5. m # <<>>
  BY <1>2, <1>3
<1>6. UNCHANGED <<wire, lastXid, blocked, inbuf, msgLen, got, executed, answer, lost, early,
                  tickles, doubt>>
      /\ calls' = calls + 1 /\ tries' = 0
  BY DEF Call, readVars, lineVars
<1>7. tries' \in 0 .. MaxTries /\ tries' < MaxTries
  BY <1>6
<1>8. /\ st' \in [Ends -> States] /\ out' \in [Ends -> Seq(Unit)]
      /\ offset' \in [Ends -> Nat] /\ attempt' \in [Ends -> 0 .. MaxRetries]
      /\ xid' \in [Ends -> 0 .. XidTop]
      /\ WireOK' /\ EndOK'
  BY <1>3, <1>4, <1>5, <1>6, <1>7, RequestOK
<1>9. TypeOK'
  BY <1>6, <1>7, <1>8 DEF Inv, TypeOK
<1> QED
  BY <1>8, <1>9 DEF Inv

(* The Palm's padp_write answers what it has read, under the ID it saw.    *)
LEMMA ExecuteInv == ASSUME Inv, Execute PROVE Inv'
<1> DEFINE k == got[Palm][1].number
           n == Len(executed) + 1
<1>1. PICK len \in ResponseLengths : Write(Palm, Message(Palm, n, len))
  BY DEF Execute
<1> DEFINE m == Message(Palm, n, len)
<1>2. n \in Nat /\ len \in Nat \ {0}
  BY DEF Inv, TypeOK
<1>3. m \in Seq(Unit) /\ Len(m) = len
  BY <1>2, EndsFacts, MessageType
<1>4. k \in Nat
  <2>1. got[Palm] \in Seq(Unit) /\ got[Palm] # <<>>
    BY EndsFacts DEF Execute, Inv, TypeOK, EndOK
  <2>2. got[Palm][1] \in Unit
    BY <2>1
  <2> QED
    BY <2>2 DEF Unit
<1> HIDE DEF m, n, k
<1>5. /\ st' = [st EXCEPT ![Palm] = "send"] /\ out' = [out EXCEPT ![Palm] = m]
      /\ offset' = [offset EXCEPT ![Palm] = 0] /\ attempt' = [attempt EXCEPT ![Palm] = 0]
      /\ xid' = [xid EXCEPT ![Palm] = lastXid[Palm]]
  BY <1>1 DEF Write, Goto, m
<1>6. lastXid[Palm] \in 0 .. XidTop
  BY EndsFacts DEF Inv, TypeOK
<1>7. UNCHANGED <<wire, lastXid, blocked, inbuf, msgLen, got, calls, tries, answer, lost, early,
                  tickles, doubt>>
      /\ executed' = Append(executed, k)
  BY DEF Execute, readVars, lineVars, k
<1>8. executed' \in Seq(Nat)
  BY <1>4, <1>7 DEF Inv, TypeOK
<1>9. TypeOK'
  <2>1. st' \in [Ends -> States] /\ out' \in [Ends -> Seq(Unit)]
    BY <1>3, <1>5, EndsFacts DEF Inv, TypeOK, States
  <2>2. offset' \in [Ends -> Nat]
    BY <1>5 DEF Inv, TypeOK
  <2>3. attempt' \in [Ends -> 0 .. MaxRetries]
    BY <1>5, ZeroAttempts DEF Inv, TypeOK
  <2>4. xid' \in [Ends -> 0 .. XidTop]
    BY <1>5, <1>6 DEF Inv, TypeOK
  <2> QED
    BY <1>7, <1>8, <2>1, <2>2, <2>3, <2>4 DEF Inv, TypeOK
<1>10. WireOK'
  BY <1>7 DEF Inv, WireOK, NoReservedXid
<1>11. EndOK'
  <2>1. st'[Palm] = "send" /\ offset'[Palm] = 0 /\ Len(out'[Palm]) > 0 /\ attempt'[Palm] = 0
    BY <1>2, <1>3, <1>5, EndsFacts DEF Inv, TypeOK
  <2>2. \A e \in Ends : e # Palm => /\ st'[e] = st[e] /\ offset'[e] = offset[e] /\ out'[e] = out[e]
                                  /\ attempt'[e] = attempt[e]
                                    /\ inbuf'[e] = inbuf[e] /\ msgLen'[e] = msgLen[e] /\ xid'[e] = xid[e]
    BY <1>5, <1>7 DEF Inv, TypeOK
  <2> QED
    BY <1>7, <2>1, <2>2, EndsFacts, ZeroAttempts DEF Inv, EndOK
<1> QED
  BY <1>9, <1>10, <1>11 DEF Inv

(* Sending a fragment.                                                     *)
LEMMA SendInv == ASSUME Inv, NEW e \in Ends, Send(e) PROVE Inv'
<1>1. /\ wire' = [wire EXCEPT ![Other(e)] = Append(@, Fragment(e))] /\ st[e] = "send"
      /\ st' = [st EXCEPT ![e] = "await"]
      /\ UNCHANGED <<out, offset, attempt, xid, lastXid, blocked, inbuf, msgLen, got, calls,
                     tries, executed,
                     answer, lost, early, tickles, doubt>>
  BY DEF Send, Goto, writeVars, xidVars, readVars, dlpVars, lineVars
<1>2. WireOK'
  BY <1>1, FragmentType, AppendOK, EndsFacts
<1>3. TypeOK'
  BY <1>1, <1>2, EndsFacts DEF Inv, TypeOK, WireOK, States
<1>4. EndOK'
  BY <1>1, EndsFacts DEF Inv, EndOK, TypeOK
<1> QED
  BY <1>2, <1>3, <1>4 DEF Inv

(* A tickle carries no data.                                               *)
LEMMA TickleInv == ASSUME Inv, Tickle PROVE Inv'
<1> DEFINE p == [type |-> "tickle", flags |-> {}, size |-> 0, xid |-> lastXid[Palm], body |-> <<>>]
<1>1. p \in Packet /\ p.type = "tickle"
  BY EndsFacts DEF Packet, Inv, TypeOK
<1> HIDE DEF p
<1>2. wire' = [wire EXCEPT ![PC] = Append(@, p)] /\ tickles' = tickles + 1
      /\ UNCHANGED <<st, out, offset, attempt, xid, lastXid, blocked, inbuf, msgLen, got, calls,
                     tries, executed,
                     answer, lost, early, doubt>>
  BY DEF Tickle, p, writeVars, xidVars, readVars, dlpVars
<1>3. WireOK'
  BY <1>1, <1>2, AppendOK, EndsFacts
<1>4. TypeOK'
  BY <1>2, <1>3 DEF Inv, TypeOK, WireOK
<1>5. EndOK'
  BY <1>2 DEF Inv, EndOK
<1> QED
  BY <1>3, <1>4, <1>5 DEF Inv

(* A change of state of one end.                                           *)
LEMMA GotoOK ==
    ASSUME Inv, NEW e \in Ends, NEW s \in States, Goto(e, s)
    PROVE  /\ st' \in [Ends -> States] /\ st'[e] = s
           /\ \A f \in Ends : f # e => st'[f] = st[f]
BY DEF Goto, Inv, TypeOK

(* Every error leaves an end where it waits for what comes next.           *)
LEMMA FailedOK ==
    ASSUME Inv, NEW e \in Ends, Failed(e)
    PROVE  /\ st' \in [Ends -> States] /\ st'[e] \in {"idle", "read"}
           /\ \A f \in Ends : f # e => st'[f] = st[f]
<1> DEFINE s == IF e = PC THEN "idle" ELSE "read"
<1>1. s \in States /\ s \in {"idle", "read"}
  BY DEF States
<1>2. Goto(e, s)
  BY DEF Failed
<1> HIDE DEF s
<1> QED
  BY <1>1, <1>2, GotoOK

(* padp_write goes on only if there is more of the message to send.        *)
LEMMA AckArrivesInv == ASSUME Inv, NEW e \in Ends, AckArrives(e) PROVE Inv'
<1>1. /\ wire[e] # <<>> /\ Take(e) /\ st[e] = "await"
      /\ UNCHANGED <<xid, inbuf, msgLen, got, calls, tries, executed, answer, lost, early,
                     tickles, doubt>>
  BY DEF AckArrives, Arrives, readVars, dlpVars, lineVars
<1>2. WireOK' /\ lastXid' \in [Ends -> 0 .. XidTop] /\ blocked' \subseteq Ends
  BY <1>1, TakeOK
<1>3. CASE Failed(e) /\ UNCHANGED writeVars
  <2>1. /\ st' \in [Ends -> States] /\ st'[e] \in {"idle", "read"}
        /\ \A f \in Ends : f # e => st'[f] = st[f]
    BY <1>3, FailedOK
  <2>2. UNCHANGED <<out, offset, attempt>>
    BY <1>3 DEF writeVars
  <2>3. TypeOK'
    BY <1>1, <1>2, <2>1, <2>2 DEF Inv, TypeOK, WireOK
  <2>4. EndOK'
    BY <1>1, <2>1, <2>2, EndsFacts, ZeroAttempts DEF Inv, EndOK
  <2> QED
    BY <1>2, <2>3, <2>4 DEF Inv
<1>4. CASE /\ offset' = [offset EXCEPT ![e] = @ + MaxPacket]
           /\ attempt' = [attempt EXCEPT ![e] = 0]
           /\ Goto(e, IF offset[e] + MaxPacket < Len(out[e]) THEN "send" ELSE "read")
           /\ UNCHANGED out
  <2> DEFINE s == IF offset[e] + MaxPacket < Len(out[e]) THEN "send" ELSE "read"
  <2>1. s \in States /\ s # "more" /\ s # "execute" /\ s # "await"
        /\ (s = "send" => offset[e] + MaxPacket < Len(out[e]))
    BY DEF States
  <2>2. Goto(e, s)
    BY <1>4
  <2> HIDE DEF s
  <2>3. /\ st' \in [Ends -> States] /\ st'[e] = s
        /\ \A f \in Ends : f # e => st'[f] = st[f]
    BY <2>1, <2>2, GotoOK
  <2>4. /\ offset' \in [Ends -> Nat] /\ offset'[e] = offset[e] + MaxPacket
        /\ \A f \in Ends : f # e => offset'[f] = offset[f]
    BY <1>4 DEF Inv, TypeOK
  <2>5. /\ attempt' \in [Ends -> 0 .. MaxRetries] /\ attempt'[e] = 0
        /\ \A f \in Ends : f # e => attempt'[f] = attempt[f]
    BY <1>4, ZeroAttempts DEF Inv, TypeOK
  <2>6. TypeOK'
    BY <1>1, <1>2, <1>4, <2>3, <2>4, <2>5 DEF Inv, TypeOK, WireOK
  <2>7. EndOK'
    BY <1>1, <1>4, <2>1, <2>3, <2>4, <2>5, EndsFacts, ZeroAttempts DEF Inv, EndOK
  <2> QED
    BY <1>2, <2>6, <2>7 DEF Inv
<1> QED
  BY <1>3, <1>4 DEF AckArrives

(* The PC's ID is made a new one before it sends the request again.        *)
LEMMA DataInsteadOfAckInv == ASSUME Inv, NEW e \in Ends, DataInsteadOfAck(e) PROVE Inv'
<1> DEFINE x == IF e = Palm THEN Arrived(e).xid ELSE Bump(Arrived(e).xid)
<1>1. /\ wire[e] # <<>> /\ TakeAndAck(e) /\ st[e] = "await" /\ Goto(e, "send")
      /\ xid' = [xid EXCEPT ![e] = x]
      /\ UNCHANGED <<out, offset, attempt, inbuf, msgLen, got, calls, tries, executed, answer,
                     lost, early, tickles, doubt>>
  BY DEF DataInsteadOfAck, Arrives, writeVars, readVars, dlpVars, lineVars
<1>2. WireOK' /\ lastXid' \in [Ends -> 0 .. XidTop] /\ blocked' \subseteq Ends
  BY <1>1, TakeAndAckOK
<1>3. x \in 0 .. XidTop /\ (e = PC => x \notin {0, XidTop})
  <2>1. Arrived(e).xid \in 0 .. XidTop
    BY <1>1, TakeType DEF Packet
  <2>2. Bump(Arrived(e).xid) \in 1 .. XidTop - 1
    BY <2>1, BumpType
  <2> QED
    BY <2>1, <2>2
<1> HIDE DEF x
<1>4. /\ st' \in [Ends -> States] /\ st'[e] = "send" /\ \A f \in Ends : f # e => st'[f] = st[f]
  BY <1>1, GotoOK DEF States
<1>5. /\ xid' \in [Ends -> 0 .. XidTop] /\ xid'[e] = x
      /\ \A f \in Ends : f # e => xid'[f] = xid[f]
  BY <1>1, <1>3 DEF Inv, TypeOK
<1>6. TypeOK'
  BY <1>1, <1>2, <1>4, <1>5 DEF Inv, TypeOK, WireOK
<1>7. EndOK'
  BY <1>1, <1>3, <1>4, <1>5, EndsFacts DEF Inv, EndOK
<1> QED
  BY <1>2, <1>6, <1>7 DEF Inv

(* A tickle in place of an ACK only makes the fragment be sent again.      *)
LEMMA TickleInsteadOfAckInv == ASSUME Inv, NEW e \in Ends, TickleInsteadOfAck(e) PROVE Inv'
<1>1. /\ wire[e] # <<>> /\ Take(e) /\ st[e] = "await" /\ Goto(e, "send")
      /\ UNCHANGED <<out, offset, attempt, xid, inbuf, msgLen, got, calls, tries, executed, answer,
                     lost, early, tickles, doubt>>
  BY DEF TickleInsteadOfAck, Arrives, writeVars, readVars, dlpVars, lineVars
<1>2. WireOK' /\ lastXid' \in [Ends -> 0 .. XidTop] /\ blocked' \subseteq Ends
  BY <1>1, TakeOK
<1>3. /\ st' \in [Ends -> States] /\ st'[e] = "send" /\ \A f \in Ends : f # e => st'[f] = st[f]
  BY <1>1, GotoOK DEF States
<1>4. TypeOK'
  BY <1>1, <1>2, <1>3 DEF Inv, TypeOK, WireOK
<1>5. EndOK'
  BY <1>1, <1>3, EndsFacts DEF Inv, EndOK
<1> QED
  BY <1>2, <1>4, <1>5 DEF Inv

(* The timers only change the state, the attempts and the bounds.          *)
LEMMA ExpireType ==
    ASSUME Inv, NEW due \in BOOLEAN, Expire(due)
    PROVE  early' \in Nat /\ doubt' \in BOOLEAN
<1>1. CASE due /\ UNCHANGED <<early, doubt>>
  BY <1>1 DEF Inv, TypeOK
<1>2. CASE early' = early + 1 /\ doubt' = TRUE
  <2>1. early' \in Nat
    BY <1>2 DEF Inv, TypeOK
  <2>2. doubt' \in BOOLEAN
    BY <1>2, Zenon
  <2> QED
    BY <2>1, <2>2
<1> QED
  BY <1>1, <1>2 DEF Expire

(* The attempts are counted up to PADP_MAX_RETRIES and no further.         *)
LEMMA AckTimeoutInv == ASSUME Inv, NEW e \in Ends, AckTimeout(e) PROVE Inv'
<1> DEFINE s == IF attempt[e] + 1 < MaxRetries THEN "send" ELSE "dead"
<1>1. /\ st[e] = "await" /\ Goto(e, s) /\ attempt' = [attempt EXCEPT ![e] = @ + 1]
      /\ UNCHANGED <<wire, out, offset, xid, lastXid, blocked, inbuf, msgLen, got, calls, tries,
                     executed, answer,
                     lost, tickles>>
  BY DEF AckTimeout, xidVars, readVars, dlpVars
<1>2. early' \in Nat /\ doubt' \in BOOLEAN
  <2>1. Quiet(e, {"idle", "execute", "dead"}, {"send"}) \in BOOLEAN
    BY DEF Quiet
  <2>2. Expire(Quiet(e, {"idle", "execute", "dead"}, {"send"}))
    BY DEF AckTimeout
  <2> QED
    BY <2>1, <2>2, ExpireType
<1>3. s \in States /\ s \in {"send", "dead"} /\ (s = "send" => attempt[e] + 1 < MaxRetries)
  BY DEF States
<1> HIDE DEF s
<1>4. /\ st' \in [Ends -> States] /\ st'[e] = s /\ \A f \in Ends : f # e => st'[f] = st[f]
  BY <1>1, <1>3, GotoOK
<1>5. attempt[e] \in Nat /\ attempt[e] + 1 \in 0 .. MaxRetries
  <2>1. attempt[e] \in 0 .. MaxRetries
    BY DEF Inv, TypeOK
  <2>2. attempt[e] < MaxRetries
    BY <1>1 DEF Inv, EndOK
  <2> QED
    BY <2>1, <2>2
<1>6. /\ attempt' \in [Ends -> 0 .. MaxRetries] /\ attempt'[e] = attempt[e] + 1
      /\ \A f \in Ends : f # e => attempt'[f] = attempt[f]
  BY <1>1, <1>5 DEF Inv, TypeOK
<1>7. TypeOK'
  BY <1>1, <1>2, <1>4, <1>6 DEF Inv, TypeOK
<1>8. WireOK'
  BY <1>1 DEF Inv, WireOK, NoReservedXid
<1>9. EndOK'
  BY <1>1, <1>3, <1>4, <1>6, EndsFacts DEF Inv, EndOK
<1> QED
  BY <1>7, <1>8, <1>9 DEF Inv

(* A whole message has been read: it is handed on, if it is not empty.     *)
LEMMA ReturnOK ==
    ASSUME Inv, NEW e \in Ends, NEW m \in Seq(Unit), m # <<>>, Return(e, m)
    PROVE  /\ st' \in [Ends -> States] /\ \A f \in Ends : f # e => st'[f] = st[f]
           /\ st'[e] = IF e = Palm THEN "execute" ELSE "idle"
           /\ got' \in [Ends -> Seq(Unit)] /\ got'[e] = m
           /\ \A f \in Ends : f # e => got'[f] = got[f]
           /\ answer' \in Nat
<1>1. /\ got' = [got EXCEPT ![e] = m] /\ got \in [Ends -> Seq(Unit)] /\ answer \in Nat
  BY DEF Return, Inv, TypeOK
<1>2. m[1].number \in Nat
  <2>1. m[1] \in Unit
    OBVIOUS
  <2> QED
    BY <2>1 DEF Unit
<1>3. CASE e = Palm
  <2>1. Goto(e, "execute") /\ answer' = answer
    BY <1>3 DEF Return
  <2> QED
    BY <1>1, <1>3, <2>1, GotoOK DEF States
<1>4. CASE e # Palm
  <2>1. Goto(e, "idle") /\ (answer' = m[1].number \/ answer' = answer)
    BY <1>4 DEF Return
  <2> QED
    BY <1>1, <1>2, <1>4, <2>1, GotoOK DEF States
<1> QED
  BY <1>3, <1>4

(* padp_read's first packet is a message, or begins one.                   *)
LEMMA ReadFirstInv == ASSUME Inv, NEW e \in Ends, ReadFirst(e) PROVE Inv'
<1>1. /\ wire[e] # <<>> /\ Arrived(e).type = "data" /\ TakeAndAck(e) /\ st[e] = "read"
      /\ xid' = [xid EXCEPT ![e] = Arrived(e).xid]
      /\ UNCHANGED <<out, offset, attempt, calls, tries, executed, lost, early, tickles, doubt>>
  BY DEF ReadFirst, Arrives, Arrived, writeVars, lineVars
<1>2. WireOK' /\ lastXid' \in [Ends -> 0 .. XidTop] /\ blocked' \subseteq Ends
  BY <1>1, TakeAndAckOK
<1>3. /\ Arrived(e) \in Packet /\ Arrived(e).xid \in 0 .. XidTop
      /\ Arrived(e).body \in Seq(Unit) /\ Arrived(e).body # <<>>
      /\ Arrived(e).size \in Nat /\ Arrived(e).size > 0
  BY <1>1, TakeType DEF Packet
<1>4. xid' \in [Ends -> 0 .. XidTop] /\ \A f \in Ends : f # e => xid'[f] = xid[f]
  BY <1>1, <1>3 DEF Inv, TypeOK
<1>5. CASE Return(e, Arrived(e).body) /\ UNCHANGED <<inbuf, msgLen>>
  <2>1. /\ st' \in [Ends -> States] /\ \A f \in Ends : f # e => st'[f] = st[f]
        /\ st'[e] = IF e = Palm THEN "execute" ELSE "idle"
        /\ got' \in [Ends -> Seq(Unit)] /\ got'[e] = Arrived(e).body
        /\ \A f \in Ends : f # e => got'[f] = got[f]
        /\ answer' \in Nat
    BY <1>3, <1>5, ReturnOK
  <2>2. TypeOK'
    BY <1>1, <1>2, <1>4, <1>5, <2>1 DEF Inv, TypeOK, WireOK
  <2>3. EndOK'
    BY <1>1, <1>3, <1>4, <1>5, <2>1, EndsFacts DEF Inv, EndOK
  <2> QED
    BY <1>2, <2>2, <2>3 DEF Inv
<1>6. CASE /\ Goto(e, "more")
           /\ inbuf' = [inbuf EXCEPT ![e] = Arrived(e).body]
           /\ msgLen' = [msgLen EXCEPT ![e] = Arrived(e).size]
           /\ UNCHANGED <<got, answer>>
  <2>1. /\ st' \in [Ends -> States] /\ st'[e] = "more" /\ \A f \in Ends : f # e => st'[f] = st[f]
    BY <1>6, GotoOK DEF States
  <2>2. /\ inbuf' \in [Ends -> Seq(Unit)] /\ inbuf'[e] = Arrived(e).body
        /\ \A f \in Ends : f # e => inbuf'[f] = inbuf[f]
    BY <1>3, <1>6 DEF Inv, TypeOK
  <2>3. /\ msgLen' \in [Ends -> Nat] /\ msgLen'[e] = Arrived(e).size
        /\ \A f \in Ends : f # e => msgLen'[f] = msgLen[f]
    BY <1>3, <1>6 DEF Inv, TypeOK
  <2>4. TypeOK'
    BY <1>1, <1>2, <1>4, <1>6, <2>1, <2>2, <2>3 DEF Inv, TypeOK, WireOK
  <2>5. EndOK'
    <3>1. \A f \in Ends : f # e => st'[f] = st[f] /\ inbuf'[f] = inbuf[f] /\ msgLen'[f] = msgLen[f] /\ xid'[f] = xid[f]
      BY <1>4, <2>1, <2>2, <2>3
    <3>2. st'[e] = "more" /\ inbuf'[e] # <<>> /\ msgLen'[e] > 0 /\ st[e] = "read"
      BY <1>1, <1>3, <2>1, <2>2, <2>3
    <3>3. out' = out /\ offset' = offset /\ attempt' = attempt /\ tries' = tries /\ got' = got
      BY <1>1, <1>6
    <3>4. EndOK
      BY DEF Inv
    <3> QED
      BY <3>1, <3>2, <3>3, <3>4, EndsFacts DEF EndOK
  <2> QED
    BY <1>2, <2>4, <2>5 DEF Inv
<1> QED
  BY <1>5, <1>6 DEF ReadFirst

(* What padp_read returns of several fragments is as long as announced.    *)
LEMMA BufferType ==
    ASSUME NEW s \in Seq(Unit), NEW len \in Nat, len > 0
    PROVE  Buffer(s, len) \in Seq(Unit) /\ Buffer(s, len) # <<>>
<1>1. Undefined \in Unit
  BY EndsFacts DEF Undefined, Unit
<1>2. \A i \in 1 .. len : (IF i <= Len(s) THEN s[i] ELSE Undefined) \in Unit
  BY <1>1
<1>3. Buffer(s, len) \in Seq(Unit) /\ Len(Buffer(s, len)) = len
  BY <1>2 DEF Buffer
<1> QED
  BY <1>3

(* Adding to fragments that hold data.                                     *)
LEMMA ConcatNotEmpty ==
    ASSUME NEW s \in Seq(Unit), NEW t \in Seq(Unit), s # <<>>
    PROVE  s \o t # <<>>
<1>1. s \o t \in Seq(Unit) /\ Len(s \o t) = Len(s) + Len(t)
  OBVIOUS
<1>2. Len(s) \in Nat /\ Len(s) # 0 /\ Len(t) \in Nat
  OBVIOUS
<1>3. Len(s \o t) # 0
  BY <1>1, <1>2
<1> HIDE DEF Unit
<1>4. \A u \in Seq(Unit) : u = <<>> => Len(u) = 0
  OBVIOUS
<1> QED
  BY <1>1, <1>3, <1>4

(* The next fragment is added to the buffer, or refused.                   *)
LEMMA ReadMoreInv == ASSUME Inv, NEW e \in Ends, ReadMore(e) PROVE Inv'
<1>1. /\ wire[e] # <<>> /\ Arrived(e).type = "data" /\ st[e] = "more"
      /\ UNCHANGED <<out, offset, attempt, calls, tries, executed, lost, early, tickles, doubt>>
  BY DEF ReadMore, Arrives, Arrived, writeVars, lineVars
<1>2. /\ Arrived(e).xid \in 0 .. XidTop
      /\ Arrived(e).body \in Seq(Unit) /\ Arrived(e).body # <<>>
  BY <1>1, TakeType DEF Packet
<1>3. CASE Take(e) /\ Failed(e) /\ UNCHANGED <<xid, readVars, answer>>
  <2>1. WireOK' /\ lastXid' \in [Ends -> 0 .. XidTop] /\ blocked' \subseteq Ends
    BY <1>1, <1>3, TakeOK
  <2>2. /\ st' \in [Ends -> States] /\ st'[e] \in {"idle", "read"}
        /\ \A f \in Ends : f # e => st'[f] = st[f]
    BY <1>3, FailedOK
  <2>3. UNCHANGED <<xid, inbuf, msgLen, got, answer>>
    BY <1>3 DEF readVars
  <2>4. TypeOK'
    BY <1>1, <2>1, <2>2, <2>3 DEF Inv, TypeOK, WireOK
  <2>5. EndOK'
    BY <1>1, <2>2, <2>3, EndsFacts DEF Inv, EndOK
  <2> QED
    BY <2>1, <2>4, <2>5 DEF Inv
<1> DEFINE soFar == inbuf[e] \o Arrived(e).body
<1>4. CASE /\ TakeAndAck(e)
           /\ xid' = [xid EXCEPT ![e] = Arrived(e).xid]
           /\ inbuf' = [inbuf EXCEPT ![e] = soFar]
           /\ UNCHANGED msgLen
           /\ IF LAST \in Arrived(e).flags
              THEN Return(e, Buffer(soFar, msgLen[e]))
              ELSE UNCHANGED <<st, got, answer>>
  <2>1. WireOK' /\ lastXid' \in [Ends -> 0 .. XidTop] /\ blocked' \subseteq Ends
    BY <1>1, <1>4, TakeAndAckOK
  <2>2. inbuf[e] \in Seq(Unit) /\ inbuf[e] # <<>> /\ msgLen[e] \in Nat /\ msgLen[e] > 0
    BY <1>1 DEF Inv, TypeOK, EndOK
  <2>3. soFar \in Seq(Unit)
    BY <1>2, <2>2
  <2>4. soFar # <<>>
    BY <1>2, <2>2, ConcatNotEmpty
  <2> HIDE DEF soFar
  <2>5. xid' \in [Ends -> 0 .. XidTop] /\ \A f \in Ends : f # e => xid'[f] = xid[f]
    BY <1>2, <1>4 DEF Inv, TypeOK
  <2>6. /\ inbuf' \in [Ends -> Seq(Unit)] /\ inbuf'[e] = soFar
        /\ \A f \in Ends : f # e => inbuf'[f] = inbuf[f]
    BY <1>4, <2>3 DEF Inv, TypeOK
  <2>7. CASE Return(e, Buffer(soFar, msgLen[e]))
    <3> DEFINE m == Buffer(soFar, msgLen[e])
    <3>1. m \in Seq(Unit) /\ m # <<>>
      BY <2>2, <2>3, BufferType
    <3>2. Return(e, m)
      BY <2>7
    <3> HIDE DEF m
    <3>3. /\ st' \in [Ends -> States] /\ \A f \in Ends : f # e => st'[f] = st[f]
          /\ st'[e] = IF e = Palm THEN "execute" ELSE "idle"
          /\ got' \in [Ends -> Seq(Unit)] /\ got'[e] = m
          /\ \A f \in Ends : f # e => got'[f] = got[f]
          /\ answer' \in Nat
      BY <3>1, <3>2, ReturnOK
    <3>4. TypeOK'
      BY <1>1, <1>4, <2>1, <2>5, <2>6, <3>3 DEF Inv, TypeOK, WireOK
    <3>5. EndOK'
      BY <1>1, <1>4, <2>5, <2>6, <3>1, <3>3, EndsFacts DEF Inv, EndOK
    <3> QED
      BY <2>1, <3>4, <3>5 DEF Inv
  <2>8. CASE UNCHANGED <<st, got, answer>>
    <3>1. TypeOK'
      BY <1>1, <1>4, <2>1, <2>5, <2>6, <2>8 DEF Inv, TypeOK, WireOK
    <3>2. EndOK'
      BY <1>1, <1>4, <2>4, <2>5, <2>6, <2>8, EndsFacts DEF Inv, EndOK
    <3> QED
      BY <2>1, <3>1, <3>2 DEF Inv
  <2> QED
    BY <1>4, <2>7, <2>8
<1> QED
  BY <1>3, <1>4 DEF ReadMore

(* What is not data is ignored by padp_read.                               *)
LEMMA ReadRetryInv == ASSUME Inv, NEW e \in Ends, ReadRetry(e) PROVE Inv'
<1>1. /\ wire[e] # <<>> /\ Take(e)
      /\ UNCHANGED <<st, out, offset, attempt, xid, inbuf, msgLen, got, calls, tries, executed,
                     answer,
                     lost, early, tickles, doubt>>
  BY DEF ReadRetry, Arrives, writeVars, readVars, dlpVars, lineVars
<1>2. WireOK' /\ lastXid' \in [Ends -> 0 .. XidTop] /\ blocked' \subseteq Ends
  BY <1>1, TakeOK
<1>3. TypeOK'
  BY <1>1, <1>2 DEF Inv, TypeOK, WireOK
<1>4. EndOK'
  BY <1>1 DEF Inv, EndOK
<1> QED
  BY <1>2, <1>3, <1>4 DEF Inv

(* padp_read gives up: the PC sends its request again, or is done.         *)
LEMMA ReadTimeoutInv == ASSUME Inv, NEW e \in Ends, ReadTimeout(e) PROVE Inv'
<1>1. /\ UNCHANGED <<wire, lastXid, blocked, inbuf, msgLen, got, calls, executed, answer, lost,
                     tickles>>
      /\ st[e] \in {"read", "more"}
  BY DEF ReadTimeout, readVars
<1>2. early' \in Nat /\ doubt' \in BOOLEAN
  <2>1. Quiet(e, {"idle", "dead"}, {"send", "await", "execute"}) \in BOOLEAN
    BY DEF Quiet
  <2>2. Expire(Quiet(e, {"idle", "dead"}, {"send", "await", "execute"}))
    BY DEF ReadTimeout
  <2> QED
    BY <2>1, <2>2, ExpireType
<1>3. e = PC => out[PC] \in Seq(Unit) /\ out[PC] # <<>> /\ tries \in 0 .. MaxTries /\ tries < MaxTries
  BY <1>1, EndsFacts DEF Inv, TypeOK, EndOK
<1>4. CASE e = PC /\ tries' = tries + 1 /\ tries + 1 < MaxTries /\ Write(PC, out[PC])
  <2>1. tries' \in 0 .. MaxTries /\ tries' < MaxTries
    BY <1>3, <1>4
  <2>2. /\ st' \in [Ends -> States] /\ out' \in [Ends -> Seq(Unit)]
        /\ offset' \in [Ends -> Nat] /\ attempt' \in [Ends -> 0 .. MaxRetries]
        /\ xid' \in [Ends -> 0 .. XidTop]
        /\ WireOK' /\ EndOK'
    BY <1>1, <1>3, <1>4, <2>1, RequestOK
  <2>3. TypeOK'
    BY <1>1, <1>2, <2>1, <2>2 DEF Inv, TypeOK
  <2> QED
    BY <2>2, <2>3 DEF Inv
<1>5. CASE e = PC /\ tries' = tries + 1 /\ Goto(PC, "dead") /\ UNCHANGED <<writeVars, xid>>
  <2>1. tries' \in 0 .. MaxTries
    BY <1>3, <1>5
  <2>2. UNCHANGED <<out, offset, attempt, xid>>
    BY <1>5 DEF writeVars
  <2>3. /\ st' \in [Ends -> States] /\ st'[e] = "dead" /\ \A f \in Ends : f # e => st'[f] = st[f]
    BY <1>5, GotoOK DEF States
  <2>4. TypeOK'
    BY <1>1, <1>2, <2>1, <2>2, <2>3 DEF Inv, TypeOK
  <2>5. WireOK'
    BY <1>1 DEF Inv, WireOK, NoReservedXid
  <2>6. EndOK'
    BY <1>1, <1>5, <2>2, <2>3, EndsFacts DEF Inv, EndOK
  <2> QED
    BY <2>4, <2>5, <2>6 DEF Inv
<1>6. CASE e # PC /\ Failed(e) /\ UNCHANGED <<writeVars, xid, tries>>
  <2>1. UNCHANGED <<out, offset, attempt, xid, tries>>
    BY <1>6 DEF writeVars
  <2>2. /\ st' \in [Ends -> States] /\ st'[e] \in {"idle", "read"}
        /\ \A f \in Ends : f # e => st'[f] = st[f]
    BY <1>6, FailedOK
  <2>3. TypeOK'
    BY <1>1, <1>2, <2>1, <2>2 DEF Inv, TypeOK
  <2>4. WireOK'
    BY <1>1 DEF Inv, WireOK, NoReservedXid
  <2>5. EndOK'
    BY <1>1, <1>6, <2>1, <2>2, EndsFacts DEF Inv, EndOK
  <2> QED
    BY <2>3, <2>4, <2>5 DEF Inv
<1> QED
  BY <1>4, <1>5, <1>6 DEF ReadTimeout, Retry

(* A lost packet leaves the others as they are.                            *)
LEMMA LoseInv == ASSUME Inv, NEW e \in Ends, Lose(e) PROVE Inv'
<1>1. /\ wire[e] # <<>> /\ wire' = [wire EXCEPT ![e] = Tail(@)]
      /\ lost' = lost + 1 /\ doubt' = (doubt \/ Arrived(e).type = "ack")
      /\ UNCHANGED <<st, out, offset, attempt, xid, lastXid, blocked, inbuf, msgLen, got, calls,
                     tries, executed, answer, early, tickles>>
  BY DEF Lose, writeVars, xidVars, readVars, dlpVars
<1>2. doubt' \in BOOLEAN
  BY <1>1, Zenon
<1>3. WireOK' /\ wire' \in [Ends -> Seq(Packet)]
  BY <1>1, DropOK DEF WireOK
<1>4. TypeOK'
  <2>1. lost' \in Nat
    BY <1>1 DEF Inv, TypeOK
  <2> QED
    BY <1>1, <1>2, <1>3, <2>1 DEF Inv, TypeOK
<1>5. EndOK'
  BY <1>1 DEF Inv, EndOK
<1> QED
  BY <1>3, <1>4, <1>5 DEF Inv

(* So does a damaged one.                                                  *)
LEMMA DamageInv == ASSUME Inv, NEW e \in Ends, Damage(e) PROVE Inv'
<1>1. /\ wire[e] # <<>> /\ wire' = [wire EXCEPT ![e] = Tail(@)]
      /\ lost' = lost + 1 /\ doubt' = (doubt \/ Arrived(e).type = "ack")
      /\ blocked' = blocked \cup {e}
      /\ UNCHANGED <<st, out, offset, attempt, xid, lastXid, inbuf, msgLen, got, calls, tries,
                     executed, answer, early, tickles>>
  BY DEF Damage, writeVars, readVars, dlpVars
<1>2. doubt' \in BOOLEAN
  BY <1>1, Zenon
<1>3. WireOK' /\ wire' \in [Ends -> Seq(Packet)]
  BY <1>1, DropOK DEF WireOK
<1>4. TypeOK'
  <2>1. lost' \in Nat /\ blocked' \subseteq Ends
    BY <1>1 DEF Inv, TypeOK
  <2> QED
    BY <1>1, <1>2, <1>3, <2>1 DEF Inv, TypeOK
<1>5. EndOK'
  BY <1>1 DEF Inv, EndOK
<1> QED
  BY <1>3, <1>4, <1>5 DEF Inv

(* No step of either end, nor a loss, breaks the invariant.                *)
LEMMA NextInv == ASSUME Inv, [Next]_vars PROVE Inv'
<1>1. CASE Call
  BY <1>1, CallInv
<1>2. CASE Execute
  BY <1>2, ExecuteInv
<1>3. CASE Tickle
  BY <1>3, TickleInv
<1>4. CASE \E e \in Ends : EndStep(e)
  BY <1>4, SendInv, AckArrivesInv, DataInsteadOfAckInv, TickleInsteadOfAckInv, AckTimeoutInv,
     ReadFirstInv, ReadMoreInv, ReadRetryInv, ReadTimeoutInv DEF EndStep
<1>5. CASE \E e \in Ends : Lose(e) \/ Damage(e)
  BY <1>5, LoseInv, DamageInv
<1>6. CASE UNCHANGED vars
  BY <1>6 DEF vars, writeVars, xidVars, readVars, dlpVars, lineVars, Inv, TypeOK, WireOK, EndOK,
              NoReservedXid
<1> QED
  BY <1>1, <1>2, <1>3, <1>4, <1>5, <1>6 DEF Next

(* The two ends keep to the types of their variables: an attempt counter   *)
(* never passes PADP_MAX_RETRIES, an ID never leaves its width.            *)
THEOREM TypeCorrect == Spec => []TypeOK
<1>1. Inv => TypeOK
  BY DEF Inv
<1> QED
  BY InitInv, NextInv, <1>1, PTL DEF Spec

(* Nothing is ever sent, collected or executed that has no data, although  *)
(* padp_read allocates what the first fragment says and padp_write cuts    *)
(* the message by offset.                                                  *)
THEOREM NeverEmpty == Spec => []Filled
<1>1. Inv => Filled
  BY DEF Inv, WireOK, EndOK, Filled
<1> QED
  BY InitInv, NextInv, <1>1, PTL DEF Spec

(* The PC never sends a request under a reserved ID, though it takes over  *)
(* the ID of whatever packet arrives in place of an ACK.                   *)
THEOREM NeverReserved == Spec => []NoReservedXid
<1>1. Inv => NoReservedXid
  BY DEF Inv, WireOK
<1> QED
  BY InitInv, NextInv, <1>1, PTL DEF Spec

-----------------------------------------------------------------------------
(* The order of requests, whatever is lost and however early the timers.   *)

(* The request, or the execution, that the data of a packet belongs to.    *)
NumberOf(p) == p.body[1].number

(* What an end writes is one request, or the answer to one execution.      *)
WrittenOK ==
    /\ \A i \in DOMAIN out[PC] : out[PC][i].number = calls
    /\ \A i \in DOMAIN out[Palm] : out[Palm][i].number = Len(executed)
    /\ out[PC] # <<>> => calls > 0
    /\ out[Palm] # <<>> => Len(executed) > 0

(* The last request the Palm has begun to read, or else executed.          *)
Held == IF st[Palm] = "more" THEN inbuf[Palm][1].number
        ELSE IF st[Palm] = "execute" THEN got[Palm][1].number
        ELSE IF Len(executed) = 0 THEN 0 ELSE executed[Len(executed)]

(* No request overtakes another one on its way.                            *)
RequestsOK ==
    /\ Held \in 0 .. calls /\ (st[Palm] \in {"more", "execute"} => Held > 0)
    /\ \A i \in DOMAIN executed : executed[i] <= Held /\ executed[i] <= executed[Len(executed)]
    /\ \A i \in DOMAIN wire[Palm] : wire[Palm][i].type = "data" =>
          NumberOf(wire[Palm][i]) \in 1 .. calls /\ Held <= NumberOf(wire[Palm][i])
    /\ \A i, j \in DOMAIN wire[Palm] :
          wire[Palm][i].type = "data" /\ wire[Palm][j].type = "data" /\ i < j =>
              NumberOf(wire[Palm][i]) <= NumberOf(wire[Palm][j])

(* Every response belongs to an execution.                                 *)
ResponsesOK ==
    /\ \A i \in DOMAIN wire[PC] :
          wire[PC][i].type = "data" => NumberOf(wire[PC][i]) \in DOMAIN executed
    /\ st[PC] = "more" => inbuf[PC][1].number \in DOMAIN executed

OrderOK == WrittenOK /\ RequestsOK /\ ResponsesOK

-----------------------------------------------------------------------------
(* What the two ends know of each other, as long as no ACK is lost and no  *)
(* timer is early.                                                         *)

(* Of the message of e the other end has the first n units, and is to read *)
(* the next ones.                                                          *)
Reached(e, n) ==
    /\ n < Len(out[e])
    /\ IF n = 0 THEN st[Other(e)] = "read"
       ELSE /\ st[Other(e)] = "more" /\ inbuf[Other(e)] = SubSeq(out[e], 1, n)
            /\ msgLen[Other(e)] = Len(out[e])

IsAck(p, e) == p.type = "ack" /\ p.xid = xid[e]

NotExecuted == \A i \in DOMAIN executed : executed[i] # calls
JustExecuted == Len(executed) > 0 /\ executed[Len(executed)] = calls

(* The PC sends its request; it is idle, or has given up.                  *)
Requesting ==
    /\ st[PC] \in {"idle", "send", "await", "dead"} /\ st[Palm] \in {"read", "more"}
    /\ PC \notin blocked
    /\ st[PC] = "idle" => st[Palm] = "read"
    /\ st[PC] \in {"send", "await"} => NotExecuted
    /\ \/ wire[PC] = <<>> /\ wire[Palm] = <<>>
       \/ /\ st[PC] = "await" /\ wire[PC] = <<>>
          /\ Len(wire[Palm]) = 1 /\ wire[Palm][1] = Fragment(PC)
       \/ /\ st[PC] = "await" /\ wire[Palm] = <<>>
          /\ Len(wire[PC]) = 1 /\ IsAck(wire[PC][1], PC) /\ Reached(PC, offset[PC] + MaxPacket)
    /\ st[PC] \in {"send", "await"} /\ wire[PC] = <<>> => Reached(PC, offset[PC])

(* From the k-th place on, the line to the PC holds tickles, and perhaps   *)
(* the fragment the Palm has sent.                                         *)
Trailing(k) ==
    \A i \in DOMAIN wire[PC] : i >= k =>
        \/ wire[PC][i].type = "tickle"
        \/ i = Len(wire[PC]) /\ st[Palm] = "await" /\ wire[PC][i] = Fragment(Palm)

(* The Palm has read the request, executes it and sends the response; the  *)
(* ACK for the last fragment of the request may still be on its way.       *)
Answering ==
    /\ st[Palm] \in {"execute", "send", "await"} /\ st[PC] \in {"await", "read", "more"}
    /\ wire[Palm] = <<>> /\ Palm \notin blocked
    /\ got[Palm] = out[PC]
    /\ IF st[Palm] = "execute" THEN NotExecuted /\ st[PC] # "more" ELSE JustExecuted
    /\ IF st[PC] = "await"
       THEN /\ offset[PC] + MaxPacket >= Len(out[PC])
            /\ wire[PC] # <<>> /\ IsAck(wire[PC][1], PC) /\ Trailing(2)
            /\ PC \notin blocked
            /\ st[Palm] # "execute" => offset[Palm] = 0
       ELSE /\ Trailing(1)
            /\ st[Palm] # "execute" => Reached(Palm, offset[Palm])

(* The ACK for a fragment of the response is on its way to the Palm; after *)
(* the last one, the PC may make its next call.                            *)
Acking ==
    /\ st[Palm] = "await" /\ wire[PC] = <<>>
    /\ wire[Palm] # <<>> /\ IsAck(wire[Palm][1], Palm)
    /\ PC \notin blocked /\ Palm \notin blocked
    /\ \/ /\ st[PC] = "more" /\ Len(wire[Palm]) = 1 /\ Reached(Palm, offset[Palm] + MaxPacket)
          /\ got[Palm] = out[PC] /\ JustExecuted
       \/ /\ st[PC] \in {"idle", "send", "await"}
          /\ offset[Palm] + MaxPacket >= Len(out[Palm]) /\ got[PC] = out[Palm]
          /\ st[PC] # "idle" => NotExecuted /\ offset[PC] = 0
          /\ \/ st[PC] # "await" /\ Len(wire[Palm]) = 1
             \/ st[PC] = "await" /\ Len(wire[Palm]) = 2 /\ wire[Palm][2] = Fragment(PC)

(* The Palm has given up, and the PC will.                                 *)
Gone ==
    st[Palm] = "dead" /\ wire[PC] = <<>> /\ st[PC] \in {"send", "await", "read", "more", "dead"}

Phase == Requesting \/ Answering \/ Acking \/ Gone
CleanOK == ~doubt => AckedMeansDelivered /\ Phase

-----------------------------------------------------------------------------
(* The lemmas that follow say how a step changes a line: data keeps its    *)
(* order, and its distance from the place it had.                          *)
Later(f, d) ==
    \A i \in DOMAIN wire'[f] : wire'[f][i].type = "data" =>
        i + d \in DOMAIN wire[f] /\ wire'[f][i] = wire[f][i + d]
DataKept == \A f \in Ends : Later(f, 0) \/ Later(f, 1)

(* The number of a packet's data is a number.                              *)
LEMMA NumberType ==
    ASSUME Inv, NEW e \in Ends, NEW i \in DOMAIN wire[e], wire[e][i].type = "data"
    PROVE  NumberOf(wire[e][i]) \in Nat
<1>1. wire[e] \in Seq(Packet) /\ wire[e][i].body # <<>>
  BY DEF Inv, WireOK
<1>2. wire[e][i].body \in Seq(Unit)
  <2>1. wire[e][i] \in Packet
    BY <1>1
  <2> QED
    BY <2>1 DEF Packet
<1>3. wire[e][i].body[1] \in Unit
  BY <1>1, <1>2
<1> QED
  BY <1>3 DEF NumberOf, Unit

(* A packet leaves the line.                                               *)
LEMMA TakenLine ==
    ASSUME Inv, NEW e \in Ends, wire[e] # <<>>, wire' = [wire EXCEPT ![e] = Tail(@)]
    PROVE  wire'[e] = Tail(wire[e]) /\ wire'[Other(e)] = wire[Other(e)] /\ DataKept /\ Later(e, 1)
<1>1. wire \in [Ends -> Seq(Packet)]
  BY DEF Inv, WireOK
<1>2. \A f \in Ends : wire'[f] = IF f = e THEN Tail(wire[e]) ELSE wire[f]
  BY <1>1
<1>3. Later(e, 1)
  <2>1. \A i \in DOMAIN Tail(wire[e]) : i + 1 \in DOMAIN wire[e] /\ Tail(wire[e])[i] = wire[e][i + 1]
    BY TakeType
  <2> QED
    BY <1>2, <2>1 DEF Later
<1>4. \A f \in Ends : f # e => Later(f, 0)
  BY <1>1, <1>2 DEF Later
<1> QED
  BY <1>2, <1>3, <1>4, EndsFacts DEF DataKept

(* And is acknowledged.                                                    *)
LEMMA AckedLine ==
    ASSUME Inv, NEW e \in Ends, wire[e] # <<>>,
           wire' = [wire EXCEPT ![e] = Tail(@), ![Other(e)] = Append(@, Ack(Arrived(e)))]
    PROVE  /\ wire'[e] = Tail(wire[e]) /\ wire'[Other(e)] = Append(wire[Other(e)], Ack(Arrived(e)))
           /\ DataKept /\ Later(e, 1)
<1> DEFINE a == Ack(Arrived(e))
<1>1. wire \in [Ends -> Seq(Packet)]
  BY DEF Inv, WireOK
<1>2. a.type = "ack"
  BY DEF Ack
<1>3. Other(e) \in Ends /\ Other(e) # e
  BY EndsFacts
<1> HIDE DEF a
<1>4. /\ wire'[e] = Tail(wire[e]) /\ wire'[Other(e)] = Append(wire[Other(e)], a)
  BY <1>1, <1>3 DEF a
<1>5. Later(e, 1)
  BY <1>4, TakeType DEF Later
<1>6. Later(Other(e), 0)
  <2>1. PICK s \in Seq(Packet) : s = wire[Other(e)]
    BY <1>1, <1>3
  <2>2. PICK t : t = Append(s, a)
    OBVIOUS
  <2>3. \A i \in DOMAIN t : i \in Nat /\ (t[i] = a \/ (i \in DOMAIN s /\ t[i] = s[i]))
    BY <2>1, <2>2
  <2>4. wire'[Other(e)] = t
    BY <1>4, <2>1, <2>2
  <2> QED
    BY <1>2, <2>1, <2>3, <2>4 DEF Later
<1>7. \A f \in Ends : f = e \/ f = Other(e)
  BY EndsFacts
<1> QED
  BY <1>4, <1>5, <1>6, <1>7 DEF DataKept, a

(* A packet is put on the line.                                            *)
LEMMA AppendedLine ==
    ASSUME Inv, NEW f \in Ends, NEW p, wire' = [wire EXCEPT ![f] = Append(@, p)]
    PROVE  /\ wire'[f] = Append(wire[f], p) /\ wire'[Other(f)] = wire[Other(f)]
           /\ Later(Other(f), 0)
           /\ \A i \in DOMAIN wire'[f] :
                 \/ i \in DOMAIN wire[f] /\ wire'[f][i] = wire[f][i]
                 \/ i = Len(wire[f]) + 1 /\ wire'[f][i] = p
<1>1. wire \in [Ends -> Seq(Packet)] /\ Other(f) \in Ends /\ Other(f) # f
  BY EndsFacts DEF Inv, WireOK
<1>2. wire'[f] = Append(wire[f], p) /\ wire'[Other(f)] = wire[Other(f)]
  BY <1>1
<1>3. PICK s \in Seq(Packet) : s = wire[f]
  BY <1>1
<1>4. PICK t : t = Append(s, p)
  OBVIOUS
<1>5. \A i \in DOMAIN t : (i \in DOMAIN s /\ t[i] = s[i]) \/ (i = Len(s) + 1 /\ t[i] = p)
  BY <1>3, <1>4
<1>6. wire'[f] = t
  BY <1>2, <1>3, <1>4
<1>7. Later(Other(f), 0)
  <2>1. PICK s2 \in Seq(Packet) : s2 = wire[Other(f)]
    BY <1>1
  <2>2. wire'[Other(f)] = s2 /\ \A i \in DOMAIN s2 : i + 0 = i
    BY <1>2, <2>1
  <2> QED
    BY <2>1, <2>2 DEF Later
<1> QED
  BY <1>2, <1>3, <1>5, <1>6, <1>7

(* A line that is left alone.                                              *)
LEMMA SameLine == ASSUME Inv, UNCHANGED wire PROVE DataKept
<1>1. wire \in [Ends -> Seq(Packet)]
  BY DEF Inv, WireOK
<1> QED
  BY <1>1 DEF DataKept, Later

(* The data that stays on the lines stays in order.                        *)
LEMMA KeptOrder ==
    ASSUME Inv, Inv', OrderOK, DataKept, UNCHANGED <<calls, executed>>,
           out'[PC] = out[PC], out'[Palm] = out[Palm],
           Held' \in 0 .. calls, st'[Palm] \in {"more", "execute"} => Held' > 0,
           \A i \in DOMAIN executed : executed[i] <= Held',
           \A i \in DOMAIN wire'[Palm] :
               wire'[Palm][i].type = "data" => Held' <= NumberOf(wire'[Palm][i]),
           st'[PC] = "more" => inbuf'[PC][1].number \in DOMAIN executed
    PROVE  OrderOK'
<1>1. WrittenOK'
  BY DEF OrderOK, WrittenOK
<1>2. \A f \in Ends : DOMAIN wire[f] \subseteq Nat /\ DOMAIN wire'[f] \subseteq Nat
  BY DEF Inv, WireOK
<1>3. \A f \in Ends : \A i \in DOMAIN wire'[f] : wire'[f][i].type = "data" =>
         \E j \in DOMAIN wire[f] : wire'[f][i] = wire[f][j]
  BY DEF DataKept, Later
<1>4. \A i \in DOMAIN wire'[Palm] : wire'[Palm][i].type = "data" =>
         NumberOf(wire'[Palm][i]) \in 1 .. calls
  BY <1>3, EndsFacts DEF OrderOK, RequestsOK
<1>5. \A i, j \in DOMAIN wire'[Palm] :
         wire'[Palm][i].type = "data" /\ wire'[Palm][j].type = "data" /\ i < j =>
             NumberOf(wire'[Palm][i]) <= NumberOf(wire'[Palm][j])
  <2>1. SUFFICES ASSUME NEW i \in DOMAIN wire'[Palm], NEW j \in DOMAIN wire'[Palm], i < j,
                        wire'[Palm][i].type = "data", wire'[Palm][j].type = "data"
                 PROVE  NumberOf(wire'[Palm][i]) <= NumberOf(wire'[Palm][j])
    OBVIOUS
  <2>2. PICK d \in {0, 1} : Later(Palm, d)
    BY EndsFacts DEF DataKept
  <2>3. /\ i + d \in DOMAIN wire[Palm] /\ wire'[Palm][i] = wire[Palm][i + d]
        /\ j + d \in DOMAIN wire[Palm] /\ wire'[Palm][j] = wire[Palm][j + d]
    BY <2>1, <2>2 DEF Later
  <2>4. i \in Nat /\ j \in Nat /\ i + d < j + d
    BY <1>2, <2>1, EndsFacts
  <2> QED
    BY <2>1, <2>3, <2>4 DEF OrderOK, RequestsOK
<1>6. RequestsOK'
  BY <1>4, <1>5 DEF OrderOK, RequestsOK
<1>7. ResponsesOK'
  BY <1>3, EndsFacts DEF OrderOK, ResponsesOK
<1> QED
  BY <1>1, <1>6, <1>7 DEF OrderOK

(* As long as the Palm has the same request in hand.                       *)
LEMMA HeldOrder ==
    ASSUME Inv, Inv', OrderOK, DataKept, UNCHANGED <<calls, executed>>,
           out'[PC] = out[PC], out'[Palm] = out[Palm], Held' = Held,
           st'[Palm] \in {"more", "execute"} => st[Palm] \in {"more", "execute"},
           st'[PC] = "more" => inbuf'[PC][1].number \in DOMAIN executed
    PROVE  OrderOK'
<1>1. /\ Held' \in 0 .. calls /\ st'[Palm] \in {"more", "execute"} => Held' > 0
  BY DEF OrderOK, RequestsOK
<1>2. \A i \in DOMAIN executed : executed[i] <= Held'
  BY DEF OrderOK, RequestsOK
<1>3. ASSUME NEW i \in DOMAIN wire'[Palm], wire'[Palm][i].type = "data"
      PROVE  Held' <= NumberOf(wire'[Palm][i])
  <2>1. PICK j \in DOMAIN wire[Palm] : wire'[Palm][i] = wire[Palm][j]
    BY <1>3, EndsFacts DEF DataKept, Later
  <2> QED
    BY <1>3, <2>1 DEF OrderOK, RequestsOK
<1>4. Held' \in 0 .. calls /\ (st'[Palm] \in {"more", "execute"} => Held' > 0)
  BY <1>1 DEF OrderOK, RequestsOK
<1> QED
  BY <1>2, <1>3, <1>4, KeptOrder

(* And the PC the same response.                                           *)
LEMMA SameHeldOrder ==
    ASSUME Inv, Inv', OrderOK, DataKept, UNCHANGED <<calls, executed>>,
           out'[PC] = out[PC], out'[Palm] = out[Palm], Held' = Held,
           st'[Palm] \in {"more", "execute"} => st[Palm] \in {"more", "execute"},
           st'[PC] = "more" => st[PC] = "more" /\ inbuf'[PC] = inbuf[PC]
    PROVE  OrderOK'
<1>1. st'[PC] = "more" => inbuf'[PC][1].number \in DOMAIN executed
  BY DEF OrderOK, ResponsesOK
<1> QED
  BY <1>1, HeldOrder

(* Held depends on the Palm only.                                          *)
LEMMA SameHeld ==
    ASSUME UNCHANGED executed, st'[Palm] = st[Palm], inbuf'[Palm] = inbuf[Palm],
           got'[Palm] = got[Palm]
    PROVE  Held' = Held
BY DEF Held

(* A step of padp_write that waits for an ACK.                             *)
LEMMA AwaitOrder ==
    ASSUME Inv, Inv', OrderOK, NEW e \in Ends, st[e] = "await",
           st'[e] \in {"idle", "read", "send", "dead"}, st'[Other(e)] = st[Other(e)],
           DataKept, UNCHANGED <<calls, executed, out, inbuf, got>>
    PROVE  OrderOK'
<1>1. CASE e = PC
  <2>1. st'[Palm] = st[Palm] /\ st'[PC] # "more"
    BY <1>1, EndsFacts
  <2> QED
    BY <2>1, SameHeld, SameHeldOrder
<1>2. CASE e = Palm
  <2>1. st'[PC] = st[PC] /\ st[Palm] \notin {"more", "execute"} /\ st'[Palm] \notin {"more", "execute"}
    BY <1>2, EndsFacts
  <2>2. Held' = Held
    BY <2>1 DEF Held
  <2> QED
    BY <2>1, <2>2, SameHeldOrder
<1> QED
  BY <1>1, <1>2, EndsFacts

LEMMA AckArrivesOrder == ASSUME Inv, Inv', OrderOK, NEW e \in Ends, AckArrives(e) PROVE OrderOK'
<1>1. /\ wire[e] # <<>> /\ st[e] = "await" /\ wire' = [wire EXCEPT ![e] = Tail(@)]
      /\ UNCHANGED <<out, inbuf, got, calls, executed>>
  BY DEF AckArrives, Arrives, Take, readVars, dlpVars, writeVars
<1>2. st' = [st EXCEPT ![e] = st'[e]] /\ st'[e] \in {"idle", "read", "send"}
  BY DEF AckArrives, Failed, Goto, Inv, TypeOK
<1>3. st'[Other(e)] = st[Other(e)]
  BY <1>2, EndsFacts DEF Inv, TypeOK
<1> QED
  BY <1>1, <1>2, <1>3, TakenLine, AwaitOrder

LEMMA DataInsteadOfAckOrder ==
    ASSUME Inv, Inv', OrderOK, NEW e \in Ends, DataInsteadOfAck(e) PROVE OrderOK'
<1>1. /\ wire[e] # <<>> /\ st[e] = "await" /\ st' = [st EXCEPT ![e] = "send"]
      /\ wire' = [wire EXCEPT ![e] = Tail(@), ![Other(e)] = Append(@, Ack(Arrived(e)))]
      /\ UNCHANGED <<out, inbuf, got, calls, executed>>
  BY DEF DataInsteadOfAck, Arrives, TakeAndAck, Goto, readVars, dlpVars, writeVars
<1>2. st'[e] = "send" /\ st'[Other(e)] = st[Other(e)]
  BY <1>1, EndsFacts DEF Inv, TypeOK
<1> QED
  BY <1>1, <1>2, AckedLine, AwaitOrder

LEMMA TickleInsteadOfAckOrder ==
    ASSUME Inv, Inv', OrderOK, NEW e \in Ends, TickleInsteadOfAck(e) PROVE OrderOK'
<1>1. /\ wire[e] # <<>> /\ st[e] = "await" /\ st' = [st EXCEPT ![e] = "send"]
      /\ wire' = [wire EXCEPT ![e] = Tail(@)]
      /\ UNCHANGED <<out, inbuf, got, calls, executed>>
  BY DEF TickleInsteadOfAck, Arrives, Take, Goto, readVars, dlpVars, writeVars
<1>2. st'[e] = "send" /\ st'[Other(e)] = st[Other(e)]
  BY <1>1, EndsFacts DEF Inv, TypeOK
<1> QED
  BY <1>1, <1>2, TakenLine, AwaitOrder

LEMMA AckTimeoutOrder == ASSUME Inv, Inv', OrderOK, NEW e \in Ends, AckTimeout(e) PROVE OrderOK'
<1>1. /\ st[e] = "await" /\ UNCHANGED <<wire, out, inbuf, got, calls, executed>>
      /\ \/ st' = [st EXCEPT ![e] = "send"]
         \/ st' = [st EXCEPT ![e] = "dead"]
  BY DEF AckTimeout, Goto, readVars, dlpVars
<1>2. st'[e] \in {"send", "dead"} /\ st'[Other(e)] = st[Other(e)]
  BY <1>1, EndsFacts DEF Inv, TypeOK
<1> QED
  BY <1>1, <1>2, SameLine, AwaitOrder

(* Losing, damaging or ignoring a packet.                                  *)
LEMMA DropOrder ==
    ASSUME Inv, Inv', OrderOK, NEW e \in Ends, wire[e] # <<>>, wire' = [wire EXCEPT ![e] = Tail(@)],
           UNCHANGED <<st, out, inbuf, got, calls, executed>>
    PROVE  OrderOK'
BY TakenLine, SameHeld, SameHeldOrder

LEMMA ReadRetryOrder == ASSUME Inv, Inv', OrderOK, NEW e \in Ends, ReadRetry(e) PROVE OrderOK'
<1>1. /\ wire[e] # <<>> /\ wire' = [wire EXCEPT ![e] = Tail(@)]
      /\ UNCHANGED <<st, out, inbuf, got, calls, executed>>
  BY DEF ReadRetry, Arrives, Take, readVars, dlpVars, writeVars
<1> QED
  BY <1>1, DropOrder

LEMMA LoseOrder == ASSUME Inv, Inv', OrderOK, NEW e \in Ends, Lose(e) \/ Damage(e) PROVE OrderOK'
<1>1. /\ wire[e] # <<>> /\ wire' = [wire EXCEPT ![e] = Tail(@)]
      /\ UNCHANGED <<st, out, inbuf, got, calls, executed>>
  BY DEF Lose, Damage, readVars, dlpVars, writeVars
<1> QED
  BY <1>1, DropOrder

LEMMA TickleOrder == ASSUME Inv, Inv', OrderOK, Tickle PROVE OrderOK'
<1> DEFINE p == [type |-> "tickle", flags |-> {}, size |-> 0, xid |-> lastXid[Palm], body |-> <<>>]
<1>1. p.type = "tickle" /\ wire' = [wire EXCEPT ![PC] = Append(@, p)]
      /\ UNCHANGED <<st, out, inbuf, got, calls, executed>>
  BY DEF Tickle, readVars, dlpVars, writeVars
<1> HIDE DEF p
<1>2. /\ Later(Palm, 0)
      /\ \A i \in DOMAIN wire'[PC] : \/ i \in DOMAIN wire[PC] /\ wire'[PC][i] = wire[PC][i]
                                     \/ wire'[PC][i] = p
  <2>1. PC \in Ends /\ Other(PC) = Palm
    BY EndsFacts
  <2>2. /\ Later(Other(PC), 0)
        /\ \A i \in DOMAIN wire'[PC] : \/ i \in DOMAIN wire[PC] /\ wire'[PC][i] = wire[PC][i]
                                       \/ i = Len(wire[PC]) + 1 /\ wire'[PC][i] = p
    BY <1>1, <2>1, AppendedLine
  <2> QED
    BY <2>1, <2>2
<1>3. Later(PC, 0)
  <2>1. \A i \in DOMAIN wire'[PC] : i \in Nat
    BY EndsFacts DEF Inv, WireOK
  <2>2. \A i \in DOMAIN wire'[PC] : i + 0 = i
    BY <2>1
  <2> QED
    BY <1>1, <1>2, <2>2 DEF Later
<1>4. DataKept
  BY <1>2, <1>3, EndsFacts DEF DataKept
<1> QED
  BY <1>1, <1>4, SameHeld, SameHeldOrder

(* The Palm falls back to the last request it has executed.                *)
LEMMA ForgetOrder ==
    ASSUME Inv, Inv', OrderOK, DataKept, UNCHANGED <<calls, executed, out>>,
           st'[Palm] = "read", st'[PC] = st[PC], inbuf'[PC] = inbuf[PC]
    PROVE  OrderOK'
<1>1. executed \in Seq(Nat) /\ calls \in Nat /\ Held \in 0 .. calls
  BY DEF Inv, TypeOK, OrderOK, RequestsOK
<1>2. Held' = IF Len(executed) = 0 THEN 0 ELSE executed[Len(executed)]
  BY DEF Held
<1>3. Held' \in Nat /\ Held' <= Held
  <2>1. CASE Len(executed) = 0
    BY <1>1, <1>2, <2>1
  <2>2. CASE Len(executed) # 0
    <3>1. Len(executed) \in DOMAIN executed
      BY <1>1, <2>2
    <3> QED
      BY <1>1, <1>2, <2>2, <3>1 DEF OrderOK, RequestsOK
  <2> QED
    BY <2>1, <2>2
<1>4. \A i \in DOMAIN executed : executed[i] <= Held'
  BY <1>2 DEF OrderOK, RequestsOK
<1>5. ASSUME NEW i \in DOMAIN wire'[Palm], wire'[Palm][i].type = "data"
      PROVE  Held' <= NumberOf(wire'[Palm][i])
  <2>1. PICK j \in DOMAIN wire[Palm] : wire'[Palm][i] = wire[Palm][j]
    BY <1>5, EndsFacts DEF DataKept, Later
  <2>2. Held <= NumberOf(wire[Palm][j]) /\ NumberOf(wire[Palm][j]) \in Nat
    BY <1>5, <2>1, NumberType, EndsFacts DEF OrderOK, RequestsOK
  <2> QED
    BY <1>1, <1>3, <2>1, <2>2
<1>6. Held' \in 0 .. calls
  BY <1>1, <1>3
<1>7. st'[PC] = "more" => inbuf'[PC][1].number \in DOMAIN executed
  BY DEF OrderOK, ResponsesOK
<1> QED
  BY <1>4, <1>5, <1>6, <1>7, KeptOrder

(* The PC begins to send what it was sending; the Palm forgets the request *)
(* it was reading.                                                         *)
LEMMA ReadTimeoutOrder == ASSUME Inv, Inv', OrderOK, NEW e \in Ends, ReadTimeout(e) PROVE OrderOK'
<1>1. st[e] \in {"read", "more"} /\ UNCHANGED <<wire, inbuf, got, calls, executed>>
  BY DEF ReadTimeout, readVars
<1>2. DataKept
  BY <1>1, SameLine
<1>3. CASE e = PC
  <2>1. \/ st' = [st EXCEPT ![PC] = "send"] /\ out' = [out EXCEPT ![PC] = out[PC]]
        \/ st' = [st EXCEPT ![PC] = "dead"] /\ UNCHANGED out
    BY <1>3 DEF ReadTimeout, Retry, Write, Goto, writeVars
  <2>2. st'[PC] \in {"send", "dead"} /\ st'[Palm] = st[Palm] /\ out'[PC] = out[PC] /\ out'[Palm] = out[Palm]
    BY <2>1, EndsFacts DEF Inv, TypeOK
  <2> QED
    BY <1>1, <1>2, <2>2, SameHeld, SameHeldOrder
<1>4. CASE e = Palm
  <2>1. st' = [st EXCEPT ![Palm] = "read"] /\ UNCHANGED out /\ st[Palm] = "more"
    BY <1>4, EndsFacts DEF ReadTimeout, Failed, Goto, writeVars
  <2>2. st'[Palm] = "read" /\ st'[PC] = st[PC]
    BY <2>1, EndsFacts DEF Inv, TypeOK
  <2>3. Held' = IF Len(executed) = 0 THEN 0 ELSE executed[Len(executed)]
    BY <1>1, <2>2 DEF Held
  <2> QED
    BY <1>1, <1>2, <2>1, <2>2, <2>3, ForgetOrder
<1> QED
  BY <1>3, <1>4, EndsFacts

(* The first packet of a line.                                             *)
LEMMA FirstPacket ==
    ASSUME Inv, NEW e \in Ends, wire[e] # <<>>
    PROVE  1 \in DOMAIN wire[e] /\ Arrived(e) = wire[e][1]
<1>1. wire[e] \in Seq(Packet)
  BY DEF Inv, WireOK
<1> QED
  BY <1>1 DEF Arrived

(* What padp_read reads first.                                             *)
LEMMA ReadFirstOrder == ASSUME Inv, Inv', OrderOK, NEW e \in Ends, ReadFirst(e) PROVE OrderOK'
<1> DEFINE p == Arrived(e)
<1>1. /\ wire[e] # <<>> /\ st[e] = "read" /\ p.type = "data"
      /\ wire' = [wire EXCEPT ![e] = Tail(@), ![Other(e)] = Append(@, Ack(Arrived(e)))]
      /\ UNCHANGED <<calls, executed, out>>
  BY DEF ReadFirst, Arrives, Arrived, TakeAndAck, writeVars
<1>2. \/ /\ st' = [st EXCEPT ![e] = IF e = Palm THEN "execute" ELSE "idle"]
         /\ UNCHANGED inbuf /\ got' = [got EXCEPT ![e] = p.body]
      \/ /\ st' = [st EXCEPT ![e] = "more"]
         /\ inbuf' = [inbuf EXCEPT ![e] = p.body] /\ UNCHANGED got
  BY EndsFacts DEF ReadFirst, Return, Goto
<1>3. /\ st'[Other(e)] = st[Other(e)] /\ inbuf'[Other(e)] = inbuf[Other(e)]
      /\ got'[Other(e)] = got[Other(e)]
      /\ \/ st'[e] = (IF e = Palm THEN "execute" ELSE "idle") /\ got'[e] = p.body
         \/ st'[e] = "more" /\ inbuf'[e] = p.body
  BY <1>2, EndsFacts DEF Inv, TypeOK
<1>4. DataKept /\ Later(e, 1)
  BY <1>1, AckedLine
<1>5. 1 \in DOMAIN wire[e] /\ p = wire[e][1]
  BY <1>1, FirstPacket
<1> HIDE DEF p
<1>6. CASE e = PC
  <2>1. Held' = Held /\ st'[Palm] = st[Palm]
    BY <1>1, <1>3, <1>6, SameHeld, EndsFacts
  <2>2. st'[PC] = "more" => inbuf'[PC][1].number \in DOMAIN executed
    BY <1>1, <1>3, <1>5, <1>6, EndsFacts DEF OrderOK, ResponsesOK, NumberOf
  <2> QED
    BY <1>1, <1>4, <2>1, <2>2, HeldOrder
<1>7. CASE e = Palm
  <2>1. Held' = NumberOf(p)
    BY <1>3, <1>7 DEF Held, NumberOf
  <2>2. NumberOf(p) \in 1 .. calls /\ Held <= NumberOf(p)
    BY <1>1, <1>5, <1>7 DEF OrderOK, RequestsOK
  <2>3. calls \in Nat /\ Held \in Nat /\ executed \in Seq(Nat)
    BY DEF Inv, TypeOK, OrderOK, RequestsOK
  <2>4. Held' \in 0 .. calls /\ Held' > 0 /\ Held <= Held'
    BY <2>1, <2>2, <2>3
  <2>5. \A i \in DOMAIN executed : executed[i] <= Held'
    <3>1. \A i \in DOMAIN executed : executed[i] <= Held /\ executed[i] \in Nat
      BY <2>3 DEF OrderOK, RequestsOK
    <3> QED
      BY <2>3, <2>4, <3>1
  <2>6. ASSUME NEW i \in DOMAIN wire'[Palm], wire'[Palm][i].type = "data"
        PROVE  Held' <= NumberOf(wire'[Palm][i])
    <3>1. i \in Nat /\ i > 0
      BY <1>7 DEF Inv, WireOK
    <3>2. i + 1 \in DOMAIN wire[Palm] /\ wire'[Palm][i] = wire[Palm][i + 1] /\ 1 < i + 1
      BY <1>4, <1>7, <2>6, <3>1 DEF Later
    <3> QED
      BY <1>1, <1>5, <1>7, <2>1, <2>6, <3>2 DEF OrderOK, RequestsOK
  <2>7. st'[PC] = "more" => inbuf'[PC][1].number \in DOMAIN executed
    BY <1>3, <1>7, EndsFacts DEF OrderOK, ResponsesOK
  <2> QED
    BY <1>1, <1>4, <2>4, <2>5, <2>6, <2>7, KeptOrder
<1> QED
  BY <1>6, <1>7, EndsFacts

(* What is first in a buffer stays first.                                  *)
LEMMA FirstStays ==
    ASSUME NEW S, NEW s \in Seq(S), NEW t \in Seq(S), s # <<>>, NEW len \in Nat \ {0}
    PROVE  (s \o t)[1] = s[1] /\ Buffer(s \o t, len)[1] = s[1]
<1>1. PICK n \in Nat : n = Len(s) /\ n > 0
  OBVIOUS
<1>2. PICK u : u = s \o t
  OBVIOUS
<1>3. Len(u) = n + Len(t) /\ Len(t) \in Nat /\ u[1] = s[1]
  BY <1>1, <1>2
<1>4. 1 <= Len(u) /\ 1 \in 1 .. len
  BY <1>1, <1>3
<1>5. Buffer(u, len)[1] = u[1]
  BY <1>4 DEF Buffer
<1> QED
  BY <1>2, <1>3, <1>5

(* What padp_read reads next.                                              *)
LEMMA ReadMoreOrder == ASSUME Inv, Inv', OrderOK, NEW e \in Ends, ReadMore(e) PROVE OrderOK'
<1> DEFINE soFar == inbuf[e] \o Arrived(e).body
<1>1. wire[e] # <<>> /\ st[e] = "more" /\ UNCHANGED <<calls, executed, out>>
  BY DEF ReadMore, Arrives, writeVars
<1>2. CASE wire' = [wire EXCEPT ![e] = Tail(@)] /\ Failed(e) /\ UNCHANGED <<inbuf, got>>
  <2>1. DataKept
    BY <1>1, <1>2, TakenLine
  <2>2. st'[e] = (IF e = PC THEN "idle" ELSE "read") /\ st'[Other(e)] = st[Other(e)]
    BY <1>2, EndsFacts DEF Failed, Goto, Inv, TypeOK
  <2>3. CASE e = PC
    <3>1. Held' = Held /\ st'[Palm] = st[Palm] /\ st'[PC] # "more"
      BY <1>1, <1>2, <2>2, <2>3, SameHeld, EndsFacts
    <3> QED
      BY <1>1, <2>1, <3>1, HeldOrder
  <2>4. CASE e = Palm
    <3>1. st'[Palm] = "read" /\ st'[PC] = st[PC]
      BY <2>2, <2>4, EndsFacts
    <3> QED
      BY <1>1, <1>2, <2>1, <3>1, ForgetOrder
  <2> QED
    BY <2>3, <2>4, EndsFacts
<1>3. CASE /\ wire' = [wire EXCEPT ![e] = Tail(@), ![Other(e)] = Append(@, Ack(Arrived(e)))]
           /\ inbuf' = [inbuf EXCEPT ![e] = soFar]
           /\ \/ /\ st' = [st EXCEPT ![e] = IF e = Palm THEN "execute" ELSE "idle"]
                 /\ got' = [got EXCEPT ![e] = Buffer(soFar, msgLen[e])]
              \/ UNCHANGED <<st, got>>
  <2>1. DataKept
    BY <1>1, <1>3, AckedLine
  <2>2. /\ st'[Other(e)] = st[Other(e)] /\ inbuf'[Other(e)] = inbuf[Other(e)]
        /\ got'[Other(e)] = got[Other(e)] /\ inbuf'[e] = soFar
        /\ \/ st'[e] = (IF e = Palm THEN "execute" ELSE "idle") /\ got'[e] = Buffer(soFar, msgLen[e])
           \/ st'[e] = "more"
    <3> HIDE DEF soFar
    <3>1. Other(e) # e /\ e \in DOMAIN st /\ e \in DOMAIN inbuf /\ e \in DOMAIN got
      BY EndsFacts DEF Inv, TypeOK
    <3>2. inbuf'[Other(e)] = inbuf[Other(e)] /\ inbuf'[e] = soFar
      BY <1>3, <3>1
    <3>3. CASE UNCHANGED <<st, got>>
      BY <1>1, <3>2, <3>3
    <3>4. CASE /\ st' = [st EXCEPT ![e] = IF e = Palm THEN "execute" ELSE "idle"]
               /\ got' = [got EXCEPT ![e] = Buffer(soFar, msgLen[e])]
      BY <3>1, <3>2, <3>4
    <3> QED
      BY <1>3, <3>3, <3>4
  <2>3. soFar[1] = inbuf[e][1] /\ Buffer(soFar, msgLen[e])[1] = inbuf[e][1]
    <3>1. Arrived(e).body \in Seq(Unit)
      <4>1. Arrived(e) \in Packet
        BY <1>1, TakeType
      <4> QED
        BY <4>1 DEF Packet
    <3>2. inbuf[e] \in Seq(Unit) /\ inbuf[e] # <<>> /\ msgLen[e] \in Nat \ {0}
      BY <1>1 DEF Inv, TypeOK, EndOK
    <3> QED
      BY <3>1, <3>2, FirstStays
  <2> HIDE DEF soFar
  <2>4. CASE e = PC
    <3>1. Held' = Held /\ st'[Palm] = st[Palm]
      BY <1>1, <2>2, <2>4, SameHeld, EndsFacts
    <3>2. st'[PC] = "more" => inbuf'[PC][1].number \in DOMAIN executed
      BY <1>1, <2>2, <2>3, <2>4, EndsFacts DEF OrderOK, ResponsesOK
    <3> QED
      BY <1>1, <2>1, <3>1, <3>2, HeldOrder
  <2>5. CASE e = Palm
    <3>1. Held' = Held /\ st[Palm] = "more"
      BY <1>1, <2>2, <2>3, <2>5 DEF Held
    <3>2. st'[PC] = "more" => inbuf'[PC][1].number \in DOMAIN executed
      BY <2>2, <2>5, EndsFacts DEF OrderOK, ResponsesOK
    <3> QED
      BY <1>1, <2>1, <3>1, <3>2, HeldOrder
  <2> QED
    BY <2>4, <2>5, EndsFacts
<1> QED
  BY <1>2, <1>3, EndsFacts DEF ReadMore, Take, TakeAndAck, Return, Goto, readVars

(* The data of a fragment belongs to the message it is of.                 *)
LEMMA FragmentNumber ==
    ASSUME Inv, NEW e \in Ends, st[e] \in {"send", "await"}
    PROVE  \E i \in DOMAIN out[e] : NumberOf(Fragment(e)) = out[e][i].number
<1>1. out[e] \in Seq(Unit) /\ offset[e] \in Nat /\ offset[e] < Len(out[e])
  BY DEF Inv, TypeOK, EndOK
<1>2. PICK o, k \in Nat : o = offset[e] /\ k = (IF Len(out[e]) - o <= MaxPacket THEN Len(out[e]) - o ELSE MaxPacket)
  BY <1>1
<1>3. k > 0 /\ o + k <= Len(out[e])
  BY <1>1, <1>2
<1>4. Fragment(e).body = SubSeq(out[e], o + 1, o + k)
  BY <1>2 DEF Fragment
<1>5. SubSeq(out[e], o + 1, o + k)[1] = out[e][o + 1] /\ o + 1 \in DOMAIN out[e]
  <2>1. k \in Nat /\ o \in Nat /\ 1 <= k
    BY <1>2, <1>3
  <2>2. o + 1 \in 1 .. Len(out[e]) /\ o + k \in Nat /\ DOMAIN out[e] = 1 .. Len(out[e])
    BY <1>1, <1>3, <2>1, LenProperties
  <2>3. \A i \in (o + 1) .. (o + k) : out[e][i] \in Unit
    BY <1>1, <1>3, <2>1, <2>2, ElementOfSeq
  <2>4. SubSeq(out[e], o + 1, o + k)[1] = out[e][(o + 1) + 1 - 1]
    <3>1. 1 \in 1 .. ((o + k) - (o + 1) + 1) /\ o + 1 \in Int /\ o + k \in Int
      BY <2>1, <2>2
    <3> QED
      BY <2>3, <3>1, SubSeqProperties
  <2> QED
    BY <2>1, <2>2, <2>4
<1> QED
  BY <1>4, <1>5 DEF NumberOf

LEMMA SendOrder == ASSUME Inv, Inv', OrderOK, NEW e \in Ends, Send(e) PROVE OrderOK'
<1>1. /\ st[e] = "send" /\ st' = [st EXCEPT ![e] = "await"]
      /\ wire' = [wire EXCEPT ![Other(e)] = Append(@, Fragment(e))]
      /\ UNCHANGED <<out, inbuf, got, calls, executed>>
  BY DEF Send, Goto, readVars, dlpVars, writeVars
<1>2. st'[e] = "await" /\ st'[Other(e)] = st[Other(e)]
  BY <1>1, EndsFacts DEF Inv, TypeOK
<1>3. PICK p : p = Fragment(e)
  OBVIOUS
<1>4. PICK k \in DOMAIN out[e] : NumberOf(p) = out[e][k].number
  BY <1>1, <1>3, FragmentNumber
<1>5. Other(e) \in Ends /\ Other(Other(e)) = e
  BY EndsFacts
<1>6. /\ \A i \in DOMAIN wire'[Other(e)] :
            \/ i \in DOMAIN wire[Other(e)] /\ wire'[Other(e)][i] = wire[Other(e)][i]
            \/ i = Len(wire[Other(e)]) + 1 /\ wire'[Other(e)][i] = p
      /\ wire'[e] = wire[e]
  BY <1>1, <1>3, <1>5, AppendedLine
<1>7. WrittenOK' /\ Held' = Held
  BY <1>1, <1>2, EndsFacts DEF OrderOK, WrittenOK, Held
<1>8. calls \in Nat /\ executed \in Seq(Nat) /\ Held \in 0 .. calls /\ out[e] \in Seq(Unit) /\ out[e] # <<>>
  <2>1. out[e] \in Seq(Unit) /\ Len(out[e]) > 0
    BY <1>1 DEF Inv, TypeOK, EndOK
  <2> QED
    BY <2>1 DEF Inv, TypeOK, OrderOK, RequestsOK
<1>9. CASE e = PC
  <2>1. NumberOf(p) = calls /\ calls > 0 /\ Held <= calls
    BY <1>4, <1>8, <1>9 DEF OrderOK, WrittenOK
  <2>2. \A i \in DOMAIN wire'[Palm] :
            \/ i \in DOMAIN wire[Palm] /\ wire'[Palm][i] = wire[Palm][i]
            \/ i = Len(wire[Palm]) + 1 /\ wire'[Palm][i] = p
    BY <1>6, <1>9, EndsFacts
  <2>3. \A i \in DOMAIN wire'[Palm] : wire'[Palm][i].type = "data" =>
           NumberOf(wire'[Palm][i]) \in 1 .. calls /\ Held <= NumberOf(wire'[Palm][i])
    BY <1>8, <2>1, <2>2 DEF OrderOK, RequestsOK
  <2>4. \A i, j \in DOMAIN wire'[Palm] :
           wire'[Palm][i].type = "data" /\ wire'[Palm][j].type = "data" /\ i < j =>
               NumberOf(wire'[Palm][i]) <= NumberOf(wire'[Palm][j])
    <3>1. SUFFICES ASSUME NEW i \in DOMAIN wire'[Palm], NEW j \in DOMAIN wire'[Palm], i < j,
                          wire'[Palm][i].type = "data", wire'[Palm][j].type = "data"
                   PROVE  NumberOf(wire'[Palm][i]) <= NumberOf(wire'[Palm][j])
      OBVIOUS
    <3>2. PICK n \in Nat : n = Len(wire[Palm]) /\ DOMAIN wire[Palm] = 1 .. n
      BY EndsFacts DEF Inv, WireOK
    <3>3. i \in DOMAIN wire[Palm] /\ wire'[Palm][i] = wire[Palm][i]
      BY <2>2, <3>1, <3>2
    <3>4. CASE wire'[Palm][j] = p
      BY <1>8, <2>1, <2>3, <3>1, <3>4
    <3>5. CASE j \in DOMAIN wire[Palm] /\ wire'[Palm][j] = wire[Palm][j]
      BY <3>1, <3>3, <3>5 DEF OrderOK, RequestsOK
    <3> QED
      BY <2>2, <3>4, <3>5
  <2>5. RequestsOK'
    BY <1>1, <1>2, <1>7, <1>9, <2>3, <2>4, EndsFacts DEF OrderOK, RequestsOK
  <2>6. ResponsesOK'
    BY <1>1, <1>2, <1>6, <1>9, EndsFacts DEF OrderOK, ResponsesOK
  <2> QED
    BY <1>7, <2>5, <2>6 DEF OrderOK
<1>10. CASE e = Palm
  <2>1. NumberOf(p) = Len(executed) /\ Len(executed) > 0
    BY <1>4, <1>8, <1>10 DEF OrderOK, WrittenOK
  <2>2. NumberOf(p) \in DOMAIN executed
    BY <1>8, <2>1
  <2>3. RequestsOK'
    BY <1>1, <1>2, <1>6, <1>7, <1>10, EndsFacts DEF OrderOK, RequestsOK
  <2>4. ResponsesOK'
    BY <1>1, <1>2, <1>6, <1>10, <2>2, EndsFacts DEF OrderOK, ResponsesOK
  <2> QED
    BY <1>7, <2>3, <2>4 DEF OrderOK
<1> QED
  BY <1>9, <1>10, EndsFacts

(* The units of a message.                                                 *)
LEMMA MessageNumbers ==
    ASSUME NEW from, NEW n, NEW len \in Nat
    PROVE  \A i \in DOMAIN Message(from, n, len) : Message(from, n, len)[i].number = n
BY DEF Message

(* The next request follows all that were made before.                     *)
LEMMA CallOrder == ASSUME Inv, Inv', OrderOK, Call PROVE OrderOK'
<1>1. PICK len \in RequestLengths : out' = [out EXCEPT ![PC] = Message(PC, calls + 1, len)]
  BY DEF Call, Write
<1>2. /\ st' = [st EXCEPT ![PC] = "send"] /\ calls' = calls + 1
      /\ UNCHANGED <<wire, inbuf, got, executed>>
  BY DEF Call, Write, Goto, readVars
<1>3. /\ st'[PC] = "send" /\ st'[Palm] = st[Palm] /\ out'[Palm] = out[Palm]
      /\ out'[PC] = Message(PC, calls + 1, len)
  BY <1>1, <1>2, EndsFacts DEF Inv, TypeOK
<1>4. calls \in Nat /\ len \in Nat
  BY DEF Inv, TypeOK
<1>5. WrittenOK'
  BY <1>2, <1>3, <1>4, MessageNumbers DEF OrderOK, WrittenOK
<1>6. Held' = Held
  BY <1>2, <1>3, SameHeld
<1>7. RequestsOK'
  <2>1. \A x \in 0 .. calls : x \in 0 .. calls + 1
    BY <1>4
  <2>2. \A x \in 1 .. calls : x \in 1 .. calls + 1
    BY <1>4
  <2> QED
    BY <1>2, <1>3, <1>6, <2>1, <2>2 DEF OrderOK, RequestsOK
<1>8. ResponsesOK'
  BY <1>2, <1>3 DEF OrderOK, ResponsesOK
<1> QED
  BY <1>5, <1>7, <1>8 DEF OrderOK

(* The Palm executes the request it holds.                                 *)
LEMMA ExecuteOrder == ASSUME Inv, Inv', OrderOK, Execute PROVE OrderOK'
<1>1. PICK len \in ResponseLengths : out' = [out EXCEPT ![Palm] = Message(Palm, Len(executed) + 1, len)]
  BY DEF Execute, Write
<1>2. /\ st' = [st EXCEPT ![Palm] = "send"] /\ executed' = Append(executed, Held)
      /\ UNCHANGED <<wire, inbuf, got, calls>> /\ st[Palm] = "execute"
  BY DEF Execute, Write, Goto, readVars, Held
<1>3. /\ st'[Palm] = "send" /\ st'[PC] = st[PC] /\ out'[PC] = out[PC]
      /\ out'[Palm] = Message(Palm, Len(executed) + 1, len)
  BY <1>1, <1>2, EndsFacts DEF Inv, TypeOK
<1>4. PICK n \in Nat : n = Len(executed)
  BY DEF Inv, TypeOK
<1>5. calls \in Nat /\ len \in Nat /\ executed \in Seq(Nat) /\ Held \in 0 .. calls /\ Held > 0
  BY <1>2 DEF Inv, TypeOK, OrderOK, RequestsOK
<1>6. /\ Len(executed') = n + 1 /\ executed'[n + 1] = Held /\ DOMAIN executed' = 1 .. n + 1
      /\ DOMAIN executed = 1 .. n
      /\ \A i \in DOMAIN executed : executed'[i] = executed[i] /\ executed[i] <= Held
  BY <1>2, <1>4, <1>5 DEF OrderOK, RequestsOK
<1>7. WrittenOK'
  BY <1>2, <1>3, <1>4, <1>5, <1>6, MessageNumbers DEF OrderOK, WrittenOK
<1>8. Held' = Held
  BY <1>3, <1>4, <1>6 DEF Held
<1>9. \A i \in DOMAIN executed' : executed'[i] <= Held
  BY <1>4, <1>5, <1>6
<1>10. RequestsOK'
  BY <1>2, <1>3, <1>5, <1>6, <1>8, <1>9 DEF OrderOK, RequestsOK
<1>11. DOMAIN executed \subseteq DOMAIN executed'
  BY <1>4, <1>6
<1>12. ResponsesOK'
  BY <1>2, <1>3, <1>11 DEF OrderOK, ResponsesOK
<1> QED
  BY <1>7, <1>10, <1>12 DEF OrderOK

LEMMA InitOrder == Init => OrderOK
<1> SUFFICES ASSUME Init PROVE OrderOK
  OBVIOUS
<1>1. /\ out[PC] = <<>> /\ out[Palm] = <<>> /\ wire[PC] = <<>> /\ wire[Palm] = <<>>
      /\ st[PC] = "idle" /\ st[Palm] = "read" /\ executed = <<>> /\ calls = 0
  BY EndsFacts DEF Init
<1>2. Held = 0
  BY <1>1 DEF Held
<1> QED
  BY <1>1, <1>2 DEF OrderOK, WrittenOK, RequestsOK, ResponsesOK

LEMMA StutterOrder == ASSUME OrderOK, UNCHANGED vars PROVE OrderOK'
<1>1. UNCHANGED <<wire, st, out, inbuf, got, calls, executed>>
  BY DEF vars, writeVars, readVars, dlpVars
<1>2. Held' = Held
  BY <1>1 DEF Held
<1> QED
  BY <1>1, <1>2 DEF OrderOK, WrittenOK, RequestsOK, ResponsesOK

LEMMA NextOrder == ASSUME Inv, Inv', OrderOK, [Next]_vars PROVE OrderOK'
<1>1. CASE \E e \in Ends : EndStep(e)
  BY <1>1, SendOrder, AckArrivesOrder, DataInsteadOfAckOrder, TickleInsteadOfAckOrder,
     AckTimeoutOrder, ReadFirstOrder, ReadMoreOrder, ReadRetryOrder, ReadTimeoutOrder DEF EndStep
<1>2. CASE \E e \in Ends : Lose(e) \/ Damage(e)
  BY <1>2, LoseOrder
<1> QED
  BY <1>1, <1>2, CallOrder, ExecuteOrder, TickleOrder, StutterOrder DEF Next

-----------------------------------------------------------------------------
(* Fragments and their places.                                             *)

(* A fragment depends on the message, the place and the ID.                *)
LEMMA SameFragment ==
    ASSUME NEW e \in Ends, out'[e] = out[e], offset'[e] = offset[e], xid'[e] = xid[e]
    PROVE  Fragment(e)' = Fragment(e)
BY DEF Fragment

(* What is in a fragment.                                                  *)
LEMMA FragmentFacts ==
    ASSUME Inv, NEW e \in Ends, st[e] \in {"send", "await"}, NEW n, n = Len(out[e])
    PROVE  /\ n \in Nat /\ offset[e] \in Nat /\ offset[e] < n /\ n > 0
           /\ Fragment(e).type = "data" /\ Fragment(e).xid = xid[e]
           /\ FIRST \in Fragment(e).flags <=> offset[e] = 0
           /\ LAST \in Fragment(e).flags <=> n <= offset[e] + MaxPacket
           /\ Fragment(e).flags = {FIRST, LAST} <=> offset[e] = 0 /\ n <= MaxPacket
           /\ Fragment(e).size = IF offset[e] = 0 THEN n ELSE offset[e]
           /\ Fragment(e).body = SubSeq(out[e], offset[e] + 1,
                                        IF n <= offset[e] + MaxPacket THEN n ELSE offset[e] + MaxPacket)
<1>1. out[e] \in Seq(Unit) /\ offset[e] \in Nat /\ offset[e] < n /\ n \in Nat
  BY DEF Inv, TypeOK, EndOK
<1>2. PICK o \in Nat : o = offset[e]
  BY <1>1
<1>3. PICK b : b = (n - o <= MaxPacket)
  OBVIOUS
<1>4. Fragment(e).flags = {f \in {FIRST, LAST} : (f = FIRST /\ o = 0) \/ (f = LAST /\ n - o <= MaxPacket)}
  BY <1>2 DEF Fragment
<1>5. FIRST # LAST
  BY DEF FIRST, LAST
<1>6. FIRST \in Fragment(e).flags <=> o = 0
  BY <1>4, <1>5
<1>7. LAST \in Fragment(e).flags <=> n - o <= MaxPacket
  BY <1>4, <1>5
<1>8. Fragment(e).flags \subseteq {FIRST, LAST}
  BY <1>4
<1>9. Fragment(e).flags = {FIRST, LAST} <=> o = 0 /\ n - o <= MaxPacket
  BY <1>6, <1>7, <1>8
<1>10. n - o <= MaxPacket <=> n <= o + MaxPacket
  BY <1>1, <1>2
<1>11. o = 0 => (n - o <= MaxPacket <=> n <= MaxPacket)
  BY <1>1, <1>2
<1>12. Fragment(e).type = "data" /\ Fragment(e).xid = xid[e]
       /\ Fragment(e).size = (IF o = 0 THEN n ELSE o)
  BY <1>2 DEF Fragment
<1>13. Fragment(e).body = SubSeq(out[e], o + 1, o + (IF n - o <= MaxPacket THEN n - o ELSE MaxPacket))
  BY <1>2 DEF Fragment
<1>14. o + (IF n - o <= MaxPacket THEN n - o ELSE MaxPacket) = (IF n <= o + MaxPacket THEN n ELSE o + MaxPacket)
  BY <1>1, <1>2
<1>15. Fragment(e).body = SubSeq(out[e], o + 1, IF n <= o + MaxPacket THEN n ELSE o + MaxPacket)
  BY <1>13, <1>14
<1>16. n > 0
  BY <1>1
<1> QED
  BY <1>1, <1>2, <1>6, <1>7, <1>9, <1>10, <1>11, <1>12, <1>15, <1>16

(* A prefix and what follows it is a longer prefix.                        *)
LEMMA LongerPrefix ==
    ASSUME NEW S, NEW s \in Seq(S), NEW o \in Nat, NEW m \in Nat, o <= m, m <= Len(s)
    PROVE  /\ SubSeq(s, 1, o) \o SubSeq(s, o + 1, m) = SubSeq(s, 1, m)
           /\ SubSeq(s, 1, o) \in Seq(S) /\ Len(SubSeq(s, 1, o)) = o
<1>1. 1 \in 1 .. Len(s) + 1 /\ o \in 1 - 1 .. Len(s) /\ m \in o .. Len(s)
  OBVIOUS
<1>2. SubSeq(s, 1, o) \o SubSeq(s, o + 1, m) = SubSeq(s, 1, m)
  BY <1>1, ConcatAdjacentSubSeq
<1>3. SubSeq(s, 1, o) \in Seq(S) /\ Len(SubSeq(s, 1, o)) = o
  BY <1>1, SubSeqProperties
<1> QED
  BY <1>2, <1>3

(* The longest prefix is all.                                              *)
LEMMA WholePrefix ==
    ASSUME NEW S, NEW s \in Seq(S), NEW n, n = Len(s)
    PROVE  SubSeq(s, 1, n) = s /\ Buffer(s, n) = s
<1>1. n \in Nat /\ SubSeq(s, 1, n) \in Seq(S) /\ Len(SubSeq(s, 1, n)) = n
  OBVIOUS
<1>2. \A i \in 1 .. n : SubSeq(s, 1, n)[i] = s[i]
  OBVIOUS
<1>3. SubSeq(s, 1, n) = s
  BY <1>1, <1>2, SeqEqual
<1>4. \A i \in 1 .. n : i <= Len(s) /\ s[i] \in S
  OBVIOUS
<1>5. Buffer(s, n) = [i \in 1 .. n |-> s[i]]
  BY <1>4 DEF Buffer
<1>6. s = [i \in 1 .. n |-> s[i]]
  OBVIOUS
<1> QED
  BY <1>3, <1>5, <1>6

(* Short lines.                                                            *)
LEMMA OneOnLine ==
    ASSUME NEW S, NEW s \in Seq(S), Len(s) = 1
    PROVE  s # <<>> /\ Head(s) = s[1] /\ Tail(s) = <<>>
<1>1. s # <<>>
  BY EmptySeq
<1>2. Tail(s) \in Seq(S) /\ Len(Tail(s)) = 0 /\ Head(s) = s[1]
  BY <1>1, HeadTailProperties
<1>3. Tail(s) = <<>>
  BY <1>2, EmptySeq
<1> QED
  BY <1>1, <1>2, <1>3

LEMMA TwoOnLine ==
    ASSUME NEW S, NEW s \in Seq(S), Len(s) = 2
    PROVE  s # <<>> /\ Head(s) = s[1] /\ Len(Tail(s)) = 1 /\ Tail(s)[1] = s[2]
<1>1. s # <<>>
  BY EmptySeq
<1>2. Tail(s) \in Seq(S) /\ Len(Tail(s)) = 1 /\ Head(s) = s[1] /\ \A i \in 1 .. 1 : Tail(s)[i] = s[i + 1]
  BY <1>1, HeadTailProperties
<1>3. Tail(s)[1] = s[2]
  BY <1>2
<1> QED
  BY <1>1, <1>2, <1>3

LEMMA FirstOnLine ==
    ASSUME NEW p, NEW t, t = Append(<<>>, p)
    PROVE  Len(t) = 1 /\ t[1] = p /\ t # <<>>
<1>1. <<>> \in Seq({p}) /\ Len(<<>>) = 0
  OBVIOUS
<1>2. t \in Seq({p}) /\ Len(t) = 1 /\ t[1] = p
  BY <1>1, AppendProperties
<1> QED
  BY <1>2, EmptySeq

(* The lines, the messages and the counters are what Inv says they are.    *)
LEMMA LineTypes ==
    ASSUME Inv PROVE /\ wire[PC] \in Seq(Packet) /\ wire[Palm] \in Seq(Packet)
                     /\ offset[PC] \in Nat /\ offset[Palm] \in Nat
                     /\ Len(out[PC]) \in Nat /\ Len(out[Palm]) \in Nat
                     /\ st[PC] \in {"send", "await"} => offset[PC] < Len(out[PC])
                     /\ st[Palm] \in {"send", "await"} => offset[Palm] < Len(out[Palm])
<1>1. \A e \in Ends : wire[e] \in Seq(Packet) /\ offset[e] \in Nat /\ out[e] \in Seq(Unit)
  BY DEF Inv, TypeOK
<1>2. \A e \in Ends : st[e] \in {"send", "await"} => offset[e] < Len(out[e])
  BY DEF Inv, EndOK
<1>3. \A e \in Ends : Len(out[e]) \in Nat
  BY <1>1
<1> QED
  BY <1>1, <1>2, <1>3, EndsFacts

-----------------------------------------------------------------------------
(* The phases.                                                             *)
Clean == Inv /\ OrderOK /\ AckedMeansDelivered /\ Phase

(* What has been acknowledged was delivered, as long as padp_write begins  *)
(* at the beginning and padp_read returns what is being written.           *)
LEMMA DeliveredOK ==
    ASSUME Clean, Inv',
           \A e \in Ends : \/ /\ out'[e] = out[e] /\ offset'[e] = offset[e]
                              /\ got'[Other(e)] = got[Other(e)]
                           \/ offset'[e] < Len(out'[e])
                           \/ got'[Other(e)] = out'[e]
    PROVE  AckedMeansDelivered'
<1>1. \A e \in Ends : offset'[e] \in Nat /\ Len(out'[e]) \in Nat
  <2>1. \A e \in Ends : offset'[e] \in Nat /\ out'[e] \in Seq(Unit)
    BY DEF Inv, TypeOK
  <2> QED
    BY <2>1
<1> QED
  BY <1>1 DEF Clean, AckedMeansDelivered

(* A message is not empty.                                                 *)
LEMMA MessageLength ==
    ASSUME NEW from, NEW n, NEW len \in Nat \ {0}
    PROVE  Len(Message(from, n, len)) = len
BY DEF Message

(* The PC makes a call when it is idle.                                    *)
LEMMA CallPhase == ASSUME Clean, Inv', Call PROVE AckedMeansDelivered' /\ Phase'
<1>1. PICK len \in RequestLengths : /\ out' = [out EXCEPT ![PC] = Message(PC, calls + 1, len)]
                                    /\ offset' = [offset EXCEPT ![PC] = 0]
                                    /\ xid' = [xid EXCEPT ![PC] = Bump(@)]
  BY EndsFacts DEF Call, Write
<1>2. /\ st' = [st EXCEPT ![PC] = "send"] /\ calls' = calls + 1 /\ st[PC] = "idle"
      /\ UNCHANGED <<wire, inbuf, msgLen, got, executed, blocked>>
  BY DEF Call, Write, Goto, readVars
<1>3. /\ st'[PC] = "send" /\ st'[Palm] = st[Palm] /\ out'[Palm] = out[Palm]
      /\ out'[PC] = Message(PC, calls + 1, len) /\ offset'[PC] = 0 /\ offset'[Palm] = offset[Palm]
      /\ xid'[Palm] = xid[Palm]
  BY <1>1, <1>2, EndsFacts DEF Clean, Inv, TypeOK
<1>4. Len(out'[PC]) = len /\ 0 < len
  <2>1. len \in Nat \ {0}
    OBVIOUS
  <2>2. \A from, n : Len(Message(from, n, len)) = len
    BY <2>1, MessageLength
  <2> QED
    BY <1>3, <2>1, <2>2
<1>5. AckedMeansDelivered'
  BY <1>2, <1>3, <1>4, DeliveredOK, EndsFacts
<1>6. NotExecuted'
  <2>1. calls \in Nat /\ Held \in 0 .. calls /\ executed \in Seq(Nat)
    BY DEF Clean, Inv, TypeOK, OrderOK, RequestsOK
  <2>2. \A i \in DOMAIN executed : executed[i] <= Held /\ executed[i] \in Nat
    BY <2>1 DEF Clean, OrderOK, RequestsOK
  <2> QED
    BY <1>2, <2>1, <2>2 DEF NotExecuted
<1>7. CASE Requesting
  <2>1. st[Palm] = "read" /\ wire[PC] = <<>> /\ wire[Palm] = <<>> /\ PC \notin blocked
    BY <1>2, <1>7 DEF Requesting
  <2>2. Reached(PC, offset[PC])'
    BY <1>3, <1>4, <2>1, EndsFacts DEF Reached
  <2> QED
    BY <1>2, <1>3, <1>5, <1>6, <2>1, <2>2 DEF Phase, Requesting
<1>8. CASE Acking
  <2>1. /\ st[Palm] = "await" /\ wire[PC] = <<>> /\ wire[Palm] # <<>> /\ IsAck(wire[Palm][1], Palm)
        /\ PC \notin blocked /\ Palm \notin blocked /\ Len(wire[Palm]) = 1
        /\ offset[Palm] + MaxPacket >= Len(out[Palm]) /\ got[PC] = out[Palm]
    BY <1>2, <1>8 DEF Acking
  <2>2. Acking'
    BY <1>2, <1>3, <1>6, <2>1 DEF Acking, IsAck
  <2> QED
    BY <1>5, <2>2 DEF Phase
<1> QED
  BY <1>2, <1>7, <1>8 DEF Clean, Phase, Answering, Gone

(* The Palm executes the request that the PC waits for an answer to.       *)
LEMMA ExecutePhase == ASSUME Clean, Inv', Execute PROVE AckedMeansDelivered' /\ Phase'
<1>1. PICK len \in ResponseLengths : /\ out' = [out EXCEPT ![Palm] = Message(Palm, Len(executed) + 1, len)]
                                     /\ offset' = [offset EXCEPT ![Palm] = 0]
                                     /\ xid' = [xid EXCEPT ![Palm] = lastXid[Palm]]
  BY DEF Execute, Write
<1>2. /\ st' = [st EXCEPT ![Palm] = "send"] /\ executed' = Append(executed, got[Palm][1].number)
      /\ UNCHANGED <<wire, inbuf, msgLen, got, calls, blocked>> /\ st[Palm] = "execute"
  BY DEF Execute, Write, Goto, readVars
<1>3. /\ st'[Palm] = "send" /\ st'[PC] = st[PC] /\ out'[PC] = out[PC]
      /\ out'[Palm] = Message(Palm, Len(executed) + 1, len)
      /\ offset'[Palm] = 0 /\ offset'[PC] = offset[PC] /\ xid'[PC] = xid[PC]
  BY <1>1, <1>2, EndsFacts DEF Clean, Inv, TypeOK
<1>4. Len(out'[Palm]) = len /\ 0 < len
  <2>1. len \in Nat \ {0}
    OBVIOUS
  <2>2. \A from, n : Len(Message(from, n, len)) = len
    BY <2>1, MessageLength
  <2> QED
    BY <1>3, <2>1, <2>2
<1>5. AckedMeansDelivered'
  BY <1>2, <1>3, <1>4, DeliveredOK, EndsFacts
<1>6. Answering
  BY <1>2 DEF Clean, Phase, Requesting, Acking, Gone
<1>7. /\ st[PC] \in {"await", "read"} /\ wire[Palm] = <<>> /\ Palm \notin blocked /\ got[Palm] = out[PC]
  BY <1>2, <1>6 DEF Answering
<1>8. got[Palm][1].number = calls
  <2>1. out[PC] # <<>> /\ out[PC] \in Seq(Unit)
    BY <1>7, EndsFacts DEF Clean, Inv, EndOK, TypeOK
  <2>2. 1 \in DOMAIN out[PC]
    BY <2>1
  <2> QED
    BY <1>7, <2>2 DEF Clean, OrderOK, WrittenOK
<1>9. JustExecuted'
  <2>1. executed \in Seq(Nat) /\ calls \in Nat
    BY DEF Clean, Inv, TypeOK
  <2>2. PICK n \in Nat : n = Len(executed)
    BY <2>1
  <2>3. Len(executed') = n + 1 /\ executed'[n + 1] = calls
    BY <1>2, <1>8, <2>1, <2>2
  <2> QED
    BY <1>2, <2>3 DEF JustExecuted
<1>10. \A k \in {1, 2} : Trailing(k) => Trailing(k)'
  BY <1>2, <1>3 DEF Trailing
<1>11. CASE st[PC] = "await"
  <2>1. /\ offset[PC] + MaxPacket >= Len(out[PC]) /\ wire[PC] # <<>> /\ IsAck(wire[PC][1], PC)
        /\ Trailing(2) /\ PC \notin blocked
    BY <1>6, <1>11 DEF Answering
  <2>2. Answering'
    BY <1>2, <1>3, <1>7, <1>9, <1>10, <1>11, <2>1 DEF Answering, IsAck
  <2> QED
    BY <1>5, <2>2 DEF Phase
<1>12. CASE st[PC] = "read"
  <2>1. Trailing(1)
    BY <1>6, <1>12 DEF Answering
  <2>2. Reached(Palm, offset[Palm])'
    BY <1>2, <1>3, <1>4, <1>12, EndsFacts DEF Reached
  <2>3. Answering'
    BY <1>2, <1>3, <1>7, <1>9, <1>10, <1>12, <2>1, <2>2 DEF Answering
  <2> QED
    BY <1>5, <2>3 DEF Phase
<1> QED
  BY <1>7, <1>11, <1>12

(* While it does, it may tickle the PC.                                    *)
LEMMA TicklePhase == ASSUME Clean, Inv', Tickle PROVE AckedMeansDelivered' /\ Phase'
<1> DEFINE p == [type |-> "tickle", flags |-> {}, size |-> 0, xid |-> lastXid[Palm], body |-> <<>>]
<1>1. /\ p.type = "tickle" /\ wire' = [wire EXCEPT ![PC] = Append(@, p)] /\ st[Palm] = "execute"
      /\ UNCHANGED <<st, out, offset, xid, blocked, inbuf, msgLen, got, calls, executed>>
  BY DEF Tickle, readVars, dlpVars, writeVars, xidVars
<1> HIDE DEF p
<1>2. /\ wire'[PC] = Append(wire[PC], p) /\ wire'[Palm] = wire[Palm]
      /\ \A i \in DOMAIN wire'[PC] : \/ i \in DOMAIN wire[PC] /\ wire'[PC][i] = wire[PC][i]
                                     \/ i = Len(wire[PC]) + 1 /\ wire'[PC][i] = p
  BY <1>1, AppendedLine, EndsFacts DEF Clean
<1>3. AckedMeansDelivered'
  BY <1>1, DeliveredOK
<1>4. Answering
  BY <1>1 DEF Clean, Phase, Requesting, Acking, Gone
<1>5. \A k \in {1, 2} : Trailing(k) => Trailing(k)'
  BY <1>1, <1>2 DEF Trailing
<1>6. wire[PC] # <<>> => wire'[PC] # <<>> /\ wire'[PC][1] = wire[PC][1]
  <2>1. wire[PC] \in Seq(Packet) /\ wire'[PC] \in Seq(Packet)
    BY LineTypes, EndsFacts DEF Clean, Inv, WireOK
  <2>2. Len(wire'[PC]) = Len(wire[PC]) + 1
    BY <1>2, <2>1
  <2> QED
    BY <1>2, <2>1, <2>2
<1>7. Answering'
  BY <1>1, <1>2, <1>4, <1>5, <1>6 DEF Answering, IsAck, NotExecuted
<1> QED
  BY <1>3, <1>7 DEF Phase

(* The first packet of a line, and what is left without it.                *)
LEMMA HeadOfLine ==
    ASSUME Inv, NEW e \in Ends
    PROVE  /\ wire[e] # <<>> => Arrived(e) = wire[e][1]
           /\ Len(wire[e]) = 1 => wire[e] # <<>> /\ Arrived(e) = wire[e][1] /\ Tail(wire[e]) = <<>>
           /\ Len(wire[e]) = 2 => /\ wire[e] # <<>> /\ Arrived(e) = wire[e][1]
                                  /\ Len(Tail(wire[e])) = 1 /\ Tail(wire[e])[1] = wire[e][2]
<1>1. wire[e] \in Seq(Packet)
  BY DEF Inv, WireOK
<1> QED
  BY <1>1, FirstPacket, OneOnLine, TwoOnLine

(* Sending a fragment.                                                     *)
LEMMA SendPhase == ASSUME Clean, Inv', NEW e \in Ends, Send(e) PROVE AckedMeansDelivered' /\ Phase'
<1>1. /\ st[e] = "send" /\ st' = [st EXCEPT ![e] = "await"]
      /\ wire' = [wire EXCEPT ![Other(e)] = Append(@, Fragment(e))]
      /\ UNCHANGED <<out, offset, xid, blocked, inbuf, msgLen, got, calls, executed>>
  BY DEF Send, Goto, readVars, dlpVars, writeVars, xidVars
<1>2. st'[e] = "await" /\ st'[Other(e)] = st[Other(e)]
  BY <1>1, EndsFacts DEF Clean, Inv, TypeOK
<1>3. PICK p : p = Fragment(e)
  OBVIOUS
<1>4. Fragment(e)' = p /\ Fragment(Other(e))' = Fragment(Other(e)) /\ p.type = "data"
  BY <1>1, <1>3, SameFragment, FragmentFacts, EndsFacts DEF Clean
<1>5. /\ wire'[Other(e)] = Append(wire[Other(e)], p) /\ wire'[e] = wire[e]
      /\ \A i \in DOMAIN wire'[Other(e)] :
            \/ i \in DOMAIN wire[Other(e)] /\ wire'[Other(e)][i] = wire[Other(e)][i]
            \/ i = Len(wire[Other(e)]) + 1 /\ wire'[Other(e)][i] = p
  <2>1. PICK f \in Ends : f = Other(e) /\ Other(f) = e
    BY EndsFacts
  <2>2. wire' = [wire EXCEPT ![f] = Append(@, p)]
    BY <1>1, <1>3, <2>1
  <2>3. /\ wire'[f] = Append(wire[f], p) /\ wire'[Other(f)] = wire[Other(f)]
        /\ \A i \in DOMAIN wire'[f] : \/ i \in DOMAIN wire[f] /\ wire'[f][i] = wire[f][i]
                                      \/ i = Len(wire[f]) + 1 /\ wire'[f][i] = p
    BY <2>2, AppendedLine DEF Clean
  <2> QED
    BY <2>1, <2>3
<1>6. AckedMeansDelivered'
  BY <1>1, DeliveredOK
<1>7. /\ wire[Other(e)] = <<>> => Len(wire'[Other(e)]) = 1 /\ wire'[Other(e)][1] = p
      /\ Len(wire[Other(e)]) = 1 => /\ Len(wire'[Other(e)]) = 2 /\ wire'[Other(e)][2] = p
                                    /\ wire'[Other(e)][1] = wire[Other(e)][1]
                                    /\ wire'[Other(e)] # <<>>
  <2>1. wire[Other(e)] \in Seq(Packet)
    BY EndsFacts DEF Clean, Inv, WireOK
  <2> QED
    BY <1>5, <2>1, FirstOnLine, SecondOnLine
<1>8. CASE e = PC
  <2>1. CASE Requesting
    <3>1. /\ wire[PC] = <<>> /\ wire[Palm] = <<>> /\ st[Palm] \in {"read", "more"} /\ PC \notin blocked
          /\ NotExecuted /\ Reached(PC, offset[PC])
      BY <1>1, <1>8, <2>1 DEF Requesting
    <3>2. Reached(PC, offset[PC])'
      BY <1>1, <1>2, <1>8, <3>1, EndsFacts DEF Reached
    <3>3. Requesting'
      BY <1>1, <1>2, <1>4, <1>3, <1>5, <1>7, <1>8, <3>1, <3>2, EndsFacts DEF Requesting, NotExecuted
    <3> QED
      BY <1>6, <3>3 DEF Phase
  <2>2. CASE Acking
    <3>1. /\ st[Palm] = "await" /\ wire[PC] = <<>> /\ wire[Palm] # <<>> /\ IsAck(wire[Palm][1], Palm)
          /\ PC \notin blocked /\ Palm \notin blocked
          /\ offset[Palm] + MaxPacket >= Len(out[Palm]) /\ got[PC] = out[Palm]
          /\ NotExecuted /\ offset[PC] = 0 /\ Len(wire[Palm]) = 1
      BY <1>1, <1>8, <2>2 DEF Acking
    <3>2. Acking'
      BY <1>1, <1>2, <1>3, <1>4, <1>5, <1>7, <1>8, <3>1, EndsFacts DEF Acking, IsAck, NotExecuted
    <3> QED
      BY <1>6, <3>2 DEF Phase
  <2>3. CASE Gone
    BY <1>2, <1>5, <1>6, <1>8, <2>3, EndsFacts DEF Phase, Gone
  <2> QED
    BY <1>1, <1>8, <2>1, <2>2, <2>3 DEF Clean, Phase, Answering
<1>9. CASE e = Palm
  <2>1. Answering
    BY <1>1, <1>9 DEF Clean, Phase, Requesting, Acking, Gone
  <2>2. \A k \in {1, 2} : Trailing(k) => Trailing(k)'
    <3>1. wire[PC] \in Seq(Packet) /\ wire'[PC] \in Seq(Packet)
      BY LineTypes, EndsFacts DEF Clean, Inv, WireOK
    <3>2. Len(wire'[PC]) = Len(wire[PC]) + 1
      BY <1>5, <1>9, <3>1, EndsFacts
    <3> QED
      BY <1>1, <1>2, <1>3, <1>4, <1>5, <1>9, <3>2, EndsFacts DEF Trailing
  <2>3. wire[PC] # <<>> => wire'[PC] # <<>> /\ wire'[PC][1] = wire[PC][1]
    <3>1. wire[PC] \in Seq(Packet) /\ wire'[PC] \in Seq(Packet)
      BY LineTypes, EndsFacts DEF Clean, Inv, WireOK
    <3>2. Len(wire'[PC]) = Len(wire[PC]) + 1 /\ Len(wire[PC]) \in Nat
      BY <1>5, <1>9, <3>1, EndsFacts
    <3>3. wire[PC] # <<>> => 1 \in DOMAIN wire'[PC] /\ Len(wire[PC]) # 0 /\ wire'[PC] # <<>>
      BY <3>1, <3>2
    <3> QED
      BY <1>5, <1>9, <3>2, <3>3, EndsFacts
  <2>4. Reached(Palm, offset[Palm]) => Reached(Palm, offset[Palm])'
    BY <1>1, <1>2, <1>9, EndsFacts DEF Reached
  <2>5. Answering'
    BY <1>1, <1>2, <1>5, <1>9, <2>1, <2>2, <2>3, <2>4, EndsFacts DEF Answering, IsAck, JustExecuted
  <2> QED
    BY <1>6, <2>5 DEF Phase
<1> QED
  BY <1>8, <1>9, EndsFacts

(* An ACK is for the fragment that was sent.                               *)
LEMMA AckToPcPhase == ASSUME Clean, Inv', AckArrives(PC) PROVE AckedMeansDelivered' /\ Phase'
<1>1. /\ st[PC] = "await" /\ wire[PC] # <<>> /\ Arrived(PC).type = "ack"
      /\ wire' = [wire EXCEPT ![PC] = Tail(@)] /\ blocked' = blocked \ {PC}
      /\ UNCHANGED <<out, xid, inbuf, msgLen, got, calls, executed>>
  BY DEF AckArrives, Arrives, Arrived, Take, readVars, dlpVars, writeVars
<1>2. Arrived(PC) = wire[PC][1]
  BY <1>1, HeadOfLine, EndsFacts DEF Clean
<1>3. wire'[PC] = Tail(wire[PC]) /\ wire'[Palm] = wire[Palm] /\ Later(PC, 1)
  BY <1>1, TakenLine, EndsFacts DEF Clean
<1>4. PICK n, o \in Nat : n = Len(out[PC]) /\ o = offset[PC] /\ o < n
  BY <1>1, LineTypes DEF Clean
<1>5. ASSUME Arrived(PC).xid = xid[PC]
      PROVE  /\ offset'[PC] = o + MaxPacket /\ offset'[Palm] = offset[Palm] /\ st'[Palm] = st[Palm]
             /\ st'[PC] = IF o + MaxPacket < n THEN "send" ELSE "read"
  <2>1. offset' = [offset EXCEPT ![PC] = @ + MaxPacket]
        /\ st' = [st EXCEPT ![PC] = IF offset[PC] + MaxPacket < Len(out[PC]) THEN "send" ELSE "read"]
    BY <1>5 DEF AckArrives, Goto
  <2> QED
    BY <1>4, <2>1, EndsFacts DEF Clean, Inv, TypeOK
<1>6. CASE Requesting
  <2>1. /\ st[Palm] \in {"read", "more"} /\ wire[Palm] = <<>> /\ Len(wire[PC]) = 1
        /\ IsAck(wire[PC][1], PC) /\ Reached(PC, o + MaxPacket) /\ NotExecuted /\ PC \notin blocked
    BY <1>1, <1>4, <1>6 DEF Requesting
  <2>2. o + MaxPacket < n /\ Arrived(PC).xid = xid[PC]
    BY <1>2, <1>4, <2>1 DEF Reached, IsAck
  <2>3. st'[PC] = "send" /\ st'[Palm] = st[Palm] /\ offset'[PC] = o + MaxPacket /\ offset'[Palm] = offset[Palm]
    BY <1>5, <2>2
  <2>4. Reached(PC, offset[PC])'
    BY <1>1, <2>1, <2>3, EndsFacts DEF Reached
  <2>5. wire'[PC] = <<>>
    BY <1>3, <2>1, HeadOfLine, EndsFacts DEF Clean
  <2>6. Requesting'
    BY <1>1, <1>3, <2>1, <2>3, <2>4, <2>5 DEF Requesting, NotExecuted
  <2>7. offset'[PC] < Len(out'[PC])
    BY <1>1, <1>4, <2>2, <2>3
  <2>8. AckedMeansDelivered'
    BY <1>1, <2>3, <2>7, DeliveredOK, EndsFacts
  <2> QED
    BY <2>6, <2>8 DEF Phase
<1>7. CASE Answering
  <2>1. /\ st[Palm] \in {"execute", "send", "await"} /\ wire[Palm] = <<>> /\ Palm \notin blocked
        /\ got[Palm] = out[PC] /\ o + MaxPacket >= n /\ IsAck(wire[PC][1], PC) /\ Trailing(2)
        /\ st[Palm] = "execute" => NotExecuted
        /\ st[Palm] # "execute" => JustExecuted /\ offset[Palm] = 0
    BY <1>1, <1>4, <1>7 DEF Answering
  <2>2. Arrived(PC).xid = xid[PC] /\ ~(o + MaxPacket < n)
    BY <1>2, <1>4, <2>1 DEF IsAck
  <2>3. st'[PC] = "read" /\ st'[Palm] = st[Palm] /\ offset'[Palm] = offset[Palm]
    BY <1>5, <2>2
  <2>4. Fragment(Palm)' = Fragment(Palm)
    BY <1>1, <2>3, SameFragment, EndsFacts
  <2>5. Trailing(1)'
    <3>1. wire[PC] \in Seq(Packet) /\ wire'[PC] \in Seq(Packet) /\ wire[PC] # <<>>
      BY <1>1, EndsFacts DEF Clean, Inv, WireOK
    <3>2. /\ Len(wire'[PC]) = Len(wire[PC]) - 1 /\ DOMAIN wire'[PC] = 1 .. Len(wire'[PC])
          /\ Len(wire[PC]) \in Nat
      BY <1>3, <3>1
    <3>3. \A i \in DOMAIN wire'[PC] : i \in Nat /\ i + 1 \in DOMAIN wire[PC] /\ wire'[PC][i] = wire[PC][i + 1]
      BY <1>1, <1>3, <3>2, TakeType, EndsFacts DEF Clean
    <3>4. ASSUME NEW i \in DOMAIN wire'[PC]
          PROVE  \/ wire'[PC][i].type = "tickle"
                 \/ i = Len(wire'[PC]) /\ st[Palm] = "await" /\ wire'[PC][i] = Fragment(Palm)
      <4>1. i + 1 >= 2 /\ i + 1 \in DOMAIN wire[PC] /\ wire'[PC][i] = wire[PC][i + 1]
        BY <3>2, <3>3, <3>4
      <4>2. \/ wire[PC][i + 1].type = "tickle"
            \/ i + 1 = Len(wire[PC]) /\ st[Palm] = "await" /\ wire[PC][i + 1] = Fragment(Palm)
        BY <2>1, <4>1 DEF Trailing
      <4>3. i + 1 = Len(wire[PC]) => i = Len(wire'[PC])
        BY <3>2, <3>3
      <4> QED
        BY <4>1, <4>2, <4>3
    <3> QED
      BY <2>3, <2>4, <3>4 DEF Trailing
  <2>6. st'[Palm] # "execute" => Reached(Palm, offset[Palm])'
    <3>1. st[Palm] \in {"send", "await"} => offset[Palm] < Len(out[Palm])
      BY LineTypes DEF Clean
    <3> QED
      BY <1>1, <2>1, <2>3, <3>1, EndsFacts DEF Reached
  <2>7. Answering'
    BY <1>1, <1>3, <2>1, <2>3, <2>5, <2>6 DEF Answering, NotExecuted, JustExecuted
  <2>8. AckedMeansDelivered'
    BY <1>1, <2>1, <2>3, DeliveredOK, EndsFacts
  <2> QED
    BY <2>7, <2>8 DEF Phase
<1> QED
  BY <1>1, <1>6, <1>7 DEF Clean, Phase, Acking, Gone

LEMMA AckToPalmPhase == ASSUME Clean, Inv', AckArrives(Palm) PROVE AckedMeansDelivered' /\ Phase'
<1>1. /\ st[Palm] = "await" /\ wire[Palm] # <<>>
      /\ wire' = [wire EXCEPT ![Palm] = Tail(@)] /\ blocked' = blocked \ {Palm}
      /\ UNCHANGED <<out, xid, inbuf, msgLen, got, calls, executed>>
  BY DEF AckArrives, Arrives, Arrived, Take, readVars, dlpVars, writeVars
<1>2. Arrived(Palm) = wire[Palm][1]
  BY <1>1, HeadOfLine, EndsFacts DEF Clean
<1>3. wire'[Palm] = Tail(wire[Palm]) /\ wire'[PC] = wire[PC]
  BY <1>1, TakenLine, EndsFacts DEF Clean
<1>4. PICK n, o \in Nat : n = Len(out[Palm]) /\ o = offset[Palm] /\ o < n
  BY <1>1, LineTypes DEF Clean
<1>5. Acking
  BY <1>1 DEF Clean, Phase, Requesting, Answering, Gone
<1>6. /\ wire[PC] = <<>> /\ IsAck(wire[Palm][1], Palm) /\ PC \notin blocked /\ Palm \notin blocked
  BY <1>5 DEF Acking
<1>7. /\ offset'[Palm] = o + MaxPacket /\ offset'[PC] = offset[PC] /\ st'[PC] = st[PC]
      /\ st'[Palm] = IF o + MaxPacket < n THEN "send" ELSE "read"
  <2>1. offset' = [offset EXCEPT ![Palm] = @ + MaxPacket]
        /\ st' = [st EXCEPT ![Palm] = IF offset[Palm] + MaxPacket < Len(out[Palm]) THEN "send" ELSE "read"]
    BY <1>2, <1>6 DEF AckArrives, Goto, IsAck
  <2> QED
    BY <1>4, <2>1, EndsFacts DEF Clean, Inv, TypeOK
<1>8. CASE st[PC] = "more"
  <2>1. Len(wire[Palm]) = 1 /\ Reached(Palm, o + MaxPacket) /\ got[Palm] = out[PC] /\ JustExecuted
    BY <1>4, <1>5, <1>8 DEF Acking
  <2>2. o + MaxPacket < n
    BY <1>4, <2>1 DEF Reached
  <2>3. st'[Palm] = "send" /\ wire'[Palm] = <<>>
    BY <1>3, <1>7, <2>1, <2>2, HeadOfLine, EndsFacts DEF Clean
  <2>4. Reached(Palm, offset[Palm])'
    BY <1>1, <1>7, <2>1, EndsFacts DEF Reached
  <2>5. Trailing(1)'
    BY <1>3, <1>6 DEF Trailing
  <2>6. Answering'
    BY <1>1, <1>3, <1>6, <1>7, <1>8, <2>1, <2>3, <2>4, <2>5 DEF Answering, JustExecuted
  <2>7. offset'[Palm] < Len(out'[Palm])
    BY <1>1, <1>4, <1>7, <2>2
  <2>8. AckedMeansDelivered'
    BY <1>1, <1>7, <2>7, DeliveredOK, EndsFacts
  <2> QED
    BY <2>6, <2>8 DEF Phase
<1>9. CASE st[PC] \in {"idle", "send", "await"}
  <2>1. /\ o + MaxPacket >= n /\ got[PC] = out[Palm]
        /\ st[PC] # "idle" => NotExecuted /\ offset[PC] = 0
        /\ \/ st[PC] # "await" /\ Len(wire[Palm]) = 1
           \/ st[PC] = "await" /\ Len(wire[Palm]) = 2 /\ wire[Palm][2] = Fragment(PC)
    BY <1>4, <1>5, <1>9 DEF Acking
  <2>2. st'[Palm] = "read"
    BY <1>4, <1>7, <2>1
  <2>3. /\ st[PC] # "await" => wire'[Palm] = <<>>
        /\ st[PC] = "await" => Len(wire'[Palm]) = 1 /\ wire'[Palm][1] = Fragment(PC)
    BY <1>3, <2>1, HeadOfLine, EndsFacts DEF Clean
  <2>4. Fragment(PC)' = Fragment(PC)
    BY <1>1, <1>7, SameFragment, EndsFacts
  <2>5. st'[PC] \in {"send", "await"} => Reached(PC, offset[PC])'
    <3>1. st[PC] \in {"send", "await"} => offset[PC] < Len(out[PC])
      BY LineTypes DEF Clean
    <3> QED
      BY <1>1, <1>7, <2>1, <2>2, <3>1, EndsFacts DEF Reached
  <2>6. Requesting'
    BY <1>1, <1>3, <1>6, <1>7, <1>9, <2>1, <2>2, <2>3, <2>4, <2>5 DEF Requesting, NotExecuted
  <2>7. AckedMeansDelivered'
    BY <1>1, <1>7, <2>1, DeliveredOK, EndsFacts
  <2> QED
    BY <2>6, <2>7 DEF Phase
<1> QED
  BY <1>5, <1>8, <1>9 DEF Acking

(* Nothing else comes instead of an ACK.                                   *)
LEMMA AwaitedIsAck ==
    ASSUME Clean, NEW e \in Ends, st[e] = "await", wire[e] # <<>> PROVE Arrived(e).type = "ack"
<1>1. Arrived(e) = wire[e][1]
  BY HeadOfLine DEF Clean
<1>2. IsAck(wire[e][1], e)
  <2>1. CASE e = PC
    BY <2>1 DEF Clean, Phase, Requesting, Answering, Acking, Gone
  <2>2. CASE e = Palm
    BY <2>2 DEF Clean, Phase, Requesting, Answering, Acking, Gone
  <2> QED
    BY <2>1, <2>2, EndsFacts
<1> QED
  BY <1>1, <1>2 DEF IsAck

LEMMA NothingInsteadOfAck ==
    ASSUME Clean, NEW e \in Ends PROVE ~DataInsteadOfAck(e) /\ ~TickleInsteadOfAck(e)
BY AwaitedIsAck DEF DataInsteadOfAck, TickleInsteadOfAck, Arrives, Arrived

(* A timer that expires in time: the other end has nothing to acknowledge. *)
LEMMA AckTimeoutPhase ==
    ASSUME Clean, Inv', NEW e \in Ends, AckTimeout(e), ~doubt'
    PROVE  AckedMeansDelivered' /\ Phase'
<1>1. /\ st[e] = "await" /\ wire[e] = <<>>
      /\ Quiet(e, {"idle", "execute", "dead"}, {"send"})
      /\ UNCHANGED <<wire, out, offset, xid, blocked, inbuf, msgLen, got, calls, executed>>
  BY DEF AckTimeout, Expire, readVars, dlpVars, xidVars
<1>2. st' = [st EXCEPT ![e] = "send"] \/ st' = [st EXCEPT ![e] = "dead"]
  BY DEF AckTimeout, Goto
<1>3. st'[e] \in {"send", "dead"} /\ st'[Other(e)] = st[Other(e)]
  BY <1>2, EndsFacts DEF Clean, Inv, TypeOK
<1>4. AckedMeansDelivered'
  BY <1>1, DeliveredOK
<1>5. CASE e = PC
  <2>1. \/ st[Palm] \in {"idle", "execute", "dead"}
        \/ wire[Palm] = <<>> /\ (st[Palm] # "send" \/ Palm \in blocked)
    BY <1>1, <1>5, EndsFacts DEF Quiet
  <2>2. CASE Requesting
    <3>1. /\ st[Palm] \in {"read", "more"} /\ wire[Palm] = <<>> /\ NotExecuted /\ PC \notin blocked
          /\ Reached(PC, offset[PC])
      BY <1>1, <1>5, <2>1, <2>2 DEF Requesting
    <3>2. Reached(PC, offset[PC])'
      BY <1>1, <1>3, <1>5, <3>1, EndsFacts DEF Reached
    <3>3. Requesting'
      BY <1>1, <1>3, <1>5, <3>1, <3>2, EndsFacts DEF Requesting, NotExecuted
    <3> QED
      BY <1>4, <3>3 DEF Phase
  <2>3. CASE Gone
    BY <1>1, <1>3, <1>4, <1>5, <2>3, EndsFacts DEF Phase, Gone
  <2> QED
    BY <1>1, <1>5, <2>1, <2>2, <2>3 DEF Clean, Phase, Answering, Acking
<1>6. CASE e = Palm
  <2>1. Answering
    BY <1>1, <1>6 DEF Clean, Phase, Requesting, Acking, Gone
  <2>2. \/ st[PC] \in {"idle", "execute", "dead"}
        \/ wire[PC] = <<>> /\ (st[PC] # "send" \/ PC \in blocked)
    BY <1>1, <1>6, EndsFacts DEF Quiet
  <2>3. /\ st[PC] \in {"read", "more"} /\ wire[PC] = <<>> /\ wire[Palm] = <<>> /\ Palm \notin blocked
        /\ got[Palm] = out[PC] /\ JustExecuted /\ Reached(Palm, offset[Palm])
    BY <1>1, <1>6, <2>1, <2>2 DEF Answering
  <2>4. CASE st'[Palm] = "send"
    <3>1. Reached(Palm, offset[Palm])'
      BY <1>1, <1>3, <1>6, <2>3, EndsFacts DEF Reached
    <3>2. Trailing(1)'
      BY <1>1, <2>3 DEF Trailing
    <3>3. Answering'
      BY <1>1, <1>3, <1>6, <2>3, <2>4, <3>1, <3>2, EndsFacts DEF Answering, JustExecuted
    <3> QED
      BY <1>4, <3>3 DEF Phase
  <2>5. CASE st'[Palm] = "dead"
    BY <1>1, <1>3, <1>4, <1>6, <2>3, <2>5, EndsFacts DEF Phase, Gone
  <2> QED
    BY <1>3, <1>6, <2>4, <2>5
<1> QED
  BY <1>5, <1>6, EndsFacts

(* The PC has nothing to answer any more when a read times out in time.    *)
LEMMA ReadTimeoutPhase ==
    ASSUME Clean, Inv', NEW e \in Ends, ReadTimeout(e), ~doubt'
    PROVE  AckedMeansDelivered' /\ Phase'
<1>1. /\ st[e] = "more" \/ (st[e] = "read" /\ e = PC)
      /\ wire[e] = <<>> /\ Quiet(e, {"idle", "dead"}, {"send", "await", "execute"})
      /\ UNCHANGED <<wire, blocked, inbuf, msgLen, got, calls, executed>>
  BY DEF ReadTimeout, Expire, readVars
<1>2. CASE e = PC
  <2>1. \/ st[Palm] \in {"idle", "dead"}
        \/ wire[Palm] = <<>> /\ (st[Palm] \notin {"send", "await", "execute"} \/ Palm \in blocked)
    BY <1>1, <1>2, EndsFacts DEF Quiet
  <2>2. st[PC] \in {"read", "more"}
    BY <1>1, <1>2
  <2>3. Gone
    <3>1. ~Requesting
      BY <2>2 DEF Requesting
    <3>2. ~Answering
      BY <2>1 DEF Answering
    <3>3. ~Acking
      BY <2>1 DEF Acking
    <3> QED
      BY <3>1, <3>2, <3>3 DEF Clean, Phase
  <2>4. \/ /\ st' = [st EXCEPT ![PC] = "send"] /\ out' = [out EXCEPT ![PC] = out[PC]]
           /\ offset' = [offset EXCEPT ![PC] = 0]
        \/ st' = [st EXCEPT ![PC] = "dead"] /\ UNCHANGED <<out, offset>>
    BY <1>2 DEF ReadTimeout, Retry, Write, Goto, writeVars
  <2>5. /\ st'[PC] \in {"send", "dead"} /\ st'[Palm] = st[Palm]
        /\ out'[PC] = out[PC] /\ out'[Palm] = out[Palm]
        /\ offset'[PC] \in {0, offset[PC]} /\ offset'[Palm] = offset[Palm]
    <3>1. PC \in Ends /\ Palm \in Ends /\ Palm # PC
      BY EndsFacts
    <3>2. /\ st \in [Ends -> States] /\ DOMAIN out = Ends /\ DOMAIN offset = Ends
      BY DEF Clean, Inv, TypeOK
    <3> QED
      BY <2>4, <3>1, <3>2
  <2>6. Len(out[PC]) > 0
    <3>1. out[PC] # <<>> /\ out[PC] \in Seq(Unit)
      BY <2>2, EndsFacts DEF Clean, Inv, EndOK, TypeOK
    <3> QED
      BY <3>1
  <2>7. AckedMeansDelivered'
    BY <1>1, <2>5, <2>6, DeliveredOK, EndsFacts
  <2> QED
    BY <1>1, <2>3, <2>5, <2>7 DEF Phase, Gone
<1>3. CASE e = Palm
  <2>1. st[Palm] = "more" /\ wire[Palm] = <<>>
    BY <1>1, <1>3, EndsFacts
  <2>2. \/ st[PC] \in {"idle", "dead"}
        \/ wire[PC] = <<>> /\ (st[PC] \notin {"send", "await", "execute"} \/ PC \in blocked)
    BY <1>1, <1>3, EndsFacts DEF Quiet
  <2>3. Requesting
    BY <2>1 DEF Clean, Phase, Answering, Acking, Gone
  <2>4. st[PC] = "dead" /\ wire[PC] = <<>> /\ PC \notin blocked
    BY <2>1, <2>2, <2>3 DEF Requesting
  <2>5. st' = [st EXCEPT ![Palm] = "read"] /\ UNCHANGED <<out, offset>>
    BY <1>3, EndsFacts DEF ReadTimeout, Failed, Goto, writeVars
  <2>6. st'[Palm] = "read" /\ st'[PC] = st[PC]
    BY <2>5, EndsFacts DEF Clean, Inv, TypeOK
  <2>7. AckedMeansDelivered'
    BY <1>1, <2>5, DeliveredOK
  <2>8. Requesting'
    BY <1>1, <2>1, <2>4, <2>6 DEF Requesting
  <2> QED
    BY <2>7, <2>8 DEF Phase
<1> QED
  BY <1>2, <1>3, EndsFacts

(* What is left of the line to the PC when its first packet is gone.       *)
LEMMA TrailingTail ==
    ASSUME Clean, Inv', Trailing(1), wire[PC] # <<>>, wire' = [wire EXCEPT ![PC] = Tail(@)],
           UNCHANGED <<st, out, offset, xid>>
    PROVE  Trailing(1)'
<1>1. wire'[PC] = Tail(wire[PC]) /\ wire[PC] \in Seq(Packet) /\ wire'[PC] \in Seq(Packet)
  BY TakenLine, EndsFacts DEF Clean, Inv, WireOK
<1>2. /\ Len(wire'[PC]) = Len(wire[PC]) - 1 /\ DOMAIN wire'[PC] = 1 .. Len(wire'[PC])
      /\ Len(wire[PC]) \in Nat
  <2>1. Len(Tail(wire[PC])) = Len(wire[PC]) - 1
    BY <1>1, HeadTailProperties
  <2>2. DOMAIN wire'[PC] = 1 .. Len(wire'[PC]) /\ Len(wire[PC]) \in Nat
    BY <1>1, LenProperties
  <2> QED
    BY <1>1, <2>1, <2>2
<1>3. \A i \in DOMAIN wire'[PC] : i \in Nat /\ i + 1 \in DOMAIN wire[PC] /\ wire'[PC][i] = wire[PC][i + 1]
  BY <1>1, <1>2, TakeType, EndsFacts DEF Clean
<1>4. Fragment(Palm)' = Fragment(Palm)
  BY SameFragment, EndsFacts
<1>5. ASSUME NEW i \in DOMAIN wire'[PC]
      PROVE  \/ wire'[PC][i].type = "tickle"
             \/ i = Len(wire'[PC]) /\ st[Palm] = "await" /\ wire'[PC][i] = Fragment(Palm)
  <2>1. i + 1 >= 1 /\ i + 1 \in DOMAIN wire[PC] /\ wire'[PC][i] = wire[PC][i + 1]
    BY <1>2, <1>3, <1>5
  <2>2. \/ wire[PC][i + 1].type = "tickle"
        \/ i + 1 = Len(wire[PC]) /\ st[Palm] = "await" /\ wire[PC][i + 1] = Fragment(Palm)
    BY <2>1 DEF Trailing
  <2>3. i + 1 = Len(wire[PC]) => i = Len(wire'[PC])
    BY <1>2, <1>3
  <2> QED
    BY <2>1, <2>2, <2>3
<1> QED
  BY <1>4, <1>5 DEF Trailing

(* A packet leaves the line that is no ACK, and has no effect.             *)
LEMMA DropPhase ==
    ASSUME Clean, Inv', NEW e \in Ends, wire[e] # <<>>, wire' = [wire EXCEPT ![e] = Tail(@)],
           \/ Arrived(e).type # "ack"
           \/ st[e] \in {"read", "more"},
           UNCHANGED <<st, out, offset, xid, inbuf, msgLen, got, calls, executed>>,
           blocked' \subseteq blocked \cup {e}
    PROVE  AckedMeansDelivered' /\ Phase'
<1>1. /\ wire'[e] = Tail(wire[e]) /\ wire'[Other(e)] = wire[Other(e)]
      /\ Arrived(e) = wire[e][1]
  BY TakenLine, HeadOfLine DEF Clean
<1>2. AckedMeansDelivered'
  BY DeliveredOK
<1>3. \A f \in Ends : Fragment(f)' = Fragment(f)
  BY SameFragment
<1>4. CASE Requesting
  <2>1. e = Palm /\ st[PC] = "await" /\ wire[PC] = <<>> /\ Len(wire[Palm]) = 1
    BY <1>1, <1>4, EndsFacts DEF Requesting, IsAck
  <2>2. wire'[Palm] = <<>> /\ wire'[PC] = <<>> /\ PC \notin blocked'
    BY <1>1, <1>4, <2>1, HeadOfLine, EndsFacts DEF Clean, Requesting
  <2>3. Reached(PC, offset[PC])'
    BY <1>4, <2>1 DEF Requesting, Reached
  <2>4. Requesting'
    BY <1>4, <2>1, <2>2, <2>3 DEF Requesting, NotExecuted
  <2> QED
    BY <1>2, <2>4 DEF Phase
<1>5. CASE Answering
  <2>1. e = PC /\ wire[Palm] = <<>> /\ Palm \notin blocked /\ st[PC] # "await"
    BY <1>1, <1>5, EndsFacts DEF Answering, IsAck
  <2>2. Trailing(1)'
    BY <1>5, <2>1, TrailingTail DEF Answering
  <2>3. wire'[Palm] = <<>> /\ Palm \notin blocked'
    BY <1>1, <2>1, EndsFacts
  <2>4. Reached(Palm, offset[Palm]) => Reached(Palm, offset[Palm])'
    BY DEF Reached
  <2>5. Answering'
    BY <1>5, <2>1, <2>2, <2>3, <2>4 DEF Answering, NotExecuted, JustExecuted
  <2> QED
    BY <1>2, <2>5 DEF Phase
<1>6. CASE Acking
  <2>1. wire[PC] = <<>> /\ IsAck(wire[Palm][1], Palm) /\ st[Palm] = "await"
    BY <1>6 DEF Acking
  <2> QED
    BY <1>1, <2>1, EndsFacts DEF IsAck
<1>7. CASE Gone
  <2>1. e = Palm /\ wire'[PC] = <<>>
    BY <1>1, <1>7, EndsFacts DEF Gone
  <2> QED
    BY <1>2, <1>7, <2>1 DEF Phase, Gone
<1> QED
  BY <1>4, <1>5, <1>6, <1>7 DEF Clean, Phase

LEMMA LosePhase ==
    ASSUME Clean, Inv', NEW e \in Ends, Lose(e) \/ Damage(e), ~doubt'
    PROVE  AckedMeansDelivered' /\ Phase'
<1>1. /\ wire[e] # <<>> /\ wire' = [wire EXCEPT ![e] = Tail(@)] /\ Arrived(e).type # "ack"
      /\ UNCHANGED <<st, out, offset, xid, inbuf, msgLen, got, calls, executed>>
      /\ blocked' \subseteq blocked \cup {e}
  BY DEF Lose, Damage, readVars, dlpVars, writeVars, xidVars
<1> QED
  BY <1>1, DropPhase

LEMMA ReadRetryPhase ==
    ASSUME Clean, Inv', NEW e \in Ends, ReadRetry(e) PROVE AckedMeansDelivered' /\ Phase'
<1>1. /\ wire[e] # <<>> /\ wire' = [wire EXCEPT ![e] = Tail(@)] /\ st[e] \in {"read", "more"}
      /\ UNCHANGED <<st, out, offset, xid, inbuf, msgLen, got, calls, executed>>
      /\ blocked' \subseteq blocked \cup {e}
  BY DEF ReadRetry, Arrives, Take, readVars, dlpVars, writeVars
<1> QED
  BY <1>1, DropPhase

(* The first fragment, and the only one if the message is short.           *)
LEMMA FirstPart ==
    ASSUME Inv, NEW e \in Ends, st[e] = "await", NEW f, f = Fragment(e),
           offset[e] = 0, NEW n, n = Len(out[e])
    PROVE  /\ n \in Nat /\ n > 0 /\ f.size = n
           /\ f.flags = {FIRST, LAST} <=> n <= MaxPacket
           /\ n <= MaxPacket => f.body = out[e]
           /\ n > MaxPacket => f.body = SubSeq(out[e], 1, MaxPacket)
<1>1. /\ n \in Nat /\ n > 0 /\ f.size = n
      /\ f.flags = {FIRST, LAST} <=> n <= MaxPacket
      /\ f.body = SubSeq(out[e], 1, IF n <= MaxPacket THEN n ELSE MaxPacket)
  <2>1. offset[e] + MaxPacket = MaxPacket /\ offset[e] + 1 = 1
    OBVIOUS
  <2>2. /\ n \in Nat /\ n > 0
        /\ f.flags = {FIRST, LAST} <=> offset[e] = 0 /\ n <= MaxPacket
        /\ f.size = IF offset[e] = 0 THEN n ELSE offset[e]
        /\ f.body = SubSeq(out[e], offset[e] + 1,
                           IF n <= offset[e] + MaxPacket THEN n ELSE offset[e] + MaxPacket)
    BY FragmentFacts
  <2> QED
    BY <2>1, <2>2
<1>2. SubSeq(out[e], 1, n) = out[e]
  <2>1. out[e] \in Seq(Unit)
    BY DEF Inv, TypeOK
  <2> QED
    BY <2>1, WholePrefix
<1> QED
  BY <1>1, <1>2

(* The next one; with the last one the message is complete.                *)
LEMMA NextPart ==
    ASSUME Inv, NEW e \in Ends, st[e] = "await", offset[e] # 0
    PROVE  /\ Fragment(e).size = offset[e] /\ FIRST \notin Fragment(e).flags
           /\ Len(SubSeq(out[e], 1, offset[e])) = offset[e]
           /\ LAST \in Fragment(e).flags <=> Len(out[e]) <= offset[e] + MaxPacket
           /\ Len(out[e]) <= offset[e] + MaxPacket =>
                 Buffer(SubSeq(out[e], 1, offset[e]) \o Fragment(e).body, Len(out[e])) = out[e]
           /\ Len(out[e]) > offset[e] + MaxPacket =>
                 SubSeq(out[e], 1, offset[e]) \o Fragment(e).body
                     = SubSeq(out[e], 1, offset[e] + MaxPacket)
<1>0. PICK f, n, o : f = Fragment(e) /\ n = Len(out[e]) /\ o = offset[e] /\ o # 0
  OBVIOUS
<1>8. PICK s, w : s = SubSeq(out[e], 1, o) /\ w = s \o f.body
  OBVIOUS
<1>1. /\ n \in Nat /\ o \in Nat /\ o < n /\ f.size = o /\ FIRST \notin f.flags
      /\ LAST \in f.flags <=> n <= o + MaxPacket
      /\ f.body = SubSeq(out[e], o + 1, IF n <= o + MaxPacket THEN n ELSE o + MaxPacket)
  BY <1>0, FragmentFacts
<1>2. out[e] \in Seq(Unit)
  BY DEF Inv, TypeOK
<1>3. ASSUME NEW m \in Nat, o <= m, m <= n
      PROVE  /\ SubSeq(out[e], 1, o) \o SubSeq(out[e], o + 1, m) = SubSeq(out[e], 1, m)
             /\ Len(SubSeq(out[e], 1, o)) = o
  <2>1. m <= Len(out[e]) /\ o \in Nat
    BY <1>0, <1>1, <1>3
  <2>2. SubSeq(out[e], 1, o) \o SubSeq(out[e], o + 1, m) = SubSeq(out[e], 1, m)
    BY ONLY <1>2, <1>3, <2>1, LongerPrefix
  <2>3. Len(SubSeq(out[e], 1, o)) = o
    BY ONLY <1>2, <1>3, <2>1, LongerPrefix
  <2> QED
    BY <2>2, <2>3
<1>4. Len(s) = o
  <2>1. o <= n /\ n <= n
    BY <1>1
  <2> QED
    BY <1>1, <1>3, <1>8, <2>1
<1>5. ASSUME n <= o + MaxPacket PROVE Buffer(w, n) = out[e]
  <2>1. w = SubSeq(out[e], 1, n)
    <3>1. n <= n /\ o <= n
      BY <1>1
    <3>2. f.body = SubSeq(out[e], o + 1, n)
      BY <1>1, <1>5
    <3>3. SubSeq(out[e], 1, o) \o SubSeq(out[e], o + 1, n) = SubSeq(out[e], 1, n)
      BY <1>1, <1>3, <3>1
    <3> QED
      BY <1>8, <3>2, <3>3
  <2>2. SubSeq(out[e], 1, n) = out[e] /\ Buffer(out[e], n) = out[e]
    BY <1>0, <1>2, WholePrefix
  <2> QED
    BY <2>1, <2>2
<1>6. ASSUME n > o + MaxPacket PROVE w = SubSeq(out[e], 1, o + MaxPacket)
  <2>1. o + MaxPacket \in Nat /\ o <= o + MaxPacket /\ o + MaxPacket <= n
    BY <1>1, <1>6
  <2>2. ~(n <= o + MaxPacket)
    BY <1>1, <1>6
  <2>3. f.body = SubSeq(out[e], o + 1, o + MaxPacket)
    BY <1>1, <2>2
  <2>4. SubSeq(out[e], 1, o) \o SubSeq(out[e], o + 1, o + MaxPacket) = SubSeq(out[e], 1, o + MaxPacket)
    BY <1>3, <2>1
  <2> QED
    BY <1>8, <2>3, <2>4
<1> QED
  BY <1>0, <1>1, <1>4, <1>5, <1>6, <1>8

(* When a fragment has been read, its ACK is on the way: the reader has    *)
(* more of the message, or all of it.                                      *)
LEMMA PartRead ==
    ASSUME Clean, NEW e \in Ends, NEW r \in Ends, r = Other(e), st[e] = "await",
           Len(wire[r]) = 1, wire[r][1] = Fragment(e), wire[e] = <<>>,
           NEW n, n = Len(out[e]), NEW o, o = offset[e], Reached(e, o),
           ReadFirst(r) \/ ReadMore(r)
    PROVE  /\ n \in Nat /\ o \in Nat /\ o < n
           /\ wire'[r] = <<>> /\ Len(wire'[e]) = 1 /\ wire'[e] # <<>> /\ IsAck(wire'[e][1], e)
           /\ st'[e] = st[e] /\ xid'[e] = xid[e] /\ got'[e] = got[e] /\ blocked' = blocked \ {r}
           /\ UNCHANGED <<out, offset, calls, executed>>
           /\ \/ /\ o + MaxPacket >= n /\ got'[r] = out[e]
                 /\ st'[r] = IF r = Palm THEN "execute" ELSE "idle"
              \/ /\ o + MaxPacket < n /\ got'[r] = got[r] /\ st'[r] = "more"
                 /\ inbuf'[r] = SubSeq(out[e], 1, o + MaxPacket) /\ msgLen'[r] = n
<1>1. PICK f : f = Fragment(e)
  OBVIOUS
<1>2. Inv /\ Other(r) = e /\ r # e /\ wire[r] # <<>> /\ Arrived(r) = f /\ Tail(wire[r]) = <<>>
  BY <1>1, HeadOfLine, EndsFacts DEF Clean
<1>3. PICK a : a = Ack(f)
  OBVIOUS
<1>4. IsAck(a, e)
  <2>1. f.xid = xid[e]
    BY <1>1, <1>2, FragmentFacts
  <2> QED
    BY <1>3, <2>1 DEF Ack, IsAck
<1>5. n \in Nat /\ o \in Nat /\ o < n
  BY <1>1, <1>2, FragmentFacts
<1>6. ASSUME TakeAndAck(r)
      PROVE  /\ wire'[r] = <<>> /\ Len(wire'[e]) = 1 /\ wire'[e] # <<>> /\ IsAck(wire'[e][1], e)
             /\ blocked' = blocked \ {r}
  <2>1. wire'[r] = <<>> /\ wire'[e] = Append(<<>>, a)
    BY <1>2, <1>3, <1>6, AckedLine DEF TakeAndAck
  <2>2. Len(wire'[e]) = 1 /\ wire'[e][1] = a /\ wire'[e] # <<>>
    BY <2>1, FirstOnLine
  <2> QED
    BY <1>4, <1>6, <2>1, <2>2 DEF TakeAndAck
<1>7. ASSUME xid' = [xid EXCEPT ![r] = Arrived(r).xid] PROVE xid'[e] = xid[e]
  BY <1>2, <1>7 DEF Inv, TypeOK
<1>8. UNCHANGED <<out, offset, calls, executed>>
  BY DEF ReadFirst, ReadMore, writeVars
<1>9. CASE ReadFirst(r)
  <2>1. /\ st[r] = "read" /\ TakeAndAck(r) /\ xid' = [xid EXCEPT ![r] = Arrived(r).xid]
        /\ IF f.flags = {FIRST, LAST}
           THEN /\ got' = [got EXCEPT ![r] = f.body]
                /\ st' = [st EXCEPT ![r] = IF r = Palm THEN "execute" ELSE "idle"]
           ELSE /\ st' = [st EXCEPT ![r] = "more"] /\ UNCHANGED got
                /\ inbuf' = [inbuf EXCEPT ![r] = f.body] /\ msgLen' = [msgLen EXCEPT ![r] = f.size]
    BY <1>2, <1>9, EndsFacts DEF ReadFirst, Return, Goto
  <2>2. /\ o = 0 /\ f.size = n
        /\ f.flags = {FIRST, LAST} <=> n <= MaxPacket
        /\ n <= MaxPacket => f.body = out[e]
        /\ n > MaxPacket => f.body = SubSeq(out[e], 1, MaxPacket)
    BY <1>1, <1>2, <2>1, FirstPart DEF Reached
  <2>3. st'[e] = st[e] /\ got'[e] = got[e]
    BY <1>2, <2>1 DEF Inv, TypeOK
  <2>4. CASE n <= MaxPacket
    <3>1. got'[r] = out[e] /\ st'[r] = IF r = Palm THEN "execute" ELSE "idle"
      BY <1>2, <2>1, <2>2, <2>4 DEF Inv, TypeOK
    <3>2. o + MaxPacket >= n
      BY <1>5, <2>2, <2>4
    <3> QED
      BY <1>5, <1>6, <1>7, <1>8, <2>1, <2>3, <3>1, <3>2
  <2>5. CASE n > MaxPacket
    <3>1. ~(n <= MaxPacket)
      BY <1>5, <2>5
    <3>2. got'[r] = got[r] /\ st'[r] = "more" /\ inbuf'[r] = SubSeq(out[e], 1, MaxPacket) /\ msgLen'[r] = n
      BY <1>2, <2>1, <2>2, <2>5, <3>1 DEF Inv, TypeOK
    <3>3. o + MaxPacket < n /\ o + MaxPacket = MaxPacket
      BY <1>5, <2>2, <2>5
    <3> QED
      BY <1>5, <1>6, <1>7, <1>8, <2>1, <2>3, <3>2, <3>3
  <2> QED
    BY <1>5, <2>4, <2>5
<1>10. CASE ReadMore(r)
  <2>0. PICK soFar : soFar = inbuf[r] \o f.body
    OBVIOUS
  <2>1. st[r] = "more"
    BY <1>10 DEF ReadMore
  <2>2. o # 0 /\ inbuf[r] = SubSeq(out[e], 1, o) /\ msgLen[r] = n
    BY <2>1 DEF Reached
  <2>3. /\ f.size = o /\ FIRST \notin f.flags /\ Len(inbuf[r]) = o
        /\ LAST \in f.flags <=> n <= o + MaxPacket
        /\ n <= o + MaxPacket => Buffer(soFar, n) = out[e]
        /\ n > o + MaxPacket => soFar = SubSeq(out[e], 1, o + MaxPacket)
    <3>1. st[e] = "await" /\ offset[e] # 0 /\ inbuf[r] = SubSeq(out[e], 1, offset[e])
      BY <2>2
    <3> QED
      BY <1>1, <1>2, <2>0, <3>1, NextPart
  <2>4. /\ TakeAndAck(r) /\ xid' = [xid EXCEPT ![r] = Arrived(r).xid]
        /\ inbuf' = [inbuf EXCEPT ![r] = soFar] /\ UNCHANGED msgLen
        /\ IF LAST \in f.flags
           THEN /\ got' = [got EXCEPT ![r] = Buffer(soFar, n)]
                /\ st' = [st EXCEPT ![r] = IF r = Palm THEN "execute" ELSE "idle"]
           ELSE UNCHANGED <<st, got>>
    BY <1>2, <1>10, <2>0, <2>2, <2>3, EndsFacts DEF ReadMore, Return, Goto
  <2>5. st'[e] = st[e] /\ got'[e] = got[e] /\ inbuf'[r] = soFar /\ msgLen'[r] = n
    BY <1>2, <2>2, <2>4 DEF Inv, TypeOK
  <2>6. CASE n <= o + MaxPacket
    <3>1. got'[r] = out[e] /\ st'[r] = IF r = Palm THEN "execute" ELSE "idle"
      BY <1>2, <2>3, <2>4, <2>6 DEF Inv, TypeOK
    <3>2. o + MaxPacket >= n
      BY <1>5, <2>6
    <3> QED
      BY <1>5, <1>6, <1>7, <1>8, <2>4, <2>5, <3>1, <3>2
  <2>7. CASE n > o + MaxPacket
    <3>1. ~(n <= o + MaxPacket) /\ o + MaxPacket < n
      BY <1>5, <2>7
    <3>2. got'[r] = got[r] /\ st'[r] = "more" /\ inbuf'[r] = SubSeq(out[e], 1, o + MaxPacket)
      BY <2>1, <2>3, <2>4, <2>5, <2>7, <3>1
    <3> QED
      BY <1>5, <1>6, <1>7, <1>8, <2>4, <2>5, <3>1, <3>2
  <2> QED
    BY <1>5, <2>6, <2>7
<1> QED
  BY <1>9, <1>10

(* The Palm reads the request.                                             *)
LEMMA ReadRequestPhase ==
    ASSUME Clean, Inv', ReadFirst(Palm) \/ ReadMore(Palm) PROVE AckedMeansDelivered' /\ Phase'
<1>1. st[Palm] \in {"read", "more"} /\ wire[Palm] # <<>>
  BY DEF ReadFirst, ReadMore, Arrives
<1>2. Requesting
  BY <1>1 DEF Clean, Phase, Answering, Acking, Gone
<1>3. /\ st[PC] = "await" /\ wire[PC] = <<>> /\ Len(wire[Palm]) = 1 /\ wire[Palm][1] = Fragment(PC)
      /\ Reached(PC, offset[PC]) /\ PC \notin blocked /\ NotExecuted
  BY <1>1, <1>2 DEF Requesting
<1>4. PICK n, o : n = Len(out[PC]) /\ o = offset[PC]
  OBVIOUS
<1>5. /\ n \in Nat /\ o \in Nat /\ o < n
      /\ wire'[Palm] = <<>> /\ Len(wire'[PC]) = 1 /\ wire'[PC] # <<>> /\ IsAck(wire'[PC][1], PC)
      /\ st'[PC] = st[PC] /\ xid'[PC] = xid[PC] /\ got'[PC] = got[PC] /\ blocked' = blocked \ {Palm}
      /\ UNCHANGED <<out, offset, calls, executed>>
      /\ \/ o + MaxPacket >= n /\ got'[Palm] = out[PC] /\ st'[Palm] = "execute"
         \/ /\ o + MaxPacket < n /\ got'[Palm] = got[Palm] /\ st'[Palm] = "more"
            /\ inbuf'[Palm] = SubSeq(out[PC], 1, o + MaxPacket) /\ msgLen'[Palm] = n
  BY <1>3, <1>4, PartRead, EndsFacts
<1>6. AckedMeansDelivered'
  BY <1>5, DeliveredOK, EndsFacts
<1>7. IsAck(wire[PC][1], PC)'
  BY <1>5 DEF IsAck
<1>8. CASE o + MaxPacket >= n /\ got'[Palm] = out[PC] /\ st'[Palm] = "execute"
  <2>1. Trailing(2)'
    <3>1. wire'[PC] \in Seq(Packet)
      BY EndsFacts DEF Inv, WireOK
    <3>2. DOMAIN wire'[PC] = {1}
      BY <1>5, <3>1
    <3> QED
      BY <3>2 DEF Trailing
  <2>2. Answering'
    BY <1>3, <1>4, <1>5, <1>7, <1>8, <2>1 DEF Answering, NotExecuted
  <2> QED
    BY <1>6, <2>2 DEF Phase
<1>9. CASE /\ o + MaxPacket < n /\ got'[Palm] = got[Palm] /\ st'[Palm] = "more"
           /\ inbuf'[Palm] = SubSeq(out[PC], 1, o + MaxPacket) /\ msgLen'[Palm] = n
  <2>1. Reached(PC, offset[PC] + MaxPacket)'
    <3>1. o + MaxPacket # 0
      BY <1>5
    <3> QED
      BY <1>4, <1>5, <1>9, <3>1, EndsFacts DEF Reached
  <2>2. Requesting'
    BY <1>3, <1>5, <1>7, <1>9, <2>1 DEF Requesting, NotExecuted
  <2> QED
    BY <1>6, <2>2 DEF Phase
<1> QED
  BY <1>5, <1>8, <1>9

(* The PC reads the response.                                              *)
LEMMA ReadResponsePhase ==
    ASSUME Clean, Inv', ReadFirst(PC) \/ ReadMore(PC) PROVE AckedMeansDelivered' /\ Phase'
<1>1. st[PC] \in {"read", "more"} /\ wire[PC] # <<>> /\ Arrived(PC).type = "data"
  BY DEF ReadFirst, ReadMore, Arrives, Arrived
<1>2. Answering
  BY <1>1 DEF Clean, Phase, Requesting, Acking, Gone
<1>3. /\ wire[Palm] = <<>> /\ Palm \notin blocked /\ got[Palm] = out[PC] /\ Trailing(1)
      /\ st[Palm] # "execute" => Reached(Palm, offset[Palm]) /\ JustExecuted
  BY <1>1, <1>2 DEF Answering
<1>4. 1 \in DOMAIN wire[PC] /\ Arrived(PC) = wire[PC][1]
  BY <1>1, FirstPacket, EndsFacts DEF Clean
<1>5. Len(wire[PC]) = 1 /\ st[Palm] = "await" /\ wire[PC][1] = Fragment(Palm)
  <2>1. 1 >= 1
    OBVIOUS
  <2> QED
    BY <1>1, <1>3, <1>4, <2>1 DEF Trailing
<1>6. PICK n, o : n = Len(out[Palm]) /\ o = offset[Palm]
  OBVIOUS
<1>7. /\ n \in Nat /\ o \in Nat /\ o < n
      /\ wire'[PC] = <<>> /\ Len(wire'[Palm]) = 1 /\ wire'[Palm] # <<>> /\ IsAck(wire'[Palm][1], Palm)
      /\ st'[Palm] = st[Palm] /\ xid'[Palm] = xid[Palm] /\ got'[Palm] = got[Palm]
      /\ blocked' = blocked \ {PC} /\ UNCHANGED <<out, offset, calls, executed>>
      /\ \/ o + MaxPacket >= n /\ got'[PC] = out[Palm] /\ st'[PC] = "idle"
         \/ /\ o + MaxPacket < n /\ got'[PC] = got[PC] /\ st'[PC] = "more"
            /\ inbuf'[PC] = SubSeq(out[Palm], 1, o + MaxPacket) /\ msgLen'[PC] = n
  BY <1>3, <1>5, <1>6, PartRead, EndsFacts
<1>8. AckedMeansDelivered'
  BY <1>7, DeliveredOK, EndsFacts
<1>9. IsAck(wire[Palm][1], Palm)'
  BY <1>7 DEF IsAck
<1>10. CASE o + MaxPacket >= n /\ got'[PC] = out[Palm] /\ st'[PC] = "idle"
  <2>1. Acking'
    BY <1>3, <1>5, <1>6, <1>7, <1>9, <1>10 DEF Acking
  <2> QED
    BY <1>8, <2>1 DEF Phase
<1>11. CASE /\ o + MaxPacket < n /\ got'[PC] = got[PC] /\ st'[PC] = "more"
            /\ inbuf'[PC] = SubSeq(out[Palm], 1, o + MaxPacket) /\ msgLen'[PC] = n
  <2>1. Reached(Palm, offset[Palm] + MaxPacket)'
    <3>1. o + MaxPacket # 0
      BY <1>7
    <3> QED
      BY <1>6, <1>7, <1>11, <3>1, EndsFacts DEF Reached
  <2>2. Acking'
    BY <1>3, <1>5, <1>7, <1>9, <1>11, <2>1 DEF Acking, JustExecuted
  <2> QED
    BY <1>8, <2>2 DEF Phase
<1> QED
  BY <1>7, <1>10, <1>11

LEMMA InitPhase == Init => AckedMeansDelivered /\ Phase
<1> SUFFICES ASSUME Init PROVE AckedMeansDelivered /\ Phase
  OBVIOUS
<1>1. /\ \A e \in Ends : out[e] = <<>> /\ wire[e] = <<>>
      /\ st[PC] = "idle" /\ st[Palm] = "read" /\ blocked = {}
  BY EndsFacts DEF Init
<1> QED
  BY <1>1, EndsFacts DEF AckedMeansDelivered, Phase, Requesting

LEMMA StutterPhase == ASSUME Clean, UNCHANGED vars PROVE AckedMeansDelivered' /\ Phase'
<1>1. UNCHANGED <<wire, st, out, offset, xid, blocked, inbuf, msgLen, got, calls, executed>>
  BY DEF vars, writeVars, readVars, xidVars, dlpVars
<1>2. AckedMeansDelivered'
  BY <1>1 DEF Clean, AckedMeansDelivered
<1>3. \A e \in Ends : Fragment(e)' = Fragment(e)
  BY <1>1, SameFragment
<1>4. \A e \in Ends : Reached(e, offset[e])' <=> Reached(e, offset[e])
  BY <1>1 DEF Reached
<1>5. \A e \in Ends : Reached(e, offset[e] + MaxPacket)' <=> Reached(e, offset[e] + MaxPacket)
  BY <1>1 DEF Reached
<1>6. \A k \in {1, 2} : Trailing(k)' <=> Trailing(k)
  BY <1>1, <1>3, EndsFacts DEF Trailing
<1>7. Requesting => Requesting'
  BY <1>1, <1>3, <1>4, <1>5, EndsFacts DEF Requesting, NotExecuted, IsAck
<1>8. Answering => Answering'
  BY <1>1, <1>4, <1>6, EndsFacts DEF Answering, NotExecuted, JustExecuted, IsAck
<1>9. Acking => Acking'
  BY <1>1, <1>3, <1>5, EndsFacts DEF Acking, NotExecuted, JustExecuted, IsAck
<1>10. Gone => Gone'
  BY <1>1 DEF Gone
<1> QED
  BY <1>2, <1>7, <1>8, <1>9, <1>10 DEF Clean, Phase

(* Doubt never goes away.                                                  *)
LEMMA DoubtStays == ASSUME Inv, [Next]_vars, ~doubt' PROVE ~doubt
<1>1. CASE UNCHANGED vars
  BY <1>1 DEF vars, lineVars
<1>2. CASE Call \/ Execute \/ Tickle
  BY <1>2 DEF Call, Execute, Tickle, lineVars
<1>3. ASSUME NEW e \in Ends, Send(e) \/ AckArrives(e) \/ DataInsteadOfAck(e) \/ TickleInsteadOfAck(e)
      PROVE  ~doubt
  BY <1>3 DEF Send, AckArrives, DataInsteadOfAck, TickleInsteadOfAck, lineVars
<1>4. ASSUME NEW e \in Ends, ReadFirst(e) \/ ReadMore(e) \/ ReadRetry(e) PROVE ~doubt
  BY <1>4 DEF ReadFirst, ReadMore, ReadRetry, lineVars
<1>5. ASSUME NEW e \in Ends, AckTimeout(e) \/ ReadTimeout(e) PROVE ~doubt
  BY <1>5 DEF AckTimeout, ReadTimeout, Expire
<1>6. ASSUME NEW e \in Ends, Lose(e) \/ Damage(e) PROVE ~doubt
  BY <1>6, Zenon DEF Lose, Damage
<1> QED
  BY <1>1, <1>2, <1>3, <1>4, <1>5, <1>6 DEF Next, EndStep

LEMMA NextPhase ==
    ASSUME Inv, Inv', OrderOK, CleanOK, [Next]_vars PROVE CleanOK'
<1> SUFFICES ASSUME ~doubt' PROVE AckedMeansDelivered' /\ Phase'
  BY DEF CleanOK
<1>1. Clean
  BY DoubtStays DEF Clean, CleanOK
<1>2. ASSUME NEW e \in Ends, ReadFirst(e) \/ ReadMore(e) PROVE AckedMeansDelivered' /\ Phase'
  BY <1>1, <1>2, ReadRequestPhase, ReadResponsePhase, EndsFacts
<1>3. ASSUME NEW e \in Ends, AckArrives(e) PROVE AckedMeansDelivered' /\ Phase'
  BY <1>1, <1>3, AckToPcPhase, AckToPalmPhase, EndsFacts
<1>4. ASSUME NEW e \in Ends, EndStep(e) PROVE AckedMeansDelivered' /\ Phase'
  BY <1>1, <1>2, <1>3, <1>4, SendPhase, NothingInsteadOfAck, AckTimeoutPhase, ReadRetryPhase,
     ReadTimeoutPhase DEF EndStep
<1>5. ASSUME NEW e \in Ends, Lose(e) \/ Damage(e) PROVE AckedMeansDelivered' /\ Phase'
  BY <1>1, <1>5, LosePhase
<1> QED
  BY <1>1, <1>4, <1>5, CallPhase, ExecutePhase, TicklePhase, StutterPhase DEF Next

(* All that holds in every state.                                          *)
IInv == Inv /\ OrderOK /\ CleanOK

(* No request overtakes another, every response belongs to an execution,   *)
(* and without doubt the two ends are in step (padp_write, padp_read,      *)
(* dlp_dlpc_req).                                                          *)
THEOREM PadpInvariant == Spec => []IInv
<1>1. Init => IInv
  BY InitInv, InitOrder, InitPhase DEF IInv, CleanOK
<1>2. IInv /\ [Next]_vars => IInv'
  BY NextInv, NextOrder, NextPhase DEF IInv
<1> QED
  BY <1>1, <1>2, PTL DEF Spec

(* A message that was acknowledged to the end has been delivered whole, as *)
(* long as no ACK is lost and no timer is early, whatever packets are lost *)
(* or damaged (padp_write, padp_read).                                     *)
THEOREM AcknowledgedIsDelivered == Spec => []Reliable
<1>1. IInv => Reliable
  BY DEF IInv, CleanOK, Reliable
<1> QED
  BY <1>1, PadpInvariant, PTL

-----------------------------------------------------------------------------
(* The requests of the PC are remote calls as module Rpc has them.         *)
Pending == st[PC] \notin {"idle", "dead"}

(* What leaves calls, executions and answers alone ends the call at most,  *)
(* and at most begins the doubt.                                           *)
LEMMA RpcQuiet ==
    ASSUME Inv, Inv', UNCHANGED <<calls, executed, answer>>, doubt => doubt', Pending' => Pending
    PROVE  RemoteCalls!Next \/ UNCHANGED RemoteCalls!vars
<1>1. doubt \in BOOLEAN /\ doubt' \in BOOLEAN
  BY DEF Inv, TypeOK
<1>2. doubt' \in {doubt, TRUE}
  BY <1>1
<1>3. CASE Pending /\ ~Pending'
  <2>1. RemoteCalls!Fail
    BY <1>3 DEF RemoteCalls!Fail, Pending
  <2> QED
    BY <1>2, <2>1 DEF RemoteCalls!Next
<1>4. CASE Pending' = Pending /\ ~doubt /\ doubt'
  <2>1. RemoteCalls!LoseTrack
    BY <1>4 DEF RemoteCalls!LoseTrack, Pending
  <2> QED
    BY <1>2, <2>1 DEF RemoteCalls!Next
<1>5. CASE Pending' = Pending /\ doubt' = doubt
  BY <1>5 DEF RemoteCalls!vars, Pending
<1>6. Pending \in BOOLEAN /\ Pending' \in BOOLEAN
  BY DEF Pending
<1> QED
  BY <1>1, <1>3, <1>4, <1>5, <1>6

(* Doubt never goes away, as DoubtStays has it, and comes without a call   *)
(* or an execution.                                                        *)
LEMMA DoubtOnward == ASSUME Inv, Inv', [Next]_vars PROVE doubt => doubt'
BY DoubtStays, Zenon

(* An end that acts is neither idle nor dead, and leaves the other as it   *)
(* is.                                                                     *)
LEMMA ActorsState ==
    ASSUME Inv, NEW e \in Ends, EndStep(e)
    PROVE  st[e] \notin {"idle", "dead"} /\ \A f \in Ends : f # e => st'[f] = st[f]
<1>0. st \in [Ends -> States]
  BY DEF Inv, TypeOK
<1>1. CASE Send(e) \/ AckArrives(e) \/ DataInsteadOfAck(e) \/ TickleInsteadOfAck(e)
  BY <1>0, <1>1 DEF Send, AckArrives, DataInsteadOfAck, TickleInsteadOfAck, Goto, Failed
<1>2. CASE AckTimeout(e) \/ ReadRetry(e)
  BY <1>0, <1>2 DEF AckTimeout, ReadRetry, Goto
<1>3. CASE ReadFirst(e)
  BY <1>0, <1>3 DEF ReadFirst, Return, Goto
<1>4. CASE ReadMore(e)
  BY <1>0, <1>4 DEF ReadMore, Return, Failed, Goto
<1>5. CASE ReadTimeout(e)
  BY <1>0, <1>5 DEF ReadTimeout, Retry, Write, Failed, Goto
<1> QED
  BY <1>1, <1>2, <1>3, <1>4, <1>5 DEF EndStep

LEMMA PendingOnward == ASSUME Inv, NEW e \in Ends, EndStep(e) PROVE Pending' => Pending
BY ActorsState, EndsFacts DEF Pending

(* Only a message read by the PC changes the answer.                       *)
LEMMA RpcElsewhere ==
    ASSUME Inv, Inv', NEW e \in Ends, EndStep(e), e = Palm \/ ~(ReadFirst(e) \/ ReadMore(e))
    PROVE  RemoteCalls!Next \/ UNCHANGED RemoteCalls!vars
<1>1. UNCHANGED <<calls, executed, answer>>
  <2>1. CASE Send(e) \/ AckArrives(e) \/ DataInsteadOfAck(e) \/ TickleInsteadOfAck(e)
    BY <2>1 DEF Send, AckArrives, DataInsteadOfAck, TickleInsteadOfAck, dlpVars
  <2>2. CASE AckTimeout(e) \/ ReadRetry(e) \/ ReadTimeout(e)
    BY <2>2 DEF AckTimeout, ReadRetry, ReadTimeout, dlpVars
  <2>3. CASE e = Palm /\ (ReadFirst(e) \/ ReadMore(e))
    BY <2>3 DEF ReadFirst, ReadMore, Return
  <2> QED
    BY <2>1, <2>2, <2>3 DEF EndStep
<1>2. doubt => doubt'
  BY DoubtOnward DEF Next
<1> QED
  BY <1>1, <1>2, PendingOnward, RpcQuiet

LEMMA RpcLine ==
    ASSUME Inv, Inv', Tickle \/ \E e \in Ends : Lose(e) \/ Damage(e)
    PROVE  RemoteCalls!Next \/ UNCHANGED RemoteCalls!vars
<1>1. UNCHANGED <<st, calls, executed, answer>>
  BY DEF Tickle, Lose, Damage, dlpVars
<1>2. doubt => doubt'
  BY DoubtOnward DEF Next
<1> QED
  BY <1>1, <1>2, RpcQuiet DEF Pending

LEMMA RpcCall == ASSUME Inv, Call PROVE RemoteCalls!Next
<1>1. /\ st[PC] = "idle" /\ st' = [st EXCEPT ![PC] = "send"] /\ calls' = calls + 1
      /\ UNCHANGED <<executed, answer, doubt>>
  BY DEF Call, Write, Goto, lineVars
<1>2. st'[PC] = "send"
  BY <1>1, EndsFacts DEF Inv, TypeOK
<1>3. RemoteCalls!Call
  BY <1>1, <1>2 DEF RemoteCalls!Call
<1>4. doubt' \in {doubt, TRUE}
  BY <1>1
<1> QED
  BY <1>3, <1>4 DEF RemoteCalls!Next

(* The Palm executes no request that is earlier than one it has executed;  *)
(* without doubt, the one the PC waits for, and for the first time.        *)
LEMMA RpcExecute == ASSUME IInv, Execute PROVE RemoteCalls!Next
<1>0. Inv /\ OrderOK /\ CleanOK
  BY DEF IInv
<1>1. /\ st[Palm] = "execute" /\ st' = [st EXCEPT ![Palm] = "send"]
      /\ executed' = Append(executed, got[Palm][1].number)
      /\ UNCHANGED <<calls, answer, doubt>>
  BY DEF Execute, Write, Goto, lineVars
<1>2. PICK k : k = got[Palm][1].number
  OBVIOUS
<1>3. k = Held
  BY <1>1, <1>2 DEF Held
<1>4. k \in 1 .. calls /\ \A i \in DOMAIN executed : executed[i] <= k
  <2>1. calls \in Nat /\ Held \in 0 .. calls /\ Held > 0
    BY <1>0, <1>1 DEF Inv, TypeOK, OrderOK, RequestsOK
  <2> QED
    BY <1>0, <1>3, <2>1 DEF OrderOK, RequestsOK
<1>5. st'[PC] = st[PC]
  BY <1>0, <1>1, EndsFacts DEF Inv, TypeOK
<1>6. ASSUME ~doubt PROVE RemoteCalls!OnTime(k)
  <2>1. Answering
    BY <1>0, <1>1, <1>6 DEF CleanOK, Phase, Requesting, Acking, Gone
  <2>2. NotExecuted /\ got[Palm] = out[PC] /\ st[PC] \in {"await", "read", "more"}
    BY <1>1, <2>1 DEF Answering
  <2>3. out[PC] # <<>> /\ out[PC] \in Seq(Unit)
    BY <1>0, <1>1, <2>2, EndsFacts DEF Inv, TypeOK, EndOK
  <2>4. 1 \in DOMAIN out[PC]
    BY <2>3
  <2>5. k = calls
    BY <1>0, <1>2, <2>2, <2>4 DEF OrderOK, WrittenOK
  <2> QED
    BY <2>2, <2>5 DEF RemoteCalls!OnTime, NotExecuted
<1>7. RemoteCalls!Execute
  BY <1>1, <1>2, <1>4, <1>5, <1>6 DEF RemoteCalls!Execute
<1>8. doubt' \in {doubt, TRUE}
  BY <1>1
<1> QED
  BY <1>7, <1>8 DEF RemoteCalls!Next

(* The message that ends a call is the answer to an execution.             *)
LEMMA AnswersExecution ==
    ASSUME Inv, OrderOK, ReadFirst(PC) \/ ReadMore(PC)
    PROVE  \/ UNCHANGED answer
           \/ \E m : /\ m[1].number \in DOMAIN executed /\ got'[PC] = m /\ st'[PC] = "idle"
                     /\ answer' = answer \/ answer' = m[1].number
<1>1. wire[PC] # <<>> /\ Arrived(PC).type = "data"
  BY DEF ReadFirst, ReadMore, Arrives, Arrived
<1>2. 1 \in DOMAIN wire[PC] /\ Arrived(PC) = wire[PC][1]
  BY <1>1, FirstPacket, EndsFacts
<1>3. ASSUME NEW m, Return(PC, m)
      PROVE  got'[PC] = m /\ st'[PC] = "idle" /\ (answer' = answer \/ answer' = m[1].number)
  <2>1. got' = [got EXCEPT ![PC] = m] /\ st' = [st EXCEPT ![PC] = "idle"]
        /\ (answer' = answer \/ answer' = m[1].number)
    BY <1>3, EndsFacts, PadpAssumption DEF Return, Goto
  <2> QED
    BY <2>1, EndsFacts DEF Inv, TypeOK
<1>4. CASE ReadFirst(PC)
  <2>1. UNCHANGED answer \/ Return(PC, Arrived(PC).body)
    BY <1>4 DEF ReadFirst
  <2>2. Arrived(PC).body[1].number \in DOMAIN executed
    BY <1>1, <1>2 DEF OrderOK, ResponsesOK, NumberOf
  <2> QED
    BY <1>3, <2>1, <2>2
<1>5. CASE ReadMore(PC)
  <2>1. PICK s : s = inbuf[PC] \o Arrived(PC).body
    OBVIOUS
  <2>2. UNCHANGED answer \/ Return(PC, Buffer(s, msgLen[PC]))
    BY <1>5, <2>1 DEF ReadMore
  <2>3. st[PC] = "more"
    BY <1>5 DEF ReadMore
  <2>4. Arrived(PC).body \in Seq(Unit)
    <3>1. Arrived(PC) \in Packet
      BY <1>1, TakeType, EndsFacts
    <3> QED
      BY <3>1 DEF Packet
  <2>5. inbuf[PC] \in Seq(Unit) /\ inbuf[PC] # <<>> /\ msgLen[PC] \in Nat \ {0}
    BY <2>3, EndsFacts DEF Inv, TypeOK, EndOK
  <2>6. Buffer(s, msgLen[PC])[1] = inbuf[PC][1]
    BY <2>1, <2>4, <2>5, FirstStays
  <2>7. Buffer(s, msgLen[PC])[1].number \in DOMAIN executed
    BY <2>3, <2>6 DEF OrderOK, ResponsesOK
  <2> QED
    BY <1>3, <2>2, <2>7
<1> QED
  BY <1>4, <1>5

(* Without doubt, it is the answer to the last execution, which was of the *)
(* current request.                                                        *)
LEMMA AnswersThisCall ==
    ASSUME Inv, OrderOK, CleanOK, ~doubt, ReadFirst(PC) \/ ReadMore(PC),
           st'[PC] = "idle", answer' # answer
    PROVE  got'[PC][1].number = Len(executed) /\ Len(executed) > 0 /\ executed[Len(executed)] = calls
<1>1. Clean
  BY DEF Clean, CleanOK
<1>2. st[PC] \in {"read", "more"} /\ wire[PC] # <<>> /\ Arrived(PC).type = "data"
  BY DEF ReadFirst, ReadMore, Arrives, Arrived
<1>3. Answering
  BY <1>1, <1>2 DEF Clean, Phase, Requesting, Acking, Gone
<1>4. wire[Palm] = <<>> /\ Trailing(1) /\ (st[Palm] # "execute" => Reached(Palm, offset[Palm]) /\ JustExecuted)
  BY <1>2, <1>3 DEF Answering
<1>5. 1 \in DOMAIN wire[PC] /\ Arrived(PC) = wire[PC][1]
  BY <1>2, FirstPacket, EndsFacts
<1>6. Len(wire[PC]) = 1 /\ st[Palm] = "await" /\ wire[PC][1] = Fragment(Palm)
  <2>1. 1 >= 1
    OBVIOUS
  <2> QED
    BY <1>2, <1>4, <1>5, <2>1 DEF Trailing
<1>7. PICK n, o : n = Len(out[Palm]) /\ o = offset[Palm]
  OBVIOUS
<1>8. n \in Nat /\ o \in Nat /\ o < n /\ (got'[PC] = out[Palm] \/ st'[PC] = "more")
  BY <1>1, <1>4, <1>6, <1>7, PartRead, EndsFacts
<1>9. 1 \in DOMAIN out[Palm]
  <2>1. out[Palm] \in Seq(Unit)
    BY EndsFacts DEF Inv, TypeOK
  <2> QED
    BY <1>7, <1>8, <2>1
<1>10. got'[PC][1].number = Len(executed)
  BY <1>8, <1>9 DEF OrderOK, WrittenOK
<1> QED
  BY <1>4, <1>6, <1>10 DEF JustExecuted

LEMMA RpcReturn ==
    ASSUME IInv, Inv', ReadFirst(PC) \/ ReadMore(PC)
    PROVE  RemoteCalls!Next \/ UNCHANGED RemoteCalls!vars
<1>0. Inv /\ OrderOK /\ CleanOK
  BY DEF IInv
<1>1. EndStep(PC)
  BY DEF EndStep
<1>2. UNCHANGED <<calls, executed, doubt>>
  BY DEF ReadFirst, ReadMore, lineVars
<1>3. CASE UNCHANGED answer
  BY <1>0, <1>1, <1>2, <1>3, PendingOnward, RpcQuiet, EndsFacts
<1>4. ASSUME answer' # answer, NEW m, m[1].number \in DOMAIN executed, got'[PC] = m, st'[PC] = "idle",
             answer' = m[1].number
      PROVE  RemoteCalls!Next
  <2>1. doubt \/ executed[m[1].number] = calls
    BY <1>0, <1>4, AnswersThisCall
  <2>2. st[PC] \notin {"idle", "dead"}
    BY <1>0, <1>1, ActorsState, EndsFacts
  <2>3. RemoteCalls!Return
    BY <1>2, <1>4, <2>1, <2>2 DEF RemoteCalls!Return
  <2>4. doubt' \in {doubt, TRUE}
    BY <1>2
  <2> QED
    BY <2>3, <2>4 DEF RemoteCalls!Next
<1> QED
  BY <1>0, <1>3, <1>4, AnswersExecution

LEMMA RpcNext == ASSUME IInv, [Next]_vars PROVE RemoteCalls!Next \/ UNCHANGED RemoteCalls!vars
<1>1. Inv /\ Inv'
  BY NextInv DEF IInv
<1>2. CASE UNCHANGED vars
  BY <1>2 DEF vars, dlpVars, lineVars, RemoteCalls!vars
<1>3. ASSUME NEW e \in Ends, EndStep(e) PROVE RemoteCalls!Next \/ UNCHANGED RemoteCalls!vars
  <2>1. CASE e = Palm \/ ~(ReadFirst(e) \/ ReadMore(e))
    BY <1>1, <1>3, <2>1, RpcElsewhere
  <2>2. CASE e = PC /\ (ReadFirst(e) \/ ReadMore(e))
    BY <1>1, <2>2, RpcReturn
  <2> QED
    BY <2>1, <2>2, EndsFacts
<1> QED
  BY <1>1, <1>2, <1>3, RpcCall, RpcExecute, RpcLine DEF Next

(* What dlp_dlpc_req makes of padp_write and padp_read is what module Rpc  *)
(* promises of remote calls: until an ACK is lost or a timer is early each *)
(* request is executed once, and what the call returns is the answer of    *)
(* that execution; and never is a request executed after a later one.      *)
THEOREM ImplementsRpc == Spec => RpcSpec
<1>1. Init => RemoteCalls!Init
  <2>1. ASSUME Init PROVE RemoteCalls!Init
    BY <2>1, EndsFacts DEF Init, RemoteCalls!Init
  <2> QED
    BY <2>1
<1>2. IInv /\ [Next]_vars => [RemoteCalls!Next]_(RemoteCalls!vars)
  BY RpcNext
<1> QED
  BY <1>1, <1>2, PadpInvariant, PTL DEF Spec, RpcSpec, RemoteCalls!Spec

-----------------------------------------------------------------------------
(* What follows from the specification of remote calls alone.              *)

(* The calls executed so far are calls that were made, in order.           *)
RpcInv ==
    /\ calls \in Nat /\ executed \in Seq(1 .. calls) /\ doubt \in BOOLEAN
    /\ RemoteCalls!InOrder /\ RemoteCalls!AtMostOnce

(* Doubt stays.                                                            *)
LEMMA RpcDoubtStays ==
    ASSUME doubt \in BOOLEAN, doubt' \in {doubt, TRUE}
    PROVE  doubt' \in BOOLEAN /\ (~doubt' => ~doubt)
<1>1. doubt' = doubt \/ doubt' = TRUE
  OBVIOUS
<1> QED
  BY <1>1, Zenon

(* One more execution, of a call no earlier than those before it, keeps    *)
(* the order; without doubt it is a call that was not there.               *)
LEMMA RpcExecuteInv == ASSUME RpcInv, RemoteCalls!Execute, doubt' \in {doubt, TRUE} PROVE RpcInv'
<1> USE DEF RpcInv
<1>1. PICK k \in 1 .. calls :
         /\ doubt \/ RemoteCalls!OnTime(k)
         /\ \A i \in DOMAIN executed : executed[i] <= k
         /\ executed' = Append(executed, k)
         /\ UNCHANGED <<calls, answer>>
  BY DEF RemoteCalls!Execute
<1>2. calls' \in Nat /\ executed' \in Seq(1 .. calls')
  BY <1>1
<1>d. doubt' \in BOOLEAN /\ (~doubt' => ~doubt)
  BY RpcDoubtStays
<1>3. /\ DOMAIN executed' = 1 .. Len(executed) + 1 /\ DOMAIN executed = 1 .. Len(executed)
      /\ \A i \in DOMAIN executed : executed'[i] = executed[i] /\ executed[i] \in 1 .. calls
      /\ executed'[Len(executed) + 1] = k /\ Len(executed) \in Nat
  BY <1>1
<1>4. RemoteCalls!InOrder'
  <2> SUFFICES ASSUME NEW i \in DOMAIN executed', NEW j \in DOMAIN executed', i < j
               PROVE executed'[i] <= executed'[j]
    BY DEF RemoteCalls!InOrder
  <2>1. CASE j \in DOMAIN executed
    BY <2>1, <1>3 DEF RemoteCalls!InOrder
  <2>2. CASE j = Len(executed) + 1
    BY <2>2, <1>1, <1>3
  <2> QED
    BY <2>1, <2>2, <1>3
<1>5. RemoteCalls!AtMostOnce'
  <2> SUFFICES ASSUME ~doubt', NEW i \in DOMAIN executed', NEW j \in DOMAIN executed',
                      executed'[i] = executed'[j]
               PROVE i = j
    BY DEF RemoteCalls!AtMostOnce
  <2>1. ~doubt /\ RemoteCalls!OnTime(k)
    BY <1>1, <1>d
  <2>2. \A l \in DOMAIN executed : executed[l] # k
    BY <2>1 DEF RemoteCalls!OnTime
  <2>3. CASE i \in DOMAIN executed /\ j \in DOMAIN executed
    BY <2>3, <2>1, <1>3 DEF RemoteCalls!AtMostOnce
  <2>4. CASE i = Len(executed) + 1 \/ j = Len(executed) + 1
    <3>1. ASSUME NEW l \in DOMAIN executed PROVE executed'[l] # k
      BY <1>3, <2>2, <3>1
    <3>2. executed'[i] = k /\ executed'[j] = k
      BY <1>3, <2>4
    <3> QED
      BY <1>3, <3>1, <3>2
  <2> QED
    BY <2>3, <2>4, <1>3
<1> QED
  BY <1>2, <1>d, <1>4, <1>5

(* A new call makes room for executions of it, and executes nothing.       *)
LEMMA RpcCallInv == ASSUME RpcInv, RemoteCalls!Call, doubt' \in {doubt, TRUE} PROVE RpcInv'
<1>1. calls' \in Nat /\ calls' = calls + 1 /\ executed' = executed
  BY DEF RpcInv, RemoteCalls!Call
<1>d. doubt' \in BOOLEAN /\ (~doubt' => ~doubt)
  BY RpcDoubtStays DEF RpcInv
<1>2. \A i \in DOMAIN executed : executed[i] \in 1 .. calls'
  BY <1>1 DEF RpcInv
<1>3. executed' \in Seq(1 .. calls')
  BY <1>1, <1>2 DEF RpcInv
<1> QED
  BY <1>1, <1>d, <1>3 DEF RpcInv, RemoteCalls!InOrder, RemoteCalls!AtMostOnce

(* Whatever else happens to a caller of remote calls, the Palm never       *)
(* executes a call after a later one, and without doubt never one twice.   *)
THEOREM CallsInOrder == RpcSpec => [](RemoteCalls!InOrder /\ RemoteCalls!AtMostOnce)
<1>1. RemoteCalls!Init => RpcInv
  <2> SUFFICES ASSUME RemoteCalls!Init PROVE RpcInv
    OBVIOUS
  <2>1. calls = 0 /\ executed = <<>>
    BY DEF RemoteCalls!Init
  <2>2. doubt \in BOOLEAN
    BY Zenon DEF RemoteCalls!Init
  <2> QED
    BY <2>1, <2>2 DEF RpcInv, RemoteCalls!InOrder, RemoteCalls!AtMostOnce
<1>2. RpcInv /\ [RemoteCalls!Next]_(RemoteCalls!vars) => RpcInv'
  <2> SUFFICES ASSUME RpcInv, [RemoteCalls!Next]_(RemoteCalls!vars) PROVE RpcInv'
    OBVIOUS
  <2>1. CASE RemoteCalls!Call /\ doubt' \in {doubt, TRUE}
    BY <2>1, RpcCallInv
  <2>2. CASE RemoteCalls!Execute /\ doubt' \in {doubt, TRUE}
    BY <2>2, RpcExecuteInv
  <2>3. CASE (RemoteCalls!Return \/ RemoteCalls!Fail \/ RemoteCalls!LoseTrack) /\ doubt' \in {doubt, TRUE}
    <3>1. calls' = calls /\ executed' = executed
      BY <2>3 DEF RemoteCalls!Return, RemoteCalls!Fail, RemoteCalls!LoseTrack
    <3>2. doubt' \in BOOLEAN /\ (~doubt' => ~doubt)
      BY <2>3, RpcDoubtStays DEF RpcInv
    <3> QED
      BY <3>1, <3>2 DEF RpcInv, RemoteCalls!InOrder, RemoteCalls!AtMostOnce
  <2>4. CASE UNCHANGED RemoteCalls!vars
    BY <2>4 DEF RpcInv, RemoteCalls!InOrder, RemoteCalls!AtMostOnce, RemoteCalls!vars
  <2> QED
    BY <2>1, <2>2, <2>3, <2>4 DEF RemoteCalls!Next
<1>3. RpcInv => RemoteCalls!InOrder /\ RemoteCalls!AtMostOnce
  BY DEF RpcInv
<1> QED
  BY <1>1, <1>2, <1>3, PTL DEF RpcSpec, RemoteCalls!Spec
=============================================================================
