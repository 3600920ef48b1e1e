------------------------------- MODULE NetSync -------------------------------
(***************************************************************************)
(* A sync that is forwarded over the network (libpconn/netsync.c,          *)
(* libpconn/PConnection_net.c, src/netsync.c).  The Palm is connected to a *)
(* ColdSync that forwards, fwd, which connects to the ColdSync that syncs, *)
(* host:                                                                   *)
(*                palm  <-->  fwd  <-->  host                              *)
(* Each arrow is two streams of NetSync messages, a message being a header *)
(* with a transaction ID and its contents.  host accepts the connection,   *)
(* both exchange the ritual packets, host makes DLP calls, and fwd relays. *)
(*                                                                         *)
(* Nothing is lost on the way.  What goes wrong is that a program or the   *)
(* Palm is slow, so that a timer expires, or is gone, which its partner    *)
(* sees as an end of file; that is a read of length 0 and not an error.    *)
(***************************************************************************)
EXTENDS Integers, Sequences, FiniteSets

CONSTANTS
    MaxCalls,    \* bound: DLP calls host makes
    MaxTries,    \* 5 in dlp_dlpc_req
    XidTop,      \* 255: a transaction ID is one byte, and not 0
    Retries,     \* PCONN_NET_CONNECT_RETRIES
    MaxExecuted, \* bound: the Palm leaves when it is asked for more
    Room,        \* bound: messages in a stream
    MaxFaults    \* bound: timers that expire, programs that go early

ASSUME NetSyncAssumption ==
    /\ MaxCalls \in Nat /\ MaxTries \in Nat \ {0} /\ XidTop \in Nat \ {0} /\ Retries \in Nat \ {0}
    /\ MaxExecuted \in Nat /\ Room \in Nat \ {0} /\ MaxFaults \in Nat

VARIABLES
    stream,   \* the messages on their way, by their ends
    gone,     \* who has closed its connections
    fwdAt,    \* where fwd is
    ready,    \* forward_netsync: what select has found readable
    inbuf,    \* forward_netsync: the message read last
    fwdXid,   \* net.xid of fwd's connection to host
    hostAt,   \* where host is
    attempts, \* how often fwd has tried to connect
    tries,    \* how often host has sent the current request
    hostXid,  \* net.xid of host
    perr,     \* palm_errno of host: "noerr", "timeout2", "badid"
    calls,    \* DLP calls host has made; requests carry their number
    executed, \* the calls the Palm has executed, in order
    answer,   \* the execution whose answer the last call returned, or 0; -1 for a ritual packet
    sent,     \* ghost: how often each request was sent
    strayed,  \* ghost: host has gone on without the ritual
    doubt,    \* ghost: a timer has expired, or someone is gone
    faults    \* used up of MaxFaults

hostVars == <<hostAt, tries, hostXid, perr, calls, answer, sent, strayed>>
fwdVars  == <<fwdAt, ready, inbuf, fwdXid, attempts>>
vars     == <<stream, gone, fwdVars, hostVars, executed, doubt, faults>>

Ends    == {"palm", "fwd", "host"}
Streams == {<<"palm", "fwd">>, <<"fwd", "palm">>, <<"fwd", "host">>, <<"host", "fwd">>}

(* The ritual packets and their numbers; a request is named by its call, a *)
(* response by its execution.  "junk" is what an uninitialised pointer     *)
(* points to, and a message without contents is a header whose sender is   *)
(* gone before it wrote the rest.                                          *)
Message == [kind : {"ritual", "request", "response", "junk", "header"}, n : Nat, xid : Nat]
Msg(kind, n, xid) == [kind |-> kind, n |-> n, xid |-> xid]
NoMessage == Msg("junk", 0, 0)

WhereFwd  == {"connect", "say 1", "hear 2", "say 2", "hear 3", "say 3", "select", "relay",
              "done", "failed"}
WhereHost == {"wakeup", "listen", "accept", "hear 1", "say 2", "hear 2", "say 3", "hear 3",
              "idle", "send", "wait", "gone"}

TypeOK ==
    /\ stream \in [Streams -> Seq(Message)] /\ \A s \in Streams : Len(stream[s]) <= Room
    /\ gone \subseteq Ends
    /\ fwdAt \in WhereFwd /\ ready \subseteq {"palm", "host"} /\ inbuf \in Message /\ fwdXid \in Nat
    /\ attempts \in 0 .. Retries
    /\ hostAt \in WhereHost /\ tries \in 0 .. MaxTries /\ hostXid \in 1 .. XidTop
    /\ perr \in {"noerr", "timeout2", "badid"}
    /\ calls \in 0 .. MaxCalls /\ executed \in Seq(1 .. MaxCalls)
    /\ answer \in -1 .. Len(executed) /\ sent \in [1 .. MaxCalls -> Nat]
    /\ strayed \in BOOLEAN /\ doubt \in BOOLEAN /\ faults \in 0 .. MaxFaults

Init ==
    /\ stream = [s \in Streams |-> <<>>] /\ gone = {}
    /\ fwdAt = "connect" /\ ready = {} /\ inbuf = NoMessage /\ fwdXid = XidTop /\ attempts = 0
    /\ hostAt = "wakeup" /\ tries = 0 /\ hostXid = XidTop /\ perr = "noerr"
    /\ calls = 0 /\ executed = <<>> /\ answer = 0 /\ sent = [n \in 1 .. MaxCalls |-> 0]
    /\ strayed = FALSE /\ doubt = FALSE /\ faults = 0

Fault   == faults < MaxFaults /\ faults' = faults + 1
NoFault == UNCHANGED <<doubt, faults>>

-----------------------------------------------------------------------------
(* netsync_write and netsync_read                                          *)

(* A write to an end that is gone is lost or fails; to a full stream it    *)
(* blocks.                                                                 *)
Writable(s) == s[2] \in gone \/ Len(stream[s]) < Room
Put(q, s, m) == IF s[2] \in gone THEN q ELSE [q EXCEPT ![s] = Append(@, m)]
Fails(s)    == s[2] \in gone

Take(s)      == [stream EXCEPT ![s] = IF @ = <<>> THEN @ ELSE Tail(@)]
HasMessage(s) == stream[s] # <<>> /\ Head(stream[s]).kind # "header"
AtEof(s)     == IF stream[s] = <<>> THEN s[1] \in gone ELSE Head(stream[s]).kind = "header"
Readable(s)  == stream[s] # <<>> \/ s[1] \in gone
Silent(s)    == ~Readable(s)

FromFwd  == <<"fwd", "host">>
FromHost == <<"host", "fwd">>

(* bump_xid.                                                               *)
Bump(xid) == (xid % XidTop) + 1

-----------------------------------------------------------------------------
(* host: net_accept, ritual_exch_server and dlp_dlpc_req                   *)
HostGoes(step) == hostAt' = step
HostAsBefore == UNCHANGED <<gone, fwdVars, executed>>

(* net_udp_listen and net_acknowledge_wakeup: a datagram with the right    *)
(* magic, from whoever wants host to listen.                               *)
Wakeup ==
    /\ hostAt = "wakeup" /\ HostGoes("listen")
    /\ NoFault /\ HostAsBefore
    /\ UNCHANGED <<stream, tries, hostXid, perr, calls, answer, sent, strayed>>

(* net_tcp_listen.  No error of these three is looked at: net_accept       *)
(* returns 0, and the sync begins.                                         *)
Listen ==
    /\ hostAt = "listen"
    /\ \/ HostGoes("accept") /\ NoFault /\ UNCHANGED strayed
       \/ HostGoes("idle") /\ Fault /\ strayed' = TRUE /\ UNCHANGED doubt
    /\ HostAsBefore /\ UNCHANGED <<stream, tries, hostXid, perr, calls, answer, sent>>

Heard == [s \in {"hear 1", "hear 2", "hear 3"} |->
             CASE s = "hear 1" -> "say 2" [] s = "hear 2" -> "say 3" [] OTHER -> "idle"]
Said  == [s \in {"say 2", "say 3"} |-> IF s = "say 2" THEN "hear 2" ELSE "hear 3"]
Part  == [s \in {"say 1", "say 2", "say 3"} |->
             CASE s = "say 1" -> 1 [] s = "say 2" -> 2 [] OTHER -> 3]

(* Whatever arrives is taken for the ritual packet, an end of file too.    *)
HostHearsRitual ==
    /\ hostAt \in DOMAIN Heard
    /\ \/ /\ Readable(FromFwd) /\ stream' = Take(FromFwd)
          /\ HostGoes(Heard[hostAt]) /\ NoFault /\ UNCHANGED <<strayed, perr>>
       \/ /\ Silent(FromFwd) /\ Fault /\ doubt' = TRUE /\ UNCHANGED stream
          /\ HostGoes("idle") /\ strayed' = TRUE /\ perr' = "timeout2"
    /\ HostAsBefore /\ UNCHANGED <<tries, hostXid, calls, answer, sent>>

HostSaysRitual ==
    /\ hostAt \in DOMAIN Said /\ Writable(FromHost)
    /\ hostXid' = Bump(hostXid)
    /\ \/ /\ stream' = Put(stream, FromHost, Msg("ritual", Part[hostAt], hostXid'))
          /\ HostGoes(Said[hostAt]) /\ UNCHANGED strayed
       \/ /\ Fails(FromHost) /\ HostGoes("idle") /\ strayed' = TRUE /\ UNCHANGED stream
    /\ NoFault /\ HostAsBefore /\ UNCHANGED <<tries, perr, calls, answer, sent>>

(* The first call of a session is ReadSysInfo; the others share a command. *)
Command(n) == IF n = 1 THEN "ReadSysInfo" ELSE "other"

Call ==
    /\ hostAt = "idle" /\ calls < MaxCalls
    /\ HostGoes("send") /\ calls' = calls + 1 /\ tries' = 1
    /\ NoFault /\ HostAsBefore /\ UNCHANGED <<stream, hostXid, perr, answer, sent, strayed>>

(* A mistake: one try too many.                                            *)
WrongTryAgain(p) ==
    /\ perr' = p
    /\ IF p = "timeout2" /\ tries <= MaxTries
       THEN HostGoes("send") /\ tries' = tries + 1
       ELSE HostGoes("idle") /\ UNCHANGED tries

(* dlp_dlpc_req after an error: it looks at palm_errno, which netsync_read *)
(* and netsync_write set when a timer expires and never clear.             *)
TryAgain(p) ==
    /\ perr' = p
    /\ IF p = "timeout2" /\ tries < MaxTries
       THEN HostGoes("send") /\ tries' = tries + 1
       ELSE HostGoes("idle") /\ UNCHANGED tries

Send ==
    /\ hostAt = "send" /\ Writable(FromHost)
    /\ hostXid' = Bump(hostXid)
    /\ \/ /\ stream' = Put(stream, FromHost, Msg("request", calls, hostXid'))
          /\ sent' = [sent EXCEPT ![calls] = @ + 1]
          /\ HostGoes("wait") /\ UNCHANGED <<tries, perr>>
       \/ Fails(FromHost) /\ TryAgain(perr) /\ UNCHANGED <<stream, sent>>
    /\ NoFault /\ HostAsBefore /\ UNCHANGED <<calls, answer, strayed>>

(* A mistake: what has arrived is taken for the response.                  *)
WrongAnswers(m) == m.kind # "junk"

(* dlp_recv_resp compares the command, not the transaction ID; the second  *)
(* ritual packet of the client looks like a response to ReadSysInfo.       *)
Answers(m) ==
    \/ m.kind = "response" /\ Command(executed[m.n]) = Command(calls)
    \/ m.kind = "ritual" /\ m.n = 2 /\ Command(calls) = "ReadSysInfo"

Return(m) ==
    /\ HostGoes("idle") /\ answer' = IF m.kind = "response" THEN m.n ELSE -1
    /\ UNCHANGED <<tries, perr>>

Receive ==
    /\ hostAt = "wait" /\ HasMessage(FromFwd)
    /\ LET m == Head(stream[FromFwd])
       IN  IF Answers(m) THEN Return(m)
           ELSE TryAgain(IF m.kind \in {"response", "ritual"} THEN "badid" ELSE perr) /\ UNCHANGED answer
    /\ stream' = Take(FromFwd)
    /\ NoFault /\ HostAsBefore /\ UNCHANGED <<hostXid, calls, sent, strayed>>

(* netsync_read returns 0 and sets neither the message nor its length: the *)
(* caller may find what the last call has left there.                      *)
ReceiveEof ==
    /\ hostAt = "wait" /\ AtEof(FromFwd) /\ stream' = Take(FromFwd)
    /\ \/ TryAgain(perr) /\ UNCHANGED answer
       \/ /\ answer > 0 /\ Command(executed[answer]) = Command(calls)
          /\ HostGoes("idle") /\ UNCHANGED <<tries, perr, answer>>
    /\ doubt' = TRUE /\ UNCHANGED faults
    /\ HostAsBefore /\ UNCHANGED <<hostXid, calls, sent, strayed>>

Timeout ==
    /\ hostAt = "wait" /\ Silent(FromFwd) /\ Fault /\ doubt' = TRUE
    /\ TryAgain("timeout2")
    /\ HostAsBefore /\ UNCHANGED <<stream, hostXid, calls, answer, sent, strayed>>

HostCloses == gone' = gone \union {"host"} /\ HostGoes("gone")

HostEnds ==
    /\ hostAt = "idle" /\ HostCloses /\ NoFault
    /\ UNCHANGED <<stream, fwdVars, executed, tries, hostXid, perr, calls, answer, sent, strayed>>

(* host goes at any time, perhaps between the header and the contents.     *)
HostCrashes ==
    /\ hostAt \notin {"wakeup", "listen", "accept", "gone"} /\ HostCloses /\ Fault /\ doubt' = TRUE
    /\ \/ UNCHANGED stream
       \/ /\ hostAt = "send" /\ Writable(FromHost)
          /\ stream' = Put(stream, FromHost, Msg("header", 0, Bump(hostXid)))
    /\ UNCHANGED <<fwdVars, executed, tries, hostXid, perr, calls, answer, sent, strayed>>

HostStep ==
    \/ Listen \/ HostHearsRitual \/ HostSaysRitual \/ Call \/ Send \/ Receive \/ ReceiveEof
    \/ Timeout \/ HostEnds \/ HostCrashes

-----------------------------------------------------------------------------
(* fwd: net_connect, ritual_exch_client and forward_netsync                *)
FwdGoes(step) == fwdAt' = step /\ UNCHANGED gone
FwdEnds(step) == fwdAt' = step /\ gone' = gone \union {"fwd"}

(* A mistake: failed attempts are not counted.                             *)
WrongConnect ==
    /\ fwdAt = "connect"
    /\ IF hostAt = "accept" THEN FwdGoes("say 1") /\ HostGoes("hear 1")
       ELSE FwdGoes("connect") /\ UNCHANGED hostAt
    /\ NoFault
    /\ UNCHANGED <<stream, ready, inbuf, fwdXid, attempts, tries, hostXid, perr, calls, executed,
                   answer, sent, strayed>>

Connect ==
    /\ fwdAt = "connect"
    /\ IF hostAt = "accept"
       THEN /\ FwdGoes("say 1") /\ HostGoes("hear 1") /\ UNCHANGED attempts
       ELSE /\ attempts < Retries /\ attempts' = attempts + 1 /\ UNCHANGED hostAt
            /\ IF attempts' < Retries THEN FwdGoes("connect") ELSE FwdEnds("failed")
    /\ NoFault
    /\ UNCHANGED <<stream, ready, inbuf, fwdXid, tries, hostXid, perr, calls, executed, answer,
                   sent, strayed>>

FwdSays == [s \in {"say 1", "say 2", "say 3"} |->
               CASE s = "say 1" -> "hear 2" [] s = "say 2" -> "hear 3" [] OTHER -> "select"]

FwdSaysRitual ==
    /\ fwdAt \in DOMAIN FwdSays /\ Writable(FromFwd)
    /\ \/ /\ stream' = Put(stream, FromFwd, Msg("ritual", Part[fwdAt], fwdXid))
          /\ FwdGoes(FwdSays[fwdAt])
       \/ Fails(FromFwd) /\ FwdEnds("failed") /\ UNCHANGED stream
    /\ NoFault /\ UNCHANGED <<hostVars, executed, ready, inbuf, fwdXid, attempts>>

(* A mistake: the ID in the header is not looked at.                       *)
WrongXidOf(s) == fwdXid

(* fwd has begun the connection with host, and uses the ID host has sent.  *)
XidOf(s) == IF stream[s] # <<>> THEN Head(stream[s]).xid ELSE fwdXid

FwdHearsRitual ==
    /\ fwdAt \in {"hear 2", "hear 3"}
    /\ \/ /\ Readable(FromHost) /\ stream' = Take(FromHost) /\ fwdXid' = XidOf(FromHost)
          /\ FwdGoes(IF fwdAt = "hear 2" THEN "say 2" ELSE "say 3") /\ NoFault
       \/ /\ Silent(FromHost) /\ Fault /\ doubt' = TRUE /\ FwdEnds("failed")
          /\ UNCHANGED <<stream, fwdXid>>
    /\ UNCHANGED <<hostVars, executed, ready, inbuf, attempts>>

Select ==
    /\ fwdAt = "select"
    /\ ready' = {e \in {"palm", "host"} : Readable(<<e, "fwd">>)} /\ ready' # {}
    /\ FwdGoes("relay")
    /\ NoFault /\ UNCHANGED <<stream, hostVars, executed, inbuf, fwdXid, attempts>>

(* What there is to write after the read: the message; after an end of     *)
(* file, which is no error, the message before it, if that is still there. *)
Read(s) ==
    IF HasMessage(s) THEN {Head(stream[s])}
    ELSE {inbuf} \union (IF stream[s] = <<>> THEN {} ELSE {NoMessage})

(* One side of the loop body, the Palm's first: what came from e goes to o.*)
Relay(e, o) ==
    LET from == <<e, "fwd">>
        to   == <<"fwd", o>>
    IN  /\ fwdAt = "relay" /\ e \in ready /\ Writable(to)
        /\ fwdXid' = IF e = "host" THEN XidOf(from) ELSE fwdXid
        /\ \E m \in Read(from) :
              /\ inbuf' = m
              /\ \/ /\ stream' = Put(Take(from), to, [m EXCEPT !.xid = IF o = "host" THEN fwdXid' ELSE 0])
                    /\ ready' = ready \ {e}
                    /\ FwdGoes(IF ready' = {} THEN "select" ELSE "relay")
                 \/ /\ Fails(to) \/ m = NoMessage
                    /\ FwdEnds("done") /\ stream' = Take(from) /\ UNCHANGED ready
        /\ NoFault /\ UNCHANGED <<hostVars, executed, attempts>>

RelayUp   == Relay("palm", "host")
RelayDown == "palm" \notin ready /\ Relay("host", "palm")

FwdStep == Connect \/ FwdSaysRitual \/ FwdHearsRitual \/ Select \/ RelayUp \/ RelayDown

-----------------------------------------------------------------------------
(* The Palm carries out each request that it gets and answers.             *)
ToPalm   == <<"fwd", "palm">>
FromPalm == <<"palm", "fwd">>

PalmReads ==
    /\ "palm" \notin gone /\ stream[ToPalm] # <<>> /\ Writable(FromPalm)
    /\ LET m == Head(stream[ToPalm])
       IN  IF m.kind = "request"
           THEN /\ Len(executed) < MaxExecuted /\ executed' = Append(executed, m.n)
                /\ stream' = Put(Take(ToPalm), FromPalm, Msg("response", Len(executed'), 0))
           ELSE stream' = Take(ToPalm) /\ UNCHANGED executed
    /\ NoFault /\ UNCHANGED <<gone, hostVars, fwdVars>>

(* It leaves when the session is over, when its request to stop is not     *)
(* heard, or, which is a fault, when the user takes it out of its cradle.  *)
PalmLeaves ==
    /\ "palm" \notin gone /\ gone' = gone \union {"palm"} /\ doubt' = TRUE
    /\ \/ gone # {} /\ UNCHANGED faults
       \/ Len(executed) = MaxExecuted /\ UNCHANGED faults
       \/ Fault
    /\ UNCHANGED <<stream, executed, hostVars, fwdVars>>

Next == Wakeup \/ HostStep \/ FwdStep \/ PalmReads \/ PalmLeaves

Spec == Init /\ [][Next]_vars

(* Every program goes on, and the Palm reads, and leaves when it is over.  *)
(* A write to an end that is gone fails sooner or later.                   *)
FairSpec ==
    /\ Spec
    /\ WF_vars(HostStep) /\ WF_vars(FwdStep) /\ WF_vars(PalmReads)
    /\ WF_vars(gone # {} /\ PalmLeaves)
    /\ SF_vars(FwdStep /\ fwdAt' = "done")

-----------------------------------------------------------------------------
(* The calls of host, by way of fwd, are remote calls as module Rpc has    *)
(* them: executed once and in order, answered by their own execution as    *)
(* long as no timer expires and nobody goes, and never executed after a    *)
(* later one, whatever happens.  Only a host that goes on without the      *)
(* ritual may take a ritual packet for an answer.                          *)
R == INSTANCE Rpc WITH pending <- hostAt \in {"send", "wait"}

RpcUnlessStrayed == R!Init /\ [][R!Next \/ strayed']_(R!vars)

(* fwd's messages to host carry the transaction ID of the request that is  *)
(* waiting for them, although fwd does not know which answers which.       *)
AnsweredUnderItsXid ==
    ~doubt /\ ~strayed =>
        \A k \in DOMAIN stream[FromFwd] :
            stream[FromFwd][k].kind = "response" => stream[FromFwd][k].xid = hostXid

(* fwd ends, whatever the others do, once it has tried to connect.         *)
ForwardEnds == <>(fwdAt \in {"done", "failed"})

(* forward_netsync: "Listen for packets from either pconn, and forward     *)
(* them to the other": no request reaches the Palm more often than host    *)
(* has sent it.                                                            *)
Times(n) == Cardinality({i \in DOMAIN executed : executed[i] = n})
OnlyForwards == \A n \in 1 .. calls : Times(n) <= sent[n]

(* net_connect: "Send a UDP wakeup packet to the given address": fwd does  *)
(* not give up while host waits for its wakeup.                            *)
WakesHost == fwdAt = "failed" => hostAt # "wakeup"
=============================================================================
