---------------------------- MODULE NetSyncProofs ----------------------------
(***************************************************************************)
(* What holds of a forwarded sync for any number of calls and tries, any   *)
(* transaction IDs, streams of any room and any number of faults: the      *)
(* calls of host are remote calls as module Rpc has them.                  *)
(***************************************************************************)
EXTENDS NetSync, SequenceTheorems, TLAPS

(* What is said in a message is of a call that was made, or of an          *)
(* execution that there was.                                               *)
Good(m) ==
    /\ m.kind = "request" => m.n \in 1 .. calls
    /\ m.kind = "response" => m.n \in 1 .. Len(executed)
GoodOK ==
    /\ \A s \in Streams : \A k \in DOMAIN stream[s] : Good(stream[s][k])
    /\ Good(inbuf)
    /\ \A i \in DOMAIN executed : executed[i] <= calls
    /\ \A k \in DOMAIN stream[FromPalm] : stream[FromPalm][k].kind = "response"
    /\ hostAt \in {"send", "wait"} => calls > 0
    /\ "fwd" \in gone => fwdAt \in {"done", "failed"}
    /\ "palm" \in gone => doubt

(* The requests on their way to the Palm are in the order of the calls,    *)
(* the one that fwd has read last, and may write again, among them.        *)
NotAfter(a, b) == a.kind = "request" /\ b.kind = "request" => a.n <= b.n
Ordered(q) == \A j, k \in DOMAIN q : j < k => NotAfter(q[j], q[k])
Past(m) == m.kind = "request" => \A i \in DOMAIN executed : executed[i] <= m.n
OrderOK ==
    /\ Ordered(stream[ToPalm]) /\ Ordered(stream[FromHost])
    /\ \A j \in DOMAIN stream[ToPalm] : NotAfter(stream[ToPalm][j], inbuf) /\ Past(stream[ToPalm][j])
    /\ \A k \in DOMAIN stream[FromHost] : NotAfter(inbuf, stream[FromHost][k]) /\ Past(stream[FromHost][k])
    /\ \A j \in DOMAIN stream[ToPalm], k \in DOMAIN stream[FromHost] :
          NotAfter(stream[ToPalm][j], stream[FromHost][k])
    /\ Past(inbuf)

(* The phases of a session.  Before the calls, there is at most one        *)
(* message, and both ends are where it finds them.                         *)
Nothing    == \A s \in Streams : stream[s] = <<>>
Only(s, m) == stream[s] = <<m>> /\ \A t \in Streams \ {s} : stream[t] = <<>>
Speaks(s)  == \E m \in Message : Only(s, m)
Pristine   == calls = 0 /\ executed = <<>> /\ ready = {} /\ inbuf = NoMessage

Before ==
    /\ hostAt \in {"wakeup", "listen", "accept"} /\ Nothing
    /\ \/ fwdAt = "connect" /\ gone \subseteq {"palm"}
       \/ fwdAt = "failed" /\ gone \subseteq {"palm", "fwd"}

Ritual ==
    /\ gone \subseteq {"palm"}
    /\ \/ hostAt = "hear 1" /\ fwdAt = "say 1" /\ Nothing
       \/ hostAt = "say 2" /\ fwdAt = "hear 2" /\ Nothing
       \/ hostAt = "hear 2" /\ fwdAt = "say 2" /\ Nothing
       \/ hostAt = "say 3" /\ fwdAt = "hear 3" /\ Nothing
       \/ hostAt = "hear 3" /\ fwdAt = "say 3" /\ Nothing
       \/ hostAt = "hear 1" /\ fwdAt = "hear 2" /\ Speaks(FromFwd)
       \/ hostAt = "hear 2" /\ fwdAt = "hear 2" /\ Speaks(FromHost)
       \/ hostAt = "hear 2" /\ fwdAt = "hear 3" /\ Speaks(FromFwd)
       \/ hostAt = "hear 3" /\ fwdAt = "hear 3" /\ Speaks(FromHost)
       \/ hostAt = "hear 3" /\ fwdAt = "select" /\ Speaks(FromFwd)

(* As long as all is well, one message is on its way during a call, or fwd *)
(* has seen it, and none between calls.                                    *)
AtRest    == fwdAt = "select" /\ ready = {}
Fresh     == \A i \in DOMAIN executed : executed[i] < calls
Carried   == executed # <<>> /\ executed[Len(executed)] = calls
AtWork(e) == AtRest \/ (fwdAt = "relay" /\ ready = {e})

Waiting ==
    \/ Only(FromHost, Msg("request", calls, hostXid)) /\ Fresh /\ AtWork("host")
    \/ Only(ToPalm, Msg("request", calls, 0)) /\ Fresh /\ AtRest /\ fwdXid = hostXid
    \/ /\ Only(FromPalm, Msg("response", Len(executed), 0)) /\ Carried
       /\ AtWork("palm") /\ fwdXid = hostXid
    \/ /\ Only(FromFwd, Msg("response", Len(executed), hostXid)) /\ Carried
       /\ AtRest /\ inbuf.kind = "response"

Session ==
    /\ gone = {}
    /\ \/ hostAt = "idle" /\ Nothing /\ AtRest /\ inbuf.kind # "request"
       \/ hostAt = "send" /\ Nothing /\ AtRest /\ Fresh
       \/ hostAt = "wait" /\ Waiting

Over ==
    /\ hostAt = "gone" /\ gone \subseteq {"host", "fwd"}
    /\ fwdAt \in {"select", "relay", "done"} /\ ready \subseteq {"host"} /\ inbuf.kind # "request"
    /\ \A s \in Streams \ {ToPalm} : stream[s] = <<>>
    /\ \A k \in DOMAIN stream[ToPalm] : stream[ToPalm][k].kind # "request"

CleanOK == ~doubt /\ ~strayed => ((Before \/ Ritual) /\ Pristine) \/ Session \/ Over

(* With whatever timers have expired: no ritual packet is on its way to    *)
(* host once it makes calls, unless it has gone on without one.            *)
NoRitual(q)  == \A k \in DOMAIN q : q[k].kind # "ritual"
FirstOnly(q) == \A k \in DOMAIN q : k # 1 => q[k].kind # "ritual"

Cut ==
    /\ "fwd" \in gone
    /\ \/ hostAt \in {"say 2", "say 3"} /\ NoRitual(stream[FromFwd])
       \/ hostAt \in {"hear 1", "hear 2", "hear 3"} /\ FirstOnly(stream[FromFwd])

Third ==
    /\ hostAt = "hear 3" /\ fwdAt \in {"select", "relay"} /\ inbuf.kind # "ritual"
    /\ NoRitual(stream[FromHost]) /\ FirstOnly(stream[FromFwd])

Late ==
    /\ hostAt \in {"idle", "send", "wait"} /\ NoRitual(stream[FromFwd])
    /\ \/ "fwd" \in gone
       \/ fwdAt \in {"select", "relay"} /\ NoRitual(stream[FromHost]) /\ inbuf.kind # "ritual"

PhaseOK ==
    ~strayed /\ hostAt # "gone" => ((Before \/ Ritual) /\ Pristine) \/ Cut \/ Third \/ Late

IInv == TypeOK /\ GoodOK /\ OrderOK /\ CleanOK /\ PhaseOK

-----------------------------------------------------------------------------
(* The four streams.                                                       *)
LEMMA StreamFacts ==
    /\ Streams = {FromPalm, ToPalm, FromFwd, FromHost}
    /\ FromPalm # ToPalm /\ FromPalm # FromFwd /\ FromPalm # FromHost
    /\ ToPalm # FromFwd /\ ToPalm # FromHost /\ FromFwd # FromHost
    /\ FromPalm[1] = "palm" /\ FromPalm[2] = "fwd" /\ ToPalm[1] = "fwd" /\ ToPalm[2] = "palm"
    /\ FromFwd[1] = "fwd" /\ FromFwd[2] = "host" /\ FromHost[1] = "host" /\ FromHost[2] = "fwd"
BY DEF Streams, FromPalm, ToPalm, FromFwd, FromHost

Typed(q) == q \in [Streams -> Seq(Message)] /\ \A s \in Streams : Len(q[s]) <= Room

LEMMA TakeFacts ==
    ASSUME Typed(stream), NEW s \in Streams
    PROVE  /\ Typed(Take(s)) /\ \A t \in Streams \ {s} : Take(s)[t] = stream[t]
           /\ Take(s)[s] = IF stream[s] = <<>> THEN <<>> ELSE Tail(stream[s])
<1>1. stream[s] \in Seq(Message) /\ Len(stream[s]) <= Room /\ Room \in Nat
  BY NetSyncAssumption DEF Typed
<1>2. stream[s] # <<>> => Tail(stream[s]) \in Seq(Message) /\ Len(Tail(stream[s])) <= Room
  BY <1>1
<1> QED
  BY <1>1, <1>2 DEF Typed, Take

LEMMA PutFacts ==
    ASSUME NEW q, Typed(q), NEW s \in Streams, NEW m \in Message,
           s[2] \in gone \/ Len(q[s]) < Room
    PROVE  /\ Typed(Put(q, s, m)) /\ \A t \in Streams \ {s} : Put(q, s, m)[t] = q[t]
           /\ Put(q, s, m)[s] = IF s[2] \in gone THEN q[s] ELSE Append(q[s], m)
<1>1. q[s] \in Seq(Message) /\ Len(q[s]) <= Room /\ Room \in Nat
  BY NetSyncAssumption DEF Typed
<1>2. Append(q[s], m) \in Seq(Message) /\ Len(Append(q[s], m)) = Len(q[s]) + 1
  BY <1>1
<1> QED
  BY <1>1, <1>2 DEF Typed, Put

LEMMA MessageFacts ==
    /\ NoMessage \in Message /\ NoMessage.kind = "junk"
    /\ \A n, xid \in Nat : \A kind \in {"ritual", "request", "response", "junk", "header"} :
          /\ Msg(kind, n, xid) \in Message
          /\ Msg(kind, n, xid).kind = kind /\ Msg(kind, n, xid).n = n /\ Msg(kind, n, xid).xid = xid
    /\ \A m \in Message, x \in Nat :
          /\ [m EXCEPT !.xid = x] \in Message
          /\ [m EXCEPT !.xid = x].kind = m.kind /\ [m EXCEPT !.xid = x].n = m.n
          /\ [m EXCEPT !.xid = x].xid = x
BY DEF Message, Msg, NoMessage

LEMMA BumpFacts == ASSUME NEW x \in Nat PROVE Bump(x) \in 1 .. XidTop
<1>1. XidTop \in Nat /\ XidTop > 0
  BY NetSyncAssumption
<1>2. x % XidTop \in 0 .. XidTop - 1
  BY <1>1
<1> QED
  BY <1>1, <1>2 DEF Bump

(* What becomes of the messages on their way, one by one.                  *)
Kept(q1, q, c)     == \A k \in DOMAIN q1 : k + c \in DOMAIN q /\ q1[k] = q[k + c]
Longer(q1, q, m)   == \A k \in DOMAIN q1 : (k \in DOMAIN q /\ q1[k] = q[k]) \/ (k = Len(q) + 1 /\ q1[k] = m)
Same(q1, q, S)     == \A t \in S : q1[t] = q[t]

LEMMA Took ==
    ASSUME Typed(stream), NEW s \in Streams
    PROVE  Typed(Take(s)) /\ Same(Take(s), stream, Streams \ {s}) /\ Kept(Take(s)[s], stream[s], 1)
<1>1. stream[s] \in Seq(Message)
  BY DEF Typed
<1>2. CASE stream[s] = <<>>
  <2>1. Take(s)[s] = <<>>
    BY <1>2, TakeFacts
  <2> QED
    BY <2>1, TakeFacts DEF Kept, Same
<1>3. CASE stream[s] # <<>>
  <2>1. Take(s)[s] = Tail(stream[s])
    BY <1>3, TakeFacts
  <2>2. Kept(Tail(stream[s]), stream[s], 1)
    BY <1>1, <1>3 DEF Kept
  <2> QED
    BY <2>1, <2>2, TakeFacts DEF Same
<1> QED
  BY <1>2, <1>3

LEMMA Wrote ==
    ASSUME NEW q, Typed(q), NEW s \in Streams, NEW m \in Message,
           s[2] \in gone \/ Len(q[s]) < Room
    PROVE  Typed(Put(q, s, m)) /\ Same(Put(q, s, m), q, Streams \ {s}) /\ Longer(Put(q, s, m)[s], q[s], m)
<1>1. q[s] \in Seq(Message)
  BY DEF Typed
<1>2. Longer(Append(q[s], m), q[s], m) /\ Longer(q[s], q[s], m)
  BY <1>1 DEF Longer
<1> QED
  BY <1>2, PutFacts DEF Same

LEMMA Passed ==
    ASSUME Typed(stream), NEW s \in Streams, NEW t \in Streams \ {s}, NEW m \in Message, Writable(t)
    PROVE  LET q == Put(Take(s), t, m)
           IN  /\ Typed(q) /\ Same(q, stream, Streams \ {s, t})
               /\ Kept(q[s], stream[s], 1) /\ Longer(q[t], stream[t], m)
<1>1. PICK q0 : q0 = Take(s)
  OBVIOUS
<1>2. Typed(q0) /\ Same(q0, stream, Streams \ {s}) /\ Kept(q0[s], stream[s], 1)
  BY <1>1, Took
<1>3. q0[t] = stream[t] /\ (t[2] \in gone \/ Len(q0[t]) < Room)
  BY <1>2 DEF Same, Writable
<1>4. /\ Typed(Put(q0, t, m)) /\ Same(Put(q0, t, m), q0, Streams \ {t})
      /\ Longer(Put(q0, t, m)[t], q0[t], m)
  BY <1>2, <1>3, Wrote
<1>5. Put(q0, t, m)[s] = q0[s] /\ Same(Put(q0, t, m), stream, Streams \ {s, t})
  BY <1>2, <1>4 DEF Same
<1> QED
  BY <1>1, <1>2, <1>3, <1>4, <1>5

LEMMA TypedNow == ASSUME TypeOK PROVE Typed(stream) /\ \A s \in Streams : stream[s] \in Seq(Message)
BY DEF TypeOK, Typed

LEMMA HeadFacts ==
    ASSUME TypeOK, NEW s \in Streams, stream[s] # <<>>
    PROVE  /\ Head(stream[s]) \in Message /\ 1 \in DOMAIN stream[s] /\ Head(stream[s]) = stream[s][1]
           /\ Head(stream[s]).xid \in Nat /\ Head(stream[s]).n \in Nat
<1>1. stream[s] \in Seq(Message)
  BY TypedNow
<1>2. Head(stream[s]) \in Message /\ 1 \in DOMAIN stream[s] /\ Head(stream[s]) = stream[s][1]
  BY <1>1
<1> QED
  BY <1>2 DEF Message

(* The messages that stay keep what they say; more calls and executions    *)
(* do not make it wrong.                                                   *)
LEMMA GoodStays ==
    ASSUME TypeOK, calls' \in Nat, calls <= calls', executed' \in Seq(Nat), Len(executed) <= Len(executed'),
           NEW m, Good(m)
    PROVE  /\ m.kind = "request" => m.n \in 1 .. calls'
           /\ m.kind = "response" => m.n \in 1 .. Len(executed')
BY DEF Good, TypeOK

(* Each message on its way was there before, or is a new one that is good. *)
Carries ==
    \A s \in Streams : \A k \in DOMAIN stream'[s] :
        \/ \E j \in DOMAIN stream[s] : stream'[s][k] = stream[s][j]
        \/ /\ stream'[s][k].kind = "request" => stream'[s][k].n \in 1 .. calls'
           /\ stream'[s][k].kind = "response" => stream'[s][k].n \in 1 .. Len(executed')
           /\ s # FromPalm

LEMMA GoodMessages ==
    ASSUME TypeOK, GoodOK, calls' \in Nat, calls <= calls', executed' \in Seq(Nat),
           Len(executed) <= Len(executed'), Carries
    PROVE  /\ (\A s \in Streams : \A k \in DOMAIN stream[s] : Good(stream[s][k]))'
           /\ (\A k \in DOMAIN stream[FromPalm] : stream[FromPalm][k].kind = "response")'
<1>1. ASSUME NEW s \in Streams, NEW k \in DOMAIN stream'[s]
      PROVE  /\ stream'[s][k].kind = "request" => stream'[s][k].n \in 1 .. calls'
             /\ stream'[s][k].kind = "response" => stream'[s][k].n \in 1 .. Len(executed')
  <2>1. CASE \E j \in DOMAIN stream[s] : stream'[s][k] = stream[s][j]
    BY <2>1, GoodStays DEF GoodOK
  <2> QED
    BY <2>1 DEF Carries
<1>2. ASSUME NEW k \in DOMAIN stream'[FromPalm]
      PROVE  stream'[FromPalm][k].kind = "response"
  BY StreamFacts DEF Carries, GoodOK
<1> QED
  BY <1>1, <1>2 DEF Good

LEMMA CarriesSame == ASSUME UNCHANGED stream PROVE Carries
BY DEF Carries

LEMMA CarriesTake ==
    ASSUME TypeOK, NEW s \in Streams, stream' = Take(s)
    PROVE  Carries /\ Typed(stream')
BY Took, TypedNow DEF Carries, Kept, Same

LEMMA CarriesPut ==
    ASSUME TypeOK, NEW s \in Streams \ {FromPalm}, NEW m \in Message, Writable(s), stream' = Put(stream, s, m),
           m.kind = "request" => m.n \in 1 .. calls',
           m.kind = "response" => m.n \in 1 .. Len(executed')
    PROVE  Carries /\ Typed(stream')
<1>1. Typed(stream') /\ Same(stream', stream, Streams \ {s}) /\ Longer(stream'[s], stream[s], m)
  BY Wrote, TypedNow DEF Writable
<1> QED
  BY <1>1 DEF Carries, Longer, Same

LEMMA CarriesOn ==
    ASSUME TypeOK, NEW s \in Streams, NEW t \in Streams \ {s, FromPalm}, NEW m \in Message, Writable(t),
           stream' = Put(Take(s), t, m),
           m.kind = "request" => m.n \in 1 .. calls',
           m.kind = "response" => m.n \in 1 .. Len(executed')
    PROVE  Carries /\ Typed(stream')
<1>1. /\ Typed(stream') /\ Same(stream', stream, Streams \ {s, t})
      /\ Kept(stream'[s], stream[s], 1) /\ Longer(stream'[t], stream[t], m)
  BY Passed, TypedNow
<1> QED
  BY <1>1 DEF Carries, Longer, Same, Kept

-----------------------------------------------------------------------------
(* The types, and what is said in messages, step by step.                  *)
LEMMA TryAgainTypes ==
    ASSUME TypeOK
    PROVE  \A p \in {"noerr", "timeout2", "badid"} :
              TryAgain(p) => /\ tries' \in 0 .. MaxTries /\ perr' \in {"noerr", "timeout2", "badid"}
                             /\ hostAt' \in {"send", "idle"} /\ (hostAt' = "send" => p = "timeout2")
<1> SUFFICES ASSUME NEW p \in {"noerr", "timeout2", "badid"}, TryAgain(p)
             PROVE  /\ tries' \in 0 .. MaxTries /\ perr' \in {"noerr", "timeout2", "badid"}
                    /\ hostAt' \in {"send", "idle"} /\ (hostAt' = "send" => p = "timeout2")
  OBVIOUS
<1>1. tries \in 0 .. MaxTries /\ MaxTries \in Nat
  BY NetSyncAssumption DEF TypeOK
<1> QED
  BY <1>1 DEF TryAgain, HostGoes

(* Steps that change no call, no execution and not what fwd has read.      *)
Apart ==
    /\ Carries /\ UNCHANGED <<calls, executed, inbuf>>
    /\ hostAt' \in {"send", "wait"} => hostAt \in {"send", "wait"}
    /\ "fwd" \in gone' => fwdAt' \in {"done", "failed"}
    /\ "palm" \in gone' => doubt'

LEMMA GoodApart == ASSUME TypeOK, GoodOK, Apart PROVE GoodOK'
<1>1. /\ calls' \in Nat /\ calls <= calls' /\ executed' \in Seq(Nat) /\ Len(executed) <= Len(executed')
      /\ executed \in Seq(1 .. MaxCalls)
  BY NetSyncAssumption DEF TypeOK, Apart
<1>2. /\ (\A s \in Streams : \A k \in DOMAIN stream[s] : Good(stream[s][k]))'
      /\ (\A k \in DOMAIN stream[FromPalm] : stream[FromPalm][k].kind = "response")'
  BY <1>1, GoodMessages DEF Apart
<1>3. Good(inbuf)' /\ (\A i \in DOMAIN executed : executed[i] <= calls)'
  BY DEF Apart, GoodOK, Good
<1>4. (hostAt \in {"send", "wait"} => calls > 0)'
  BY DEF Apart, GoodOK
<1> QED
  BY <1>2, <1>3, <1>4 DEF GoodOK, Apart

LEMMA SameRest ==
    ASSUME TypeOK, GoodOK, UNCHANGED <<fwdAt, doubt>>, gone' = gone
    PROVE  ("fwd" \in gone' => fwdAt' \in {"done", "failed"}) /\ ("palm" \in gone' => doubt')
BY DEF GoodOK

LEMMA HostStreams ==
    /\ FromFwd \in Streams /\ FromHost \in Streams \ {FromPalm} /\ FromFwd \in Streams \ {FromPalm}
    /\ ToPalm \in Streams \ {FromPalm} /\ FromPalm \in Streams
BY StreamFacts

LEMMA WakeupTypes == ASSUME TypeOK, GoodOK, Wakeup PROVE TypeOK' /\ GoodOK'
<1> USE DEF Wakeup, HostGoes, NoFault, HostAsBefore, fwdVars
<1>1. TypeOK'
  BY DEF TypeOK, WhereHost
<1>2. Apart
  BY CarriesSame, SameRest DEF Apart
<1> QED
  BY <1>1, <1>2, GoodApart

LEMMA ListenTypes == ASSUME TypeOK, GoodOK, Listen PROVE TypeOK' /\ GoodOK'
<1> USE DEF Listen, HostGoes, NoFault, Fault, HostAsBefore, fwdVars
<1>1. TypeOK'
  <2>1. hostAt' \in WhereHost /\ strayed' \in BOOLEAN
    BY DEF TypeOK, WhereHost
  <2>2. faults' \in 0 .. MaxFaults
    BY NetSyncAssumption DEF TypeOK
  <2> QED
    BY <2>1, <2>2 DEF TypeOK
<1>2. Apart
  BY CarriesSame, SameRest DEF Apart
<1> QED
  BY <1>1, <1>2, GoodApart

LEMMA HostHearsTypes == ASSUME TypeOK, GoodOK, HostHearsRitual PROVE TypeOK' /\ GoodOK'
<1> USE DEF HostHearsRitual, HostGoes, NoFault, Fault, HostAsBefore, fwdVars
<1>1. Carries /\ Typed(stream')
  BY HostStreams, CarriesTake, CarriesSame, TypedNow
<1>2. hostAt \in {"hear 1", "hear 2", "hear 3"} /\ hostAt' \in {"say 2", "say 3", "idle"}
  BY DEF Heard
<1>3. faults' \in 0 .. MaxFaults
  BY NetSyncAssumption DEF TypeOK
<1>4. TypeOK'
  <2>1. hostAt' \in WhereHost /\ strayed' \in BOOLEAN /\ doubt' \in BOOLEAN
        /\ perr' \in {"noerr", "timeout2", "badid"}
    BY <1>2 DEF TypeOK, WhereHost
  <2> QED
    BY <1>1, <1>3, <2>1 DEF TypeOK, Typed
<1>5. "palm" \in gone' => doubt'
  <2>1. (doubt' <=> doubt) \/ doubt'
    OBVIOUS
  <2>2. gone' = gone /\ ("palm" \in gone => doubt)
    BY DEF GoodOK
  <2> QED
    BY <2>1, <2>2
<1>6. "fwd" \in gone' => fwdAt' \in {"done", "failed"}
  BY DEF GoodOK
<1>7. Apart
  BY <1>1, <1>2, <1>5, <1>6 DEF Apart
<1> QED
  BY <1>4, <1>7, GoodApart

LEMMA RitualMessage ==
    \A i \in {1, 2, 3} : \A x \in Nat : /\ Msg("ritual", i, x) \in Message
                                        /\ Msg("ritual", i, x).kind = "ritual"
BY DEF Message, Msg

LEMMA HostSaysTypes == ASSUME TypeOK, GoodOK, HostSaysRitual PROVE TypeOK' /\ GoodOK'
<1> USE DEF HostSaysRitual, HostGoes, NoFault, HostAsBefore, fwdVars
<1>1. hostAt \in {"say 2", "say 3"} /\ hostAt' \in {"hear 2", "hear 3", "idle"}
      /\ Part[hostAt] \in {1, 2, 3}
  BY DEF Said, Part
<1>2. hostXid' \in 1 .. XidTop
  BY BumpFacts DEF TypeOK
<1>3. Carries /\ Typed(stream')
  <2>1. CASE UNCHANGED stream
    BY <2>1, CarriesSame, TypedNow
  <2>2. CASE stream' = Put(stream, FromHost, Msg("ritual", Part[hostAt], hostXid'))
    <3>1. PICK m : m = Msg("ritual", Part[hostAt], hostXid')
      OBVIOUS
    <3>2. m \in Message /\ m.kind = "ritual"
      <4>1. hostXid' \in Nat
        BY <1>2
      <4> QED
        BY <1>1, <3>1, <4>1, RitualMessage
    <3>3. stream' = Put(stream, FromHost, m) /\ Writable(FromHost)
      BY <2>2, <3>1
    <3> QED
      BY <3>2, <3>3, HostStreams, CarriesPut
  <2> QED
    BY <2>1, <2>2
<1>4. TypeOK'
  <2>1. hostAt' \in WhereHost /\ strayed' \in BOOLEAN
    BY <1>1 DEF TypeOK, WhereHost
  <2> QED
    BY <1>2, <1>3, <2>1 DEF TypeOK, Typed
<1>5. Apart
  BY <1>1, <1>3, SameRest DEF Apart
<1> QED
  BY <1>4, <1>5, GoodApart

LEMMA CallTypes == ASSUME TypeOK, GoodOK, Call PROVE TypeOK' /\ GoodOK'
<1> USE DEF Call, HostGoes, NoFault, HostAsBefore, fwdVars
<1>1. calls \in 0 .. MaxCalls /\ MaxCalls \in Nat /\ MaxTries \in Nat \ {0} /\ executed \in Seq(1 .. MaxCalls)
  BY NetSyncAssumption DEF TypeOK
<1>2. TypeOK'
  <2>1. calls' \in 0 .. MaxCalls /\ tries' \in 0 .. MaxTries /\ hostAt' \in WhereHost
    BY <1>1 DEF WhereHost
  <2> QED
    BY <2>1 DEF TypeOK
<1>3. calls' \in Nat /\ calls <= calls' /\ executed' \in Seq(Nat) /\ Len(executed) <= Len(executed')
      /\ calls' > 0
  BY <1>1
<1>4. /\ (\A s \in Streams : \A k \in DOMAIN stream[s] : Good(stream[s][k]))'
      /\ (\A k \in DOMAIN stream[FromPalm] : stream[FromPalm][k].kind = "response")'
  BY <1>3, GoodMessages, CarriesSame
<1>5. Good(inbuf)'
  BY <1>3, GoodStays DEF GoodOK, Good
<1>6. (\A i \in DOMAIN executed : executed[i] <= calls)'
  <2> SUFFICES ASSUME NEW i \in DOMAIN executed PROVE executed[i] <= calls'
    OBVIOUS
  <2>1. executed[i] <= calls /\ executed[i] \in Nat
    BY <1>1 DEF GoodOK
  <2> QED
    BY <1>1, <2>1
<1> QED
  BY <1>2, <1>3, <1>4, <1>5, <1>6, SameRest DEF GoodOK

LEMMA SendTypes == ASSUME TypeOK, GoodOK, Send PROVE TypeOK' /\ GoodOK'
<1> USE DEF Send, HostGoes, NoFault, HostAsBefore, fwdVars
<1>1. hostXid' \in 1 .. XidTop
  BY BumpFacts DEF TypeOK
<1>0. calls \in 1 .. MaxCalls /\ calls \in 1 .. calls /\ MaxCalls \in Nat
  BY NetSyncAssumption DEF TypeOK, GoodOK
<1>2. CASE Fails(FromHost) /\ TryAgain(perr) /\ UNCHANGED <<stream, sent>>
  <2>1. tries' \in 0 .. MaxTries /\ perr' \in {"noerr", "timeout2", "badid"} /\ hostAt' \in {"send", "idle"}
    BY <1>2, TryAgainTypes DEF TypeOK
  <2>2. TypeOK'
    <3>1. hostAt' \in WhereHost
      BY <2>1 DEF WhereHost
    <3> QED
      BY <1>1, <1>2, <2>1, <3>1 DEF TypeOK
  <2>3. Apart
    BY <1>2, <2>1, CarriesSame, SameRest DEF Apart
  <2> QED
    BY <2>2, <2>3, GoodApart
<1>3. CASE /\ stream' = Put(stream, FromHost, Msg("request", calls, hostXid'))
           /\ sent' = [sent EXCEPT ![calls] = @ + 1]
           /\ HostGoes("wait") /\ UNCHANGED <<tries, perr>>
  <2>1. PICK m : m = Msg("request", calls, hostXid')
    OBVIOUS
  <2>2. m \in Message /\ m.kind = "request" /\ m.n = calls
    BY <1>0, <1>1, <2>1, MessageFacts
  <2>3. stream' = Put(stream, FromHost, m) /\ Writable(FromHost)
    BY <1>3, <2>1
  <2>4. Carries /\ Typed(stream')
    BY <1>0, <2>2, <2>3, HostStreams, CarriesPut
  <2>5. sent' \in [1 .. MaxCalls -> Nat]
    BY <1>0, <1>3 DEF TypeOK
  <2>6. TypeOK'
    <3>1. hostAt' \in WhereHost
      BY <1>3 DEF WhereHost
    <3> QED
      BY <1>1, <1>3, <2>4, <2>5, <3>1 DEF TypeOK, Typed
  <2>7. Apart
    BY <1>3, <2>4, SameRest DEF Apart
  <2> QED
    BY <2>6, <2>7, GoodApart
<1> QED
  BY <1>2, <1>3

LEMMA ReceiveTypes == ASSUME TypeOK, GoodOK, Receive PROVE TypeOK' /\ GoodOK'
<1> USE DEF Receive, HostGoes, NoFault, HostAsBefore, fwdVars
<1>1. Carries /\ Typed(stream')
  BY HostStreams, CarriesTake
<1>2. PICK m : m = Head(stream[FromFwd])
  OBVIOUS
<1>3. /\ IF Answers(m) THEN Return(m)
         ELSE TryAgain(IF m.kind \in {"response", "ritual"} THEN "badid" ELSE perr) /\ UNCHANGED answer
      /\ stream[FromFwd] # <<>>
  BY <1>2 DEF HasMessage
<1>4. m.kind = "response" => m.n \in 1 .. Len(executed)
  BY <1>2, <1>3, HeadFacts, HostStreams DEF GoodOK, Good
<1>5. CASE Answers(m) /\ Return(m)
  <2>1. answer' \in -1 .. Len(executed) /\ hostAt' \in WhereHost /\ Len(executed) \in Nat
    BY <1>4, <1>5 DEF Return, TypeOK, WhereHost
  <2>2. TypeOK'
    BY <1>1, <1>5, <2>1 DEF TypeOK, Typed, Return
  <2>3. Apart
    BY <1>1, <1>5, SameRest DEF Apart, Return
  <2> QED
    BY <2>2, <2>3, GoodApart
<1>6. CASE ~Answers(m)
  <2>1. PICK p \in {"noerr", "timeout2", "badid"} : TryAgain(p) /\ UNCHANGED answer
    BY <1>3, <1>6 DEF TypeOK
  <2>2. tries' \in 0 .. MaxTries /\ perr' \in {"noerr", "timeout2", "badid"} /\ hostAt' \in {"send", "idle"}
    BY <2>1, TryAgainTypes
  <2>3. hostAt' \in WhereHost
    BY <2>2 DEF WhereHost
  <2>4. TypeOK'
    BY <1>1, <2>1, <2>2, <2>3 DEF TypeOK, Typed
  <2>5. Apart
    BY <1>1, <2>2, SameRest DEF Apart
  <2> QED
    BY <2>4, <2>5, GoodApart
<1> QED
  BY <1>3, <1>5, <1>6

LEMMA ReceiveEofTypes == ASSUME TypeOK, GoodOK, ReceiveEof PROVE TypeOK' /\ GoodOK'
<1> USE DEF ReceiveEof, HostGoes, HostAsBefore, fwdVars
<1>1. Carries /\ Typed(stream')
  BY HostStreams, CarriesTake
<1>2. /\ tries' \in 0 .. MaxTries /\ perr' \in {"noerr", "timeout2", "badid"}
      /\ hostAt' \in {"send", "idle"} /\ UNCHANGED answer
  BY TryAgainTypes DEF TypeOK
<1>3. TypeOK'
  <2>1. hostAt' \in WhereHost
    BY <1>2 DEF WhereHost
  <2> QED
    BY <1>1, <1>2, <2>1 DEF TypeOK, Typed
<1>4. Apart
  BY <1>1, <1>2 DEF Apart, GoodOK
<1> QED
  BY <1>3, <1>4, GoodApart

LEMMA TimeoutTypes == ASSUME TypeOK, GoodOK, Timeout PROVE TypeOK' /\ GoodOK'
<1> USE DEF Timeout, HostGoes, HostAsBefore, fwdVars, Fault
<1>1. /\ tries' \in 0 .. MaxTries /\ perr' \in {"noerr", "timeout2", "badid"} /\ hostAt' \in {"send", "idle"}
  BY TryAgainTypes
<1>2. faults' \in 0 .. MaxFaults
  BY NetSyncAssumption DEF TypeOK
<1>3. TypeOK'
  <2>1. hostAt' \in WhereHost
    BY <1>1 DEF WhereHost
  <2> QED
    BY <1>1, <1>2, <2>1 DEF TypeOK
<1>4. Apart
  BY <1>1, CarriesSame DEF Apart, GoodOK
<1> QED
  BY <1>3, <1>4, GoodApart

LEMMA HostEndsTypes == ASSUME TypeOK, GoodOK, HostEnds PROVE TypeOK' /\ GoodOK'
<1> USE DEF HostEnds, HostCloses, HostGoes, NoFault, fwdVars
<1>1. TypeOK'
  BY DEF TypeOK, WhereHost, Ends
<1>2. Apart
  BY CarriesSame DEF Apart, GoodOK
<1> QED
  BY <1>1, <1>2, GoodApart

LEMMA HostCrashesTypes == ASSUME TypeOK, GoodOK, HostCrashes PROVE TypeOK' /\ GoodOK'
<1> USE DEF HostCrashes, HostCloses, HostGoes, Fault, fwdVars
<1>1. Carries /\ Typed(stream')
  <2>1. CASE UNCHANGED stream
    BY <2>1, CarriesSame, TypedNow
  <2>2. CASE Writable(FromHost) /\ stream' = Put(stream, FromHost, Msg("header", 0, Bump(hostXid)))
    <3>1. PICK m : m = Msg("header", 0, Bump(hostXid))
      OBVIOUS
    <3>2. m \in Message /\ m.kind = "header"
      <4>1. Bump(hostXid) \in Nat /\ 0 \in Nat
        BY BumpFacts DEF TypeOK
      <4> QED
        BY <3>1, <4>1 DEF Message, Msg
    <3>3. stream' = Put(stream, FromHost, m)
      BY <2>2, <3>1
    <3> QED
      BY <2>2, <3>2, <3>3, HostStreams, CarriesPut
  <2> QED
    BY <2>1, <2>2
<1>2. faults' \in 0 .. MaxFaults /\ hostAt' \in WhereHost /\ gone' \subseteq Ends /\ doubt' \in BOOLEAN
  <2>1. faults' \in 0 .. MaxFaults
    BY NetSyncAssumption DEF TypeOK
  <2>2. hostAt' \in WhereHost /\ gone' \subseteq Ends
    BY DEF TypeOK, WhereHost, Ends
  <2> QED
    BY <2>1, <2>2
<1>3. TypeOK'
  BY <1>1, <1>2 DEF TypeOK, Typed
<1>4. "fwd" \in gone' => fwdAt' \in {"done", "failed"}
  BY DEF GoodOK
<1>5. Apart
  BY <1>1, <1>4 DEF Apart
<1> QED
  BY <1>3, <1>5, GoodApart

LEMMA ConnectTypes == ASSUME TypeOK, GoodOK, Connect PROVE TypeOK' /\ GoodOK'
<1>1. /\ attempts' = attempts \/ (attempts < Retries /\ attempts' = attempts + 1)
      /\ fwdAt' \in {"say 1", "connect", "failed"} /\ hostAt' \in {hostAt, "hear 1"}
      /\ gone' = gone \/ (gone' = gone \union {"fwd"} /\ fwdAt' = "failed")
      /\ UNCHANGED <<stream, ready, inbuf, fwdXid, tries, hostXid, perr, calls, executed, answer,
                     sent, strayed, doubt, faults>>
      /\ fwdAt = "connect"
  BY DEF Connect, HostGoes, FwdGoes, FwdEnds, NoFault
<1>2. attempts' \in 0 .. Retries
  <2>1. attempts \in 0 .. Retries /\ Retries \in Nat
    BY NetSyncAssumption DEF TypeOK
  <2>2. \A a \in 0 .. Retries : a < Retries => a + 1 \in 0 .. Retries
    BY <2>1
  <2> QED
    BY <1>1, <2>1, <2>2
<1>3. fwdAt' \in WhereFwd /\ hostAt' \in WhereHost /\ gone' \subseteq Ends
  BY <1>1 DEF TypeOK, WhereFwd, WhereHost, Ends
<1>4. TypeOK'
  BY <1>1, <1>2, <1>3 DEF TypeOK
<1>5. /\ "fwd" \in gone' => fwdAt' \in {"done", "failed"}
      /\ "palm" \in gone' => doubt'
      /\ hostAt' \in {"send", "wait"} => hostAt \in {"send", "wait"}
  BY <1>1 DEF GoodOK
<1>6. Apart
  BY <1>1, <1>5, CarriesSame DEF Apart
<1> QED
  BY <1>4, <1>6, GoodApart

LEMMA FwdSaysTypes == ASSUME TypeOK, GoodOK, FwdSaysRitual PROVE TypeOK' /\ GoodOK'
<1> USE DEF FwdSaysRitual, FwdGoes, FwdEnds, NoFault, hostVars
<1>1. fwdAt \in {"say 1", "say 2", "say 3"} /\ fwdAt' \in {"hear 2", "hear 3", "select", "failed"}
      /\ Part[fwdAt] \in {1, 2, 3} /\ ("fwd" \in gone' => "fwd" \in gone \/ fwdAt' = "failed")
  BY DEF FwdSays, Part
<1>2. Carries /\ Typed(stream')
  <2>1. CASE UNCHANGED stream
    BY <2>1, CarriesSame, TypedNow
  <2>2. CASE stream' = Put(stream, FromFwd, Msg("ritual", Part[fwdAt], fwdXid))
    <3>1. PICK m : m = Msg("ritual", Part[fwdAt], fwdXid)
      OBVIOUS
    <3>2. m \in Message /\ m.kind = "ritual"
      BY <1>1, <3>1, RitualMessage DEF TypeOK
    <3>3. stream' = Put(stream, FromFwd, m) /\ Writable(FromFwd)
      BY <2>2, <3>1
    <3> QED
      BY <3>2, <3>3, HostStreams, CarriesPut
  <2> QED
    BY <2>1, <2>2
<1>3. TypeOK'
  <2>1. fwdAt' \in WhereFwd /\ gone' \subseteq Ends
    BY <1>1 DEF TypeOK, WhereFwd, Ends
  <2> QED
    BY <1>2, <2>1 DEF TypeOK, Typed
<1>4. "palm" \in gone' => doubt'
  BY DEF GoodOK
<1>5. Apart
  BY <1>1, <1>2, <1>4 DEF Apart, GoodOK
<1> QED
  BY <1>3, <1>5, GoodApart

LEMMA XidOfTypes == ASSUME TypeOK, NEW s \in Streams PROVE XidOf(s) \in Nat
BY HeadFacts DEF XidOf, TypeOK

LEMMA FwdHearsTypes == ASSUME TypeOK, GoodOK, FwdHearsRitual PROVE TypeOK' /\ GoodOK'
<1>1. /\ (stream' = Take(FromHost) /\ fwdXid' = XidOf(FromHost)) \/ UNCHANGED <<stream, fwdXid>>
      /\ fwdAt \in {"hear 2", "hear 3"} /\ fwdAt' \in {"say 2", "say 3", "failed"}
      /\ gone' = gone \/ (gone' = gone \union {"fwd"} /\ fwdAt' = "failed")
      /\ faults' = faults \/ (faults < MaxFaults /\ faults' = faults + 1)
      /\ UNCHANGED <<hostVars, executed, ready, inbuf, attempts>>
  BY DEF FwdHearsRitual, FwdGoes, FwdEnds, NoFault, Fault
<1>d. doubt' \in BOOLEAN /\ (doubt => doubt')
  <2>1. doubt \in BOOLEAN
    BY DEF TypeOK
  <2>2. doubt' = doubt \/ doubt' = TRUE
    BY DEF FwdHearsRitual, NoFault
  <2> QED
    BY <2>1, <2>2, Zenon
<1>2. Carries /\ Typed(stream') /\ fwdXid' \in Nat
  <2>1. CASE stream' = Take(FromHost) /\ fwdXid' = XidOf(FromHost)
    BY <2>1, HostStreams, CarriesTake, XidOfTypes
  <2>2. CASE UNCHANGED <<stream, fwdXid>>
    BY <2>2, CarriesSame, TypedNow DEF TypeOK
  <2> QED
    BY <1>1, <2>1, <2>2
<1>3. faults' \in 0 .. MaxFaults
  <2>1. faults \in 0 .. MaxFaults /\ MaxFaults \in Nat
    BY NetSyncAssumption DEF TypeOK
  <2>2. \A a \in 0 .. MaxFaults : a < MaxFaults => a + 1 \in 0 .. MaxFaults
    BY <2>1
  <2> QED
    BY <1>1, <2>1, <2>2
<1>4. fwdAt' \in WhereFwd /\ gone' \subseteq Ends
  BY <1>1 DEF TypeOK, WhereFwd, Ends
<1>5. TypeOK'
  BY <1>1, <1>d, <1>2, <1>3, <1>4 DEF TypeOK, Typed, hostVars
<1>6. "fwd" \in gone' => fwdAt' \in {"done", "failed"}
  BY <1>1 DEF GoodOK
<1>7. "palm" \in gone' => doubt'
  <2>1. gone' = gone \/ gone' = gone \union {"fwd"}
    BY <1>1
  <2>2. "palm" \in gone' => "palm" \in gone
    BY <2>1
  <2> QED
    BY <1>d, <2>2 DEF GoodOK
<1>8. Apart
  BY <1>1, <1>2, <1>6, <1>7 DEF Apart, hostVars
<1> QED
  BY <1>5, <1>8, GoodApart

LEMMA SelectTypes == ASSUME TypeOK, GoodOK, Select PROVE TypeOK' /\ GoodOK'
<1> USE DEF Select, FwdGoes, NoFault, hostVars
<1>1. ready' \subseteq {"palm", "host"}
  OBVIOUS
<1>2. TypeOK'
  BY <1>1 DEF TypeOK, WhereFwd
<1>3. Apart
  BY CarriesSame DEF Apart, GoodOK
<1> QED
  BY <1>2, <1>3, GoodApart

(* What the loop body of forward_netsync has read is what came, what it    *)
(* had read before, or nothing.                                            *)
LEMMA ReadFacts ==
    ASSUME TypeOK, GoodOK, NEW s \in Streams, NEW m \in Read(s)
    PROVE  /\ m \in Message /\ Good(m)
           /\ \/ stream[s] # <<>> /\ HasMessage(s) /\ m = stream[s][1] /\ 1 \in DOMAIN stream[s]
              \/ ~HasMessage(s) /\ m = inbuf
              \/ ~HasMessage(s) /\ m = NoMessage
<1>1. CASE HasMessage(s)
  <2>1. m = Head(stream[s]) /\ stream[s] # <<>>
    BY <1>1 DEF Read, HasMessage
  <2> QED
    BY <1>1, <2>1, HeadFacts DEF GoodOK
<1>2. CASE ~HasMessage(s)
  <2>1. m = inbuf \/ m = NoMessage
    BY <1>2 DEF Read
  <2>2. NoMessage \in Message /\ NoMessage.kind = "junk"
    BY MessageFacts
  <2>3. Good(NoMessage)
    BY <2>2 DEF Good
  <2> QED
    BY <1>2, <2>1, <2>2, <2>3 DEF TypeOK, GoodOK
<1> QED
  BY <1>1, <1>2

(* What a step of the loop body does.                                      *)
Relays(e, o, from, to, m) ==
    /\ fwdAt = "relay" /\ e \in ready /\ Writable(to)
    /\ fwdXid' = IF e = "host" THEN XidOf(from) ELSE fwdXid
    /\ inbuf' = m
    /\ \/ /\ stream' = Put(Take(from), to, [m EXCEPT !.xid = IF o = "host" THEN fwdXid' ELSE 0])
          /\ ready' = ready \ {e} /\ fwdAt' = (IF ready' = {} THEN "select" ELSE "relay")
          /\ UNCHANGED gone
       \/ /\ Fails(to) \/ m = NoMessage
          /\ fwdAt' = "done" /\ gone' = gone \union {"fwd"} /\ stream' = Take(from) /\ UNCHANGED ready
    /\ UNCHANGED <<doubt, faults, hostVars, executed, attempts>>

LEMMA UpRelays == RelayUp => \E m \in Read(FromPalm) : Relays("palm", "host", FromPalm, FromFwd, m)
<1>1. <<"palm", "fwd">> = FromPalm /\ <<"fwd", "host">> = FromFwd
  BY DEF FromPalm, FromFwd
<1> QED
  BY <1>1, Zenon DEF RelayUp, Relay, Relays, FwdGoes, FwdEnds, NoFault

LEMMA DownRelays ==
    RelayDown => "palm" \notin ready /\ \E m \in Read(FromHost) : Relays("host", "palm", FromHost, ToPalm, m)
<1>1. <<"host", "fwd">> = FromHost /\ <<"fwd", "palm">> = ToPalm
  BY DEF FromHost, ToPalm
<1> QED
  BY <1>1, Zenon DEF RelayDown, Relay, Relays, FwdGoes, FwdEnds, NoFault

LEMMA RelaysTypes ==
    ASSUME TypeOK, GoodOK, NEW e, NEW o, NEW s \in Streams, NEW t \in Streams \ {s, FromPalm},
           NEW m \in Read(s), Relays(e, o, s, t, m)
    PROVE  TypeOK' /\ GoodOK'
<1> USE DEF Relays, hostVars
<1>1. m \in Message /\ Good(m)
  BY ReadFacts
<1>2. fwdXid' \in Nat
  BY XidOfTypes DEF TypeOK
<1>3. Carries /\ Typed(stream')
  <2>1. CASE stream' = Take(s)
    BY <2>1, CarriesTake
  <2>2. CASE stream' = Put(Take(s), t, [m EXCEPT !.xid = IF o = "host" THEN fwdXid' ELSE 0])
    <3>1. PICK x \in Nat : x = IF o = "host" THEN fwdXid' ELSE 0
      BY <1>2
    <3>2. PICK m1 : m1 = [m EXCEPT !.xid = x]
      OBVIOUS
    <3>3. m1 \in Message /\ m1.kind = m.kind /\ m1.n = m.n
      BY <1>1, <3>2, MessageFacts
    <3>4. stream' = Put(Take(s), t, m1) /\ Writable(t)
      BY <2>2, <3>1, <3>2
    <3>5. /\ m1.kind = "request" => m1.n \in 1 .. calls'
          /\ m1.kind = "response" => m1.n \in 1 .. Len(executed')
      BY <1>1, <3>3 DEF Good
    <3> QED
      BY <3>3, <3>4, <3>5, CarriesOn
  <2> QED
    BY <2>1, <2>2
<1>4. TypeOK'
  <2>1. fwdAt' \in WhereFwd /\ gone' \subseteq Ends /\ ready' \subseteq {"palm", "host"}
    BY DEF TypeOK, WhereFwd, Ends
  <2> QED
    BY <1>1, <1>2, <1>3, <2>1 DEF TypeOK, Typed
<1>5. "fwd" \in gone' => fwdAt' \in {"done", "failed"}
  BY DEF GoodOK
<1>6. "palm" \in gone' => doubt'
  BY DEF GoodOK
<1>7. /\ calls' \in Nat /\ calls <= calls' /\ executed' \in Seq(Nat) /\ Len(executed) <= Len(executed')
      /\ executed \in Seq(1 .. MaxCalls)
  <2>1. calls' = calls /\ executed' = executed
    OBVIOUS
  <2> HIDE DEF Relays
  <2>2. calls \in Nat /\ executed \in Seq(1 .. MaxCalls)
    BY NetSyncAssumption DEF TypeOK
  <2>3. executed \in Seq(Nat) /\ Len(executed) \in Nat
    <3>1. PICK q \in Seq(1 .. MaxCalls) : q = executed
      BY <2>2
    <3>2. 1 .. MaxCalls \subseteq Nat
      OBVIOUS
    <3>3. q \in Seq(Nat)
      BY <3>2, SeqMonotonic, Zenon
    <3>4. Len(q) \in Nat
      BY LenProperties, Zenon
    <3> QED
      BY <3>1, <3>3, <3>4
  <2> QED
    BY <2>1, <2>2, <2>3
<1>8. /\ (\A r \in Streams : \A k \in DOMAIN stream[r] : Good(stream[r][k]))'
      /\ (\A k \in DOMAIN stream[FromPalm] : stream[FromPalm][k].kind = "response")'
  BY <1>3, <1>7, GoodMessages
<1>9. Good(inbuf)' /\ (\A i \in DOMAIN executed : executed[i] <= calls)'
      /\ (hostAt \in {"send", "wait"} => calls > 0)'
  BY <1>1 DEF GoodOK, Good
<1> QED
  BY <1>4, <1>5, <1>6, <1>8, <1>9 DEF GoodOK

LEMMA RelayTypes == ASSUME TypeOK, GoodOK, RelayUp \/ RelayDown PROVE TypeOK' /\ GoodOK'
<1>1. FromFwd \in Streams \ {FromPalm} /\ ToPalm \in Streams \ {FromHost, FromPalm}
      /\ FromPalm \in Streams /\ FromHost \in Streams
  BY StreamFacts
<1>2. CASE RelayUp
  <2>1. PICK m \in Read(FromPalm) : Relays("palm", "host", FromPalm, FromFwd, m)
    BY <1>2, UpRelays
  <2> QED
    BY <1>1, <2>1, RelaysTypes
<1>3. CASE RelayDown
  <2>1. PICK m \in Read(FromHost) : Relays("host", "palm", FromHost, ToPalm, m)
    BY <1>3, DownRelays
  <2> QED
    BY <1>1, <2>1, RelaysTypes
<1> QED
  BY <1>2, <1>3

(* The Palm executes a call and answers.                                   *)
Executes(m) ==
    /\ "palm" \notin gone /\ stream[ToPalm] # <<>> /\ Writable(FromPalm)
    /\ m = Head(stream[ToPalm]) /\ m.kind = "request"
    /\ executed' = Append(executed, m.n)
    /\ stream' = Put(Take(ToPalm), FromPalm, Msg("response", Len(executed'), 0))
    /\ UNCHANGED <<doubt, faults, gone, hostVars, fwdVars>>

Ignores ==
    /\ stream[ToPalm] # <<>> /\ Head(stream[ToPalm]).kind # "request" /\ stream' = Take(ToPalm)
    /\ UNCHANGED <<executed, doubt, faults, gone, hostVars, fwdVars>>

LEMMA PalmDoes == PalmReads => Ignores \/ \E m : Executes(m)
BY DEF PalmReads, Executes, Ignores, NoFault

LEMMA ExecutesFacts ==
    ASSUME TypeOK, GoodOK, NEW m, Executes(m)
    PROVE  /\ m \in Message /\ m.n \in 1 .. calls /\ m.n \in 1 .. MaxCalls /\ calls \in 1 .. MaxCalls
           /\ executed' \in Seq(1 .. MaxCalls) /\ Len(executed') = Len(executed) + 1
           /\ DOMAIN executed' = DOMAIN executed \union {Len(executed) + 1}
           /\ \A i \in DOMAIN executed : executed'[i] = executed[i] /\ i # Len(executed) + 1
           /\ executed'[Len(executed) + 1] = m.n
           /\ Len(executed) \in Nat /\ executed \in Seq(1 .. MaxCalls)
<1>1. m \in Message /\ Good(m) /\ m.kind = "request"
  BY HeadFacts, HostStreams DEF Executes, GoodOK
<1>2. m.n \in 1 .. calls /\ calls \in 0 .. MaxCalls /\ MaxCalls \in Nat
  BY <1>1, NetSyncAssumption DEF Good, TypeOK
<1>3. m.n \in 1 .. MaxCalls /\ calls \in 1 .. MaxCalls
  BY <1>2
<1>4. executed \in Seq(1 .. MaxCalls) /\ executed' = Append(executed, m.n)
  BY DEF TypeOK, Executes
<1>5. /\ executed' \in Seq(1 .. MaxCalls) /\ Len(executed') = Len(executed) + 1 /\ Len(executed) \in Nat
      /\ DOMAIN executed' = 1 .. Len(executed) + 1 /\ DOMAIN executed = 1 .. Len(executed)
      /\ \A i \in 1 .. Len(executed) : executed'[i] = executed[i]
      /\ executed'[Len(executed) + 1] = m.n
  BY <1>3, <1>4
<1>6. DOMAIN executed' = DOMAIN executed \union {Len(executed) + 1}
      /\ \A i \in DOMAIN executed : i # Len(executed) + 1
  BY <1>5
<1> QED
  BY <1>1, <1>2, <1>3, <1>4, <1>5, <1>6

(* The Palm's answer carries the number of its execution.                  *)
LEMMA AnswerStreams ==
    ASSUME TypeOK, GoodOK, NEW m, Executes(m)
    PROVE  \E a \in Message :
              /\ a = Msg("response", Len(executed) + 1, 0) /\ a.kind = "response" /\ a.n = Len(executed) + 1
              /\ stream' = Put(Take(ToPalm), FromPalm, a)
              /\ Typed(stream') /\ Same(stream', stream, Streams \ {ToPalm, FromPalm})
              /\ Kept(stream'[ToPalm], stream[ToPalm], 1) /\ Longer(stream'[FromPalm], stream[FromPalm], a)
<1>1. PICK a : a = Msg("response", Len(executed) + 1, 0)
  OBVIOUS
<1>2. Len(executed') = Len(executed) + 1 /\ Len(executed) + 1 \in Nat
  BY ExecutesFacts
<1>3. a \in Message /\ a.kind = "response" /\ a.n = Len(executed) + 1
  BY <1>1, <1>2 DEF Message, Msg
<1>4. stream' = Put(Take(ToPalm), FromPalm, a) /\ Writable(FromPalm)
  BY <1>1, <1>2 DEF Executes
<1>5. ToPalm \in Streams /\ FromPalm \in Streams \ {ToPalm}
  BY StreamFacts
<1>6. /\ Typed(stream') /\ Same(stream', stream, Streams \ {ToPalm, FromPalm})
      /\ Kept(stream'[ToPalm], stream[ToPalm], 1) /\ Longer(stream'[FromPalm], stream[FromPalm], a)
  BY <1>3, <1>4, <1>5, TypedNow, Passed
<1> QED
  BY <1>1, <1>3, <1>4, <1>6

LEMMA ExecutesTypes == ASSUME TypeOK, GoodOK, NEW m, Executes(m) PROVE TypeOK' /\ GoodOK'
<1>0. UNCHANGED <<doubt, faults, gone, hostVars, fwdVars>>
  BY DEF Executes
<1>1. PICK a \in Message :
              /\ a.kind = "response" /\ a.n = Len(executed) + 1
              /\ Typed(stream') /\ Same(stream', stream, Streams \ {ToPalm, FromPalm})
              /\ Kept(stream'[ToPalm], stream[ToPalm], 1) /\ Longer(stream'[FromPalm], stream[FromPalm], a)
  BY AnswerStreams
<1>2. /\ m \in Message /\ m.n \in 1 .. calls /\ m.n \in 1 .. MaxCalls /\ calls \in 1 .. MaxCalls
      /\ executed' \in Seq(1 .. MaxCalls) /\ Len(executed') = Len(executed) + 1
      /\ DOMAIN executed' = DOMAIN executed \union {Len(executed) + 1}
      /\ \A i \in DOMAIN executed : executed'[i] = executed[i] /\ i # Len(executed) + 1
      /\ executed'[Len(executed) + 1] = m.n
      /\ Len(executed) \in Nat /\ executed \in Seq(1 .. MaxCalls)
  BY ExecutesFacts
<1>3. TypeOK'
  <2>1. answer' \in -1 .. Len(executed')
    BY <1>0, <1>2 DEF TypeOK, hostVars
  <2> QED
    BY <1>0, <1>1, <1>2, <2>1 DEF TypeOK, Typed, hostVars, fwdVars
<1>4. ASSUME NEW s \in Streams, NEW k \in DOMAIN stream'[s]
      PROVE  /\ stream'[s][k].kind = "request" => stream'[s][k].n \in 1 .. calls
             /\ stream'[s][k].kind = "response" => stream'[s][k].n \in 1 .. Len(executed')
             /\ s = FromPalm => stream'[s][k].kind = "response"
  <2>1. CASE \E j \in DOMAIN stream[s] : stream'[s][k] = stream[s][j]
    <3>1. PICK j \in DOMAIN stream[s] : stream'[s][k] = stream[s][j]
      BY <2>1
    <3>2. Good(stream[s][j]) /\ (s = FromPalm => stream[s][j].kind = "response")
      BY DEF GoodOK
    <3>3. 1 .. Len(executed) \subseteq 1 .. Len(executed')
      BY <1>2
    <3> QED
      BY <3>1, <3>2, <3>3 DEF Good
  <2>2. CASE s = FromPalm /\ stream'[s][k] = a
    BY <1>1, <1>2, <2>2
  <2>3. (\E j \in DOMAIN stream[s] : stream'[s][k] = stream[s][j]) \/ (s = FromPalm /\ stream'[s][k] = a)
    BY <1>1 DEF Same, Kept, Longer
  <2> QED
    BY <2>1, <2>2, <2>3
<1>5. /\ (\A s \in Streams : \A k \in DOMAIN stream[s] : Good(stream[s][k]))'
      /\ (\A k \in DOMAIN stream[FromPalm] : stream[FromPalm][k].kind = "response")'
  BY <1>0, <1>4, StreamFacts DEF Good, hostVars
<1>6. Good(inbuf)'
  <2>1. 1 .. Len(executed) \subseteq 1 .. Len(executed')
    BY <1>2
  <2> QED
    BY <1>0, <2>1 DEF Good, GoodOK, hostVars, fwdVars
<1>7. (\A i \in DOMAIN executed : executed[i] <= calls)'
  <2>1. m.n <= calls
    BY <1>2
  <2> QED
    BY <1>0, <1>2, <2>1 DEF GoodOK, hostVars
<1>8. /\ (hostAt \in {"send", "wait"} => calls > 0)'
      /\ ("fwd" \in gone => fwdAt \in {"done", "failed"})'
      /\ ("palm" \in gone => doubt)'
  BY <1>0 DEF GoodOK, hostVars, fwdVars
<1> QED
  BY <1>3, <1>5, <1>6, <1>7, <1>8 DEF GoodOK

LEMMA IgnoresTypes == ASSUME TypeOK, GoodOK, Ignores PROVE TypeOK' /\ GoodOK'
<1> USE DEF Ignores, hostVars, fwdVars
<1>1. Carries /\ Typed(stream')
  BY HostStreams, CarriesTake
<1>2. TypeOK'
  BY <1>1 DEF TypeOK, Typed
<1>3. Apart
  BY <1>1 DEF Apart, GoodOK
<1> QED
  BY <1>2, <1>3, GoodApart

LEMMA PalmLeavesTypes == ASSUME TypeOK, GoodOK, PalmLeaves PROVE TypeOK' /\ GoodOK'
<1> USE DEF PalmLeaves, Fault, hostVars, fwdVars
<1>1. faults' \in 0 .. MaxFaults
  BY NetSyncAssumption DEF TypeOK
<1>2. TypeOK'
  BY <1>1 DEF TypeOK, Ends
<1>3. Apart
  BY CarriesSame DEF Apart, GoodOK
<1> QED
  BY <1>2, <1>3, GoodApart

LEMMA TypesNext == ASSUME TypeOK, GoodOK, [Next]_vars PROVE TypeOK' /\ GoodOK'
<1>1. CASE Wakeup \/ HostStep
  BY <1>1, WakeupTypes, ListenTypes, HostHearsTypes, HostSaysTypes, CallTypes, SendTypes, ReceiveTypes,
     ReceiveEofTypes, TimeoutTypes, HostEndsTypes, HostCrashesTypes DEF HostStep
<1>2. CASE FwdStep
  BY <1>2, ConnectTypes, FwdSaysTypes, FwdHearsTypes, SelectTypes, RelayTypes DEF FwdStep
<1>3. CASE PalmReads \/ PalmLeaves
  BY <1>3, PalmDoes, ExecutesTypes, IgnoresTypes, PalmLeavesTypes
<1>4. CASE UNCHANGED vars
  <2>1. TypeOK'
    BY <1>4 DEF TypeOK, vars, hostVars, fwdVars
  <2>2. GoodOK'
    BY <1>4 DEF GoodOK, Good, vars, hostVars, fwdVars
  <2> QED
    BY <2>1, <2>2
<1> QED
  BY <1>1, <1>2, <1>3, <1>4 DEF Next

-----------------------------------------------------------------------------
(* The order of the requests.  Most steps at most take requests away.      *)
Fewer(q1, q) ==
    \/ \A k \in DOMAIN q1 : q1[k].kind = "request" => k \in DOMAIN q /\ q1[k] = q[k]
    \/ \A k \in DOMAIN q1 : q1[k].kind = "request" => k + 1 \in DOMAIN q /\ q1[k] = q[k + 1]

Thin ==
    /\ Fewer(stream'[ToPalm], stream[ToPalm]) /\ Fewer(stream'[FromHost], stream[FromHost])
    /\ inbuf' = inbuf \/ inbuf'.kind # "request"
    /\ UNCHANGED executed

LEMMA FewerFacts ==
    /\ \A s \in Streams : stream'[s] = stream[s] => Fewer(stream'[s], stream[s])
    /\ \A s \in Streams : Kept(stream'[s], stream[s], 1) => Fewer(stream'[s], stream[s])
    /\ \A s \in Streams, m \in Message :
          Longer(stream'[s], stream[s], m) /\ m.kind # "request" => Fewer(stream'[s], stream[s])
BY DEF Kept, Fewer, Longer

LEMMA FewerOrdered ==
    ASSUME NEW q \in Seq(Message), NEW q1 \in Seq(Message), Fewer(q1, q), Ordered(q)
    PROVE  Ordered(q1)
<1> SUFFICES ASSUME NEW j \in DOMAIN q1, NEW k \in DOMAIN q1, j < k,
                    q1[j].kind = "request", q1[k].kind = "request"
             PROVE  q1[j].n <= q1[k].n
  BY DEF Ordered, NotAfter
<1>1. j \in Nat /\ k \in Nat
  OBVIOUS
<1>2. CASE j \in DOMAIN q /\ q1[j] = q[j] /\ k \in DOMAIN q /\ q1[k] = q[k]
  BY <1>2 DEF Ordered, NotAfter
<1>3. CASE j + 1 \in DOMAIN q /\ q1[j] = q[j + 1] /\ k + 1 \in DOMAIN q /\ q1[k] = q[k + 1]
  <2>1. j + 1 < k + 1
    BY <1>1
  <2> QED
    BY <1>3, <2>1 DEF Ordered, NotAfter
<1> QED
  BY <1>2, <1>3 DEF Fewer

LEMMA FewerFrom ==
    ASSUME NEW q, NEW q1, Fewer(q1, q), NEW k \in DOMAIN q1, q1[k].kind = "request"
    PROVE  \E j \in DOMAIN q : q1[k] = q[j]
BY DEF Fewer

LEMMA ThinOrder == ASSUME TypeOK, TypeOK', OrderOK, Thin PROVE OrderOK'
<1>1. /\ stream[ToPalm] \in Seq(Message) /\ stream'[ToPalm] \in Seq(Message)
      /\ stream[FromHost] \in Seq(Message) /\ stream'[FromHost] \in Seq(Message)
  BY HostStreams DEF TypeOK
<1>2. Ordered(stream'[ToPalm]) /\ Ordered(stream'[FromHost])
  BY <1>1, FewerOrdered DEF OrderOK, Thin
<1>3. ASSUME NEW j \in DOMAIN stream'[ToPalm]
      PROVE  NotAfter(stream'[ToPalm][j], inbuf') /\ Past(stream[ToPalm][j])'
  <2>1. CASE stream'[ToPalm][j].kind = "request"
    <3>1. PICK i \in DOMAIN stream[ToPalm] : stream'[ToPalm][j] = stream[ToPalm][i]
      BY <2>1, FewerFrom DEF Thin
    <3> QED
      BY <2>1, <3>1 DEF OrderOK, Past, Thin, NotAfter
  <2> QED
    BY <2>1 DEF NotAfter, Past
<1>4. ASSUME NEW k \in DOMAIN stream'[FromHost]
      PROVE  NotAfter(inbuf', stream'[FromHost][k]) /\ Past(stream[FromHost][k])'
  <2>1. CASE stream'[FromHost][k].kind = "request"
    <3>1. PICK i \in DOMAIN stream[FromHost] : stream'[FromHost][k] = stream[FromHost][i]
      BY <2>1, FewerFrom DEF Thin
    <3> QED
      BY <2>1, <3>1 DEF OrderOK, Past, Thin, NotAfter
  <2> QED
    BY <2>1 DEF NotAfter, Past
<1>5. ASSUME NEW j \in DOMAIN stream'[ToPalm], NEW k \in DOMAIN stream'[FromHost]
      PROVE  NotAfter(stream'[ToPalm][j], stream'[FromHost][k])
  <2>1. CASE stream'[ToPalm][j].kind = "request" /\ stream'[FromHost][k].kind = "request"
    <3>1. PICK i \in DOMAIN stream[ToPalm] : stream'[ToPalm][j] = stream[ToPalm][i]
      BY <2>1, FewerFrom DEF Thin
    <3>2. PICK i2 \in DOMAIN stream[FromHost] : stream'[FromHost][k] = stream[FromHost][i2]
      BY <2>1, FewerFrom DEF Thin
    <3> QED
      BY <3>1, <3>2 DEF OrderOK
  <2> QED
    BY <2>1 DEF NotAfter
<1>6. Past(inbuf)'
  BY DEF OrderOK, Past, Thin
<1>7. (\A j \in DOMAIN stream[ToPalm] : NotAfter(stream[ToPalm][j], inbuf) /\ Past(stream[ToPalm][j]))'
  BY <1>3 DEF Past
<1>8. (\A k \in DOMAIN stream[FromHost] : NotAfter(inbuf, stream[FromHost][k]) /\ Past(stream[FromHost][k]))'
  BY <1>4 DEF Past
<1> QED
  BY <1>2, <1>5, <1>6, <1>7, <1>8 DEF OrderOK

LEMMA TakeThin ==
    ASSUME TypeOK, NEW s \in Streams, stream' = Take(s), UNCHANGED <<inbuf, executed>>
    PROVE  Thin
<1>1. Same(Take(s), stream, Streams \ {s}) /\ Kept(Take(s)[s], stream[s], 1)
  BY Took, TypedNow
<1> QED
  BY <1>1, FewerFacts, HostStreams DEF Thin, Same

LEMMA PutThin ==
    ASSUME TypeOK, NEW s \in Streams, NEW m \in Message, m.kind # "request", Writable(s),
           stream' = Put(stream, s, m), UNCHANGED <<inbuf, executed>>
    PROVE  Thin
<1>1. Same(stream', stream, Streams \ {s}) /\ Longer(stream'[s], stream[s], m)
  BY Wrote, TypedNow DEF Writable
<1> QED
  BY <1>1, FewerFacts, HostStreams DEF Thin, Same

LEMMA SameThin == ASSUME UNCHANGED <<stream, inbuf, executed>> PROVE Thin
BY FewerFacts, HostStreams DEF Thin

LEMMA HostThin ==
    ASSUME TypeOK, Wakeup \/ Listen \/ HostHearsRitual \/ Call \/ Receive \/ ReceiveEof \/ Timeout \/ HostEnds
    PROVE  Thin
<1>1. CASE Wakeup \/ Listen \/ Call \/ Timeout \/ HostEnds
  BY <1>1, SameThin DEF Wakeup, Listen, Call, Timeout, HostEnds, HostAsBefore, fwdVars
<1>2. CASE HostHearsRitual
  BY <1>2, SameThin, TakeThin, HostStreams DEF HostHearsRitual, HostAsBefore, fwdVars
<1>3. CASE Receive \/ ReceiveEof
  BY <1>3, TakeThin, HostStreams DEF Receive, ReceiveEof, HostAsBefore, fwdVars
<1> QED
  BY <1>1, <1>2, <1>3

LEMMA HostSaysThin == ASSUME TypeOK, TypeOK', HostSaysRitual PROVE Thin
<1>1. CASE UNCHANGED stream
  BY <1>1, SameThin DEF HostSaysRitual, HostAsBefore, fwdVars
<1>2. CASE stream' = Put(stream, FromHost, Msg("ritual", Part[hostAt], hostXid'))
  <2>1. PICK m : m = Msg("ritual", Part[hostAt], hostXid')
    OBVIOUS
  <2>2. hostXid' \in Nat /\ hostAt \in {"say 2", "say 3"}
    <3>1. hostXid' \in Nat
      BY DEF TypeOK
    <3> QED
      BY <3>1 DEF HostSaysRitual, Said
  <2>3. Part[hostAt] \in {1, 2, 3}
    BY <2>2 DEF Part
  <2>4. m \in Message /\ m.kind = "ritual"
    BY <2>1, <2>2, <2>3, RitualMessage
  <2>5. stream' = Put(stream, FromHost, m) /\ Writable(FromHost)
    BY <1>2, <2>1 DEF HostSaysRitual
  <2> QED
    BY <2>4, <2>5, PutThin, HostStreams DEF HostSaysRitual, HostAsBefore, fwdVars
<1> QED
  BY <1>1, <1>2 DEF HostSaysRitual

LEMMA HostCrashesThin == ASSUME TypeOK, HostCrashes PROVE Thin
<1>1. CASE UNCHANGED stream
  BY <1>1, SameThin DEF HostCrashes, fwdVars
<1>2. CASE Writable(FromHost) /\ stream' = Put(stream, FromHost, Msg("header", 0, Bump(hostXid)))
  <2>1. PICK m : m = Msg("header", 0, Bump(hostXid))
    OBVIOUS
  <2>2. m \in Message /\ m.kind = "header"
    <3>1. Bump(hostXid) \in Nat /\ 0 \in Nat
      BY BumpFacts DEF TypeOK
    <3> QED
      BY <2>1, <3>1 DEF Message, Msg
  <2>3. stream' = Put(stream, FromHost, m)
    BY <1>2, <2>1
  <2> QED
    BY <1>2, <2>2, <2>3, PutThin, HostStreams DEF HostCrashes, fwdVars
<1> QED
  BY <1>1, <1>2 DEF HostCrashes

LEMMA FwdThin == ASSUME TypeOK, Connect \/ FwdHearsRitual \/ Select PROVE Thin
<1>1. CASE Connect \/ Select
  BY <1>1, SameThin DEF Connect, Select
<1>2. CASE FwdHearsRitual
  <2>1. UNCHANGED <<inbuf, executed>> /\ (stream' = Take(FromHost) \/ stream' = stream)
    BY <1>2 DEF FwdHearsRitual
  <2> QED
    BY <2>1, SameThin, TakeThin, HostStreams
<1> QED
  BY <1>1, <1>2

LEMMA FwdSaysThin == ASSUME TypeOK, FwdSaysRitual PROVE Thin
<1>1. CASE UNCHANGED stream
  BY <1>1, SameThin DEF FwdSaysRitual
<1>2. CASE stream' = Put(stream, FromFwd, Msg("ritual", Part[fwdAt], fwdXid))
  <2>1. PICK m : m = Msg("ritual", Part[fwdAt], fwdXid)
    OBVIOUS
  <2>2. fwdXid \in Nat /\ fwdAt \in {"say 1", "say 2", "say 3"}
    BY DEF TypeOK, FwdSaysRitual, FwdSays
  <2>3. Part[fwdAt] \in {1, 2, 3}
    BY <2>2 DEF Part
  <2>4. m \in Message /\ m.kind = "ritual"
    BY <2>1, <2>2, <2>3, RitualMessage
  <2>5. stream' = Put(stream, FromFwd, m) /\ Writable(FromFwd)
    BY <1>2, <2>1 DEF FwdSaysRitual
  <2> QED
    BY <2>4, <2>5, PutThin, HostStreams DEF FwdSaysRitual
<1> QED
  BY <1>1, <1>2 DEF FwdSaysRitual

(* What a step of the loop body does to the streams: m1 is the message m   *)
(* under the transaction ID that it goes on with.                          *)
Moves(o, s, t, m, m1) ==
    /\ m1 \in Message /\ m1.kind = m.kind /\ m1.n = m.n
    /\ m1.xid = IF o = "host" THEN fwdXid' ELSE 0
    /\ Same(stream', stream, Streams \ {s, t}) /\ Kept(stream'[s], stream[s], 1)
    /\ \/ fwdAt' \in {"select", "relay"} /\ gone' = gone /\ Longer(stream'[t], stream[t], m1)
          /\ stream' = Put(Take(s), t, m1)
       \/ fwdAt' = "done" /\ gone' = gone \union {"fwd"} /\ stream'[t] = stream[t]
          /\ stream' = Take(s) /\ (Fails(t) \/ m = NoMessage)

LEMMA RelaysStreams ==
    ASSUME TypeOK, GoodOK, NEW e, NEW o, NEW s \in Streams, NEW t \in Streams \ {s},
           NEW m \in Read(s), Relays(e, o, s, t, m)
    PROVE  \E m1 : Moves(o, s, t, m, m1)
<1>1. m \in Message
  BY ReadFacts
<1>2. fwdXid' \in Nat
  BY XidOfTypes DEF TypeOK, Relays
<1>3. PICK x \in Nat : x = IF o = "host" THEN fwdXid' ELSE 0
  BY <1>2
<1>4. PICK m1 : m1 = [m EXCEPT !.xid = x]
  OBVIOUS
<1>5. m1 \in Message /\ m1.kind = m.kind /\ m1.n = m.n
      /\ m1.xid = x /\ m1 = [m EXCEPT !.xid = IF o = "host" THEN fwdXid' ELSE 0]
  BY <1>1, <1>3, <1>4, MessageFacts
<1>6. CASE stream' = Take(s) /\ fwdAt' = "done" /\ gone' = gone \union {"fwd"} /\ (Fails(t) \/ m = NoMessage)
  BY <1>3, <1>5, <1>6, Took, TypedNow DEF Same, Moves
<1>7. CASE /\ stream' = Put(Take(s), t, [m EXCEPT !.xid = IF o = "host" THEN fwdXid' ELSE 0])
           /\ fwdAt' \in {"select", "relay"} /\ gone' = gone
  <2>1. stream' = Put(Take(s), t, m1) /\ Writable(t)
    BY <1>5, <1>7 DEF Relays
  <2>2. /\ Same(stream', stream, Streams \ {s, t})
        /\ Kept(stream'[s], stream[s], 1) /\ Longer(stream'[t], stream[t], m1)
    BY <1>5, <2>1, TypedNow, Passed
  <2> QED
    BY <1>3, <1>5, <1>7, <2>1, <2>2 DEF Moves
<1> QED
  BY <1>6, <1>7 DEF Relays

LEMMA RelayUpThin == ASSUME TypeOK, GoodOK, RelayUp PROVE Thin
<1>1. PICK m \in Read(FromPalm) : Relays("palm", "host", FromPalm, FromFwd, m)
  BY UpRelays
<1>2. FromPalm \in Streams /\ FromFwd \in Streams \ {FromPalm}
  BY StreamFacts
<1>3. Same(stream', stream, Streams \ {FromPalm, FromFwd})
  BY <1>1, <1>2, RelaysStreams DEF Moves
<1>4. m = inbuf \/ m.kind # "request"
  BY <1>1, <1>2, ReadFacts, MessageFacts DEF GoodOK
<1> QED
  BY <1>1, <1>3, <1>4, FewerFacts, StreamFacts DEF Thin, Same, Relays

LEMMA RelayDownOrder == ASSUME TypeOK, TypeOK', GoodOK, OrderOK, RelayDown PROVE OrderOK'
<1>0. FromHost \in Streams /\ ToPalm \in Streams \ {FromHost} /\ ToPalm \in Streams
      /\ stream[ToPalm] \in Seq(Message) /\ stream[FromHost] \in Seq(Message)
      /\ stream'[ToPalm] \in Seq(Message) /\ stream'[FromHost] \in Seq(Message)
  BY StreamFacts DEF TypeOK
<1>1. PICK m \in Read(FromHost) : Relays("host", "palm", FromHost, ToPalm, m)
  BY DownRelays
<1>2. inbuf' = m /\ executed' = executed
  BY <1>1 DEF Relays
<1>3. PICK m1 \in Message :
         /\ m1.kind = m.kind /\ m1.n = m.n /\ Kept(stream'[FromHost], stream[FromHost], 1)
         /\ Longer(stream'[ToPalm], stream[ToPalm], m1) \/ stream'[ToPalm] = stream[ToPalm]
  <2>1. PICK m1 : Moves("palm", FromHost, ToPalm, m, m1)
    BY <1>0, <1>1, RelaysStreams
  <2> QED
    BY <2>1 DEF Moves
(* The message is no earlier than what is before it, no later than what    *)
(* comes after it.                                                         *)
<1>4. /\ \A j \in DOMAIN stream[ToPalm] : NotAfter(stream[ToPalm][j], m)
      /\ \A k \in DOMAIN stream[FromHost] : k # 1 => NotAfter(m, stream[FromHost][k])
      /\ Past(m)
  <2>1. CASE m = stream[FromHost][1] /\ 1 \in DOMAIN stream[FromHost]
    <3>1. \A k \in DOMAIN stream[FromHost] : k # 1 => 1 < k
      BY <1>0
    <3> QED
      BY <2>1, <3>1 DEF OrderOK, Ordered
  <2>2. CASE m = inbuf
    BY <2>2 DEF OrderOK
  <2>3. CASE m = NoMessage
    BY <2>3, MessageFacts DEF NotAfter, Past
  <2> QED
    BY <1>0, <1>1, <2>1, <2>2, <2>3, ReadFacts
<1>5. \A k \in DOMAIN stream'[FromHost] :
         k + 1 \in DOMAIN stream[FromHost] /\ k + 1 # 1 /\ stream'[FromHost][k] = stream[FromHost][k + 1]
  BY <1>0, <1>3 DEF Kept
<1>6. \A j \in DOMAIN stream'[ToPalm] :
         (j \in DOMAIN stream[ToPalm] /\ stream'[ToPalm][j] = stream[ToPalm][j]) \/ (j = Len(stream[ToPalm]) + 1 /\ stream'[ToPalm][j] = m1)
  BY <1>3 DEF Longer
<1>7. Ordered(stream[FromHost])'
  BY <1>0, <1>3, FewerOrdered, FewerFacts DEF OrderOK
<1>8. Ordered(stream[ToPalm])'
  <2> SUFFICES ASSUME NEW j \in DOMAIN stream'[ToPalm], NEW k \in DOMAIN stream'[ToPalm], j < k
               PROVE  NotAfter(stream'[ToPalm][j], stream'[ToPalm][k])
    BY DEF Ordered
  <2>1. CASE k \in DOMAIN stream[ToPalm]
    <3>1. j \in DOMAIN stream[ToPalm]
      BY <1>0, <2>1
    <3>2. stream'[ToPalm][j] = stream[ToPalm][j] /\ stream'[ToPalm][k] = stream[ToPalm][k]
      BY <1>0, <1>6, <2>1, <3>1
    <3> QED
      BY <2>1, <3>1, <3>2 DEF OrderOK, Ordered
  <2>2. CASE k = Len(stream[ToPalm]) + 1 /\ stream'[ToPalm][k] = m1
    <3>1. j \in DOMAIN stream[ToPalm] /\ stream'[ToPalm][j] = stream[ToPalm][j]
      BY <1>0, <1>6, <2>2
    <3> QED
      BY <1>3, <1>4, <2>2, <3>1 DEF NotAfter
  <2> QED
    BY <1>6, <2>1, <2>2
<1>9. ASSUME NEW j \in DOMAIN stream'[ToPalm]
      PROVE  /\ NotAfter(stream'[ToPalm][j], m) /\ Past(stream[ToPalm][j])'
             /\ \A k \in DOMAIN stream[FromHost] : k # 1 => NotAfter(stream'[ToPalm][j], stream[FromHost][k])
  <2>1. CASE j \in DOMAIN stream[ToPalm] /\ stream'[ToPalm][j] = stream[ToPalm][j]
    BY <1>2, <1>4, <2>1 DEF OrderOK, Past
  <2>2. CASE stream'[ToPalm][j] = m1
    <3>1. NotAfter(m1, m)
      BY <1>1, <1>3, <1>0, ReadFacts DEF NotAfter, Message
    <3> QED
      BY <1>2, <1>3, <1>4, <2>2, <3>1 DEF NotAfter, Past
  <2> QED
    BY <1>6, <2>1, <2>2
<1>10. ASSUME NEW k \in DOMAIN stream'[FromHost]
       PROVE  /\ NotAfter(m, stream'[FromHost][k]) /\ Past(stream[FromHost][k])'
  BY <1>2, <1>4, <1>5 DEF OrderOK, Past
<1>11. \A j \in DOMAIN stream'[ToPalm], k \in DOMAIN stream'[FromHost] :
          NotAfter(stream'[ToPalm][j], stream'[FromHost][k])
  BY <1>5, <1>9
<1>12. Past(inbuf)'
  BY <1>2, <1>4 DEF Past
<1>13. (\A j \in DOMAIN stream[ToPalm] : NotAfter(stream[ToPalm][j], inbuf) /\ Past(stream[ToPalm][j]))'
  BY <1>2, <1>9 DEF Past
<1>14. (\A k \in DOMAIN stream[FromHost] : NotAfter(inbuf, stream[FromHost][k]) /\ Past(stream[FromHost][k]))'
  BY <1>2, <1>10 DEF Past
<1> QED
  BY <1>7, <1>8, <1>11, <1>12, <1>13, <1>14 DEF OrderOK

(* A request that is sent is of the last call.                             *)
LEMMA SendOrder == ASSUME TypeOK, TypeOK', GoodOK, OrderOK, Send PROVE OrderOK'
<1>0. /\ stream[FromHost] \in Seq(Message) /\ calls \in Nat /\ hostXid' \in Nat
      /\ UNCHANGED <<inbuf, executed>> /\ calls \in 1 .. calls
  <2>1. calls \in Nat /\ calls > 0
    BY DEF TypeOK, GoodOK, Send
  <2>2. hostXid' \in Nat
    BY DEF TypeOK
  <2> QED
    BY <2>1, <2>2, HostStreams, TypedNow DEF Send, HostAsBefore, fwdVars
<1>1. CASE UNCHANGED stream
  BY <1>0, <1>1, SameThin, ThinOrder
<1>2. CASE stream' = Put(stream, FromHost, Msg("request", calls, hostXid'))
  <2>1. PICK m : m = Msg("request", calls, hostXid')
    OBVIOUS
  <2>2. m \in Message /\ m.kind = "request" /\ m.n = calls
    BY <1>0, <2>1 DEF Message, Msg
  <2>3. stream' = Put(stream, FromHost, m) /\ Writable(FromHost)
    BY <1>2, <2>1 DEF Send
  <2>4. Same(stream', stream, Streams \ {FromHost}) /\ Longer(stream'[FromHost], stream[FromHost], m)
    BY <2>2, <2>3, Wrote, TypedNow, HostStreams DEF Writable
  <2>5. stream'[ToPalm] = stream[ToPalm]
    BY <2>4, StreamFacts DEF Same
  <2>6. /\ \A k \in DOMAIN stream[FromHost] : NotAfter(stream[FromHost][k], m)
        /\ \A j \in DOMAIN stream[ToPalm] : NotAfter(stream[ToPalm][j], m)
        /\ NotAfter(inbuf, m) /\ Past(m)
    <3>1. \A a : Good(a) => NotAfter(a, m)
      BY <1>0, <2>2 DEF Good, NotAfter
    <3>2. Past(m)
      BY <2>2 DEF Past, GoodOK
    <3> QED
      BY <3>1, <3>2, HostStreams DEF GoodOK
  <2>7. \A k \in DOMAIN stream'[FromHost] :
           \/ k \in DOMAIN stream[FromHost] /\ stream'[FromHost][k] = stream[FromHost][k]
           \/ k = Len(stream[FromHost]) + 1 /\ stream'[FromHost][k] = m
    BY <2>4 DEF Longer
  <2>8. Ordered(stream[FromHost])'
    <3> SUFFICES ASSUME NEW j \in DOMAIN stream'[FromHost], NEW k \in DOMAIN stream'[FromHost], j < k
                 PROVE  NotAfter(stream'[FromHost][j], stream'[FromHost][k])
      BY DEF Ordered
    <3>1. j \in DOMAIN stream[FromHost] /\ stream'[FromHost][j] = stream[FromHost][j]
      BY <1>0, <2>7
    <3> QED
      BY <2>6, <2>7, <3>1 DEF OrderOK, Ordered
  <2>9. ASSUME NEW k \in DOMAIN stream'[FromHost]
        PROVE  /\ NotAfter(inbuf', stream'[FromHost][k]) /\ Past(stream[FromHost][k])'
               /\ \A j \in DOMAIN stream[ToPalm] : NotAfter(stream[ToPalm][j], stream'[FromHost][k])
    <3>1. CASE k \in DOMAIN stream[FromHost] /\ stream'[FromHost][k] = stream[FromHost][k]
      BY <1>0, <3>1 DEF OrderOK, Past
    <3>2. CASE stream'[FromHost][k] = m
      BY <1>0, <2>6, <3>2 DEF Past
    <3> QED
      BY <2>7, <3>1, <3>2
  <2>10. (\A k \in DOMAIN stream[FromHost] : NotAfter(inbuf, stream[FromHost][k]) /\ Past(stream[FromHost][k]))'
    BY <2>9 DEF Past
  <2>11. Ordered(stream[ToPalm])' /\ Past(inbuf)'
         /\ (\A j \in DOMAIN stream[ToPalm] : NotAfter(stream[ToPalm][j], inbuf) /\ Past(stream[ToPalm][j]))'
    BY <1>0, <2>5 DEF OrderOK, Past
  <2> QED
    BY <2>5, <2>8, <2>9, <2>10, <2>11 DEF OrderOK
<1> QED
  BY <1>1, <1>2 DEF Send

(* What the Palm executes is no earlier than what it has executed, and no  *)
(* later than what is on its way.                                          *)
LEMMA ExecutesOrder == ASSUME TypeOK, TypeOK', GoodOK, OrderOK, NEW m, Executes(m) PROVE OrderOK'
<1>0. UNCHANGED <<doubt, faults, gone, hostVars, fwdVars>> /\ m.kind = "request"
      /\ stream[ToPalm] \in Seq(Message) /\ stream[ToPalm] # <<>> /\ m = Head(stream[ToPalm])
      /\ stream'[ToPalm] \in Seq(Message)
  BY HostStreams DEF Executes, TypeOK
<1>1. /\ Same(stream', stream, Streams \ {ToPalm, FromPalm}) /\ Kept(stream'[ToPalm], stream[ToPalm], 1)
  BY AnswerStreams
<1>2. /\ DOMAIN executed' = DOMAIN executed \union {Len(executed) + 1}
      /\ \A i \in DOMAIN executed : executed'[i] = executed[i]
      /\ executed'[Len(executed) + 1] = m.n
  BY ExecutesFacts
<1>3. stream'[FromHost] = stream[FromHost] /\ inbuf' = inbuf
  BY <1>0, <1>1, StreamFacts DEF Same, fwdVars
<1>4. 1 \in DOMAIN stream[ToPalm] /\ m = stream[ToPalm][1]
  BY <1>0
<1>5. \A j \in DOMAIN stream'[ToPalm] : j + 1 \in DOMAIN stream[ToPalm] /\ 1 < j + 1
                                        /\ stream'[ToPalm][j] = stream[ToPalm][j + 1]
  BY <1>0, <1>1 DEF Kept
<1>6. \A a : Past(a) /\ NotAfter(m, a) => (a.kind = "request" => \A i \in DOMAIN executed' : executed'[i] <= a.n)
  BY <1>0, <1>2 DEF Past, NotAfter
<1>7. Ordered(stream[ToPalm])' /\ Ordered(stream[FromHost])'
  BY <1>0, <1>1, <1>3, FewerOrdered, FewerFacts, HostStreams DEF OrderOK
<1>8. ASSUME NEW j \in DOMAIN stream'[ToPalm]
      PROVE  /\ NotAfter(stream'[ToPalm][j], inbuf') /\ Past(stream[ToPalm][j])'
             /\ \A k \in DOMAIN stream[FromHost] : NotAfter(stream'[ToPalm][j], stream[FromHost][k])
  <2>1. PICK b : b = stream'[ToPalm][j]
    OBVIOUS
  <2>2. /\ NotAfter(m, b) /\ Past(b) /\ NotAfter(b, inbuf)
        /\ \A k \in DOMAIN stream[FromHost] : NotAfter(b, stream[FromHost][k])
    BY <1>4, <1>5, <2>1 DEF OrderOK, Ordered
  <2>3. b.kind = "request" => \A i \in DOMAIN executed' : executed'[i] <= b.n
    BY <1>6, <2>2
  <2> QED
    BY <1>3, <2>1, <2>2, <2>3 DEF Past
<1>9. (\A j \in DOMAIN stream[ToPalm] : NotAfter(stream[ToPalm][j], inbuf) /\ Past(stream[ToPalm][j]))'
  BY <1>8 DEF Past
<1>10. ASSUME NEW k \in DOMAIN stream[FromHost]
       PROVE  NotAfter(inbuf, stream[FromHost][k])
              /\ (stream[FromHost][k].kind = "request" =>
                     \A i \in DOMAIN executed' : executed'[i] <= stream[FromHost][k].n)
  <2>1. NotAfter(m, stream[FromHost][k]) /\ Past(stream[FromHost][k]) /\ NotAfter(inbuf, stream[FromHost][k])
    BY <1>4 DEF OrderOK
  <2> QED
    BY <1>6, <2>1
<1>11. (\A k \in DOMAIN stream[FromHost] : NotAfter(inbuf, stream[FromHost][k]) /\ Past(stream[FromHost][k]))'
  BY <1>3, <1>10 DEF Past
<1>12. Past(inbuf)'
  <2>1. Past(inbuf) /\ NotAfter(m, inbuf)
    BY <1>4 DEF OrderOK
  <2>2. inbuf.kind = "request" => \A i \in DOMAIN executed' : executed'[i] <= inbuf.n
    BY <1>6, <2>1
  <2> QED
    BY <1>3, <2>2 DEF Past
<1>13. (\A j \in DOMAIN stream[ToPalm], k \in DOMAIN stream[FromHost] :
           NotAfter(stream[ToPalm][j], stream[FromHost][k]))'
  BY <1>3, <1>8
<1> QED
  BY <1>7, <1>9, <1>11, <1>12, <1>13 DEF OrderOK

LEMMA PalmThin == ASSUME TypeOK, Ignores \/ PalmLeaves PROVE Thin
BY TakeThin, SameThin, HostStreams DEF Ignores, PalmLeaves, fwdVars

LEMMA OrderNext == ASSUME TypeOK, TypeOK', GoodOK, OrderOK, [Next]_vars PROVE OrderOK'
<1>1. CASE Wakeup \/ HostStep
  BY <1>1, HostThin, HostSaysThin, HostCrashesThin, SendOrder, ThinOrder DEF HostStep
<1>2. CASE FwdStep
  BY <1>2, FwdThin, FwdSaysThin, RelayUpThin, RelayDownOrder, ThinOrder DEF FwdStep
<1>3. CASE PalmReads \/ PalmLeaves
  BY <1>3, PalmDoes, ExecutesOrder, PalmThin, ThinOrder
<1>4. CASE UNCHANGED vars
  BY <1>4, SameThin, ThinOrder DEF vars, fwdVars
<1> QED
  BY <1>1, <1>2, <1>3, <1>4 DEF Next

-----------------------------------------------------------------------------
(* Streams in which there is nothing, or one message.                      *)
LEMMA NothingFacts ==
    ASSUME Nothing
    PROVE  \A s \in Streams : (Readable(s) <=> s[1] \in gone) /\ ~HasMessage(s) /\ (AtEof(s) <=> s[1] \in gone)
                              /\ stream[s] = <<>>
BY DEF Nothing, Readable, HasMessage, AtEof

LEMMA OnlyFacts ==
    ASSUME NEW s \in Streams, NEW m \in Message, Only(s, m)
    PROVE  /\ stream[s] = <<m>> /\ stream[s] # <<>> /\ Head(stream[s]) = m /\ Readable(s)
           /\ HasMessage(s) <=> m.kind # "header"
           /\ AtEof(s) <=> m.kind = "header"
           /\ \A t \in Streams \ {s} : /\ (Readable(t) <=> t[1] \in gone) /\ ~HasMessage(t)
                                       /\ (AtEof(t) <=> t[1] \in gone) /\ stream[t] = <<>>
<1>1. stream[s] = <<m>> /\ stream[s] # <<>> /\ Head(stream[s]) = m
  BY DEF Only
<1> QED
  BY <1>1 DEF Only, Readable, HasMessage, AtEof

LEMMA SamePhase ==
    ASSUME UNCHANGED stream
    PROVE  (Nothing => Nothing') /\ (\A s \in Streams : Speaks(s) => Speaks(s)')
           /\ \A s \in Streams, m \in Message : Only(s, m) => Only(s, m)'
BY DEF Nothing, Speaks, Only

LEMMA NothingPut ==
    ASSUME TypeOK, Nothing, NEW s \in Streams, NEW m \in Message, s[2] \notin gone, stream' = Put(stream, s, m)
    PROVE  Only(s, m)' /\ Speaks(s)'
<1>1. stream[s] = <<>> /\ Len(stream[s]) < Room
  BY NetSyncAssumption DEF Nothing
<1>2. /\ \A t \in Streams \ {s} : stream'[t] = stream[t]
      /\ stream'[s] = Append(stream[s], m)
  <2>1. PICK q : q = stream
    OBVIOUS
  <2>2. q \in [Streams -> Seq(Message)] /\ stream' = [q EXCEPT ![s] = Append(@, m)]
    BY <2>1, TypedNow DEF Typed, Put
  <2> QED
    BY <2>1, <2>2
<1>3. Only(s, m)'
  <2>1. stream'[s] = <<m>>
    BY <1>1, <1>2
  <2> QED
    BY <1>2, <2>1 DEF Only, Nothing
<1> QED
  BY <1>3 DEF Speaks

LEMMA NothingTake ==
    ASSUME TypeOK, Nothing, NEW s \in Streams, stream' = Take(s)
    PROVE  Nothing'
<1>1. Take(s)[s] = <<>> /\ \A t \in Streams \ {s} : Take(s)[t] = stream[t]
  BY TakeFacts, TypedNow DEF Nothing
<1> QED
  BY <1>1 DEF Nothing

LEMMA OnlyTakes ==
    ASSUME TypeOK, NEW s \in Streams, NEW m \in Message, Only(s, m)
    PROVE  \A t \in Streams : Take(s)[t] = <<>>
<1>1. stream[s] = <<m>> /\ stream[s] # <<>> /\ Tail(stream[s]) = <<>>
  BY DEF Only
<1>2. Take(s)[s] = <<>> /\ \A t \in Streams \ {s} : Take(s)[t] = stream[t]
  BY <1>1, TakeFacts, TypedNow
<1> QED
  BY <1>2 DEF Only

LEMMA OnlyTake ==
    ASSUME TypeOK, NEW s \in Streams, NEW m \in Message, Only(s, m), stream' = Take(s)
    PROVE  Nothing'
BY OnlyTakes DEF Nothing

LEMMA SpeaksTake ==
    ASSUME TypeOK, NEW s \in Streams, Speaks(s), stream' = Take(s)
    PROVE  Nothing'
BY OnlyTake DEF Speaks

LEMMA OnlyPass ==
    ASSUME TypeOK, NEW s \in Streams, NEW m \in Message, Only(s, m), NEW t \in Streams, NEW m1 \in Message,
           t[2] \notin gone, stream' = Put(Take(s), t, m1)
    PROVE  Only(t, m1)'
<1>1. PICK q : q = Take(s)
  OBVIOUS
<1>2. Typed(q) /\ \A r \in Streams : q[r] = <<>>
  BY <1>1, OnlyTakes, TakeFacts, TypedNow
<1>4. stream'[t] = Append(q[t], m1) /\ \A r \in Streams \ {t} : stream'[r] = q[r]
  <2>1. stream' = [q EXCEPT ![t] = Append(@, m1)]
    BY <1>1 DEF Put
  <2> QED
    BY <1>2, <2>1 DEF Typed
<1>5. stream'[t] = <<m1>>
  <2>1. q[t] = <<>>
    BY <1>2
  <2> QED
    BY <1>4, <2>1
<1> QED
  BY <1>2, <1>4, <1>5 DEF Only

LEMMA SpeaksFacts ==
    ASSUME NEW s \in Streams, Speaks(s)
    PROVE  /\ Readable(s) /\ stream[s] # <<>> /\ Len(stream[s]) = 1
           /\ \A t \in Streams \ {s} : (Readable(t) <=> t[1] \in gone) /\ stream[t] = <<>>
<1>1. PICK m \in Message : Only(s, m)
  BY DEF Speaks
<1>2. stream[s] = <<m>> /\ Len(<<m>>) = 1
  BY <1>1 DEF Only
<1> QED
  BY <1>1, <1>2, OnlyFacts

-----------------------------------------------------------------------------
(* Before the calls.                                                       *)
Early == (Before \/ Ritual) /\ Pristine

LEMMA Goals ==
    /\ CleanOK <=> (~doubt /\ ~strayed => Early \/ Session \/ Over)
    /\ PhaseOK <=> (~strayed /\ hostAt # "gone" => Early \/ Cut \/ Third \/ Late)
BY DEF CleanOK, PhaseOK, Early

LEMMA EarlyGoal == ASSUME Early' PROVE CleanOK' /\ PhaseOK'
BY DEF CleanOK, PhaseOK, Early

LEMMA StrayedGoal == ASSUME strayed' PROVE CleanOK' /\ PhaseOK'
BY DEF CleanOK, PhaseOK

LEMMA NothingReads == ASSUME Nothing, TypeOK, GoodOK PROVE ~PalmReads
BY NothingFacts, HostStreams DEF PalmReads

LEMMA EarlyStreams ==
    ASSUME Early
    PROVE  /\ stream[ToPalm] = <<>> /\ stream[FromPalm] = <<>> /\ Len(stream[FromFwd]) \in {0, 1}
           /\ stream[FromHost] # <<>> => stream[FromFwd] = <<>>
           /\ ~(Before \/ Nothing) => Speaks(FromFwd) \/ Speaks(FromHost)
           /\ fwdAt # "relay" /\ hostAt \notin {"idle", "send", "wait", "gone"}
<1>1. Nothing \/ Speaks(FromFwd) \/ Speaks(FromHost)
  BY DEF Early, Before, Ritual
<1>2. fwdAt # "relay" /\ hostAt \notin {"idle", "send", "wait", "gone"}
  BY DEF Early, Before, Ritual
<1>3. /\ stream[ToPalm] = <<>> /\ stream[FromPalm] = <<>> /\ Len(stream[FromFwd]) \in {0, 1}
      /\ stream[FromHost] # <<>> => stream[FromFwd] = <<>>
  <2>1. CASE Nothing
    BY <2>1, NothingFacts, StreamFacts
  <2>2. CASE Speaks(FromFwd)
    BY <2>2, SpeaksFacts, StreamFacts
  <2>3. CASE Speaks(FromHost)
    BY <2>3, SpeaksFacts, StreamFacts
  <2> QED
    BY <1>1, <2>1, <2>2, <2>3
<1> QED
  BY <1>1, <1>2, <1>3

LEMMA EarlyStart ==
    ASSUME TypeOK, GoodOK, Early, Wakeup \/ Listen \/ Connect
    PROVE  CleanOK' /\ PhaseOK'
<1>1. CASE Wakeup
  <2>1. Before /\ hostAt' = "listen" /\ UNCHANGED <<stream, fwdVars, gone, calls, executed>>
    BY <1>1, Zenon DEF Wakeup, HostGoes, HostAsBefore, Early, Before, Ritual
  <2>2. Early'
    BY <2>1, SamePhase DEF Early, Before, Pristine, fwdVars
  <2> QED
    BY <2>2, EarlyGoal
<1>2. CASE Listen
  <2>1. UNCHANGED <<stream, fwdVars, gone, calls, executed>> /\ hostAt = "listen"
        /\ (hostAt' = "accept" \/ strayed')
    BY <1>2 DEF Listen, HostGoes, HostAsBefore
  <2>2. CASE hostAt' = "accept"
    <3>1. Before
      BY <2>1 DEF Early, Before, Ritual
    <3>2. Early'
      BY <2>1, <2>2, <3>1, SamePhase DEF Early, Before, Pristine, fwdVars
    <3> QED
      BY <3>2, EarlyGoal
  <2> QED
    BY <2>1, <2>2, StrayedGoal
<1>3. CASE Connect
  <2>1. UNCHANGED <<stream, ready, inbuf, calls, executed>> /\ fwdAt = "connect"
    BY <1>3 DEF Connect
  <2>2. Before
    BY <2>1 DEF Early, Before, Ritual
  <2>3. Nothing' /\ Pristine'
    BY <2>1, <2>2, SamePhase DEF Early, Before, Pristine
  <2>4. gone \subseteq {"palm"} /\ hostAt \in {"wakeup", "listen", "accept"}
    BY <2>1, <2>2 DEF Before
  <2>5. \/ hostAt' = "hear 1" /\ fwdAt' = "say 1" /\ gone' = gone
        \/ hostAt' = hostAt /\ fwdAt' = "connect" /\ gone' = gone
        \/ hostAt' = hostAt /\ fwdAt' = "failed" /\ gone' = gone \union {"fwd"}
    BY <1>3 DEF Connect, FwdGoes, FwdEnds, HostGoes
  <2>6. Before' \/ Ritual'
    BY <2>3, <2>4, <2>5 DEF Before, Ritual
  <2> QED
    BY <2>3, <2>6, EarlyGoal DEF Early
<1> QED
  BY <1>1, <1>2, <1>3

LEMMA EarlyHostHears ==
    ASSUME TypeOK, GoodOK, Early, HostHearsRitual
    PROVE  CleanOK' /\ PhaseOK'
<1>1. CASE strayed'
  BY <1>1, StrayedGoal
<1>2. CASE Readable(FromFwd) /\ stream' = Take(FromFwd) /\ hostAt' = Heard[hostAt]
  <2>0. hostAt \in {"hear 1", "hear 2", "hear 3"} /\ UNCHANGED <<gone, fwdVars, calls, executed>>
    BY DEF HostHearsRitual, HostAsBefore, Heard
  <2>1. Ritual /\ Pristine /\ gone \subseteq {"palm"}
    BY <2>0 DEF Early, Before, Ritual
  <2>2. Speaks(FromFwd)
    BY <1>2, <2>1, NothingFacts, SpeaksFacts, StreamFacts DEF Ritual
  <2>3. Nothing'
    BY <1>2, <2>2, SpeaksTake, HostStreams
  <2>4. stream[FromFwd] # <<>>
    BY <2>2, SpeaksFacts, HostStreams
  <2>5. \/ hostAt = "hear 1" /\ fwdAt = "hear 2"
        \/ hostAt = "hear 2" /\ fwdAt = "hear 3"
        \/ hostAt = "hear 3" /\ fwdAt = "select"
    <3>1. ~Nothing /\ ~Speaks(FromHost)
      BY <2>4, NothingFacts, SpeaksFacts, StreamFacts
    <3> QED
      BY <2>1, <3>1 DEF Ritual
  <2>6. Pristine'
    BY <2>0, <2>1 DEF Pristine, fwdVars
  <2>7. CASE fwdAt \in {"hear 2", "hear 3"}
    <3>1. \/ hostAt' = "say 2" /\ fwdAt' = "hear 2"
          \/ hostAt' = "say 3" /\ fwdAt' = "hear 3"
      BY <1>2, <2>0, <2>5, <2>7 DEF fwdVars, Heard
    <3>2. Ritual'
      BY <2>0, <2>1, <2>3, <3>1 DEF Ritual
    <3> QED
      BY <2>6, <3>2, EarlyGoal DEF Early
  <2>8. CASE hostAt = "hear 3" /\ fwdAt = "select"
    <3>1. hostAt' = "idle" /\ fwdAt' = "select" /\ ready' = {} /\ inbuf' = NoMessage
      BY <1>2, <2>0, <2>1, <2>8 DEF fwdVars, Heard, Pristine
    <3>2. NoMessage.kind = "junk"
      BY MessageFacts
    <3>3. Late'
      BY <2>3, <3>1, <3>2, HostStreams DEF Late, NoRitual, Nothing
    <3>4. ~doubt' => gone' = {}
      <4>1. gone' = gone /\ ("palm" \in gone' => doubt')
        BY <2>0, TypesNext DEF GoodOK, Next, HostStep
      <4> QED
        BY <2>1, <4>1
    <3>5. ~doubt' => Session'
      BY <2>3, <3>1, <3>2, <3>4 DEF Session, AtRest
    <3> QED
      BY <3>3, <3>5 DEF CleanOK, PhaseOK
  <2> QED
    BY <2>5, <2>7, <2>8
<1> QED
  BY <1>1, <1>2 DEF HostHearsRitual, HostGoes

LEMMA EarlyHostSays ==
    ASSUME TypeOK, GoodOK, Early, HostSaysRitual
    PROVE  CleanOK' /\ PhaseOK'
<1>1. CASE strayed'
  BY <1>1, StrayedGoal
<1>2. CASE /\ stream' = Put(stream, FromHost, Msg("ritual", Part[hostAt], hostXid'))
           /\ hostAt' = Said[hostAt]
  <2>0. hostAt \in {"say 2", "say 3"} /\ UNCHANGED <<gone, fwdVars, calls, executed>>
    BY DEF HostSaysRitual, HostAsBefore, Said
  <2>1. /\ gone \subseteq {"palm"} /\ Nothing /\ Pristine
        /\ (hostAt = "say 2" /\ fwdAt = "hear 2") \/ (hostAt = "say 3" /\ fwdAt = "hear 3")
    BY <2>0 DEF Early, Before, Ritual
  <2>2. PICK m : m = Msg("ritual", Part[hostAt], hostXid')
    OBVIOUS
  <2>3. m \in Message
    <3>1. hostXid' \in Nat
      BY BumpFacts DEF TypeOK, HostSaysRitual
    <3>2. Part[hostAt] \in {1, 2, 3}
      BY <2>0 DEF Part
    <3> QED
      BY <2>2, <3>1, <3>2, RitualMessage
  <2>4. Speaks(FromHost)'
    BY <1>2, <2>1, <2>2, <2>3, NothingPut, StreamFacts
  <2>5. (hostAt' = "hear 2" /\ fwdAt' = "hear 2") \/ (hostAt' = "hear 3" /\ fwdAt' = "hear 3")
    BY <1>2, <2>0, <2>1 DEF fwdVars, Said
  <2>6. Ritual'
    BY <2>0, <2>1, <2>4, <2>5 DEF Ritual
  <2>7. Pristine'
    BY <2>0, <2>1 DEF Pristine, fwdVars
  <2> QED
    BY <2>6, <2>7, EarlyGoal DEF Early
<1> QED
  BY <1>1, <1>2 DEF HostSaysRitual, HostGoes

LEMMA EarlyFwdSays ==
    ASSUME TypeOK, GoodOK, Early, FwdSaysRitual
    PROVE  CleanOK' /\ PhaseOK'
<1>0. fwdAt \in {"say 1", "say 2", "say 3"} /\ UNCHANGED <<hostVars, executed, ready, inbuf>>
  BY DEF FwdSaysRitual, FwdSays
<1>1. /\ gone \subseteq {"palm"} /\ Nothing /\ Pristine
      /\ \/ hostAt = "hear 1" /\ fwdAt = "say 1"
         \/ hostAt = "hear 2" /\ fwdAt = "say 2"
         \/ hostAt = "hear 3" /\ fwdAt = "say 3"
  BY <1>0 DEF Early, Before, Ritual
<1>2. stream' = Put(stream, FromFwd, Msg("ritual", Part[fwdAt], fwdXid)) /\ gone' = gone
      /\ fwdAt' = FwdSays[fwdAt]
  BY <1>1, StreamFacts DEF FwdSaysRitual, Fails, FwdGoes
<1>3. PICK m : m = Msg("ritual", Part[fwdAt], fwdXid)
  OBVIOUS
<1>4. m \in Message
  <2>1. Part[fwdAt] \in {1, 2, 3} /\ fwdXid \in Nat
    BY <1>0 DEF Part, TypeOK
  <2> QED
    BY <1>3, <2>1, RitualMessage
<1>5. Speaks(FromFwd)'
  BY <1>1, <1>2, <1>3, <1>4, NothingPut, StreamFacts
<1>6. \/ hostAt' = "hear 1" /\ fwdAt' = "hear 2"
      \/ hostAt' = "hear 2" /\ fwdAt' = "hear 3"
      \/ hostAt' = "hear 3" /\ fwdAt' = "select"
  BY <1>0, <1>1, <1>2 DEF hostVars, FwdSays
<1>7. Ritual'
  BY <1>1, <1>2, <1>5, <1>6 DEF Ritual
<1>8. Pristine'
  BY <1>0, <1>1 DEF Pristine, hostVars
<1> QED
  BY <1>7, <1>8, EarlyGoal DEF Early

LEMMA OneFirst == \A m : FirstOnly(<<m>>)
BY DEF FirstOnly

LEMMA EarlyFwdHears ==
    ASSUME TypeOK, GoodOK, Early, FwdHearsRitual
    PROVE  CleanOK' /\ PhaseOK'
<1>0. fwdAt \in {"hear 2", "hear 3"} /\ UNCHANGED <<hostVars, executed, ready, inbuf>>
  BY DEF FwdHearsRitual
<1>1. Ritual /\ Pristine /\ gone \subseteq {"palm"}
  BY <1>0 DEF Early, Before, Ritual
<1>2. CASE Readable(FromHost) /\ stream' = Take(FromHost) /\ gone' = gone
           /\ fwdAt' = (IF fwdAt = "hear 2" THEN "say 2" ELSE "say 3")
  <2>1. ~Nothing /\ ~Speaks(FromFwd)
    BY <1>1, <1>2, NothingFacts, SpeaksFacts, StreamFacts
  <2>2. /\ Speaks(FromHost)
        /\ (hostAt = "hear 2" /\ fwdAt = "hear 2") \/ (hostAt = "hear 3" /\ fwdAt = "hear 3")
    BY <1>0, <1>1, <2>1 DEF Ritual
  <2>3. Nothing'
    BY <1>2, <2>2, SpeaksTake, HostStreams
  <2>4. (hostAt' = "hear 2" /\ fwdAt' = "say 2") \/ (hostAt' = "hear 3" /\ fwdAt' = "say 3")
    BY <1>0, <1>2, <2>2 DEF hostVars
  <2>5. Ritual' /\ Pristine'
    BY <1>0, <1>1, <1>2, <2>3, <2>4 DEF Ritual, Pristine, hostVars
  <2> QED
    BY <2>5, EarlyGoal DEF Early
<1>3. CASE Silent(FromHost) /\ doubt' = TRUE /\ gone' = gone \union {"fwd"} /\ UNCHANGED stream
  <2>1. CleanOK'
    BY <1>3 DEF CleanOK
  <2>2. ~Speaks(FromHost)
    BY <1>3, SpeaksFacts, HostStreams DEF Silent
  <2>3. \/ hostAt \in {"say 2", "say 3"} /\ Nothing
        \/ hostAt \in {"hear 1", "hear 2"} /\ Speaks(FromFwd)
    BY <1>0, <1>1, <2>2 DEF Ritual
  <2>4. Cut'
    <3>1. Nothing => NoRitual(stream[FromFwd])
      BY HostStreams DEF Nothing, NoRitual
    <3>2. Speaks(FromFwd) => FirstOnly(stream[FromFwd])
      BY HostStreams, OneFirst DEF Speaks, Only
    <3>3. stream' = stream /\ hostAt' = hostAt /\ "fwd" \in gone'
      BY <1>0, <1>3 DEF hostVars
    <3> QED
      BY <2>3, <3>1, <3>2, <3>3 DEF Cut
  <2> QED
    BY <2>1, <2>4 DEF PhaseOK
<1> QED
  BY <1>2, <1>3, Zenon DEF FwdHearsRitual, FwdGoes, FwdEnds

LEMMA EarlySelect ==
    ASSUME TypeOK, GoodOK, Early, Select
    PROVE  CleanOK' /\ PhaseOK'
<1>0. fwdAt = "select" /\ fwdAt' = "relay" /\ UNCHANGED <<stream, hostVars, executed, inbuf, gone, doubt>>
      /\ ready' = {e \in {"palm", "host"} : Readable(<<e, "fwd">>)} /\ ready' # {}
  BY DEF Select, FwdGoes, NoFault
<1>1. hostAt = "hear 3" /\ Speaks(FromFwd) /\ gone \subseteq {"palm"} /\ inbuf = NoMessage
  BY <1>0 DEF Early, Before, Ritual, Pristine
<1>2. stream[FromFwd] # <<>> /\ Len(stream[FromFwd]) = 1 /\ stream[FromHost] = <<>> /\ stream[FromPalm] = <<>>
      /\ (Readable(FromPalm) => "palm" \in gone) /\ (Readable(FromHost) => "host" \in gone)
  BY <1>1, SpeaksFacts, StreamFacts
<1>3. "palm" \in gone
  BY <1>0, <1>1, <1>2 DEF FromPalm, FromHost
<1>4. CleanOK'
  BY <1>0, <1>3 DEF CleanOK, GoodOK
<1>5. Third'
  <2>1. NoMessage.kind = "junk"
    BY MessageFacts
  <2>2. FirstOnly(stream[FromFwd])
    BY <1>1, OneFirst, HostStreams DEF Speaks, Only
  <2>3. NoRitual(stream[FromHost])
    BY <1>2 DEF NoRitual
  <2>4. UNCHANGED <<stream, hostAt, inbuf>>
    BY <1>0 DEF hostVars
  <2> QED
    BY <1>0, <1>1, <1>2, <2>1, <2>2, <2>3, <2>4 DEF Third
<1> QED
  BY <1>4, <1>5 DEF PhaseOK

LEMMA EarlyPalmLeaves ==
    ASSUME TypeOK, GoodOK, Early, PalmLeaves
    PROVE  CleanOK' /\ PhaseOK'
<1>1. gone' = gone \union {"palm"} /\ UNCHANGED <<stream, executed, hostVars, fwdVars>>
  BY DEF PalmLeaves
<1>2. Pristine' /\ hostAt' = hostAt /\ fwdAt' = fwdAt
  BY <1>1 DEF Early, Pristine, hostVars, fwdVars
<1>3. CASE Before
  <2>1. Before'
    BY <1>1, <1>2, <1>3, SamePhase DEF Before
  <2> QED
    BY <1>2, <2>1, EarlyGoal DEF Early
<1>4. CASE Ritual
  <2>1. gone' \subseteq {"palm"}
    BY <1>1, <1>4 DEF Ritual
  <2>2. (Nothing => Nothing') /\ (Speaks(FromFwd) => Speaks(FromFwd)') /\ (Speaks(FromHost) => Speaks(FromHost)')
    BY <1>1, SamePhase, HostStreams
  <2>3. Ritual'
    BY <1>2, <1>4, <2>1, <2>2 DEF Ritual
  <2> QED
    BY <1>2, <2>3, EarlyGoal DEF Early
<1> QED
  BY <1>3, <1>4 DEF Early

LEMMA EarlyNext == ASSUME TypeOK, GoodOK, Early, [Next]_vars PROVE CleanOK' /\ PhaseOK'
<1>0. /\ stream[ToPalm] = <<>> /\ fwdAt # "relay" /\ hostAt \notin {"idle", "send", "wait", "gone"}
  BY EarlyStreams
<1>1. ~(Call \/ Send \/ Receive \/ ReceiveEof \/ Timeout \/ HostEnds \/ RelayUp \/ RelayDown \/ PalmReads)
  BY <1>0 DEF Call, Send, Receive, ReceiveEof, Timeout, HostEnds, RelayUp, RelayDown, Relay, PalmReads
<1>2. CASE HostCrashes
  BY <1>2 DEF HostCrashes, HostCloses, HostGoes, CleanOK, PhaseOK
<1>3. CASE UNCHANGED vars
  <2>1. UNCHANGED <<stream, gone, hostAt, fwdAt, ready, inbuf, calls, executed>>
    BY <1>3 DEF vars, hostVars, fwdVars
  <2>2. (Nothing => Nothing') /\ (Speaks(FromFwd) => Speaks(FromFwd)') /\ (Speaks(FromHost) => Speaks(FromHost)')
    BY <2>1, SamePhase, HostStreams
  <2>3. Early'
    BY <2>1, <2>2 DEF Early, Before, Ritual, Pristine
  <2> QED
    BY <2>3, EarlyGoal
<1> QED
  BY <1>1, <1>2, <1>3, EarlyStart, EarlyHostHears, EarlyHostSays, EarlyFwdSays, EarlyFwdHears, EarlySelect,
     EarlyPalmLeaves DEF Next, HostStep, FwdStep

-----------------------------------------------------------------------------
(* While all is well.                                                      *)
LEMMA DoubtGoal == ASSUME doubt' \/ strayed' PROVE CleanOK'
BY DEF CleanOK

LEMMA SessionGoal == ASSUME Session' PROVE CleanOK'
BY DEF CleanOK

(* The places of the one message.                                          *)
LEMMA MessageNow ==
    ASSUME TypeOK, GoodOK
    PROVE  /\ Msg("request", calls, hostXid) \in Message /\ Msg("request", calls, 0) \in Message
           /\ Msg("response", Len(executed), 0) \in Message /\ Msg("response", Len(executed), hostXid) \in Message
           /\ \A n, x : /\ Msg("request", n, x).kind = "request" /\ Msg("response", n, x).kind = "response"
                        /\ Msg("request", n, x).n = n /\ Msg("response", n, x).n = n
                        /\ Msg("request", n, x).xid = x /\ Msg("response", n, x).xid = x
           /\ \A m \in Message : m = Msg(m.kind, m.n, m.xid)
<1>1. calls \in Nat /\ hostXid \in Nat /\ Len(executed) \in Nat /\ 0 \in Nat
  BY NetSyncAssumption DEF TypeOK
<1>2. /\ Msg("request", calls, hostXid) \in Message /\ Msg("request", calls, 0) \in Message
      /\ Msg("response", Len(executed), 0) \in Message /\ Msg("response", Len(executed), hostXid) \in Message
  BY <1>1 DEF Msg, Message
<1>3. \A n, x : /\ Msg("request", n, x).kind = "request" /\ Msg("response", n, x).kind = "response"
                /\ Msg("request", n, x).n = n /\ Msg("response", n, x).n = n
                /\ Msg("request", n, x).xid = x /\ Msg("response", n, x).xid = x
  BY DEF Msg
<1>4. \A m \in Message : m = Msg(m.kind, m.n, m.xid)
  BY DEF Msg, Message
<1> QED
  BY <1>2, <1>3, <1>4

(* During a call exactly one stream has a message; it tells the four       *)
(* places apart.                                                           *)
OnItsWay ==
    \E s \in Streams : \E m \in Message : Only(s, m) /\ m.kind \in {"request", "response"}
                                          /\ (m.kind = "request" <=> s \in {FromHost, ToPalm})

LEMMA WaitingFacts ==
    ASSUME TypeOK, GoodOK, Session, hostAt = "wait"
    PROVE  /\ Waiting /\ OnItsWay /\ gone = {}
           /\ stream[FromHost] # <<>> => /\ Only(FromHost, Msg("request", calls, hostXid)) /\ Fresh /\ AtWork("host")
           /\ stream[ToPalm] # <<>> => /\ Only(ToPalm, Msg("request", calls, 0)) /\ Fresh /\ AtRest
                                       /\ fwdXid = hostXid
           /\ stream[FromPalm] # <<>> => /\ Only(FromPalm, Msg("response", Len(executed), 0)) /\ Carried
                                         /\ AtWork("palm") /\ fwdXid = hostXid
           /\ stream[FromFwd] # <<>> => /\ Only(FromFwd, Msg("response", Len(executed), hostXid)) /\ Carried
                                        /\ AtRest /\ inbuf.kind = "response"
<1>1. Waiting /\ gone = {}
  BY DEF Session
<1>2. \A s, t \in Streams, m \in Message : Only(s, m) /\ stream[t] # <<>> => t = s
  BY DEF Only
<1>3. OnItsWay
  BY <1>1, MessageNow, StreamFacts DEF Waiting, OnItsWay
<1>4. CASE Only(FromHost, Msg("request", calls, hostXid)) /\ Fresh /\ AtWork("host")
  BY <1>1, <1>2, <1>3, <1>4, MessageNow, StreamFacts
<1>5. CASE Only(ToPalm, Msg("request", calls, 0)) /\ Fresh /\ AtRest /\ fwdXid = hostXid
  BY <1>1, <1>2, <1>3, <1>5, MessageNow, StreamFacts
<1>6. CASE /\ Only(FromPalm, Msg("response", Len(executed), 0)) /\ Carried
           /\ AtWork("palm") /\ fwdXid = hostXid
  BY <1>1, <1>2, <1>3, <1>6, MessageNow, StreamFacts
<1>7. CASE /\ Only(FromFwd, Msg("response", Len(executed), hostXid)) /\ Carried
           /\ AtRest /\ inbuf.kind = "response"
  BY <1>1, <1>2, <1>3, <1>7, MessageNow, StreamFacts
<1> QED
  BY <1>1, <1>4, <1>5, <1>6, <1>7 DEF Waiting

LEMMA SessionCall == ASSUME TypeOK, GoodOK, Session, Call PROVE CleanOK'
<1>1. hostAt = "idle" /\ hostAt' = "send" /\ calls' = calls + 1 /\ UNCHANGED <<stream, gone, fwdVars, executed>>
  BY DEF Call, HostGoes, HostAsBefore
<1>2. Nothing /\ AtRest /\ gone = {}
  BY <1>1 DEF Session
<1>3. Fresh'
  <2>1. executed \in Seq(1 .. MaxCalls) /\ calls \in Nat
    BY NetSyncAssumption DEF TypeOK
  <2>2. \A i \in DOMAIN executed : executed[i] \in Nat
    BY <2>1, NetSyncAssumption
  <2>3. \A i \in DOMAIN executed : executed[i] <= calls
    BY DEF GoodOK
  <2> QED
    BY <1>1, <2>1, <2>2, <2>3 DEF Fresh
<1>4. Session'
  BY <1>1, <1>2, <1>3, SamePhase DEF Session, AtRest, fwdVars
<1> QED
  BY <1>4, SessionGoal

LEMMA SessionSend == ASSUME TypeOK, GoodOK, Session, Send PROVE CleanOK'
<1>1. hostAt = "send" /\ UNCHANGED <<gone, fwdVars, executed, calls>>
  BY DEF Send, HostAsBefore
<1>2. Nothing /\ AtRest /\ gone = {} /\ Fresh
  BY <1>1 DEF Session
<1>3. stream' = Put(stream, FromHost, Msg("request", calls, hostXid')) /\ hostAt' = "wait"
  BY <1>2 DEF Send, Fails, HostGoes
<1>4. PICK m : m = Msg("request", calls, hostXid')
  OBVIOUS
<1>5. m \in Message
  <2>1. hostXid' \in Nat /\ calls \in Nat
    BY BumpFacts, NetSyncAssumption DEF TypeOK, Send
  <2> QED
    BY <1>4, <2>1 DEF Msg, Message
<1>6. Only(FromHost, m)'
  BY <1>2, <1>3, <1>4, <1>5, NothingPut, HostStreams
<1>7. Only(FromHost, Msg("request", calls, hostXid))'
  BY <1>1, <1>4, <1>6 DEF Only
<1>8. Fresh' /\ AtRest'
  BY <1>1, <1>2 DEF Fresh, AtRest, fwdVars
<1>9. Session'
  BY <1>1, <1>2, <1>3, <1>7, <1>8 DEF Session, Waiting, AtWork
<1> QED
  BY <1>9, SessionGoal

LEMMA SessionReceive == ASSUME TypeOK, GoodOK, Session, Receive PROVE CleanOK'
<1>0. hostAt = "wait" /\ HasMessage(FromFwd) /\ stream' = Take(FromFwd) /\ UNCHANGED <<gone, fwdVars, executed, calls>>
  BY DEF Receive, HostAsBefore
<1>1. /\ Only(FromFwd, Msg("response", Len(executed), hostXid)) /\ Carried
      /\ AtRest /\ inbuf.kind = "response" /\ gone = {}
  BY <1>0, WaitingFacts DEF HasMessage
<1>2. PICK m \in Message : m = Msg("response", Len(executed), hostXid)
  BY MessageNow
<1>3. Head(stream[FromFwd]) = m /\ m.kind = "response" /\ m.n = Len(executed)
  BY <1>1, <1>2, OnlyFacts, HostStreams, MessageNow
<1>4. Answers(m)
  BY <1>1, <1>3 DEF Answers, Carried
<1>5. hostAt' = "idle"
  BY <1>3, <1>4 DEF Receive, Return, HostGoes
<1>6. Nothing'
  BY <1>0, <1>1, <1>2, OnlyTake, HostStreams
<1>7. Session'
  BY <1>0, <1>1, <1>5, <1>6 DEF Session, AtRest, fwdVars
<1> QED
  BY <1>7, SessionGoal

LEMMA SessionEnds == ASSUME TypeOK, GoodOK, Session, HostEnds PROVE CleanOK'
<1>1. hostAt = "idle" /\ hostAt' = "gone" /\ gone' = gone \union {"host"} /\ UNCHANGED <<stream, fwdVars>>
  BY DEF HostEnds, HostCloses, HostGoes
<1>2. Nothing /\ AtRest /\ gone = {} /\ inbuf.kind # "request"
  BY <1>1 DEF Session
<1>3. Over'
  BY <1>1, <1>2, NothingFacts, HostStreams DEF Over, AtRest, fwdVars, Nothing
<1> QED
  BY <1>3 DEF CleanOK

LEMMA SessionSelect == ASSUME TypeOK, GoodOK, Session, Select PROVE CleanOK'
<1>0. fwdAt = "select" /\ fwdAt' = "relay" /\ UNCHANGED <<stream, hostVars, executed, inbuf, fwdXid, gone>>
      /\ ready' = {e \in {"palm", "host"} : Readable(<<e, "fwd">>)} /\ ready' # {}
  BY DEF Select, FwdGoes
<1>1. gone = {} /\ <<"palm", "fwd">> = FromPalm /\ <<"host", "fwd">> = FromHost
  BY DEF Session, FromPalm, FromHost
<1>2. hostAt = "wait"
  <2>1. ~Nothing
    BY <1>0, <1>1, NothingFacts, HostStreams
  <2> QED
    BY <2>1 DEF Session
<1>3. \A s \in Streams : Readable(s) <=> stream[s] # <<>>
  BY <1>1 DEF Readable
<1>4. "palm" \in ready' <=> stream[FromPalm] # <<>>
  BY <1>0, <1>1, <1>3, HostStreams
<1>5. "host" \in ready' <=> stream[FromHost] # <<>>
  BY <1>0, <1>1, <1>3, HostStreams
<1>6. ready' \subseteq {"palm", "host"}
  BY <1>0
<1>7. CASE stream[FromHost] # <<>>
  <2>1. Only(FromHost, Msg("request", calls, hostXid)) /\ Fresh
    BY <1>2, <1>7, WaitingFacts
  <2>2. stream[FromPalm] = <<>>
    BY <2>1, StreamFacts DEF Only
  <2>3. ready' = {"host"}
    BY <1>4, <1>5, <1>6, <1>7, <2>2
  <2>4. Only(FromHost, Msg("request", calls, hostXid))' /\ Fresh'
    BY <1>0, <2>1 DEF Only, Fresh, hostVars
  <2>5. Session'
    BY <1>0, <1>1, <1>2, <2>3, <2>4 DEF Session, Waiting, AtWork, hostVars
  <2> QED
    BY <2>5, SessionGoal
<1>8. CASE stream[FromHost] = <<>>
  <2>0. stream[FromPalm] # <<>>
    BY <1>0, <1>4, <1>5, <1>6, <1>8
  <2>1. Only(FromPalm, Msg("response", Len(executed), 0)) /\ Carried /\ fwdXid = hostXid
    BY <1>2, <2>0, WaitingFacts
  <2>3. ready' = {"palm"}
    BY <1>4, <1>5, <1>6, <1>8, <2>0
  <2>4. Only(FromPalm, Msg("response", Len(executed), 0))' /\ Carried' /\ fwdXid' = hostXid'
    BY <1>0, <2>1 DEF Only, Carried, hostVars
  <2>5. Session'
    BY <1>0, <1>1, <1>2, <2>3, <2>4 DEF Session, Waiting, AtWork, hostVars
  <2> QED
    BY <2>5, SessionGoal
<1> QED
  BY <1>7, <1>8

(* A relayed message is the one that there is.                             *)
LEMMA RelaysOne ==
    ASSUME TypeOK, GoodOK, NEW e, NEW o, NEW s \in Streams, NEW t \in Streams \ {s}, NEW m0 \in Message,
           Only(s, m0), m0.kind \in {"request", "response"}, t[2] \notin gone,
           NEW m \in Read(s), Relays(e, o, s, t, m)
    PROVE  /\ m = m0 /\ gone' = gone /\ ready' = ready \ {e} /\ XidOf(s) = m0.xid
           /\ fwdAt' = (IF ready' = {} THEN "select" ELSE "relay")
           /\ \E m1 \in Message : /\ Only(t, m1)' /\ m1.kind = m0.kind /\ m1.n = m0.n
                                  /\ m1.xid = IF o = "host" THEN fwdXid' ELSE 0
<1>1. m = m0 /\ m # NoMessage /\ XidOf(s) = m0.xid
  <2>1. HasMessage(s) /\ stream[s] # <<>> /\ Head(stream[s]) = m0
    BY OnlyFacts
  <2> QED
    BY <2>1, MessageFacts DEF Read, XidOf
<1>2. ~Fails(t)
  BY DEF Fails
<1>3. gone' = gone /\ ready' = ready \ {e} /\ fwdAt' = (IF ready' = {} THEN "select" ELSE "relay")
  BY <1>1, <1>2 DEF Relays
<1>4. PICK m1 : Moves(o, s, t, m, m1)
  BY RelaysStreams
<1>5. stream' = Put(Take(s), t, m1) /\ m1 \in Message
  BY <1>1, <1>2, <1>4 DEF Moves
<1>6. Only(t, m1)'
  BY <1>5, OnlyPass
<1> QED
  BY <1>1, <1>3, <1>4, <1>5, <1>6 DEF Moves

LEMMA SessionUp == ASSUME TypeOK, GoodOK, Session, RelayUp PROVE CleanOK'
<1>1. PICK m \in Read(FromPalm) : Relays("palm", "host", FromPalm, FromFwd, m)
  BY UpRelays
<1>2. fwdAt = "relay" /\ "palm" \in ready /\ inbuf' = m /\ fwdXid' = fwdXid
      /\ UNCHANGED <<hostVars, executed>>
  BY <1>1 DEF Relays
<1>3. hostAt = "wait" /\ gone = {} /\ stream[FromPalm] # <<>>
  <2>1. hostAt = "wait" /\ gone = {} /\ Waiting
    BY <1>2 DEF Session, AtRest
  <2>2. Only(FromPalm, Msg("response", Len(executed), 0))
    BY <1>2, <2>1 DEF Waiting, AtWork, AtRest
  <2> QED
    BY <2>1, <2>2 DEF Only
<1>4. Only(FromPalm, Msg("response", Len(executed), 0)) /\ Carried /\ AtWork("palm") /\ fwdXid = hostXid
  BY <1>3, WaitingFacts
<1>5. PICK m0 \in Message : m0 = Msg("response", Len(executed), 0)
  BY MessageNow
<1>6. m0.kind = "response" /\ m0.n = Len(executed) /\ Only(FromPalm, m0) /\ ready = {"palm"}
  BY <1>2, <1>4, <1>5, MessageNow DEF AtWork, AtRest
<1>7. /\ m = m0 /\ gone' = gone /\ ready' = ready \ {"palm"}
      /\ fwdAt' = (IF ready' = {} THEN "select" ELSE "relay")
      /\ \E m1 \in Message : /\ Only(FromFwd, m1)' /\ m1.kind = m0.kind /\ m1.n = m0.n
                             /\ m1.xid = IF "host" = "host" THEN fwdXid' ELSE 0
  <2>1. FromPalm \in Streams /\ FromFwd \in Streams \ {FromPalm} /\ FromFwd[2] \notin gone
    BY <1>3, StreamFacts
  <2> QED
    BY <1>1, <1>6, <2>1, RelaysOne
<1>8. PICK m1 \in Message : Only(FromFwd, m1)' /\ m1.kind = "response" /\ m1.n = Len(executed) /\ m1.xid = hostXid
  BY <1>2, <1>4, <1>6, <1>7
<1>9. m1 = Msg("response", Len(executed), hostXid)
  BY <1>8, MessageNow
<1>10. Only(FromFwd, Msg("response", Len(executed), hostXid))'
  BY <1>2, <1>8, <1>9 DEF Only, hostVars
<1>11. AtRest' /\ Carried' /\ inbuf'.kind = "response"
  BY <1>2, <1>4, <1>6, <1>7 DEF AtRest, Carried, hostVars
<1>12. Session'
  BY <1>2, <1>3, <1>7, <1>10, <1>11 DEF Session, Waiting, hostVars
<1> QED
  BY <1>12, SessionGoal

LEMMA SessionDown == ASSUME TypeOK, GoodOK, Session, RelayDown PROVE CleanOK'
<1>1. PICK m \in Read(FromHost) : Relays("host", "palm", FromHost, ToPalm, m)
  BY DownRelays
<1>2. fwdAt = "relay" /\ "host" \in ready /\ fwdXid' = XidOf(FromHost)
      /\ UNCHANGED <<hostVars, executed>>
  BY <1>1 DEF Relays
<1>3. hostAt = "wait" /\ gone = {} /\ stream[FromHost] # <<>>
  <2>1. hostAt = "wait" /\ gone = {} /\ Waiting
    BY <1>2 DEF Session, AtRest
  <2>2. Only(FromHost, Msg("request", calls, hostXid))
    BY <1>2, <2>1 DEF Waiting, AtWork, AtRest
  <2> QED
    BY <2>1, <2>2 DEF Only
<1>4. Only(FromHost, Msg("request", calls, hostXid)) /\ Fresh /\ AtWork("host")
  BY <1>3, WaitingFacts
<1>5. PICK m0 \in Message : m0 = Msg("request", calls, hostXid)
  BY MessageNow
<1>6. m0.kind = "request" /\ m0.n = calls /\ m0.xid = hostXid /\ Only(FromHost, m0) /\ ready = {"host"}
  BY <1>2, <1>4, <1>5, MessageNow DEF AtWork, AtRest
<1>7. /\ gone' = gone /\ ready' = ready \ {"host"} /\ XidOf(FromHost) = m0.xid
      /\ fwdAt' = (IF ready' = {} THEN "select" ELSE "relay")
      /\ \E m1 \in Message : /\ Only(ToPalm, m1)' /\ m1.kind = m0.kind /\ m1.n = m0.n
                             /\ m1.xid = IF "palm" = "host" THEN fwdXid' ELSE 0
  <2>1. FromHost \in Streams /\ ToPalm \in Streams \ {FromHost} /\ ToPalm[2] \notin gone
    BY <1>3, StreamFacts
  <2> QED
    BY <1>1, <1>6, <2>1, RelaysOne
<1>8. PICK m1 \in Message : Only(ToPalm, m1)' /\ m1.kind = "request" /\ m1.n = calls /\ m1.xid = 0
  BY <1>6, <1>7
<1>9. m1 = Msg("request", calls, 0)
  BY <1>8, MessageNow
<1>10. Only(ToPalm, Msg("request", calls, 0))'
  BY <1>2, <1>8, <1>9 DEF Only, hostVars
<1>11. AtRest' /\ Fresh' /\ fwdXid' = hostXid'
  BY <1>2, <1>4, <1>6, <1>7 DEF AtRest, Fresh, hostVars
<1>12. Session'
  BY <1>2, <1>3, <1>7, <1>10, <1>11 DEF Session, Waiting, hostVars
<1> QED
  BY <1>12, SessionGoal

LEMMA SessionPalm == ASSUME TypeOK, GoodOK, Session, PalmReads PROVE CleanOK'
<1>1. hostAt = "wait" /\ stream[ToPalm] # <<>>
  BY HostStreams DEF PalmReads, Session, Nothing
<1>2. Only(ToPalm, Msg("request", calls, 0)) /\ Fresh /\ AtRest /\ fwdXid = hostXid /\ gone = {}
  BY <1>1, WaitingFacts
<1>3. PICK m0 \in Message : m0 = Msg("request", calls, 0) /\ Only(ToPalm, m0) /\ m0.kind = "request" /\ m0.n = calls
  BY <1>2, MessageNow
<1>4. Head(stream[ToPalm]) = m0
  BY <1>3, OnlyFacts, HostStreams
<1>5. Executes(m0)
  BY <1>3, <1>4, PalmDoes DEF Ignores, Executes
<1>6. PICK a \in Message :
         a = Msg("response", Len(executed) + 1, 0) /\ stream' = Put(Take(ToPalm), FromPalm, a)
  BY <1>5, AnswerStreams
<1>7. Only(FromPalm, a)'
  BY <1>2, <1>3, <1>6, OnlyPass, StreamFacts
<1>8. Len(executed') = Len(executed) + 1 /\ executed'[Len(executed) + 1] = calls /\ Len(executed) \in Nat
      /\ executed' \in Seq(1 .. MaxCalls)
  BY <1>3, <1>5, ExecutesFacts
<1>9. UNCHANGED <<gone, hostVars, fwdVars>>
  BY <1>5 DEF Executes
<1>10. Only(FromPalm, Msg("response", Len(executed), 0))'
  BY <1>6, <1>7, <1>8 DEF Only
<1>11. Carried' /\ AtRest' /\ fwdXid' = hostXid'
  BY <1>2, <1>8, <1>9 DEF Carried, AtRest, fwdVars, hostVars
<1>12. Session'
  BY <1>1, <1>2, <1>9, <1>10, <1>11 DEF Session, Waiting, AtWork, hostVars
<1> QED
  BY <1>12, SessionGoal

LEMMA SessionNext == ASSUME TypeOK, GoodOK, Session, [Next]_vars PROVE CleanOK'
<1>0. gone = {} /\ hostAt \in {"idle", "send", "wait"} /\ fwdAt \in {"select", "relay"}
  BY DEF Session, Waiting, AtRest, AtWork
<1>1. ~(Wakeup \/ Listen \/ HostHearsRitual \/ HostSaysRitual \/ Connect \/ FwdSaysRitual \/ FwdHearsRitual)
  BY <1>0 DEF Wakeup, Listen, HostHearsRitual, HostSaysRitual, Connect, FwdSaysRitual, FwdHearsRitual,
              Heard, Said, FwdSays
<1>2. CASE ReceiveEof \/ Timeout \/ HostCrashes \/ PalmLeaves
  BY <1>2, DoubtGoal DEF ReceiveEof, Timeout, HostCrashes, PalmLeaves
<1>3. CASE UNCHANGED vars
  <2>1. UNCHANGED <<stream, gone, hostAt, fwdAt, ready, inbuf, calls, executed, fwdXid, hostXid>>
    BY <1>3 DEF vars, hostVars, fwdVars
  <2>2. Nothing => Nothing'
    BY <2>1, SamePhase
  <2>3. Waiting => Waiting'
    BY <2>1 DEF Waiting, Only, Fresh, Carried, AtWork, AtRest
  <2>4. Session'
    BY <2>1, <2>2, <2>3 DEF Session, Fresh, AtRest
  <2> QED
    BY <2>4, SessionGoal
<1> QED
  BY <1>1, <1>2, <1>3, SessionCall, SessionSend, SessionReceive, SessionEnds, SessionSelect, SessionUp,
     SessionDown, SessionPalm DEF Next, HostStep, FwdStep

-----------------------------------------------------------------------------
(* When host has ended.                                                    *)
LEMMA OverGoal == ASSUME Over' PROVE CleanOK'
BY DEF CleanOK

LEMMA OverFacts ==
    ASSUME TypeOK, GoodOK, Over
    PROVE  /\ FromHost \in Streams \ {ToPalm} /\ FromPalm \in Streams \ {ToPalm} /\ ToPalm \in Streams \ {FromHost}
           /\ stream[FromHost] = <<>> /\ stream[FromPalm] = <<>> /\ "palm" \notin gone
           /\ \A k \in DOMAIN stream[ToPalm] : stream[ToPalm][k].kind # "request"
BY StreamFacts DEF Over

LEMMA OverSelect == ASSUME TypeOK, GoodOK, Over, Select PROVE CleanOK'
<1>1. fwdAt' = "relay" /\ UNCHANGED <<stream, hostVars, inbuf, gone>>
      /\ ready' = {e \in {"palm", "host"} : Readable(<<e, "fwd">>)}
  BY DEF Select, FwdGoes
<1>2. ~Readable(<<"palm", "fwd">>)
  BY OverFacts DEF Readable, FromPalm
<1>3. ready' \subseteq {"host"}
  BY <1>1, <1>2
<1>4. Over'
  BY <1>1, <1>3 DEF Over, hostVars
<1> QED
  BY <1>4, OverGoal

LEMMA OverDown == ASSUME TypeOK, GoodOK, Over, RelayDown PROVE CleanOK'
<1>1. PICK m \in Read(FromHost) : Relays("host", "palm", FromHost, ToPalm, m)
  BY DownRelays
<1>2. PICK m1 : Moves("palm", FromHost, ToPalm, m, m1)
  BY <1>1, OverFacts, RelaysStreams
<1>3. m.kind # "request"
  <2>1. m = inbuf \/ m = NoMessage
    BY OverFacts, ReadFacts
  <2> QED
    BY <2>1, MessageFacts DEF Over
<1>4. UNCHANGED hostVars /\ inbuf' = m /\ fwdAt' \in {"select", "relay", "done"} /\ ready' \subseteq ready
      /\ gone' \subseteq gone \union {"fwd"}
  BY <1>1 DEF Relays
<1>5. \A s \in Streams \ {ToPalm} : stream'[s] = <<>>
  <2>1. \A s \in Streams \ {FromHost, ToPalm} : stream'[s] = stream[s]
    BY <1>2 DEF Moves, Same
  <2>2. stream'[FromHost] = <<>>
    <3>1. Take(FromHost)[FromHost] = <<>>
      BY OverFacts, TakeFacts, TypedNow
    <3>2. PICK q : q = Take(FromHost)
      OBVIOUS
    <3>3. q[FromHost] = <<>> /\ Typed(q)
      BY <3>1, <3>2, TakeFacts, TypedNow, OverFacts
    <3>4. stream' = q \/ stream' = Put(q, ToPalm, m1)
      BY <1>2, <3>2 DEF Moves
    <3>5. Put(q, ToPalm, m1)[FromHost] = q[FromHost]
      BY <3>3, OverFacts DEF Put, Typed
    <3> QED
      BY <3>3, <3>4, <3>5
  <2> QED
    BY <2>1, <2>2 DEF Over
<1>6. \A k \in DOMAIN stream'[ToPalm] : stream'[ToPalm][k].kind # "request"
  BY <1>2, <1>3, OverFacts DEF Moves, Longer
<1>7. Over'
  BY <1>3, <1>4, <1>5, <1>6 DEF Over, hostVars
<1> QED
  BY <1>7, OverGoal

LEMMA OverPalm == ASSUME TypeOK, GoodOK, Over, PalmReads PROVE CleanOK'
<1>1. stream[ToPalm] # <<>> /\ Head(stream[ToPalm]).kind # "request"
  <2>1. stream[ToPalm] # <<>>
    BY HostStreams DEF PalmReads
  <2> QED
    BY <2>1, OverFacts, HeadFacts
<1>2. Ignores
  BY <1>1, PalmDoes DEF Executes
<1>3. stream' = Take(ToPalm) /\ UNCHANGED <<executed, gone, hostVars, fwdVars>>
  BY <1>2 DEF Ignores
<1>4. /\ \A s \in Streams \ {ToPalm} : stream'[s] = stream[s]
      /\ \A k \in DOMAIN stream'[ToPalm] : stream'[ToPalm][k].kind # "request"
  BY <1>3, Took, TypedNow, OverFacts DEF Same, Kept
<1>5. Over'
  BY <1>3, <1>4 DEF Over, hostVars, fwdVars
<1> QED
  BY <1>5, OverGoal

LEMMA OverNext == ASSUME TypeOK, GoodOK, Over, [Next]_vars PROVE CleanOK'
<1>0. hostAt = "gone" /\ fwdAt \in {"select", "relay", "done"} /\ "palm" \notin ready
  BY DEF Over
<1>1. ~(Wakeup \/ HostStep)
  BY <1>0 DEF Wakeup, HostStep, Listen, HostHearsRitual, HostSaysRitual, Call, Send, Receive, ReceiveEof, Timeout,
              HostEnds, HostCrashes, Heard, Said
<1>2. ~(Connect \/ FwdSaysRitual \/ FwdHearsRitual \/ RelayUp)
  BY <1>0 DEF Connect, FwdSaysRitual, FwdHearsRitual, FwdSays, RelayUp, Relay
<1>3. CASE PalmLeaves
  BY <1>3, DoubtGoal DEF PalmLeaves
<1>4. CASE UNCHANGED vars
  <2>1. Over'
    BY <1>4 DEF Over, vars, hostVars, fwdVars
  <2> QED
    BY <2>1, OverGoal
<1> QED
  BY <1>1, <1>2, <1>3, <1>4, OverSelect, OverDown, OverPalm DEF Next, FwdStep

-----------------------------------------------------------------------------
(* The ritual packets.                                                     *)
LEMMA RitualFacts ==
    ASSUME NEW q \in Seq(Message), NEW q1 \in Seq(Message)
    PROVE  /\ NoRitual(q) => FirstOnly(q)
           /\ Kept(q1, q, 1) /\ FirstOnly(q) => NoRitual(q1)
           /\ \A m : Longer(q1, q, m) /\ m.kind # "ritual" =>
                 (NoRitual(q) => NoRitual(q1)) /\ (FirstOnly(q) => FirstOnly(q1))
<1>1. NoRitual(q) => FirstOnly(q)
  BY DEF NoRitual, FirstOnly
<1>2. ASSUME Kept(q1, q, 1), FirstOnly(q) PROVE NoRitual(q1)
  <2>1. \A k \in DOMAIN q1 : k + 1 # 1
    OBVIOUS
  <2> QED
    BY <1>2, <2>1 DEF Kept, FirstOnly, NoRitual
<1>3. ASSUME NEW m, Longer(q1, q, m), m.kind # "ritual"
      PROVE  (NoRitual(q) => NoRitual(q1)) /\ (FirstOnly(q) => FirstOnly(q1))
  BY <1>3 DEF Longer, FirstOnly, NoRitual
<1> QED
  BY <1>1, <1>2, <1>3

(* What the phases say once the ritual may be over.                        *)
Later == Cut \/ Third \/ Late

LEMMA LaterGoal == ASSUME Later' \/ strayed' \/ hostAt' = "gone" PROVE PhaseOK'
BY DEF PhaseOK, Later

LEMMA LaterFacts ==
    ASSUME TypeOK, GoodOK, Later
    PROVE  /\ FirstOnly(stream[FromFwd])
           /\ \/ "fwd" \in gone /\ fwdAt \in {"done", "failed"}
              \/ /\ "fwd" \notin gone /\ fwdAt \in {"select", "relay"} /\ NoRitual(stream[FromHost])
                 /\ inbuf.kind # "ritual"
           /\ \A s \in Streams : stream[s] \in Seq(Message)
<1>1. \A s \in Streams : stream[s] \in Seq(Message)
  BY TypedNow
<1>2. FirstOnly(stream[FromFwd])
  BY <1>1, RitualFacts, HostStreams DEF Later, Cut, Third, Late
<1>3. \/ "fwd" \in gone /\ fwdAt \in {"done", "failed"}
      \/ /\ "fwd" \notin gone /\ fwdAt \in {"select", "relay"} /\ NoRitual(stream[FromHost])
         /\ inbuf.kind # "ritual"
  BY DEF Later, Cut, Third, Late, GoodOK
<1> QED
  BY <1>1, <1>2, <1>3

LEMMA LaterHostHears == ASSUME TypeOK, GoodOK, TypeOK', Later, HostHearsRitual PROVE PhaseOK'
<1>1. CASE strayed'
  BY <1>1, LaterGoal
<1>2. CASE stream' = Take(FromFwd) /\ hostAt' = Heard[hostAt]
  <2>1. hostAt \in {"hear 1", "hear 2", "hear 3"} /\ UNCHANGED <<gone, fwdVars>>
    BY DEF HostHearsRitual, HostAsBefore, Heard
  <2>2. Kept(stream'[FromFwd], stream[FromFwd], 1) /\ stream'[FromHost] = stream[FromHost]
    BY <1>2, Took, TypedNow, StreamFacts DEF Same
  <2>3. stream'[FromFwd] \in Seq(Message)
    BY HostStreams DEF TypeOK
  <2>4. NoRitual(stream'[FromFwd])
    BY <2>2, <2>3, LaterFacts, RitualFacts, HostStreams
  <2>5. CASE Cut
    <3>1. hostAt' \in {"say 2", "say 3", "idle"}
      BY <1>2, <2>1 DEF Heard
    <3>2. Cut' \/ Late'
      BY <2>1, <2>4, <2>5, <3>1 DEF Cut, Late
    <3> QED
      BY <3>2, LaterGoal DEF Later
  <2>6. CASE Third
    <3>1. hostAt' = "idle"
      BY <1>2, <2>6 DEF Heard, Third
    <3>2. Late'
      BY <2>1, <2>2, <2>4, <2>6, <3>1 DEF Third, Late, fwdVars
    <3> QED
      BY <3>2, LaterGoal DEF Later
  <2> QED
    BY <2>1, <2>5, <2>6 DEF Later, Late
<1> QED
  BY <1>1, <1>2 DEF HostHearsRitual, HostGoes

LEMMA LaterHostSays == ASSUME TypeOK, GoodOK, Later, HostSaysRitual PROVE PhaseOK'
<1>1. CASE strayed'
  BY <1>1, LaterGoal
<1>2. CASE stream' = Put(stream, FromHost, Msg("ritual", Part[hostAt], hostXid')) /\ hostAt' = Said[hostAt]
  <2>1. hostAt \in {"say 2", "say 3"} /\ UNCHANGED <<gone, fwdVars>>
    BY DEF HostSaysRitual, HostAsBefore, Said
  <2>2. Cut
    BY <2>1 DEF Later, Third, Late
  <2>3. stream' = stream
    BY <1>2, <2>2, StreamFacts DEF Put, Cut
  <2>4. hostAt' \in {"hear 2", "hear 3"}
    BY <1>2, <2>1 DEF Said
  <2>5. Cut'
    BY <2>1, <2>2, <2>3, <2>4, LaterFacts DEF Cut
  <2> QED
    BY <2>5, LaterGoal DEF Later
<1> QED
  BY <1>1, <1>2 DEF HostSaysRitual, HostGoes

(* host makes its calls.                                                   *)
LEMMA LateHost ==
    ASSUME TypeOK, GoodOK, TypeOK', Later, hostAt \in {"idle", "send", "wait"}, hostAt' \in {"idle", "send", "wait"},
           UNCHANGED <<gone, fwdVars>>,
           \/ UNCHANGED stream
           \/ stream' = Take(FromFwd)
           \/ \E m \in Message : m.kind # "ritual" /\ Writable(FromHost) /\ stream' = Put(stream, FromHost, m)
    PROVE  PhaseOK'
<1>1. Late
  BY DEF Later, Cut, Third
<1>2. /\ stream[FromFwd] \in Seq(Message) /\ stream'[FromFwd] \in Seq(Message)
      /\ stream[FromHost] \in Seq(Message) /\ stream'[FromHost] \in Seq(Message)
  BY HostStreams DEF TypeOK
<1>3. NoRitual(stream'[FromFwd]) /\ (NoRitual(stream[FromHost]) => NoRitual(stream'[FromHost]))
  <2>1. CASE UNCHANGED stream
    BY <1>1, <2>1 DEF Late
  <2>2. CASE stream' = Take(FromFwd)
    <3>1. Kept(stream'[FromFwd], stream[FromFwd], 1) /\ stream'[FromHost] = stream[FromHost]
      BY <2>2, Took, TypedNow, StreamFacts DEF Same
    <3> QED
      BY <1>1, <1>2, <3>1, RitualFacts DEF Late
  <2>3. ASSUME NEW m \in Message, m.kind # "ritual", Writable(FromHost), stream' = Put(stream, FromHost, m)
        PROVE  NoRitual(stream'[FromFwd]) /\ (NoRitual(stream[FromHost]) => NoRitual(stream'[FromHost]))
    <3>1. Longer(stream'[FromHost], stream[FromHost], m) /\ stream'[FromFwd] = stream[FromFwd]
      <4>1. FromHost \in Streams /\ FromFwd \in Streams \ {FromHost}
        BY StreamFacts
      <4>2. Typed(stream) /\ (FromHost[2] \in gone \/ Len(stream[FromHost]) < Room)
        BY <2>3, TypedNow DEF Writable
      <4>3. /\ Longer(Put(stream, FromHost, m)[FromHost], stream[FromHost], m)
            /\ Same(Put(stream, FromHost, m), stream, Streams \ {FromHost})
        BY <2>3, <4>1, <4>2, Wrote
      <4> QED
        BY <2>3, <4>1, <4>3 DEF Same
    <3> QED
      BY <1>1, <1>2, <2>3, <3>1, RitualFacts DEF Late
  <2> QED
    BY <2>1, <2>2, <2>3
<1>4. Late'
  BY <1>1, <1>3 DEF Late, fwdVars
<1> QED
  BY <1>4, LaterGoal DEF Later

LEMMA LaterCalls ==
    ASSUME TypeOK, GoodOK, TypeOK', Later, Call \/ Send \/ Receive \/ ReceiveEof \/ Timeout
    PROVE  PhaseOK'
<1>1. \A p : TryAgain(p) => hostAt' \in {"send", "idle"}
  BY DEF TryAgain, HostGoes
<1>2. CASE Call
  BY <1>2, LateHost DEF Call, HostGoes, HostAsBefore
<1>3. CASE Timeout
  BY <1>1, <1>3, LateHost DEF Timeout, HostAsBefore
<1>4. CASE Receive
  <2>1. hostAt' \in {"idle", "send"}
    BY <1>1, <1>4 DEF Receive, Return, HostGoes
  <2> QED
    BY <1>4, <2>1, LateHost DEF Receive, HostAsBefore
<1>5. CASE ReceiveEof
  BY <1>1, <1>5, LateHost DEF ReceiveEof, HostAsBefore, HostGoes
<1>6. CASE Send
  <2>1. UNCHANGED <<gone, fwdVars>> /\ hostAt = "send" /\ Writable(FromHost)
    BY <1>6 DEF Send, HostAsBefore
  <2>2. CASE UNCHANGED stream /\ TryAgain(perr)
    BY <1>1, <2>1, <2>2, LateHost
  <2>3. CASE stream' = Put(stream, FromHost, Msg("request", calls, hostXid')) /\ hostAt' = "wait"
    <3>1. PICK m : m = Msg("request", calls, hostXid')
      OBVIOUS
    <3>2. hostXid' \in Nat /\ calls \in Nat
      BY NetSyncAssumption DEF TypeOK
    <3>3. m \in Message /\ m.kind = "request"
      BY <3>1, <3>2 DEF Msg, Message
    <3> QED
      BY <2>1, <2>3, <3>1, <3>3, LateHost
  <2> QED
    BY <1>6, <2>2, <2>3 DEF Send, HostGoes
<1> QED
  BY <1>2, <1>3, <1>4, <1>5, <1>6

(* Steps of others that leave the streams between fwd and host alone.      *)
LEMMA LaterStill ==
    ASSUME Later, UNCHANGED <<hostAt, inbuf>>, gone \subseteq gone', stream'[FromFwd] = stream[FromFwd],
           stream'[FromHost] = stream[FromHost],
           fwdAt \in {"select", "relay"} => fwdAt' \in {"select", "relay"}
    PROVE  PhaseOK'
<1>1. Later'
  BY DEF Later, Cut, Third, Late
<1> QED
  BY <1>1, LaterGoal

LEMMA LaterPalm == ASSUME TypeOK, GoodOK, Later, PalmReads \/ PalmLeaves PROVE PhaseOK'
<1>1. CASE PalmLeaves
  BY <1>1, LaterStill DEF PalmLeaves, hostVars, fwdVars
<1>2. CASE Ignores
  <2>1. stream'[FromFwd] = stream[FromFwd] /\ stream'[FromHost] = stream[FromHost]
    BY <1>2, Took, TypedNow, StreamFacts DEF Ignores, Same
  <2> QED
    BY <1>2, <2>1, LaterStill DEF Ignores, hostVars, fwdVars
<1>3. ASSUME NEW m, Executes(m) PROVE PhaseOK'
  <2>1. Same(stream', stream, Streams \ {ToPalm, FromPalm})
    BY <1>3, AnswerStreams
  <2>2. stream'[FromFwd] = stream[FromFwd] /\ stream'[FromHost] = stream[FromHost]
    BY <2>1, StreamFacts DEF Same
  <2> QED
    BY <1>3, <2>2, LaterStill DEF Executes, hostVars, fwdVars
<1> QED
  BY <1>1, <1>2, <1>3, PalmDoes

(* A relayed message is no ritual packet.                                  *)
LEMMA LaterRelays ==
    ASSUME TypeOK, GoodOK, TypeOK', Later, fwdAt = "relay", UNCHANGED hostAt, inbuf'.kind # "ritual",
           fwdAt' \in {"select", "relay"} \/ "fwd" \in gone',
           NEW m, m.kind # "ritual",
           Longer(stream'[FromFwd], stream[FromFwd], m) \/ stream'[FromFwd] = stream[FromFwd],
           Kept(stream'[FromHost], stream[FromHost], 1) \/ stream'[FromHost] = stream[FromHost]
    PROVE  PhaseOK'
<1>1. /\ stream[FromFwd] \in Seq(Message) /\ stream'[FromFwd] \in Seq(Message)
      /\ stream[FromHost] \in Seq(Message) /\ stream'[FromHost] \in Seq(Message)
  BY HostStreams DEF TypeOK
<1>2. NoRitual(stream[FromHost]) /\ "fwd" \notin gone
  BY LaterFacts
<1>3. NoRitual(stream'[FromHost])
  BY <1>1, <1>2, RitualFacts
<1>4. /\ NoRitual(stream[FromFwd]) => NoRitual(stream'[FromFwd])
      /\ FirstOnly(stream[FromFwd]) => FirstOnly(stream'[FromFwd])
  BY <1>1, RitualFacts
<1>5. Later'
  BY <1>2, <1>3, <1>4 DEF Later, Cut, Third, Late
<1> QED
  BY <1>5, LaterGoal

LEMMA LaterFwd ==
    ASSUME TypeOK, GoodOK, TypeOK', Later, Select \/ RelayUp \/ RelayDown
    PROVE  PhaseOK'
<1>1. CASE Select
  BY <1>1, LaterStill DEF Select, FwdGoes, hostVars
<1>2. CASE RelayUp
  <2>1. PICK m \in Read(FromPalm) : Relays("palm", "host", FromPalm, FromFwd, m)
    BY <1>2, UpRelays
  <2>2. FromPalm \in Streams /\ FromFwd \in Streams \ {FromPalm}
    BY StreamFacts
  <2>3. PICK m1 : Moves("host", FromPalm, FromFwd, m, m1)
    BY <2>1, <2>2, RelaysStreams
  <2>4. fwdAt = "relay" /\ inbuf' = m /\ UNCHANGED hostAt /\ inbuf.kind # "ritual"
    BY <2>1, LaterFacts DEF Relays, hostVars
  <2>5. m.kind # "ritual"
    BY <2>2, <2>4, ReadFacts, MessageFacts DEF GoodOK
  <2>6. stream'[FromHost] = stream[FromHost]
    BY <2>3, StreamFacts DEF Moves, Same
  <2>7. fwdAt' \in {"select", "relay"} \/ "fwd" \in gone'
    BY <2>3 DEF Moves
  <2>8. m1.kind # "ritual" /\ (Longer(stream'[FromFwd], stream[FromFwd], m1) \/ stream'[FromFwd] = stream[FromFwd])
    BY <2>3, <2>5 DEF Moves
  <2> QED
    BY <2>4, <2>5, <2>6, <2>7, <2>8, LaterRelays
<1>3. CASE RelayDown
  <2>1. PICK m \in Read(FromHost) : Relays("host", "palm", FromHost, ToPalm, m)
    BY <1>3, DownRelays
  <2>2. FromHost \in Streams /\ ToPalm \in Streams \ {FromHost}
    BY StreamFacts
  <2>3. PICK m1 : Moves("palm", FromHost, ToPalm, m, m1)
    BY <2>1, <2>2, RelaysStreams
  <2>4. fwdAt = "relay" /\ inbuf' = m /\ UNCHANGED hostAt /\ inbuf.kind # "ritual" /\ NoRitual(stream[FromHost])
    BY <2>1, LaterFacts DEF Relays, hostVars
  <2>5. m.kind # "ritual"
    BY <2>2, <2>4, ReadFacts, MessageFacts DEF NoRitual
  <2>6. stream'[FromFwd] = stream[FromFwd] /\ Kept(stream'[FromHost], stream[FromHost], 1)
    BY <2>3, StreamFacts DEF Moves, Same
  <2>7. fwdAt' \in {"select", "relay"} \/ "fwd" \in gone'
    BY <2>3 DEF Moves
  <2> QED
    BY <2>4, <2>5, <2>6, <2>7, LaterRelays
<1> QED
  BY <1>1, <1>2, <1>3

LEMMA LaterNext ==
    ASSUME TypeOK, GoodOK, TypeOK', Later, [Next]_vars
    PROVE  PhaseOK'
<1>1. fwdAt \in {"done", "failed", "select", "relay"} /\ hostAt \notin {"wakeup", "listen", "accept"}
  BY LaterFacts DEF Later, Cut, Third, Late
<1>2. ~(Wakeup \/ Listen \/ Connect \/ FwdSaysRitual \/ FwdHearsRitual)
  BY <1>1 DEF Wakeup, Listen, Connect, FwdSaysRitual, FwdHearsRitual, FwdSays
<1>3. CASE HostEnds \/ HostCrashes
  BY <1>3, LaterGoal DEF HostEnds, HostCrashes, HostCloses, HostGoes
<1>4. CASE UNCHANGED vars
  BY <1>4, LaterStill DEF vars, hostVars, fwdVars
<1> QED
  BY <1>2, <1>3, <1>4, LaterHostHears, LaterHostSays, LaterCalls, LaterFwd, LaterPalm DEF Next, HostStep, FwdStep

-----------------------------------------------------------------------------
(* The invariant.                                                          *)
LEMMA Onward ==
    ASSUME [Next]_vars
    PROVE  /\ strayed => strayed'
           /\ doubt => doubt'
           /\ hostAt = "gone" => hostAt' = "gone"
<1>1. strayed' = strayed \/ strayed' = TRUE
  <2>1. CASE Wakeup \/ HostStep
    BY <2>1 DEF Wakeup, HostStep, Listen, HostHearsRitual, HostSaysRitual, Call, Send, Receive, ReceiveEof, Timeout,
                HostEnds, HostCrashes
  <2>2. CASE FwdStep
    BY <2>2 DEF FwdStep, Connect, FwdSaysRitual, FwdHearsRitual, Select, RelayUp, RelayDown, Relay, hostVars
  <2>3. CASE PalmReads \/ PalmLeaves
    BY <2>3 DEF PalmReads, PalmLeaves, hostVars
  <2> QED
    BY <2>1, <2>2, <2>3 DEF Next, vars, hostVars
<1>2. doubt' = doubt \/ doubt' = TRUE
  <2>1. CASE Wakeup \/ HostStep
    BY <2>1 DEF Wakeup, HostStep, Listen, HostHearsRitual, HostSaysRitual, Call, Send, Receive, ReceiveEof, Timeout,
                HostEnds, HostCrashes, NoFault
  <2>2. CASE FwdStep
    BY <2>2 DEF FwdStep, Connect, FwdSaysRitual, FwdHearsRitual, Select, RelayUp, RelayDown, Relay, NoFault
  <2>3. CASE PalmReads \/ PalmLeaves
    BY <2>3 DEF PalmReads, PalmLeaves, NoFault
  <2> QED
    BY <2>1, <2>2, <2>3 DEF Next, vars
<1>3. hostAt = "gone" => hostAt' = "gone"
  <2>1. CASE Wakeup \/ HostStep
    BY <2>1 DEF Wakeup, HostStep, Listen, HostHearsRitual, HostSaysRitual, Call, Send, Receive, ReceiveEof, Timeout,
                HostEnds, HostCrashes, Heard, Said
  <2>2. CASE FwdStep
    BY <2>2 DEF FwdStep, Connect, FwdSaysRitual, FwdHearsRitual, Select, RelayUp, RelayDown, Relay, hostVars
  <2>3. CASE PalmReads \/ PalmLeaves
    BY <2>3 DEF PalmReads, PalmLeaves, hostVars
  <2> QED
    BY <2>1, <2>2, <2>3 DEF Next, vars, hostVars
<1>4. strayed => strayed'
  BY <1>1, Zenon
<1>5. doubt => doubt'
  BY <1>2, Zenon
<1> QED
  BY <1>3, <1>4, <1>5

LEMMA InvariantInit == Init => IInv
<1> SUFFICES ASSUME Init PROVE IInv
  OBVIOUS
<1>1. TypeOK
  <2>1. stream \in [Streams -> Seq(Message)] /\ \A s \in Streams : Len(stream[s]) <= Room
    BY NetSyncAssumption DEF Init
  <2>2. inbuf \in Message /\ fwdXid \in Nat /\ hostXid \in 1 .. XidTop /\ attempts \in 0 .. Retries
        /\ tries \in 0 .. MaxTries
    BY NetSyncAssumption, MessageFacts DEF Init
  <2>3. calls \in 0 .. MaxCalls /\ executed \in Seq(1 .. MaxCalls) /\ answer \in -1 .. Len(executed)
        /\ sent \in [1 .. MaxCalls -> Nat] /\ faults \in 0 .. MaxFaults
    BY NetSyncAssumption DEF Init
  <2>4. gone \subseteq Ends /\ fwdAt \in WhereFwd /\ ready \subseteq {"palm", "host"} /\ hostAt \in WhereHost
        /\ perr \in {"noerr", "timeout2", "badid"} /\ strayed \in BOOLEAN /\ doubt \in BOOLEAN
    BY DEF Init, WhereFwd, WhereHost
  <2> QED
    BY <2>1, <2>2, <2>3, <2>4 DEF TypeOK
<1>2. \A s \in Streams : stream[s] = <<>>
  BY DEF Init
<1>3. GoodOK
  BY <1>2, MessageFacts, HostStreams DEF Init, GoodOK, Good
<1>4. OrderOK
  BY <1>2, MessageFacts, HostStreams DEF Init, OrderOK, Ordered, Past
<1>5. Early
  BY <1>2 DEF Init, Early, Before, Pristine, Nothing
<1> QED
  BY <1>1, <1>3, <1>4, <1>5 DEF IInv, CleanOK, PhaseOK, Early

LEMMA InvariantNext == IInv /\ [Next]_vars => IInv'
<1> SUFFICES ASSUME IInv, [Next]_vars PROVE IInv'
  OBVIOUS
<1>1. TypeOK /\ GoodOK /\ OrderOK /\ CleanOK /\ PhaseOK
  BY DEF IInv
<1>2. TypeOK' /\ GoodOK'
  BY <1>1, TypesNext
<1>3. OrderOK'
  BY <1>1, <1>2, OrderNext
<1>4. CleanOK'
  <2>1. CASE doubt' \/ strayed'
    BY <2>1, DoubtGoal
  <2>2. CASE ~doubt' /\ ~strayed'
    <3>1. Early \/ Session \/ Over
      BY <1>1, <2>2, Onward, Goals
    <3> QED
      BY <1>1, <3>1, EarlyNext, SessionNext, OverNext
  <2> QED
    BY <2>1, <2>2
<1>5. PhaseOK'
  <2>1. CASE strayed' \/ hostAt' = "gone"
    BY <2>1, LaterGoal
  <2>2. CASE ~strayed' /\ hostAt' # "gone"
    <3>1. Early \/ Later
      BY <1>1, <2>2, Onward, Goals DEF Later
    <3> QED
      BY <1>1, <1>2, <3>1, EarlyNext, LaterNext
  <2> QED
    BY <2>1, <2>2
<1> QED
  BY <1>2, <1>3, <1>4, <1>5 DEF IInv

(* The phases of a forwarded sync, and what is on its way in each.         *)
THEOREM NetSyncInvariant == Spec => []IInv
<1> QED
  BY InvariantInit, InvariantNext, PTL DEF Spec

(* Every variable keeps its type: no stream holds more than it has room    *)
(* for, and the answer that host has is to an execution that there was.    *)
THEOREM TypeCorrect == Spec => []TypeOK
<1>1. IInv => TypeOK
  BY DEF IInv
<1> QED
  BY <1>1, NetSyncInvariant, PTL

(* fwd relays each response under the transaction ID of the request that   *)
(* host waits for, although it does not know which answers which.          *)
LEMMA AnsweredNow == IInv => AnsweredUnderItsXid
<1> SUFFICES ASSUME IInv, ~doubt, ~strayed, NEW k \in DOMAIN stream[FromFwd], stream[FromFwd][k].kind = "response"
             PROVE  stream[FromFwd][k].xid = hostXid
  BY DEF AnsweredUnderItsXid
<1>1. TypeOK /\ GoodOK /\ (Early \/ Session \/ Over)
  BY Goals DEF IInv
<1>2. stream[FromFwd] # <<>>
  OBVIOUS
<1>3. ~Early
  <2>1. Good(stream[FromFwd][k])
    BY <1>1, HostStreams DEF GoodOK
  <2> QED
    BY <2>1 DEF Early, Pristine, Good
<1>4. ~Over
  BY <1>2, StreamFacts DEF Over
<1>5. hostAt = "wait"
  BY <1>1, <1>2, <1>3, <1>4, HostStreams DEF Session, Nothing
<1>6. Only(FromFwd, Msg("response", Len(executed), hostXid))
  BY <1>1, <1>2, <1>3, <1>4, <1>5, WaitingFacts
<1>7. PICK m : m = Msg("response", Len(executed), hostXid)
  OBVIOUS
<1>8. stream[FromFwd] = <<m>> /\ m.xid = hostXid
  BY <1>1, <1>6, <1>7, MessageNow DEF Only
<1> QED
  BY <1>8

THEOREM AnsweredUnderXid == Spec => []AnsweredUnderItsXid
<1> QED
  BY AnsweredNow, NetSyncInvariant, PTL

-----------------------------------------------------------------------------
(* The calls of host are remote calls as module Rpc has them.              *)
Pending == hostAt \in {"send", "wait"}

LEMMA RpcQuiet ==
    ASSUME TypeOK, TypeOK', UNCHANGED <<calls, executed, answer>>, doubt => doubt', Pending' => Pending
    PROVE  R!Next \/ UNCHANGED R!vars
<1>1. doubt \in BOOLEAN /\ doubt' \in BOOLEAN
  BY DEF TypeOK
<1>2. doubt' \in {doubt, TRUE}
  BY <1>1
<1>3. CASE Pending /\ ~Pending'
  <2>1. R!Fail
    BY <1>3 DEF R!Fail, Pending
  <2> QED
    BY <1>2, <2>1 DEF R!Next
<1>4. CASE Pending' = Pending /\ ~doubt /\ doubt'
  <2>1. R!LoseTrack
    BY <1>4 DEF R!LoseTrack, Pending
  <2> QED
    BY <1>2, <2>1 DEF R!Next
<1>5. CASE Pending' = Pending /\ doubt' = doubt
  BY <1>5 DEF R!vars, Pending
<1>6. Pending \in BOOLEAN /\ Pending' \in BOOLEAN
  BY DEF Pending
<1> QED
  BY <1>1, <1>3, <1>4, <1>5, <1>6

LEMMA RpcCall == ASSUME TypeOK, Call PROVE R!Next
<1>1. hostAt = "idle" /\ hostAt' = "send" /\ calls' = calls + 1 /\ UNCHANGED <<executed, answer, doubt>>
  BY DEF Call, HostGoes, HostAsBefore, NoFault
<1>2. R!Call
  BY <1>1 DEF R!Call
<1>3. doubt' \in {doubt, TRUE}
  BY <1>1
<1> QED
  BY <1>2, <1>3 DEF R!Next

(* The Palm executes what is no earlier than what it has executed; while   *)
(* all is well, the call that host waits for, for the first time.          *)
LEMMA RpcExecute == ASSUME IInv, NEW m, Executes(m) PROVE R!Next \/ strayed
<1> SUFFICES ASSUME ~strayed PROVE R!Next
  OBVIOUS
<1>0. TypeOK /\ GoodOK /\ OrderOK /\ CleanOK
  BY DEF IInv
<1>1. stream[ToPalm] # <<>> /\ m = Head(stream[ToPalm]) /\ m.kind = "request"
      /\ executed' = Append(executed, m.n) /\ UNCHANGED <<doubt, hostVars>>
  BY DEF Executes
<1>2. m.n \in 1 .. calls
  BY <1>0, ExecutesFacts
<1>3. 1 \in DOMAIN stream[ToPalm] /\ m = stream[ToPalm][1]
  BY <1>0, <1>1, HeadFacts, HostStreams
<1>4. \A i \in DOMAIN executed : executed[i] <= m.n
  BY <1>0, <1>1, <1>3 DEF OrderOK, Past
<1>5. doubt \/ R!OnTime(m.n)
  <2> SUFFICES ASSUME ~doubt PROVE R!OnTime(m.n)
    OBVIOUS
  <2>1. ~Early
    BY <1>1, EarlyStreams
  <2>2. ~Over
    BY <1>1, <1>3 DEF Over
  <2>3. Session
    BY <1>0, <2>1, <2>2, Goals
  <2>4. hostAt = "wait"
    BY <1>1, <2>3, HostStreams DEF Session, Nothing
  <2>5. Only(ToPalm, Msg("request", calls, 0)) /\ Fresh
    BY <1>0, <1>1, <2>3, <2>4, WaitingFacts
  <2>6. m.n = calls
    BY <1>0, <1>1, <2>5, MessageNow, OnlyFacts, HostStreams
  <2>7. \A i \in DOMAIN executed : executed[i] # m.n
    <3>1. calls \in Nat
      BY <1>0, NetSyncAssumption DEF TypeOK
    <3> QED
      BY <2>5, <2>6, <3>1 DEF Fresh
  <2> QED
    BY <2>4, <2>6, <2>7 DEF R!OnTime
<1>6. R!Execute
  BY <1>1, <1>2, <1>4, <1>5 DEF R!Execute, hostVars
<1>7. doubt' \in {doubt, TRUE}
  BY <1>1
<1> QED
  BY <1>6, <1>7 DEF R!Next

(* What host takes for the answer is one, and to this call while all is    *)
(* well.                                                                   *)
LEMMA RpcReceive == ASSUME IInv, TypeOK', Receive PROVE R!Next \/ UNCHANGED R!vars \/ strayed
<1> SUFFICES ASSUME ~strayed PROVE R!Next \/ UNCHANGED R!vars
  OBVIOUS
<1>0. TypeOK /\ GoodOK /\ CleanOK /\ PhaseOK
  BY DEF IInv
<1>1. hostAt = "wait" /\ HasMessage(FromFwd) /\ UNCHANGED <<calls, executed, doubt>> /\ stream[FromFwd] # <<>>
  BY DEF Receive, HostAsBefore, NoFault, HasMessage
<1>2. PICK m \in Message : /\ m = Head(stream[FromFwd]) /\ m = stream[FromFwd][1] /\ 1 \in DOMAIN stream[FromFwd]
                           /\ Good(m)
  BY <1>0, <1>1, HeadFacts, HostStreams DEF GoodOK
<1>3. CASE ~Answers(m)
  <2>1. UNCHANGED answer /\ hostAt' \in {"send", "idle"}
    BY <1>2, <1>3 DEF Receive, TryAgain, HostGoes
  <2> QED
    BY <1>0, <1>1, <2>1, RpcQuiet DEF Pending
<1>4. CASE Answers(m)
  <2>1. m.kind = "response"
    <3>1. Late
      BY <1>0, <1>1, EarlyStreams, Goals DEF Cut, Third
    <3>2. m.kind # "ritual"
      BY <1>2, <3>1 DEF Late, NoRitual
    <3> QED
      BY <1>4, <3>2 DEF Answers
  <2>2. hostAt' = "idle" /\ answer' = m.n
    BY <1>2, <1>4, <2>1 DEF Receive, Return, HostGoes
  <2>3. m.n \in DOMAIN executed
    <3>1. executed \in Seq(1 .. MaxCalls) /\ m.n \in 1 .. Len(executed)
      BY <1>0, <1>2, <2>1 DEF TypeOK, Good
    <3> QED
      BY <3>1
  <2>4. doubt \/ executed[m.n] = calls
    <3> SUFFICES ASSUME ~doubt PROVE executed[m.n] = calls
      OBVIOUS
    <3>1. Session
      BY <1>0, <1>1, EarlyStreams, Goals DEF Over
    <3>2. Only(FromFwd, Msg("response", Len(executed), hostXid)) /\ Carried
      BY <1>0, <1>1, <3>1, WaitingFacts
    <3>3. m.n = Len(executed)
      BY <1>0, <1>2, <3>2, MessageNow, OnlyFacts, HostStreams
    <3> QED
      BY <3>2, <3>3 DEF Carried
  <2>5. R!Return
    BY <1>1, <2>2, <2>3, <2>4 DEF R!Return
  <2>6. doubt' \in {doubt, TRUE}
    BY <1>1
  <2> QED
    BY <2>5, <2>6 DEF R!Next
<1> QED
  BY <1>3, <1>4

LEMMA RpcHost ==
    ASSUME TypeOK, TypeOK', Wakeup \/ Listen \/ HostHearsRitual \/ HostSaysRitual \/ Send \/ ReceiveEof \/ Timeout
                            \/ HostEnds \/ HostCrashes
    PROVE  R!Next \/ UNCHANGED R!vars
<1>1. UNCHANGED <<calls, executed, answer>>
  <2>1. UNCHANGED executed
    BY DEF Wakeup, Listen, HostHearsRitual, HostSaysRitual, Send, ReceiveEof, Timeout, HostEnds, HostCrashes, HostAsBefore
  <2>2. UNCHANGED <<calls, answer>>
    BY DEF Wakeup, Listen, HostHearsRitual, HostSaysRitual, Send, ReceiveEof, Timeout, HostEnds, HostCrashes
  <2> QED
    BY <2>1, <2>2
<1>2. doubt => doubt'
  BY Onward DEF Next, HostStep
<1>3. Pending' => Pending
  <2>1. CASE Wakeup \/ Listen \/ HostEnds \/ HostCrashes
    BY <2>1 DEF Wakeup, Listen, HostEnds, HostCrashes, HostCloses, HostGoes, Pending
  <2>2. CASE HostHearsRitual \/ HostSaysRitual
    BY <2>2 DEF HostHearsRitual, HostSaysRitual, HostGoes, Heard, Said, Pending
  <2>3. CASE Send \/ ReceiveEof \/ Timeout
    BY <2>3 DEF Send, ReceiveEof, Timeout, Pending
  <2> QED
    BY <2>1, <2>2, <2>3
<1> QED
  BY <1>1, <1>2, <1>3, RpcQuiet

LEMMA RpcFwd ==
    ASSUME TypeOK, TypeOK', FwdStep \/ Ignores \/ PalmLeaves
    PROVE  R!Next \/ UNCHANGED R!vars
<1>1. UNCHANGED <<calls, executed, answer>> /\ (Pending' => Pending)
  <2>1. CASE Connect
    BY <2>1 DEF Connect, HostGoes, Pending
  <2>2. CASE FwdSaysRitual \/ FwdHearsRitual \/ Select \/ RelayUp \/ RelayDown \/ Ignores \/ PalmLeaves
    BY <2>2 DEF FwdSaysRitual, FwdHearsRitual, Select, RelayUp, RelayDown, Relay, Ignores, PalmLeaves, hostVars, Pending
  <2> QED
    BY <2>1, <2>2 DEF FwdStep
<1>2. doubt => doubt'
  BY Onward DEF Next, Ignores
<1> QED
  BY <1>1, <1>2, RpcQuiet

LEMMA RpcNext == ASSUME IInv, [Next]_vars PROVE R!Next \/ UNCHANGED R!vars \/ strayed'
<1>1. TypeOK /\ TypeOK'
  BY InvariantNext DEF IInv
<1>2. strayed => strayed'
  BY Onward
<1>3. CASE UNCHANGED vars
  BY <1>3 DEF vars, hostVars, R!vars
<1>4. CASE PalmReads
  <2>1. CASE Ignores
    BY <1>1, <2>1, RpcFwd
  <2>2. ASSUME NEW m, Executes(m) PROVE R!Next \/ strayed
    BY <2>2, RpcExecute
  <2> QED
    BY <1>2, <1>4, <2>1, <2>2, PalmDoes
<1> QED
  BY <1>1, <1>2, <1>3, <1>4, RpcCall, RpcReceive, RpcHost, RpcFwd DEF Next, HostStep

(* As long as host has had its ritual, what it and the Palm do through fwd *)
(* is what module Rpc promises of remote calls: each is executed once and  *)
(* in order and answered by its own execution until a timer expires or     *)
(* somebody goes, and never after a later one, whatever happens.           *)
THEOREM RpcThroughForwarder == Spec => RpcUnlessStrayed
<1>1. Init => R!Init
  <2>1. ASSUME Init PROVE R!Init
    BY <2>1 DEF Init, R!Init
  <2> QED
    BY <2>1
<1>2. IInv /\ [Next]_vars => [R!Next \/ strayed']_(R!vars)
  BY RpcNext
<1> QED
  BY <1>1, <1>2, NetSyncInvariant, PTL DEF Spec, RpcUnlessStrayed
=============================================================================
