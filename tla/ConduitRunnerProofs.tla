------------------------- MODULE ConduitRunnerProofs -------------------------
(***************************************************************************)
(* What holds of the conduit runner for every configuration, any number of *)
(* conduits, headers, status lines and requests, and whatever fails.       *)
(***************************************************************************)
EXTENDS ConduitRunner, TLAPS

USE RunnerAssumption

NotForked == {"signal", "setjmp", "spawn"}
Sending   == NotForked \cup {"headers", "poll", "polled", "write"}

(* Where run_conduit is, and which activation and child that is about.     *)
Control ==
    /\ pc # "queue" => frame \in Frames
    /\ pc \in Sending => left > 0
    /\ \A k \in Frames : k > frame => kid[k] = "none"
    /\ pc \in NotForked => kid[frame] = "none"
    /\ pc \notin {"queue", "signal", "setjmp"} => jump = frame
    /\ pid # 0 => kid[pid] # "reaped"
    /\ KillsNoReaped

(* The lines of the child that have been taken from the pipe and stdio.    *)
Taken  == printed - Len(pipe) - Len(buf)
InHand == pc \in {"polled", "assign", "drained"} /\ line # EOF

(* What is in the pipe and in stdio are the lines not taken yet, in order. *)
InOrder ==
    /\ Taken >= 0
    /\ \A i \in DOMAIN pipe : pipe[i] = printed - Len(pipe) + i
    /\ \A i \in DOMAIN buf : buf[i] = Taken + i

(* The status of the last line taken has been stored, but for the line in  *)
(* hand, and for one that the handler, which jumps once, has jumped over.  *)
Stored ==
    /\ IF InHand THEN line = Taken /\ line > 0 /\ last + 2 >= Taken /\ (canjump => last + 1 = Taken)
                 ELSE last + 1 >= Taken /\ (canjump => last = Taken)
    /\ pc \in NotForked => printed = 0 /\ last = 0 /\ Len(pipe) = 0 /\ Len(buf) = 0
    /\ pc \in {"polled", "assign", "drained"} /\ line = EOF =>
          Len(pipe) = 0 /\ Len(buf) = 0 /\ Closed(frame)
    /\ pc \in {"restore", "close"} /\ kid[frame] = "reaped" => Len(pipe) = 0 /\ Len(buf) = 0

Inv == TypeOK /\ Control /\ InOrder /\ Stored

(* The empty sequence is one of every kind.                                *)
LEMMA EmptySeq ==
    /\ <<>> \in Seq(Nat) /\ <<>> \in Seq(Item) /\ <<>> \in Seq(Seq(Item))
    /\ Len(<<>>) = 0 /\ DOMAIN <<>> = {}
OBVIOUS

(* What the operations on sequences return.                                *)
LEMMA FirstAndRest ==
    ASSUME NEW S, NEW s \in Seq(S), s # <<>> PROVE Head(s) \in S /\ Tail(s) \in Seq(S)
OBVIOUS

(* Appending an element.                                                   *)
LEMMA OneMore == ASSUME NEW S, NEW s \in Seq(S), NEW e \in S PROVE Append(s, e) \in Seq(S)
OBVIOUS

(* A buffer filled with one value.                                         *)
LEMMA Repeated == ASSUME NEW S, NEW n \in Nat, NEW e \in S PROVE [i \in 1 .. n |-> e] \in Seq(S)
OBVIOUS

(* Reading a line takes the next one, or finds that there is none.         *)
LEMMA ReadLineTakesNext ==
    ASSUME LinesOK, InOrder, ReadLine, UNCHANGED printed
    PROVE  /\ LinesOK' /\ InOrder'
           /\ line' # EOF => line' = Taken' /\ line' > 0 /\ Taken' = Taken + 1
           /\ line' = EOF => Taken' = Taken /\ Len(pipe') = 0 /\ Len(buf') = 0 /\ Closed(frame)
<1>1. /\ pipe \in Seq(Nat) /\ buf \in Seq(Nat) /\ printed \in Nat /\ printed' = printed
      /\ left' \in Nat /\ last' \in Nat /\ Taken >= 0 /\ Taken \in Int
  BY DEF LinesOK, InOrder, ReadLine, Taken
<1>2. /\ \A i \in DOMAIN pipe : pipe[i] = printed - Len(pipe) + i
      /\ \A i \in DOMAIN buf : buf[i] = Taken + i
  BY DEF InOrder
<1>3. CASE buf # <<>>
  <2>1. line' = buf[1] /\ buf' = Tail(buf) /\ pipe' = pipe
    BY <1>3 DEF ReadLine
  <2>2. /\ Tail(buf) \in Seq(Nat) /\ Len(Tail(buf)) = Len(buf) - 1 /\ 1 \in DOMAIN buf
        /\ \A i \in DOMAIN Tail(buf) : i \in Nat /\ Tail(buf)[i] = buf[i + 1] /\ i + 1 \in DOMAIN
                  buf
    BY <1>1, <1>3
  <2>3. Len(buf') = Len(buf) - 1 /\ Len(pipe') = Len(pipe) /\ Len(buf) \in Nat /\ Len(pipe) \in Nat
    BY <1>1, <2>1, <2>2
  <2>4. Taken' = Taken + 1 /\ Taken' >= 0 /\ Taken' > 0
    BY <1>1, <2>3 DEF Taken
  <2>5. line' = Taken + 1
    BY <1>2, <2>1, <2>2
  <2>6. line' = Taken' /\ line' \in Nat /\ line' > 0 /\ line' # EOF
    BY <1>1, <2>4, <2>5 DEF EOF
  <2>7. \A i \in DOMAIN Tail(buf) : Tail(buf)[i] = Taken + (i + 1)
    BY <1>2, <2>2
  <2>8. \A i \in DOMAIN buf' : buf'[i] = Taken' + i
    BY <1>1, <2>1, <2>2, <2>4, <2>7
  <2>9. \A i \in DOMAIN pipe' : pipe'[i] = printed' - Len(pipe') + i
    BY <1>1, <1>2, <2>1
  <2>10. InOrder'
    BY <2>4, <2>8, <2>9 DEF InOrder
  <2>11. LinesOK'
    BY <1>1, <2>1, <2>2, <2>6 DEF LinesOK
  <2> QED
    BY <2>4, <2>6, <2>10, <2>11
<1>4. CASE buf = <<>> /\ pipe # <<>>
  <2>1. line' = pipe[1] /\ buf' = Tail(pipe) /\ pipe' = <<>>
    BY <1>4 DEF ReadLine
  <2>2. /\ Tail(pipe) \in Seq(Nat) /\ Len(Tail(pipe)) = Len(pipe) - 1 /\ 1 \in DOMAIN pipe
        /\ \A i \in DOMAIN Tail(pipe) :
              i \in Nat /\ Tail(pipe)[i] = pipe[i + 1] /\ i + 1 \in DOMAIN pipe
    BY <1>1, <1>4
  <2>3. Len(buf) = 0 /\ Len(pipe') = 0 /\ DOMAIN pipe' = {} /\ pipe' \in Seq(Nat)
    BY <1>4, <2>1, EmptySeq
  <2>4. Len(buf') = Len(pipe) - 1 /\ Len(pipe) \in Nat
    BY <1>1, <2>1, <2>2
  <2>5. Taken = printed - Len(pipe) /\ Taken' = Taken + 1 /\ Taken' >= 0 /\ Taken' > 0
    BY <1>1, <2>3, <2>4 DEF Taken
  <2>6. line' = Taken + 1
    BY <1>2, <2>1, <2>2, <2>5
  <2>7. line' = Taken' /\ line' \in Nat /\ line' > 0 /\ line' # EOF
    BY <1>1, <2>5, <2>6 DEF EOF
  <2>8. \A i \in DOMAIN Tail(pipe) : Tail(pipe)[i] = Taken + (i + 1)
    BY <1>2, <2>2, <2>5
  <2>9. \A i \in DOMAIN buf' : buf'[i] = Taken' + i
    BY <1>1, <2>1, <2>2, <2>5, <2>8
  <2>10. \A i \in DOMAIN pipe' : pipe'[i] = printed' - Len(pipe') + i
    BY <2>3
  <2>11. InOrder'
    BY <2>5, <2>9, <2>10 DEF InOrder
  <2>12. LinesOK'
    BY <1>1, <2>1, <2>2, <2>3, <2>7 DEF LinesOK
  <2> QED
    BY <2>5, <2>7, <2>11, <2>12
<1>5. CASE buf = <<>> /\ pipe = <<>>
  <2>1. line' = EOF /\ buf' = <<>> /\ pipe' = <<>> /\ Closed(frame)
    BY <1>5 DEF ReadLine, Readable
  <2>2. /\ Len(pipe) = 0 /\ Len(buf) = 0 /\ Len(pipe') = 0 /\ Len(buf') = 0
        /\ DOMAIN pipe' = {} /\ DOMAIN buf' = {} /\ pipe' \in Seq(Nat) /\ buf' \in Seq(Nat)
    BY <1>5, <2>1, EmptySeq
  <2>3. Taken' = Taken
    BY <1>1, <2>2 DEF Taken
  <2>4. InOrder'
    BY <1>1, <2>2, <2>3 DEF InOrder
  <2>5. LinesOK'
    BY <1>1, <2>1, <2>2 DEF LinesOK
  <2> QED
    BY <2>1, <2>2, <2>3, <2>4, <2>5
<1> QED
  BY <1>3, <1>4, <1>5

(* The walk over the configuration concerns no child.                      *)
LEMMA QueueStepInv == ASSUME Inv, QueueStep PROVE Inv'
<1> USE DEF Inv, QueueStep, At, Up, Goto, runVars, PassOver, Remember, Choose, ChooseDefault,
        queueVars, sigVars, lineVars, spcVars, askVars, endVars
<1>1. ProcessesOK'
  BY DEF TypeOK, ProcessesOK, Control, Places, KidStates, Frames
<1>2. LinesOK'
  BY DEF TypeOK, LinesOK, EOF
<1>3. RequestsOK'
  BY DEF TypeOK, RequestsOK, SpcStates
<1>4. Control'
  BY DEF TypeOK, ProcessesOK, LinesOK, Control, KillsNoReaped, Sending, NotForked, KidStates, Frames
<1>5. InOrder'
  BY DEF TypeOK, LinesOK, InOrder, Taken
<1>6. Stored'
  BY DEF TypeOK, ProcessesOK, LinesOK, Control, InOrder, Stored, Taken, InHand, Closed, NotForked,
       EOF, KidStates, Frames
<1> QED
  BY <1>1, <1>2, <1>3, <1>4, <1>5, <1>6 DEF TypeOK

(* Nor does a conduit that is no program.                                  *)
LEMMA RunInsideInv == ASSUME Inv, RunInside PROVE Inv'
<1> USE DEF Inv, RunInside, At, Up, Goto, runVars, Returned, queueVars, sigVars, lineVars, spcVars,
        askVars, endVars
<1>1. ProcessesOK'
  BY DEF TypeOK, ProcessesOK, Control, Places, KidStates, Frames
<1>2. LinesOK'
  BY DEF TypeOK, LinesOK, EOF
<1>3. RequestsOK'
  BY DEF TypeOK, RequestsOK, SpcStates
<1>4. Control'
  BY DEF TypeOK, ProcessesOK, LinesOK, Control, KillsNoReaped, Sending, NotForked, KidStates, Frames
<1>5. InOrder'
  BY DEF TypeOK, LinesOK, InOrder, Taken
<1>6. Stored'
  BY DEF TypeOK, ProcessesOK, LinesOK, Control, InOrder, Stored, Taken, InHand, Closed, NotForked,
       EOF, KidStates, Frames
<1> QED
  BY <1>1, <1>2, <1>3, <1>4, <1>5, <1>6 DEF TypeOK

(* An activation begins with a child that does not exist and no lines.     *)
LEMMA EnterInv == ASSUME Inv, Enter PROVE Inv'
<1>1. /\ frame' = frame + 1 /\ frame < MaxFrames /\ pc' = "signal"
      /\ UNCHANGED <<sigVars, sig, pid, kid, files, endVars>>
  BY DEF Enter, Goto
<1>2. /\ buf' = <<>> /\ pipe' = <<>> /\ sock' = <<>> /\ unsent' = <<>> /\ inbuf' = <<>>
      /\ executed' = <<>>
  BY DEF Enter
<1>3. /\ buf' \in Seq(Nat) /\ pipe' \in Seq(Nat) /\ sock' \in Seq(Item) /\ unsent' \in Seq(Item)
      /\ inbuf' \in Seq(Item) /\ executed' \in Seq(Seq(Item))
      /\ Len(pipe') = 0 /\ Len(buf') = 0 /\ DOMAIN pipe' = {} /\ DOMAIN buf' = {}
  BY <1>2, EmptySeq
<1>4. /\ last' = 0 /\ line' = 0 /\ left' = Headers /\ printed' = 0
      /\ spc' = "read header" /\ ready' = FALSE /\ asked' = 0 /\ answered' = 0 /\ toread' = 0
  BY DEF Enter
<1>5. MaxFrames \in Nat /\ Headers \in Nat /\ Headers > 0
  BY RunnerAssumption DEF RunnerAssumption
<1>6. frame' \in 0 .. MaxFrames /\ frame' \in Frames /\ frame \in 0 .. MaxFrames
  <2>1. frame \in 0 .. MaxFrames
    BY DEF Inv, TypeOK, ProcessesOK
  <2> QED
    BY <1>1, <1>5, <2>1 DEF Frames
<1>7. ProcessesOK'
  BY <1>1, <1>6 DEF Inv, TypeOK, ProcessesOK, Places, sigVars, endVars
<1>8. LinesOK'
  BY <1>3, <1>4, <1>5 DEF LinesOK
<1>9. RequestsOK'
  BY <1>3, <1>4 DEF RequestsOK, SpcStates
<1>10. Control'
  <2>1. \A k \in Frames : k > frame => kid'[k] = "none"
    BY <1>1 DEF Inv, Control
  <2>2. frame' > frame /\ \A k \in Frames : k > frame' => k > frame
    BY <1>1, <1>6 DEF Frames
  <2>3. pid' # 0 => kid'[pid'] # "reaped"
    BY <1>1 DEF Inv, Control
  <2>4. KillsNoReaped'
    BY <1>1 DEF Inv, Control, KillsNoReaped, endVars
  <2>5. left' > 0
    BY <1>4, <1>5
  <2> QED
    BY <1>1, <1>6, <2>1, <2>2, <2>3, <2>4, <2>5 DEF Control
<1>11. Taken' = 0
  <2>1. Len(pipe') = 0 /\ Len(buf') = 0 /\ printed' = 0
    BY <1>3, <1>4
  <2> QED
    BY <2>1 DEF Taken
<1>12. InOrder'
  BY <1>3, <1>11 DEF InOrder
<1>13. ~InHand'
  BY <1>1 DEF InHand
<1>14. Stored'
  <2>1. Len(pipe') = 0 /\ Len(buf') = 0 /\ printed' = 0 /\ last' = 0 /\ pc' = "signal"
    BY <1>1, <1>3, <1>4
  <2>2. last' + 1 >= Taken' /\ last' = Taken'
    BY <2>1, <1>11
  <2> QED
    BY <2>1, <2>2, <1>13 DEF Stored
<1> QED
  BY <1>7, <1>8, <1>9, <1>10, <1>12, <1>14 DEF Inv, TypeOK

(* The handler is installed before there is a child.                       *)
LEMMA SetHandlerInv == ASSUME Inv, SetHandler PROVE Inv'
<1> USE DEF Inv, SetHandler, At, Up, Goto, queueVars, sigVars, lineVars, spcVars, askVars, endVars
<1>1. ProcessesOK'
  BY DEF TypeOK, ProcessesOK, Control, Places, KidStates, Frames
<1>2. LinesOK'
  BY DEF TypeOK, LinesOK, EOF
<1>3. RequestsOK'
  BY DEF TypeOK, RequestsOK, SpcStates
<1>4. Control'
  BY DEF TypeOK, ProcessesOK, LinesOK, Control, KillsNoReaped, Sending, NotForked, KidStates, Frames
<1>5. InOrder'
  BY DEF TypeOK, LinesOK, InOrder, Taken
<1>6. Stored'
  BY DEF TypeOK, ProcessesOK, LinesOK, Control, InOrder, Stored, Taken, InHand, Closed, NotForked,
       EOF, KidStates, Frames
<1> QED
  BY <1>1, <1>2, <1>3, <1>4, <1>5, <1>6 DEF TypeOK

(* So that no line can be in hand when the handler may jump again.         *)
LEMMA SetJumpInv == ASSUME Inv, SetJump PROVE Inv'
<1> USE DEF Inv, SetJump, At, Up, Goto, queueVars, sigVars, lineVars, spcVars, askVars, endVars
<1>1. ProcessesOK'
  BY DEF TypeOK, ProcessesOK, Control, Places, KidStates, Frames
<1>2. LinesOK'
  BY DEF TypeOK, LinesOK, EOF
<1>3. RequestsOK'
  BY DEF TypeOK, RequestsOK, SpcStates
<1>4. Control'
  BY DEF TypeOK, ProcessesOK, LinesOK, Control, KillsNoReaped, Sending, NotForked, KidStates, Frames
<1>5. InOrder'
  BY DEF TypeOK, LinesOK, InOrder, Taken
<1>6. Stored'
  <2>1. Len(pipe) = 0 /\ Len(buf) = 0 /\ printed = 0 /\ last = 0
    BY DEF Stored, NotForked
  <2>3. Taken = 0
    BY <2>1 DEF Taken
  <2>4. UNCHANGED <<pipe, buf, printed, last, kid, frame>> /\ pc' = "spawn"
    OBVIOUS
  <2>5. Taken' = 0
    BY <2>3, <2>4 DEF Taken
  <2> HIDE DEF SetJump
  <2> QED
    BY <2>1, <2>4, <2>5 DEF Stored, InHand, NotForked
<1> QED
  BY <1>1, <1>2, <1>3, <1>4, <1>5, <1>6 DEF TypeOK

(* A new child is running, and is the one to be killed.                    *)
LEMMA SpawnInv == ASSUME Inv, Spawn PROVE Inv'
<1> USE DEF Inv, Spawn, At, Up, Goto, queueVars, sigVars, lineVars, spcVars, askVars, endVars
<1>1. ProcessesOK'
  <2>1. frame \in Frames /\ frame \in 0 .. MaxFrames /\ 0 \in 0 .. MaxFrames
    BY DEF TypeOK, ProcessesOK, Control, Frames
  <2>2. files' \subseteq Frames /\ pid' \in 0 .. MaxFrames /\ kid' \in [Frames -> KidStates]
    BY <2>1 DEF TypeOK, ProcessesOK, KidStates
  <2> QED
    BY <2>2 DEF TypeOK, ProcessesOK, Places
<1>2. LinesOK'
  BY DEF TypeOK, LinesOK, EOF
<1>3. RequestsOK'
  BY DEF TypeOK, RequestsOK, SpcStates
<1>4. Control'
  BY DEF TypeOK, ProcessesOK, LinesOK, Control, KillsNoReaped, Sending, NotForked, KidStates, Frames
<1>5. InOrder'
  BY DEF TypeOK, LinesOK, InOrder, Taken
<1>6. Stored'
  BY DEF TypeOK, ProcessesOK, LinesOK, Control, InOrder, Stored, Taken, InHand, Closed, NotForked,
       EOF, KidStates, Frames
<1> QED
  BY <1>1, <1>2, <1>3, <1>4, <1>5, <1>6 DEF TypeOK

(* Headers are still left, whether SIGCHLD is unblocked or not.            *)
LEMMA MakeHeadersInv == ASSUME Inv, MakeHeaders PROVE Inv'
<1> USE DEF Inv, MakeHeaders, At, Up, Goto, Unblock, queueVars, sigVars, lineVars, spcVars, askVars,
        endVars
<1>1. ProcessesOK'
  BY DEF TypeOK, ProcessesOK, Control, Places, KidStates, Frames
<1>2. LinesOK'
  BY DEF TypeOK, LinesOK, EOF
<1>3. RequestsOK'
  BY DEF TypeOK, RequestsOK, SpcStates
<1>4. Control'
  BY DEF TypeOK, ProcessesOK, LinesOK, Control, KillsNoReaped, Sending, NotForked, KidStates, Frames
<1>5. InOrder'
  BY DEF TypeOK, LinesOK, InOrder, Taken
<1>6. Stored'
  BY DEF TypeOK, ProcessesOK, LinesOK, Control, InOrder, Stored, Taken, InHand, Closed, NotForked,
       EOF, KidStates, Frames
<1> QED
  BY <1>1, <1>2, <1>3, <1>4, <1>5, <1>6 DEF TypeOK

(* A line read while headers are sent is in hand.                          *)
LEMMA PollReadableInv == ASSUME Inv, PollReadable PROVE Inv'
<1> USE DEF Inv, PollReadable, At, Up, Goto, ReadLine, Readable, queueVars, sigVars, lineVars,
        spcVars, askVars, endVars
<1>0. /\ LinesOK' /\ InOrder'
      /\ line' # EOF => line' = Taken' /\ line' > 0 /\ Taken' = Taken + 1
      /\ line' = EOF => Taken' = Taken /\ Len(pipe') = 0 /\ Len(buf') = 0 /\ Closed(frame)
  BY ReadLineTakesNext DEF TypeOK
<1>1. ProcessesOK'
  BY DEF TypeOK, ProcessesOK, Control, Places, KidStates, Frames
<1>2. LinesOK'
  BY <1>0
<1>3. RequestsOK'
  BY DEF TypeOK, RequestsOK, SpcStates
<1>4. Control'
  BY DEF TypeOK, ProcessesOK, LinesOK, Control, KillsNoReaped, Sending, NotForked, KidStates, Frames
<1>5. InOrder'
  BY <1>0
<1>6. Stored'
  <2>1. pc = "poll" /\ pc' = "polled" /\ UNCHANGED <<last, canjump, kid, frame>>
    OBVIOUS
  <2>2. last + 1 >= Taken /\ (canjump => last = Taken)
    BY <2>1 DEF Stored, InHand
  <2> HIDE DEF PollReadable
  <2>3. last \in Nat /\ Taken \in Int
    BY DEF TypeOK, LinesOK, Taken
  <2>4. CASE line' = EOF
    BY <1>0, <2>1, <2>2, <2>4 DEF Stored, InHand, NotForked, Closed
  <2>5. CASE line' # EOF
    BY <1>0, <2>1, <2>2, <2>3, <2>5 DEF Stored, InHand, NotForked, Closed
  <2> QED
    BY <2>4, <2>5
<1> QED
  BY <1>1, <1>2, <1>3, <1>4, <1>5, <1>6 DEF TypeOK

(* Its status is then stored.                                              *)
LEMMA PolledInv == ASSUME Inv, Polled PROVE Inv'
<1> USE DEF Inv, Polled, At, Up, Goto, TakeStatus, queueVars, sigVars, lineVars, spcVars, askVars,
        endVars
<1>1. ProcessesOK'
  BY DEF TypeOK, ProcessesOK, Control, Places, KidStates, Frames
<1>2. LinesOK'
  BY DEF TypeOK, LinesOK, EOF
<1>3. RequestsOK'
  BY DEF TypeOK, RequestsOK, SpcStates
<1>4. Control'
  BY DEF TypeOK, ProcessesOK, LinesOK, Control, KillsNoReaped, Sending, NotForked, KidStates, Frames
<1>5. InOrder'
  BY DEF TypeOK, LinesOK, InOrder, Taken
<1>6. Stored'
  <2>1. pc = "polled" /\ UNCHANGED <<pipe, buf, line, printed, canjump, kid, frame>>
    BY DEF lineVars
  <2>2. Taken' = Taken /\ Taken \in Int
    BY <2>1 DEF TypeOK, LinesOK, Taken
  <2>3. CASE line # EOF
    <3>1. line = Taken /\ line > 0
      BY <2>1, <2>3 DEF Stored, InHand
    <3>2. last' = line /\ pc' = "poll"
      BY <2>3, <3>1 DEF EOF
    <3>3. last' = Taken'
      BY <2>2, <3>1, <3>2
    <3> HIDE DEF Polled
    <3> QED
      BY <2>1, <2>2, <3>2, <3>3 DEF Stored, InHand, NotForked
  <2>4. CASE line = EOF
    <3>1. last + 1 >= Taken /\ (canjump => last = Taken) /\ Len(pipe) = 0 /\ Len(buf) = 0
      BY <2>1, <2>4 DEF Stored, InHand
    <3>2. last' = last /\ pc' = "poll"
      BY <2>1, <2>4 DEF EOF
    <3> HIDE DEF Polled
    <3> QED
      BY <2>1, <2>2, <2>4, <3>1, <3>2 DEF Stored, InHand, NotForked
  <2> QED
    BY <2>3, <2>4
<1> QED
  BY <1>1, <1>2, <1>3, <1>4, <1>5, <1>6 DEF TypeOK

(* The child has nothing to say.                                           *)
LEMMA PollQuietInv == ASSUME Inv, PollQuiet PROVE Inv'
<1> USE DEF Inv, PollQuiet, At, Up, Goto, queueVars, sigVars, lineVars, spcVars, askVars, endVars
<1>1. ProcessesOK'
  BY DEF TypeOK, ProcessesOK, Control, Places, KidStates, Frames
<1>2. LinesOK'
  BY DEF TypeOK, LinesOK, EOF
<1>3. RequestsOK'
  BY DEF TypeOK, RequestsOK, SpcStates
<1>4. Control'
  BY DEF TypeOK, ProcessesOK, LinesOK, Control, KillsNoReaped, Sending, NotForked, KidStates, Frames
<1>5. InOrder'
  BY DEF TypeOK, LinesOK, InOrder, Taken
<1>6. Stored'
  BY DEF TypeOK, ProcessesOK, LinesOK, Control, InOrder, Stored, Taken, InHand, Closed, NotForked,
       EOF, KidStates, Frames
<1> QED
  BY <1>1, <1>2, <1>3, <1>4, <1>5, <1>6 DEF TypeOK

(* The last header ends the sending.                                       *)
LEMMA WriteHeaderInv == ASSUME Inv, WriteHeader PROVE Inv'
<1> USE DEF Inv, WriteHeader, At, Up, Goto, Crash, queueVars, sigVars, lineVars, spcVars, askVars,
        endVars
<1>1. ProcessesOK'
  BY DEF TypeOK, ProcessesOK, Control, Places, KidStates, Frames
<1>2. LinesOK'
  <2>1. left \in Nat /\ left > 0 /\ left' \in {left, left - 1}
    BY DEF TypeOK, LinesOK, Control, Sending
  <2> HIDE DEF Inv, WriteHeader
  <2>2. left' \in Nat
    BY <2>1
  <2>3. LinesOK /\ UNCHANGED <<pipe, buf, line, last, printed>>
    BY DEF Inv, WriteHeader, TypeOK
  <2> QED
    BY <2>2, <2>3 DEF LinesOK
<1>3. RequestsOK'
  BY DEF TypeOK, RequestsOK, SpcStates
<1>4. Control'
  <2>1. left \in Nat /\ left > 0 /\ pc = "write"
    BY DEF TypeOK, LinesOK, Control, Sending
  <2>2. \/ pc' = "write" /\ left' = left
        \/ pc' = "prefs"
        \/ pc' = "poll" /\ left # 1 /\ left' = left - 1
    OBVIOUS
  <2> HIDE DEF Inv, WriteHeader
  <2>3. pc' \in Sending => left' > 0
    BY <2>1, <2>2 DEF Sending, NotForked
  <2>4. UNCHANGED <<frame, kid, jump, pid, killed>>
    BY DEF Crash, WriteHeader
  <2> QED
    BY <2>1, <2>2, <2>3, <2>4 DEF Inv, Control, KillsNoReaped, NotForked
<1>5. InOrder'
  BY DEF TypeOK, LinesOK, InOrder, Taken
<1>6. Stored'
  BY DEF TypeOK, ProcessesOK, LinesOK, Control, InOrder, Stored, Taken, InHand, Closed, NotForked,
       EOF, KidStates, Frames
<1> QED
  BY <1>1, <1>2, <1>3, <1>4, <1>5, <1>6 DEF TypeOK

(* The preferences concern no line.                                        *)
LEMMA WritePrefsInv == ASSUME Inv, WritePrefs PROVE Inv'
<1> USE DEF Inv, WritePrefs, At, Up, Goto, Crash, queueVars, sigVars, lineVars, spcVars, askVars,
        endVars
<1>1. ProcessesOK'
  BY DEF TypeOK, ProcessesOK, Control, Places, KidStates, Frames
<1>2. LinesOK'
  BY DEF TypeOK, LinesOK, EOF
<1>3. RequestsOK'
  BY DEF TypeOK, RequestsOK, SpcStates
<1>4. Control'
  BY DEF TypeOK, ProcessesOK, LinesOK, Control, KillsNoReaped, Sending, NotForked, KidStates, Frames
<1>5. InOrder'
  BY DEF TypeOK, LinesOK, InOrder, Taken
<1>6. Stored'
  BY DEF TypeOK, ProcessesOK, LinesOK, Control, InOrder, Stored, Taken, InHand, Closed, NotForked,
       EOF, KidStates, Frames
<1> QED
  BY <1>1, <1>2, <1>3, <1>4, <1>5, <1>6 DEF TypeOK

(* Nor does waiting.                                                       *)
LEMMA SelectInv == ASSUME Inv, Select PROVE Inv'
<1> USE DEF Inv, Select, At, Up, Goto, Block, queueVars, sigVars, lineVars, spcVars, askVars,
        endVars
<1>1. ProcessesOK'
  BY DEF TypeOK, ProcessesOK, Control, Places, KidStates, Frames
<1>2. LinesOK'
  BY DEF TypeOK, LinesOK, EOF
<1>3. RequestsOK'
  <2>1. SpcReady \in BOOLEAN
    BY DEF SpcReady
  <2> QED
    BY <2>1 DEF TypeOK, RequestsOK
<1>4. Control'
  BY DEF TypeOK, ProcessesOK, LinesOK, Control, KillsNoReaped, Sending, NotForked, KidStates, Frames
<1>5. InOrder'
  BY DEF TypeOK, LinesOK, InOrder, Taken
<1>6. Stored'
  BY DEF TypeOK, ProcessesOK, LinesOK, Control, InOrder, Stored, Taken, InHand, Closed, NotForked,
       EOF, KidStates, Frames
<1> QED
  BY <1>1, <1>2, <1>3, <1>4, <1>5, <1>6 DEF TypeOK

(* A line read in the main loop is in hand.                                *)
LEMMA ReadStatusInv == ASSUME Inv, ReadStatus PROVE Inv'
<1> USE DEF Inv, ReadStatus, At, Up, Goto, ReadLine, Readable, Unblock, queueVars, sigVars,
        lineVars, spcVars, askVars, endVars
<1>0. /\ LinesOK' /\ InOrder'
      /\ line' # EOF => line' = Taken' /\ line' > 0 /\ Taken' = Taken + 1
      /\ line' = EOF => Taken' = Taken /\ Len(pipe') = 0 /\ Len(buf') = 0 /\ Closed(frame)
  BY ReadLineTakesNext DEF TypeOK
<1>1. ProcessesOK'
  BY DEF TypeOK, ProcessesOK, Control, Places, KidStates, Frames
<1>2. LinesOK'
  BY <1>0
<1>3. RequestsOK'
  BY DEF TypeOK, RequestsOK, SpcStates
<1>4. Control'
  BY DEF TypeOK, ProcessesOK, LinesOK, Control, KillsNoReaped, Sending, NotForked, KidStates, Frames
<1>5. InOrder'
  BY <1>0
<1>6. Stored'
  <2>1. pc = "status" /\ pc' = "assign" /\ UNCHANGED <<last, canjump, kid, frame>>
    OBVIOUS
  <2>2. last + 1 >= Taken /\ (canjump => last = Taken)
    BY <2>1 DEF Stored, InHand
  <2> HIDE DEF ReadStatus
  <2>3. last \in Nat /\ Taken \in Int
    BY DEF TypeOK, LinesOK, Taken
  <2>4. CASE line' = EOF
    BY <1>0, <2>1, <2>2, <2>4 DEF Stored, InHand, NotForked, Closed
  <2>5. CASE line' # EOF
    BY <1>0, <2>1, <2>2, <2>3, <2>5 DEF Stored, InHand, NotForked, Closed
  <2> QED
    BY <2>4, <2>5
<1> QED
  BY <1>1, <1>2, <1>3, <1>4, <1>5, <1>6 DEF TypeOK

(* Its status is then stored.                                              *)
LEMMA AssignStatusInv == ASSUME Inv, AssignStatus PROVE Inv'
<1> USE DEF Inv, AssignStatus, At, Up, Goto, TakeStatus, queueVars, sigVars, lineVars, spcVars,
        askVars, endVars
<1>1. ProcessesOK'
  BY DEF TypeOK, ProcessesOK, Control, Places, KidStates, Frames
<1>2. LinesOK'
  BY DEF TypeOK, LinesOK, EOF
<1>3. RequestsOK'
  BY DEF TypeOK, RequestsOK, SpcStates
<1>4. Control'
  BY DEF TypeOK, ProcessesOK, LinesOK, Control, KillsNoReaped, Sending, NotForked, KidStates, Frames
<1>5. InOrder'
  BY DEF TypeOK, LinesOK, InOrder, Taken
<1>6. Stored'
  <2>1. pc = "assign" /\ UNCHANGED <<pipe, buf, line, printed, canjump, kid, frame>>
    BY DEF lineVars
  <2>2. Taken' = Taken /\ Taken \in Int
    BY <2>1 DEF TypeOK, LinesOK, Taken
  <2>3. CASE line # EOF
    <3>1. line = Taken /\ line > 0
      BY <2>1, <2>3 DEF Stored, InHand
    <3>2. last' = line /\ pc' = IF WithSpc THEN "spc" ELSE "select"
      BY <2>3, <3>1 DEF EOF
    <3>3. last' = Taken'
      BY <2>2, <3>1, <3>2
    <3> HIDE DEF AssignStatus
    <3> QED
      BY <2>1, <2>2, <3>2, <3>3 DEF Stored, InHand, NotForked
  <2>4. CASE line = EOF
    <3>1. last + 1 >= Taken /\ (canjump => last = Taken) /\ Len(pipe) = 0 /\ Len(buf) = 0
      BY <2>1, <2>4 DEF Stored, InHand
    <3>2. last' = last /\ pc' = "abort"
      BY <2>1, <2>4 DEF EOF
    <3> HIDE DEF AssignStatus
    <3> QED
      BY <2>1, <2>2, <2>4, <3>1, <3>2 DEF Stored, InHand, NotForked
  <2> QED
    BY <2>3, <2>4
<1> QED
  BY <1>1, <1>2, <1>3, <1>4, <1>5, <1>6 DEF TypeOK

(* The requests of the child concern no line.                              *)
LEMMA NotReadyInv == ASSUME Inv, NotReady PROVE Inv'
<1> USE DEF Inv, NotReady, At, Up, Goto, queueVars, sigVars, lineVars, spcVars, askVars, endVars
<1>1. ProcessesOK'
  BY DEF TypeOK, ProcessesOK, Control, Places, KidStates, Frames
<1>2. LinesOK'
  BY DEF TypeOK, LinesOK, EOF
<1>3. RequestsOK'
  BY DEF TypeOK, RequestsOK, SpcStates
<1>4. Control'
  BY DEF TypeOK, ProcessesOK, LinesOK, Control, KillsNoReaped, Sending, NotForked, KidStates, Frames
<1>5. InOrder'
  BY DEF TypeOK, LinesOK, InOrder, Taken
<1>6. Stored'
  BY DEF TypeOK, ProcessesOK, LinesOK, Control, InOrder, Stored, Taken, InHand, Closed, NotForked,
       EOF, KidStates, Frames
<1> QED
  BY <1>1, <1>2, <1>3, <1>4, <1>5, <1>6 DEF TypeOK

(* The buffer has room for what the header announces.                      *)
LEMMA ReadHeaderInv == ASSUME Inv, ReadHeader PROVE Inv'
<1> USE DEF Inv, ReadHeader, At, Up, Goto, Block, queueVars, sigVars, lineVars, spcVars, askVars,
        endVars
<1>1. ProcessesOK'
  BY DEF TypeOK, ProcessesOK, Control, Places, KidStates, Frames
<1>2. LinesOK'
  BY DEF TypeOK, LinesOK, EOF
<1>3. RequestsOK'
  <2>1. sock \in Seq(Item) /\ sock # <<>> /\ sock' = Tail(sock) /\ toread' = Head(sock).len
        /\ inbuf' = [i \in 1 .. Head(sock).len |-> Garbage] /\ spc' = "read data"
        /\ UNCHANGED <<ready, unsent, asked, answered, executed>>
    BY DEF TypeOK, RequestsOK
  <2> HIDE DEF ReadHeader
  <2> HIDE DEF Inv
  <2>2. Head(sock) \in Item /\ Tail(sock) \in Seq(Item)
    BY <2>1, FirstAndRest
  <2>3. toread' \in Nat
    BY <2>1, <2>2 DEF Item
  <2>4. Garbage \in Item
    BY DEF Garbage, Item
  <2>5. inbuf' \in Seq(Item)
    BY <2>1, <2>3, <2>4, Repeated
  <2> QED
    BY <2>1, <2>2, <2>3, <2>5 DEF Inv, TypeOK, RequestsOK, SpcStates
<1>4. Control'
  BY DEF TypeOK, ProcessesOK, LinesOK, Control, KillsNoReaped, Sending, NotForked, KidStates, Frames
<1>5. InOrder'
  BY DEF TypeOK, LinesOK, InOrder, Taken
<1>6. Stored'
  BY DEF TypeOK, ProcessesOK, LinesOK, Control, InOrder, Stored, Taken, InHand, Closed, NotForked,
       EOF, KidStates, Frames
<1> QED
  BY <1>1, <1>2, <1>3, <1>4, <1>5, <1>6 DEF TypeOK

(* What is read of a request fits into the buffer.                         *)
LEMMA ReadDataInv == ASSUME Inv, ReadData PROVE Inv'
<1> USE DEF Inv, ReadData, At, Up, Goto, Block, queueVars, sigVars, lineVars, spcVars, askVars,
        endVars
<1>1. ProcessesOK'
  BY DEF TypeOK, ProcessesOK, Control, Places, KidStates, Frames
<1>2. LinesOK'
  BY DEF TypeOK, LinesOK, EOF
<1>3. RequestsOK'
  <2> DEFINE k == IF Len(sock) < toread THEN Len(sock) ELSE toread
  <2>1. /\ sock \in Seq(Item) /\ inbuf \in Seq(Item) /\ toread \in Nat
        /\ sock' = SubSeq(sock, k + 1, Len(sock)) /\ toread' = toread - k
        /\ inbuf' = [i \in DOMAIN inbuf |-> IF i <= k THEN sock[i] ELSE inbuf[i]]
        /\ UNCHANGED <<spc, ready, unsent, asked, answered, executed>>
    BY DEF TypeOK, RequestsOK
  <2> HIDE DEF ReadData, Inv
  <2>2. k \in Nat /\ k <= Len(sock) /\ k <= toread
    BY <2>1
  <2> HIDE DEF k
  <2>3. toread' \in Nat
    BY <2>1, <2>2
  <2>4. sock' \in Seq(Item)
    BY <2>1, <2>2
  <2>5. inbuf' \in Seq(Item)
    <3>1. DOMAIN inbuf = 1 .. Len(inbuf) /\ Len(inbuf) \in Nat
      BY <2>1
    <3>2. \A i \in DOMAIN inbuf : (IF i <= k THEN sock[i] ELSE inbuf[i]) \in Item
      BY <2>1, <2>2, <3>1
    <3> QED
      BY <2>1, <3>1, <3>2
  <2> QED
    BY <2>1, <2>3, <2>4, <2>5 DEF Inv, TypeOK, RequestsOK
<1>4. Control'
  BY DEF TypeOK, ProcessesOK, LinesOK, Control, KillsNoReaped, Sending, NotForked, KidStates, Frames
<1>5. InOrder'
  BY DEF TypeOK, LinesOK, InOrder, Taken
<1>6. Stored'
  BY DEF TypeOK, ProcessesOK, LinesOK, Control, InOrder, Stored, Taken, InHand, Closed, NotForked,
       EOF, KidStates, Frames
<1> QED
  BY <1>1, <1>2, <1>3, <1>4, <1>5, <1>6 DEF TypeOK

(* What is sent to the Palm is a sequence of items.                        *)
LEMMA ExecuteInv == ASSUME Inv, Execute PROVE Inv'
<1> USE DEF Inv, Execute, At, Up, Goto, Unblock, queueVars, sigVars, lineVars, spcVars, askVars,
        endVars
<1>1. ProcessesOK'
  BY DEF TypeOK, ProcessesOK, Control, Places, KidStates, Frames
<1>2. LinesOK'
  BY DEF TypeOK, LinesOK, EOF
<1>3. RequestsOK'
  <2>1. /\ inbuf \in Seq(Item) /\ executed \in Seq(Seq(Item)) /\ inbuf' = <<>>
        /\ executed' \in {executed, Append(executed, inbuf)} /\ spc' \in {spc, "write header"}
        /\ UNCHANGED <<ready, sock, toread, unsent, asked, answered>>
    BY DEF TypeOK, RequestsOK
  <2> HIDE DEF Execute
  <2>2. executed' \in Seq(Seq(Item))
    BY <2>1, OneMore
  <2>3. inbuf' \in Seq(Item)
    BY <2>1, EmptySeq
  <2> QED
    BY <2>1, <2>2, <2>3 DEF TypeOK, RequestsOK, SpcStates
<1>4. Control'
  BY DEF TypeOK, ProcessesOK, LinesOK, Control, KillsNoReaped, Sending, NotForked, KidStates, Frames
<1>5. InOrder'
  BY DEF TypeOK, LinesOK, InOrder, Taken
<1>6. Stored'
  BY DEF TypeOK, ProcessesOK, LinesOK, Control, InOrder, Stored, Taken, InHand, Closed, NotForked,
       EOF, KidStates, Frames
<1> QED
  BY <1>1, <1>2, <1>3, <1>4, <1>5, <1>6 DEF TypeOK

(* The early return leaves everything as it is.                            *)
LEMMA EarlyReturnInv == ASSUME Inv, EarlyReturn PROVE Inv'
<1> USE DEF Inv, EarlyReturn, At, Up, Goto, runVars, Returned, queueVars, sigVars, lineVars,
        spcVars, askVars, endVars
<1>1. ProcessesOK'
  BY DEF TypeOK, ProcessesOK, Control, Places, KidStates, Frames
<1>2. LinesOK'
  BY DEF TypeOK, LinesOK, EOF
<1>3. RequestsOK'
  BY DEF TypeOK, RequestsOK, SpcStates
<1>4. Control'
  BY DEF TypeOK, ProcessesOK, LinesOK, Control, KillsNoReaped, Sending, NotForked, KidStates, Frames
<1>5. InOrder'
  BY DEF TypeOK, LinesOK, InOrder, Taken
<1>6. Stored'
  BY DEF TypeOK, ProcessesOK, LinesOK, Control, InOrder, Stored, Taken, InHand, Closed, NotForked,
       EOF, KidStates, Frames
<1> QED
  BY <1>1, <1>2, <1>3, <1>4, <1>5, <1>6 DEF TypeOK

(* An answer is counted once it is written.                                *)
LEMMA WriteResponseInv == ASSUME Inv, WriteResponse PROVE Inv'
<1> USE DEF Inv, WriteResponse, At, Up, Goto, queueVars, sigVars, lineVars, spcVars, askVars,
        endVars
<1>1. ProcessesOK'
  BY DEF TypeOK, ProcessesOK, Control, Places, KidStates, Frames
<1>2. LinesOK'
  BY DEF TypeOK, LinesOK, EOF
<1>3. RequestsOK'
  <2>1. /\ spc' \in {"write data", "read header"}
        /\ UNCHANGED <<ready, sock, toread, inbuf, executed, unsent, asked>>
    OBVIOUS
  <2>2. answered \in Nat /\ (answered' = answered \/ answered' = answered + 1)
    BY DEF TypeOK, RequestsOK
  <2> HIDE DEF WriteResponse, Inv
  <2>3. answered' \in Nat
    BY <2>2
  <2> QED
    BY <2>1, <2>3 DEF Inv, TypeOK, RequestsOK, SpcStates
<1>4. Control'
  BY DEF TypeOK, ProcessesOK, LinesOK, Control, KillsNoReaped, Sending, NotForked, KidStates, Frames
<1>5. InOrder'
  BY DEF TypeOK, LinesOK, InOrder, Taken
<1>6. Stored'
  BY DEF TypeOK, ProcessesOK, LinesOK, Control, InOrder, Stored, Taken, InHand, Closed, NotForked,
       EOF, KidStates, Frames
<1> QED
  BY <1>1, <1>2, <1>3, <1>4, <1>5, <1>6 DEF TypeOK

(* Whatever conduit_pid names has not been reaped.                         *)
LEMMA TerminateInv == ASSUME Inv, Terminate PROVE Inv'
<1> USE DEF Inv, Terminate, At, Up, Goto, queueVars, sigVars, lineVars, spcVars, askVars, endVars
<1>1. ProcessesOK'
  BY DEF TypeOK, ProcessesOK, Control, Places, KidStates, Frames
<1>2. LinesOK'
  BY DEF TypeOK, LinesOK, EOF
<1>3. RequestsOK'
  BY DEF TypeOK, RequestsOK, SpcStates
<1>4. Control'
  BY DEF TypeOK, ProcessesOK, LinesOK, Control, KillsNoReaped, Sending, NotForked, KidStates, Frames
<1>5. InOrder'
  BY DEF TypeOK, LinesOK, InOrder, Taken
<1>6. Stored'
  BY DEF TypeOK, ProcessesOK, LinesOK, Control, InOrder, Stored, Taken, InHand, Closed, NotForked,
       EOF, KidStates, Frames
<1> QED
  BY <1>1, <1>2, <1>3, <1>4, <1>5, <1>6 DEF TypeOK

(* Draining takes the lines one by one, and ends only when there are none. *)
LEMMA DrainInv == ASSUME Inv, Drain PROVE Inv'
<1>1. CASE frame \in files /\ Readable
  <2>1. /\ pc = "drain" /\ pc' = "drained" /\ ReadLine
        /\ UNCHANGED <<frame, sigVars, sig, pid, kid, files, printed, sock, spcVars, askVars,
                  endVars>>
    BY <1>1 DEF Drain, At, Goto
  <2>2. /\ LinesOK' /\ InOrder'
        /\ line' # EOF => line' = Taken' /\ line' > 0 /\ Taken' = Taken + 1
        /\ line' = EOF => Taken' = Taken /\ Len(pipe') = 0 /\ Len(buf') = 0 /\ Closed(frame)
    BY <2>1, ReadLineTakesNext DEF Inv, TypeOK
  <2>3. /\ last' = last /\ canjump' = canjump /\ kid' = kid /\ frame' = frame
        /\ last + 1 >= Taken /\ (canjump => last = Taken)
    BY <2>1 DEF Inv, Stored, InHand, ReadLine, sigVars
  <2>4. last \in Nat /\ Taken \in Int
    BY DEF Inv, TypeOK, LinesOK, Taken
  <2>5. ProcessesOK' /\ RequestsOK' /\ Control'
    <3>1. ProcessesOK'
      BY <2>1 DEF Inv, TypeOK, ProcessesOK, Places, sigVars, endVars
    <3>2. RequestsOK'
      BY <2>1 DEF Inv, TypeOK, RequestsOK, spcVars, askVars
    <3>3. Control'
      BY <2>1 DEF Inv, Control, KillsNoReaped, Sending, NotForked, sigVars, endVars
    <3> QED
      BY <3>1, <3>2, <3>3
  <2>6. CASE line' = EOF
    <3>1. last' + 1 >= Taken' /\ (canjump' => last' = Taken')
      BY <2>2, <2>3, <2>6
    <3>2. Closed(frame)'
      BY <2>2, <2>3, <2>6 DEF Closed
    <3>3. Stored'
      BY <2>1, <2>2, <2>6, <3>1, <3>2 DEF Stored, InHand, NotForked
    <3> QED
      BY <2>2, <2>5, <3>3 DEF Inv, TypeOK
  <2>7. CASE line' # EOF
    <3>1. last' + 2 >= Taken' /\ (canjump' => last' + 1 = Taken')
      BY <2>2, <2>3, <2>4, <2>7
    <3>2. Stored'
      BY <2>1, <2>2, <2>7, <3>1 DEF Stored, InHand, NotForked
    <3> QED
      BY <2>2, <2>5, <3>2 DEF Inv, TypeOK
  <2> QED
    BY <2>6, <2>7
<1>2. CASE ~(frame \in files /\ Readable)
  <2>1. /\ pc = "drain" /\ pc' \in {"drain", "restore"} /\ (pc' = "restore" => ~Readable)
        /\ UNCHANGED <<frame, sigVars, sig, pid, kid, files, pipe, lineVars, printed, sock, spcVars,
                  askVars, killed>>
        /\ crashed' \in {crashed, "null file"}
    BY <1>2 DEF Drain, At, Goto, Crash, endVars
  <2>2. ProcessesOK' /\ LinesOK' /\ RequestsOK' /\ Control'
    <3>1. ProcessesOK'
      BY <2>1 DEF Inv, TypeOK, ProcessesOK, Places, sigVars
    <3>2. LinesOK' /\ RequestsOK'
      BY <2>1 DEF Inv, TypeOK, LinesOK, RequestsOK, lineVars, spcVars, askVars
    <3>3. Control'
      BY <2>1 DEF Inv, Control, KillsNoReaped, Sending, NotForked, sigVars, lineVars
    <3> QED
      BY <3>1, <3>2, <3>3
  <2>3. InOrder' /\ Taken' = Taken
    BY <2>1 DEF Inv, InOrder, Taken, lineVars
  <2>4. pc' = "restore" => kid[frame] # "reaped"
    BY <2>1 DEF Readable, Closed
  <2>5. Stored'
    BY <2>1, <2>3, <2>4 DEF Inv, Stored, InHand, NotForked, sigVars, lineVars
  <2> QED
    BY <2>2, <2>3, <2>5 DEF Inv, TypeOK
<1> QED
  BY <1>1, <1>2

(* The status of a line drained is stored.                                 *)
LEMMA DrainedInv == ASSUME Inv, Drained PROVE Inv'
<1> USE DEF Inv, Drained, At, Up, Goto, TakeStatus, queueVars, sigVars, lineVars, spcVars, askVars,
        endVars
<1>1. ProcessesOK'
  BY DEF TypeOK, ProcessesOK, Control, Places, KidStates, Frames
<1>2. LinesOK'
  BY DEF TypeOK, LinesOK, EOF
<1>3. RequestsOK'
  BY DEF TypeOK, RequestsOK, SpcStates
<1>4. Control'
  BY DEF TypeOK, ProcessesOK, LinesOK, Control, KillsNoReaped, Sending, NotForked, KidStates, Frames
<1>5. InOrder'
  BY DEF TypeOK, LinesOK, InOrder, Taken
<1>6. Stored'
  <2>1. pc = "drained" /\ UNCHANGED <<pipe, buf, line, printed, canjump, kid, frame>>
    BY DEF lineVars
  <2>2. Taken' = Taken /\ Taken \in Int
    BY <2>1 DEF TypeOK, LinesOK, Taken
  <2>3. CASE line # EOF
    <3>1. line = Taken /\ line > 0
      BY <2>1, <2>3 DEF Stored, InHand
    <3>2. last' = line /\ pc' = "drain"
      BY <2>3, <3>1 DEF EOF
    <3>3. last' = Taken'
      BY <2>2, <3>1, <3>2
    <3> HIDE DEF Drained
    <3> QED
      BY <2>1, <2>2, <3>2, <3>3 DEF Stored, InHand, NotForked
  <2>4. CASE line = EOF
    <3>1. last + 1 >= Taken /\ (canjump => last = Taken) /\ Len(pipe) = 0 /\ Len(buf) = 0
      BY <2>1, <2>4 DEF Stored, InHand
    <3>2. last' = last /\ pc' = "restore"
      BY <2>1, <2>4 DEF EOF
    <3> HIDE DEF Drained
    <3> QED
      BY <2>1, <2>2, <2>4, <3>1, <3>2 DEF Stored, InHand, NotForked
  <2> QED
    BY <2>3, <2>4
<1> QED
  BY <1>1, <1>2, <1>3, <1>4, <1>5, <1>6 DEF TypeOK

(* Restoring the handler concerns no line.                                 *)
LEMMA RestoreInv == ASSUME Inv, Restore PROVE Inv'
<1> USE DEF Inv, Restore, At, Up, Goto, queueVars, sigVars, lineVars, spcVars, askVars, endVars
<1>1. ProcessesOK'
  BY DEF TypeOK, ProcessesOK, Control, Places, KidStates, Frames
<1>2. LinesOK'
  BY DEF TypeOK, LinesOK, EOF
<1>3. RequestsOK'
  BY DEF TypeOK, RequestsOK, SpcStates
<1>4. Control'
  BY DEF TypeOK, ProcessesOK, LinesOK, Control, KillsNoReaped, Sending, NotForked, KidStates, Frames
<1>5. InOrder'
  BY DEF TypeOK, LinesOK, InOrder, Taken
<1>6. Stored'
  BY DEF TypeOK, ProcessesOK, LinesOK, Control, InOrder, Stored, Taken, InHand, Closed, NotForked,
       EOF, KidStates, Frames
<1> QED
  BY <1>1, <1>2, <1>3, <1>4, <1>5, <1>6 DEF TypeOK

(* Nor does closing the files.                                             *)
LEMMA CloseAndReturnInv == ASSUME Inv, CloseAndReturn PROVE Inv'
<1> USE DEF Inv, CloseAndReturn, At, Up, Goto, Returned, queueVars, sigVars, lineVars, spcVars,
        askVars, endVars
<1>1. ProcessesOK'
  BY DEF TypeOK, ProcessesOK, Control, Places, KidStates, Frames
<1>2. LinesOK'
  BY DEF TypeOK, LinesOK, EOF
<1>3. RequestsOK'
  BY DEF TypeOK, RequestsOK, SpcStates
<1>4. Control'
  BY DEF TypeOK, ProcessesOK, LinesOK, Control, KillsNoReaped, Sending, NotForked, KidStates, Frames
<1>5. InOrder'
  BY DEF TypeOK, LinesOK, InOrder, Taken
<1>6. Stored'
  BY DEF TypeOK, ProcessesOK, LinesOK, Control, InOrder, Stored, Taken, InHand, Closed, NotForked,
       EOF, KidStates, Frames
<1> QED
  BY <1>1, <1>2, <1>3, <1>4, <1>5, <1>6 DEF TypeOK

(* The handler jumps once, and forgets the child that it has reaped.       *)
LEMMA HandleSigchldInv == ASSUME Inv, HandleSigchld PROVE Inv'
<1> USE DEF Inv, HandleSigchld, At, Up, Goto, Jump, Dismiss, Crash, queueVars, sigVars, lineVars,
        spcVars, askVars, endVars
<1>1. ProcessesOK'
  <2>1. /\ sig' = FALSE /\ UNCHANGED <<frame, handler, old, jump, leaked, files>>
        /\ pc' \in {pc, "status", "abort"} /\ canjump' \in {canjump, FALSE}
        /\ masked' \in {masked, TRUE} /\ killed' = killed /\ crashed' \in {crashed, "dead frame"}
        /\ \/ UNCHANGED <<pid, kid>>
           \/ pid # 0 /\ pid' = 0 /\ kid' = [kid EXCEPT ![pid] = "reaped"]
    OBVIOUS
  <2> HIDE DEF HandleSigchld
  <2>2. pid' \in 0 .. MaxFrames /\ kid' \in [Frames -> KidStates]
    <3>1. pid \in 0 .. MaxFrames /\ kid \in [Frames -> KidStates]
      BY DEF TypeOK, ProcessesOK
    <3>2. 0 \in 0 .. MaxFrames
      BY RunnerAssumption DEF RunnerAssumption
    <3> QED
      BY <2>1, <3>1, <3>2 DEF KidStates
  <2>3. canjump' \in BOOLEAN /\ masked' \in BOOLEAN
    BY <2>1 DEF TypeOK, ProcessesOK
  <2>4. pc' \in Places /\ crashed' \in {"no", "dead frame", "null file", "broken pipe"}
    BY <2>1 DEF TypeOK, ProcessesOK, Places
  <2>5. /\ frame \in 0 .. MaxFrames /\ jump \in 0 .. MaxFrames /\ files \subseteq Frames
        /\ handler \in {"default", "ours"} /\ old \in {"default", "ours"} /\ leaked \in BOOLEAN
        /\ killed \subseteq [frame : Frames, kid : Frames, state : KidStates]
    BY DEF TypeOK, ProcessesOK
  <2> HIDE DEF Inv
  <2>6. /\ frame' = frame /\ jump' = jump /\ files' = files /\ handler' = handler /\ old' = old
        /\ leaked' = leaked /\ killed' = killed /\ sig' = FALSE
    BY <2>1
  <2> QED
    BY <2>2, <2>3, <2>4, <2>5, <2>6 DEF ProcessesOK
<1>2. LinesOK'
  BY DEF TypeOK, LinesOK, EOF
<1>3. RequestsOK'
  BY DEF TypeOK, RequestsOK, SpcStates
<1>4. Control'
  BY DEF TypeOK, ProcessesOK, LinesOK, Control, KillsNoReaped, Sending, NotForked, KidStates, Frames
<1>5. InOrder'
  BY DEF TypeOK, LinesOK, InOrder, Taken
<1>6. Stored'
  <2>1. /\ UNCHANGED <<frame, pipe, lineVars, printed>>
        /\ \/ UNCHANGED <<pc, canjump, kid>>
           \/ pc = "select" /\ pc' = "status" /\ UNCHANGED <<canjump, kid>>
           \/ pc' = "abort" /\ canjump /\ canjump' = FALSE
           \/ UNCHANGED <<pc, canjump>> /\ kid' = [kid EXCEPT ![pid] = "reaped"] /\ pid # 0
              /\ kid[pid] = "zombie" /\ (pc = "queue" \/ jump # frame)
    OBVIOUS
  <2> HIDE DEF HandleSigchld
  <2>2. Taken' = Taken /\ Taken \in Int /\ last \in Nat /\ UNCHANGED <<last, line, buf, pipe, frame,
            printed>>
    BY <2>1 DEF TypeOK, LinesOK, Taken
  <2>3. CASE UNCHANGED <<pc, canjump, kid>>
    <3>1. InHand' <=> InHand
      BY <2>2, <2>3 DEF InHand
    <3>2. Closed(frame)' <=> Closed(frame)
      BY <2>2, <2>3 DEF Closed
    <3>3. Stored
      OBVIOUS
    <3> HIDE DEF Inv
    <3> QED
      BY <2>2, <2>3, <3>1, <3>2, <3>3 DEF Stored
  <2>4. CASE pc = "select" /\ pc' = "status" /\ UNCHANGED <<canjump, kid>>
    BY <2>2, <2>4 DEF Stored, InHand, NotForked, Closed
  <2>5. CASE pc' = "abort" /\ canjump /\ canjump' = FALSE
    <3>1. last + 1 >= Taken
      BY <2>2, <2>5 DEF Stored
    <3> QED
      BY <2>2, <2>5, <3>1 DEF Stored, InHand, NotForked
  <2>6. CASE UNCHANGED <<pc, canjump>> /\ kid' = [kid EXCEPT ![pid] = "reaped"] /\ pid # 0
             /\ kid[pid] = "zombie" /\ (pc = "queue" \/ jump # frame)
    <3>1. pc \notin {"polled", "assign", "drained", "restore", "close"}
      BY <2>6 DEF Control
    <3>2. ~InHand /\ ~InHand'
      BY <2>2, <2>6, <3>1 DEF InHand
    <3>3. Stored
      OBVIOUS
    <3> HIDE DEF Inv
    <3> QED
      BY <2>2, <2>6, <3>1, <3>2, <3>3 DEF Stored, NotForked
  <2> QED
    BY <2>1, <2>3, <2>4, <2>5, <2>6
<1> QED
  BY <1>1, <1>2, <1>3, <1>4, <1>5, <1>6 DEF TypeOK

(* A line printed is the next one, and comes last in the pipe.             *)
LEMMA PrintInv == ASSUME Inv, PrintLine PROVE Inv'
<1> USE DEF Inv, PrintLine, At, Up, Goto, Attached, queueVars, sigVars, lineVars, spcVars, askVars,
        endVars
<1>1. ProcessesOK'
  BY DEF TypeOK, ProcessesOK, Control, Places, KidStates, Frames
<1>2. LinesOK'
  BY DEF TypeOK, LinesOK, EOF
<1>3. RequestsOK'
  BY DEF TypeOK, RequestsOK, SpcStates
<1>4. Control'
  BY DEF TypeOK, ProcessesOK, LinesOK, Control, KillsNoReaped, Sending, NotForked, KidStates, Frames
<1>5. InOrder'
  BY DEF TypeOK, LinesOK, InOrder, Taken
<1>6. Stored'
  <2>1. /\ kid[frame] = "running" /\ printed' = printed + 1 /\ pipe' = Append(pipe, printed + 1)
        /\ UNCHANGED <<pc, frame, buf, line, last, canjump, kid>>
    OBVIOUS
  <2> HIDE DEF PrintLine
  <2>2. pc \notin NotForked
    BY <2>1 DEF Control
  <2>3. Len(pipe') = Len(pipe) + 1 /\ Len(pipe) \in Nat /\ Len(buf) \in Nat /\ printed \in Nat
    BY <2>1 DEF TypeOK, LinesOK
  <2>4. Taken' = Taken
    BY <2>1, <2>3 DEF Taken
  <2>5. ~(pc \in {"polled", "assign", "drained"} /\ line = EOF)
    BY <2>1 DEF Stored, Closed
  <2> QED
    BY <2>1, <2>2, <2>4, <2>5 DEF Stored, InHand
<1> QED
  BY <1>1, <1>2, <1>3, <1>4, <1>5, <1>6 DEF TypeOK

(* A request is a header and its data.                                     *)
LEMMA AskInv == ASSUME Inv, Ask PROVE Inv'
<1> USE DEF Inv, Ask, At, Up, Goto, Attached, Header, Data, queueVars, sigVars, lineVars, spcVars,
        askVars, endVars
<1>1. ProcessesOK'
  BY DEF TypeOK, ProcessesOK, Control, Places, KidStates, Frames
<1>2. LinesOK'
  BY DEF TypeOK, LinesOK, EOF
<1>3. RequestsOK'
  <2>1. PICK len \in Lengths : /\ sock' = Append(sock, Header(asked + 1, len))
                               /\ unsent' = Data(asked + 1, len)
    OBVIOUS
  <2>2. /\ sock \in Seq(Item) /\ asked \in Nat /\ asked' = asked + 1
        /\ UNCHANGED <<spc, ready, toread, inbuf, executed, answered>>
    BY DEF TypeOK, RequestsOK
  <2>3. len \in Nat
    BY RunnerAssumption DEF RunnerAssumption
  <2> HIDE DEF Ask
  <2>4. asked + 1 \in Nat
    BY <2>2
  <2>5. Header(asked + 1, len) \in Item
    BY <2>3, <2>4 DEF Header, Item
  <2>6. unsent' \in Seq(Item)
    <3>1. \A i \in 1 .. len : [of |-> asked + 1, at |-> i, len |-> len] \in Item
      BY <2>3, <2>4 DEF Item
    <3> QED
      BY <2>1, <2>3, <3>1 DEF Data
  <2>7. sock' \in Seq(Item)
    BY <2>1, <2>2, <2>5
  <2> QED
    BY <2>2, <2>4, <2>6, <2>7 DEF TypeOK, RequestsOK
<1>4. Control'
  BY DEF TypeOK, ProcessesOK, LinesOK, Control, KillsNoReaped, Sending, NotForked, KidStates, Frames
<1>5. InOrder'
  BY DEF TypeOK, LinesOK, InOrder, Taken
<1>6. Stored'
  BY DEF TypeOK, ProcessesOK, LinesOK, Control, InOrder, Stored, Taken, InHand, Closed, NotForked,
       EOF, KidStates, Frames
<1> QED
  BY <1>1, <1>2, <1>3, <1>4, <1>5, <1>6 DEF TypeOK

(* The data follows, in pieces or at once.                                 *)
LEMMA AskMoreInv == ASSUME Inv, AskMore PROVE Inv'
<1> USE DEF Inv, AskMore, At, Up, Goto, Attached, queueVars, sigVars, lineVars, spcVars, askVars,
        endVars
<1>1. ProcessesOK'
  BY DEF TypeOK, ProcessesOK, Control, Places, KidStates, Frames
<1>2. LinesOK'
  BY DEF TypeOK, LinesOK, EOF
<1>3. RequestsOK'
  <2>1. unsent \in Seq(Item) /\ unsent # <<>> /\ sock \in Seq(Item)
        /\ UNCHANGED <<spc, ready, toread, inbuf, executed, asked, answered>>
    BY DEF TypeOK, RequestsOK
  <2>2. PICK k \in 1 .. Len(unsent) : /\ sock' = sock \o SubSeq(unsent, 1, k)
                                      /\ unsent' = SubSeq(unsent, k + 1, Len(unsent))
    <3>1. Len(unsent) \in 1 .. Len(unsent)
      BY <2>1
    <3> QED
      BY <3>1
  <2> HIDE DEF AskMore, Inv
  <2>3. SubSeq(unsent, 1, k) \in Seq(Item) /\ SubSeq(unsent, k + 1, Len(unsent)) \in Seq(Item)
    BY <2>1
  <2> QED
    BY <2>1, <2>2, <2>3 DEF Inv, TypeOK, RequestsOK
<1>4. Control'
  BY DEF TypeOK, ProcessesOK, LinesOK, Control, KillsNoReaped, Sending, NotForked, KidStates, Frames
<1>5. InOrder'
  BY DEF TypeOK, LinesOK, InOrder, Taken
<1>6. Stored'
  BY DEF TypeOK, ProcessesOK, LinesOK, Control, InOrder, Stored, Taken, InHand, Closed, NotForked,
       EOF, KidStates, Frames
<1> QED
  BY <1>1, <1>2, <1>3, <1>4, <1>5, <1>6 DEF TypeOK

(* A child that exits has not been reaped.                                 *)
LEMMA ExitInv == ASSUME Inv, NEW k \in Frames, Exit(k) PROVE Inv'
<1> USE DEF Inv, Exit, At, Up, Goto, queueVars, sigVars, lineVars, spcVars, askVars, endVars
<1>1. ProcessesOK'
  BY DEF TypeOK, ProcessesOK, Control, Places, KidStates, Frames
<1>2. LinesOK'
  BY DEF TypeOK, LinesOK, EOF
<1>3. RequestsOK'
  BY DEF TypeOK, RequestsOK, SpcStates
<1>4. Control'
  BY DEF TypeOK, ProcessesOK, LinesOK, Control, KillsNoReaped, Sending, NotForked, KidStates, Frames
<1>5. InOrder'
  BY DEF TypeOK, LinesOK, InOrder, Taken
<1>6. Stored'
  BY DEF TypeOK, ProcessesOK, LinesOK, Control, InOrder, Stored, Taken, InHand, Closed, NotForked,
       EOF, KidStates, Frames
<1> QED
  BY <1>1, <1>2, <1>3, <1>4, <1>5, <1>6 DEF TypeOK

(* Nor has a zombie.                                                       *)
LEMMA DieInv == ASSUME Inv, NEW k \in Frames, Die(k) PROVE Inv'
<1> USE DEF Inv, Die, At, Up, Goto, queueVars, sigVars, lineVars, spcVars, askVars, endVars
<1>1. ProcessesOK'
  BY DEF TypeOK, ProcessesOK, Control, Places, KidStates, Frames
<1>2. LinesOK'
  BY DEF TypeOK, LinesOK, EOF
<1>3. RequestsOK'
  BY DEF TypeOK, RequestsOK, SpcStates
<1>4. Control'
  BY DEF TypeOK, ProcessesOK, LinesOK, Control, KillsNoReaped, Sending, NotForked, KidStates, Frames
<1>5. InOrder'
  BY DEF TypeOK, LinesOK, InOrder, Taken
<1>6. Stored'
  BY DEF TypeOK, ProcessesOK, LinesOK, Control, InOrder, Stored, Taken, InHand, Closed, NotForked,
       EOF, KidStates, Frames
<1> QED
  BY <1>1, <1>2, <1>3, <1>4, <1>5, <1>6 DEF TypeOK

(* The invariant holds at the start.                                       *)
LEMMA InitInv == Init => Inv
<1> SUFFICES ASSUME Init PROVE Inv
  OBVIOUS
<1>1. 0 \in 0 .. MaxFrames
  BY RunnerAssumption DEF RunnerAssumption
<1>2. ProcessesOK
  BY <1>1 DEF Init, ProcessesOK, Places, KidStates
<1>3. /\ pipe = <<>> /\ buf = <<>> /\ sock = <<>> /\ unsent = <<>> /\ inbuf = <<>> /\ executed =
          <<>>
  BY DEF Init
<1>4. /\ pipe \in Seq(Nat) /\ buf \in Seq(Nat) /\ sock \in Seq(Item) /\ unsent \in Seq(Item)
      /\ inbuf \in Seq(Item) /\ executed \in Seq(Seq(Item))
      /\ Len(pipe) = 0 /\ Len(buf) = 0 /\ DOMAIN pipe = {} /\ DOMAIN buf = {}
  BY <1>3, EmptySeq
<1>5. /\ pc = "queue" /\ frame = 0 /\ pid = 0 /\ killed = {} /\ left = 0 /\ line = 0 /\ last = 0
      /\ printed = 0 /\ canjump = FALSE
  BY DEF Init
<1>6. LinesOK
  BY <1>4, <1>5 DEF LinesOK
<1>7. RequestsOK
  BY <1>4 DEF Init, RequestsOK, SpcStates
<1>8. Control
  BY DEF Init, Control, KillsNoReaped, NotForked, Sending
<1>9. Taken = 0
  <2>1. Len(pipe) = 0 /\ Len(buf) = 0 /\ printed = 0
    BY <1>4, <1>5
  <2> QED
    BY <2>1 DEF Taken
<1>10. InOrder
  BY <1>4, <1>9 DEF InOrder
<1>11. Stored
  BY <1>5, <1>9 DEF Stored, InHand, NotForked
<1> QED
  BY <1>2, <1>6, <1>7, <1>8, <1>10, <1>11 DEF Inv, TypeOK

(* It depends on the variables of the specification only.                  *)
LEMMA StutterInv == ASSUME Inv, UNCHANGED vars PROVE Inv'
<1> USE DEF vars, queueVars, sigVars, lineVars, spcVars, askVars, endVars
<1>1. TypeOK'
  <2>1. ProcessesOK'
    BY DEF Inv, TypeOK, ProcessesOK
  <2>2. LinesOK'
    BY DEF Inv, TypeOK, LinesOK
  <2>3. RequestsOK'
    BY DEF Inv, TypeOK, RequestsOK
  <2> QED
    BY <2>1, <2>2, <2>3 DEF TypeOK
<1>2. Control'
  BY DEF Inv, Control, KillsNoReaped
<1>3. InOrder' /\ Taken' = Taken
  BY DEF Inv, InOrder, Taken
<1>4. Stored'
  BY <1>3 DEF Inv, Stored, InHand, Closed
<1> QED
  BY <1>1, <1>2, <1>3, <1>4 DEF Inv

(* Every state of the conduit runner satisfies the invariant.              *)
THEOREM RunnerInvariant == Spec => []Inv
<1>1. Init => Inv
  BY InitInv
<1>2. Inv /\ [Next]_vars => Inv'
  <2> SUFFICES ASSUME Inv, [Next]_vars PROVE Inv'
    OBVIOUS
  <2>1. CASE ParentStep
    BY <2>1, QueueStepInv, RunInsideInv, EnterInv, SetHandlerInv, SetJumpInv, SpawnInv,
       MakeHeadersInv, PollReadableInv, PolledInv, PollQuietInv, WriteHeaderInv, WritePrefsInv,
       SelectInv, ReadStatusInv, AssignStatusInv, NotReadyInv, ReadHeaderInv, ReadDataInv,
       ExecuteInv, EarlyReturnInv, WriteResponseInv, TerminateInv, DrainInv, DrainedInv,
       RestoreInv, CloseAndReturnInv DEF ParentStep
  <2>2. CASE HandleSigchld
    BY <2>2, HandleSigchldInv
  <2>3. CASE ChildStep
    BY <2>3, PrintInv, AskInv, AskMoreInv, ExitInv, DieInv DEF ChildStep
  <2>4. CASE UNCHANGED vars
    BY <2>4, StutterInv
  <2> QED
    BY <2>1, <2>2, <2>3, <2>4 DEF Next
<1> QED
  BY <1>1, <1>2, PTL DEF Spec

(* Every variable keeps its type.                                          *)
THEOREM TypeCorrect == Spec => []TypeOK
<1>1. Inv => TypeOK
  BY DEF Inv
<1> QED
  BY <1>1, RunnerInvariant, PTL

(* SIGTERM is never sent to a process that has been reaped, whatever fails *)
(* and whenever the handler of SIGCHLD runs.                               *)
THEOREM NeverKillsReaped == Spec => []KillsNoReaped
<1>1. Inv => KillsNoReaped
  BY DEF Inv, Control
<1> QED
  BY <1>1, RunnerInvariant, PTL

(* Of the status lines that a reaped child has printed at most one, the    *)
(* last, is lost to the result of its run_conduit.                         *)
THEOREM LosesAtMostOne == Spec => []AtMostOneLost
<1>1. Inv => AtMostOneLost
  <2> SUFFICES ASSUME Inv, pc = "close", kid[frame] = "reaped" PROVE printed - last <= 1
    BY DEF AtMostOneLost
  <2>1. Len(pipe) = 0 /\ Len(buf) = 0
    BY DEF Inv, Stored
  <2>2. printed \in Nat /\ last \in Nat
    BY DEF Inv, TypeOK, LinesOK
  <2>3. last + 1 >= Taken
    BY DEF Inv, Stored, InHand
  <2>4. Taken = printed
    BY <2>1, <2>2 DEF Taken
  <2> QED
    BY <2>2, <2>3, <2>4
<1> QED
  BY <1>1, RunnerInvariant, PTL

-----------------------------------------------------------------------------
(* The walk over the configuration.                                        *)

(* The conduits that have been considered, the one that runs included, and *)
(* those that have been run.                                               *)
Passed == IF cur = 0 THEN 1 .. next - 1 ELSE 1 .. next
Ran    == {ran[k] : k \in DOMAIN ran}

(* The walk is at a conduit that applies, at the default one behind the    *)
(* end, or between two conduits, and only a program makes run_conduit wait *)
(* for a child.                                                            *)
WalkOK ==
    /\ queue \in Queues /\ next \in Nat \ {0} /\ ran \in Seq(Nat)
    /\ cur # 0 =>
          /\ outcome = "running"
          /\ \/ cur = next /\ cur \in Runnable
             \/ cur = def /\ def \in Defaults /\ ~found /\ ~db.none /\ next = Len(queue) + 1
    /\ outcome = "running" => next <= Len(queue) + 1
    /\ pc # "queue" => cur # 0

(* The last default conduit that has been passed is remembered.            *)
DefaultOK ==
    /\ def = 0 => \A i \in Defaults : i >= next
    /\ def # 0 => def \in Defaults /\ def < next /\ \A i \in Defaults : i < next => i <= def

(* Of the conduits passed those that can be run have been, in order, none  *)
(* of them after a final one; and a match is known as such.                *)
SoFar ==
    /\ found <=> Matching \cap Passed # {}
    /\ Ran = (Runnable \cap Passed) \cup ({cur} \ {0})
    /\ \A i \in Runnable : i < next => ~queue[i].final
    /\ DefaultOK

Ascending ==
    /\ \A k \in DOMAIN ran : ran[k] < next \/ ran[k] = cur
    /\ \A j, k \in DOMAIN ran : j < k => ran[j] < ran[k]

WalkInv ==
    /\ WalkOK
    /\ outcome = "running" => SoFar
    /\ outcome = "done" => Ran = Documented
    /\ Ascending

(* A configuration has conduits 1 to its length.                           *)
LEMMA QueueDomain == ASSUME queue \in Queues PROVE DOMAIN queue = 1 .. Len(queue) /\ Len(queue) \in Nat
  BY QueueAssumption DEF QueueAssumption

(* Appending a conduit behind all that were run keeps them in order.       *)
LEMMA RunOneMore ==
    ASSUME ran \in Seq(Nat), NEW c \in Nat, ran' = Append(ran, c),
           \A k \in DOMAIN ran : ran[k] < c,
           \A j, k \in DOMAIN ran : j < k => ran[j] < ran[k]
    PROVE  /\ ran' \in Seq(Nat) /\ Ran' = Ran \cup {c}
           /\ \A k \in DOMAIN ran' : ran'[k] < c \/ ran'[k] = c
           /\ \A j, k \in DOMAIN ran' : j < k => ran'[j] < ran'[k]
<1>1. /\ ran' \in Seq(Nat) /\ Len(ran) \in Nat /\ DOMAIN ran = 1 .. Len(ran)
      /\ DOMAIN ran' = 1 .. Len(ran) + 1 /\ ran'[Len(ran) + 1] = c
      /\ \A k \in DOMAIN ran : ran'[k] = ran[k] /\ ran[k] \in Nat
  OBVIOUS
<1>2. Ran' = Ran \cup {c}
  <2>1. ASSUME NEW x \in Ran' PROVE x \in Ran \cup {c}
    <3>1. PICK k \in DOMAIN ran' : x = ran'[k]
      BY <2>1 DEF Ran
    <3>2. k \in DOMAIN ran \/ k = Len(ran) + 1
      BY <1>1, <3>1
    <3> QED
      BY <1>1, <3>1, <3>2 DEF Ran
  <2>2. ASSUME NEW x \in Ran \cup {c} PROVE x \in Ran'
    <3>1. CASE x = c
      <4>1. Len(ran) + 1 \in DOMAIN ran'
        BY <1>1
      <4> QED
        BY <1>1, <3>1, <4>1 DEF Ran
    <3>2. CASE x # c
      <4>1. PICK k \in DOMAIN ran : x = ran[k]
        BY <2>2, <3>2 DEF Ran
      <4>2. k \in DOMAIN ran' /\ ran'[k] = x
        BY <1>1, <4>1
      <4> QED
        BY <4>2 DEF Ran
    <3> QED
      BY <3>1, <3>2
  <2> QED
    BY <2>1, <2>2
<1>3. \A k \in DOMAIN ran' : ran'[k] < c \/ ran'[k] = c
  BY <1>1
<1>4. \A j, k \in DOMAIN ran' : j < k => ran'[j] < ran'[k]
  BY <1>1
<1> QED
  BY <1>1, <1>2, <1>3, <1>4

(* The matches are known from the configuration, which does not change.    *)
LEMMA SameConfiguration ==
    ASSUME UNCHANGED <<db, queue>>
    PROVE  UNCHANGED <<Matching, Runnable, Defaults, Documented>>
BY DEF Matching, Runnable, Defaults, Documented, Applies, CreaTypeMatches

(* A conduit that does not apply is no match and no default.               *)
LEMMA PassOverWalk == ASSUME WalkInv, pc = "queue", pc' = pc, PassOver PROVE WalkInv'
<1>1. /\ outcome = "running" /\ cur = 0 /\ next \in Nat \ {0} /\ next' = next + 1 /\ WalkOK /\ SoFar
      /\ UNCHANGED <<db, queue, def, found, cur, ran, outcome>> /\ next <= Len(queue)
  BY DEF WalkInv, WalkOK, PassOver, Considering
<1>2. UNCHANGED <<Matching, Runnable, Defaults, Documented>>
  BY <1>1, SameConfiguration
<1>3. next \notin Matching /\ next \notin Runnable /\ next \notin Defaults
  BY DEF PassOver, Matching, Runnable, Defaults
<1>4. Ran' = Ran
  BY <1>1 DEF Ran
<1>5. Matching \cap Passed' = Matching \cap Passed /\ Runnable \cap Passed' = Runnable \cap Passed
  <2>1. Passed' = Passed \cup {next}
    BY <1>1 DEF Passed
  <2> QED
    BY <1>3, <2>1 DEF Runnable
<1>6. \A i \in Runnable \cup Defaults : i \in Nat
  BY <1>1, QueueDomain DEF Runnable, Matching, Defaults, WalkOK
<1>7. DefaultOK'
  BY <1>1, <1>2, <1>3, <1>6 DEF SoFar, DefaultOK
<1>8. \A i \in Runnable' : i < next' => ~queue'[i].final
  BY <1>1, <1>2, <1>3, <1>6 DEF SoFar
<1>9. SoFar'
  BY <1>1, <1>2, <1>4, <1>5, <1>7, <1>8 DEF SoFar
<1>10. WalkOK'
  BY <1>1, QueueDomain DEF WalkOK
<1>11. Ascending'
  <2>1. \A k \in DOMAIN ran : ran[k] \in Nat /\ ran[k] < next
    BY <1>1 DEF WalkInv, Ascending, WalkOK
  <2> QED
    BY <1>1, <2>1 DEF WalkInv, Ascending
<1> QED
  BY <1>1, <1>9, <1>10, <1>11 DEF WalkInv

(* A default conduit that applies becomes the one remembered.              *)
LEMMA RememberWalk == ASSUME WalkInv, pc = "queue", pc' = pc, Remember PROVE WalkInv'
<1>1. /\ outcome = "running" /\ cur = 0 /\ next \in Nat \ {0} /\ next' = next + 1 /\ WalkOK /\ SoFar
      /\ UNCHANGED <<db, queue, found, cur, ran, outcome>> /\ next <= Len(queue) /\ def' = next
  BY DEF WalkInv, WalkOK, Remember, Considering
<1>2. UNCHANGED <<Matching, Runnable, Defaults, Documented>>
  BY <1>1, SameConfiguration
<1>3. next \notin Matching /\ next \notin Runnable /\ next \in Defaults
  BY <1>1, QueueDomain DEF Remember, Matching, Runnable, Defaults, WalkOK
<1>4. Ran' = Ran
  BY <1>1 DEF Ran
<1>5. Matching \cap Passed' = Matching \cap Passed /\ Runnable \cap Passed' = Runnable \cap Passed
  <2>1. Passed' = Passed \cup {next}
    BY <1>1 DEF Passed
  <2> QED
    BY <1>3, <2>1 DEF Runnable
<1>6. \A i \in Runnable \cup Defaults : i \in Nat
  BY <1>1, QueueDomain DEF Runnable, Matching, Defaults, WalkOK
<1>7. DefaultOK'
  BY <1>1, <1>2, <1>3, <1>6 DEF SoFar, DefaultOK
<1>8. \A i \in Runnable' : i < next' => ~queue'[i].final
  BY <1>1, <1>2, <1>3, <1>6 DEF SoFar
<1>9. SoFar'
  BY <1>1, <1>2, <1>4, <1>5, <1>7, <1>8 DEF SoFar
<1>10. WalkOK'
  BY <1>1, QueueDomain DEF WalkOK
<1>11. Ascending'
  <2>1. \A k \in DOMAIN ran : ran[k] \in Nat /\ ran[k] < next
    BY <1>1 DEF WalkInv, Ascending, WalkOK
  <2> QED
    BY <1>1, <2>1 DEF WalkInv, Ascending
<1> QED
  BY <1>1, <1>9, <1>10, <1>11 DEF WalkInv

(* A match is run, unless it is built in and does not fit.                 *)
LEMMA ChooseWalk == ASSUME WalkInv, pc = "queue", pc' = pc, Choose PROVE WalkInv'
<1>1. /\ outcome = "running" /\ cur = 0 /\ next \in Nat \ {0} /\ WalkOK /\ SoFar /\ found' = TRUE
      /\ UNCHANGED <<db, queue, def, outcome>> /\ next <= Len(queue)
  BY DEF WalkInv, WalkOK, Choose, Considering
<1>2. UNCHANGED <<Matching, Runnable, Defaults, Documented>>
  BY <1>1, SameConfiguration
<1>3. next \in Matching /\ next \notin Defaults /\ next \in DOMAIN queue
  BY <1>1, QueueDomain DEF Choose, Matching, Defaults, WalkOK
<1>4. \A i \in Runnable \cup Defaults : i \in Nat
  BY <1>1, QueueDomain DEF Runnable, Matching, Defaults, WalkOK
<1>5. \A k \in DOMAIN ran : ran[k] \in Nat /\ ran[k] < next
  BY <1>1 DEF WalkInv, Ascending, WalkOK
<1>6. /\ def = 0 => \A i \in Defaults : i >= next
      /\ def # 0 => def \in Defaults /\ def < next /\ \A i \in Defaults : i < next => i <= def
  BY <1>1 DEF SoFar, DefaultOK
<1>7. CASE queue[next].kind = "unfit"
  <2>1. next' = next + 1 /\ UNCHANGED <<cur, ran>>
    BY <1>7 DEF Choose
  <2>2. next \notin Runnable /\ Ran' = Ran
    BY <1>7, <2>1 DEF Runnable, Ran
  <2>3. Passed' = Passed \cup {next}
    BY <1>1, <2>1 DEF Passed
  <2>4. Matching \cap Passed' # {} /\ Runnable \cap Passed' = Runnable \cap Passed
    BY <1>3, <2>2, <2>3
  <2>5. DefaultOK'
    BY <1>1, <1>2, <1>3, <1>4, <1>6, <2>1 DEF DefaultOK
  <2>6. \A i \in Runnable' : i < next' => ~queue'[i].final
    BY <1>1, <1>2, <1>4, <2>1, <2>2 DEF SoFar
  <2>7. SoFar'
    BY <1>1, <1>2, <2>1, <2>2, <2>4, <2>5, <2>6 DEF SoFar
  <2>8. WalkOK'
    BY <1>1, <2>1, QueueDomain DEF WalkOK
  <2>9. Ascending'
    BY <1>1, <1>5, <2>1 DEF WalkInv, Ascending
  <2> QED
    BY <1>1, <2>7, <2>8, <2>9 DEF WalkInv
<1>8. CASE queue[next].kind # "unfit"
  <2>1. cur' = next /\ ran' = Append(ran, next) /\ next' = next
    BY <1>8 DEF Choose
  <2>2. next \in Runnable
    BY <1>3, <1>8 DEF Runnable
  <2>3. Passed' = Passed \cup {next} /\ next \notin Passed
    BY <1>1, <2>1 DEF Passed
  <2>4. /\ ran' \in Seq(Nat) /\ Ran' = Ran \cup {next}
        /\ \A k \in DOMAIN ran' : ran'[k] < next \/ ran'[k] = next
        /\ \A j, k \in DOMAIN ran' : j < k => ran'[j] < ran'[k]
    <3>1. \A j, k \in DOMAIN ran : j < k => ran[j] < ran[k]
      BY DEF WalkInv, Ascending
    <3> QED
      BY <1>1, <1>5, <2>1, <3>1, RunOneMore DEF WalkOK
  <2>5. Matching \cap Passed' # {} /\ Runnable \cap Passed' = (Runnable \cap Passed) \cup {next}
    BY <1>3, <2>2, <2>3
  <2>6. DefaultOK'
    BY <1>1, <1>2, <1>6, <2>1 DEF DefaultOK
  <2>7. \A i \in Runnable' : i < next' => ~queue'[i].final
    BY <1>1, <1>2, <2>1 DEF SoFar
  <2>8. Ran' = (Runnable \cap Passed') \cup ({cur'} \ {0})
    BY <1>1, <2>1, <2>4, <2>5 DEF SoFar
  <2>9. SoFar'
    BY <1>1, <1>2, <2>5, <2>6, <2>7, <2>8 DEF SoFar
  <2>10. WalkOK'
    BY <1>1, <1>2, <2>1, <2>2, <2>4 DEF WalkOK
  <2>11. Ascending'
    BY <2>1, <2>4 DEF Ascending
  <2> QED
    BY <1>1, <2>9, <2>10, <2>11 DEF WalkInv
<1> QED
  BY <1>7, <1>8

(* At the end every match has been run, or the last default one is.        *)
LEMMA ChooseDefaultWalk == ASSUME WalkInv, pc = "queue", pc' = pc, ChooseDefault PROVE WalkInv'
<1>1. /\ outcome = "running" /\ cur = 0 /\ next \in Nat \ {0} /\ WalkOK /\ SoFar
      /\ UNCHANGED <<db, queue, def, found, next>> /\ next > Len(queue) /\ ran \in Seq(Nat)
  BY DEF WalkInv, WalkOK, ChooseDefault, AtEnd
<1>2. UNCHANGED <<Matching, Runnable, Defaults, Documented>>
  BY <1>1, SameConfiguration
<1>3. DOMAIN queue = 1 .. Len(queue) /\ Len(queue) \in Nat
  BY <1>1, QueueDomain DEF WalkOK
<1>4. \A i \in Matching \cup Defaults : i \in Nat /\ i <= Len(queue) /\ i > 0 /\ i < next
  BY <1>1, <1>3 DEF Matching, Defaults
<1>5. Matching \cap Passed = Matching /\ Runnable \cap Passed = Runnable /\ Runnable \subseteq Matching
  BY <1>1, <1>4 DEF Passed, Runnable
<1>6. (found <=> Matching # {}) /\ Ran = Runnable
  BY <1>1, <1>5 DEF SoFar
<1>7. \A k \in DOMAIN ran : ran[k] \in Nat /\ ran[k] < next
  BY <1>1 DEF WalkInv, Ascending
<1>8. /\ def = 0 => Defaults = {}
      /\ def # 0 => def \in Defaults /\ def < next /\ \A i \in Defaults : i <= def
  BY <1>1, <1>4 DEF SoFar, DefaultOK
<1>9. \A j, k \in DOMAIN ran : j < k => ran[j] < ran[k]
  BY DEF WalkInv, Ascending
<1>10. CASE ~found /\ def # 0 /\ ~db.none /\ queue[def].kind # "unfit"
  <2>1. cur' = def /\ ran' = Append(ran, def) /\ outcome' = outcome
    BY <1>10 DEF ChooseDefault
  <2>2. Matching = {} /\ Runnable = {} /\ Ran = {} /\ DOMAIN ran = {}
    BY <1>5, <1>6, <1>10 DEF Ran
  <2>3. /\ ran' \in Seq(Nat) /\ Ran' = {def}
        /\ \A k \in DOMAIN ran' : ran'[k] = def
        /\ \A j, k \in DOMAIN ran' : j < k => ran'[j] < ran'[k]
    <3>1. def \in Nat
      BY <1>4, <1>8, <1>10
    <3>2. /\ ran' \in Seq(Nat) /\ Ran' = Ran \cup {def}
          /\ \A j, k \in DOMAIN ran' : j < k => ran'[j] < ran'[k]
      BY <1>1, <1>9, <2>1, <2>2, <3>1, RunOneMore
    <3>3. \A k \in DOMAIN ran' : ran'[k] = def
      BY <2>2, <3>2 DEF Ran
    <3> QED
      BY <2>2, <3>2, <3>3
  <2>4. SoFar'
    <3>1. DefaultOK'
      BY <1>1, <1>2 DEF SoFar, DefaultOK
    <3>2. Ran' = (Runnable' \cap Passed') \cup ({cur'} \ {0})
      BY <1>2, <1>10, <2>1, <2>2, <2>3
    <3> QED
      BY <1>1, <1>2, <1>10, <2>2, <3>1, <3>2 DEF SoFar
  <2>5. WalkOK'
    <3>1. next = Len(queue) + 1
      BY <1>1, <1>3 DEF WalkOK
    <3> QED
      BY <1>1, <1>2, <1>8, <1>10, <2>1, <2>3, <3>1 DEF WalkOK
  <2>6. Ascending'
    BY <2>1, <2>3 DEF Ascending
  <2> QED
    BY <1>1, <2>1, <2>4, <2>5, <2>6 DEF WalkInv
<1>11. CASE ~(~found /\ def # 0 /\ ~db.none /\ queue[def].kind # "unfit")
  <2>1. /\ outcome' = IF ~found /\ def # 0 /\ ~db.none THEN "failed" ELSE "done"
        /\ UNCHANGED <<cur, ran>>
    BY <1>11 DEF ChooseDefault
  <2>2. Ran' = Ran /\ WalkOK' /\ Ascending' /\ outcome' # "running"
    BY <1>1, <1>2, <2>1 DEF WalkInv, Ran, WalkOK, Ascending
  <2>3. ASSUME outcome' = "done" PROVE Ran = Documented
    <3>1. found \/ def = 0 \/ db.none
      BY <2>1, <2>3
    <3>2. \A i \in Runnable : ~queue[i].final
      BY <1>1, <1>4, <1>5 DEF SoFar
    <3>3. CASE Matching # {}
      BY <1>6, <3>2, <3>3 DEF Documented
    <3>4. CASE Matching = {}
      <4>1. Ran = {} /\ (db.none \/ Defaults = {})
        BY <1>5, <1>6, <1>8, <3>1, <3>4
      <4> QED
        BY <3>4, <4>1 DEF Documented
    <3> QED
      BY <3>3, <3>4
  <2> QED
    BY <1>2, <2>2, <2>3 DEF WalkInv
<1> QED
  BY <1>10, <1>11

(* A conduit that has returned has been run, and after a final one, or the *)
(* default one, all has been.                                              *)
LEMMA ReturnedWalk ==
    ASSUME WalkInv, NEW fatal \in BOOLEAN, cur # 0, Returned(fatal), pc' = "queue" PROVE WalkInv'
<1>1. /\ outcome = "running" /\ next \in Nat \ {0} /\ WalkOK /\ SoFar /\ cur' = 0
      /\ UNCHANGED <<db, queue, def, found, ran>> /\ next' = next + 1
      /\ outcome' = IF fatal THEN "failed"
                    ELSE IF cur = def \/ queue[cur].final THEN "done" ELSE "running"
      /\ ran \in Seq(Nat)
  BY DEF WalkInv, WalkOK, Returned
<1>2. UNCHANGED <<Matching, Runnable, Defaults, Documented>>
  BY <1>1, SameConfiguration
<1>3. DOMAIN queue = 1 .. Len(queue) /\ Len(queue) \in Nat
  BY <1>1, QueueDomain DEF WalkOK
<1>4. /\ \A i \in Matching \cup Defaults : i \in Nat /\ i <= Len(queue) /\ i > 0
      /\ Runnable \subseteq Matching /\ Matching \cap Defaults = {}
  BY <1>3 DEF Matching, Defaults, Runnable
<1>5. Ran' = Ran /\ Passed = 1 .. next /\ Passed' = 1 .. next
  BY <1>1 DEF Ran, Passed
<1>6. WalkOK'
  <2>1. outcome' = "running" => next <= Len(queue)
    BY <1>1, <1>3, <1>4 DEF WalkOK
  <2>2. outcome' = "running" => next' <= Len(queue') + 1
    BY <1>1, <1>3, <2>1
  <2> QED
    BY <1>1, <2>2 DEF WalkOK
<1>7. Ascending'
  <2>1. cur <= next /\ cur \in Nat
    BY <1>1, <1>4 DEF WalkOK
  <2>2. \A k \in DOMAIN ran : ran[k] \in Nat /\ ran[k] < next + 1
    BY <1>1, <2>1 DEF WalkInv, Ascending
  <2> QED
    BY <1>1, <2>2 DEF WalkInv, Ascending
<1>8. CASE cur = next /\ cur \in Runnable
  <2>1. cur # def /\ cur \notin Defaults /\ cur \in Matching
    BY <1>1, <1>4, <1>8 DEF SoFar, DefaultOK
  <2>2. Ran = Runnable \cap (1 .. next) /\ Matching # {}
    BY <1>1, <1>4, <1>5, <1>8, <2>1 DEF SoFar
  <2>3. ASSUME outcome' = "done" PROVE Ran = Documented
    <3>1. queue[cur].final
      BY <1>1, <2>1, <2>3
    <3>2. \A i \in Runnable : i < next => ~queue[i].final
      BY <1>1 DEF SoFar
    <3>3. Documented = {i \in Runnable : \A j \in Runnable : j < i => ~queue[j].final}
      BY <2>2 DEF Documented
    <3>4. \A i \in Runnable : i \in Nat /\ i > 0
      BY <1>4
    <3>5. ASSUME NEW i \in Runnable PROVE i \in 1 .. next <=> \A j \in Runnable : j < i => ~queue[j].final
      <4>1. CASE i <= next
        BY <1>1, <3>2, <3>4, <4>1
      <4>2. CASE i > next
        BY <1>1, <1>8, <3>1, <3>4, <4>2
      <4> QED
        BY <1>1, <3>4, <4>1, <4>2
    <3> QED
      BY <2>2, <3>3, <3>5
  <2>4. ASSUME outcome' = "running" PROVE SoFar'
    <3>1. ~queue[cur].final
      BY <1>1, <2>4
    <3>2. DefaultOK'
      <4>1. /\ \A i \in Defaults : i \in Nat /\ i # next /\ next \in Nat
            /\ def = 0 => \A i \in Defaults : i >= next
            /\ def # 0 => def \in Defaults /\ def < next /\ \A i \in Defaults : i < next => i <= def
        BY <1>1, <1>4, <1>8, <2>1 DEF SoFar, DefaultOK
      <4>2. /\ def = 0 => \A i \in Defaults : i >= next + 1
            /\ def # 0 => def < next + 1 /\ \A i \in Defaults : i < next + 1 => i <= def
        BY <4>1
      <4> QED
        BY <1>1, <1>2, <4>1, <4>2 DEF DefaultOK
    <3>3. \A i \in Runnable' : i < next' => ~queue'[i].final
      <4>1. \A i \in Runnable : i \in Nat /\ (i < next => ~queue[i].final) /\ next \in Nat
        BY <1>1, <1>4 DEF SoFar
      <4>2. \A i \in Runnable : i < next + 1 => ~queue[i].final
        BY <1>8, <3>1, <4>1
      <4> QED
        BY <1>1, <1>2, <4>2
    <3>4. Ran' = (Runnable' \cap Passed') \cup ({cur'} \ {0})
      BY <1>1, <1>2, <1>5, <2>2
    <3>5. found' <=> Matching' \cap Passed' # {}
      BY <1>1, <1>2, <1>5 DEF SoFar
    <3> QED
      BY <3>2, <3>3, <3>4, <3>5 DEF SoFar
  <2> QED
    BY <1>2, <1>5, <1>6, <1>7, <2>3, <2>4 DEF WalkInv
<1>9. CASE cur = def /\ def \in Defaults /\ ~found /\ ~db.none /\ next = Len(queue) + 1
  <2>1. outcome' # "running"
    BY <1>1, <1>9
  <2>2. Matching = {} /\ Runnable = {}
    BY <1>1, <1>3, <1>4, <1>5, <1>9 DEF SoFar
  <2>3. Ran = {def}
    BY <1>1, <1>9, <2>2 DEF SoFar
  <2>4. \A i \in Defaults : i <= def
    BY <1>1, <1>4, <1>9 DEF SoFar, DefaultOK
  <2>5. Documented = {def}
    <3>1. Documented = {i \in Defaults : \A j \in Defaults : j <= i}
      BY <1>9, <2>2 DEF Documented
    <3>2. \A i \in Defaults : (\A j \in Defaults : j <= i) <=> i = def
      BY <1>4, <1>9, <2>4
    <3> QED
      BY <1>9, <3>1, <3>2
  <2> QED
    BY <1>2, <1>5, <1>6, <1>7, <2>1, <2>3, <2>5 DEF WalkInv
<1> QED
  BY <1>1, <1>8, <1>9 DEF WalkOK

(* The walk starts before the first conduit.                               *)
LEMMA InitWalk == Init => WalkInv
<1> SUFFICES ASSUME Init PROVE WalkInv
  OBVIOUS
<1>1. /\ queue \in Queues /\ next = 1 /\ def = 0 /\ found = FALSE /\ cur = 0 /\ ran = <<>>
      /\ outcome = "running" /\ pc = "queue"
  BY DEF Init, QueueInit
<1>2. DOMAIN queue = 1 .. Len(queue) /\ Len(queue) \in Nat
  BY <1>1, QueueDomain
<1>3. \A i \in Matching \cup Defaults : i \in Nat /\ i > 0
  BY <1>2 DEF Matching, Defaults
<1>4. Passed = {} /\ Ran = {} /\ ran \in Seq(Nat) /\ DOMAIN ran = {}
  BY <1>1 DEF Passed, Ran
<1>5. WalkOK
  BY <1>1, <1>2, <1>4 DEF WalkOK
<1>6. DefaultOK
  BY <1>1, <1>3 DEF DefaultOK
<1>7. SoFar
  BY <1>1, <1>3, <1>4, <1>6 DEF SoFar, Runnable
<1> QED
  BY <1>1, <1>4, <1>5, <1>7 DEF WalkInv, Ascending

(* The walk is about the configuration and whether run_conduit is active.  *)
LEMMA SameWalk ==
    ASSUME WalkInv, UNCHANGED queueVars, pc' # "queue" => cur # 0 PROVE WalkInv'
<1>1. UNCHANGED <<Matching, Runnable, Defaults, Documented, Passed, Ran>>
  BY SameConfiguration DEF queueVars, Passed, Ran
<1> QED
  BY <1>1 DEF WalkInv, WalkOK, SoFar, DefaultOK, Ascending, queueVars

(* What run_conduit, its child and the handler do leaves the walk alone,   *)
(* but for a return.                                                       *)
LEMMA StepWalk == ASSUME WalkInv, [Next]_vars PROVE WalkInv'
<1>1. CASE QueueStep
  BY <1>1, PassOverWalk, RememberWalk, ChooseWalk, ChooseDefaultWalk DEF QueueStep, At
<1>2. CASE RunInside
  <2>1. PICK fatal \in {FALSE, queue[cur].kind = "builtin"} : Returned(fatal)
    BY <1>2 DEF RunInside
  <2>2. fatal \in BOOLEAN /\ cur # 0 /\ pc' = "queue"
    BY <1>2 DEF RunInside, At
  <2> QED
    BY <2>1, <2>2, ReturnedWalk
<1>3. CASE EarlyReturn \/ CloseAndReturn
  <2>1. Returned(FALSE) /\ pc # "queue" /\ pc' = "queue"
    BY <1>3 DEF EarlyReturn, CloseAndReturn, At, Goto
  <2>2. cur # 0
    BY <2>1 DEF WalkInv, WalkOK
  <2> QED
    BY <2>1, <2>2, ReturnedWalk
<1>4. pc # "queue" => cur # 0
  BY DEF WalkInv, WalkOK
<1>5. CASE Enter
  BY <1>5, SameWalk DEF Enter
<1>6. CASE SetHandler \/ SetJump \/ Spawn \/ MakeHeaders \/ PollReadable \/ Polled \/ PollQuiet
           \/ WriteHeader \/ WritePrefs
  <2>1. UNCHANGED queueVars /\ pc # "queue"
    BY <1>6 DEF SetHandler, SetJump, Spawn, MakeHeaders, PollReadable, Polled, PollQuiet,
                WriteHeader, WritePrefs, At
  <2> QED
    BY <1>4, <2>1, SameWalk
<1>7. CASE Select \/ ReadStatus \/ AssignStatus \/ NotReady \/ ReadHeader \/ ReadData \/ Execute
           \/ WriteResponse \/ Terminate \/ Drain \/ Drained \/ Restore
  <2>1. UNCHANGED queueVars /\ pc # "queue"
    BY <1>7 DEF Select, ReadStatus, AssignStatus, NotReady, ReadHeader, ReadData, Execute,
                WriteResponse, Terminate, Drain, Drained, Restore, At
  <2> QED
    BY <1>4, <2>1, SameWalk
<1>8. CASE HandleSigchld
  <2>1. UNCHANGED queueVars /\ (pc = "queue" => pc' = pc)
    BY <1>8 DEF HandleSigchld, Jump, Dismiss
  <2> QED
    BY <1>4, <2>1, SameWalk
<1>9. CASE ChildStep
  <2>1. UNCHANGED <<queueVars, pc>>
    BY <1>9 DEF ChildStep, PrintLine, Ask, AskMore, Exit, Die
  <2> QED
    BY <1>4, <2>1, SameWalk
<1>10. CASE UNCHANGED vars
  BY <1>4, <1>10, SameWalk DEF vars
<1> QED
  BY <1>1, <1>2, <1>3, <1>5, <1>6, <1>7, <1>8, <1>9, <1>10 DEF Next, ParentStep

(* When run_conduits ends, the conduits that were run are the ones the     *)
(* manual says are run, in their order.                                    *)
THEOREM RunsAsDocumented == Spec => []RanAsDocumented
<1>1. Init => WalkInv
  BY InitWalk
<1>2. WalkInv /\ [Next]_vars => WalkInv'
  BY StepWalk
<1>3. WalkInv => RanAsDocumented
  BY DEF WalkInv, Ascending, RanAsDocumented, Ran
<1> QED
  BY <1>1, <1>2, <1>3, PTL DEF Spec

-----------------------------------------------------------------------------
(* The requests.  While run_conduit serves the child, a request that the   *)
(* child has begun is in one of four stages: its header is on its way, its *)
(* data is, it is about to be executed, or the answer is being written.    *)
Serving == NotForked \cup {"headers", "poll", "polled", "write", "prefs", "select", "status",
                           "assign", "spc", "execute"}
Reading == {"read header", "read data"}

(* What has been executed are whole requests, of different numbers up to   *)
(* `top'.                                                                  *)
Whole(b) ==
    /\ b # <<>> /\ Len(b) = b[1].len /\ \A i \in DOMAIN b : b[i].of \in {b[1].of, 0}
    /\ b[1].of > 0
ExecutedOK(top) ==
    /\ \A k \in DOMAIN executed : Whole(executed[k]) /\ executed[k][1].of <= top
    /\ \A j, k \in DOMAIN executed : j < k => executed[j][1].of < executed[k][1].of

(* All of the items are data of request n, which has length len.           *)
DataOf(s, n, len) == \A i \in DOMAIN s : s[i].of = n /\ s[i].len = len

NoneAsked ==
    asked = answered => spc = "read header" /\ sock = <<>> /\ unsent = <<>> /\ pc # "execute"
HeaderUnread ==
    asked # answered /\ spc = "read header" =>
        /\ sock # <<>> /\ pc # "execute"
        /\ DataOf(sock, asked, sock[1].len) /\ DataOf(unsent, asked, sock[1].len)
        /\ Len(sock) + Len(unsent) = sock[1].len + 1
DataUnread ==
    spc = "read data" /\ pc # "execute" =>
        /\ toread > 0 /\ Len(sock) + Len(unsent) = toread /\ toread <= Len(inbuf)
        /\ DataOf(sock, asked, Len(inbuf)) /\ DataOf(unsent, asked, Len(inbuf))
        /\ \A i \in DOMAIN inbuf : inbuf[i].of \in {asked, 0}
AllRead ==
    pc = "execute" =>
        /\ spc = "read data" /\ sock = <<>> /\ unsent = <<>>
        /\ inbuf # <<>> => Whole(inbuf) /\ inbuf[1].of = asked
Answering ==
    spc \notin Reading => asked # answered /\ sock = <<>> /\ unsent = <<>> /\ pc # "execute"

Requests ==
    /\ asked \in {answered, answered + 1}
    /\ ExecutedOK(asked)
    /\ pc \in Serving =>
          /\ spc \in Reading => ExecutedOK(answered)
          /\ NoneAsked /\ HeaderUnread /\ DataUnread /\ AllRead /\ Answering

(* Steps that neither read nor write the socket, nor make or execute a     *)
(* request, and that do not enter run_conduit.                             *)
LEMMA SameRequests ==
    ASSUME Requests, UNCHANGED <<spc, sock, toread, inbuf, executed, askVars>>,
           pc' \in Serving => pc \in Serving, pc' = "execute" <=> pc = "execute"
    PROVE  Requests'
<1> USE DEF askVars
<1>1. ExecutedOK(asked)' /\ (ExecutedOK(answered) => ExecutedOK(answered)')
  BY DEF Requests, ExecutedOK, Whole
<1>2. ASSUME pc' \in Serving
      PROVE  /\ (spc \in Reading => ExecutedOK(answered))'
             /\ NoneAsked' /\ HeaderUnread' /\ DataUnread' /\ AllRead' /\ Answering'
  <2>1. /\ spc \in Reading => ExecutedOK(answered)
        /\ NoneAsked /\ HeaderUnread /\ DataUnread /\ AllRead /\ Answering
    BY <1>2 DEF Requests
  <2>2. NoneAsked' /\ Answering'
    BY <2>1 DEF NoneAsked, Answering
  <2>3. HeaderUnread'
    BY <2>1 DEF HeaderUnread, DataOf
  <2>4. DataUnread'
    BY <2>1 DEF DataUnread, DataOf
  <2>5. AllRead'
    BY <2>1 DEF AllRead, Whole
  <2> QED
    BY <1>1, <2>1, <2>2, <2>3, <2>4, <2>5
<1> QED
  BY <1>1, <1>2 DEF Requests

(* A new child has asked for nothing.                                      *)
LEMMA EnterRequests == ASSUME Enter PROVE Requests'
<1>1. /\ spc' = "read header" /\ sock' = <<>> /\ unsent' = <<>> /\ asked' = 0 /\ answered' = 0
      /\ executed' = <<>> /\ pc' = "signal"
  BY DEF Enter, Goto
<1>2. DOMAIN executed' = {}
  BY <1>1, EmptySeq
<1>3. ExecutedOK(asked)' /\ ExecutedOK(answered)'
  BY <1>2 DEF ExecutedOK
<1> QED
  BY <1>1, <1>3 DEF Requests, NoneAsked, HeaderUnread, DataUnread, AllRead, Answering, Reading

(* The first element of a sequence.                                        *)
LEMMA FirstElement ==
    ASSUME NEW e
    PROVE  LET s == Append(<<>>, e)
           IN  Len(s) = 1 /\ s[1] = e /\ DOMAIN s = {1} /\ s # <<>>
<1> DEFINE s == Append(<<>>, e)
<1>1. <<>> \in Seq({e}) /\ Len(<<>>) = 0
  OBVIOUS
<1>2. /\ s \in Seq({e}) /\ Len(s) = 0 + 1 /\ s[0 + 1] = e
      /\ DOMAIN s = 1 .. 0 + 1
  BY <1>1
<1> QED
  BY <1>2

(* The child begins a request when it has the answer to the one before, so *)
(* nothing of that one is left.                                            *)
LEMMA AskRequests == ASSUME RequestsOK, Requests, Ask PROVE Requests'
<1>1. PICK len \in Lengths : sock' = Append(sock, Header(asked + 1, len)) /\ unsent' = Data(asked + 1, len)
  BY DEF Ask
<1>2. /\ asked = answered /\ asked' = asked + 1
      /\ UNCHANGED <<pc, spc, toread, inbuf, executed, answered>>
  BY DEF Ask, spcVars
<1>3. asked \in Nat /\ len \in Nat /\ executed \in Seq(Seq(Item))
  BY RunnerAssumption DEF RequestsOK, RunnerAssumption
<1>4. ExecutedOK(answered) /\ ExecutedOK(asked)
  BY <1>2 DEF Requests
<1>5. \A k \in DOMAIN executed : executed[k] \in Seq(Item) /\ executed[k] # <<>> /\ executed[k][1].of \in Nat
  <2>1. \A k \in DOMAIN executed : executed[k] \in Seq(Item) /\ executed[k] # <<>>
    BY <1>3, <1>4 DEF ExecutedOK, Whole
  <2>2. \A k \in DOMAIN executed : executed[k][1] \in Item
    BY <2>1
  <2> QED
    BY <2>1, <2>2 DEF Item
<1>6. ExecutedOK(answered)' /\ ExecutedOK(asked)'
  BY <1>2, <1>3, <1>4, <1>5 DEF ExecutedOK, Whole
<1>7. ASSUME pc' \in Serving
      PROVE  /\ (spc \in Reading => ExecutedOK(answered))'
             /\ NoneAsked' /\ HeaderUnread' /\ DataUnread' /\ AllRead' /\ Answering'
  <2>1. spc = "read header" /\ sock = <<>> /\ pc # "execute"
    BY <1>2, <1>7 DEF Requests, NoneAsked
  <2>2. /\ Len(sock') = 1 /\ sock'[1] = Header(asked + 1, len) /\ DOMAIN sock' = {1} /\ sock' # <<>>
    BY <1>1, <2>1, FirstElement
  <2>3. /\ Len(unsent') = len
        /\ \A i \in DOMAIN unsent' : unsent'[i].of = asked + 1 /\ unsent'[i].len = len
    BY <1>1, <1>3 DEF Data
  <2>4. sock'[1].of = asked + 1 /\ sock'[1].len = len
    BY <2>2 DEF Header
  <2>5. DataOf(sock, asked, len)' /\ DataOf(unsent, asked, len)'
    BY <1>2, <2>2, <2>3, <2>4 DEF DataOf
  <2>6. HeaderUnread'
    <3>1. Len(sock') + Len(unsent') = len + 1
      BY <1>3, <2>2, <2>3
    <3> QED
      BY <1>2, <2>1, <2>2, <2>4, <2>5, <3>1 DEF HeaderUnread, DataOf
  <2>7. asked' # answered'
    BY <1>2, <1>3
  <2> QED
    BY <1>2, <1>6, <2>1, <2>6, <2>7 DEF NoneAsked, DataUnread, AllRead, Answering, Reading
<1> QED
  BY <1>2, <1>3, <1>6, <1>7 DEF Requests

(* Moving a piece of one sequence to the end of another keeps the elements *)
(* and their number.                                                       *)
LEMMA MovePiece ==
    ASSUME NEW s \in Seq(Item), NEW u \in Seq(Item), NEW k \in 1 .. Len(u), NEW n, NEW len,
           DataOf(s, n, len), DataOf(u, n, len)
    PROVE  LET s2 == s \o SubSeq(u, 1, k)
               u2 == SubSeq(u, k + 1, Len(u))
           IN  /\ Len(s2) + Len(u2) = Len(s) + Len(u) /\ s2 # <<>>
               /\ (s # <<>> => s2[1] = s[1])
               /\ DataOf(s2, n, len) /\ DataOf(u2, n, len)
<1> DEFINE a == SubSeq(u, 1, k)
           u2 == SubSeq(u, k + 1, Len(u))
           s2 == s \o a
<1>1. k \in Nat /\ Len(u) \in Nat /\ Len(s) \in Nat /\ k <= Len(u) /\ k >= 1
  OBVIOUS
<1>2. a \in Seq(Item) /\ Len(a) = k /\ DOMAIN a = 1 .. k /\ \A i \in 1 .. k : a[i] = u[i]
  BY <1>1
<1>3. /\ u2 \in Seq(Item) /\ Len(u2) = Len(u) - k /\ DOMAIN u2 = 1 .. Len(u) - k
      /\ \A i \in 1 .. Len(u) - k : u2[i] = u[i + k]
  BY <1>1
<1>4. DataOf(u2, n, len)
  <2>1. \A i \in 1 .. Len(u) - k : i + k \in DOMAIN u
    BY <1>1
  <2> QED
    BY <1>3, <2>1 DEF DataOf
<1>5. DataOf(a, n, len)
  <2>1. \A i \in 1 .. k : i \in DOMAIN u
    BY <1>1
  <2> QED
    BY <1>2, <2>1 DEF DataOf
<1> HIDE DEF a, u2
<1>6. /\ s2 \in Seq(Item) /\ Len(s2) = Len(s) + k /\ DOMAIN s2 = 1 .. Len(s) + k
      /\ \A i \in DOMAIN s : s2[i] = s[i]
      /\ \A i \in DOMAIN s2 : i \in DOMAIN s \/ (i - Len(s) \in DOMAIN a /\ s2[i] = a[i - Len(s)])
  BY <1>1, <1>2
<1>7. DataOf(s2, n, len)
  BY <1>5, <1>6 DEF DataOf
<1>8. s2 # <<>> /\ (s # <<>> => s2[1] = s[1])
  BY <1>1, <1>6
<1>9. Len(s2) + Len(u2) = Len(s) + Len(u)
  BY <1>1, <1>3, <1>6
<1> HIDE DEF s2
<1>10. s2 = s \o SubSeq(u, 1, k) /\ u2 = SubSeq(u, k + 1, Len(u))
  BY DEF s2, a, u2
<1> QED
  BY <1>4, <1>7, <1>8, <1>9, <1>10

(* More of the data is on its way to the socket.                           *)
LEMMA AskMoreRequests == ASSUME RequestsOK, Requests, AskMore PROVE Requests'
<1>1. unsent \in Seq(Item) /\ unsent # <<>> /\ sock \in Seq(Item)
      /\ UNCHANGED <<pc, spc, toread, inbuf, executed, asked, answered>>
  BY DEF RequestsOK, AskMore, spcVars
<1>2. PICK k \in 1 .. Len(unsent) : /\ sock' = sock \o SubSeq(unsent, 1, k)
                                    /\ unsent' = SubSeq(unsent, k + 1, Len(unsent))
  <2>1. Len(unsent) \in 1 .. Len(unsent)
    BY <1>1
  <2> QED
    BY <2>1 DEF AskMore
<1>3. ExecutedOK(asked)' /\ (ExecutedOK(answered) => ExecutedOK(answered)')
  BY <1>1 DEF Requests, ExecutedOK, Whole
<1>4. ASSUME pc' \in Serving
      PROVE  /\ (spc \in Reading => ExecutedOK(answered))'
             /\ NoneAsked' /\ HeaderUnread' /\ DataUnread' /\ AllRead' /\ Answering'
  <2>1. /\ spc \in Reading => ExecutedOK(answered)
        /\ NoneAsked /\ HeaderUnread /\ DataUnread /\ AllRead /\ Answering
    BY <1>1, <1>4 DEF Requests
  <2>2. asked # answered /\ pc # "execute" /\ spc \in Reading
    BY <1>1, <2>1 DEF NoneAsked, AllRead, Answering
  <2>3. NoneAsked' /\ AllRead' /\ Answering'
    BY <1>1, <2>2 DEF NoneAsked, AllRead, Answering
  <2>4. HeaderUnread'
    <3>1. SUFFICES ASSUME spc = "read header" PROVE HeaderUnread'
      BY <1>1 DEF HeaderUnread
    <3>2. /\ sock # <<>> /\ DataOf(sock, asked, sock[1].len) /\ DataOf(unsent, asked, sock[1].len)
          /\ Len(sock) + Len(unsent) = sock[1].len + 1
      BY <2>1, <2>2, <3>1 DEF HeaderUnread
    <3>3. PICK len : len = sock[1].len
      OBVIOUS
    <3>4. /\ Len(sock') + Len(unsent') = Len(sock) + Len(unsent) /\ sock' # <<>>
          /\ sock'[1] = sock[1] /\ DataOf(sock', asked, len) /\ DataOf(unsent', asked, len)
      BY <1>1, <1>2, <3>2, <3>3, MovePiece
    <3> QED
      BY <1>1, <2>2, <3>2, <3>3, <3>4 DEF HeaderUnread, DataOf
  <2>5. DataUnread'
    <3>1. SUFFICES ASSUME spc = "read data" PROVE DataUnread'
      BY <1>1 DEF DataUnread
    <3>2. /\ toread > 0 /\ Len(sock) + Len(unsent) = toread /\ toread <= Len(inbuf)
          /\ DataOf(sock, asked, Len(inbuf)) /\ DataOf(unsent, asked, Len(inbuf))
          /\ \A i \in DOMAIN inbuf : inbuf[i].of \in {asked, 0}
      BY <2>1, <2>2, <3>1 DEF DataUnread
    <3>3. PICK len : len = Len(inbuf)
      OBVIOUS
    <3>4. /\ Len(sock') + Len(unsent') = Len(sock) + Len(unsent)
          /\ DataOf(sock', asked, len) /\ DataOf(unsent', asked, len)
      BY <1>1, <1>2, <3>2, <3>3, MovePiece
    <3> QED
      BY <1>1, <3>2, <3>3, <3>4 DEF DataUnread, DataOf
  <2> QED
    BY <1>1, <1>3, <2>1, <2>3, <2>4, <2>5
<1> QED
  BY <1>1, <1>3, <1>4 DEF Requests

(* What Head and Tail return.                                              *)
LEMMA HeadAndTail ==
    ASSUME NEW S, NEW s \in Seq(S), s # <<>>
    PROVE  /\ Len(s) \in Nat /\ Len(s) > 0 /\ DOMAIN s = 1 .. Len(s)
           /\ Head(s) = s[1] /\ s[1] \in S /\ Tail(s) \in Seq(S) /\ Len(Tail(s)) = Len(s) - 1
           /\ DOMAIN Tail(s) = 1 .. Len(s) - 1
           /\ \A i \in DOMAIN Tail(s) : i + 1 \in DOMAIN s /\ Tail(s)[i] = s[i + 1]
<1>1. Len(s) \in Nat /\ Len(s) > 0 /\ DOMAIN s = 1 .. Len(s) /\ Head(s) = s[1] /\ s[1] \in S
  OBVIOUS
<1>2. Tail(s) \in Seq(S) /\ Len(Tail(s)) = Len(s) - 1 /\ DOMAIN Tail(s) = 1 .. Len(s) - 1
  BY <1>1
<1>3. \A i \in 1 .. Len(s) - 1 : i + 1 \in DOMAIN s /\ Tail(s)[i] = s[i + 1]
  BY <1>1
<1> QED
  BY <1>1, <1>2, <1>3

(* A sequence is empty when its length is 0.                               *)
LEMMA NoLength == ASSUME NEW S, NEW s \in Seq(S) PROVE Len(s) = 0 <=> s = <<>>
OBVIOUS

(* The header tells how much data follows.                                 *)
LEMMA ReadHeaderRequests == ASSUME RequestsOK, Requests, ReadHeader PROVE Requests'
<1>1. /\ pc = "spc" /\ spc = "read header" /\ sock # <<>> /\ sock' = Tail(sock) /\ spc' = "read data"
      /\ toread' = Head(sock).len /\ inbuf' = [i \in 1 .. Head(sock).len |-> Garbage]
      /\ pc' = IF Head(sock).len = 0 THEN "execute" ELSE "select"
      /\ UNCHANGED <<executed, asked, answered, unsent>>
  BY DEF ReadHeader, At, Goto, askVars
<1>2. sock \in Seq(Item) /\ unsent \in Seq(Item)
  BY DEF RequestsOK
<1>3. PICK len : len = Head(sock).len
  OBVIOUS
<1>4. /\ Len(sock) \in Nat /\ Len(sock) > 0 /\ Len(Tail(sock)) = Len(sock) - 1 /\ Head(sock) = sock[1]
      /\ DOMAIN sock = 1 .. Len(sock) /\ DOMAIN Tail(sock) = 1 .. Len(sock) - 1
      /\ \A i \in DOMAIN Tail(sock) : Tail(sock)[i] = sock[i + 1] /\ i + 1 \in DOMAIN sock
      /\ Len(unsent) \in Nat /\ sock[1] \in Item /\ Tail(sock) \in Seq(Item)
  <2>1. Len(unsent) \in Nat
    BY <1>2
  <2> QED
    BY <1>1, <1>2, <2>1, HeadAndTail
<1>5. len \in Nat
  BY <1>3, <1>4 DEF Item
<1>6. /\ ExecutedOK(answered) /\ ExecutedOK(asked) /\ asked # answered /\ asked \in {answered, answered + 1}
      /\ DataOf(sock, asked, len) /\ DataOf(unsent, asked, len)
      /\ Len(sock) + Len(unsent) = len + 1
  BY <1>1, <1>3, <1>4 DEF Requests, Serving, Reading, NoneAsked, HeaderUnread
<1> DEFINE n == Len(sock)
           m == Len(unsent)
<1>0. n \in Nat /\ n > 0 /\ m \in Nat /\ Len(Tail(sock)) = n - 1 /\ n + m = len + 1
  BY <1>4, <1>6
<1>7. ExecutedOK(answered)' /\ ExecutedOK(asked)'
  BY <1>1, <1>6 DEF ExecutedOK, Whole
<1>8. NoneAsked' /\ HeaderUnread' /\ Answering'
  BY <1>1, <1>6 DEF NoneAsked, HeaderUnread, Answering, Reading
<1>9. Len(inbuf') = len /\ DOMAIN inbuf' = 1 .. len /\ \A i \in 1 .. len : inbuf'[i].of = 0
  <2>1. inbuf' = [i \in 1 .. len |-> Garbage] /\ Garbage.of = 0
    BY <1>1, <1>3 DEF Garbage
  <2> QED
    BY <1>5, <2>1
<1>10. DataOf(Tail(sock), asked, len)
  BY <1>4, <1>6 DEF DataOf
<1>11. Len(sock') + Len(unsent') = len
  <2>1. Len(sock') = Len(sock) - 1 /\ Len(unsent') = Len(unsent)
    BY <1>1, <1>4
  <2> QED
    BY <1>4, <1>5, <1>6, <2>1
<1>12. DataUnread'
  <2>1. SUFFICES ASSUME len # 0 PROVE DataUnread'
    BY <1>1, <1>3 DEF DataUnread
  <2>2. toread' = len /\ len > 0
    <3>1. toread' = len
      BY <1>1, <1>3
    <3> QED
      BY <1>5, <2>1, <3>1
  <2>3. DataOf(sock, asked, Len(inbuf))' /\ DataOf(unsent, asked, Len(inbuf))'
    BY <1>1, <1>6, <1>9, <1>10 DEF DataOf
  <2>4. \A i \in DOMAIN inbuf' : inbuf'[i].of \in {asked', 0}
    BY <1>9
  <2> QED
    <3> HIDE DEF n, m
    <3>1. toread' <= Len(inbuf') /\ toread' > 0 /\ Len(sock') + Len(unsent') = toread'
      BY <1>5, <1>9, <1>11, <2>2
    <3> QED
      BY <2>3, <2>4, <3>1 DEF DataUnread
<1>13. AllRead'
  <2>1. SUFFICES ASSUME len = 0 PROVE AllRead'
    BY <1>1, <1>3 DEF AllRead
  <2>2. Len(Tail(sock)) = 0 /\ Len(unsent) = 0
    <3> HIDE DEF n, m
    <3>1. n = 1 /\ m = 0
      BY <1>0, <2>1
    <3> QED
      BY <1>0, <3>1 DEF n, m
  <2>3. sock' = <<>> /\ unsent' = <<>>
    BY <1>1, <1>2, <1>4, <2>2, NoLength
  <2>4. inbuf' = <<>>
    <3>1. inbuf' = [i \in 1 .. 0 |-> Garbage]
      BY <1>1, <1>3, <2>1
    <3> QED
      BY <3>1
  <2> QED
    BY <1>1, <2>3, <2>4 DEF AllRead
<1> QED
  BY <1>1, <1>6, <1>7, <1>8, <1>12, <1>13 DEF Requests

(* The last piece to arrive is at the start of the buffer, whatever is     *)
(* behind it.                                                              *)
LEMMA ReadDataRequests == ASSUME RequestsOK, Requests, ReadData PROVE Requests'
<1> DEFINE k == IF Len(sock) < toread THEN Len(sock) ELSE toread
<1>1. /\ pc = "spc" /\ spc = "read data" /\ sock # <<>> /\ sock' = SubSeq(sock, k + 1, Len(sock))
      /\ toread' = toread - k /\ pc' = IF k < toread THEN "select" ELSE "execute"
      /\ inbuf' = [i \in DOMAIN inbuf |-> IF i <= k THEN sock[i] ELSE inbuf[i]]
      /\ UNCHANGED <<executed, asked, answered, unsent, spc>>
  BY DEF ReadData, At, Goto, askVars
<1>2. /\ sock \in Seq(Item) /\ unsent \in Seq(Item) /\ inbuf \in Seq(Item) /\ toread \in Nat
      /\ Len(sock) \in Nat /\ Len(unsent) \in Nat /\ Len(inbuf) \in Nat
      /\ DOMAIN inbuf = 1 .. Len(inbuf) /\ DOMAIN sock = 1 .. Len(sock)
  BY DEF RequestsOK
<1>3. /\ ExecutedOK(answered) /\ ExecutedOK(asked) /\ asked \in {answered, answered + 1}
      /\ toread > 0 /\ Len(sock) + Len(unsent) = toread /\ toread <= Len(inbuf)
      /\ DataOf(sock, asked, Len(inbuf)) /\ DataOf(unsent, asked, Len(inbuf))
      /\ \A i \in DOMAIN inbuf : inbuf[i].of \in {asked, 0}
  BY <1>1 DEF Requests, Serving, Reading, DataUnread
<1>4. asked # answered
  BY <1>1 DEF Requests, Serving, NoneAsked
<1>5. k = Len(sock) /\ k > 0 /\ k <= toread
  <2>1. PICK n : n = Len(sock)
    OBVIOUS
  <2>2. PICK m : m = Len(unsent)
    OBVIOUS
  <2>3. n # 0
    BY <1>1, <1>2, <2>1, NoLength
  <2>4. n \in Nat /\ m \in Nat /\ n + m = toread /\ toread \in Nat
    BY <1>2, <1>3, <2>1, <2>2
  <2>5. k = IF n < toread THEN n ELSE toread
    BY <2>1
  <2> HIDE DEF k
  <2>6. k = n /\ k > 0 /\ k <= toread
    BY <2>3, <2>4, <2>5
  <2> QED
    BY <2>1, <2>6
<1> HIDE DEF k
<1>6. sock' = <<>> /\ Len(sock') = 0 /\ DOMAIN sock' = {}
  <2>1. SubSeq(sock, Len(sock) + 1, Len(sock)) = <<>>
    BY <1>2
  <2> QED
    BY <1>1, <1>5, <2>1, EmptySeq
<1>7. ExecutedOK(answered)' /\ ExecutedOK(asked)'
  BY <1>1, <1>3 DEF ExecutedOK, Whole
<1>8. NoneAsked' /\ HeaderUnread' /\ Answering'
  BY <1>1, <1>4 DEF NoneAsked, HeaderUnread, Answering, Reading
<1>9. /\ Len(inbuf') = Len(inbuf) /\ DOMAIN inbuf' = DOMAIN inbuf
      /\ \A i \in DOMAIN inbuf : inbuf'[i] = IF i <= k THEN sock[i] ELSE inbuf[i]
  <2>1. PICK n : n = Len(inbuf)
    OBVIOUS
  <2>2. n \in Nat /\ inbuf' = [i \in 1 .. n |-> IF i <= k THEN sock[i] ELSE inbuf[i]]
    BY <1>1, <1>2, <2>1
  <2> QED
    BY <1>2, <2>1, <2>2
<1>10. \A i \in DOMAIN inbuf' : inbuf'[i].of \in {asked, 0}
  <2>1. \A i \in DOMAIN inbuf : i <= k => sock[i].of = asked
    BY <1>2, <1>3, <1>5 DEF DataOf
  <2> QED
    BY <1>3, <1>9, <2>1
<1>11. DataUnread'
  <2>1. SUFFICES ASSUME k < toread PROVE DataUnread'
    BY <1>1 DEF DataUnread
  <2>2. toread' > 0 /\ Len(sock') + Len(unsent') = toread' /\ toread' <= Len(inbuf')
    <3>1. PICK m : m = Len(unsent)
      OBVIOUS
    <3>2. PICK n : n = Len(inbuf)
      OBVIOUS
    <3>3. /\ toread' = toread - k /\ toread \in Nat /\ k + m = toread /\ toread <= n /\ n \in Nat
          /\ m \in Nat /\ k < toread /\ k > 0 /\ k \in Nat
      BY <1>1, <1>2, <1>3, <1>5, <2>1, <3>1, <3>2
    <3>4. toread' > 0 /\ m = toread' /\ toread' <= n
      BY <3>3
    <3>5. Len(unsent') = m /\ Len(sock') = 0 /\ Len(inbuf') = n
      BY <1>1, <1>6, <1>9, <3>1, <3>2
    <3> QED
      BY <3>3, <3>4, <3>5
  <2>3. DataOf(sock, asked, Len(inbuf))' /\ DataOf(unsent, asked, Len(inbuf))'
    BY <1>1, <1>3, <1>6, <1>9 DEF DataOf
  <2> QED
    BY <1>1, <1>10, <2>2, <2>3 DEF DataUnread
<1>12. AllRead'
  <2>1. SUFFICES ASSUME ~(k < toread) PROVE AllRead'
    BY <1>1 DEF AllRead
  <2>2. unsent' = <<>>
    <3>1. PICK m : m = Len(unsent)
      OBVIOUS
    <3>2. toread \in Nat /\ k + m = toread /\ m \in Nat /\ ~(k < toread) /\ k \in Nat
      BY <1>1, <1>2, <1>3, <1>5, <2>1, <3>1
    <3>3. m = 0
      BY <3>2
    <3> QED
      BY <1>1, <1>2, <3>1, <3>3, NoLength
  <2>3. 1 \in DOMAIN inbuf /\ 1 \in DOMAIN sock /\ 1 <= k
    BY <1>2, <1>3, <1>5
  <2>4. inbuf'[1] = sock[1]
    BY <1>9, <2>3
  <2>5. inbuf'[1].of = asked /\ inbuf'[1].len = Len(inbuf')
    BY <1>3, <1>9, <2>3, <2>4 DEF DataOf
  <2>6. inbuf' # <<>>
    BY <1>2, <1>3, <1>9, EmptySeq
  <2>7. asked \in Nat /\ answered \in Nat /\ asked > 0
    BY <1>3, <1>4 DEF RequestsOK
  <2>8. Whole(inbuf')
    BY <1>10, <2>5, <2>6, <2>7 DEF Whole
  <2> QED
    BY <1>1, <1>6, <2>2, <2>5, <2>8 DEF AllRead
<1> QED
  BY <1>1, <1>3, <1>7, <1>8, <1>11, <1>12 DEF Requests

(* What is executed belongs to the request the child waits for.            *)
LEMMA ExecuteRequests == ASSUME RequestsOK, Requests, Execute PROVE Requests'
<1>1. /\ pc = "execute" /\ inbuf' = <<>> /\ UNCHANGED <<sock, toread, asked, answered, unsent>>
      /\ pc' \in {"select", "early"}
  BY DEF Execute, At, Goto, askVars
<1>2. /\ ExecutedOK(answered) /\ ExecutedOK(asked) /\ asked \in {answered, answered + 1}
      /\ asked # answered /\ spc = "read data" /\ sock = <<>> /\ unsent = <<>>
      /\ inbuf # <<>> => Whole(inbuf) /\ inbuf[1].of = asked
  BY <1>1 DEF Requests, Serving, Reading, NoneAsked, AllRead
<1>3. /\ executed \in Seq(Seq(Item)) /\ inbuf \in Seq(Item) /\ asked \in Nat /\ answered \in Nat
      /\ asked = answered + 1
  BY <1>2 DEF RequestsOK
<1>4. ASSUME UNCHANGED executed PROVE ExecutedOK(asked)'
  BY <1>1, <1>2, <1>4 DEF ExecutedOK, Whole
<1>5. ASSUME inbuf # <<>>, executed' = Append(executed, inbuf) PROVE ExecutedOK(asked)'
  <2>1. PICK b : b = inbuf
    OBVIOUS
  <2>2. /\ DOMAIN executed = 1 .. Len(executed) /\ DOMAIN executed' = 1 .. Len(executed) + 1
        /\ Len(executed) \in Nat /\ executed'[Len(executed) + 1] = b
        /\ \A k \in DOMAIN executed : executed'[k] = executed[k] /\ executed[k] \in Seq(Item)
    BY <1>3, <1>5, <2>1
  <2>3. Whole(b) /\ b[1].of = asked
    BY <1>2, <1>5, <2>1
  <2>4. \A k \in DOMAIN executed : executed[k] # <<>> /\ executed[k][1] \in Item
    <3>1. SUFFICES ASSUME NEW k \in DOMAIN executed PROVE executed[k] # <<>> /\ executed[k][1] \in Item
      OBVIOUS
    <3>2. executed[k] # <<>> /\ executed[k] \in Seq(Item)
      BY <1>2, <2>2 DEF ExecutedOK, Whole
    <3> QED
      BY <3>2, HeadAndTail
  <2>5. \A k \in DOMAIN executed : /\ Whole(executed[k]) /\ executed[k][1].of \in Nat
                                   /\ executed[k][1].of <= answered
    BY <1>2, <2>4 DEF ExecutedOK, Item
  <2>6. ASSUME NEW k \in DOMAIN executed' PROVE Whole(executed'[k]) /\ executed'[k][1].of <= asked
    <3>1. CASE k = Len(executed) + 1
      <4>1. executed'[k] = b
        BY <2>2, <3>1
      <4> QED
        BY <1>3, <2>3, <4>1
    <3>2. CASE k \in DOMAIN executed
      <4>1. executed'[k] = executed[k] /\ Whole(executed[k])
        BY <2>2, <2>5, <3>2
      <4>2. executed[k][1].of <= asked
        BY <1>3, <2>5, <3>2
      <4> QED
        BY <4>1, <4>2
    <3> QED
      BY <2>2, <2>6, <3>1, <3>2
  <2>7. \A j, k \in DOMAIN executed' : j < k => executed'[j][1].of < executed'[k][1].of
    <3>1. \A j, k \in DOMAIN executed : j < k => executed[j][1].of < executed[k][1].of
      BY <1>2 DEF ExecutedOK
    <3>2. \A j \in DOMAIN executed : executed[j][1].of < asked
      BY <1>3, <2>5
    <3>3. SUFFICES ASSUME NEW j \in DOMAIN executed', NEW k \in DOMAIN executed', j < k
                   PROVE  executed'[j][1].of < executed'[k][1].of
      OBVIOUS
    <3>4. CASE k = Len(executed) + 1
      BY <2>2, <2>3, <3>2, <3>3, <3>4
    <3>5. CASE k # Len(executed) + 1
      BY <2>2, <3>1, <3>3, <3>5
    <3> QED
      BY <3>4, <3>5
  <2> QED
    BY <1>1, <2>6, <2>7 DEF ExecutedOK, Whole
<1>6. ExecutedOK(asked)'
  <2>1. UNCHANGED executed \/ (inbuf # <<>> /\ executed' = Append(executed, inbuf))
    BY DEF Execute
  <2> QED
    BY <1>4, <1>5, <2>1
<1>7. CASE pc' = "early"
  BY <1>1, <1>2, <1>6, <1>7 DEF Requests, Serving, NotForked
<1>8. CASE pc' = "select"
  <2>1. spc' = "write header"
    BY <1>8 DEF Execute, Goto
  <2>2. NoneAsked' /\ HeaderUnread' /\ DataUnread' /\ AllRead' /\ Answering'
    BY <1>1, <1>2, <1>8, <2>1 DEF NoneAsked, HeaderUnread, DataUnread, AllRead, Answering, Reading
  <2> QED
    BY <1>1, <1>2, <1>6, <2>1, <2>2 DEF Requests, Reading
<1> QED
  BY <1>1, <1>7, <1>8

(* With the answer the child may begin another request.                    *)
LEMMA WriteResponseRequests == ASSUME RequestsOK, Requests, WriteResponse PROVE Requests'
<1>1. /\ pc = "spc" /\ spc \in {"write header", "write data"} /\ pc' = "select"
      /\ UNCHANGED <<sock, toread, inbuf, executed, asked, unsent>>
      /\ \/ spc' = "write data" /\ answered' = answered
         \/ spc' = "read header" /\ answered' = answered + 1
  BY DEF WriteResponse, At, Goto
<1>2. /\ ExecutedOK(asked) /\ asked # answered /\ sock = <<>> /\ unsent = <<>>
      /\ asked = answered + 1
  BY <1>1 DEF Requests, Serving, Reading, Answering
<1>3. ExecutedOK(asked)' /\ (asked' = answered' => ExecutedOK(answered)')
  BY <1>1, <1>2 DEF ExecutedOK, Whole
<1>4. asked \in Nat /\ answered \in Nat
  BY DEF RequestsOK
<1>5. spc' = "write data" => asked' # answered'
  BY <1>1, <1>2, <1>4
<1>6. spc' = "read header" => asked' = answered'
  BY <1>1, <1>2
<1>7. NoneAsked' /\ HeaderUnread' /\ DataUnread' /\ AllRead' /\ Answering'
  BY <1>1, <1>2, <1>5, <1>6 DEF NoneAsked, HeaderUnread, DataUnread, AllRead, Answering, Reading
<1>8. asked' \in {answered', answered' + 1}
  BY <1>1, <1>2
<1> QED
  BY <1>1, <1>3, <1>6, <1>7, <1>8 DEF Requests, Reading

(* Nothing else concerns the requests, and once run_conduit has stopped    *)
(* serving the child it does not begin again.                              *)
LEMMA StepRequests == ASSUME RequestsOK, Requests, [Next]_vars PROVE Requests'
<1> DEFINE Same == UNCHANGED <<spc, sock, toread, inbuf, executed, askVars>>
<1>1. CASE QueueStep \/ RunInside
  <2>1. Same /\ pc' = pc
    BY <1>1 DEF QueueStep, RunInside, runVars, spcVars
  <2> QED
    BY <2>1, SameRequests
<1>2. CASE Enter
  BY <1>2, EnterRequests
<1>3. CASE SetHandler \/ SetJump \/ Spawn \/ MakeHeaders \/ PollReadable \/ Polled \/ PollQuiet
           \/ WriteHeader \/ WritePrefs
  <2>1. Same /\ pc \in Serving /\ pc # "execute" /\ pc' # "execute"
    BY <1>3 DEF SetHandler, SetJump, Spawn, MakeHeaders, PollReadable, Polled, PollQuiet,
                WriteHeader, WritePrefs, At, Goto, spcVars, Serving, NotForked
  <2> QED
    BY <2>1, SameRequests
<1>4. CASE Select \/ ReadStatus \/ AssignStatus \/ NotReady
  <2>1. Same /\ pc \in Serving /\ pc # "execute" /\ pc' # "execute"
    BY <1>4 DEF Select, ReadStatus, AssignStatus, NotReady, At, Goto, spcVars, Serving
  <2> QED
    BY <2>1, SameRequests
<1>5. CASE EarlyReturn \/ Terminate \/ Drain \/ Drained \/ Restore \/ CloseAndReturn
  <2>1. Same /\ pc' \notin Serving /\ pc # "execute" /\ pc' # "execute"
    BY <1>5 DEF EarlyReturn, Terminate, Drain, Drained, Restore, CloseAndReturn, At, Goto, runVars,
                spcVars, Serving, NotForked
  <2> QED
    BY <2>1, SameRequests
<1>6. CASE HandleSigchld
  <2>1. Same
    BY <1>6 DEF HandleSigchld
  <2>2. pc' = pc \/ (pc = "select" /\ pc' = "status") \/ pc' = "abort"
    BY <1>6 DEF HandleSigchld, Jump, Dismiss, Goto
  <2>3. CASE pc' # "abort"
    BY <2>1, <2>2, <2>3, SameRequests DEF Serving
  <2>4. CASE pc' = "abort"
    <3>1. asked' \in {answered', answered' + 1} /\ ExecutedOK(asked)'
      BY <2>1 DEF Requests, ExecutedOK, Whole, askVars
    <3> QED
      BY <2>4, <3>1 DEF Requests, Serving, NotForked
  <2> QED
    BY <2>3, <2>4
<1>7. CASE PrintLine \/ \E k \in Frames : Exit(k) \/ Die(k)
  <2>1. Same /\ pc' = pc
    BY <1>7 DEF PrintLine, Exit, Die, spcVars
  <2> QED
    BY <2>1, SameRequests
<1>8. CASE UNCHANGED vars
  <2>1. Same /\ pc' = pc
    BY <1>8 DEF vars, spcVars
  <2> QED
    BY <2>1, SameRequests
<1> QED
  BY <1>1, <1>2, <1>3, <1>4, <1>5, <1>6, <1>7, <1>8, ReadHeaderRequests, ReadDataRequests,
     ExecuteRequests, WriteResponseRequests, AskRequests, AskMoreRequests
     DEF Next, ParentStep, ChildStep

(* Whatever the pieces it arrives in and whenever the child dies, what     *)
(* goes to the Palm is the data of one request each time, as long as       *)
(* announced, in the order the child has made them and none twice.         *)
THEOREM RequestsKeepOrder == Spec => []RequestsInOrder
<1>1. Init => Requests
  <2> SUFFICES ASSUME Init PROVE Requests
    OBVIOUS
  <2>1. DOMAIN executed = {} /\ asked = 0 /\ answered = 0 /\ pc = "queue"
    BY EmptySeq DEF Init
  <2> QED
    BY <2>1 DEF Requests, ExecutedOK, Serving, NotForked
<1>2. TypeOK /\ Requests /\ [Next]_vars => Requests'
  BY StepRequests DEF TypeOK
<1>3. Requests => RequestsInOrder
  BY DEF Requests, ExecutedOK, Whole, RequestsInOrder
<1> QED
  BY <1>1, <1>2, <1>3, TypeCorrect, PTL DEF Spec
=============================================================================
