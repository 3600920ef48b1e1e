---------------------------- MODULE ConduitRunner ----------------------------
(***************************************************************************)
(* Running conduits: run_conduit, spawn_conduit, cond_readline and         *)
(* sigchld_handler (src/src/conduit.c), and spc_send (src/src/spc.c).      *)
(*                                                                         *)
(* A conduit is a child process.  ColdSync writes headers and preferences  *)
(* to its standard input, reads lines that begin with a status code from   *)
(* its standard output, and carries out its SPC requests, which arrive on  *)
(* a socket.  When the child dies, the handler of SIGCHLD reaps it and     *)
(* jumps from wherever the program is to the end of run_conduit.           *)
(*                                                                         *)
(* A "frame" is one activation of run_conduit; it has the number of the    *)
(* child it forks.  A status line is known by its number, 0 being the 501  *)
(* that laststatus starts with.                                            *)
(***************************************************************************)
EXTENDS ConduitQueue

CONSTANTS
    WithSpc,     \* the flavor allows SPC calls
    Failures,    \* what can fail: subset of FailureKinds
    Headers,     \* headers sent to a conduit
    PipeSize,    \* lines the child's standard output can hold
    Lengths,     \* the lengths of the data of SPC requests
    InPieces,    \* can the data of a request arrive in more than one piece?
    MaxFrames,   \* bound: programs run
    MaxLines,    \* bound: status lines a child prints
    MaxRequests  \* bound: SPC requests a child makes

FailureKinds == {"pipe", "fork", "preference", "connection"}

ASSUME RunnerAssumption ==
    /\ WithSpc \in BOOLEAN /\ Failures \subseteq FailureKinds
    /\ Headers \in Nat \ {0} /\ PipeSize \in Nat \ {0} /\ Lengths \subseteq Nat
    /\ InPieces \in BOOLEAN
    /\ MaxFrames \in Nat /\ MaxLines \in Nat /\ MaxRequests \in Nat

Frames == 1 .. MaxFrames

VARIABLES
    pc,       \* where run_conduit is; "queue" outside of it
    frame,    \* the current activation, or the last one
    handler,  \* the disposition of SIGCHLD: "default" or "ours"
    old,      \* old_sigchld of the current activation
    canjump,  \* canjump
    jump,     \* the activation whose sigsetjmp filled chld_jmpbuf, or 0
    masked,   \* SIGCHLD is blocked
    leaked,   \* it was left blocked for good
    sig,      \* a SIGCHLD is pending
    pid,      \* conduit_pid: the number of a child, or 0 for none
    kid,      \* the state of each child
    files,    \* the activations whose tochild and fromchild are open
    left,     \* headers left to send
    pipe,     \* the child's standard output: lines not read yet
    buf,      \* the lines stdio has read of it
    line,     \* the line in hand, EOF, or 0
    last,     \* laststatus
    printed,  \* lines the child has printed
    spc,      \* spc_state
    ready,    \* the result of select() for the SPC socket
    sock,     \* what the child has written to the socket
    unsent,   \* what it has still to write of its request
    asked,    \* requests it has begun
    answered, \* requests it has the answer to
    toread,   \* spc_toread
    inbuf,    \* spc_inbuf
    executed, \* ghost: the data spc_send has sent to the Palm for this child
    killed,   \* ghost: the children sent SIGTERM, each with its state then
    crashed   \* "no", or how the program ended

sigVars  == <<handler, old, canjump, jump, masked, leaked>>
lineVars == <<left, buf, line, last>>
spcVars  == <<spc, ready, toread, inbuf, executed>>
askVars  == <<unsent, asked, answered>>
endVars  == <<killed, crashed>>
vars == <<queueVars, pc, frame, sigVars, sig, pid, kid, files, pipe, printed, sock, lineVars,
          spcVars, askVars, endVars>>

EOF == -1
Places == {"queue", "signal", "setjmp", "spawn", "headers", "poll", "polled", "write", "prefs",
           "select", "status", "assign", "spc", "execute", "early", "abort", "drain", "drained",
           "restore", "close"}
SpcStates == {"read header", "read data", "write header", "write data"}

(* A child runs, has closed its files, is a zombie, and has been reaped.   *)
KidStates == {"none", "running", "exiting", "zombie", "reaped"}
Closed(k) == kid[k] \in {"exiting", "zombie", "reaped"}

Header(n, len) == [of |-> n, at |-> 0, len |-> len]
Data(n, len)   == [i \in 1 .. len |-> [of |-> n, at |-> i, len |-> len]]
Garbage        == [of |-> 0, at |-> 0, len |-> 0]
Item           == [of : Nat, at : Nat, len : Nat]

ProcessesOK ==
    /\ pc \in Places /\ frame \in 0 .. MaxFrames
    /\ handler \in {"default", "ours"} /\ old \in {"default", "ours"}
    /\ canjump \in BOOLEAN /\ jump \in 0 .. MaxFrames
    /\ masked \in BOOLEAN /\ leaked \in BOOLEAN /\ sig \in BOOLEAN
    /\ pid \in 0 .. MaxFrames /\ kid \in [Frames -> KidStates] /\ files \subseteq Frames
    /\ killed \subseteq [frame : Frames, kid : Frames, state : KidStates]
    /\ crashed \in {"no", "dead frame", "null file", "broken pipe"}

LinesOK ==
    /\ left \in Nat /\ pipe \in Seq(Nat) /\ buf \in Seq(Nat)
    /\ line \in Nat \cup {EOF} /\ last \in Nat /\ printed \in Nat

RequestsOK ==
    /\ spc \in SpcStates /\ ready \in BOOLEAN /\ sock \in Seq(Item) /\ unsent \in Seq(Item)
    /\ asked \in Nat /\ answered \in Nat /\ toread \in Nat /\ inbuf \in Seq(Item)
    /\ executed \in Seq(Seq(Item))

TypeOK == ProcessesOK /\ LinesOK /\ RequestsOK

Init ==
    /\ QueueInit
    /\ pc = "queue" /\ frame = 0
    /\ handler = "default" /\ old = "default" /\ canjump = FALSE /\ jump = 0
    /\ masked = FALSE /\ leaked = FALSE /\ sig = FALSE
    /\ pid = 0 /\ kid = [k \in Frames |-> "none"] /\ files = {}
    /\ left = 0 /\ pipe = <<>> /\ buf = <<>> /\ line = 0 /\ last = 0 /\ printed = 0
    /\ spc = "read header" /\ ready = FALSE /\ sock = <<>> /\ unsent = <<>>
    /\ asked = 0 /\ answered = 0 /\ toread = 0 /\ inbuf = <<>> /\ executed = <<>>
    /\ killed = {} /\ crashed = "no"

Up == crashed = "no"
At(place) == Up /\ pc = place
Goto(place) == pc' = place
Crash(how) == crashed' = how /\ UNCHANGED killed

(* block_sigchld and unblock_sigchld, which restores the mask it found.    *)
Block   == masked' = TRUE /\ UNCHANGED <<handler, old, canjump, jump, leaked>>
Unblock == masked' = leaked /\ UNCHANGED <<handler, old, canjump, jump, leaked>>

-----------------------------------------------------------------------------
(* run_conduits.                                                           *)

runVars == <<frame, sigVars, sig, pid, kid, files, pipe, printed, sock, lineVars, spcVars,
             askVars, endVars>>

QueueStep ==
    /\ At("queue")
    /\ PassOver \/ Remember \/ Choose \/ ChooseDefault
    /\ UNCHANGED <<pc, runVars>>

(* A built-in conduit, or one without a path, has no child.                *)
RunInside ==
    /\ At("queue") /\ cur # 0 /\ queue[cur].kind # "program"
    /\ \E fatal \in {FALSE, queue[cur].kind = "builtin"} : Returned(fatal)
    /\ UNCHANGED <<pc, runVars>>

-----------------------------------------------------------------------------
(* run_conduit, up to the fork.                                            *)

Enter ==
    /\ At("queue") /\ cur # 0 /\ queue[cur].kind = "program" /\ frame < MaxFrames
    /\ frame' = frame + 1
    /\ last' = 0 /\ line' = 0 /\ buf' = <<>> /\ left' = Headers
    /\ pipe' = <<>> /\ printed' = 0
    /\ spc' = "read header" /\ ready' = FALSE /\ sock' = <<>> /\ toread' = 0 /\ inbuf' = <<>>
    /\ executed' = <<>> /\ unsent' = <<>> /\ asked' = 0 /\ answered' = 0
    /\ Goto("signal")
    /\ UNCHANGED <<queueVars, sigVars, sig, pid, kid, files, endVars>>

SetHandler ==
    /\ At("signal")
    /\ old' = handler /\ handler' = "ours"
    /\ Goto("setjmp")
    /\ UNCHANGED <<queueVars, frame, canjump, jump, masked, leaked, sig, pid, kid, files, pipe,
                   printed, sock, lineVars, spcVars, askVars, endVars>>

SetJump ==
    /\ At("setjmp")
    /\ jump' = frame /\ canjump' = TRUE
    /\ Goto("spawn")
    /\ UNCHANGED <<queueVars, frame, handler, old, masked, leaked, sig, pid, kid, files, pipe,
                   printed, sock, lineVars, spcVars, askVars, endVars>>

(* The pipes could not be made, so there are no file handles; or fork()    *)
(* failed, and spawn_conduit returned with SIGCHLD still blocked; or there *)
(* is a child, and the headers are put together with SIGCHLD blocked.      *)
Spawn ==
    /\ At("spawn")
    /\ \/ "pipe" \in Failures /\ Goto("abort") /\ UNCHANGED <<files, pid, kid, masked, leaked>>
       \/ /\ "fork" \in Failures /\ Goto("abort") /\ files' = files \cup {frame}
          /\ pid' = 0 /\ masked' = TRUE /\ leaked' = TRUE /\ UNCHANGED kid
       \/ /\ Goto("headers") /\ files' = files \cup {frame}
          /\ pid' = frame /\ kid' = [kid EXCEPT ![frame] = "running"]
          /\ masked' = TRUE /\ UNCHANGED leaked
    /\ UNCHANGED <<queueVars, frame, handler, old, canjump, jump, sig, pipe, printed, sock,
                   lineVars, spcVars, askVars, endVars>>

(* GetPrefItem can fail, and that way out also leaves SIGCHLD blocked.     *)
WrongStayBlocked ==
    /\ At("headers")
    /\ Goto("poll")
    /\ UNCHANGED <<queueVars, frame, sigVars, sig, pid, kid, files, pipe, printed, sock, lineVars,
                   spcVars, askVars, endVars>>

MakeHeaders ==
    /\ At("headers")
    /\ \/ /\ "preference" \in Failures /\ queue[cur].prefs /\ Goto("abort")
          /\ leaked' = TRUE /\ UNCHANGED <<handler, old, canjump, jump, masked>>
       \/ Goto("poll") /\ Unblock
    /\ UNCHANGED <<queueVars, frame, sig, pid, kid, files, pipe, printed, sock, lineVars, spcVars,
                   askVars, endVars>>

-----------------------------------------------------------------------------
(* What the child has printed.  fromchild is readable when there is        *)
(* something in the pipe or the child has closed it; the lines stdio       *)
(* holds already do not count.                                             *)
Readable == pipe # <<>> \/ (kid[frame] # "none" /\ Closed(frame))

(* cond_readline: wait for fromchild, then take one line with fgets.       *)
ReadLine ==
    /\ Readable
    /\ LET lines == IF buf = <<>> THEN pipe ELSE buf
       IN  /\ line' = IF lines = <<>> THEN EOF ELSE Head(lines)
           /\ buf' = IF lines = <<>> THEN <<>> ELSE Tail(lines)
           /\ pipe' = IF buf = <<>> THEN <<>> ELSE pipe
    /\ UNCHANGED <<left, last>>

TakeStatus == last' = line /\ UNCHANGED <<left, buf, line>>

(* Sending a header: first listen to the child, then write.  At the end    *)
(* of the child's output `goto check_status' comes back here, until the    *)
(* handler jumps.                                                          *)
PollReadable ==
    /\ At("poll")
    /\ ReadLine
    /\ Goto("polled")
    /\ UNCHANGED <<queueVars, frame, sigVars, sig, pid, kid, files, printed, sock, spcVars,
                   askVars, endVars>>

WrongTakeEof ==
    /\ At("polled")
    /\ TakeStatus
    /\ Goto("poll")
    /\ UNCHANGED <<queueVars, frame, sigVars, sig, pid, kid, files, pipe, printed, sock, spcVars,
                   askVars, endVars>>

Polled ==
    /\ At("polled")
    /\ IF line > 0 THEN TakeStatus ELSE UNCHANGED lineVars
    /\ Goto("poll")
    /\ UNCHANGED <<queueVars, frame, sigVars, sig, pid, kid, files, pipe, printed, sock, spcVars,
                   askVars, endVars>>

PollQuiet ==
    /\ At("poll") /\ ~Readable
    /\ Goto("write")
    /\ UNCHANGED <<queueVars, frame, sigVars, sig, pid, kid, files, pipe, printed, sock, lineVars,
                   spcVars, askVars, endVars>>

(* SIGPIPE is neither caught nor ignored: writing to a conduit that has    *)
(* closed its standard input ends the program.                             *)
WriteHeader ==
    /\ At("write")
    /\ IF Closed(frame) THEN Crash("broken pipe") /\ UNCHANGED <<pc, left>>
       ELSE /\ left' = left - 1 /\ Goto(IF left = 1 THEN "prefs" ELSE "poll")
            /\ UNCHANGED endVars
    /\ UNCHANGED <<queueVars, frame, sigVars, sig, pid, kid, files, pipe, printed, sock, buf, line,
                   last, spcVars, askVars>>

(* The empty line and the preferences, which may have to wait until the    *)
(* child reads them.                                                       *)
WritePrefs ==
    /\ At("prefs")
    /\ IF Closed(frame) THEN Crash("broken pipe") /\ UNCHANGED pc
       ELSE Goto("select") /\ UNCHANGED endVars
    /\ UNCHANGED <<queueVars, frame, sigVars, sig, pid, kid, files, pipe, printed, sock, lineVars,
                   spcVars, askVars>>

-----------------------------------------------------------------------------
(* The main loop.                                                          *)

SpcReady == WithSpc /\ (spc \in {"read header", "read data"} => sock # <<>>)

(* A readable fromchild comes first; the SPC socket is then looked at, if  *)
(* select() has said that it was ready.                                    *)
Select ==
    /\ At("select") /\ (Readable \/ SpcReady)
    /\ ready' = SpcReady
    /\ IF Readable THEN Goto("status") /\ Block ELSE Goto("spc") /\ UNCHANGED sigVars
    /\ UNCHANGED <<queueVars, frame, sig, pid, kid, files, pipe, printed, sock, lineVars, spc,
                   toread, inbuf, executed, askVars, endVars>>

ReadStatus ==
    /\ At("status")
    /\ ReadLine /\ Unblock
    /\ Goto("assign")
    /\ UNCHANGED <<queueVars, frame, sig, pid, kid, files, printed, sock, spcVars, askVars,
                   endVars>>

(* SIGCHLD is no longer blocked when the status is stored in laststatus.   *)
AssignStatus ==
    /\ At("assign")
    /\ IF line = EOF THEN Goto("abort") /\ UNCHANGED lineVars
       ELSE TakeStatus /\ Goto(IF WithSpc THEN "spc" ELSE "select")
    /\ UNCHANGED <<queueVars, frame, sigVars, sig, pid, kid, files, pipe, printed, sock, spcVars,
                   askVars, endVars>>

NotReady ==
    /\ At("spc") /\ ~ready
    /\ Goto("select")
    /\ UNCHANGED <<queueVars, frame, sigVars, sig, pid, kid, files, pipe, printed, sock, lineVars,
                   spcVars, askVars, endVars>>

(* A request without data is executed at once.                             *)
WrongNeverWait ==
    /\ At("spc") /\ ready /\ spc = "read header" /\ sock # <<>>
    /\ sock' = Tail(sock)
    /\ spc' = "read data" /\ toread' = Head(sock).len
    /\ inbuf' = [i \in 1 .. Head(sock).len |-> Garbage]
    /\ Goto("execute") /\ Block
    /\ UNCHANGED <<queueVars, frame, sig, pid, kid, files, pipe, printed, lineVars, ready, executed,
                   askVars, endVars>>

ReadHeader ==
    /\ At("spc") /\ ready /\ spc = "read header" /\ sock # <<>>
    /\ sock' = Tail(sock)
    /\ spc' = "read data" /\ toread' = Head(sock).len
    /\ inbuf' = [i \in 1 .. Head(sock).len |-> Garbage]
    /\ IF Head(sock).len = 0 THEN Goto("execute") /\ Block ELSE Goto("select") /\ UNCHANGED sigVars
    /\ UNCHANGED <<queueVars, frame, sig, pid, kid, files, pipe, printed, lineVars, ready, executed,
                   askVars, endVars>>

(* What has arrived of the data, up to what is missing, is read to the     *)
(* start of the buffer: spcp is not moved.                                 *)
ReadData ==
    /\ At("spc") /\ ready /\ spc = "read data" /\ sock # <<>>
    /\ LET k == IF Len(sock) < toread THEN Len(sock) ELSE toread
       IN  /\ inbuf' = [i \in DOMAIN inbuf |-> IF i <= k THEN sock[i] ELSE inbuf[i]]
           /\ sock' = SubSeq(sock, k + 1, Len(sock))
           /\ toread' = toread - k
           /\ IF k < toread THEN Goto("select") /\ UNCHANGED sigVars ELSE Goto("execute") /\ Block
    /\ UNCHANGED <<queueVars, frame, sig, pid, kid, files, pipe, printed, lineVars, spc, ready,
                   executed, askVars, endVars>>

(* spc_send: requests with data go to the Palm, the others are answered    *)
(* here.  An error makes run_conduit return, past everything at its end.   *)
Execute ==
    /\ At("execute")
    /\ Unblock /\ inbuf' = <<>>
    /\ \/ /\ spc' = "write header" /\ Goto("select")
          /\ executed' = IF inbuf = <<>> THEN executed ELSE Append(executed, inbuf)
       \/ "connection" \in Failures /\ inbuf # <<>> /\ Goto("early") /\ UNCHANGED <<spc, executed>>
    /\ UNCHANGED <<queueVars, frame, sig, pid, kid, files, pipe, printed, sock, lineVars, ready,
                   toread, askVars, endVars>>

EarlyReturn ==
    /\ At("early")
    /\ Returned(FALSE) /\ Goto("queue")
    /\ UNCHANGED runVars

WriteResponse ==
    /\ At("spc") /\ ready /\ spc \in {"write header", "write data"}
    /\ IF spc = "write header" THEN spc' = "write data" /\ UNCHANGED answered
       ELSE spc' = "read header" /\ answered' = answered + 1
    /\ Goto("select")
    /\ UNCHANGED <<queueVars, frame, sigVars, sig, pid, kid, files, pipe, printed, sock, lineVars,
                   ready, toread, inbuf, executed, unsent, asked, endVars>>

-----------------------------------------------------------------------------
(* The end of run_conduit.                                                 *)

Terminate ==
    /\ At("abort")
    /\ killed' = IF pid = 0 THEN killed
                 ELSE killed \cup {[frame |-> frame, kid |-> pid, state |-> kid[pid]]}
    /\ Goto("drain")
    /\ UNCHANGED <<queueVars, frame, sigVars, sig, pid, kid, files, pipe, printed, sock, lineVars,
                   spcVars, askVars, crashed>>

(* Read what is left of the child's output, as long as there is something  *)
(* to be read; fileno(NULL) if there is no file handle.                    *)
Drain ==
    /\ At("drain")
    /\ IF frame \notin files
       THEN Crash("null file") /\ UNCHANGED <<pc, lineVars, pipe>>
       ELSE /\ \/ Readable /\ ReadLine /\ Goto("drained")
               \/ ~Readable /\ Goto("restore") /\ UNCHANGED <<lineVars, pipe>>
            /\ UNCHANGED endVars
    /\ UNCHANGED <<queueVars, frame, sigVars, sig, pid, kid, files, printed, sock, spcVars,
                   askVars>>

WrongOneLine ==
    /\ At("drained")
    /\ IF line = EOF THEN UNCHANGED lineVars ELSE TakeStatus
    /\ Goto("restore")
    /\ UNCHANGED <<queueVars, frame, sigVars, sig, pid, kid, files, pipe, printed, sock, spcVars,
                   askVars, endVars>>

Drained ==
    /\ At("drained")
    /\ IF line = EOF THEN Goto("restore") /\ UNCHANGED lineVars ELSE TakeStatus /\ Goto("drain")
    /\ UNCHANGED <<queueVars, frame, sigVars, sig, pid, kid, files, pipe, printed, sock, spcVars,
                   askVars, endVars>>

Restore ==
    /\ At("restore")
    /\ handler' = old
    /\ Goto("close")
    /\ UNCHANGED <<queueVars, frame, old, canjump, jump, masked, leaked, sig, pid, kid, files, pipe,
                   printed, sock, lineVars, spcVars, askVars, endVars>>

CloseAndReturn ==
    /\ At("close")
    /\ files' = files \ {frame}
    /\ Returned(FALSE) /\ Goto("queue")
    /\ UNCHANGED <<frame, sigVars, sig, pid, kid, pipe, printed, sock, lineVars, spcVars, askVars,
                   endVars>>

-----------------------------------------------------------------------------
(* sigchld_handler, at any point where SIGCHLD is not blocked.  When it    *)
(* does not jump, select() returns EINTR with its sets as they were, and   *)
(* run_conduit takes both descriptors for ready.                           *)
Dismiss ==
    /\ IF pc = "select" THEN Goto("status") /\ ready' = TRUE /\ masked' = TRUE
       ELSE UNCHANGED <<pc, ready, masked>>
    /\ UNCHANGED <<canjump, pid, kid, endVars>>

WrongStayReaped ==
    /\ kid' = [kid EXCEPT ![pid] = "reaped"] /\ UNCHANGED pid
    /\ IF pc = "queue" \/ jump # frame THEN Crash("dead frame") /\ UNCHANGED <<pc, canjump>>
       ELSE canjump' = FALSE /\ Goto("abort") /\ UNCHANGED endVars
    /\ UNCHANGED <<ready, masked>>

Jump ==
    /\ kid' = [kid EXCEPT ![pid] = "reaped"] /\ pid' = 0
    /\ IF pc = "queue" \/ jump # frame THEN Crash("dead frame") /\ UNCHANGED <<pc, canjump>>
       ELSE canjump' = FALSE /\ Goto("abort") /\ UNCHANGED endVars
    /\ UNCHANGED <<ready, masked>>

HandleSigchld ==
    /\ Up /\ sig /\ ~masked /\ sig' = FALSE
    /\ IF handler = "default"
       THEN UNCHANGED <<pc, canjump, pid, kid, ready, masked, endVars>>
       ELSE IF canjump /\ pid # 0 /\ kid[pid] = "zombie" THEN Jump ELSE Dismiss
    /\ UNCHANGED <<queueVars, frame, handler, old, jump, leaked, files, pipe, printed, sock,
                   lineVars, spc, toread, inbuf, executed, askVars>>

-----------------------------------------------------------------------------
(* The children (external).  One whose output nobody reads any more can    *)
(* still exit, long after its frame has returned.                          *)
Attached == frame > 0 /\ kid[frame] = "running" /\ pc # "queue"

PrintLine ==
    /\ Up /\ Attached /\ printed < MaxLines /\ Len(pipe) < PipeSize
    /\ printed' = printed + 1 /\ pipe' = Append(pipe, printed + 1)
    /\ UNCHANGED <<queueVars, pc, frame, sigVars, sig, pid, kid, files, sock, lineVars, spcVars,
                   askVars, endVars>>

Ask ==
    /\ Up /\ Attached /\ WithSpc /\ left = 0 /\ asked = answered /\ asked < MaxRequests
    /\ asked' = asked + 1
    /\ \E len \in Lengths :
          /\ sock' = Append(sock, Header(asked + 1, len))
          /\ unsent' = Data(asked + 1, len)
    /\ UNCHANGED <<queueVars, pc, frame, sigVars, sig, pid, kid, files, pipe, printed, lineVars,
                   spcVars, answered, endVars>>

AskMore ==
    /\ Up /\ Attached /\ unsent # <<>>
    /\ \E k \in IF InPieces THEN 1 .. Len(unsent) ELSE {Len(unsent)} :
          /\ sock' = sock \o SubSeq(unsent, 1, k)
          /\ unsent' = SubSeq(unsent, k + 1, Len(unsent))
    /\ UNCHANGED <<queueVars, pc, frame, sigVars, sig, pid, kid, files, pipe, printed, lineVars,
                   spcVars, asked, answered, endVars>>

(* An exiting process closes its files before its parent is told.          *)
Exit(k) ==
    /\ Up /\ kid[k] = "running" /\ kid' = [kid EXCEPT ![k] = "exiting"]
    /\ UNCHANGED <<queueVars, pc, frame, sigVars, sig, pid, files, pipe, printed, sock, lineVars,
                   spcVars, askVars, endVars>>

Die(k) ==
    /\ Up /\ kid[k] = "exiting" /\ kid' = [kid EXCEPT ![k] = "zombie"] /\ sig' = TRUE
    /\ UNCHANGED <<queueVars, pc, frame, sigVars, pid, files, pipe, printed, sock, lineVars, spcVars,
                   askVars, endVars>>

-----------------------------------------------------------------------------
ParentStep ==
    \/ QueueStep \/ RunInside \/ Enter \/ SetHandler \/ SetJump \/ Spawn \/ MakeHeaders
    \/ PollReadable \/ Polled \/ PollQuiet \/ WriteHeader \/ WritePrefs
    \/ Select \/ ReadStatus \/ AssignStatus
    \/ NotReady \/ ReadHeader \/ ReadData \/ Execute \/ EarlyReturn \/ WriteResponse
    \/ Terminate \/ Drain \/ Drained \/ Restore \/ CloseAndReturn

ChildStep == PrintLine \/ Ask \/ AskMore \/ \E k \in Frames : Exit(k) \/ Die(k)

Next == ParentStep \/ HandleSigchld \/ ChildStep

Spec == Init /\ [][Next]_vars
FairSpec ==
    /\ Spec /\ WF_vars(ParentStep) /\ WF_vars(HandleSigchld)
    /\ \A k \in Frames : WF_vars(Die(k))

-----------------------------------------------------------------------------
(* "True iff the SIGCHLD handler can safely call longjmp()": it never      *)
(* jumps into an activation of run_conduit that has returned.              *)
NoDeadJump == crashed # "dead frame"

(* The last status a child printed is the result of its run_conduit, or,   *)
(* when the handler jumped with that line in hand, the one before: of what *)
(* a child that has died had printed, in the pipe, in stdio or in hand,    *)
(* never is more than one line lost.                                       *)
AtMostOneLost == pc = "close" /\ kid[frame] = "reaped" => printed - last <= 1

(* What spc_send sends to the Palm is what the child has asked for: each   *)
(* time the data of one request, as much as it has announced, and no       *)
(* request twice or out of order.                                          *)
RequestsInOrder ==
    /\ \A k \in DOMAIN executed :
          /\ Len(executed[k]) = executed[k][1].len
          /\ \A i \in DOMAIN executed[k] : executed[k][i].of \in {executed[k][1].of, 0}
    /\ \A j, k \in DOMAIN executed : j < k => executed[j][1].of < executed[k][1].of

(* "Now we've read all of the SPC request, and can process it": the buffer *)
(* holds the data of the request, whole.                                   *)
RequestsIntact == \A k \in DOMAIN executed : executed[k] = Data(executed[k][1].of, Len(executed[k]))

(* SIGTERM never goes to a child that has been reaped, whose number the    *)
(* system may have given to another process by then.                       *)
KillsNoReaped == \A k \in killed : k.state # "reaped"

(* "None of the other code has to worry about whether the conduit is still *)
(* running": once the child is gone, run_conduit ends, unless SIGCHLD was  *)
(* left blocked.                                                           *)
EndsWithChild ==
    \A k \in Frames :
        frame = k /\ pc # "queue" /\ Closed(k) ~>
            frame # k \/ pc = "queue" \/ leaked \/ crashed # "no"
=============================================================================
