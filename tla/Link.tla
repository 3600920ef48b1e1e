-------------------------------- MODULE Link --------------------------------
(***************************************************************************)
(* The connection to the Palm as the main program sees it: what a DLP      *)
(* request can come to, and the two records kept of what went wrong, the   *)
(* status of the PConnection (src/libpconn/PConnection.c) and cs_errno     *)
(* (src/src/cs_error.c).  Module Padp models how a request gets there.     *)
(***************************************************************************)
EXTENDS Integers

CONSTANT MaxFaults  \* bound: refusals, late answers, failures

VARIABLES
    wire,    \* is the Palm there?  "up" or "down"
    status,  \* PCONNSTAT_UP, PCONNSTAT_LOST, PCONNSTAT_CLOSED
    cs,      \* cs_errno
    faults   \* used up of MaxFaults

linkVars == <<wire, status, cs, faults>>

ASSUME LinkAssumption == MaxFaults \in Nat

Statuses == {"up", "lost", "closed"}
CSErrno  == {"noerr", "cancel", "noconn", "palmerr", "dlperr"}

LinkTypeOK ==
    /\ wire \in {"up", "down"} /\ status \in Statuses /\ cs \in CSErrno
    /\ faults \in 0 .. MaxFaults

LinkInit == wire = "up" /\ status = "up" /\ cs = "noerr" /\ faults = 0

(* The operators and actions named Wrong... are mistakes that a change to  *)
(* the code could make; no specification uses them, the properties notice  *)
(* them.  This one keeps one kind of error code in the variable of another.*)
WrongAfterPconn(e, c) == IF c = "noerr" THEN e ELSE c

(* update_cs_errno_pconn: the first error sticks.                          *)
AfterPconn(e, c) ==
    IF c # "noerr" THEN c
    ELSE IF e \in {"timeout", "eof"} THEN "noconn" ELSE "palmerr"

(* update_cs_errno_dlp: of the answers of the Palm, the latest counts,     *)
(* until one of them is a cancellation or the connection has failed.       *)
AfterDlp(s, c) ==
    IF c \notin {"noerr", "dlperr"} THEN c
    ELSE CASE s = "ok" -> "noerr" [] s = "cancel" -> "cancel" [] OTHER -> "dlperr"

-----------------------------------------------------------------------------
(* What a request can come to: its result (0, a positive status, or        *)
(* negative), whether the Palm has carried it out, and what is left of the *)
(* connection.                                                             *)
Outcome == [result : {"ok", "refused", "exists", "cancel", "failed"}, done : BOOLEAN,
            wire : {"up", "down"}, status : Statuses, cs : CSErrno, faults : 0 .. MaxFaults]

Answer(s, cost) ==
    [result |-> s, done |-> s = "ok", wire |-> wire, status |-> status,
     cs |-> AfterDlp(s, cs), faults |-> faults + cost]

(* A timer expired on the way, but a retry was answered.  PConn_select has *)
(* marked the connection as lost, and nothing marks it as up again.        *)
Late(s) ==
    [result |-> s, done |-> s = "ok", wire |-> wire, status |-> "lost",
     cs |-> AfterDlp(s, AfterPconn("timeout", cs)), faults |-> faults + 1]

Errors == {"timeout", "eof", "system"}

(* No answer.  An end of file or an error of the device fails a request    *)
(* as well, but only a timeout marks the connection.                       *)
NoAnswer(e, done, cost) ==
    [result |-> "failed", done |-> done, wire |-> "down",
     status |-> IF e = "timeout" THEN "lost" ELSE status,
     cs |-> AfterPconn(e, cs), faults |-> faults + cost]

(* The outcomes of a request the Palm would answer with s, or with one of  *)
(* `others' for reasons of its own.                                        *)
Requests(s, others) ==
    IF wire = "down" THEN {NoAnswer(e, FALSE, 0) : e \in Errors}
    ELSE {Answer(s, 0)} \union
         (IF faults = MaxFaults THEN {}
          ELSE {Answer(o, 1) : o \in others} \union {Late(s)} \union
               {NoAnswer(e, FALSE, 1) : e \in Errors} \union
               {NoAnswer(e, s = "ok", 1) : e \in Errors})

Request == Requests("ok", {"refused"})

(* Something on this side fails; the connection is not involved.           *)
LocalFailure ==
    IF faults = MaxFaults THEN {}
    ELSE {[result |-> "failed", done |-> FALSE, wire |-> wire, status |-> status,
           cs |-> cs, faults |-> faults + 1]}

Take(o) == wire' = o.wire /\ status' = o.status /\ cs' = o.cs /\ faults' = o.faults

(* Disconnect (src/src/palmconn.c): the Palm is told that the sync is over *)
(* if the connection is not marked as lost; then it is closed.             *)
Disconnect ==
    /\ status # "closed"
    /\ IF status = "up"
       THEN \E o \in Request : Take([o EXCEPT !.status = "closed"])
       ELSE status' = "closed" /\ UNCHANGED <<wire, cs, faults>>
=============================================================================
