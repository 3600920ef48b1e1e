--------------------------------- MODULE Rpc --------------------------------
(***************************************************************************)
(* What the layers above PADP (DLP, and with it everything ColdSync does   *)
(* to a Palm) rely on: remote calls.  The PC makes one call at a time; the *)
(* Palm executes it, once; the call returns what that execution answered,  *)
(* or it fails.                                                            *)
(*                                                                         *)
(* This much is promised as long as nothing has cast doubt on what the     *)
(* other end has seen: a lost acknowledgement, or a timer that expired     *)
(* with an answer on its way.  From then on a call may be executed more    *)
(* than once, or late, and may return the answer to another execution; but *)
(* never is a call executed after a later one has been.                    *)
(***************************************************************************)
EXTENDS Integers, Sequences

VARIABLES
    calls,    \* the number of calls made; the last one is the current one
    pending,  \* it has neither returned nor failed
    executed, \* the calls the Palm has executed, in order
    answer,   \* the execution whose answer was returned last, or 0
    doubt     \* an end can no longer know what the other has seen

vars == <<calls, pending, executed, answer, doubt>>

Init == calls = 0 /\ pending = FALSE /\ executed = <<>> /\ answer = 0 /\ doubt = FALSE

Call ==
    /\ ~pending /\ pending' = TRUE /\ calls' = calls + 1
    /\ UNCHANGED <<executed, answer>>

(* A call is executed while it is pending, and once.                       *)
OnTime(k) == pending /\ k = calls /\ \A i \in DOMAIN executed : executed[i] # k

Execute ==
    \E k \in 1 .. calls :
        /\ doubt \/ OnTime(k)
        /\ \A i \in DOMAIN executed : executed[i] <= k
        /\ executed' = Append(executed, k)
        /\ UNCHANGED <<calls, pending, answer>>

Return ==
    /\ pending /\ pending' = FALSE
    /\ \E i \in DOMAIN executed : (doubt \/ executed[i] = calls) /\ answer' = i
    /\ UNCHANGED <<calls, executed>>

Fail == pending /\ pending' = FALSE /\ UNCHANGED <<calls, executed, answer>>

LoseTrack == ~doubt /\ doubt' /\ UNCHANGED <<calls, pending, executed, answer>>

Next == (Call \/ Execute \/ Return \/ Fail \/ LoseTrack) /\ doubt' \in {doubt, TRUE}

Spec == Init /\ [][Next]_vars

-----------------------------------------------------------------------------
(* The Palm never executes a call after a later one.                       *)
InOrder == \A i, j \in DOMAIN executed : i < j => executed[i] <= executed[j]

(* Without doubt, no call is executed twice.                               *)
AtMostOnce == ~doubt => \A i, j \in DOMAIN executed : executed[i] = executed[j] => i = j
=============================================================================
