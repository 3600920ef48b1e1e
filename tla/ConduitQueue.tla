---------------------------- MODULE ConduitQueue ----------------------------
(***************************************************************************)
(* Which of the configured conduits run for a database: run_conduits       *)
(* (src/src/conduit.c).  It walks the configuration in order, remembers    *)
(* the last default conduit that applies, runs every other one that does,  *)
(* and stops after a final one; the default runs if none other was found.  *)
(*                                                                         *)
(* The operators below are the steps of that walk; module ConduitRunner    *)
(* makes them, together with what it takes to run one conduit.             *)
(***************************************************************************)
EXTENDS Integers, Sequences

CONSTANTS
    Queues,  \* the configurations: sequences of conduits
    Flavor,  \* the flavor of conduit that is wanted
    Dbs,     \* the databases; one with `none' stands for the lack of a database
    AnyValue \* the wildcard for a creator or a type (0 in the code)

(* What run_conduits does with a conduit once it has been chosen: run a    *)
(* program, nothing (a conduit without a path), call a built-in function,  *)
(* or find that the built-in function is none of this flavor.              *)
Kinds == {"program", "nothing", "builtin", "unfit"}

(* A configuration is a sequence.                                          *)
ASSUME QueueAssumption == \A q \in Queues : q \in Seq({q[i] : i \in DOMAIN q})

VARIABLES
    db,      \* dbinfo
    queue,   \* sync_config->conduits
    next,    \* the conduit to consider next
    def,     \* def_conduit, or 0
    found,   \* found_conduit
    cur,     \* the conduit that runs, or 0
    ran,     \* ghost: the conduits that were run, in order
    outcome  \* of run_conduits: "running", "done" (0) or "failed" (-1)

queueVars == <<db, queue, next, def, found, cur, ran, outcome>>

QueueInit ==
    /\ db \in Dbs /\ queue \in Queues
    /\ next = 1 /\ def = 0 /\ found = FALSE /\ cur = 0 /\ ran = <<>>
    /\ outcome = "running"

(* A pair of creator and type in the configuration, either of which may be *)
(* a wildcard; `none' marks the pair "none" and the lack of a database.    *)
CreaTypeMatches(conduit) ==
    \E pair \in conduit.ctypes :
        /\ pair.none = db.none
        /\ pair.creator \in {AnyValue, db.creator}
        /\ pair.type \in {AnyValue, db.type}

Applies(conduit) ==
    conduit.enabled /\ Flavor \in conduit.flavors /\ CreaTypeMatches(conduit)

Considering == outcome = "running" /\ cur = 0 /\ next <= Len(queue)
AtEnd       == outcome = "running" /\ cur = 0 /\ next > Len(queue)

PassOver ==
    /\ Considering /\ ~Applies(queue[next])
    /\ next' = next + 1
    /\ UNCHANGED <<db, queue, def, found, cur, ran, outcome>>

Remember ==
    /\ Considering /\ Applies(queue[next]) /\ queue[next].default
    /\ def' = next /\ next' = next + 1
    /\ UNCHANGED <<db, queue, found, cur, ran, outcome>>

(* A real match: run it, unless it is built in and does not fit.           *)
WrongFoundLate ==
    /\ Considering /\ Applies(queue[next]) /\ ~queue[next].default
    /\ IF queue[next].kind = "unfit"
       THEN found' = found /\ next' = next + 1 /\ UNCHANGED <<cur, ran>>
       ELSE found' = TRUE /\ cur' = next /\ ran' = Append(ran, next) /\ UNCHANGED next
    /\ UNCHANGED <<db, queue, def, outcome>>

Choose ==
    /\ Considering /\ Applies(queue[next]) /\ ~queue[next].default
    /\ found' = TRUE
    /\ IF queue[next].kind = "unfit"
       THEN next' = next + 1 /\ UNCHANGED <<cur, ran>>
       ELSE cur' = next /\ ran' = Append(ran, next) /\ UNCHANGED next
    /\ UNCHANGED <<db, queue, def, outcome>>

(* No match at all: the default, if there is a database for it.            *)
ChooseDefault ==
    /\ AtEnd
    /\ IF ~found /\ def # 0 /\ ~db.none /\ queue[def].kind # "unfit"
       THEN cur' = def /\ ran' = Append(ran, def) /\ UNCHANGED outcome
       ELSE /\ outcome' = IF ~found /\ def # 0 /\ ~db.none THEN "failed" ELSE "done"
            /\ UNCHANGED <<cur, ran>>
    /\ UNCHANGED <<db, queue, next, def, found>>

(* A conduit has returned.  Only a built-in one can return an error that   *)
(* ends the walk (CSE_CANCEL, CSE_NOCONN); other errors are warnings.      *)
Returned(fatal) ==
    /\ cur' = 0
    /\ outcome' = IF fatal THEN "failed"
                  ELSE IF cur = def \/ queue[cur].final THEN "done" ELSE "running"
    /\ next' = next + 1
    /\ UNCHANGED <<db, queue, def, found, ran>>

-----------------------------------------------------------------------------
(* What the manual says of the flags "default" and "final": every conduit  *)
(* that applies is run, in order, but for those behind a final one; of the *)
(* default ones only the last, and only when no other one applies.         *)
Matching == {i \in DOMAIN queue : Applies(queue[i]) /\ ~queue[i].default}
Runnable == {i \in Matching : queue[i].kind # "unfit"}
Defaults == {i \in DOMAIN queue : Applies(queue[i]) /\ queue[i].default}

Documented ==
    IF Matching # {}
    THEN {i \in Runnable : \A j \in Runnable : j < i => ~queue[j].final}
    ELSE {i \in Defaults : ~db.none /\ \A j \in Defaults : j <= i}

RanAsDocumented ==
    outcome = "done" =>
        /\ {ran[k] : k \in DOMAIN ran} = Documented
        /\ \A j, k \in DOMAIN ran : j < k => ran[j] < ran[k]
=============================================================================
