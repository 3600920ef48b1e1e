-------------------------- MODULE MCConduitRunner --------------------------
(* Instances of ConduitRunner for TLC.                                     *)
EXTENDS ConduitRunner

TodoDb == [creator |-> "todo", type |-> "DATA", none |-> FALSE]
NoDb   == [creator |-> AnyValue, type |-> AnyValue, none |-> TRUE]
TodoOrNone == {TodoDb, NoDb}
TodoOnly   == {TodoDb}

Pair(creator, type) == [creator |-> creator, type |-> type, none |-> FALSE]
NonePair            == [creator |-> AnyValue, type |-> AnyValue, none |-> TRUE]

Program  == [enabled |-> TRUE, flavors |-> {"sync"}, ctypes |-> {Pair("todo", AnyValue)},
             default |-> FALSE, final |-> FALSE, kind |-> "program", prefs |-> FALSE]
WithPref == [Program EXCEPT !.prefs = TRUE]
Nothing  == [Program EXCEPT !.kind = "nothing"]
Builtin  == [Program EXCEPT !.kind = "builtin", !.ctypes = {Pair(AnyValue, AnyValue)}]
Unfit    == [Program EXCEPT !.kind = "unfit"]
Others   == {[Nothing EXCEPT !.enabled = FALSE], [Nothing EXCEPT !.flavors = {"dump"}],
             [Nothing EXCEPT !.ctypes = {Pair("mail", AnyValue), NonePair}]}

(* Two programs that run one after the other, the second of which asks for *)
(* a preference; or any three conduits that differ in what run_conduits    *)
(* looks at.                                                               *)
TwoPrograms == {<<Program, WithPref>>}
Flagged     == {Nothing, Builtin, [Nothing EXCEPT !.final = TRUE], [Builtin EXCEPT !.final = TRUE],
                [Nothing EXCEPT !.default = TRUE], Unfit, [Unfit EXCEPT !.default = TRUE],
                [Nothing EXCEPT !.ctypes = {NonePair}, !.default = TRUE]} \cup Others
Configurations == TwoPrograms \cup {<<a, b, c>> : a, b, c \in Flagged}
=============================================================================
