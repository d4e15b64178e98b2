------------------------------ MODULE MCRedisBus ------------------------------
(* A small instance of RedisBus for TLC. *)
EXTENDS RedisBus, TLC
CONSTANTS p1, p2
Processes == {p1, p2}
\* A named group both processes work for, and a broadcast subscriber in one of them
Worker        == [types |-> {"created"}, group |-> "workers"]
Listener      == [types |-> {"created", "updated"}, group |-> None]
Mixed     == (p1 :> <<Worker, Listener>>) @@ (p2 :> <<Worker>>)
Listeners == (p1 :> <<Listener>>) @@ (p2 :> <<Listener>>)
Published == {<<"created">>, <<"updated", "created">>}
=============================================================================
