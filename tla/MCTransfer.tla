------------------------------ MODULE MCTransfer ------------------------------
(* An instance of Transfer: two connections, a table that must grow. *)
EXTENDS Transfer

MCFds == {1, 2}
MCTodo == [page |-> 1, robots |-> 1]
=============================================================================
