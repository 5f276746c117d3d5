----------------------------- MODULE MCTcpLines -----------------------------
(***************************************************************************)
(* Lines of the Raspberry Pi: the commands and a sample.                   *)
(***************************************************************************)
EXTENDS TcpLines

Value1 == {"a1", "b1"}
Lines1 == {<<"!">>, <<"@">>, <<"#">>, <<"$">>, <<"a1", "b1">>}
=============================================================================
