----------------------------- MODULE MCFraming ------------------------------
(* Instance of Framing for TLC. *)
EXTENDS Framing

OneChar == {"c"}
AnyPush == {<<>>, <<"c">>, <<pload_sep>>, <<"c", pload_sep>>}
AnyReply == {<<>>, <<"c">>, <<"c", "c">>, <<pload_sep>>}
=============================================================================
