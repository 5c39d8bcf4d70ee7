---------------------------------- MODULE MCSh ----------------------------------
(* Lines, messages and sizes for model-checking Sh.                         *)
EXTENDS Sh
MCLines == {<<"echo", "|", "cat">>, <<"echo", "&", ";", "cat">>, <<"none", ">", "f">>, <<"cd", "f">>,
            <<"(", "echo", "|", "cat", ")", "|">>}
MCMsgs == {<<1, 2, 3>>}
=============================================================================
