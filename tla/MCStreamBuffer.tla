--------------------------- MODULE MCStreamBuffer ---------------------------
(* StreamBuffer with a ring of four and a byte of each class.              *)
EXTENDS StreamBuffer

MCByte == {" ", "T", "F", "1", "nul", "xFF"}
MCSpace == {" "}
MCIntTokens == {<<"1">>, <<"1", "1">>}
MCRealTokens == {<<"1">>, <<"1", "1">>}
=============================================================================
