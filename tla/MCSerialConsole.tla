---------------------------- MODULE MCSerialConsole ----------------------------
(* Two bytes, one of them the line end, rings of three bytes and of one.   *)
EXTENDS SerialConsole

CONSTANTS x, nl

MCReplies == {<<x, nl, x, nl>>}
MCLogLines == {<<x>>}
MCCRLF == <<nl, nl>>

=============================================================================
