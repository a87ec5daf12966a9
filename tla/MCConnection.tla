---------------------------- MODULE MCConnection ----------------------------
(* An instance of ConnectionBuffer for TLC: payloads shorter than the buffer, *)
(* as long, and more than twice as long.                                      *)
EXTENDS ConnectionBuffer

MCIncoming == <<1, 2, 3, 4>>
MCPayloads == {<<6>>, <<7, 8, 9>>, <<10, 11, 12, 13, 14, 15, 16>>, <<>>}
=============================================================================
