------------------------------ MODULE MCWepoll ------------------------------
(***************************************************************************)
(* Two numbers, one of a socket that is read and written, one of a socket  *)
(* whose peer hangs up.                                                    *)
(***************************************************************************)
EXTENDS Wepoll

MCLevels == {<<4, "RECEIVE">>, <<4, "SEND">>, <<5, "DISCONNECT">>}
=============================================================================
