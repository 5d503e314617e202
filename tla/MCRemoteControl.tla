--------------------------- MODULE MCRemoteControl ---------------------------
(***************************************************************************)
(* RemoteControl with two requests.                                       *)
(***************************************************************************)
EXTENDS RemoteControl, TLC

CONSTANTS c1, c2

TwoCalls == {c1, c2}
=============================================================================
