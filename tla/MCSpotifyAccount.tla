-------------------------- MODULE MCSpotifyAccount --------------------------
(***************************************************************************)
(* SpotifyAccount with two worker threads.                                *)
(***************************************************************************)
EXTENDS SpotifyAccount, TLC

CONSTANTS c1, c2

TwoCalls == {c1, c2}
=============================================================================
