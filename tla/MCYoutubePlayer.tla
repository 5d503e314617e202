--------------------------- MODULE MCYoutubePlayer ---------------------------
(***************************************************************************)
(* YoutubePlayer on small instances.                                        *)
(***************************************************************************)
EXTENDS YoutubePlayer

CONSTANTS v1, v2

OneVideo == {v1}
TwoVideos == {v1, v2}
=============================================================================
