---------------------------- MODULE MCAgentSession ----------------------------
(***************************************************************************)
(* AgentSession on small instances: the bounds are numbers, and nothing     *)
(* else of it has to be given a value.                                      *)
(***************************************************************************)
EXTENDS AgentSession
=============================================================================
