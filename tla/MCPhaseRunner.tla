---------------------------- MODULE MCPhaseRunner ----------------------------
(***************************************************************************)
(* The last three phases of the single-node pipeline: authentik (required,  *)
(* asks, marks itself "applying" when it pins its tag), restore (optional,  *)
(* asks) and handoff (read-only, never asks).                               *)
(***************************************************************************)
EXTENDS PhaseRunner

MCOptional == {2}
MCAsks == {1, 2}
MCPins == {1}
=============================================================================
