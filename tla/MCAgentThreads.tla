--------------------------- MODULE MCAgentThreads ---------------------------
(* A cache of 5 bytes with a prefix of one: a record of 3 bytes is refused   *)
(* where the next one, of 2 bytes, still fits.                               *)
EXTENDS AgentThreads

MCBuffers == {<<0>>, <<0, 0>>}
=============================================================================
