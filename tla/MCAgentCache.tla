---------------------------- MODULE MCAgentCache ----------------------------
(* A ring of 8 bytes of base 3, with a prefix of two: records of 3 and 4    *)
(* bytes start and wrap at every position, one of 8 bytes fits only when    *)
(* the ring is empty, and a buffer of 7 bytes is more than SIZE_MAX allows. *)
EXTENDS AgentCache

MCLenBytes(n) == <<n % 3, n \div 3>>
MCLenOf(bytes) == bytes[1] + 3 * bytes[2]
MCBuffers == {<<>>, <<2>>, <<0, 1>>, <<2, 0, 1, 0, 2, 1>>,
              <<0, 0, 0, 0, 0, 0, 0>>}
=============================================================================
