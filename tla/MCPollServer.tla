----------------------------- MODULE MCPollServer -----------------------------
(* PollServer for TLC.  Workers, connections and descriptors are model values,
   interchangeable in the safety runs.                                        *)
EXTENDS PollServer, TLC

Symmetry ==
  Permutations(Workers) \cup Permutations(Conns) \cup Permutations(Descriptors)

===============================================================================
