-------------------------- MODULE MCServerSessions --------------------------
(* ServerSessions for TLC: connections that share an address are alike. *)
EXTENDS ServerSessions, TLC

Alike == UNION {Permutations(pair) : pair \in SamePeer}

=============================================================================
