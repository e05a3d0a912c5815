----------------------------- MODULE MCConnection -----------------------------
(***************************************************************************)
(* Instances of Connection for TLC, and what comments of the source say of *)
(* the connection that the code does not do.                               *)
(***************************************************************************)
EXTENDS Connection, TLC

CONSTANTS c1, c2

Symmetry == Permutations({c1, c2})

None == [f \in Failure |-> 0]

\* Attempts fail at either step, the socket is lost, handshakes time out.
Mixed == [None EXCEPT !["sign"] = 1, !["open"] = 1, !["close"] = 1,
                             !["error"] = 1, !["late"] = 1]

\* An established connection is lost, twice at most, and attempts to reconnect fail,
\* once more than there is a retry.
LossAndRetry == [f \in Failure |-> IF f = "error" THEN 0 ELSE 1]

\* One more failure than there are retries.
GiveUp == [None EXCEPT !["close"] = 1, !["sign"] = MaxReconnect + 1]

-----------------------------------------------------------------------------

\* _reconnectState says that a reconnection is under way; "a reconnection that
\* fails counts as its end, too" (websocket-client.ts:271).
StateEnds == conn.reconnecting => Reconnecting(conn)

=============================================================================
