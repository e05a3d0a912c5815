---------------------------- MODULE MCWatchClient ----------------------------
(***************************************************************************)
(* Instances of WatchClient for TLC, and what comments of the source say   *)
(* of the watch that the code does not do.                                 *)
(***************************************************************************)
EXTENDS WatchClient

\* "maximum effort on SEAMINGLESS FAULT TOLERANCE, just retry" says the handler
\* of a failed establishment (virtual-websocket-client.ts:417): it waits for the
\* connection and starts over, so that a client on a live connection never waits
\* for nobody.  Checked for a watch opened during the first connection, which
\* resumes nobody when it opens.
JustRetry == NotStranded

=============================================================================
