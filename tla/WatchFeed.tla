------------------------------ MODULE WatchFeed ------------------------------
(***************************************************************************)
(* What watch() promises its user, without sessions, retries, timers or a  *)
(* connection: after a first snapshot, the feed of onChange follows the    *)
(* server's history of the query event by event and never runs ahead.      *)
(***************************************************************************)
EXTENDS Integers, Sequences

VARIABLES
  server,  \* id of the server's last event
  seen     \* ids of the snapshots given to onChange

Init == server = 1 /\ seen = <<>>

\* The query's result changes.
Commit == server' = server + 1 /\ seen' = seen

\* The first snapshot: the result as of some event.
Snapshot ==
  /\ seen = <<>>
  /\ \E id \in 1..server : seen' = <<id>>
  /\ server' = server

\* Some of the events that follow, in order.
Follow ==
  /\ seen # <<>>
  /\ LET last == seen[Len(seen)] IN
       \E n \in 1..(server - last) : seen' = seen \o [k \in 1..n |-> last + k]
  /\ server' = server

Next == Commit \/ Snapshot \/ Follow

Spec == Init /\ [][Next]_<<server, seen>>

=============================================================================
