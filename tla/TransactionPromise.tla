-------------------------- MODULE TransactionPromise --------------------------
(***************************************************************************)
(* What runTransaction promises its user, without transactions, errors or  *)
(* answers: one run of the callback happens as a whole or none does, and   *)
(* the call returns the result of the run that has.  The callback is run   *)
(* again after a run that has happened only if that run ended with a       *)
(* conflict it had not just been given.  A call that throws tells nothing. *)
(***************************************************************************)
EXTENDS Integers

VARIABLES
  run,      \* how many times the callback has been run
  happened, \* the runs whose writes have taken effect
  stale,    \* the runs that ended with a conflict they had not just been given
  outcome   \* "pending", "returned" or "threw"

vars == <<run, happened, stale, outcome>>

Init == run = 1 /\ happened = {} /\ stale = {} /\ outcome = "pending"

RunAgain ==
  /\ outcome = "pending"
  /\ stale' \in {stale, stale \cup {run}}
  /\ happened \subseteq stale'
  /\ run' = run + 1
  /\ UNCHANGED <<happened, outcome>>

\* The user does not know yet, and may never know.
Happen ==
  /\ outcome = "pending" /\ happened \subseteq stale
  /\ happened' = happened \cup {run}
  /\ UNCHANGED <<run, stale, outcome>>

Return ==
  /\ outcome = "pending" /\ happened \subseteq stale
  /\ happened' = happened \cup {run}
  /\ outcome' = "returned"
  /\ UNCHANGED <<run, stale>>

Throw ==
  /\ outcome = "pending"
  /\ outcome' = "threw"
  /\ UNCHANGED <<run, happened, stale>>

Next == RunAgain \/ Happen \/ Return \/ Throw

Spec == Init /\ [][Next]_vars

=============================================================================
