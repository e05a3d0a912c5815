---------------------------- MODULE RunTransaction ----------------------------
(***************************************************************************)
(* One call of runTransaction: its attempts, each with a Transaction and a *)
(* run of the user's callback, against a server whose answers may be       *)
(* errors or may not come.  The callback may also commit or roll back the  *)
(* transaction itself, handle errors or pass them on.                      *)
(***************************************************************************)
EXTENDS Integers

CONSTANTS
  Times,  \* the parameter times: how many conflicts are retried
  MaxOps  \* bound: calls that one run of the callback makes

ASSUME ParameterAssumption == Times \in Nat /\ MaxOps \in Nat

Attempt == 1..(Times + 1)

\* "conflict" has the code DATABASE_TRANSACTION_CONFLICT; undefined is "none".
Error == {"conflict", "other"}

\* A Transaction object.
Transaction == [inited: BOOLEAN, aborted: BOOLEAN, commited: BOOLEAN,
                abortReason: Error \cup {"none"}]

NewTransaction ==
  [inited |-> FALSE, aborted |-> FALSE, commited |-> FALSE, abortReason |-> "none"]

\* "refused" is any other error code; when a request is "unanswered", send
\* rejects and the server may have executed it or not.
Answer == {"ok", "conflict", "refused", "unanswered"}

ServerState == {"none", "open", "committed", "aborted"}

VARIABLES
  attempt,  \* number of the attempt, which is the depth of the recursion
  times,    \* the parameter of the innermost call
  pc,       \* what that call awaits
  tx,       \* its Transaction
  ops,      \* number of calls made by the current run of the callback
  answered, \* what the last of these calls threw, if it did
  error,    \* the error to throw once the implicit rollback is over
  thrown,   \* the error thrown to the user at the end
  server,   \* state of each attempt's transaction at the server
  asked,      \* history: attempts for which a rollback was sent
  conflicted, \* history: attempts to which the server answered a conflict
  stale       \* history: attempts retried for a conflict that the callback threw
              \* and that its last call had not given it

vars == <<attempt, times, pc, tx, ops, answered, error, thrown, server,
          asked, conflicted, stale>>

TypeOK ==
  /\ attempt \in Attempt
  /\ times \in 0..Times
  /\ pc \in {"init", "callback", "commit", "rollback", "returned", "threw"}
  /\ tx \in Transaction
  /\ ops \in 0..MaxOps
  /\ answered \in Error \cup {"none"}
  /\ error \in Error \cup {"none"}
  /\ thrown \in Error \cup {"none"}
  /\ server \in [Attempt -> ServerState]
  /\ {asked, conflicted, stale} \subseteq SUBSET Attempt

Init ==
  /\ attempt = 1
  /\ times = Times
  /\ pc = "init"
  /\ tx = NewTransaction
  /\ ops = 0
  /\ answered = "none"
  /\ error = "none"
  /\ thrown = "none"
  /\ server = [a \in Attempt |-> "none"]
  /\ asked = {} /\ conflicted = {} /\ stale = {}

-----------------------------------------------------------------------------
(* The server, as send is used: what a request leaves of a transaction.    *)

\* Only an open transaction can be used, committed, aborted or conflict; a
\* conflict may end it.
Outcomes(s, done, answer) ==
  CASE answer = "ok"         -> IF s = "open" THEN {done} ELSE {}
    [] answer = "conflict"   -> IF s = "open" THEN {"open", "aborted"} ELSE {}
    [] answer = "refused"    -> {s}
    [] answer = "unanswered" -> IF s = "open" THEN {s, done} ELSE {s}

\* The current transaction's request, which makes it done, has this answer.
Request(done, answer) ==
  /\ \E s \in Outcomes(server[attempt], done, answer) :
       server' = [server EXCEPT ![attempt] = s]
  /\ conflicted' = IF answer = "conflict" THEN conflicted \cup {attempt} ELSE conflicted

ErrorOf(answer) ==
  CASE answer = "ok" -> "none" [] answer = "conflict" -> "conflict" [] OTHER -> "other"

-----------------------------------------------------------------------------
(* How a call ends. *)

Throw(e) == pc' = "threw" /\ thrown' = e /\ UNCHANGED <<attempt, times, ops, answered, error>>

\* Mutant: an error of its own makes the call throw at once.
ThrowWithoutRollback(e) ==
  \/ /\ e # "other" /\ ~tx.aborted /\ ~tx.commited
     /\ pc' = "rollback"
     /\ error' = e
     /\ UNCHANGED <<attempt, times, ops, answered, thrown>>
  \/ tx.aborted /\ Throw(tx.abortReason)
  \/ ~tx.aborted /\ (e = "other" \/ tx.commited) /\ Throw(e)

\* throwWithRollback: throw the user's reason if it has rolled back.
ThrowWithRollback(e) ==
  \/ /\ ~tx.aborted /\ ~tx.commited
     /\ pc' = "rollback"
     /\ error' = e
     /\ UNCHANGED <<attempt, times, ops, answered, thrown>>
  \/ tx.aborted /\ Throw(tx.abortReason)
  \/ ~tx.aborted /\ tx.commited /\ Throw(e)

\* runTransaction calls itself with one time less and the same callback.
Retry ==
  /\ attempt' = attempt + 1
  /\ times' = times - 1
  /\ pc' = "init"
  /\ ops' = 0
  /\ answered' = "none"
  /\ UNCHANGED <<error, thrown>>

\* Mutant: every error is retried.
RetryAnyError(e) ==
  IF times > 0
    THEN Retry /\ tx' = NewTransaction
    ELSE ThrowWithRollback(e) /\ UNCHANGED tx

\* Mutant: one retry too many.
CatchOffByOne(e) ==
  IF times >= 0 /\ e = "conflict"
    THEN Retry /\ tx' = NewTransaction
    ELSE ThrowWithRollback(e) /\ UNCHANGED tx

\* The catch block, for a transaction that is inited.
Catch(e) ==
  IF times > 0 /\ e = "conflict"
    THEN Retry /\ tx' = NewTransaction
    ELSE ThrowWithRollback(e) /\ UNCHANGED tx

-----------------------------------------------------------------------------

\* new Transaction and transaction.init().
StartOk ==
  /\ pc = "init"
  /\ server' = [server EXCEPT ![attempt] = "open"]
  /\ tx' = [tx EXCEPT !.inited = TRUE]
  /\ pc' = "callback"
  /\ UNCHANGED <<attempt, times, ops, answered, error, thrown, asked, conflicted, stale>>

\* Init fails: the error is thrown as it is, even a conflict.
StartFails(answer) ==
  /\ pc = "init"
  /\ answer # "ok"
  /\ \/ UNCHANGED server
     \/ answer = "unanswered" /\ server' = [server EXCEPT ![attempt] = "open"]
  /\ Throw(ErrorOf(answer))
  /\ UNCHANGED <<tx, asked, conflicted, stale>>

Call == pc = "callback" /\ ops < MaxOps /\ ops' = ops + 1

\* The callback calls a method of DocumentReference; an error code is thrown.
Operate(answer) ==
  /\ Call
  /\ Request("open", answer)
  /\ answered' = ErrorOf(answer)
  /\ UNCHANGED <<attempt, times, pc, tx, error, thrown, asked, stale>>

\* The callback calls transaction.commit().
CallbackCommits(answer) ==
  /\ Call
  /\ Request("committed", answer)
  /\ tx' = [tx EXCEPT !.commited = @ \/ answer = "ok"]
  /\ answered' = ErrorOf(answer)
  /\ UNCHANGED <<attempt, times, pc, error, thrown, asked, stale>>

\* The callback calls transaction.rollback(reason), its reason perhaps an error
\* it has caught.
CallbackRollsBack(answer, reason) ==
  /\ Call
  /\ answer # "conflict"
  /\ Request("aborted", answer)
  /\ tx' = IF answer = "ok" THEN [tx EXCEPT !.aborted = TRUE, !.abortReason = reason] ELSE tx
  /\ answered' = ErrorOf(answer)
  /\ asked' = asked \cup {attempt}
  /\ UNCHANGED <<attempt, times, pc, error, thrown, stale>>

\* Mutant: the rollback of the user is not looked at.
CommitAnyway ==
  /\ pc = "callback"
  /\ pc' = "commit"
  /\ UNCHANGED <<attempt, times, tx, ops, answered, error, thrown, server,
                 asked, conflicted, stale>>

\* The callback resolves: throw the reason of its rollback, or commit.
CallbackReturns ==
  /\ pc = "callback"
  /\ IF tx.aborted
       THEN Catch(tx.abortReason)
       ELSE pc' = "commit" /\ UNCHANGED <<attempt, times, tx, ops, answered, error, thrown>>
  /\ UNCHANGED <<server, asked, conflicted, stale>>

\* The callback rejects with any error: one of its own, the last one it was
\* given, an earlier one, or one of another transaction.
CallbackThrows(e) ==
  /\ pc = "callback"
  /\ Catch(e)
  /\ stale' = IF e = "conflict" /\ answered # "conflict" /\ attempt' # attempt
                THEN stale \cup {attempt} ELSE stale
  /\ UNCHANGED <<server, asked, conflicted>>

\* Mutant: an error code in the answer is taken for success.
CommitUnchecked ==
  /\ pc = "commit"
  /\ \E answer \in {"ok", "refused"} : Request("committed", answer)
  /\ tx' = [tx EXCEPT !.commited = TRUE]
  /\ pc' = "returned"
  /\ UNCHANGED <<attempt, times, ops, answered, error, thrown, asked, stale>>

CommitOk ==
  /\ pc = "commit"
  /\ Request("committed", "ok")
  /\ tx' = [tx EXCEPT !.commited = TRUE]
  /\ pc' = "returned"
  /\ UNCHANGED <<attempt, times, ops, answered, error, thrown, asked, stale>>

CommitFails(answer) ==
  /\ pc = "commit"
  /\ answer # "ok"
  /\ Request("committed", answer)
  /\ Catch(ErrorOf(answer))
  /\ UNCHANGED <<asked, stale>>

\* Mutant: roll back until it succeeds.
RollBackUntilOk(answer) ==
  /\ pc = "rollback"
  /\ answer # "conflict"
  /\ Request("aborted", answer)
  /\ asked' = asked \cup {attempt}
  /\ UNCHANGED <<tx, stale>>
  /\ IF answer = "ok" THEN Throw(error)
                      ELSE UNCHANGED <<attempt, times, pc, ops, answered, error, thrown>>

\* The implicit rollback, whose errors are swallowed.
RollBack(answer) ==
  /\ pc = "rollback"
  /\ answer # "conflict"
  /\ Request("aborted", answer)
  /\ tx' = IF answer = "ok" THEN [tx EXCEPT !.aborted = TRUE] ELSE tx
  /\ asked' = asked \cup {attempt}
  /\ Throw(error)
  /\ UNCHANGED stale

Next ==
  \/ StartOk
  \/ \E answer \in Answer :
       \/ StartFails(answer)
       \/ Operate(answer)
       \/ CallbackCommits(answer)
       \/ \E reason \in Error \cup {"none"} : CallbackRollsBack(answer, reason)
       \/ CommitFails(answer)
       \/ RollBack(answer)
  \/ CallbackReturns
  \/ \E e \in Error : CallbackThrows(e)
  \/ CommitOk

Spec == Init /\ [][Next]_vars

\* Every send settles and so does the callback.
FairSpec == Spec /\ WF_vars(Next)

-----------------------------------------------------------------------------

\* The callback's writes take effect at most once, whatever it does with the
\* transaction and whatever answers are lost: a retry follows a commit only when
\* the callback itself threw a conflict that was not the answer to its last call,
\* as the catch block looks at the code of an error and not at commited.
CommittedOnce ==
  \A a, b \in Attempt :
    a < b /\ server[a] = "committed" /\ server[b] = "committed" => a \in stale

\* A call that returns has committed the transaction of the run of the callback
\* whose result it returns, and no other but with the same exception.
ReturnMeansCommitted ==
  pc = "returned" =>
    /\ server[attempt] = "committed"
    /\ \A a \in Attempt \ {attempt} : server[a] = "committed" => a \in stale

\* Nothing is committed behind a rollback: an attempt whose transaction the user
\* rolled back neither commits nor lets the call return.
RollbackIsFinal ==
  tx.aborted => server[attempt] = "aborted" /\ pc \notin {"commit", "returned"}

\* A call that is over leaves a transaction open only if it sent a rollback for
\* it, never learned that it was opened, or left it to the server after a
\* conflict, which is retried without a rollback: a conflict of that transaction,
\* or, the server not knowing of it, one that the callback brought along.
ReleasesLocks ==
  pc \in {"returned", "threw"} =>
    \A a \in Attempt : server[a] = "open" =>
      \/ a \in asked
      \/ a = attempt /\ ~tx.inited
      \/ a < attempt /\ a \in conflicted \cup stale

\* The inductive invariant behind the theorems: an attempt is over before the
\* next one starts, and only a conflict is retried.
Attempts ==
  \A a \in Attempt :
    /\ a < attempt => /\ server[a] = "committed" => a \in stale
                      /\ server[a] = "open" => a \in conflicted \cup stale
    /\ a >= attempt => a \notin stale
    /\ a > attempt => server[a] = "none"

Progress ==
  /\ attempt = Times + 1 - times
  /\ pc = "init" => server[attempt] = "none" /\ tx = NewTransaction /\ answered = "none"
  /\ pc = "returned" => server[attempt] = "committed"

Flags ==
  /\ tx.aborted => server[attempt] = "aborted" /\ pc \notin {"commit", "returned"}
  /\ tx.commited => server[attempt] = "committed"
  /\ pc = "callback" /\ answered = "conflict" =>
       attempt \in conflicted /\ server[attempt] \in {"open", "aborted"}
  /\ pc = "threw" /\ server[attempt] = "open" => attempt \in asked \/ ~tx.inited

IInv == TypeOK /\ Attempts /\ Progress /\ Flags

\* The call implements what its user is promised: each step is one of the promise
\* or changes nothing the user could know of.
Happened == {a \in Attempt : server[a] = "committed"}
Outcome == IF pc \in {"returned", "threw"} THEN pc ELSE "pending"

Promise == INSTANCE TransactionPromise WITH run <- attempt, happened <- Happened, outcome <- Outcome

ImplementsPromise == Promise!Spec

\* How many steps the attempt can still make.
Left ==
  CASE pc = "init" -> MaxOps + 4
    [] pc = "callback" -> MaxOps - ops + 3
    [] pc = "commit" -> 2
    [] pc = "rollback" -> 1
    [] pc \in {"returned", "threw"} -> 0

\* No answer and no error makes the call go on for ever: every step brings the
\* attempt nearer its end, or uses up one of the retries.
RunsOut == [][times' < times \/ (times' = times /\ Left' < Left)]_vars

\* The call returns or throws: conflicts are retried only so many times.
Ends == <>(pc \in {"returned", "threw"})

=============================================================================
