------------------------- MODULE RunTransactionProofs -------------------------
(***************************************************************************)
(* Proofs about RunTransaction, for any number of retries and calls.       *)
(***************************************************************************)
EXTENDS RunTransaction, TLAPS

\* A request changes the current attempt's transaction only, and only from
\* open; it never commits what it was not meant to.
LEMMA RequestFacts ==
  ASSUME IInv, NEW done \in {"open", "committed", "aborted"}, NEW answer \in Answer,
         Request(done, answer)
  PROVE  /\ server' \in [Attempt -> ServerState]
         /\ \A a \in Attempt \ {attempt} : server'[a] = server[a]
         /\ server[attempt] # "open" => server'[attempt] = server[attempt]
         /\ server'[attempt] = "none" => server[attempt] = "none"
         /\ answer = "ok" => server'[attempt] = done
         /\ answer = "conflict" => server'[attempt] \in {"open", "aborted"}
         /\ conflicted \subseteq conflicted' /\ conflicted' \subseteq Attempt
         /\ answer = "conflict" => attempt \in conflicted'
<1>1. attempt \in Attempt /\ server \in [Attempt -> ServerState]
  BY DEF IInv, TypeOK
<1>2. PICK s \in Outcomes(server[attempt], done, answer) :
         server' = [server EXCEPT ![attempt] = s]
  BY DEF Request
<1>3. s \in ServerState
  BY <1>1, <1>2 DEF Outcomes, Answer, ServerState
<1>4. /\ server[attempt] # "open" => s = server[attempt]
      /\ s = "none" => server[attempt] = "none"
      /\ answer = "ok" => s = done
      /\ answer = "conflict" => s \in {"open", "aborted"}
  BY <1>1, <1>2 DEF Outcomes, Answer
<1>5. conflicted \subseteq conflicted' /\ conflicted' \subseteq Attempt
      /\ (answer = "conflict" => attempt \in conflicted')
  BY <1>1 DEF Request, IInv, TypeOK
<1> QED
  BY <1>1, <1>2, <1>3, <1>4, <1>5

\* Catching an error keeps the invariant: what is retried has not committed and
\* has conflicted at the server, or the callback brought its conflict along.
LEMMA CatchPreserves ==
  ASSUME IInv, NEW e \in Error \cup {"none"}, Catch(e), asked' = asked,
         stale' = stale \/ (stale' = stale \cup {attempt} /\ attempt' # attempt),
         conflicted \subseteq conflicted', conflicted' \subseteq Attempt,
         pc \in {"callback", "commit"},
         server' \in [Attempt -> ServerState],
         \A a \in Attempt \ {attempt} : server'[a] = server[a],
         tx.aborted => server'[attempt] = "aborted",
         tx.commited => server'[attempt] = "committed",
         attempt' # attempt /\ e = "conflict" =>
           \/ attempt \in stale'
           \/ server'[attempt] = "aborted"
           \/ attempt \in conflicted' /\ server'[attempt] # "committed"
  PROVE  IInv'
<1>1. CASE times > 0 /\ e = "conflict"
  <2>1. /\ attempt' = attempt + 1 /\ times' = times - 1 /\ pc' = "init"
        /\ ops' = 0 /\ answered' = "none" /\ tx' = NewTransaction
        /\ UNCHANGED <<error, thrown>>
    BY <1>1 DEF Catch, Retry
  <2>2. /\ attempt \in Nat /\ times \in Nat /\ times <= Times
        /\ attempt' \in Attempt /\ times' \in 0..Times
        /\ attempt' = Times + 1 - times'
    BY <1>1, <2>1, ParameterAssumption DEF IInv, TypeOK, Progress, Attempt
  <2>3. TypeOK'
    BY <2>1, <2>2, ParameterAssumption DEF IInv, TypeOK, Transaction, NewTransaction
  <2>4. server'[attempt'] = "none"
    BY <2>1, <2>2, ParameterAssumption DEF IInv, Attempts, Attempt
  <2>5. Attempts'
    BY <1>1, <2>1, <2>2, ParameterAssumption DEF IInv, Attempts, Attempt
  <2>6. Progress' /\ Flags'
    BY <2>1, <2>2, <2>4 DEF Progress, Flags, NewTransaction
  <2> QED
    BY <2>3, <2>5, <2>6 DEF IInv
<1>2. CASE ~(times > 0 /\ e = "conflict")
  <2>1. /\ UNCHANGED <<attempt, times, ops, answered, tx>>
        /\ pc' = "rollback" \/ (pc' = "threw" /\ (tx.aborted \/ tx.commited))
        /\ error' \in Error \cup {"none"}
        /\ thrown' \in Error \cup {"none"}
    BY <1>2 DEF Catch, ThrowWithRollback, Throw, IInv, TypeOK, Transaction
  <2>2. TypeOK'
    BY <2>1 DEF IInv, TypeOK
  <2>3. Attempts' /\ Progress' /\ Flags'
    BY <2>1 DEF IInv, TypeOK, Attempts, Progress, Flags, Attempt
  <2> QED
    BY <2>2, <2>3 DEF IInv
<1> QED
  BY <1>1, <1>2

\* A step within an attempt.
LEMMA SameAttempt ==
  ASSUME IInv, UNCHANGED <<attempt, times, stale>>, conflicted \subseteq conflicted',
         server' \in [Attempt -> ServerState],
         \A a \in Attempt \ {attempt} : server'[a] = server[a],
         TypeOK', Progress', Flags'
  PROVE  IInv'
<1>1. attempt \in Nat /\ \A a \in Attempt : a \in Nat
  BY ParameterAssumption DEF IInv, TypeOK, Attempt
<1> QED
  BY <1>1 DEF IInv, Attempts

LEMMA StartOkPreserves == ASSUME IInv, StartOk PROVE IInv'
<1>1. TypeOK'
  BY DEF IInv, TypeOK, StartOk, Transaction, ServerState
<1>2. server'[attempt] = "open" /\ \A a \in Attempt \ {attempt} : server'[a] = server[a]
  BY DEF IInv, TypeOK, StartOk
<1>3. ~tx'.aborted /\ ~tx'.commited
  BY DEF IInv, TypeOK, Progress, StartOk, NewTransaction
<1>4. Progress' /\ Flags'
  BY <1>2, <1>3 DEF IInv, TypeOK, Progress, Flags, StartOk
<1> QED
  BY <1>1, <1>2, <1>4, SameAttempt DEF StartOk, TypeOK

LEMMA StartFailsPreserves ==
  ASSUME IInv, NEW answer \in Answer, StartFails(answer) PROVE IInv'
<1>1. /\ server' \in [Attempt -> ServerState]
      /\ \A a \in Attempt \ {attempt} : server'[a] = server[a]
      /\ server'[attempt] = server[attempt] \/ server'[attempt] = "open"
  BY DEF StartFails, IInv, TypeOK, ServerState
<1>2. pc' = "threw" /\ thrown' \in Error \cup {"none"}
      /\ UNCHANGED <<attempt, times, ops, answered, error, tx, asked, conflicted, stale>>
  BY DEF StartFails, Throw, ErrorOf, Error
<1>3. TypeOK'
  BY <1>1, <1>2 DEF IInv, TypeOK
<1>4. Progress' /\ Flags'
  BY <1>1, <1>2 DEF IInv, Progress, Flags, StartFails, NewTransaction
<1> QED
  BY <1>1, <1>2, <1>3, <1>4, SameAttempt

\* What the calls of the callback have in common.
LEMMA CallPreserves ==
  ASSUME IInv, Call, NEW done \in {"open", "committed", "aborted"}, NEW answer \in Answer,
         Request(done, answer), answered' = ErrorOf(answer),
         tx' \in Transaction, tx'.aborted => tx.aborted \/ (done = "aborted" /\ answer = "ok"),
         tx'.commited => tx.commited \/ (done = "committed" /\ answer = "ok"),
         asked' \subseteq Attempt,
         asked \subseteq asked', UNCHANGED <<attempt, times, pc, error, thrown, stale>>
  PROVE  IInv'
<1>1. /\ server' \in [Attempt -> ServerState]
      /\ \A a \in Attempt \ {attempt} : server'[a] = server[a]
      /\ server[attempt] # "open" => server'[attempt] = server[attempt]
      /\ answer = "ok" => server'[attempt] = done
      /\ answer = "conflict" => server'[attempt] \in {"open", "aborted"}
      /\ conflicted \subseteq conflicted' /\ conflicted' \subseteq Attempt
      /\ answer = "conflict" => attempt \in conflicted'
  BY RequestFacts
<1>2. ErrorOf(answer) \in Error \cup {"none"}
      /\ (ErrorOf(answer) = "conflict" => answer = "conflict")
  BY DEF ErrorOf, Error, Answer
<1>3. ops' \in 0..MaxOps /\ pc = "callback"
  BY ParameterAssumption DEF Call, IInv, TypeOK
<1>4. TypeOK'
  BY <1>1, <1>2, <1>3 DEF IInv, TypeOK
<1>5. Progress' /\ Flags'
  BY <1>1, <1>2, <1>3 DEF IInv, TypeOK, Progress, Flags
<1> QED
  BY <1>1, <1>4, <1>5, SameAttempt

LEMMA OperatePreserves ==
  ASSUME IInv, NEW answer \in Answer, Operate(answer) PROVE IInv'
BY CallPreserves DEF Operate, IInv, TypeOK

LEMMA CallbackCommitsPreserves ==
  ASSUME IInv, NEW answer \in Answer, CallbackCommits(answer) PROVE IInv'
<1>1. tx' \in Transaction /\ tx'.aborted = tx.aborted
      /\ (tx'.commited => tx.commited \/ answer = "ok")
  BY DEF CallbackCommits, IInv, TypeOK, Transaction
<1> QED
  BY <1>1, CallPreserves DEF CallbackCommits, IInv, TypeOK

LEMMA CallbackRollsBackPreserves ==
  ASSUME IInv, NEW answer \in Answer, NEW reason \in Error \cup {"none"},
         CallbackRollsBack(answer, reason)
  PROVE  IInv'
<1>1. tx' \in Transaction /\ (tx'.aborted => tx.aborted \/ answer = "ok")
      /\ tx'.commited = tx.commited
  BY DEF CallbackRollsBack, IInv, TypeOK, Transaction
<1>2. asked' \subseteq Attempt
  BY DEF CallbackRollsBack, IInv, TypeOK
<1> QED
  BY <1>1, <1>2, CallPreserves DEF CallbackRollsBack

LEMMA CallbackReturnsPreserves == ASSUME IInv, CallbackReturns PROVE IInv'
<1>1. CASE tx.aborted
  <2>1. tx.abortReason \in Error \cup {"none"} /\ server[attempt] = "aborted"
    BY <1>1 DEF IInv, TypeOK, Transaction, Flags
  <2> QED
    BY <1>1, <2>1, CatchPreserves DEF CallbackReturns, IInv, TypeOK, Flags
<1>2. CASE ~tx.aborted
  <2>1. TypeOK'
    BY <1>2 DEF CallbackReturns, IInv, TypeOK
  <2>2. Progress' /\ Flags'
    BY <1>2 DEF CallbackReturns, IInv, Progress, Flags
  <2> QED
    BY <1>2, <2>1, <2>2, SameAttempt DEF CallbackReturns, IInv, TypeOK
<1> QED
  BY <1>1, <1>2

LEMMA CallbackThrowsPreserves ==
  ASSUME IInv, NEW e \in Error, CallbackThrows(e) PROVE IInv'
<1>1. \/ stale' = stale
      \/ stale' = stale \cup {attempt} /\ attempt' # attempt
  BY DEF CallbackThrows
<1>2. attempt' # attempt /\ e = "conflict" =>
        attempt \in stale' \/ answered = "conflict"
  BY DEF CallbackThrows
<1> QED
  BY <1>1, <1>2, CatchPreserves DEF CallbackThrows, IInv, TypeOK, Flags

LEMMA CommitOkPreserves == ASSUME IInv, CommitOk PROVE IInv'
<1>1. /\ server' \in [Attempt -> ServerState]
      /\ \A a \in Attempt \ {attempt} : server'[a] = server[a]
      /\ server'[attempt] = "committed"
      /\ conflicted \subseteq conflicted' /\ conflicted' \subseteq Attempt
  BY RequestFacts DEF CommitOk, Answer
<1>3. tx' \in Transaction /\ tx'.aborted = tx.aborted /\ ~tx.aborted
      /\ answered' = answered
  BY DEF CommitOk, IInv, TypeOK, Transaction, Flags
<1>4. TypeOK'
  BY <1>1, <1>3 DEF CommitOk, IInv, TypeOK
<1> QED
  BY <1>1, <1>3, <1>4, SameAttempt DEF CommitOk, IInv, Progress, Flags

LEMMA CommitFailsPreserves ==
  ASSUME IInv, NEW answer \in Answer, CommitFails(answer) PROVE IInv'
<1>1. /\ server' \in [Attempt -> ServerState]
      /\ \A a \in Attempt \ {attempt} : server'[a] = server[a]
      /\ server[attempt] # "open" => server'[attempt] = server[attempt]
      /\ answer = "conflict" => server'[attempt] \in {"open", "aborted"}
      /\ conflicted \subseteq conflicted' /\ conflicted' \subseteq Attempt
      /\ answer = "conflict" => attempt \in conflicted'
  BY RequestFacts DEF CommitFails
<1>2. ErrorOf(answer) \in Error \cup {"none"}
      /\ (ErrorOf(answer) = "conflict" => answer = "conflict")
  BY DEF ErrorOf, Error, Answer
<1>3. ~tx.aborted /\ (tx.commited => server[attempt] = "committed")
  BY DEF CommitFails, IInv, Flags
<1> QED
  BY <1>1, <1>2, <1>3, CatchPreserves DEF CommitFails

LEMMA RollBackPreserves ==
  ASSUME IInv, NEW answer \in Answer, RollBack(answer) PROVE IInv'
<1>1. /\ server' \in [Attempt -> ServerState]
      /\ \A a \in Attempt \ {attempt} : server'[a] = server[a]
      /\ server[attempt] # "open" => server'[attempt] = server[attempt]
      /\ answer = "ok" => server'[attempt] = "aborted"
      /\ conflicted \subseteq conflicted' /\ conflicted' \subseteq Attempt
  BY RequestFacts DEF RollBack
<1>2. tx' \in Transaction /\ (tx'.aborted => tx.aborted \/ answer = "ok")
      /\ tx'.commited = tx.commited
  BY DEF RollBack, IInv, TypeOK, Transaction
<1>3. pc' = "threw" /\ thrown' \in Error \cup {"none"} /\ asked' \subseteq Attempt
      /\ UNCHANGED <<attempt, times, ops, answered, error, stale>>
  BY DEF RollBack, Throw, IInv, TypeOK
<1>4. TypeOK'
  BY <1>1, <1>2, <1>3 DEF IInv, TypeOK
<1>5. Progress' /\ Flags'
  BY <1>1, <1>2, <1>3 DEF IInv, Progress, Flags, RollBack, Request, Outcomes
<1> QED
  BY <1>1, <1>3, <1>4, <1>5, SameAttempt

LEMMA InitEstablishes == ASSUME Init PROVE IInv
<1>1. 1 \in Attempt /\ Times \in 0..Times /\ 0 \in 0..MaxOps
  BY ParameterAssumption DEF Attempt
<1>2. server \in [Attempt -> ServerState] /\ tx \in Transaction
  BY DEF Init, ServerState, NewTransaction, Transaction
<1>3. TypeOK
  BY <1>1, <1>2 DEF Init, TypeOK
<1>4. stale = {} /\ \A a \in Attempt : server[a] = "none" /\ ~(a < attempt)
  BY ParameterAssumption DEF Init, Attempt
<1>5. Attempts
  BY <1>4 DEF Attempts
<1>6. Progress /\ Flags
  BY <1>1, ParameterAssumption DEF Init, Progress, Flags, NewTransaction
<1> QED
  BY <1>3, <1>5, <1>6 DEF IInv

LEMMA NextPreserves == ASSUME IInv, [Next]_vars PROVE IInv'
<1>1. CASE Next
  BY <1>1, StartOkPreserves, StartFailsPreserves, OperatePreserves,
     CallbackCommitsPreserves, CallbackRollsBackPreserves, CallbackReturnsPreserves,
     CallbackThrowsPreserves, CommitOkPreserves, CommitFailsPreserves, RollBackPreserves
     DEF Next
<1>2. CASE UNCHANGED vars
  BY <1>2 DEF vars, IInv, TypeOK, Attempts, Progress, Flags
<1> QED
  BY <1>1, <1>2

\* The inductive invariant, for any times and any number of calls.
THEOREM Invariance == Spec => []IInv
<1>1. Init => IInv
  BY InitEstablishes
<1>2. IInv /\ [Next]_vars => IInv'
  BY NextPreserves
<1> QED
  BY <1>1, <1>2, PTL DEF Spec

\* Every variable keeps its type: attempts and tickets stay in their bounds.
THEOREM TypeCorrect == Spec => []TypeOK
<1>1. IInv => TypeOK
  BY DEF IInv
<1> QED
  BY <1>1, Invariance, PTL

\* However often runTransaction calls itself, the user's writes are committed by
\* at most one attempt, but for attempts that the callback had retried itself: it
\* threw a conflict that was not the answer to its last call.
THEOREM AtMostOnce == Spec => []CommittedOnce
<1>1. IInv => CommittedOnce
  <2> SUFFICES ASSUME IInv, NEW a \in Attempt, NEW b \in Attempt, a < b,
                      server[a] = "committed", server[b] = "committed"
               PROVE  a \in stale
    BY DEF CommittedOnce
  <2>1. a \in Nat /\ b \in Nat /\ attempt \in Nat
    BY ParameterAssumption DEF IInv, TypeOK, Attempt
  <2>2. a < attempt
    BY <2>1 DEF IInv, Attempts
  <2> QED
    BY <2>2 DEF IInv, Attempts
<1> QED
  BY <1>1, Invariance, PTL

\* A result is returned only for an attempt that was committed, and no other was,
\* with the same exception.
THEOREM ReturnedCommitted == Spec => []ReturnMeansCommitted
<1>1. IInv => ReturnMeansCommitted
  <2> SUFFICES ASSUME IInv, pc = "returned"
               PROVE  /\ server[attempt] = "committed"
                      /\ \A a \in Attempt \ {attempt} : server[a] = "committed" => a \in stale
    BY DEF ReturnMeansCommitted
  <2>1. server[attempt] = "committed"
    BY DEF IInv, Progress
  <2>2. ASSUME NEW a \in Attempt \ {attempt}, server[a] = "committed" PROVE a \in stale
    <3>1. a \in Nat /\ attempt \in Nat
      BY ParameterAssumption DEF IInv, TypeOK, Attempt
    <3> QED
      BY <2>2, <3>1 DEF IInv, Attempts
  <2> QED
    BY <2>1, <2>2
<1> QED
  BY <1>1, Invariance, PTL

\* A transaction the user rolled back is never committed afterwards.
THEOREM RolledBack == Spec => []RollbackIsFinal
<1>1. IInv => RollbackIsFinal
  BY DEF IInv, Flags, RollbackIsFinal
<1> QED
  BY <1>1, Invariance, PTL

\* When the call is over, every transaction of it that is open has been sent a
\* rollback, was never known to be open, or was retried for a conflict: the last
\* attempt leaves none behind.
THEOREM LocksReleased == Spec => []ReleasesLocks
<1>1. IInv => ReleasesLocks
  <2> SUFFICES ASSUME IInv, pc \in {"returned", "threw"},
                      NEW a \in Attempt, server[a] = "open"
               PROVE  \/ a \in asked
                      \/ a = attempt /\ ~tx.inited
                      \/ a < attempt /\ a \in conflicted \cup stale
    BY DEF ReleasesLocks
  <2>1. a \in Nat /\ attempt \in Nat
    BY ParameterAssumption DEF IInv, TypeOK, Attempt
  <2>2. CASE a = attempt
    BY <2>2 DEF IInv, Progress, Flags
  <2>3. CASE a # attempt
    BY <2>1, <2>3 DEF IInv, Attempts
  <2> QED
    BY <2>2, <2>3
<1> QED
  BY <1>1, Invariance, PTL

-----------------------------------------------------------------------------
\* The promise to the user

\* What has happened before the current run, and what a step of it adds.
LEMMA HappenedIs ==
  ASSUME IInv
  PROVE  /\ Happened \ {attempt} \subseteq stale /\ attempt \notin stale
         /\ attempt \in Happened <=> server[attempt] = "committed"
<1>1. attempt \in Attempt /\ attempt \in Nat /\ \A a \in Attempt : a \in Nat
  BY ParameterAssumption DEF IInv, TypeOK, Attempt
<1>2. attempt \notin stale
  BY <1>1 DEF IInv, Attempts
<1>3. ASSUME NEW a \in Happened \ {attempt} PROVE a \in stale
  <2>1. a \in Attempt /\ server[a] = "committed"
    BY DEF Happened
  <2>2. a < attempt
    BY <1>1, <2>1 DEF IInv, Attempts
  <2> QED
    BY <2>1, <2>2 DEF IInv, Attempts
<1>4. attempt \in Happened <=> server[attempt] = "committed"
  BY <1>1 DEF Happened
<1> QED
  BY <1>2, <1>3, <1>4

\* Only the transaction of the current run changes.
OthersStay == \A a \in Attempt \ {attempt} : server'[a] = server[a]

LEMMA HappenedStep ==
  ASSUME IInv, OthersStay
  PROVE  /\ server'[attempt] = "committed" => Happened' = Happened \cup {attempt}
         /\ server'[attempt] # "committed" => Happened' = Happened \ {attempt}
<1>1. attempt \in Attempt
  BY DEF IInv, TypeOK
<1> QED
  BY <1>1 DEF Happened, OthersStay

\* A step within an attempt that does not end the call: the run may happen.
LEMMA StaysPending ==
  ASSUME IInv, OthersStay, UNCHANGED <<attempt, stale>>,
         pc \notin {"returned", "threw"}, pc' \notin {"returned", "threw"},
         server[attempt] = "committed" => server'[attempt] = "committed"
  PROVE  Promise!Happen \/ UNCHANGED <<attempt, Happened, stale, Outcome>>
<1>1. Outcome = "pending" /\ Outcome' = "pending"
  BY DEF Outcome
<1>2. CASE server[attempt] # "committed" /\ server'[attempt] = "committed"
  BY <1>1, <1>2, HappenedIs, HappenedStep DEF Promise!Happen
<1>3. CASE server[attempt] = "committed" <=> server'[attempt] = "committed"
  BY <1>1, <1>3, HappenedIs, HappenedStep
<1> QED
  BY <1>2, <1>3

\* The call ends with an error: nothing happens by that.
LEMMA ThrowsPromise ==
  ASSUME IInv, OthersStay, UNCHANGED <<attempt, stale>>,
         pc \notin {"returned", "threw"}, pc' = "threw",
         server'[attempt] = "committed" <=> server[attempt] = "committed"
  PROVE  Promise!Throw
<1>1. Outcome = "pending" /\ Outcome' = "threw"
  BY DEF Outcome
<1>2. Happened' = Happened
  BY HappenedIs, HappenedStep
<1> QED
  BY <1>1, <1>2 DEF Promise!Throw

\* The catch block runs the callback again after a run that has happened only if
\* that run brought its conflict along.
LEMMA CatchPromise ==
  ASSUME IInv, IInv', OthersStay, NEW e \in Error \cup {"none"}, Catch(e),
         pc \in {"callback", "commit"},
         stale' = stale \/ (stale' = stale \cup {attempt} /\ attempt' # attempt),
         server[attempt] = "committed" => server'[attempt] = "committed",
         tx.aborted \/ tx.commited => server'[attempt] = server[attempt],
         attempt' # attempt /\ server'[attempt] # server[attempt] =>
           server'[attempt] # "committed"
  PROVE  [Promise!Next]_<<attempt, Happened, stale, Outcome>>
<1>1. CASE times > 0 /\ e = "conflict"
  <2>1. attempt' = attempt + 1 /\ pc' = "init"
    BY <1>1 DEF Catch, Retry
  <2>2. attempt \in Attempt /\ attempt' \in Attempt /\ attempt < attempt'
    BY <2>1, ParameterAssumption DEF IInv, TypeOK, Attempt
  <2>3. Happened' = Happened
    BY <2>1, <2>2, HappenedIs, HappenedStep
  <2>4. Happened' \subseteq stale'
    <3>1. server'[attempt] = "committed" => attempt \in stale'
      BY <2>1, <2>2 DEF IInv, Attempts
    <3> QED
      BY <2>3, <3>1, HappenedIs, HappenedStep
  <2>5. Outcome = "pending" /\ Outcome' = "pending"
    BY <2>1 DEF Outcome
  <2> QED
    BY <2>1, <2>3, <2>4, <2>5 DEF Promise!Next, Promise!RunAgain
<1>2. CASE ~(times > 0 /\ e = "conflict")
  <2>1. /\ UNCHANGED attempt
        /\ pc' = "rollback" \/ (pc' = "threw" /\ (tx.aborted \/ tx.commited))
    BY <1>2 DEF Catch, ThrowWithRollback, Throw
  <2> QED
    BY <2>1, StaysPending, ThrowsPromise DEF Promise!Next
<1> QED
  BY <1>1, <1>2

LEMMA OneAttempt == ASSUME IInv, [Next]_vars PROVE OthersStay
<1>1. CASE StartOk \/ \E answer \in Answer : StartFails(answer)
  BY <1>1 DEF StartOk, StartFails, OthersStay, IInv, TypeOK
<1>2. ASSUME NEW answer \in Answer, NEW done \in {"open", "committed", "aborted"},
             Request(done, answer)
      PROVE  OthersStay
  BY <1>2, RequestFacts DEF OthersStay
<1>3. ASSUME UNCHANGED server PROVE OthersStay
  BY <1>3 DEF OthersStay
<1>4. "ok" \in Answer
  BY DEF Answer
<1> QED
  BY <1>1, <1>2, <1>3, <1>4 DEF Next, Operate, CallbackCommits, CallbackRollsBack,
     CommitFails, RollBack, CallbackReturns, CallbackThrows, CommitOk, vars

\* Each step of the call is a step of the promise, or one its user cannot tell.
LEMMA PromiseStep ==
  ASSUME IInv, IInv', [Next]_vars
  PROVE  [Promise!Next]_<<attempt, Happened, stale, Outcome>>
<1> USE OneAttempt
<1>1. CASE StartOk
  <2>1. server[attempt] = "none"
    BY <1>1 DEF StartOk, IInv, Progress
  <2> QED
    BY <1>1, <2>1, StaysPending DEF StartOk, Promise!Next
<1>2. ASSUME NEW answer \in Answer, StartFails(answer)
      PROVE  [Promise!Next]_<<attempt, Happened, stale, Outcome>>
  <2>1. server[attempt] = "none" /\ server'[attempt] \in {"none", "open"}
    BY <1>2 DEF StartFails, IInv, TypeOK, Progress
  <2> QED
    BY <1>2, <2>1, ThrowsPromise DEF StartFails, Throw, Promise!Next
<1>3. ASSUME NEW answer \in Answer,
             \/ Operate(answer)
             \/ CallbackCommits(answer)
             \/ \E reason \in Error \cup {"none"} : CallbackRollsBack(answer, reason)
      PROVE  [Promise!Next]_<<attempt, Happened, stale, Outcome>>
  <2>1. /\ pc = "callback" /\ UNCHANGED <<pc, attempt, stale>>
        /\ \E done \in {"open", "committed", "aborted"} : Request(done, answer)
    BY <1>3 DEF Operate, CallbackCommits, CallbackRollsBack, Call
  <2>2. server[attempt] = "committed" => server'[attempt] = "committed"
    BY <2>1, RequestFacts
  <2> QED
    BY <2>1, <2>2, StaysPending DEF Promise!Next
<1>4. CASE CallbackReturns
  <2>1. CASE tx.aborted
    BY <1>4, <2>1, CatchPromise DEF CallbackReturns, IInv, TypeOK, Transaction
  <2>2. CASE ~tx.aborted
    BY <1>4, <2>2, StaysPending DEF CallbackReturns, Promise!Next
  <2> QED
    BY <2>1, <2>2
<1>5. ASSUME NEW e \in Error, CallbackThrows(e)
      PROVE  [Promise!Next]_<<attempt, Happened, stale, Outcome>>
  <2>1. stale' = stale \/ (stale' = stale \cup {attempt} /\ attempt' # attempt)
    BY <1>5 DEF CallbackThrows
  <2> QED
    BY <1>5, <2>1, CatchPromise DEF CallbackThrows
<1>6. CASE CommitOk
  <2>1. server[attempt] = "open" /\ server'[attempt] = "committed"
    BY <1>6 DEF CommitOk, Request, Outcomes, IInv, TypeOK
  <2>2. /\ Happened \subseteq stale /\ Happened' = Happened \cup {attempt}
        /\ UNCHANGED <<attempt, stale>>
    BY <1>6, <2>1, HappenedIs, HappenedStep DEF CommitOk
  <2>3. Outcome = "pending" /\ Outcome' = "returned"
    BY <1>6 DEF CommitOk, Outcome
  <2> QED
    BY <2>2, <2>3 DEF Promise!Next, Promise!Return
<1>7. ASSUME NEW answer \in Answer, CommitFails(answer)
      PROVE  [Promise!Next]_<<attempt, Happened, stale, Outcome>>
  <2>1. /\ server[attempt] # "open" => server'[attempt] = server[attempt]
        /\ answer = "conflict" => server'[attempt] # "committed"
    BY <1>7, RequestFacts DEF CommitFails
  <2>2. ~tx.aborted /\ (tx.commited => server[attempt] = "committed")
    BY <1>7 DEF CommitFails, IInv, Flags
  <2>3. ErrorOf(answer) \in Error \cup {"none"}
    BY DEF ErrorOf, Error
  <2>4. attempt' # attempt => answer = "conflict"
    BY <1>7 DEF CommitFails, Catch, ErrorOf, Answer, ThrowWithRollback, Throw
  <2> QED
    BY <1>7, <2>1, <2>2, <2>3, <2>4, CatchPromise DEF CommitFails
<1>8. ASSUME NEW answer \in Answer, RollBack(answer)
      PROVE  [Promise!Next]_<<attempt, Happened, stale, Outcome>>
  <2>1. server'[attempt] = "committed" <=> server[attempt] = "committed"
    <3>1. PICK s \in Outcomes(server[attempt], "aborted", answer) :
            server' = [server EXCEPT ![attempt] = s]
      BY <1>8 DEF RollBack, Request
    <3>2. s \in {server[attempt], "aborted"} /\ (s # server[attempt] => server[attempt] = "open")
      BY <1>8, <3>1 DEF RollBack, Outcomes, Answer
    <3>3. server'[attempt] = s
      BY <3>1 DEF IInv, TypeOK
    <3> QED
      BY <3>2, <3>3
  <2> QED
    BY <1>8, <2>1, ThrowsPromise DEF RollBack, Throw, Promise!Next
<1>9. CASE UNCHANGED vars
  BY <1>9 DEF vars, Happened, Outcome
<1> QED
  BY <1>1, <1>2, <1>3, <1>4, <1>5, <1>6, <1>7, <1>8, <1>9 DEF Next

\* Whatever the callback, the server and the network do, runTransaction keeps what
\* it promises: one run happens or none, and a return tells which.
THEOREM Refinement == Spec => ImplementsPromise
<1>1. Init => Promise!Init
  <2> SUFFICES ASSUME Init PROVE Promise!Init
    OBVIOUS
  <2>1. Happened = {}
    BY DEF Init, Happened
  <2> QED
    BY <2>1 DEF Init, Outcome, Promise!Init
<1>2. IInv /\ IInv' /\ [Next]_vars => [Promise!Next]_<<attempt, Happened, stale, Outcome>>
  BY PromiseStep
<1> QED
  BY <1>1, <1>2, Invariance, PTL DEF Spec, ImplementsPromise, Promise!Spec, Promise!vars

-----------------------------------------------------------------------------
\* The end of the call

\* The catch block retries with one time less, or ends the attempt.
LEMMA CatchRunsOut ==
  ASSUME IInv, NEW e, Catch(e), pc \in {"callback", "commit"}
  PROVE  times' < times \/ (times' = times /\ Left' < Left)
<1>1. times \in Nat /\ Left \in Nat /\ Left > 1
  BY ParameterAssumption DEF IInv, TypeOK, Left
<1>2. CASE times > 0 /\ e = "conflict"
  BY <1>1, <1>2 DEF Catch, Retry
<1>3. CASE ~(times > 0 /\ e = "conflict")
  <2>1. times' = times /\ pc' \in {"rollback", "threw"}
    BY <1>3 DEF Catch, ThrowWithRollback, Throw
  <2>2. Left' \in 0..1
    BY <2>1 DEF Left
  <2> QED
    BY <1>1, <2>1, <2>2
<1> QED
  BY <1>2, <1>3

LEMMA StepRunsOut ==
  ASSUME IInv, Next
  PROVE  times' < times \/ (times' = times /\ Left' < Left)
<1>1. ops \in 0..MaxOps /\ MaxOps \in Nat
  BY ParameterAssumption DEF IInv, TypeOK
<1>2. CASE StartOk
  BY <1>1, <1>2 DEF StartOk, Left
<1>3. ASSUME NEW answer \in Answer, StartFails(answer)
      PROVE  times' = times /\ Left' < Left
  BY <1>1, <1>3 DEF StartFails, Throw, Left
<1>4. ASSUME NEW answer \in Answer,
             \/ Operate(answer)
             \/ CallbackCommits(answer)
             \/ \E reason \in Error \cup {"none"} : CallbackRollsBack(answer, reason)
      PROVE  times' = times /\ Left' < Left
  <2>1. pc = "callback" /\ ops' = ops + 1 /\ UNCHANGED <<times, pc>>
    BY <1>4 DEF Operate, CallbackCommits, CallbackRollsBack, Call
  <2> QED
    BY <1>1, <2>1 DEF Left
<1>5. CASE CallbackReturns
  <2>1. CASE tx.aborted
    BY <1>5, <2>1, CatchRunsOut DEF CallbackReturns
  <2>2. CASE ~tx.aborted
    BY <1>1, <1>5, <2>2 DEF CallbackReturns, Left
  <2> QED
    BY <2>1, <2>2
<1>6. ASSUME NEW e \in Error, CallbackThrows(e)
      PROVE  times' < times \/ (times' = times /\ Left' < Left)
  BY <1>6, CatchRunsOut DEF CallbackThrows
<1>7. CASE CommitOk
  BY <1>7 DEF CommitOk, Left
<1>8. ASSUME NEW answer \in Answer, CommitFails(answer)
      PROVE  times' < times \/ (times' = times /\ Left' < Left)
  BY <1>8, CatchRunsOut DEF CommitFails
<1>9. ASSUME NEW answer \in Answer, RollBack(answer)
      PROVE  times' = times /\ Left' < Left
  BY <1>9 DEF RollBack, Throw, Left
<1> QED
  BY <1>2, <1>3, <1>4, <1>5, <1>6, <1>7, <1>8, <1>9 DEF Next

\* Both are natural numbers, so the call makes only so many steps.
THEOREM CallRunsOut == Spec => RunsOut /\ [](times \in Nat /\ Left \in Nat)
<1>1. IInv /\ [Next]_vars => [times' < times \/ (times' = times /\ Left' < Left)]_vars
  BY StepRunsOut
<1>2. IInv => times \in Nat /\ Left \in Nat
  BY ParameterAssumption DEF IInv, TypeOK, Left
<1> QED
  BY <1>1, <1>2, Invariance, PTL DEF Spec, RunsOut

=============================================================================
