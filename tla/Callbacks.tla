------------------------------ MODULE Callbacks ------------------------------
(***************************************************************************)
(* A call of an operation, from its request to its callback: the server    *)
(* takes the request and answers, or refuses it, or it is lost; what the   *)
(* operation makes of that is told to the user.  Requests says what is     *)
(* asked and answered.                                                     *)
(***************************************************************************)
EXTENDS Integers, Sequences

VARIABLES
  calls,  \* the operations called
  faults  \* how many requests may still be refused or lost, and callbacks throw

NoAnswer == <<"unknown", 0>>

\* step is "sent" until the request settles and "thrown" when the callback threw;
\* told is what the callback, or the promise in its place, was called with; ghost
\* asked: the call, whether it took effect and what the user sees of its answer.
Call(meant, action, param, step, told) ==
  /\ calls' = Append(calls, [action |-> action, param |-> param, step |-> step, answer |-> NoAnswer, told |-> told,
                             asked |-> [call |-> meant, done |-> FALSE, result |-> NoAnswer]])
  /\ UNCHANGED faults

Send(meant, action, param) == Call(meant, action, param, "sent", <<>>)

\* INVALID_PARAM, or an update operator where there must be none.  A promise tells it,
\* even where a callback was given.
Decline(meant, param) == Call(meant, "none", param, "ended", <<"code">>)

Fault == faults > 0 /\ faults' = faults - 1

\* The server does what is asked; its answer, of which the user is to see result,
\* may be lost.
Answer(c, answer, result) ==
  /\ calls[c].step = "sent"
  /\ \E step \in {"answered", "failed"} :
       /\ calls' = [calls EXCEPT ![c].step = step, ![c].answer = answer,
                                 ![c].asked = [call |-> @.call, done |-> TRUE, result |-> result]]
       /\ IF step = "failed" THEN Fault ELSE UNCHANGED faults

\* The server refuses with a code, as it must if mustRefuse, or the request is lost.
Refuse(c, mustRefuse) ==
  /\ calls[c].step = "sent"
  /\ \E step \in {"refused", "failed"} :
       /\ calls' = [calls EXCEPT ![c].step = step]
       /\ \/ step = "refused" /\ mustRefuse /\ UNCHANGED faults
          \/ Fault

Tell(c, step, what) ==
  calls' = [calls EXCEPT ![c].step = step, ![c].told = Append(@, what)]

\* Mutant: what formatting throws is caught by nobody.
SettleUncaught(c, unreadable) ==
  /\ calls[c].step \in {"answered", "refused", "failed"}
  /\ IF unreadable THEN calls' = [calls EXCEPT ![c].step = "ended"] ELSE Tell(c, "ended", "ok")
  /\ UNCHANGED faults

\* then and catch: the documents are formatted, the callback is called, and may
\* throw.  An error of the request or of formatting is told by catch, where what
\* the callback throws is lost.  An aggregation has no callback, and reviving its
\* results does not throw.
Settle(c, unreadable) ==
  LET call == calls[c]
      error == call.step = "failed" \/ (call.step = "answered" /\ unreadable)
      first == IF call.step = "refused" THEN "code" ELSE "ok"
  IN /\ call.step \in {"answered", "refused", "failed"}
     /\ \/ error /\ Tell(c, "ended", "error") /\ UNCHANGED faults
        \/ ~error /\ Tell(c, "ended", first) /\ UNCHANGED faults
        \/ ~error /\ call.action # "aggregate" /\ Tell(c, "thrown", first) /\ Fault

\* catch follows then: the callback is called again, with what it threw.
TellAgain(c) ==
  /\ calls[c].step = "thrown"
  /\ Tell(c, "ended", "error")
  /\ UNCHANGED faults

-----------------------------------------------------------------------------
\* Any number of calls, whatever they ask and are answered.

CallsInit == calls = <<>> /\ faults \in Nat

CallsNext ==
  \/ \E meant, action, param : Send(meant, action, param) \/ Decline(meant, param)
  \/ \E c \in DOMAIN calls :
       \/ \E answer, result : Answer(c, answer, result)
       \/ \E mustRefuse \in BOOLEAN : Refuse(c, mustRefuse)
       \/ \E unreadable \in BOOLEAN : Settle(c, unreadable)
       \/ TellAgain(c)

CallsSpec == CallsInit /\ [][CallsNext]_<<calls, faults>>

-----------------------------------------------------------------------------

\* The user can rely on what a callback is told, whatever is refused, lost or
\* thrown: "ok" says that the call has taken effect, a code that it never has.  An
\* error alone says neither.  Until the request has settled nothing is told.
ToldTruth ==
  \A c \in DOMAIN calls :
    LET call == calls[c]
    IN /\ call.told \in {<<"ok">>, <<"ok", "error">>} => call.asked.done
       /\ call.told \in {<<"code">>, <<"code", "error">>} => ~call.asked.done
       /\ call.told # <<>> => call.step \in {"thrown", "ended"}

\* A call takes effect once and has one outcome: once it has taken effect its
\* result is fixed, once something was told of it nothing more is done, and what is
\* told then is at most what its own callback threw.  A call that ended stays so.
ToldStands ==
  \A c \in DOMAIN calls :
    LET call == calls[c]
        new == calls'[c]
    IN /\ c \in DOMAIN calls'
       /\ call.asked.done \/ call.told # <<>> => new.asked = call.asked
       /\ call.told # <<>> =>
            new.told = call.told \/ (call.step = "thrown" /\ new.told = Append(call.told, "error"))
       /\ call.step = "ended" => new = call

OutcomeKept == [][ToldStands]_<<calls, faults>>

=============================================================================
