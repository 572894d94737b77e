---------------------------- MODULE TokenExchange ----------------------------
(***************************************************************************)
(* The delegated token exchange behind every Work IQ session.  The caller  *)
(* is a coroutine; the exchange itself runs in a thread of its own, which  *)
(* asks the event loop for two HTTP requests (the identity provider's      *)
(* metadata, then the token) and blocks on their answers.  The caller      *)
(* waits for the thread for a fixed budget and then, whatever happened,    *)
(* joins it before it goes on, even when it is cancelled again meanwhile.  *)
(*                                                                         *)
(* exchange[s] is the exchange made for the retrieval s:                   *)
(*   caller       idle, waiting, cleaning (in the finally block), ended    *)
(*   outcome      what the caller will see: token, refused or cancelled    *)
(*   interrupted  cancelled again while cleaning                           *)
(*   worker       the thread: about to request or waiting for "metadata"   *)
(*                or "token", holding, failed                              *)
(*   io           the request on the loop: none, flying, dying (cancelled  *)
(*                but not yet acknowledged), good, bad                     *)
(*   closed       adapter.cancel() has been called                         *)
(*   due          the budget is used up                                    *)
(***************************************************************************)
CONSTANT Delegated      \* the retrievals made on behalf of the user

VARIABLE exchange

ExchangeType ==
    [caller : {"idle", "waiting", "cleaning", "ended"},
     outcome : {"none", "token", "refused", "cancelled"}, interrupted : BOOLEAN,
     worker : {"metadata", "token", "holding", "failed"},
     io : {"none", "flying", "dying", "good", "bad"},
     closed : BOOLEAN, due : BOOLEAN]

ExchangeInit ==
    exchange = [s \in Delegated |->
        [caller |-> "idle", outcome |-> "none", interrupted |-> FALSE, worker |-> "metadata",
         io |-> "none", closed |-> FALSE, due |-> FALSE]]

Finished(e) == e.worker \in {"holding", "failed"}
InFlight(e) == e.io \in {"flying", "dying"}

\* AsyncWorkIQOboExchange.exchange up to its first await.
BeginExchange(s) == exchange' = [exchange EXCEPT ![s].caller = "waiting"]

\* adapter.cancel(): no further request, and the pending one is cancelled.
Cancelled(e) == [e EXCEPT !.closed = TRUE, !.io = IF @ = "flying" THEN "dying" ELSE @]

\* The 12 seconds are over.
Deadline(s) ==
    /\ exchange[s].caller \in {"waiting", "cleaning"} /\ ~exchange[s].due
    /\ exchange' = [exchange EXCEPT ![s].due = TRUE]

\* WorkIQOboExchange.exchange: only the configured, validated actor gets as
\* far as a request.
ActorRefused(s) ==
    /\ exchange[s].caller # "idle" /\ exchange[s].worker = "metadata" /\ exchange[s].io = "none"
    /\ exchange' = [exchange EXCEPT ![s].worker = "failed"]

\* BoundedOboHttp._submit, up to waiting for the answer.
Submit(s) ==
    /\ exchange[s].caller # "idle"
    /\ exchange[s].worker \in {"metadata", "token"} /\ exchange[s].io = "none"
    /\ exchange' = IF exchange[s].closed \/ exchange[s].due
                   THEN [exchange EXCEPT ![s].worker = "failed"]
                   ELSE [exchange EXCEPT ![s].io = "flying"]

\* What is made of the provider's answer: fit to be handed to MSAL, or not.
Sanitized == {"good", "bad"}

\* BoundedOboHttp._request ends: with an answer, or its own timeout expires.
Respond(s) ==
    /\ exchange[s].io = "flying"
    /\ \E answer \in Sanitized : exchange' = [exchange EXCEPT ![s].io = answer]
RequestExpires(s) ==
    /\ exchange[s].io = "flying" /\ exchange[s].due
    /\ exchange' = [exchange EXCEPT ![s].io = "bad"]

\* The event loop delivers the cancellation to the request.
Acknowledge(s) ==
    /\ exchange[s].io = "dying"
    /\ exchange' = [exchange EXCEPT ![s].io = "bad"]

\* pending.result() returns to the thread, or raises: the request failed or
\* was cancelled, or the budget ran out, in which case it is cancelled now.
WorkerResumes(s) ==
    LET e == exchange[s] IN
    /\ e.worker \in {"metadata", "token"} /\ e.io # "none"
    /\ \/ /\ e.io = "good"
          /\ exchange' = IF e.worker = "metadata"
                         THEN [exchange EXCEPT ![s].worker = "token", ![s].io = "none"]
                         ELSE [exchange EXCEPT ![s].worker = "holding"]
       \/ /\ e.io \in {"bad", "dying"}
          /\ exchange' = [exchange EXCEPT ![s].worker = "failed"]
       \/ /\ e.io = "flying" /\ e.due
          /\ exchange' = [exchange EXCEPT ![s].worker = "failed", ![s].io = "dying"]

\* The caller leaves the wait: with the thread's result, or because the
\* budget ran out first.  Either way the cleanup starts.
CallerResumes(s) ==
    LET e == exchange[s] IN
    /\ e.caller = "waiting"
    /\ \/ /\ Finished(e)
          /\ exchange' = [exchange EXCEPT ![s] = [Cancelled(e) EXCEPT !.caller = "cleaning",
                             !.outcome = IF e.worker = "holding" THEN "token" ELSE "refused"]]
       \/ /\ e.due
          /\ exchange' = [exchange EXCEPT ![s] = [Cancelled(e) EXCEPT !.caller = "cleaning",
                             !.outcome = "refused"]]

\* A cancellation of the caller: it ends the wait; during the cleanup it is
\* only remembered, to be raised once the cleanup is over.
Interrupted(e) ==
    CASE e.caller = "waiting" -> [Cancelled(e) EXCEPT !.caller = "cleaning", !.outcome = "cancelled"]
      [] e.caller = "cleaning" -> [e EXCEPT !.interrupted = TRUE]
      [] e.caller = "ended" -> [e EXCEPT !.outcome = "cancelled"]

\* Mutant: a second cancellation ends the cleanup.
JoinUnlessInterrupted(s) ==
    LET e == exchange[s] IN
    /\ e.caller = "cleaning" /\ (e.interrupted \/ (Finished(e) /\ ~InFlight(e)))
    /\ exchange' = [exchange EXCEPT ![s].caller = "ended",
                       ![s].outcome = IF e.interrupted THEN "cancelled" ELSE @]

\* _finish_cleanup over cleanup(): the thread is joined, its requests are
\* done and the HTTP client is closed before the caller goes on.
Join(s) ==
    LET e == exchange[s] IN
    /\ e.caller = "cleaning" /\ Finished(e) /\ ~InFlight(e)
    /\ exchange' = [exchange EXCEPT ![s].caller = "ended",
                       ![s].outcome = IF e.interrupted THEN "cancelled" ELSE @]

ExchangeStep(s) ==
    \/ Deadline(s) \/ ActorRefused(s) \/ Submit(s) \/ Respond(s) \/ RequestExpires(s)
    \/ Acknowledge(s) \/ WorkerResumes(s) \/ CallerResumes(s) \/ Join(s)

\* What the process itself keeps doing; the provider's answer is not in it.
ExchangeProgress(s) ==
    \/ Deadline(s) \/ Submit(s) \/ RequestExpires(s)
    \/ Acknowledge(s) \/ WorkerResumes(s) \/ CallerResumes(s) \/ Join(s)
==============================================================================
