-------------------------- MODULE ProviderInvocation --------------------------
(***************************************************************************)
(* The boundary every call of a provider goes through, for chat and for    *)
(* embeddings (providers/provider-invocation.ts): one call at a time for a *)
(* key, a timer for every attempt, retries after a pause, and the abort of *)
(* the one who asked.                                                      *)
(*                                                                         *)
(* A transport that lost its race may go on, and its answer is ignored, so *)
(* only the transport of the attempt in course is seen here.  What a call  *)
(* returns is left out: at its end its key is free, and that is all.       *)
(***************************************************************************)
EXTENDS Integers

CONSTANTS
    Keys,         \* the keys of invocations
    MaxAttempts   \* policy.maxAttempts

ASSUME MaxAttemptsIsCount == MaxAttempts \in Nat \ {0}

VARIABLE calls    \* inFlightKeys, each with its place in the loop

Calls ==
    [stage : {"none", "calling", "pausing"}, attempt : 0..MaxAttempts, aborted : BOOLEAN]

NoCall == [stage |-> "none", attempt |-> 0, aborted |-> FALSE]

InvocationTypeOK == calls \in [Keys -> Calls]

InFlight(k) == calls[k].stage # "none"

InitCalls == calls = [k \in Keys |-> NoCall]

(* A second invocation of a key in flight is refused, and changes nothing. *)
Begin(k) ==
    /\ ~InFlight(k)
    /\ calls' = [calls EXCEPT ![k] = [stage |-> "calling", attempt |-> 1, aborted |-> FALSE]]

Ends(k) == calls' = [calls EXCEPT ![k] = NoCall]

(* The attempt has failed: a pause comes before the next, if there is one. *)
RetriesOrEnds(k) ==
    IF calls[k].attempt < MaxAttempts THEN calls' = [calls EXCEPT ![k].stage = "pausing"]
    ELSE Ends(k)

(* The transport answers, fails or throws; it may forbid a retry. *)
TransportSettles(k) ==
    /\ calls[k].stage = "calling"
    /\ Ends(k) \/ RetriesOrEnds(k)

TimerFires(k) ==
    /\ calls[k].stage = "calling"
    /\ RetriesOrEnds(k)

(* An abort ends the race at once; during a pause it waits for its end. *)
Abort(k) ==
    /\ InFlight(k) /\ ~calls[k].aborted
    /\ IF calls[k].stage = "calling" THEN Ends(k)
       ELSE calls' = [calls EXCEPT ![k].aborted = TRUE]

(* Mutants of WakeUp: the abort is not looked at; the attempt not counted. *)
WakeUpUnchecked(k) ==
    /\ calls[k].stage = "pausing"
    /\ calls' = [calls EXCEPT ![k].stage = "calling", ![k].attempt = @ + 1]

WakeUpUncounted(k) ==
    /\ calls[k].stage = "pausing"
    /\ IF calls[k].aborted THEN Ends(k)
       ELSE calls' = [calls EXCEPT ![k].stage = "calling"]

WakeUp(k) ==
    /\ calls[k].stage = "pausing"
    /\ IF calls[k].aborted THEN Ends(k)
       ELSE calls' = [calls EXCEPT ![k].stage = "calling", ![k].attempt = @ + 1]

InvocationStep(k) == TransportSettles(k) \/ TimerFires(k) \/ Abort(k) \/ WakeUp(k)

(* The timers fire; nothing makes a transport answer. *)
InvocationFairness == \A k \in Keys : WF_calls(TimerFires(k)) /\ WF_calls(WakeUp(k))

-----------------------------------------------------------------------------
(* Once the one who asked has aborted, no transport is started for the     *)
(* call, not even by a pause that was already under way.                   *)
NoCallAfterAbort ==
    [][\A k \in Keys : calls[k].aborted => calls'[k].stage # "calling"]_calls

(* Every invocation comes to an end, whatever its transports do, so its    *)
(* key is free again.                                                      *)
InvocationEnds == \A k \in Keys : InFlight(k) ~> ~InFlight(k)

=============================================================================
