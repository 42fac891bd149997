------------------------------ MODULE WaitToken ------------------------------
(***************************************************************************)
(* What the timer service of the actors promises to an actor that waits    *)
(* (ActorPod::wait, createWaitToken, cancelWaitToken): a wait is answered  *)
(* at most once; if its cancel was accepted the answer is AM_CANCEL; a     *)
(* wait nobody cancelled is answered by AM_TIMEOUT, or by AM_CANCEL once   *)
(* the service is stopping.                                                *)
(***************************************************************************)
EXTENDS Sequences

CONSTANTS Token      \* callback arguments, each used for one wait

VARIABLES
    state,           \* [Token -> {"new", "waiting", "cancelled", "refused"}]
    stopRequested,   \* the service is stopping
    answer           \* [Token -> Seq({"AM_TIMEOUT", "AM_CANCEL"})]

vars == <<state, stopRequested, answer>>

Init ==
    /\ state = [k \in Token |-> "new"]
    /\ stopRequested = FALSE
    /\ answer = [k \in Token |-> <<>>]

\* add(): refused after the stop.
Add(k) ==
    /\ state[k] = "new"
    /\ state' = [state EXCEPT ![k] = IF stopRequested THEN "refused" ELSE "waiting"]
    /\ UNCHANGED <<stopRequested, answer>>

\* cancel() returns true.
AcceptCancel(k) ==
    /\ state[k] = "waiting" /\ answer[k] = <<>> /\ ~stopRequested
    /\ state' = [state EXCEPT ![k] = "cancelled"]
    /\ UNCHANGED <<stopRequested, answer>>

Answer(k, what) ==
    /\ answer[k] = <<>>
    /\ \/ state[k] = "waiting" /\ what = "AM_TIMEOUT"
       \/ state[k] = "cancelled" /\ what = "AM_CANCEL"
       \/ state[k] = "waiting" /\ what = "AM_CANCEL" /\ stopRequested
    /\ answer' = [answer EXCEPT ![k] = <<what>>]
    /\ UNCHANGED <<state, stopRequested>>

Stop ==
    /\ stopRequested' = TRUE
    /\ UNCHANGED <<state, answer>>

Next ==
    \/ Stop
    \/ \E k \in Token : Add(k) \/ AcceptCancel(k)
    \/ \E k \in Token, what \in {"AM_TIMEOUT", "AM_CANCEL"} : Answer(k, what)

Spec == Init /\ [][Next]_vars
=============================================================================
