----------------------------- MODULE ActorMailbox -----------------------------
(***************************************************************************)
(* What the actor scheduler promises, without workers, locks or queues of  *)
(* UIDs: an actor has one inbox; it takes its messages one at a time and   *)
(* in the order they were posted; once closed (detached) it accepts and    *)
(* takes nothing any more, what is left is flushed, and neither the actor  *)
(* object nor the mailbox goes away under a handler.                       *)
(***************************************************************************)
EXTENDS Sequences

CONSTANTS Mailbox, Msg, First, None

VARIABLES
    state,      \* [Mailbox -> {"unborn", "open", "closed", "gone"}]
    inbox,      \* [Mailbox -> Seq(Msg)]
    handling,   \* [Mailbox -> Msg \cup {None}], the message in the handler
    destroyed   \* mailboxes whose actor object is destroyed

vars == <<state, inbox, handling, destroyed>>

Init ==
    /\ state = [m \in Mailbox |-> "unborn"]
    /\ inbox = [m \in Mailbox |-> <<>>]
    /\ handling = [m \in Mailbox |-> None]
    /\ destroyed = {}

\* A new actor finds the message First in its inbox.
Open(m) ==
    /\ state[m] = "unborn"
    /\ state' = [state EXCEPT ![m] = "open"]
    /\ inbox' = [inbox EXCEPT ![m] = <<First>>]
    /\ UNCHANGED <<handling, destroyed>>

\* A message is appended.  That inbox[m] changes follows, and spares TLC a
\* search through Msg at every other step.
Accept(m) ==
    /\ state[m] = "open" /\ inbox'[m] # inbox[m]
    /\ \E msg \in Msg : inbox' = [inbox EXCEPT ![m] = Append(@, msg)]
    /\ UNCHANGED <<state, handling, destroyed>>

Take(m) ==
    /\ state[m] = "open" /\ handling[m] = None /\ inbox[m] # <<>>
    /\ handling' = [handling EXCEPT ![m] = Head(inbox[m])]
    /\ inbox' = [inbox EXCEPT ![m] = Tail(@)]
    /\ UNCHANGED <<state, destroyed>>

Finish(m) ==
    /\ handling[m] # None
    /\ handling' = [handling EXCEPT ![m] = None]
    /\ UNCHANGED <<state, inbox, destroyed>>

Close(m) ==
    /\ state[m] = "open"
    /\ state' = [state EXCEPT ![m] = "closed"]
    /\ UNCHANGED <<inbox, handling, destroyed>>

Destroy(m) ==
    /\ state[m] \in {"closed", "gone"} /\ handling[m] = None
    /\ destroyed' = destroyed \cup {m}
    /\ UNCHANGED <<state, inbox, handling>>

Flush(m) ==
    /\ state[m] = "closed" /\ handling[m] = None /\ inbox[m] # <<>>
    /\ inbox' = [inbox EXCEPT ![m] = Tail(@)]
    /\ UNCHANGED <<state, handling, destroyed>>

Remove(m) ==
    /\ state[m] = "closed" /\ handling[m] = None /\ inbox[m] = <<>>
    /\ state' = [state EXCEPT ![m] = "gone"]
    /\ UNCHANGED <<inbox, handling, destroyed>>

\* Most steps of a scheduler change nothing here, which TLC is told first.
Next ==
    \/ UNCHANGED vars
    \/ \E m \in Mailbox :
          \/ Open(m) \/ Accept(m) \/ Take(m) \/ Finish(m)
          \/ Close(m) \/ Destroy(m) \/ Flush(m) \/ Remove(m)

Spec == Init /\ [][Next]_vars
=============================================================================
