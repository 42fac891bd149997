------------------------------ MODULE SyncDriver ------------------------------
(***************************************************************************)
(* Synchronous calls into the actor world from an application thread       *)
(* (server/src/syncdriver.cpp, receiver.cpp and the receiver list of       *)
(* actorpool.cpp): forward() posts a request and blocks on the condition   *)
(* variable of a Receiver until an actor has answered to its UID.          *)
(*                                                                         *)
(* A request is the pair <<d, n>> of a driver and of the number it had in  *)
(* m_currID.  Which actor answers, and when, is left open.                 *)
(***************************************************************************)
EXTENDS Naturals, Sequences, SequencesExt

CONSTANTS
    Driver,       \* SyncDriver objects, each used by one application thread
    MaxForward,   \* bound: calls of forward() on one object
    IdLimit,      \* m_currID wraps here; 2^64 in the code
    Timeouts,     \* does a call pass a timeout: a subset of BOOLEAN
    None          \* nobody holds m_receiverLock; AM_NONE is returned

ASSUME SyncAssumption ==
    /\ MaxForward \in Nat \ {0} /\ IdLimit \in Nat /\ IdLimit > MaxForward
    /\ Timeouts \subseteq BOOLEAN
    /\ None \notin Nat /\ None \notin Driver \X Nat

VARIABLES
    calls,        \* [Driver -> 0..MaxForward]: calls of forward() so far
    currID,       \* [Driver -> Nat]: m_currID
    attached,     \* drivers whose receiver is in m_receiverList
    destroyed,    \* drivers whose object is gone
    messageList,  \* [Driver -> Seq(Nat)]: m_messageList, by respID
    receiverLock, \* m_receiverLock: the request being answered, or None
    pending,      \* requests an actor will still answer
    pc,           \* [Driver -> {"idle", "posted", "sleep", "pop"}]
    timed,        \* [Driver -> BOOLEAN]: the call in progress has a timeout
    origLen,      \* [Driver -> Nat]: the local of Receiver::wait()
    timedOut,     \* history: [Driver -> BOOLEAN], wait_for() once ran out of time
    result        \* [Driver -> respID returned last, None or 0]

receiverVars == <<attached, destroyed, messageList, receiverLock, pending>>
forwardVars  == <<calls, currID, pc, timed, origLen, timedOut, result>>
vars == <<receiverVars, forwardVars>>

ID      == 1..IdLimit - 1      \* 0 in respID means: no answer to anything
Request == Driver \X ID

TypeOK ==
    /\ calls \in [Driver -> 0..MaxForward]
    /\ currID \in [Driver -> ID]
    /\ attached \subseteq Driver /\ destroyed \subseteq Driver
    /\ messageList \in [Driver -> Seq(ID)]
    /\ receiverLock \in Request \cup {None}
    /\ pending \subseteq Request
    /\ pc \in [Driver -> {"idle", "posted", "sleep", "pop"}]
    /\ timed \in [Driver -> BOOLEAN] /\ timedOut \in [Driver -> BOOLEAN]
    /\ origLen \in [Driver -> Nat]
    /\ result \in [Driver -> ID \cup {0, None}]

\* The constructor has attached the receiver.
Init ==
    /\ calls = [d \in Driver |-> 0]
    /\ currID = [d \in Driver |-> 1]
    /\ attached = Driver /\ destroyed = {}
    /\ messageList = [d \in Driver |-> <<>>]
    /\ receiverLock = None /\ pending = {}
    /\ pc = [d \in Driver |-> "idle"]
    /\ timed = [d \in Driver |-> FALSE] /\ timedOut = [d \in Driver |-> FALSE]
    /\ origLen = [d \in Driver |-> 0]
    /\ result = [d \in Driver |-> 0]

-----------------------------------------------------------------------------
(* The application thread.                                                  *)

WrappedID(n) == (n + 1) % IdLimit       \* mutant: 0 is not skipped
NextID(n)    == IF n + 1 = IdLimit THEN 1 ELSE n + 1

\* forward(): roll the ID and post; a post to nobody returns AM_BADACTORPOD.
Forward(d) ==
    LET n == NextID(currID[d]) IN
    /\ pc[d] = "idle" /\ d \in attached
    /\ calls[d] < MaxForward           \* bound
    /\ calls' = [calls EXCEPT ![d] = @ + 1]
    /\ currID' = [currID EXCEPT ![d] = n]
    /\ \/ /\ result' = [result EXCEPT ![d] = 0]     \* AM_BADACTORPOD
          /\ UNCHANGED <<pc, timed, pending>>
       \/ /\ pc' = [pc EXCEPT ![d] = "posted"]
          /\ \E t \in Timeouts : timed' = [timed EXCEPT ![d] = t]
          /\ pending' = pending \cup {<<d, n>>}
          /\ UNCHANGED result
    /\ UNCHANGED <<attached, destroyed, messageList, receiverLock, origLen, timedOut>>

\* Mutant of EnterWait: what arrived before is thrown away.
EnterWaitClears(d) ==
    /\ pc[d] = "posted"
    /\ pc' = [pc EXCEPT ![d] = "sleep"]
    /\ origLen' = [origLen EXCEPT ![d] = 0]
    /\ messageList' = [messageList EXCEPT ![d] = <<>>]
    /\ UNCHANGED <<attached, destroyed, receiverLock, pending, calls, currID, timed,
                   timedOut, result>>

\* Receiver::wait(): remember how many messages are there and sleep for more.
EnterWait(d) ==
    /\ pc[d] = "posted"
    /\ pc' = [pc EXCEPT ![d] = "sleep"]
    /\ origLen' = [origLen EXCEPT ![d] = Len(messageList[d])]
    /\ UNCHANGED <<receiverVars, calls, currID, timed, timedOut, result>>

AsManyMessages(d) == Len(messageList[d]) >= origLen[d]  \* mutant
MoreMessages(d)   == Len(messageList[d]) > origLen[d]

Wake(d) ==
    /\ pc[d] = "sleep" /\ MoreMessages(d)
    /\ pc' = [pc EXCEPT ![d] = "pop"]
    /\ UNCHANGED <<receiverVars, calls, currID, timed, origLen, timedOut, result>>

\* wait_for() ends; its result is the number of messages, old ones included.
TimeOut(d) ==
    /\ pc[d] = "sleep" /\ timed[d] /\ ~MoreMessages(d)
    /\ timedOut' = [timedOut EXCEPT ![d] = TRUE]
    /\ IF messageList[d] = <<>>
       THEN /\ pc' = [pc EXCEPT ![d] = "idle"]
            /\ result' = [result EXCEPT ![d] = None]
       ELSE /\ pc' = [pc EXCEPT ![d] = "pop"]
            /\ UNCHANGED result
    /\ UNCHANGED <<receiverVars, calls, currID, timed, origLen>>

FirstOf(d)  == Head(messageList[d])     \* mutant: no search for the respID
ReplyOf(d)  == IF Contains(messageList[d], currID[d]) THEN currID[d] ELSE None

\* pop() takes all messages; forward() returns the one with its own respID.
Pop(d) ==
    /\ pc[d] = "pop"
    /\ result' = [result EXCEPT ![d] = ReplyOf(d)]
    /\ messageList' = [messageList EXCEPT ![d] = <<>>]
    /\ pc' = [pc EXCEPT ![d] = "idle"]
    /\ UNCHANGED <<attached, destroyed, receiverLock, pending, calls, currID, timed,
                   origLen, timedOut>>

DetachAnyway == TRUE                    \* mutant: detach() takes no lock
LockFree     == receiverLock = None

\* ~Receiver(): off the list under m_receiverLock, then the object is gone.
Detach(d) ==
    /\ pc[d] = "idle" /\ d \in attached /\ calls[d] > 0 /\ LockFree
    /\ attached' = attached \ {d}
    /\ UNCHANGED <<destroyed, messageList, receiverLock, pending, forwardVars>>

Destroy(d) ==
    /\ d \notin attached \cup destroyed
    /\ destroyed' = destroyed \cup {d}
    /\ UNCHANGED <<attached, messageList, receiverLock, pending, forwardVars>>

-----------------------------------------------------------------------------
(* The actor that answers: postLocalMessage() to a receiver UID holds       *)
(* m_receiverLock from the lookup until the message is pushed.  The notify  *)
(* that follows has no step: a sleeper re-evaluates its predicate.          *)

AnswerLookup(r) ==
    /\ r \in pending /\ receiverLock = None
    /\ pending' = pending \ {r}
    /\ receiverLock' = IF r[1] \in attached THEN r ELSE None
    /\ UNCHANGED <<attached, destroyed, messageList, forwardVars>>

AnswerPush(r) ==
    /\ receiverLock = r
    /\ messageList' = [messageList EXCEPT ![r[1]] = Append(@, r[2])]
    /\ receiverLock' = None
    /\ UNCHANGED <<attached, destroyed, pending, forwardVars>>

-----------------------------------------------------------------------------
Next ==
    \/ \E d \in Driver : \/ Forward(d) \/ EnterWait(d) \/ Wake(d) \/ TimeOut(d)
                         \/ Pop(d) \/ Detach(d) \/ Destroy(d)
    \/ \E r \in Request : AnswerLookup(r) \/ AnswerPush(r)

Spec == Init /\ [][Next]_vars

-----------------------------------------------------------------------------
(* Properties.                                                              *)

\* An answer is never pushed into a receiver whose object is gone: the thread
\* may leave forward() with a timeout and destroy the driver while an actor is
\* answering it.
NoDanglingReceiver == receiverLock # None => receiverLock[1] \notin destroyed

\* A driver that is used again after a timeout still holds late answers to its
\* earlier calls; forward() never takes one of them for its own.
OwnAnswer ==
    \A d \in Driver : pc[d] = "idle" /\ result[d] \notin {0, None}
                         => result[d] = currID[d]

\* AM_NONE comes back only from a driver one of whose calls ran out of time: a
\* call by itself, or one that wakes up for the late answer to an earlier one.
\* With a fresh driver per call, as everywhere in the server, it means what it
\* says.
NoneOnlyAfterTimeout ==
    \A d \in Driver : pc[d] = "idle" /\ result[d] = None => timedOut[d]

\* A call that has not returned has its answer to come, in the hands of an actor
\* or in the message list: an answer that overtakes the caller on its way into
\* wait() makes it sleep on, but no answer is lost and a later one, or the
\* timeout, gives it the first.
AnswerKept ==
    \A d \in Driver : pc[d] \in {"posted", "sleep", "pop"} =>
        \/ <<d, currID[d]>> \in pending \cup {receiverLock}
        \/ Contains(messageList[d], currID[d])
=============================================================================
