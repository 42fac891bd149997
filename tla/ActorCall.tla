------------------------------ MODULE ActorCall ------------------------------
(***************************************************************************)
(* Calls between actors (server/src/actorpod.{hpp,cpp}): send() posts a    *)
(* message with a sequence number, registers the calling coroutine under   *)
(* it in m_respondCBList and suspends; the message that comes back with    *)
(* that number as its respID resumes it.  wait() does the same with the    *)
(* timer service.  An actor whose handler is suspended goes on with other  *)
(* messages, and an actor that goes away has what is left in its mailbox   *)
(* answered with AM_BADACTORPOD (actorpool.cpp:570-637).                   *)
(*                                                                         *)
(* The mailbox is the one of ActorMailbox: messages in order, one handler  *)
(* at a time.  A Pod is one incarnation of an actor; the pods of one UID   *)
(* follow each other, as the Player objects of one character do.           *)
(***************************************************************************)
EXTENDS Naturals, Sequences, FiniteSets

CONSTANTS
    Pod,          \* incarnations of actors
    Uid,          \* their UIDs
    UidOf,        \* [Pod -> Uid]
    Tolerant,     \* UIDs whose onActorMsg() takes an AM_BADACTORPOD
    UniqueIDs,    \* option --enable-unique-actor-message-id
    MaxSeq,       \* bound: sequence numbers rolled
    MaxPost,      \* bound: posts that expect no answer
    None

ASSUME CallAssumption ==
    /\ UidOf \in [Pod -> Uid] /\ Tolerant \subseteq Uid
    /\ UniqueIDs \in BOOLEAN
    /\ MaxSeq \in Nat /\ MaxPost \in Nat
    /\ None \notin Pod /\ None \notin Uid /\ None \notin Pod \X Nat

\* None is no exception either.
ASSUME ThrownAssumption == None \notin Pod \X {"no continuation", "unexpected message"}

\* A call: the pod that made it and the number it rolled for it.  A message
\* carries only the number, as its seqID or its respID; 0 is no call at all.
Call     == Pod \X (1..MaxSeq)
Number(c) == IF c = None THEN 0 ELSE c[2]

\* type(): AM_ACTIVATE and every other request or answer is "AM"; from() is a
\* UID; seq is the call the message makes, resp the one it answers.
Message == [type : {"AM", "BADACTORPOD", "TIMER"}, from : Uid \cup {None},
            seq : Call \cup {None}, resp : Call \cup {None}]

VARIABLES
    phase,        \* [Pod -> {"unborn", "live", "detached", "deleted", "gone"}]
    mailbox,      \* [Pod -> Seq(Message)]
    nextSeqID,    \* [Pod -> Nat]: m_nextSeqID, or s_nextSeqID for everybody
    respondCB,    \* [Pod -> SUBSET [seqID, owes]]: m_respondCBList; owes are the
                  \* calls the handler that is suspended here has to answer
    running,      \* [Pod -> BOOLEAN]: a handler runs, or has been resumed
    owes,         \* [Pod -> SUBSET Call]: the calls it has to answer
    timers,       \* calls the timer service has not answered
    posts,        \* messages posted without a call
    thrown,       \* the exception that left the worker thread: who and why
    abandoned     \* history: calls owed by a handler that died suspended

podVars == <<phase, respondCB, running, owes>>
vars    == <<podVars, mailbox, nextSeqID, timers, posts, thrown, abandoned>>

TypeOK ==
    /\ phase \in [Pod -> {"unborn", "live", "detached", "deleted", "gone"}]
    /\ mailbox \in [Pod -> Seq(Message)]
    /\ nextSeqID \in [Pod -> 1..MaxSeq + 1]
    /\ \A p \in Pod : \A k \in respondCB[p] :
          /\ k.seqID \in 1..nextSeqID[p] - 1 /\ k.owes \subseteq Call
          /\ \A l \in respondCB[p] : l.seqID = k.seqID => l = k
    /\ running \in [Pod -> BOOLEAN] /\ owes \in [Pod -> SUBSET Call]
    /\ \A p \in Pod : ~running[p] => owes[p] = {}
    /\ timers \subseteq Call /\ abandoned \subseteq Call
    /\ posts \in 0..MaxPost
    /\ thrown \in (Pod \X {"no continuation", "unexpected message"}) \cup {None}

Init ==
    /\ phase = [p \in Pod |-> "unborn"]
    /\ mailbox = [p \in Pod |-> <<>>]
    /\ nextSeqID = [p \in Pod |-> 1]
    /\ respondCB = [p \in Pod |-> {}]
    /\ running = [p \in Pod |-> FALSE] /\ owes = [p \in Pod |-> {}]
    /\ timers = {} /\ posts = 0 /\ thrown = None /\ abandoned = {}

-----------------------------------------------------------------------------
(* What every operation uses.                                               *)

Msg(type, from, seq, resp) == [type |-> type, from |-> from, seq |-> seq, resp |-> resp]

\* ActorPool::postMessage(): the mailbox of a UID takes the message unless it
\* is detached; false if there is none.  Mutant: true for a detached one.
AcceptsDetached(u) == \E p \in Pod : UidOf[p] = u /\ phase[p] \in {"live", "detached"}
Accepts(u) == \E p \in Pod : UidOf[p] = u /\ phase[p] = "live"
After(box, u, m) ==
    [p \in Pod |-> IF UidOf[p] = u /\ phase[p] = "live" THEN Append(box[p], m) ELSE box[p]]
PostMessage(u, m) == mailbox' = After(mailbox, u, m)

\* rollSeqID(); mutant: the number is not used up.
KeepSeqID(p) == UNCHANGED nextSeqID
RollSeqID(p) ==
    nextSeqID' = [q \in Pod |-> nextSeqID[q] + (IF q = p \/ UniqueIDs THEN 1 ELSE 0)]
NewCall(p) == <<p, nextSeqID[p]>>

\* RegisterContinuationAwaiter: the handler is suspended with what it owes;
\* mutant: a call back does not answer the call it goes back to.
SuspendAll(p, c, rest) ==
    /\ respondCB' = [respondCB EXCEPT ![p] = @ \cup {[seqID |-> Number(c), owes |-> owes[p]]}]
    /\ running' = [running EXCEPT ![p] = FALSE]
    /\ owes' = [owes EXCEPT ![p] = {}]
Suspend(p, c, rest) ==
    /\ respondCB' = [respondCB EXCEPT ![p] = @ \cup {[seqID |-> Number(c), owes |-> rest]}]
    /\ running' = [running EXCEPT ![p] = FALSE]
    /\ owes' = [owes EXCEPT ![p] = {}]

\* A handler that has not returned, in a server that has not thrown.
Handling(p) == thrown = None /\ running[p]

-----------------------------------------------------------------------------
(* What a handler does, in any order and any number of times.               *)

\* co_await send(u, ...), or send(mpk.fromAddr(), ...), which answers the call
\* it got with a call of its own, as a map does that asks a player whether it
\* may leave (servermapop.cpp:105).  Without a mailbox the result is an
\* AM_BADACTORPOD at once and the handler goes on.
Send(p, u, resp) ==
    LET c == NewCall(p)  rest == owes[p] \ {resp} IN
    /\ Handling(p) /\ u # UidOf[p]
    /\ resp \in owes[p] \cup {None} /\ (resp # None => u = UidOf[resp[1]])
    /\ nextSeqID[p] <= MaxSeq
    /\ RollSeqID(p)
    /\ PostMessage(u, Msg("AM", UidOf[p], c, resp))
    /\ IF Accepts(u) THEN Suspend(p, c, rest)
                     ELSE owes' = [owes EXCEPT ![p] = rest] /\ UNCHANGED <<respondCB, running>>
    /\ UNCHANGED <<phase, timers, posts, thrown, abandoned>>

\* post(mpk.fromAddr(), ...) to the UID that made the call.
Answer(p, c) ==
    /\ Handling(p) /\ c \in owes[p]
    /\ PostMessage(UidOf[c[1]], Msg("AM", UidOf[p], None, c))
    /\ owes' = [owes EXCEPT ![p] = @ \ {c}]
    /\ UNCHANGED <<phase, respondCB, running, nextSeqID, timers, posts, thrown, abandoned>>

\* post(u, ...), a message nobody answers.
Post(p, u) ==
    /\ Handling(p) /\ u # UidOf[p]
    /\ posts < MaxPost /\ posts' = posts + 1
    /\ PostMessage(u, Msg("AM", UidOf[p], None, None))
    /\ UNCHANGED <<podVars, nextSeqID, timers, thrown, abandoned>>

\* co_await wait(tick): the timer is requested and the handler suspended.
Wait(p) ==
    /\ Handling(p) /\ nextSeqID[p] <= MaxSeq
    /\ RollSeqID(p)
    /\ timers' = timers \cup {NewCall(p)}
    /\ Suspend(p, NewCall(p), owes[p])
    /\ UNCHANGED <<phase, mailbox, posts, thrown, abandoned>>

\* createWaitToken(tick, op): op is registered and the handler goes on.
CreateWaitToken(p) ==
    /\ Handling(p) /\ nextSeqID[p] <= MaxSeq
    /\ RollSeqID(p)
    /\ timers' = timers \cup {NewCall(p)}
    /\ respondCB' = [respondCB EXCEPT ![p] = @ \cup {[seqID |-> nextSeqID[p], owes |-> {}]}]
    /\ UNCHANGED <<phase, mailbox, running, owes, posts, thrown, abandoned>>

\* ServerObject::deactivate() of the handler's own actor.
Deactivate(p) ==
    /\ Handling(p) /\ phase[p] = "live"
    /\ phase' = [phase EXCEPT ![p] = "detached"]
    /\ UNCHANGED <<mailbox, respondCB, running, owes, nextSeqID, timers, posts, thrown,
                   abandoned>>

\* A handler returns when it has answered whom it has to answer.
Return(p) ==
    /\ Handling(p) /\ owes[p] = {}
    /\ running' = [running EXCEPT ![p] = FALSE]
    /\ UNCHANGED <<phase, mailbox, respondCB, owes, nextSeqID, timers, posts, thrown, abandoned>>

-----------------------------------------------------------------------------
(* The life of an actor.                                                    *)

\* activate(): refused as long as the UID has a mailbox.  AM_ACTIVATE is first.
Activate(p) ==
    /\ thrown = None /\ phase[p] = "unborn"
    /\ \A q \in Pod : UidOf[q] = UidOf[p] => phase[q] \in {"unborn", "gone"}
    /\ phase' = [phase EXCEPT ![p] = "live"]
    /\ mailbox' = [mailbox EXCEPT ![p] = <<Msg("AM", None, None, None)>>]
    /\ UNCHANGED <<respondCB, running, owes, nextSeqID, timers, posts, thrown, abandoned>>

\* innHandler(): a message with a respID resumes what is registered under it,
\* any other is given to its handler.
AnyCB(p, m) == respondCB[p]         \* mutant: whatever is registered
Continuation(p, m) == {k \in respondCB[p] : k.seqID = Number(m.resp)}
Owed(m) == IF m.seq = None THEN {} ELSE {m.seq}

Run(p, calls) ==
    /\ running' = [running EXCEPT ![p] = TRUE]
    /\ owes' = [owes EXCEPT ![p] = calls]
    /\ UNCHANGED thrown

Throw(p, why) == thrown' = <<p, why>> /\ UNCHANGED <<running, owes>>

Handle(p) ==
    LET m == Head(mailbox[p]) IN
    /\ thrown = None /\ phase[p] = "live" /\ ~running[p] /\ mailbox[p] # <<>>
    /\ mailbox' = [mailbox EXCEPT ![p] = Tail(@)]
    /\ \/ \E k \in Continuation(p, m) :
             /\ m.resp # None
             /\ respondCB' = [respondCB EXCEPT ![p] = @ \ {k}]
             /\ Run(p, k.owes \cup Owed(m))
       \/ /\ m.resp # None /\ Continuation(p, m) = {}
          /\ Throw(p, "no continuation") /\ UNCHANGED respondCB
       \/ /\ m.resp = None
          /\ IF m.type = "BADACTORPOD" /\ UidOf[p] \notin Tolerant
             THEN Throw(p, "unexpected message") ELSE Run(p, Owed(m))
          /\ UNCHANGED respondCB
    /\ UNCHANGED <<phase, nextSeqID, timers, posts, abandoned>>

\* atExit(): "delete this", and with the actor every coroutine it suspended.
Destroy(p) ==
    /\ thrown = None /\ phase[p] = "detached" /\ ~running[p]
    /\ phase' = [phase EXCEPT ![p] = "deleted"]
    /\ abandoned' = abandoned \cup UNION {k.owes : k \in respondCB[p]}
    /\ respondCB' = [respondCB EXCEPT ![p] = {}]
    /\ UNCHANGED <<mailbox, running, owes, nextSeqID, timers, posts, thrown>>

\* clearOneMailbox(): a message with a sender is sent back; mutant: no answers.
RequestsOnly(m) == m.from # None /\ m.resp = None
IsReturnable(m) == m.from # None

Bounce(p) ==
    LET m == Head(mailbox[p])  box == [mailbox EXCEPT ![p] = Tail(@)] IN
    /\ thrown = None /\ phase[p] = "deleted" /\ mailbox[p] # <<>>
    /\ mailbox' = IF IsReturnable(m)
                  THEN After(box, m.from, Msg("BADACTORPOD", None, None, m.seq)) ELSE box
    /\ UNCHANGED <<podVars, nextSeqID, timers, posts, thrown, abandoned>>

\* The mailbox is erased and the UID is free.
Erase(p) ==
    /\ thrown = None /\ phase[p] = "deleted" /\ mailbox[p] = <<>>
    /\ phase' = [phase EXCEPT ![p] = "gone"]
    /\ UNCHANGED <<mailbox, respondCB, running, owes, nextSeqID, timers, posts, thrown,
                   abandoned>>

\* The timer service answers the pair of a UID and a number, once, be it with
\* AM_TIMEOUT or with AM_CANCEL.
TimerAnswers(c) ==
    /\ thrown = None /\ c \in timers
    /\ timers' = timers \ {c}
    /\ PostMessage(UidOf[c[1]], Msg("TIMER", None, None, c))
    /\ UNCHANGED <<podVars, nextSeqID, posts, thrown, abandoned>>

-----------------------------------------------------------------------------

HandlerStep(p) ==
    \/ \E u \in Uid : Post(p, u) \/ \E resp \in Call \cup {None} : Send(p, u, resp)
    \/ \E c \in Call : Answer(p, c)
    \/ Wait(p) \/ CreateWaitToken(p) \/ Deactivate(p) \/ Return(p)

PoolStep(p) == Activate(p) \/ Handle(p) \/ Destroy(p) \/ Bounce(p) \/ Erase(p)

Next ==
    \/ \E p \in Pod : HandlerStep(p) \/ PoolStep(p)
    \/ \E c \in Call : TimerAnswers(c)

Spec == Init /\ [][Next]_vars

\* The pool runs and removes what it has to (ActorPool), timers are answered
\* (DelayDriver), and a handler that runs comes to its end: it answers and
\* returns, whatever else it does on the way.
Fairness ==
    /\ \A p \in Pod :
          /\ WF_vars(Handle(p)) /\ WF_vars(Destroy(p) \/ Bounce(p) \/ Erase(p))
          /\ WF_vars(Return(p) \/ \E c \in Call : Answer(p, c))
    /\ \A c \in Call : WF_vars(TimerAnswers(c))

FairSpec == Spec /\ Fairness

-----------------------------------------------------------------------------
(* Properties.                                                              *)

\* A caller that still waits for this call.
Pending(c) == phase[c[1]] = "live" /\ \E k \in respondCB[c[1]] : k.seqID = c[2]

\* Where it is: queued as a request or as an answer, owed by a handler that
\* runs or is suspended, or with the timer service.
Queued(c)    == UNION {{<<p, i>> : i \in {j \in 1..Len(mailbox[p]) :
                            c \in {mailbox[p][j].seq, mailbox[p][j].resp}}} : p \in Pod}
Running(c)   == {p \in Pod : c \in owes[p]}
Suspended(c) == UNION {{<<p, k.seqID>> : k \in {l \in respondCB[p] : c \in l.owes}} : p \in Pod}
Places(c) == Cardinality(Queued(c)) + Cardinality(Running(c)) + Cardinality(Suspended(c))
               + Cardinality({c} \cap timers) + Cardinality({c} \cap abandoned)

(* A call that a living actor waits for is in exactly one place until it is *)
(* answered, through requests, calls back, bounces and timers, and nowhere  *)
(* once it is: no request is lost and none is answered twice, neither by    *)
(* its handler and the mailbox nor by two handlers (actorpod.cpp:66-130,    *)
(* actorpool.cpp:621-636).                                                  *)
OneAnswer ==
    thrown = None =>
        \A c \in Call : phase[c[1]] = "live" => Places(c) = IF Pending(c) THEN 1 ELSE 0

(* innHandler() resumes a coroutine with the answer to its own call, though *)
(* all it compares is a number (actorpod.cpp:73).                           *)
RightAnswer ==
    [][\A p \in Pod : \A k \in respondCB[p] \ respondCB'[p] :
          phase[p] = "live" => Head(mailbox[p]).resp = <<p, k.seqID>>]_vars

(* innHandler() throws "no corresponding coroutine exists" (actorpod.cpp:   *)
(* 105), which takes the server down, only when the actor follows another   *)
(* one of its UID: the message is what the earlier actor still waited for.  *)
StrayOnlyAfterReuse ==
    \A p \in Pod : thrown = <<p, "no continuation">> =>
        \E q \in Pod \ {p} : UidOf[q] = UidOf[p] /\ phase[q] = "gone"

\* Nobody is left to answer c: its handler died suspended, or the handler that
\* owes the answer is itself suspended on such a call, and so on.
WaitsFor(c, d) == \E k \in respondCB[d[1]] : k.seqID = d[2] /\ c \in k.owes
Stranded(c) ==
    \A S \in SUBSET Call :
       abandoned \subseteq S /\ (\A d \in S, e \in Call : WaitsFor(e, d) => e \in S) => c \in S

(* A suspended caller goes on, if it lives, unless the server throws or its *)
(* own call is stranded: when an actor is destroyed under a suspended       *)
(* handler that owes an answer, nothing tells that caller (and whoever      *)
(* waits for it in turn).  All other calls come back.                       *)
EveryCallReturns ==
    \A c \in Call : Pending(c) ~> (~Pending(c) \/ Stranded(c) \/ thrown # None)
=============================================================================
