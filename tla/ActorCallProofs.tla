--------------------------- MODULE ActorCallProofs ---------------------------
(***************************************************************************)
(* A coroutine is resumed with the answer to its own call, for any number  *)
(* of actors, incarnations and calls, if numbers are unique in the server  *)
(* or no UID is ever used again.  Nothing in a message says whose call it  *)
(* answers, so the invariant says what may be on its way: every call that  *)
(* is queued, owed or timed is one of a set R of numbered calls, no two of *)
(* which share a number if numbers are unique, and an answer is addressed  *)
(* to the UID of the caller.                                               *)
(*                                                                         *)
(* The second part: the state stays in its types, and a call is answered   *)
(* once under the same condition.  The invariant is about one call: of the *)
(* five places it can be at (a mailbox, a handler that runs, one that is   *)
(* suspended, the timer service, the handlers that died) it is at one at   *)
(* most, and at one if and only if its caller lives and waits for it.  The *)
(* steps are proved action by action for one call, from lemmas that say    *)
(* what an update of a mailbox or of the registered coroutines does to the *)
(* places of a call.                                                       *)
(***************************************************************************)
EXTENDS ActorCall, SequenceTheorems, FiniteSetTheorems, TLAPS

NoReuse == \A p, q \in Pod : UidOf[p] = UidOf[q] => p = q

\* The messages for p when R are the calls that have been rolled.
For(p, R) ==
    {m \in [type : {"AM", "BADACTORPOD", "TIMER"}, from : Uid \cup {None},
            seq : R \cup {None}, resp : R \cup {None}] :
        /\ m.seq # None  => m.from = UidOf[m.seq[1]]
        /\ m.resp # None => UidOf[m.resp[1]] = UidOf[p]}

Rolled(R) ==
    /\ R \subseteq Call
    /\ UniqueIDs =>
          /\ \A c, d \in R : c[2] = d[2] => c = d
          /\ \A c \in R, p \in Pod : c[2] < nextSeqID[p]
          /\ \A p, q \in Pod : nextSeqID[p] = nextSeqID[q]

Refers(R) ==
    /\ DOMAIN mailbox = Pod /\ \A p \in Pod : mailbox[p] \in Seq(For(p, R))
    /\ owes \in [Pod -> SUBSET R]
    /\ DOMAIN respondCB = Pod
    /\ \A p \in Pod : \A k \in respondCB[p] : k.owes \subseteq R /\ <<p, k.seqID>> \in R
    /\ timers \subseteq R

InvOf(R) == nextSeqID \in [Pod -> Nat \ {0}] /\ Rolled(R) /\ Refers(R)
Inv == \E R : InvOf(R)

-----------------------------------------------------------------------------
LEMMA SeqGrows ==
    ASSUME NEW S, NEW T, S \subseteq T, NEW s \in Seq(S)
    PROVE  s \in Seq(T)
OBVIOUS

LEMMA ForGrows ==
    ASSUME NEW R, NEW Q, R \subseteq Q, NEW p \in Pod
    PROVE  For(p, R) \subseteq For(p, Q)
BY DEF For

\* Posting one message that is fit for its addressee.
LEMMA Posted ==
    ASSUME NEW R, NEW box, DOMAIN box = Pod, \A p \in Pod : box[p] \in Seq(For(p, R)),
           NEW u, NEW m, \A p \in Pod : UidOf[p] = u => m \in For(p, R)
    PROVE  /\ DOMAIN After(box, u, m) = Pod
           /\ \A p \in Pod : After(box, u, m)[p] \in Seq(For(p, R))
BY DEF After

LEMMA InitInv == Init => Inv
<1> SUFFICES ASSUME Init PROVE InvOf({})
    BY DEF Inv
<1> QED
    BY DEF Init, InvOf, Rolled, Refers

LEMMA RefersGrows ==
    ASSUME NEW R, NEW Q, R \subseteq Q, Refers(R)
    PROVE  Refers(Q)
<1>1. \A p \in Pod : mailbox[p] \in Seq(For(p, Q))
    <2> TAKE p \in Pod
    <2>1. mailbox[p] \in Seq(For(p, R)) /\ For(p, R) \subseteq For(p, Q)
        BY ForGrows DEF Refers
    <2> QED
        BY <2>1, SeqGrows
<1> QED
    BY <1>1 DEF Refers

\* rollSeqID() gives a number nobody has, if numbers are unique.
LEMMA Roll ==
    ASSUME NEW R, InvOf(R), NEW p \in Pod, nextSeqID[p] <= MaxSeq, RollSeqID(p),
           NEW c, c = NewCall(p)
    PROVE  /\ c \in Call /\ c = <<p, nextSeqID[p]>>
           /\ nextSeqID' \in [Pod -> Nat \ {0}] /\ Rolled(R \cup {c})'
<1> DEFINE Q == R \cup {c}
<1> USE CallAssumption
<1>1. nextSeqID \in [Pod -> Nat \ {0}] /\ Rolled(R)
    BY DEF InvOf
<1>2. c \in Call /\ c = <<p, nextSeqID[p]>> /\ c[2] = nextSeqID[p]
    BY <1>1 DEF NewCall, Call
<1>3. nextSeqID' \in [Pod -> Nat \ {0}]
    BY <1>1 DEF RollSeqID
<1>4. Q \subseteq Call
    BY <1>1, <1>2 DEF Rolled
<1>5. ASSUME UniqueIDs
      PROVE  /\ \A d, e \in Q : d[2] = e[2] => d = e
             /\ \A d \in Q, q \in Pod : d[2] < nextSeqID'[q]
             /\ \A q, r \in Pod : nextSeqID'[q] = nextSeqID'[r]
    <2>1. \A q \in Pod : nextSeqID[q] = nextSeqID[p] /\ nextSeqID'[q] = nextSeqID[p] + 1
        BY <1>1, <1>5 DEF Rolled, RollSeqID
    <2>2. \A d \in R : d[2] < nextSeqID[p] /\ d[2] \in Nat
        BY <1>1, <1>5 DEF Rolled, Call
    <2>3. \A d, e \in R : d[2] = e[2] => d = e
        BY <1>1, <1>5 DEF Rolled
    <2>4. \A d \in R : d[2] # c[2]
        BY <1>1, <1>2, <2>2
    <2>5. \A d \in Q : d[2] < nextSeqID[p] + 1
        BY <1>1, <1>2, <2>2
    <2> QED
        BY <2>1, <2>3, <2>4, <2>5
<1> QED
    BY <1>2, <1>3, <1>4, <1>5 DEF Rolled

-----------------------------------------------------------------------------
(* The actions, one by one.                                                 *)

LEMMA SendInv ==
    ASSUME NEW R, InvOf(R), NEW p \in Pod, NEW u \in Uid, NEW resp \in Call \cup {None},
           Send(p, u, resp)
    PROVE  Inv'
<1> PICK c : c = NewCall(p)
    OBVIOUS
<1> DEFINE Q == R \cup {c}
           rest == owes[p] \ {resp}
           m == Msg("AM", UidOf[p], c, resp)
<1> USE CallAssumption
<1>1. /\ c \in Call /\ c = <<p, nextSeqID[p]>> /\ c # None
      /\ nextSeqID' \in [Pod -> Nat \ {0}] /\ Rolled(Q)'
    <2>1. nextSeqID[p] <= MaxSeq /\ RollSeqID(p)
        BY DEF Send
    <2> QED
        BY <2>1, Roll DEF Call
<1>2. Refers(Q)
    BY RefersGrows DEF InvOf
<1>3. \A q \in Pod : UidOf[q] = u => m \in For(q, Q)
    BY <1>1, <1>2 DEF Send, Msg, For, Refers
<1>4. /\ DOMAIN mailbox' = Pod
      /\ \A q \in Pod : mailbox'[q] \in Seq(For(q, Q))
    BY <1>2, <1>3, Posted DEF Send, PostMessage, Refers
<1>5. rest \subseteq Q
    BY <1>2 DEF Refers
<1>6. owes' \in [Pod -> SUBSET Q]
    BY <1>2, <1>5 DEF Send, Suspend, Refers
<1>7. /\ DOMAIN respondCB' = Pod
      /\ \A q \in Pod : \A k \in respondCB'[q] : k.owes \subseteq Q /\ <<q, k.seqID>> \in Q
    <2>1. CASE Accepts(u)
        <3>1. respondCB' = [respondCB EXCEPT ![p] = @ \cup {[seqID |-> Number(c), owes |-> rest]}]
            BY <2>1 DEF Send, Suspend
        <3>2. <<p, Number(c)>> = c
            BY <1>1 DEF Number
        <3> QED
            BY <3>1, <3>2, <1>1, <1>2, <1>5 DEF Refers
    <2>2. CASE ~Accepts(u)
        BY <2>2, <1>2 DEF Send, Refers
    <2> QED
        BY <2>1, <2>2
<1>8. timers' \subseteq Q
    BY <1>2 DEF Send, Refers
<1>9. InvOf(Q)'
    BY <1>1, <1>4, <1>6, <1>7, <1>8 DEF InvOf, Refers
<1> QED
    BY <1>9 DEF Inv

LEMMA AnswerInv ==
    ASSUME NEW R, InvOf(R), NEW p \in Pod, NEW c \in Call, Answer(p, c)
    PROVE  Inv'
<1> DEFINE m == Msg("AM", UidOf[p], None, c)
<1> USE CallAssumption
<1>1. c \in R /\ Rolled(R)
    BY DEF Answer, InvOf, Refers
<1>2. \A q \in Pod : UidOf[q] = UidOf[c[1]] => m \in For(q, R)
    BY <1>1 DEF Msg, For
<1>3. /\ DOMAIN mailbox' = Pod
      /\ \A q \in Pod : mailbox'[q] \in Seq(For(q, R))
    BY <1>2, Posted DEF Answer, PostMessage, InvOf, Refers
<1>4. Rolled(R)'
    BY <1>1 DEF Answer, Rolled
<1>5. InvOf(R)'
    BY <1>3, <1>4 DEF Answer, InvOf, Refers
<1> QED
    BY <1>5 DEF Inv

LEMMA PostInv ==
    ASSUME NEW R, InvOf(R), NEW p \in Pod, NEW u \in Uid, Post(p, u)
    PROVE  Inv'
<1> DEFINE m == Msg("AM", UidOf[p], None, None)
<1> USE CallAssumption
<1>1. \A q \in Pod : UidOf[q] = u => m \in For(q, R)
    BY DEF Msg, For
<1>2. /\ DOMAIN mailbox' = Pod
      /\ \A q \in Pod : mailbox'[q] \in Seq(For(q, R))
    BY <1>1, Posted DEF Post, PostMessage, InvOf, Refers
<1>3. Rolled(R)'
    BY DEF Post, Rolled, InvOf
<1>4. InvOf(R)'
    BY <1>2, <1>3 DEF Post, podVars, InvOf, Refers
<1> QED
    BY <1>4 DEF Inv

LEMMA WaitInv ==
    ASSUME NEW R, InvOf(R), NEW p \in Pod, Wait(p) \/ CreateWaitToken(p)
    PROVE  Inv'
<1> PICK c : c = NewCall(p)
    OBVIOUS
<1> DEFINE Q == R \cup {c}
<1> USE CallAssumption
<1>1. /\ c \in Call /\ c = <<p, nextSeqID[p]>> /\ c # None
      /\ nextSeqID' \in [Pod -> Nat \ {0}] /\ Rolled(Q)'
    <2>1. nextSeqID[p] <= MaxSeq /\ RollSeqID(p)
        BY DEF Wait, CreateWaitToken
    <2> QED
        BY <2>1, Roll DEF Call
<1>2. Refers(Q)
    BY RefersGrows DEF InvOf
<1>3. /\ DOMAIN mailbox' = Pod
      /\ \A q \in Pod : mailbox'[q] \in Seq(For(q, Q))
    BY <1>2 DEF Wait, CreateWaitToken, Refers
<1>4. owes' \in [Pod -> SUBSET Q]
    BY <1>2 DEF Wait, CreateWaitToken, Suspend, Refers
<1>5. \E rest \in SUBSET Q :
         respondCB' = [respondCB EXCEPT ![p] = @ \cup {[seqID |-> c[2], owes |-> rest]}]
    <2>1. owes[p] \in SUBSET Q /\ {} \in SUBSET Q
        BY <1>2 DEF Refers
    <2>2. Number(c) = c[2] /\ c[2] = nextSeqID[p] /\ NewCall(p) = c
        BY <1>1 DEF Number
    <2>3. CASE Wait(p)
        <3>1. Suspend(p, c, owes[p])
            BY <2>2, <2>3 DEF Wait
        <3>2. respondCB' = [respondCB EXCEPT ![p] = @ \cup {[seqID |-> c[2], owes |-> owes[p]]}]
            BY <2>2, <3>1 DEF Suspend
        <3> QED
            BY <2>1, <3>2
    <2>4. CASE CreateWaitToken(p)
        <3>1. respondCB' = [respondCB EXCEPT ![p] = @ \cup {[seqID |-> c[2], owes |-> {}]}]
            BY <2>2, <2>4 DEF CreateWaitToken
        <3> QED
            BY <2>1, <3>1
    <2> QED
        BY <2>3, <2>4
<1>6. /\ DOMAIN respondCB' = Pod
      /\ \A q \in Pod : \A k \in respondCB'[q] : k.owes \subseteq Q /\ <<q, k.seqID>> \in Q
    BY <1>1, <1>2, <1>5 DEF Refers
<1>7. timers' \subseteq Q
    BY <1>1, <1>2 DEF Wait, CreateWaitToken, Refers
<1>8. InvOf(Q)'
    BY <1>1, <1>3, <1>4, <1>6, <1>7 DEF InvOf, Refers
<1> QED
    BY <1>8 DEF Inv

\* Steps that only let go of something, or move pods through their life.
LEMMA QuietInv ==
    ASSUME NEW R, InvOf(R), NEW p \in Pod,
           Deactivate(p) \/ Return(p) \/ Activate(p) \/ Destroy(p) \/ Erase(p)
    PROVE  Inv'
<1> USE CallAssumption
<1>1. UNCHANGED nextSeqID /\ timers' = timers /\ owes' = owes
    BY DEF Deactivate, Return, Activate, Destroy, Erase
<1>2. Rolled(R)'
    BY <1>1 DEF Rolled, InvOf
<1>3. /\ DOMAIN mailbox' = Pod
      /\ \A q \in Pod : mailbox'[q] \in Seq(For(q, R))
    <2>1. CASE Activate(p)
        <3>1. Msg("AM", None, None, None) \in For(p, R)
            BY DEF Msg, For
        <3>2. <<Msg("AM", None, None, None)>> \in Seq(For(p, R))
            BY <3>1
        <3> QED
            BY <2>1, <3>2 DEF Activate, InvOf, Refers
    <2>2. CASE ~Activate(p)
        BY <2>2 DEF Deactivate, Return, Destroy, Erase, InvOf, Refers
    <2> QED
        BY <2>1, <2>2
<1>4. DOMAIN respondCB' = Pod /\ \A q \in Pod : respondCB'[q] \subseteq respondCB[q]
    BY DEF Deactivate, Return, Activate, Destroy, Erase, InvOf, Refers
<1>5. InvOf(R)'
    BY <1>1, <1>2, <1>3, <1>4 DEF InvOf, Refers
<1> QED
    BY <1>5 DEF Inv

LEMMA HandleInv ==
    ASSUME NEW R, InvOf(R), NEW p \in Pod, Handle(p)
    PROVE  Inv'
<1> DEFINE m == Head(mailbox[p])
<1> USE CallAssumption
<1>1. mailbox[p] \in Seq(For(p, R)) /\ mailbox[p] # <<>>
    BY DEF Handle, InvOf, Refers
<1>2. m \in For(p, R) /\ Tail(mailbox[p]) \in Seq(For(p, R))
    BY <1>1
<1>3. Owed(m) \subseteq R
    BY <1>2 DEF Owed, For
<1>4. /\ DOMAIN mailbox' = Pod
      /\ \A q \in Pod : mailbox'[q] \in Seq(For(q, R))
    BY <1>2 DEF Handle, InvOf, Refers
<1>5. DOMAIN respondCB' = Pod /\ \A q \in Pod : respondCB'[q] \subseteq respondCB[q]
    BY DEF Handle, InvOf, Refers
<1>6. owes' \in [Pod -> SUBSET R]
    <2>1. \A k \in Continuation(p, m) : k.owes \subseteq R
        BY DEF Continuation, InvOf, Refers
    <2>2. \A calls \in SUBSET R : Run(p, calls) => owes' \in [Pod -> SUBSET R]
        BY DEF Run, InvOf, Refers
    <2>3. \A why : Throw(p, why) => owes' \in [Pod -> SUBSET R]
        BY DEF Throw, InvOf, Refers
    <2> QED
        BY <1>3, <2>1, <2>2, <2>3 DEF Handle
<1>7. UNCHANGED <<nextSeqID, timers>> /\ Rolled(R)'
    BY DEF Handle, Rolled, InvOf
<1>8. InvOf(R)'
    BY <1>4, <1>5, <1>6, <1>7 DEF InvOf, Refers
<1> QED
    BY <1>8 DEF Inv

LEMMA BounceInv ==
    ASSUME NEW R, InvOf(R), NEW p \in Pod, Bounce(p)
    PROVE  Inv'
<1> DEFINE m == Head(mailbox[p])
           box == [mailbox EXCEPT ![p] = Tail(@)]
           b == Msg("BADACTORPOD", None, None, m.seq)
<1> USE CallAssumption
<1>1. mailbox[p] \in Seq(For(p, R)) /\ mailbox[p] # <<>>
    BY DEF Bounce, InvOf, Refers
<1>2. m \in For(p, R) /\ Tail(mailbox[p]) \in Seq(For(p, R))
    BY <1>1
<1>3. DOMAIN box = Pod /\ \A q \in Pod : box[q] \in Seq(For(q, R))
    BY <1>2 DEF InvOf, Refers
<1>4. \A q \in Pod : UidOf[q] = m.from => b \in For(q, R)
    BY <1>2 DEF Msg, For
<1>5. /\ DOMAIN mailbox' = Pod
      /\ \A q \in Pod : mailbox'[q] \in Seq(For(q, R))
    BY <1>3, <1>4, Posted DEF Bounce
<1>6. UNCHANGED <<podVars, nextSeqID, timers>> /\ Rolled(R)'
    BY DEF Bounce, Rolled, InvOf
<1>7. InvOf(R)'
    BY <1>5, <1>6 DEF InvOf, Refers, podVars
<1> QED
    BY <1>7 DEF Inv

LEMMA TimerInv ==
    ASSUME NEW R, InvOf(R), NEW c \in Call, TimerAnswers(c)
    PROVE  Inv'
<1> DEFINE m == Msg("TIMER", None, None, c)
<1> USE CallAssumption
<1>1. c \in R
    BY DEF TimerAnswers, InvOf, Refers
<1>2. \A q \in Pod : UidOf[q] = UidOf[c[1]] => m \in For(q, R)
    BY <1>1 DEF Msg, For
<1>3. /\ DOMAIN mailbox' = Pod
      /\ \A q \in Pod : mailbox'[q] \in Seq(For(q, R))
    BY <1>2, Posted DEF TimerAnswers, PostMessage, InvOf, Refers
<1>4. Rolled(R)'
    BY DEF TimerAnswers, Rolled, InvOf
<1>5. InvOf(R)'
    BY <1>3, <1>4 DEF TimerAnswers, podVars, InvOf, Refers
<1> QED
    BY <1>5 DEF Inv

LEMMA NextInv == Inv /\ [Next]_vars => Inv'
<1> SUFFICES ASSUME NEW R, InvOf(R), [Next]_vars PROVE Inv'
    BY DEF Inv
<1>1. CASE UNCHANGED vars
    BY <1>1 DEF vars, podVars, Inv, InvOf, Rolled, Refers
<1>2. ASSUME NEW p \in Pod, HandlerStep(p) PROVE Inv'
    BY <1>2, SendInv, AnswerInv, PostInv, WaitInv, QuietInv DEF HandlerStep
<1>3. ASSUME NEW p \in Pod, PoolStep(p) PROVE Inv'
    BY <1>3, QuietInv, HandleInv, BounceInv DEF PoolStep
<1>4. ASSUME NEW c \in Call, TimerAnswers(c) PROVE Inv'
    BY <1>4, TimerInv
<1> QED
    BY <1>1, <1>2, <1>3, <1>4 DEF Next

\* What is on its way between actors comes from calls that were rolled, and an
\* answer is on its way to the UID of its caller (actorpod.cpp:132-190).
THEOREM Invariance == Spec => []Inv
<1> QED
    BY InitInv, NextInv, PTL DEF Spec

-----------------------------------------------------------------------------
LEMMA RightStep ==
    ASSUME UniqueIDs \/ NoReuse, Inv, Next,
           NEW p \in Pod, NEW k \in respondCB[p] \ respondCB'[p], phase[p] = "live"
    PROVE  Head(mailbox[p]).resp = <<p, k.seqID>>
<1> DEFINE m == Head(mailbox[p])
<1> USE CallAssumption
<1> PICK R : InvOf(R)
    BY DEF Inv
<1>1. Handle(p)
    <2>1. ASSUME NEW q \in Pod, HandlerStep(q)
          PROVE  k \in respondCB'[p]
        <3>0. DOMAIN respondCB = Pod
            BY DEF InvOf, Refers
        <3>1. \A c, rest : Suspend(q, c, rest) => k \in respondCB'[p]
            BY <3>0 DEF Suspend
        <3>2. \A u \in Uid : Post(q, u) => k \in respondCB'[p]
            BY DEF Post, podVars
        <3>3. \A u \in Uid, resp \in Call \cup {None} : Send(q, u, resp) => k \in respondCB'[p]
            BY <3>1 DEF Send
        <3>4. \A c \in Call : Answer(q, c) => k \in respondCB'[p]
            BY DEF Answer
        <3>5. Wait(q) => k \in respondCB'[p]
            BY <3>1 DEF Wait
        <3>6. CreateWaitToken(q) => k \in respondCB'[p]
            BY <3>0 DEF CreateWaitToken
        <3>7. Deactivate(q) \/ Return(q) => k \in respondCB'[p]
            BY DEF Deactivate, Return
        <3> QED
            BY <2>1, <3>2, <3>3, <3>4, <3>5, <3>6, <3>7 DEF HandlerStep
    <2>2. \A q \in Pod : q # p \/ ~Handle(q) => (PoolStep(q) => k \in respondCB'[p])
        BY DEF PoolStep, Activate, Handle, Destroy, Bounce, Erase, podVars, InvOf, Refers
    <2>3. \A c \in Call : TimerAnswers(c) => k \in respondCB'[p]
        BY DEF TimerAnswers, podVars
    <2> QED
        BY <2>1, <2>2, <2>3 DEF Next
<1>2. m.resp # None /\ k.seqID = Number(m.resp)
    BY <1>1 DEF Handle, Continuation, InvOf, Refers
<1>3. mailbox[p] \in Seq(For(p, R)) /\ mailbox[p] # <<>>
    BY <1>1 DEF Handle, InvOf, Refers
<1>4. m \in For(p, R)
    BY <1>3
<1>5. m.resp \in R /\ UidOf[m.resp[1]] = UidOf[p] /\ <<p, k.seqID>> \in R
    BY <1>2, <1>4 DEF For, InvOf, Refers
<1>6. R \subseteq Call /\ m.resp[2] = k.seqID
    BY <1>2 DEF Number, InvOf, Rolled
<1>7. CASE UniqueIDs
    BY <1>5, <1>6, <1>7 DEF InvOf, Rolled
<1>8. CASE NoReuse
    BY <1>5, <1>6, <1>8 DEF NoReuse, Call
<1> QED
    BY <1>7, <1>8

\* For any number of actors and calls: with numbers that are unique in the
\* server, or with UIDs that are used once, innHandler() resumes a coroutine
\* with the answer to its own call (actorpod.cpp:72-94).
THEOREM RightAnswers == (UniqueIDs \/ NoReuse) => (Spec => RightAnswer)
<1> SUFFICES ASSUME UniqueIDs \/ NoReuse PROVE Spec => RightAnswer
    OBVIOUS
<1>1. Inv /\ [Next]_vars =>
         [\A p \in Pod : \A k \in respondCB[p] \ respondCB'[p] :
             phase[p] = "live" => Head(mailbox[p]).resp = <<p, k.seqID>>]_vars
    BY RightStep
<1> QED
    BY <1>1, Invariance, PTL DEF Spec, RightAnswer
-----------------------------------------------------------------------------
(* A call is at one place.                                                  *)

Even == UniqueIDs => \A p, q \in Pod : nextSeqID[p] = nextSeqID[q]

LEMMA InvIsEven == Inv => Even /\ DOMAIN respondCB = Pod
BY DEF Inv, InvOf, Rolled, Refers, Even

-----------------------------------------------------------------------------
(* Types.                                                                   *)

LEMMA MsgTypes ==
    ASSUME NEW type \in {"AM", "BADACTORPOD", "TIMER"}, NEW from \in Uid \cup {None},
           NEW seq \in Call \cup {None}, NEW resp \in Call \cup {None}
    PROVE  Msg(type, from, seq, resp) \in Message
BY DEF Msg, Message

LEMMA AfterTypes ==
    ASSUME NEW box \in [Pod -> Seq(Message)], NEW u, NEW m \in Message
    PROVE  After(box, u, m) \in [Pod -> Seq(Message)]
BY DEF After

LEMMA HeadTypes ==
    ASSUME NEW box \in [Pod -> Seq(Message)], NEW p \in Pod, box[p] # <<>>
    PROVE  /\ Head(box[p]) \in Message
           /\ [box EXCEPT ![p] = Tail(@)] \in [Pod -> Seq(Message)]
OBVIOUS

LEMMA RollTypes ==
    ASSUME TypeOK, Even, NEW p \in Pod, nextSeqID[p] <= MaxSeq, RollSeqID(p)
    PROVE  /\ nextSeqID' \in [Pod -> 1..MaxSeq + 1]
           /\ nextSeqID'[p] = nextSeqID[p] + 1
           /\ \A q \in Pod : nextSeqID'[q] >= nextSeqID[q]
           /\ NewCall(p) \in Call /\ NewCall(p) = <<p, nextSeqID[p]>>
           /\ Number(NewCall(p)) = nextSeqID[p]
<1> USE CallAssumption
<1>1. nextSeqID \in [Pod -> 1..MaxSeq + 1]
    BY DEF TypeOK
<1>2. \A q \in Pod : UniqueIDs => nextSeqID[q] <= MaxSeq
    BY <1>1 DEF Even
<1>3. \A q \in Pod : (IF q = p \/ UniqueIDs THEN 1 ELSE 0) \in {0, 1}
    OBVIOUS
<1>4. nextSeqID' \in [Pod -> 1..MaxSeq + 1]
    BY <1>1, <1>2 DEF RollSeqID
<1>5. NewCall(p) \in Call /\ NewCall(p) = <<p, nextSeqID[p]>> /\ NewCall(p) # None
    BY <1>1 DEF NewCall, Call
<1> QED
    BY <1>1, <1>3, <1>4, <1>5 DEF RollSeqID, Number

LEMMA RangeGrows ==
    ASSUME NEW a \in Nat, NEW b \in Nat, b >= a, NEW x \in 1..a - 1
    PROVE  x \in 1..b - 1
OBVIOUS

\* What is registered under numbers that have been rolled.
Registered(cb, next) ==
    \A p \in Pod : \A k \in cb[p] :
        /\ k.seqID \in 1..next[p] - 1 /\ k.owes \subseteq Call
        /\ \A l \in cb[p] : l.seqID = k.seqID => l = k

LEMMA RegisterTypes ==
    ASSUME TypeOK, Even, DOMAIN respondCB = Pod, NEW p \in Pod, nextSeqID[p] <= MaxSeq,
           RollSeqID(p), NEW rest \in SUBSET Call,
           respondCB' = [respondCB EXCEPT ![p] = @ \cup {[seqID |-> nextSeqID[p], owes |-> rest]}]
    PROVE  Registered(respondCB', nextSeqID')
<1> DEFINE n == [seqID |-> nextSeqID[p], owes |-> rest]
<1>0. /\ nextSeqID \in [Pod -> 1..MaxSeq + 1] /\ nextSeqID' \in [Pod -> 1..MaxSeq + 1]
      /\ nextSeqID'[p] = nextSeqID[p] + 1
      /\ \A q \in Pod : nextSeqID'[q] >= nextSeqID[q]
    BY RollTypes DEF TypeOK
<1>1. \A q \in Pod : \A k \in respondCB[q] :
          /\ k.seqID \in 1..nextSeqID[q] - 1 /\ k.owes \subseteq Call
          /\ \A l \in respondCB[q] : l.seqID = k.seqID => l = k
    BY DEF TypeOK
<1>2. SUFFICES ASSUME NEW q \in Pod, NEW k \in respondCB'[q]
               PROVE  /\ k.seqID \in 1..nextSeqID'[q] - 1 /\ k.owes \subseteq Call
                      /\ \A l \in respondCB'[q] : l.seqID = k.seqID => l = k
    BY DEF Registered
<1>6. MaxSeq \in Nat
    BY CallAssumption
<1>7. nextSeqID[q] \in 1..MaxSeq + 1 /\ nextSeqID'[q] \in 1..MaxSeq + 1 /\ nextSeqID[p] \in 1..MaxSeq + 1
    BY <1>0
<1>3. nextSeqID[q] \in Nat /\ nextSeqID'[q] \in Nat /\ nextSeqID'[q] >= nextSeqID[q]
    <2>1. nextSeqID'[q] >= nextSeqID[q]
        BY <1>0
    <2> QED
        BY <1>6, <1>7, <2>1
<1>4. CASE q # p
    <2>1. respondCB'[q] = respondCB[q]
        BY <1>4
    <2> QED
        BY <2>1, <1>1, <1>3, RangeGrows
<1>5. CASE q = p
    <2>1. respondCB'[p] = respondCB[p] \cup {n}
        OBVIOUS
    <2>2. \A l \in respondCB[p] : l.seqID \in 1..nextSeqID[p] - 1 /\ l.seqID # nextSeqID[p]
        BY <1>1, <1>3, <1>5
    <2>3. n.seqID = nextSeqID[p] /\ n.owes = rest
        OBVIOUS
    <2>6. nextSeqID[p] \in 1..nextSeqID'[p] - 1
        <3>1. nextSeqID'[p] = nextSeqID[p] + 1
            BY <1>0
        <3> QED
            BY <1>6, <1>7, <3>1
    <2>4. CASE k = n
        BY <1>5, <2>1, <2>2, <2>3, <2>4, <2>6
    <2>5. CASE k \in respondCB[p]
        <3>1. k.seqID \in 1..nextSeqID'[p] - 1
            BY <1>1, <1>3, <1>5, <2>5, RangeGrows
        <3>2. k.seqID # nextSeqID[p]
            BY <2>2, <2>5
        <3> QED
            BY <1>1, <1>5, <2>1, <2>3, <2>5, <3>1, <3>2
    <2> QED
        BY <1>5, <2>1, <2>4, <2>5
<1> QED
    BY <1>4, <1>5

LEMMA SubsetRegistered ==
    ASSUME TypeOK, nextSeqID' = nextSeqID, \A p \in Pod : respondCB'[p] \subseteq respondCB[p]
    PROVE  Registered(respondCB', nextSeqID')
BY DEF TypeOK, Registered

LEMMA InitTypes == Init => TypeOK
BY CallAssumption DEF Init, TypeOK

LEMMA SuspendTypes ==
    ASSUME TypeOK, Even, DOMAIN respondCB = Pod, NEW p \in Pod, nextSeqID[p] <= MaxSeq,
           RollSeqID(p), NEW rest \in SUBSET Call, Suspend(p, NewCall(p), rest)
    PROVE  /\ Registered(respondCB', nextSeqID')
           /\ running' \in [Pod -> BOOLEAN] /\ owes' \in [Pod -> SUBSET Call]
           /\ \A q \in Pod : ~running'[q] => owes'[q] = {}
<1>1. Registered(respondCB', nextSeqID')
    BY RollTypes, RegisterTypes DEF Suspend
<1> QED
    BY <1>1 DEF Suspend, TypeOK

LEMMA HandlerTypes ==
    ASSUME TypeOK, Even, DOMAIN respondCB = Pod, NEW p \in Pod, HandlerStep(p)
    PROVE  TypeOK'
<1> USE CallAssumption
<1>0. /\ mailbox \in [Pod -> Seq(Message)] /\ owes \in [Pod -> SUBSET Call]
      /\ running \in [Pod -> BOOLEAN] /\ UidOf[p] \in Uid
    BY DEF TypeOK
<1>1. ASSUME NEW u \in Uid, Post(p, u) PROVE TypeOK'
    <2>1. Msg("AM", UidOf[p], None, None) \in Message
        BY MsgTypes
    <2>2. mailbox' \in [Pod -> Seq(Message)]
        BY <1>0, <1>1, <2>1, AfterTypes DEF Post, PostMessage
    <2>3. posts' \in 0..MaxPost
        <3>1. posts \in 0..MaxPost /\ posts < MaxPost /\ posts' = posts + 1
            BY <1>1 DEF Post, TypeOK
        <3> QED
            BY <3>1
    <2> QED
        BY <1>1, <2>2, <2>3 DEF Post, podVars, TypeOK
<1>2. ASSUME NEW u \in Uid, NEW resp \in Call \cup {None}, Send(p, u, resp) PROVE TypeOK'
    <2>0. nextSeqID[p] <= MaxSeq /\ RollSeqID(p)
        BY <1>2 DEF Send
    <2>1. nextSeqID' \in [Pod -> 1..MaxSeq + 1] /\ NewCall(p) \in Call
        BY <2>0, RollTypes
    <2>2. Msg("AM", UidOf[p], NewCall(p), resp) \in Message
        BY <2>1, MsgTypes
    <2>3. mailbox' \in [Pod -> Seq(Message)]
        BY <1>0, <1>2, <2>2, AfterTypes DEF Send, PostMessage
    <2>4. owes[p] \ {resp} \in SUBSET Call
        BY <1>0
    <2>5. /\ Registered(respondCB', nextSeqID')
          /\ running' \in [Pod -> BOOLEAN] /\ owes' \in [Pod -> SUBSET Call]
          /\ \A q \in Pod : ~running'[q] => owes'[q] = {}
        <3>1. CASE Accepts(u)
            <4>1. Suspend(p, NewCall(p), owes[p] \ {resp})
                BY <1>2, <3>1 DEF Send
            <4> QED
                BY <4>1, <2>0, <2>4, SuspendTypes
        <3>2. CASE ~Accepts(u)
            <4>1. owes' = [owes EXCEPT ![p] = owes[p] \ {resp}] /\ UNCHANGED <<respondCB, running>>
                BY <1>2, <3>2 DEF Send
            <4>2. running[p]
                BY <1>2 DEF Send, Handling
            <4>3. Registered(respondCB', nextSeqID')
                <5>1. nextSeqID \in [Pod -> 1..MaxSeq + 1] /\ \A q \in Pod : nextSeqID'[q] >= nextSeqID[q]
                    BY <2>0, RollTypes DEF TypeOK
                <5>2. \A q \in Pod : nextSeqID[q] \in Nat /\ nextSeqID'[q] \in Nat
                    BY <2>1, <5>1
                <5>3. Registered(respondCB, nextSeqID)
                    BY DEF TypeOK, Registered
                <5> QED
                    BY <4>1, <5>1, <5>2, <5>3, RangeGrows DEF Registered
            <4> QED
                BY <1>0, <2>4, <4>1, <4>2, <4>3 DEF TypeOK
        <3> QED
            BY <3>1, <3>2
    <2> QED
        BY <1>2, <2>1, <2>3, <2>5 DEF Send, TypeOK, Registered
<1>3. ASSUME NEW c \in Call, Answer(p, c) PROVE TypeOK'
    <2>1. Msg("AM", UidOf[p], None, c) \in Message
        BY MsgTypes
    <2>2. mailbox' \in [Pod -> Seq(Message)]
        BY <1>0, <1>3, <2>1, AfterTypes DEF Answer, PostMessage
    <2> QED
        BY <1>3, <2>2 DEF Answer, TypeOK
<1>4. CASE Wait(p)
    <2>0. nextSeqID[p] <= MaxSeq /\ RollSeqID(p)
        BY <1>4 DEF Wait
    <2>1. nextSeqID' \in [Pod -> 1..MaxSeq + 1] /\ NewCall(p) \in Call
        BY <2>0, RollTypes
    <2>2. owes[p] \in SUBSET Call
        BY <1>0
    <2>3. Suspend(p, NewCall(p), owes[p])
        BY <1>4 DEF Wait
    <2>4. /\ Registered(respondCB', nextSeqID')
          /\ running' \in [Pod -> BOOLEAN] /\ owes' \in [Pod -> SUBSET Call]
          /\ \A q \in Pod : ~running'[q] => owes'[q] = {}
        BY <2>0, <2>2, <2>3, SuspendTypes
    <2> QED
        BY <1>4, <2>1, <2>4 DEF Wait, TypeOK, Registered
<1>5. CASE CreateWaitToken(p)
    <2>0. nextSeqID[p] <= MaxSeq /\ RollSeqID(p)
        BY <1>5 DEF CreateWaitToken
    <2>1. nextSeqID' \in [Pod -> 1..MaxSeq + 1] /\ NewCall(p) \in Call
        BY <2>0, RollTypes
    <2>2. Registered(respondCB', nextSeqID')
        <3>1. respondCB' = [respondCB EXCEPT ![p] = @ \cup {[seqID |-> nextSeqID[p], owes |-> {}]}]
            BY <1>5 DEF CreateWaitToken
        <3>2. {} \in SUBSET Call
            OBVIOUS
        <3> QED
            BY <2>0, <3>1, <3>2, RegisterTypes
    <2> QED
        BY <1>5, <2>1, <2>2 DEF CreateWaitToken, TypeOK, Registered
<1>6. CASE Deactivate(p)
    BY <1>6 DEF Deactivate, TypeOK
<1>7. CASE Return(p)
    BY <1>7 DEF Return, TypeOK
<1> QED
    BY <1>1, <1>2, <1>3, <1>4, <1>5, <1>6, <1>7 DEF HandlerStep

LEMMA PoolTypes ==
    ASSUME TypeOK, DOMAIN respondCB = Pod, NEW p \in Pod, PoolStep(p)
    PROVE  TypeOK'
<1> USE CallAssumption
<1>0. mailbox \in [Pod -> Seq(Message)] /\ owes \in [Pod -> SUBSET Call]
    BY DEF TypeOK
<1>1. CASE Activate(p)
    <2>1. Msg("AM", None, None, None) \in Message
        BY MsgTypes
    <2>2. mailbox' \in [Pod -> Seq(Message)]
        BY <1>0, <1>1, <2>1 DEF Activate
    <2> QED
        BY <1>1, <2>2 DEF Activate, TypeOK
<1>2. CASE Handle(p)
    <2> DEFINE m == Head(mailbox[p])
    <2>1. m \in Message /\ mailbox' \in [Pod -> Seq(Message)]
        BY <1>0, <1>2, HeadTypes DEF Handle
    <2>2. Owed(m) \subseteq Call
        BY <2>1 DEF Owed, Message
    <2>3. \A k \in Continuation(p, m) : k.owes \subseteq Call
        BY DEF Continuation, TypeOK
    <2>4. Registered(respondCB', nextSeqID')
        <3>1. \A q \in Pod : respondCB'[q] \subseteq respondCB[q]
            BY <1>2 DEF Handle
        <3> QED
            BY <3>1, <1>2, SubsetRegistered DEF Handle
    <2> DEFINE Good == /\ running' \in [Pod -> BOOLEAN] /\ owes' \in [Pod -> SUBSET Call]
                       /\ \A q \in Pod : ~running'[q] => owes'[q] = {}
                       /\ thrown' \in (Pod \X {"no continuation", "unexpected message"}) \cup {None}
    <2>8. /\ running \in [Pod -> BOOLEAN] /\ owes \in [Pod -> SUBSET Call]
          /\ \A q \in Pod : ~running[q] => owes[q] = {}
          /\ thrown \in (Pod \X {"no continuation", "unexpected message"}) \cup {None}
        BY DEF TypeOK
    <2>5. ASSUME NEW calls \in SUBSET Call, Run(p, calls) PROVE Good
        BY <2>5, <2>8 DEF Run
    <2>6. ASSUME NEW why \in {"no continuation", "unexpected message"}, Throw(p, why) PROVE Good
        <3>1. <<p, why>> \in Pod \X {"no continuation", "unexpected message"}
            OBVIOUS
        <3> QED
            BY <2>6, <2>8, <3>1 DEF Throw
    <2>7. Good
        <3>1. \A k \in Continuation(p, m) : Run(p, k.owes \cup Owed(m)) => Good
            BY <2>2, <2>3, <2>5
        <3>2. Run(p, Owed(m)) => Good
            BY <2>2, <2>5
        <3> QED
            BY <1>2, <2>6, <3>1, <3>2 DEF Handle
    <2> QED
        BY <1>2, <2>1, <2>4, <2>7 DEF Handle, TypeOK, Registered
<1>3. CASE Destroy(p)
    <2>1. \A q \in Pod : respondCB'[q] \subseteq respondCB[q]
        BY <1>3 DEF Destroy
    <2>2. Registered(respondCB', nextSeqID')
        BY <2>1, <1>3, SubsetRegistered DEF Destroy
    <2>3. abandoned' \subseteq Call
        BY <1>3 DEF Destroy, TypeOK
    <2> QED
        BY <1>3, <2>2, <2>3 DEF Destroy, TypeOK, Registered
<1>4. CASE Bounce(p)
    <2> DEFINE m == Head(mailbox[p])
               box == [mailbox EXCEPT ![p] = Tail(@)]
    <2>1. m \in Message /\ box \in [Pod -> Seq(Message)]
        BY <1>0, <1>4, HeadTypes DEF Bounce
    <2>2. Msg("BADACTORPOD", None, None, m.seq) \in Message
        BY <2>1, MsgTypes DEF Message
    <2>3. mailbox' \in [Pod -> Seq(Message)]
        BY <1>4, <2>1, <2>2, AfterTypes DEF Bounce
    <2> QED
        BY <1>4, <2>3 DEF Bounce, podVars, TypeOK
<1>5. CASE Erase(p)
    BY <1>5 DEF Erase, TypeOK
<1> QED
    BY <1>1, <1>2, <1>3, <1>4, <1>5 DEF PoolStep

LEMMA TimerTypes ==
    ASSUME TypeOK, NEW c \in Call, TimerAnswers(c)
    PROVE  TypeOK'
<1>1. mailbox \in [Pod -> Seq(Message)] /\ Msg("TIMER", None, None, c) \in Message
    BY MsgTypes DEF TypeOK
<1>2. mailbox' \in [Pod -> Seq(Message)]
    BY <1>1, AfterTypes DEF TimerAnswers, PostMessage
<1> QED
    BY <1>2 DEF TimerAnswers, podVars, TypeOK

LEMMA NextTypes == TypeOK /\ Inv /\ [Next]_vars => TypeOK'
<1> SUFFICES ASSUME TypeOK, Inv, [Next]_vars PROVE TypeOK'
    OBVIOUS
<1>1. Even /\ DOMAIN respondCB = Pod
    BY InvIsEven
<1>2. CASE UNCHANGED vars
    BY <1>2 DEF vars, podVars, TypeOK
<1> QED
    BY <1>1, <1>2, HandlerTypes, PoolTypes, TimerTypes DEF Next

\* Every reachable state of the calls between actors is well typed, for any
\* sets of actors, UIDs and numbers (actorpod.hpp:59-190).
THEOREM TypeIsCorrect == Spec => []TypeOK
<1> QED
    BY Invariance, InitTypes, NextTypes, PTL DEF Spec

-----------------------------------------------------------------------------
(* The invariant.                                                           *)

Single(S) == \A x, y \in S : x = y

\* Where a call is in the mailboxes.
At(box, c) == {x \in Pod \X (Nat \ {0}) :
                  /\ x[2] \in 1..Len(box[x[1]])
                  /\ c \in {box[x[1]][x[2]].seq, box[x[1]][x[2]].resp}}

\* At most one of five.
OneOf(a, r, s, t, d) ==
    /\ a => ~r /\ ~s /\ ~t /\ ~d
    /\ r => ~s /\ ~t /\ ~d
    /\ s => ~t /\ ~d
    /\ t => ~d

\* A call at A in the mailboxes, R and S in handlers, with the timer service
\* (t) or dead (d) is at one place at most; that of a caller that lives, at
\* one if and only if its caller waits; and it has been made.
Good(A, R, S, t, d, live, waits, made) ==
    /\ Single(A) /\ Single(R) /\ Single(S)
    /\ OneOf(A # {}, R # {}, S # {}, t, d)
    /\ live => ((A # {} \/ R # {} \/ S # {} \/ t \/ d) <=> waits)
    /\ (A # {} \/ R # {} \/ S # {} \/ t \/ d) => made

RunAt(owe, c) == {p \in Pod : c \in owe[p]}
Sus(cb, c) == UNION {{<<p, k.seqID>> : k \in {l \in cb[p] : c \in l.owes}} : p \in Pod}
Waits(ph, cb, c) == ph[c[1]] = "live" /\ \E k \in cb[c[1]] : k.seqID = c[2]
Made(ph, next, c) == ph[c[1]] # "unborn" /\ c[2] < next[c[1]]

CallOK(c) == Good(At(mailbox, c), RunAt(owes, c), Sus(respondCB, c), c \in timers,
                  c \in abandoned, phase[c[1]] = "live", Waits(phase, respondCB, c),
                  Made(phase, nextSeqID, c))

Born == {"live", "detached", "deleted"}

\* One pod of a UID at a time.
OneBorn == \A p, q \in Pod : UidOf[p] = UidOf[q] /\ phase[p] \in Born /\ phase[q] \in Born => p = q

\* Who has not come to life or is gone has no mail; who does not live runs nothing.
Quiet == \A p \in Pod :
    /\ phase[p] \in {"unborn", "gone"} => mailbox[p] = <<>>
    /\ phase[p] \in {"unborn", "deleted", "gone"} => ~running[p] /\ respondCB[p] = {}

\* No message answers the call it makes.
Proper == {m \in Message : m.seq # None => m.seq # m.resp}
ProperMail == mailbox \in [Pod -> Seq(Proper)]

OnceInv ==
    /\ OneBorn /\ Quiet /\ ProperMail
    /\ thrown = None => \A c \in Call : CallOK(c)

-----------------------------------------------------------------------------
(* Mailboxes.                                                               *)

LEMMA CallsAreCalls == \A c \in Call : c # None /\ c[1] \in Pod /\ c[2] \in Nat /\ c = <<c[1], c[2]>>
BY CallAssumption DEF Call

\* A message that is posted is one more place for the calls it names.
LEMMA AfterAt ==
    ASSUME NEW box \in [Pod -> Seq(Message)], NEW u, NEW m \in Message, NEW c \in Call, OneBorn
    PROVE  /\ c \notin {m.seq, m.resp} => At(After(box, u, m), c) = At(box, c)
           /\ c \in {m.seq, m.resp} /\ At(box, c) = {} =>
                /\ Single(At(After(box, u, m), c))
                /\ At(After(box, u, m), c) # {} <=> Accepts(u)
<1> DEFINE new == After(box, u, m)
           To(p) == UidOf[p] = u /\ phase[p] = "live"
<1>1. new \in [Pod -> Seq(Message)]
    BY AfterTypes
<1>2. \A p \in Pod : ~To(p) => new[p] = box[p]
    BY DEF After
<1>3. \A p \in Pod : To(p) => new[p] = Append(box[p], m)
    BY DEF After
<1>4. \A p \in Pod : To(p) => /\ Len(new[p]) = Len(box[p]) + 1 /\ Len(box[p]) \in Nat
                              /\ \A i \in 1..Len(box[p]) : new[p][i] = box[p][i]
                              /\ new[p][Len(box[p]) + 1] = m
    BY <1>3
<1> HIDE DEF new
<1>5. ASSUME c \notin {m.seq, m.resp} PROVE At(new, c) = At(box, c)
    <2>1. ASSUME NEW x \in Pod \X (Nat \ {0}) PROVE x \in At(new, c) <=> x \in At(box, c)
        <3>1. CASE ~To(x[1])
            BY <1>2, <3>1 DEF At
        <3>2. CASE To(x[1])
            BY <1>4, <1>5, <3>2 DEF At
        <3> QED
            BY <3>1, <3>2
    <2> QED
        BY <2>1 DEF At
<1>6. ASSUME c \in {m.seq, m.resp}, At(box, c) = {}
      PROVE  Single(At(new, c)) /\ (At(new, c) # {} <=> Accepts(u))
    <2>1. ASSUME NEW x \in At(new, c) PROVE To(x[1]) /\ x[1] \in Pod /\ x = <<x[1], Len(box[x[1]]) + 1>>
        <3>1. x \in Pod \X (Nat \ {0}) /\ x \notin At(box, c)
            BY <1>6 DEF At
        <3>2. To(x[1])
            BY <1>2, <3>1 DEF At
        <3>3. x[2] \in 1..Len(box[x[1]]) + 1 /\ x[2] \notin 1..Len(box[x[1]])
            BY <1>4, <3>1, <3>2 DEF At
        <3>4. x[2] = Len(box[x[1]]) + 1
            BY <1>4, <3>1, <3>2, <3>3
        <3> QED
            BY <3>1, <3>2, <3>4
    <2>2. \A p, q \in Pod : To(p) /\ To(q) => p = q
        BY DEF OneBorn, Born
    <2>3. Single(At(new, c))
        <3> SUFFICES ASSUME NEW x \in At(new, c), NEW y \in At(new, c) PROVE x = y
            BY DEF Single
        <3>1. x[1] = y[1]
            BY <2>1, <2>2
        <3> QED
            BY <2>1, <3>1
    <2>4. ASSUME NEW p \in Pod, To(p) PROVE <<p, Len(box[p]) + 1>> \in At(new, c)
        <3>1. Len(box[p]) + 1 \in Nat \ {0} /\ Len(box[p]) + 1 \in 1..Len(new[p]) /\ new[p][Len(box[p]) + 1] = m
            BY <1>4, <2>4
        <3> QED
            BY <1>6, <3>1 DEF At
    <2> QED
        BY <2>1, <2>3, <2>4 DEF Accepts
<1> QED
    BY <1>5, <1>6 DEF new

\* The first message of a mailbox is taken.
Takes(box, p, m, new) == m = Head(box[p]) /\ new = [box EXCEPT ![p] = Tail(@)]

LEMMA TailAt ==
    ASSUME NEW box \in [Pod -> Seq(Message)], NEW p \in Pod, box[p] # <<>>, NEW c \in Call,
           Single(At(box, c)), NEW m, NEW new, Takes(box, p, m, new)
    PROVE  /\ c \in {m.seq, m.resp} => At(box, c) # {} /\ At(new, c) = {}
           /\ c \notin {m.seq, m.resp} => Single(At(new, c)) /\ (At(new, c) = {} <=> At(box, c) = {})
<1> DEFINE Old(x) == IF x[1] = p THEN <<p, x[2] + 1>> ELSE x
<1> USE DEF Takes
<1>1. /\ Len(new[p]) = Len(box[p]) - 1 /\ Len(box[p]) \in Nat \ {0} /\ m = box[p][1]
      /\ \A i \in 1..Len(box[p]) - 1 : new[p][i] = box[p][i + 1]
    BY HeadTailProperties
<1>2. \A q \in Pod : q # p => new[q] = box[q]
    OBVIOUS
<1>3. ASSUME NEW x \in At(new, c)
      PROVE  x \in Pod \X (Nat \ {0}) /\ Old(x) \in At(box, c) /\ Old(x) # <<p, 1>>
    <2>1. x \in Pod \X (Nat \ {0})
        BY DEF At
    <2>2. CASE x[1] = p
        <3>1. x[2] \in 1..Len(box[p]) - 1 /\ c \in {new[p][x[2]].seq, new[p][x[2]].resp}
            BY <1>1, <2>2 DEF At
        <3>2. x[2] + 1 \in 1..Len(box[p]) /\ x[2] + 1 \in Nat \ {0} /\ new[p][x[2]] = box[p][x[2] + 1] /\ x[2] + 1 # 1
            BY <1>1, <2>1, <3>1
        <3>3. c \in {box[p][x[2] + 1].seq, box[p][x[2] + 1].resp}
            BY <3>1, <3>2
        <3>4. <<p, x[2] + 1>> \in At(box, c)
            BY <3>2, <3>3 DEF At
        <3> QED
            BY <2>1, <2>2, <3>2, <3>4
    <2>3. CASE x[1] # p
        <3>1. x \in At(box, c)
            BY <1>2, <2>1, <2>3 DEF At
        <3> QED
            BY <2>1, <2>3, <3>1
    <2> QED
        BY <2>2, <2>3
<1>4. c \in {m.seq, m.resp} => <<p, 1>> \in At(box, c)
    <2>1. 1 \in 1..Len(box[p])
        BY <1>1
    <2> QED
        BY <1>1, <2>1 DEF At
<1>5. c \in {m.seq, m.resp} => At(new, c) = {}
    BY <1>3, <1>4 DEF Single
<1>6. Single(At(new, c))
    <2> SUFFICES ASSUME NEW x \in At(new, c), NEW y \in At(new, c) PROVE x = y
        BY DEF Single
    <2>1. Old(x) = Old(y)
        BY <1>3 DEF Single
    <2>2. x \in Pod \X (Nat \ {0}) /\ y \in Pod \X (Nat \ {0})
        BY <1>3
    <2>3. x[1] = p <=> y[1] = p
        BY <2>1, <2>2
    <2>4. CASE x[1] = p
        <3>1. <<p, x[2] + 1>> = <<p, y[2] + 1>>
            BY <2>1, <2>3, <2>4
        <3>2. x[2] = y[2]
            BY <2>2, <3>1
        <3> QED
            BY <2>2, <2>3, <2>4, <3>2
    <2> QED
        BY <2>1, <2>3, <2>4
<1>7. ASSUME c \notin {m.seq, m.resp}, NEW x \in At(box, c) PROVE At(new, c) # {}
    <2>1. x \in Pod \X (Nat \ {0}) /\ x[2] \in 1..Len(box[x[1]])
        BY DEF At
    <2>2. CASE x[1] = p
        <3>1. x[2] # 1
            BY <1>1, <1>7, <2>2 DEF At
        <3>2. x[2] - 1 \in 1..Len(box[p]) - 1 /\ x[2] - 1 \in Nat \ {0} /\ (x[2] - 1) + 1 = x[2]
            BY <1>1, <2>1, <2>2, <3>1
        <3>3. new[p][x[2] - 1] = box[p][x[2]]
            BY <1>1, <3>2
        <3>4. <<p, x[2] - 1>> \in At(new, c)
            BY <1>1, <2>2, <3>2, <3>3 DEF At
        <3> QED
            BY <3>4
    <2>3. CASE x[1] # p
        BY <1>2, <2>1, <2>3 DEF At
    <2> QED
        BY <2>2, <2>3
<1> QED
    BY <1>3, <1>4, <1>5, <1>6, <1>7

-----------------------------------------------------------------------------
(* Handlers.                                                                *)

LEMMA SusMember ==
    ASSUME NEW cb, NEW c, NEW x
    PROVE  x \in Sus(cb, c) <=> \E p \in Pod : \E k \in cb[p] : c \in k.owes /\ x = <<p, k.seqID>>
BY DEF Sus

\* One more handler is suspended, and owes "rest".
LEMMA SuspendSus ==
    ASSUME NEW cb, NEW p \in Pod, NEW k0, NEW c,
           NEW new, new[p] = cb[p] \cup {k0}, \A q \in Pod \ {p} : new[q] = cb[q]
    PROVE  /\ c \notin k0.owes => Sus(new, c) = Sus(cb, c)
           /\ c \in k0.owes => Sus(new, c) = Sus(cb, c) \cup {<<p, k0.seqID>>}
<1>3. ASSUME NEW x PROVE x \in Sus(new, c) <=> x \in Sus(cb, c) \/ (c \in k0.owes /\ x = <<p, k0.seqID>>)
    <2>1. ASSUME NEW q \in Pod, NEW k \in new[q], c \in k.owes, x = <<q, k.seqID>>
          PROVE  (\E k2 \in cb[q] : c \in k2.owes /\ x = <<q, k2.seqID>>) \/ (c \in k0.owes /\ x = <<p, k0.seqID>>)
        BY <2>1
    <2>2. ASSUME NEW q \in Pod, NEW k \in cb[q], c \in k.owes, x = <<q, k.seqID>>
          PROVE  \E k2 \in new[q] : c \in k2.owes /\ x = <<q, k2.seqID>>
        BY <2>2
    <2>3. ASSUME c \in k0.owes, x = <<p, k0.seqID>>
          PROVE  \E k2 \in new[p] : c \in k2.owes /\ x = <<p, k2.seqID>>
        BY <2>3
    <2> QED
        BY <2>1, <2>2, <2>3, SusMember
<1> QED
    BY <1>3

\* One handler is resumed, or none is left.
Drops(cb, p, gone, new) ==
    /\ gone \subseteq cb[p] /\ \A k, l \in cb[p] : k.seqID = l.seqID => k = l
    /\ new[p] = cb[p] \ gone /\ \A q \in Pod \ {p} : new[q] = cb[q]

LEMMA DropSus ==
    ASSUME NEW cb, NEW p \in Pod, NEW gone, NEW c, Single(Sus(cb, c)),
           NEW new, Drops(cb, p, gone, new)
    PROVE  /\ (\A k \in gone : c \notin k.owes) => Sus(new, c) = Sus(cb, c)
           /\ (\E k \in gone : c \in k.owes) => Sus(cb, c) # {} /\ Sus(new, c) = {}
<1> USE DEF Drops
<1>1. new[p] = cb[p] \ gone /\ \A q \in Pod : q # p => new[q] = cb[q]
    OBVIOUS
<1>2. ASSUME NEW x \in Sus(new, c) PROVE x \in Sus(cb, c)
    <2>1. PICK q \in Pod : \E k \in new[q] : c \in k.owes /\ x = <<q, k.seqID>>
        BY SusMember
    <2>2. \E k \in cb[q] : c \in k.owes /\ x = <<q, k.seqID>>
        BY <1>1, <2>1
    <2> QED
        BY <2>2, SusMember
<1>3. ASSUME \A k \in gone : c \notin k.owes, NEW x \in Sus(cb, c) PROVE x \in Sus(new, c)
    <2>1. PICK q \in Pod : \E k \in cb[q] : c \in k.owes /\ x = <<q, k.seqID>>
        BY SusMember
    <2>2. \E k \in new[q] : c \in k.owes /\ x = <<q, k.seqID>>
        BY <1>1, <1>3, <2>1
    <2> QED
        BY <2>2, SusMember
<1>4. ASSUME NEW k \in gone, c \in k.owes PROVE Sus(cb, c) # {} /\ Sus(new, c) = {}
    <2>1. <<p, k.seqID>> \in Sus(cb, c)
        BY <1>4, SusMember
    <2>2. ASSUME NEW x \in Sus(new, c) PROVE FALSE
        <3>1. x = <<p, k.seqID>>
            BY <1>2, <2>1 DEF Single
        <3>2. PICK q \in Pod : \E l \in new[q] : c \in l.owes /\ x = <<q, l.seqID>>
            BY SusMember
        <3>3. PICK l \in new[q] : x = <<q, l.seqID>>
            BY <3>2
        <3>4. q = p /\ l.seqID = k.seqID
            BY <3>1, <3>3
        <3> QED
            BY <1>1, <3>3, <3>4
    <2> QED
        BY <2>1, <2>2
<1> QED
    BY <1>2, <1>3, <1>4

LEMMA RunNew ==
    ASSUME NEW owe, NEW p \in Pod, NEW c, Single(RunAt(owe, c)),
           NEW new, \A q \in Pod \ {p} : new[q] = owe[q]
    PROVE  /\ (c \in new[p] <=> c \in owe[p]) => RunAt(new, c) = RunAt(owe, c)
           /\ c \in owe[p] => RunAt(owe, c) # {}
           /\ c \in owe[p] /\ c \notin new[p] => RunAt(new, c) = {}
           /\ c \in new[p] /\ RunAt(owe, c) = {} => RunAt(new, c) = {p}
BY DEF RunAt, Single

\* Who waits for a call other than the one that is registered.
LEMMA SuspendWaits ==
    ASSUME NEW cb, NEW p \in Pod, NEW k0, NEW c \in Call, NEW ph,
           NEW new, new[p] = cb[p] \cup {k0}, \A q \in Pod \ {p} : new[q] = cb[q]
    PROVE  /\ c # <<p, k0.seqID>> => (Waits(ph, new, c) <=> Waits(ph, cb, c))
           /\ c = <<p, k0.seqID>> => (Waits(ph, new, c) <=> ph[p] = "live")
<1>3. c[1] \in Pod /\ c = <<c[1], c[2]>>
    BY CallsAreCalls
<1>4. CASE c # <<p, k0.seqID>>
    BY <1>3, <1>4 DEF Waits
<1>5. CASE c = <<p, k0.seqID>>
    <2>1. c[1] = p /\ c[2] = k0.seqID
        BY <1>5
    <2>2. k0 \in new[c[1]] /\ k0.seqID = c[2]
        BY <2>1
    <2>3. Waits(ph, new, c) <=> ph[c[1]] = "live"
        BY <2>2 DEF Waits
    <2> QED
        BY <1>5, <2>1, <2>3
<1> QED
    BY <1>4, <1>5

-----------------------------------------------------------------------------
(* The actions, one by one, for one call.                                   *)

\* What they start from.
Before == /\ TypeOK /\ Inv /\ OnceInv /\ thrown = None

LEMMA Facts ==
    ASSUME Before
    PROVE  /\ mailbox \in [Pod -> Seq(Message)] /\ owes \in [Pod -> SUBSET Call]
           /\ DOMAIN respondCB = Pod
           /\ \A p \in Pod : \A k \in respondCB[p] : k.owes \subseteq Call /\ k.seqID < nextSeqID[p]
           /\ \A p \in Pod : \A k, l \in respondCB[p] : k.seqID = l.seqID => k = l
           /\ \A p \in Pod : nextSeqID[p] \in Nat
           /\ \A p \in Pod : ~running[p] => owes[p] = {}
           /\ \A p \in Pod : running[p] => phase[p] \in {"live", "detached"}
           /\ OneBorn /\ Quiet /\ ProperMail
           /\ \A c \in Call : CallOK(c)
<1>1. DOMAIN respondCB = Pod
    BY InvIsEven DEF Before
<1>2. MaxSeq \in Nat
    BY CallAssumption
<1>3. \A p \in Pod : nextSeqID[p] \in 1..MaxSeq + 1
    BY DEF Before, TypeOK
<1>4. \A p \in Pod : nextSeqID[p] \in Nat
    BY <1>2, <1>3
<1>5. \A p \in Pod : \A k \in respondCB[p] : k.owes \subseteq Call /\ k.seqID < nextSeqID[p]
    <2>1. \A p \in Pod : \A k \in respondCB[p] : k.owes \subseteq Call /\ k.seqID \in 1..nextSeqID[p] - 1
        BY DEF Before, TypeOK
    <2> QED
        BY <1>4, <2>1
<1>6. \A p \in Pod : running[p] => phase[p] \in {"live", "detached"}
    BY DEF Before, OnceInv, Quiet, TypeOK
<1> QED
    BY <1>1, <1>4, <1>5, <1>6 DEF Before, OnceInv, TypeOK

\* A call nobody has made yet is nowhere.
LEMMA FreshNowhere ==
    ASSUME Before, NEW c \in Call, ~Made(phase, nextSeqID, c)
    PROVE  /\ At(mailbox, c) = {} /\ RunAt(owes, c) = {} /\ Sus(respondCB, c) = {}
           /\ c \notin timers /\ c \notin abandoned
BY Facts DEF CallOK, Good

LEMMA NewCallFresh ==
    ASSUME Before, NEW p \in Pod, running[p], nextSeqID[p] <= MaxSeq, RollSeqID(p)
    PROVE  LET c == <<p, nextSeqID[p]>> IN
           /\ c \in Call /\ NewCall(p) = c /\ Number(NewCall(p)) = nextSeqID[p] /\ c # None
           /\ ~Made(phase, nextSeqID, c) /\ ~Waits(phase, respondCB, c)
           /\ Made(phase, nextSeqID', c)
           /\ \A e \in Call : Made(phase, nextSeqID, e) => Made(phase, nextSeqID', e)
<1>1. Even /\ TypeOK
    BY InvIsEven DEF Before
<1>2. /\ nextSeqID' \in [Pod -> 1..MaxSeq + 1]
      /\ nextSeqID'[p] = nextSeqID[p] + 1
      /\ \A q \in Pod : nextSeqID'[q] >= nextSeqID[q]
      /\ NewCall(p) \in Call /\ NewCall(p) = <<p, nextSeqID[p]>>
      /\ Number(NewCall(p)) = nextSeqID[p]
    BY <1>1, RollTypes
<1>3. MaxSeq \in Nat
    BY CallAssumption
<1>4. \A q \in Pod : nextSeqID[q] \in Nat /\ nextSeqID'[q] \in Nat
    <2>1. \A q \in Pod : nextSeqID'[q] \in 1..MaxSeq + 1
        BY <1>2
    <2> QED
        BY <1>3, <2>1, Facts
<1>5. phase[p] # "unborn"
    BY Facts
<1>6. ~Made(phase, nextSeqID, <<p, nextSeqID[p]>>)
    BY <1>4 DEF Made
<1>7. ~Waits(phase, respondCB, <<p, nextSeqID[p]>>)
    BY <1>4, Facts DEF Waits
<1>8. Made(phase, nextSeqID', <<p, nextSeqID[p]>>)
    BY <1>2, <1>4, <1>5 DEF Made
<1>9. ASSUME NEW e \in Call, Made(phase, nextSeqID, e) PROVE Made(phase, nextSeqID', e)
    <2>1. e[1] \in Pod /\ e[2] \in Nat
        BY CallsAreCalls
    <2>2. nextSeqID'[e[1]] >= nextSeqID[e[1]] /\ nextSeqID[e[1]] \in Nat /\ nextSeqID'[e[1]] \in Nat
        BY <1>2, <1>4, <2>1
    <2>3. e[2] < nextSeqID'[e[1]]
        BY <1>9, <2>1, <2>2 DEF Made
    <2> QED
        BY <1>9, <2>3 DEF Made
<1> QED
    BY <1>2, <1>6, <1>7, <1>8, <1>9, CallsAreCalls

LEMMA AnswerCall ==
    ASSUME Before, NEW p \in Pod, NEW c \in Call, Answer(p, c), NEW e \in Call
    PROVE  CallOK(e)'
<1> DEFINE m == Msg("AM", UidOf[p], None, c)
<1> USE CallAssumption
<1>1. CallOK(e) /\ c # None /\ e # None /\ c[1] \in Pod
    BY Facts, CallsAreCalls
<1>2. m \in Message /\ m.seq = None /\ m.resp = c
    <2>1. UidOf[p] \in Uid
        OBVIOUS
    <2> QED
        BY <2>1, MsgTypes DEF Msg
<1> HIDE DEF m
<1>3. mailbox' = After(mailbox, UidOf[c[1]], m) /\ c \in owes[p]
    BY DEF Answer, PostMessage, m
<1>7. owes'[p] = owes[p] \ {c} /\ \A q \in Pod \ {p} : owes'[q] = owes[q]
    BY Facts DEF Answer
<1>8. Single(At(mailbox, e)) /\ Single(RunAt(owes, e)) /\ OneBorn
    BY <1>1, Facts DEF CallOK, Good
<1>9. mailbox \in [Pod -> Seq(Message)] /\ owes \in [Pod -> SUBSET Call]
    BY Facts
<1>4. UNCHANGED <<phase, respondCB, nextSeqID, timers, abandoned>>
    BY DEF Answer
<1>5. CASE e # c
    <2>1. At(mailbox', e) = At(mailbox, e)
        BY <1>1, <1>2, <1>3, <1>5, <1>8, <1>9, AfterAt
    <2>2. RunAt(owes', e) = RunAt(owes, e)
        BY <1>3, <1>5, <1>7, <1>8, <1>9, RunNew
    <2> QED
        BY <1>1, <1>4, <2>1, <2>2 DEF CallOK
<1>6. CASE e = c
    <2>1. RunAt(owes, c) # {} /\ RunAt(owes', c) = {}
        BY <1>3, <1>6, <1>7, <1>8, <1>9, RunNew
    <2>2. At(mailbox, c) = {} /\ Sus(respondCB, c) = {} /\ c \notin timers /\ c \notin abandoned
        BY <1>1, <1>6, <2>1 DEF CallOK, Good, OneOf
    <2>3. Single(At(mailbox', c)) /\ (At(mailbox', c) # {} <=> Accepts(UidOf[c[1]]))
        BY <1>2, <1>3, <1>8, <1>9, <2>2, AfterAt
    <2>4. phase[c[1]] = "live" => Accepts(UidOf[c[1]])
        BY <1>1 DEF Accepts
    <2>5. Single(RunAt(owes', c))
        BY <2>1 DEF Single
    <2> QED
        BY <1>1, <1>4, <1>6, <2>1, <2>2, <2>3, <2>4, <2>5 DEF CallOK, Good, OneOf
<1> QED
    BY <1>5, <1>6

LEMMA TimerCall ==
    ASSUME Before, NEW c \in Call, TimerAnswers(c), NEW e \in Call
    PROVE  CallOK(e)'
<1> DEFINE m == Msg("TIMER", None, None, c)
<1> USE CallAssumption
<1>1. CallOK(e) /\ c # None /\ e # None /\ c[1] \in Pod
    BY Facts, CallsAreCalls
<1>2. m \in Message /\ m.seq = None /\ m.resp = c
    BY MsgTypes DEF Msg
<1> HIDE DEF m
<1>3. mailbox' = After(mailbox, UidOf[c[1]], m) /\ timers' = timers \ {c} /\ c \in timers
    BY DEF TimerAnswers, PostMessage, m
<1>4. UNCHANGED <<phase, respondCB, owes, nextSeqID, abandoned>>
    BY DEF TimerAnswers, podVars
<1>5. CASE e # c
    <2>1. At(mailbox', e) = At(mailbox, e)
        BY <1>1, <1>2, <1>3, <1>5, AfterAt, Facts
    <2> QED
        BY <1>1, <1>3, <1>4, <1>5, <2>1 DEF CallOK
<1>6. CASE e = c
    <2>2. At(mailbox, c) = {} /\ RunAt(owes, c) = {} /\ Sus(respondCB, c) = {} /\ c \notin abandoned
        BY <1>1, <1>3, <1>6 DEF CallOK, Good, OneOf
    <2>3. Single(At(mailbox', c)) /\ (At(mailbox', c) # {} <=> Accepts(UidOf[c[1]]))
        BY <1>2, <1>3, <2>2, AfterAt, Facts
    <2>4. phase[c[1]] = "live" => Accepts(UidOf[c[1]])
        BY <1>1 DEF Accepts
    <2> QED
        BY <1>1, <1>3, <1>4, <1>6, <2>2, <2>3, <2>4 DEF CallOK, Good, OneOf
<1> QED
    BY <1>5, <1>6

LEMMA PostCall ==
    ASSUME Before, NEW p \in Pod, NEW u \in Uid, Post(p, u), NEW e \in Call
    PROVE  CallOK(e)'
<1> DEFINE m == Msg("AM", UidOf[p], None, None)
<1> USE CallAssumption
<1>1. CallOK(e) /\ e # None
    BY Facts, CallsAreCalls
<1>2. m \in Message /\ m.seq = None /\ m.resp = None
    <2>1. UidOf[p] \in Uid
        OBVIOUS
    <2> QED
        BY <2>1, MsgTypes DEF Msg
<1> HIDE DEF m
<1>3. mailbox' = After(mailbox, u, m)
    BY DEF Post, PostMessage, m
<1>4. mailbox \in [Pod -> Seq(Message)] /\ OneBorn
    BY Facts
<1>5. At(mailbox', e) = At(mailbox, e)
    BY <1>1, <1>2, <1>3, <1>4, AfterAt
<1> QED
    BY <1>1, <1>5 DEF Post, podVars, CallOK

\* A handler is suspended; "rest" is what it goes on owing.
LEMMA Suspending ==
    ASSUME Before, NEW p \in Pod, NEW rest, rest \subseteq owes[p], NEW e \in Call,
           Suspend(p, NewCall(p), rest)
    PROVE  /\ e \notin owes[p] => RunAt(owes', e) = RunAt(owes, e) /\ Sus(respondCB', e) = Sus(respondCB, e)
           /\ e \in owes[p] => /\ RunAt(owes, e) # {} /\ RunAt(owes', e) = {}
                               /\ Single(Sus(respondCB', e)) /\ Sus(respondCB, e) = {}
                               /\ Sus(respondCB', e) # {} <=> e \in rest
<1> PICK n : n = Number(NewCall(p))
    OBVIOUS
<1> PICK k : k = [seqID |-> n, owes |-> rest]
    OBVIOUS
<1>0. k.seqID = n /\ k.owes = rest
    OBVIOUS
<1>1. /\ respondCB'[p] = respondCB[p] \cup {k}
      /\ \A q \in Pod \ {p} : respondCB'[q] = respondCB[q]
      /\ owes'[p] = {} /\ \A q \in Pod \ {p} : owes'[q] = owes[q]
    BY Facts DEF Suspend
<1>2. CallOK(e)
    BY Facts
<1>3. Single(RunAt(owes, e))
    BY <1>2 DEF CallOK, Good
<1>4. /\ e \notin rest => Sus(respondCB', e) = Sus(respondCB, e)
      /\ e \in rest => Sus(respondCB', e) = Sus(respondCB, e) \cup {<<p, n>>}
    BY <1>0, <1>1, SuspendSus
<1>5. CASE e \notin owes[p]
    <2>1. RunAt(owes', e) = RunAt(owes, e)
        BY <1>1, <1>3, <1>5, RunNew
    <2> QED
        BY <1>4, <1>5, <2>1
<1>6. CASE e \in owes[p]
    <2>1. RunAt(owes, e) # {} /\ RunAt(owes', e) = {}
        BY <1>1, <1>3, <1>6, RunNew
    <2>2. Sus(respondCB, e) = {}
        BY <1>2, <2>1 DEF CallOK, Good, OneOf
    <2>3. Single({<<p, n>>}) /\ Single({})
        BY DEF Single
    <2> QED
        BY <1>4, <1>6, <2>1, <2>2, <2>3
<1> QED
    BY <1>5, <1>6

LEMMA WaitCall ==
    ASSUME Before, NEW p \in Pod, Wait(p), NEW e \in Call
    PROVE  CallOK(e)'
<1> PICK c : c = <<p, nextSeqID[p]>>
    OBVIOUS
<1>1. running[p] /\ nextSeqID[p] <= MaxSeq /\ RollSeqID(p)
    BY DEF Wait, Handling
<1>2. /\ c \in Call /\ NewCall(p) = c /\ Number(NewCall(p)) = nextSeqID[p]
      /\ ~Made(phase, nextSeqID, c) /\ Made(phase, nextSeqID', c)
      /\ Made(phase, nextSeqID, e) => Made(phase, nextSeqID', e)
    BY <1>1, NewCallFresh
<1>3. UNCHANGED <<phase, mailbox, abandoned>> /\ timers' = timers \cup {c} /\ Suspend(p, NewCall(p), owes[p])
    BY <1>2 DEF Wait
<1>4. /\ e \notin owes[p] => RunAt(owes', e) = RunAt(owes, e) /\ Sus(respondCB', e) = Sus(respondCB, e)
      /\ e \in owes[p] => /\ RunAt(owes, e) # {} /\ RunAt(owes', e) = {}
                          /\ Single(Sus(respondCB', e)) /\ Sus(respondCB, e) = {}
                          /\ Sus(respondCB', e) # {}
    BY <1>3, Suspending
<1>5. /\ e # c => (Waits(phase, respondCB', e) <=> Waits(phase, respondCB, e))
      /\ e = c => (Waits(phase, respondCB', e) <=> phase[p] = "live")
    <2> PICK k : k = [seqID |-> nextSeqID[p], owes |-> owes[p]]
        OBVIOUS
    <2>0. <<p, k.seqID>> = c
        OBVIOUS
    <2>1. /\ respondCB'[p] = respondCB[p] \cup {k}
          /\ \A q \in Pod \ {p} : respondCB'[q] = respondCB[q]
        BY <1>2, <1>3, Facts DEF Suspend
    <2> QED
        BY <2>0, <2>1, SuspendWaits
<1>6. CallOK(e) /\ Single({})
    BY Facts DEF Single
<1>7. CASE e = c
    <2>1. /\ At(mailbox, e) = {} /\ RunAt(owes, e) = {} /\ Sus(respondCB, e) = {}
          /\ e \notin timers /\ e \notin abandoned
        BY <1>2, <1>7, FreshNowhere
    <2>2. e \notin owes[p]
        BY <1>4, <2>1
    <2>3. e[1] = p
        BY <1>7
    <2> QED
        BY <1>2, <1>3, <1>4, <1>5, <1>6, <1>7, <2>1, <2>2, <2>3 DEF CallOK, Good, OneOf
<1>8. CASE e # c
    BY <1>2, <1>3, <1>4, <1>5, <1>6, <1>8 DEF CallOK, Good, OneOf
<1> QED
    BY <1>7, <1>8

LEMMA CreateWaitTokenCall ==
    ASSUME Before, NEW p \in Pod, CreateWaitToken(p), NEW e \in Call
    PROVE  CallOK(e)'
<1> PICK c : c = <<p, nextSeqID[p]>>
    OBVIOUS
<1>1. running[p] /\ nextSeqID[p] <= MaxSeq /\ RollSeqID(p)
    BY DEF CreateWaitToken, Handling
<1>2. /\ c \in Call /\ NewCall(p) = c
      /\ ~Made(phase, nextSeqID, c) /\ Made(phase, nextSeqID', c)
      /\ Made(phase, nextSeqID, e) => Made(phase, nextSeqID', e)
    BY <1>1, NewCallFresh
<1>3. UNCHANGED <<phase, mailbox, owes, abandoned>> /\ timers' = timers \cup {c}
    BY <1>2 DEF CreateWaitToken
<1>k. PICK k : k = [seqID |-> nextSeqID[p], owes |-> {}]
    OBVIOUS
<1>0. <<p, k.seqID>> = c /\ e \notin k.owes
    BY <1>k
<1>4. /\ respondCB'[p] = respondCB[p] \cup {k}
      /\ \A q \in Pod \ {p} : respondCB'[q] = respondCB[q]
    BY <1>k, Facts DEF CreateWaitToken
<1>5. Sus(respondCB', e) = Sus(respondCB, e)
    BY <1>0, <1>4, SuspendSus
<1>6. /\ e # c => (Waits(phase, respondCB', e) <=> Waits(phase, respondCB, e))
      /\ e = c => (Waits(phase, respondCB', e) <=> phase[p] = "live")
    BY <1>0, <1>4, SuspendWaits
<1>7. CallOK(e)
    BY Facts
<1>8. CASE e = c
    <2>1. /\ At(mailbox, e) = {} /\ RunAt(owes, e) = {} /\ Sus(respondCB, e) = {}
          /\ e \notin timers /\ e \notin abandoned
        BY <1>2, <1>8, FreshNowhere
    <2>2. e[1] = p
        BY <1>8
    <2> QED
        BY <1>2, <1>3, <1>5, <1>6, <1>7, <1>8, <2>1, <2>2 DEF CallOK, Good, OneOf
<1>9. CASE e # c
    BY <1>2, <1>3, <1>5, <1>6, <1>7, <1>9 DEF CallOK, Good, OneOf
<1> QED
    BY <1>8, <1>9

LEMMA SendCall ==
    ASSUME Before, NEW p \in Pod, NEW u \in Uid, NEW resp \in Call \cup {None}, Send(p, u, resp),
           NEW e \in Call
    PROVE  CallOK(e)'
<1>c. PICK c : c = <<p, nextSeqID[p]>>
    OBVIOUS
<1> PICK m : m = Msg("AM", UidOf[p], NewCall(p), resp)
    OBVIOUS
<1> PICK rest : rest = owes[p] \ {resp}
    OBVIOUS
<1>1. /\ running[p] /\ nextSeqID[p] <= MaxSeq /\ RollSeqID(p)
      /\ resp \in owes[p] \cup {None} /\ (resp # None => u = UidOf[resp[1]])
      /\ mailbox' = After(mailbox, u, m) /\ UNCHANGED <<phase, timers, abandoned>>
    BY DEF Send, Handling, PostMessage
<1>2. /\ c \in Call /\ NewCall(p) = c /\ Number(NewCall(p)) = nextSeqID[p]
      /\ ~Made(phase, nextSeqID, c) /\ Made(phase, nextSeqID', c)
      /\ ~Waits(phase, respondCB, c)
      /\ Made(phase, nextSeqID, e) => Made(phase, nextSeqID', e)
    BY <1>c, <1>1, NewCallFresh
<1>3. m \in Message /\ m.seq = c /\ m.resp = resp
    <2>1. UidOf[p] \in Uid
        BY CallAssumption
    <2> QED
        BY <1>2, <2>1, MsgTypes DEF Msg
<1>4. /\ At(mailbox, c) = {} /\ RunAt(owes, c) = {} /\ Sus(respondCB, c) = {}
      /\ c \notin timers /\ c \notin abandoned
    BY <1>2, FreshNowhere
<1>5. c \notin owes[p] /\ rest \subseteq owes[p] /\ e # None /\ e[1] \in Pod /\ c[1] = p
    BY <1>c, <1>4, CallsAreCalls DEF RunAt
<1>6. CallOK(e) /\ Single({}) /\ OneBorn /\ mailbox \in [Pod -> Seq(Message)]
    BY Facts DEF Single
<1>7. CASE Accepts(u)
    <2>1. Suspend(p, NewCall(p), rest)
        BY <1>7 DEF Send
    <2>2. /\ e \notin owes[p] => RunAt(owes', e) = RunAt(owes, e) /\ Sus(respondCB', e) = Sus(respondCB, e)
          /\ e \in owes[p] => /\ RunAt(owes, e) # {} /\ RunAt(owes', e) = {}
                              /\ Single(Sus(respondCB', e)) /\ Sus(respondCB, e) = {}
                              /\ Sus(respondCB', e) # {} <=> e \in rest
        BY <1>5, <2>1, Suspending
    <2>3. /\ e # c => (Waits(phase, respondCB', e) <=> Waits(phase, respondCB, e))
          /\ e = c => (Waits(phase, respondCB', e) <=> phase[p] = "live")
        <3>k. PICK k : k = [seqID |-> nextSeqID[p], owes |-> rest]
            OBVIOUS
        <3>0. <<p, k.seqID>> = c
            BY <1>c, <3>k
        <3>1. /\ respondCB'[p] = respondCB[p] \cup {k}
              /\ \A q \in Pod \ {p} : respondCB'[q] = respondCB[q]
            BY <1>2, <2>1, <3>k, Facts DEF Suspend
        <3> QED
            BY <3>0, <3>1, SuspendWaits
    <2>4. CASE e = c
        <3>0. e \in {m.seq, m.resp} /\ At(mailbox, e) = {}
            BY <1>3, <1>4, <2>4
        <3>1. Single(At(mailbox', e)) /\ At(mailbox', e) # {}
            BY <1>1, <1>3, <1>6, <1>7, <3>0, AfterAt
        <3> QED
            BY <1>1, <1>2, <1>4, <1>5, <1>6, <2>2, <2>3, <2>4, <3>1 DEF CallOK, Good, OneOf
    <2>5. CASE e = resp
        <3>1. e \in owes[p] /\ e # c /\ e \notin rest
            BY <1>1, <1>5, <2>5
        <3>2. At(mailbox, e) = {} /\ e \notin timers /\ e \notin abandoned
            BY <1>6, <2>2, <3>1 DEF CallOK, Good, OneOf
        <3>3. Single(At(mailbox', e)) /\ At(mailbox', e) # {}
            BY <1>1, <1>3, <1>6, <1>7, <2>5, <3>2, AfterAt
        <3> QED
            BY <1>1, <1>2, <1>6, <2>2, <2>3, <3>1, <3>2, <3>3 DEF CallOK, Good, OneOf
    <2>6. CASE e # c /\ e # resp
        <3>0. e \notin {m.seq, m.resp}
            BY <1>3, <2>6
        <3>1. At(mailbox', e) = At(mailbox, e)
            BY <1>1, <1>3, <1>6, <3>0, AfterAt
        <3>2. e \in owes[p] <=> e \in rest
            BY <2>6
        <3> QED
            BY <1>1, <1>2, <1>6, <2>2, <2>3, <2>6, <3>1, <3>2 DEF CallOK, Good, OneOf
    <2> QED
        BY <2>4, <2>5, <2>6
<1>8. CASE ~Accepts(u)
    <2>1. /\ owes'[p] = rest /\ \A q \in Pod \ {p} : owes'[q] = owes[q]
          /\ UNCHANGED respondCB
        BY <1>8, Facts DEF Send
    <2>2. At(mailbox', e) = At(mailbox, e)
        <3>1. \A q \in Pod : mailbox'[q] = mailbox[q]
            BY <1>1, <1>8 DEF After, Accepts
        <3> QED
            BY <3>1 DEF At
    <2>3. Single(RunAt(owes, e))
        BY <1>6 DEF CallOK, Good
    <2>4. CASE e = resp
        <3>1. e \in owes[p] /\ e \notin rest /\ phase[e[1]] # "live"
            BY <1>1, <1>5, <1>8, <2>4 DEF Accepts
        <3>2. RunAt(owes, e) # {} /\ RunAt(owes', e) = {}
            BY <2>1, <2>3, <3>1, RunNew
        <3> QED
            BY <1>1, <1>2, <1>6, <2>1, <2>2, <3>1, <3>2 DEF CallOK, Good, OneOf
    <2>5. CASE e # resp
        <3>1. RunAt(owes', e) = RunAt(owes, e)
            BY <2>1, <2>3, <2>5, RunNew
        <3> QED
            BY <1>1, <1>2, <1>6, <2>1, <2>2, <3>1 DEF CallOK, Good, OneOf
    <2> QED
        BY <2>4, <2>5
<1> QED
    BY <1>7, <1>8

LEMMA ReturnCall ==
    ASSUME Before, NEW p \in Pod, Return(p), NEW e \in Call
    PROVE  CallOK(e)'
<1>1. CallOK(e)
    BY Facts
<1> QED
    BY <1>1 DEF Return, CallOK

\* A call of an actor that has ceased to live has no caller to wait for it.
LEMMA DeactivateCall ==
    ASSUME Before, NEW p \in Pod, Deactivate(p), NEW e \in Call
    PROVE  CallOK(e)'
<1>1. CallOK(e) /\ e[1] \in Pod
    BY Facts, CallsAreCalls
<1>2. /\ phase'[p] = "detached" /\ \A q \in Pod \ {p} : phase'[q] = phase[q]
      /\ phase[p] = "live"
    BY DEF Deactivate, Before, TypeOK
<1>3. UNCHANGED <<mailbox, respondCB, owes, nextSeqID, timers, abandoned>>
    BY DEF Deactivate
<1>4. CASE e[1] = p
    BY <1>1, <1>2, <1>3, <1>4 DEF CallOK, Good, Made
<1>5. CASE e[1] # p
    BY <1>1, <1>2, <1>3, <1>5 DEF CallOK, Made, Waits
<1> QED
    BY <1>4, <1>5

LEMMA EraseCall ==
    ASSUME Before, NEW p \in Pod, Erase(p), NEW e \in Call
    PROVE  CallOK(e)'
<1>1. CallOK(e) /\ e[1] \in Pod
    BY Facts, CallsAreCalls
<1>2. /\ phase'[p] = "gone" /\ \A q \in Pod \ {p} : phase'[q] = phase[q]
      /\ phase[p] = "deleted"
    BY DEF Erase, Before, TypeOK
<1>3. UNCHANGED <<mailbox, respondCB, owes, nextSeqID, timers, abandoned>>
    BY DEF Erase
<1>4. CASE e[1] = p
    BY <1>1, <1>2, <1>3, <1>4 DEF CallOK, Good, Made
<1>5. CASE e[1] # p
    BY <1>1, <1>2, <1>3, <1>5 DEF CallOK, Made, Waits
<1> QED
    BY <1>4, <1>5

LEMMA ActivateCall ==
    ASSUME Before, NEW p \in Pod, Activate(p), NEW e \in Call
    PROVE  CallOK(e)'
<1> PICK m : m = Msg("AM", None, None, None)
    OBVIOUS
<1>1. CallOK(e) /\ e[1] \in Pod /\ e # None
    BY Facts, CallsAreCalls
<1>2. /\ phase'[p] = "live" /\ \A q \in Pod \ {p} : phase'[q] = phase[q]
      /\ phase[p] = "unborn"
    BY DEF Activate, Before, TypeOK
<1>3. UNCHANGED <<respondCB, owes, nextSeqID, timers, abandoned>>
    BY DEF Activate
<1>4. /\ mailbox'[p] = <<m>> /\ \A q \in Pod \ {p} : mailbox'[q] = mailbox[q]
      /\ mailbox[p] = <<>> /\ respondCB[p] = {}
    BY <1>2, Facts DEF Activate, Quiet
<1>5. m.seq = None /\ m.resp = None
    BY DEF Msg
<1> HIDE DEF Msg
<1>6. At(mailbox', e) = At(mailbox, e)
    <2>1. ASSUME NEW x \in Pod \X (Nat \ {0}) PROVE x \in At(mailbox', e) <=> x \in At(mailbox, e)
        <3>1. CASE x[1] # p
            BY <1>4, <3>1 DEF At
        <3>2. CASE x[1] = p
            <4>1. x \notin At(mailbox, e)
                BY <1>4, <3>2 DEF At
            <4>2. ASSUME x \in At(mailbox', e) PROVE FALSE
                <5>1. x[2] \in 1..Len(<<m>>) /\ e \in {<<m>>[x[2]].seq, <<m>>[x[2]].resp}
                    BY <1>4, <3>2, <4>2 DEF At
                <5>2. x[2] = 1
                    BY <5>1
                <5> QED
                    BY <1>1, <1>5, <5>1, <5>2
            <4> QED
                BY <4>1, <4>2
        <3> QED
            BY <3>1, <3>2
    <2> QED
        BY <2>1 DEF At
<1>7. CASE e[1] = p
    <2>1. ~Made(phase, nextSeqID, e)
        BY <1>2, <1>7 DEF Made
    <2>2. ~Waits(phase', respondCB', e)
        BY <1>3, <1>4, <1>7 DEF Waits
    <2> QED
        BY <1>1, <1>3, <1>6, <2>1, <2>2 DEF CallOK, Good
<1>8. CASE e[1] # p
    BY <1>1, <1>2, <1>3, <1>6, <1>8 DEF CallOK, Made, Waits
<1> QED
    BY <1>7, <1>8

\* The handlers of an actor that is destroyed take what they owe with them.
LEMMA DestroyCall ==
    ASSUME Before, NEW p \in Pod, Destroy(p), NEW e \in Call
    PROVE  CallOK(e)'
<1>1. CallOK(e) /\ e[1] \in Pod
    BY Facts, CallsAreCalls
<1>2. /\ phase'[p] = "deleted" /\ \A q \in Pod \ {p} : phase'[q] = phase[q]
      /\ phase[p] = "detached"
    BY DEF Destroy, Before, TypeOK
<1>3. UNCHANGED <<mailbox, owes, nextSeqID, timers>> /\ abandoned' = abandoned \cup UNION {k.owes : k \in respondCB[p]}
    BY DEF Destroy
<1>4. /\ respondCB'[p] = respondCB[p] \ respondCB[p]
      /\ \A q \in Pod \ {p} : respondCB'[q] = respondCB[q]
    BY Facts DEF Destroy
<1>5. \A k, l \in respondCB[p] : k.seqID = l.seqID => k = l
    BY Facts
<1>6. Single(Sus(respondCB, e))
    BY <1>1 DEF CallOK, Good
<1>7. /\ (\A k \in respondCB[p] : e \notin k.owes) => Sus(respondCB', e) = Sus(respondCB, e)
      /\ (\E k \in respondCB[p] : e \in k.owes) => Sus(respondCB, e) # {} /\ Sus(respondCB', e) = {}
    <2>1. Drops(respondCB, p, respondCB[p], respondCB')
        BY <1>4, <1>5 DEF Drops
    <2> QED
        BY <1>6, <2>1, DropSus
<1>8. e \in abandoned' <=> e \in abandoned \/ \E k \in respondCB[p] : e \in k.owes
    BY <1>3
<1>9. /\ Made(phase', nextSeqID', e) <=> Made(phase, nextSeqID, e)
      /\ phase'[e[1]] = "live" <=> phase[e[1]] = "live"
      /\ Waits(phase', respondCB', e) <=> Waits(phase, respondCB, e)
    BY <1>1, <1>2, <1>3, <1>4 DEF Made, Waits
<1>10. CASE \A k \in respondCB[p] : e \notin k.owes
    BY <1>1, <1>3, <1>7, <1>8, <1>9, <1>10 DEF CallOK, Good, OneOf
<1>11. CASE \E k \in respondCB[p] : e \in k.owes
    BY <1>1, <1>3, <1>7, <1>8, <1>9, <1>11 DEF CallOK, Good, OneOf, Single
<1> QED
    BY <1>10, <1>11

\* The first message for an actor, whose set of calls R is known.
LEMMA HeadOf ==
    ASSUME Before, NEW p \in Pod, mailbox[p] # <<>>, NEW m, m = Head(mailbox[p])
    PROVE  /\ m \in Message /\ (m.seq # None => m.seq # m.resp)
           /\ m.seq # None => m.seq \in Call /\ m.from = UidOf[m.seq[1]] /\ m.from # None
           /\ m.resp # None => m.resp \in Call /\ UidOf[m.resp[1]] = UidOf[p]
<1> PICK R : InvOf(R)
    BY DEF Before, Inv
<1>1. R \subseteq Call /\ mailbox[p] \in Seq(For(p, R)) /\ mailbox[p] \in Seq(Proper)
    BY Facts DEF InvOf, Rolled, Refers, ProperMail
<1>2. m \in For(p, R) /\ m \in Proper
    BY <1>1
<1>3. m.seq # None => m.seq[1] \in Pod
    BY <1>1, <1>2, CallsAreCalls DEF For
<1>4. m.seq # None => UidOf[m.seq[1]] \in Uid /\ UidOf[m.seq[1]] # None
    BY <1>3, CallAssumption
<1> QED
    BY <1>1, <1>2, <1>4 DEF For, Proper

\* A message that is sent back keeps the call it made, and only that.
LEMMA BounceCall ==
    ASSUME Before, NEW p \in Pod, Bounce(p), NEW e \in Call
    PROVE  CallOK(e)'
<1>m. PICK m : m = Head(mailbox[p])
    OBVIOUS
<1>k. PICK back : back = Msg("BADACTORPOD", None, None, m.seq)
    OBVIOUS
<1>b. PICK box : box = [mailbox EXCEPT ![p] = Tail(@)]
    OBVIOUS
<1>0. mailbox[p] # <<>> /\ phase[p] = "deleted" /\ UNCHANGED <<phase, respondCB, owes, nextSeqID, timers, abandoned>>
    BY DEF Bounce, podVars
<1>1. mailbox' = IF m.from # None THEN After(box, m.from, back) ELSE box
    BY <1>m, <1>k, <1>b DEF Bounce, IsReturnable
<1>2. /\ m \in Message /\ (m.seq # None => m.seq # m.resp)
      /\ m.seq # None => m.seq \in Call /\ m.from = UidOf[m.seq[1]] /\ m.from # None
      /\ m.resp # None => m.resp \in Call /\ UidOf[m.resp[1]] = UidOf[p]
    BY <1>m, <1>0, HeadOf
<1>3. back \in Message /\ back.seq = None /\ back.resp = m.seq
    <2>1. m.seq \in Call \cup {None}
        BY <1>2
    <2> QED
        BY <1>k, <2>1, MsgTypes DEF Msg
<1>4. mailbox \in [Pod -> Seq(Message)] /\ OneBorn /\ CallOK(e) /\ e # None /\ e[1] \in Pod
    BY Facts, CallsAreCalls
<1>5. box \in [Pod -> Seq(Message)]
    BY <1>b, <1>0, <1>4, HeadTypes
<1>6. Single(At(mailbox, e))
    BY <1>4 DEF CallOK, Good
<1>7. /\ e \in {m.seq, m.resp} => At(mailbox, e) # {} /\ At(box, e) = {}
      /\ e \notin {m.seq, m.resp} => Single(At(box, e)) /\ (At(box, e) = {} <=> At(mailbox, e) = {})
    <2>1. Takes(mailbox, p, m, box)
        BY <1>m, <1>b DEF Takes
    <2> QED
        BY <1>0, <1>4, <1>6, <2>1, TailAt
<1>8. m.from # None =>
        /\ e \notin {back.seq, back.resp} => At(mailbox', e) = At(box, e)
        /\ e \in {back.seq, back.resp} /\ At(box, e) = {} =>
             /\ Single(At(mailbox', e))
             /\ At(mailbox', e) # {} <=> Accepts(m.from)
    <2>u. PICK u : u = m.from
        OBVIOUS
    <2>0. back \in Message /\ OneBorn
        BY <1>3, <1>4
    <2>1. /\ e \notin {back.seq, back.resp} => At(After(box, u, back), e) = At(box, e)
          /\ e \in {back.seq, back.resp} /\ At(box, e) = {} =>
               /\ Single(At(After(box, u, back), e))
               /\ At(After(box, u, back), e) # {} <=> Accepts(u)
        BY <1>5, <2>0, AfterAt
    <2> QED
        BY <1>1, <2>u, <2>1
<1>9. m.from = None => mailbox' = box
    BY <1>1
<1>10. CASE e = m.seq
    <2>1. At(mailbox, e) # {} /\ At(box, e) = {} /\ m.from # None /\ m.from = UidOf[e[1]]
        BY <1>2, <1>4, <1>7, <1>10
    <2>2. Single(At(mailbox', e)) /\ (At(mailbox', e) # {} <=> Accepts(UidOf[e[1]]))
        BY <1>3, <1>8, <1>10, <2>1
    <2>3. phase[e[1]] = "live" => Accepts(UidOf[e[1]])
        BY <1>4 DEF Accepts
    <2> QED
        BY <1>0, <1>4, <2>1, <2>2, <2>3 DEF CallOK, Good, OneOf
<1>11. CASE e = m.resp /\ e # m.seq
    <2>1. At(mailbox, e) # {} /\ At(mailbox', e) = {}
        BY <1>3, <1>4, <1>7, <1>8, <1>9, <1>11
    <2>2. phase[e[1]] # "live"
        <3>1. UidOf[e[1]] = UidOf[p]
            BY <1>2, <1>4, <1>11
        <3> QED
            BY <1>0, <1>4, <3>1 DEF OneBorn, Born
    <2> QED
        BY <1>0, <1>4, <2>1, <2>2 DEF CallOK, Good, OneOf, Single
<1>12. CASE e \notin {m.seq, m.resp}
    <2>1. Single(At(mailbox', e)) /\ (At(mailbox', e) = {} <=> At(mailbox, e) = {})
        BY <1>3, <1>4, <1>7, <1>8, <1>9, <1>12
    <2> QED
        BY <1>0, <1>4, <2>1 DEF CallOK, Good, OneOf
<1> QED
    BY <1>10, <1>11, <1>12

\* The first message is given to a coroutine, or to a new handler.
LEMMA HandleCall ==
    ASSUME UniqueIDs \/ NoReuse, Before, NEW p \in Pod, Handle(p), thrown' = None, NEW e \in Call
    PROVE  CallOK(e)'
<1>m. PICK m : m = Head(mailbox[p])
    OBVIOUS
<1>0. /\ mailbox[p] # <<>> /\ phase[p] = "live" /\ ~running[p]
      /\ UNCHANGED <<phase, nextSeqID, timers, abandoned>>
    BY DEF Handle
<1>1. mailbox' = [mailbox EXCEPT ![p] = Tail(@)]
    BY DEF Handle
<1>2. /\ m \in Message /\ (m.seq # None => m.seq # m.resp)
      /\ m.resp # None => m.resp \in Call
    BY <1>m, <1>0, HeadOf
<1>4. mailbox \in [Pod -> Seq(Message)] /\ owes[p] = {} /\ CallOK(e) /\ e # None /\ e[1] \in Pod
    BY <1>0, Facts, CallsAreCalls
<1>5. e = <<e[1], e[2]>>
    BY CallsAreCalls
<1>6. Single(At(mailbox, e)) /\ Single(RunAt(owes, e)) /\ Single(Sus(respondCB, e)) /\ Single({}) /\ Single({p})
    BY <1>4 DEF CallOK, Good, Single
<1>7. /\ e \in {m.seq, m.resp} => At(mailbox, e) # {} /\ At(mailbox', e) = {}
      /\ e \notin {m.seq, m.resp} => Single(At(mailbox', e)) /\ (At(mailbox', e) = {} <=> At(mailbox, e) = {})
    <2>1. Takes(mailbox, p, m, mailbox')
        BY <1>m, <1>1 DEF Takes
    <2> QED
        BY <1>0, <1>4, <1>6, <2>1, TailAt
<1>8. e \in Owed(m) <=> e = m.seq
    BY <1>4 DEF Owed
<1>9. ASSUME NEW calls, Run(p, calls)
      PROVE  /\ owes'[p] = calls
             /\ e \notin calls => RunAt(owes', e) = RunAt(owes, e)
             /\ e \in calls /\ RunAt(owes, e) = {} => RunAt(owes', e) = {p}
    <2>1. owes'[p] = calls /\ \A q \in Pod \ {p} : owes'[q] = owes[q]
        BY <1>9, Facts DEF Run
    <2>2. e \notin owes[p]
        BY <1>4
    <2>3. /\ (e \in owes'[p] <=> e \in owes[p]) => RunAt(owes', e) = RunAt(owes, e)
          /\ e \in owes'[p] /\ RunAt(owes, e) = {} => RunAt(owes', e) = {p}
        BY <1>6, <2>1, RunNew
    <2> QED
        BY <2>1, <2>2, <2>3
<1>10. ASSUME NEW k \in Continuation(p, m), m.resp # None,
              respondCB' = [respondCB EXCEPT ![p] = @ \ {k}], Run(p, k.owes \cup Owed(m))
       PROVE  CallOK(e)'
    <2>1. k \in respondCB[p] /\ k \notin respondCB'[p]
        BY <1>10, Facts DEF Continuation
    <2>2. m.resp = <<p, k.seqID>>
        BY <1>m, <1>0, <2>1, RightStep DEF Next, PoolStep, Before
    <2>3. /\ respondCB'[p] = respondCB[p] \ {k}
          /\ \A q \in Pod \ {p} : respondCB'[q] = respondCB[q]
        BY <1>10, Facts
    <2>4. \A l, n \in respondCB[p] : l.seqID = n.seqID => l = n
        BY Facts
    <2>5. /\ e \notin k.owes => Sus(respondCB', e) = Sus(respondCB, e)
          /\ e \in k.owes => Sus(respondCB, e) # {} /\ Sus(respondCB', e) = {}
        <3>g. PICK gone : gone = {k}
            OBVIOUS
        <3>1. Drops(respondCB, p, gone, respondCB')
            BY <2>1, <2>3, <2>4, <3>g DEF Drops
        <3>2. /\ (\A l \in gone : e \notin l.owes) => Sus(respondCB', e) = Sus(respondCB, e)
              /\ (\E l \in gone : e \in l.owes) => Sus(respondCB, e) # {} /\ Sus(respondCB', e) = {}
            BY <1>6, <3>1, DropSus
        <3> QED
            BY <3>g, <3>2
    <2>6. /\ e # m.resp => (Waits(phase', respondCB', e) <=> Waits(phase, respondCB, e))
          /\ e = m.resp => ~Waits(phase', respondCB', e)
        <3>1. CASE e[1] # p
            BY <1>0, <1>4, <1>5, <2>2, <2>3, <3>1 DEF Waits
        <3>2. CASE e[1] = p
            <4>1. e # m.resp <=> k.seqID # e[2]
                BY <1>5, <2>2, <3>2
            <4> QED
                BY <1>0, <2>1, <2>3, <2>4, <3>2, <4>1 DEF Waits
        <3> QED
            BY <3>1, <3>2
    <2>7. /\ e \notin k.owes \cup {m.seq} => RunAt(owes', e) = RunAt(owes, e)
          /\ e \in k.owes \cup {m.seq} /\ RunAt(owes, e) = {} => RunAt(owes', e) = {p}
        BY <1>8, <1>9, <1>10
    <2>8. CASE e = m.resp
        <3>1. e # m.seq
            BY <1>2, <1>4, <2>8
        <3>2. /\ At(mailbox', e) = {} /\ RunAt(owes, e) = {} /\ Sus(respondCB, e) = {}
              /\ e \notin timers /\ e \notin abandoned
            BY <1>4, <1>7, <2>8 DEF CallOK, Good, OneOf
        <3>3. e \notin k.owes
            BY <2>5, <3>2
        <3>4. RunAt(owes', e) = {} /\ Sus(respondCB', e) = {}
            BY <2>5, <2>7, <3>1, <3>2, <3>3
        <3> QED
            BY <1>0, <1>4, <1>6, <2>6, <2>8, <3>2, <3>4 DEF CallOK, Good, OneOf
    <2>9. CASE e = m.seq
        <3>1. e # m.resp
            BY <1>2, <1>4, <2>9
        <3>2. /\ At(mailbox, e) # {} /\ At(mailbox', e) = {} /\ RunAt(owes, e) = {} /\ Sus(respondCB, e) = {}
              /\ e \notin timers /\ e \notin abandoned
            BY <1>4, <1>7, <2>9 DEF CallOK, Good, OneOf
        <3>3. RunAt(owes', e) = {p} /\ Sus(respondCB', e) = {}
            BY <2>5, <2>7, <2>9, <3>2
        <3> QED
            BY <1>0, <1>4, <1>6, <2>6, <3>1, <3>2, <3>3 DEF CallOK, Good, OneOf
    <2>10. CASE e \notin {m.seq, m.resp} /\ e \in k.owes
        <3>2. /\ At(mailbox, e) = {} /\ RunAt(owes, e) = {} /\ Sus(respondCB, e) # {}
              /\ e \notin timers /\ e \notin abandoned
            BY <1>4, <2>5, <2>10 DEF CallOK, Good, OneOf
        <3>3. RunAt(owes', e) = {p} /\ Sus(respondCB', e) = {} /\ At(mailbox', e) = {}
            BY <1>7, <2>5, <2>7, <2>10, <3>2
        <3> QED
            BY <1>0, <1>4, <1>6, <2>6, <2>10, <3>2, <3>3 DEF CallOK, Good, OneOf
    <2>11. CASE e \notin {m.seq, m.resp} /\ e \notin k.owes
        BY <1>0, <1>4, <1>6, <1>7, <2>5, <2>6, <2>7, <2>11 DEF CallOK, Good, OneOf
    <2> QED
        BY <2>8, <2>9, <2>10, <2>11
<1>11. ASSUME m.resp = None, UNCHANGED respondCB, Run(p, Owed(m))
       PROVE  CallOK(e)'
    <2>1. /\ e # m.seq => RunAt(owes', e) = RunAt(owes, e)
          /\ e = m.seq /\ RunAt(owes, e) = {} => RunAt(owes', e) = {p}
        BY <1>8, <1>9, <1>11
    <2>2. CASE e = m.seq
        <3>1. /\ At(mailbox, e) # {} /\ At(mailbox', e) = {} /\ RunAt(owes, e) = {} /\ Sus(respondCB, e) = {}
              /\ e \notin timers /\ e \notin abandoned
            BY <1>4, <1>7, <2>2 DEF CallOK, Good, OneOf
        <3>2. RunAt(owes', e) = {p}
            BY <2>1, <2>2, <3>1
        <3> QED
            BY <1>0, <1>4, <1>6, <1>11, <3>1, <3>2 DEF CallOK, Good, OneOf
    <2>3. CASE e # m.seq
        <3>1. e \notin {m.seq, m.resp}
            BY <1>4, <1>11, <2>3
        <3> QED
            BY <1>0, <1>4, <1>6, <1>7, <1>11, <2>1, <2>3, <3>1 DEF CallOK, Good, OneOf
    <2> QED
        BY <2>2, <2>3
<1>12. ASSUME NEW why \in {"no continuation", "unexpected message"} PROVE ~Throw(p, why)
    <2>1. <<p, why>> \in Pod \X {"no continuation", "unexpected message"}
        OBVIOUS
    <2> QED
        BY <2>1, ThrownAssumption DEF Throw
<1> QED
    BY <1>m, <1>10, <1>11, <1>12 DEF Handle

-----------------------------------------------------------------------------
(* The lives of actors and their mail.                                      *)

\* A UID has one living actor at a time, and a mailbox only as long as it lives.
LEMMA LivesKept ==
    ASSUME Before, Next
    PROVE  OneBorn' /\ Quiet'
<1>1. /\ phase \in [Pod -> {"unborn", "live", "detached", "deleted", "gone"}]
      /\ running \in [Pod -> BOOLEAN] /\ DOMAIN mailbox = Pod /\ DOMAIN respondCB = Pod
      /\ OneBorn /\ Quiet /\ \A p \in Pod : running[p] => phase[p] \in {"live", "detached"}
    BY Facts DEF Before, TypeOK
<1>2. ASSUME UNCHANGED phase,
             NEW p \in Pod, phase[p] \in {"live", "detached", "deleted"},
             \A q \in Pod : phase[q] # "live" /\ q # p => mailbox'[q] = mailbox[q],
             phase[p] = "deleted" => running'[p] = running[p] /\ respondCB'[p] = respondCB[p],
             \A q \in Pod \ {p} : running'[q] = running[q] /\ respondCB'[q] = respondCB[q]
      PROVE  OneBorn' /\ Quiet'
    BY <1>1, <1>2 DEF OneBorn, Quiet
<1>3. \A box, u, m : \A q \in Pod : phase[q] # "live" => After(box, u, m)[q] = box[q]
    BY DEF After
<1>4. ASSUME NEW p \in Pod, HandlerStep(p), ~Deactivate(p) PROVE OneBorn' /\ Quiet'
    <2>1. phase[p] \in {"live", "detached"} /\ UNCHANGED phase
        BY <1>1, <1>4 DEF HandlerStep, Handling, Post, Send, Answer, Wait, CreateWaitToken, Return, podVars
    <2>2. \A q \in Pod : phase[q] # "live" => mailbox'[q] = mailbox[q]
        <3>1. ASSUME NEW u, NEW m, PostMessage(u, m)
              PROVE  \A q \in Pod : phase[q] # "live" => mailbox'[q] = mailbox[q]
            BY <1>3, <3>1 DEF PostMessage
        <3>2. UNCHANGED mailbox \/ \E u, m : PostMessage(u, m)
            BY <1>4 DEF HandlerStep, Post, Send, Answer, Wait, CreateWaitToken, Return
        <3> QED
            BY <3>1, <3>2
    <2>3. \A q \in Pod \ {p} : running'[q] = running[q] /\ respondCB'[q] = respondCB[q]
        BY <1>1, <1>4 DEF HandlerStep, Post, Send, Answer, Wait, CreateWaitToken, Return, Suspend, podVars
    <2> QED
        BY <1>2, <2>1, <2>2, <2>3
<1>5. ASSUME NEW p \in Pod, Deactivate(p) PROVE OneBorn' /\ Quiet'
    BY <1>1, <1>5 DEF Deactivate, OneBorn, Quiet, Born
<1>6. ASSUME NEW p \in Pod, Activate(p) PROVE OneBorn' /\ Quiet'
    BY <1>1, <1>6 DEF Activate, OneBorn, Quiet, Born
<1>7. ASSUME NEW p \in Pod, Handle(p) PROVE OneBorn' /\ Quiet'
    <2>1. phase[p] = "live" /\ UNCHANGED phase
        BY <1>7 DEF Handle
    <2>2. \A q \in Pod \ {p} : mailbox'[q] = mailbox[q] /\ respondCB'[q] = respondCB[q]
        BY <1>1, <1>7 DEF Handle
    <2>3. \A q \in Pod \ {p} : running'[q] = running[q]
        BY <1>1, <1>7 DEF Handle, Run, Throw
    <2> QED
        BY <1>2, <2>1, <2>2, <2>3
<1>8. ASSUME NEW p \in Pod, Destroy(p) \/ Erase(p) PROVE OneBorn' /\ Quiet'
    BY <1>1, <1>8 DEF Destroy, Erase, OneBorn, Quiet, Born
<1>9. ASSUME NEW p \in Pod, Bounce(p) PROVE OneBorn' /\ Quiet'
    <2>1. phase[p] = "deleted" /\ UNCHANGED <<phase, running, respondCB>>
        BY <1>9 DEF Bounce, podVars
    <2>2. \A q \in Pod : phase[q] # "live" /\ q # p => mailbox'[q] = mailbox[q]
        <3>b. PICK box : box = [mailbox EXCEPT ![p] = Tail(@)]
            OBVIOUS
        <3>1. mailbox' = box \/ \E u, m : mailbox' = After(box, u, m)
            BY <1>9, <3>b DEF Bounce
        <3>2. \A q \in Pod : q # p => box[q] = mailbox[q]
            BY <1>1, <3>b
        <3> QED
            BY <1>3, <3>1, <3>2
    <2> QED
        BY <1>2, <2>1, <2>2
<1>10. ASSUME NEW c \in Call, TimerAnswers(c) PROVE OneBorn' /\ Quiet'
    <2>1. \A q \in Pod : phase[q] # "live" => mailbox'[q] = mailbox[q]
        BY <1>3, <1>10 DEF TimerAnswers, PostMessage
    <2> QED
        BY <1>1, <1>10, <2>1 DEF TimerAnswers, podVars, OneBorn, Quiet
<1> QED
    BY <1>4, <1>5, <1>6, <1>7, <1>8, <1>9, <1>10 DEF Next, PoolStep

LEMMA AfterProper ==
    ASSUME NEW box \in [Pod -> Seq(Proper)], NEW u, NEW m \in Proper
    PROVE  After(box, u, m) \in [Pod -> Seq(Proper)]
BY DEF After

LEMMA ProperKept ==
    ASSUME Before, Next
    PROVE  ProperMail'
<1>1. mailbox \in [Pod -> Seq(Proper)] /\ \A p \in Pod : UidOf[p] \in Uid
    BY Facts, CallAssumption DEF ProperMail
<1>2. ASSUME NEW box \in [Pod -> Seq(Proper)], NEW u, NEW m \in Message,
             m.seq = None \/ m.seq # m.resp, mailbox' = After(box, u, m)
      PROVE  ProperMail'
    <2>1. m \in Proper
        BY <1>2 DEF Proper
    <2> QED
        BY <1>2, <2>1, AfterProper DEF ProperMail
<1>3. ASSUME NEW type \in {"AM", "BADACTORPOD", "TIMER"}, NEW from \in Uid \cup {None},
             NEW resp \in Call \cup {None}, NEW box \in [Pod -> Seq(Proper)], NEW u,
             mailbox' = After(box, u, Msg(type, from, None, resp))
      PROVE  ProperMail'
    <2>m. PICK m : m = Msg(type, from, None, resp)
        OBVIOUS
    <2>1. m \in Message /\ m.seq = None
        BY <2>m, MsgTypes DEF Msg
    <2> QED
        BY <1>2, <1>3, <2>m, <2>1
<1>4. ASSUME NEW p \in Pod, NEW box, mailbox[p] # <<>>, box = [mailbox EXCEPT ![p] = Tail(@)]
      PROVE  box \in [Pod -> Seq(Proper)]
    BY <1>1, <1>4
<1>5. ASSUME NEW p \in Pod, NEW u \in Uid, NEW resp \in Call \cup {None}, Send(p, u, resp) PROVE ProperMail'
    <2>m. PICK m : m = Msg("AM", UidOf[p], NewCall(p), resp)
        OBVIOUS
    <2>1. running[p] /\ nextSeqID[p] <= MaxSeq /\ RollSeqID(p) /\ resp \in owes[p] \cup {None}
        BY <1>5 DEF Send, Handling
    <2>2. mailbox' = After(mailbox, u, m)
        BY <1>5, <2>m DEF Send, PostMessage
    <2>3. NewCall(p) \in Call /\ NewCall(p) # None /\ RunAt(owes, NewCall(p)) = {}
        BY <2>1, NewCallFresh, FreshNowhere
    <2>4. resp # NewCall(p)
        BY <2>1, <2>3 DEF RunAt
    <2>5. m \in Message /\ m.seq # m.resp
        BY <1>1, <2>m, <2>3, <2>4, MsgTypes DEF Msg
    <2> QED
        BY <1>1, <1>2, <2>2, <2>5
<1>6. ASSUME NEW p \in Pod, HandlerStep(p) PROVE ProperMail'
    <2>1. ASSUME NEW u \in Uid, Post(p, u) PROVE ProperMail'
        BY <1>1, <1>3, <2>1 DEF Post, PostMessage
    <2>2. ASSUME NEW c \in Call, Answer(p, c) PROVE ProperMail'
        BY <1>1, <1>3, <2>2 DEF Answer, PostMessage
    <2>3. CASE Wait(p) \/ CreateWaitToken(p) \/ Deactivate(p) \/ Return(p)
        BY <1>1, <2>3 DEF Wait, CreateWaitToken, Deactivate, Return, ProperMail
    <2> QED
        BY <1>5, <1>6, <2>1, <2>2, <2>3 DEF HandlerStep
<1>7. ASSUME NEW p \in Pod, Activate(p) PROVE ProperMail'
    <2>m. PICK m : m = Msg("AM", None, None, None)
        OBVIOUS
    <2>1. m \in Proper
        BY <2>m, MsgTypes DEF Msg, Proper
    <2>2. mailbox' = [mailbox EXCEPT ![p] = <<m>>]
        BY <1>7, <2>m DEF Activate
    <2> QED
        BY <1>1, <2>1, <2>2 DEF ProperMail
<1>8. ASSUME NEW p \in Pod, Handle(p) PROVE ProperMail'
    BY <1>4, <1>8 DEF Handle, ProperMail
<1>9. ASSUME NEW p \in Pod, Bounce(p) PROVE ProperMail'
    <2>b. PICK box : box = [mailbox EXCEPT ![p] = Tail(@)]
        OBVIOUS
    <2>m. PICK m : m = Head(mailbox[p])
        OBVIOUS
    <2>1. mailbox[p] # <<>> /\ mailbox' = IF m.from # None THEN After(box, m.from, Msg("BADACTORPOD", None, None, m.seq)) ELSE box
        BY <1>9, <2>b, <2>m DEF Bounce, IsReturnable
    <2>2. box \in [Pod -> Seq(Proper)]
        BY <1>4, <2>b, <2>1
    <2>3. m.seq \in Call \cup {None}
        BY <2>m, <2>1, HeadOf
    <2>4. CASE m.from # None
        BY <1>3, <2>1, <2>2, <2>3, <2>4
    <2> QED
        BY <2>1, <2>2, <2>4 DEF ProperMail
<1>10. ASSUME NEW c \in Call, TimerAnswers(c) PROVE ProperMail'
    BY <1>1, <1>3, <1>10 DEF TimerAnswers, PostMessage
<1>11. ASSUME NEW p \in Pod, Destroy(p) \/ Erase(p) PROVE ProperMail'
    BY <1>1, <1>11 DEF Destroy, Erase, ProperMail
<1> QED
    BY <1>6, <1>7, <1>8, <1>9, <1>10, <1>11 DEF Next, PoolStep

\* An answer that nobody waits for is one to an earlier actor of the UID.
LEMMA StrayStep ==
    ASSUME Before, Next
    PROVE  StrayOnlyAfterReuse'
<1> SUFFICES ASSUME NEW p \in Pod, thrown' = <<p, "no continuation">>
             PROVE  \E q \in Pod \ {p} : UidOf[q] = UidOf[p] /\ phase'[q] = "gone"
    BY DEF StrayOnlyAfterReuse
<1>1. thrown' # thrown
    <2>1. <<p, "no continuation">> \in Pod \X {"no continuation", "unexpected message"}
        OBVIOUS
    <2> QED
        BY <2>1, ThrownAssumption DEF Before
<1>2. PICK r \in Pod : Handle(r)
    <2>1. ASSUME NEW r \in Pod, HandlerStep(r) PROVE UNCHANGED thrown
        BY <2>1 DEF HandlerStep, Post, Send, Answer, Wait, CreateWaitToken, Deactivate, Return
    <2>2. ASSUME NEW r \in Pod, PoolStep(r) PROVE Handle(r) \/ UNCHANGED thrown
        BY <2>2 DEF PoolStep, Activate, Destroy, Bounce, Erase
    <2>3. \A c \in Call : TimerAnswers(c) => UNCHANGED thrown
        BY DEF TimerAnswers
    <2> QED
        BY <1>1, <2>1, <2>2, <2>3 DEF Next
<1>m. PICK m : m = Head(mailbox[r])
    OBVIOUS
<1>3. /\ r = p /\ m.resp # None /\ Continuation(p, m) = {}
      /\ mailbox[p] # <<>> /\ phase[p] = "live" /\ UNCHANGED phase
      /\ mailbox' = [mailbox EXCEPT ![p] = Tail(@)]
    BY <1>m, <1>1, <1>2 DEF Handle, Run, Throw
<1>e. PICK e : e = m.resp
    OBVIOUS
<1>4. e \in Call /\ UidOf[e[1]] = UidOf[p] /\ Number(e) = e[2] /\ e[1] \in Pod
    <2>1. e \in Call /\ UidOf[e[1]] = UidOf[p]
        BY <1>e, <1>m, <1>3, HeadOf
    <2> QED
        BY <2>1, CallsAreCalls DEF Number
<1>5. CallOK(e) /\ mailbox \in [Pod -> Seq(Message)] /\ OneBorn /\ phase \in [Pod -> Born \cup {"unborn", "gone"}]
    BY <1>4, Facts DEF Before, TypeOK, Born
<1>6. At(mailbox, e) # {}
    <2>1. Takes(mailbox, p, m, mailbox')
        BY <1>m, <1>3 DEF Takes
    <2>2. Single(At(mailbox, e)) /\ e \in {m.seq, m.resp}
        BY <1>5, <1>e DEF CallOK, Good
    <2>3. mailbox[p] # <<>> /\ mailbox \in [Pod -> Seq(Message)] /\ e \in Call
        BY <1>3, <1>4, <1>5
    <2> QED
        BY <2>1, <2>2, <2>3, TailAt
<1>7. e[1] # p
    <2>1. SUFFICES ASSUME e[1] = p PROVE FALSE
        OBVIOUS
    <2>2. Waits(phase, respondCB, e)
        BY <1>3, <1>5, <1>6, <2>1 DEF CallOK, Good
    <2>3. PICK k \in respondCB[p] : k.seqID = e[2]
        BY <2>1, <2>2 DEF Waits
    <2>4. k \in Continuation(p, m)
        BY <1>e, <1>4, <2>3 DEF Continuation
    <2> QED
        BY <1>3, <2>4
<1>8. phase[e[1]] = "gone"
    <2>1. phase[e[1]] # "unborn"
        BY <1>5, <1>6 DEF CallOK, Good, Made
    <2>2. phase[e[1]] \notin Born
        BY <1>3, <1>4, <1>5, <1>7 DEF OneBorn, Born
    <2> QED
        BY <1>4, <1>5, <2>1, <2>2
<1> QED
    BY <1>3, <1>4, <1>7, <1>8

-----------------------------------------------------------------------------
(* The theorems.                                                            *)

LEMMA InitOnce == Init => OnceInv /\ StrayOnlyAfterReuse
<1> SUFFICES ASSUME Init PROVE OnceInv /\ StrayOnlyAfterReuse
    OBVIOUS
<1>1. OneBorn /\ Quiet
    BY DEF Init, OneBorn, Quiet, Born
<1>2. ProperMail
    BY DEF Init, ProperMail
<1>3. ASSUME NEW c \in Call PROVE CallOK(c)
    <2>1. At(mailbox, c) = {} /\ RunAt(owes, c) = {} /\ Sus(respondCB, c) = {}
        BY DEF Init, At, RunAt, Sus
    <2>2. c \notin timers /\ c \notin abandoned /\ phase[c[1]] # "live"
        BY CallsAreCalls DEF Init
    <2> QED
        BY <2>1, <2>2 DEF CallOK, Good, OneOf, Single
<1>4. StrayOnlyAfterReuse
    <2>1. \A p \in Pod : <<p, "no continuation">> \in Pod \X {"no continuation", "unexpected message"}
        OBVIOUS
    <2> QED
        BY <2>1, ThrownAssumption DEF Init, StrayOnlyAfterReuse
<1> QED
    BY <1>1, <1>2, <1>3, <1>4 DEF OnceInv

LEMMA NextOnce ==
    ASSUME UniqueIDs \/ NoReuse, TypeOK, Inv, OnceInv, StrayOnlyAfterReuse, [Next]_vars
    PROVE  OnceInv' /\ StrayOnlyAfterReuse'
<1>1. CASE UNCHANGED vars
    <2>1. UNCHANGED <<phase, respondCB, running, owes, mailbox, nextSeqID, timers, thrown, abandoned>>
        BY <1>1 DEF vars, podVars
    <2>2. \A c \in Call : CallOK(c)' <=> CallOK(c)
        BY <2>1 DEF CallOK
    <2> QED
        BY <2>1, <2>2 DEF OnceInv, OneBorn, Quiet, ProperMail, StrayOnlyAfterReuse
<1>2. CASE Next
    <2>1. thrown = None
        BY <1>2 DEF Next, HandlerStep, Handling, Post, Send, Answer, Wait, CreateWaitToken, Deactivate, Return,
                    PoolStep, Activate, Handle, Destroy, Bounce, Erase, TimerAnswers
    <2>2. Before
        BY <2>1 DEF Before
    <2>3. OneBorn' /\ Quiet' /\ ProperMail' /\ StrayOnlyAfterReuse'
        BY <1>2, <2>2, LivesKept, ProperKept, StrayStep
    <2>4. ASSUME thrown' = None, NEW e \in Call PROVE CallOK(e)'
        <3>1. ASSUME NEW p \in Pod, HandlerStep(p) PROVE CallOK(e)'
            BY <2>2, <3>1, PostCall, SendCall, AnswerCall, WaitCall, CreateWaitTokenCall, DeactivateCall, ReturnCall
               DEF HandlerStep
        <3>2. ASSUME NEW p \in Pod, PoolStep(p) PROVE CallOK(e)'
            BY <2>2, <2>4, <3>2, ActivateCall, HandleCall, DestroyCall, BounceCall, EraseCall DEF PoolStep
        <3>3. ASSUME NEW c \in Call, TimerAnswers(c) PROVE CallOK(e)'
            BY <2>2, <3>3, TimerCall
        <3> QED
            BY <1>2, <3>1, <3>2, <3>3 DEF Next
    <2> QED
        BY <2>3, <2>4 DEF OnceInv
<1> QED
    BY <1>1, <1>2

LEMMA OnceInvariance ==
    ASSUME UniqueIDs \/ NoReuse
    PROVE  Spec => [](OnceInv /\ StrayOnlyAfterReuse)
<1>1. TypeOK /\ Inv /\ OnceInv /\ StrayOnlyAfterReuse /\ [Next]_vars => (OnceInv /\ StrayOnlyAfterReuse)'
    BY NextOnce
<1> QED
    BY <1>1, InitOnce, Invariance, TypeIsCorrect, PTL DEF Spec

LEMMA SizeOfSingle ==
    ASSUME NEW S, Single(S)
    PROVE  Cardinality(S) = IF S = {} THEN 0 ELSE 1
<1>1. CASE S = {}
    BY <1>1, FS_EmptySet
<1>2. ASSUME NEW x \in S PROVE Cardinality(S) = 1
    <2>1. S = {x}
        BY <1>2 DEF Single
    <2> QED
        BY <2>1, FS_Singleton
<1> QED
    BY <1>1, <1>2

LEMMA PlacesOfCall ==
    ASSUME NEW c \in Call, CallOK(c), phase[c[1]] = "live"
    PROVE  Places(c) = IF Pending(c) THEN 1 ELSE 0
<1>1. Queued(c) = At(mailbox, c) /\ Running(c) = RunAt(owes, c) /\ Suspended(c) = Sus(respondCB, c)
    BY DEF Queued, Running, Suspended, At, RunAt, Sus
<1>2. Pending(c) <=> Waits(phase, respondCB, c)
    BY DEF Pending, Waits
<1>3. Single({c} \cap timers) /\ Single({c} \cap abandoned)
    BY DEF Single
<1>4. /\ Cardinality(Queued(c)) = IF At(mailbox, c) = {} THEN 0 ELSE 1
      /\ Cardinality(Running(c)) = IF RunAt(owes, c) = {} THEN 0 ELSE 1
      /\ Cardinality(Suspended(c)) = IF Sus(respondCB, c) = {} THEN 0 ELSE 1
      /\ Cardinality({c} \cap timers) = IF c \in timers THEN 1 ELSE 0
      /\ Cardinality({c} \cap abandoned) = IF c \in abandoned THEN 1 ELSE 0
    BY <1>1, <1>3, SizeOfSingle DEF CallOK, Good
<1> QED
    BY <1>2, <1>4 DEF Places, CallOK, Good, OneOf

\* For any number of actors and calls, with numbers that are unique in the server
\* or UIDs that are used once: a call that a living actor waits for is in exactly
\* one place, and one that is answered in none, so that no call is lost and none
\* is answered twice (actorpod.cpp:66-130, actorpool.cpp:621-636).
THEOREM OnePlacePerCall == (UniqueIDs \/ NoReuse) => (Spec => []OneAnswer)
<1> SUFFICES ASSUME UniqueIDs \/ NoReuse PROVE Spec => []OneAnswer
    OBVIOUS
<1>1. OnceInv => OneAnswer
    BY PlacesOfCall DEF OnceInv, OneAnswer
<1> QED
    BY <1>1, OnceInvariance, PTL

\* Under the same condition the worker throws for want of a coroutine only when
\* the answer is one to an earlier actor of the UID (actorpod.cpp:105).
THEOREM StrayIsLate == (UniqueIDs \/ NoReuse) => (Spec => []StrayOnlyAfterReuse)
<1> SUFFICES ASSUME UniqueIDs \/ NoReuse PROVE Spec => []StrayOnlyAfterReuse
    OBVIOUS
<1> QED
    BY OnceInvariance, PTL
=============================================================================
