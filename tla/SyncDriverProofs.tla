--------------------------- MODULE SyncDriverProofs ---------------------------
(***************************************************************************)
(* Synchronous calls, for any number of drivers and of calls.  A receiver  *)
(* that is being answered is on the list, and what is on the list is not   *)
(* destroyed.  As long as no call of a driver has timed out, all that is   *)
(* on its way to the driver is the answer to its current call: a pending   *)
(* request, the request in the hands of the actor that answers, or the     *)
(* message list, and only one of the three.                                *)
(***************************************************************************)
EXTENDS SyncDriver, TLAPS

ListedIsAlive ==
    /\ attached \cap destroyed = {}
    /\ receiverLock # None => receiverLock[1] \in attached

\* A call of d is in progress, and its answer has not arrived.
Awaits(d, r) == pc[d] # "idle" /\ r = <<d, currID[d]>> /\ messageList[d] = <<>>

OneCall ==
    \A d \in Driver : ~timedOut[d] =>
        /\ \A r \in pending : r[1] = d => Awaits(d, r)
        /\ receiverLock # None /\ receiverLock[1] = d =>
              Awaits(d, receiverLock) /\ receiverLock \notin pending
        /\ \/ messageList[d] = <<>>
           \/ pc[d] # "idle" /\ messageList[d] = <<currID[d]>>

PopHasMessage == \A d \in Driver : pc[d] = "pop" => messageList[d] # <<>>

Inv == TypeOK /\ ListedIsAlive /\ OwnAnswer /\ OneCall /\ PopHasMessage /\ NoneOnlyAfterTimeout

-----------------------------------------------------------------------------
LEMMA IsRequest ==
    ASSUME NEW r \in Request
    PROVE  r[1] \in Driver /\ r[2] \in ID /\ r = <<r[1], r[2]>> /\ r # None
BY SyncAssumption DEF Request, ID

LEMMA NextIsID == ASSUME NEW n \in ID PROVE NextID(n) \in ID
BY SyncAssumption DEF ID, NextID

LEMMA Pushed ==
    ASSUME NEW s \in Seq(ID), NEW n \in ID
    PROVE  /\ Append(s, n) \in Seq(ID) /\ Append(s, n) # <<>>
           /\ s = <<>> => Append(s, n) = <<n>>
<1>1. Append(s, n) \in Seq(ID) /\ Len(Append(s, n)) = Len(s) + 1 /\ Len(s) \in Nat
    OBVIOUS
<1>2. Append(s, n) # <<>>
    BY <1>1
<1>3. Append(<<>>, n) = <<n>>
    OBVIOUS
<1> QED
    BY <1>1, <1>2, <1>3

LEMMA Found ==
    ASSUME NEW d \in Driver, messageList[d] = <<currID[d]>>
    PROVE  ReplyOf(d) = currID[d]
<1>1. Len(messageList[d]) = 1 /\ messageList[d][1] = currID[d]
    OBVIOUS
<1>2. Contains(messageList[d], currID[d])
    BY <1>1 DEF Contains
<1> QED
    BY <1>2 DEF ReplyOf

LEMMA InitInv == Init => Inv
BY SyncAssumption
   DEF Init, Inv, TypeOK, ListedIsAlive, OwnAnswer, OneCall, PopHasMessage,
       NoneOnlyAfterTimeout, ID

\* What the application thread of d does on its own data.
LEMMA ThreadStep ==
    ASSUME Inv, NEW d \in Driver,
           Forward(d) \/ EnterWait(d) \/ Wake(d) \/ TimeOut(d) \/ Pop(d)
    PROVE  TypeOK' /\ ListedIsAlive' /\ OwnAnswer' /\ PopHasMessage' /\ NoneOnlyAfterTimeout'
<1> USE SyncAssumption DEF Inv
<1>1. CASE Forward(d)
    <2>1. NextID(currID[d]) \in ID
        BY NextIsID DEF TypeOK
    <2>2. calls' \in [Driver -> 0..MaxForward] /\ currID' \in [Driver -> ID]
        BY <1>1, <2>1 DEF Forward, TypeOK
    <2>3. pending' \subseteq Request
        BY <1>1, <2>1 DEF Forward, TypeOK, Request
    <2>4. pc' \in [Driver -> {"idle", "posted", "sleep", "pop"}]
        BY <1>1 DEF Forward, TypeOK
    <2>5. result' \in [Driver -> ID \cup {0, None}]
        BY <1>1 DEF Forward, TypeOK
    <2>6. timed' \in [Driver -> BOOLEAN]
        BY <1>1, Zenon DEF Forward, TypeOK
    <2>7. TypeOK'
        BY <1>1, <2>2, <2>3, <2>4, <2>5, <2>6 DEF Forward, TypeOK
    <2> QED
        BY <1>1, <2>7 DEF Forward, TypeOK, ListedIsAlive, OwnAnswer, PopHasMessage,
                          NoneOnlyAfterTimeout
<1>2. CASE EnterWait(d) \/ Wake(d) \/ TimeOut(d)
    <2>1. Len(messageList[d]) \in Nat /\ (Len(messageList[d]) > 0 => messageList[d] # <<>>)
        BY DEF TypeOK
    <2>2. origLen[d] \in Nat
        BY DEF TypeOK
    <2>3. TypeOK'
        <3>1. CASE EnterWait(d)
            BY <3>1, <2>1 DEF EnterWait, receiverVars, TypeOK
        <3>2. CASE Wake(d)
            BY <3>2 DEF Wake, receiverVars, TypeOK
        <3>3. CASE TimeOut(d)
            <4>1. timedOut' \in [Driver -> BOOLEAN]
                BY <3>3, Zenon DEF TimeOut, TypeOK
            <4>2. /\ pc' \in [Driver -> {"idle", "posted", "sleep", "pop"}]
                  /\ result' \in [Driver -> ID \cup {0, None}]
                BY <3>3 DEF TimeOut, TypeOK
            <4> QED
                BY <3>3, <4>1, <4>2 DEF TimeOut, receiverVars, TypeOK
        <3> QED
            BY <1>2, <3>1, <3>2, <3>3
    <2>4. PopHasMessage'
        BY <1>2, <2>1, <2>2 DEF EnterWait, Wake, TimeOut, MoreMessages, receiverVars, TypeOK,
             PopHasMessage
    <2>5. ListedIsAlive' /\ OwnAnswer'
        <3>1. ListedIsAlive'
            BY <1>2 DEF EnterWait, Wake, TimeOut, receiverVars, ListedIsAlive
        <3>2. \A e \in Driver : /\ currID'[e] = currID[e]
                                /\ pc'[e] = "idle" => \/ pc[e] = "idle" /\ result'[e] = result[e]
                                                      \/ result'[e] = None
            BY <1>2 DEF EnterWait, Wake, TimeOut, TypeOK
        <3> QED
            BY <3>1, <3>2 DEF OwnAnswer
    <2>6. NoneOnlyAfterTimeout'
        <3>1. \A e \in Driver : timedOut[e] => timedOut'[e]
            BY <1>2 DEF EnterWait, Wake, TimeOut, TypeOK
        <3>2. TimeOut(d) => timedOut'[d]
            BY DEF TimeOut, TypeOK
        <3>3. \A e \in Driver \ {d} : pc'[e] = pc[e] /\ result'[e] = result[e]
            BY <1>2 DEF EnterWait, Wake, TimeOut, TypeOK
        <3>4. pc'[d] = "idle" => TimeOut(d)
            BY <1>2 DEF EnterWait, Wake, TypeOK
        <3> QED
            BY <3>1, <3>2, <3>3, <3>4 DEF NoneOnlyAfterTimeout
    <2> QED
        BY <2>3, <2>4, <2>5, <2>6
<1>3. CASE Pop(d)
    <2>1. ReplyOf(d) \in {currID[d], None} /\ currID[d] \in ID
        BY DEF ReplyOf, TypeOK
    <2>2. ~timedOut[d] => ReplyOf(d) = currID[d]
        BY <1>3, Found DEF Pop, OneCall, PopHasMessage
    <2>3. TypeOK'
        BY <1>3, <2>1 DEF Pop, TypeOK, ID
    <2>4. ListedIsAlive' /\ OwnAnswer' /\ PopHasMessage' /\ NoneOnlyAfterTimeout'
        BY <1>3, <2>1, <2>2 DEF Pop, TypeOK, ListedIsAlive, OwnAnswer, PopHasMessage,
             NoneOnlyAfterTimeout, ID
    <2> QED
        BY <2>3, <2>4
<1> QED
    BY <1>1, <1>2, <1>3

LEMMA ThreadOneCall ==
    ASSUME Inv, NEW d \in Driver,
           Forward(d) \/ EnterWait(d) \/ Wake(d) \/ TimeOut(d) \/ Pop(d)
    PROVE  OneCall'
<1> USE SyncAssumption DEF Inv
<1> SUFFICES ASSUME NEW e \in Driver, ~timedOut'[e]
             PROVE  /\ \A r \in pending' : r[1] = e => Awaits(e, r)'
                    /\ receiverLock' # None /\ receiverLock'[1] = e =>
                          Awaits(e, receiverLock)' /\ receiverLock' \notin pending'
                    /\ \/ messageList'[e] = <<>>
                       \/ pc'[e] # "idle" /\ messageList'[e] = <<currID'[e]>>
    BY DEF OneCall
<1>0. ~timedOut[e]
    BY DEF Forward, EnterWait, Wake, TimeOut, Pop, receiverVars, TypeOK
<1>1. CASE Forward(d)
    BY <1>0, <1>1 DEF Forward, OneCall, Awaits, TypeOK
<1>2. CASE EnterWait(d) \/ Wake(d) \/ TimeOut(d)
    BY <1>0, <1>2 DEF EnterWait, Wake, TimeOut, receiverVars, OneCall, Awaits, TypeOK
<1>3. CASE Pop(d)
    BY <1>0, <1>3 DEF Pop, OneCall, PopHasMessage, Awaits, TypeOK
<1> QED
    BY <1>1, <1>2, <1>3

LEMMA ActorStep ==
    ASSUME Inv, NEW r \in Request, AnswerLookup(r) \/ AnswerPush(r)
    PROVE  Inv'
<1> USE SyncAssumption DEF Inv
<1>0. r[1] \in Driver /\ r[2] \in ID /\ r = <<r[1], r[2]>> /\ r # None
    BY IsRequest
<1>1. CASE AnswerLookup(r)
    <2>1. TypeOK' /\ ListedIsAlive' /\ OwnAnswer' /\ PopHasMessage' /\ NoneOnlyAfterTimeout'
        BY <1>0, <1>1 DEF AnswerLookup, forwardVars, TypeOK, ListedIsAlive, OwnAnswer,
             PopHasMessage, NoneOnlyAfterTimeout
    <2>2. OneCall'
        BY <1>0, <1>1 DEF AnswerLookup, forwardVars, OneCall, Awaits, TypeOK
    <2> QED
        BY <2>1, <2>2
<1>2. CASE AnswerPush(r)
    <2>0. /\ messageList'[r[1]] = Append(messageList[r[1]], r[2])
          /\ messageList'[r[1]] # <<>>
          /\ messageList[r[1]] = <<>> => messageList'[r[1]] = <<r[2]>>
          /\ \A d \in Driver \ {r[1]} : messageList'[d] = messageList[d]
          /\ receiverLock = r /\ receiverLock' = None
        BY <1>0, <1>2, Pushed DEF AnswerPush, TypeOK
    <2>1. TypeOK' /\ ListedIsAlive' /\ OwnAnswer' /\ NoneOnlyAfterTimeout'
        BY <1>0, <1>2 DEF AnswerPush, forwardVars, TypeOK, ListedIsAlive, OwnAnswer,
             NoneOnlyAfterTimeout
    <2>2. PopHasMessage'
        BY <1>2, <2>0 DEF AnswerPush, forwardVars, PopHasMessage
    <2>3. OneCall'
        <3>1. ~timedOut[r[1]] => Awaits(r[1], r) /\ r \notin pending
            BY <1>0, <2>0 DEF OneCall
        <3>2. \A q \in pending : q[1] = r[1] /\ ~timedOut[r[1]] => q = r
            BY <1>0, <3>1 DEF OneCall, Awaits
        <3>3. ~timedOut[r[1]] => /\ messageList'[r[1]] = <<currID[r[1]]>> /\ pc[r[1]] # "idle"
                                 /\ \A q \in pending : q[1] # r[1]
            BY <1>0, <2>0, <3>1, <3>2 DEF Awaits
        <3> QED
            BY <1>0, <1>2, <2>0, <3>3 DEF AnswerPush, forwardVars, OneCall, Awaits
    <2> QED
        BY <2>1, <2>2, <2>3
<1> QED
    BY <1>1, <1>2

LEMMA DestructorStep ==
    ASSUME Inv, NEW d \in Driver, Detach(d) \/ Destroy(d)
    PROVE  Inv'
BY DEF Inv, Detach, Destroy, LockFree, forwardVars, TypeOK, ListedIsAlive, OwnAnswer,
       OneCall, Awaits, PopHasMessage, NoneOnlyAfterTimeout

LEMMA StutterStep ==
    ASSUME Inv, UNCHANGED vars
    PROVE  Inv'
BY DEF Inv, vars, receiverVars, forwardVars, TypeOK, ListedIsAlive, OwnAnswer,
       OneCall, Awaits, PopHasMessage, NoneOnlyAfterTimeout

\* Inv holds in every reachable state.
THEOREM Invariance == Spec => []Inv
<1>1. Inv /\ [Next]_vars => Inv'
    BY ThreadStep, ThreadOneCall, ActorStep, DestructorStep, StutterStep DEF Next, Inv
<1> QED
    BY InitInv, <1>1, PTL DEF Spec

\* An actor never pushes its answer into a destroyed receiver
\* (actorpool.cpp:350-361, receiver.cpp:15-18).
THEOREM ReceiverAlive == Spec => []NoDanglingReceiver
<1>1. Inv => NoDanglingReceiver
    BY DEF Inv, ListedIsAlive, NoDanglingReceiver
<1> QED
    BY <1>1, Invariance, PTL

\* forward() returns the answer to the call it made (syncdriver.cpp:44-60).
THEOREM RightResult == Spec => []OwnAnswer
<1>1. Inv => OwnAnswer
    BY DEF Inv
<1> QED
    BY <1>1, Invariance, PTL

\* forward() returns AM_NONE only if one of the driver's calls ran out of time.
THEOREM NoneMeansTimeout == Spec => []NoneOnlyAfterTimeout
<1>1. Inv => NoneOnlyAfterTimeout
    BY DEF Inv
<1> QED
    BY <1>1, Invariance, PTL
\* The state of the thread, the receivers and the requests stays in its types.
THEOREM TypeIsCorrect == Spec => []TypeOK
<1>1. Inv => TypeOK
    BY DEF Inv
<1> QED
    BY <1>1, Invariance, PTL

-----------------------------------------------------------------------------
(* An answer is dropped only at a receiver that is off the list, and a       *)
(* driver in the middle of a call is on it.                                  *)

ListedInCall == \A d \in Driver : pc[d] # "idle" => d \in attached

\* The answer to the current call of d is on its way or in the message list.
Kept(d) == \/ <<d, currID[d]>> \in pending \cup {receiverLock}
           \/ Contains(messageList[d], currID[d])

LEMMA Keeps ==
    ASSUME NEW s \in Seq(ID), NEW n \in ID
    PROVE  /\ Contains(Append(s, n), n)
           /\ \A i \in ID : Contains(s, i) => Contains(Append(s, n), i)
<1>1. Len(Append(s, n)) = Len(s) + 1 /\ Len(s) \in Nat
    OBVIOUS
<1>2. Append(s, n)[Len(s) + 1] = n /\ \A k \in 1..Len(s) : Append(s, n)[k] = s[k]
    OBVIOUS
<1> QED
    BY <1>1, <1>2 DEF Contains

LEMMA KeptStep ==
    ASSUME TypeOK, ListedInCall, AnswerKept, [Next]_vars
    PROVE  ListedInCall' /\ AnswerKept'
<1>0. \A d \in Driver : pc[d] # "idle" => Kept(d)
    BY DEF AnswerKept, Kept, TypeOK
<1> SUFFICES ListedInCall' /\ \A d \in Driver : pc'[d] # "idle" => Kept(d)'
    BY DEF AnswerKept, Kept
<1>1. ASSUME NEW d \in Driver, Forward(d)
      PROVE  ListedInCall' /\ \A e \in Driver : pc'[e] # "idle" => Kept(e)'
    BY <1>0, <1>1 DEF Forward, TypeOK, ListedInCall, Kept
<1>2. ASSUME NEW d \in Driver, EnterWait(d) \/ Wake(d) \/ TimeOut(d)
      PROVE  ListedInCall' /\ \A e \in Driver : pc'[e] # "idle" => Kept(e)'
    BY <1>0, <1>2 DEF EnterWait, Wake, TimeOut, receiverVars, TypeOK, ListedInCall, Kept
<1>3. ASSUME NEW d \in Driver, Pop(d)
      PROVE  ListedInCall' /\ \A e \in Driver : pc'[e] # "idle" => Kept(e)'
    BY <1>0, <1>3 DEF Pop, TypeOK, ListedInCall, Kept
<1>4. ASSUME NEW d \in Driver, Detach(d) \/ Destroy(d)
      PROVE  ListedInCall' /\ \A e \in Driver : pc'[e] # "idle" => Kept(e)'
    BY <1>0, <1>4 DEF Detach, Destroy, forwardVars, TypeOK, ListedInCall, Kept
<1>5. ASSUME NEW r \in Request, AnswerLookup(r)
      PROVE  ListedInCall' /\ \A e \in Driver : pc'[e] # "idle" => Kept(e)'
    <2>1. r = <<r[1], r[2]>> /\ r # None
        BY IsRequest
    <2>2. ASSUME NEW e \in Driver, pc[e] # "idle"  PROVE Kept(e)'
        <3>1. <<e, currID[e]>> # None
            BY <2>2, SyncAssumption DEF TypeOK, ID
        <3>2. e \in attached
            BY <2>2 DEF ListedInCall
        <3> QED
            BY <1>0, <1>5, <2>1, <2>2, <3>1, <3>2 DEF AnswerLookup, forwardVars, Kept
    <2> QED
        BY <1>5, <2>2 DEF AnswerLookup, forwardVars, ListedInCall
<1>6. ASSUME NEW r \in Request, AnswerPush(r)
      PROVE  ListedInCall' /\ \A e \in Driver : pc'[e] # "idle" => Kept(e)'
    <2>1. r[1] \in Driver /\ r[2] \in ID /\ r = <<r[1], r[2]>>
        BY IsRequest
    <2>2. ASSUME NEW e \in Driver, pc[e] # "idle"  PROVE Kept(e)'
        <3>1. messageList[e] \in Seq(ID) /\ currID[e] \in ID
            BY DEF TypeOK
        <3>2. CASE e = r[1]
            <4>1. messageList'[e] = Append(messageList[e], r[2])
                BY <1>6, <2>1, <3>2 DEF AnswerPush, TypeOK
            <4>2. CASE currID[e] = r[2]
                BY <1>6, <2>1, <3>1, <4>1, <4>2, Keeps DEF AnswerPush, forwardVars, Kept
            <4>3. CASE currID[e] # r[2]
                BY <1>0, <1>6, <2>1, <2>2, <3>1, <4>1, <4>3, Keeps
                   DEF AnswerPush, forwardVars, Kept
            <4> QED
                BY <4>2, <4>3
        <3>3. CASE e # r[1]
            <4>1. messageList'[e] = messageList[e] /\ <<e, currID[e]>> # r
                BY <1>6, <2>1, <3>3 DEF AnswerPush, TypeOK
            <4> QED
                BY <1>0, <1>6, <2>2, <4>1 DEF AnswerPush, forwardVars, Kept
        <3> QED
            BY <3>2, <3>3
    <2> QED
        BY <1>6, <2>2 DEF AnswerPush, forwardVars, ListedInCall
<1>7. CASE UNCHANGED vars
    BY <1>0, <1>7 DEF vars, receiverVars, forwardVars, ListedInCall, Kept
<1> QED
    BY <1>1, <1>2, <1>3, <1>4, <1>5, <1>6, <1>7 DEF Next

\* No call loses its answer before it returns, however actors and threads
\* interleave (receiver.cpp:20-57, actorpool.cpp:350-361).
THEOREM AnswerNotLost == Spec => []AnswerKept
<1>1. Init => ListedInCall /\ AnswerKept
    BY DEF Init, ListedInCall, AnswerKept
<1>2. TypeOK /\ ListedInCall /\ AnswerKept /\ [Next]_vars => ListedInCall' /\ AnswerKept'
    BY KeptStep
<1> QED
    BY <1>1, <1>2, TypeIsCorrect, PTL DEF Spec
=============================================================================
