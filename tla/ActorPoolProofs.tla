--------------------------- MODULE ActorPoolProofs ---------------------------
(***************************************************************************)
(* Proofs about ActorPool for every number of workers, application         *)
(* threads, actors and messages: first what holds for any options of the   *)
(* pool, then what needs the pool to be Settled: actors run on their own    *)
(* worker only, or none deactivates itself in a handler.                    *)
(***************************************************************************)
EXTENDS ActorPool, SequenceTheorems, FiniteSetTheorems, TLAPS

(* Where a thread works on a mailbox.                                       *)
OnMailbox == {"grab", "run", "handler", "unlock", "exit", "clear", "bounce",
              "erase", "spin", "detaching", "detached"}

(* The registers of a thread hold what its place in the code says they do.  *)
Registers ==
    \A t \in Thread :
       /\ pc[t] \in {"push", "notify"} => tgt[t] \in Mailbox /\ out[t] \in Msg
       /\ At(t) \in OnMailbox => cur[t] \in Mailbox

TypeInv == TypeOK /\ Registers

(* A mailbox is found under its own UID, and is one of the listed.          *)
LEMMA FindIsMailbox ==
    ASSUME NEW u, NEW m \in Find(u)
    PROVE  m \in Mailbox /\ phase[m] = "listed" /\ UidOf[m] = u
  BY DEF Find

LEMMA UidOfMailbox == \A m \in Mailbox : UidOf[m] \in UID
  BY DEF UID

(* What became of a message only ever grows by outcomes.                    *)
LEMMA OutcomeType ==
    ASSUME TypeOK, NEW msg \in Msg,
           NEW what \in {"handled", "bounced", "dropped", "refused"}
    PROVE  Outcome(msg, what) \in [MsgId -> SUBSET {"handled", "bounced", "dropped", "refused"}]
  BY DEF Outcome, TypeOK

(* The queues stay queues of messages under what the scheduler does to them. *)
LEMMA QueueFacts ==
    /\ <<>> \in Seq(Msg)
    /\ \A e \in Msg : <<e>> \in Seq(Msg)
    /\ \A q \in Seq(Msg), e \in Msg : Append(q, e) \in Seq(Msg)
    /\ \A q, r \in Seq(Msg) : q \o r \in Seq(Msg)
    /\ \A q \in Seq(Msg), k \in Nat : SubSeq(q, k + 1, Len(q)) \in Seq(Msg)
    /\ \A q \in Seq(Msg), k \in Nat :
          /\ Len(q) \in Nat
          /\ k < Len(q) => q[k + 1] \in Msg
  OBVIOUS

LEMMA MessageType ==
    /\ Activate \in Msg
    /\ \A i \in MsgId \cup {None} : BadPod(i) \in Msg
    /\ \A i \in MsgId, from \in UID \cup {None} :
          [kind |-> "msg", id |-> i, from |-> from] \in Msg
    /\ \A msg \in Msg : msg.from # None => msg.from \in UID
    /\ \A msg \in Msg : msg.id \in MsgId \cup {None}
  BY DEF Activate, BadPod, Msg

LEMMA InitType == Init => TypeInv
  <1> SUFFICES ASSUME Init PROVE TypeInv
    OBVIOUS
  <1>1. TypeOK
    BY DEF Init, TypeOK, PC, Thread
  <1>2. Registers
    BY DEF Init, Registers, At, OnMailbox
  <1> QED BY <1>1, <1>2 DEF TypeInv

LEMMA AttachType ==
    ASSUME TypeInv, NEW t \in Thread, NEW m \in Mailbox, Attach(t, m)
    PROVE  TypeInv'
  <1>1. nextQ' \in [Mailbox -> Seq(Msg)]
    BY QueueFacts, MessageType DEF Attach, TypeInv, TypeOK
  <1>2. uidQPending' \in [Worker -> SUBSET UID]
    BY UidOfMailbox DEF Attach, TypeInv, TypeOK
  <1>3. TypeOK'
    BY <1>1, <1>2 DEF Attach, TypeInv, TypeOK, postVars, history
  <1>4. Registers'
    BY DEF Attach, TypeInv, TypeOK, Registers, At, OnMailbox, Thread, postVars, history
  <1> QED BY <1>3, <1>4 DEF TypeInv

LEMMA PostPushType ==
    ASSUME TypeInv, NEW t \in Thread, PostPush(t)
    PROVE  TypeInv'
  <1>0. tgt[t] \in Mailbox /\ out[t] \in Msg /\ back[t] \in {"idle", "handler", "bounce"}
    BY DEF PostPush, PushRefused, TypeInv, TypeOK, Registers
  <1>1. nextQ' \in [Mailbox -> Seq(Msg)]
    <2>1. nextQ \in [Mailbox -> Seq(Msg)]
      BY DEF TypeInv, TypeOK
    <2>2. CASE UNCHANGED nextQ
      BY <2>1, <2>2
    <2>3. CASE nextQ' = [nextQ EXCEPT ![tgt[t]] = Append(@, out[t])]
      <3>1. Append(nextQ[tgt[t]], out[t]) \in Seq(Msg)
        BY <1>0, <2>1, QueueFacts
      <3> QED BY <2>1, <2>3, <3>1
    <2> QED BY <2>2, <2>3 DEF PostPush, PushRefused
  <1>2. fate' \in [MsgId -> SUBSET {"handled", "bounced", "dropped", "refused"}]
    BY <1>0, OutcomeType DEF PostPush, PushRefused, TypeInv, TypeOK
  <1>3. pc' \in [Thread -> PC]
    <2>1. pc' = [pc EXCEPT ![t] = back[t]] \/ pc' = [pc EXCEPT ![t] = "notify"]
      BY DEF PostPush, PushRefused, PostReturn
    <2>2. pc \in [Thread -> PC] /\ back[t] \in PC /\ "notify" \in PC
      BY <1>0 DEF PC, TypeInv, TypeOK
    <2> QED BY <2>1, <2>2
  <1>4. TypeOK'
    BY <1>1, <1>2, <1>3 DEF PostPush, PushRefused, PostReturn, TypeInv, TypeOK, bucketVars, postVars, workerVars
  <1>5. Registers'
    <2> SUFFICES ASSUME NEW r \in Thread
                 PROVE  /\ pc'[r] \in {"push", "notify"} => tgt'[r] \in Mailbox /\ out'[r] \in Msg
                        /\ At(r)' \in OnMailbox => cur'[r] \in Mailbox
      BY DEF Registers
    <2>1. CASE r # t
      BY <2>1 DEF PostPush, PushRefused, PostReturn, TypeInv, TypeOK, Registers, At, OnMailbox, Thread, postVars
    <2>2. CASE r = t
      BY <1>0, <2>2 DEF PostPush, PushRefused, PostReturn, TypeInv, TypeOK, Registers, At, OnMailbox, Thread, postVars
    <2> QED BY <2>1, <2>2
  <1> QED BY <1>4, <1>5 DEF TypeInv

LEMMA PostNotifyType ==
    ASSUME TypeInv, NEW t \in Thread, PostNotify(t)
    PROVE  TypeInv'
  <1>0. tgt[t] \in Mailbox /\ back[t] \in {"idle", "handler", "bounce"}
    BY DEF PostNotify, TypeInv, TypeOK, Registers
  <1>1. uidQPending' \in [Worker -> SUBSET UID]
    <2>1. UidOf[tgt[t]] \in UID
      BY <1>0, UidOfMailbox
    <2>2. \E b : uidQPending' = [uidQPending EXCEPT ![b] = @ \cup {UidOf[tgt[t]]}]
      BY DEF PostNotify
    <2>3. uidQPending \in [Worker -> SUBSET UID]
      BY DEF TypeInv, TypeOK
    <2> QED BY <2>1, <2>2, <2>3
  <1>2. pc' \in [Thread -> PC]
    BY <1>0 DEF PostNotify, PostReturn, PC, TypeInv, TypeOK
  <1>3. TypeOK'
    BY <1>1, <1>2 DEF PostNotify, PostReturn, TypeInv, TypeOK, mailboxVars, workerVars, history
  <1>4. Registers'
    BY <1>0 DEF PostNotify, PostReturn, TypeInv, TypeOK, Registers, At, OnMailbox, Thread, mailboxVars, workerVars, history
  <1> QED BY <1>3, <1>4 DEF TypeInv

(* The lookup of a post leaves the registers of the thread well typed.      *)
LEMMA LookupType ==
    ASSUME TypeInv, NEW t \in Thread, NEW u, NEW msg \in Msg,
           NEW r \in {"idle", "handler", "bounce"}, pc[t] = r,
           PostLookup(t, u, msg, r), UNCHANGED cur
    PROVE  /\ pc' \in [Thread -> PC]
           /\ tgt' \in [Thread -> Mailbox \cup {None}]
           /\ out' \in [Thread -> Msg \cup {None}]
           /\ back' \in [Thread -> {"idle", "handler", "bounce"}]
           /\ Registers'
  <1>1. CASE Find(u) = {}
    BY <1>1 DEF PostLookup, postVars, PC, TypeInv, TypeOK, Registers, At, OnMailbox, Thread
  <1>2. CASE Find(u) # {}
    <2>1. PICK m \in Find(u) :
             /\ tgt' = [tgt EXCEPT ![t] = m]
             /\ out' = [out EXCEPT ![t] = msg]
             /\ back' = [back EXCEPT ![t] = r]
             /\ pc' = [pc EXCEPT ![t] = "push"]
      BY <1>2 DEF PostLookup
    <2>2. m \in Mailbox
      BY FindIsMailbox
    <2> QED BY <2>1, <2>2 DEF PC, TypeInv, TypeOK, Registers, At, OnMailbox, Thread
  <1> QED BY <1>1, <1>2

LEMMA SendType ==
    ASSUME TypeInv, NEW t \in Thread, NEW u \in UID, NEW i \in MsgId,
           NEW from \in UID \cup {None}, NEW r \in {"idle", "handler"}, pc[t] = r, Send(t, u, i, from, r)
    PROVE  TypeInv'
  <1> DEFINE msg == [kind |-> "msg", id |-> i, from |-> from]
  <1>1. msg \in Msg
    BY MessageType
  <1>2. PostLookup(t, u, msg, r) /\ UNCHANGED cur
    BY DEF Send
  <1>3. fate' \in [MsgId -> SUBSET {"handled", "bounced", "dropped", "refused"}]
    <2> HIDE DEF msg
    <2> QED BY <1>1, OutcomeType DEF Send, Refused, TypeInv, TypeOK, msg
  <1>4. /\ pc' \in [Thread -> PC]
        /\ tgt' \in [Thread -> Mailbox \cup {None}]
        /\ out' \in [Thread -> Msg \cup {None}]
        /\ back' \in [Thread -> {"idle", "handler", "bounce"}]
        /\ Registers'
    <2> HIDE DEF msg
    <2> QED BY <1>1, <1>2, LookupType
  <1>5. TypeOK'
    BY <1>3, <1>4 DEF Send, TypeInv, TypeOK, mailboxVars, bucketVars, workerVars
  <1> QED BY <1>4, <1>5 DEF TypeInv

LEMMA PopOwnType ==
    ASSUME TypeInv, NEW w \in Worker, PopOwn(w)
    PROVE  TypeInv'
  <1>1. TypeOK'
    BY DEF TypeInv, TypeOK, Registers, At, OnMailbox, PC, Thread, PopOwn, Idle, mailboxVars, bucketVars, postVars, workerVars, history
  <1>2. Registers'
    BY DEF TypeInv, TypeOK, Registers, At, OnMailbox, PC, Thread, PopOwn, Idle, mailboxVars, bucketVars, postVars, workerVars, history
  <1> QED BY <1>1, <1>2 DEF TypeInv

LEMMA StealType ==
    ASSUME TypeInv, NEW w \in Worker, NEW v \in Worker, Steal(w, v)
    PROVE  TypeInv'
  <1>1. TypeOK'
    BY DEF TypeInv, TypeOK, Registers, At, OnMailbox, PC, Thread, Steal, Idle, mailboxVars, bucketVars, postVars, workerVars, history
  <1>2. Registers'
    BY DEF TypeInv, TypeOK, Registers, At, OnMailbox, PC, Thread, Steal, Idle, mailboxVars, bucketVars, postVars, workerVars, history
  <1> QED BY <1>1, <1>2 DEF TypeInv

LEMMA PickUIDType ==
    ASSUME TypeInv, NEW w \in Worker, NEW u \in UID, PickUID(w, u)
    PROVE  TypeInv'
  <1>1. CASE Find(u) = {}
    BY <1>1 DEF PickUID, TypeInv, TypeOK, Registers, At, OnMailbox, Thread, mailboxVars, bucketVars, postVars, history
  <1>2. CASE Find(u) # {}
    <2>1. PICK m \in Find(u) : /\ cur' = [cur EXCEPT ![w] = m]
                                /\ pc' = [pc EXCEPT ![w] = "grab"]
      BY <1>2 DEF PickUID
    <2>2. m \in Mailbox
      BY FindIsMailbox
    <2>3. TypeOK'
      BY <2>1, <2>2 DEF PickUID, TypeInv, TypeOK, PC, Thread, mailboxVars, bucketVars, postVars, history
    <2>4. Registers'
      BY <2>1, <2>2 DEF PickUID, TypeInv, TypeOK, Registers, At, OnMailbox, Thread, mailboxVars, bucketVars, postVars, history
    <2> QED BY <2>3, <2>4 DEF TypeInv
  <1> QED BY <1>1, <1>2

LEMMA BeginScanType ==
    ASSUME TypeInv, NEW w \in Worker, BeginScan(w)
    PROVE  TypeInv'
  <1>1. TypeOK'
    BY DEF TypeInv, TypeOK, Registers, At, OnMailbox, PC, Thread, BeginScan, RefreshCache, Idle, Listed, mailboxVars, bucketVars, postVars, workerVars, history
  <1>2. Registers'
    BY DEF TypeInv, TypeOK, Registers, At, OnMailbox, PC, Thread, BeginScan, RefreshCache, Idle, Listed, mailboxVars, bucketVars, postVars, workerVars, history
  <1> QED BY <1>1, <1>2 DEF TypeInv

LEMMA VisitNextType ==
    ASSUME TypeInv, NEW w \in Worker, NEW m \in Mailbox, VisitNext(w, m)
    PROVE  TypeInv'
  <1>1. TypeOK'
    BY DEF TypeInv, TypeOK, Registers, At, OnMailbox, PC, Thread, VisitNext, mailboxVars, bucketVars, postVars, workerVars, history
  <1>2. Registers'
    BY DEF TypeInv, TypeOK, Registers, At, OnMailbox, PC, Thread, VisitNext, mailboxVars, bucketVars, postVars, workerVars, history
  <1> QED BY <1>1, <1>2 DEF TypeInv

LEMMA EndScanType ==
    ASSUME TypeInv, NEW w \in Worker, EndScan(w)
    PROVE  TypeInv'
  <1>1. TypeOK'
    BY DEF TypeInv, TypeOK, Registers, At, OnMailbox, PC, Thread, EndScan, ClearCache, mailboxVars, bucketVars, postVars, workerVars, history
  <1>2. Registers'
    BY DEF TypeInv, TypeOK, Registers, At, OnMailbox, PC, Thread, EndScan, ClearCache, mailboxVars, bucketVars, postVars, workerVars, history
  <1> QED BY <1>1, <1>2 DEF TypeInv

LEMMA GrabType ==
    ASSUME TypeInv, NEW w \in Worker, Grab(w)
    PROVE  TypeInv'
  <1>1. schedLock' \in [Mailbox -> Worker \cup {READY, DETACHED, ACCESS_PUB}]
    BY DEF Grab, LockFree, Acquire, LockId, TypeInv, TypeOK
  <1>2. /\ pc' \in [Thread -> PC]
        /\ cur' \in [Thread -> Mailbox \cup {None}]
    BY DEF Grab, LockFree, Resume, PC, TypeInv, TypeOK
  <1>3. TypeOK'
    BY <1>1, <1>2 DEF Grab, LockFree, TypeInv, TypeOK, bucketVars, postVars, workerVars, history
  <1>4. Registers'
    BY DEF Grab, LockFree, Resume, TypeInv, TypeOK, Registers, At, OnMailbox, Thread, bucketVars, postVars, workerVars, history
  <1> QED BY <1>3, <1>4 DEF TypeInv

LEMMA RunNextType ==
    ASSUME TypeInv, NEW w \in Worker, RunNext(w)
    PROVE  TypeInv'
  <1>0. cur[w] \in Mailbox /\ pos[w] \in Nat
    BY DEF RunNext, TypeInv, TypeOK, Registers, At, OnMailbox, Thread
  <1>1. /\ nextQ' \in [Mailbox -> Seq(Msg)]
        /\ currQ' \in [Mailbox -> Seq(Msg)]
    <2> DEFINE m == cur[w]
    <2>1. nextQ \in [Mailbox -> Seq(Msg)] /\ currQ \in [Mailbox -> Seq(Msg)]
      BY DEF TypeInv, TypeOK
    <2>2. \/ UNCHANGED nextQ
          \/ nextQ' = [nextQ EXCEPT ![m] = <<>>]
      BY DEF RunNext, RunEmpty, RunSwap, RunDetached, RunDispatch, RunReturn, Unhandled
    <2>3. \/ UNCHANGED currQ
          \/ currQ' = [currQ EXCEPT ![m] = <<>>]
          \/ currQ' = [currQ EXCEPT ![m] = nextQ[m]]
          \/ currQ' = [currQ EXCEPT ![m] = SubSeq(@, pos[w] + 1, Len(@))]
      BY DEF RunNext, RunEmpty, RunSwap, RunDetached, RunDispatch, RunReturn, Unhandled
    <2>4. SubSeq(currQ[m], pos[w] + 1, Len(currQ[m])) \in Seq(Msg)
      BY <1>0, <2>1, QueueFacts
    <2> QED BY <1>0, <2>1, <2>2, <2>3, <2>4, QueueFacts
  <1>2. fate' \in [MsgId -> SUBSET {"handled", "bounced", "dropped", "refused"}]
    <2>1. CASE fate' = fate
      BY <2>1 DEF TypeInv, TypeOK
    <2>2. CASE /\ pos[w] < Len(currQ[cur[w]])
               /\ fate' = Outcome(currQ[cur[w]][pos[w] + 1], "handled")
      <3>1. currQ[cur[w]][pos[w] + 1] \in Msg
        BY <1>0, <2>2, QueueFacts DEF TypeInv, TypeOK
      <3> QED BY <2>2, <3>1, OutcomeType DEF TypeInv
    <2>3. \/ fate' = fate
          \/ /\ pos[w] < Len(currQ[cur[w]])
             /\ fate' = Outcome(currQ[cur[w]][pos[w] + 1], "handled")
      BY DEF RunNext, RunEmpty, RunSwap, RunDetached, RunDispatch, Unhandled
    <2> QED BY <2>1, <2>2, <2>3
  <1>3. /\ pc' \in [Thread -> PC]
        /\ pos' \in [Thread -> Nat]
        /\ ran' \in [Worker -> BOOLEAN]
    <2>1. pc' = pc \/ pc' = [pc EXCEPT ![w] = "unlock"] \/ pc' = [pc EXCEPT ![w] = "handler"]
      BY DEF RunNext, RunEmpty, RunSwap, RunDetached, RunDispatch, RunReturn
    <2>2. pos' = [pos EXCEPT ![w] = 0] \/ pos' = [pos EXCEPT ![w] = @ + 1]
      BY DEF RunNext, RunEmpty, RunSwap, RunDetached, RunDispatch, RunReturn
    <2>3. ran' = ran \/ ran' = [ran EXCEPT ![w] = TRUE] \/ ran' = [ran EXCEPT ![w] = FALSE]
      BY DEF RunNext, RunEmpty, RunSwap, RunDetached, RunDispatch, RunReturn
    <2>4. pc \in [Thread -> PC] /\ pos \in [Thread -> Nat] /\ ran \in [Worker -> BOOLEAN]
      BY DEF TypeInv, TypeOK
    <2>5. "unlock" \in PC /\ "handler" \in PC
      BY DEF PC
    <2>6. pc' \in [Thread -> PC]
      BY <2>1, <2>4, <2>5
    <2>7. pos' \in [Thread -> Nat]
      BY <1>0, <2>2, <2>4
    <2>8. ran' \in [Worker -> BOOLEAN]
      BY <2>3, <2>4
    <2> QED BY <2>6, <2>7, <2>8
  <1>4. TypeOK'
    BY <1>1, <1>2, <1>3 DEF RunNext, TypeInv, TypeOK, bucketVars, postVars
  <1>5. Registers'
    BY DEF RunNext, RunEmpty, RunSwap, RunDetached, RunDispatch, RunReturn, TypeInv, TypeOK, Registers, At, OnMailbox, Thread, bucketVars, postVars
  <1> QED BY <1>4, <1>5 DEF TypeInv

LEMMA UnlockType ==
    ASSUME TypeInv, NEW w \in Worker, Unlock(w)
    PROVE  TypeInv'
  <1>1. TypeOK'
    BY DEF TypeInv, TypeOK, Registers, At, OnMailbox, PC, Thread, Unlock, Release, LockId, Resume, mailboxVars, bucketVars, postVars, workerVars, history
  <1>2. Registers'
    BY DEF TypeInv, TypeOK, Registers, At, OnMailbox, PC, Thread, Unlock, Release, LockId, Resume, mailboxVars, bucketVars, postVars, workerVars, history
  <1> QED BY <1>1, <1>2 DEF TypeInv

LEMMA HandlerDetachType ==
    ASSUME TypeInv, NEW w \in Worker, HandlerDetach(w)
    PROVE  TypeInv'
  <1>1. TypeOK'
    BY DEF TypeInv, TypeOK, Registers, At, OnMailbox, PC, Thread, HandlerDetach, ExitLater, mailboxVars, bucketVars, postVars, workerVars, history
  <1>2. Registers'
    BY DEF TypeInv, TypeOK, Registers, At, OnMailbox, PC, Thread, HandlerDetach, ExitLater, mailboxVars, bucketVars, postVars, workerVars, history
  <1> QED BY <1>1, <1>2 DEF TypeInv

LEMMA HandlerReturnType ==
    ASSUME TypeInv, NEW w \in Worker, HandlerReturn(w)
    PROVE  TypeInv'
  <1>1. TypeOK'
    BY DEF TypeInv, TypeOK, Registers, At, OnMailbox, PC, Thread, HandlerReturn, mailboxVars, bucketVars, postVars, workerVars, history
  <1>2. Registers'
    BY DEF TypeInv, TypeOK, Registers, At, OnMailbox, PC, Thread, HandlerReturn, mailboxVars, bucketVars, postVars, workerVars, history
  <1> QED BY <1>1, <1>2 DEF TypeInv

LEMMA ExitType ==
    ASSUME TypeInv, NEW w \in Worker, Exit(w)
    PROVE  TypeInv'
  <1>1. TypeOK'
    BY DEF TypeInv, TypeOK, Registers, At, OnMailbox, PC, Thread, Exit, mailboxVars, bucketVars, postVars, workerVars, history
  <1>2. Registers'
    BY DEF TypeInv, TypeOK, Registers, At, OnMailbox, PC, Thread, Exit, mailboxVars, bucketVars, postVars, workerVars, history
  <1> QED BY <1>1, <1>2 DEF TypeInv

LEMMA ClearType ==
    ASSUME TypeInv, NEW w \in Worker, Clear(w)
    PROVE  TypeInv'
  <1>0. cur[w] \in Mailbox
    BY DEF Clear, AllQueued, TypeInv, TypeOK, Registers, At, OnMailbox, Thread
  <1>1. currQ' \in [Mailbox -> Seq(Msg)]
    BY <1>0, QueueFacts DEF Clear, AllQueued, TypeInv, TypeOK
  <1>2. TypeOK'
    BY <1>1 DEF Clear, AllQueued, PC, TypeInv, TypeOK, bucketVars, postVars, workerVars, history
  <1>3. Registers'
    BY DEF Clear, AllQueued, TypeInv, TypeOK, Registers, At, OnMailbox, Thread, bucketVars, postVars, workerVars, history
  <1> QED BY <1>2, <1>3 DEF TypeInv

LEMMA BounceType ==
    ASSUME TypeInv, NEW w \in Worker, Bounce(w)
    PROVE  TypeInv'
  <1> DEFINE m   == cur[w]
             msg == currQ[m][pos[w] + 1]
  <1>0. m \in Mailbox /\ w \in Thread /\ pos[w] \in Nat
    BY DEF Bounce, TypeInv, TypeOK, Registers, At, OnMailbox, Thread
  <1>1. msg \in Msg
    BY <1>0, QueueFacts DEF Bounce, TypeInv, TypeOK
  <1>2. fate' \in [MsgId -> SUBSET {"handled", "bounced", "dropped", "refused"}]
    <2>1. fate' = Outcome(msg, "dropped") \/ fate' = Outcome(msg, "bounced")
      BY DEF Bounce
    <2> HIDE DEF msg
    <2> QED BY <1>1, <2>1, OutcomeType DEF TypeInv
  <1>3. /\ pc' \in [Thread -> PC]
        /\ tgt' \in [Thread -> Mailbox \cup {None}]
        /\ out' \in [Thread -> Msg \cup {None}]
        /\ back' \in [Thread -> {"idle", "handler", "bounce"}]
        /\ Registers'
    <2>1. CASE msg.from = None
      <3>1. UNCHANGED <<pc, cur, postVars>>
        BY <2>1 DEF Bounce
      <3> QED BY <3>1 DEF TypeInv, TypeOK, Registers, At, OnMailbox, Thread, postVars
    <2>2. CASE msg.from # None
      <3>1. PostLookup(w, msg.from, BadPod(msg.id), "bounce") /\ UNCHANGED cur /\ pc[w] = "bounce"
        BY <2>2 DEF Bounce
      <3>2. BadPod(msg.id) \in Msg
        BY <1>1, MessageType
      <3> HIDE DEF msg
      <3> QED BY <1>0, <3>1, <3>2, LookupType
    <2> QED BY <2>1, <2>2
  <1>4. TypeOK'
    <2>1. pos' = [pos EXCEPT ![w] = @ + 1] /\ pos \in [Thread -> Nat]
      BY DEF Bounce, TypeInv, TypeOK
    <2>2. pos' \in [Thread -> Nat]
      BY <1>0, <2>1
    <2>3. UNCHANGED <<mailboxVars, bucketVars, cur, workerVars, sent>>
      BY DEF Bounce
    <2> QED BY <1>2, <1>3, <2>2, <2>3 DEF TypeInv, TypeOK, mailboxVars, bucketVars, workerVars
  <1> QED BY <1>3, <1>4 DEF TypeInv

LEMMA ClearDoneType ==
    ASSUME TypeInv, NEW w \in Worker, ClearDone(w)
    PROVE  TypeInv'
  <1>1. currQ' \in [Mailbox -> Seq(Msg)]
    BY QueueFacts DEF ClearDone, TypeInv, TypeOK
  <1>2. TypeOK'
    BY <1>1 DEF ClearDone, PC, TypeInv, TypeOK, bucketVars, postVars, workerVars, history
  <1>3. Registers'
    BY DEF ClearDone, TypeInv, TypeOK, Registers, At, OnMailbox, Thread, bucketVars, postVars, workerVars, history
  <1> QED BY <1>2, <1>3 DEF TypeInv

LEMMA EraseType ==
    ASSUME TypeInv, NEW w \in Worker, Erase(w)
    PROVE  TypeInv'
  <1>1. nextQ' \in [Mailbox -> Seq(Msg)]
    BY QueueFacts DEF Erase, TypeInv, TypeOK
  <1>2. TypeOK'
    BY <1>1 DEF Erase, PC, TypeInv, TypeOK, bucketVars, postVars, workerVars, history
  <1>3. Registers'
    BY DEF Erase, TypeInv, TypeOK, Registers, At, OnMailbox, Thread, bucketVars, postVars, workerVars, history
  <1> QED BY <1>2, <1>3 DEF TypeInv

LEMMA PublicDetachType ==
    ASSUME TypeInv, NEW p \in Public, NEW m \in Mailbox, PublicDetach(p, m)
    PROVE  TypeInv'
  <1>1. TypeOK'
    BY DEF TypeInv, TypeOK, Registers, At, OnMailbox, PC, Thread, PublicDetach, mailboxVars, bucketVars, postVars, workerVars, history
  <1>2. Registers'
    BY DEF TypeInv, TypeOK, Registers, At, OnMailbox, PC, Thread, PublicDetach, mailboxVars, bucketVars, postVars, workerVars, history
  <1> QED BY <1>1, <1>2 DEF TypeInv

LEMMA SpinGrabType ==
    ASSUME TypeInv, NEW p \in Public, SpinGrab(p)
    PROVE  TypeInv'
  <1>1. TypeOK'
    BY DEF TypeInv, TypeOK, Registers, At, OnMailbox, PC, Thread, SpinGrab, LockFree, LockFree, Acquire, LockId, mailboxVars, bucketVars, postVars, workerVars, history
  <1>2. Registers'
    BY DEF TypeInv, TypeOK, Registers, At, OnMailbox, PC, Thread, SpinGrab, LockFree, LockFree, Acquire, LockId, mailboxVars, bucketVars, postVars, workerVars, history
  <1> QED BY <1>1, <1>2 DEF TypeInv

LEMMA DetachingType ==
    ASSUME TypeInv, NEW p \in Public, Detaching(p)
    PROVE  TypeInv'
  <1>1. TypeOK'
    BY DEF TypeInv, TypeOK, Registers, At, OnMailbox, PC, Thread, Detaching, mailboxVars, bucketVars, postVars, workerVars, history
  <1>2. Registers'
    BY DEF TypeInv, TypeOK, Registers, At, OnMailbox, PC, Thread, Detaching, mailboxVars, bucketVars, postVars, workerVars, history
  <1> QED BY <1>1, <1>2 DEF TypeInv

LEMMA DetachReturnType ==
    ASSUME TypeInv, NEW p \in Public, DetachReturn(p)
    PROVE  TypeInv'
  <1>1. TypeOK'
    BY DEF TypeInv, TypeOK, Registers, At, OnMailbox, PC, Thread, DetachReturn, Release, LockId, mailboxVars, bucketVars, postVars, workerVars, history
  <1>2. Registers'
    BY DEF TypeInv, TypeOK, Registers, At, OnMailbox, PC, Thread, DetachReturn, Release, LockId, mailboxVars, bucketVars, postVars, workerVars, history
  <1> QED BY <1>1, <1>2 DEF TypeInv

LEMMA StutterType == TypeInv /\ UNCHANGED vars => TypeInv'
  BY DEF TypeInv, TypeOK, Registers, At, vars, mailboxVars, bucketVars, postVars,
         workerVars, history

LEMMA WorkerType ==
    ASSUME TypeInv, NEW w \in Worker, WorkerStep(w)
    PROVE  TypeInv'
  <1> w \in Thread
    BY DEF Thread
  <1>1. ASSUME NEW u \in UID, NEW i \in MsgId, HandlerPost(w, u, i)
        PROVE  TypeInv'
    <2>1. Send(w, u, i, UidOf[cur[w]], "handler") /\ pc[w] = "handler"
      BY <1>1 DEF HandlerPost
    <2>2. UidOf[cur[w]] \in UID
      BY <2>1, UidOfMailbox DEF TypeInv, Registers, At, OnMailbox
    <2> QED BY <2>1, <2>2, SendType
  <1>2. ASSUME NEW m \in Mailbox, HandlerAttach(w, m)
        PROVE  TypeInv'
    BY <1>2, AttachType DEF HandlerAttach
  <1> QED
    BY <1>1, <1>2, PostPushType, PostNotifyType, PopOwnType, StealType, PickUIDType,
       BeginScanType, VisitNextType, EndScanType, GrabType, RunNextType, UnlockType,
       HandlerDetachType, HandlerReturnType, ExitType, ClearType, BounceType,
       ClearDoneType, EraseType DEF WorkerStep

LEMMA PublicType ==
    ASSUME TypeInv, NEW p \in Public, PublicStep(p)
    PROVE  TypeInv'
  <1> p \in Thread
    BY DEF Thread
  <1>1. ASSUME NEW u \in UID, NEW i \in MsgId, PublicPost(p, u, i)
        PROVE  TypeInv'
    BY <1>1, SendType DEF PublicPost
  <1>2. ASSUME NEW m \in Mailbox, PublicAttach(p, m)
        PROVE  TypeInv'
    BY <1>2, AttachType DEF PublicAttach
  <1> QED
    BY <1>1, <1>2, PostPushType, PostNotifyType, PublicDetachType, SpinGrabType,
       DetachingType, DetachReturnType DEF PublicStep

LEMMA NextType == TypeInv /\ [Next]_vars => TypeInv'
  BY StutterType, WorkerType, PublicType DEF Next

(* Every field of a mailbox and every register of a thread keeps its type   *)
(* in every execution of the scheduler (actorpool.hpp:445).                 *)
THEOREM TypeCorrect == Spec => []TypeOK
  <1>1. Spec => []TypeInv
    BY InitType, NextType, PTL DEF Spec
  <1>2. TypeInv => TypeOK
    BY DEF TypeInv
  <1> QED BY <1>1, <1>2, PTL

(* The inductive invariant of types: TypeOK, and that a thread that is past *)
(* a lookup has a mailbox in its registers.                                 *)
THEOREM TypeInvariant == Spec => []TypeInv
  BY InitType, NextType, PTL DEF Spec

-----------------------------------------------------------------------------
(* Mutual exclusion.  A thread holds a mailbox from the successful          *)
(* compare-and-swap of its MailboxLock to the lock's destructor; detach()   *)
(* may overwrite the holder with DETACHED, never with READY.                *)
Holding == {"run", "handler", "unlock", "detaching", "detached"}
Holds(t, m) == cur[t] = m /\ At(t) \in Holding

LockInv ==
    \A t \in Thread, m \in Mailbox : Holds(t, m) => schedLock[m] \in {LockId(t), DETACHED}
OneHolder ==
    \A t, r \in Thread, m \in Mailbox : Holds(t, m) /\ Holds(r, m) => t = r

ExclusionInv == TypeInv /\ LockInv /\ OneHolder

LEMMA LockIds == \A t \in Thread : LockId(t) # READY /\ LockId(t) # DETACHED
  BY ThreadAssumption DEF LockId, Thread

(* A step that takes or releases no schedLock and moves no thread into or   *)
(* out of a mailbox it holds keeps the locks consistent.                    *)
LEMMA SameHolders ==
    ASSUME ExclusionInv, TypeInv',
           \A t \in Thread, m \in Mailbox : Holds(t, m)' => Holds(t, m),
           \A m \in Mailbox : schedLock'[m] \in {schedLock[m], DETACHED}
    PROVE  ExclusionInv'
  BY DEF ExclusionInv, LockInv, OneHolder, LockId

LEMMA AcquireExclusion ==
    ASSUME ExclusionInv, TypeInv', NEW t \in Thread, NEW m \in Mailbox,
           schedLock[m] = READY, Acquire(t, m),
           \A r \in Thread, n \in Mailbox : Holds(r, n)' => Holds(r, n) \/ (r = t /\ n = m)
    PROVE  ExclusionInv'
  <1>1. \A r \in Thread : ~Holds(r, m)
    BY LockIds, ThreadAssumption DEF ExclusionInv, LockInv
  <1>2. \A n \in Mailbox : schedLock'[n] = IF n = m THEN LockId(t) ELSE schedLock[n]
    BY DEF Acquire, ExclusionInv, TypeInv, TypeOK
  <1>3. LockInv'
    BY <1>1, <1>2 DEF ExclusionInv, LockInv, LockId
  <1>4. OneHolder'
    BY <1>1 DEF ExclusionInv, OneHolder
  <1> QED BY <1>3, <1>4 DEF ExclusionInv

LEMMA ReleaseExclusion ==
    ASSUME ExclusionInv, TypeInv', NEW t \in Thread, NEW m \in Mailbox,
           Holds(t, m), Release(t, m),
           \A r \in Thread, n \in Mailbox : Holds(r, n)' => Holds(r, n) /\ r # t
    PROVE  ExclusionInv'
  <1>1. \A r \in Thread : Holds(r, m)' => FALSE
    BY DEF ExclusionInv, OneHolder
  <1>2. \A n \in Mailbox : n # m => schedLock'[n] = schedLock[n]
    BY DEF Release, ExclusionInv, TypeInv, TypeOK
  <1>3. LockInv'
    BY <1>1, <1>2 DEF ExclusionInv, LockInv, LockId
  <1>4. OneHolder'
    BY DEF ExclusionInv, OneHolder
  <1> QED BY <1>3, <1>4 DEF ExclusionInv

(* The steps that leave every lock alone, and those of a detach.            *)
LEMMA QuietExclusion ==
    ASSUME ExclusionInv, TypeInv', NEW t \in Thread,
           \A m \in Mailbox : schedLock'[m] \in {schedLock[m], DETACHED},
           \A r \in Thread : r # t => cur'[r] = cur[r] /\ At(r)' = At(r),
           \/ ~(At(t)' \in Holding)
           \/ cur'[t] = cur[t] /\ At(t) \in Holding
    PROVE  ExclusionInv'
  <1>1. \A r \in Thread, m \in Mailbox : Holds(r, m)' => Holds(r, m)
    BY DEF Holds
  <1> QED BY <1>1, SameHolders

(* Posting does not move a thread: it is still where it posts from.         *)
LEMMA PostStays ==
    ASSUME TypeInv, NEW t \in Thread, PostPush(t) \/ PostNotify(t)
    PROVE  cur' = cur /\ \A r \in Thread : At(r)' = At(r)
  <1>1. back[t] \in {"idle", "handler", "bounce"} /\ pc[t] \in {"push", "notify"}
    BY DEF PostPush, PushRefused, PostNotify, TypeInv, TypeOK
  <1>2. \/ PostReturn(t)
        \/ pc' = [pc EXCEPT ![t] = "notify"] /\ UNCHANGED postVars
    BY DEF PostPush, PushRefused, PostNotify
  <1>3. cur' = cur
    BY DEF PostPush, PushRefused, PostNotify
  <1>4. pc \in [Thread -> PC] /\ back \in [Thread -> {"idle", "handler", "bounce"}]
    BY DEF TypeInv, TypeOK
  <1>5. CASE PostReturn(t)
    <2>1. /\ pc'[t] = back[t]
          /\ \A r \in Thread : r # t => pc'[r] = pc[r] /\ back'[r] = back[r]
      BY <1>4, <1>5 DEF PostReturn
    <2>2. At(t)' = back[t] /\ At(t) = back[t]
      BY <1>1, <2>1 DEF At
    <2> QED BY <1>3, <2>1, <2>2 DEF At
  <1>6. CASE pc' = [pc EXCEPT ![t] = "notify"] /\ UNCHANGED postVars
    <2>1. /\ pc'[t] = "notify" /\ back' = back
          /\ \A r \in Thread : r # t => pc'[r] = pc[r]
      BY <1>4, <1>6 DEF postVars
    <2>2. At(t)' = back[t] /\ At(t) = back[t]
      BY <1>1, <2>1 DEF At
    <2> QED BY <1>3, <2>1, <2>2 DEF At
  <1> QED BY <1>2, <1>3, <1>5, <1>6

LEMMA LookupStays ==
    ASSUME TypeInv, NEW t \in Thread, NEW u, NEW msg,
           NEW r \in {"idle", "handler", "bounce"}, pc[t] = r, PostLookup(t, u, msg, r)
    PROVE  \A q \in Thread : At(q)' = At(q)
  <1>1. pc \in [Thread -> PC] /\ back \in [Thread -> {"idle", "handler", "bounce"}]
    BY DEF TypeInv, TypeOK
  <1>2. CASE Find(u) = {}
    BY <1>1, <1>2 DEF PostLookup, postVars, At
  <1>3. CASE Find(u) # {}
    <2>1. /\ back' = [back EXCEPT ![t] = r]
          /\ pc' = [pc EXCEPT ![t] = "push"]
      BY <1>3 DEF PostLookup
    <2> QED BY <1>1, <2>1 DEF At
  <1> QED BY <1>2, <1>3

LEMMA WorkerExclusion ==
    ASSUME ExclusionInv, NEW w \in Worker, WorkerStep(w)
    PROVE  ExclusionInv'
  <1> USE DEF Holding
  <1>0. w \in Thread /\ TypeInv /\ TypeInv'
    BY WorkerType DEF Thread, ExclusionInv
  <1>1. CASE PostPush(w)
    BY <1>0, <1>1, PostStays, QuietExclusion DEF PostPush, PushRefused
  <1>2. CASE PostNotify(w)
    BY <1>0, <1>2, PostStays, QuietExclusion DEF PostNotify, mailboxVars
  <1>3. CASE PopOwn(w)
    BY <1>0, <1>3, QuietExclusion DEF PopOwn, At, TypeInv, TypeOK, Registers, mailboxVars, bucketVars, postVars, workerVars, history
  <1>4. CASE \E v \in Worker : Steal(w, v)
    BY <1>0, <1>4, QuietExclusion DEF Steal, At, TypeInv, TypeOK, Registers, mailboxVars, bucketVars, postVars, workerVars, history
  <1>5. CASE \E u \in UID : PickUID(w, u)
    <2>1. PICK u \in UID : PickUID(w, u)
      BY <1>5
    <2>2. \/ UNCHANGED <<pc, cur>>
          \/ \E m : cur' = [cur EXCEPT ![w] = m] /\ pc' = [pc EXCEPT ![w] = "grab"]
      BY <2>1 DEF PickUID
    <2>3. pc[w] = "idle" /\ UNCHANGED <<schedLock, back>>
      BY <2>1 DEF PickUID, mailboxVars, postVars
    <2> QED BY <1>0, <2>2, <2>3, QuietExclusion DEF At, TypeInv, TypeOK
  <1>6. CASE BeginScan(w)
    BY <1>0, <1>6, QuietExclusion DEF BeginScan, Idle, At, TypeInv, TypeOK, Registers, mailboxVars, bucketVars, postVars, workerVars, history
  <1>7. CASE \E m \in Mailbox : VisitNext(w, m)
    BY <1>0, <1>7, QuietExclusion DEF VisitNext, At, TypeInv, TypeOK, Registers, mailboxVars, bucketVars, postVars, workerVars, history
  <1>8. CASE EndScan(w)
    BY <1>0, <1>8, QuietExclusion DEF EndScan, At, TypeInv, TypeOK, Registers, mailboxVars, bucketVars, postVars, workerVars, history
  <1>9. CASE RunNext(w)
    BY <1>0, <1>9, QuietExclusion DEF RunNext, RunEmpty, RunSwap, RunDetached, RunDispatch, RunReturn, At, TypeInv, TypeOK, Registers, mailboxVars, bucketVars, postVars, workerVars, history
  <1>10. CASE \E u \in UID, i \in MsgId : HandlerPost(w, u, i)
    <2>1. PICK u \in UID, i \in MsgId : Send(w, u, i, UidOf[cur[w]], "handler") /\ pc[w] = "handler"
      BY <1>10 DEF HandlerPost
    <2>2. cur' = cur /\ schedLock' = schedLock
      BY <2>1 DEF Send, mailboxVars
    <2>3. \A q \in Thread : At(q)' = At(q)
      BY <1>0, <2>1, LookupStays DEF Send
    <2> QED BY <1>0, <2>2, <2>3, QuietExclusion
  <1>11. CASE \E m \in Mailbox : HandlerAttach(w, m)
    BY <1>0, <1>11, QuietExclusion DEF HandlerAttach, Attach, At, TypeInv, TypeOK, Registers, mailboxVars, bucketVars, postVars, workerVars, history
  <1>12. CASE HandlerDetach(w)
    BY <1>0, <1>12, QuietExclusion DEF HandlerDetach, At, TypeInv, TypeOK, Registers, mailboxVars, bucketVars, postVars, workerVars, history
  <1>13. CASE HandlerReturn(w)
    BY <1>0, <1>13, QuietExclusion DEF HandlerReturn, At, TypeInv, TypeOK, Registers, mailboxVars, bucketVars, postVars, workerVars, history
  <1>14. CASE Exit(w)
    BY <1>0, <1>14, QuietExclusion DEF Exit, At, TypeInv, TypeOK, Registers, mailboxVars, bucketVars, postVars, workerVars, history
  <1>15. CASE Clear(w)
    BY <1>0, <1>15, QuietExclusion DEF Clear, AllQueued, At, TypeInv, TypeOK, Registers, mailboxVars, bucketVars, postVars, workerVars, history
  <1>16. CASE Bounce(w)
    <2> DEFINE msg == currQ[cur[w]][pos[w] + 1]
    <2>1. cur' = cur /\ schedLock' = schedLock /\ pc[w] = "bounce"
      BY <1>16 DEF Bounce, mailboxVars
    <2>2. UNCHANGED <<pc, postVars>> \/ PostLookup(w, msg.from, BadPod(msg.id), "bounce")
      BY <1>16 DEF Bounce
    <2>3. \A q \in Thread : At(q)' = At(q)
      <3> HIDE DEF msg
      <3> QED BY <1>0, <2>1, <2>2, LookupStays DEF At, postVars
    <2> QED BY <1>0, <2>1, <2>3, QuietExclusion
  <1>17. CASE ClearDone(w)
    BY <1>0, <1>17, QuietExclusion DEF ClearDone, At, TypeInv, TypeOK, Registers, mailboxVars, bucketVars, postVars, workerVars, history
  <1>18. CASE Erase(w)
    <2>1. /\ cur' = [cur EXCEPT ![w] = None] /\ pc' = [pc EXCEPT ![w] = "scan"]
          /\ UNCHANGED <<schedLock, back>>
      BY <1>18 DEF Erase, postVars
    <2> QED BY <1>0, <2>1, QuietExclusion DEF At, TypeInv, TypeOK
  <1>19. CASE Grab(w)
    <2> DEFINE m == cur[w]
    <2>1. m \in Mailbox
      BY <1>0, <1>19 DEF Grab, LockFree, TypeInv, Registers, At, OnMailbox
    <2>2. /\ pc[w] = "grab" /\ back' = back
          /\ \/ /\ schedLock[m] = READY /\ Acquire(w, m)
                /\ pc' = [pc EXCEPT ![w] = "run"] /\ UNCHANGED cur
             \/ /\ pc' = [pc EXCEPT ![w] = "exit"] /\ UNCHANGED <<schedLock, cur>>
             \/ /\ pc' = [pc EXCEPT ![w] = Resume(w)]
                /\ cur' = [cur EXCEPT ![w] = None] /\ UNCHANGED schedLock
      BY <1>19 DEF Grab, LockFree, postVars
    <2>3. pc \in [Thread -> PC] /\ cur \in [Thread -> Mailbox \cup {None}]
      BY <1>0 DEF TypeInv, TypeOK
    <2>4. CASE schedLock[m] = READY /\ Acquire(w, m) /\ UNCHANGED cur /\ pc' = [pc EXCEPT ![w] = "run"]
      <3>1. \A r \in Thread, n \in Mailbox : Holds(r, n)' => Holds(r, n) \/ (r = w /\ n = m)
        BY <1>0, <2>2, <2>3, <2>4 DEF Holds, At
      <3> QED BY <1>0, <2>1, <2>4, <3>1, AcquireExclusion
    <2>5. CASE pc' = [pc EXCEPT ![w] = "exit"] /\ UNCHANGED <<schedLock, cur>>
      BY <1>0, <2>2, <2>3, <2>5, QuietExclusion DEF At
    <2>6. CASE /\ pc' = [pc EXCEPT ![w] = Resume(w)]
               /\ cur' = [cur EXCEPT ![w] = None] /\ UNCHANGED schedLock
      BY <1>0, <2>2, <2>3, <2>6, QuietExclusion DEF At, Resume
    <2> QED BY <2>2, <2>4, <2>5, <2>6
  <1>20. CASE Unlock(w)
    <2> DEFINE m == cur[w]
    <2>1. m \in Mailbox /\ Holds(w, m)
      BY <1>0, <1>20 DEF Unlock, TypeInv, Registers, At, OnMailbox, Holds
    <2>2. \A r \in Thread, k \in Mailbox : Holds(r, k)' => Holds(r, k) /\ r # w
      BY <1>0, <1>20 DEF Unlock, Resume, Holds, Holding, At, TypeInv, TypeOK, mailboxVars, bucketVars, postVars, workerVars, history
    <2> QED BY <1>0, <1>20, <2>1, <2>2, ReleaseExclusion DEF Unlock
  <1> QED
    BY <1>1, <1>2, <1>3, <1>4, <1>5, <1>6, <1>7, <1>8, <1>9, <1>10, <1>11, <1>12, <1>13, <1>14, <1>15, <1>16, <1>17, <1>18, <1>19, <1>20 DEF WorkerStep

LEMMA PublicExclusion ==
    ASSUME ExclusionInv, NEW p \in Public, PublicStep(p)
    PROVE  ExclusionInv'
  <1> USE DEF Holding
  <1>0. p \in Thread /\ TypeInv /\ TypeInv'
    BY PublicType DEF Thread, ExclusionInv
  <1>1. CASE PostPush(p)
    BY <1>0, <1>1, PostStays, QuietExclusion DEF PostPush, PushRefused
  <1>2. CASE PostNotify(p)
    BY <1>0, <1>2, PostStays, QuietExclusion DEF PostNotify, mailboxVars
  <1>3. CASE \E m \in Mailbox : PublicAttach(p, m)
    BY <1>0, <1>3, QuietExclusion DEF PublicAttach, Attach, At, postVars
  <1>4. CASE \E m \in Mailbox : PublicDetach(p, m)
    <2>1. PICK m \in Mailbox : PublicDetach(p, m)
      BY <1>4
    <2> QED
      BY <1>0, <2>1, QuietExclusion DEF PublicDetach, At, TypeInv, TypeOK, mailboxVars, postVars
  <1>5. CASE \E u \in UID, i \in MsgId : PublicPost(p, u, i)
    <2>1. PICK u \in UID, i \in MsgId : Send(p, u, i, None, "idle") /\ pc[p] = "idle"
      BY <1>5 DEF PublicPost
    <2>2. cur' = cur /\ schedLock' = schedLock
      BY <2>1 DEF Send, mailboxVars
    <2>3. \A q \in Thread : At(q)' = At(q)
      BY <1>0, <2>1, LookupStays DEF Send
    <2> QED BY <1>0, <2>2, <2>3, QuietExclusion
  <1>6. CASE SpinGrab(p)
    <2>1. cur[p] \in Mailbox /\ pc[p] = "spin"
      BY <1>0, <1>6 DEF SpinGrab, LockFree, LockFree, TypeInv, Registers, At, OnMailbox
    <2>2. \A r \in Thread, n \in Mailbox : Holds(r, n)' => Holds(r, n) \/ (r = p /\ n = cur[p])
      BY <1>0, <1>6, <2>1 DEF SpinGrab, LockFree, LockFree, Holds, At, TypeInv, TypeOK, postVars
    <2> QED BY <1>0, <1>6, <2>1, <2>2, AcquireExclusion DEF SpinGrab, LockFree
  <1>7. CASE Detaching(p)
    BY <1>0, <1>7, QuietExclusion DEF Detaching, At, TypeInv, TypeOK, postVars
  <1>8. CASE DetachReturn(p)
    <2>1. cur[p] \in Mailbox /\ Holds(p, cur[p])
      BY <1>0, <1>8 DEF DetachReturn, TypeInv, Registers, At, OnMailbox, Holds
    <2>2. \A r \in Thread, k \in Mailbox : Holds(r, k)' => Holds(r, k) /\ r # p
      BY <1>0, <1>8 DEF DetachReturn, Holds, At, TypeInv, TypeOK, postVars
    <2> QED BY <1>0, <1>8, <2>1, <2>2, ReleaseExclusion DEF DetachReturn
  <1> QED
    BY <1>1, <1>2, <1>3, <1>4, <1>5, <1>6, <1>7, <1>8 DEF PublicStep

LEMMA StutterExclusion == ExclusionInv /\ UNCHANGED vars => ExclusionInv'
  BY StutterType DEF ExclusionInv, LockInv, OneHolder, Holds, At, vars, mailboxVars, postVars

(* The inductive invariant of locks: one thread at most holds a mailbox,    *)
(* and schedLock is its id unless the mailbox is detached.                  *)
THEOREM ExclusionInvariant == Spec => []ExclusionInv
  <1>1. Init => ExclusionInv
    <2> SUFFICES ASSUME Init PROVE ExclusionInv
      OBVIOUS
    <2>1. \A t \in Thread, m \in Mailbox : ~Holds(t, m)
      BY DEF Init, Holds, Holding, At
    <2> QED BY <2>1, InitType DEF ExclusionInv, LockInv, OneHolder
  <1>2. ExclusionInv /\ [Next]_vars => ExclusionInv'
    BY WorkerExclusion, PublicExclusion, StutterExclusion DEF Next
  <1> QED BY <1>1, <1>2, PTL DEF Spec

(* No two threads are in the handler of one actor, with any number of       *)
(* workers, stealing, random notification and detaches from inside and from *)
(* outside: MailboxLock is enough for that.                                 *)
THEOREM Exclusion == Spec => []HandlerExclusion
  <1>1. ExclusionInv => HandlerExclusion
    BY DEF ExclusionInv, OneHolder, HandlerExclusion, InHandler, Holds, Holding
  <1> QED BY <1>1, ExclusionInvariant, PTL
-----------------------------------------------------------------------------
(* The lock-free pointer cache of a bucket, for every number of workers,   *)
(* with stealing and random notification.                                   *)

Removing == {"exit", "clear", "bounce", "erase"}
Visiting == {"grab", "run", "handler", "unlock"} \cup Removing

(* What a worker may still visit is listed; the cache is, too, unless the   *)
(* running scan has erased something; the mailbox it is at is of its own    *)
(* bucket and no longer among those to visit.                               *)
CacheListed ==
    \A w \in Worker :
       /\ todo[w] \subseteq Listed(w)
       /\ w \notin hasDeleted => mailboxListCache[w] \subseteq Listed(w)
Scans ==
    \A w \in Worker :
       /\ w \in hasDeleted => w \in scanning
       /\ At(w) = "idle" => w \notin scanning
       /\ At(w) \in Removing => w \in scanning
Visits ==
    \A w \in Worker :
       w \in scanning /\ At(w) \in Visiting =>
          Home[UidOf[cur[w]]] = w /\ cur[w] \notin todo[w]
Born == \A t \in Thread : At(t) \in OnMailbox => phase[cur[t]] # "unborn"

CacheInv == TypeInv /\ CacheListed /\ Scans /\ Visits /\ Born

(* A step that leaves the buckets alone and keeps every thread at its place.*)
LEMMA QuietCache ==
    ASSUME CacheInv, TypeInv', NEW t \in Thread,
           UNCHANGED <<phase, mailboxListCache, todo, scanning, hasDeleted, cur>>,
           \A r \in Thread : At(r)' = At(r)
    PROVE  CacheInv'
  <1> \A r \in Worker : r \in Thread
    BY DEF Thread
  <1> QED
    BY DEF CacheInv, CacheListed, Scans, Visits, Born, Listed

(* A step by which one worker moves on in the same mailbox.                 *)
LEMMA MoveCache ==
    ASSUME CacheInv, TypeInv', NEW w \in Worker,
           UNCHANGED <<phase, mailboxListCache, todo, scanning, hasDeleted, cur>>,
           \A r \in Thread : r # w => At(r)' = At(r),
           At(w) \in Visiting, At(w)' \in Visiting,
           At(w)' \in Removing => w \in scanning
    PROVE  CacheInv'
  <1> USE DEF Visiting, Removing
  <1>1. CacheListed'
    BY DEF CacheInv, CacheListed, Listed
  <1>2. Scans'
    BY DEF CacheInv, Scans, Thread
  <1>3. Visits'
    BY DEF CacheInv, Visits, Thread
  <1>4. Born'
    BY DEF CacheInv, Born, OnMailbox, Thread
  <1> QED BY <1>1, <1>2, <1>3, <1>4 DEF CacheInv

(* A step by which one thread leaves its mailbox, or was at none.           *)
LEMMA LeaveCache ==
    ASSUME CacheInv, TypeInv', NEW t \in Thread,
           UNCHANGED <<phase, mailboxListCache, todo, scanning, hasDeleted>>,
           \A r \in Thread : r # t => cur'[r] = cur[r] /\ At(r)' = At(r),
           At(t)' \notin OnMailbox,
           t \in Worker => /\ At(t)' = "idle" => t \notin scanning
    PROVE  CacheInv'
  <1> USE DEF Visiting, Removing, OnMailbox
  <1>1. CacheListed'
    BY DEF CacheInv, CacheListed, Listed
  <1>2. Scans'
    BY DEF CacheInv, Scans, Thread
  <1>3. Visits'
    BY DEF CacheInv, Visits, Thread
  <1>4. Born'
    BY DEF CacheInv, Born
  <1> QED BY <1>1, <1>2, <1>3, <1>4 DEF CacheInv

LEMMA AttachCache ==
    ASSUME CacheInv, TypeInv', NEW t \in Thread, NEW m \in Mailbox, Attach(t, m)
    PROVE  CacheInv'
  <1> DEFINE b == Home[UidOf[m]]
  <1>1. /\ phase[m] = "unborn" /\ phase' = [phase EXCEPT ![m] = "listed"]
        /\ mailboxListCache' = IF t = b THEN [mailboxListCache EXCEPT ![b] = @ \cup {m}]
                                        ELSE mailboxListCache
        /\ todo' = IF t = b /\ t \in scanning THEN [todo EXCEPT ![b] = @ \cup {m}] ELSE todo
        /\ UNCHANGED <<pc, cur, back, scanning, hasDeleted>>
    BY DEF Attach, postVars
  <1>2. \A r \in Thread : At(r)' = At(r)
    BY <1>1 DEF At
  <1>3. \A w \in Worker : Listed(w)' = Listed(w) \cup {n \in {m} : b = w}
    BY <1>1 DEF Listed, CacheInv, TypeInv, TypeOK
  <1>4. CacheListed'
    BY <1>1, <1>3 DEF CacheInv, CacheListed, TypeInv, TypeOK
  <1>5. Scans'
    BY <1>1, <1>2 DEF CacheInv, Scans, Thread
  <1>6. Born'
    BY <1>1, <1>2 DEF CacheInv, Born, TypeInv, TypeOK
  <1>7. Visits'
    <2> SUFFICES ASSUME NEW w \in Worker, w \in scanning, At(w) \in Visiting
                 PROVE  Home[UidOf[cur[w]]] = w /\ cur[w] \notin todo'[w]
      BY <1>1, <1>2 DEF Visits, Thread
    <2>1. cur[w] # m
      BY <1>1 DEF CacheInv, Born, Visiting, Removing, OnMailbox, Thread
    <2> QED BY <1>1, <2>1 DEF CacheInv, Visits, TypeInv, TypeOK
  <1> QED BY <1>4, <1>5, <1>6, <1>7 DEF CacheInv

LEMMA EraseCache ==
    ASSUME CacheInv, TypeInv', NEW w \in Worker, Erase(w)
    PROVE  CacheInv'
  <1> USE DEF Visiting, Removing, OnMailbox
  <1>0. w \in Thread /\ TypeOK
    BY DEF Thread, CacheInv, TypeInv
  <1>1. /\ pc[w] = "erase" /\ At(w) = "erase" /\ cur[w] \in Mailbox
        /\ phase' = [phase EXCEPT ![cur[w]] = "erased"]
        /\ hasDeleted' = hasDeleted \cup {w}
        /\ cur' = [cur EXCEPT ![w] = None]
        /\ pc' = [pc EXCEPT ![w] = "scan"]
        /\ UNCHANGED <<mailboxListCache, back, todo, scanning>>
    BY <1>0 DEF Erase, bucketVars, postVars, At, CacheInv, TypeInv, Registers
  <1>2. At(w)' = "scan" /\ \A r \in Thread : r # w => At(r)' = At(r) /\ cur'[r] = cur[r]
    BY <1>0, <1>1 DEF At, TypeOK
  <1>3. w \in scanning /\ Home[UidOf[cur[w]]] = w /\ cur[w] \notin todo[w]
    BY <1>1 DEF CacheInv, Scans, Visits
  <1>4. \A r \in Worker : Listed(r)' = IF r = w THEN Listed(r) \ {cur[w]} ELSE Listed(r)
    BY <1>0, <1>1, <1>3 DEF Listed, TypeOK
  <1>5. CacheListed'
    BY <1>1, <1>3, <1>4 DEF CacheInv, CacheListed
  <1>6. Scans'
    BY <1>1, <1>2, <1>3 DEF CacheInv, Scans, Thread
  <1>7. Visits'
    BY <1>1, <1>2 DEF CacheInv, Visits, Thread
  <1>8. Born'
    BY <1>0, <1>1, <1>2 DEF CacheInv, Born, TypeOK
  <1> QED BY <1>5, <1>6, <1>7, <1>8 DEF CacheInv

LEMMA BeginScanCache ==
    ASSUME CacheInv, TypeInv', NEW w \in Worker, BeginScan(w)
    PROVE  CacheInv'
  <1> USE DEF Visiting, Removing, OnMailbox
  <1>0. w \in Thread /\ TypeOK
    BY DEF Thread, CacheInv, TypeInv
  <1>1. PICK cache \in {Listed(w), mailboxListCache[w]} :
             /\ mailboxListCache' = [mailboxListCache EXCEPT ![w] = cache]
             /\ todo' = [todo EXCEPT ![w] = cache]
    BY DEF BeginScan, RefreshCache
  <1>2. /\ pc[w] = "idle" /\ At(w) = "idle"
        /\ pc' = [pc EXCEPT ![w] = "scan"] /\ scanning' = scanning \cup {w}
        /\ UNCHANGED <<phase, cur, back, hasDeleted>>
    BY DEF BeginScan, Idle, At, mailboxVars, postVars
  <1>3. At(w)' = "scan" /\ \A r \in Thread : r # w => At(r)' = At(r)
    BY <1>0, <1>2 DEF At, TypeOK
  <1>4. cache \subseteq Listed(w)
    BY <1>2 DEF CacheInv, Scans, CacheListed
  <1>5. CacheListed'
    BY <1>0, <1>1, <1>2, <1>4 DEF CacheInv, CacheListed, Listed, TypeOK
  <1>6. Scans'
    BY <1>2, <1>3 DEF CacheInv, Scans, Thread
  <1>7. Visits'
    BY <1>0, <1>1, <1>2, <1>3 DEF CacheInv, Visits, Thread, TypeOK
  <1>8. Born'
    BY <1>2, <1>3 DEF CacheInv, Born
  <1> QED BY <1>5, <1>6, <1>7, <1>8 DEF CacheInv

LEMMA VisitNextCache ==
    ASSUME CacheInv, TypeInv', NEW w \in Worker, NEW m \in Mailbox, VisitNext(w, m)
    PROVE  CacheInv'
  <1> USE DEF Visiting, Removing, OnMailbox
  <1>0. w \in Thread /\ TypeOK
    BY DEF Thread, CacheInv, TypeInv
  <1>1. /\ pc[w] = "scan" /\ m \in todo[w]
        /\ todo' = [todo EXCEPT ![w] = @ \ {m}]
        /\ cur' = [cur EXCEPT ![w] = m] /\ pc' = [pc EXCEPT ![w] = "grab"]
        /\ UNCHANGED <<phase, mailboxListCache, back, scanning, hasDeleted>>
    BY DEF VisitNext, mailboxVars, bucketVars, postVars
  <1>2. /\ At(w)' = "grab" /\ cur'[w] = m
        /\ \A r \in Thread : r # w => At(r)' = At(r) /\ cur'[r] = cur[r]
    BY <1>0, <1>1 DEF At, TypeOK
  <1>3. m \in Listed(w)
    BY <1>1 DEF CacheInv, CacheListed
  <1>4. CacheListed'
    BY <1>0, <1>1 DEF CacheInv, CacheListed, Listed, TypeOK
  <1>5. Scans'
    BY <1>1, <1>2 DEF CacheInv, Scans, Thread
  <1>6. Visits'
    BY <1>0, <1>1, <1>2, <1>3 DEF CacheInv, Visits, Thread, TypeOK, Listed
  <1>7. Born'
    BY <1>1, <1>2, <1>3 DEF CacheInv, Born, Listed
  <1> QED BY <1>4, <1>5, <1>6, <1>7 DEF CacheInv

LEMMA EndScanCache ==
    ASSUME CacheInv, TypeInv', NEW w \in Worker, EndScan(w)
    PROVE  CacheInv'
  <1> USE DEF Visiting, Removing, OnMailbox
  <1>0. w \in Thread /\ TypeOK
    BY DEF Thread, CacheInv, TypeInv
  <1>1. /\ pc[w] = "scan" /\ pc' = [pc EXCEPT ![w] = "idle"]
        /\ mailboxListCache' = [mailboxListCache EXCEPT ![w] = IF w \in hasDeleted THEN {} ELSE @]
        /\ hasDeleted' = hasDeleted \ {w} /\ scanning' = scanning \ {w}
        /\ UNCHANGED <<phase, cur, back, todo>>
    BY DEF EndScan, ClearCache, mailboxVars, postVars
  <1>2. At(w)' = "idle" /\ \A r \in Thread : r # w => At(r)' = At(r)
    BY <1>0, <1>1 DEF At, TypeOK
  <1>3. CacheListed'
    BY <1>0, <1>1 DEF CacheInv, CacheListed, Listed, TypeOK
  <1>4. Scans'
    BY <1>1, <1>2 DEF CacheInv, Scans, Thread
  <1>5. Visits'
    BY <1>1, <1>2 DEF CacheInv, Visits, Thread
  <1>6. Born'
    BY <1>1, <1>2 DEF CacheInv, Born
  <1> QED BY <1>3, <1>4, <1>5, <1>6 DEF CacheInv

LEMMA PickUIDCache ==
    ASSUME CacheInv, TypeInv', NEW w \in Worker, NEW u \in UID, PickUID(w, u)
    PROVE  CacheInv'
  <1> USE DEF Visiting, Removing, OnMailbox
  <1>0. w \in Thread /\ TypeOK
    BY DEF Thread, CacheInv, TypeInv
  <1>1. /\ pc[w] = "idle" /\ At(w) = "idle"
        /\ UNCHANGED <<phase, mailboxListCache, back, todo, scanning, hasDeleted>>
    BY DEF PickUID, mailboxVars, bucketVars, postVars, At
  <1>2. CASE UNCHANGED <<pc, cur>>
    BY <1>0, <1>1, <1>2, QuietCache DEF At
  <1>3. CASE \E m \in Find(u) : cur' = [cur EXCEPT ![w] = m] /\ pc' = [pc EXCEPT ![w] = "grab"]
    <2>1. PICK m \in Find(u) : cur' = [cur EXCEPT ![w] = m] /\ pc' = [pc EXCEPT ![w] = "grab"]
      BY <1>3
    <2>2. m \in Mailbox /\ phase[m] = "listed"
      BY FindIsMailbox
    <2>3. /\ At(w)' = "grab" /\ cur'[w] = m
          /\ \A r \in Thread : r # w => At(r)' = At(r) /\ cur'[r] = cur[r]
      BY <1>0, <1>1, <2>1 DEF At, TypeOK
    <2>4. CacheListed'
      BY <1>1 DEF CacheInv, CacheListed, Listed
    <2>5. Scans'
      BY <1>1, <2>3 DEF CacheInv, Scans, Thread
    <2>6. Visits'
      BY <1>1, <2>3 DEF CacheInv, Visits, Scans, Thread
    <2>7. Born'
      BY <1>1, <2>2, <2>3 DEF CacheInv, Born
    <2> QED BY <2>4, <2>5, <2>6, <2>7 DEF CacheInv
  <1> QED BY <1>2, <1>3 DEF PickUID

LEMMA WorkerCache ==
    ASSUME CacheInv, NEW w \in Worker, WorkerStep(w)
    PROVE  CacheInv'
  <1> USE DEF Visiting, Removing
  <1>0. w \in Thread /\ TypeInv /\ TypeInv' /\ TypeOK
    BY WorkerType DEF Thread, CacheInv, TypeInv
  <1>1. CASE PostPush(w)
    BY <1>0, <1>1, PostStays, QuietCache DEF PostPush, bucketVars, workerVars
  <1>2. CASE PostNotify(w)
    BY <1>0, <1>2, PostStays, QuietCache DEF PostNotify, mailboxVars, workerVars
  <1>3. CASE PopOwn(w)
    BY <1>0, <1>3, QuietCache DEF PopOwn, At, mailboxVars, postVars
  <1>4. CASE \E v \in Worker : Steal(w, v)
    BY <1>0, <1>4, QuietCache DEF Steal, At, mailboxVars, postVars
  <1>5. CASE \E u \in UID : PickUID(w, u)
    BY <1>0, <1>5, PickUIDCache
  <1>6. CASE BeginScan(w)
    BY <1>0, <1>6, BeginScanCache
  <1>7. CASE \E m \in Mailbox : VisitNext(w, m)
    BY <1>0, <1>7, VisitNextCache
  <1>8. CASE EndScan(w)
    BY <1>0, <1>8, EndScanCache
  <1>9. CASE Grab(w)
    <2>1. /\ pc[w] = "grab" /\ UNCHANGED <<phase, mailboxListCache, todo, scanning, hasDeleted, back>>
          /\ \/ pc' = [pc EXCEPT ![w] = "run"] /\ UNCHANGED cur
             \/ pc' = [pc EXCEPT ![w] = "exit"] /\ UNCHANGED cur /\ w \in scanning
             \/ pc' = [pc EXCEPT ![w] = Resume(w)] /\ cur' = [cur EXCEPT ![w] = None]
      BY <1>9 DEF Grab, LockFree, bucketVars, postVars, workerVars
    <2>2. CASE pc' = [pc EXCEPT ![w] = "run"] /\ UNCHANGED cur
      BY <1>0, <2>1, <2>2, MoveCache DEF At, TypeOK
    <2>3. CASE pc' = [pc EXCEPT ![w] = "exit"] /\ UNCHANGED cur /\ w \in scanning
      BY <1>0, <2>1, <2>3, MoveCache DEF At, TypeOK
    <2>4. CASE pc' = [pc EXCEPT ![w] = Resume(w)] /\ cur' = [cur EXCEPT ![w] = None]
      BY <1>0, <2>1, <2>4, LeaveCache DEF At, TypeOK, Resume, OnMailbox
    <2> QED BY <2>1, <2>2, <2>3, <2>4
  <1>10. CASE RunNext(w)
    <2>1. /\ pc[w] = "run"
          /\ UNCHANGED <<phase, mailboxListCache, todo, scanning, hasDeleted, back, cur>>
          /\ \/ UNCHANGED pc
             \/ pc' = [pc EXCEPT ![w] = "unlock"]
             \/ pc' = [pc EXCEPT ![w] = "handler"]
      BY <1>10 DEF RunNext, RunEmpty, RunSwap, RunDetached, RunDispatch, RunReturn, bucketVars, postVars
    <2> QED BY <1>0, <2>1, MoveCache DEF At, TypeOK
  <1>11. CASE Unlock(w)
    <2>1. /\ pc[w] = "unlock" /\ UNCHANGED <<phase, mailboxListCache, todo, scanning, hasDeleted, back>>
          /\ \/ pc' = [pc EXCEPT ![w] = "exit"] /\ UNCHANGED cur /\ w \in scanning
             \/ pc' = [pc EXCEPT ![w] = Resume(w)] /\ cur' = [cur EXCEPT ![w] = None]
      BY <1>11 DEF Unlock, bucketVars, postVars
    <2>2. CASE pc' = [pc EXCEPT ![w] = "exit"] /\ UNCHANGED cur /\ w \in scanning
      BY <1>0, <2>1, <2>2, MoveCache DEF At, TypeOK
    <2>3. CASE pc' = [pc EXCEPT ![w] = Resume(w)] /\ cur' = [cur EXCEPT ![w] = None]
      BY <1>0, <2>1, <2>3, LeaveCache DEF At, TypeOK, Resume, OnMailbox
    <2> QED BY <2>1, <2>2, <2>3
  <1>12. CASE \E u \in UID, i \in MsgId : HandlerPost(w, u, i)
    <2>1. PICK u \in UID, i \in MsgId : Send(w, u, i, UidOf[cur[w]], "handler") /\ pc[w] = "handler"
      BY <1>12 DEF HandlerPost
    <2>2. \A q \in Thread : At(q)' = At(q)
      BY <1>0, <2>1, LookupStays DEF Send
    <2> QED BY <1>0, <2>1, <2>2, QuietCache DEF Send, mailboxVars, bucketVars, workerVars
  <1>13. CASE \E m \in Mailbox : HandlerAttach(w, m)
    BY <1>0, <1>13, AttachCache DEF HandlerAttach
  <1>14. CASE HandlerDetach(w)
    BY <1>0, <1>14, QuietCache DEF HandlerDetach, At, bucketVars, postVars, workerVars
  <1>15. CASE HandlerReturn(w)
    BY <1>0, <1>15, MoveCache DEF HandlerReturn, At, TypeOK, mailboxVars, bucketVars, postVars, workerVars
  <1>16. CASE Exit(w)
    <2>1. /\ At(w) \in Removing /\ At(w)' \in Removing
          /\ \A r \in Thread : r # w => At(r)' = At(r)
      BY <1>0, <1>16 DEF Exit, At, TypeOK, postVars
    <2>2. UNCHANGED <<phase, mailboxListCache, todo, scanning, hasDeleted, cur>>
      BY <1>16 DEF Exit, bucketVars, workerVars
    <2> QED BY <2>1, <2>2, <1>0, MoveCache DEF CacheInv, Scans
  <1>17. CASE Clear(w)
    <2>1. /\ At(w) \in Removing /\ At(w)' \in Removing
          /\ \A r \in Thread : r # w => At(r)' = At(r)
      BY <1>0, <1>17 DEF Clear, At, TypeOK, postVars
    <2>2. UNCHANGED <<phase, mailboxListCache, todo, scanning, hasDeleted, cur>>
      BY <1>17 DEF Clear, bucketVars, workerVars
    <2> QED BY <2>1, <2>2, <1>0, MoveCache DEF CacheInv, Scans
  <1>18. CASE ClearDone(w)
    <2>1. /\ At(w) \in Removing /\ At(w)' \in Removing
          /\ \A r \in Thread : r # w => At(r)' = At(r)
      BY <1>0, <1>18 DEF ClearDone, At, TypeOK, postVars
    <2>2. UNCHANGED <<phase, mailboxListCache, todo, scanning, hasDeleted, cur>>
      BY <1>18 DEF ClearDone, bucketVars, workerVars
    <2> QED BY <2>1, <2>2, <1>0, MoveCache DEF CacheInv, Scans
  <1>19. CASE Bounce(w)
    <2> DEFINE msg == currQ[cur[w]][pos[w] + 1]
    <2>1. pc[w] = "bounce" /\ UNCHANGED <<phase, mailboxListCache, todo, scanning, hasDeleted, cur>>
      BY <1>19 DEF Bounce, mailboxVars, bucketVars, workerVars
    <2>2. UNCHANGED <<pc, postVars>> \/ PostLookup(w, msg.from, BadPod(msg.id), "bounce")
      BY <1>19 DEF Bounce
    <2>3. \A q \in Thread : At(q)' = At(q)
      <3> HIDE DEF msg
      <3> QED BY <1>0, <2>1, <2>2, LookupStays DEF At, postVars
    <2> QED BY <1>0, <2>1, <2>3, QuietCache
  <1>20. CASE Erase(w)
    BY <1>0, <1>20, EraseCache
  <1> QED
    BY <1>1, <1>2, <1>3, <1>4, <1>5, <1>6, <1>7, <1>8, <1>9, <1>10, <1>11, <1>12, <1>13, <1>14, <1>15, <1>16, <1>17, <1>18, <1>19, <1>20 DEF WorkerStep

LEMMA PublicCache ==
    ASSUME CacheInv, NEW p \in Public, PublicStep(p)
    PROVE  CacheInv'
  <1>0. p \in Thread /\ p \notin Worker /\ TypeInv /\ TypeInv' /\ TypeOK
    BY PublicType, ThreadAssumption DEF Thread, CacheInv, TypeInv
  <1>1. CASE PostPush(p)
    BY <1>0, <1>1, PostStays, QuietCache DEF PostPush, bucketVars, workerVars
  <1>2. CASE PostNotify(p)
    BY <1>0, <1>2, PostStays, QuietCache DEF PostNotify, mailboxVars, workerVars
  <1>3. CASE \E m \in Mailbox : PublicAttach(p, m)
    BY <1>0, <1>3, AttachCache DEF PublicAttach
  <1>4. CASE \E u \in UID, i \in MsgId : PublicPost(p, u, i)
    <2>1. PICK u \in UID, i \in MsgId : Send(p, u, i, None, "idle") /\ pc[p] = "idle"
      BY <1>4 DEF PublicPost
    <2>2. \A q \in Thread : At(q)' = At(q)
      BY <1>0, <2>1, LookupStays DEF Send
    <2> QED BY <1>0, <2>1, <2>2, QuietCache DEF Send, mailboxVars, bucketVars, workerVars
  <1>5. CASE (\E m \in Mailbox : PublicDetach(p, m)) \/ SpinGrab(p) \/ Detaching(p) \/ DetachReturn(p)
    <2>1. /\ UNCHANGED <<phase, mailboxListCache, todo, scanning, hasDeleted, back>>
          /\ \/ \E m \in Mailbox : /\ phase[m] = "listed"
                                   /\ cur' = [cur EXCEPT ![p] = m] /\ pc' = [pc EXCEPT ![p] = "spin"]
             \/ /\ pc[p] \in {"spin", "detaching"} /\ UNCHANGED cur
                /\ pc' = [pc EXCEPT ![p] = "detaching"] \/ pc' = [pc EXCEPT ![p] = "detached"]
             \/ cur' = [cur EXCEPT ![p] = None] /\ pc' = [pc EXCEPT ![p] = "idle"]
      BY <1>5 DEF PublicDetach, SpinGrab, Detaching, DetachReturn, mailboxVars, bucketVars,
                  postVars, workerVars
    <2>2. \A r \in Thread : r # p => At(r)' = At(r) /\ cur'[r] = cur[r]
      BY <1>0, <2>1 DEF At, TypeOK
    <2>3. At(p)' \in OnMailbox => phase[cur'[p]] # "unborn"
      BY <1>0, <2>1 DEF CacheInv, Born, At, OnMailbox, TypeOK
    <2>4. CacheListed'
      BY <2>1 DEF CacheInv, CacheListed, Listed
    <2>5. Scans' /\ Visits'
      BY <1>0, <2>1, <2>2 DEF CacheInv, Scans, Visits, Thread
    <2>6. Born'
      BY <2>1, <2>2, <2>3 DEF CacheInv, Born
    <2> QED BY <1>0, <2>4, <2>5, <2>6 DEF CacheInv
  <1> QED BY <1>1, <1>2, <1>3, <1>4, <1>5 DEF PublicStep

(* The inductive invariant of the cache: outside of a scan that has erased  *)
(* something, what a worker has cached is in its bucket.                    *)
THEOREM CacheInvariant == Spec => []CacheInv
  <1>1. Init => CacheInv
    <2> SUFFICES ASSUME Init PROVE CacheInv
      OBVIOUS
    <2>1. \A t \in Thread : At(t) = "idle"
      BY DEF Init, At
    <2> QED
      BY <2>1, InitType DEF Init, CacheInv, CacheListed, Scans, Visits, Born, Removing, Visiting,
                        OnMailbox, Listed, Thread
  <1>2. CacheInv /\ [Next]_vars => CacheInv'
    <2>1. CacheInv /\ UNCHANGED vars => CacheInv'
      BY StutterType DEF CacheInv, CacheListed, Scans, Visits, Born, Listed, At, vars,
                         mailboxVars, bucketVars, postVars, workerVars
    <2> QED BY <2>1, WorkerCache, PublicCache DEF Next
  <1> QED BY <1>1, <1>2, PTL DEF Spec

(* Between two scans, and for what a running scan has yet to visit, the raw *)
(* pointers a worker keeps are those of mailboxes in its bucket: the        *)
(* size check, the clearing after a removal and the rule that only the      *)
(* dedicated worker appends (actorpool.cpp:133, :719, :763) are enough.     *)
THEOREM CacheSafe == Spec => []CacheNeverDangles
  <1>1. CacheInv => CacheNeverDangles
    BY DEF CacheInv, CacheListed, Scans, CacheNeverDangles
  <1> QED BY <1>1, CacheInvariant, PTL

-----------------------------------------------------------------------------
(* Actors and messages when the pool is settled: every actor runs on the    *)
(* worker of its bucket (stealing and random notification off), or else,    *)
(* whatever is stolen, no handler deactivates its own actor.  A stolen      *)
(* actor that does is destroyed under its handler, as TLC shows.  First the *)
(* removal of actors: no handler runs on a destroyed one and no worker uses *)
(* a mailbox that was erased.  Then what becomes of messages: none is lost  *)
(* and none has two outcomes, and every mailbox implements ActorMailbox.    *)

HomeOnly == StealMax = 0 /\ RandomPush = FALSE
Settled  == HomeOnly \/ Mortal = {}

(* Without stealing a UID is queued at, and its mailbox run by, the worker  *)
(* of its bucket.                                                           *)
UidsHome == \A w \in Worker, u \in UID : u \in uidQPending[w] \cup uidList[w] => Home[u] = w
WorkersHome == \A w \in Worker : At(w) \in OnMailbox => Home[UidOf[cur[w]]] = w
AtHome == HomeOnly => UidsHome /\ WorkersHome

(* Application threads run no handler and remove no mailbox, and workers    *)
(* destroy no actor from outside.                                           *)
PublicPlaces ==
    /\ \A p \in Public : At(p) \in {"idle", "spin", "detaching", "detached"}
    /\ \A w \in Worker : At(w) \notin {"spin", "detaching", "detached"}

(* Only the worker of its bucket is inside a mailbox that is detached: it   *)
(* locked or ran the mailbox, or removes it.                                *)
Inside == {"run", "handler", "unlock"} \cup Removing
RemovedHome ==
    \A w \in Worker :
       At(w) \in Inside /\ schedLock[cur[w]] = DETACHED => Home[UidOf[cur[w]]] = w

(* A mailbox is removed, and its actor destroyed, only after detach(); from *)
(* then on nobody runs it.                                                  *)
DetachedFirst ==
    /\ \A t \in Thread : At(t) \in Removing \cup {"detached"} => schedLock[cur[t]] = DETACHED
    /\ \A w \in Worker : ran[w] = FALSE => At(w) = "unlock" /\ schedLock[cur[w]] = DETACHED
NotRun(m) == \A t \in Thread : cur[t] = m => At(t) \notin {"run", "handler"}
DeadIdle == \A m \in deleted : schedLock[m] = DETACHED /\ NotRun(m)

HomeInv == CacheInv /\ ExclusionInv /\ AtHome /\ PublicPlaces /\ RemovedHome /\
           DetachedFirst /\ DeadIdle

(* DETACHED is final: no compare-and-swap of a MailboxLock overwrites it.   *)
LEMMA DetachedIsFinal ==
    ASSUME TypeInv, [Next]_vars, NEW m \in Mailbox, schedLock[m] = DETACHED
    PROVE  schedLock'[m] = DETACHED
  <1> USE LockIds, ThreadAssumption
  <1>1. ASSUME NEW t \in Thread, Acquire(t, cur[t]), schedLock[cur[t]] = READY
        PROVE  schedLock'[m] = DETACHED
    BY <1>1 DEF Acquire, TypeInv, TypeOK
  <1>2. ASSUME NEW t \in Thread, Release(t, cur[t])
        PROVE  schedLock'[m] = DETACHED
    BY <1>2 DEF Release, TypeInv, TypeOK
  <1>3. ASSUME NEW n, schedLock' = [schedLock EXCEPT ![n] = DETACHED]
        PROVE  schedLock'[m] = DETACHED
    BY <1>3 DEF TypeInv, TypeOK
  <1>4. CASE UNCHANGED schedLock
    BY <1>4
  <1>5. ASSUME NEW w \in Worker, WorkerStep(w)
        PROVE  schedLock'[m] = DETACHED
    <2>1. w \in Thread
      BY DEF Thread
    <2>2. CASE Grab(w)
      BY <1>1, <1>4, <2>1, <2>2 DEF Grab, LockFree
    <2>3. CASE Unlock(w)
      BY <1>2, <2>1, <2>3 DEF Unlock
    <2>4. CASE HandlerDetach(w)
      BY <1>3, <2>4 DEF HandlerDetach
    <2>5. CASE ~(Grab(w) \/ Unlock(w) \/ HandlerDetach(w))
      BY <1>4, <1>5, <2>5 DEF WorkerStep, PostPush, PostNotify, PopOwn, Steal, PickUID, BeginScan,
         VisitNext, EndScan, RunNext, RunEmpty, RunSwap, RunDetached, RunDispatch, HandlerPost, Send, HandlerAttach, Attach, HandlerReturn,
         Exit, Clear, Bounce, ClearDone, Erase, mailboxVars
    <2> QED BY <2>2, <2>3, <2>4, <2>5
  <1>6. ASSUME NEW p \in Public, PublicStep(p)
        PROVE  schedLock'[m] = DETACHED
    <2>1. p \in Thread
      BY DEF Thread
    <2>2. CASE SpinGrab(p)
      BY <1>1, <2>1, <2>2 DEF SpinGrab, LockFree
    <2>3. CASE Detaching(p)
      BY <1>3, <2>3 DEF Detaching
    <2>4. CASE DetachReturn(p)
      BY <1>2, <2>1, <2>4 DEF DetachReturn
    <2>5. CASE ~(SpinGrab(p) \/ Detaching(p) \/ DetachReturn(p))
      BY <1>4, <1>6, <2>5 DEF PublicStep, PostPush, PostNotify, PublicAttach, Attach, PublicDetach,
         PublicPost, Send, mailboxVars
    <2> QED BY <2>2, <2>3, <2>4, <2>5
  <1>7. CASE UNCHANGED vars
    BY <1>7 DEF vars, mailboxVars
  <1> QED BY <1>5, <1>6, <1>7 DEF Next

(* Who detaches.                                                            *)
LEMMA WhoDetaches ==
    ASSUME TypeInv, [Next]_vars, NEW m \in Mailbox, schedLock[m] # DETACHED, schedLock'[m] = DETACHED
    PROVE  \/ \E w \in Worker : HandlerDetach(w) /\ cur[w] = m
           \/ \E p \in Public : Detaching(p) /\ cur[p] = m
  <1>0. schedLock \in [Mailbox -> Worker \cup {READY, DETACHED, ACCESS_PUB}]
    BY DEF TypeInv, TypeOK
  <1>1. schedLock' # schedLock
    OBVIOUS
  <1>2. ASSUME NEW t \in Thread, Acquire(t, cur[t]) \/ Release(t, cur[t])
        PROVE  FALSE
    BY <1>0, <1>2, LockIds, ThreadAssumption DEF Acquire, Release
  <1>3. ASSUME NEW w \in Worker, WorkerStep(w)
        PROVE  HandlerDetach(w) /\ cur[w] = m
    <2>1. CASE Grab(w) \/ Unlock(w)
      BY <1>1, <1>2, <2>1 DEF Grab, Unlock, Thread
    <2>2. CASE HandlerDetach(w)
      BY <1>0, <2>2 DEF HandlerDetach
    <2>3. CASE ~(Grab(w) \/ Unlock(w) \/ HandlerDetach(w))
      BY <1>1, <1>3, <2>3 DEF WorkerStep, PostPush, PostNotify, PopOwn, Steal, PickUID, BeginScan,
         VisitNext, EndScan, RunNext, HandlerPost, Send, HandlerAttach, Attach, HandlerReturn,
         Exit, Clear, Bounce, ClearDone, Erase, mailboxVars
    <2> QED BY <2>1, <2>2, <2>3
  <1>4. ASSUME NEW p \in Public, PublicStep(p)
        PROVE  Detaching(p) /\ cur[p] = m
    <2>1. CASE SpinGrab(p) \/ DetachReturn(p)
      BY <1>2, <2>1 DEF SpinGrab, DetachReturn, Thread
    <2>2. CASE Detaching(p)
      BY <1>0, <2>2 DEF Detaching
    <2>3. CASE ~(SpinGrab(p) \/ DetachReturn(p) \/ Detaching(p))
      BY <1>1, <1>4, <2>3 DEF PublicStep, PostPush, PostNotify, PublicAttach, Attach, PublicDetach,
         PublicPost, Send, mailboxVars
    <2> QED BY <2>1, <2>2, <2>3
  <1>5. ~UNCHANGED vars
    BY <1>1 DEF vars, mailboxVars
  <1> QED BY <1>3, <1>4, <1>5 DEF Next

-----------------------------------------------------------------------------
(* How a step moves a thread from place to place.  Every invariant about    *)
(* places is preserved because of this table alone.                         *)
Stay(t) == /\ At(t)' = At(t) /\ cur'[t] = cur[t]
           /\ t \in Worker => ran'[t] = ran[t]
Enter(t) ==
    /\ At(t)' = "grab"
    /\ \/ At(t) = "idle" /\ \E u \in uidList[t] \cap UID : cur'[t] \in Find(u)
       \/ At(t) = "scan" /\ cur'[t] \in todo[t]
    /\ ran'[t] = ran[t]
Walk(t) ==
    /\ cur'[t] = cur[t]
    /\ \/ <<At(t), At(t)'>> \in {<<"idle", "scan">>, <<"scan", "idle">>} /\ ran'[t] = ran[t]
       \/ <<At(t), At(t)'>> \in {<<"run", "handler">>, <<"handler", "run">>, <<"exit", "clear">>,
                                 <<"clear", "bounce">>, <<"bounce", "erase">>} /\ ran'[t] = ran[t]
       \/ At(t) = "grab" /\ At(t)' = "run" /\ schedLock[cur[t]] = READY /\ ran'[t] = ran[t]
       \/ At(t) = "grab" /\ At(t)' = "exit" /\ schedLock[cur[t]] = DETACHED /\ ran'[t] = ran[t]
       \/ At(t) = "run" /\ At(t)' = "unlock" /\ (ran'[t] = FALSE => schedLock[cur[t]] = DETACHED)
       \/ At(t) = "unlock" /\ At(t)' = "exit" /\ ran[t] = FALSE /\ ran'[t] = TRUE
Leave(t) ==
    /\ At(t)' \in {"idle", "scan"} /\ cur'[t] = None
    /\ \/ At(t) \in {"grab", "erase"} /\ ran'[t] = ran[t]
       \/ At(t) = "unlock" /\ ran'[t] = TRUE
Outside(p) ==
    \/ At(p) = "idle" /\ At(p)' = "spin" /\ cur'[p] \in Owned
    \/ At(p) = "spin" /\ At(p)' = "detaching" /\ cur'[p] = cur[p]
    \/ At(p) = "detaching" /\ At(p)' = "detached" /\ cur'[p] = cur[p] /\ schedLock'[cur[p]] = DETACHED
    \/ At(p) = "detached" /\ At(p)' = "idle" /\ cur'[p] = None

WorkerMove(w) == Enter(w) \/ Walk(w) \/ Leave(w)

(* A step of one thread leaves the registers of the others alone.           *)
Others(t) == \A r \in Thread : r # t => Stay(r)

LEMMA OthersStay ==
    ASSUME TypeInv, NEW t \in Thread, NEW x, NEW y, NEW z,
           pc' = [pc EXCEPT ![t] = x], cur' = [cur EXCEPT ![t] = y] \/ cur' = cur,
           ran' = ran \/ (t \in Worker /\ ran' = [ran EXCEPT ![t] = z]),
           UNCHANGED back
    PROVE  Others(t)
  BY DEF TypeInv, TypeOK, Others, Stay, At, Thread

LEMMA WorkerMoves ==
    ASSUME TypeInv, NEW w \in Worker, WorkerStep(w)
    PROVE  Others(w) /\ (Stay(w) \/ WorkerMove(w))
  <1>0. /\ w \in Thread /\ pc \in [Thread -> PC] /\ cur \in [Thread -> Mailbox \cup {None}]
        /\ ran \in [Worker -> BOOLEAN]
    BY DEF Thread, TypeInv, TypeOK
  <1> USE DEF WorkerMove
  <1>1. CASE PostPush(w) \/ PostNotify(w)
    BY <1>0, <1>1, PostStays DEF PostPush, PostNotify, Others, Stay, workerVars
  <1>2. CASE PopOwn(w) \/ (\E v \in Worker : Steal(w, v)) \/ HandlerDetach(w)
    BY <1>2 DEF PopOwn, Steal, HandlerDetach, Others, Stay, At, postVars, workerVars
  <1>3. CASE \E m \in Mailbox : HandlerAttach(w, m)
    BY <1>3 DEF HandlerAttach, Attach, Others, Stay, At, postVars
  <1>4. CASE \E u \in UID : PickUID(w, u)
    <2>1. PICK u \in UID : PickUID(w, u)
      BY <1>4
    <2>2. /\ pc[w] = "idle" /\ u \in uidList[w] /\ UNCHANGED <<back, ran>>
          /\ \/ UNCHANGED <<pc, cur>>
             \/ \E m \in Find(u) : cur' = [cur EXCEPT ![w] = m] /\ pc' = [pc EXCEPT ![w] = "grab"]
      BY <2>1 DEF PickUID, postVars
    <2>3. CASE UNCHANGED <<pc, cur>>
      BY <2>2, <2>3 DEF Others, Stay, At
    <2>4. CASE \E m \in Find(u) : cur' = [cur EXCEPT ![w] = m] /\ pc' = [pc EXCEPT ![w] = "grab"]
      <3>1. PICK m \in Find(u) : cur' = [cur EXCEPT ![w] = m] /\ pc' = [pc EXCEPT ![w] = "grab"]
        BY <2>4
      <3>2. Others(w)
        BY <1>0, <2>2, <3>1, OthersStay
      <3> QED BY <1>0, <2>2, <3>1, <3>2 DEF Enter, At
    <2> QED BY <2>2, <2>3, <2>4
  <1>5. CASE BeginScan(w)
    <2>1. pc[w] = "idle" /\ pc' = [pc EXCEPT ![w] = "scan"] /\ UNCHANGED <<cur, back, ran>>
      BY <1>5 DEF BeginScan, Idle, postVars
    <2>2. Others(w)
      BY <1>0, <2>1, OthersStay
    <2> QED BY <1>0, <2>1, <2>2 DEF Walk, At
  <1>6. CASE \E m \in Mailbox : VisitNext(w, m)
    <2>1. PICK m \in Mailbox : VisitNext(w, m)
      BY <1>6
    <2>2. /\ pc[w] = "scan" /\ m \in todo[w] /\ cur' = [cur EXCEPT ![w] = m]
          /\ pc' = [pc EXCEPT ![w] = "grab"] /\ UNCHANGED <<back, ran>>
      BY <2>1 DEF VisitNext, postVars
    <2>3. Others(w)
      BY <1>0, <2>2, OthersStay
    <2> QED BY <1>0, <2>2, <2>3 DEF Enter, At
  <1>7. CASE EndScan(w)
    <2>1. pc[w] = "scan" /\ pc' = [pc EXCEPT ![w] = "idle"] /\ UNCHANGED <<cur, back, ran>>
      BY <1>7 DEF EndScan, postVars
    <2>2. Others(w)
      BY <1>0, <2>1, OthersStay
    <2> QED BY <1>0, <2>1, <2>2 DEF Walk, At
  <1>8. CASE Grab(w)
    <2>1. /\ pc[w] = "grab" /\ UNCHANGED <<back, ran>>
          /\ \/ schedLock[cur[w]] = READY /\ pc' = [pc EXCEPT ![w] = "run"] /\ UNCHANGED cur
             \/ schedLock[cur[w]] = DETACHED /\ pc' = [pc EXCEPT ![w] = "exit"] /\ UNCHANGED cur
             \/ pc' = [pc EXCEPT ![w] = Resume(w)] /\ cur' = [cur EXCEPT ![w] = None]
      BY <1>8 DEF Grab, LockFree, postVars, workerVars
    <2>2. Others(w)
      BY <1>0, <2>1, OthersStay
    <2> QED BY <1>0, <2>1, <2>2 DEF Walk, Leave, At, Resume
  <1>9. CASE RunNext(w)
    <2>1. /\ pc[w] = "run" /\ UNCHANGED <<back, cur>>
          /\ \/ UNCHANGED <<pc, ran>>
             \/ pc' = [pc EXCEPT ![w] = "unlock"] /\ ran' = [ran EXCEPT ![w] = TRUE]
             \/ /\ pc' = [pc EXCEPT ![w] = "unlock"] /\ ran' = [ran EXCEPT ![w] = FALSE]
                /\ schedLock[cur[w]] = DETACHED
             \/ pc' = [pc EXCEPT ![w] = "handler"] /\ UNCHANGED ran
      BY <1>9 DEF RunNext, RunEmpty, RunSwap, RunDetached, RunDispatch, RunReturn, postVars
    <2>2. CASE UNCHANGED <<pc, ran>>
      BY <2>1, <2>2 DEF Others, Stay, At
    <2>3. CASE ~UNCHANGED <<pc, ran>>
      <3>1. Others(w)
        BY <1>0, <2>1, <2>3, OthersStay
      <3> QED BY <1>0, <2>1, <2>3, <3>1 DEF Walk, At
    <2> QED BY <2>2, <2>3
  <1>10. CASE Unlock(w)
    <2>1. /\ pc[w] = "unlock" /\ UNCHANGED back /\ ran' = [ran EXCEPT ![w] = TRUE]
          /\ \/ pc' = [pc EXCEPT ![w] = "exit"] /\ UNCHANGED cur /\ ~ran[w]
             \/ pc' = [pc EXCEPT ![w] = Resume(w)] /\ cur' = [cur EXCEPT ![w] = None]
      BY <1>10 DEF Unlock, postVars
    <2>2. Others(w)
      BY <1>0, <2>1, OthersStay
    <2> QED BY <1>0, <2>1, <2>2 DEF Walk, Leave, At, Resume
  <1>11. CASE \E u \in UID, i \in MsgId : HandlerPost(w, u, i)
    <2>1. PICK u \in UID, i \in MsgId : Send(w, u, i, UidOf[cur[w]], "handler") /\ pc[w] = "handler"
      BY <1>11 DEF HandlerPost
    <2>2. \A q \in Thread : At(q)' = At(q)
      BY <1>0, <2>1, LookupStays DEF Send
    <2> QED BY <2>1, <2>2, <1>0 DEF Send, Others, Stay, workerVars
  <1>12. CASE HandlerReturn(w)
    <2>1. pc[w] = "handler" /\ pc' = [pc EXCEPT ![w] = "run"] /\ UNCHANGED <<cur, back, ran>>
      BY <1>12 DEF HandlerReturn, postVars, workerVars
    <2>2. Others(w)
      BY <1>0, <2>1, OthersStay
    <2> QED BY <1>0, <2>1, <2>2 DEF Walk, At
  <1>13. CASE Exit(w)
    <2>1. pc[w] = "exit" /\ pc' = [pc EXCEPT ![w] = "clear"] /\ UNCHANGED <<cur, back, ran>>
      BY <1>13 DEF Exit, postVars, workerVars
    <2>2. Others(w)
      BY <1>0, <2>1, OthersStay
    <2> QED BY <1>0, <2>1, <2>2 DEF Walk, At
  <1>14. CASE Clear(w)
    <2>1. pc[w] = "clear" /\ pc' = [pc EXCEPT ![w] = "bounce"] /\ UNCHANGED <<cur, back, ran>>
      BY <1>14 DEF Clear, postVars, workerVars
    <2>2. Others(w)
      BY <1>0, <2>1, OthersStay
    <2> QED BY <1>0, <2>1, <2>2 DEF Walk, At
  <1>15. CASE ClearDone(w)
    <2>1. pc[w] = "bounce" /\ pc' = [pc EXCEPT ![w] = "erase"] /\ UNCHANGED <<cur, back, ran>>
      BY <1>15 DEF ClearDone, postVars, workerVars
    <2>2. Others(w)
      BY <1>0, <2>1, OthersStay
    <2> QED BY <1>0, <2>1, <2>2 DEF Walk, At
  <1>16. CASE Bounce(w)
    <2> DEFINE msg == currQ[cur[w]][pos[w] + 1]
    <2>1. pc[w] = "bounce" /\ UNCHANGED <<cur, ran>>
      BY <1>16 DEF Bounce, workerVars
    <2>2. UNCHANGED <<pc, postVars>> \/ PostLookup(w, msg.from, BadPod(msg.id), "bounce")
      BY <1>16 DEF Bounce
    <2>3. \A q \in Thread : At(q)' = At(q)
      <3> HIDE DEF msg
      <3> QED BY <1>0, <2>1, <2>2, LookupStays DEF At, postVars
    <2> QED BY <1>0, <2>1, <2>3 DEF Others, Stay
  <1>17. CASE Erase(w)
    <2>1. pc[w] = "erase" /\ pc' = [pc EXCEPT ![w] = "scan"] /\ cur' = [cur EXCEPT ![w] = None] /\ UNCHANGED <<back, ran>>
      BY <1>17 DEF Erase, postVars
    <2>2. Others(w)
      BY <1>0, <2>1, OthersStay
    <2> QED BY <1>0, <2>1, <2>2 DEF Leave, At
  <1> QED
    BY <1>1, <1>2, <1>3, <1>4, <1>5, <1>6, <1>7, <1>8, <1>9, <1>10, <1>11, <1>12, <1>13, <1>14, <1>15, <1>16, <1>17 DEF WorkerStep

LEMMA PublicMoves ==
    ASSUME TypeInv, NEW p \in Public, PublicStep(p)
    PROVE  Others(p) /\ (Stay(p) \/ Outside(p))
  <1>0. /\ p \in Thread /\ p \notin Worker
        /\ pc \in [Thread -> PC] /\ cur \in [Thread -> Mailbox \cup {None}]
    BY ThreadAssumption DEF Thread, TypeInv, TypeOK
  <1>1. CASE PostPush(p) \/ PostNotify(p)
    BY <1>0, <1>1, PostStays DEF PostPush, PostNotify, Others, Stay, workerVars
  <1>2. CASE \E m \in Mailbox : PublicAttach(p, m)
    BY <1>2 DEF PublicAttach, Attach, Others, Stay, At, postVars
  <1>3. CASE \E u \in UID, i \in MsgId : PublicPost(p, u, i)
    <2>1. PICK u \in UID, i \in MsgId : Send(p, u, i, None, "idle") /\ pc[p] = "idle"
      BY <1>3 DEF PublicPost
    <2>2. \A q \in Thread : At(q)' = At(q)
      BY <1>0, <2>1, LookupStays DEF Send
    <2> QED BY <1>0, <2>1, <2>2 DEF Send, Others, Stay, workerVars
  <1>4. CASE (\E m \in Mailbox : PublicDetach(p, m)) \/ SpinGrab(p) \/ Detaching(p) \/ DetachReturn(p)
    <2>1. /\ UNCHANGED <<back, ran>>
          /\ \/ /\ pc[p] = "idle" /\ pc' = [pc EXCEPT ![p] = "spin"]
                /\ \E m \in Owned : cur' = [cur EXCEPT ![p] = m]
             \/ pc[p] = "spin" /\ pc' = [pc EXCEPT ![p] = "detaching"] /\ UNCHANGED cur
             \/ /\ pc[p] = "detaching" /\ pc' = [pc EXCEPT ![p] = "detached"] /\ UNCHANGED cur
                /\ schedLock' = [schedLock EXCEPT ![cur[p]] = DETACHED]
             \/ /\ pc[p] = "detached" /\ pc' = [pc EXCEPT ![p] = "idle"]
                /\ cur' = [cur EXCEPT ![p] = None]
      BY <1>4 DEF PublicDetach, SpinGrab, Detaching, DetachReturn, postVars, workerVars
    <2>2. Others(p)
      BY <1>0, <2>1, OthersStay
    <2>3. pc[p] = "detaching" => cur[p] \in Mailbox /\ schedLock \in [Mailbox -> Worker \cup {READY, DETACHED, ACCESS_PUB}]
      BY <1>0 DEF TypeInv, TypeOK, Registers, At, OnMailbox
    <2> QED BY <1>0, <2>1, <2>2, <2>3 DEF Outside, At
  <1> QED BY <1>1, <1>2, <1>3, <1>4 DEF PublicStep

LEMMA Moves ==
    ASSUME TypeInv, [Next]_vars, NEW t \in Thread
    PROVE  Stay(t) \/ (t \in Worker /\ WorkerMove(t)) \/ (t \in Public /\ Outside(t))
  <1>1. CASE UNCHANGED vars
    BY <1>1 DEF Stay, At, vars, postVars, workerVars
  <1>2. ASSUME NEW w \in Worker, WorkerStep(w)
        PROVE  Stay(t) \/ (t \in Worker /\ WorkerMove(t))
    BY <1>2, WorkerMoves DEF Others
  <1>3. ASSUME NEW p \in Public, PublicStep(p)
        PROVE  Stay(t) \/ (t \in Public /\ Outside(t))
    BY <1>3, PublicMoves DEF Others
  <1> QED BY <1>1, <1>2, <1>3 DEF Next

-----------------------------------------------------------------------------
LEMMA UidsHomeStep == ASSUME HomeOnly, HomeInv, [Next]_vars PROVE UidsHome'
  <1>0. TypeOK /\ TypeInv /\ UidsHome
    BY DEF HomeInv, CacheInv, TypeInv, AtHome
  <1> SUFFICES ASSUME NEW r \in Worker, NEW u \in UID, u \in uidQPending'[r] \cup uidList'[r]
               PROVE  u \in uidQPending[r] \cup uidList[r] \/ Home[u] = r
    BY <1>0 DEF UidsHome
  <1>1. ASSUME NEW t \in Thread, NEW m \in Mailbox, Attach(t, m)
        PROVE  u \in uidQPending[r] \cup uidList[r] \/ Home[u] = r
    BY <1>0, <1>1 DEF Attach, TypeOK
  <1>2. ASSUME NEW t \in Thread, PostNotify(t)
        PROVE  u \in uidQPending[r] \cup uidList[r] \/ Home[u] = r
    <2>1. /\ uidQPending' = [uidQPending EXCEPT ![Home[UidOf[tgt[t]]]] = @ \cup {UidOf[tgt[t]]}]
          /\ uidList' = uidList
      BY <1>2 DEF PostNotify, NotifyTargets, HomeOnly, workerVars
    <2> QED BY <1>0, <2>1 DEF TypeOK
  <1>3. ASSUME NEW w \in Worker, PopOwn(w)
        PROVE  u \in uidQPending[r] \cup uidList[r]
    BY <1>0, <1>3 DEF PopOwn, TypeOK
  <1>4. ASSUME NEW w \in Worker, NEW v \in Worker, Steal(w, v)
        PROVE  FALSE
    BY <1>4 DEF Steal, HomeOnly
  <1>5. ASSUME NEW w \in Worker, NEW x \in UID, PickUID(w, x)
        PROVE  u \in uidQPending[r] \cup uidList[r]
    BY <1>0, <1>5 DEF PickUID, TypeOK, bucketVars
  <1>6. CASE UNCHANGED <<uidQPending, uidList>>
    BY <1>6
  <1>7. ASSUME NEW w \in Worker, WorkerStep(w)
        PROVE  u \in uidQPending[r] \cup uidList[r] \/ Home[u] = r
    <2>1. CASE \E m \in Mailbox : HandlerAttach(w, m)
      BY <1>1, <2>1 DEF HandlerAttach, Thread
    <2>2. CASE PostNotify(w)
      BY <1>2, <2>2 DEF Thread
    <2>3. CASE PopOwn(w) \/ (\E v \in Worker : Steal(w, v)) \/ (\E x \in UID : PickUID(w, x))
      BY <1>3, <1>4, <1>5, <2>3
    <2>4. CASE ~((\E m \in Mailbox : HandlerAttach(w, m)) \/ PostNotify(w) \/ PopOwn(w)
                 \/ (\E v \in Worker : Steal(w, v)) \/ (\E x \in UID : PickUID(w, x)))
      BY <1>6, <1>7, <2>4 DEF WorkerStep, PostPush, BeginScan, VisitNext, EndScan, Grab, LockFree, RunNext, RunEmpty, RunSwap, RunDetached, RunDispatch,
         Unlock, HandlerPost, Send, HandlerDetach, HandlerReturn, Exit, Clear, Bounce, ClearDone,
         Erase, bucketVars, workerVars
    <2> QED BY <2>1, <2>2, <2>3, <2>4
  <1>8. ASSUME NEW p \in Public, PublicStep(p)
        PROVE  u \in uidQPending[r] \cup uidList[r] \/ Home[u] = r
    <2>1. CASE \E m \in Mailbox : PublicAttach(p, m)
      BY <1>1, <2>1 DEF PublicAttach, Thread
    <2>2. CASE PostNotify(p)
      BY <1>2, <2>2 DEF Thread
    <2>3. CASE ~((\E m \in Mailbox : PublicAttach(p, m)) \/ PostNotify(p))
      BY <1>6, <1>8, <2>3 DEF PublicStep, PostPush, PublicDetach, PublicPost, Send, SpinGrab,
         Detaching, DetachReturn, bucketVars, workerVars
    <2> QED BY <2>1, <2>2, <2>3
  <1>9. CASE UNCHANGED vars
    BY <1>6, <1>9 DEF vars, bucketVars, workerVars
  <1> QED BY <1>7, <1>8, <1>9 DEF Next

LEMMA WorkersHomeStep == ASSUME HomeOnly, HomeInv, [Next]_vars PROVE WorkersHome'
  <1> SUFFICES ASSUME NEW w \in Worker, At(w)' \in OnMailbox
               PROVE  Home[UidOf[cur'[w]]] = w
    BY DEF WorkersHome
  <1>0. w \in Thread /\ w \notin Public /\ TypeInv
    BY ThreadAssumption DEF Thread, HomeInv, CacheInv
  <1>1. Stay(w) \/ WorkerMove(w)
    BY <1>0, Moves
  <1>2. CASE Stay(w) \/ Walk(w)
    BY <1>2 DEF Stay, Walk, HomeInv, AtHome, WorkersHome, OnMailbox
  <1>3. CASE Enter(w)
    <2>1. CASE \E u \in uidList[w] \cap UID : cur'[w] \in Find(u)
      BY <2>1 DEF Find, HomeInv, AtHome, UidsHome
    <2>2. CASE cur'[w] \in todo[w]
      BY <2>2 DEF HomeInv, CacheInv, CacheListed, Listed
    <2> QED BY <1>3, <2>1, <2>2 DEF Enter
  <1>4. CASE Leave(w)
    BY <1>4 DEF Leave, OnMailbox
  <1> QED BY <1>1, <1>2, <1>3, <1>4 DEF WorkerMove

LEMMA PublicPlacesStep == ASSUME HomeInv, [Next]_vars PROVE PublicPlaces'
  <1>1. ASSUME NEW p \in Public
        PROVE  At(p)' \in {"idle", "spin", "detaching", "detached"}
    <2>1. Stay(p) \/ Outside(p)
      BY Moves, ThreadAssumption DEF Thread, HomeInv, CacheInv
    <2> QED BY <2>1 DEF Stay, Outside, HomeInv, PublicPlaces
  <1>2. ASSUME NEW w \in Worker
        PROVE  At(w)' \notin {"spin", "detaching", "detached"}
    <2>1. Stay(w) \/ WorkerMove(w)
      BY Moves, ThreadAssumption DEF Thread, HomeInv, CacheInv
    <2> QED BY <2>1 DEF Stay, WorkerMove, Enter, Walk, Leave, HomeInv, PublicPlaces
  <1> QED BY <1>1, <1>2 DEF PublicPlaces

(* A worker inside a mailbox that gets detached is the one that detaches it,*)
(* which happens at home only.                                              *)
LEMMA RemovedHomeStep ==
    ASSUME Settled, HomeInv, CacheInv', AtHome', [Next]_vars
    PROVE  RemovedHome'
  <1>1. CASE HomeOnly
    BY <1>1 DEF AtHome, WorkersHome, RemovedHome, Inside, Removing, OnMailbox
  <1>2. CASE Mortal = {}
    <2> SUFFICES ASSUME NEW w \in Worker, At(w)' \in Inside, schedLock'[cur'[w]] = DETACHED
                 PROVE  Home[UidOf[cur'[w]]] = w
      BY DEF RemovedHome
    <2>0. w \in Thread /\ w \notin Public /\ TypeInv /\ LockInv /\ OneHolder /\ DetachedFirst
      BY ThreadAssumption DEF Thread, HomeInv, CacheInv, ExclusionInv
    <2>1. CASE At(w)' \in Removing
      BY <2>1 DEF CacheInv, Scans, Visits, Visiting
    <2>2. CASE At(w)' \in {"run", "handler", "unlock"}
      <3>1. Stay(w) \/ Walk(w)
        <4>1. Stay(w) \/ WorkerMove(w)
          BY <2>0, Moves
        <4> QED BY <2>2, <4>1 DEF WorkerMove, Enter, Leave
      <3>2. PICK m \in Mailbox : m = cur[w] /\ m = cur'[w]
        <4>1. cur'[w] = cur[w] /\ At(w) \in {"grab", "run", "handler", "unlock"}
          BY <2>2, <3>1 DEF Stay, Walk
        <4> QED BY <2>0, <4>1 DEF TypeInv, Registers, OnMailbox
      <3>3. CASE schedLock[m] = DETACHED
        <4>1. At(w) \in Inside
          BY <2>2, <3>1, <3>2, <3>3, ThreadAssumption DEF Stay, Walk, Inside
        <4> QED BY <3>2, <3>3, <4>1 DEF HomeInv, RemovedHome
      <3>4. CASE schedLock[m] # DETACHED
        <4>1. PICK p \in Public : Detaching(p) /\ cur[p] = m
          <5>1. \A r \in Worker : HandlerDetach(r) => FALSE
            BY <1>2 DEF HandlerDetach
          <5> QED BY <2>0, <3>2, <3>4, <5>1, WhoDetaches
        <4>2. Holds(p, m) /\ p \in Thread /\ p # w
          BY <2>0, <4>1 DEF Detaching, Holds, Holding, At, Thread
        <4>3. CASE At(w) = "grab"
          <5>1. schedLock[m] = READY
            BY <2>2, <3>1, <3>2, <4>3 DEF Stay, Walk
          <5> QED BY <2>0, <3>4, <4>2, <5>1, LockIds DEF LockInv
        <4>4. CASE At(w) # "grab"
          <5>1. Holds(w, m)
            BY <2>2, <3>1, <3>2, <4>4 DEF Stay, Walk, Holds, Holding
          <5> QED BY <2>0, <4>2, <5>1 DEF OneHolder
        <4> QED BY <4>3, <4>4
      <3> QED BY <3>3, <3>4
    <2> QED BY <2>1, <2>2 DEF Inside
  <1> QED BY <1>1, <1>2 DEF Settled

LEMMA DetachedFirstStep == ASSUME HomeInv, [Next]_vars PROVE DetachedFirst'
  <1> USE DEF Removing
  <1>0. TypeInv /\ DetachedFirst
    BY DEF HomeInv, CacheInv
  <1>1. ASSUME NEW t \in Thread, At(t)' \in Removing \cup {"detached"}
        PROVE  schedLock'[cur'[t]] = DETACHED
    <2>1. Stay(t) \/ Walk(t) \/ Outside(t)
      BY <1>0, <1>1, Moves DEF WorkerMove, Enter, Leave
    <2>2. CASE At(t) \in Removing \cup {"detached"}
      <3>1. cur'[t] = cur[t] /\ cur[t] \in Mailbox /\ schedLock[cur[t]] = DETACHED
        BY <1>0, <1>1, <2>1, <2>2 DEF Stay, Walk, Outside, DetachedFirst, TypeInv, Registers, OnMailbox
      <3> QED BY <1>0, <3>1, DetachedIsFinal
    <2>3. CASE At(t) \in {"grab", "unlock"} /\ Walk(t)
      <3>1. cur'[t] = cur[t] /\ cur[t] \in Mailbox
        BY <1>0, <2>3 DEF Walk, TypeInv, Registers, OnMailbox
      <3>2. schedLock[cur[t]] = DETACHED
        <4>1. CASE At(t) = "grab"
          BY <1>1, <2>3, <4>1 DEF Walk
        <4>2. CASE At(t) = "unlock"
          <5>1. ran[t] = FALSE
            BY <1>1, <2>3, <4>2 DEF Walk
          <5>2. t \in Worker
            BY <1>0, <2>3, <4>2 DEF HomeInv, PublicPlaces, Thread
          <5> QED BY <1>0, <5>1, <5>2 DEF DetachedFirst
        <4> QED BY <2>3, <4>1, <4>2
      <3> QED BY <1>0, <3>1, <3>2, DetachedIsFinal
    <2>4. CASE Outside(t) /\ At(t) = "detaching"
      BY <1>1, <2>4 DEF Outside
    <2> QED BY <1>1, <2>1, <2>2, <2>3, <2>4 DEF Stay, Walk, Outside
  <1>2. ASSUME NEW w \in Worker, ran'[w] = FALSE
        PROVE  At(w)' = "unlock" /\ schedLock'[cur'[w]] = DETACHED
    <2>0. w \in Thread /\ w \notin Public
      BY ThreadAssumption DEF Thread
    <2>1. Stay(w) \/ WorkerMove(w)
      BY <1>0, <2>0, Moves
    <2>2. At(w)' = "unlock" /\ cur'[w] = cur[w] /\ schedLock[cur[w]] = DETACHED
          /\ At(w) \in OnMailbox
      BY <1>0, <1>2, <2>1 DEF Stay, WorkerMove, Enter, Walk, Leave, DetachedFirst, OnMailbox
    <2>3. cur[w] \in Mailbox
      BY <1>0, <2>0, <2>2 DEF TypeInv, Registers
    <2> QED BY <1>0, <2>2, <2>3, DetachedIsFinal
  <1> QED BY <1>1, <1>2 DEF DetachedFirst

(* An actor object is destroyed by atExit or by the owner that detached it. *)
LEMMA DeletedMoves ==
    ASSUME TypeInv, [Next]_vars, NEW m \in deleted' \ deleted
    PROVE  \E t \in Thread : /\ At(t) \in {"exit", "detached"} /\ cur[t] = m
                             /\ t \in Public => At(t) = "detached"
                             /\ At(t)' \in {"clear", "idle"} /\ Others(t)
  <1>1. ASSUME NEW w \in Worker, WorkerStep(w)
        PROVE  Exit(w) /\ cur[w] = m
    BY <1>1 DEF WorkerStep, PostPush, PostNotify, PopOwn, Steal, PickUID, BeginScan, VisitNext,
       EndScan, Grab, LockFree, RunNext, RunEmpty, RunSwap, RunDetached, RunDispatch, Unlock, HandlerPost, Send, HandlerAttach, Attach, HandlerDetach, ExitLater,
       HandlerReturn, Exit, Clear, Bounce, ClearDone, Erase, mailboxVars
  <1>2. ASSUME NEW p \in Public, PublicStep(p)
        PROVE  DetachReturn(p) /\ cur[p] = m
    BY <1>2 DEF PublicStep, PostPush, PostNotify, PublicAttach, Attach, PublicDetach, PublicPost,
       Send, SpinGrab, Detaching, DetachReturn, mailboxVars
  <1>3. ~UNCHANGED vars
    BY DEF vars, mailboxVars
  <1>4. ASSUME NEW w \in Worker, WorkerStep(w)
        PROVE  At(w) = "exit" /\ At(w)' = "clear" /\ Others(w) /\ w \notin Public
    BY <1>1, <1>4, WorkerMoves, ThreadAssumption DEF Exit, At, TypeInv, TypeOK, Thread
  <1>5. ASSUME NEW p \in Public, PublicStep(p)
        PROVE  At(p) = "detached" /\ At(p)' = "idle" /\ Others(p)
    BY <1>2, <1>5, PublicMoves DEF DetachReturn, At, TypeInv, TypeOK, Thread
  <1> QED BY <1>1, <1>2, <1>3, <1>4, <1>5 DEF Next, Thread

LEMMA DeadIdleStep == ASSUME HomeInv, [Next]_vars PROVE DeadIdle'
  <1>0. /\ TypeInv /\ DeadIdle /\ RemovedHome /\ PublicPlaces /\ OneHolder /\ DetachedFirst
        /\ deleted \subseteq Mailbox
    BY DEF HomeInv, CacheInv, ExclusionInv, TypeInv, TypeOK
  <1>1. ASSUME NEW m \in deleted
        PROVE  schedLock'[m] = DETACHED /\ NotRun(m)'
    <2>1. m \in Mailbox /\ schedLock[m] = DETACHED /\ NotRun(m)
      BY <1>0 DEF DeadIdle
    <2>2. ASSUME NEW t \in Thread, cur'[t] = m, At(t)' \in {"run", "handler"}
          PROVE  FALSE
      <3>1. Stay(t) \/ Walk(t)
        BY <1>0, <2>2, Moves DEF WorkerMove, Enter, Leave, Outside
      <3>2. CASE At(t) \in {"run", "handler"}
        BY <2>1, <2>2, <3>1, <3>2 DEF NotRun, Stay, Walk
      <3>3. CASE At(t) = "grab" /\ Walk(t)
        BY <2>1, <2>2, <3>3, ThreadAssumption DEF Walk
      <3> QED BY <2>2, <3>1, <3>2, <3>3 DEF Stay, Walk
    <2> QED BY <1>0, <2>1, <2>2, DetachedIsFinal DEF NotRun
  <1>2. ASSUME NEW m \in deleted' \ deleted
        PROVE  schedLock'[m] = DETACHED /\ NotRun(m)'
    <2>1. PICK t \in Thread : /\ At(t) \in {"exit", "detached"} /\ cur[t] = m
                              /\ t \in Public => At(t) = "detached"
                              /\ At(t)' \in {"clear", "idle"} /\ Others(t)
      BY <1>0, <1>2, DeletedMoves
    <2>2. m \in Mailbox /\ schedLock[m] = DETACHED
      BY <1>0, <2>1 DEF DetachedFirst, Removing, TypeInv, Registers, OnMailbox
    <2>3. ASSUME NEW r \in Thread, cur'[r] = m, At(r)' \in {"run", "handler"}
          PROVE  FALSE
      <3>1. r # t /\ cur[r] = m /\ At(r) \in {"run", "handler"}
        BY <2>1, <2>3 DEF Others, Stay
      <3>2. r \in Worker /\ Home[UidOf[m]] = r
        BY <1>0, <2>2, <3>1 DEF PublicPlaces, RemovedHome, Inside, Thread
      <3>3. CASE At(t) = "detached"
        BY <1>0, <2>1, <2>2, <3>1, <3>3 DEF OneHolder, Holds, Holding
      <3>4. CASE At(t) = "exit"
        <4>1. t \in Worker
          BY <2>1, <3>4 DEF Thread
        <4> QED BY <1>0, <2>1, <2>2, <3>1, <3>2, <3>4, <4>1 DEF RemovedHome, Inside, Removing
      <3> QED BY <2>1, <3>3, <3>4
    <2> QED BY <1>0, <2>2, <2>3, DetachedIsFinal DEF NotRun
  <1> QED BY <1>1, <1>2 DEF DeadIdle

LEMMA InitHome == Init => HomeInv
  <1> SUFFICES ASSUME Init PROVE HomeInv
    OBVIOUS
  <1>1. \A t \in Thread : At(t) = "idle" /\ cur[t] = None
    BY DEF Init, At
  <1>2. TypeInv
    BY InitType
  <1>3. CacheInv
    BY <1>1, <1>2 DEF Init, CacheInv, CacheListed, Scans, Visits, Born, Removing, Visiting,
                      OnMailbox, Listed, Thread
  <1>4. ExclusionInv
    BY <1>1, <1>2 DEF ExclusionInv, LockInv, OneHolder, Holds, Holding
  <1>5. AtHome /\ PublicPlaces /\ RemovedHome /\ DetachedFirst /\ DeadIdle
    BY <1>1 DEF Init, AtHome, UidsHome, WorkersHome, PublicPlaces, RemovedHome, Inside, DetachedFirst,
                DeadIdle, Removing, OnMailbox, Thread
  <1> QED BY <1>3, <1>4, <1>5 DEF HomeInv

LEMMA HomeStep == ASSUME Settled PROVE HomeInv /\ [Next]_vars => HomeInv'
  <1> SUFFICES ASSUME HomeInv, [Next]_vars PROVE HomeInv'
    OBVIOUS
  <1>1. CacheInv'
    <2>1. CacheInv /\ UNCHANGED vars => CacheInv'
      BY StutterType DEF CacheInv, CacheListed, Scans, Visits, Born, Listed, At, vars,
                         mailboxVars, bucketVars, postVars, workerVars
    <2> QED BY <2>1, WorkerCache, PublicCache DEF HomeInv, Next
  <1>2. ExclusionInv'
    BY WorkerExclusion, PublicExclusion, StutterExclusion DEF HomeInv, Next
  <1>3. AtHome'
    BY UidsHomeStep, WorkersHomeStep DEF AtHome
  <1> QED
    BY <1>1, <1>2, <1>3, PublicPlacesStep, RemovedHomeStep, DetachedFirstStep, DeadIdleStep DEF HomeInv

(* The inductive invariant of the removal of actors: it comes after         *)
(* detach(), from when on only the worker of the bucket is inside the       *)
(* mailbox, and nobody runs what is destroyed.                              *)
THEOREM HomeInvariant == ASSUME Settled PROVE Spec => []HomeInv
  <1>1. HomeInv /\ [Next]_vars => HomeInv'
    BY HomeStep
  <1> QED BY <1>1, InitHome, PTL DEF Spec

(* "detach() guarantees that no thread accesses the actor afterwards"       *)
(* (actorpool.cpp:186, :309) holds when actors run on their own worker      *)
(* only, whether they deactivate themselves or are destroyed from outside;  *)
(* with stealing on, when they are only destroyed from outside.             *)
THEOREM AliveWhenSettled == ASSUME Settled PROVE Spec => []HandlerAlive
  <1>1. HomeInv => HandlerAlive
    BY DEF HomeInv, DeadIdle, NotRun, HandlerAlive, InHandler
  <1> QED BY <1>1, HomeInvariant, PTL

-----------------------------------------------------------------------------
(* Which mailboxes are still there.  Only the worker of its bucket is       *)
(* inside a detached mailbox, and only it erases one; the r-lock kept by    *)
(* everybody else who pushes, or tries the lock, keeps it from doing so.    *)
Placeless == \A t \in Thread : At(t) \notin OnMailbox => cur[t] = None
WorkersListed == \A w \in Worker : At(w) \in OnMailbox => phase[cur[w]] = "listed"
PushesListed == \A t \in Thread : pc[t] = "push" => phase[tgt[t]] = "listed"

ListedInv == HomeInv /\ Placeless /\ WorkersListed /\ PushesListed

LEMMA OnlyEraseUnlists ==
    ASSUME TypeInv, [Next]_vars, NEW m \in Mailbox, phase[m] = "listed", phase'[m] # "listed"
    PROVE  \E w \in Worker : Erase(w) /\ cur[w] = m /\ Others(w)
  <1>0. phase \in [Mailbox -> {"unborn", "listed", "erased"}]
    BY DEF TypeInv, TypeOK
  <1>1. ASSUME NEW t \in Thread, NEW n \in Mailbox, Attach(t, n)
        PROVE  FALSE
    BY <1>0, <1>1 DEF Attach
  <1>2. phase' # phase
    OBVIOUS
  <1>3. ASSUME NEW w \in Worker, WorkerStep(w)
        PROVE  Erase(w) /\ cur[w] = m /\ Others(w)
    <2>1. CASE \E n \in Mailbox : HandlerAttach(w, n)
      BY <1>1, <2>1 DEF HandlerAttach, Thread
    <2>2. CASE Erase(w)
      BY <1>0, <2>2, <1>3, WorkerMoves DEF Erase
    <2>3. CASE ~(Erase(w) \/ \E n \in Mailbox : HandlerAttach(w, n))
      BY <1>2, <1>3, <2>3 DEF WorkerStep, PostPush, PostNotify, PopOwn, Steal, PickUID, BeginScan,
         VisitNext, EndScan, Grab, LockFree, RunNext, RunEmpty, RunSwap, RunDetached, RunDispatch,
         Unlock, HandlerPost, Send, HandlerDetach, HandlerReturn, Exit, Clear, Bounce, ClearDone,
         mailboxVars
    <2> QED BY <2>1, <2>2, <2>3
  <1>4. ASSUME NEW p \in Public, PublicStep(p)
        PROVE  FALSE
    <2>1. CASE \E n \in Mailbox : PublicAttach(p, n)
      BY <1>1, <2>1 DEF PublicAttach, Thread
    <2>2. CASE ~(\E n \in Mailbox : PublicAttach(p, n))
      BY <1>2, <1>4, <2>2 DEF PublicStep, PostPush, PostNotify, PublicDetach, PublicPost, Send,
         SpinGrab, Detaching, DetachReturn, mailboxVars
    <2> QED BY <2>1, <2>2
  <1>5. ~UNCHANGED vars
    BY <1>2 DEF vars, mailboxVars
  <1> QED BY <1>3, <1>4, <1>5 DEF Next

(* A push is of a mailbox found just now, or was under way.                 *)
Found(t) == tgt'[t] \in Mailbox /\ phase[tgt'[t]] = "listed"
Pushing(t) == pc'[t] = "push" => Found(t) \/ (pc[t] = "push" /\ tgt'[t] = tgt[t])

LEMMA LookupPushes ==
    ASSUME TypeInv, NEW t \in Thread, NEW u, NEW msg, NEW r, PostLookup(t, u, msg, r), pc[t] = r,
           NEW q \in Thread
    PROVE  Pushing(q)
  <1>0. pc \in [Thread -> PC] /\ tgt \in [Thread -> Mailbox \cup {None}]
    BY DEF TypeInv, TypeOK
  <1>1. CASE Find(u) = {}
    BY <1>0, <1>1 DEF PostLookup, Pushing, postVars
  <1>2. CASE Find(u) # {}
    <2>1. PICK m \in Find(u) : tgt' = [tgt EXCEPT ![t] = m] /\ pc' = [pc EXCEPT ![t] = "push"]
      BY <1>2 DEF PostLookup
    <2>2. m \in Mailbox /\ phase[m] = "listed"
      BY FindIsMailbox
    <2> QED BY <1>0, <2>1, <2>2 DEF Pushing, Found
  <1> QED BY <1>1, <1>2

LEMMA Pushes ==
    ASSUME TypeInv, [Next]_vars, NEW q \in Thread
    PROVE  Pushing(q)
  <1>0. pc \in [Thread -> PC] /\ tgt \in [Thread -> Mailbox \cup {None}]
        /\ back \in [Thread -> {"idle", "handler", "bounce"}]
    BY DEF TypeInv, TypeOK
  <1>2. ASSUME NEW t \in Thread, PostPush(t) \/ PostNotify(t)
        PROVE  Pushing(q)
    <2>1. back[t] # "push"
      BY <1>0
    <2>2. \/ pc' = [pc EXCEPT ![t] = back[t]] /\ tgt' = [tgt EXCEPT ![t] = None]
          \/ pc' = [pc EXCEPT ![t] = "notify"] /\ tgt' = tgt
      BY <1>2 DEF PostPush, PostNotify, PostReturn, postVars
    <2> QED BY <1>0, <2>1, <2>2 DEF Pushing
  <1>3. ASSUME UNCHANGED <<pc, tgt>>
        PROVE  Pushing(q)
    BY <1>3 DEF Pushing
  <1>4. ASSUME NEW w \in Worker, WorkerStep(w)
        PROVE  Pushing(q)
    <2>0. w \in Thread
      BY DEF Thread
    <2>1. CASE PostPush(w) \/ PostNotify(w)
      BY <1>2, <2>0, <2>1
    <2>2. CASE \E u \in UID, i \in MsgId : HandlerPost(w, u, i)
      BY <2>0, <2>2, LookupPushes DEF HandlerPost, Send
    <2>3. CASE Bounce(w)
      <3> DEFINE msg == currQ[cur[w]][pos[w] + 1]
      <3>1. pc[w] = "bounce"
            /\ (UNCHANGED <<pc, postVars>> \/ PostLookup(w, msg.from, BadPod(msg.id), "bounce"))
        BY <2>3 DEF Bounce
      <3> HIDE DEF msg
      <3> QED BY <1>3, <2>0, <3>1, LookupPushes DEF postVars
    <2>4. CASE ~(PostPush(w) \/ PostNotify(w) \/ (\E u \in UID, i \in MsgId : HandlerPost(w, u, i)) \/ Bounce(w))
      <3>1. \E x \in PC \ {"push"} : pc' = [pc EXCEPT ![w] = x] \/ pc' = pc
        BY <1>4, <2>4 DEF WorkerStep, PopOwn, Steal, PickUID, BeginScan, VisitNext, EndScan, Grab,
           RunNext, RunEmpty, RunSwap, RunDetached, RunDispatch, RunReturn, Unlock, HandlerAttach, Attach,
           HandlerDetach, HandlerReturn, Exit, Clear, ClearDone, Erase, Resume, PC
      <3>2. tgt' = tgt
        BY <1>4, <2>4 DEF WorkerStep, PopOwn, Steal, PickUID, BeginScan, VisitNext, EndScan, Grab,
           RunNext, Unlock, HandlerAttach, Attach,
           HandlerDetach, HandlerReturn, Exit, Clear, ClearDone, Erase, postVars
      <3> QED BY <1>0, <2>0, <3>1, <3>2 DEF Pushing
    <2> QED BY <2>1, <2>2, <2>3, <2>4
  <1>5. ASSUME NEW p \in Public, PublicStep(p)
        PROVE  Pushing(q)
    <2>0. p \in Thread
      BY DEF Thread
    <2>1. CASE PostPush(p) \/ PostNotify(p)
      BY <1>2, <2>0, <2>1
    <2>2. CASE \E u \in UID, i \in MsgId : PublicPost(p, u, i)
      BY <2>0, <2>2, LookupPushes DEF PublicPost, Send
    <2>3. CASE ~(PostPush(p) \/ PostNotify(p) \/ (\E u \in UID, i \in MsgId : PublicPost(p, u, i)))
      <3>1. \E x \in PC \ {"push"} : pc' = [pc EXCEPT ![p] = x] \/ pc' = pc
        BY <1>5, <2>3 DEF PublicStep, PublicAttach, Attach, PublicDetach, SpinGrab, Detaching,
           DetachReturn, PC
      <3>2. tgt' = tgt
        BY <1>5, <2>3 DEF PublicStep, PublicAttach, Attach, PublicDetach, SpinGrab, Detaching,
           DetachReturn, postVars
      <3> QED BY <1>0, <2>0, <3>1, <3>2 DEF Pushing
    <2> QED BY <2>1, <2>2, <2>3
  <1>6. CASE UNCHANGED vars
    BY <1>3, <1>6 DEF vars, postVars
  <1> QED BY <1>4, <1>5, <1>6 DEF Next

LEMMA PlacelessStep == ASSUME TypeInv, Placeless, [Next]_vars PROVE Placeless'
  <1> SUFFICES ASSUME NEW t \in Thread, At(t)' \notin OnMailbox
               PROVE  cur'[t] = None
    BY DEF Placeless
  <1>1. Stay(t) \/ WorkerMove(t) \/ Outside(t)
    BY Moves
  <1> QED BY <1>1 DEF Placeless, Stay, WorkerMove, Enter, Walk, Leave, Outside, OnMailbox

(* Who is at a mailbox, or pushes into one, when a worker erases it.        *)
LEMMA NobodyElse ==
    ASSUME HomeInv, NEW w \in Worker, Erase(w), NEW t \in Thread, t # w
    PROVE  /\ t \in Worker /\ At(t) \in OnMailbox => cur[t] # cur[w]
           /\ pc[t] = "push" => tgt[t] # cur[w]
  <1>1. pc[w] = "erase" /\ At(w) = "erase" /\ WLockFree(w) /\ w \in Thread
    BY DEF Erase, At, Thread
  <1>2. schedLock[cur[w]] = DETACHED
    BY <1>1 DEF HomeInv, DetachedFirst, Removing
  <1>3. Home[UidOf[cur[w]]] = w
    BY <1>1, <1>2 DEF HomeInv, RemovedHome, Inside, Removing
  <1>4. ~RLocks(t, w)
    BY <1>1 DEF WLockFree
  <1>5. ASSUME t \in Worker, At(t) \in OnMailbox, cur[t] = cur[w]
        PROVE  FALSE
    <2>1. At(t) # "grab"
      <3>1. At(t) = "grab" => pc[t] = "grab"
        BY DEF At, HomeInv, CacheInv, TypeInv, TypeOK
      <3> QED BY <1>3, <1>4, <1>5, <3>1 DEF RLocks
    <2>2. At(t) \in Inside
      BY <1>5, <2>1 DEF HomeInv, PublicPlaces, OnMailbox, Inside, Removing
    <2> QED BY <1>2, <1>3, <1>5, <2>2 DEF HomeInv, RemovedHome
  <1>6. pc[t] = "push" => tgt[t] # cur[w]
    BY <1>3, <1>4 DEF RLocks
  <1> QED BY <1>5, <1>6

LEMMA WorkersListedStep ==
    ASSUME ListedInv, [Next]_vars
    PROVE  WorkersListed'
  <1> SUFFICES ASSUME NEW t \in Worker, At(t)' \in OnMailbox
               PROVE  phase'[cur'[t]] = "listed"
    BY DEF WorkersListed
  <1>0. TypeInv /\ t \in Thread /\ t \notin Public
    BY ThreadAssumption DEF ListedInv, HomeInv, CacheInv, Thread
  <1>1. Stay(t) \/ WorkerMove(t)
    BY <1>0, Moves
  <1>2. cur'[t] \in Mailbox /\ phase[cur'[t]] = "listed"
    <2>1. CASE Stay(t) \/ Walk(t)
      <3>1. At(t) \in OnMailbox /\ cur'[t] = cur[t]
        BY <2>1 DEF Stay, Walk, OnMailbox
      <3> QED BY <1>0, <3>1 DEF ListedInv, WorkersListed, TypeInv, Registers
    <2>2. CASE Enter(t)
      <3>1. CASE \E u \in uidList[t] \cap UID : cur'[t] \in Find(u)
        BY <3>1, FindIsMailbox
      <3>2. CASE cur'[t] \in todo[t]
        BY <3>2 DEF ListedInv, HomeInv, CacheInv, CacheListed, Listed
      <3> QED BY <2>2, <3>1, <3>2 DEF Enter
    <2>3. CASE Leave(t)
      BY <2>3 DEF Leave, OnMailbox
    <2> QED BY <1>1, <2>1, <2>2, <2>3 DEF WorkerMove
  <1>3. ASSUME phase'[cur'[t]] # "listed"
        PROVE  FALSE
    <2>1. PICK w \in Worker : Erase(w) /\ cur[w] = cur'[t] /\ Others(w)
      BY <1>0, <1>2, <1>3, OnlyEraseUnlists
    <2>2. CASE t = w
      <3>1. At(t)' = "scan"
        BY <1>0, <2>1, <2>2 DEF Erase, At, TypeInv, TypeOK
      <3> QED BY <3>1 DEF OnMailbox
    <2>3. CASE t # w
      <3>1. Stay(t)
        BY <1>0, <2>1, <2>3 DEF Others
      <3> QED BY <1>0, <2>1, <2>3, <3>1, NobodyElse DEF Stay, ListedInv
    <2> QED BY <2>2, <2>3
  <1> QED BY <1>3

LEMMA PushesListedStep ==
    ASSUME ListedInv, [Next]_vars
    PROVE  PushesListed'
  <1> SUFFICES ASSUME NEW t \in Thread, pc'[t] = "push"
               PROVE  phase'[tgt'[t]] = "listed"
    BY DEF PushesListed
  <1>0. TypeInv
    BY DEF ListedInv, HomeInv, CacheInv
  <1>1. Found(t) \/ (pc[t] = "push" /\ tgt'[t] = tgt[t])
    BY <1>0, Pushes DEF Pushing
  <1>2. tgt'[t] \in Mailbox /\ phase[tgt'[t]] = "listed"
    BY <1>0, <1>1 DEF Found, ListedInv, PushesListed, TypeInv, Registers
  <1>3. ASSUME phase'[tgt'[t]] # "listed"
        PROVE  FALSE
    <2>1. PICK w \in Worker : Erase(w) /\ cur[w] = tgt'[t] /\ Others(w)
      BY <1>0, <1>2, <1>3, OnlyEraseUnlists
    <2>2. w \in Thread /\ pc' = [pc EXCEPT ![w] = "scan"] /\ tgt' = tgt
      BY <2>1 DEF Erase, postVars, Thread
    <2>3. t # w /\ pc[t] = "push"
      BY <1>0, <2>2 DEF TypeInv, TypeOK
    <2> QED BY <2>1, <2>2, <2>3, NobodyElse DEF ListedInv
  <1> QED BY <1>3

(* The inductive invariant of who may use a mailbox: the one a worker is    *)
(* at, or that a post is about to push to, is in the map of its bucket.     *)
THEOREM ListedInvariant == ASSUME Settled PROVE Spec => []ListedInv
  <1>1. Init => ListedInv
    <2> SUFFICES ASSUME Init PROVE ListedInv
      OBVIOUS
    <2>1. \A t \in Thread : At(t) = "idle" /\ pc[t] = "idle" /\ cur[t] = None
      BY DEF Init, At
    <2> QED BY <2>1, InitHome DEF ListedInv, Placeless, WorkersListed, PushesListed, OnMailbox, Thread
  <1>2. ListedInv /\ [Next]_vars => ListedInv'
    <2> SUFFICES ASSUME ListedInv, [Next]_vars PROVE ListedInv'
      OBVIOUS
    <2>1. HomeInv'
      BY HomeStep DEF ListedInv
    <2>2. Placeless'
      BY PlacelessStep DEF ListedInv, HomeInv, CacheInv
    <2> QED BY <2>1, <2>2, WorkersListedStep, PushesListedStep DEF ListedInv
  <1> QED BY <1>1, <1>2, PTL DEF Spec
-----------------------------------------------------------------------------
(* The mail of an actor.                                                    *)

(* The mail of an actor: what is left of currQ, then nextQ, unless          *)
(* clearOneMailbox() has copied that already.  Done(m) is read off the      *)
(* thread that goes through currQ, wherever the actor was stolen to.        *)
Rest(q, k) == SubSeq(q, k + 1, Len(q))
Copied(m) == \E t \in Thread : cur[t] = m /\ At(t) \in {"bounce", "erase"}
Fresh(m) == IF Copied(m) THEN <<>> ELSE nextQ[m]
Mail(m) == Rest(currQ[m], Done(m)) \o Fresh(m)

(* A worker counts in currQ only while it goes through it, and erases a     *)
(* mailbox only when that is empty.                                         *)
PosOK(w) == /\ At(w) \notin {"run", "handler", "bounce"} => pos[w] = 0
            /\ At(w) = "erase" => currQ[cur[w]] = <<>>
PosInv == \A w \in Worker : PosOK(w)
MailListed == \A m \in Mailbox : phase[m] # "listed" => Mail(m) = <<>>

BoxInv == ListedInv /\ PosInv /\ MailListed

-----------------------------------------------------------------------------
(* Facts about queues.                                                      *)

LEMMA RestFacts ==
    ASSUME NEW q \in Seq(Msg), NEW k \in Nat
    PROVE  /\ Rest(q, k) \in Seq(Msg)
           /\ k = 0 => Rest(q, k) = q
           /\ k >= Len(q) => Rest(q, k) = <<>>
           /\ k < Len(q) => /\ Rest(q, k) # <<>>
                            /\ Head(Rest(q, k)) = q[k + 1]
                            /\ Rest(q, k + 1) = Tail(Rest(q, k))
  <1>0. Len(q) \in Nat
    BY LenProperties
  <1>1. Rest(q, k) \in Seq(Msg)
    BY QueueFacts DEF Rest
  <1>2. k = 0 => Rest(q, k) = q
    BY SubSeqFull DEF Rest
  <1>3. k >= Len(q) => Rest(q, k) = <<>>
    BY <1>0, SubSeqEmpty DEF Rest
  <1>4. ASSUME k < Len(q)
        PROVE  /\ Rest(q, k) # <<>>
               /\ Head(Rest(q, k)) = q[k + 1]
               /\ Rest(q, k + 1) = Tail(Rest(q, k))
    <2>1. k + 1 \in 1 .. Len(q) /\ Len(q) \in (k + 1) .. Len(q)
      BY <1>0, <1>4
    <2>2. Rest(q, k) = <<q[k + 1]>> \o SubSeq(q, k + 1 + 1, Len(q))
      BY <2>1, SubSeqRecursiveFirst DEF Rest
    <2>3. q[k + 1] \in Msg /\ SubSeq(q, k + 1 + 1, Len(q)) \in Seq(Msg)
      BY <2>1, <1>0, QueueFacts
    <2>4. Rest(q, k) # <<>>
      BY <2>2, <2>3, ConcatEqualIffEmpty, QueueFacts
    <2> QED BY <2>1, <2>4, HeadTailOfSubSeq DEF Rest
  <1> QED BY <1>1, <1>2, <1>3, <1>4

LEMMA JoinFacts ==
    ASSUME NEW q \in Seq(Msg), NEW r \in Seq(Msg)
    PROVE  /\ q \o r \in Seq(Msg)
           /\ <<>> \o q = q /\ q \o <<>> = q
           /\ \A e \in Msg : Append(q \o r, e) = q \o Append(r, e)
           /\ q # <<>> => /\ Tail(q \o r) = Tail(q) \o r
                          /\ Head(q \o r) = Head(q)
                          /\ q \o r # <<>>
           /\ q \o r = <<>> => q = <<>> /\ r = <<>>
  <1>1. q \o r \in Seq(Msg) /\ <<>> \o q = q /\ q \o <<>> = q
    OBVIOUS
  <1>2. \A e \in Msg : Append(q \o r, e) = q \o Append(r, e)
    OBVIOUS
  <1>3. q # <<>> => /\ Head(q \o r) = Head(q) /\ q \o r # <<>>
    OBVIOUS
  <1>4. q # <<>> => Tail(q \o r) = Tail(q) \o r
    OBVIOUS
  <1>5. q \o r = <<>> => q = <<>> /\ r = <<>>
    OBVIOUS
  <1> QED BY <1>1, <1>2, <1>3, <1>4, <1>5

LEMMA MailType ==
    ASSUME TypeInv, NEW m \in Mailbox
    PROVE  /\ Done(m) \in Nat /\ currQ[m] \in Seq(Msg) /\ nextQ[m] \in Seq(Msg)
           /\ Rest(currQ[m], Done(m)) \in Seq(Msg) /\ Fresh(m) \in Seq(Msg) /\ Mail(m) \in Seq(Msg)
  <1>1. currQ[m] \in Seq(Msg) /\ nextQ[m] \in Seq(Msg) /\ pos \in [Thread -> Nat]
    BY DEF TypeInv, TypeOK
  <1>2. Done(m) \in Nat
    <2>1. CASE \E t \in Thread : Runs(t, m)
      <3>1. (CHOOSE t \in Thread : Runs(t, m)) \in Thread
        BY <2>1
      <3> QED BY <1>1, <2>1, <3>1 DEF Done
    <2>2. CASE ~\E t \in Thread : Runs(t, m)
      BY <2>2 DEF Done
    <2> QED BY <2>1, <2>2
  <1>3. Fresh(m) \in Seq(Msg)
    BY <1>1 DEF Fresh
  <1> QED BY <1>1, <1>2, <1>3, RestFacts, JoinFacts DEF Mail

LEMMA NoneIsNoMailbox == None \notin Mailbox
  BY ThreadAssumption

-----------------------------------------------------------------------------
(* Who goes through the queues of a mailbox.                                *)

(* One worker at most is inside a mailbox: it holds the lock, or is the     *)
(* worker of the bucket once that is DETACHED.                              *)
LEMMA OneVisitor ==
    ASSUME HomeInv, NEW w \in Worker, NEW r \in Worker, cur[w] = cur[r],
           At(w) \in Inside, At(r) \in Inside
    PROVE  w = r
  <1>1. w \in Thread /\ r \in Thread
    BY DEF Thread
  <1>2. CASE schedLock[cur[w]] = DETACHED
    BY <1>2 DEF HomeInv, RemovedHome
  <1>3. CASE schedLock[cur[w]] # DETACHED
    <2>1. At(w) \notin Removing /\ At(r) \notin Removing
      BY <1>1, <1>3 DEF HomeInv, DetachedFirst
    <2>2. Holds(w, cur[w]) /\ Holds(r, cur[w])
      BY <2>1 DEF Holds, Holding, Inside
    <2>3. cur[w] \in Mailbox
      BY <1>1 DEF HomeInv, CacheInv, TypeInv, Registers, Inside, Removing, OnMailbox
    <2> QED BY <1>1, <2>2, <2>3 DEF HomeInv, ExclusionInv, OneHolder
  <1> QED BY <1>2, <1>3

LEMMA DoneIs ==
    HomeInv => \A m \in Mailbox, t \in Thread :
       Runs(t, m) => /\ t \in Worker /\ Done(m) = pos[t]
                     /\ Copied(m) <=> At(t) \in {"bounce", "erase"}
  <1> SUFFICES ASSUME HomeInv, NEW m \in Mailbox, NEW t \in Thread, Runs(t, m)
               PROVE  /\ t \in Worker /\ Done(m) = pos[t]
                      /\ Copied(m) <=> At(t) \in {"bounce", "erase"}
    OBVIOUS
  <1>1. \A r \in Thread : Runs(r, m) => r \in Worker /\ At(r) \in Inside /\ cur[r] = m
    BY DEF Runs, HomeInv, PublicPlaces, Inside, Removing, Thread
  <1>2. \A r \in Thread : Runs(r, m) => r = t
    BY <1>1, OneVisitor
  <1>3. (CHOOSE r \in Thread : Runs(r, m)) = t
    BY <1>2
  <1>4. Done(m) = pos[t]
    BY <1>3 DEF Done
  <1>5. Copied(m) <=> At(t) \in {"bounce", "erase"}
    BY <1>2 DEF Copied, Runs
  <1> QED BY <1>1, <1>4, <1>5

LEMMA DoneIsNext ==
    HomeInv' => \A m \in Mailbox, t \in Thread :
       Runs(t, m)' => /\ t \in Worker /\ Done(m)' = pos'[t]
                      /\ Copied(m)' <=> At(t)' \in {"bounce", "erase"}
  <1>1. (HomeInv => \A m \in Mailbox, t \in Thread :
           Runs(t, m) => /\ t \in Worker /\ Done(m) = pos[t]
                         /\ Copied(m) <=> At(t) \in {"bounce", "erase"})'
    BY DoneIs, PTL
  <1> QED BY <1>1

LEMMA NobodyRuns ==
    ASSUME NEW m, \A t \in Thread : ~Runs(t, m)
    PROVE  Done(m) = 0 /\ Copied(m) = FALSE
  BY DEF Done, Copied, Runs

LEMMA NobodyRunsNext ==
    ASSUME NEW m, \A t \in Thread : ~Runs(t, m)'
    PROVE  Done(m)' = 0 /\ Copied(m)' = FALSE
  <1>1. Done(m)' = 0
    BY DEF Done
  <1>2. Copied(m)' = FALSE
    BY DEF Copied, Runs
  <1> QED BY <1>1, <1>2

LEMMA BoxHome == (BoxInv => HomeInv /\ TypeInv) /\ (BoxInv' => HomeInv')
  BY DEF BoxInv, ListedInv, HomeInv, CacheInv

(* Whoever starts or ends going through a queue has nothing to count, and   *)
(* whoever goes on counts no further.                                       *)
Uncounted(r, m) ==
    LET Copies == At(r) \in {"bounce", "erase"} IN
    /\ Runs(r, m) /\ Runs(r, m)' => pos'[r] = pos[r] /\ (Copies' <=> Copies)
    /\ Runs(r, m) /\ ~Runs(r, m)' => pos[r] = 0 /\ ~Copies
    /\ ~Runs(r, m) /\ Runs(r, m)' => pos'[r] = 0 /\ ~Copies'

LEMMA DoneKept ==
    ASSUME HomeInv, HomeInv', NEW m \in Mailbox, \A r \in Thread : Uncounted(r, m)
    PROVE  Done(m)' = Done(m) /\ Copied(m)' = Copied(m)
  <1> DEFINE BE == {"bounce", "erase"}
  <1>1. \A r \in Thread :
           /\ Runs(r, m) /\ Runs(r, m)' => pos'[r] = pos[r] /\ (At(r)' \in BE <=> At(r) \in BE)
           /\ Runs(r, m) /\ ~Runs(r, m)' => pos[r] = 0 /\ At(r) \notin BE
           /\ ~Runs(r, m) /\ Runs(r, m)' => pos'[r] = 0 /\ At(r)' \notin BE
    BY DEF Uncounted
  <1> HIDE DEF BE
  <1>2. ASSUME NEW r \in Thread, Runs(r, m)
        PROVE  Done(m) = pos[r] /\ (Copied(m) <=> At(r) \in BE)
    BY <1>2, DoneIs DEF BE
  <1>3. ASSUME NEW r \in Thread, Runs(r, m)'
        PROVE  Done(m)' = pos'[r] /\ (Copied(m)' <=> At(r)' \in BE)
    BY <1>3, DoneIsNext DEF BE
  <1>4. (\A r \in Thread : ~Runs(r, m)) => Done(m) = 0 /\ Copied(m) = FALSE
    BY NobodyRuns
  <1>5. (\A r \in Thread : ~Runs(r, m)') => Done(m)' = 0 /\ Copied(m)' = FALSE
    BY NobodyRunsNext
  <1>6. Done(m)' = Done(m) /\ (Copied(m)' <=> Copied(m))
    BY <1>1, <1>2, <1>3, <1>4, <1>5
  <1> QED BY <1>6 DEF Copied

-----------------------------------------------------------------------------
(* What a step does to the mail.                                            *)
MailKept == \A m \in Mailbox : Mail(m)' = Mail(m)
OnlyMail(m, q) == Mail(m)' = q /\ \A n \in Mailbox \ {m} : Mail(n)' = Mail(n)

LEMMA SameMail ==
    ASSUME NEW m \in Mailbox, currQ'[m] = currQ[m], nextQ'[m] = nextQ[m],
           Done(m)' = Done(m), Copied(m)' = Copied(m)
    PROVE  Mail(m)' = Mail(m)
  BY DEF Mail, Fresh

(* Mailboxes the stepping thread is not at, and those it is at or leaves    *)
(* while it does not count.                                                 *)
LEMMA ElsewhereSame ==
    ASSUME BoxInv, HomeInv', NEW t \in Thread, Others(t), NEW m \in Mailbox,
           \A r \in Thread : r # t => pos'[r] = pos[r],
           cur[t] # m, cur'[t] # m
    PROVE  Done(m)' = Done(m) /\ Copied(m)' = Copied(m)
  <1>1. ASSUME NEW r \in Thread
        PROVE  Uncounted(r, m)
    <2>1. CASE r = t
      BY <2>1 DEF Uncounted, Runs
    <2>2. CASE r # t
      <3>1. At(r)' = At(r) /\ cur'[r] = cur[r] /\ pos'[r] = pos[r]
        BY <2>2 DEF Others, Stay
      <3> QED BY <3>1 DEF Uncounted, Runs
    <2> QED BY <2>1, <2>2
  <1> QED BY <1>1, DoneKept, BoxHome

LEMMA UncountedSame ==
    ASSUME BoxInv, HomeInv', NEW t \in Thread, Others(t), UNCHANGED pos, NEW m \in Mailbox,
           \/ Stay(t) \/ t \in Public
           \/ /\ t \in Worker /\ WorkerMove(t)
              /\ At(t) \notin {"bounce", "erase"} /\ At(t)' \notin {"bounce", "erase"}
    PROVE  Done(m)' = Done(m) /\ Copied(m)' = Copied(m)
  <1>0. HomeInv
    BY BoxHome
  <1>1. ASSUME NEW r \in Thread
        PROVE  Uncounted(r, m)
    <2>1. CASE r # t \/ Stay(t)
      <3>1. At(r)' = At(r) /\ cur'[r] = cur[r] /\ pos'[r] = pos[r]
        BY <2>1 DEF Others, Stay
      <3> QED BY <3>1 DEF Uncounted, Runs
    <2>2. CASE r = t /\ t \in Public
      <3>1. ~Runs(t, m) /\ ~Runs(t, m)'
        BY <1>0, <2>2 DEF Runs, HomeInv, PublicPlaces
      <3> QED BY <2>2, <3>1 DEF Uncounted
    <2>3. CASE r = t /\ t \in Worker /\ WorkerMove(t) /\ At(t) \notin {"bounce", "erase"} /\ At(t)' \notin {"bounce", "erase"}
      <3>1. pos'[t] = pos[t] /\ (At(t) \notin {"run", "handler"} => pos[t] = 0)
        BY <2>3 DEF BoxInv, PosInv, PosOK
      <3>2. At(t) \in {"run", "handler"} => (Runs(t, m) <=> Runs(t, m)')
        BY <2>3 DEF WorkerMove, Enter, Walk, Leave, Runs
      <3> QED BY <2>3, <3>1, <3>2 DEF Uncounted
    <2> QED BY <2>1, <2>2, <2>3
  <1> QED BY <1>0, <1>1, DoneKept

(* A step that only moves threads.                                          *)
LEMMA UncountedMail ==
    ASSUME BoxInv, HomeInv', NEW t \in Thread, Others(t), UNCHANGED <<currQ, nextQ, pos>>,
           \/ Stay(t) \/ t \in Public
           \/ /\ t \in Worker /\ WorkerMove(t)
              /\ At(t) \notin {"bounce", "erase"} /\ At(t)' \notin {"bounce", "erase"}
    PROVE  MailKept
  <1> SUFFICES ASSUME NEW m \in Mailbox PROVE Mail(m)' = Mail(m)
    BY DEF MailKept
  <1> QED BY UncountedSame, SameMail

(* A step of the worker inside m that rewrites the queues of m alone leaves *)
(* all other mail as it is.                                                 *)
LEMMA OwnMail ==
    ASSUME BoxInv, HomeInv', NEW w \in Worker, At(w) \in Inside, Others(w), cur'[w] \in {cur[w], None},
           \A n \in Mailbox \ {cur[w]} : currQ'[n] = currQ[n] /\ nextQ'[n] = nextQ[n],
           \A r \in Thread : r # w => pos'[r] = pos[r]
    PROVE  \A n \in Mailbox \ {cur[w]} : Mail(n)' = Mail(n)
  <1>1. w \in Thread
    BY DEF Thread
  <1>2. ASSUME NEW n \in Mailbox \ {cur[w]}
        PROVE  Mail(n)' = Mail(n)
    <2>1. cur'[w] # n /\ cur[w] # n
      BY <1>2, NoneIsNoMailbox
    <2> QED BY <1>1, <2>1, ElsewhereSame, SameMail
  <1> QED BY <1>2
-----------------------------------------------------------------------------
(* What a step does to the messages that are being pushed.                  *)
InPush(t, i) == pc[t] = "push" /\ out[t].kind = "msg" /\ out[t].id = i
PushKept == \A t \in Thread, i \in MsgId : InPush(t, i)' <=> InPush(t, i)
PushMore(t, i) == \A r \in Thread, j \in MsgId : InPush(r, j)' <=> InPush(r, j) \/ (r = t /\ j = i)
PushLess(t) == \A r \in Thread, j \in MsgId : InPush(r, j)' <=> InPush(r, j) /\ r # t

(* A step outside of a post.                                                *)
LEMMA NoPush ==
    ASSUME TypeInv, NEW t \in Thread, NEW x, x # "push", pc[t] # "push",
           pc' = [pc EXCEPT ![t] = x] \/ pc' = pc, UNCHANGED out
    PROVE  PushKept
  <1>1. pc \in [Thread -> PC]
    BY DEF TypeInv, TypeOK
  <1> QED BY <1>1 DEF PushKept, InPush

LEMMA ReturnFromPush ==
    ASSUME TypeInv, NEW t \in Thread, PostReturn(t)
    PROVE  PushLess(t)
  <1>1. pc \in [Thread -> PC] /\ back[t] # "push" /\ out \in [Thread -> Msg \cup {None}]
    BY DEF TypeInv, TypeOK
  <1> QED BY <1>1 DEF PushLess, InPush, PostReturn

LEMMA NotPushing ==
    ASSUME NEW t \in Thread, pc[t] # "push", PushLess(t)
    PROVE  PushKept
  BY DEF PushKept, PushLess, InPush

LEMMA Lookup ==
    ASSUME TypeInv, NEW t \in Thread, NEW u, NEW msg, NEW r, PostLookup(t, u, msg, r),
           pc[t] = r, r # "push"
    PROVE  \/ Find(u) = {} /\ PushKept
           \/ Find(u) # {} /\ \A q \in Thread, i \in MsgId :
                 InPush(q, i)' <=> InPush(q, i) \/ (q = t /\ msg.kind = "msg" /\ msg.id = i)
  <1>0. pc \in [Thread -> PC] /\ out \in [Thread -> Msg \cup {None}]
    BY DEF TypeInv, TypeOK
  <1>1. CASE Find(u) = {}
    <2>1. pc' = [pc EXCEPT ![t] = r] /\ UNCHANGED out
      BY <1>1 DEF PostLookup, postVars
    <2> QED BY <1>1, <2>1, NoPush
  <1>2. CASE Find(u) # {}
    <2>1. out' = [out EXCEPT ![t] = msg] /\ pc' = [pc EXCEPT ![t] = "push"]
      BY <1>2 DEF PostLookup
    <2> QED BY <1>0, <1>2, <2>1 DEF InPush
  <1> QED BY <1>1, <1>2

-----------------------------------------------------------------------------
(* The effects a step may have on messages.  Every other fact about them    *)
(* follows from these.                                                      *)
Quiet == MailKept /\ PushKept /\ UNCHANGED history
Sends(t, i) ==
    /\ i \notin sent /\ sent' = sent \cup {i} /\ MailKept
    /\ \/ PushMore(t, i) /\ fate' = fate
       \/ PushKept /\ fate' = [fate EXCEPT ![i] = @ \cup {"refused"}]
Delivers(t, m) ==
    /\ pc[t] = "push" /\ tgt[t] = m /\ schedLock[m] # DETACHED
    /\ OnlyMail(m, Append(Mail(m), out[t]))
    /\ PushLess(t) /\ UNCHANGED history
Drops(t) ==
    /\ pc[t] = "push" /\ MailKept /\ PushLess(t)
    /\ fate' = Outcome(out[t], "refused") /\ sent' = sent
Takes(m) ==
    /\ Mail(m) # <<>> /\ OnlyMail(m, Tail(Mail(m))) /\ PushKept /\ sent' = sent
    /\ \E what \in {"handled", "bounced", "dropped"} : fate' = Outcome(Head(Mail(m)), what)
Bears(m) ==
    /\ Mail(m) = <<>> /\ phase'[m] = "listed" /\ OnlyMail(m, <<Activate>>)
    /\ PushKept /\ UNCHANGED history
Effect ==
    \/ Quiet
    \/ \E t \in Thread : (\E i \in MsgId : Sends(t, i)) \/ (\E m \in Mailbox : Delivers(t, m)) \/ Drops(t)
    \/ \E m \in Mailbox : Takes(m) \/ Bears(m)

(* Posting.                                                                 *)
LEMMA PushEffect ==
    ASSUME BoxInv, HomeInv', NEW t \in Thread, PostPush(t), Others(t), Stay(t)
    PROVE  Drops(t) \/ \E m \in Mailbox : Delivers(t, m)
  <1>0. /\ TypeInv /\ pc[t] = "push" /\ tgt[t] \in Mailbox /\ out[t] \in Msg
        /\ UNCHANGED <<currQ, pos, sent>>
    BY DEF PostPush, BoxInv, ListedInv, HomeInv, CacheInv, TypeInv, Registers, workerVars
  <1>1. CASE schedLock[tgt[t]] = DETACHED
    <2>1. PostReturn(t) /\ fate' = Outcome(out[t], "refused") /\ UNCHANGED nextQ
      BY <1>1 DEF PostPush, PushRefused
    <2>2. MailKept
      BY <1>0, <2>1, UncountedMail
    <2> QED BY <1>0, <2>1, <2>2, ReturnFromPush DEF Drops
  <1>2. CASE schedLock[tgt[t]] # DETACHED
    <2>0. PICK m \in Mailbox : m = tgt[t]
      BY <1>0
    <2>1. /\ pc' = [pc EXCEPT ![t] = "notify"] /\ UNCHANGED <<out, fate>>
          /\ nextQ' = [nextQ EXCEPT ![m] = Append(@, out[t])]
      BY <1>2, <2>0 DEF PostPush, PushRefused, postVars
    <2>2. PushLess(t)
      <3>1. pc \in [Thread -> PC]
        BY <1>0 DEF TypeInv, TypeOK
      <3> QED BY <2>1, <3>1 DEF PushLess, InPush
    <2>3. \A n \in Mailbox : Done(n)' = Done(n) /\ Copied(n)' = Copied(n)
      BY <1>0, UncountedSame
    <2>4. nextQ'[m] = Append(nextQ[m], out[t]) /\ \A n \in Mailbox \ {m} : nextQ'[n] = nextQ[n]
      BY <1>0, <2>0, <2>1 DEF TypeInv, TypeOK
    <2>5. Copied(m) = FALSE
      BY <1>0, <2>0, <1>2 DEF Copied, BoxInv, ListedInv, HomeInv, DetachedFirst, Removing
    <2>6. Mail(m)' = Append(Mail(m), out[t])
      <3>1. /\ Rest(currQ[m], Done(m)) \in Seq(Msg) /\ nextQ[m] \in Seq(Msg)
        BY <1>0, <2>0, MailType
      <3>2. Mail(m) = Rest(currQ[m], Done(m)) \o nextQ[m]
        BY <2>5 DEF Mail, Fresh
      <3>3. Mail(m)' = Rest(currQ[m], Done(m)) \o Append(nextQ[m], out[t])
        BY <1>0, <2>0, <2>3, <2>4, <2>5 DEF Mail, Fresh
      <3>4. \A q, r \in Seq(Msg), e \in Msg : Append(q \o r, e) = q \o Append(r, e)
        BY JoinFacts
      <3> QED BY <1>0, <3>1, <3>2, <3>3, <3>4
    <2>7. \A n \in Mailbox \ {m} : Mail(n)' = Mail(n)
      BY <1>0, <2>0, <2>3, <2>4, SameMail
    <2> QED BY <1>0, <2>0, <1>2, <2>1, <2>2, <2>6, <2>7 DEF Delivers, OnlyMail, history
  <1> QED BY <1>1, <1>2

LEMMA SendEffect ==
    ASSUME BoxInv, HomeInv', NEW t \in Thread, Others(t), Stay(t), NEW u, NEW i \in MsgId,
           NEW from \in UID \cup {None}, NEW r, Send(t, u, i, from, r), pc[t] = r, r # "push"
    PROVE  Sends(t, i)
  <1> DEFINE msg == [kind |-> "msg", id |-> i, from |-> from]
  <1>0. TypeInv
    BY DEF BoxInv, ListedInv, HomeInv, CacheInv
  <1>1. /\ i \notin sent /\ sent' = sent \cup {i} /\ PostLookup(t, u, msg, r)
        /\ fate' = Refused(u, msg) /\ UNCHANGED <<currQ, nextQ, pos>>
    BY DEF Send, mailboxVars
  <1>2. MailKept
    BY <1>1, UncountedMail
  <1>3. CASE Find(u) = {}
    <2>1. PushKept
      BY <1>0, <1>1, <1>3, Lookup
    <2>2. fate' = [fate EXCEPT ![i] = @ \cup {"refused"}]
      BY <1>1, <1>3 DEF Refused, Outcome
    <2> QED BY <1>1, <1>2, <2>1, <2>2 DEF Sends
  <1>4. CASE Find(u) # {}
    <2>1. PushMore(t, i)
      <3>1. msg.kind = "msg" /\ msg.id = i
        OBVIOUS
      <3> HIDE DEF msg
      <3>2. \A q \in Thread, j \in MsgId : InPush(q, j)' <=> InPush(q, j) \/ (q = t /\ msg.kind = "msg" /\ msg.id = j)
        BY <1>0, <1>1, <1>4, Lookup
      <3> QED BY <3>1, <3>2 DEF PushMore
    <2>2. fate' = fate
      BY <1>1, <1>4 DEF Refused
    <2> QED BY <1>1, <1>2, <2>1, <2>2 DEF Sends
  <1> QED BY <1>3, <1>4

LEMMA NotifyEffect ==
    ASSUME BoxInv, HomeInv', NEW t \in Thread, PostNotify(t), Others(t), Stay(t)
    PROVE  Quiet
  <1>1. /\ TypeInv /\ pc[t] # "push" /\ PostReturn(t)
        /\ UNCHANGED <<currQ, nextQ, pos, history>>
    BY DEF PostNotify, BoxInv, ListedInv, HomeInv, CacheInv, mailboxVars
  <1> QED BY <1>1, UncountedMail, ReturnFromPush, NotPushing DEF Quiet
(* Steps that touch no message.                                             *)
LEMMA QuietEffect ==
    ASSUME BoxInv, HomeInv', NEW t \in Thread, Others(t), Stay(t) \/ t \in Public \/ (t \in Worker /\ WorkerMove(t)),
           NEW x, x \notin {"push", "notify", "bounce", "erase"},
           pc[t] \notin {"push", "notify", "bounce", "erase"},
           pc' = [pc EXCEPT ![t] = x] \/ pc' = pc,
           UNCHANGED <<out, currQ, nextQ, pos, history>>
    PROVE  Quiet
  <1>1. TypeInv
    BY DEF BoxInv, ListedInv, HomeInv, CacheInv
  <1>2. At(t) \notin {"bounce", "erase"} /\ At(t)' \notin {"bounce", "erase"}
    BY <1>1 DEF At, TypeInv, TypeOK
  <1>3. MailKept
    BY <1>2, UncountedMail
  <1>4. PushKept
    BY <1>1, NoPush
  <1> QED BY <1>3, <1>4 DEF Quiet

LEMMA WorkerQuiet ==
    ASSUME BoxInv, HomeInv', NEW w \in Worker, WorkerStep(w),
           \/ PopOwn(w) \/ (\E v \in Worker : Steal(w, v)) \/ (\E u \in UID : PickUID(w, u))
           \/ BeginScan(w) \/ (\E m \in Mailbox : VisitNext(w, m)) \/ EndScan(w)
           \/ Grab(w) \/ Unlock(w) \/ HandlerDetach(w) \/ HandlerReturn(w) \/ Exit(w)
    PROVE  Quiet
  <1>1. w \in Thread /\ TypeInv
    BY DEF Thread, BoxInv, ListedInv, HomeInv, CacheInv
  <1>2. Others(w) /\ (Stay(w) \/ WorkerMove(w))
    BY <1>1, WorkerMoves
  <1>3. /\ \E x \in {"idle", "scan", "grab", "run", "exit", "clear"} : pc' = [pc EXCEPT ![w] = x] \/ pc' = pc
        /\ pc[w] \notin {"push", "notify", "bounce", "erase"}
    BY DEF PopOwn, Steal, Idle, PickUID, BeginScan, VisitNext, EndScan, Grab, Resume, Unlock,
       HandlerDetach, HandlerReturn, Exit
  <1>4. UNCHANGED <<out, currQ, nextQ, pos, history>>
    BY DEF PopOwn, Steal, PickUID, BeginScan, VisitNext, EndScan, Grab, Unlock,
       HandlerDetach, HandlerReturn, Exit, mailboxVars, postVars
  <1> QED BY <1>1, <1>2, <1>3, <1>4, QuietEffect

LEMMA PublicQuiet ==
    ASSUME BoxInv, HomeInv', NEW p \in Public, PublicStep(p),
           (\E m \in Mailbox : PublicDetach(p, m)) \/ SpinGrab(p) \/ Detaching(p) \/ DetachReturn(p)
    PROVE  Quiet
  <1>1. p \in Thread /\ TypeInv
    BY DEF Thread, BoxInv, ListedInv, HomeInv, CacheInv
  <1>2. Others(p)
    BY <1>1, PublicMoves
  <1>3. /\ \E x \in {"idle", "spin", "detaching", "detached"} : pc' = [pc EXCEPT ![p] = x] \/ pc' = pc
        /\ pc[p] \notin {"push", "notify", "bounce", "erase"}
        /\ UNCHANGED <<out, currQ, nextQ, pos, history>>
    BY DEF PublicDetach, SpinGrab, Detaching, DetachReturn, mailboxVars, postVars
  <1> QED BY <1>1, <1>2, <1>3, QuietEffect

(* A new mailbox finds nothing but its activation.                          *)
LEMMA AttachEffect ==
    ASSUME BoxInv, HomeInv', NEW t \in Thread, NEW m \in Mailbox, Attach(t, m), Others(t), Stay(t),
           pc[t] # "push"
    PROVE  Bears(m)
  <1>1. /\ TypeInv /\ phase[m] = "unborn" /\ UNCHANGED <<currQ, pos, pc, out, history>>
        /\ nextQ' = [nextQ EXCEPT ![m] = <<Activate>>]
    BY DEF Attach, BoxInv, ListedInv, HomeInv, CacheInv, postVars
  <1>2. /\ nextQ'[m] = <<Activate>> /\ \A n \in Mailbox \ {m} : nextQ'[n] = nextQ[n]
        /\ phase'[m] = "listed"
    BY <1>1 DEF Attach, TypeInv, TypeOK
  <1>3. \A n \in Mailbox : Done(n)' = Done(n) /\ Copied(n)' = Copied(n)
    BY <1>1, UncountedSame
  <1>4. Copied(m) = FALSE
    <2>1. \A r \in Thread : At(r) \in {"bounce", "erase"} => phase[cur[r]] = "listed"
      BY DEF BoxInv, ListedInv, HomeInv, PublicPlaces, WorkersListed, OnMailbox, Thread
    <2> QED BY <1>1, <2>1 DEF Copied
  <1>5. Mail(m) = <<>> /\ Rest(currQ[m], Done(m)) = <<>>
    <2>1. Mail(m) = <<>>
      BY <1>1 DEF BoxInv, MailListed
    <2> QED BY <1>1, <2>1, MailType, JoinFacts DEF Mail
  <1>6. Mail(m)' = <<Activate>>
    <2>1. Mail(m)' = <<>> \o <<Activate>>
      BY <1>1, <1>2, <1>3, <1>4, <1>5 DEF Mail, Fresh
    <2> QED BY <2>1, QueueFacts, MessageType, JoinFacts
  <1>7. \A n \in Mailbox \ {m} : Mail(n)' = Mail(n)
    BY <1>1, <1>2, <1>3, SameMail
  <1>8. PushKept
    BY <1>1 DEF PushKept, InPush
  <1> QED BY <1>1, <1>2, <1>5, <1>6, <1>7, <1>8 DEF Bears, OnlyMail
-----------------------------------------------------------------------------
(* The worker of a mailbox going through its queues.                        *)
LEMMA RunMail ==
    ASSUME BoxInv, HomeInv', NEW w \in Worker, RunNext(w)
    PROVE  \E m \in Mailbox :
           /\ m = cur[w] /\ m = cur'[w]
           /\ pos[w] \in Nat /\ currQ[m] \in Seq(Msg) /\ nextQ[m] \in Seq(Msg)
           /\ Mail(m) = Rest(currQ[m], pos[w]) \o nextQ[m]
           /\ Mail(m)' = Rest(currQ'[m], pos'[w]) \o nextQ'[m]
           /\ \A n \in Mailbox \ {m} : Mail(n)' = Mail(n)
           /\ PushKept /\ TypeInv
  <1>1. PICK m \in Mailbox : m = cur[w] /\ w \in Thread /\ HomeInv
    BY DEF RunNext, BoxInv, ListedInv, HomeInv, CacheInv, TypeInv, Registers, Thread, At, OnMailbox
  <1>2. /\ TypeInv /\ pc[w] = "run" /\ UNCHANGED <<cur, postVars>>
        /\ \E x \in {"run", "handler", "unlock"} : pc' = [pc EXCEPT ![w] = x] \/ pc' = pc
    BY DEF RunNext, RunEmpty, RunSwap, RunDetached, RunDispatch, RunReturn, BoxInv, ListedInv, HomeInv, CacheInv
  <1>3. Others(w) /\ m = cur'[w]
    BY <1>1, <1>2, WorkerMoves DEF WorkerStep
  <1>4. /\ \A n \in Mailbox \ {m} : currQ'[n] = currQ[n] /\ nextQ'[n] = nextQ[n]
        /\ \A r \in Thread : r # w => pos'[r] = pos[r]
    <2>1. \E q, r : currQ' = currQ \/ currQ' = [currQ EXCEPT ![m] = q]
      BY <1>1 DEF RunNext, RunEmpty, RunSwap, RunDetached, RunDispatch
    <2>2. /\ nextQ' = nextQ \/ nextQ' = [nextQ EXCEPT ![m] = <<>>]
          /\ \E k : pos' = [pos EXCEPT ![w] = k]
      BY <1>1 DEF RunNext, RunEmpty, RunSwap, RunDetached, RunDispatch, RunReturn
    <2>3. currQ \in [Mailbox -> Seq(Msg)] /\ nextQ \in [Mailbox -> Seq(Msg)] /\ pos \in [Thread -> Nat]
      BY <1>2 DEF TypeInv, TypeOK
    <2> QED BY <2>1, <2>2, <2>3
  <1>5. \A n \in Mailbox \ {m} : Mail(n)' = Mail(n)
    BY <1>1, <1>2, <1>3, <1>4, OwnMail DEF At, Inside
  <1>6. PushKept
    BY <1>1, <1>2, NoPush DEF postVars
  <1>7. At(w) = "run" /\ At(w)' \in {"run", "handler", "unlock"}
    BY <1>1, <1>2 DEF At, TypeInv, TypeOK
  <1>8. Mail(m) = Rest(currQ[m], pos[w]) \o nextQ[m]
    <2>1. Done(m) = pos[w] /\ ~Copied(m)
      BY <1>1, <1>7, DoneIs DEF Runs
    <2> QED BY <2>1 DEF Mail, Fresh
  <1>9. Mail(m)' = Rest(currQ'[m], pos'[w]) \o nextQ'[m]
    <2>1. Done(m)' = pos'[w] /\ ~Copied(m)'
      BY <1>1, <1>3, <1>7, DoneIsNext DEF Runs
    <2> QED BY <2>1 DEF Mail, Fresh
  <1>10. pos[w] \in Nat /\ currQ[m] \in Seq(Msg) /\ nextQ[m] \in Seq(Msg)
    BY <1>1, <1>2 DEF TypeInv, TypeOK
  <1> QED BY <1>1, <1>2, <1>3, <1>5, <1>6, <1>8, <1>9, <1>10

LEMMA RunEffect ==
    ASSUME BoxInv, HomeInv', NEW w \in Worker, RunNext(w)
    PROVE  \/ Quiet /\ (RunEmpty(w, cur[w]) \/ RunSwap(w, cur[w]) \/ RunDetached(w, cur[w]))
           \/ \E m \in Mailbox : m = cur[w] /\ RunDispatch(w, m) /\ Takes(m)
  <1>1. PICK m \in Mailbox :
           /\ m = cur[w] /\ m = cur'[w]
           /\ pos[w] \in Nat /\ currQ[m] \in Seq(Msg) /\ nextQ[m] \in Seq(Msg)
           /\ Mail(m) = Rest(currQ[m], pos[w]) \o nextQ[m]
           /\ Mail(m)' = Rest(currQ'[m], pos'[w]) \o nextQ'[m]
           /\ \A n \in Mailbox \ {m} : Mail(n)' = Mail(n)
           /\ PushKept /\ TypeInv
    BY RunMail
  <1>2. w \in Thread /\ sent' = sent /\ Len(currQ[m]) \in Nat
    BY <1>1, QueueFacts DEF RunNext, Thread
  <1>3. /\ currQ \in [Mailbox -> Seq(Msg)] /\ nextQ \in [Mailbox -> Seq(Msg)] /\ pos \in [Thread -> Nat]
    BY <1>1 DEF TypeInv, TypeOK
  <1>4. ASSUME Mail(m)' = Mail(m), fate' = fate
        PROVE  Quiet
    BY <1>1, <1>2, <1>4 DEF Quiet, MailKept, history
  <1>5. CASE RunEmpty(w, m)
    <2>1. /\ pos[w] >= Len(currQ[m]) /\ nextQ[m] = <<>> /\ nextQ'[m] = nextQ[m] /\ fate' = fate
          /\ currQ'[m] = <<>> /\ pos'[w] = 0
      BY <1>2, <1>3, <1>5 DEF RunEmpty, RunReturn
    <2>2. Rest(currQ[m], pos[w]) = <<>> /\ Rest(<<>>, 0) = <<>>
      BY <1>1, <2>1, RestFacts, QueueFacts
    <2> QED BY <1>1, <1>4, <1>5, <2>1, <2>2
  <1>6. CASE RunSwap(w, m)
    <2>1. /\ pos[w] >= Len(currQ[m]) /\ fate' = fate
          /\ currQ'[m] = nextQ[m] /\ nextQ'[m] = <<>> /\ pos'[w] = 0
      BY <1>2, <1>3, <1>6 DEF RunSwap
    <2>2. Rest(currQ[m], pos[w]) = <<>> /\ Rest(nextQ[m], 0) = nextQ[m]
      <3>1. Rest(currQ[m], pos[w]) = <<>>
        BY <1>1, <2>1, RestFacts
      <3>2. Rest(nextQ[m], 0) = nextQ[m]
        BY <1>1, RestFacts
      <3> QED BY <3>1, <3>2
    <2>3. <<>> \o nextQ[m] = nextQ[m] \o <<>>
      BY <1>1, JoinFacts
    <2>4. Mail(m) = <<>> \o nextQ[m]
      BY <1>1, <2>2
    <2>5. Mail(m)' = nextQ[m] \o <<>>
      BY <1>1, <2>1, <2>2
    <2> QED BY <1>1, <1>4, <1>6, <2>1, <2>3, <2>4, <2>5
  <1>7. CASE RunDetached(w, m)
    <2>1. /\ fate' = fate /\ nextQ'[m] = nextQ[m]
          /\ currQ'[m] = Rest(currQ[m], pos[w]) /\ pos'[w] = 0
      BY <1>2, <1>3, <1>7 DEF RunDetached, RunReturn, Unhandled, Rest
    <2>2. Rest(Rest(currQ[m], pos[w]), 0) = Rest(currQ[m], pos[w])
      BY <1>1, RestFacts
    <2> QED BY <1>1, <1>4, <1>7, <2>1, <2>2
  <1>8. CASE RunDispatch(w, m)
    <2>1. /\ pos[w] < Len(currQ[m]) /\ schedLock[m] # DETACHED
          /\ nextQ'[m] = nextQ[m] /\ currQ'[m] = currQ[m] /\ pos'[w] = pos[w] + 1
          /\ fate' = Outcome(currQ[m][pos[w] + 1], "handled")
      BY <1>2, <1>3, <1>8 DEF RunDispatch
    <2> DEFINE q == Rest(currQ[m], pos[w])
    <2>2. /\ q \in Seq(Msg) /\ q # <<>> /\ Head(q) = currQ[m][pos[w] + 1]
          /\ Rest(currQ[m], pos[w] + 1) = Tail(q)
      BY <1>1, <2>1, RestFacts
    <2>3. /\ Mail(m) = q \o nextQ[m]
      BY <1>1
    <2>4. Mail(m)' = Tail(q) \o nextQ[m]
      BY <1>1, <2>1, <2>2
    <2> HIDE DEF q
    <2>5. Mail(m) # <<>> /\ Tail(Mail(m)) = Mail(m)' /\ Head(Mail(m)) = Head(q)
      <3>1. /\ Tail(q \o nextQ[m]) = Tail(q) \o nextQ[m]
            /\ Head(q \o nextQ[m]) = Head(q) /\ q \o nextQ[m] # <<>>
        BY <1>1, <2>2, JoinFacts
      <3> QED BY <2>3, <2>4, <3>1
    <2>6. Takes(m)
      BY <1>1, <1>2, <2>1, <2>2, <2>5 DEF Takes, OnlyMail
    <2> QED BY <1>1, <1>8, <2>6
  <1> QED BY <1>1, <1>5, <1>6, <1>7, <1>8 DEF RunNext
-----------------------------------------------------------------------------
(* The removal of a mailbox.                                                *)
LEMMA ClearHere ==
    ASSUME BoxInv, HomeInv', NEW w \in Worker, Clear(w) \/ Bounce(w) \/ ClearDone(w) \/ Erase(w)
    PROVE  \E m \in Mailbox :
           /\ m = cur[w] /\ w \in Thread /\ TypeInv /\ Others(w) /\ At(w) \in Inside
           /\ pos[w] \in Nat /\ currQ[m] \in Seq(Msg) /\ nextQ[m] \in Seq(Msg)
           /\ Mail(m) = Rest(currQ[m], pos[w]) \o IF At(w) = "clear" THEN nextQ[m] ELSE <<>>
           /\ \A n \in Mailbox \ {m} : Mail(n)' = Mail(n)
           /\ cur'[w] = m /\ At(w)' \in {"bounce", "erase"} => Mail(m)' = Rest(currQ'[m], pos'[w]) \o <<>>
  <1>1. PICK m \in Mailbox : m = cur[w] /\ w \in Thread /\ At(w) = pc[w] /\ HomeInv
    BY DEF Clear, Bounce, ClearDone, Erase, BoxInv, ListedInv, HomeInv, CacheInv, TypeInv, Registers, Thread, At, OnMailbox
  <1>2. TypeInv /\ Others(w) /\ pc[w] \in {"clear", "bounce", "erase"}
    BY WorkerMoves DEF WorkerStep, BoxInv, ListedInv, HomeInv, CacheInv, Clear, Bounce, ClearDone, Erase
  <1>3. /\ currQ \in [Mailbox -> Seq(Msg)] /\ nextQ \in [Mailbox -> Seq(Msg)] /\ pos \in [Thread -> Nat]
        /\ cur \in [Thread -> Mailbox \cup {None}]
    BY <1>2 DEF TypeInv, TypeOK
  <1>4. /\ cur'[w] \in {cur[w], None}
        /\ \A n \in Mailbox \ {m} : currQ'[n] = currQ[n] /\ nextQ'[n] = nextQ[n]
        /\ \A r \in Thread : r # w => pos'[r] = pos[r]
    BY <1>1, <1>3 DEF Clear, Bounce, ClearDone, Erase, mailboxVars
  <1>5. \A n \in Mailbox \ {m} : Mail(n)' = Mail(n)
    BY <1>1, <1>2, <1>4, OwnMail DEF Inside, Removing
  <1>6. Mail(m) = Rest(currQ[m], pos[w]) \o IF At(w) = "clear" THEN nextQ[m] ELSE <<>>
    <2>1. CASE At(w) = "clear"
      <3>1. pos[w] = 0
        BY <2>1 DEF BoxInv, PosInv, PosOK
      <3>2. ASSUME NEW r \in Thread, Runs(r, m)
            PROVE  FALSE
        <4>1. r \in Worker /\ At(r) \in Inside /\ cur[r] = m
          BY <1>1, <3>2 DEF Runs, HomeInv, PublicPlaces, Inside, Removing, Thread
        <4>2. r = w
          BY <1>1, <2>1, <4>1, OneVisitor DEF Inside, Removing
        <4> QED BY <2>1, <3>2, <4>2 DEF Runs
      <3>3. Done(m) = 0 /\ ~Copied(m)
        BY <3>2, NobodyRuns
      <3> QED BY <2>1, <3>1, <3>3 DEF Mail, Fresh
    <2>2. CASE At(w) # "clear"
      <3>1. Done(m) = pos[w] /\ Copied(m)
        BY <1>1, <1>2, <2>2, DoneIs DEF Runs
      <3> QED BY <2>2, <3>1 DEF Mail, Fresh
    <2> QED BY <2>1, <2>2
  <1>7. ASSUME cur'[w] = m, At(w)' \in {"bounce", "erase"}
        PROVE  Mail(m)' = Rest(currQ'[m], pos'[w]) \o <<>>
    <2>1. Done(m)' = pos'[w] /\ Copied(m)'
      BY <1>1, <1>7, DoneIsNext DEF Runs
    <2> QED BY <2>1 DEF Mail, Fresh
  <1> QED BY <1>1, <1>2, <1>3, <1>5, <1>6, <1>7 DEF Inside, Removing

LEMMA ClearEffect ==
    ASSUME BoxInv, HomeInv', NEW w \in Worker, Clear(w) \/ ClearDone(w) \/ Erase(w)
    PROVE  Quiet
  <1>1. PICK m \in Mailbox :
           /\ m = cur[w] /\ w \in Thread /\ TypeInv /\ Others(w) /\ At(w) \in Inside
           /\ pos[w] \in Nat /\ currQ[m] \in Seq(Msg) /\ nextQ[m] \in Seq(Msg)
           /\ Mail(m) = Rest(currQ[m], pos[w]) \o IF At(w) = "clear" THEN nextQ[m] ELSE <<>>
           /\ \A n \in Mailbox \ {m} : Mail(n)' = Mail(n)
           /\ cur'[w] = m /\ At(w)' \in {"bounce", "erase"} => Mail(m)' = Rest(currQ'[m], pos'[w]) \o <<>>
    BY ClearHere
  <1>2. /\ currQ \in [Mailbox -> Seq(Msg)] /\ nextQ \in [Mailbox -> Seq(Msg)] /\ pos \in [Thread -> Nat]
        /\ cur \in [Thread -> Mailbox \cup {None}] /\ pc \in [Thread -> PC]
    BY <1>1 DEF TypeInv, TypeOK
  <1>3. /\ UNCHANGED <<out, history>> /\ pc[w] # "push"
        /\ \E x \in {"bounce", "erase", "scan"} : pc' = [pc EXCEPT ![w] = x]
    BY DEF Clear, ClearDone, Erase, postVars
  <1>4. PushKept
    BY <1>1, <1>3, NoPush
  <1>5. At(w) = pc[w] /\ At(w)' = pc'[w]
    BY <1>2, <1>3 DEF At, Clear, ClearDone, Erase
  <1>6. \A q \in Seq(Msg) : Rest(q, 0) = q /\ <<>> \o q = q /\ q \o <<>> = q
    <2> SUFFICES ASSUME NEW q \in Seq(Msg) PROVE Rest(q, 0) = q /\ <<>> \o q = q /\ q \o <<>> = q
      OBVIOUS
    <2>1. Rest(q, 0) = q
      BY RestFacts
    <2> QED BY <2>1, JoinFacts
  <1>7. PosOK(w) /\ <<>> \in Seq(Msg)
    BY QueueFacts DEF BoxInv, PosInv
  <1>8. CASE Clear(w)
    <2>1. /\ At(w) = "clear" /\ At(w)' = "bounce" /\ cur'[w] = m
          /\ pos'[w] = 0 /\ currQ'[m] = currQ[m] \o nextQ[m]
      BY <1>1, <1>2, <1>5, <1>8 DEF Clear, AllQueued
    <2>2. pos[w] = 0
      BY <1>7, <2>1 DEF PosOK
    <2>3. currQ[m] \o nextQ[m] \in Seq(Msg)
      BY <1>1, JoinFacts
    <2>4. Mail(m)' = Mail(m)
      BY <1>1, <1>6, <2>1, <2>2, <2>3
    <2> QED BY <1>1, <1>3, <1>4, <2>4 DEF Quiet, MailKept
  <1>9. CASE ClearDone(w)
    <2>1. /\ At(w) = "bounce" /\ At(w)' = "erase" /\ cur'[w] = m
          /\ pos[w] >= Len(currQ[m]) /\ pos'[w] = 0 /\ currQ'[m] = <<>>
      BY <1>1, <1>2, <1>5, <1>9 DEF ClearDone
    <2>2. Rest(currQ[m], pos[w]) = <<>>
      BY <1>1, <2>1, RestFacts
    <2>3. Mail(m)' = Mail(m)
      BY <1>1, <1>6, <1>7, <2>1, <2>2
    <2> QED BY <1>1, <1>3, <1>4, <2>3 DEF Quiet, MailKept
  <1>10. CASE Erase(w)
    <2>1. /\ At(w) = "erase" /\ cur'[w] = None /\ currQ'[m] = currQ[m] /\ nextQ'[m] = <<>>
      BY <1>1, <1>2, <1>5, <1>10 DEF Erase
    <2>2. pos[w] = 0 /\ currQ[m] = <<>>
      BY <1>1, <1>7, <2>1 DEF PosOK
    <2>3. Mail(m) = <<>>
      BY <1>1, <1>6, <1>7, <2>1, <2>2
    <2>4. Mail(m)' = <<>>
      <3>1. ASSUME NEW r \in Thread, Runs(r, m)'
            PROVE  FALSE
        <4>1. r # w
          BY <1>1, <2>1, <3>1, NoneIsNoMailbox DEF Runs
        <4>2. Runs(r, m)
          BY <1>1, <3>1, <4>1 DEF Others, Stay, Runs
        <4>3. r \in Worker /\ At(r) \in Inside /\ cur[r] = m
          BY <4>2 DEF Runs, BoxInv, ListedInv, HomeInv, PublicPlaces, Inside, Removing, Thread
        <4> QED BY <1>1, <4>1, <4>3, OneVisitor, BoxHome
      <3>2. Done(m)' = 0 /\ Copied(m)' = FALSE
        BY <3>1, NobodyRunsNext
      <3> QED BY <1>6, <1>7, <2>1, <2>2, <3>2 DEF Mail, Fresh
    <2> QED BY <1>1, <1>3, <1>4, <2>3, <2>4 DEF Quiet, MailKept
  <1> QED BY <1>8, <1>9, <1>10

LEMMA BounceEffect ==
    ASSUME BoxInv, HomeInv', NEW w \in Worker, Bounce(w)
    PROVE  \E m \in Mailbox : m = cur[w] /\ At(w) = "bounce" /\ Takes(m)
  <1>1. PICK m \in Mailbox :
           /\ m = cur[w] /\ w \in Thread /\ TypeInv /\ Others(w) /\ At(w) \in Inside
           /\ pos[w] \in Nat /\ currQ[m] \in Seq(Msg) /\ nextQ[m] \in Seq(Msg)
           /\ Mail(m) = Rest(currQ[m], pos[w]) \o IF At(w) = "clear" THEN nextQ[m] ELSE <<>>
           /\ \A n \in Mailbox \ {m} : Mail(n)' = Mail(n)
           /\ cur'[w] = m /\ At(w)' \in {"bounce", "erase"} => Mail(m)' = Rest(currQ'[m], pos'[w]) \o <<>>
    BY ClearHere
  <1> DEFINE msg == currQ[m][pos[w] + 1]
  <1>2. /\ pc[w] = "bounce" /\ pos[w] < Len(currQ[m]) /\ pos' = [pos EXCEPT ![w] = @ + 1]
        /\ UNCHANGED <<currQ, cur, sent>>
        /\ \/ fate' = Outcome(msg, "dropped") /\ UNCHANGED <<pc, postVars>>
           \/ fate' = Outcome(msg, "bounced") /\ PostLookup(w, msg.from, BadPod(msg.id), "bounce")
    BY <1>1 DEF Bounce, mailboxVars
  <1>3. At(w) = "bounce" /\ At(w)' = "bounce" /\ cur'[w] = m /\ pos'[w] = pos[w] + 1 /\ currQ'[m] = currQ[m]
    <2>1. pos \in [Thread -> Nat]
      BY <1>1 DEF TypeInv, TypeOK
    <2>2. At(w) = "bounce" /\ At(w)' = At(w)
      <3> HIDE DEF msg
      <3> QED BY <1>1, <1>2, LookupStays DEF At, postVars
    <2> QED BY <1>1, <1>2, <2>1, <2>2
  <1>4. PushKept
    <2>1. CASE UNCHANGED <<pc, postVars>>
      BY <2>1 DEF PushKept, InPush, postVars
    <2>2. CASE PostLookup(w, msg.from, BadPod(msg.id), "bounce")
      <3> HIDE DEF msg
      <3>1. BadPod(msg.id).kind # "msg"
        BY DEF BadPod
      <3>2. \/ PushKept
            \/ \A q \in Thread, i \in MsgId :
                  InPush(q, i)' <=> InPush(q, i) \/ (q = w /\ BadPod(msg.id).kind = "msg" /\ BadPod(msg.id).id = i)
        BY <1>1, <1>2, <2>2, Lookup
      <3> QED BY <3>1, <3>2 DEF PushKept
    <2> QED BY <1>2, <2>1, <2>2
  <1>5. /\ Rest(currQ[m], pos[w]) \in Seq(Msg) /\ Rest(currQ[m], pos[w]) # <<>>
        /\ Head(Rest(currQ[m], pos[w])) = msg
        /\ Rest(currQ[m], pos[w] + 1) = Tail(Rest(currQ[m], pos[w]))
        /\ Rest(currQ[m], pos[w] + 1) \in Seq(Msg)
    <2>1. pos[w] + 1 \in Nat
      BY <1>1
    <2>2. Rest(currQ[m], pos[w] + 1) \in Seq(Msg)
      BY <1>1, <2>1, RestFacts
    <2> QED BY <1>1, <1>2, <2>2, RestFacts
  <1>6. Mail(m) = Rest(currQ[m], pos[w])
    BY <1>1, <1>3, <1>5, JoinFacts
  <1>7. Mail(m)' = Rest(currQ[m], pos[w] + 1)
    BY <1>1, <1>3, <1>5, JoinFacts
  <1>8. \E what \in {"handled", "bounced", "dropped"} : fate' = Outcome(msg, what)
    BY <1>2
  <1> QED BY <1>1, <1>2, <1>3, <1>4, <1>5, <1>6, <1>7, <1>8 DEF Takes, OnlyMail
-----------------------------------------------------------------------------
LEMMA WorkerEffects == ASSUME BoxInv, HomeInv', NEW w \in Worker, WorkerStep(w) PROVE Effect
  <1>0. w \in Thread /\ TypeInv
    BY DEF Thread, BoxInv, ListedInv, HomeInv, CacheInv
  <1>1. Others(w) /\ (Stay(w) \/ WorkerMove(w))
    BY <1>0, WorkerMoves
  <1>2. CASE PostPush(w)
    BY <1>0, <1>1, <1>2, PostStays, PushEffect DEF Effect, Stay, PostPush, workerVars
  <1>3. CASE PostNotify(w)
    BY <1>0, <1>1, <1>3, PostStays, NotifyEffect DEF Effect, Stay, PostNotify, workerVars
  <1>4. CASE \E u \in UID, i \in MsgId : HandlerPost(w, u, i)
    <2>1. PICK u \in UID, i \in MsgId : pc[w] = "handler" /\ Send(w, u, i, UidOf[cur[w]], "handler")
      BY <1>4 DEF HandlerPost
    <2>2. cur[w] \in Mailbox /\ UidOf[cur[w]] \in UID
      BY <1>0, <2>1, UidOfMailbox DEF TypeInv, Registers, At, OnMailbox
    <2>3. Stay(w)
      <3>1. At(w)' = At(w)
        BY <1>0, <2>1, LookupStays DEF Send
      <3> QED BY <2>1, <3>1 DEF Stay, Send, workerVars
    <2>4. Sends(w, i)
      BY <1>0, <1>1, <2>1, <2>2, <2>3, SendEffect
    <2> QED BY <1>0, <2>4 DEF Effect
  <1>5. CASE \E m \in Mailbox : HandlerAttach(w, m)
    <2>1. PICK m \in Mailbox : pc[w] = "handler" /\ Attach(w, m)
      BY <1>5 DEF HandlerAttach
    <2>2. Stay(w)
      BY <2>1 DEF Attach, Stay, At, postVars
    <2> QED BY <1>0, <1>1, <2>1, <2>2, AttachEffect DEF Effect
  <1>6. CASE RunNext(w)
    BY <1>6, RunEffect DEF Effect
  <1>7. CASE Bounce(w)
    BY <1>7, BounceEffect DEF Effect
  <1>8. CASE Clear(w) \/ ClearDone(w) \/ Erase(w)
    BY <1>8, ClearEffect DEF Effect
  <1>9. CASE \/ PopOwn(w) \/ (\E v \in Worker : Steal(w, v)) \/ (\E u \in UID : PickUID(w, u))
             \/ BeginScan(w) \/ (\E m \in Mailbox : VisitNext(w, m)) \/ EndScan(w)
             \/ Grab(w) \/ Unlock(w) \/ HandlerDetach(w) \/ HandlerReturn(w) \/ Exit(w)
    BY <1>9, WorkerQuiet DEF Effect
  <1> QED BY <1>2, <1>3, <1>4, <1>5, <1>6, <1>7, <1>8, <1>9 DEF WorkerStep

LEMMA PublicEffects == ASSUME BoxInv, HomeInv', NEW p \in Public, PublicStep(p) PROVE Effect
  <1>0. p \in Thread /\ TypeInv /\ p \notin Worker
    BY ThreadAssumption DEF Thread, BoxInv, ListedInv, HomeInv, CacheInv
  <1>1. Others(p)
    BY <1>0, PublicMoves
  <1>2. CASE PostPush(p)
    BY <1>0, <1>1, <1>2, PostStays, PushEffect DEF Effect, Stay, PostPush, workerVars
  <1>3. CASE PostNotify(p)
    BY <1>0, <1>1, <1>3, PostStays, NotifyEffect DEF Effect, Stay, PostNotify, workerVars
  <1>4. CASE \E u \in UID, i \in MsgId : PublicPost(p, u, i)
    <2>1. PICK u \in UID, i \in MsgId : pc[p] = "idle" /\ Send(p, u, i, None, "idle")
      BY <1>4 DEF PublicPost
    <2>2. Stay(p)
      <3>1. At(p)' = At(p)
        BY <1>0, <2>1, LookupStays DEF Send
      <3> QED BY <1>0, <2>1, <3>1 DEF Stay, Send, workerVars
    <2>3. Sends(p, i)
      BY <1>0, <1>1, <2>1, <2>2, SendEffect
    <2> QED BY <1>0, <2>3 DEF Effect
  <1>5. CASE \E m \in Mailbox : PublicAttach(p, m)
    <2>1. PICK m \in Mailbox : pc[p] = "idle" /\ Attach(p, m)
      BY <1>5 DEF PublicAttach
    <2>2. Stay(p)
      BY <2>1 DEF Attach, Stay, At, postVars
    <2> QED BY <1>0, <1>1, <2>1, <2>2, AttachEffect DEF Effect
  <1>6. CASE (\E m \in Mailbox : PublicDetach(p, m)) \/ SpinGrab(p) \/ Detaching(p) \/ DetachReturn(p)
    BY <1>6, PublicQuiet DEF Effect
  <1> QED BY <1>2, <1>3, <1>4, <1>5, <1>6 DEF PublicStep

LEMMA Effects == ASSUME BoxInv, HomeInv', [Next]_vars PROVE Effect
  <1>1. CASE UNCHANGED vars
    BY <1>1 DEF Effect, Quiet, MailKept, Mail, Done, Runs, Fresh, Copied, At, PushKept, InPush, vars,
       mailboxVars, postVars, history
  <1> QED BY <1>1, WorkerEffects, PublicEffects DEF Next

-----------------------------------------------------------------------------
LEMMA PosStep == ASSUME BoxInv, [Next]_vars PROVE PosInv'
  <1> SUFFICES ASSUME NEW v \in Worker PROVE PosOK(v)'
    BY DEF PosInv
  <1>0. TypeInv /\ v \in Thread /\ v \notin Public /\ PosOK(v)
    BY ThreadAssumption DEF Thread, BoxInv, ListedInv, HomeInv, CacheInv, PosInv
  <1>1. /\ currQ \in [Mailbox -> Seq(Msg)] /\ pos \in [Thread -> Nat]
        /\ At(v) \in OnMailbox => cur[v] \in Mailbox
    BY <1>0 DEF TypeInv, TypeOK, Registers
  <1>2. Stay(v) \/ WorkerMove(v)
    BY <1>0, Moves
  <1>3. ASSUME UNCHANGED <<currQ, pos>>, At(v) \in {"run", "bounce"} => At(v)' = At(v)
        PROVE  PosOK(v)'
    <2>1. CASE Stay(v)
      BY <1>0, <1>3, <2>1 DEF PosOK, Stay
    <2>2. CASE Enter(v) \/ Leave(v)
      BY <1>0, <1>3, <2>2 DEF PosOK, Enter, Leave
    <2>3. CASE Walk(v)
      BY <1>0, <1>3, <2>3 DEF PosOK, Walk
    <2> QED BY <1>2, <2>1, <2>2, <2>3 DEF WorkerMove
  <1>4. ASSUME NEW w \in Worker, WorkerStep(w), RunNext(w) \/ Clear(w) \/ Bounce(w) \/ ClearDone(w)
        PROVE  PosOK(v)'
    <2>1. PICK m \in Mailbox : /\ m = cur[w] /\ w \in Thread /\ Others(w) /\ cur' = cur
                               /\ At(w) \in Inside
      BY <1>0, <1>4, WorkerMoves DEF RunNext, Clear, Bounce, ClearDone, BoxInv, ListedInv, HomeInv,
         CacheInv, TypeInv, Registers, Thread, At, OnMailbox, Inside, Removing
    <2>2. CASE v # w
      <3>1. Stay(v) /\ pos'[v] = pos[v]
        BY <1>0, <1>1, <1>4, <2>1, <2>2 DEF Others, RunNext, RunEmpty, RunSwap, RunDetached, RunDispatch,
           RunReturn, Clear, Bounce, ClearDone
      <3>2. At(v) = "erase" => cur[v] \in Mailbox \ {m}
        BY <1>1, <2>1, <2>2, OneVisitor, BoxHome DEF OnMailbox, Inside, Removing
      <3>3. \A n \in Mailbox \ {m} : currQ'[n] = currQ[n]
        BY <1>1, <1>4, <2>1 DEF RunNext, RunEmpty, RunSwap, RunDetached, RunDispatch,
           RunReturn, Clear, Bounce, ClearDone, mailboxVars
      <3> QED BY <1>0, <3>1, <3>2, <3>3 DEF PosOK, Stay
    <2>3. CASE v = w
      <3>0. pc \in [Thread -> PC] /\ back \in [Thread -> {"idle", "handler", "bounce"}]
        BY <1>0 DEF TypeInv, TypeOK
      <3>1. CASE RunNext(w) /\ (RunEmpty(w, m) \/ RunDetached(w, m))
        BY <1>1, <2>1, <2>3, <3>0, <3>1 DEF RunEmpty, RunDetached, RunReturn, RunNext, PosOK, At
      <3>2. CASE RunNext(w) /\ (RunSwap(w, m) \/ RunDispatch(w, m))
        BY <1>1, <2>1, <2>3, <3>0, <3>2 DEF RunSwap, RunDispatch, RunNext, PosOK, At
      <3>3. CASE Clear(w) \/ ClearDone(w)
        BY <1>1, <2>1, <2>3, <3>0, <3>3 DEF Clear, ClearDone, PosOK, At
      <3>4. CASE Bounce(w)
        <4>1. PICK n \in Mailbox : n = cur[w] /\ At(w) = "bounce" /\ At(w)' \in {"bounce"}
          <5>1. At(w) = "bounce"
            BY <3>4 DEF Bounce, At
          <5>2. At(w)' = "bounce"
            <6> DEFINE msg == currQ[cur[w]][pos[w] + 1]
            <6>1. pc[w] = "bounce" /\ (UNCHANGED <<pc, postVars>> \/ PostLookup(w, msg.from, BadPod(msg.id), "bounce"))
              BY <3>4 DEF Bounce
            <6> HIDE DEF msg
            <6> QED BY <1>0, <2>1, <5>1, <6>1, LookupStays DEF At, postVars
          <5> QED BY <2>1, <5>1, <5>2
        <4> QED BY <2>3, <4>1 DEF PosOK
      <3> QED BY <1>4, <2>1, <3>1, <3>2, <3>3, <3>4 DEF RunNext
    <2> QED BY <2>2, <2>3
  <1>5. ASSUME NEW w \in Worker, WorkerStep(w), ~(RunNext(w) \/ Clear(w) \/ Bounce(w) \/ ClearDone(w))
        PROVE  PosOK(v)'
    <2>1. UNCHANGED <<currQ, pos>>
      BY <1>5 DEF WorkerStep, PostPush, PostNotify, PopOwn, Steal, PickUID, BeginScan, VisitNext,
         EndScan, Grab, Unlock, HandlerPost, Send, HandlerAttach, Attach, HandlerDetach, HandlerReturn, Exit,
         Erase, mailboxVars
    <2>2. ASSUME At(v) \in {"run", "bounce"}
          PROVE  At(v)' = At(v)
      <3>1. CASE v # w
        BY <1>0, <1>5, <3>1, WorkerMoves DEF Others, Stay
      <3>2. CASE v = w
        <4>1. pc[w] \notin {"run", "bounce"}
          BY <1>5 DEF WorkerStep, PostPush, PostNotify, PopOwn, Steal, Idle, PickUID, BeginScan, VisitNext,
             EndScan, Grab, Unlock, HandlerPost, HandlerAttach, HandlerDetach, HandlerReturn, Exit, Erase
        <4>2. pc[w] \in {"push", "notify"}
          BY <2>2, <3>2, <4>1 DEF At
        <4>3. PostPush(w) \/ PostNotify(w)
          BY <1>5, <4>2 DEF WorkerStep, PopOwn, Steal, Idle, PickUID, BeginScan, VisitNext,
             EndScan, Grab, Unlock, HandlerPost, HandlerAttach, HandlerDetach, HandlerReturn, Exit, Erase
        <4> QED BY <1>0, <3>2, <4>3, PostStays
      <3> QED BY <3>1, <3>2
    <2> QED BY <1>3, <2>1, <2>2
  <1>6. ASSUME NEW p \in Public, PublicStep(p)
        PROVE  PosOK(v)'
    <2>1. UNCHANGED <<currQ, pos>>
      BY <1>6 DEF PublicStep, PostPush, PostNotify, PublicAttach, Attach, PublicDetach, PublicPost, Send,
         SpinGrab, Detaching, DetachReturn, mailboxVars
    <2>2. Stay(v)
      BY <1>0, <1>6, PublicMoves DEF Others
    <2> QED BY <1>3, <2>1, <2>2 DEF Stay
  <1>7. CASE UNCHANGED vars
    <2>1. UNCHANGED <<currQ, pos>> /\ Stay(v)
      BY <1>7 DEF vars, mailboxVars, postVars, workerVars, Stay, At
    <2> QED BY <1>3, <2>1 DEF Stay
  <1> QED BY <1>4, <1>5, <1>6, <1>7 DEF Next
LEMMA ErasedMail ==
    ASSUME BoxInv, HomeInv', NEW w \in Worker, Erase(w)
    PROVE  Mail(cur[w]) = <<>>
  <1>1. PICK m \in Mailbox :
           /\ m = cur[w] /\ currQ[m] \in Seq(Msg)
           /\ Mail(m) = Rest(currQ[m], pos[w]) \o IF At(w) = "clear" THEN nextQ[m] ELSE <<>>
    BY ClearHere
  <1>2. At(w) = "erase"
    BY DEF Erase, At
  <1>3. pos[w] = 0 /\ currQ[m] = <<>>
    BY <1>1, <1>2 DEF BoxInv, PosInv, PosOK
  <1>4. Rest(<<>>, 0) = <<>> /\ <<>> \o <<>> = <<>>
    <2>1. Rest(<<>>, 0) = <<>>
      BY QueueFacts, RestFacts
    <2> QED BY <2>1, QueueFacts, JoinFacts
  <1> QED BY <1>1, <1>2, <1>3, <1>4

LEMMA MailListedStep == ASSUME BoxInv, HomeInv', [Next]_vars PROVE MailListed'
  <1> SUFFICES ASSUME NEW m \in Mailbox, phase'[m] # "listed"
               PROVE  Mail(m)' = <<>>
    BY DEF MailListed
  <1>0. TypeInv
    BY DEF BoxInv, ListedInv, HomeInv, CacheInv
  <1>1. CASE phase[m] = "listed"
    <2>1. PICK w \in Worker : Erase(w) /\ cur[w] = m
      BY <1>0, <1>1, OnlyEraseUnlists
    <2> QED BY <2>1, ClearEffect, ErasedMail DEF Quiet, MailKept
  <1>2. CASE phase[m] # "listed"
    <2>1. Mail(m) = <<>>
      BY <1>2 DEF BoxInv, MailListed
    <2>2. ASSUME MailKept
          PROVE  Mail(m)' = <<>>
      BY <2>1, <2>2 DEF MailKept
    <2>3. ASSUME NEW n \in Mailbox, n # m, NEW q, OnlyMail(n, q)
          PROVE  Mail(m)' = <<>>
      BY <2>1, <2>3 DEF OnlyMail
    <2>4. ASSUME NEW t \in Thread, NEW n \in Mailbox, Delivers(t, n)
          PROVE  n # m
      BY <1>2, <2>4 DEF Delivers, BoxInv, ListedInv, PushesListed
    <2>5. ASSUME NEW n \in Mailbox, Takes(n) \/ Bears(n)
          PROVE  n # m
      BY <2>1, <2>5 DEF Takes, Bears
    <2> QED BY <2>2, <2>3, <2>4, <2>5, Effects DEF Effect, Quiet, Sends, Delivers, Drops, Takes, Bears
  <1> QED BY <1>1, <1>2

LEMMA InitMail == Init => \A m \in Mailbox : Mail(m) = <<>>
  <1> SUFFICES ASSUME Init, NEW m \in Mailbox PROVE Mail(m) = <<>>
    OBVIOUS
  <1>1. \A t \in Thread : ~Runs(t, m)
    BY DEF Init, Runs, At
  <1>2. Done(m) = 0 /\ currQ[m] = <<>> /\ Fresh(m) = <<>>
    BY <1>1, NobodyRuns DEF Init, Fresh
  <1>3. Rest(<<>>, 0) = <<>> /\ <<>> \o <<>> = <<>>
    <2>1. Rest(<<>>, 0) = <<>>
      BY QueueFacts, RestFacts
    <2> QED BY <2>1, QueueFacts, JoinFacts
  <1> QED BY <1>2, <1>3 DEF Mail

(* The inductive invariant behind Mail(m): a worker counts only in a queue  *)
(* it goes through, and a mailbox outside of the map holds no mail.         *)
THEOREM BoxInvariant == ASSUME Settled PROVE Spec => []BoxInv
  <1>1. Init => PosInv /\ MailListed
    <2>1. Init => PosInv
      BY DEF Init, PosInv, PosOK, At, Thread
    <2> QED BY <2>1, InitMail DEF MailListed
  <1>2. BoxInv /\ HomeInv' /\ [Next]_vars => PosInv' /\ MailListed'
    BY PosStep, MailListedStep
  <1>3. (BoxInv <=> ListedInv /\ PosInv /\ MailListed) /\ (ListedInv => HomeInv)
    BY DEF BoxInv, ListedInv
  <1> QED BY <1>1, <1>2, <1>3, ListedInvariant, PTL DEF Spec

-----------------------------------------------------------------------------
(* Where a message is: with a thread that pushes it, or at a place of the   *)
(* mail of an actor.  Each is at one place at most, and at one if and only  *)
(* if it was sent and has no outcome yet.                                   *)
Has(q, k, i) == k \in 1 .. Len(q) /\ q[k].kind = "msg" /\ q[k].id = i
InMail(m, k, i) == Has(Mail(m), k, i)

Waits(i) ==
    \/ \E t \in Thread : InPush(t, i)
    \/ \E m \in Mailbox, k \in Nat : InMail(m, k, i)
OnePlace(i) ==
    /\ \A t, r \in Thread : InPush(t, i) /\ InPush(r, i) => t = r
    /\ \A m, n \in Mailbox, k, l \in Nat : InMail(m, k, i) /\ InMail(n, l, i) => m = n /\ k = l
    /\ \A t \in Thread, m \in Mailbox, k \in Nat : ~(InPush(t, i) /\ InMail(m, k, i))
OneFate(i) ==
    /\ fate[i] = {} \/ \E x : fate[i] = {x}
    /\ i \notin sent => fate[i] = {}
    /\ Waits(i) <=> i \in sent /\ fate[i] = {}
MessageOK(i) == OnePlace(i) /\ OneFate(i)
MessagesOK == \A i \in MsgId : MessageOK(i)
MessageInv == BoxInv /\ MessagesOK

LEMMA AppendHas ==
    ASSUME NEW q \in Seq(Msg), NEW e \in Msg, NEW k \in Nat, NEW i
    PROVE  Has(Append(q, e), k, i) <=> Has(q, k, i) \/ (k = Len(q) + 1 /\ e.kind = "msg" /\ e.id = i)
  <1>1. Len(q) \in Nat /\ Len(Append(q, e)) = Len(q) + 1
    OBVIOUS
  <1>2. CASE k \in 1 .. Len(q)
    <2>1. Append(q, e)[k] = q[k]
      BY <1>2
    <2> QED BY <1>1, <1>2, <2>1 DEF Has
  <1>3. CASE k = Len(q) + 1
    <2>1. Append(q, e)[k] = e
      BY <1>3
    <2> QED BY <1>1, <1>3, <2>1 DEF Has
  <1> QED BY <1>1, <1>2, <1>3 DEF Has

LEMMA TailHas ==
    ASSUME NEW q \in Seq(Msg), q # <<>>, NEW k \in Nat, NEW i
    PROVE  /\ Has(Tail(q), k, i) <=> k # 0 /\ Has(q, k + 1, i)
           /\ Has(q, 1, i) <=> Head(q).kind = "msg" /\ Head(q).id = i
  <1>1. Len(q) \in Nat /\ Len(q) >= 1 /\ Len(Tail(q)) = Len(q) - 1 /\ Head(q) = q[1]
    BY HeadTailProperties, LenProperties, EmptySeq
  <1>2. \A j \in 1 .. Len(q) - 1 : Tail(q)[j] = q[j + 1]
    BY <1>1, HeadTailProperties
  <1> QED BY <1>1, <1>2 DEF Has

LEMMA OutcomeAt ==
    ASSUME TypeInv, NEW msg \in Msg, NEW what, NEW i \in MsgId
    PROVE  Outcome(msg, what)[i] = IF msg.kind = "msg" /\ msg.id = i THEN fate[i] \cup {what} ELSE fate[i]
  BY DEF Outcome, TypeInv, TypeOK

LEMMA OnceKept ==
    ASSUME NEW i \in MsgId, MessageOK(i), MailKept, PushKept, fate'[i] = fate[i], i \in sent' <=> i \in sent
    PROVE  MessageOK(i)'
  <1>1. \A m \in Mailbox, k \in Nat : InMail(m, k, i)' <=> InMail(m, k, i)
    BY DEF MailKept, InMail, Has
  <1>2. \A t \in Thread : InPush(t, i)' <=> InPush(t, i)
    BY DEF PushKept
  <1>3. OnePlace(i)'
    BY <1>1, <1>2 DEF MessageOK, OnePlace
  <1>4. Waits(i)' <=> Waits(i)
    BY <1>1, <1>2 DEF Waits
  <1> QED BY <1>3, <1>4 DEF MessageOK, OneFate
LEMMA OnceSends ==
    ASSUME TypeInv, NEW i \in MsgId, MessageOK(i), NEW t \in Thread, NEW j \in MsgId, Sends(t, j)
    PROVE  MessageOK(i)'
  <1>1. fate \in [MsgId -> SUBSET {"handled", "bounced", "dropped", "refused"}]
    BY DEF TypeInv, TypeOK
  <1>2. /\ j \notin sent /\ sent' = sent \cup {j} /\ MailKept
        /\ \/ PushMore(t, j) /\ fate' = fate
           \/ PushKept /\ fate' = [fate EXCEPT ![j] = @ \cup {"refused"}]
    BY DEF Sends
  <1>3. CASE i # j
    <2>1. MailKept /\ fate'[i] = fate[i] /\ (i \in sent' <=> i \in sent)
      BY <1>1, <1>2, <1>3
    <2>2. PushKept \/ PushMore(t, j)
      BY <1>2
    <2>3. \A r \in Thread : InPush(r, i)' <=> InPush(r, i)
      BY <1>3, <2>2 DEF PushKept, PushMore
    <2>4. \A m \in Mailbox, k \in Nat : InMail(m, k, i)' <=> InMail(m, k, i)
      BY <2>1 DEF MailKept, InMail, Has
    <2>5. OnePlace(i)'
      BY <2>3, <2>4 DEF MessageOK, OnePlace
    <2>6. Waits(i)' <=> Waits(i)
      BY <2>3, <2>4 DEF Waits
    <2> QED BY <2>1, <2>5, <2>6 DEF MessageOK, OneFate
  <1>4. CASE i = j
    <2>0. i \notin sent /\ i \in sent' /\ fate[i] = {} /\ ~Waits(i)
      BY <1>2, <1>4 DEF MessageOK, OneFate
    <2>1. \A m \in Mailbox, k \in Nat : ~InMail(m, k, i) /\ ~InMail(m, k, i)'
      BY <1>2, <2>0 DEF MailKept, InMail, Has, Waits
    <2>2. \A r \in Thread : ~InPush(r, i)
      BY <2>0 DEF Waits
    <2>3. CASE PushMore(t, j) /\ fate' = fate
      <3>1. \A r \in Thread : InPush(r, i)' <=> r = t
        BY <1>4, <2>2, <2>3 DEF PushMore
      <3>2. OnePlace(i)'
        BY <2>1, <3>1 DEF OnePlace
      <3>3. Waits(i)'
        BY <3>1 DEF Waits
      <3> QED BY <2>0, <2>3, <3>2, <3>3 DEF MessageOK, OneFate
    <2>4. CASE PushKept /\ fate' = [fate EXCEPT ![j] = @ \cup {"refused"}]
      <3>1. \A r \in Thread : ~InPush(r, i)'
        BY <2>2, <2>4 DEF PushKept
      <3>2. fate'[i] = {"refused"}
        BY <1>1, <1>4, <2>0, <2>4
      <3>3. OnePlace(i)' /\ ~Waits(i)'
        BY <2>1, <3>1 DEF OnePlace, Waits
      <3> QED BY <2>0, <3>2, <3>3 DEF MessageOK, OneFate
    <2> QED BY <1>2, <2>3, <2>4
  <1> QED BY <1>3, <1>4

LEMMA OnceDelivers ==
    ASSUME BoxInv, NEW i \in MsgId, MessageOK(i), NEW t \in Thread, NEW m \in Mailbox, Delivers(t, m)
    PROVE  MessageOK(i)'
  <1>1. /\ pc[t] = "push" /\ Mail(m)' = Append(Mail(m), out[t]) /\ PushLess(t)
        /\ \A n \in Mailbox \ {m} : Mail(n)' = Mail(n)
        /\ fate' = fate /\ sent' = sent
    BY DEF Delivers, OnlyMail, history
  <1>2. out[t] \in Msg /\ Mail(m) \in Seq(Msg) /\ Len(Mail(m)) + 1 \in Nat /\ Len(Mail(m)) \in Nat
    <2>1. TypeInv
      BY DEF BoxInv, ListedInv, HomeInv, CacheInv
    <2>2. out[t] \in Msg /\ Mail(m) \in Seq(Msg)
      BY <1>1, <2>1, MailType DEF TypeInv, Registers
    <2> QED BY <2>2, QueueFacts
  <1> DEFINE z == Len(Mail(m)) + 1
  <1>3. InPush(t, i) <=> out[t].kind = "msg" /\ out[t].id = i
    BY <1>1 DEF InPush
  <1>4. \A r \in Thread : InPush(r, i)' <=> InPush(r, i) /\ r # t
    BY <1>1 DEF PushLess
  <1>5. \A n \in Mailbox \ {m}, k \in Nat : InMail(n, k, i)' <=> InMail(n, k, i)
    BY <1>1 DEF InMail, Has
  <1>6. \A k \in Nat : InMail(m, k, i)' <=> InMail(m, k, i) \/ (k = z /\ InPush(t, i))
    <2> SUFFICES ASSUME NEW k \in Nat
                 PROVE  InMail(m, k, i)' <=> InMail(m, k, i) \/ (k = z /\ InPush(t, i))
      OBVIOUS
    <2>1. Has(Append(Mail(m), out[t]), k, i) <=> Has(Mail(m), k, i) \/ (k = z /\ out[t].kind = "msg" /\ out[t].id = i)
      BY <1>2, AppendHas
    <2>2. InMail(m, k, i)' <=> Has(Append(Mail(m), out[t]), k, i)
      BY <1>1 DEF InMail, Has
    <2> QED BY <1>3, <2>1, <2>2 DEF InMail
  <1>7. z \in Nat
    BY <1>2
  <1> HIDE DEF z
  <1>8. OnePlace(i)'
    <2>1. \A r, q \in Thread : InPush(r, i)' /\ InPush(q, i)' => r = q
      BY <1>4 DEF MessageOK, OnePlace
    <2>2. \A n, o \in Mailbox, k, l \in Nat : InMail(n, k, i)' /\ InMail(o, l, i)' => n = o /\ k = l
      BY <1>5, <1>6, <1>7 DEF MessageOK, OnePlace
    <2>3. \A r \in Thread, n \in Mailbox, k \in Nat : ~(InPush(r, i)' /\ InMail(n, k, i)')
      BY <1>4, <1>5, <1>6, <1>7 DEF MessageOK, OnePlace
    <2> QED BY <2>1, <2>2, <2>3 DEF OnePlace
  <1>9. Waits(i)' <=> Waits(i)
    BY <1>4, <1>5, <1>6, <1>7 DEF Waits
  <1> QED BY <1>1, <1>8, <1>9 DEF MessageOK, OneFate

LEMMA OnceDrops ==
    ASSUME TypeInv, NEW i \in MsgId, MessageOK(i), NEW t \in Thread, Drops(t)
    PROVE  MessageOK(i)'
  <1>1. /\ pc[t] = "push" /\ MailKept /\ PushLess(t)
        /\ fate' = Outcome(out[t], "refused") /\ sent' = sent /\ out[t] \in Msg
    BY DEF Drops, TypeInv, Registers
  <1>2. InPush(t, i) <=> out[t].kind = "msg" /\ out[t].id = i
    BY <1>1 DEF InPush
  <1>3. \A r \in Thread : InPush(r, i)' <=> InPush(r, i) /\ r # t
    BY <1>1 DEF PushLess
  <1>4. \A n \in Mailbox, k \in Nat : InMail(n, k, i)' <=> InMail(n, k, i)
    BY <1>1 DEF InMail, Has, MailKept
  <1>5. OnePlace(i)'
    BY <1>3, <1>4 DEF MessageOK, OnePlace
  <1>6. fate'[i] = IF InPush(t, i) THEN fate[i] \cup {"refused"} ELSE fate[i]
    BY <1>1, <1>2, OutcomeAt
  <1>7. CASE InPush(t, i)
    <2>1. fate[i] = {} /\ i \in sent /\ fate'[i] = {"refused"}
      BY <1>6, <1>7 DEF MessageOK, OneFate, Waits
    <2>2. ~Waits(i)'
      BY <1>3, <1>4, <1>7 DEF MessageOK, OnePlace, Waits
    <2> QED BY <1>1, <1>5, <2>1, <2>2 DEF MessageOK, OneFate
  <1>8. CASE ~InPush(t, i)
    <2>1. Waits(i)' <=> Waits(i)
      BY <1>3, <1>4, <1>8 DEF Waits
    <2> QED BY <1>1, <1>5, <1>6, <1>8, <2>1 DEF MessageOK, OneFate
  <1> QED BY <1>7, <1>8

LEMMA OnceTakes ==
    ASSUME BoxInv, NEW i \in MsgId, MessageOK(i), NEW m \in Mailbox, Takes(m)
    PROVE  MessageOK(i)'
  <1>0. TypeInv /\ Mail(m) \in Seq(Msg) /\ Mail(m) # <<>> /\ Head(Mail(m)) \in Msg
    <2>1. TypeInv
      BY DEF BoxInv, ListedInv, HomeInv, CacheInv
    <2>2. Mail(m) \in Seq(Msg) /\ Mail(m) # <<>>
      BY <2>1, MailType DEF Takes
    <2> QED BY <2>1, <2>2, HeadTailProperties
  <1>1. /\ Mail(m)' = Tail(Mail(m)) /\ PushKept /\ sent' = sent
        /\ \A n \in Mailbox \ {m} : Mail(n)' = Mail(n)
    BY DEF Takes, OnlyMail
  <1>2. PICK what : fate' = Outcome(Head(Mail(m)), what)
    BY DEF Takes
  <1>3. fate'[i] = IF InMail(m, 1, i) THEN fate[i] \cup {what} ELSE fate[i]
    <2>1. InMail(m, 1, i) <=> Head(Mail(m)).kind = "msg" /\ Head(Mail(m)).id = i
      BY <1>0, TailHas DEF InMail
    <2> QED BY <1>0, <1>2, <2>1, OutcomeAt
  <1>4. \A r \in Thread : InPush(r, i)' <=> InPush(r, i)
    BY <1>1 DEF PushKept
  <1>5. \A n \in Mailbox \ {m}, k \in Nat : InMail(n, k, i)' <=> InMail(n, k, i)
    BY <1>1 DEF InMail, Has
  <1>6. \A k \in Nat : InMail(m, k, i)' <=> k # 0 /\ InMail(m, k + 1, i)
    <2> SUFFICES ASSUME NEW k \in Nat
                 PROVE  InMail(m, k, i)' <=> k # 0 /\ InMail(m, k + 1, i)
      OBVIOUS
    <2>1. Has(Tail(Mail(m)), k, i) <=> k # 0 /\ Has(Mail(m), k + 1, i)
      BY <1>0, TailHas
    <2>2. InMail(m, k, i)' <=> Has(Tail(Mail(m)), k, i)
      BY <1>1 DEF InMail, Has
    <2> QED BY <2>1, <2>2 DEF InMail
  <1>7. OnePlace(i)'
    <2>1. \A n, o \in Mailbox, k, l \in Nat : InMail(n, k, i)' /\ InMail(o, l, i)' => n = o /\ k = l
      <3> SUFFICES ASSUME NEW n \in Mailbox, NEW o \in Mailbox, NEW k \in Nat, NEW l \in Nat,
                          InMail(n, k, i)', InMail(o, l, i)'
                   PROVE  n = o /\ k = l
        OBVIOUS
      <3> DEFINE b == IF n = m THEN k + 1 ELSE k
                 c == IF o = m THEN l + 1 ELSE l
      <3>1. b \in Nat /\ c \in Nat /\ InMail(n, b, i) /\ InMail(o, c, i)
        BY <1>5, <1>6
      <3>2. n = o /\ b = c
        BY <3>1 DEF MessageOK, OnePlace
      <3> QED BY <3>2
    <2>2. \A r \in Thread, n \in Mailbox, k \in Nat : ~(InPush(r, i)' /\ InMail(n, k, i)')
      <3> SUFFICES ASSUME NEW r \in Thread, NEW n \in Mailbox, NEW k \in Nat, InPush(r, i)', InMail(n, k, i)'
                   PROVE  FALSE
        OBVIOUS
      <3>1. \E l \in Nat : InMail(n, l, i)
        BY <1>5, <1>6
      <3> QED BY <1>4, <3>1 DEF MessageOK, OnePlace
    <2> QED BY <1>4, <2>1, <2>2 DEF MessageOK, OnePlace
  <1>8. CASE InMail(m, 1, i)
    <2>1. Waits(i)
      BY <1>8 DEF Waits
    <2>2. fate[i] = {} /\ i \in sent /\ fate'[i] = {what}
      BY <1>3, <1>8, <2>1 DEF MessageOK, OneFate
    <2>3. \A r \in Thread : ~InPush(r, i)'
      BY <1>4, <1>8 DEF MessageOK, OnePlace
    <2>4. \A n \in Mailbox, k \in Nat : ~InMail(n, k, i)'
      <3> SUFFICES ASSUME NEW n \in Mailbox, NEW k \in Nat, InMail(n, k, i)' PROVE FALSE
        OBVIOUS
      <3> DEFINE b == IF n = m THEN k + 1 ELSE k
      <3>1. b \in Nat /\ InMail(n, b, i) /\ (n = m => b # 1)
        BY <1>5, <1>6
      <3> HIDE DEF b
      <3> QED BY <1>8, <3>1 DEF MessageOK, OnePlace
    <2>5. ~Waits(i)'
      BY <2>3, <2>4 DEF Waits
    <2> QED BY <1>1, <1>7, <2>2, <2>5 DEF MessageOK, OneFate
  <1>9. CASE ~InMail(m, 1, i)
    <2>1. (\E k \in Nat : InMail(m, k, i)') <=> (\E k \in Nat : InMail(m, k, i))
      <3>1. ASSUME NEW k \in Nat, InMail(m, k, i)
            PROVE  \E l \in Nat : InMail(m, l, i)'
        <4>1. k # 0
          BY <3>1 DEF InMail, Has
        <4>2. k - 1 \in Nat /\ k - 1 # 0 /\ (k - 1) + 1 = k
          BY <1>9, <3>1, <4>1
        <4> QED BY <1>6, <3>1, <4>2
      <3> QED BY <1>6, <3>1
    <2>2. Waits(i)' <=> Waits(i)
      BY <1>4, <1>5, <2>1 DEF Waits
    <2>3. fate'[i] = fate[i]
      BY <1>3, <1>9
    <2> QED BY <1>1, <1>7, <2>2, <2>3 DEF MessageOK, OneFate
  <1> QED BY <1>8, <1>9

LEMMA OnceBears ==
    ASSUME NEW i \in MsgId, MessageOK(i), NEW m \in Mailbox, Bears(m)
    PROVE  MessageOK(i)'
  <1>1. /\ Mail(m) = <<>> /\ Mail(m)' = <<Activate>> /\ PushKept /\ fate' = fate /\ sent' = sent
        /\ \A n \in Mailbox \ {m} : Mail(n)' = Mail(n)
    BY DEF Bears, OnlyMail, history
  <1>2. \A k \in Nat : ~InMail(m, k, i) /\ ~InMail(m, k, i)'
    BY <1>1 DEF InMail, Has, Activate
  <1>3. \A n \in Mailbox \ {m}, k \in Nat : InMail(n, k, i)' <=> InMail(n, k, i)
    BY <1>1 DEF InMail, Has
  <1>4. \A r \in Thread : InPush(r, i)' <=> InPush(r, i)
    BY <1>1 DEF PushKept
  <1>5. \A n \in Mailbox, k \in Nat : InMail(n, k, i)' <=> InMail(n, k, i)
    BY <1>2, <1>3
  <1>6. OnePlace(i)'
    BY <1>4, <1>5 DEF MessageOK, OnePlace
  <1>7. Waits(i)' <=> Waits(i)
    BY <1>4, <1>5 DEF Waits
  <1> QED BY <1>1, <1>6, <1>7 DEF MessageOK, OneFate

LEMMA MessageStep == MessageInv /\ HomeInv' /\ [Next]_vars => MessagesOK'
  <1> SUFFICES ASSUME BoxInv, HomeInv', [Next]_vars, NEW i \in MsgId, MessageOK(i)
               PROVE  MessageOK(i)'
    BY DEF MessageInv, MessagesOK
  <1>1. TypeInv
    BY DEF BoxInv, ListedInv, HomeInv, CacheInv
  <1>2. Effect
    BY Effects
  <1>3. CASE Quiet
    BY <1>3, OnceKept DEF Quiet, history
  <1> QED BY <1>1, <1>2, <1>3, OnceSends, OnceDelivers, OnceDrops, OnceTakes, OnceBears DEF Effect

(* The inductive invariant of messages: each is at one place, a push or a   *)
(* position in the mail of one actor, iff it was sent and has no outcome.   *)
THEOREM MessageInvariant == ASSUME Settled PROVE Spec => []MessageInv
  <1>1. Init => MessagesOK
    <2> SUFFICES ASSUME Init, NEW i \in MsgId PROVE MessageOK(i)
      BY DEF MessagesOK
    <2>1. (\A t \in Thread : ~InPush(t, i)) /\ fate[i] = {} /\ i \notin sent
      BY DEF Init, InPush
    <2>2. \A m \in Mailbox, k \in Nat : ~InMail(m, k, i)
      BY InitMail DEF InMail, Has
    <2> QED BY <2>1, <2>2 DEF MessageOK, OnePlace, OneFate, Waits
  <1>2. MessageInv /\ HomeInv' /\ [Next]_vars => MessagesOK'
    BY MessageStep
  <1>3. (MessageInv <=> BoxInv /\ MessagesOK) /\ (BoxInv => HomeInv)
    BY BoxHome DEF MessageInv
  <1> QED BY <1>1, <1>2, <1>3, BoxInvariant, PTL DEF Spec

(* A message has at most one outcome, whatever is detached when and         *)
(* wherever its message waits: clearOneMailbox() bounces no message that    *)
(* runOneMailbox() has handled (actorpool.cpp:539, :586).                   *)
THEOREM OneOutcome == ASSUME Settled PROVE Spec => []AnsweredOnce
  <1>1. MessageInv => AnsweredOnce
    <2> SUFFICES ASSUME MessageInv, NEW i \in MsgId PROVE Cardinality(fate[i]) <= 1
      BY DEF AnsweredOnce
    <2>1. CASE fate[i] = {}
      BY <2>1, FS_EmptySet
    <2>2. ASSUME NEW x, fate[i] = {x}
          PROVE  Cardinality(fate[i]) <= 1
      <3>1. Cardinality({x}) = 1
        BY FS_Singleton, Zenon
      <3>2. Cardinality(fate[i]) = 1
        BY <2>2, <3>1
      <3> QED BY <3>2
    <2> QED BY <2>1, <2>2 DEF MessageInv, MessagesOK, MessageOK, OneFate
  <1> QED BY <1>1, MessageInvariant, PTL

(* What is in the mail of an actor is in one of its queues.                 *)
LEMMA MailIsQueued ==
    ASSUME TypeInv, NEW m \in Mailbox, NEW k \in Nat, NEW i \in MsgId, InMail(m, k, i)
    PROVE  Queued(i, m)
  <1> DEFINE q == Rest(currQ[m], Done(m))
             r == Fresh(m)
  <1>1. q \in Seq(Msg) /\ r \in Seq(Msg) /\ currQ[m] \in Seq(Msg) /\ nextQ[m] \in Seq(Msg) /\ Done(m) \in Nat
    BY MailType
  <1>2. /\ Mail(m) = q \o r /\ k \in 1 .. Len(Mail(m)) /\ Mail(m)[k].kind = "msg" /\ Mail(m)[k].id = i
    BY DEF InMail, Has, Mail
  <1>3. /\ Len(q) \in Nat /\ Len(r) \in Nat /\ k \in 1 .. (Len(q) + Len(r))
        /\ (q \o r)[k] = IF k <= Len(q) THEN q[k] ELSE r[k - Len(q)]
    <2> HIDE DEF q, r
    <2> QED BY <1>1, <1>2, ConcatProperties, LenProperties
  <1>4. CASE k <= Len(q)
    <2>1. Len(currQ[m]) \in Nat /\ (\A j \in (Done(m) + 1) .. Len(currQ[m]) : currQ[m][j] \in Msg)
      BY <1>1, LenProperties
    <2>2. Done(m) + k \in 1 .. Len(currQ[m]) /\ q[k] = currQ[m][Done(m) + k]
      <3>1. Done(m) + 1 \in Int /\ Len(currQ[m]) \in Int
        BY <1>1, <2>1
      <3>2. /\ Len(q) = IF Done(m) + 1 <= Len(currQ[m]) THEN Len(currQ[m]) - (Done(m) + 1) + 1 ELSE 0
            /\ \A j \in 1 .. Len(currQ[m]) - (Done(m) + 1) + 1 : q[j] = currQ[m][Done(m) + 1 + j - 1]
        BY <2>1, <3>1, SubSeqProperties DEF Rest
      <3> HIDE DEF q, r
      <3>3. k \in Nat /\ k >= 1 /\ k <= Len(q) /\ Done(m) \in Nat /\ Len(currQ[m]) \in Nat
        BY <1>1, <1>3, <1>4, <2>1
      <3>4. Done(m) + 1 <= Len(currQ[m]) /\ Len(q) = Len(currQ[m]) - (Done(m) + 1) + 1
        BY <3>2, <3>3
      <3>5. k \in 1 .. Len(currQ[m]) - (Done(m) + 1) + 1 /\ Done(m) + 1 + k - 1 = Done(m) + k
        BY <3>3, <3>4
      <3>6. q[k] = currQ[m][Done(m) + k]
        BY <3>2, <3>5
      <3> QED BY <3>3, <3>4, <3>6
    <2>3. DOMAIN currQ[m] = 1 .. Len(currQ[m])
      BY <1>1, LenProperties
    <2> HIDE DEF q, r
    <2> QED BY <1>2, <1>3, <1>4, <2>2, <2>3 DEF Queued
  <1>5. CASE k > Len(q)
    <2>1. k - Len(q) \in 1 .. Len(r)
      <3> HIDE DEF q, r
      <3> QED BY <1>3, <1>5
    <2>2. r = nextQ[m]
      <3>1. r = <<>> \/ r = nextQ[m]
        BY DEF Fresh
      <3>2. r = <<>> => Len(r) = 0
        <4> HIDE DEF r
        <4> QED OBVIOUS
      <3> HIDE DEF q, r
      <3> QED BY <1>3, <2>1, <3>1, <3>2
    <2>3. DOMAIN nextQ[m] = 1 .. Len(nextQ[m])
      BY <1>1, LenProperties
    <2> HIDE DEF q, r
    <2> QED BY <1>2, <1>3, <1>5, <2>1, <2>2, <2>3 DEF Queued
  <1> QED BY <1>3, <1>4, <1>5

(* A message that was sent and has no outcome yet is being pushed, or in a  *)
(* queue of a mailbox that is still listed: neither swap of the queues, nor *)
(* erase of [begin, p), nor clearOneMailbox() with a post that races it     *)
(* leaves one behind.                                                       *)
THEOREM NothingLost == ASSUME Settled PROVE Spec => []NoMessageLost
  <1>1. MessageInv => NoMessageLost
    <2> SUFFICES ASSUME MessageInv, NEW i \in sent, fate[i] = {}
                 PROVE  \/ \E t \in Thread : pc[t] = "push" /\ out[t].id = i
                        \/ \E m \in Mailbox : phase[m] = "listed" /\ Queued(i, m)
      BY DEF NoMessageLost
    <2>1. TypeInv /\ i \in MsgId
      BY DEF MessageInv, BoxInv, ListedInv, HomeInv, CacheInv, TypeInv, TypeOK
    <2>2. Waits(i)
      BY <2>1 DEF MessageInv, MessagesOK, MessageOK, OneFate
    <2>3. CASE \E t \in Thread : InPush(t, i)
      BY <2>3 DEF InPush
    <2>4. ASSUME NEW m \in Mailbox, NEW k \in Nat, InMail(m, k, i)
          PROVE  phase[m] = "listed" /\ Queued(i, m)
      <3>1. Mail(m) # <<>>
        BY <2>4 DEF InMail, Has
      <3>2. phase[m] = "listed"
        BY <3>1 DEF MessageInv, BoxInv, MailListed
      <3> QED BY <2>1, <2>4, <3>2, MailIsQueued
    <2> QED BY <2>2, <2>3, <2>4 DEF Waits
  <1> QED BY <1>1, MessageInvariant, PTL
-----------------------------------------------------------------------------
(* What the refinement needs besides: only a mailbox that was attached is   *)
(* detached; an actor about to be destroyed from outside is still listed    *)
(* and not detached by anybody else; a handler has its message.             *)
UnbornOpen == \A m \in Mailbox : phase[m] = "unborn" => schedLock[m] # DETACHED
Outsiders ==
    \A p \in Public :
       /\ At(p) \in {"spin", "detaching"} => phase[cur[p]] = "listed"
       /\ At(p) = "detaching" => schedLock[cur[p]] # DETACHED
HandlerPos == \A w \in Worker : At(w) = "handler" => pos[w] \in 1 .. Len(currQ[cur[w]])
ActorInv == BoxInv /\ UnbornOpen /\ Outsiders /\ HandlerPos

LEMMA UnbornStep == ASSUME ActorInv, [Next]_vars PROVE UnbornOpen'
  <1> SUFFICES ASSUME NEW m \in Mailbox, phase'[m] = "unborn", schedLock'[m] = DETACHED
               PROVE  FALSE
    BY DEF UnbornOpen
  <1>0. TypeInv /\ phase \in [Mailbox -> {"unborn", "listed", "erased"}] /\ CacheInv
    BY DEF ActorInv, BoxInv, ListedInv, HomeInv, CacheInv, TypeInv, TypeOK
  <1>1. CASE schedLock[m] = DETACHED
    <2>1. phase[m] # "unborn"
      BY <1>1 DEF ActorInv, UnbornOpen
    <2>2. \A t \in Thread, n \in Mailbox : Attach(t, n) => phase'[m] # "unborn"
      BY <1>0, <2>1 DEF Attach
    <2>3. \A w \in Worker : Erase(w) => phase'[m] # "unborn"
      BY <1>0, <2>1 DEF Erase
    <2>4. phase' # phase
      BY <2>1
    <2>5. ~UNCHANGED vars
      BY <2>4 DEF vars, mailboxVars
    <2>6. ASSUME NEW w \in Worker, WorkerStep(w)
          PROVE  Erase(w) \/ \E n \in Mailbox : Attach(w, n)
      BY <2>4, <2>6 DEF WorkerStep, PostPush, PostNotify, PopOwn, Steal, PickUID, BeginScan,
         VisitNext, EndScan, Grab, RunNext, Unlock, HandlerPost, Send, HandlerAttach, HandlerDetach,
         HandlerReturn, Exit, Clear, Bounce, ClearDone, mailboxVars
    <2>7. ASSUME NEW p \in Public, PublicStep(p)
          PROVE  \E n \in Mailbox : Attach(p, n)
      BY <2>4, <2>7 DEF PublicStep, PostPush, PostNotify, PublicAttach, PublicDetach,
         PublicPost, Send, SpinGrab, Detaching, DetachReturn, mailboxVars
    <2> QED BY <2>2, <2>3, <2>5, <2>6, <2>7 DEF Next, Thread
  <1>2. CASE schedLock[m] # DETACHED
    <2>1. ASSUME NEW t \in Thread, HandlerDetach(t) \/ Detaching(t), cur[t] = m
          PROVE  FALSE
      <3>1. At(t) \in OnMailbox /\ phase' = phase
        BY <2>1 DEF HandlerDetach, Detaching, At, OnMailbox
      <3> QED BY <1>0, <2>1, <3>1 DEF CacheInv, Born
    <2> QED BY <1>0, <1>2, <2>1, WhoDetaches DEF Thread
  <1> QED BY <1>1, <1>2

LEMMA OutsidersStep == ASSUME ActorInv, [Next]_vars PROVE Outsiders'
  <1> SUFFICES ASSUME NEW p \in Public, At(p)' \in {"spin", "detaching"}
               PROVE  /\ phase'[cur'[p]] = "listed"
                      /\ At(p)' = "detaching" => schedLock'[cur'[p]] # DETACHED
    BY DEF Outsiders
  <1>0. /\ TypeInv /\ p \in Thread /\ p \notin Worker
        /\ pc \in [Thread -> PC] /\ back \in [Thread -> {"idle", "handler", "bounce"}]
        /\ cur \in [Thread -> Mailbox \cup {None}]
        /\ schedLock \in [Mailbox -> Worker \cup {READY, DETACHED, ACCESS_PUB}]
    BY ThreadAssumption DEF Thread, ActorInv, BoxInv, ListedInv, HomeInv, CacheInv, TypeInv, TypeOK
  <1>1. Stay(p) \/ Outside(p)
    BY <1>0, Moves
  <1>2. CASE Stay(p) \/ At(p) = "spin"
    <2>1. PICK m \in Mailbox : m = cur[p] /\ m = cur'[p] /\ phase[m] = "listed" /\ At(p) \in {"spin", "detaching"}
      BY <1>0, <1>1, <1>2 DEF Stay, Outside, ActorInv, Outsiders, TypeInv, Registers, OnMailbox
    <2>2. phase'[m] = "listed"
      <3>1. ASSUME NEW w \in Worker, Erase(w), cur[w] = m
            PROVE  FALSE
        <4>1. /\ pc[w] = "erase" /\ At(w) = "erase" /\ WLockFree(w) /\ w \in Thread
          BY <3>1 DEF Erase, At, Thread
        <4>2. Home[UidOf[m]] = w /\ schedLock[m] = DETACHED
          BY <3>1, <4>1 DEF ActorInv, BoxInv, ListedInv, HomeInv, RemovedHome, DetachedFirst, Inside, Removing
        <4>3. At(p) = "spin" /\ pc[p] = "spin"
          BY <1>0, <2>1, <4>2 DEF ActorInv, Outsiders, At
        <4> QED BY <1>0, <2>1, <4>1, <4>2, <4>3 DEF WLockFree, RLocks
      <3> QED BY <1>0, <2>1, <3>1, OnlyEraseUnlists
    <2>3. ASSUME At(p)' = "detaching", schedLock'[m] = DETACHED
          PROVE  FALSE
      <3>1. CASE At(p) = "detaching"
        <4>1. schedLock[m] # DETACHED /\ Holds(p, m)
          BY <2>1, <3>1 DEF ActorInv, Outsiders, Holds, Holding
        <4>2. ASSUME NEW w \in Worker, HandlerDetach(w), cur[w] = m
              PROVE  FALSE
          <5>1. Holds(w, m) /\ w \in Thread
            BY <4>2 DEF HandlerDetach, Holds, Holding, At, Thread
          <5> QED BY <1>0, <4>1, <4>2, <5>1 DEF ActorInv, BoxInv, ListedInv, HomeInv, ExclusionInv, OneHolder
        <4>3. ASSUME NEW q \in Public, Detaching(q), cur[q] = m
              PROVE  FALSE
          <5>1. Holds(q, m) /\ q \in Thread
            BY <4>3 DEF Detaching, Holds, Holding, At, Thread
          <5>2. q = p
            BY <1>0, <4>1, <5>1 DEF ActorInv, BoxInv, ListedInv, HomeInv, ExclusionInv, OneHolder
          <5> QED BY <1>0, <2>3, <4>3, <5>2 DEF Detaching, At
        <4> QED BY <1>0, <2>3, <4>1, <4>2, <4>3, WhoDetaches
      <3>2. CASE At(p) = "spin"
        <4>1. SpinGrab(p)
          <5>1. ~Stay(p) /\ pc[p] = "spin"
            BY <1>0, <2>3, <3>2 DEF Stay, At
          <5>2. ~UNCHANGED vars
            BY <5>1 DEF Stay, At, vars, postVars, workerVars
          <5>3. \A w \in Worker : ~WorkerStep(w)
            BY <1>0, <5>1, WorkerMoves DEF Others
          <5>4. \A q \in Public : PublicStep(q) => q = p
            BY <1>0, <5>1, PublicMoves DEF Others
          <5>5. PublicStep(p)
            BY <5>2, <5>3, <5>4 DEF Next
          <5> QED BY <5>1, <5>5 DEF PublicStep, PostPush, PostNotify, PublicAttach, PublicDetach, PublicPost,
                     Detaching, DetachReturn
        <4> QED BY <1>0, <2>1, <2>3, <4>1, LockIds DEF SpinGrab, Acquire
      <3> QED BY <2>1, <3>1, <3>2
    <2> QED BY <2>1, <2>2, <2>3
  <1>3. CASE ~Stay(p) /\ At(p) # "spin"
    <2>1. At(p) = "idle" /\ At(p)' = "spin"
      BY <1>1, <1>3 DEF Outside
    <2>2. ~UNCHANGED vars
      BY <1>3 DEF Stay, At, vars, postVars, workerVars
    <2>3. \A w \in Worker : ~WorkerStep(w)
      BY <1>0, <1>3, WorkerMoves DEF Others
    <2>4. \A q \in Public : PublicStep(q) => q = p
      BY <1>0, <1>3, PublicMoves DEF Others
    <2>5. PublicStep(p)
      BY <2>2, <2>3, <2>4 DEF Next
    <2>6. PICK m \in Mailbox : PublicDetach(p, m)
      <3>1. ~(PostPush(p) \/ PostNotify(p))
        BY <1>0, <2>1, PostStays
      <3>2. ASSUME NEW u \in UID, NEW i \in MsgId, PublicPost(p, u, i)
            PROVE  FALSE
        BY <1>0, <2>1, <3>2, LookupStays DEF PublicPost, Send
      <3>3. ~\E m \in Mailbox : PublicAttach(p, m)
        BY <2>1 DEF PublicAttach, Attach, At, postVars
      <3>4. ~(SpinGrab(p) \/ Detaching(p) \/ DetachReturn(p))
        BY <2>1 DEF SpinGrab, Detaching, DetachReturn, At
      <3> QED BY <2>5, <3>1, <3>2, <3>3, <3>4 DEF PublicStep
    <2>7. cur'[p] = m /\ phase'[m] = "listed"
      BY <1>0, <2>6 DEF PublicDetach, mailboxVars
    <2> QED BY <2>1, <2>7
  <1> QED BY <1>2, <1>3
(* The count and the queue of an actor in its handler are left alone.       *)
LEMMA OwnQueue ==
    ASSUME BoxInv, [Next]_vars, NEW v \in Worker, At(v) = "handler"
    PROVE  pos'[v] = pos[v] /\ currQ'[cur[v]] = currQ[cur[v]]
  <1>0. /\ TypeInv /\ v \in Thread /\ cur[v] \in Mailbox
        /\ currQ \in [Mailbox -> Seq(Msg)] /\ pos \in [Thread -> Nat]
    BY DEF Thread, BoxInv, ListedInv, HomeInv, CacheInv, TypeInv, TypeOK, Registers, OnMailbox
  <1>1. ASSUME UNCHANGED <<currQ, pos>>
        PROVE  pos'[v] = pos[v] /\ currQ'[cur[v]] = currQ[cur[v]]
    BY <1>1
  <1>2. ASSUME NEW w \in Worker, RunNext(w) \/ Clear(w) \/ Bounce(w) \/ ClearDone(w)
        PROVE  pos'[v] = pos[v] /\ currQ'[cur[v]] = currQ[cur[v]]
    <2>1. PICK m \in Mailbox : m = cur[w] /\ w # v /\ cur[v] # m /\ w \in Thread
      <3>1. pc[w] \in {"run", "clear", "bounce"} /\ At(w) = pc[w]
        BY <1>2 DEF RunNext, Clear, Bounce, ClearDone, At
      <3>2. w \in Thread /\ cur[w] \in Mailbox /\ w # v
        BY <1>0, <3>1 DEF TypeInv, Registers, Thread, OnMailbox
      <3>3. cur[v] # cur[w]
        BY <3>1, <3>2, OneVisitor, BoxHome DEF Inside, Removing
      <3> QED BY <3>2, <3>3
    <2>2. pos'[v] = pos[v]
      BY <1>0, <1>2, <2>1 DEF RunNext, RunEmpty, RunSwap, RunDetached, RunDispatch, RunReturn, Clear, Bounce, ClearDone
    <2>3. \A n \in Mailbox \ {m} : currQ'[n] = currQ[n]
      BY <1>0, <1>2, <2>1 DEF RunNext, RunEmpty, RunSwap, RunDetached, RunDispatch, Clear, Bounce, ClearDone, mailboxVars
    <2> QED BY <1>0, <2>1, <2>2, <2>3
  <1>3. ASSUME NEW w \in Worker, WorkerStep(w), ~(RunNext(w) \/ Clear(w) \/ Bounce(w) \/ ClearDone(w))
        PROVE  UNCHANGED <<currQ, pos>>
    BY <1>3 DEF WorkerStep, PostPush, PostNotify, PopOwn, Steal, PickUID, BeginScan, VisitNext,
       EndScan, Grab, Unlock, HandlerPost, Send, HandlerAttach, Attach, HandlerDetach, HandlerReturn, Exit,
       Erase, mailboxVars
  <1>4. ASSUME NEW p \in Public, PublicStep(p)
        PROVE  UNCHANGED <<currQ, pos>>
    BY <1>4 DEF PublicStep, PostPush, PostNotify, PublicAttach, Attach, PublicDetach, PublicPost, Send,
       SpinGrab, Detaching, DetachReturn, mailboxVars
  <1>5. UNCHANGED vars => UNCHANGED <<currQ, pos>>
    BY DEF vars, mailboxVars
  <1> QED BY <1>1, <1>2, <1>3, <1>4, <1>5 DEF Next

(* How a worker gets into a handler, and out of it.                         *)
LEMMA WhoEnters ==
    ASSUME TypeInv, [Next]_vars, NEW v \in Worker, At(v) # "handler", At(v)' = "handler"
    PROVE  RunNext(v) /\ RunDispatch(v, cur[v])
  <1>0. v \in Thread /\ pc \in [Thread -> PC]
    BY DEF Thread, TypeInv, TypeOK
  <1>1. At(v) = "run"
    <2>1. Stay(v) \/ WorkerMove(v)
      BY <1>0, Moves, ThreadAssumption
    <2> QED BY <2>1 DEF Stay, WorkerMove, Enter, Walk, Leave
  <1>2. WorkerStep(v)
    <2>1. ~UNCHANGED vars
      BY DEF At, vars, postVars
    <2>2. \A w \in Worker : WorkerStep(w) => w = v
      BY <1>0, WorkerMoves DEF Others, Stay
    <2>3. \A p \in Public : ~PublicStep(p)
      BY <1>0, PublicMoves, ThreadAssumption DEF Others, Stay
    <2> QED BY <2>1, <2>2, <2>3 DEF Next
  <1>3. ~(PostPush(v) \/ PostNotify(v))
    BY <1>0, PostStays
  <1>4. RunNext(v)
    <2>1. pc[v] = "run"
      <3>1. CASE pc[v] \in {"push", "notify"}
        BY <1>2, <1>3, <3>1 DEF WorkerStep, PopOwn, Steal, Idle, PickUID, BeginScan, VisitNext, EndScan, Grab, RunNext,
           Unlock, HandlerPost, HandlerAttach, HandlerDetach, HandlerReturn, Exit, Clear, Bounce, ClearDone, Erase
      <3> QED BY <1>1, <3>1 DEF At
    <2> QED BY <1>2, <1>3, <2>1 DEF WorkerStep, PopOwn, Steal, Idle, PickUID, BeginScan, VisitNext, EndScan, Grab,
           Unlock, HandlerPost, HandlerAttach, HandlerDetach, HandlerReturn, Exit, Clear, Bounce, ClearDone, Erase
  <1>5. pc'[v] # "run" /\ pc'[v] # "unlock"
    BY DEF At
  <1> QED BY <1>0, <1>4, <1>5 DEF RunNext, RunEmpty, RunSwap, RunDetached, RunReturn

LEMMA HandlerPosStep == ASSUME BoxInv, HandlerPos, [Next]_vars PROVE HandlerPos'
  <1> SUFFICES ASSUME NEW v \in Worker, At(v)' = "handler"
               PROVE  pos'[v] \in 1 .. Len(currQ'[cur'[v]])
    BY DEF HandlerPos
  <1>0. /\ TypeInv /\ v \in Thread /\ v \notin Public
        /\ currQ \in [Mailbox -> Seq(Msg)] /\ pos \in [Thread -> Nat]
    BY ThreadAssumption DEF Thread, BoxInv, ListedInv, HomeInv, CacheInv, TypeInv, TypeOK
  <1>1. CASE At(v) = "handler"
    <2>1. cur'[v] = cur[v]
      BY <1>0, <1>1, Moves DEF Stay, WorkerMove, Enter, Walk, Leave
    <2> QED BY <1>1, <2>1, OwnQueue DEF HandlerPos
  <1>2. CASE At(v) # "handler"
    <2>1. RunNext(v) /\ RunDispatch(v, cur[v])
      BY <1>0, <1>2, WhoEnters
    <2>2. cur'[v] = cur[v] /\ currQ' = currQ /\ pos'[v] = pos[v] + 1 /\ pos[v] < Len(currQ[cur[v]])
      BY <1>0, <2>1 DEF RunNext, RunDispatch
    <2>3. cur[v] \in Mailbox /\ pos[v] \in Nat /\ Len(currQ[cur[v]]) \in Nat
      <3>1. cur[v] \in Mailbox
        BY <1>0, <2>1 DEF RunNext, TypeInv, Registers, At, OnMailbox
      <3> QED BY <1>0, <3>1, QueueFacts
    <2> QED BY <2>2, <2>3
  <1> QED BY <1>1, <1>2

(* The inductive invariant of the refinement: BoxInv, and that only listed  *)
(* mailboxes are detached and a running handler has a message.              *)
THEOREM ActorInvariant == ASSUME Settled PROVE Spec => []ActorInv
  <1>1. Init => UnbornOpen /\ Outsiders /\ HandlerPos
    BY ThreadAssumption DEF Init, UnbornOpen, Outsiders, HandlerPos, At, Thread
  <1>2. ActorInv /\ [Next]_vars => UnbornOpen' /\ Outsiders' /\ HandlerPos'
    BY UnbornStep, OutsidersStep, HandlerPosStep DEF ActorInv
  <1>3. ActorInv <=> BoxInv /\ UnbornOpen /\ Outsiders /\ HandlerPos
    BY DEF ActorInv
  <1> QED BY <1>1, <1>2, <1>3, BoxInvariant, PTL DEF Spec

(* A mailbox is never erased under a thread that works on it.  It is not    *)
(* the schedLock that sees to it, as actorpool.cpp:219 has it: the home     *)
(* worker erases without asking for the lock.  It is that nobody else is    *)
(* inside a detached mailbox, that a push and a try for the lock keep the   *)
(* r-lock, and that an outside detach() which holds the lock has not        *)
(* detached yet: the step it takes after that is not covered.               *)
THEOREM MailboxesAlive == ASSUME Settled PROVE Spec => []MailboxKept
  <1>1. ActorInv => MailboxKept
    <2> SUFFICES ASSUME ActorInv, NEW t \in Thread
                 PROVE  /\ cur[t] # None /\ pc[t] # "detached" => phase[cur[t]] = "listed"
                        /\ pc[t] = "push" => phase[tgt[t]] = "listed"
      BY DEF MailboxKept
    <2>0. ListedInv /\ PublicPlaces /\ back[t] # "detached"
      BY DEF ActorInv, BoxInv, ListedInv, HomeInv, CacheInv, TypeInv, TypeOK
    <2>1. ASSUME cur[t] # None, pc[t] # "detached"
          PROVE  phase[cur[t]] = "listed"
      <3>1. At(t) \in OnMailbox /\ At(t) # "detached"
        BY <2>0, <2>1 DEF ListedInv, Placeless, At
      <3>2. CASE t \in Worker
        BY <2>0, <3>1, <3>2 DEF ListedInv, WorkersListed
      <3>3. CASE t \in Public
        <4>1. At(t) \in {"spin", "detaching"}
          BY <2>0, <3>1, <3>3 DEF PublicPlaces, OnMailbox
        <4> QED BY <3>3, <4>1 DEF ActorInv, Outsiders
      <3> QED BY <3>2, <3>3 DEF Thread
    <2>2. pc[t] = "push" => phase[tgt[t]] = "listed"
      BY <2>0 DEF ListedInv, PushesListed
    <2> QED BY <2>1, <2>2
  <1> QED BY <1>1, ActorInvariant, PTL
-----------------------------------------------------------------------------
(* The mailbox of ActorMailbox, read off the worker inside it.              *)
State(m) ==
    IF phase[m] = "unborn" THEN "unborn" ELSE
    IF phase[m] = "erased" THEN "gone" ELSE
    IF schedLock[m] = DETACHED THEN "closed" ELSE "open"
Handles(m) == \E t \in Thread : InHandler(t, m)
Hand(m) == IF Handles(m) THEN currQ[m][Done(m)] ELSE None

StateKept == \A m \in Mailbox : State(m)' = State(m)
OnlyState(m, s) == State(m)' = s /\ \A n \in Mailbox \ {m} : State(n)' = State(n)
HandKept == \A m \in Mailbox : Hand(m)' = Hand(m)
OnlyHand(m, x) == Hand(m)' = x /\ \A n \in Mailbox \ {m} : Hand(n)' = Hand(n)

LEMMA BoxIs ==
    ASSUME BoxInv, NEW m \in Mailbox
    PROVE  boxState[m] = State(m) /\ boxInbox[m] = Mail(m) /\ boxHandling[m] = Hand(m)
  <1>0. TypeInv
    BY BoxHome
  <1>1. boxState[m] = State(m)
    <2>1. phase[m] \in {"unborn", "listed", "erased"}
      BY <1>0 DEF TypeInv, TypeOK
    <2> QED BY <2>1 DEF boxState, State
  <1>2. boxInbox[m] = Mail(m)
    <2>1. Rest(currQ[m], Done(m)) \in Seq(Msg) /\ Rest(currQ[m], Done(m)) \o <<>> = Rest(currQ[m], Done(m))
      BY <1>0, MailType, JoinFacts
    <2>2. boxInbox[m] = IF Copied(m) THEN Rest(currQ[m], Done(m)) ELSE Rest(currQ[m], Done(m)) \o nextQ[m]
      BY DEF boxInbox, Rest, Copied
    <2> QED BY <2>1, <2>2 DEF Mail, Fresh
  <1>3. boxHandling[m] = Hand(m)
    BY DEF boxHandling, Hand, Handles
  <1> QED BY <1>1, <1>2, <1>3

LEMMA Changes ==
    ASSUME BoxInv, BoxInv'
    PROVE  /\ MailKept => boxInbox' = boxInbox
           /\ StateKept => boxState' = boxState
           /\ HandKept => boxHandling' = boxHandling
           /\ \A q : \A m \in Mailbox : OnlyMail(m, q) => boxInbox' = [boxInbox EXCEPT ![m] = q]
           /\ \A s : \A m \in Mailbox : OnlyState(m, s) => boxState' = [boxState EXCEPT ![m] = s]
           /\ \A x : \A m \in Mailbox : OnlyHand(m, x) => boxHandling' = [boxHandling EXCEPT ![m] = x]
  <1>1. \A m \in Mailbox : /\ boxState[m] = State(m) /\ boxInbox[m] = Mail(m) /\ boxHandling[m] = Hand(m)
                           /\ boxState'[m] = State(m)' /\ boxInbox'[m] = Mail(m)' /\ boxHandling'[m] = Hand(m)'
    <2> SUFFICES ASSUME NEW m \in Mailbox
                 PROVE  /\ boxState[m] = State(m) /\ boxInbox[m] = Mail(m) /\ boxHandling[m] = Hand(m)
                        /\ boxState'[m] = State(m)' /\ boxInbox'[m] = Mail(m)' /\ boxHandling'[m] = Hand(m)'
      OBVIOUS
    <2>1. BoxInv => boxState[m] = State(m) /\ boxInbox[m] = Mail(m) /\ boxHandling[m] = Hand(m)
      BY BoxIs
    <2>2. (BoxInv => boxState[m] = State(m) /\ boxInbox[m] = Mail(m) /\ boxHandling[m] = Hand(m))'
      BY BoxIs, PTL
    <2> QED BY <2>1, <2>2
  <1>2. /\ boxState = [m \in Mailbox |-> boxState[m]] /\ boxState' = [m \in Mailbox |-> boxState'[m]]
        /\ boxInbox = [m \in Mailbox |-> boxInbox[m]] /\ boxInbox' = [m \in Mailbox |-> boxInbox'[m]]
        /\ boxHandling = [m \in Mailbox |-> boxHandling[m]] /\ boxHandling' = [m \in Mailbox |-> boxHandling'[m]]
    <2>1. boxState = [m \in Mailbox |-> boxState[m]] /\ boxState' = [m \in Mailbox |-> boxState'[m]]
      <3>1. \A m \in Mailbox : phase[m] \in {"unborn", "listed", "erased"} /\ phase'[m] \in {"unborn", "listed", "erased"}
        BY DEF BoxInv, ListedInv, HomeInv, CacheInv, TypeInv, TypeOK
      <3>2. boxState = [m \in Mailbox |-> State(m)]
        BY <3>1 DEF boxState, State
      <3>3. boxState' = [m \in Mailbox |-> State(m)']
        BY <3>1 DEF boxState, State
      <3> QED BY <3>2, <3>3
    <2>2. boxInbox = [m \in Mailbox |-> boxInbox[m]] /\ boxInbox' = [m \in Mailbox |-> boxInbox'[m]]
      BY Zenon DEF boxInbox
    <2>3. boxHandling = [m \in Mailbox |-> boxHandling[m]] /\ boxHandling' = [m \in Mailbox |-> boxHandling'[m]]
      BY Zenon DEF boxHandling
    <2> QED BY <2>1, <2>2, <2>3
  <1>3. MailKept => boxInbox' = boxInbox
    BY <1>1, <1>2 DEF MailKept
  <1>4. StateKept => boxState' = boxState
    BY <1>1, <1>2 DEF StateKept
  <1>5. HandKept => boxHandling' = boxHandling
    BY <1>1, <1>2 DEF HandKept
  <1>6. \A q : \A m \in Mailbox : OnlyMail(m, q) => boxInbox' = [boxInbox EXCEPT ![m] = q]
    BY <1>1, <1>2 DEF OnlyMail
  <1>7. \A s : \A m \in Mailbox : OnlyState(m, s) => boxState' = [boxState EXCEPT ![m] = s]
    BY <1>1, <1>2 DEF OnlyState
  <1>8. \A x : \A m \in Mailbox : OnlyHand(m, x) => boxHandling' = [boxHandling EXCEPT ![m] = x]
    BY <1>1, <1>2 DEF OnlyHand
  <1> QED BY <1>3, <1>4, <1>5, <1>6, <1>7, <1>8
-----------------------------------------------------------------------------
(* The refinement: a step of ActorMailbox or none for every step.           *)
BoxVars == <<boxState, boxInbox, boxHandling, deleted>>
BoxStep == Box!Next \/ UNCHANGED BoxVars

LEMMA BoxStill ==
    ASSUME BoxInv, BoxInv', MailKept, StateKept, HandKept, UNCHANGED deleted
    PROVE  BoxStep
  BY Changes DEF BoxStep, BoxVars

(* What a handler has taken is kept until somebody enters or leaves it.     *)
LEMMA HandSame ==
    ASSUME BoxInv, HomeInv', [Next]_vars, NEW m \in Mailbox,
           \A h \in Worker : InHandler(h, m)' <=> InHandler(h, m)
    PROVE  Hand(m)' = Hand(m)
  <1>1. /\ \A h \in Thread : InHandler(h, m) => h \in Worker
        /\ \A h \in Thread : InHandler(h, m)' => h \in Worker
    BY DEF BoxInv, ListedInv, HomeInv, PublicPlaces, InHandler, Thread
  <1>2. CASE Handles(m)
    <2>1. PICK h \in Thread : InHandler(h, m)
      BY <1>2 DEF Handles
    <2>2. h \in Worker /\ InHandler(h, m)'
      BY <1>1, <2>1
    <2>3. pos'[h] = pos[h] /\ currQ'[m] = currQ[m]
      BY <2>1, <2>2, OwnQueue DEF InHandler
    <2>4. Done(m) = pos[h]
      BY <2>1, DoneIs, BoxHome DEF InHandler, Runs
    <2>5. Done(m)' = pos'[h]
      BY <2>1, <2>2, DoneIsNext DEF InHandler, Runs
    <2>6. Handles(m)'
      BY <2>2, <2>1 DEF Handles
    <2> QED BY <1>2, <2>3, <2>4, <2>5, <2>6 DEF Hand
  <1>3. CASE ~Handles(m)
    <2>1. ~Handles(m)'
      BY <1>1, <1>3 DEF Handles
    <2> QED BY <1>3, <2>1 DEF Hand
  <1> QED BY <1>2, <1>3

(* Who is in no handler, and does not get into one, leaves all as it is.    *)
LEMMA HandQuiet ==
    ASSUME BoxInv, HomeInv', [Next]_vars, NEW t \in Thread, Others(t),
           t \in Worker => (At(t) = "handler" <=> At(t)' = "handler")
    PROVE  HandKept
  <1>0. TypeInv
    BY BoxHome
  <1>1. ASSUME NEW m \in Mailbox, NEW h \in Worker
        PROVE  InHandler(h, m)' <=> InHandler(h, m)
    <2>0. h \in Thread /\ h \notin Public
      BY ThreadAssumption DEF Thread
    <2>1. At(h) = "handler" <=> At(h)' = "handler"
      BY <2>0 DEF Others, Stay
    <2>2. At(h) = "handler" => cur'[h] = cur[h]
      BY <1>0, <2>0, <2>1, Moves DEF Stay, WorkerMove, Enter, Walk, Leave
    <2> QED BY <2>1, <2>2 DEF InHandler
  <1> QED BY <1>1, HandSame DEF HandKept

LEMMA StateQuiet ==
    ASSUME TypeInv, UNCHANGED phase,
           \/ UNCHANGED schedLock
           \/ \E t \in Thread : (Acquire(t, cur[t]) /\ schedLock[cur[t]] = READY) \/ Release(t, cur[t])
    PROVE  StateKept
  <1>1. \A m \in Mailbox : schedLock'[m] = DETACHED <=> schedLock[m] = DETACHED
    BY LockIds, ThreadAssumption DEF Acquire, Release, TypeInv, TypeOK
  <1> QED BY <1>1 DEF StateKept, State

(* Steps of the scheduler that ActorMailbox knows nothing of.               *)
LEMMA WorkerStill ==
    ASSUME BoxInv, BoxInv', NEW w \in Worker, WorkerStep(w),
           \/ PostNotify(w) \/ PopOwn(w) \/ (\E v \in Worker : Steal(w, v))
           \/ (\E u \in UID : PickUID(w, u)) \/ BeginScan(w) \/ (\E m \in Mailbox : VisitNext(w, m))
           \/ EndScan(w) \/ Grab(w) \/ Unlock(w) \/ Clear(w) \/ ClearDone(w)
           \/ (\E u \in UID, i \in MsgId : HandlerPost(w, u, i))
           \/ RunNext(w) /\ ~RunDispatch(w, cur[w])
    PROVE  BoxStep
  <1>0. TypeInv /\ w \in Thread /\ [Next]_vars /\ Others(w) /\ pc \in [Thread -> PC]
        /\ back \in [Thread -> {"idle", "handler", "bounce"}]
    BY WorkerMoves DEF Thread, BoxInv, ListedInv, HomeInv, CacheInv, Next, TypeInv, TypeOK
  <1>1. MailKept
    <2>1. CASE PostNotify(w)
      BY <1>0, <2>1, PostStays, NotifyEffect, BoxHome DEF Stay, PostNotify, workerVars, Quiet
    <2>2. CASE Clear(w) \/ ClearDone(w)
      BY <2>2, ClearEffect, BoxHome DEF Quiet
    <2>3. CASE RunNext(w) /\ ~RunDispatch(w, cur[w])
      BY <2>3, RunEffect, BoxHome DEF Quiet
    <2>4. CASE \E u \in UID, i \in MsgId : HandlerPost(w, u, i)
      <3>1. PICK u \in UID, i \in MsgId : pc[w] = "handler" /\ Send(w, u, i, UidOf[cur[w]], "handler")
        BY <2>4 DEF HandlerPost
      <3>2. cur[w] \in Mailbox /\ UidOf[cur[w]] \in UID
        BY <1>0, <3>1, UidOfMailbox DEF TypeInv, Registers, At, OnMailbox
      <3>3. Stay(w)
        <4>1. At(w)' = At(w)
          BY <1>0, <3>1, LookupStays DEF Send
        <4> QED BY <3>1, <4>1 DEF Stay, Send, workerVars
      <3>4. Sends(w, i)
        BY <1>0, <3>1, <3>2, <3>3, SendEffect, BoxHome
      <3> QED BY <3>4 DEF Sends
    <2>5. CASE \/ PopOwn(w) \/ (\E v \in Worker : Steal(w, v))
               \/ (\E u \in UID : PickUID(w, u)) \/ BeginScan(w) \/ (\E m \in Mailbox : VisitNext(w, m))
               \/ EndScan(w) \/ Grab(w) \/ Unlock(w)
      BY <2>5, WorkerQuiet, BoxHome DEF Quiet
    <2> QED BY <2>1, <2>2, <2>3, <2>4, <2>5
  <1>2. StateKept
    <2>1. UNCHANGED phase
      BY DEF PostNotify, PopOwn, Steal, PickUID, BeginScan, VisitNext, EndScan, Grab, Unlock, Clear,
         ClearDone, HandlerPost, Send, RunNext, mailboxVars
    <2>2. CASE Grab(w)
      BY <1>0, <2>1, <2>2, StateQuiet DEF Grab, LockFree
    <2>3. CASE Unlock(w)
      BY <1>0, <2>1, <2>3, StateQuiet DEF Unlock
    <2>4. CASE ~(Grab(w) \/ Unlock(w))
      <3>1. UNCHANGED schedLock
        BY <2>4 DEF PostNotify, PopOwn, Steal, PickUID, BeginScan, VisitNext, EndScan, Clear,
           ClearDone, HandlerPost, Send, RunNext, mailboxVars
      <3> QED BY <1>0, <2>1, <3>1, StateQuiet
    <2> QED BY <2>2, <2>3, <2>4
  <1>3. HandKept
    <2>1. CASE PostNotify(w)
      BY <1>0, <2>1, PostStays, HandQuiet, BoxHome
    <2>2. CASE \E u \in UID, i \in MsgId : HandlerPost(w, u, i)
      <3>1. At(w)' = At(w)
        BY <1>0, <2>2, LookupStays DEF HandlerPost, Send
      <3> QED BY <1>0, <3>1, HandQuiet, BoxHome
    <2>3. CASE ~(PostNotify(w) \/ \E u \in UID, i \in MsgId : HandlerPost(w, u, i))
      <3>1. pc[w] \notin {"handler", "push", "notify"}
        BY <2>3 DEF PopOwn, Steal, Idle, PickUID, BeginScan, VisitNext, EndScan, Grab, Unlock, Clear,
           ClearDone, RunNext
      <3>2. \E x \in PC \ {"handler", "push", "notify"} : pc' = [pc EXCEPT ![w] = x] \/ pc' = pc
        BY <2>3 DEF PopOwn, Steal, PickUID, BeginScan, VisitNext, EndScan, Grab, Resume, Unlock, Clear,
           ClearDone, RunNext, RunEmpty, RunSwap, RunDetached, RunReturn, PC
      <3>3. At(w) # "handler" /\ At(w)' # "handler"
        BY <1>0, <3>1, <3>2 DEF At
      <3> QED BY <1>0, <3>3, HandQuiet, BoxHome
    <2> QED BY <2>1, <2>2, <2>3
  <1>4. UNCHANGED deleted
    BY DEF PostNotify, PopOwn, Steal, PickUID, BeginScan, VisitNext, EndScan, Grab, Unlock, Clear,
       ClearDone, HandlerPost, Send, RunNext, mailboxVars
  <1> QED BY <1>1, <1>2, <1>3, <1>4, BoxStill

LEMMA PublicStill ==
    ASSUME BoxInv, BoxInv', NEW p \in Public, PublicStep(p),
           \/ PostNotify(p) \/ (\E m \in Mailbox : PublicDetach(p, m))
           \/ (\E u \in UID, i \in MsgId : PublicPost(p, u, i)) \/ SpinGrab(p)
    PROVE  BoxStep
  <1>0. TypeInv /\ p \in Thread /\ p \notin Worker /\ [Next]_vars /\ Others(p)
    BY PublicMoves, ThreadAssumption DEF Thread, BoxInv, ListedInv, HomeInv, CacheInv, Next
  <1>1. MailKept
    <2>1. CASE PostNotify(p)
      BY <1>0, <2>1, PostStays, NotifyEffect, BoxHome DEF Stay, PostNotify, workerVars, Quiet
    <2>2. CASE (\E m \in Mailbox : PublicDetach(p, m)) \/ SpinGrab(p)
      BY <2>2, PublicQuiet, BoxHome DEF Quiet
    <2>3. CASE \E u \in UID, i \in MsgId : PublicPost(p, u, i)
      <3>1. PICK u \in UID, i \in MsgId : pc[p] = "idle" /\ Send(p, u, i, None, "idle")
        BY <2>3 DEF PublicPost
      <3>2. Stay(p)
        <4>1. At(p)' = At(p)
          BY <1>0, <3>1, LookupStays DEF Send
        <4> QED BY <1>0, <3>1, <4>1 DEF Stay, Send, workerVars
      <3>3. Sends(p, i)
        BY <1>0, <3>1, <3>2, SendEffect, BoxHome
      <3> QED BY <3>3 DEF Sends
    <2> QED BY <2>1, <2>2, <2>3
  <1>2. StateKept
    <2>1. UNCHANGED phase
      BY DEF PostNotify, PublicDetach, PublicPost, Send, SpinGrab, mailboxVars
    <2>2. CASE SpinGrab(p)
      BY <1>0, <2>1, <2>2, StateQuiet DEF SpinGrab, LockFree
    <2>3. CASE ~SpinGrab(p)
      <3>1. UNCHANGED schedLock
        BY <2>3 DEF PostNotify, PublicDetach, PublicPost, Send, mailboxVars
      <3> QED BY <1>0, <2>1, <3>1, StateQuiet
    <2> QED BY <2>2, <2>3
  <1>3. HandKept
    BY <1>0, HandQuiet, BoxHome
  <1>4. UNCHANGED deleted
    BY DEF PostNotify, PublicDetach, PublicPost, Send, SpinGrab, mailboxVars
  <1> QED BY <1>1, <1>2, <1>3, <1>4, BoxStill

(* A post that is pushed is accepted; one that finds the mailbox detached   *)
(* never was.                                                               *)
LEMMA PushRefines ==
    ASSUME BoxInv, BoxInv', [Next]_vars, NEW t \in Thread, PostPush(t), Others(t)
    PROVE  BoxStep
  <1>0. TypeInv /\ UNCHANGED <<phase, schedLock, deleted>> /\ Stay(t)
    BY PostStays DEF BoxInv, ListedInv, HomeInv, CacheInv, PostPush, Stay, workerVars
  <1>1. StateKept /\ HandKept
    BY <1>0, StateQuiet, HandQuiet, BoxHome DEF Stay
  <1>2. CASE Drops(t)
    BY <1>0, <1>1, <1>2, BoxStill DEF Drops
  <1>3. ASSUME NEW m \in Mailbox, Delivers(t, m)
        PROVE  BoxStep
    <2>1. /\ boxInbox' = [boxInbox EXCEPT ![m] = Append(Mail(m), out[t])]
          /\ boxState' = boxState /\ boxHandling' = boxHandling
      BY <1>1, <1>3, Changes DEF Delivers
    <2>2. State(m) = "open" /\ out[t] \in Msg
      BY <1>0, <1>3 DEF Delivers, State, BoxInv, ListedInv, PushesListed, TypeInv, Registers
    <2>3. boxState[m] = State(m) /\ boxInbox[m] = Mail(m)
      BY BoxIs
    <2>4. boxInbox'[m] # boxInbox[m]
      <3>1. Mail(m) \in Seq(Msg)
        BY <1>0, MailType
      <3>2. boxInbox'[m] = Append(Mail(m), out[t])
        BY <2>1 DEF boxInbox
      <3>3. Len(Append(Mail(m), out[t])) = Len(Mail(m)) + 1 /\ Len(Mail(m)) \in Nat
        BY <2>2, <3>1
      <3> QED BY <2>3, <3>2, <3>3
    <2>5. Box!Accept(m)
      BY <1>0, <2>1, <2>2, <2>3, <2>4 DEF Box!Accept
    <2> QED BY <2>5 DEF BoxStep, Box!Next
  <1> QED BY <1>0, <1>2, <1>3, PushEffect, BoxHome

LEMMA AttachRefines ==
    ASSUME ActorInv, BoxInv', [Next]_vars, NEW t \in Thread, NEW m \in Mailbox, Attach(t, m), Others(t),
           pc[t] # "push"
    PROVE  BoxStep
  <1>0. /\ BoxInv /\ TypeInv /\ UNCHANGED <<schedLock, deleted>> /\ Stay(t)
        /\ phase[m] = "unborn" /\ phase' = [phase EXCEPT ![m] = "listed"]
    BY DEF ActorInv, BoxInv, ListedInv, HomeInv, CacheInv, Attach, Stay, At, postVars
  <1>1. HandKept
    BY <1>0, HandQuiet, BoxHome DEF Stay
  <1>2. OnlyState(m, "open")
    <2>1. schedLock[m] # DETACHED /\ phase \in [Mailbox -> {"unborn", "listed", "erased"}]
      BY <1>0 DEF ActorInv, UnbornOpen, TypeInv, TypeOK
    <2> QED BY <1>0, <2>1 DEF OnlyState, State
  <1>3. OnlyMail(m, <<Activate>>)
    BY <1>0, AttachEffect, BoxHome DEF Bears
  <1>4. /\ boxInbox' = [boxInbox EXCEPT ![m] = <<Activate>>]
        /\ boxState' = [boxState EXCEPT ![m] = "open"] /\ boxHandling' = boxHandling
    BY <1>0, <1>1, <1>2, <1>3, Changes
  <1>5. boxState[m] = "unborn"
    BY <1>0, BoxIs DEF State
  <1>6. Box!Open(m)
    BY <1>0, <1>4, <1>5 DEF Box!Open
  <1> QED BY <1>6 DEF BoxStep, Box!Next

(* A worker that stays at its mailbox touches no other handler.             *)
LEMMA HandHere ==
    ASSUME BoxInv, HomeInv', [Next]_vars, NEW w \in Worker, Others(w), NEW m \in Mailbox,
           cur[w] = m, cur'[w] = m
    PROVE  \A n \in Mailbox \ {m} : Hand(n)' = Hand(n)
  <1>1. ASSUME NEW n \in Mailbox \ {m}, NEW h \in Worker
        PROVE  InHandler(h, n)' <=> InHandler(h, n)
    BY DEF InHandler, Others, Stay, Thread
  <1> QED BY <1>1, HandSame

(* The mailbox a worker is inside is listed, and its handler is empty       *)
(* unless the worker is in it.                                              *)
LEMMA Here ==
    ASSUME BoxInv, NEW w \in Worker, At(w) \in Inside
    PROVE  \E m \in Mailbox :
           /\ m = cur[w] /\ w \in Thread /\ TypeInv
           /\ State(m) = IF schedLock[m] = DETACHED THEN "closed" ELSE "open"
           /\ Hand(m) = IF At(w) = "handler" THEN currQ[m][pos[w]] ELSE None
           /\ boxState[m] = State(m) /\ boxInbox[m] = Mail(m) /\ boxHandling[m] = Hand(m)
  <1>1. PICK m \in Mailbox : m = cur[w] /\ w \in Thread /\ TypeInv /\ HomeInv /\ phase[m] = "listed"
    <2>1. At(w) \in OnMailbox
      BY DEF Inside, Removing, OnMailbox
    <2> QED BY <2>1 DEF BoxInv, ListedInv, WorkersListed, HomeInv, CacheInv, TypeInv, Registers, Thread
  <1>2. State(m) = IF schedLock[m] = DETACHED THEN "closed" ELSE "open"
    BY <1>1 DEF State
  <1>3. CASE At(w) = "handler"
    <2>1. Handles(m) /\ Done(m) = pos[w]
      BY <1>1, <1>3, DoneIs DEF Handles, InHandler, Runs
    <2> QED BY <1>1, <1>2, <1>3, <2>1, BoxIs DEF Hand
  <1>4. CASE At(w) # "handler"
    <2>1. ASSUME NEW h \in Thread, InHandler(h, m)
          PROVE  FALSE
      <3>1. h \in Worker /\ At(h) \in Inside /\ cur[h] = m
        BY <1>1, <2>1 DEF InHandler, HomeInv, PublicPlaces, Inside, Thread
      <3> QED BY <1>1, <1>4, <2>1, <3>1, OneVisitor DEF InHandler
    <2>2. Hand(m) = None
      BY <2>1 DEF Hand, Handles
    <2> QED BY <1>1, <1>2, <1>4, <2>2, BoxIs
  <1> QED BY <1>3, <1>4

LEMMA TakeRefines ==
    ASSUME BoxInv, BoxInv', NEW w \in Worker, RunNext(w), RunDispatch(w, cur[w])
    PROVE  BoxStep
  <1>0. /\ [Next]_vars /\ TypeInv /\ w \in Thread /\ pc[w] = "run" /\ At(w) = "run" /\ At(w)' = "handler"
        /\ UNCHANGED <<phase, schedLock, deleted, cur>>
        /\ pc \in [Thread -> PC] /\ currQ \in [Mailbox -> Seq(Msg)] /\ pos \in [Thread -> Nat]
    <2>1. TypeInv /\ w \in Thread /\ pc \in [Thread -> PC] /\ currQ \in [Mailbox -> Seq(Msg)] /\ pos \in [Thread -> Nat]
      BY DEF Thread, BoxInv, ListedInv, HomeInv, CacheInv, TypeInv, TypeOK
    <2>2. pc[w] = "run" /\ pc' = [pc EXCEPT ![w] = "handler"] /\ UNCHANGED <<phase, schedLock, deleted, cur>>
      BY DEF RunNext, RunDispatch
    <2> QED BY <2>1, <2>2 DEF Next, WorkerStep, At
  <1>1. PICK m \in Mailbox :
           /\ m = cur[w]
           /\ State(m) = IF schedLock[m] = DETACHED THEN "closed" ELSE "open"
           /\ Hand(m) = IF At(w) = "handler" THEN currQ[m][pos[w]] ELSE None
           /\ boxState[m] = State(m) /\ boxInbox[m] = Mail(m) /\ boxHandling[m] = Hand(m)
    BY <1>0, Here, BoxHome DEF Inside, Removing
  <1>2. /\ schedLock[m] # DETACHED /\ pos[w] < Len(currQ[m])
        /\ currQ' = currQ /\ pos'[w] = pos[w] + 1
    BY <1>0, <1>1 DEF RunDispatch
  <1>3. Takes(m) /\ Head(Mail(m)) = currQ[m][pos[w] + 1]
    <2>1. ~RunEmpty(w, m) /\ ~RunSwap(w, m) /\ ~RunDetached(w, m)
      <3>1. ~(pos[w] >= Len(currQ[m]))
        <4>1. pos[w] \in Nat /\ Len(currQ[m]) \in Nat
          BY <1>0, QueueFacts
        <4> QED BY <1>2, <4>1
      <3>2. ~RunEmpty(w, m) /\ ~RunSwap(w, m)
        BY <3>1, Zenon DEF RunEmpty, RunSwap
      <3>3. ~RunDetached(w, m)
        BY <1>2, Zenon DEF RunDetached
      <3> QED BY <3>2, <3>3
    <2>2. Takes(m)
      BY <1>1, <2>1, RunEffect, BoxHome
    <2>3. Mail(m) = Rest(currQ[m], pos[w]) \o nextQ[m] /\ currQ[m] \in Seq(Msg) /\ nextQ[m] \in Seq(Msg) /\ pos[w] \in Nat
      BY <1>1, RunMail, BoxHome
    <2>4. /\ Rest(currQ[m], pos[w]) \in Seq(Msg) /\ Rest(currQ[m], pos[w]) # <<>>
          /\ Head(Rest(currQ[m], pos[w])) = currQ[m][pos[w] + 1]
      BY <1>2, <2>3, RestFacts
    <2>5. Head(Mail(m)) = currQ[m][pos[w] + 1]
      <3>1. Head(Rest(currQ[m], pos[w]) \o nextQ[m]) = Head(Rest(currQ[m], pos[w]))
        BY <2>3, <2>4, JoinFacts
      <3> QED BY <2>3, <2>4, <3>1
    <2> QED BY <2>2, <2>5
  <1>4. OnlyHand(m, Head(Mail(m)))
    <2>1. Others(w) /\ cur'[w] = m
      BY <1>0, <1>1, WorkerMoves DEF WorkerStep
    <2>2. Handles(m)' /\ Done(m)' = pos'[w]
      BY <1>0, <2>1, DoneIsNext, BoxHome DEF Handles, InHandler, Runs
    <2>3. Hand(m)' = currQ[m][pos[w] + 1]
      BY <1>2, <2>2 DEF Hand
    <2> QED BY <1>0, <1>1, <1>3, <2>1, <2>3, HandHere, BoxHome DEF OnlyHand
  <1>5. StateKept
    BY <1>0, StateQuiet
  <1>6. /\ boxInbox' = [boxInbox EXCEPT ![m] = Tail(Mail(m))]
        /\ boxHandling' = [boxHandling EXCEPT ![m] = Head(Mail(m))]
        /\ boxState' = boxState
    BY <1>3, <1>4, <1>5, Changes DEF Takes
  <1>7. boxState[m] = "open" /\ boxHandling[m] = None /\ boxInbox[m] # <<>>
    BY <1>0, <1>1, <1>2, <1>3 DEF Takes
  <1>8. Box!Take(m)
    BY <1>0, <1>1, <1>6, <1>7 DEF Box!Take
  <1> QED BY <1>8 DEF BoxStep, Box!Next

LEMMA FinishRefines ==
    ASSUME None \notin Msg, ActorInv, BoxInv', NEW w \in Worker, HandlerReturn(w)
    PROVE  BoxStep
  <1>0. /\ BoxInv /\ [Next]_vars /\ TypeInv /\ w \in Thread /\ At(w) = "handler" /\ At(w)' = "run"
        /\ UNCHANGED <<phase, schedLock, deleted, cur, currQ>>
        /\ currQ \in [Mailbox -> Seq(Msg)]
    <2>1. BoxInv /\ TypeInv /\ w \in Thread /\ pc \in [Thread -> PC] /\ currQ \in [Mailbox -> Seq(Msg)]
      BY DEF Thread, ActorInv, BoxInv, ListedInv, HomeInv, CacheInv, TypeInv, TypeOK
    <2> QED BY <2>1 DEF Next, WorkerStep, At, HandlerReturn, mailboxVars
  <1>1. PICK m \in Mailbox :
           /\ m = cur[w]
           /\ State(m) = IF schedLock[m] = DETACHED THEN "closed" ELSE "open"
           /\ Hand(m) = IF At(w) = "handler" THEN currQ[m][pos[w]] ELSE None
           /\ boxState[m] = State(m) /\ boxInbox[m] = Mail(m) /\ boxHandling[m] = Hand(m)
    BY <1>0, Here, BoxHome DEF Inside, Removing
  <1>2. Hand(m) # None
    <2>1. pos[w] \in 1 .. Len(currQ[m]) /\ currQ[m] \in Seq(Msg)
      BY <1>0, <1>1 DEF ActorInv, HandlerPos
    <2>2. currQ[m][pos[w]] \in Msg
      BY <2>1
    <2> QED BY <1>0, <1>1, <2>2
  <1>3. MailKept /\ StateKept
    BY <1>0, WorkerQuiet, BoxHome, StateQuiet DEF WorkerStep, Quiet
  <1>4. OnlyHand(m, None)
    <2>1. Others(w) /\ cur'[w] = m
      BY <1>0, <1>1, WorkerMoves DEF WorkerStep
    <2>2. ASSUME NEW h \in Thread, InHandler(h, m)'
          PROVE  FALSE
      <3>1. h # w
        BY <1>0, <2>2 DEF InHandler
      <3>2. InHandler(h, m)
        BY <2>1, <2>2, <3>1 DEF Others, Stay, InHandler
      <3>3. h \in Worker /\ At(h) \in Inside /\ cur[h] = m
        BY <1>0, <3>2 DEF InHandler, BoxInv, ListedInv, HomeInv, PublicPlaces, Inside, Thread
      <3> QED BY <1>0, <1>1, <3>1, <3>3, OneVisitor, BoxHome DEF Inside
    <2>3. Hand(m)' = None
      BY <2>2 DEF Hand, Handles
    <2> QED BY <1>0, <1>1, <2>1, <2>3, HandHere, BoxHome DEF OnlyHand
  <1>5. /\ boxInbox' = boxInbox /\ boxState' = boxState
        /\ boxHandling' = [boxHandling EXCEPT ![m] = None]
    BY <1>0, <1>3, <1>4, Changes
  <1>6. Box!Finish(m)
    BY <1>0, <1>1, <1>2, <1>5 DEF Box!Finish
  <1> QED BY <1>6 DEF BoxStep, Box!Next

(* detach(), from the handler and from outside.                             *)
LEMMA CloseRefines ==
    ASSUME BoxInv, BoxInv', MailKept, HandKept, UNCHANGED <<phase, deleted>>, NEW m \in Mailbox,
           phase[m] = "listed", schedLock[m] # DETACHED, schedLock' = [schedLock EXCEPT ![m] = DETACHED]
    PROVE  BoxStep
  <1>1. schedLock \in [Mailbox -> Worker \cup {READY, DETACHED, ACCESS_PUB}]
    BY DEF BoxInv, ListedInv, HomeInv, CacheInv, TypeInv, TypeOK
  <1>2. OnlyState(m, "closed")
    BY <1>1 DEF OnlyState, State
  <1>3. /\ boxInbox' = boxInbox /\ boxHandling' = boxHandling
        /\ boxState' = [boxState EXCEPT ![m] = "closed"]
    BY <1>2, Changes
  <1>4. boxState[m] = "open"
    BY BoxIs DEF State
  <1>5. Box!Close(m)
    BY <1>3, <1>4 DEF Box!Close
  <1> QED BY <1>5 DEF BoxStep, Box!Next

LEMMA HandlerDetachRefines ==
    ASSUME BoxInv, BoxInv', NEW w \in Worker, HandlerDetach(w)
    PROVE  BoxStep
  <1>0. /\ [Next]_vars /\ WorkerStep(w) /\ TypeInv /\ w \in Thread /\ At(w) = "handler" /\ At(w)' = "handler"
        /\ UNCHANGED <<phase, deleted>>
    BY DEF Thread, BoxInv, ListedInv, HomeInv, CacheInv, HandlerDetach, ExitLater, Next, WorkerStep, At, postVars
  <1>1. MailKept
    BY <1>0, WorkerQuiet, BoxHome DEF Quiet
  <1>2. HandKept
    BY <1>0, WorkerMoves, HandQuiet, BoxHome
  <1>3. cur[w] \in Mailbox /\ phase[cur[w]] = "listed"
    BY <1>0 DEF BoxInv, ListedInv, WorkersListed, TypeInv, Registers, OnMailbox
  <1> QED BY <1>0, <1>1, <1>2, <1>3, CloseRefines DEF HandlerDetach

LEMMA PublicDetachRefines ==
    ASSUME ActorInv, BoxInv', NEW p \in Public, Detaching(p)
    PROVE  BoxStep
  <1>0. /\ BoxInv /\ [Next]_vars /\ PublicStep(p) /\ TypeInv /\ p \in Thread /\ p \notin Worker
        /\ At(p) = "detaching" /\ UNCHANGED <<phase, deleted>>
    BY ThreadAssumption DEF Thread, ActorInv, BoxInv, ListedInv, HomeInv, CacheInv, Detaching, Next, PublicStep, At
  <1>1. MailKept
    BY <1>0, PublicQuiet, BoxHome DEF Quiet
  <1>2. HandKept
    BY <1>0, PublicMoves, HandQuiet, BoxHome
  <1>3. cur[p] \in Mailbox
    BY <1>0 DEF TypeInv, Registers, OnMailbox
  <1>4. phase[cur[p]] = "listed" /\ schedLock[cur[p]] # DETACHED
    BY <1>0 DEF ActorInv, Outsiders
  <1> QED BY <1>0, <1>1, <1>2, <1>3, <1>4, CloseRefines DEF Detaching

(* atExit, and the end of an actor that is destroyed from outside.          *)
LEMMA DestroyRefines ==
    ASSUME ActorInv, BoxInv', MailKept, StateKept, HandKept, NEW m \in Mailbox,
           schedLock[m] = DETACHED, deleted' = deleted \cup {m}
    PROVE  BoxStep
  <1>0. BoxInv
    BY DEF ActorInv
  <1>1. boxInbox' = boxInbox /\ boxHandling' = boxHandling /\ boxState' = boxState
    BY <1>0, Changes
  <1>2. boxState[m] \in {"closed", "gone"}
    BY <1>0, BoxIs DEF State, ActorInv, UnbornOpen
  <1>3. boxHandling[m] = None
    <2>1. NotRun(m)'
      BY DEF BoxInv, ListedInv, HomeInv, DeadIdle
    <2>2. Hand(m)' = None
      BY <2>1 DEF NotRun, Hand, Handles, InHandler
    <2> QED BY <1>0, <2>2, BoxIs DEF HandKept
  <1>4. Box!Destroy(m)
    BY <1>1, <1>2, <1>3 DEF Box!Destroy
  <1> QED BY <1>4 DEF BoxStep, Box!Next

LEMMA ExitRefines ==
    ASSUME ActorInv, BoxInv', NEW w \in Worker, Exit(w)
    PROVE  BoxStep
  <1>0. /\ BoxInv /\ [Next]_vars /\ WorkerStep(w) /\ TypeInv /\ w \in Thread
        /\ At(w) = "exit" /\ At(w)' = "clear" /\ UNCHANGED <<phase, schedLock>>
    <2>1. BoxInv /\ TypeInv /\ w \in Thread /\ pc \in [Thread -> PC]
      BY DEF Thread, ActorInv, BoxInv, ListedInv, HomeInv, CacheInv, TypeInv, TypeOK
    <2> QED BY <2>1 DEF Exit, Next, WorkerStep, At
  <1>1. MailKept /\ StateKept
    BY <1>0, WorkerQuiet, BoxHome, StateQuiet DEF Quiet
  <1>2. HandKept
    BY <1>0, WorkerMoves, HandQuiet, BoxHome
  <1>3. cur[w] \in Mailbox /\ schedLock[cur[w]] = DETACHED
    BY <1>0 DEF BoxInv, ListedInv, HomeInv, DetachedFirst, Removing, TypeInv, Registers, OnMailbox
  <1>4. deleted' = deleted \cup {cur[w]} \/ deleted' = deleted
    BY DEF Exit
  <1> QED BY <1>0, <1>1, <1>2, <1>3, <1>4, DestroyRefines, BoxStill

LEMMA DetachReturnRefines ==
    ASSUME ActorInv, BoxInv', NEW p \in Public, DetachReturn(p)
    PROVE  BoxStep
  <1>0. /\ BoxInv /\ [Next]_vars /\ PublicStep(p) /\ TypeInv /\ p \in Thread /\ p \notin Worker
        /\ At(p) = "detached" /\ UNCHANGED phase /\ Release(p, cur[p]) /\ deleted' = deleted \cup {cur[p]}
    BY ThreadAssumption DEF Thread, ActorInv, BoxInv, ListedInv, HomeInv, CacheInv, DetachReturn, Next, PublicStep, At
  <1>1. MailKept /\ StateKept
    BY <1>0, PublicQuiet, BoxHome, StateQuiet DEF Quiet
  <1>2. HandKept
    BY <1>0, PublicMoves, HandQuiet, BoxHome
  <1>3. cur[p] \in Mailbox /\ schedLock[cur[p]] = DETACHED
    BY <1>0 DEF BoxInv, ListedInv, HomeInv, DetachedFirst, TypeInv, Registers, OnMailbox
  <1> QED BY <1>0, <1>1, <1>2, <1>3, DestroyRefines

LEMMA FlushRefines ==
    ASSUME BoxInv, BoxInv', NEW w \in Worker, Bounce(w)
    PROVE  BoxStep
  <1>0. /\ [Next]_vars /\ WorkerStep(w) /\ TypeInv /\ w \in Thread
        /\ UNCHANGED <<phase, schedLock, deleted, cur>>
    BY DEF Thread, BoxInv, ListedInv, HomeInv, CacheInv, Bounce, Next, WorkerStep, mailboxVars
  <1>1. PICK n \in Mailbox : n = cur[w] /\ At(w) = "bounce" /\ Takes(n)
    BY BounceEffect, BoxHome
  <1>2. PICK m \in Mailbox :
           /\ m = cur[w]
           /\ State(m) = IF schedLock[m] = DETACHED THEN "closed" ELSE "open"
           /\ Hand(m) = IF At(w) = "handler" THEN currQ[m][pos[w]] ELSE None
           /\ boxState[m] = State(m) /\ boxInbox[m] = Mail(m) /\ boxHandling[m] = Hand(m)
    BY <1>1, Here, BoxHome DEF Inside, Removing
  <1>3. schedLock[m] = DETACHED /\ m = n
    BY <1>0, <1>1, <1>2 DEF BoxInv, ListedInv, HomeInv, DetachedFirst, Removing
  <1>4. StateKept
    BY <1>0, StateQuiet
  <1>5. HandKept
    <2>1. Others(w) /\ (Stay(w) \/ WorkerMove(w))
      BY <1>0, WorkerMoves
    <2>2. At(w)' # "handler"
      BY <1>1, <2>1 DEF Stay, WorkerMove, Enter, Walk, Leave
    <2> QED BY <1>0, <1>1, <2>1, <2>2, HandQuiet, BoxHome
  <1>6. /\ boxInbox' = [boxInbox EXCEPT ![m] = Tail(Mail(m))]
        /\ boxHandling' = boxHandling /\ boxState' = boxState
    BY <1>1, <1>3, <1>4, <1>5, Changes DEF Takes
  <1>7. boxState[m] = "closed" /\ boxHandling[m] = None /\ boxInbox[m] # <<>>
    BY <1>1, <1>2, <1>3 DEF Takes
  <1>8. Box!Flush(m)
    BY <1>0, <1>2, <1>6, <1>7 DEF Box!Flush
  <1> QED BY <1>8 DEF BoxStep, Box!Next

LEMMA RemoveRefines ==
    ASSUME BoxInv, BoxInv', NEW w \in Worker, Erase(w)
    PROVE  BoxStep
  <1>0. /\ [Next]_vars /\ WorkerStep(w) /\ TypeInv /\ w \in Thread /\ At(w) = "erase"
        /\ UNCHANGED <<schedLock, deleted>> /\ phase' = [phase EXCEPT ![cur[w]] = "erased"]
        /\ phase \in [Mailbox -> {"unborn", "listed", "erased"}]
    BY DEF Thread, BoxInv, ListedInv, HomeInv, CacheInv, TypeInv, TypeOK, Erase, Next, WorkerStep, At
  <1>1. PICK m \in Mailbox :
           /\ m = cur[w]
           /\ State(m) = IF schedLock[m] = DETACHED THEN "closed" ELSE "open"
           /\ Hand(m) = IF At(w) = "handler" THEN currQ[m][pos[w]] ELSE None
           /\ boxState[m] = State(m) /\ boxInbox[m] = Mail(m) /\ boxHandling[m] = Hand(m)
    BY <1>0, Here, BoxHome DEF Inside, Removing
  <1>2. schedLock[m] = DETACHED /\ Mail(m) = <<>>
    BY <1>0, <1>1, ErasedMail, BoxHome DEF BoxInv, ListedInv, HomeInv, DetachedFirst, Removing
  <1>3. MailKept
    BY ClearEffect, BoxHome DEF Quiet
  <1>4. OnlyState(m, "gone")
    BY <1>0, <1>1 DEF OnlyState, State
  <1>5. HandKept
    <2>1. Others(w) /\ (Stay(w) \/ WorkerMove(w))
      BY <1>0, WorkerMoves
    <2>2. At(w)' # "handler"
      BY <1>0, <2>1 DEF Stay, WorkerMove, Enter, Walk, Leave
    <2> QED BY <1>0, <2>1, <2>2, HandQuiet, BoxHome
  <1>6. /\ boxInbox' = boxInbox /\ boxHandling' = boxHandling
        /\ boxState' = [boxState EXCEPT ![m] = "gone"]
    BY <1>3, <1>4, <1>5, Changes
  <1>7. boxState[m] = "closed" /\ boxHandling[m] = None /\ boxInbox[m] = <<>>
    BY <1>0, <1>1, <1>2
  <1>8. Box!Remove(m)
    BY <1>0, <1>6, <1>7 DEF Box!Remove
  <1> QED BY <1>8 DEF BoxStep, Box!Next

LEMMA WorkerRefines ==
    ASSUME None \notin Msg, ActorInv, BoxInv', NEW w \in Worker, WorkerStep(w)
    PROVE  BoxStep
  <1>0. BoxInv /\ [Next]_vars /\ w \in Thread /\ Others(w)
    <2>1. BoxInv /\ TypeInv /\ w \in Thread
      BY DEF Thread, ActorInv, BoxInv, ListedInv, HomeInv, CacheInv
    <2> QED BY <2>1, WorkerMoves DEF Next
  <1>1. CASE PostPush(w)
    BY <1>0, <1>1, PushRefines
  <1>2. CASE \E m \in Mailbox : HandlerAttach(w, m)
    <2>1. PICK m \in Mailbox : pc[w] = "handler" /\ Attach(w, m)
      BY <1>2 DEF HandlerAttach
    <2> QED BY <1>0, <2>1, AttachRefines
  <1>3. CASE RunNext(w)
    BY <1>0, <1>3, TakeRefines, WorkerStill
  <1>4. CASE HandlerDetach(w) \/ HandlerReturn(w) \/ Exit(w) \/ Bounce(w) \/ Erase(w)
    BY <1>0, <1>4, HandlerDetachRefines, FinishRefines, ExitRefines, FlushRefines, RemoveRefines
  <1>5. CASE \/ PostNotify(w) \/ PopOwn(w) \/ (\E v \in Worker : Steal(w, v))
             \/ (\E u \in UID : PickUID(w, u)) \/ BeginScan(w) \/ (\E m \in Mailbox : VisitNext(w, m))
             \/ EndScan(w) \/ Grab(w) \/ Unlock(w) \/ Clear(w) \/ ClearDone(w)
             \/ (\E u \in UID, i \in MsgId : HandlerPost(w, u, i))
    BY <1>0, <1>5, WorkerStill
  <1> QED BY <1>1, <1>2, <1>3, <1>4, <1>5 DEF WorkerStep

LEMMA PublicRefines ==
    ASSUME ActorInv, BoxInv', NEW p \in Public, PublicStep(p)
    PROVE  BoxStep
  <1>0. BoxInv /\ [Next]_vars /\ p \in Thread /\ Others(p)
    <2>1. BoxInv /\ TypeInv /\ p \in Thread
      BY DEF Thread, ActorInv, BoxInv, ListedInv, HomeInv, CacheInv
    <2> QED BY <2>1, PublicMoves DEF Next
  <1>1. CASE PostPush(p)
    BY <1>0, <1>1, PushRefines
  <1>2. CASE \E m \in Mailbox : PublicAttach(p, m)
    <2>1. PICK m \in Mailbox : pc[p] = "idle" /\ Attach(p, m)
      BY <1>2 DEF PublicAttach
    <2> QED BY <1>0, <2>1, AttachRefines
  <1>3. CASE Detaching(p) \/ DetachReturn(p)
    BY <1>3, PublicDetachRefines, DetachReturnRefines
  <1>4. CASE \/ PostNotify(p) \/ (\E m \in Mailbox : PublicDetach(p, m))
             \/ (\E u \in UID, i \in MsgId : PublicPost(p, u, i)) \/ SpinGrab(p)
    BY <1>0, <1>4, PublicStill
  <1> QED BY <1>1, <1>2, <1>3, <1>4 DEF PublicStep

LEMMA StepRefines ==
    ASSUME None \notin Msg, ActorInv, BoxInv', [Next]_vars
    PROVE  [Box!Next]_(Box!vars)
  <1>1. CASE UNCHANGED vars
    BY <1>1 DEF Box!vars, vars, mailboxVars, postVars, boxState, boxInbox, boxHandling, Done, Runs, InHandler, At
  <1>2. CASE Next
    <2>1. BoxStep
      BY <1>2, WorkerRefines, PublicRefines DEF Next
    <2> QED BY <2>1 DEF BoxStep, BoxVars, Box!vars
  <1> QED BY <1>1, <1>2

LEMMA InitRefines == ASSUME Init, BoxInv PROVE Box!Init
  <1>1. \A m \in Mailbox : State(m) = "unborn" /\ Mail(m) = <<>> /\ Hand(m) = None
    <2>1. \A m \in Mailbox : State(m) = "unborn"
      BY DEF Init, State
    <2>2. \A m \in Mailbox : Hand(m) = None
      BY DEF Init, Hand, Handles, InHandler, At
    <2> QED BY <2>1, <2>2, InitMail
  <1>2. /\ boxState = [m \in Mailbox |-> boxState[m]] /\ boxInbox = [m \in Mailbox |-> boxInbox[m]]
        /\ boxHandling = [m \in Mailbox |-> boxHandling[m]]
    <2>1. boxState = [m \in Mailbox |-> boxState[m]]
      <3>1. boxState = [m \in Mailbox |-> State(m)]
        BY DEF Init, boxState, State
      <3> QED BY <3>1
    <2>2. boxInbox = [m \in Mailbox |-> boxInbox[m]]
      BY Zenon DEF boxInbox
    <2>3. boxHandling = [m \in Mailbox |-> boxHandling[m]]
      BY Zenon DEF boxHandling
    <2> QED BY <2>1, <2>2, <2>3
  <1>3. /\ boxState = [m \in Mailbox |-> "unborn"] /\ boxInbox = [m \in Mailbox |-> <<>>]
        /\ boxHandling = [m \in Mailbox |-> None]
    BY <1>1, <1>2, BoxIs
  <1> QED BY <1>3 DEF Init, Box!Init

(* In a settled pool, stealing or not, the scheduler implements             *)
(* ActorMailbox: one inbox per actor, messages in the order in which they   *)
(* were posted, one handler at a time, nothing accepted or handled after    *)
(* detach(), nothing destroyed or erased under a handler.                   *)
THEOREM MailboxImplemented ==
    ASSUME Settled, None \notin Msg
    PROVE  Spec => ImplementsMailbox
  <1>1. Init /\ BoxInv => Box!Init
    BY InitRefines
  <1>2. ActorInv /\ BoxInv' /\ [Next]_vars => [Box!Next]_(Box!vars)
    BY StepRefines
  <1>3. ActorInv => BoxInv
    BY DEF ActorInv
  <1> QED BY <1>1, <1>2, <1>3, ActorInvariant, PTL DEF Spec, ImplementsMailbox, Box!Spec
=============================================================================
