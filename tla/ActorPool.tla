------------------------------ MODULE ActorPool ------------------------------
(***************************************************************************)
(* The actor scheduler of the server (server/src/actorpool.{hpp,cpp}): one *)
(* bucket of mailboxes and one queue of pending UIDs per worker thread,    *)
(* mailboxes locked by a compare-and-swap on schedLock, work stealing, and *)
(* the two-phase removal of an actor: detach() only flips the lock, the    *)
(* worker that owns the bucket runs atExit, bounces what is still queued   *)
(* and erases the mailbox.                                                 *)
(*                                                                         *)
(* One step is one critical section or one atomic access.  A bucket has a  *)
(* single sub-bucket (the code has 97): every two actors of a bucket then  *)
(* contend for the same r/w lock.                                          *)
(***************************************************************************)
EXTENDS Naturals, Sequences, FiniteSets

CONSTANTS
    Worker,      \* worker threads; a worker's id is also the id of its bucket
    Public,      \* application threads: worker id MAILBOX_ACCESS_PUB
    Mailbox,     \* Mailbox objects the run may allocate, with their ActorPod
    UidOf,       \* [Mailbox -> UID], the UID an ActorPod is created with
    Home,        \* [UID -> Worker], getBucketID()
    MsgId,       \* the messages actors and applications send, each sent once
    Mortal,      \* actors with a handler that calls deactivate()
    Owned,       \* actors an application thread destroys from outside
    StealMax,    \* --actor-pool-thread-steal; 0 turns stealing off
    RandomPush,  \* ~ --disable-random-push-pending
    READY, DETACHED, ACCESS_PUB,    \* the values of schedLock besides a worker
    None         \* no mailbox, no UID, no message

Thread == Worker \cup Public
UID    == {UidOf[m] : m \in Mailbox}

ASSUME ThreadAssumption ==
    /\ Worker \cap Public = {}
    /\ {READY, DETACHED, ACCESS_PUB} \cap Worker = {}
    /\ READY # DETACHED /\ READY # ACCESS_PUB /\ DETACHED # ACCESS_PUB
    /\ None \notin Thread \cup Mailbox \cup UID \cup MsgId

ASSUME ActorAssumption ==
    /\ Home \in [UID -> Worker]
    /\ Mortal \subseteq Mailbox
    /\ Owned \subseteq Mailbox \ Mortal
    /\ StealMax \in Nat
    /\ RandomPush \in BOOLEAN

VARIABLES
    phase,             \* [Mailbox -> {"unborn", "listed", "erased"}]
    schedLock,         \* [Mailbox -> READY, DETACHED, ACCESS_PUB or a worker]
    atExit,            \* mailboxes whose atExit is set
    deleted,           \* mailboxes whose actor object is destroyed
    nextQ, currQ,      \* [Mailbox -> Seq(Msg)]
    uidQPending,       \* [Worker -> SUBSET UID]
    mailboxListCache,  \* [Worker -> SUBSET Mailbox]
    pc, cur,           \* per thread: where it is, the mailbox it works on
    tgt, out, back,    \* per thread: mailbox, message and return of a post
    pos,               \* per thread: messages of currQ it is done with
    uidList, todo,     \* per worker: UIDs popped, mailboxes still to scan
    scanning,          \* workers inside runOneMailboxBucket()
    hasDeleted,        \* workers with hasDeletedMailbox set
    ran,               \* per worker: what runOneMailbox() returned
    sent, fate         \* history: messages sent, what became of each

mailboxVars == <<phase, schedLock, atExit, deleted, nextQ, currQ>>
bucketVars  == <<uidQPending, mailboxListCache>>
postVars    == <<tgt, out, back>>
workerVars  == <<uidList, todo, scanning, hasDeleted, ran>>
history     == <<sent, fate>>
vars == <<mailboxVars, bucketVars, pc, cur, postVars, pos, workerVars, history>>

Msg == [kind : {"activate", "msg", "bad"}, id : MsgId \cup {None},
        from : UID \cup {None}]

Listed(b)  == {m \in Mailbox : phase[m] = "listed" /\ Home[UidOf[m]] = b}
AnyThreadId(t) == t     \* mutant: application threads lock with an id of their own
LockId(t)  == IF t \in Worker THEN t ELSE ACCESS_PUB
Activate   == [kind |-> "activate", id |-> None, from |-> None]
BadPod(i)  == [kind |-> "bad", id |-> i, from |-> None]
Outcome(msg, what) ==
    IF msg.kind = "msg" THEN [fate EXCEPT ![msg.id] = @ \cup {what}] ELSE fate

\* Mutant: no r-lock is kept while a message is pushed.
RLockedLookupOnly(t, b) ==
    /\ t # b
    /\ pc[t] \in {"grab", "spin"} /\ Home[UidOf[cur[t]]] = b

\* The r-lock a thread keeps on the sub-bucket of the mailbox it looked up: a
\* thread other than the dedicated one keeps it until the message is pushed,
\* or the schedLock is tried, or (detach) taken.
RLocks(t, b) ==
    /\ t # b
    /\ \/ pc[t] = "push" /\ Home[UidOf[tgt[t]]] = b
       \/ pc[t] \in {"grab", "spin"} /\ Home[UidOf[cur[t]]] = b
WLockFree(b) == \A t \in Thread : ~RLocks(t, b)

Find(u) == {m \in Mailbox : phase[m] = "listed" /\ UidOf[m] = u}

Init ==
    /\ phase = [m \in Mailbox |-> "unborn"]
    /\ schedLock = [m \in Mailbox |-> READY]
    /\ atExit = {} /\ deleted = {}
    /\ nextQ = [m \in Mailbox |-> <<>>]
    /\ currQ = [m \in Mailbox |-> <<>>]
    /\ uidQPending = [w \in Worker |-> {}]
    /\ mailboxListCache = [w \in Worker |-> {}]
    /\ pc = [t \in Thread |-> "idle"]
    /\ cur = [t \in Thread |-> None]
    /\ tgt = [t \in Thread |-> None]
    /\ out = [t \in Thread |-> None]
    /\ back = [t \in Thread |-> "idle"]
    /\ pos = [t \in Thread |-> 0]
    /\ uidList = [w \in Worker |-> {}]
    /\ todo = [w \in Worker |-> {}]
    /\ scanning = {} /\ hasDeleted = {}
    /\ ran = [w \in Worker |-> TRUE]
    /\ sent = {}
    /\ fate = [i \in MsgId |-> {}]

-----------------------------------------------------------------------------
(* attach(): under the w-lock; UIDs are notified to the dedicated worker,   *)
(* and only that worker may append to the cache it scans.                   *)

Attach(t, m) ==
    LET b == Home[UidOf[m]] IN
    /\ phase[m] = "unborn"
    /\ WLockFree(b)
    /\ Find(UidOf[m]) = {}     \* otherwise attach() throws
    /\ phase' = [phase EXCEPT ![m] = "listed"]
    /\ nextQ' = [nextQ EXCEPT ![m] = <<Activate>>]
    /\ uidQPending' = [uidQPending EXCEPT ![b] = @ \cup {UidOf[m]}]
    /\ mailboxListCache' = IF t = b THEN [mailboxListCache EXCEPT ![b] = @ \cup {m}]
                                    ELSE mailboxListCache
    /\ todo' = IF t = b /\ t \in scanning THEN [todo EXCEPT ![b] = @ \cup {m}]
                                          ELSE todo
    /\ UNCHANGED <<schedLock, atExit, deleted, currQ, pc, cur, postVars, pos,
                   uidList, scanning, hasDeleted, ran, history>>

-----------------------------------------------------------------------------
(* postLocalMessage(): look the mailbox up, push under nextQLock unless the *)
(* mailbox is detached, release the r-lock, notify a queue.                 *)

\* The lookup of a post of msg to u by t, which returns to pcReturn: at once,
\* with false, when there is no such mailbox.
PostLookup(t, u, msg, pcReturn) ==
    IF Find(u) = {}
    THEN /\ pc' = [pc EXCEPT ![t] = pcReturn]
         /\ UNCHANGED postVars
    ELSE \E m \in Find(u) :
         /\ tgt' = [tgt EXCEPT ![t] = m]
         /\ out' = [out EXCEPT ![t] = msg]
         /\ back' = [back EXCEPT ![t] = pcReturn]
         /\ pc' = [pc EXCEPT ![t] = "push"]

Refused(u, msg) ==
    IF Find(u) = {} THEN Outcome(msg, "refused") ELSE fate

\* The check of detached() made again under nextQLock; mutant: not made.
PushUnchecked(m) == FALSE
PushRefused(m)  == schedLock[m] = DETACHED

PostReturn(t) ==
    /\ pc' = [pc EXCEPT ![t] = back[t]]
    /\ tgt' = [tgt EXCEPT ![t] = None]
    /\ out' = [out EXCEPT ![t] = None]
    /\ back' = [back EXCEPT ![t] = "idle"]

PostPush(t) ==
    LET m == tgt[t] IN
    /\ pc[t] = "push"
    /\ IF PushRefused(m)
       THEN /\ PostReturn(t)
            /\ fate' = Outcome(out[t], "refused")
            /\ UNCHANGED nextQ
       ELSE /\ pc' = [pc EXCEPT ![t] = "notify"]
            /\ nextQ' = [nextQ EXCEPT ![m] = Append(@, out[t])]
            /\ UNCHANGED <<postVars, fate>>
    /\ UNCHANGED <<phase, schedLock, atExit, deleted, currQ, bucketVars, cur,
                   pos, workerVars, sent>>

\* try_push() skips a queue whose lock another thread holds, so with random
\* pushes the UID may end up in the queue of any worker.
NotifyTargets(u) == IF RandomPush THEN Worker ELSE {Home[u]}

PostNotify(t) ==
    LET u == UidOf[tgt[t]] IN
    /\ pc[t] = "notify"
    /\ \E b \in NotifyTargets(u) :
          uidQPending' = [uidQPending EXCEPT ![b] = @ \cup {u}]
    /\ PostReturn(t)
    /\ UNCHANGED <<mailboxVars, mailboxListCache, cur, pos, workerVars, history>>

\* A new message: from an actor's handler, or from outside with no sender.
Send(t, u, i, from, pcReturn) ==
    LET msg == [kind |-> "msg", id |-> i, from |-> from] IN
    /\ i \notin sent
    /\ sent' = sent \cup {i}
    /\ PostLookup(t, u, msg, pcReturn)
    /\ fate' = Refused(u, msg)
    /\ UNCHANGED <<mailboxVars, bucketVars, cur, pos, workerVars>>

-----------------------------------------------------------------------------
(* MailboxLock: the compare-and-swap of the constructor and of the          *)
(* destructor, which accepts that the mailbox was detached meanwhile.       *)

\* The compare of the constructor; mutant: only a detached mailbox is refused.
NotDetached(m) == schedLock[m] # DETACHED
LockFree(m)    == schedLock[m] = READY

Acquire(t, m) == schedLock' = [schedLock EXCEPT ![m] = LockId(t)]
\* Mutant: the destructor stores READY whatever it finds.
StoreReady(t, m) == schedLock' = [schedLock EXCEPT ![m] = READY]
Release(t, m) ==
    schedLock' = [schedLock EXCEPT ![m] = IF @ = LockId(t) THEN READY ELSE @]

-----------------------------------------------------------------------------
(* The worker loop: run the UIDs popped before, otherwise scan the bucket   *)
(* (when 1000/FPS ms have passed) and pop or steal pending UIDs.            *)

Idle(w) == pc[w] = "idle" /\ uidList[w] = {}

PopOwn(w) ==
    /\ Idle(w) /\ uidQPending[w] # {}
    /\ uidList' = [uidList EXCEPT ![w] = uidQPending[w]]
    /\ uidQPending' = [uidQPending EXCEPT ![w] = {}]
    /\ UNCHANGED <<mailboxVars, mailboxListCache, pc, cur, postVars, pos, todo,
                   scanning, hasDeleted, ran, history>>

\* try_pop() of another queue, also when the own queue is not empty but its
\* lock is taken.
Steal(w, v) ==
    /\ Idle(w) /\ v # w
    /\ StealMax > 0 /\ uidQPending[v] # {}
    /\ \E U \in SUBSET uidQPending[v] :
          /\ U # {}
          /\ Cardinality(U) <= StealMax
          /\ Cardinality(U) < StealMax => U = uidQPending[v]
          /\ uidList' = [uidList EXCEPT ![w] = U]
          /\ uidQPending' = [uidQPending EXCEPT ![v] = @ \ U]
    /\ UNCHANGED <<mailboxVars, mailboxListCache, pc, cur, postVars, pos, todo,
                   scanning, hasDeleted, ran, history>>

\* runOneUID(): look the mailbox of a popped UID up; Grab tries its lock.
PickUID(w, u) ==
    /\ pc[w] = "idle" /\ u \in uidList[w]
    /\ uidList' = [uidList EXCEPT ![w] = @ \ {u}]
    /\ IF Find(u) = {}
       THEN UNCHANGED <<pc, cur>>
       ELSE \E m \in Find(u) : /\ cur' = [cur EXCEPT ![w] = m]
                               /\ pc' = [pc EXCEPT ![w] = "grab"]
    /\ UNCHANGED <<mailboxVars, bucketVars, postVars, pos, todo, scanning,
                   hasDeleted, ran, history>>

\* runOneMailboxBucket(): collect the cache again when its size is not the
\* number of mailboxes, then visit each mailbox of it.
\* Mutant: collected only when there are fewer, as if attach() appended always.
CollectFewer(w) == IF Cardinality(mailboxListCache[w]) > Cardinality(Listed(w))
                   THEN Listed(w) ELSE mailboxListCache[w]
RefreshCache(w) == IF Cardinality(mailboxListCache[w]) # Cardinality(Listed(w))
                   THEN Listed(w) ELSE mailboxListCache[w]

BeginScan(w) ==
    /\ Idle(w)
    /\ mailboxListCache' = [mailboxListCache EXCEPT ![w] = RefreshCache(w)]
    /\ todo' = [todo EXCEPT ![w] = RefreshCache(w)]
    /\ pc' = [pc EXCEPT ![w] = "scan"]
    /\ scanning' = scanning \cup {w}
    /\ UNCHANGED <<mailboxVars, uidQPending, cur, postVars, pos, uidList,
                   hasDeleted, ran, history>>

VisitNext(w, m) ==
    /\ pc[w] = "scan" /\ m \in todo[w]
    /\ todo' = [todo EXCEPT ![w] = @ \ {m}]
    /\ cur' = [cur EXCEPT ![w] = m]
    /\ pc' = [pc EXCEPT ![w] = "grab"]
    /\ UNCHANGED <<mailboxVars, bucketVars, postVars, pos, uidList, scanning,
                   hasDeleted, ran, history>>

\* Mutant: the cache is kept after a removal.
KeepCache(w)  == mailboxListCache[w]
ClearCache(w) == IF w \in hasDeleted THEN {} ELSE mailboxListCache[w]

EndScan(w) ==
    /\ pc[w] = "scan" /\ todo[w] = {}
    /\ mailboxListCache' = [mailboxListCache EXCEPT ![w] = ClearCache(w)]
    /\ hasDeleted' = hasDeleted \ {w}
    /\ scanning' = scanning \ {w}
    /\ pc' = [pc EXCEPT ![w] = "idle"]
    /\ UNCHANGED <<mailboxVars, uidQPending, cur, postVars, pos, uidList, todo,
                   ran, history>>

\* Where the visit of a mailbox leaves a worker.
Resume(w) == IF w \in scanning THEN "scan" ELSE "idle"

\* The MailboxLock of runOneUID() and of fnRunMailbox: whoever does not get
\* it drops the UID, or skips the mailbox unless it is detached.
Grab(w) ==
    LET m == cur[w] IN
    /\ pc[w] = "grab"
    /\ \/ /\ LockFree(m)
          /\ Acquire(w, m)
          /\ pc' = [pc EXCEPT ![w] = "run"]
          /\ UNCHANGED cur
       \/ /\ schedLock[m] = DETACHED /\ w \in scanning
          /\ pc' = [pc EXCEPT ![w] = "exit"]
          /\ UNCHANGED <<schedLock, cur>>
       \/ /\ ~LockFree(m)
          /\ schedLock[m] = DETACHED => w \notin scanning
          /\ pc' = [pc EXCEPT ![w] = Resume(w)]
          /\ cur' = [cur EXCEPT ![w] = None]
          /\ UNCHANGED schedLock
    /\ UNCHANGED <<phase, atExit, deleted, nextQ, currQ, bucketVars, postVars,
                   pos, workerVars, history>>

-----------------------------------------------------------------------------
(* runOneMailbox(): swap the queues when currQ is done, check before every  *)
(* message whether a handler detached the actor, call the handler.          *)

RunReturn(w, result) ==
    /\ ran' = [ran EXCEPT ![w] = result]
    /\ pos' = [pos EXCEPT ![w] = 0]
    /\ pc' = [pc EXCEPT ![w] = "unlock"]

\* The queue without the messages already handled, [begin, p); mutant: with them.
WithHandled(q, done) == q
Unhandled(q, done)   == SubSeq(q, done + 1, Len(q))

\* currQ is done and nextQ empty, or swapped in.
RunEmpty(w, m) ==
    /\ pos[w] >= Len(currQ[m]) /\ nextQ[m] = <<>>
    /\ currQ' = [currQ EXCEPT ![m] = <<>>]
    /\ RunReturn(w, TRUE)
    /\ UNCHANGED <<nextQ, fate>>

RunSwap(w, m) ==
    /\ pos[w] >= Len(currQ[m]) /\ nextQ[m] # <<>>
    /\ currQ' = [currQ EXCEPT ![m] = nextQ[m]]
    /\ nextQ' = [nextQ EXCEPT ![m] = <<>>]
    /\ pos' = [pos EXCEPT ![w] = 0]
    /\ UNCHANGED <<pc, ran, fate>>

\* The check before each message, and the call of the handler.
RunDetached(w, m) ==
    /\ pos[w] < Len(currQ[m]) /\ schedLock[m] = DETACHED
    /\ currQ' = [currQ EXCEPT ![m] = Unhandled(@, pos[w])]
    /\ RunReturn(w, FALSE)
    /\ UNCHANGED <<nextQ, fate>>

RunDispatch(w, m) ==
    /\ pos[w] < Len(currQ[m]) /\ schedLock[m] # DETACHED
    /\ fate' = Outcome(currQ[m][pos[w] + 1], "handled")
    /\ pos' = [pos EXCEPT ![w] = @ + 1]
    /\ pc' = [pc EXCEPT ![w] = "handler"]
    /\ UNCHANGED <<nextQ, currQ, ran>>

RunNext(w) ==
    LET m == cur[w] IN
    /\ pc[w] = "run"
    /\ RunEmpty(w, m) \/ RunSwap(w, m) \/ RunDetached(w, m) \/ RunDispatch(w, m)
    /\ UNCHANGED <<phase, schedLock, atExit, deleted, bucketVars, cur, postVars,
                   uidList, todo, scanning, hasDeleted, sent>>

\* The MailboxLock destructor, and what the caller of runOneMailbox() does
\* with its result.
Unlock(w) ==
    /\ pc[w] = "unlock"
    /\ Release(w, cur[w])
    /\ IF w \in scanning /\ ~ran[w]
       THEN /\ pc' = [pc EXCEPT ![w] = "exit"]
            /\ UNCHANGED cur
       ELSE /\ pc' = [pc EXCEPT ![w] = Resume(w)]
            /\ cur' = [cur EXCEPT ![w] = None]
    /\ ran' = [ran EXCEPT ![w] = TRUE]
    /\ UNCHANGED <<phase, atExit, deleted, nextQ, currQ, bucketVars, postVars,
                   pos, uidList, todo, scanning, hasDeleted, history>>

-----------------------------------------------------------------------------
(* What a message handler does to the pool: post messages, spawn actors,    *)
(* deactivate its own actor (detach(this, delete this) by the worker that   *)
(* holds the schedLock), return.                                            *)

HandlerPost(w, u, i) ==
    /\ pc[w] = "handler"
    /\ Send(w, u, i, UidOf[cur[w]], "handler")

HandlerAttach(w, m) ==
    /\ pc[w] = "handler"
    /\ m \notin Owned
    /\ Attach(w, m)

\* detach() leaves fnAtExit to the dedicated worker; mutant: calls it at once.
ExitNow(m)   == deleted' = deleted \cup {m} /\ UNCHANGED atExit
ExitLater(m) == atExit' = atExit \cup {m} /\ UNCHANGED deleted

HandlerDetach(w) ==
    LET m == cur[w] IN
    /\ pc[w] = "handler"
    /\ m \in Mortal
    /\ schedLock[m] # DETACHED
    /\ ExitLater(m)
    /\ schedLock' = [schedLock EXCEPT ![m] = DETACHED]
    /\ UNCHANGED <<phase, nextQ, currQ, bucketVars, pc, cur, postVars, pos,
                   workerVars, history>>

HandlerReturn(w) ==
    /\ pc[w] = "handler"
    /\ pc' = [pc EXCEPT ![w] = "run"]
    /\ UNCHANGED <<mailboxVars, bucketVars, cur, postVars, pos, workerVars, history>>

-----------------------------------------------------------------------------
(* The removal of a detached mailbox by its dedicated worker: atExit (which *)
(* is "delete this"), clearOneMailbox(), erase under the w-lock.            *)

Exit(w) ==
    LET m == cur[w] IN
    /\ pc[w] = "exit"
    /\ deleted' = IF m \in atExit THEN deleted \cup {m} ELSE deleted
    /\ atExit' = atExit \ {m}
    /\ pc' = [pc EXCEPT ![w] = "clear"]
    /\ UNCHANGED <<phase, schedLock, nextQ, currQ, bucketVars, cur, postVars,
                   pos, workerVars, history>>

\* nextQ is appended to currQ and left as it is: it dies with the mailbox.
\* Mutant: inserted in front.
NewestFirst(m) == nextQ[m] \o currQ[m]
AllQueued(m)   == currQ[m] \o nextQ[m]

Clear(w) ==
    LET m == cur[w] IN
    /\ pc[w] = "clear"
    /\ currQ' = [currQ EXCEPT ![m] = AllQueued(m)]
    /\ pos' = [pos EXCEPT ![w] = 0]
    /\ pc' = [pc EXCEPT ![w] = "bounce"]
    /\ UNCHANGED <<phase, schedLock, atExit, deleted, nextQ, bucketVars, cur,
                   postVars, workerVars, history>>

\* AM_BADACTORPOD to the sender of a queued message; without one the message
\* is dropped.
Bounce(w) ==
    LET m   == cur[w]
        msg == currQ[m][pos[w] + 1] IN
    /\ pc[w] = "bounce"
    /\ pos[w] < Len(currQ[m])
    /\ pos' = [pos EXCEPT ![w] = @ + 1]
    /\ IF msg.from = None
       THEN /\ fate' = Outcome(msg, "dropped")
            /\ UNCHANGED <<pc, postVars>>
       ELSE /\ fate' = Outcome(msg, "bounced")
            /\ PostLookup(w, msg.from, BadPod(msg.id), "bounce")
    /\ UNCHANGED <<mailboxVars, bucketVars, cur, workerVars, sent>>

ClearDone(w) ==
    LET m == cur[w] IN
    /\ pc[w] = "bounce"
    /\ pos[w] >= Len(currQ[m])
    /\ currQ' = [currQ EXCEPT ![m] = <<>>]
    /\ pos' = [pos EXCEPT ![w] = 0]
    /\ pc' = [pc EXCEPT ![w] = "erase"]
    /\ UNCHANGED <<phase, schedLock, atExit, deleted, nextQ, bucketVars, cur,
                   postVars, workerVars, history>>

Erase(w) ==
    /\ pc[w] = "erase"
    /\ WLockFree(w)
    /\ phase' = [phase EXCEPT ![cur[w]] = "erased"]
    /\ nextQ' = [nextQ EXCEPT ![cur[w]] = <<>>]
    /\ hasDeleted' = hasDeleted \cup {w}
    /\ cur' = [cur EXCEPT ![w] = None]
    /\ pc' = [pc EXCEPT ![w] = "scan"]
    /\ UNCHANGED <<schedLock, atExit, deleted, currQ, bucketVars, postVars, pos,
                   uidList, todo, scanning, ran, history>>

-----------------------------------------------------------------------------
(* Application threads: activate actors, post, and destroy an actor they    *)
(* own (~ActorPod: detach(this, nullptr), spinning while a worker runs it). *)

PublicAttach(p, m) == pc[p] = "idle" /\ Attach(p, m)

PublicPost(p, u, i) ==
    /\ pc[p] = "idle"
    /\ Send(p, u, i, None, "idle")

PublicDetach(p, m) ==
    /\ pc[p] = "idle"
    /\ m \in Owned \ deleted
    /\ phase[m] = "listed"
    /\ \A q \in Public : cur[q] # m     \* an object is destroyed once
    /\ cur' = [cur EXCEPT ![p] = m]
    /\ pc' = [pc EXCEPT ![p] = "spin"]
    /\ UNCHANGED <<mailboxVars, bucketVars, postVars, pos, workerVars, history>>

\* Each turn of the loop that finds the lock taken backs off and changes
\* nothing; the r-lock is released once the schedLock is taken.
SpinGrab(p) ==
    LET m == cur[p] IN
    /\ pc[p] = "spin"
    /\ LockFree(m)
    /\ Acquire(p, m)
    /\ pc' = [pc EXCEPT ![p] = "detaching"]
    /\ UNCHANGED <<phase, atExit, deleted, nextQ, currQ, bucketVars, cur,
                   postVars, pos, workerVars, history>>

Detaching(p) ==
    /\ pc[p] = "detaching"
    /\ schedLock' = [schedLock EXCEPT ![cur[p]] = DETACHED]
    /\ pc' = [pc EXCEPT ![p] = "detached"]
    /\ UNCHANGED <<phase, atExit, deleted, nextQ, currQ, bucketVars, cur,
                   postVars, pos, workerVars, history>>

\* The destructor of the MailboxLock of detach(); then the actor object goes.
DetachReturn(p) ==
    LET m == cur[p] IN
    /\ pc[p] = "detached"
    /\ Release(p, m)
    /\ deleted' = deleted \cup {m}
    /\ cur' = [cur EXCEPT ![p] = None]
    /\ pc' = [pc EXCEPT ![p] = "idle"]
    /\ UNCHANGED <<phase, atExit, nextQ, currQ, bucketVars, postVars, pos,
                   workerVars, history>>

-----------------------------------------------------------------------------
WorkerStep(w) ==
    \/ PostPush(w) \/ PostNotify(w)
    \/ PopOwn(w) \/ (\E v \in Worker : Steal(w, v))
    \/ (\E u \in UID : PickUID(w, u))
    \/ BeginScan(w) \/ (\E m \in Mailbox : VisitNext(w, m)) \/ EndScan(w)
    \/ Grab(w) \/ RunNext(w) \/ Unlock(w)
    \/ (\E u \in UID, i \in MsgId : HandlerPost(w, u, i))
    \/ (\E m \in Mailbox : HandlerAttach(w, m))
    \/ HandlerDetach(w) \/ HandlerReturn(w)
    \/ Exit(w) \/ Clear(w) \/ Bounce(w) \/ ClearDone(w) \/ Erase(w)

PublicStep(p) ==
    \/ PostPush(p) \/ PostNotify(p)
    \/ (\E m \in Mailbox : PublicAttach(p, m) \/ PublicDetach(p, m))
    \/ (\E u \in UID, i \in MsgId : PublicPost(p, u, i))
    \/ SpinGrab(p) \/ Detaching(p) \/ DetachReturn(p)

Next == (\E w \in Worker : WorkerStep(w)) \/ (\E p \in Public : PublicStep(p))

Spec == Init /\ [][Next]_vars

-----------------------------------------------------------------------------
(* Fairness.  A worker never blocks for good between two steps.  It looks   *)
(* at the clock in every turn that has no popped UID left, so a scan is due *)
(* and taken again and again however many UIDs are notified: strong         *)
(* fairness.  Nothing is assumed of Steal, of application threads, or of    *)
(* what a handler does before it returns.                                   *)

WorkerProgress(w) ==
    \/ PostPush(w) \/ PostNotify(w) \/ (\E u \in UID : PickUID(w, u))
    \/ (\E m \in Mailbox : VisitNext(w, m)) \/ EndScan(w)
    \/ Grab(w) \/ RunNext(w) \/ Unlock(w) \/ HandlerReturn(w)
    \/ Exit(w) \/ Clear(w) \/ Bounce(w) \/ ClearDone(w) \/ Erase(w)

Fairness ==
    /\ \A w \in Worker : WF_vars(WorkerProgress(w)) /\ SF_vars(BeginScan(w))
    /\ \A p \in Public : WF_vars(PostPush(p) \/ PostNotify(p) \/ Detaching(p) \/ DetachReturn(p))

FairSpec == Spec /\ Fairness

-----------------------------------------------------------------------------
(* Type correctness: the registers of a thread and the fields of a mailbox. *)
PC == {"idle", "scan", "grab", "run", "handler", "unlock", "exit", "clear",
       "bounce", "erase", "push", "notify", "spin", "detaching", "detached"}

TypeOK ==
    /\ phase \in [Mailbox -> {"unborn", "listed", "erased"}]
    /\ schedLock \in [Mailbox -> Worker \cup {READY, DETACHED, ACCESS_PUB}]
    /\ atExit \subseteq Mailbox /\ deleted \subseteq Mailbox
    /\ nextQ \in [Mailbox -> Seq(Msg)] /\ currQ \in [Mailbox -> Seq(Msg)]
    /\ uidQPending \in [Worker -> SUBSET UID]
    /\ mailboxListCache \in [Worker -> SUBSET Mailbox]
    /\ pc \in [Thread -> PC]
    /\ cur \in [Thread -> Mailbox \cup {None}]
    /\ tgt \in [Thread -> Mailbox \cup {None}]
    /\ out \in [Thread -> Msg \cup {None}]
    /\ back \in [Thread -> {"idle", "handler", "bounce"}]
    /\ pos \in [Thread -> Nat]
    /\ uidList \in [Worker -> SUBSET UID]
    /\ todo \in [Worker -> SUBSET Mailbox]
    /\ scanning \subseteq Worker /\ hasDeleted \subseteq Worker
    /\ ran \in [Worker -> BOOLEAN]
    /\ sent \subseteq MsgId
    /\ fate \in [MsgId -> SUBSET {"handled", "bounced", "dropped", "refused"}]

\* Where a thread is, the pushes of a nested post put aside.
At(t) == IF pc[t] \in {"push", "notify"} THEN back[t] ELSE pc[t]

InHandler(t, m) == cur[t] = m /\ At(t) = "handler"

(* No two threads are ever inside the handler of the same actor, whatever   *)
(* is stolen, notified twice or scanned at the same time (runOneUID and     *)
(* fnRunMailbox, through MailboxLock).                                      *)
HandlerExclusion ==
    \A m \in Mailbox, t, r \in Thread :
       InHandler(t, m) /\ InHandler(r, m) => t = r

(* detach() "make[s] sure after this function there isn't any threads       *)
(* accessing the internal actor state", and atExit is delayed until "the    *)
(* message handler is done" (actorpool.cpp:186, :309): no thread is inside  *)
(* a handler of a destroyed actor.                                          *)
HandlerAlive ==
    \A t \in Thread, m \in Mailbox : InHandler(t, m) => m \notin deleted

(* A mailbox a thread works on is never erased under it, by a pointer it    *)
(* looked up, was notified of or keeps while it spins: the r-lock protects  *)
(* it until the message is pushed or the schedLock is tried, then the       *)
(* schedLock does ("now we can safely release the r-lock", detach(),        *)
(* actorpool.cpp:218).  What detach() does after its own DETACHED is left   *)
(* to NoStaleMailbox.                                                       *)
MailboxKept ==
    \A t \in Thread :
       /\ cur[t] # None /\ pc[t] # "detached" => phase[cur[t]] = "listed"
       /\ pc[t] = "push" => phase[tgt[t]] = "listed"

(* No thread uses a Mailbox object after the worker that owns its bucket    *)
(* erased it, which the comment of detach() promises: "no threads can       *)
(* destroy the mailboxPtr without grab the schedLock" (actorpool.cpp:219).  *)
(* The last use of detach() is the one of its MailboxLock's destructor.     *)
NoStaleMailbox ==
    /\ MailboxKept
    /\ \A t \in Thread : pc[t] = "detached" => phase[cur[t]] = "listed"

(* Between two scans, the mailbox pointers a worker has cached are those of *)
(* mailboxes still in its bucket, although the size check cannot tell one   *)
(* erased and one attached from none (actorpool.cpp:763).                   *)
CacheNeverDangles ==
    \A w \in Worker :
       /\ w \notin scanning => mailboxListCache[w] \subseteq Listed(w)
       /\ todo[w] \subseteq Listed(w)

(* A message has at most one outcome: handled, refused to the sender,       *)
(* dropped, or bounced with AM_BADACTORPOD; in particular none is both      *)
(* handled and bounced (actorpool.cpp:539).                                 *)
AnsweredOnce == \A i \in MsgId : Cardinality(fate[i]) <= 1

Queued(i, m) ==
    \/ \E k \in DOMAIN nextQ[m] : nextQ[m][k].kind = "msg" /\ nextQ[m][k].id = i
    \/ \E k \in DOMAIN currQ[m] : currQ[m][k].kind = "msg" /\ currQ[m][k].id = i

(* A message that was sent and has no outcome yet is on its way: a thread   *)
(* is pushing it, or it sits in a mailbox that is still listed.  A post     *)
(* that races the removal of its target never leaves a message behind       *)
(* (clearOneMailbox, actorpool.cpp:586).                                    *)
NoMessageLost ==
    \A i \in sent :
       fate[i] = {} =>
          \/ \E t \in Thread : pc[t] = "push" /\ out[t].id = i
          \/ \E m \in Mailbox : phase[m] = "listed" /\ Queued(i, m)

(* Every message sent gets its outcome: notifications are lost when the     *)
(* lock is taken, the periodic scan makes up for them.                      *)
EveryMessageAnswered == \A i \in MsgId : i \in sent ~> fate[i] # {}

(* A detached actor is destroyed and its mailbox erased, so that its UID    *)
(* can be attached again (servicecoreop.cpp:286 polls for it).  No other    *)
(* actor is ever detached.                                                  *)
DetachedIsErased ==
    \A m \in Owned \cup Mortal : schedLock[m] = DETACHED ~> phase[m] = "erased"

-----------------------------------------------------------------------------
(* The mailbox the queues of ActorMailbox stand for.                        *)

\* The thread that is going through currQ of m, handling or bouncing it.
Runs(t, m) == cur[t] = m /\ At(t) \in {"run", "handler", "unlock", "bounce", "erase"}
Done(m) == IF \E t \in Thread : Runs(t, m)
           THEN pos[CHOOSE t \in Thread : Runs(t, m)] ELSE 0

boxState == [m \in Mailbox |->
    CASE phase[m] = "unborn" -> "unborn"
      [] phase[m] = "erased" -> "gone"
      [] phase[m] = "listed" -> IF schedLock[m] = DETACHED THEN "closed" ELSE "open"]

\* clearOneMailbox() has copied nextQ into currQ once it bounces.
boxInbox == [m \in Mailbox |->
    LET left == SubSeq(currQ[m], Done(m) + 1, Len(currQ[m])) IN
    IF \E t \in Thread : cur[t] = m /\ At(t) \in {"bounce", "erase"}
    THEN left ELSE left \o nextQ[m]]

boxHandling == [m \in Mailbox |->
    IF \E t \in Thread : InHandler(t, m) THEN currQ[m][Done(m)] ELSE None]

Box == INSTANCE ActorMailbox
          WITH First <- Activate, state <- boxState, inbox <- boxInbox,
               handling <- boxHandling, destroyed <- deleted

(* Unless a stolen actor deactivates itself, the scheduler implements       *)
(* ActorMailbox: per-actor order of messages (swap of nextQ and currQ,      *)
(* erase of [begin, p), append in clearOneMailbox), one handler at a time,  *)
(* nothing taken or accepted after detach(), nothing removed under a        *)
(* handler.                                                                 *)
ImplementsMailbox == Box!Spec
=============================================================================
