----------------------------- MODULE DelayDriver -----------------------------
(***************************************************************************)
(* The timer service of the actors (server/src/delaydriver.{hpp,cpp}): one *)
(* worker thread, one mutex, one condition variable.  A wait with a delay  *)
(* is a timer (odd id), one without is a waiter (even id) that only a      *)
(* cancel ends.  The worker answers a wait by posting AM_TIMEOUT or        *)
(* AM_CANCEL to its callback argument.                                     *)
(*                                                                         *)
(* One step is one critical section of m_mutex, one notify, or one post.   *)
(* A Token stands for a callback argument, the pair of an actor's UID and  *)
(* of the sequence number the actor rolled for this wait: it is used once. *)
(***************************************************************************)
EXTENDS Naturals, Sequences, FiniteSets

CONSTANTS
    Caller,     \* the threads that add and cancel: workers of the actor pool
    Token,      \* callback arguments
    Delay,      \* [Token -> Nat], the msec of a wait; 0 asks for a waiter
    MaxTime,    \* bound of the clock
    Never       \* the deadline of a wait without one, and no token

ASSUME DelayAssumption ==
    /\ Delay \in [Token -> Nat]
    /\ MaxTime \in Nat
    /\ Never \notin Nat \cup Token

VARIABLES
    now,                \* clock_type::now()
    seqID,              \* m_seqID
    stopRequested,      \* m_stopRequested
    id,                 \* [Token -> Nat]: what add() returned, 0 before
    expireAt,           \* [Token -> Nat]: the key of m_timers
    timers, waiters,    \* the tokens of m_timers (and m_timerIds), m_waiters
    cancelledTimerArgs, \* m_cancelledTimerArgs
    wpc,                \* the worker: "run", "sleep", "drain", "done"
    deadline,           \* what the sleeping worker waits for
    notified,           \* the sleeping worker has been notified
    timeoutArgs, cancelledArgs,     \* the worker's locals
    drained,            \* tokens the worker has posted after the stop
    cpc, ctok,          \* per caller: where it is, the token it adds
    spc,                \* requestStop(): "idle", "notify", "join"
    answer,             \* history: [Token -> Seq({"AM_TIMEOUT", "AM_CANCEL"})]
    refused,            \* history: tokens add() returned 0 for
    cancelTrue          \* history: tokens cancel() returned true for

tables == <<seqID, id, expireAt, timers, waiters, cancelledTimerArgs>>
worker == <<wpc, deadline, timeoutArgs, cancelledArgs, drained, answer>>
caller == <<cpc, ctok, refused, cancelTrue>>
vars   == <<now, stopRequested, notified, spc, tables, worker, caller>>

TypeOK ==
    /\ now \in 0..MaxTime /\ seqID \in Nat \ {0}
    /\ stopRequested \in BOOLEAN /\ notified \in BOOLEAN
    /\ id \in [Token -> Nat] /\ expireAt \in [Token -> Nat]
    /\ timers \subseteq Token /\ waiters \subseteq Token
    /\ cancelledTimerArgs \subseteq Token
    /\ timeoutArgs \subseteq Token /\ cancelledArgs \subseteq Token
    /\ drained \subseteq Token
    /\ wpc \in {"run", "sleep", "drain", "done"}
    /\ deadline \in Nat \cup {Never}
    /\ cpc \in [Caller -> {"idle", "add", "notify"}]
    /\ ctok \in [Caller -> Token \cup {Never}]
    /\ spc \in {"idle", "notify", "join"}
    /\ answer \in [Token -> {<<>>, <<"AM_TIMEOUT">>, <<"AM_CANCEL">>}]
    /\ refused \subseteq Token /\ cancelTrue \subseteq Token

Init ==
    /\ now = 0 /\ seqID = 1
    /\ stopRequested = FALSE /\ notified = FALSE
    /\ id = [k \in Token |-> 0] /\ expireAt = [k \in Token |-> 0]
    /\ timers = {} /\ waiters = {} /\ cancelledTimerArgs = {}
    /\ timeoutArgs = {} /\ cancelledArgs = {} /\ drained = {}
    /\ wpc = "run" /\ deadline = Never
    /\ cpc = [c \in Caller |-> "idle"] /\ ctok = [c \in Caller |-> Never]
    /\ spc = "idle"
    /\ answer = [k \in Token |-> <<>>]
    /\ refused = {} /\ cancelTrue = {}

-----------------------------------------------------------------------------
(* add() and cancel().                                                      *)

IsOdd(n)    == n % 2 = 1
NextIDOnly   == seqID + 1       \* mutant: the parity does not tell the tables apart
NextTimerID  == IF IsOdd(seqID) THEN seqID + 2 ELSE seqID + 1
NextWaiterID == IF IsOdd(seqID) THEN seqID + 1 ELSE seqID + 2

Unused(k) == id[k] = 0 /\ k \notin refused /\ \A c \in Caller : ctok[c] # k
Earliest  == CHOOSE t \in {expireAt[k] : k \in timers} :
                 \A k \in timers : t <= expireAt[k]

NotifyIfEarlier(k)  == timers # {} /\ expireAt[k] < Earliest    \* mutant
NeedReschedule(k)   == timers = {} \/ expireAt[k] < Earliest

\* The clock is read before the mutex is taken.
ReadClock(c, k) ==
    /\ cpc[c] = "idle" /\ Unused(k) /\ Delay[k] > 0
    /\ now + Delay[k] <= MaxTime       \* bound
    /\ expireAt' = [expireAt EXCEPT ![k] = now + Delay[k]]
    /\ cpc' = [cpc EXCEPT ![c] = "add"]
    /\ ctok' = [ctok EXCEPT ![c] = k]
    /\ UNCHANGED <<now, stopRequested, notified, spc, seqID, id, timers, waiters,
                   cancelledTimerArgs, worker, refused, cancelTrue>>

AddTimer(c) ==
    LET k == ctok[c] IN
    /\ cpc[c] = "add"
    /\ ctok' = [ctok EXCEPT ![c] = Never]
    /\ IF stopRequested
       THEN /\ cpc' = [cpc EXCEPT ![c] = "idle"]
            /\ refused' = refused \cup {k}
            /\ UNCHANGED <<seqID, id, timers>>
       ELSE /\ seqID' = NextTimerID
            /\ id' = [id EXCEPT ![k] = NextTimerID]
            /\ timers' = timers \cup {k}
            /\ cpc' = [cpc EXCEPT ![c] = IF NeedReschedule(k) THEN "notify" ELSE "idle"]
            /\ UNCHANGED refused
    /\ UNCHANGED <<now, stopRequested, notified, spc, expireAt, waiters,
                   cancelledTimerArgs, worker, cancelTrue>>

AddWaiter(c, k) ==
    /\ cpc[c] = "idle" /\ Unused(k) /\ Delay[k] = 0
    /\ IF stopRequested
       THEN /\ refused' = refused \cup {k}
            /\ UNCHANGED <<seqID, id, waiters>>
       ELSE /\ seqID' = NextWaiterID
            /\ id' = [id EXCEPT ![k] = NextWaiterID]
            /\ waiters' = waiters \cup {k}
            /\ UNCHANGED refused
    /\ UNCHANGED <<now, stopRequested, notified, spc, expireAt, timers,
                   cancelledTimerArgs, worker, cpc, ctok, cancelTrue>>

\* cancel(key): the parity of the key says which table holds it.  The key of a
\* wait that is over is not found; after the stop nothing is (std::nullopt).
Found(key) == IF IsOdd(key) THEN {k \in timers  : id[k] = key}
                            ELSE {k \in waiters : id[k] = key}

CancelAnytime(c) == cpc[c] = "idle"         \* mutant: no test of m_stopRequested
MayCancel(c)     == cpc[c] = "idle" /\ ~stopRequested

Cancel(c, key) ==
    /\ MayCancel(c)
    /\ Found(key) # {}
    /\ timers'  = timers  \ Found(key)
    /\ waiters' = waiters \ Found(key)
    /\ cancelledTimerArgs' = cancelledTimerArgs \cup Found(key)
    /\ cancelTrue' = cancelTrue \cup Found(key)
    /\ cpc' = [cpc EXCEPT ![c] = "notify"]
    /\ UNCHANGED <<now, stopRequested, notified, spc, seqID, id, expireAt, worker,
                   ctok, refused>>

\* m_cond.notify_one(), after the mutex is released; only a worker that sleeps
\* at this moment hears it.
Notify(c) ==
    /\ cpc[c] = "notify"
    /\ cpc' = [cpc EXCEPT ![c] = "idle"]
    /\ notified' = (notified \/ wpc = "sleep")
    /\ UNCHANGED <<now, stopRequested, spc, tables, worker, ctok, refused, cancelTrue>>

RequestStop ==
    /\ spc = "idle"
    /\ spc' = "notify" /\ stopRequested' = TRUE
    /\ UNCHANGED <<now, notified, tables, worker, caller>>

NotifyStop ==
    /\ spc = "notify"
    /\ spc' = "join"
    /\ notified' = (notified \/ wpc = "sleep")
    /\ UNCHANGED <<now, stopRequested, tables, worker, caller>>

-----------------------------------------------------------------------------
(* The worker.                                                              *)

\* The predicate of m_cond.wait() (deadline Never) and of wait_until(): the
\* latter does not look at m_timers.
Ready(d) == \/ stopRequested \/ cancelledTimerArgs # {}
            \/ d = Never /\ timers # {}
Expired(d) == d # Never /\ now >= d
DueTooSoon == {k \in timers : expireAt[k] <= now + 1}   \* mutant
Due        == {k \in timers : expireAt[k] <= now}
CopiedArgs == cancelledTimerArgs    \* mutant: a copy instead of a swap
SwappedOut == {}                    \* what the swap leaves in m_cancelledTimerArgs

\* From the moment the worker holds the mutex with deadline d: sleep on, break
\* out of the loop, or take what is due and what was cancelled.
WaitOrCollect(d) ==
    /\ notified' = FALSE
    /\ deadline' = d
    /\ \/ /\ ~Ready(d) /\ ~Expired(d)
          /\ wpc' = "sleep"
          /\ UNCHANGED <<timers, cancelledTimerArgs, timeoutArgs, cancelledArgs>>
       \/ /\ stopRequested
          /\ wpc' = "drain"
          /\ UNCHANGED <<timers, cancelledTimerArgs, timeoutArgs, cancelledArgs>>
       \/ /\ Ready(d) \/ Expired(d)
          /\ ~stopRequested
          /\ wpc' = "run"
          /\ timers' = timers \ Due /\ timeoutArgs' = Due
          /\ cancelledTimerArgs' = SwappedOut /\ cancelledArgs' = cancelledTimerArgs
    /\ UNCHANGED <<now, stopRequested, spc, seqID, id, expireAt, waiters, drained,
                   answer, caller>>

LoopTop ==
    /\ wpc = "run" /\ timeoutArgs = {} /\ cancelledArgs = {}
    /\ WaitOrCollect(IF timers = {} THEN Never ELSE Earliest)

\* A notify, the clock, or nothing at all (a spurious wake-up) ends the sleep.
WokenUp   == wpc = "sleep" /\ (notified \/ Expired(deadline))
WakeUp    == WokenUp /\ WaitOrCollect(deadline)
Spurious  == wpc = "sleep" /\ ~WokenUp /\ WaitOrCollect(deadline)

Post(k, what) == answer' = [answer EXCEPT ![k] = Append(@, what)]

FireTimeout(k) ==
    /\ wpc = "run" /\ k \in timeoutArgs
    /\ Post(k, "AM_TIMEOUT")
    /\ timeoutArgs' = timeoutArgs \ {k}
    /\ UNCHANGED <<now, stopRequested, notified, spc, tables, wpc, deadline,
                   cancelledArgs, drained, caller>>

FireCancel(k) ==
    /\ wpc = "run" /\ timeoutArgs = {} /\ k \in cancelledArgs
    /\ Post(k, "AM_CANCEL")
    /\ cancelledArgs' = cancelledArgs \ {k}
    /\ UNCHANGED <<now, stopRequested, notified, spc, tables, wpc, deadline,
                   timeoutArgs, drained, caller>>

\* After the stop, without the mutex: the cancelled waits, then the timers.
Drain(k) ==
    /\ wpc = "drain" /\ k \notin drained
    /\ \/ k \in cancelledTimerArgs
       \/ k \in timers /\ cancelledTimerArgs \subseteq drained
    /\ Post(k, "AM_CANCEL")
    /\ drained' = drained \cup {k}
    /\ UNCHANGED <<now, stopRequested, notified, spc, tables, wpc, deadline,
                   timeoutArgs, cancelledArgs, caller>>

Exit ==
    /\ wpc = "drain" /\ (timers \cup cancelledTimerArgs) \subseteq drained
    /\ wpc' = "done"
    /\ UNCHANGED <<now, stopRequested, notified, spc, tables, deadline, timeoutArgs,
                   cancelledArgs, drained, answer, caller>>

Tick ==
    /\ now < MaxTime
    /\ now' = now + 1
    /\ UNCHANGED <<stopRequested, notified, spc, tables, worker, caller>>

-----------------------------------------------------------------------------
Thread(c) ==
    \/ AddTimer(c) \/ Notify(c)
    \/ \E k \in Token : ReadClock(c, k) \/ AddWaiter(c, k)
    \/ \E k \in Token : id[k] # 0 /\ Cancel(c, id[k])

Worker ==
    \/ LoopTop \/ WakeUp \/ Exit
    \/ \E k \in Token : FireTimeout(k) \/ FireCancel(k) \/ Drain(k)

Next ==
    \/ Tick \/ Worker \/ Spurious
    \/ \E c \in Caller : Thread(c)
    \/ RequestStop \/ NotifyStop

Spec == Init /\ [][Next]_vars

\* Time passes, threads that are not blocked run; nobody has to add, cancel or
\* stop, and nothing is assumed of spurious wake-ups.
Fairness ==
    /\ WF_vars(Tick) /\ WF_vars(Worker) /\ WF_vars(NotifyStop)
    /\ \A c \in Caller : WF_vars(AddTimer(c)) /\ WF_vars(Notify(c))

FairSpec == Spec /\ Fairness

-----------------------------------------------------------------------------
(* Properties.                                                              *)

\* A timer is never answered with AM_TIMEOUT before the delay it was created
\* with is over (the fire loop of the worker compares with its own clock).
NeverEarly ==
    \A k \in Token : answer[k] = <<"AM_TIMEOUT">> => Delay[k] > 0 /\ expireAt[k] <= now

\* The key that add() returned finds exactly its own wait for as long as the
\* wait is in a table: cancel() looks into one of the two tables only, by the
\* parity of the key, and keys of both come from one counter.
KeyFindsOwnWait == \A k \in timers \cup waiters : Found(id[k]) = {k}

\* After the stop the worker walks the containers without the mutex, so nobody
\* may change them any more.
DrainUnshared == [][wpc = "drain" => UNCHANGED <<timers, cancelledTimerArgs>>]_vars

\* Every accepted timer is answered, by the clock, a cancel or the stop; and a
\* cancel that returned true reaches the actor, even if the worker sleeps
\* without a deadline or stops right then.
WaitsAnswered ==
    /\ \A k \in Token : k \in timers ~> answer[k] # <<>>
    /\ \A k \in Token : k \in cancelTrue ~> answer[k] = <<"AM_CANCEL">>

\* The worker never sleeps beyond the expiry of a timer once the thread that
\* added it has returned from add(): what scripts are told of a timeout
\* ("auto-removes the trigger after this long").
NoOversleep ==
    (wpc = "sleep" /\ ~notified /\ timers # {} /\ \A c \in Caller : cpc[c] = "idle")
        => deadline # Never /\ deadline <= Earliest

\* What the service promises (WaitToken): every wait is answered at most once,
\* a wait whose cancel was accepted by AM_CANCEL only, and AM_CANCEL is sent
\* to nobody else before the stop.
Promise == INSTANCE WaitToken WITH
    state <- [k \in Token |->
                IF k \in refused THEN "refused"
                ELSE IF id[k] = 0 THEN "new"
                ELSE IF k \in cancelTrue THEN "cancelled" ELSE "waiting"]
ImplementsWaitToken == Promise!Spec
=============================================================================
