-------------------------- MODULE DelayDriverProofs --------------------------
(***************************************************************************)
(* Proofs about DelayDriver, for any number of callers and waits: its      *)
(* types, keys find their own wait, no timeout is early, the drain after   *)
(* the stop is undisturbed, and the timer service implements WaitToken.    *)
(***************************************************************************)
EXTENDS DelayDriver, WellFoundedInduction, TLAPS

\* Where a wait can be.
Queued == timers \cup waiters \cup cancelledTimerArgs \cup timeoutArgs \cup cancelledArgs

Typed ==
    /\ now \in Nat /\ seqID \in Nat /\ stopRequested \in BOOLEAN
    /\ id \in [Token -> Nat] /\ expireAt \in [Token -> Nat]
    /\ timers \subseteq Token /\ waiters \subseteq Token
    /\ cancelledTimerArgs \subseteq Token
    /\ timeoutArgs \subseteq Token /\ cancelledArgs \subseteq Token
    /\ wpc \in {"run", "sleep", "drain", "done"}
    /\ cpc \in [Caller -> {"idle", "add", "notify"}]
    /\ ctok \in [Caller -> Token \cup {Never}]
    /\ answer \in [Token -> {<<>>, <<"AM_TIMEOUT">>, <<"AM_CANCEL">>}]

\* A wait is in one place, and a wait that is queued somewhere has no answer.
Placed == \A k \in Token :
    /\ id[k] = 0 => k \notin Queued \cup cancelTrue /\ answer[k] = <<>>
    /\ k \in refused => id[k] = 0
    /\ k \in timers => k \notin waiters \cup timeoutArgs \cup cancelTrue
    /\ k \in waiters => k \notin timeoutArgs \cup cancelTrue
    /\ k \in timeoutArgs => k \notin cancelTrue
    /\ k \in cancelledTimerArgs => k \in cancelTrue /\ k \notin cancelledArgs
    /\ k \in cancelledArgs => k \in cancelTrue
    /\ k \in Queued /\ k \notin drained => answer[k] = <<>>

\* The worker drains after a stop only, with nothing left to fire.
Stopped ==
    /\ wpc \in {"drain", "done"} => stopRequested /\ timeoutArgs = {} /\ cancelledArgs = {}
    /\ wpc \in {"run", "sleep"} => drained = {}
    /\ wpc = "sleep" => timeoutArgs = {} /\ cancelledArgs = {}

\* A caller between the clock and the mutex holds a token nobody else has.
Adding ==
    /\ \A c \in Caller : cpc[c] = "add" <=> ctok[c] # Never
    /\ \A c \in Caller : ctok[c] \in Token => id[ctok[c]] = 0 /\ ctok[c] \notin refused
    /\ \A c, e \in Caller : ctok[c] \in Token /\ ctok[c] = ctok[e] => c = e

\* Keys grow, and their parity tells the tables apart.
Keys ==
    /\ \A k \in Token : id[k] <= seqID
    /\ \A k, l \in Token : id[k] # 0 /\ id[k] = id[l] => k = l
    /\ \A k \in timers : IsOdd(id[k])
    /\ \A k \in waiters : ~IsOdd(id[k])

Timely ==
    /\ \A k \in timers \cup timeoutArgs : Delay[k] > 0
    /\ \A c \in Caller : ctok[c] \in Token => Delay[ctok[c]] > 0
    /\ \A k \in timeoutArgs : expireAt[k] <= now
    /\ NeverEarly

Inv == Typed /\ Placed /\ Stopped /\ Adding /\ Keys /\ Timely

LEMMA DelayIsNat ==
    ASSUME now \in Nat, NEW k \in Token
    PROVE  Delay[k] \in Nat /\ now + Delay[k] \in Nat
BY DelayAssumption

LEMMA OtherAnswer == <<"AM_CANCEL">> # <<"AM_TIMEOUT">>
OBVIOUS

LEMMA NextIDs ==
    ASSUME seqID \in Nat
    PROVE  /\ NextTimerID \in Nat /\ NextTimerID > seqID /\ NextTimerID % 2 = 1
           /\ NextWaiterID \in Nat /\ NextWaiterID > seqID /\ NextWaiterID % 2 # 1
<1>1. /\ seqID % 2 \in {0, 1}
      /\ (seqID + 1) % 2 = 1 - (seqID % 2) /\ (seqID + 2) % 2 = seqID % 2
    OBVIOUS
<1> QED
    BY <1>1 DEF NextTimerID, NextWaiterID, IsOdd

LEMMA InitInv == Init => Inv
<1> SUFFICES ASSUME Init PROVE Inv
    OBVIOUS
<1> USE DelayAssumption DEF Init
<1>1. Typed
    BY DEF Typed
<1>2. Placed
    BY DEF Placed, Queued
<1>3. Stopped
    BY DEF Stopped
<1>4. Adding
    BY DEF Adding
<1>5. Keys
    BY DEF Keys
<1>6. Timely
    BY DEF Timely, NeverEarly
<1> QED
    BY <1>1, <1>2, <1>3, <1>4, <1>5, <1>6 DEF Inv

LEMMA TickInv ==
    ASSUME Inv, Tick
    PROVE  Inv'
<1> USE DelayAssumption DEF Inv, Tick, tables, worker, caller
<1>1. Typed'
    BY DEF Typed
<1>2. Placed'
    BY DEF Typed, Placed, Queued, Stopped
<1>3. Stopped'
    BY DEF Stopped
<1>4. Adding'
    BY DEF Typed, Adding
<1>5. Keys'
    BY DEF Typed, Placed, Queued, Keys, IsOdd
<1>6. Timely'
    BY DEF Typed, Placed, Queued, Adding, Timely, NeverEarly
<1> QED
    BY <1>1, <1>2, <1>3, <1>4, <1>5, <1>6

LEMMA ReadClockInv ==
    ASSUME Inv, NEW c \in Caller, NEW k \in Token, ReadClock(c, k)
    PROVE  Inv'
<1> USE DelayAssumption DEF Inv, ReadClock, Unused, tables, worker, caller
<1>a. Delay[k] \in Nat /\ now + Delay[k] \in Nat
    BY DelayIsNat DEF Typed
<1>1. Typed'
    <2>1. now' \in Nat /\ seqID' \in Nat /\ stopRequested' \in BOOLEAN
        BY DEF Typed
    <2>2. id' \in [Token -> Nat]
        BY DEF Typed
    <2>3. expireAt' \in [Token -> Nat]
        BY <1>a DEF Typed
    <2>4. timers' \subseteq Token /\ waiters' \subseteq Token /\ cancelledTimerArgs' \subseteq Token
         /\ timeoutArgs' \subseteq Token /\ cancelledArgs' \subseteq Token
        BY DEF Typed
    <2>5. wpc' \in {"run", "sleep", "drain", "done"}
        BY DEF Typed
    <2>6. cpc' \in [Caller -> {"idle", "add", "notify"}]
        BY DEF Typed
    <2>7. ctok' \in [Caller -> Token \cup {Never}]
        BY DEF Typed
    <2>8. answer' \in [Token -> {<<>>, <<"AM_TIMEOUT">>, <<"AM_CANCEL">>}]
        BY DEF Typed
    <2> QED
        BY <2>1, <2>2, <2>3, <2>4, <2>5, <2>6, <2>7, <2>8 DEF Typed
<1>2. Placed'
    BY DEF Typed, Placed, Queued, Stopped
<1>3. Stopped'
    BY DEF Stopped
<1>4. Adding'
    BY DEF Typed, Adding
<1>5. Keys'
    BY DEF Typed, Placed, Queued, Keys, IsOdd
<1>6. Timely'
    <2>1. \A j \in timers \cup timeoutArgs : id[j] # 0 /\ j # k
        BY DEF Typed, Placed, Queued
    <2>2. \A j \in Token : j # k => expireAt'[j] = expireAt[j]
        BY DEF Typed
    <2>3. answer[k] = <<>>
        BY DEF Placed
    <2>4. \A e \in Caller : ctok'[e] \in Token => Delay[ctok'[e]] > 0
        BY DEF Typed, Timely
    <2>5. NeverEarly'
        BY <2>2, <2>3 DEF NeverEarly, Timely
    <2> QED
        BY <2>1, <2>2, <2>4, <2>5 DEF Typed, Timely
<1> QED
    BY <1>1, <1>2, <1>3, <1>4, <1>5, <1>6

LEMMA AddTimerInv ==
    ASSUME Inv, NEW c \in Caller, AddTimer(c)
    PROVE  Inv'
<1> USE DelayAssumption DEF Inv, AddTimer, tables, worker, caller
<1> DEFINE t == ctok[c]
<1>a. t \in Token /\ id[t] = 0 /\ t \notin refused /\ Delay[t] > 0
    BY DEF Typed, Adding, Timely
<1>b. NextTimerID \in Nat /\ NextTimerID > seqID /\ NextTimerID % 2 = 1
    BY NextIDs DEF Typed
<1>1. Typed'
    <2>1. now' \in Nat /\ seqID' \in Nat /\ stopRequested' \in BOOLEAN
        BY <1>a, <1>b DEF Typed
    <2>2. id' \in [Token -> Nat]
        BY <1>a, <1>b DEF Typed
    <2>3. expireAt' \in [Token -> Nat]
        BY <1>a, <1>b DEF Typed
    <2>4. timers' \subseteq Token /\ waiters' \subseteq Token /\ cancelledTimerArgs' \subseteq Token
         /\ timeoutArgs' \subseteq Token /\ cancelledArgs' \subseteq Token
        BY <1>a, <1>b DEF Typed
    <2>5. wpc' \in {"run", "sleep", "drain", "done"}
        BY <1>a, <1>b DEF Typed
    <2>6. cpc' \in [Caller -> {"idle", "add", "notify"}]
        BY <1>a, <1>b DEF Typed
    <2>7. ctok' \in [Caller -> Token \cup {Never}]
        BY <1>a, <1>b DEF Typed
    <2>8. answer' \in [Token -> {<<>>, <<"AM_TIMEOUT">>, <<"AM_CANCEL">>}]
        BY <1>a, <1>b DEF Typed
    <2> QED
        BY <2>1, <2>2, <2>3, <2>4, <2>5, <2>6, <2>7, <2>8 DEF Typed
<1>2. Placed'
    <2>1. CASE stopRequested
        BY <2>1, <1>a, <1>b DEF Typed, Placed, Queued
    <2>2. CASE ~stopRequested
        <3>1. id' = [id EXCEPT ![t] = NextTimerID] /\ timers' = timers \cup {t}
            BY <2>2, <1>a, <1>b
        <3>2. id'[t] # 0 /\ answer[t] = <<>> /\ t \notin Queued \cup cancelTrue \cup refused
            BY <3>1, <1>a, <1>b DEF Typed, Placed
        <3>3. \A j \in Token : j # t => id'[j] = id[j]
            BY <3>1 DEF Typed
        <3>4. UNCHANGED <<waiters, cancelledTimerArgs, timeoutArgs, cancelledArgs, drained,
                         answer, cancelTrue, refused>>
            BY <2>2
        <3> HIDE DEF AddTimer
        <3> QED
            BY <3>1, <3>2, <3>3, <3>4 DEF Placed, Queued
    <2> QED
        BY <2>1, <2>2
<1>3. Stopped'
    BY <1>a, <1>b DEF Stopped
<1>4. Adding'
    BY <1>a, <1>b DEF Typed, Adding
<1>5. Keys'
    <2>1. CASE stopRequested
        BY <2>1, <1>a, <1>b DEF Typed, Keys, IsOdd
    <2>2. CASE ~stopRequested
        <3>1. /\ id' = [id EXCEPT ![t] = NextTimerID] /\ timers' = timers \cup {t}
              /\ seqID' = NextTimerID /\ waiters' = waiters
            BY <2>2, <1>a, <1>b
        <3>2. t \notin timers \cup waiters
            BY <1>a, <1>b DEF Placed, Queued
        <3>3. id'[t] = NextTimerID /\ \A j \in Token : j # t => id'[j] = id[j]
            BY <3>1, <1>a, <1>b DEF Typed
        <3>0. seqID \in Nat /\ \A j \in Token : id[j] \in Nat /\ id[j] <= seqID
            BY DEF Typed, Keys
        <3>4. \A j \in Token : id[j] \in Nat /\ id[j] < NextTimerID
            BY <1>b, <3>0
        <3> HIDE DEF AddTimer
        <3>5. \A j \in Token : id'[j] <= seqID'
            BY <3>1, <3>3, <3>4, <1>b
        <3>6. \A j, l \in Token : id'[j] # 0 /\ id'[j] = id'[l] => j = l
            BY <3>3, <3>4, <1>b DEF Keys
        <3>7. \A j \in timers' : IsOdd(id'[j])
            BY <3>1, <3>2, <3>3, <1>b DEF Keys, IsOdd, Typed
        <3>8. \A j \in waiters' : ~IsOdd(id'[j])
            BY <3>1, <3>2, <3>3, <1>b DEF Keys, IsOdd, Typed
        <3> QED
            BY <3>5, <3>6, <3>7, <3>8 DEF Keys
    <2> QED
        BY <2>1, <2>2
<1>6. Timely'
    BY <1>a, <1>b DEF Typed, Placed, Queued, Adding, Timely, NeverEarly
<1> QED
    BY <1>1, <1>2, <1>3, <1>4, <1>5, <1>6

LEMMA AddWaiterInv ==
    ASSUME Inv, NEW c \in Caller, NEW k \in Token, AddWaiter(c, k)
    PROVE  Inv'
<1> USE DelayAssumption DEF Inv, AddWaiter, Unused, tables, worker, caller
<1>b. NextWaiterID \in Nat /\ NextWaiterID > seqID /\ NextWaiterID % 2 # 1
    BY NextIDs DEF Typed
<1>1. Typed'
    <2>1. now' \in Nat /\ seqID' \in Nat /\ stopRequested' \in BOOLEAN
        BY <1>b DEF Typed
    <2>2. id' \in [Token -> Nat]
        BY <1>b DEF Typed
    <2>3. expireAt' \in [Token -> Nat]
        BY <1>b DEF Typed
    <2>4. timers' \subseteq Token /\ waiters' \subseteq Token /\ cancelledTimerArgs' \subseteq Token
         /\ timeoutArgs' \subseteq Token /\ cancelledArgs' \subseteq Token
        BY <1>b DEF Typed
    <2>5. wpc' \in {"run", "sleep", "drain", "done"}
        BY <1>b DEF Typed
    <2>6. cpc' \in [Caller -> {"idle", "add", "notify"}]
        BY <1>b DEF Typed
    <2>7. ctok' \in [Caller -> Token \cup {Never}]
        BY <1>b DEF Typed
    <2>8. answer' \in [Token -> {<<>>, <<"AM_TIMEOUT">>, <<"AM_CANCEL">>}]
        BY <1>b DEF Typed
    <2> QED
        BY <2>1, <2>2, <2>3, <2>4, <2>5, <2>6, <2>7, <2>8 DEF Typed
<1>2. Placed'
    <2>1. CASE stopRequested
        BY <2>1, <1>b DEF Typed, Placed, Queued
    <2>2. CASE ~stopRequested
        <3>1. id' = [id EXCEPT ![k] = NextWaiterID] /\ waiters' = waiters \cup {k}
            BY <2>2, <1>b
        <3>2. id'[k] # 0 /\ answer[k] = <<>> /\ k \notin Queued \cup cancelTrue \cup refused
            BY <3>1, <1>b DEF Typed, Placed
        <3>3. \A j \in Token : j # k => id'[j] = id[j]
            BY <3>1 DEF Typed
        <3>4. UNCHANGED <<timers, cancelledTimerArgs, timeoutArgs, cancelledArgs, drained,
                         answer, cancelTrue, refused>>
            BY <2>2
        <3> HIDE DEF AddWaiter
        <3> QED
            BY <3>1, <3>2, <3>3, <3>4 DEF Placed, Queued
    <2> QED
        BY <2>1, <2>2
<1>3. Stopped'
    BY <1>b DEF Stopped
<1>4. Adding'
    BY <1>b DEF Typed, Adding
<1>5. Keys'
    <2>1. CASE stopRequested
        BY <2>1, <1>b DEF Typed, Keys, IsOdd
    <2>2. CASE ~stopRequested
        <3>1. /\ id' = [id EXCEPT ![k] = NextWaiterID] /\ waiters' = waiters \cup {k}
              /\ seqID' = NextWaiterID /\ timers' = timers
            BY <2>2, <1>b
        <3>2. k \notin timers \cup waiters
            BY <1>b DEF Placed, Queued
        <3>3. id'[k] = NextWaiterID /\ \A j \in Token : j # k => id'[j] = id[j]
            BY <3>1, <1>b DEF Typed
        <3>0. seqID \in Nat /\ \A j \in Token : id[j] \in Nat /\ id[j] <= seqID
            BY DEF Typed, Keys
        <3>4. \A j \in Token : id[j] \in Nat /\ id[j] < NextWaiterID
            BY <1>b, <3>0
        <3> HIDE DEF AddWaiter
        <3>5. \A j \in Token : id'[j] <= seqID'
            BY <3>1, <3>3, <3>4, <1>b
        <3>6. \A j, l \in Token : id'[j] # 0 /\ id'[j] = id'[l] => j = l
            BY <3>3, <3>4, <1>b DEF Keys
        <3>7. \A j \in timers' : IsOdd(id'[j])
            BY <3>1, <3>2, <3>3, <1>b DEF Keys, IsOdd, Typed
        <3>8. \A j \in waiters' : ~IsOdd(id'[j])
            BY <3>1, <3>2, <3>3, <1>b DEF Keys, IsOdd, Typed
        <3> QED
            BY <3>5, <3>6, <3>7, <3>8 DEF Keys
    <2> QED
        BY <2>1, <2>2
<1>6. Timely'
    BY <1>b DEF Typed, Placed, Queued, Adding, Timely, NeverEarly
<1> QED
    BY <1>1, <1>2, <1>3, <1>4, <1>5, <1>6

LEMMA CancelInv ==
    ASSUME Inv, NEW c \in Caller, NEW j \in Token, id[j] # 0, Cancel(c, id[j])
    PROVE  Inv'
<1> USE DelayAssumption DEF Inv, Cancel, MayCancel, Found, tables, worker, caller
<1>1. Typed'
    BY DEF Typed
<1>2. Placed'
    BY DEF Typed, Placed, Queued, Stopped
<1>3. Stopped'
    BY DEF Stopped
<1>4. Adding'
    BY DEF Typed, Adding
<1>5. Keys'
    BY DEF Typed, Placed, Queued, Keys, IsOdd
<1>6. Timely'
    BY DEF Typed, Placed, Queued, Adding, Timely, NeverEarly
<1> QED
    BY <1>1, <1>2, <1>3, <1>4, <1>5, <1>6

LEMMA NotifyInv ==
    ASSUME Inv, NEW c \in Caller, Notify(c)
    PROVE  Inv'
<1> USE DelayAssumption DEF Inv, Notify, tables, worker, caller
<1>1. Typed'
    BY DEF Typed
<1>2. Placed'
    BY DEF Typed, Placed, Queued, Stopped
<1>3. Stopped'
    BY DEF Stopped
<1>4. Adding'
    BY DEF Typed, Adding
<1>5. Keys'
    BY DEF Typed, Placed, Queued, Keys, IsOdd
<1>6. Timely'
    BY DEF Typed, Placed, Queued, Adding, Timely, NeverEarly
<1> QED
    BY <1>1, <1>2, <1>3, <1>4, <1>5, <1>6

LEMMA RequestStopInv ==
    ASSUME Inv, RequestStop
    PROVE  Inv'
<1> USE DelayAssumption DEF Inv, RequestStop, tables, worker, caller
<1>1. Typed'
    BY DEF Typed
<1>2. Placed'
    BY DEF Typed, Placed, Queued, Stopped
<1>3. Stopped'
    BY DEF Stopped
<1>4. Adding'
    BY DEF Typed, Adding
<1>5. Keys'
    BY DEF Typed, Placed, Queued, Keys, IsOdd
<1>6. Timely'
    BY DEF Typed, Placed, Queued, Adding, Timely, NeverEarly
<1> QED
    BY <1>1, <1>2, <1>3, <1>4, <1>5, <1>6

LEMMA NotifyStopInv ==
    ASSUME Inv, NotifyStop
    PROVE  Inv'
<1> USE DelayAssumption DEF Inv, NotifyStop, tables, worker, caller
<1>1. Typed'
    BY DEF Typed
<1>2. Placed'
    BY DEF Typed, Placed, Queued, Stopped
<1>3. Stopped'
    BY DEF Stopped
<1>4. Adding'
    BY DEF Typed, Adding
<1>5. Keys'
    BY DEF Typed, Placed, Queued, Keys, IsOdd
<1>6. Timely'
    BY DEF Typed, Placed, Queued, Adding, Timely, NeverEarly
<1> QED
    BY <1>1, <1>2, <1>3, <1>4, <1>5, <1>6

LEMMA WaitInv ==
    ASSUME Inv, NEW d, wpc \in {"run", "sleep"}, timeoutArgs = {}, cancelledArgs = {}, WaitOrCollect(d)
    PROVE  Inv'
<1> USE DelayAssumption DEF Inv, WaitOrCollect, Due, SwappedOut, tables, worker, caller
<1>1. Typed'
    BY DEF Typed
<1>2. Placed'
    BY DEF Typed, Placed, Queued, Stopped
<1>3. Stopped'
    BY DEF Stopped
<1>4. Adding'
    BY DEF Typed, Adding
<1>5. Keys'
    BY DEF Typed, Placed, Queued, Keys, IsOdd
<1>6. Timely'
    BY DEF Typed, Placed, Queued, Adding, Timely, NeverEarly
<1> QED
    BY <1>1, <1>2, <1>3, <1>4, <1>5, <1>6

LEMMA FireTimeoutInv ==
    ASSUME Inv, NEW k \in Token, FireTimeout(k)
    PROVE  Inv'
<1> USE DelayAssumption DEF Inv, FireTimeout, Post, tables, worker, caller
<1>a. answer[k] = <<>>
    BY DEF Placed, Queued, Stopped
<1>b. answer' = [answer EXCEPT ![k] = <<"AM_TIMEOUT">>]
    BY <1>a DEF Typed
<1>1. Typed'
    <2>1. now' \in Nat /\ seqID' \in Nat /\ stopRequested' \in BOOLEAN
        BY <1>b DEF Typed
    <2>2. id' \in [Token -> Nat]
        BY <1>b DEF Typed
    <2>3. expireAt' \in [Token -> Nat]
        BY <1>b DEF Typed
    <2>4. timers' \subseteq Token /\ waiters' \subseteq Token /\ cancelledTimerArgs' \subseteq Token
         /\ timeoutArgs' \subseteq Token /\ cancelledArgs' \subseteq Token
        BY <1>b DEF Typed
    <2>5. wpc' \in {"run", "sleep", "drain", "done"}
        BY <1>b DEF Typed
    <2>6. cpc' \in [Caller -> {"idle", "add", "notify"}]
        BY <1>b DEF Typed
    <2>7. ctok' \in [Caller -> Token \cup {Never}]
        BY <1>b DEF Typed
    <2>8. answer' \in [Token -> {<<>>, <<"AM_TIMEOUT">>, <<"AM_CANCEL">>}]
        BY <1>b DEF Typed
    <2> QED
        BY <2>1, <2>2, <2>3, <2>4, <2>5, <2>6, <2>7, <2>8 DEF Typed
<1>2. Placed'
    BY <1>b DEF Typed, Placed, Queued, Stopped
<1>3. Stopped'
    BY <1>b DEF Stopped
<1>4. Adding'
    BY <1>b DEF Typed, Adding
<1>5. Keys'
    BY <1>b DEF Typed, Placed, Queued, Keys, IsOdd
<1>6. Timely'
    <2>1. Delay[k] > 0 /\ expireAt[k] <= now
        BY DEF Timely
    <2>2. \A j \in Token : j # k => answer'[j] = answer[j]
        BY <1>b DEF Typed
    <2>3. NeverEarly'
        BY <2>1, <2>2 DEF NeverEarly, Timely
    <2> QED
        BY <2>3 DEF Typed, Timely
<1> QED
    BY <1>1, <1>2, <1>3, <1>4, <1>5, <1>6

LEMMA FireCancelInv ==
    ASSUME Inv, NEW k \in Token, FireCancel(k)
    PROVE  Inv'
<1> USE DelayAssumption DEF Inv, FireCancel, Post, tables, worker, caller
<1>a. answer[k] = <<>>
    BY DEF Placed, Queued, Stopped
<1>b. answer' = [answer EXCEPT ![k] = <<"AM_CANCEL">>]
    BY <1>a DEF Typed
<1>1. Typed'
    <2>1. now' \in Nat /\ seqID' \in Nat /\ stopRequested' \in BOOLEAN
        BY <1>b DEF Typed
    <2>2. id' \in [Token -> Nat]
        BY <1>b DEF Typed
    <2>3. expireAt' \in [Token -> Nat]
        BY <1>b DEF Typed
    <2>4. timers' \subseteq Token /\ waiters' \subseteq Token /\ cancelledTimerArgs' \subseteq Token
         /\ timeoutArgs' \subseteq Token /\ cancelledArgs' \subseteq Token
        BY <1>b DEF Typed
    <2>5. wpc' \in {"run", "sleep", "drain", "done"}
        BY <1>b DEF Typed
    <2>6. cpc' \in [Caller -> {"idle", "add", "notify"}]
        BY <1>b DEF Typed
    <2>7. ctok' \in [Caller -> Token \cup {Never}]
        BY <1>b DEF Typed
    <2>8. answer' \in [Token -> {<<>>, <<"AM_TIMEOUT">>, <<"AM_CANCEL">>}]
        BY <1>b DEF Typed
    <2> QED
        BY <2>1, <2>2, <2>3, <2>4, <2>5, <2>6, <2>7, <2>8 DEF Typed
<1>2. Placed'
    BY <1>b DEF Typed, Placed, Queued, Stopped
<1>3. Stopped'
    BY <1>b DEF Stopped
<1>4. Adding'
    BY <1>b DEF Typed, Adding
<1>5. Keys'
    BY <1>b DEF Typed, Placed, Queued, Keys, IsOdd
<1>6. Timely'
    <2>0. answer'[k] = <<"AM_CANCEL">>
        BY <1>b DEF Typed
    <2>1. answer'[k] # <<"AM_TIMEOUT">>
        BY <2>0, OtherAnswer
    <2>2. \A j \in Token : j # k => answer'[j] = answer[j]
        BY <1>b DEF Typed
    <2>3. NeverEarly'
        BY <2>1, <2>2 DEF NeverEarly, Timely
    <2> QED
        BY <2>3 DEF Typed, Timely
<1> QED
    BY <1>1, <1>2, <1>3, <1>4, <1>5, <1>6

LEMMA DrainInv ==
    ASSUME Inv, NEW k \in Token, Drain(k)
    PROVE  Inv'
<1> USE DelayAssumption DEF Inv, Drain, Post, tables, worker, caller
<1>a. answer[k] = <<>>
    BY DEF Placed, Queued, Stopped
<1>b. answer' = [answer EXCEPT ![k] = <<"AM_CANCEL">>]
    BY <1>a DEF Typed
<1>1. Typed'
    <2>1. now' \in Nat /\ seqID' \in Nat /\ stopRequested' \in BOOLEAN
        BY <1>b DEF Typed
    <2>2. id' \in [Token -> Nat]
        BY <1>b DEF Typed
    <2>3. expireAt' \in [Token -> Nat]
        BY <1>b DEF Typed
    <2>4. timers' \subseteq Token /\ waiters' \subseteq Token /\ cancelledTimerArgs' \subseteq Token
         /\ timeoutArgs' \subseteq Token /\ cancelledArgs' \subseteq Token
        BY <1>b DEF Typed
    <2>5. wpc' \in {"run", "sleep", "drain", "done"}
        BY <1>b DEF Typed
    <2>6. cpc' \in [Caller -> {"idle", "add", "notify"}]
        BY <1>b DEF Typed
    <2>7. ctok' \in [Caller -> Token \cup {Never}]
        BY <1>b DEF Typed
    <2>8. answer' \in [Token -> {<<>>, <<"AM_TIMEOUT">>, <<"AM_CANCEL">>}]
        BY <1>b DEF Typed
    <2> QED
        BY <2>1, <2>2, <2>3, <2>4, <2>5, <2>6, <2>7, <2>8 DEF Typed
<1>2. Placed'
    BY <1>b DEF Typed, Placed, Queued, Stopped
<1>3. Stopped'
    BY <1>b DEF Stopped
<1>4. Adding'
    BY <1>b DEF Typed, Adding
<1>5. Keys'
    BY <1>b DEF Typed, Placed, Queued, Keys, IsOdd
<1>6. Timely'
    <2>0. answer'[k] = <<"AM_CANCEL">>
        BY <1>b DEF Typed
    <2>1. answer'[k] # <<"AM_TIMEOUT">>
        BY <2>0, OtherAnswer
    <2>2. \A j \in Token : j # k => answer'[j] = answer[j]
        BY <1>b DEF Typed
    <2>3. NeverEarly'
        BY <2>1, <2>2 DEF NeverEarly, Timely
    <2> QED
        BY <2>3 DEF Typed, Timely
<1> QED
    BY <1>1, <1>2, <1>3, <1>4, <1>5, <1>6

LEMMA ExitInv ==
    ASSUME Inv, Exit
    PROVE  Inv'
<1> USE DelayAssumption DEF Inv, Exit, tables, worker, caller
<1>1. Typed'
    BY DEF Typed
<1>2. Placed'
    BY DEF Typed, Placed, Queued, Stopped
<1>3. Stopped'
    BY DEF Stopped
<1>4. Adding'
    BY DEF Typed, Adding
<1>5. Keys'
    BY DEF Typed, Placed, Queued, Keys, IsOdd
<1>6. Timely'
    BY DEF Typed, Placed, Queued, Adding, Timely, NeverEarly
<1> QED
    BY <1>1, <1>2, <1>3, <1>4, <1>5, <1>6

LEMMA NextInv == Inv /\ [Next]_vars => Inv'
<1> SUFFICES ASSUME Inv, [Next]_vars PROVE Inv'
    OBVIOUS
<1>1. CASE Tick
    BY <1>1, TickInv
<1>2. CASE Worker
    <2>1. CASE LoopTop
        BY <2>1, WaitInv DEF LoopTop
    <2>2. CASE WakeUp
        BY <2>2, WaitInv DEF WakeUp, WokenUp, Inv, Stopped
    <2>3. CASE Exit
        BY <2>3, ExitInv
    <2>4. CASE \E k \in Token : FireTimeout(k) \/ FireCancel(k) \/ Drain(k)
        BY <2>4, FireTimeoutInv, FireCancelInv, DrainInv
    <2> QED
        BY <1>2, <2>1, <2>2, <2>3, <2>4 DEF Worker
<1>3. CASE Spurious
    BY <1>3, WaitInv DEF Spurious, Inv, Stopped
<1>4. CASE \E c \in Caller : Thread(c)
    BY <1>4, AddTimerInv, NotifyInv, ReadClockInv, AddWaiterInv, CancelInv DEF Thread
<1>5. CASE RequestStop
    BY <1>5, RequestStopInv
<1>6. CASE NotifyStop
    BY <1>6, NotifyStopInv
<1>7. CASE UNCHANGED vars
    BY <1>7 DEF vars, tables, worker, caller, Inv, Typed, Placed, Queued, Stopped,
                Adding, Keys, IsOdd, Timely, NeverEarly
<1> QED
    BY <1>1, <1>2, <1>3, <1>4, <1>5, <1>6, <1>7 DEF Next

\* The bookkeeping of the timer service (delaydriver.cpp:15-273): keys are distinct and of the parity of their table, a
\* batch holds only timers that have expired, and after the stop nothing is added.
THEOREM Invariance == Spec => []Inv
<1> QED
    BY InitInv, NextInv, PTL DEF Spec

-----------------------------------------------------------------------------
\* No timer is answered before its time, for any delays and any interleaving.
THEOREM Punctual == Spec => []NeverEarly
<1>1. Inv => NeverEarly
    BY DEF Inv, Timely
<1> QED
    BY <1>1, Invariance, PTL

LEMMA FoundIsOwn == Inv => KeyFindsOwnWait
<1> SUFFICES ASSUME Inv, NEW k \in timers \cup waiters
             PROVE  Found(id[k]) = {k}
    BY DEF KeyFindsOwnWait
<1>1. k \in Token /\ id[k] # 0
    BY DEF Inv, Typed, Placed, Queued
<1>2. \A j \in Token : id[j] = id[k] => j = k
    BY <1>1 DEF Inv, Keys
<1>3. CASE k \in timers
    <2>1. IsOdd(id[k])
        BY <1>3 DEF Inv, Keys
    <2>2. Found(id[k]) = {j \in timers : id[j] = id[k]}
        BY <2>1 DEF Found
    <2> QED
        BY <1>2, <1>3, <2>2 DEF Inv, Typed
<1>4. CASE k \in waiters
    <2>1. ~IsOdd(id[k])
        BY <1>4 DEF Inv, Keys
    <2>2. Found(id[k]) = {j \in waiters : id[j] = id[k]}
        BY <2>1 DEF Found
    <2> QED
        BY <1>2, <1>4, <2>2 DEF Inv, Typed
<1> QED
    BY <1>3, <1>4

\* The key add() returned cancels its own wait and no other.
THEOREM KeysAreSafe == Spec => []KeyFindsOwnWait
<1> QED
    BY Invariance, FoundIsOwn, PTL

\* Nobody touches the containers the worker drains without the mutex.
THEOREM DrainIsAlone == Spec => DrainUnshared
<1>1. Inv /\ [Next]_vars => [wpc = "drain" => UNCHANGED <<timers, cancelledTimerArgs>>]_vars
    <2> SUFFICES ASSUME Inv, Next, wpc = "drain"
                 PROVE  UNCHANGED <<timers, cancelledTimerArgs>>
        OBVIOUS
    <2> USE DEF tables, worker, caller
    <2>1. stopRequested
        BY DEF Inv, Stopped
    <2>2. CASE Tick \/ RequestStop \/ NotifyStop
        BY <2>2 DEF Tick, RequestStop, NotifyStop
    <2>3. CASE Worker \/ Spurious
        BY <2>3 DEF Worker, Spurious, LoopTop, WakeUp, WokenUp, Exit, FireTimeout,
                    FireCancel, Drain
    <2>4. ASSUME NEW c \in Caller, Thread(c)
          PROVE  UNCHANGED <<timers, cancelledTimerArgs>>
        BY <2>1, <2>4 DEF Thread, AddTimer, Notify, ReadClock, AddWaiter, Cancel, MayCancel
    <2> QED
        BY <2>2, <2>3, <2>4 DEF Next
<1> QED
    BY <1>1, Invariance, PTL DEF Spec, DrainUnshared

-----------------------------------------------------------------------------
(* The refinement: one step of WaitToken per AddTimer, AddWaiter, Cancel,   *)
(* RequestStop and post; every other step changes nothing of it.            *)

\* The mapping of state, as in the instance Promise.
State(k) == IF k \in refused THEN "refused"
            ELSE IF id[k] = 0 THEN "new"
            ELSE IF k \in cancelTrue THEN "cancelled" ELSE "waiting"

LEMMA AddRefines ==
    ASSUME Inv, Inv', NEW k \in Token, id[k] = 0, k \notin refused,
           UNCHANGED <<stopRequested, answer, cancelTrue>>,
           \/ stopRequested /\ refused' = refused \cup {k} /\ UNCHANGED id
           \/ ~stopRequested /\ UNCHANGED refused
                /\ \E n \in Nat \ {0} : id' = [id EXCEPT ![k] = n]
    PROVE  Promise!Add(k)
<1>1. k \notin cancelTrue
    BY DEF Inv, Placed
<1>2. State(k) = "new"
    BY DEF State
<1>3. State(k)' = IF stopRequested THEN "refused" ELSE "waiting"
    BY <1>1 DEF State, Inv, Typed
<1>4. \A j \in Token : j # k => State(j)' = State(j)
    BY DEF State, Inv, Typed
<1>5. [j \in Token |-> State(j)]' =
          [[j \in Token |-> State(j)] EXCEPT ![k] = IF stopRequested THEN "refused" ELSE "waiting"]
    BY <1>3, <1>4
<1> QED
    BY <1>2, <1>5 DEF Promise!Add, State

LEMMA CancelRefines ==
    ASSUME Inv, NEW c \in Caller, NEW k \in Token, id[k] # 0, Cancel(c, id[k])
    PROVE  Promise!AcceptCancel(k)
<1>1. k \in timers \cup waiters /\ Found(id[k]) = {k}
    <2>1. PICK j \in Found(id[k]) : TRUE
        BY DEF Cancel
    <2>2. j \in Token /\ j \in timers \cup waiters /\ id[j] = id[k]
        BY <2>1 DEF Found, Inv, Typed
    <2>3. j = k
        BY <2>2 DEF Inv, Keys
    <2> QED
        BY <2>2, <2>3, FoundIsOwn DEF KeyFindsOwnWait
<1>2. ~stopRequested /\ cancelTrue' = cancelTrue \cup {k}
      /\ UNCHANGED <<id, refused, answer, stopRequested>>
    BY <1>1 DEF Cancel, MayCancel, worker
<1>3. drained = {}
    BY <1>2 DEF Inv, Stopped, Typed
<1>4. k \notin refused /\ k \notin cancelTrue /\ answer[k] = <<>>
    BY <1>1, <1>3 DEF Inv, Placed, Queued
<1>5. State(k) = "waiting" /\ State(k)' = "cancelled"
    BY <1>2, <1>4 DEF State
<1>6. \A j \in Token : j # k => State(j)' = State(j)
    BY <1>2 DEF State
<1>7. [j \in Token |-> State(j)]' = [[j \in Token |-> State(j)] EXCEPT ![k] = "cancelled"]
    BY <1>5, <1>6
<1> QED
    BY <1>2, <1>4, <1>5, <1>7 DEF Promise!AcceptCancel, State

LEMMA PostRefines ==
    ASSUME Inv, NEW k \in Token, NEW what \in {"AM_TIMEOUT", "AM_CANCEL"},
           k \in Queued, k \notin drained, Post(k, what),
           UNCHANGED <<stopRequested, id, refused, cancelTrue>>,
           \/ what = "AM_TIMEOUT" /\ k \in timeoutArgs
           \/ what = "AM_CANCEL" /\ k \in cancelledTimerArgs \cup cancelledArgs
           \/ what = "AM_CANCEL" /\ k \in timers /\ stopRequested
    PROVE  Promise!Answer(k, what)
<1>1. answer[k] = <<>> /\ id[k] # 0 /\ k \notin refused
    BY DEF Inv, Placed
<1>2. answer' = [answer EXCEPT ![k] = <<what>>]
    BY <1>1 DEF Post, Inv, Typed
<1>3. \/ what = "AM_TIMEOUT" /\ k \notin cancelTrue
      \/ what = "AM_CANCEL" /\ k \in cancelTrue
      \/ what = "AM_CANCEL" /\ k \notin cancelTrue /\ stopRequested
    BY DEF Inv, Placed
<1>4. \/ what = "AM_TIMEOUT" /\ State(k) = "waiting"
      \/ what = "AM_CANCEL" /\ State(k) = "cancelled"
      \/ what = "AM_CANCEL" /\ State(k) = "waiting" /\ stopRequested
    BY <1>1, <1>3 DEF State
<1>5. UNCHANGED [j \in Token |-> State(j)]
    BY DEF State
<1> QED
    BY <1>1, <1>2, <1>4, <1>5 DEF Promise!Answer, State

LEMMA StepRefines == Inv /\ Inv' /\ [Next]_vars => [Promise!Next]_(Promise!vars)
<1> SUFFICES ASSUME Inv, Inv', [Next]_vars
             PROVE  Promise!Next \/ UNCHANGED Promise!vars
    OBVIOUS
<1>0. ASSUME UNCHANGED <<id, refused, cancelTrue, stopRequested, answer>>
      PROVE  UNCHANGED Promise!vars
    BY <1>0 DEF Promise!vars
<1>1. CASE Tick \/ NotifyStop \/ Spurious \/ LoopTop \/ WakeUp \/ Exit \/ UNCHANGED vars
    BY <1>0, <1>1 DEF Tick, NotifyStop, Spurious, LoopTop, WakeUp, WaitOrCollect, Exit,
                      tables, worker, caller, vars
<1>2. CASE RequestStop
    BY <1>2 DEF RequestStop, Promise!Next, Promise!Stop, tables, worker, caller
<1>3. ASSUME NEW k \in Token, FireTimeout(k)
      PROVE  Promise!Next
    <2>1. Promise!Answer(k, "AM_TIMEOUT")
        BY <1>3, PostRefines DEF FireTimeout, Queued, Inv, Stopped, tables, caller
    <2> QED
        BY <2>1 DEF Promise!Next
<1>4. ASSUME NEW k \in Token, FireCancel(k)
      PROVE  Promise!Next
    <2>1. Promise!Answer(k, "AM_CANCEL")
        BY <1>4, PostRefines DEF FireCancel, Queued, Inv, Stopped, tables, caller
    <2> QED
        BY <2>1 DEF Promise!Next
<1>5. ASSUME NEW k \in Token, Drain(k)
      PROVE  Promise!Next
    <2>1. Promise!Answer(k, "AM_CANCEL")
        BY <1>5, PostRefines DEF Drain, Queued, Inv, Stopped, tables, caller
    <2> QED
        BY <2>1 DEF Promise!Next
<1>6. ASSUME NEW c \in Caller, Thread(c)
      PROVE  Promise!Next \/ UNCHANGED Promise!vars
    <2>1. CASE AddTimer(c)
        <3>1. PICK t \in Token : t = ctok[c] /\ id[t] = 0 /\ t \notin refused
            BY <2>1 DEF AddTimer, Inv, Typed, Adding
        <3>2. NextTimerID \in Nat \ {0}
            BY NextIDs DEF Inv, Typed
        <3>3. /\ UNCHANGED <<stopRequested, answer, cancelTrue>>
              /\ \/ stopRequested /\ refused' = refused \cup {t} /\ UNCHANGED id
                 \/ ~stopRequested /\ UNCHANGED refused
                      /\ id' = [id EXCEPT ![t] = NextTimerID]
            BY <2>1, <3>1 DEF AddTimer, worker
        <3>4. Promise!Add(t)
            BY <3>1, <3>2, <3>3, AddRefines
        <3> QED
            BY <3>4 DEF Promise!Next
    <2>2. CASE Notify(c)
        BY <1>0, <2>2 DEF Notify, tables, worker
    <2>3. ASSUME NEW k \in Token, ReadClock(c, k)
          PROVE  UNCHANGED Promise!vars
        BY <1>0, <2>3 DEF ReadClock, worker
    <2>4. ASSUME NEW k \in Token, AddWaiter(c, k)
          PROVE  Promise!Next
        <3>1. id[k] = 0 /\ k \notin refused
            BY <2>4 DEF AddWaiter, Unused
        <3>2. NextWaiterID \in Nat \ {0}
            BY NextIDs DEF Inv, Typed
        <3>3. Promise!Add(k)
            BY <2>4, <3>1, <3>2, AddRefines DEF AddWaiter, worker
        <3> QED
            BY <3>3 DEF Promise!Next
    <2>5. ASSUME NEW k \in Token, id[k] # 0, Cancel(c, id[k])
          PROVE  Promise!Next
        BY <2>5, CancelRefines DEF Promise!Next
    <2> QED
        BY <1>6, <2>1, <2>2, <2>3, <2>4, <2>5 DEF Thread
<1> QED
    BY <1>1, <1>2, <1>3, <1>4, <1>5, <1>6 DEF Next, Worker

\* The timer service implements its promise, whatever the callers, the clock
\* and the stop do.
THEOREM Refinement == Spec => ImplementsWaitToken
<1>1. Init => Promise!Init
    BY DEF Init, Promise!Init
<1> QED
    BY <1>1, Invariance, StepRefines, PTL DEF Spec, ImplementsWaitToken, Promise!Spec

-----------------------------------------------------------------------------
(* The types, of the variables that Inv says nothing about too.             *)

LEMMA NatMinBy ==
    ASSUME NEW T, T \subseteq Nat, T # {}, NEW R, IsWellFoundedOn(R, Nat),
           \A x, y \in Nat : x < y => <<x, y>> \in R
    PROVE  \E x \in T : \A y \in T : x <= y
<1>1. \E x \in T : \A y \in T : ~ (<<y, x>> \in R)
    BY ONLY WFMin, IsWellFoundedOn(R, Nat), T \subseteq Nat, T # {}, ZenonT(60)
<1>2. PICK x \in T : \A y \in T : ~ (<<y, x>> \in R)
    BY <1>1
<1>3. \A y \in T : ~(y < x)
    BY <1>2
<1> QED
    BY <1>3

LEMMA NatMin ==
    ASSUME NEW T, T \subseteq Nat, T # {}
    PROVE  \E x \in T : \A y \in T : x <= y
<1>1. IsWellFoundedOn(OpToRel(<, Nat), Nat)
    BY NatLessThanWellFounded, Zenon
<1>2. \A x, y \in Nat : x < y => <<x, y>> \in OpToRel(<, Nat)
    BY Zenon DEF OpToRel
<1> QED
    BY <1>1, <1>2, NatMinBy, Zenon

LEMMA EarliestIsNat ==
    ASSUME Typed, timers # {}
    PROVE  Earliest \in Nat
<1> DEFINE T == {expireAt[k] : k \in timers}
<1>1. T \subseteq Nat /\ T # {}
    BY DEF Typed
<1>2. \E x \in T : \A y \in T : x <= y
    BY <1>1, NatMin
<1>3. \E t \in T : \A k \in timers : t <= expireAt[k]
    BY <1>2
<1>4. Earliest \in T
    BY <1>3 DEF Earliest
<1> QED
    BY <1>1, <1>4

Bounded ==
    /\ now <= MaxTime /\ seqID # 0 /\ notified \in BOOLEAN
    /\ deadline \in Nat \cup {Never}
    /\ spc \in {"idle", "notify", "join"}
    /\ drained \subseteq Token /\ refused \subseteq Token /\ cancelTrue \subseteq Token

LEMMA BoundedStep == Inv /\ Bounded /\ [Next]_vars => Bounded'
<1> SUFFICES ASSUME Inv, Bounded, [Next]_vars
             PROVE  Bounded'
    OBVIOUS
<1> USE DelayAssumption DEF Bounded
<1>t. Typed
    BY DEF Inv
<1>1. CASE Tick
    BY <1>1, <1>t DEF Tick, Typed, tables, worker, caller
<1>2. CASE RequestStop \/ NotifyStop \/ UNCHANGED vars
    BY <1>2 DEF RequestStop, NotifyStop, tables, worker, caller, vars
<1>3. ASSUME NEW d \in Nat \cup {Never}, WaitOrCollect(d)
      PROVE  Bounded'
    BY <1>3 DEF WaitOrCollect, caller
<1>4. CASE LoopTop
    BY <1>3, <1>4, <1>t, EarliestIsNat DEF LoopTop
<1>5. CASE WakeUp \/ Spurious
    BY <1>3, <1>5 DEF WakeUp, Spurious
<1>6. CASE Exit \/ \E k \in Token : FireTimeout(k) \/ FireCancel(k) \/ Drain(k)
    BY <1>6 DEF Exit, FireTimeout, FireCancel, Drain, tables, caller
<1>7. ASSUME NEW c \in Caller, Thread(c)
      PROVE  Bounded'
    <2>0. seqID \in Nat
        BY <1>t DEF Typed
    <2>1. NextTimerID # 0 /\ NextWaiterID # 0
        BY <2>0, NextIDs
    <2>2. CASE AddTimer(c)
        <3>1. ctok[c] \in Token
            BY <2>2, <1>t DEF AddTimer, Inv, Adding, Typed
        <3> QED
            BY <2>1, <2>2, <3>1 DEF AddTimer, worker
    <2>3. CASE Notify(c)
        BY <2>3 DEF Notify, tables, worker
    <2>4. ASSUME NEW k \in Token, ReadClock(c, k)
          PROVE  Bounded'
        BY <2>4 DEF ReadClock, worker
    <2>5. ASSUME NEW k \in Token, AddWaiter(c, k)
          PROVE  Bounded'
        BY <2>1, <2>5 DEF AddWaiter, worker
    <2>6. ASSUME NEW k \in Token, Cancel(c, id[k])
          PROVE  Bounded'
        <3>1. Found(id[k]) \subseteq Token
            BY <1>t DEF Found, Typed
        <3> QED
            BY <2>6, <3>1 DEF Cancel, worker
    <2> QED
        BY <1>7, <2>2, <2>3, <2>4, <2>5, <2>6 DEF Thread
<1> QED
    BY <1>1, <1>2, <1>4, <1>5, <1>6, <1>7 DEF Next, Worker

\* Every variable keeps its type: among them the deadline the worker sleeps
\* for, which is a time of the clock or none, and the counter of the keys,
\* which never hands out the 0 that add() returns after the stop.
THEOREM TypeIsCorrect == Spec => []TypeOK
<1>1. Init => Bounded
    <2> SUFFICES ASSUME Init PROVE Bounded
        OBVIOUS
    <2>1. now <= MaxTime /\ seqID # 0
        BY DelayAssumption DEF Init
    <2>2. notified \in BOOLEAN /\ deadline \in Nat \cup {Never}
          /\ spc \in {"idle", "notify", "join"}
        BY DEF Init
    <2>3. drained \subseteq Token /\ refused \subseteq Token /\ cancelTrue \subseteq Token
        BY DEF Init
    <2> QED
        BY <2>1, <2>2, <2>3 DEF Bounded
<1>2. Inv /\ Bounded => TypeOK
    <2> SUFFICES ASSUME Typed, Bounded PROVE TypeOK
        BY DEF Inv
    <2>1. now \in 0..MaxTime
        BY DelayAssumption DEF Typed, Bounded
    <2> QED
        BY <2>1, Zenon DEF Typed, Bounded, TypeOK
<1> QED
    BY <1>1, <1>2, Invariance, BoundedStep, PTL DEF Spec

=============================================================================
