# mir2x server: a TLA+ verification project

mir2x is a game server, its client and its tools. This project is about the server (`server/src`), a set of *actors* in one
process: every map, every player, monster, NPC and quest, and a service core, is an actor with a UID and a mailbox. A pool of
threads runs them, one message at a time; a message handler is a C++ coroutine that calls other actors, and timers, with
`co_await`. What is hard to get right, and nearly impossible to test, is the layer below the game rules: who may run an actor
and when it is destroyed, what a coroutine is resumed with, what becomes of a message nobody takes, which timer answers.
That layer is modelled here.

* [Inventory](#inventory): the parts of the system, their state and operations, what is hard about them
* [Plan](#plan): which modules there are, on what each rests, what could come next
* [The actor scheduler](#the-actor-scheduler-actorpool-actormailbox) · [Actor calls](#actor-calls-actorcall) ·
  [Timers](#timers-delaydriver-waittoken) · [Synchronous calls](#synchronous-calls-syncdriver) ·
  [Maps](#the-map-registry-mapregistry) · [Sessions](#sessions-session)
* [Runs](#runs), [Findings](#findings), [Proofs](#proofs), [What is not modelled](#what-is-not-modelled)

`tlc -config X.cfg MCxxx` checks a run, `tlapm XxxProofs.tla` the proofs. `PROJECT.json` maps each definition to the lines it
models and lists runs, hazards and theorems.

## Inventory

### How the parts interact

```
 client ──tcp──> NetDriver ── net message ──> Player / ServiceCore ─┐
 GUI, command line ── SyncDriver::forward() ──┐                     │ send / post / answer
                                              v                     v
                  ActorPool: buckets, mailboxes, worker threads ── runs ── ActorPod: coroutines, numbers
                                              ^                     │ wait(), createWaitToken(), cancel
                                              └── AM_TIMEOUT/CANCEL ── DelayDriver: one timer thread
                  ActorNetDriver ── messages for actors of other server processes
```

All interaction between actors is by messages through `ActorPool::postMessage()`. Threads share: the mailbox lists and queues
of the pool, the containers of the timer thread, the receiver list of the synchronous calls, and the channel slots of the
network. Everything else is private to an actor, which only one thread runs at a time — if the pool keeps that promise.

### The parts

| part | state | operations | hard about it | what makes it correct |
|---|---|---|---|---|
| Actor scheduler (actorpool) | per worker: mailbox list and its lock, cached mailbox pointers, queue of UIDs; per mailbox: two queues, `schedLock` | attach, detach (from inside, from outside), post, notify, steal, run, scan, destroy, erase | four ways to reach a mailbox at once; pointers used after the lock is released; notifications that are dropped; UIDs used again | one thread in a handler; nothing freed while used; every message handled or sent back, once; every message gets its turn |
| Actor messages and calls (actorpod) | the next number, the list of suspended coroutines | send, post, answer, call back, wait, resume, bounce | a number is all an answer is matched by; actors leave while calls are on their way; handlers are suspended in the middle | every call is answered once, to the right coroutine, also when its callee is gone |
| Timers (delaydriver) | ordered timers, waiters, cancelled ones, the worker's sleep | add, cancel, fire, stop | cancel races expiry; notifies after the mutex is released; the drain after the stop holds no mutex | one answer per wait, never early; a cancel that said true is answered AM_CANCEL |
| Synchronous calls (syncdriver, receiver) | receiver list, message list, the last number | forward with and without a timeout, push, pop, destroy | an answer earlier than the wait, later than the timeout, or while the receiver is destroyed | the caller gets its own answer, and gets it |
| Map registry (servicecore, peercore, servermap) | maps being loaded, loaded, closing; coroutines that wait for them | request load, request close, activate, query | every step suspends, others arrive meanwhile; failures half-way | a map that is said to be loaded is; no request is forgotten |
| Sessions (netdriver, channel, servicecorenet) | channel slots, the account and player bound to each, the online list | accept, login, go online, kick off, log out, close | three threads per slot, errors caught late, suspended log-ins | a channel acts for one account, a character is played once, slots come back |
| Lua runner | script threads, their keys, notifications, timers | spawn, yield, resume, notify, wait, close | late timers and notifications against a thread that moved on or is gone | a thread is resumed by its own event, once |
| Trading (directtradedb, golddb, auctiondb, deliverydb) | gold and items of two players, database rows | propose, confirm, transfer, deliver | several database calls and calls to another actor per trade | nothing is lost or created |
| Map grid (servermap) | cells, creatures on them, doors and locks of cells | move, jump, switch map, spawn | three-message hand-overs with a suspended coroutine at both ends | a creature is on one map, in one cell |
| Monsters, players, buffs, NPCs, quests, chat, teams | game data | one handler per message | mostly data; idle monsters wait without a timeout | — |
| Network between server processes (actornetdriver) | sockets, buffers | connect, send, receive | I/O | order per peer |
| Shell, database layer, common library, client, scripts, tables, tools | | | user interface, pure code, data | — |

Each has a line in `PROJECT.json` with its sources and status. The hazards listed there, each at the line where it bites,
are what the properties are for.

## Plan

Modules, in the order of what the rest of the server depends on. A module uses what the module below it promises.

| module | about | status |
|---|---|---|
| `ActorMailbox` | abstract: a mailbox and its handler | done; implemented by `ActorPool` (run *ActorPoolHome*, and proof) |
| `ActorPool` | the scheduler, thread by thread | done, with a proof module |
| `ActorCall` | calls between actors over such mailboxes, and timers that answer | done, with a proof module |
| `WaitToken` | abstract: what a wait is answered with | done; implemented by `DelayDriver` (run and proof) |
| `DelayDriver` | the timer thread | done, with a proof module |
| `SyncDriver` | synchronous calls | done, with a proof module |
| `MapRegistry` | loading, entering and closing maps, across the service core, a peer core, the maps and the players | done, with two proof modules |
| `Session` | channel slots, log-in, log-out, lost connections, across the net thread, the service core and the players | done, with two proof modules |
| `LuaRunner` | script threads and their notifications (serverluacoroutinerunner.cpp:415-475, 575-690, 892) | possible next |
| `Trade` | a transfer between two players and the database (directtradedb.cpp:13-100, servicecoreop.cpp:41-68) | possible next |

`MapRegistry` and `Session` take messages in order per actor and one handler step between two `co_await`s: that is what
`ActorMailbox` promises and `ActorPool` is proved to keep in a settled pool (*What is proved*), and that a suspended handler gets the answer to its own call is what
`ActorCall` establishes.

Worth proving next: what a pool that steals keeps when actors deactivate themselves in a handler. `HandlerAlive` and `AnsweredOnce`
are then violated, `HandlerExclusion` and `CacheNeverDangles` are proved; what holds between them is open.

## The actor scheduler: `ActorPool`, `ActorMailbox`

### What the code does

`ActorPool` (server/src/actorpool.{hpp,cpp}) owns one *bucket* per worker thread. A bucket is a hash map from UID to
`Mailbox` behind a reader/writer lock, a private list of raw mailbox pointers (`mailboxListCache`) and a queue of UIDs that
have something to do (`uidQPending`). A mailbox has two message queues (`nextQ`, which everybody pushes to under `nextQLock`,
and `currQ`, which belongs to whoever runs the actor) and the atomic `schedLock`: READY, a worker id, ACCESS_PUB or DETACHED.

* **Posting** looks the UID up, pushes to `nextQ` unless the mailbox is detached, and notifies a queue of UIDs: with random
  pushes (the default) the first one whose lock is free, otherwise the one of the home worker.
* **Running**: a worker pops UIDs from its queue, or steals some from another one (32 by default), looks each mailbox up,
  and runs it if the compare-and-swap READY → worker id succeeds; otherwise it *drops* the UID. Every 1000/FPS ms, and
  only when no popped UID is left, it scans all mailboxes of its own bucket in the same way.
* **Removal** has two phases. `detach()` only swaps `schedLock` to DETACHED. The scan of the home worker finds it, runs
  `atExit` (`delete this`), answers what is queued with AM_BADACTORPOD and erases the mailbox under the w-lock.

### How the model corresponds

| model | code |
|---|---|
| `phase` | absent from / present in / erased from `mailboxList` |
| `schedLock`, `atExit`, `nextQ`, `currQ` | the fields of `Mailbox` (`actor = nullptr` always goes with DETACHED and is folded into it) |
| `deleted` | the actor object has been destroyed |
| `uidQPending`, `mailboxListCache` | the fields of a bucket, as sets: the order of UIDs is irrelevant to every property, and `UniqUIDVec` holds a UID once |
| `pc`, `cur`, `tgt`, `out`, `back`, `pos` | where each thread is, and its local variables `mailboxPtr`, `msg`, `p` |
| `uidList`, `todo`, `scanning`, `hasDeleted`, `ran` | the locals of the worker loop and of `runOneMailboxBucket()` |
| `sent`, `fate` | history variables: which messages were sent, and every outcome a message had |

A step is one critical section or one atomic access: `PostPush` is the section of `nextQLock`, `Grab`/`Unlock` the two
compare-and-swaps of `MailboxLock`, `RunNext` one look at the queues plus, if a message is left, the call of its handler.
A handler is the environment: it posts (`HandlerPost`), spawns (`HandlerAttach`), deactivates its own actor
(`HandlerDetach`) and returns (`HandlerReturn`), any number of times and in any order. r-locks are the operator `RLocks`, a
function of where each thread is; `Attach` and `Erase` wait for them.

Simplifications, each of them a superset or a merge of steps nothing can observe:

* one sub-bucket per bucket instead of 97, so that every two actors of a bucket contend for one lock;
* `try_push`/`try_pop` fail when the queue's lock is taken: any queue may therefore be the one that is used;
* `attach()` is one step (emplace, notify, append to the cache): the caller touches nothing else in between, and a
  notification of a UID that has already been run or erased is possible anyway;
* the unlocked early `detached()` test of a post is folded into the locked one, whose answer it can only anticipate;
* a turn of a spin loop that does not get the lock is no step; `attach()` of an existing UID throws in the code and is a guard here;
* the branch of an external `detach()` that finds DETACHED is left out: an object is destroyed once.

Not modelled: closing the UID queues at shutdown, receivers (see `SyncDriver`), the monitor counters, messages
for other peers (`ActorNetDriver`).

### What is checked

| run | configuration | shows |
|---|---|---|
| ActorPoolHome | two workers, one actor each: one deactivates itself, an application thread destroys the other; no stealing, no random notification | `TypeOK`, `HandlerAlive`, `AnsweredOnce`; a mailbox implements `ActorMailbox`, also when its actor leaves in the middle of a batch |
| ActorPoolLive | two incarnations of one UID, the first destroyed from outside; stealing and random notification on; fair | `HandlerExclusion`, `NoMessageLost`, `MailboxKept`; `CacheNeverDangles`, although the cache is refreshed on a change of size only; `EveryMessageAnswered`, `DetachedIsErased` |
| ActorPoolStealDetach | stealing on, a stolen actor deactivates | `HandlerAlive` violated, see *Findings* |
| ActorPoolDestructor | one of two actors destroyed from outside, no stealing | `NoStaleMailbox` violated, see *Findings* |

Bounds: two workers are enough for every race in the code, since a mailbox is contended by its home worker and at most one
other worker that stole or was notified; two actors, so that one can post to, be bounced to or be spawned by the other, or
(ActorPoolLive) take the UID the other had; two messages (one in ActorPoolDestructor) besides the AM_ACTIVATE every actor starts with, so that a batch of `currQ` has a message
before and one after the one that deactivates; one application thread. Each message is sent once (`i \notin sent`), which
bounds the state space; no other counter needs a bound. Messages are symmetric; the symmetry is dropped in ActorPoolLive.

A pointer to a mailbox is looked up under an r-lock and used after the r-lock was released. `MailboxKept` says that nothing is erased
under such a thread, up to the moment an outside `detach()` publishes DETACHED; it is checked where thieves, random notifications and an
outside `detach()` hold such pointers (ActorPoolLive). `NoStaleMailbox` adds the last use of `detach()`, in the destructor of its
`MailboxLock`, which comes after DETACHED; the code's comments promise it, and ActorPoolDestructor refutes it.

`HandlerAlive` and `AnsweredOnce` are checked with stealing and random notification off (`--actor-pool-thread-steal=0`,
`--disable-random-push-pending`), because with stealing on, the default, the code violates them (*Findings*). Destroying an
actor from outside is an operation `detach()` supports and describes (actorpool.cpp:262-277); no actor of a running server is
destroyed that way today, so what concerns it is a matter of the interface.

### Fairness

A worker thread never blocks for good between two steps of its loop (weak fairness of `WorkerProgress`). It looks at the
clock in every turn that has no popped UID left, and a scan is due again after 1000/FPS ms: `BeginScan` may be disabled
again and again by UIDs that are popped first, but not forever — strong fairness. A handler returns (`HandlerReturn`): the
code has no handler that loops. Nothing is assumed of stealing, of what a handler does before it returns or of what
application threads start; a post or a detach that has begun goes on.

### Seen on the way

Two behaviours the model reaches and no statement of the repository excludes, so they are no findings. With stealing on, an
actor that deactivates in a batch may have the message being handled answered with AM_BADACTORPOD as well, because the home
worker empties `currQ` under the thief, and may have the mailbox erased under it: `MailboxKept`, like `HandlerAlive`, needs a settled pool (see *Proofs*). And an external `detach()` waits for `schedLock` holding the r-lock
of the sub-bucket, which the handler it waits for may need as a w-lock to spawn an actor: neither goes on.

## Actor calls: `ActorCall`

### What the code does

`ActorPod` gives an actor its coroutines. `send()` rolls a number, posts the message with it as `seqID`, and suspends the
handler in `m_respondCBList` under that number; if there is no mailbox for the UID it goes on at once with an
AM_BADACTORPOD. `innHandler()` looks at the `respID` of each message the actor gets: if it is not 0, the coroutine
registered under it is resumed, and if there is none the worker throws, which stops the server. `wait()` suspends in the
same way and asks the timer service to answer; `createWaitToken()` registers a callback and goes on. A suspended handler does not
block its actor: the next message starts another one. When an actor is destroyed its suspended coroutines go with it, and
each message left in its mailbox is sent back as AM_BADACTORPOD with the message's `seqID` as `respID`.

### How the model corresponds

| model | code |
|---|---|
| `Pod`, `UidOf` | one `ActorPod` object, and its UID: a character that logs in again is another pod with the same UID |
| `phase` | live: its mailbox accepts; detached: `deactivate()` was called; deleted: `delete this` has run; gone: mailbox erased |
| `mailbox` | the two queues of a `Mailbox`, as `ActorMailbox` allows: in order, one handler at a time |
| `nextSeqID` | `m_nextSeqID`, or the static `s_nextSeqID` of `--enable-unique-actor-message-id` (`UniqueIDs`) |
| `respondCB` | `m_respondCBList`, each entry with the calls its suspended handler still has to answer |
| `running`, `owes` | a handler runs and has these calls to answer |
| `timers` | what the timer service has not answered; by `WaitToken` it answers each once |
| `thrown` | an exception left the worker thread (`Server::propagateException()`): the run ends |
| `abandoned` | history: calls owed by a handler that died suspended |

A message carries, in the model, the whole call it makes (`seq`) or answers (`resp`), the pod included; the code carries the
number only. The actions never look at the pod of a `resp` beyond its UID and number — that is what makes the question of
`RightAnswer` meaningful. A handler is the environment: it sends, calls back (`send(mpk.fromAddr(), ...)`, which
answers and asks in one), answers, posts, waits, creates wait tokens, deactivates its actor, in any order, and returns once
it owes nothing. That last condition is the convention of all handlers of the server.

A message that is bounced without a number, a post or an answer, reaches `onActorMsg()` of the sender: players, monsters,
NPCs and maps ignore it (`Tolerant`), the service core, the peer core and quests throw on it (servicecore.cpp:87).

Left out: `cancelWaitToken()` (`WaitToken` says what it changes: which answer comes), waits that only a cancel ends,
AM_WAITACTIVATED (with `MapRegistry`), the monitor.

### What is checked

*ActorCall*: two incarnations of a player and the core, numbers unique, fair. `MaxSeq` is 2: since the numbers are the server's, two are rolled in the whole
run, by the same pod or by two, and one message is posted. Two
calls are needed for a call and a call back, or a call and a wait, outstanding at once, and are enough for the second pod
to be able to confuse two answers. `TypeOK`, `OneAnswer`, `StrayOnlyAfterReuse`, `RightAnswer`, `EveryCallReturns`.
*ActorCallRelogin*: numbers per object, the default, one per pod: `RightAnswer` is violated (*Findings*).

Deadlock is not checked: a state in which nobody has anything left to do, or in which the server has thrown, is an end.

`OneAnswer` counts the places a call is at, for as long as its caller waits: exactly one. `EveryCallReturns` excepts two
outcomes that the code has, both listed as hazards that no property covers. A callee that is destroyed with its handler suspended tells
nobody, so the calls that handler owes an answer (`abandoned`) stay open, and so do those whose answer depends on them (`Stranded`);
the exception is made for these calls only, all others come back. And a throw ends the server.

### Fairness

Weak, per actor: a live actor with a message is run (`EveryMessageAnswered` of `ActorPool`), a detached one is destroyed,
emptied and erased (`DetachedIsErased`), each timer is answered (`WaitsAnswered` of `DelayDriver`), and a handler that runs
answers and returns: every path of the handlers ends in `co_return`. What else a handler does is not fair.

## Timers: `DelayDriver`, `WaitToken`

### What the code does

One thread, one mutex, one condition variable. `add()` of a delay > 0 inserts a timer with an odd key into a map ordered by
expiry, `add()` of 0 a waiter with an even key that only a cancel ends; both keys come from one counter. `cancel()` removes
the entry, chosen by the parity of the key, and hands its callback argument (UID and number) to the worker. The worker
collects what has expired or was cancelled under the mutex, posts AM_TIMEOUT and AM_CANCEL without it, and sleeps until the
earliest expiry, or for ever. After `requestStop()` it answers what is left with AM_CANCEL, without the mutex.

### How the model corresponds

A `Token` is a callback argument, used for one wait. `id`, `expireAt`, `timers`, `waiters`, `cancelledTimerArgs`, `seqID` and
`stopRequested` are the members; `timeoutArgs`, `cancelledArgs`, `drained` the worker's locals; `wpc`, `deadline`, `notified`
say how the worker sleeps. A step is one critical section, one notify, or one post. Notifies are separate steps of the
caller, after its critical section, as in the code. Wake-ups may be spurious. The clock `now` advances in unit ticks up to
`MaxTime`, at any moment.

`WaitToken` is the promise: a wait is answered at most once; with AM_CANCEL if a cancel of it returned true; otherwise with
AM_TIMEOUT, or with AM_CANCEL once the service stops. The mapping reads the state of a token off `id`, `refused` and
`cancelTrue`.

### What is checked

*DelayDriver*: a long timer, a short one and a waiter, two callers, a clock of two ticks, a stop at any time, fair: `TypeOK`,
`NeverEarly`, `KeyFindsOwnWait`, `DrainUnshared`, `ImplementsWaitToken`, `WaitsAnswered`. Three tokens give an expiry before, at and after
another one and one token of each parity; two callers race each other, the worker and the stop.
`WaitsAnswered` says that an accepted timer is answered and that a cancel that returned true arrives, also when the worker
sleeps without a deadline or stops right then. *DelayDriverOversleep*: `NoOversleep` is violated (*Findings*).
Deadlock is not checked: after the stop, or at the end of the clock, nothing is left to do.

Fairness: time passes, the worker thread goes on when it can, `requestStop()` once begun notifies, and a caller that has
begun an `add()` or a cancel ends it. Nobody has to add, cancel or stop.

## Synchronous calls: `SyncDriver`

### What the code does

An application thread calls `SyncDriver::forward()`: it rolls a number, posts with the UID of its `Receiver`, and blocks in
`Receiver::wait()` until the message list is longer than on entry, or time runs out; `pop()` then takes all messages, and the
one with the right `respID` is returned. An actor that answers a receiver UID looks it up and pushes to it, both under
`m_receiverLock`; the destructor of a `Receiver` takes it off the list under the same lock.

### How the model corresponds

`calls` bounds the calls per driver (`MaxForward`); `currID`, `messageList`, `receiverLock`, `attached`, `origLen` are the
fields and locals; `IdLimit` stands for 2^64 so that the wrap-around that skips 0 is reached. A request is the pair of a driver
and its number; which actor answers and when is left open, and that it may never do so too.

### What is checked

*SyncDriver*: one driver used three times, each call with or without a timeout, then destroyed while answers are still on
their way: `TypeOK`, `NoDanglingReceiver`, `OwnAnswer`, `NoneOnlyAfterTimeout`, `AnswerKept`. Three calls allow an answer to the first to
arrive during the third; drivers share nothing but the lock. Deadlock is not checked: actors need not answer, and a destroyed driver does nothing.


An answer that overtakes the caller on its way into `wait()` counts as old (receiver.cpp:37), and a call without a timeout then
sleeps until another message comes, which may be never. `AnswerKept` says what is left of the promise: the answer is not lost,
it lies in the list, and whatever wakes the caller gives it out.

## The map registry: `MapRegistry`

### What the code does

The service core keeps the list of all maps of the server. A map of its own process it makes itself; for the others it calls the
peer core of that process, and requests that arrive meanwhile are put into `m_loadMapPendingOps`, to be resumed by a scope guard
when the first is done (servicecore.cpp:199-313). Closing goes the same way, down to AM_CLOSEMAP at the map, which loads its exit
map, sends its players there one after another, reports AM_CLOSEMAPOK and deactivates itself (servermapop.cpp:398-500). Quest
scripts open and close instance maps; players switch between maps by a conversation with the service core, the new map and the
old one (battleobject.cpp, player.cpp). Every one of them is suspended between two messages and answers others meanwhile.

### How the model corresponds

| model | code |
|---|---|
| `coreList`, `peerList` | `m_mapList` of the service core and of the peer core |
| `loadOp`, `closeOp` | the pending operations of a map: the request that is under way first, then those that wait for it |
| `map` | a map actor: attached or not, `onActivate()` done, `m_closing` and who asked, players still to send away, who waits for AM_WAITACTIVATED, players on the grid, the player that has locked the entry cell |
| `player` | where a player is and how far its switch has come; `for` is the closing map that asked for it |
| `script` | what a quest script waits for |
| `box` | mailboxes, in order, one message handled at a time |
| `known`, `opened` | instance UIDs that were built, and those whose load was answered, which scripts may name |
| `fault` | an assertion or throw that ends the server |

An action is one handler from the message that starts or resumes it to its next `co_await` or its end. What waits inside the
resumed handlers of a scope guard runs in the code's order: those that joined first, the first request last.

Abstractions: all switches into a map go to one cell, so that two players meet at its lock; a call to an actor that has gone is
answered at once (the pool's AM_BADACTORPOD may come later); a trigger of a player that stands on the exit map already always
succeeds; AM_LEAVEERROR, monsters, the creatures of a map that are not players, and the closing of base maps are left out;
players do not log out. A player that has died stays dead: `requestMapSwitch()` has a mode for a revival on another map (battleobject.cpp:417-434)
that skips the two `canMove(false)` checks (467, 486), and is left out. Left out of the registry itself: maps that fail to load for want of data, the maps that are preloaded,
AM_QUERYMAPLIST, and AM_QUERYCOCOUNT. The last walks `m_mapList` with an iterator across `co_await` (servicecoreop.cpp:170):
nothing in the code keeps a load or a close from invalidating it, which is listed as a hazard without a property.

### What is checked

*MapRegistry*: one instance map, in either process, an exit map in the other process that is not loaded yet, two scripts that
close it once each, one player that can enter and leave it, and one that can enter and may die. Two scripts give two closes and a
close against a load; two players give a meeting at the lock and a player that enters while another is sent away. `Mortal` names
the player that may die, since which of them does makes no difference that the properties see, and doubles the states.

* `ListFollowsMaps`: the lists say what runs. A map in the core's list that has no actor has its close under way; a map that
  runs and is not listed is being loaded.
* `FaultsExplained`: three of the assertions never fail (a map gets one AM_CLOSEMAP at a time, servermapop.cpp:406; the peer core has the
  map it is to close; the exit map loads). The others are reachable, each from one cause only: a player that switches to
  an instance just closed makes the core load it while the old mailbox is still there (`attach`), because AM_CLOSEMAPOK is posted
  before the map deactivates itself; a closing map asserts on a player that is dead, in a switch of its own, finds the exit's cell taken,
  or was left behind on another map that closed as it entered (`switch`); and a player answers a map that is the second one under its UID after it entered the first as it was closing (`stray`).
  The last cause of `switch` needs two instance maps: the run has one, and does not meet it.
* `NobodyLeftBehind`: only a player that was entering a closing map can be left on it, because `on_AM_TRYMAPSWITCH` does not look at
  `m_closing`.
* `NobodyForgotten`: when no message is left and no map is about to start or end, nobody waits for an answer. It is the safety form of
  "every request ends": no fairness is needed, and nothing but a message or a map's start or end makes progress in this system.

No statement of the repository excludes the reachable faults, so they are no findings. Deadlock is not checked: a server in which
nobody asks for anything more is an end.

## Sessions: `Session`

### What the code does

`NetDriver` owns a fixed number of channel slots and a queue of their free numbers. Its thread accepts sockets, runs a reader and a
writer coroutine for each, and closes a channel by its *number* (`doClose()`): from the error of a reader or writer, which is an
exception caught in the loop around `io_context::run()`, or because a player asks. A packet goes to the player bound to the
channel, else to the service core. The core keeps one entry per channel that has logged in (`m_dbidList`): CM_LOGIN makes it,
CM_ONLINE loads the start map, which may suspend it, and adds the player, AM_BADCHANNEL erases it, and AM_PLAYERLOGOUT marks it offline once
the player's mailbox has gone, for which it polls. A player binds its channel in its first message and unbinds or closes it when
it goes offline, each time blocking until the net thread has run the closure.

### How the model corresponds

| model | code |
|---|---|
| `slot`, `freeQ` | `m_channelSlotList`, `m_channelIDList` |
| `conn` | one `Channel` object with its socket, reader and writer; and the screen its client shows |
| `netQ` | closures posted to the net thread, while their players block |
| `coreQ`, `dbList` | the core's mailbox and its `m_dbidList` |
| `onlines`, `polls` | suspended coroutines: CM_ONLINE that waits for the map, AM_PLAYERLOGOUT that waits for the mailbox |
| `player` | the player actor of an account: `m_channID`, what it blocks for, whether its log-out is soft, its mailbox |
| `fault` | an assertion or throw that ends the server (`propagateException()`) |
| `seen`, and `conn`, `for`, `acct`, `full` in the records | history, for the properties only |

The net thread's steps are completion handlers; the core's and a player's are handlers up to the next `co_await` or block. The code knows a
connection by its slot number; the model numbers connections, so that the properties can say whether the right one was meant.
A packet may have been read completely when the error of the writer closes the channel (`RecvLate`). asio runs handlers
first in, first out and the listener asks for the next socket only after it has run: one accept at most comes between a close
and the aborted reads and writes of the closed socket (`raced`). Left out: encryption and partial reads, the log-in's
database query, character creation and password changes (which do not touch this state), packets of the game, which a bound player takes.

### What is checked

*Session*: two accounts and two connections, over one slot, where a number is in use again at once and the first CM_ONLINE waits
for the map, or over two slots with the map loaded. `MaxQueue` bounds what clients send while the core or a player has messages waiting;
a second click on *log in* is let through. In the runs `OneLogin` has clients in different slots log in to the same account: two accounts
meet only in a slot that is used again, which is where an entry of one could be taken for that of the other. The theorems hold without that bound.

A character may find no cell on the map: `adjustMapGLoc()` replaces a stored place outside the map by one drawn at random, up to 100 times.
`addPlayer()` then makes no player, and `net_CM_ONLINE` clears the mark and reports ONLINEERR_AMERROR (servicecorenet.cpp:155-158). Each
CM_ONLINE draws for itself, so the model chooses in each step who gets a cell (`placed`). If several CM_ONLINE of a slot waited for the map,
the last one decides: one that makes no player takes away the mark of one that did. `seen` records that as `unmarked`.

* `NumbersConserved`, `StrangersClosed`: a number is free once or in use once. The late error of a closed connection closes another
  client's only if no number was free when the first one closed: the queue keeps a slot out of use for long enough otherwise.
* `EntryFollowsChannel`, `NoStuckEntry`: an entry belongs to the connection in its slot, and an account marked online has a player or a log-out under
  way, but for two races that the property names: a packet or the map that comes after the AM_BADCHANNEL of its connection. The code
  re-creates the erased entry with `operator[]` there (servicecorenet.cpp:153), with account 0.
* `FaultsExplained`: each assertion that can end the server has a listed cause. A client that comes back right after a *lost connection* can make
  `addPlayer()` meet the mailbox of its last player, because only a log-out waits for it (servicecoreop.cpp:282-283); after a log-out it
  cannot. After `unmarked` there is one more cause: the client of the player without its mark may ask a second time. The assertions of a player on its own channel never fail.
* `DeafOnlyIfBoundLate`: a player in the game hears of the end of its connection, unless the connection was gone before it bound it.

*SessionLive*, one slot and one account, fair: `DroppedPlayerLeaves`; `LogoutAnswered`, unless the client drops, a fault ends the server, or `unmarked`: an account without
its mark may come online again before the poll for its last player ends, and AM_PLAYERLOGOUT then waits for the new player. Deadlock is not checked: with no more clients
nothing is left to do, and a fault is an end.

Fairness: the net thread runs what is posted to it; the core and the players are run when they have a message, and the mailbox of a detached
one is erased (`EveryMessageAnswered`, `DetachedIsErased` of `ActorPool`); the peer server answers the load of the map; the poll's timer
fires (`WaitsAnswered` of `DelayDriver`). Clients do what they like: nobody has to connect, send or close.

## Runs

| run | module | expect | properties |
|---|---|---|---|
| ActorPoolHome | MCActorPool | pass | `TypeOK`, `HandlerAlive`, `AnsweredOnce`, `ImplementsMailbox` |
| ActorPoolLive | MCActorPool | pass | `HandlerExclusion`, `NoMessageLost`, `MailboxKept`, `CacheNeverDangles`, `EveryMessageAnswered`, `DetachedIsErased` |
| ActorPoolStealDetach | MCActorPool | violation | `HandlerAlive` |
| ActorPoolDestructor | MCActorPool | violation | `NoStaleMailbox` |
| DelayDriver | MCDelayDriver | pass | `TypeOK`, `NeverEarly`, `KeyFindsOwnWait`, `DrainUnshared`, `ImplementsWaitToken`, `WaitsAnswered` |
| DelayDriverOversleep | MCDelayDriver | violation | `NoOversleep` |
| SyncDriver | MCSyncDriver | pass | `TypeOK`, `NoDanglingReceiver`, `OwnAnswer`, `NoneOnlyAfterTimeout`, `AnswerKept` |
| ActorCall | MCActorCall | pass | `TypeOK`, `OneAnswer`, `StrayOnlyAfterReuse`, `RightAnswer`, `EveryCallReturns` |
| ActorCallRelogin | MCActorCall | violation | `RightAnswer` |
| Session | MCSession | pass | `TypeOK`, `NumbersConserved`, `EntryFollowsChannel`, `NoStuckEntry`, `FaultsExplained`, `DeafOnlyIfBoundLate`, `StrangersClosed` |
| SessionLive | MCSession | pass | `DroppedPlayerLeaves`, `LogoutAnswered` |
| MapRegistry | MCMapRegistry | pass | `TypeOK`, `ListFollowsMaps`, `FaultsExplained`, `NobodyLeftBehind`, `NobodyForgotten` |

Every property of a passing run has a mutant in `PROJECT.json`, a plausible bug of one mapped definition that the run finds;
the mutated forms stand next to the originals and are marked as mutants.

## Findings

Four properties that the repository states and the code does not keep. Each is the counterexample of a run.

* **ActorPoolStealDetach**, actorpool.cpp:312 — an actor that deactivates itself on a thread that stole it is destroyed by its
  home worker while its handler still runs. The comments of actorpool.cpp:309 and actorpod.cpp:208 say the destruction waits
  for the handler. Stealing is on by default.
* **ActorPoolDestructor**, actorpool.cpp:253 — a `detach()` from outside publishes DETACHED and then compares `schedLock` once more, in the
  destructor of its `MailboxLock` (actorpool.hpp:416-420). The home worker does not grab the lock to erase a detached mailbox, so it may be gone. The comments of actorpool.cpp:218-219
  say that nobody can destroy the mailbox without the lock, those of 230-231 that everything is done before DETACHED. It concerns the interface that
  actorpool.cpp:262-277 describes: no actor of a running server is destroyed from outside today.
* **DelayDriverOversleep**, delaydriver.cpp:36 — a timer that is added while the worker sleeps for a later one is answered when the
  later one expires: the notify wakes the worker, and the predicate sends it back to sleep with the old deadline.
* **ActorCallRelogin**, actorpod.hpp:59 — numbers start at 1 in every object and answers are addressed by UID, so that an answer
  to a character that logged out resumes a coroutine of the same character logged in again.
  `--enable-unique-actor-message-id` prevents it: the run *ActorCall* and the theorem `RightAnswers` show so. With it the
  same message makes the worker throw (`StrayOnlyAfterReuse`).

## Proofs

All theorems hold for every value of the constants that satisfies the module's `ASSUME`: any number of workers, threads,
actors, messages, tokens, delays, drivers, calls, channel slots, accounts, connections, maps, scripts and players.

**Scheduler** (`ActorPoolProofs`)

* `TypeCorrect`: `TypeOK` is inductive by itself, given that a thread that is past a lookup has a mailbox (`TypeInvariant`).
* `Exclusion`: `HandlerExclusion`. The strengthening says who holds a lock: a thread at `run`, `handler` or `unlock` (pushes
  of a nested post put aside) either is the one whose id is in `schedLock`, or the mailbox is DETACHED; and after DETACHED
  nobody enters. Exclusion is then the fact that `schedLock` has one value, plus the fact that DETACHED is final.
* `CacheSafe`: `CacheNeverDangles`. Needed: outside a scan the cache of a worker is a subset of its bucket, only that worker
  erases from its bucket, and only during a scan, and `hasDeleted` is set from the first erase to the end of the scan.
* `AliveWhenSettled`: `HandlerAlive` in a pool that is `Settled`: no stealing and no random notification, or, whatever is stolen,
  no actor that deactivates itself in a handler (`Mortal = {}`; it may be destroyed from outside). The invariant (`RemovedHome`): only
  the worker of its bucket is inside a mailbox that is DETACHED. In the first case it is the only worker that ever gets there; in
  the second DETACHED is stored by whoever holds the lock, so no thief is inside, and none gets in afterwards. A thief whose handler
  deactivates breaks it, which is the finding above. The theorems below assume `Settled` as well.
* `MailboxesAlive`: `MailboxKept`, detach from outside included. Who is inside a mailbox keeps it listed until it is
  DETACHED, then its own worker erases it; whoever pushes, or spins for the lock, keeps the r-lock that an erase waits for; and an outside `detach()` that holds the
  lock has not detached yet (`Outsiders`, of `ActorInvariant`). Its step after that is `NoStaleMailbox`, which is violated (*Findings*).
* `OneOutcome` (`AnsweredOnce`) and `NothingLost` (`NoMessageLost`). The mail of an actor is the rest of `currQ`, from the count of the
  worker that goes through it on, home worker or thief (`OneVisitor`: there is one at most), and `nextQ`, unless `clearOneMailbox()` has copied that. A step sends, delivers, drops, takes the first of a mail,
  bears a mailbox or leaves all mail alone (`Effects`). So a message is at one place, a push or a position in one
  mail, if and only if it was sent and has no outcome (`MessageInvariant`).
* `MailboxImplemented` (`ImplementsMailbox`). Each effect is a step of `ActorMailbox`, each other step of the scheduler none. Needed besides:
  a mailbox is detached only while listed, and a worker in a handler counts a message of `currQ` (`ActorInvariant`). It also assumes
  `None \notin Msg`: "no message" is not a message.

**Timers** (`DelayDriverProofs`)

* `Refinement`: `DelayDriver` implements `WaitToken`. The strengthening places every token (`Placed`): it is in at most one of
  the tables and the worker's locals, is in a list of cancelled ones only if its cancel returned true, and has no answer while
  it is in any of them.
* `Punctual` (`NeverEarly`), `KeysAreSafe` (`KeyFindsOwnWait`: keys are below the counter and pairwise different, and
  their parity is that of the table) and `DrainIsAlone` (`DrainUnshared`: nobody changes the tables once `stopRequested` is set).
* `TypeIsCorrect` (`TypeOK`): that the deadline is a time needs that a non-empty set of naturals has a least element, from the
  library's theorems on well-founded relations.

**Synchronous calls** (`SyncDriverProofs`)

* `ReceiverAlive` (`NoDanglingReceiver`): the receiver that is being answered is on the list, and what is on the list is not
  destroyed. `RightResult` (`OwnAnswer`).
* `NoneMeansTimeout` (`NoneOnlyAfterTimeout`): as long as no call of a driver has timed out, all that is on its way is the
  answer to the current call, in one of three places: pending, in the hands of an actor, in the message list.
* `TypeIsCorrect` (`TypeOK`) and `AnswerNotLost` (`AnswerKept`). The latter needs that a driver in a call is on the receiver list
  (`ListedInCall`), since an answer for a UID that is not listed is dropped.

**Actor calls** (`ActorCallProofs`)

* `RightAnswers`: `RightAnswer`, if numbers are unique or no UID is used twice. The invariant is existential: there is a set of
  numbered calls that contains every call queued, owed, suspended on or timed, in which numbers identify calls (if they are
  unique), and an answer is addressed to the UID of its caller. With unique numbers the number found is the call's; without
  them the UID has only one pod, and a pod does not repeat a number.
* `TypeIsCorrect` (`TypeOK`): no two coroutines of an actor are registered under one number.
* `OnePlacePerCall` (`OneAnswer`) and `StrayIsLate` (`StrayOnlyAfterReuse`), under the same condition. The inductive invariant
  `OnceInv` follows one call through its five places (a mailbox, a running handler, a suspended one, the timer service, the
  handlers that died): it is at one at most, whoever its caller is, and at one if and only if its caller lives and waits. That a
  bounced or resumed call does not come twice needs that no message answers the call it makes (`ProperMail`), that a UID has
  one living actor (`OneBorn`), that the dead run nothing (`Quiet`), and `RightAnswers`: a coroutine resumed by a foreign answer would
  leave its own behind. The condition is needed: without it the run *ActorCallRelogin* violates `RightAnswer`.

**Sessions** (`SessionProofs`)

* `TypeIsCorrect` (`TypeOK`) and `NumbersAreConserved` (`NumbersConserved`), by one invariant, their conjunction: slots and
  connections name each other by number, so that the types hold only because a slot that is in use names an accepted
  connection of that slot, and numbers are conserved only because what is in a slot is a connection. The assumption is that the
  channel IDs of a server are positive and distinct (netdriver.cpp:14-22).

* `StrangersAreClosed` (`StrangersClosed`): as long as a closed connection has a loop to end, its number is in the queue of free ones, and
  is not the first unless the one accept that may come in between has been (`NumberRests`).

`SessionLinkProofs`: a slot number is all that the core, the net thread and the players share, and it is used again. `LinkInv`
follows it through everything that holds one. It is inductive, and has four layers, each proved action by action from those
before it:

1. `Mailbox`: in the core's queue a packet comes before the BADCHANNEL of its connection, and between packets of two connections of
   a slot there is a BADCHANNEL.
2. `EntryInv`, `WaitInv`: an entry is of the connection whose packets come before the next BADCHANNEL of the slot, an account has one
   entry, and an open connection that has logged in has its entry; a coroutine that waits for the map is of a connection of its
   slot, and two for one account are the overlap that `seen` records. `EntriesFollowChannels` (`EntryFollowsChannel`) is read off
   the first two layers.
3. `PlayerInv`: what may be in a player's mailbox in each of its states, which closures of the net thread are its own, and how
   the player of a channel and the channel of a player name each other. It gives `DeafIfBoundLate` (`DeafOnlyIfBoundLate`).
4. `MarkInv`: a mark in `m_dbidList` has its player or a log-out of its account behind it, in the mailbox of the core or polling. It gives
   `NoEntryIsStuck` (`NoStuckEntry`). It also says that a player's entry keeps its account, and
   its mark unless another CM_ONLINE of the slot took it away (`Claim`), until a late map re-creates such an entry (`Strayed`).

The last two layers hold as long as no assertion has failed: a fault ends the server in the middle of a handler. So
`FaultsAreExplained` (`FaultsExplained`) and `DeafOnlyIfBoundLate` are conjuncts of `LinkInv` of their own, proved for the step
that fails from the layers before it. The coroutines that go on when the map is loaded run one after another within a step
(`Added`): those before the first that is refused add their players, and there is a first one because the naturals are well
founded. Two assumptions were added to the model for these proofs: an account's database ID is not 0 (`fflassert(dbid)`,
servicecorenet.cpp:42), and `None` is not a fault.

**Map registry** (`MapRegistryProofs`)

Everything in the registry is a conversation, so its invariant counts: `F(box, c, type, m, r)` messages of a type about a map by
somebody in a mailbox, `N(q, S)` elements of a queue in a set. The first lemmas say how a post, a handled message and the posts to
all who wait change these numbers (`Sending`, `Exchange`, `DeliverAllCount`). `IInv` is inductive (`RegistryCounts`); its parts:

* `MailInv`, `QueueInv`: who may be sent what, and who may wait for what.
* `RegistryInv`: a load that the core has under way is at one of six places (`Loading`), a close at one of seven (`Closing`), never both,
  and where it is says whether the map runs and who lists it (`State`). A map that is closing or whose mailbox is still there
  is one that scripts may name.
* `LoadInv`, `CloseInv`, `SentInv`: the request of everybody who waits for a load, for a close or for a player to be gone is at one place, and
  who does not wait has none. Without it an answer could come to a script that asks for something else by now.
* `KnownInv`: scripts close what was loaded, and load maps of their own; this is why nobody but a player asks for a map that closes.

It gives `RegistryTypes` (`TypeOK`), `ListsFollowMaps` (`ListFollowsMaps`), and `CoresNeverFail`, the first four conjuncts of
`FaultsExplained`: no assertion of the cores, of a map about its close, or about the exit map ever fails, and `attach` has its cause.
For these proofs the model got the assumptions that actors have UIDs of their own, that players are finitely many and that `None` is
not a fault; and `FaultsExplained` one more cause of `switch`: the attempt to show the shorter list inductive failed,
and TLC found with two instance maps a player that is left behind on one as it closes and is asked to go by the other.

Under `IInv`, `TalkInv` (`MapRegistryTalkProofs`) counts the words of a switch (`SwitchesTalk`): a player that switches has exactly one with one map under way,
as a message or as a handler that waits, and a player that does not has none; and who has a cell of a map locked still has
something to tell that map, or to hear from it. With the counts of `IInv` this gives `NobodyIsForgotten` (`NobodyForgotten`): once
all mailboxes are empty and no map starts or ends, every place a request could be at is empty, so nobody waits for one.

Under these, `WhereInv` (`PlayersAreSomewhere`) says where a player is that no closing map has let in (`p \notin seen`; `on_AM_TRYMAPSWITCH` does not look at
`m_closing`, so there are others): the lock of a map's cell is held exactly as long as one thing is still to be told that map (`Enters`); who
is in a grid is on that map, or has just left it and the map is about to hear of it, and a closing map has it on its list (`Stays`); and a player is in the
grid of the map it thinks it is on, or has its cell locked (`Place`). A map that is gone has no grid and no lock, so nobody but the others is
left on one: `NoneLeftBehind` (`NobodyLeftBehind`). And an answer that finds no lock, or no player in the grid, is one of theirs, which is the cause of `stray`.

`ExcuseInv` (`RefusalsAreExcused`) then follows a refusal back to its cause. A player that is asked to go tells the closing map that it stays
only if it is dead, is in a switch of its own, found a cell taken, or was entering a map as it closed. The invariant needs that the exit's map is in
the core's list as long as the player has its load answered (so it is there when the player asks to enter), and that what a player told a map about an
earlier switch is before its TRYLEAVE in that map's mailbox (`Ordered`: otherwise the map would not know the player yet and refuse).
With `CoresNeverFail` this gives `EveryFaultIsExplained` (`FaultsExplained`).

Of a pool that steals and has actors that deactivate themselves `TypeOK`, `HandlerExclusion` and `CacheNeverDangles` are proved; the
others are not claimed, and `HandlerAlive` is violated. Model-checked only, because out of TLAPS's reach, are the
liveness properties (`EveryMessageAnswered`, `DetachedIsErased`, `WaitsAnswered`, `EveryCallReturns`, `DroppedPlayerLeaves`,
`LogoutAnswered`), which rest on fairness.

## What is not modelled

* **Lua runner**: a script thread is game data that runs inside one handler; its hazard (a timer that fires after the notify that
  ended the wait) is listed. **Trading**: what survives a failure between two database calls is a matter of the transactions of
  SQLite. **Map grid**: moves and spawns; the hand-over of a player between two maps is in `MapRegistry`.
* Game rules (combat, magic, monsters, buffs, quests, chat) are data inside one handler of one actor and depend on the layer
  below as modelled here. The network between server processes promises order per peer and is otherwise I/O. Common code (path
  finding, serialization, UIDs) is pure.
* The client, the tools, the editors, game data and Lua scripts are not part of the running server or carry no state it depends
  on. They are most of the repository's lines: the models cover what runs between threads and actors, and that is small.
* Shutdown of the pool, and the construction order of global objects, are outside the models, whose first state is a server that
  runs.
