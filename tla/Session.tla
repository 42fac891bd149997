------------------------------ MODULE Session ------------------------------
(* The life of a player's session: the sockets of the net driver            *)
(* (netdriver.cpp, channel.cpp), the list of logged-in channels of the      *)
(* service core (servicecorenet.cpp, servicecoreop.cpp) and the player      *)
(* actors that come and go (player.cpp, playerop.cpp, enableaddco.cpp).     *)
(*                                                                          *)
(* Three kinds of threads meet here. The net thread accepts sockets, reads  *)
(* them and closes them; the service core handles one message at a time but *)
(* suspends in CM_ONLINE and in AM_PLAYERLOGOUT; a player actor blocks until*)
(* the net thread has run the closure it posted. They know a connection by  *)
(* the number of its channel slot only, and slots are used again.           *)
(*                                                                          *)
(* An fflassert or a throw ends the server (propagateException): "fault"    *)
(* names it and nothing happens after it.                                   *)
EXTENDS Integers, Sequences, FiniteSets, SequencesExt

CONSTANTS
    Setups,     \* [ids: the channel IDs in their order, loaded: is the start map of this process]
    Account,    \* accounts (dbid); the player of account d has one UID
    OneLogin,   \* bound: clients in different slots log in to one account, so that
                \* two accounts meet only in a slot that is used again
    MaxConn,    \* bound: connections accepted in a run
    MaxQueue,   \* bound: messages waiting for an actor, or CM_ONLINEs for the map, when a client sends one
    None

ASSUME SessionAssumption ==
    /\ Setups \subseteq [ids : Seq(Nat \ {0}), loaded : BOOLEAN]
    /\ \A setup \in Setups : IsInjective(setup.ids)
    /\ OneLogin \in BOOLEAN /\ MaxConn \in Nat /\ MaxQueue \in Nat
    /\ None \notin Account \cup Nat
    /\ 0 \notin Account

\* The slots of m_channelSlotList.
Slot == UNION {Range(setup.ids) : setup \in Setups}

VARIABLES
    slot,       \* m_channelSlotList: the connection whose Channel is in the slot
    freeQ,      \* m_channelIDList
    conn,       \* the connections accepted so far, oldest first
    raced,      \* an accept has run since a socket was closed
    netQ,       \* closures that players have posted to the net thread
    coreQ,      \* mailbox of the service core
    dbList,     \* m_dbidList: the entry of each logged-in channel, else NoEntry
    onlines,    \* CM_ONLINE coroutines that wait for the map, oldest first
    polls,      \* AM_PLAYERLOGOUT coroutines that wait for the mailbox to go
    mapLoaded,  \* the start map is in m_mapList
    player,     \* the actor of each account
    seen,       \* history: rare races that have happened
    fault       \* the assertion that ended the server

netVars  == <<slot, freeQ, conn, raced, netQ>>
coreVars == <<coreQ, dbList, onlines, polls, mapLoaded>>
vars == <<netVars, coreVars, player, seen, fault>>

Conn == 1 .. MaxConn
Loops == {"reader", "writer"}
Phases == {"login", "select", "game", "gone"}
\* Of a packet, "conn" is history: the connection it came from.
CoreMsg == [type : {"LOGIN"}, chan : Slot, uid : Account, conn : Conn]
      \cup [type : {"ONLINE", "LOGOUT"}, chan : Slot, conn : Conn]
      \cup [type : {"BADCHANNEL"}, chan : Slot]
      \cup [type : {"PLAYERLOGOUT"}, chan : Slot, uid : Account]
\* What a client sends: CM_LOGIN for an account, CM_ONLINE, CM_REQUESTLOGOUT.
ClientMsg == [type : {"LOGIN"}, uid : Account] \cup [type : {"ONLINE", "LOGOUT"}]
PlayerMsg == [type : {"BINDCHANNEL", "BADCHANNEL"}, chan : Slot] \cup ClientMsg

\* A connection: its slot, the player bound to its Channel, the account it logged
\* in (history), what still runs for it, the screen of its client.
ConnState == [chan : Slot, uid : Account \cup {None}, acct : Account \cup {None},
              loops : SUBSET Loops, client : Phases, full : BOOLEAN]
\* A player: m_channID, the closure it waits for, the channel of its soft log-out,
\* the connection it was made for (history), its mailbox.
PlayerState == [state : {"none", "live", "offline", "detached"}, chan : Slot \cup {None, 0},
                wait : {"no", "bind", "bound", "unbind", "close"}, soft : Slot \cup {None},
                for : Conn \cup {None}, inbox : Seq(PlayerMsg)]

Entry(d, on) == [dbid |-> d, online |-> on]
NoEntry == Entry(None, FALSE)

NoPlayer == [state |-> "none", chan |-> None, wait |-> "no", soft |-> None,
             for |-> None, inbox |-> <<>>]

\* An assertion that fails, and the account, slot or connection it is about.
Fault == {"attach", "login", "dbid", "stranger", "bound", "lost", "packet", "bind", "unbind"}
            \X (Account \cup Slot \cup Conn)

ASSUME FaultAssumption == None \notin Fault

TypeOK ==
    /\ slot \in [Slot -> Conn \cup {None}]
    /\ freeQ \in Seq(Slot)
    /\ conn \in Seq(ConnState) /\ Len(conn) <= MaxConn
    /\ raced \in BOOLEAN
    /\ netQ \in Seq([op : {"bind", "unbind", "close"}, chan : Slot, uid : Account])
    /\ coreQ \in Seq(CoreMsg)
    /\ dbList \in [Slot -> [dbid : Account \cup {None, 0}, online : BOOLEAN]]
    /\ onlines \in Seq([chan : Slot, uid : Account, conn : Conn])
    /\ polls \in Seq([chan : Slot, uid : Account])
    /\ mapLoaded \in BOOLEAN
    /\ player \in [Account -> PlayerState]
    /\ seen \subseteq {"lateRead", "lateOnline", "lateBind", "lateTell", "overlap", "unmarked"}

Init ==
    /\ slot = [s \in Slot |-> None]
    /\ \E setup \in Setups : freeQ = setup.ids /\ mapLoaded = setup.loaded
    /\ conn = <<>>
    /\ raced = FALSE
    /\ netQ = <<>>
    /\ coreQ = <<>>
    /\ dbList = [s \in Slot |-> NoEntry]
    /\ onlines = <<>>
    /\ polls = <<>>
    /\ player = [d \in Account |-> NoPlayer]
    /\ seen = {}
    /\ fault = None

----------------------------------------------------------------------------
(* Messages between the threads.                                            *)

Open(k) == slot[conn[k].chan] = k

\* A message for a UID without a mailbox is dropped; a detached one is never read.
Deliver(pl, d, m) ==
    IF pl[d].state \in {"live", "offline"}
    THEN [pl EXCEPT ![d].inbox = Append(@, m)]
    ELSE pl

\* NetDriver::post writes to whatever connection the slot holds by then.
Tell(cs, s, phase) ==
    IF slot[s] = None \/ cs[slot[s]].client = "gone"
    THEN cs
    ELSE [cs EXCEPT ![slot[s]].client = phase]

ToCore(k, m) ==
    IF m.type = "LOGIN"
    THEN [type |-> "LOGIN", chan |-> conn[k].chan, uid |-> m.uid, conn |-> k]
    ELSE [type |-> m.type, chan |-> conn[k].chan, conn |-> k]

\* Channel::forwardActorMessage, to the bound player or to the core.
Forward(k, m) ==
    IF conn[k].uid # None
    THEN player' = Deliver(player, conn[k].uid, m) /\ UNCHANGED coreQ
    ELSE coreQ' = Append(coreQ, ToCore(k, m)) /\ UNCHANGED player

\* Mutants of DoClose: a free number is used again first (a stack, not a queue);
\* the end of a bound channel is told to one side only; no early return.
DoCloseStack(s, cs, ps) ==
    LET k == slot[s] IN
    IF k = None
    THEN conn' = cs /\ player' = ps /\ UNCHANGED <<slot, freeQ, coreQ>>
    ELSE /\ slot' = [slot EXCEPT ![s] = None]
         /\ freeQ' = <<s>> \o freeQ
         /\ conn' = [cs EXCEPT ![k].uid = None, ![k].full = (freeQ = <<>>)]
         /\ coreQ' = Append(coreQ, [type |-> "BADCHANNEL", chan |-> s])
         /\ player' = IF conn[k].uid = None THEN ps
                      ELSE Deliver(ps, conn[k].uid, [type |-> "BADCHANNEL", chan |-> s])

DoCloseTellsPlayer(s, cs, ps) ==
    LET k == slot[s] IN
    IF k = None
    THEN conn' = cs /\ player' = ps /\ UNCHANGED <<slot, freeQ, coreQ>>
    ELSE /\ slot' = [slot EXCEPT ![s] = None]
         /\ freeQ' = Append(freeQ, s)
         /\ conn' = [cs EXCEPT ![k].uid = None, ![k].full = (freeQ = <<>>)]
         /\ IF conn[k].uid = None
            THEN player' = ps /\ coreQ' = Append(coreQ, [type |-> "BADCHANNEL", chan |-> s])
            ELSE /\ player' = Deliver(ps, conn[k].uid, [type |-> "BADCHANNEL", chan |-> s])
                 /\ UNCHANGED coreQ

DoCloseTellsCore(s, cs, ps) ==
    LET k == slot[s] IN
    IF k = None
    THEN conn' = cs /\ player' = ps /\ UNCHANGED <<slot, freeQ, coreQ>>
    ELSE /\ slot' = [slot EXCEPT ![s] = None]
         /\ freeQ' = Append(freeQ, s)
         /\ conn' = [cs EXCEPT ![k].uid = None, ![k].full = (freeQ = <<>>)]
         /\ coreQ' = Append(coreQ, [type |-> "BADCHANNEL", chan |-> s])
         /\ player' = ps

DoCloseAgain(s, cs, ps) ==
    /\ slot' = [slot EXCEPT ![s] = None]
    /\ freeQ' = Append(freeQ, s)
    /\ conn' = cs /\ player' = ps
    /\ UNCHANGED coreQ

(* NetDriver::doClose and Channel::close: the slot number is all it goes by.*)
(* The pending read fails, a pending write does; a writer that waits for    *)
(* its timer finds the socket closed and ends. "full": no number was free.  *)
DoClose(s, cs, ps) ==
    LET k == slot[s] IN
    IF k = None
    THEN conn' = cs /\ player' = ps /\ UNCHANGED <<slot, freeQ, coreQ>>
    ELSE /\ slot' = [slot EXCEPT ![s] = None]
         /\ freeQ' = Append(freeQ, s)
         /\ \E ended \in SUBSET {"writer"} :
                conn' = [cs EXCEPT ![k].uid = None, ![k].full = (freeQ = <<>>),
                                   ![k].loops = @ \ ended]
         /\ coreQ' = Append(coreQ, [type |-> "BADCHANNEL", chan |-> s])
         /\ player' = IF conn[k].uid = None THEN ps
                      ELSE Deliver(ps, conn[k].uid, [type |-> "BADCHANNEL", chan |-> s])

----------------------------------------------------------------------------
(* The net thread.                                                          *)

\* Connections whose socket is closed but whose reader or writer has not ended.
Ending == {k \in DOMAIN conn : ~Open(k) /\ conn[k].loops # {}}

NewConn(s) == [chan |-> s, uid |-> None, acct |-> None, loops |-> Loops,
               client |-> "login", full |-> FALSE]

(* NetDriver::listener: the oldest free number goes to the new connection.  *)
(* asio runs its handlers first in, first out, and the accept asks for the  *)
(* next socket only when it has run: one accept at most comes between a     *)
(* close and the aborted read or write of the closed socket.                *)
Accept ==
    /\ freeQ # <<>> /\ Len(conn) < MaxConn
    /\ raced => Ending = {}
    /\ slot' = [slot EXCEPT ![Head(freeQ)] = Len(conn) + 1]
    /\ freeQ' = Tail(freeQ)
    /\ conn' = Append(conn, NewConn(Head(freeQ)))
    /\ raced' = (Ending # {})
    /\ UNCHANGED <<netQ, coreVars, player, seen, fault>>

(* What the client at the other end sends: it follows the screens of the    *)
(* game client (login, character selection, game) but may ask twice.        *)
MaySend(k, m) ==
    \/ /\ m.type = "LOGIN" /\ conn[k].client = "login"
       /\ OneLogin => \A j \in DOMAIN conn : conn[j].chan # conn[k].chan => conn[j].acct \in {None, m.uid}
    \/ m.type = "ONLINE" /\ conn[k].client = "select" /\ Len(onlines) <= MaxQueue
    \/ m.type = "LOGOUT" /\ conn[k].client = "game"

\* The bound on coreQ, but for the second click of an impatient user at the log-in.
CoreHasRoom(k, m) ==
    \/ Len(coreQ) < MaxQueue
    \/ m.type = "LOGIN" /\ Len(coreQ) = MaxQueue /\ Last(coreQ) = ToCore(k, m)

\* Channel::reader, a packet
Recv(k, m) ==
    /\ Open(k) /\ MaySend(k, m)
    /\ CoreHasRoom(k, m)
    /\ conn[k].uid # None => Len(player[conn[k].uid].inbox) < MaxQueue
    /\ Forward(k, m)
    /\ UNCHANGED <<netVars, dbList, onlines, polls, mapLoaded, seen, fault>>

\* A packet whose read was complete when the writer's error closed the channel.
RecvLate(k, m) ==
    /\ ~Open(k) /\ "reader" \in conn[k].loops /\ MaySend(k, m)
    /\ Forward(k, m)
    /\ conn' = [conn EXCEPT ![k].client = "gone"]
    /\ seen' = seen \cup {"lateRead"}
    /\ UNCHANGED <<slot, freeQ, raced, netQ, dbList, onlines, polls, mapLoaded, fault>>

\* The socket of an open channel breaks under its reader or its writer.
Break(k, loop) ==
    /\ Open(k) /\ loop \in conn[k].loops
    /\ DoClose(conn[k].chan, [conn EXCEPT ![k].loops = @ \ {loop}], player)
    /\ UNCHANGED <<raced, netQ, dbList, onlines, polls, mapLoaded, seen, fault>>

(* The error of a closed socket. checkErrcode throws a ChannelError, which  *)
(* knows the channel ID only: the loop around io_context::run closes        *)
(* whatever is in that slot by then.                                        *)
Abort(k, loop) ==
    LET left == conn[k].loops \ {loop}
        ended == [conn EXCEPT ![k].loops = left]
    IN  /\ ~Open(k) /\ loop \in conn[k].loops
        /\ DoClose(conn[k].chan,
                   IF left = {} THEN [ended EXCEPT ![k].client = "gone", ![k].full = FALSE]
                   ELSE ended, player)
        /\ UNCHANGED <<raced, netQ, dbList, onlines, polls, mapLoaded, seen, fault>>

----------------------------------------------------------------------------
(* The service core, one message at a time.                                 *)

Core == Head(coreQ)

\* addPlayer: the new Player.
AddPlayer(o) ==
    [NoPlayer EXCEPT !.state = "live", !.for = o.conn,
                     !.inbox = <<[type |-> "BINDCHANNEL", chan |-> o.chan]>>]

(* "placed" holds the coroutines whose character gets a cell of the map from *)
(* adjustMapGLoc; for the others addPlayer makes no player, and addCO leaves*)
(* the entry unmarked. Mutant: it marks without a look at the result.       *)
MarkAlways(i, placed) == TRUE
MarkMade(i, placed)   == i \in placed

\* attach() fails when the UID has a mailbox, also that of a player just added.
Refused(os, i, placed) ==
    /\ i \in placed
    /\ \/ player[os[i].uid].state # "none"
       \/ \E j \in placed : j < i /\ os[j].uid = os[i].uid

(* The coroutines "os" go on, one after another, until one is refused: the  *)
(* players and the entries that leaves, marked by the last coroutine of the *)
(* channel, the fault if any, and whether a player is left without its mark.*)
(* What m_dbidList[channID] has to create has the dbid 0.                   *)
Added(os, placed) ==
    LET done == {i \in DOMAIN os : \A j \in 1 .. i : ~Refused(os, j, placed)}
        next == CHOOSE i \in DOMAIN os \ done : \A j \in 1 .. i - 1 : j \in done
        made == done \cap placed
        last(s) == {i \in done : os[i].chan = s /\ \A j \in done : os[j].chan = s => j <= i}
    IN  [player |-> [d \in Account |->
            IF \E i \in made : os[i].uid = d
            THEN AddPlayer(os[CHOOSE i \in made : os[i].uid = d]) ELSE player[d]],
         dbList |-> [s \in Slot |->
            IF \E i \in done : os[i].chan = s
            THEN Entry(IF dbList[s] = NoEntry THEN 0 ELSE dbList[s].dbid, \E i \in last(s) : MarkMade(i, placed))
            ELSE dbList[s]],
         fault |-> IF done = DOMAIN os THEN None ELSE <<"attach", os[next].uid>>,
         unmarked |-> \E i \in made, j \in done \ made : os[i].chan = os[j].chan]

\* net_CM_LOGIN
Login ==
    LET s == Core.chan IN
    /\ Core.type = "LOGIN"
    /\ \/ /\ dbList[s] # NoEntry
          /\ fault' = <<"login", Core.conn>>
          /\ UNCHANGED <<dbList, conn>>
       \/ /\ \E t \in Slot \ {s} : dbList[t].dbid = Core.uid
          /\ conn' = Tell(conn, s, "login")
          /\ UNCHANGED <<dbList, fault>>
       \/ /\ dbList[s] = NoEntry /\ \A t \in Slot : dbList[t].dbid # Core.uid
          /\ dbList' = [dbList EXCEPT ![s] = Entry(Core.uid, FALSE)]
          /\ conn' = Tell([conn EXCEPT ![Core.conn].acct = Core.uid], s, "select")
          /\ UNCHANGED fault
    /\ UNCHANGED <<onlines, polls, mapLoaded, player, seen>>

\* net_CM_ONLINE, up to the end or to its co_await of the map.
Online ==
    LET s == Core.chan
        e == dbList[s]
        o == [chan |-> s, uid |-> e.dbid, conn |-> Core.conn]
    IN
    /\ Core.type = "ONLINE"
    /\ \/ /\ e.dbid = 0
          /\ fault' = <<"dbid", s>>
          /\ UNCHANGED <<dbList, player, onlines, seen>>
       \/ /\ e = NoEntry \/ (e.dbid # 0 /\ e.online)
          /\ UNCHANGED <<dbList, player, onlines, seen, fault>>
       \/ /\ e.dbid \in Account /\ ~e.online /\ mapLoaded
          /\ \E placed \in SUBSET {1} : LET st == Added(<<o>>, placed) IN
                player' = st.player /\ dbList' = st.dbList /\ fault' = st.fault
          /\ UNCHANGED <<onlines, seen>>
       \/ /\ e.dbid \in Account /\ ~e.online /\ ~mapLoaded
          /\ onlines' = Append(onlines, o)
          /\ seen' = IF \E i \in DOMAIN onlines : onlines[i].uid = o.uid
                     THEN seen \cup {"overlap"} ELSE seen
          /\ UNCHANGED <<dbList, player, fault>>
    /\ UNCHANGED <<conn, polls, mapLoaded>>

(* The map is loaded: requestLoadMap resumes the coroutines that joined the *)
(* pending load from the guard of the first, before the first goes on.      *)
MapLoaded ==
    /\ onlines # <<>>
    /\ \E placed \in SUBSET DOMAIN onlines :
          LET st == Added(Append(Tail(onlines), Head(onlines)), placed) IN
          /\ player' = st.player /\ dbList' = st.dbList /\ fault' = st.fault
          /\ seen' = seen \cup (IF \E i \in DOMAIN onlines : ~Open(onlines[i].conn) THEN {"lateOnline"} ELSE {})
                          \cup (IF st.unmarked THEN {"unmarked"} ELSE {})
    /\ onlines' = <<>>
    /\ mapLoaded' = TRUE
    /\ UNCHANGED <<netVars, coreQ, polls>>

\* ServiceCore::operateNet, a packet that only a player understands.
Gameplay ==
    LET e == dbList[Core.chan] IN
    /\ Core.type = "LOGOUT"
    /\ fault' = CASE e = NoEntry -> <<"stranger", Core.chan>>
                  [] e.dbid = 0 -> <<"dbid", Core.chan>>
                  [] OTHER -> None
    /\ UNCHANGED <<dbList, onlines, polls, mapLoaded, player, conn, seen>>

\* on_AM_BADCHANNEL
BadChannel ==
    /\ Core.type = "BADCHANNEL"
    /\ dbList' = [dbList EXCEPT ![Core.chan] = NoEntry]
    /\ UNCHANGED <<onlines, polls, mapLoaded, player, conn, seen, fault>>

\* Mutant of LogoutOK: the entry stays marked online.
LogoutOKMarked(s, d) ==
    IF dbList[s].dbid = d
    THEN conn' = Tell(conn, s, "select") /\ UNCHANGED dbList
    ELSE UNCHANGED <<dbList, conn>>

\* The end of on_AM_PLAYERLOGOUT, after the mailbox has gone.
LogoutOK(s, d) ==
    IF dbList[s].dbid = d
    THEN /\ dbList' = [dbList EXCEPT ![s].online = FALSE]
         /\ conn' = Tell(conn, s, "select")
    ELSE UNCHANGED <<dbList, conn>>

\* Mutant of PlayerLogout: the answer does not wait for the mailbox.
PlayerLogoutAtOnce ==
    /\ Core.type = "PLAYERLOGOUT"
    /\ LogoutOK(Core.chan, Core.uid)
    /\ UNCHANGED <<polls, onlines, mapLoaded, player, seen, fault>>

\* on_AM_PLAYERLOGOUT: asyncWait(10) as long as checkUIDExist.
PlayerLogout ==
    /\ Core.type = "PLAYERLOGOUT"
    /\ IF player[Core.uid].state # "none"
       THEN /\ polls' = Append(polls, [chan |-> Core.chan, uid |-> Core.uid])
            /\ UNCHANGED <<dbList, conn>>
       ELSE LogoutOK(Core.chan, Core.uid) /\ UNCHANGED polls
    /\ UNCHANGED <<onlines, mapLoaded, player, seen, fault>>

Poll(i) ==
    /\ player[polls[i].uid].state = "none"
    /\ LogoutOK(polls[i].chan, polls[i].uid)
    /\ polls' = RemoveAt(polls, i)
    /\ UNCHANGED <<slot, freeQ, raced, netQ, coreQ, onlines, mapLoaded, player, seen, fault>>

CoreStep ==
    /\ coreQ # <<>>
    /\ Login \/ Online \/ Gameplay \/ BadChannel \/ PlayerLogout
    /\ coreQ' = Tail(coreQ)
    /\ UNCHANGED <<slot, freeQ, raced, netQ>>

----------------------------------------------------------------------------
(* The player actors.                                                       *)

Idle(d, type) ==
    /\ player[d].state \in {"live", "offline"} /\ player[d].wait = "no"
    /\ player[d].inbox # <<>> /\ Head(player[d].inbox).type = type

\* asio::post to the net thread, then wait for the closure to be done.
Post(op, s, d) == netQ' = Append(netQ, [op |-> op, chan |-> s, uid |-> d])

Taken(d) == [player[d] EXCEPT !.inbox = Tail(@)]

\* Player::on_AM_BINDCHANNEL
BindChannel(d) ==
    /\ Idle(d, "BINDCHANNEL")
    /\ IF player[d].chan # None
       THEN fault' = <<"bound", d>> /\ UNCHANGED <<player, netQ>>
       ELSE LET s == Head(player[d].inbox).chan IN
            /\ player' = [player EXCEPT ![d] = [Taken(d) EXCEPT !.chan = s, !.wait = "bind"]]
            /\ Post("bind", s, d)
            /\ UNCHANGED fault
    /\ UNCHANGED <<slot, freeQ, conn, raced, coreVars, seen>>

\* Player::goOffline, up to the blocking call: of a lost channel or a soft log-out.
GoOffline(d, soft) ==
    LET s == player[d].chan IN
    /\ player' = [player EXCEPT ![d] =
            [Taken(d) EXCEPT !.chan = 0, !.state = "offline",
                             !.wait = IF soft THEN "unbind" ELSE "close",
                             !.soft = IF soft THEN s ELSE None]]
    /\ Post(IF soft THEN "unbind" ELSE "close", s, d)

\* Player::on_AM_BADCHANNEL, with its assertion on the channel ID
LostChannel(d) ==
    LET s == player[d].chan IN
    /\ Idle(d, "BADCHANNEL")
    /\ IF s = None \/ (s # 0 /\ s # Head(player[d].inbox).chan)
       THEN fault' = <<"lost", d>> /\ UNCHANGED <<player, netQ>>
       ELSE /\ \/ s = 0 /\ player' = [player EXCEPT ![d] = Taken(d)] /\ UNCHANGED netQ
               \/ s # 0 /\ GoOffline(d, FALSE)
            /\ UNCHANGED fault
    /\ UNCHANGED <<slot, freeQ, conn, raced, coreVars, seen>>

\* net_CM_REQUESTLOGOUT
RequestLogout(d) ==
    /\ Idle(d, "LOGOUT") /\ player[d].chan \in Slot
    /\ GoOffline(d, TRUE)
    /\ UNCHANGED <<slot, freeQ, conn, raced, coreVars, seen, fault>>

\* A packet of the other screens is unknown to Player::operateNet.
OtherPacket(d) ==
    /\ Idle(d, "LOGIN") \/ Idle(d, "ONLINE")
    /\ player[d].chan \in Slot
    /\ fault' = <<"packet", d>>
    /\ UNCHANGED <<netVars, coreVars, player, seen>>

\* on_AM_RECVPACKAGE frees the packet when the player has no channel.
Ignore(d) ==
    /\ \E type \in {"LOGIN", "ONLINE", "LOGOUT"} : Idle(d, type)
    /\ player[d].chan \in {None, 0}
    /\ player' = [player EXCEPT ![d] = Taken(d)]
    /\ UNCHANGED <<netVars, coreVars, seen, fault>>

\* postOnlineOK, when the blocking call of on_AM_BINDCHANNEL has returned.
OnlineOK(d) ==
    /\ player[d].wait = "bound"
    /\ player' = [player EXCEPT ![d].wait = "no"]
    /\ conn' = Tell(conn, player[d].chan, "game")
    /\ seen' = IF slot[player[d].chan] # player[d].for THEN seen \cup {"lateTell"} ELSE seen
    /\ UNCHANGED <<slot, freeQ, raced, netQ, coreVars, fault>>

\* Mutants of Deactivate: every player reports a log-out; none does.
DeactivateReports(d) ==
    /\ player[d].state = "offline" /\ player[d].wait = "no"
    /\ player' = [player EXCEPT ![d].state = "detached", ![d].inbox = <<>>]
    /\ coreQ' = Append(coreQ, [type |-> "PLAYERLOGOUT", chan |-> player[d].soft, uid |-> d])
    /\ UNCHANGED <<netVars, dbList, onlines, polls, mapLoaded, seen, fault>>

DeactivateSilent(d) ==
    /\ player[d].state = "offline" /\ player[d].wait = "no"
    /\ player' = [player EXCEPT ![d].state = "detached", ![d].inbox = <<>>]
    /\ UNCHANGED <<netVars, coreVars, seen, fault>>

\* The Lua thread of SYS_ON_OFFLINE ends: fnDeactivate.
Deactivate(d) ==
    /\ player[d].state = "offline" /\ player[d].wait = "no"
    /\ player' = [player EXCEPT ![d].state = "detached", ![d].inbox = <<>>]
    /\ coreQ' = IF player[d].soft = None THEN coreQ
                ELSE Append(coreQ, [type |-> "PLAYERLOGOUT", chan |-> player[d].soft, uid |-> d])
    /\ UNCHANGED <<netVars, dbList, onlines, polls, mapLoaded, seen, fault>>

\* The actor pool erases the mailbox of a detached actor, in its own time.
Erase(d) ==
    /\ player[d].state = "detached"
    /\ player' = [player EXCEPT ![d] = NoPlayer]
    /\ UNCHANGED <<netVars, coreVars, seen, fault>>

----------------------------------------------------------------------------
(* The net thread runs what the players posted.                             *)

\* NetDriver::bindPlayer and Channel::bindPlayer
RunBind(s, d) ==
    /\ player' = [player EXCEPT ![d].wait = "bound"]
    /\ IF slot[s] = None
       THEN UNCHANGED <<conn, fault>>
       ELSE IF conn[slot[s]].uid # None
       THEN fault' = <<"bind", s>> /\ UNCHANGED conn
       ELSE conn' = [conn EXCEPT ![slot[s]].uid = d] /\ UNCHANGED fault
    /\ seen' = IF slot[s] # player[d].for THEN seen \cup {"lateBind"} ELSE seen
    /\ UNCHANGED <<slot, freeQ, coreQ>>

\* NetDriver::unbindPlayer and Channel::unbindPlayer
RunUnbind(s, d) ==
    /\ player' = [player EXCEPT ![d].wait = "no"]
    /\ IF slot[s] = None
       THEN UNCHANGED <<conn, fault>>
       ELSE IF conn[slot[s]].uid # d
       THEN fault' = <<"unbind", d>> /\ UNCHANGED conn
       ELSE conn' = [conn EXCEPT ![slot[s]].uid = None] /\ UNCHANGED fault
    /\ UNCHANGED <<slot, freeQ, coreQ, seen>>

\* Mutant of RunClose: the player is woken only if its channel was still there.
RunCloseWakes(s, d) ==
    /\ DoClose(s, conn, IF slot[s] = None THEN player ELSE [player EXCEPT ![d].wait = "no"])
    /\ UNCHANGED <<seen, fault>>

\* NetDriver::close
RunClose(s, d) ==
    /\ DoClose(s, conn, [player EXCEPT ![d].wait = "no"])
    /\ UNCHANGED <<seen, fault>>

RunPosted ==
    LET p == Head(netQ) IN
    /\ netQ # <<>>
    /\ netQ' = Tail(netQ)
    /\ \/ p.op = "bind" /\ RunBind(p.chan, p.uid)
       \/ p.op = "unbind" /\ RunUnbind(p.chan, p.uid)
       \/ p.op = "close" /\ RunClose(p.chan, p.uid)
    /\ UNCHANGED <<raced, dbList, onlines, polls, mapLoaded>>

----------------------------------------------------------------------------
Channels == \E k \in DOMAIN conn :
               \/ \E m \in ClientMsg : Recv(k, m) \/ RecvLate(k, m)
               \/ \E l \in Loops : Break(k, l) \/ Abort(k, l)
CoreActor == \/ CoreStep \/ MapLoaded \/ \E i \in DOMAIN polls : Poll(i)
PlayerStep(d) == \/ BindChannel(d) \/ LostChannel(d) \/ RequestLogout(d) \/ OtherPacket(d) \/ Ignore(d)
                 \/ OnlineOK(d) \/ Deactivate(d) \/ Erase(d)

Next == /\ fault = None
        /\ Accept \/ Channels \/ RunPosted \/ CoreActor \/ \E d \in Account : PlayerStep(d)

Spec == Init /\ [][Next]_vars

(* The net thread, the workers of the actor pool and the other server keep  *)
(* running; a socket whose client has vanished is reported in the end.      *)
Fairness ==
    /\ WF_vars(fault = None /\ RunPosted)
    /\ WF_vars(fault = None /\ CoreStep)
    /\ WF_vars(fault = None /\ MapLoaded)
    /\ WF_vars(fault = None /\ \E i \in DOMAIN polls : Poll(i))
    /\ \A d \in Account : WF_vars(fault = None /\ PlayerStep(d))

FairSpec == Spec /\ Fairness

----------------------------------------------------------------------------
(* Properties.                                                              *)

\* A BADCHANNEL for the slot that the core has not read yet.
Closing(s) == \E i \in DOMAIN coreQ : coreQ[i].type = "BADCHANNEL" /\ coreQ[i].chan = s

Fails(kinds) == fault # None /\ fault[1] \in kinds

\* The core or the net thread has acted on a slot whose connection had gone.
Late == seen \cap {"lateRead", "lateOnline", "lateBind", "lateTell"} # {}

(* A channel number is free once or belongs to one open connection, and none*)
(* is lost, however often a channel is closed from its reader, its writer   *)
(* and its player (doClose returns early for a slot that is empty).         *)
NumbersConserved ==
    /\ IsInjective(freeQ)
    /\ \A s \in Range(freeQ) : slot[s] = None
    /\ \A s \in Slot : slot[s] # None => slot[s] \in DOMAIN conn /\ conn[slot[s]].chan = s
    /\ \E setup \in Setups : Range(setup.ids) = Range(freeQ) \cup {s \in Slot : slot[s] # None}

(* The error of a connection that is already closed closes another client's *)
(* connection only if no channel number was free when the first one closed: *)
(* the queue of numbers keeps the slot out of use until then.               *)
StrangersClosed ==
    [][\A j, k \in DOMAIN conn :
        j # k /\ Open(j) /\ ~Open(j)' /\ conn'[k].loops # conn[k].loops => conn[k].full]_vars

(* An entry of m_dbidList is of the connection in that slot, or the core has*)
(* the BADCHANNEL still to read, unless a packet or the map came after the  *)
(* BADCHANNEL of their connection.                                          *)
EntryFollowsChannel ==
    \A s \in Slot : dbList[s] # NoEntry /\ ~Closing(s) =>
        \/ slot[s] # None /\ conn[slot[s]].acct = dbList[s].dbid
        \/ seen \cap {"lateRead", "lateOnline"} # {}

(* An account that is marked online has its player, or its log-out is under *)
(* way and will clear the mark, also when addPlayer has made no player: no  *)
(* client is refused with ONLINEERR_MULTIONLINE for ever.                   *)
NoStuckEntry ==
    \A s \in Slot : dbList[s].online /\ dbList[s].dbid \in Account /\ ~Closing(s) =>
        \/ player[dbList[s].dbid].state # "none"
        \/ \E i \in DOMAIN coreQ : /\ coreQ[i].type = "PLAYERLOGOUT" /\ coreQ[i].chan = s
                                   /\ coreQ[i].uid = dbList[s].dbid
        \/ \E i \in DOMAIN polls : polls[i].chan = s /\ polls[i].uid = dbList[s].dbid
        \/ "lateOnline" \in seen \/ fault # None

(* The assertions of net_CM_LOGIN, findDBID, operateNet, bindPlayer,        *)
(* unbindPlayer and on_AM_BADCHANNEL hold, but for a client that sends      *)
(* CM_LOGIN twice, something late, and an unbind in a slot that has changed *)
(* hands; those of the player on its own channel hold always. addPlayer     *)
(* meets the mailbox of the account's last player only if that one lost its *)
(* connection, two CM_ONLINE of a channel waited for the map, or the last of*)
(* several in its slot made no player and took the mark away; never after   *)
(* a log-out: AM_PLAYERLOGOUT is answered when the mailbox has gone.        *)
FaultsExplained ==
    /\ Fails({"attach"}) => \/ ~Open(player[fault[2]].for) \/ "overlap" \in seen
                            \/ "unmarked" \in seen
    /\ Fails({"login"}) => conn[fault[2]].acct # None \/ Late
    /\ Fails({"dbid", "stranger", "bind"}) => Late
    /\ Fails({"unbind"}) => ~Open(player[fault[2]].for)
    /\ ~Fails({"lost", "bound"})

(* A player in the game hears of the end of its connection: either a channel*)
(* is bound to it or AM_BADCHANNEL is in its mailbox, unless the channel had*)
(* gone before the player bound it.                                         *)
DeafOnlyIfBoundLate ==
    \A d \in Account :
        player[d].state = "live" /\ player[d].chan \in Slot /\ player[d].wait = "no" =>
            \/ \E k \in DOMAIN conn : conn[k].uid = d
            \/ \E i \in DOMAIN player[d].inbox : player[d].inbox[i].type = "BADCHANNEL"
            \/ "lateBind" \in seen

(* A player whose connection has gone goes offline and its mailbox is       *)
(* erased, unless the channel had gone before the player bound it.          *)
DroppedPlayerLeaves ==
    \A d \in Account :
        player[d].state = "live" /\ ~Open(player[d].for)
            ~> player[d].state = "none" \/ "lateBind" \in seen \/ fault # None

(* A client that logs out gets the character screen back if it stays        *)
(* connected. (Without its mark an account may come online again first, and *)
(* then AM_PLAYERLOGOUT waits for the new player to go.)                    *)
LogoutAnswered ==
    \A d \in Account, k \in Conn :
        k \in DOMAIN conn /\ player[d].for = k /\ player[d].soft # None
            ~> \/ k \in DOMAIN conn /\ (~Open(k) \/ conn[k].client = "select")
               \/ "unmarked" \in seen \/ fault # None
=============================================================================
