---------------------------- MODULE MapRegistry ----------------------------
(* The maps of a server: who runs which map, and how it is loaded, entered  *)
(* and closed (servicecore.cpp, peercore.cpp, servermapop.cpp,              *)
(* battleobject.cpp).                                                       *)
(*                                                                          *)
(* The service core keeps the list of all maps. A map of its own process it *)
(* makes itself; for the others it calls the peer core of their process.    *)
(* Quest scripts open and close instance maps, players switch between maps, *)
(* and a map that closes sends its players to an exit map. Every one of     *)
(* them is an actor whose handlers are suspended in calls while it answers  *)
(* other messages, so loads, closes and switches of one map overlap.        *)
(*                                                                          *)
(* An fflassert or a throw ends the server: "fault" names it.               *)
EXTENDS Integers, Sequences, FiniteSets, SequencesExt

CONSTANTS
    Base,       \* base maps
    Instance,   \* UIDs that buildMapUID hands out
    Home,       \* the base map where players start
    Exit,       \* the base map that closing scripts name as the exit
    Setups,     \* [remote: maps of the other process, loaded: base maps that are loaded]
    Script,     \* quests whose scripts open and close instance maps
    Player,
    MaxClose,   \* bound: AM_CLOSEMAPs of a script
    Mortal,     \* bound: players that may die
    MaxSwitch,  \* bound: switches that each player asks for
    Core, Peer, \* the service core and the peer core of the other process
    None

Map == Base \cup Instance

ASSUME RegistryAssumption ==
    /\ {Home, Exit} \subseteq Base /\ Base \cap Instance = {}
    /\ Setups \subseteq [remote : SUBSET Map, loaded : SUBSET Base]
    /\ \A setup \in Setups : Home \in setup.loaded
    /\ MaxClose \in Nat /\ MaxSwitch \in [Player -> Nat] /\ Mortal \subseteq Player
    /\ IsFiniteSet(Player)

\* Every actor has a UID of its own, and none has the invalid one.
ASSUME ActorAssumption ==
    /\ Core # Peer /\ {Core, Peer} \cap (Map \cup Script \cup Player) = {}
    /\ Map \cap (Script \cup Player) = {} /\ Script \cap Player = {}
    /\ None \notin {Core, Peer} \cup Map \cup Script \cup Player
    /\ {"busy", "locked"} \cap Player = {}

VARIABLES
    remote,     \* the maps that run in the other process
    coreList,   \* m_mapList of the service core
    peerList,   \* m_mapList of the peer core
    loadOp,     \* m_loadMapPendingOps: the request that is under way, and those that wait for it
    closeOp,    \* m_closeMapPendingOps
    map,        \* the map actors
    script,     \* what each script waits for
    opened,     \* instance UIDs built so far
    known,      \* those whose load was answered: scripts can name them
    player,     \* where each player is, and how far its switch is
    box,        \* mailboxes
    seen,       \* history: overlaps that have happened, and players that entered a closing map
    fault       \* what ended the server

coreVars == <<coreList, loadOp, closeOp>>
vars == <<remote, coreVars, peerList, map, script, opened, known, player, box, seen, fault>>

Actor == {Core, Peer} \cup Map \cup Script \cup Player

\* "by" is who asked, "flag" what was asked for (waitActivated) or answered.
Msg(type, m, by, flag) == [type |-> type, map |-> m, by |-> by, flag |-> flag]

\* What an assertion that fails is about.
Fault == ({"attach", "stray"} \X Map \X Actor) \cup ({"closing", "peerList", "exit", "switch"} \X Actor)

ASSUME FaultAssumption == None \notin Fault

MsgType == {"LOADMAP", "CLOSEMAP", "LOADED", "CLOSED", "WAITACTIVATED", "ACTIVATED",
            "TRYMAPSWITCH", "ALLOW", "SWITCHOK", "SWITCHERROR", "TRYLEAVE", "LEAVEOK",
            "FINISHLEAVE", "TRIGGER", "SWITCHED", "BAD"}

NoMap == [state |-> "none", active |-> FALSE, closing |-> None, todo |-> <<>>,
          waiting |-> <<>>, grid |-> {}, lock |-> None]
NewMap == [NoMap EXCEPT !.state = "live"]

TypeOK ==
    /\ remote \subseteq Map /\ coreList \subseteq Map /\ peerList \subseteq remote
    /\ loadOp \in [Map -> Seq([by : Actor, wait : BOOLEAN])]
    /\ closeOp \in [Map -> Seq(Script)]
    /\ map \in [Map -> [state : {"none", "live", "closed"}, active : BOOLEAN, closing : {None, Core, Peer},
                          todo : Seq(Player), waiting : Seq(Actor), grid : SUBSET Player,
                          lock : Player \cup {None}]]
    /\ script \in [Script -> [op : {"idle", "load", "close"}, map : Map \cup {None}, n : 0 .. MaxClose]]
    /\ known \subseteq opened /\ opened \subseteq Instance
    /\ player \in [Player -> [at : Map, to : Map, step : {"idle", "load", "try", "leave", "left"},
                              for : Map \cup {None}, dead : BOOLEAN, n : Nat]]
    /\ box \in [Actor -> Seq([type : MsgType, map : Map, by : Actor, flag : BOOLEAN])]
    /\ seen \subseteq {"busy", "locked"} \cup Player
    /\ fault \in Fault \cup {None}

Init ==
    \E setup \in Setups :
        /\ remote = setup.remote
        /\ coreList = setup.loaded
        /\ peerList = setup.loaded \cap setup.remote
        /\ loadOp = [m \in Map |-> <<>>]
        /\ closeOp = [m \in Map |-> <<>>]
        /\ map = [m \in Map |->
                    IF m = Home THEN [NewMap EXCEPT !.active = TRUE, !.grid = Player]
                    ELSE IF m \in setup.loaded THEN [NewMap EXCEPT !.active = TRUE]
                    ELSE NoMap]
        /\ script = [s \in Script |-> [op |-> "idle", map |-> None, n |-> 0]]
        /\ opened = {}
        /\ known = {}
        /\ player = [p \in Player |-> [at |-> Home, to |-> Home, step |-> "idle",
                                       for |-> None, dead |-> FALSE, n |-> 0]]
        /\ box = [a \in Actor |-> <<>>]
        /\ seen = {}
        /\ fault = None

----------------------------------------------------------------------------
(* Messages.                                                                *)

Put(b, a, msg) == [b EXCEPT ![a] = Append(@, msg)]

Post(to, msg) == [to |-> to, msg |-> msg]
Deliver(b, post) == IF post.to = None THEN b ELSE Put(b, post.to, post.msg)

\* What a gets of several posts, in their order.
MailTo(a, posts) ==
    LET mine == {i \in DOMAIN posts : posts[i].to = a}
        nth(n) == CHOOSE i \in mine : Cardinality({j \in mine : j <= i}) = n
    IN  [n \in 1 .. Cardinality(mine) |-> posts[nth(n)].msg]
DeliverAll(b, posts) == [a \in Actor |-> b[a] \o MailTo(a, posts)]

\* What the sender gets for a message to an actor that has gone (AM_BADACTORPOD).
Refusal(msg) ==
    CASE msg.type = "WAITACTIVATED" ->
           Post(IF msg.by = Peer THEN Peer ELSE Core, [msg EXCEPT !.type = "ACTIVATED", !.flag = FALSE])
      [] msg.type = "CLOSEMAP" -> Post(msg.by, [msg EXCEPT !.type = "CLOSED", !.flag = FALSE])
      [] msg.type \in {"TRYMAPSWITCH", "TRYLEAVE", "LEAVEOK"} -> Post(msg.by, [msg EXCEPT !.type = "BAD"])
      [] OTHER -> Post(None, msg)

\* To a map.
Reach(ms, m, msg) == IF ms[m].state = "live" THEN Post(m, msg) ELSE Refusal(msg)
Call(b, ms, m, msg) == Deliver(b, Reach(ms, m, msg))

Take(a) == [box EXCEPT ![a] = Tail(@)]
Got(a) == box[a] # <<>>
Top(a) == Head(box[a])

\* PeerCore::loadMap, of the peer core or of the service core: the new actor's
\* mailbox must not be there yet.
Attach(m) == map' = [map EXCEPT ![m] = NewMap]
CanAttach(m) == map[m].state = "none"

----------------------------------------------------------------------------
(* The service core.                                                        *)

\* result_WAIT_MAP_ACTIVATED and the answer of on_AM_LOADMAP.
Answering(ms, m, r, ok, wait) ==
    IF ok /\ wait THEN Reach(ms, m, Msg("WAITACTIVATED", m, r, TRUE))
    ELSE Post(r, Msg("LOADED", m, r, ok))
Answer(b, ms, m, r, ok, wait) == Deliver(b, Answering(ms, m, r, ok, wait))

Closed(b, m, r, ok) == Put(b, r, Msg("CLOSED", m, r, ok))

\* Mutant of CoreLoadMap: instance maps are all made by the peer core.
CoreLoadMapAtPeer ==
    LET m == Top(Core).map  r == Top(Core).by  wait == Top(Core).flag IN
    /\ Got(Core) /\ Top(Core).type = "LOADMAP"
    /\ IF m \in coreList
       THEN /\ box' = Answer(Take(Core), map, m, r, TRUE, wait)
            /\ UNCHANGED <<coreVars, map, fault>>
       ELSE IF m \notin remote /\ m \notin Instance
       THEN IF CanAttach(m)
            THEN /\ Attach(m)
                 /\ coreList' = coreList \cup {m}
                 /\ box' = Answer(Take(Core), map', m, r, TRUE, wait)
                 /\ UNCHANGED <<loadOp, closeOp, fault>>
            ELSE /\ fault' = <<"attach", m, r>>
                 /\ UNCHANGED <<coreVars, map, box>>
       ELSE /\ loadOp' = [loadOp EXCEPT ![m] = Append(@, [by |-> r, wait |-> wait])]
            /\ box' = IF loadOp[m] = <<>> THEN Put(Take(Core), Peer, Msg("LOADMAP", m, Core, wait))
                      ELSE Take(Core)
            /\ UNCHANGED <<coreList, closeOp, map, fault>>
    /\ UNCHANGED <<remote, peerList, script, opened, known, player, seen>>

CoreLoadMap ==
    LET m == Top(Core).map  r == Top(Core).by  wait == Top(Core).flag IN
    /\ Got(Core) /\ Top(Core).type = "LOADMAP"
    /\ IF m \in coreList
       THEN /\ box' = Answer(Take(Core), map, m, r, TRUE, wait)
            /\ UNCHANGED <<coreVars, map, fault>>
       ELSE IF m \notin remote
       THEN IF CanAttach(m)
            THEN /\ Attach(m)
                 /\ coreList' = coreList \cup {m}
                 /\ box' = Answer(Take(Core), map', m, r, TRUE, wait)
                 /\ UNCHANGED <<loadOp, closeOp, fault>>
            ELSE /\ fault' = <<"attach", m, r>>
                 /\ UNCHANGED <<coreVars, map, box>>
       ELSE /\ loadOp' = [loadOp EXCEPT ![m] = Append(@, [by |-> r, wait |-> wait])]
            /\ box' = IF loadOp[m] = <<>> THEN Put(Take(Core), Peer, Msg("LOADMAP", m, Core, wait))
                      ELSE Take(Core)
            /\ UNCHANGED <<coreList, closeOp, map, fault>>
    /\ UNCHANGED <<remote, peerList, script, opened, known, player, seen>>

\* Mutant of CoreLoaded: those that wait are dropped with the operation.
CoreLoadedAlone ==
    LET m == Top(Core).map  ok == Top(Core).flag  first == Head(loadOp[m]) IN
    /\ Got(Core) /\ Top(Core).type = "LOADED"
    /\ coreList' = IF ok THEN coreList \cup {m} ELSE coreList
    /\ loadOp' = [loadOp EXCEPT ![m] = <<>>]
    /\ box' = Put(Take(Core), first.by, Msg("LOADED", m, first.by, ok))
    /\ UNCHANGED <<remote, closeOp, peerList, map, script, opened, known, player, seen, fault>>

\* The answer of the peer core: those that wait are resumed first, by the guard.
CoreLoaded ==
    LET m == Top(Core).map  ok == Top(Core).flag
        first == Head(loadOp[m])  rest == Tail(loadOp[m])  listed == m \in coreList'
        replies == [i \in DOMAIN rest |-> Answering(map, m, rest[i].by, listed, rest[i].wait)] IN
    /\ Got(Core) /\ Top(Core).type = "LOADED"
    /\ coreList' = IF ok THEN coreList \cup {m} ELSE coreList
    /\ loadOp' = [loadOp EXCEPT ![m] = <<>>]
    /\ box' = Put(DeliverAll(Take(Core), replies), first.by, Msg("LOADED", m, first.by, ok))
    /\ UNCHANGED <<remote, closeOp, peerList, map, script, opened, known, player, seen, fault>>

CoreActivated ==
    LET r == Top(Core).by IN
    /\ Got(Core) /\ Top(Core).type = "ACTIVATED"
    /\ box' = Put(Take(Core), r, [Top(Core) EXCEPT !.type = "LOADED"])
    /\ UNCHANGED <<remote, coreVars, peerList, map, script, opened, known, player, seen, fault>>

\* Mutant of CoreCloseMap: a close that is under way is not looked for.
CoreCloseMapAgain ==
    LET m == Top(Core).map  r == Top(Core).by  close == Msg("CLOSEMAP", m, Core, TRUE) IN
    /\ Got(Core) /\ Top(Core).type = "CLOSEMAP"
    /\ IF m \notin coreList
       THEN /\ box' = Closed(Take(Core), m, r, TRUE)
            /\ UNCHANGED closeOp
       ELSE /\ closeOp' = [closeOp EXCEPT ![m] = Append(@, r)]
            /\ box' = IF m \in remote THEN Put(Take(Core), Peer, close)
                      ELSE Call(Take(Core), map, m, close)
    /\ UNCHANGED <<remote, coreList, loadOp, peerList, map, script, opened, known, player, seen, fault>>

CoreCloseMap ==
    LET m == Top(Core).map  r == Top(Core).by  close == Msg("CLOSEMAP", m, Core, TRUE) IN
    /\ Got(Core) /\ Top(Core).type = "CLOSEMAP"
    /\ IF m \notin coreList
       THEN /\ box' = Closed(Take(Core), m, r, TRUE)
            /\ UNCHANGED closeOp
       ELSE /\ closeOp' = [closeOp EXCEPT ![m] = Append(@, r)]
            /\ box' = IF closeOp[m] # <<>> THEN Take(Core)
                      ELSE IF m \in remote THEN Put(Take(Core), Peer, close)
                      ELSE Call(Take(Core), map, m, close)
    /\ UNCHANGED <<remote, coreList, loadOp, peerList, map, script, opened, known, player, seen, fault>>

CoreClosed ==
    LET m == Top(Core).map  ok == Top(Core).flag
        first == Head(closeOp[m])  rest == Tail(closeOp[m])  listed == m \in coreList'
        replies == [i \in DOMAIN rest |-> Post(rest[i], Msg("CLOSED", m, rest[i], ~listed))] IN
    /\ Got(Core) /\ Top(Core).type = "CLOSED"
    /\ coreList' = IF ok THEN coreList \ {m} ELSE coreList
    /\ closeOp' = [closeOp EXCEPT ![m] = <<>>]
    /\ box' = Closed(DeliverAll(Take(Core), replies), m, first, ok)
    /\ UNCHANGED <<remote, loadOp, peerList, map, script, opened, known, player, seen, fault>>

CoreStep == CoreLoadMap \/ CoreLoaded \/ CoreActivated \/ CoreCloseMap \/ CoreClosed

----------------------------------------------------------------------------
(* The peer core.                                                           *)

PeerLoadMap ==
    LET m == Top(Peer).map  wait == Top(Peer).flag IN
    /\ Got(Peer) /\ Top(Peer).type = "LOADMAP"
    /\ IF m \in peerList \/ CanAttach(m)
       THEN /\ IF m \in peerList THEN UNCHANGED map ELSE Attach(m)
            /\ peerList' = peerList \cup {m}
            /\ box' = IF wait THEN Call(Take(Peer), map', m, Msg("WAITACTIVATED", m, Peer, TRUE))
                      ELSE Put(Take(Peer), Core, Msg("LOADED", m, Core, TRUE))
            /\ UNCHANGED fault
       ELSE /\ fault' = <<"attach", m, Head(loadOp[m]).by>>
            /\ UNCHANGED <<map, peerList, box>>
    /\ UNCHANGED <<remote, coreVars, script, opened, known, player, seen>>

PeerActivated ==
    /\ Got(Peer) /\ Top(Peer).type = "ACTIVATED"
    /\ box' = Put(Take(Peer), Core, [Top(Peer) EXCEPT !.type = "LOADED"])
    /\ UNCHANGED <<remote, coreVars, peerList, map, script, opened, known, player, seen, fault>>

PeerCloseMap ==
    LET m == Top(Peer).map IN
    /\ Got(Peer) /\ Top(Peer).type = "CLOSEMAP"
    /\ IF m \in peerList
       THEN /\ box' = Call(Take(Peer), map, m, Msg("CLOSEMAP", m, Peer, TRUE))
            /\ UNCHANGED fault
       ELSE fault' = <<"peerList", m>> /\ UNCHANGED box
    /\ UNCHANGED <<remote, coreVars, peerList, map, script, opened, known, player, seen>>

\* Mutant of PeerClosed: the map stays in the list.
PeerClosedKeeps ==
    /\ Got(Peer) /\ Top(Peer).type = "CLOSED"
    /\ box' = Put(Take(Peer), Core, Top(Peer))
    /\ UNCHANGED <<remote, coreVars, peerList, map, script, opened, known, player, seen, fault>>

PeerClosed ==
    LET m == Top(Peer).map  ok == Top(Peer).flag IN
    /\ Got(Peer) /\ Top(Peer).type = "CLOSED"
    /\ peerList' = IF ok THEN peerList \ {m} ELSE peerList
    /\ box' = Put(Take(Peer), Core, Top(Peer))
    /\ UNCHANGED <<remote, coreVars, map, script, opened, known, player, seen, fault>>

PeerStep == PeerLoadMap \/ PeerActivated \/ PeerCloseMap \/ PeerClosed

----------------------------------------------------------------------------
(* The maps.                                                                *)

MapUnchanged == UNCHANGED <<remote, coreVars, peerList, script, opened, known, player>>

\* onActivate() of the map has run; who waited for it is answered.
Activated(m, r) == Post(IF r = Peer THEN Peer ELSE Core, Msg("ACTIVATED", m, r, TRUE))

Activate(m) ==
    /\ map[m].state = "live" /\ ~map[m].active
    /\ map' = [map EXCEPT ![m].active = TRUE, ![m].waiting = <<>>]
    /\ box' = DeliverAll(box, [i \in DOMAIN map[m].waiting |-> Activated(m, map[m].waiting[i])])
    /\ MapUnchanged /\ UNCHANGED <<seen, fault>>

WaitActivated(m) ==
    /\ Got(m) /\ Top(m).type = "WAITACTIVATED"
    /\ IF map[m].active
       THEN box' = Deliver(Take(m), Activated(m, Top(m).by)) /\ UNCHANGED map
       ELSE box' = Take(m) /\ map' = [map EXCEPT ![m].waiting = Append(@, Top(m).by)]
    /\ MapUnchanged /\ UNCHANGED <<seen, fault>>

\* on_AM_CLOSEMAP, up to the load of the exit map.
CloseMap(m) ==
    /\ Got(m) /\ Top(m).type = "CLOSEMAP"
    /\ IF map[m].closing = None
       THEN /\ map' = [map EXCEPT ![m].closing = Top(m).by]
            /\ box' = Put(Take(m), Core, Msg("LOADMAP", Exit, m, TRUE))
            /\ UNCHANGED fault
       ELSE fault' = <<"closing", m>> /\ UNCHANGED <<map, box>>
    /\ MapUnchanged /\ UNCHANGED seen

\* The rest of it, one player after another: the last step answers, and the
\* mailbox is detached, which refuses what is still in it.
Evacuate(b, m, todo) ==
    IF todo # <<>>
    THEN /\ map' = [map EXCEPT ![m].todo = todo]
         /\ box' = Put(b, Head(todo), Msg("TRIGGER", Exit, m, TRUE))
    ELSE /\ map' = [map EXCEPT ![m] = [NoMap EXCEPT !.state = "closed"]]
         /\ box' = [DeliverAll(Put(b, map[m].closing, Msg("CLOSED", m, map[m].closing, TRUE)),
                               [i \in DOMAIN b[m] |-> Refusal(b[m][i])]) EXCEPT ![m] = <<>>]

\* Players that are entering the map are not in its grid yet.
Note(happens, what) == seen' = IF happens THEN seen \cup {what} ELSE seen

ExitLoaded(m) ==
    /\ Got(m) /\ Top(m).type = "LOADED"
    /\ IF Top(m).flag
       THEN /\ \E todo \in SetToSeqs(map[m].grid) : Evacuate(Take(m), m, todo)
            /\ Note(map[m].lock # None, map[m].lock)
            /\ UNCHANGED fault
       ELSE fault' = <<"exit", m>> /\ UNCHANGED <<map, box, seen>>
    /\ MapUnchanged

\* Mutant of Evacuated: the first answer ends the loop.
EvacuatedOne(m) ==
    /\ Got(m) /\ Top(m).type = "SWITCHED"
    /\ IF Top(m).flag
       THEN /\ Evacuate(Take(m), m, <<>>)
            /\ UNCHANGED fault
       ELSE fault' = <<"switch", Top(m).by>> /\ UNCHANGED <<map, box>>
    /\ MapUnchanged /\ UNCHANGED seen

Evacuated(m) ==
    /\ Got(m) /\ Top(m).type = "SWITCHED"
    /\ IF Top(m).flag
       THEN /\ Evacuate(Take(m), m, Tail(map[m].todo))
            /\ UNCHANGED fault
       ELSE fault' = <<"switch", Top(m).by>> /\ UNCHANGED <<map, box>>
    /\ MapUnchanged /\ UNCHANGED seen

\* The mailbox is erased when the handler has returned.
Erase(m) ==
    /\ map[m].state = "closed"
    /\ map' = [map EXCEPT ![m].state = "none"]
    /\ MapUnchanged /\ UNCHANGED <<box, seen, fault>>

\* on_AM_TRYMAPSWITCH does not look at m_closing; the cell stays locked until
\* the player answers. All switches to a map go to one cell.
TryMapSwitch(m) ==
    LET p == Top(m).by  free == map[m].lock = None IN
    /\ Got(m) /\ Top(m).type = "TRYMAPSWITCH"
    /\ IF free
       THEN /\ map' = [map EXCEPT ![m].lock = p]
            /\ box' = Put(Take(m), p, Msg("ALLOW", m, p, TRUE))
       ELSE /\ box' = Put(Take(m), p, Msg("BAD", m, p, FALSE))
            /\ UNCHANGED map
    /\ seen' = seen \cup {q \in {p} : free /\ map[m].closing # None}
                    \cup {what \in {"locked"} : ~free}
    /\ MapUnchanged /\ UNCHANGED fault

\* An answer for a handler that this actor never suspended: an earlier actor
\* of the UID did (innHandler() throws).
Stray(m) == fault' = <<"stray", m, Top(m).by>> /\ UNCHANGED <<map, box>>

SwitchDone(m) ==
    LET p == Top(m).by IN
    /\ Got(m) /\ Top(m).type \in {"SWITCHOK", "SWITCHERROR"}
    /\ IF map[m].lock = p
       THEN /\ map' = [map EXCEPT ![m].lock = None,
                                  ![m].grid = IF Top(m).type = "SWITCHOK" THEN @ \cup {p} ELSE @]
            /\ box' = Take(m)
            /\ UNCHANGED fault
       ELSE Stray(m)
    /\ MapUnchanged /\ UNCHANGED seen

TryLeave(m) ==
    LET p == Top(m).by IN
    /\ Got(m) /\ Top(m).type = "TRYLEAVE"
    /\ box' = Put(Take(m), p, Msg(IF p \in map[m].grid THEN "ALLOW" ELSE "BAD", m, p, TRUE))
    /\ MapUnchanged /\ UNCHANGED <<map, seen, fault>>

LeaveOK(m) ==
    LET p == Top(m).by IN
    /\ Got(m) /\ Top(m).type = "LEAVEOK"
    /\ IF p \in map[m].grid
       THEN /\ map' = [map EXCEPT ![m].grid = @ \ {p}]
            /\ box' = Put(Take(m), p, Msg("FINISHLEAVE", m, p, TRUE))
            /\ UNCHANGED fault
       ELSE Stray(m)
    /\ MapUnchanged /\ UNCHANGED seen

MapStep(m) ==
    \/ Activate(m) \/ WaitActivated(m) \/ CloseMap(m) \/ ExitLoaded(m) \/ Evacuated(m) \/ Erase(m)
    \/ TryMapSwitch(m) \/ SwitchDone(m) \/ TryLeave(m) \/ LeaveOK(m)

----------------------------------------------------------------------------
(* Scripts and players.                                                     *)

AskCore(type, m, a, wait) == box' = Put(box, Core, Msg(type, m, a, wait))

\* loadInstanceMap: a new UID.
OpenInstance(s) ==
    /\ script[s].op = "idle"
    /\ \E m \in Instance \ opened :
        /\ opened' = opened \cup {m}
        /\ script' = [script EXCEPT ![s].op = "load", ![s].map = m]
        /\ AskCore("LOADMAP", m, s, TRUE)
    /\ UNCHANGED <<remote, coreVars, peerList, map, known, player, seen, fault>>

\* closeInstanceMap
CloseInstance(s) ==
    /\ script[s].op = "idle" /\ script[s].n < MaxClose
    /\ \E m \in known :
        /\ script' = [script EXCEPT ![s].op = "close", ![s].map = m, ![s].n = @ + 1]
        /\ AskCore("CLOSEMAP", m, s, TRUE)
    /\ UNCHANGED <<remote, coreVars, peerList, map, opened, known, player, seen, fault>>

ScriptAnswered(s) ==
    /\ Got(s)
    /\ known' = IF Top(s).type = "LOADED" /\ Top(s).flag THEN known \cup {script[s].map} ELSE known
    /\ script' = [script EXCEPT ![s].op = "idle", ![s].map = None]
    /\ box' = Take(s)
    /\ UNCHANGED <<remote, coreVars, peerList, map, opened, player, seen, fault>>

ScriptStep(s) == OpenInstance(s) \/ CloseInstance(s) \/ ScriptAnswered(s)

PlayerUnchanged == UNCHANGED <<remote, coreVars, peerList, map, script, opened, known, fault>>

CanMove(p) == ~player[p].dead /\ player[p].step = "idle"

\* BattleObject::requestMapSwitch, from a script or the client.
Switch(p) ==
    /\ CanMove(p) /\ player[p].n < MaxSwitch[p]
    /\ \E m \in (Base \cup known) \ {player[p].at} :
        /\ player' = [player EXCEPT ![p].to = m, ![p].step = "load", ![p].n = @ + 1]
        /\ AskCore("LOADMAP", m, p, FALSE)
    /\ PlayerUnchanged /\ UNCHANGED seen

Die(p) ==
    /\ p \in Mortal /\ player[p].at \in Instance /\ ~player[p].dead
    /\ player' = [player EXCEPT ![p].dead = TRUE]
    /\ PlayerUnchanged /\ UNCHANGED <<box, seen>>

\* The answer to the map that asked for the switch.
Report(b, p, m, ok) == IF m = None THEN b ELSE Call(b, map, m, Msg("SWITCHED", m, p, ok))

End(b, p, at, ok) ==
    /\ player' = [player EXCEPT ![p].at = at, ![p].to = at, ![p].step = "idle", ![p].for = None]
    /\ box' = Report(b, p, player[p].for, ok)

\* Player::on_AM_MAPSWITCHTRIGGER. Who is on the exit map already is moved there.
Triggered(p) ==
    LET m == Top(p).by IN
    /\ Got(p) /\ Top(p).type = "TRIGGER"
    /\ IF ~CanMove(p) \/ player[p].at = Exit
       THEN /\ box' = Report(Take(p), p, m, CanMove(p))
            /\ UNCHANGED player
       ELSE /\ player' = [player EXCEPT ![p].to = Exit, ![p].step = "load", ![p].for = m]
            /\ box' = Put(Take(p), Core, Msg("LOADMAP", Exit, p, FALSE))
    /\ Note(player[p].step # "idle", "busy")
    /\ PlayerUnchanged

\* The answer of the core, of the new map and of the old one.
SwitchLoaded(p) ==
    /\ Got(p) /\ Top(p).type = "LOADED"
    /\ IF Top(p).flag
       THEN /\ player' = [player EXCEPT ![p].step = "try"]
            /\ box' = Call(Take(p), map, player[p].to, Msg("TRYMAPSWITCH", player[p].to, p, TRUE))
       ELSE End(Take(p), p, player[p].at, FALSE)
    /\ PlayerUnchanged /\ UNCHANGED seen

SwitchError(p, b) == Call(b, map, player[p].to, Msg("SWITCHERROR", player[p].to, p, FALSE))

SwitchAllowed(p) ==
    LET at == player[p].at IN
    /\ Got(p) /\ player[p].step = "try" /\ Top(p).type \in {"ALLOW", "BAD"}
    /\ IF Top(p).type = "BAD" THEN End(Take(p), p, at, FALSE)
       ELSE IF player[p].dead THEN End(SwitchError(p, Take(p)), p, at, FALSE)
       ELSE /\ player' = [player EXCEPT ![p].step = "leave"]
            /\ box' = Call(Take(p), map, at, Msg("TRYLEAVE", at, p, TRUE))
    /\ PlayerUnchanged /\ UNCHANGED seen

LeaveAllowed(p) ==
    LET at == player[p].at IN
    /\ Got(p) /\ player[p].step = "leave" /\ Top(p).type \in {"ALLOW", "BAD"}
    /\ IF Top(p).type = "BAD" \/ player[p].dead
       THEN End(SwitchError(p, Take(p)), p, at, FALSE)
       ELSE /\ player' = [player EXCEPT ![p].step = "left", ![p].at = player[p].to]
            /\ box' = Call(Take(p), map, at, Msg("LEAVEOK", at, p, TRUE))
    /\ PlayerUnchanged /\ UNCHANGED seen

Left(p) ==
    LET at == player[p].at IN
    /\ Got(p) /\ player[p].step = "left" /\ Top(p).type \in {"FINISHLEAVE", "BAD"}
    /\ End(Call(Take(p), map, at, Msg("SWITCHOK", at, p, TRUE)), p, at, TRUE)
    /\ PlayerUnchanged /\ UNCHANGED seen

PlayerAnswered(p) == Triggered(p) \/ SwitchLoaded(p) \/ SwitchAllowed(p) \/ LeaveAllowed(p) \/ Left(p)

----------------------------------------------------------------------------
Server == CoreStep \/ PeerStep \/ \E m \in Map : MapStep(m)

Next == /\ fault = None
        /\ \/ Server
           \/ \E s \in Script : ScriptStep(s)
           \/ \E p \in Player : Switch(p) \/ Die(p) \/ PlayerAnswered(p)

Spec == Init /\ [][Next]_vars

----------------------------------------------------------------------------
(* Properties.                                                              *)

Fails(what) == fault # None /\ fault[1] = what

(* A map in the service core's list has its actor and, in the other process,*)
(* is in the peer core's list, or its close is under way; a map that runs   *)
(* and is not in the list is being loaded, closed, or was loaded for a      *)
(* request that failed.                                                     *)
ListFollowsMaps ==
    /\ \A m \in coreList :
        (map[m].state # "live" \/ (m \in remote /\ m \notin peerList)) => closeOp[m] # <<>>
    /\ \A m \in Map \ coreList : map[m].state = "live" => loadOp[m] # <<>>
    /\ \A m \in Map : loadOp[m] # <<>> => m \notin coreList /\ closeOp[m] = <<>>

(* One AM_CLOSEMAP at a time reaches a map, as it asserts, the peer core has*)
(* the map it is to close, and the exit map loads.                          *)
(* A map whose mailbox is still there is loaded again only by a player who  *)
(* switches to an instance that has just been closed; a map that sends its  *)
(* players away meets one that cannot go only if that player is dead, is in *)
(* a switch of its own, finds the exit's cell taken, or was left behind on  *)
(* another map that closed as it entered; and a player answers a map that   *)
(* has forgotten it only after it entered a closing one.                    *)
FaultsExplained ==
    /\ ~Fails("closing") /\ ~Fails("peerList") /\ ~Fails("exit")
    /\ Fails("attach") => fault[2] \in known /\ fault[3] \in Player
    /\ Fails("stray") => fault[3] \in seen
    /\ Fails("switch") => player[fault[2]].dead \/ seen \cap {"busy", "locked", fault[2]} # {}

(* Nobody is left behind on a map that has been closed, but a player that   *)
(* was entering it when it closed.                                          *)
NobodyLeftBehind ==
    \A p \in Player : player[p].step = "idle" /\ map[player[p].at].state # "live"
                        => p \in seen

(* Every load, close and switch comes to an end, whatever else is under way:*)
(* when no message and no actor's start or end is left to run, nobody still *)
(* waits for an answer.                                                     *)
NobodyForgotten ==
    (/\ fault = None
     /\ \A a \in Actor : box[a] = <<>>
     /\ \A m \in Map : map[m].state = "none" \/ (map[m].state = "live" /\ map[m].active))
    => /\ \A s \in Script : script[s].op = "idle"
       /\ \A p \in Player : player[p].step = "idle"
       /\ \A m \in Map : loadOp[m] = <<>> /\ closeOp[m] = <<>> /\ map[m].lock = None
=============================================================================
