--------------------------- MODULE SessionProofs ---------------------------
(* Sessions, for any number of channel slots, accounts and connections: the *)
(* state stays in its types, and no channel number is lost or handed out    *)
(* twice. Slots and connections refer to one another by number, so the two  *)
(* facts are proved together: a number is given back only if its slot held  *)
(* a connection, and what holds a number is in the slot of that number.     *)
EXTENDS Session, TLAPS

Players == [Account -> PlayerState]
Closure == [op : {"bind", "unbind", "close"}, chan : Slot, uid : Account]
Entries == [Slot -> [dbid : Account \cup {None, 0}, online : BOOLEAN]]

Asked   == [chan : Slot, uid : Account]
Waiting == [chan : Slot, uid : Account, conn : Conn]

NetOK  == /\ slot \in [Slot -> Conn \cup {None}] /\ freeQ \in Seq(Slot)
          /\ conn \in Seq(ConnState) /\ Len(conn) <= MaxConn
          /\ raced \in BOOLEAN
          /\ netQ \in Seq(Closure)
CoreOK == /\ dbList \in Entries
          /\ onlines \in Seq(Waiting)
          /\ polls \in Seq(Asked)
          /\ mapLoaded \in BOOLEAN
QueueOK  == coreQ \in Seq(CoreMsg)
PlayerOK == player \in Players
SeenOK   == seen \subseteq {"lateRead", "lateOnline", "lateBind", "lateTell", "overlap", "unmarked"}

Inv == TypeOK /\ NumbersConserved

\* The connections cs are those of conn, each in its slot.
SameConns(cs) ==
    /\ cs \in Seq(ConnState) /\ Len(cs) = Len(conn)
    /\ \A k \in DOMAIN conn : cs[k].chan = conn[k].chan

----------------------------------------------------------------------------
(* Types.                                                                   *)

LEMMA Parts == TypeOK <=> NetOK /\ CoreOK /\ QueueOK /\ PlayerOK /\ SeenOK
BY DEF TypeOK, NetOK, CoreOK, QueueOK, PlayerOK, SeenOK, Players, Closure, Entries, Waiting, Asked

LEMMA PartsNext == TypeOK' <=> NetOK' /\ CoreOK' /\ QueueOK' /\ PlayerOK' /\ SeenOK'
BY DEF TypeOK, NetOK, CoreOK, QueueOK, PlayerOK, SeenOK, Players, Closure, Entries, Waiting, Asked

LEMMA NumbersAreNat == Slot \subseteq Nat /\ Slot \cap {0} = {} /\ None \notin Slot
<1>1. ASSUME NEW setup \in Setups, NEW s \in Range(setup.ids)
      PROVE  s \in Nat \ {0}
    <2>1. setup.ids \in Seq(Nat \ {0})
        BY SessionAssumption
    <2> QED
        BY <2>1 DEF Range
<1> QED
    BY <1>1, SessionAssumption DEF Slot

LEMMA Updated ==
    ASSUME NEW S, NEW q \in Seq(S), NEW k, NEW e, k \in DOMAIN q => e \in S
    PROVE  /\ [q EXCEPT ![k] = e] \in Seq(S)
           /\ Len([q EXCEPT ![k] = e]) = Len(q)
           /\ DOMAIN [q EXCEPT ![k] = e] = DOMAIN q
           /\ \A i \in DOMAIN q : [q EXCEPT ![k] = e][i] = IF i = k THEN e ELSE q[i]
<1>1. CASE k \in DOMAIN q
    BY <1>1
<1>2. CASE k \notin DOMAIN q
    <2>1. [q EXCEPT ![k] = e] = q
        BY <1>2
    <2> QED
        BY <1>2, <2>1
<1> QED
    BY <1>1, <1>2

LEMMA SameRefl == ASSUME NetOK PROVE SameConns(conn)
BY DEF NetOK, SameConns

\* One connection changes anything but its slot.
LEMMA SameUpdated ==
    ASSUME NEW cs, SameConns(cs), NetOK, NEW k, NEW c,
           k \in DOMAIN conn => c \in ConnState /\ c.chan = cs[k].chan
    PROVE  SameConns([cs EXCEPT ![k] = c])
<1>1. DOMAIN cs = DOMAIN conn
    BY DEF SameConns, NetOK
<1> QED
    BY <1>1, Updated DEF SameConns

LEMMA ConnFields ==
    ASSUME NEW c \in ConnState, NEW u \in Account \cup {None}, NEW p \in Phases,
           NEW ls \in SUBSET Loops, NEW b \in BOOLEAN
    PROVE  /\ [c EXCEPT !.uid = u] \in ConnState /\ [c EXCEPT !.uid = u].chan = c.chan
           /\ [c EXCEPT !.acct = u] \in ConnState /\ [c EXCEPT !.acct = u].chan = c.chan
           /\ [c EXCEPT !.client = p] \in ConnState /\ [c EXCEPT !.client = p].chan = c.chan
           /\ [c EXCEPT !.loops = ls] \in ConnState /\ [c EXCEPT !.loops = ls].chan = c.chan
           /\ [c EXCEPT !.full = b] \in ConnState /\ [c EXCEPT !.full = b].chan = c.chan
           /\ c.loops \in SUBSET Loops /\ c.chan \in Slot /\ c.uid \in Account \cup {None}
BY DEF ConnState

\* Also for an s that is no slot: the connection told is one of them, or none.
LEMMA TellSame ==
    ASSUME NetOK, NEW cs, SameConns(cs), NEW s, NEW p \in Phases
    PROVE  SameConns(Tell(cs, s, p))
<1>1. CASE slot[s] = None \/ cs[slot[s]].client = "gone"
    BY <1>1 DEF Tell
<1>2. CASE ~(slot[s] = None \/ cs[slot[s]].client = "gone")
    <2> DEFINE c == [cs[slot[s]] EXCEPT !.client = p]
    <2>1. ASSUME slot[s] \in DOMAIN conn PROVE c \in ConnState /\ c.chan = cs[slot[s]].chan
        <3>1. cs[slot[s]] \in ConnState
            BY <2>1 DEF SameConns, NetOK
        <3> QED
            BY <3>1 DEF ConnState
    <2>2. Tell(cs, s, p) = [cs EXCEPT ![slot[s]] = c]
        BY <1>2 DEF Tell
    <2> HIDE DEF c
    <2>3. SameConns([cs EXCEPT ![slot[s]] = c])
        BY <2>1, SameUpdated
    <2> QED
        BY <2>2, <2>3
<1> QED
    BY <1>1, <1>2

LEMMA DeliverType ==
    ASSUME NEW pl \in Players, NEW d \in Account, NEW m \in PlayerMsg
    PROVE  Deliver(pl, d, m) \in Players
<1> DEFINE q == Append(pl[d].inbox, m)
<1>1. q \in Seq(PlayerMsg)
    BY DEF Players, PlayerState
<1>2. [pl EXCEPT ![d].inbox = q] \in Players
    BY <1>1 DEF Players, PlayerState
<1> QED
    BY <1>2 DEF Deliver

----------------------------------------------------------------------------
(* The net thread: a socket is closed.                                      *)

\* Nothing changes which numbers are free and which connection is in a slot.
LEMMA NumbersKept ==
    ASSUME Inv, SameConns(conn'), UNCHANGED <<slot, freeQ>>
    PROVE  NumbersConserved'
<1>1. DOMAIN conn' = DOMAIN conn
    BY Parts DEF Inv, NetOK, SameConns
<1> QED
    BY <1>1 DEF Inv, NumbersConserved, SameConns

LEMMA StaysInjective ==
    ASSUME NEW q \in Seq(Slot), IsInjective(q), NEW s \in Slot, s \notin Range(q)
    PROVE  /\ Append(q, s) \in Seq(Slot)
           /\ IsInjective(Append(q, s))
           /\ Range(Append(q, s)) = Range(q) \cup {s}
<1>1. IsInjective(Append(q, s))
    BY DEF IsInjective, Range
<1>2. Append(q, s) \in Seq(Slot)
    OBVIOUS
<1>3. Range(Append(q, s)) = Range(q) \cup {s}
    <2>1. ASSUME NEW x \in Range(q) PROVE x \in Range(Append(q, s))
        BY DEF Range
    <2>2. s \in Range(Append(q, s))
        <3>1. Len(q) + 1 \in DOMAIN Append(q, s) /\ Append(q, s)[Len(q) + 1] = s
            OBVIOUS
        <3> QED
            BY <3>1 DEF Range
    <2>3. ASSUME NEW x \in Range(Append(q, s)) PROVE x \in Range(q) \cup {s}
        BY DEF Range
    <2> QED
        BY <2>1, <2>2, <2>3
<1> QED
    BY <1>1, <1>2, <1>3, Zenon

LEMMA TailInjective ==
    ASSUME NEW q \in Seq(Slot), q # <<>>, IsInjective(q)
    PROVE  /\ Head(q) \in Slot /\ Tail(q) \in Seq(Slot)
           /\ IsInjective(Tail(q))
           /\ Head(q) \notin Range(Tail(q))
           /\ Range(q) = Range(Tail(q)) \cup {Head(q)}
<1> DEFINE t == Tail(q)
<1>1. /\ t \in Seq(Slot) /\ Len(q) \in Nat \ {0} /\ Len(t) = Len(q) - 1
      /\ DOMAIN t = 1 .. Len(q) - 1 /\ DOMAIN q = 1 .. Len(q)
      /\ \A i \in DOMAIN t : t[i] = q[i + 1]
      /\ Head(q) = q[1] /\ q[1] \in Slot
    OBVIOUS
<1> HIDE DEF t
<1>2. IsInjective(t)
    <2> SUFFICES ASSUME NEW i \in DOMAIN t, NEW j \in DOMAIN t, t[i] = t[j]
                 PROVE  i = j
        BY DEF IsInjective
    <2>1. i + 1 \in DOMAIN q /\ j + 1 \in DOMAIN q /\ q[i + 1] = q[j + 1]
        BY <1>1
    <2>2. i + 1 = j + 1
        BY <2>1 DEF IsInjective
    <2> QED
        BY <1>1, <2>2
<1>3. Head(q) \notin Range(t)
    <2> SUFFICES ASSUME NEW i \in DOMAIN t, t[i] = q[1] PROVE FALSE
        BY <1>1 DEF Range
    <2>1. i + 1 \in DOMAIN q /\ 1 \in DOMAIN q /\ q[i + 1] = q[1]
        BY <1>1
    <2>2. i + 1 = 1
        BY <2>1 DEF IsInjective
    <2> QED
        BY <1>1, <2>2
<1>4. Range(q) = Range(t) \cup {Head(q)}
    <2>1. ASSUME NEW x \in Range(q) PROVE x \in Range(t) \cup {Head(q)}
        <3>1. PICK i \in DOMAIN q : q[i] = x
            BY DEF Range
        <3>2. CASE i = 1
            BY <1>1, <3>1, <3>2
        <3>3. CASE i # 1
            <4>1. i - 1 \in DOMAIN t /\ t[i - 1] = q[(i - 1) + 1] /\ (i - 1) + 1 = i
                BY <1>1, <3>1, <3>3
            <4> QED
                BY <3>1, <4>1 DEF Range
        <3> QED
            BY <3>2, <3>3
    <2>2. ASSUME NEW x \in Range(t) PROVE x \in Range(q)
        <3>1. PICK i \in DOMAIN t : t[i] = x
            BY DEF Range
        <3>2. i + 1 \in DOMAIN q /\ q[i + 1] = x
            BY <1>1, <3>1
        <3> QED
            BY <3>2 DEF Range
    <2>3. Head(q) \in Range(q)
        BY <1>1 DEF Range
    <2> QED
        BY <2>1, <2>2, <2>3
<1> QED
    BY <1>1, <1>2, <1>3, <1>4 DEF t

LEMMA CloseStep ==
    ASSUME Inv, NEW s \in Slot, NEW cs, SameConns(cs), NEW ps \in Players, DoClose(s, cs, ps)
    PROVE  /\ slot' \in [Slot -> Conn \cup {None}] /\ freeQ' \in Seq(Slot)
           /\ SameConns(conn') /\ coreQ' \in Seq(CoreMsg) /\ player' \in Players
           /\ NumbersConserved'
<1> DEFINE k == slot[s]
<1>0. NetOK /\ coreQ \in Seq(CoreMsg) /\ PlayerOK
    BY Parts DEF Inv, QueueOK
<1>1. CASE k = None
    <2>1. conn' = cs /\ player' = ps /\ UNCHANGED <<slot, freeQ, coreQ>>
        BY <1>1 DEF DoClose
    <2>2. SameConns(conn')
        BY <2>1
    <2>3. NumbersConserved'
        BY <2>1, <2>2, NumbersKept
    <2> QED
        BY <1>0, <2>1, <2>2, <2>3 DEF NetOK
<1>2. CASE k # None
    <2>0. PICK ended \in SUBSET {"writer"} :
              conn' = [cs EXCEPT ![k].uid = None, ![k].full = (freeQ = <<>>),
                                 ![k].loops = @ \ ended]
        BY <1>2 DEF DoClose
    <2>1. /\ slot' = [slot EXCEPT ![s] = None]
          /\ freeQ' = Append(freeQ, s)
          /\ coreQ' = Append(coreQ, [type |-> "BADCHANNEL", chan |-> s])
          /\ player' = IF conn[k].uid = None THEN ps
                       ELSE Deliver(ps, conn[k].uid, [type |-> "BADCHANNEL", chan |-> s])
        BY <1>2 DEF DoClose
    <2>2. k \in DOMAIN conn /\ conn[k].chan = s /\ s \notin Range(freeQ)
        BY <1>2 DEF Inv, NumbersConserved
    <2>3. SameConns(conn')
        <3>1. k \in DOMAIN cs /\ cs[k] \in ConnState
            BY <1>0, <2>2 DEF SameConns, NetOK
        <3> DEFINE c1 == [cs[k] EXCEPT !.uid = None]
                   c2 == [c1 EXCEPT !.full = (freeQ = <<>>)]
                   c3 == [c2 EXCEPT !.loops = @ \ ended]
        <3>2. c1 \in ConnState /\ c1.chan = cs[k].chan
            BY <3>1 DEF ConnState
        <3>3. c2 \in ConnState /\ c2.chan = c1.chan
            <4> HIDE DEF c1
            <4>1. (freeQ = <<>>) \in BOOLEAN
                OBVIOUS
            <4> QED
                BY <3>2, <4>1, ConnFields DEF Phases, Loops
        <3>4. c3 \in ConnState /\ c3.chan = c2.chan
            <4> HIDE DEF c2
            <4>1. c2.loops \ ended \in SUBSET Loops
                BY <3>3 DEF ConnState
            <4> QED
                BY <3>3, <4>1 DEF ConnState
        <3>5. conn' = [cs EXCEPT ![k] = c3]
            BY <2>0, <3>1
        <3> HIDE DEF c3
        <3>6. SameConns([cs EXCEPT ![k] = c3])
            <4>1. c3.chan = cs[k].chan
                BY <3>2, <3>3, <3>4
            <4> QED
                BY <1>0, <2>2, <3>4, <4>1, SameUpdated
        <3> QED
            BY <3>5, <3>6
    <2>4. /\ freeQ' \in Seq(Slot) /\ IsInjective(freeQ') /\ Range(freeQ') = Range(freeQ) \cup {s}
        <3>2. freeQ' = Append(freeQ, s)
            BY <2>1
        <3>1. freeQ \in Seq(Slot) /\ IsInjective(freeQ)
            BY <1>0 DEF NetOK, Inv, NumbersConserved
        <3> QED
            BY <2>2, <3>1, <3>2, StaysInjective, Zenon
    <2>5. slot' \in [Slot -> Conn \cup {None}]
        BY <1>0, <2>1 DEF NetOK
    <2>6. coreQ' \in Seq(CoreMsg)
        <3>1. [type |-> "BADCHANNEL", chan |-> s] \in CoreMsg
            BY DEF CoreMsg
        <3> QED
            BY <1>0, <2>1, <3>1
    <2>7. player' \in Players
        <3>1. [type |-> "BADCHANNEL", chan |-> s] \in PlayerMsg
            BY DEF PlayerMsg
        <3>2. conn[k].uid \in Account \cup {None}
            <4>1. conn[k] \in ConnState
                BY <1>0, <2>2 DEF NetOK
            <4> QED
                BY <4>1 DEF ConnState
        <3> QED
            BY <2>1, <3>1, <3>2, DeliverType
    <2>8. NumbersConserved'
        <3>1. DOMAIN conn' = DOMAIN conn
            BY <1>0, <2>3 DEF NetOK, SameConns
        <3>2. \A t \in Slot : slot'[t] = IF t = s THEN None ELSE slot[t]
            BY <1>0, <2>1 DEF NetOK
        <3>3. \A t \in Range(freeQ') : slot'[t] = None
            <4>1. Range(freeQ) \subseteq Slot
                BY <1>0 DEF NetOK, Range
            <4> QED
                BY <2>4, <3>2, <4>1 DEF Inv, NumbersConserved
        <3>4. \A t \in Slot : slot'[t] # None => slot'[t] \in DOMAIN conn' /\ conn'[slot'[t]].chan = t
            BY <2>3, <3>1, <3>2 DEF Inv, NumbersConserved, SameConns
        <3>5. {t \in Slot : slot[t] # None} = {t \in Slot : slot'[t] # None} \cup {s}
            BY <1>2, <3>2
        <3>6. \E setup \in Setups : Range(setup.ids) = Range(freeQ') \cup {t \in Slot : slot'[t] # None}
            BY <2>4, <3>5 DEF Inv, NumbersConserved
        <3> QED
            BY <2>4, <3>3, <3>4, <3>6 DEF NumbersConserved
    <2> QED
        BY <2>3, <2>4, <2>5, <2>6, <2>7, <2>8
<1> QED
    BY <1>1, <1>2

\* A step that opens and closes nothing and posts nothing.
LEMMA NetKept ==
    ASSUME Inv, SameConns(conn'), UNCHANGED <<slot, freeQ, raced, netQ>>
    PROVE  NetOK' /\ NumbersConserved'
<1>1. NetOK
    BY Parts DEF Inv
<1> QED
    BY <1>1, NumbersKept DEF NetOK, SameConns

LEMMA CloseTypes ==
    ASSUME Inv, NEW s \in Slot, NEW cs, SameConns(cs), NEW ps \in Players, DoClose(s, cs, ps),
           raced' \in BOOLEAN, netQ' \in Seq(Closure)
    PROVE  NetOK' /\ NumbersConserved' /\ QueueOK' /\ PlayerOK'
<1>1. NetOK
    BY Parts DEF Inv
<1> QED
    BY <1>1, CloseStep DEF NetOK, SameConns, QueueOK, PlayerOK

----------------------------------------------------------------------------
(* The net thread: sockets are accepted, read and break.                    *)

LEMMA AcceptStep == ASSUME Inv, Accept PROVE Inv'
<1>0. NetOK /\ CoreOK /\ QueueOK /\ PlayerOK /\ SeenOK
    BY Parts DEF Inv
<1> DEFINE h == Head(freeQ)
           n == Len(conn) + 1
<1>1. /\ freeQ # <<>> /\ Len(conn) < MaxConn
      /\ slot' = [slot EXCEPT ![h] = n] /\ freeQ' = Tail(freeQ)
      /\ conn' = Append(conn, NewConn(h)) /\ raced' = (Ending # {})
      /\ UNCHANGED <<netQ, coreVars, player, seen>>
    BY DEF Accept
<1>2. freeQ \in Seq(Slot) /\ IsInjective(freeQ)
    BY <1>0 DEF NetOK, Inv, NumbersConserved
<1>3. /\ h \in Slot /\ freeQ' \in Seq(Slot) /\ IsInjective(freeQ')
      /\ h \notin Range(freeQ') /\ Range(freeQ) = Range(freeQ') \cup {h}
    BY <1>1, <1>2, TailInjective
<1>4. NewConn(h) \in ConnState /\ NewConn(h).chan = h
    BY <1>3 DEF NewConn, ConnState, Loops, Phases
<1>5. /\ conn' \in Seq(ConnState) /\ Len(conn') = n /\ n \in Conn /\ n \notin DOMAIN conn
      /\ DOMAIN conn' = DOMAIN conn \cup {n}
      /\ conn'[n] = NewConn(h) /\ \A k \in DOMAIN conn : conn'[k] = conn[k]
    <2> DEFINE c == NewConn(h)
    <2>1. conn \in Seq(ConnState) /\ Len(conn) < MaxConn /\ c \in ConnState
        BY <1>0, <1>1, <1>4 DEF NetOK
    <2>2. conn' = Append(conn, c)
        BY <1>1
    <2> HIDE DEF c
    <2>3. /\ Append(conn, c) \in Seq(ConnState) /\ Len(Append(conn, c)) = n
          /\ n \in 1 .. MaxConn /\ n \notin DOMAIN conn
          /\ DOMAIN Append(conn, c) = DOMAIN conn \cup {n}
          /\ Append(conn, c)[n] = c /\ \A k \in DOMAIN conn : Append(conn, c)[k] = conn[k]
        BY <2>1, SessionAssumption
    <2> QED
        BY <2>2, <2>3, Zenon DEF c, Conn
<1>6. slot' \in [Slot -> Conn \cup {None}] /\ \A t \in Slot : slot'[t] = IF t = h THEN n ELSE slot[t]
    BY <1>0, <1>1, <1>5 DEF NetOK
<1>7. slot[h] = None /\ n # None
    BY <1>3, <1>5, SessionAssumption DEF Inv, NumbersConserved, Conn
<1>8. NetOK'
    BY <1>0, <1>1, <1>3, <1>5, <1>6, SessionAssumption DEF NetOK, Conn
<1>9. NumbersConserved'
    <2>1. \A t \in Range(freeQ') : slot'[t] = None
        <3>1. Range(freeQ') \subseteq Slot
            BY <1>3 DEF Range
        <3> QED
            BY <1>3, <1>6, <3>1 DEF Inv, NumbersConserved
    <2>2. \A t \in Slot : slot'[t] # None => slot'[t] \in DOMAIN conn' /\ conn'[slot'[t]].chan = t
        BY <1>4, <1>5, <1>6 DEF Inv, NumbersConserved
    <2>3. {t \in Slot : slot'[t] # None} = {t \in Slot : slot[t] # None} \cup {h}
        BY <1>3, <1>6, <1>7
    <2>4. \E setup \in Setups : Range(setup.ids) = Range(freeQ') \cup {t \in Slot : slot'[t] # None}
        BY <1>3, <2>3 DEF Inv, NumbersConserved
    <2> QED
        BY <1>3, <2>1, <2>2, <2>4 DEF NumbersConserved
<1>10. CoreOK' /\ QueueOK' /\ PlayerOK' /\ SeenOK'
    BY <1>0, <1>1 DEF coreVars, CoreOK, QueueOK, PlayerOK, SeenOK
<1> QED
    BY <1>8, <1>9, <1>10, PartsNext DEF Inv

LEMMA ForwardType ==
    ASSUME NetOK, QueueOK, PlayerOK, NEW k \in DOMAIN conn, NEW m \in ClientMsg, Forward(k, m)
    PROVE  QueueOK' /\ PlayerOK'
<1>1. conn[k] \in ConnState /\ k \in Conn
    BY SessionAssumption DEF NetOK, Conn
<1>2. conn[k].chan \in Slot /\ conn[k].uid \in Account \cup {None}
    BY <1>1 DEF ConnState
<1>3. m \in PlayerMsg
    BY DEF PlayerMsg
<1>4. ToCore(k, m) \in CoreMsg
    BY <1>1, <1>2 DEF ToCore, CoreMsg, ClientMsg
<1>5. CASE conn[k].uid # None
    BY <1>2, <1>3, <1>5, DeliverType DEF Forward, QueueOK, PlayerOK
<1>6. CASE conn[k].uid = None
    BY <1>4, <1>6 DEF Forward, QueueOK, PlayerOK
<1> QED
    BY <1>5, <1>6

LEMMA ReaderStep ==
    ASSUME Inv, NEW k \in DOMAIN conn, NEW m \in ClientMsg, Recv(k, m) \/ RecvLate(k, m)
    PROVE  Inv'
<1>0. NetOK /\ CoreOK /\ QueueOK /\ PlayerOK /\ SeenOK
    BY Parts DEF Inv
<1>1. Forward(k, m) /\ UNCHANGED <<slot, freeQ, raced, netQ, dbList, onlines, polls, mapLoaded>>
    BY DEF Recv, RecvLate, netVars
<1>2. QueueOK' /\ PlayerOK'
    BY <1>0, <1>1, ForwardType
<1>3. SameConns(conn')
    <2>1. CASE Recv(k, m)
        BY <1>0, <2>1, SameRefl DEF Recv, netVars
    <2>2. CASE RecvLate(k, m)
        <3> DEFINE c == [conn[k] EXCEPT !.client = "gone"]
        <3>1. c \in ConnState /\ c.chan = conn[k].chan
            <4>1. conn[k] \in ConnState
                BY <1>0 DEF NetOK
            <4> QED
                BY <4>1 DEF ConnState, Phases
        <3>2. conn' = [conn EXCEPT ![k] = c]
            BY <2>2 DEF RecvLate
        <3> HIDE DEF c
        <3> QED
            BY <1>0, <3>1, <3>2, SameRefl, SameUpdated
    <2> QED
        BY <2>1, <2>2
<1>4. NetOK' /\ NumbersConserved'
    BY <1>1, <1>3, NetKept
<1>5. CoreOK' /\ SeenOK'
    BY <1>0, <1>1 DEF Recv, RecvLate, CoreOK, SeenOK
<1> QED
    BY <1>2, <1>4, <1>5, PartsNext DEF Inv

LEMMA SocketStep ==
    ASSUME Inv, NEW k \in DOMAIN conn, NEW l \in Loops, Break(k, l) \/ Abort(k, l)
    PROVE  Inv'
<1>0. NetOK /\ CoreOK /\ QueueOK /\ PlayerOK /\ SeenOK
    BY Parts DEF Inv
<1>1. conn[k] \in ConnState /\ conn[k].chan \in Slot
    <2>1. conn[k] \in ConnState
        BY <1>0 DEF NetOK
    <2> QED
        BY <2>1 DEF ConnState
<1> DEFINE left == conn[k].loops \ {l}
           c1 == [conn[k] EXCEPT !.loops = left]
           c2 == [c1 EXCEPT !.client = "gone", !.full = FALSE]
<1>2. c1 \in ConnState /\ c1.chan = conn[k].chan
    BY <1>1 DEF ConnState
<1>3. c2 \in ConnState /\ c2.chan = conn[k].chan
    <2> HIDE DEF c1
    <2> QED
        BY <1>2 DEF ConnState, Phases
<1>4. PICK c \in {c1, c2} : DoClose(conn[k].chan, [conn EXCEPT ![k] = c], player)
    <2>1. [conn EXCEPT ![k].loops = left] = [conn EXCEPT ![k] = c1]
        OBVIOUS
    <2>2. [[conn EXCEPT ![k].loops = left] EXCEPT ![k].client = "gone", ![k].full = FALSE]
             = [conn EXCEPT ![k] = c2]
        OBVIOUS
    <2>3. CASE Break(k, l)
        BY <2>1, <2>3 DEF Break
    <2>4. CASE Abort(k, l)
        BY <2>1, <2>2, <2>4 DEF Abort
    <2> QED
        BY <2>3, <2>4
<1>5. SameConns([conn EXCEPT ![k] = c])
    <2> HIDE DEF c1, c2
    <2> QED
        BY <1>0, <1>2, <1>3, SameRefl, SameUpdated
<1>6. UNCHANGED <<raced, netQ, dbList, onlines, polls, mapLoaded, seen>>
    BY DEF Break, Abort
<1>7. NetOK' /\ NumbersConserved' /\ QueueOK' /\ PlayerOK'
    <2>1. raced' \in BOOLEAN /\ netQ' \in Seq(Closure) /\ player \in Players
        BY <1>0, <1>6 DEF NetOK, PlayerOK
    <2> HIDE DEF c1, c2
    <2> QED
        BY <1>1, <1>4, <1>5, <2>1, CloseTypes
<1>8. CoreOK' /\ SeenOK'
    BY <1>0, <1>6 DEF CoreOK, SeenOK
<1> QED
    BY <1>7, <1>8, PartsNext DEF Inv
----------------------------------------------------------------------------
(* The service core.                                                        *)

LEMMA CoreMsgs ==
    ASSUME NEW m \in CoreMsg
    PROVE  /\ m.chan \in Slot
           /\ m.type \in {"LOGIN", "ONLINE", "LOGOUT"} => m.conn \in Conn
           /\ m.type \in {"LOGIN", "PLAYERLOGOUT"} => m.uid \in Account
BY DEF CoreMsg

LEMMA EntryUpdated ==
    ASSUME CoreOK, NEW s \in Slot, NEW d \in Account \cup {None, 0}, NEW b \in BOOLEAN
    PROVE  /\ [dbList EXCEPT ![s] = Entry(d, b)] \in Entries
           /\ [dbList EXCEPT ![s].online = b] \in Entries
           /\ dbList[s].dbid \in Account \cup {None, 0}
<1>1. dbList \in Entries
    BY DEF CoreOK
<1>2. dbList[s].dbid \in Account \cup {None, 0}
    BY <1>1 DEF Entries
<1>3. [dbList[s] EXCEPT !.online = b] \in [dbid : Account \cup {None, 0}, online : BOOLEAN]
    BY <1>1 DEF Entries
<1>4. Entry(d, b) \in [dbid : Account \cup {None, 0}, online : BOOLEAN]
    BY DEF Entry
<1> QED
    BY <1>1, <1>2, <1>3, <1>4 DEF Entries

LEMMA NewPlayerType ==
    ASSUME NEW o \in Waiting
    PROVE  AddPlayer(o) \in PlayerState
<1> DEFINE q == <<[type |-> "BINDCHANNEL", chan |-> o.chan]>>
           p1 == [NoPlayer EXCEPT !.state = "live"]
           p2 == [p1 EXCEPT !.for = o.conn]
<1>0. o.chan \in Slot /\ o.conn \in Conn
    BY DEF Waiting
<1>1. NoPlayer \in PlayerState
    BY DEF NoPlayer, PlayerState
<1>2. q \in Seq(PlayerMsg)
    BY <1>0 DEF PlayerMsg
<1>3. p1 \in PlayerState
    BY <1>1 DEF PlayerState
<1>4. p2 \in PlayerState
    <2> HIDE DEF p1
    <2> QED
        BY <1>0, <1>3 DEF PlayerState
<1>5. [p2 EXCEPT !.inbox = q] \in PlayerState
    <2> HIDE DEF p2, q
    <2> QED
        BY <1>2, <1>4 DEF PlayerState
<1> QED
    BY <1>5 DEF AddPlayer

LEMMA AddedType ==
    ASSUME NEW os \in Seq(Waiting), NEW placed, CoreOK, PlayerOK
    PROVE  Added(os, placed).player \in Players /\ Added(os, placed).dbList \in Entries
<1> DEFINE done == {i \in DOMAIN os : \A j \in 1 .. i : ~Refused(os, j, placed)}
           next == CHOOSE i \in DOMAIN os \ done : \A j \in 1 .. i - 1 : j \in done
           made == done \cap placed
           last(s) == {i \in done : os[i].chan = s /\ \A j \in done : os[j].chan = s => j <= i}
           pl == [d \in Account |->
                     IF \E i \in made : os[i].uid = d
                     THEN AddPlayer(os[CHOOSE i \in made : os[i].uid = d]) ELSE player[d]]
           marks(s) == \E i \in last(s) : MarkMade(i, placed)
           db == [s \in Slot |->
                     IF \E i \in done : os[i].chan = s
                     THEN Entry(IF dbList[s] = NoEntry THEN 0 ELSE dbList[s].dbid, marks(s))
                     ELSE dbList[s]]
           un == \E i \in made, j \in done \ made : os[i].chan = os[j].chan
<1>1. Added(os, placed) = [player |-> pl, dbList |-> db,
                   fault |-> IF done = DOMAIN os THEN None ELSE <<"attach", os[next].uid>>,
                   unmarked |-> un]
    BY DEF Added
<1>2. ASSUME NEW d \in Account PROVE pl[d] \in PlayerState
    <2>1. player[d] \in PlayerState
        BY DEF PlayerOK, Players
    <2>2. ASSUME \E i \in made : os[i].uid = d
          PROVE  AddPlayer(os[CHOOSE i \in made : os[i].uid = d]) \in PlayerState
        <3> DEFINE n == CHOOSE i \in made : os[i].uid = d
        <3>1. n \in DOMAIN os
            <4>1. n \in made
                BY <2>2
            <4> QED
                BY <4>1
        <3> HIDE DEF n
        <3>2. os[n] \in Waiting
            BY <3>1
        <3> QED
            BY <3>2, NewPlayerType DEF n
    <2> HIDE DEF made
    <2> QED
        BY <2>1, <2>2
<1>3. ASSUME NEW s \in Slot
      PROVE  db[s] \in [dbid : Account \cup {None, 0}, online : BOOLEAN]
    <2>1. dbList[s] \in [dbid : Account \cup {None, 0}, online : BOOLEAN]
        BY DEF CoreOK, Entries
    <2>2. marks(s) \in BOOLEAN
        OBVIOUS
    <2> HIDE DEF done, marks
    <2>3. Entry(IF dbList[s] = NoEntry THEN 0 ELSE dbList[s].dbid, marks(s))
             \in [dbid : Account \cup {None, 0}, online : BOOLEAN]
        BY <2>1, <2>2 DEF Entry
    <2> QED
        BY <2>1, <2>3
<1>4. pl \in Players /\ db \in Entries
    BY <1>2, <1>3 DEF Players, Entries
<1> HIDE DEF pl, db, done, made, marks, next
<1> QED
    BY <1>1, <1>4

LEMMA LogoutType ==
    ASSUME Inv, NEW s \in Slot, NEW d, LogoutOK(s, d)
    PROVE  SameConns(conn') /\ dbList' \in Entries
<1>1. NetOK /\ CoreOK
    BY Parts DEF Inv
<1>2. "select" \in Phases /\ SameConns(conn)
    BY <1>1, SameRefl DEF Phases
<1>3. SameConns(Tell(conn, s, "select"))
    BY <1>1, <1>2, TellSame
<1>4. [dbList EXCEPT ![s].online = FALSE] \in Entries /\ dbList \in Entries
    BY <1>1, EntryUpdated DEF CoreOK
<1> QED
    BY <1>2, <1>3, <1>4 DEF LogoutOK

\* What a message leaves alone is the same for all of them.
LEMMA CoreActorTypes ==
    ASSUME Inv, SameConns(conn'), dbList' \in Entries, player' \in Players,
           onlines' \in Seq(Waiting),
           polls' \in Seq(Asked), mapLoaded' \in BOOLEAN,
           SeenOK', QueueOK', UNCHANGED <<slot, freeQ, raced, netQ>>
    PROVE  Inv'
BY NetKept, PartsNext DEF Inv, CoreOK, PlayerOK
LEMMA CoreMessageStep == ASSUME Inv, CoreStep PROVE Inv'
<1> DEFINE m == Core
<1>0. NetOK /\ CoreOK /\ QueueOK /\ PlayerOK /\ SeenOK /\ SameConns(conn)
    BY Parts, SameRefl DEF Inv
<1>1. m \in CoreMsg /\ QueueOK' /\ UNCHANGED <<slot, freeQ, raced, netQ>>
    BY <1>0 DEF CoreStep, QueueOK, Core
<1>2. m.chan \in Slot /\ "login" \in Phases /\ "select" \in Phases
    BY <1>1, CoreMsgs DEF Phases
<1>3. SeenOK'
    BY <1>0 DEF CoreStep, Login, Online, Gameplay, BadChannel, PlayerLogout, SeenOK
<1>4. CASE Login
    <2>1. m.conn \in Conn /\ m.uid \in Account
        BY <1>1, <1>4, CoreMsgs DEF Login
    <2>2. UNCHANGED <<onlines, polls, mapLoaded, player>>
        BY <1>4 DEF Login
    <2>3. SameConns([conn EXCEPT ![m.conn].acct = m.uid])
        <3> DEFINE c == [conn[m.conn] EXCEPT !.acct = m.uid]
        <3>1. ASSUME m.conn \in DOMAIN conn PROVE c \in ConnState /\ c.chan = conn[m.conn].chan
            <4>1. conn[m.conn] \in ConnState
                BY <1>0, <3>1 DEF NetOK
            <4> HIDE DEF m
            <4> QED
                BY <2>1, <4>1 DEF ConnState
        <3>2. [conn EXCEPT ![m.conn].acct = m.uid] = [conn EXCEPT ![m.conn] = c]
            OBVIOUS
        <3> HIDE DEF c
        <3> QED
            BY <1>0, <3>1, <3>2, SameUpdated
    <2>4. SameConns(Tell(conn, m.chan, "login"))
          /\ SameConns(Tell([conn EXCEPT ![m.conn].acct = m.uid], m.chan, "select"))
        BY <1>0, <1>2, <2>3, TellSame
    <2>5. [dbList EXCEPT ![m.chan] = Entry(m.uid, FALSE)] \in Entries /\ dbList \in Entries
        BY <1>0, <1>2, <2>1, EntryUpdated DEF CoreOK
    <2>6. SameConns(conn') /\ dbList' \in Entries
        BY <1>0, <1>4, <2>4, <2>5 DEF Login
    <2> QED
        BY <1>0, <1>1, <1>3, <2>2, <2>6, CoreActorTypes DEF CoreOK, PlayerOK
<1>5. CASE Online
    <2> DEFINE o == [chan |-> m.chan, uid |-> dbList[m.chan].dbid, conn |-> m.conn]
    <2>1. m.conn \in Conn /\ dbList \in Entries
        BY <1>0, <1>1, <1>5, CoreMsgs DEF Online, CoreOK
    <2>2. UNCHANGED <<conn, polls, mapLoaded>>
        BY <1>5 DEF Online
    <2>3. ASSUME dbList[m.chan].dbid \in Account PROVE o \in Waiting
        BY <1>2, <2>1, <2>3 DEF Waiting
    <2>4. \/ UNCHANGED <<dbList, player, onlines>>
          \/ /\ o \in Waiting /\ UNCHANGED onlines
             /\ \E placed \in SUBSET {1} :
                   player' = Added(<<o>>, placed).player /\ dbList' = Added(<<o>>, placed).dbList
          \/ o \in Waiting /\ onlines' = Append(onlines, o) /\ UNCHANGED <<dbList, player>>
        BY <1>5, <2>3 DEF Online
    <2> HIDE DEF o
    <2>5. ASSUME o \in Waiting, NEW placed
          PROVE  Added(<<o>>, placed).player \in Players /\ Added(<<o>>, placed).dbList \in Entries
        <3>1. ASSUME o \in Waiting PROVE <<o>> \in Seq(Waiting)
            BY <3>1
        <3> QED
            BY <1>0, <2>5, <3>1, AddedType
    <2>6. player' \in Players /\ dbList' \in Entries /\ onlines' \in Seq(Waiting)
        BY <1>0, <2>1, <2>4, <2>5 DEF CoreOK, PlayerOK
    <2>7. SameConns(conn') /\ polls' \in Seq(Asked) /\ mapLoaded' \in BOOLEAN
        BY <1>0, <2>2 DEF CoreOK, SameConns
    <2> QED
        BY <1>1, <1>3, <2>6, <2>7, CoreActorTypes
<1>6. CASE Gameplay \/ BadChannel
    <2>1. UNCHANGED <<onlines, polls, mapLoaded, player, conn>>
        BY <1>6 DEF Gameplay, BadChannel
    <2>2. dbList' \in Entries
        <3>1. [dbList EXCEPT ![m.chan] = NoEntry] \in Entries /\ dbList \in Entries
            BY <1>0, <1>2, EntryUpdated DEF CoreOK, NoEntry
        <3>2. dbList' = [dbList EXCEPT ![m.chan] = NoEntry] \/ dbList' = dbList
            BY <1>6 DEF Gameplay, BadChannel
        <3> QED
            BY <3>1, <3>2
    <2>3. SameConns(conn')
        BY <1>0, <2>1 DEF SameConns
    <2> QED
        BY <1>0, <1>1, <1>3, <2>1, <2>2, <2>3, CoreActorTypes DEF CoreOK, PlayerOK
<1>7. CASE PlayerLogout
    <2>1. m.uid \in Account
        BY <1>1, <1>7, CoreMsgs DEF PlayerLogout
    <2>2. UNCHANGED <<onlines, mapLoaded, player>>
        BY <1>7 DEF PlayerLogout
    <2>3. \/ polls' = Append(polls, [chan |-> m.chan, uid |-> m.uid]) /\ UNCHANGED <<dbList, conn>>
          \/ LogoutOK(m.chan, m.uid) /\ UNCHANGED polls
        BY <1>7 DEF PlayerLogout
    <2> HIDE DEF m
    <2>4. polls' \in Seq(Asked)
        <3> DEFINE a == [chan |-> m.chan, uid |-> m.uid]
        <3>1. a \in Asked
            BY <1>2, <2>1 DEF Asked
        <3>2. polls \in Seq(Asked) /\ (polls' = Append(polls, a) \/ polls' = polls)
            BY <1>0, <2>3 DEF CoreOK
        <3> HIDE DEF a
        <3> QED
            BY <3>1, <3>2
    <2>5. SameConns(conn') /\ dbList' \in Entries
        BY <1>0, <1>2, <2>3, LogoutType DEF CoreOK, SameConns
    <2> QED
        BY <1>0, <1>1, <1>3, <2>2, <2>4, <2>5, CoreActorTypes DEF CoreOK, PlayerOK
<1> QED
    BY <1>4, <1>5, <1>6, <1>7 DEF CoreStep

LEMMA MapStep == ASSUME Inv, MapLoaded PROVE Inv'
<1>0. NetOK /\ CoreOK /\ QueueOK /\ PlayerOK /\ SeenOK /\ SameConns(conn)
    BY Parts, SameRefl DEF Inv
<1> DEFINE os == Append(Tail(onlines), Head(onlines))
<1>1. PICK placed \in SUBSET DOMAIN onlines :
          player' = Added(os, placed).player /\ dbList' = Added(os, placed).dbList
    BY DEF MapLoaded
<1>2. /\ onlines # <<>> /\ onlines' = <<>> /\ mapLoaded' = TRUE
      /\ UNCHANGED <<slot, freeQ, conn, raced, netQ, coreQ, polls>>
    BY DEF MapLoaded, netVars
<1>3. os \in Seq(Waiting)
    BY <1>0, <1>2 DEF CoreOK
<1> HIDE DEF os
<1>4. player' \in Players /\ dbList' \in Entries
    BY <1>0, <1>1, <1>3, AddedType
<1>5. SeenOK'
    <2>1. seen' \subseteq seen \cup {"lateOnline", "unmarked"}
        BY DEF MapLoaded
    <2> QED
        BY <1>0, <2>1 DEF SeenOK
<1>6. QueueOK' /\ SameConns(conn') /\ onlines' \in Seq(Waiting)
    BY <1>0, <1>2 DEF QueueOK, SameConns
<1> QED
    BY <1>0, <1>2, <1>4, <1>5, <1>6, CoreActorTypes DEF CoreOK

LEMMA PollStep == ASSUME Inv, NEW i \in DOMAIN polls, Poll(i) PROVE Inv'
<1>0. NetOK /\ CoreOK /\ QueueOK /\ PlayerOK /\ SeenOK
    BY Parts DEF Inv
<1>1. polls[i].chan \in Slot
    <2>1. polls[i] \in Asked
        BY <1>0 DEF CoreOK
    <2> QED
        BY <2>1 DEF Asked
<1>2. SameConns(conn') /\ dbList' \in Entries
    BY <1>1, LogoutType DEF Poll
<1>3. polls' \in Seq(Asked)
    <2>1. polls \in Seq(Asked)
        BY <1>0 DEF CoreOK
    <2>2. polls' = SubSeq(polls, 1, i - 1) \o SubSeq(polls, i + 1, Len(polls))
        BY DEF Poll, RemoveAt
    <2>3. SubSeq(polls, 1, i - 1) \in Seq(Asked) /\ SubSeq(polls, i + 1, Len(polls)) \in Seq(Asked)
        BY <2>1
    <2> QED
        BY <2>2, <2>3
<1>4. UNCHANGED <<slot, freeQ, raced, netQ, coreQ, onlines, mapLoaded, player, seen>>
    BY DEF Poll
<1> QED
    BY <1>0, <1>2, <1>3, <1>4, CoreActorTypes DEF CoreOK, PlayerOK, QueueOK, SeenOK
----------------------------------------------------------------------------
(* The player actors.                                                       *)

LEMMA PlayerUpdated ==
    ASSUME PlayerOK, NEW d \in Account, NEW p \in PlayerState
    PROVE  [player EXCEPT ![d] = p] \in Players
BY DEF PlayerOK, Players

LEMMA TakenType ==
    ASSUME PlayerOK, NEW d \in Account, NEW type, Idle(d, type)
    PROVE  /\ Taken(d) \in PlayerState
           /\ type \in {"BINDCHANNEL", "BADCHANNEL"} => Head(player[d].inbox).chan \in Slot
<1>1. player[d] \in PlayerState /\ player[d].inbox # <<>>
    BY DEF PlayerOK, Players, Idle
<1>2. player[d].inbox \in Seq(PlayerMsg)
    BY <1>1 DEF PlayerState
<1> DEFINE h == Head(player[d].inbox)
           t == Tail(player[d].inbox)
<1>3. h \in PlayerMsg /\ t \in Seq(PlayerMsg)
    BY <1>1, <1>2
<1>4. h.type = type
    BY DEF Idle
<1> HIDE DEF h, t
<1>5. type \in {"BINDCHANNEL", "BADCHANNEL"} => h.chan \in Slot
    BY <1>3, <1>4 DEF PlayerMsg, ClientMsg
<1>6. [player[d] EXCEPT !.inbox = t] \in PlayerState
    BY <1>1, <1>3 DEF PlayerState
<1> QED
    BY <1>5, <1>6 DEF Taken, h, t

LEMMA PostType ==
    ASSUME NetOK, NEW op \in {"bind", "unbind", "close"}, NEW s \in Slot, NEW d \in Account,
           Post(op, s, d)
    PROVE  netQ' \in Seq(Closure)
<1> DEFINE c == [op |-> op, chan |-> s, uid |-> d]
<1>1. c \in Closure
    BY DEF Closure
<1>2. netQ \in Seq(Closure) /\ netQ' = Append(netQ, c)
    BY DEF NetOK, Post
<1> HIDE DEF c
<1> QED
    BY <1>1, <1>2

\* A player that only changes its own state and posts to the net thread.
LEMMA OwnStep ==
    ASSUME Inv, player' \in Players, netQ' \in Seq(Closure),
           UNCHANGED <<slot, freeQ, conn, raced, coreVars, seen>>
    PROVE  Inv'
<1>1. NetOK /\ CoreOK /\ QueueOK /\ SeenOK /\ SameConns(conn)
    BY Parts, SameRefl DEF Inv
<1>2. NetOK' /\ CoreOK' /\ QueueOK' /\ SeenOK' /\ PlayerOK' /\ SameConns(conn')
    BY <1>1 DEF NetOK, coreVars, CoreOK, QueueOK, SeenOK, PlayerOK, SameConns
<1>3. NumbersConserved'
    BY <1>2, NumbersKept
<1> QED
    BY <1>2, <1>3, PartsNext DEF Inv

LEMMA OfflineType ==
    ASSUME Inv, NEW d \in Account, NEW soft \in BOOLEAN, NEW type, Idle(d, type),
           player[d].chan \in Slot, GoOffline(d, soft)
    PROVE  player' \in Players /\ netQ' \in Seq(Closure)
<1>1. NetOK /\ PlayerOK
    BY Parts DEF Inv
<1> DEFINE w == IF soft THEN "unbind" ELSE "close"
           f == IF soft THEN player[d].chan ELSE None
           t == Taken(d)
<1>2. t \in PlayerState /\ w \in {"unbind", "close"} /\ f \in Slot \cup {None}
    BY <1>1, TakenType
<1>3. player' = [player EXCEPT ![d] =
                    [t EXCEPT !.chan = 0, !.state = "offline", !.wait = w, !.soft = f]]
    BY DEF GoOffline
<1>4. Post(w, player[d].chan, d)
    BY DEF GoOffline
<1> HIDE DEF t, w, f
<1>5. [t EXCEPT !.chan = 0, !.state = "offline", !.wait = w, !.soft = f] \in PlayerState
    BY <1>2 DEF PlayerState
<1> QED
    BY <1>1, <1>2, <1>3, <1>4, <1>5, PlayerUpdated, PostType

LEMMA MailStep ==
    ASSUME Inv, NEW d \in Account,
           BindChannel(d) \/ LostChannel(d) \/ RequestLogout(d) \/ OtherPacket(d) \/ Ignore(d)
    PROVE  Inv'
<1>0. NetOK /\ PlayerOK /\ player \in Players /\ netQ \in Seq(Closure)
    BY Parts DEF Inv, NetOK, PlayerOK
<1>1. UNCHANGED <<slot, freeQ, conn, raced, coreVars, seen>>
    BY DEF BindChannel, LostChannel, RequestLogout, OtherPacket, Ignore, netVars
<1>2. CASE BindChannel(d)
    <2> DEFINE s == Head(player[d].inbox).chan
               t == Taken(d)
    <2>1. t \in PlayerState /\ s \in Slot
        BY <1>0, <1>2, TakenType DEF BindChannel
    <2>2. \/ UNCHANGED <<player, netQ>>
          \/ /\ player' = [player EXCEPT ![d] = [t EXCEPT !.chan = s, !.wait = "bind"]]
             /\ Post("bind", s, d)
        BY <1>2 DEF BindChannel
    <2> HIDE DEF s, t
    <2>3. [t EXCEPT !.chan = s, !.wait = "bind"] \in PlayerState
        BY <2>1 DEF PlayerState
    <2>4. player' \in Players /\ netQ' \in Seq(Closure)
        BY <1>0, <2>1, <2>2, <2>3, PlayerUpdated, PostType
    <2> QED
        BY <1>1, <2>4, OwnStep
<1>3. CASE LostChannel(d)
    <2>1. player[d].chan \in Slot \cup {None, 0} /\ Taken(d) \in PlayerState
        BY <1>0, <1>3, TakenType DEF LostChannel, Players, PlayerState
    <2>2. \/ UNCHANGED <<player, netQ>>
          \/ player' = [player EXCEPT ![d] = Taken(d)] /\ UNCHANGED netQ
          \/ player[d].chan \in Slot /\ GoOffline(d, FALSE)
        BY <1>3, <2>1 DEF LostChannel
    <2>3. Idle(d, "BADCHANNEL")
        BY <1>3 DEF LostChannel
    <2>4. player' \in Players /\ netQ' \in Seq(Closure)
        BY <1>0, <2>1, <2>2, <2>3, PlayerUpdated, OfflineType
    <2> QED
        BY <1>1, <2>4, OwnStep
<1>4. CASE RequestLogout(d)
    <2>1. player' \in Players /\ netQ' \in Seq(Closure)
        BY <1>4, OfflineType DEF RequestLogout
    <2> QED
        BY <1>1, <2>1, OwnStep
<1>5. CASE OtherPacket(d)
    BY <1>0, <1>1, <1>5, OwnStep DEF OtherPacket, netVars
<1>6. CASE Ignore(d)
    <2>1. Taken(d) \in PlayerState
        BY <1>0, <1>6, TakenType DEF Ignore
    <2>2. player' \in Players /\ netQ' \in Seq(Closure)
        BY <1>0, <1>6, <2>1, PlayerUpdated DEF Ignore, netVars
    <2> QED
        BY <1>1, <2>2, OwnStep
<1> QED
    BY <1>2, <1>3, <1>4, <1>5, <1>6

LEMMA LifeStep ==
    ASSUME Inv, NEW d \in Account, OnlineOK(d) \/ Deactivate(d) \/ Erase(d)
    PROVE  Inv'
<1>0. /\ NetOK /\ CoreOK /\ QueueOK /\ PlayerOK /\ SeenOK /\ SameConns(conn)
      /\ player \in Players /\ netQ \in Seq(Closure)
    BY Parts, SameRefl DEF Inv, NetOK, PlayerOK
<1>1. player[d] \in PlayerState
    BY <1>0 DEF Players
<1>2. CASE OnlineOK(d)
    <2>1. "game" \in Phases
        BY DEF Phases
    <2>2. /\ player' = [player EXCEPT ![d] = [player[d] EXCEPT !.wait = "no"]]
          /\ conn' = Tell(conn, player[d].chan, "game")
          /\ UNCHANGED <<slot, freeQ, raced, netQ, coreVars>>
        BY <1>2 DEF OnlineOK
    <2>3. SameConns(conn')
        BY <1>0, <2>1, <2>2, TellSame
    <2>4. [player[d] EXCEPT !.wait = "no"] \in PlayerState
        BY <1>1 DEF PlayerState
    <2>5. player' \in Players
        BY <1>0, <2>2, <2>4, PlayerUpdated
    <2>6. SeenOK'
        BY <1>0, <1>2 DEF OnlineOK, SeenOK
    <2> QED
        BY <1>0, <2>2, <2>3, <2>5, <2>6, CoreActorTypes DEF coreVars, CoreOK, QueueOK
<1>3. CASE Deactivate(d)
    <2> DEFINE t == [player[d] EXCEPT !.state = "detached", !.inbox = <<>>]
               m == [type |-> "PLAYERLOGOUT", chan |-> player[d].soft, uid |-> d]
    <2>1. t \in PlayerState
        <3>1. [player[d] EXCEPT !.state = "detached"] \in PlayerState
            BY <1>1 DEF PlayerState
        <3> DEFINE u == [player[d] EXCEPT !.state = "detached"]
        <3> HIDE DEF u
        <3>2. [u EXCEPT !.inbox = <<>>] \in PlayerState
            <4>1. u \in PlayerState /\ <<>> \in Seq(PlayerMsg)
                BY <3>1 DEF u
            <4> QED
                BY <4>1 DEF PlayerState
        <3> QED
            BY <3>2 DEF u
    <2>2. player' = [player EXCEPT ![d] = t]
        BY <1>3 DEF Deactivate
    <2>3. coreQ' = IF player[d].soft = None THEN coreQ ELSE Append(coreQ, m)
        BY <1>3 DEF Deactivate
    <2>4. player[d].soft # None => m \in CoreMsg
        BY <1>1 DEF PlayerState, CoreMsg
    <2> HIDE DEF t, m
    <2>5. player' \in Players
        BY <1>0, <2>1, <2>2, PlayerUpdated
    <2>7. QueueOK'
        BY <1>0, <2>3, <2>4 DEF QueueOK
    <2>6. UNCHANGED <<netVars, dbList, onlines, polls, mapLoaded, seen>>
        BY <1>3 DEF Deactivate
    <2> QED
        BY <1>0, <2>5, <2>6, <2>7, CoreActorTypes DEF netVars, CoreOK, SeenOK, SameConns
<1>4. CASE Erase(d)
    <2>1. NoPlayer \in PlayerState
        BY DEF NoPlayer, PlayerState
    <2>2. player' \in Players /\ UNCHANGED <<netVars, coreVars, seen>>
        BY <1>0, <1>4, <2>1, PlayerUpdated DEF Erase
    <2> QED
        BY <1>0, <2>2, OwnStep DEF netVars
<1> QED
    BY <1>2, <1>3, <1>4
----------------------------------------------------------------------------
(* The net thread runs what the players posted.                             *)

LEMMA PostedStep == ASSUME Inv, RunPosted PROVE Inv'
<1> DEFINE p == Head(netQ)
           pl(w) == [player EXCEPT ![p.uid] = [player[p.uid] EXCEPT !.wait = w]]
<1>0. /\ NetOK /\ CoreOK /\ QueueOK /\ PlayerOK /\ SeenOK /\ SameConns(conn)
      /\ player \in Players
    BY Parts, SameRefl DEF Inv, PlayerOK
<1>1. p \in Closure /\ netQ' \in Seq(Closure)
    BY <1>0 DEF RunPosted, NetOK
<1>2. p.chan \in Slot /\ p.uid \in Account
    BY <1>1 DEF Closure
<1>3. UNCHANGED <<raced, dbList, onlines, polls, mapLoaded>> /\ raced' \in BOOLEAN
    BY <1>0 DEF RunPosted, NetOK
<1>4. pl("no") \in Players /\ pl("bound") \in Players
    <2>1. player[p.uid] \in PlayerState
        BY <1>0, <1>2 DEF Players
    <2>2. /\ [player[p.uid] EXCEPT !.wait = "no"] \in PlayerState
          /\ [player[p.uid] EXCEPT !.wait = "bound"] \in PlayerState
        BY <2>1 DEF PlayerState
    <2> QED
        BY <1>0, <1>2, <2>2, PlayerUpdated
<1> HIDE DEF p
<1>5. ASSUME UNCHANGED <<slot, freeQ, coreQ>>, SameConns(conn'), player' \in Players, SeenOK'
      PROVE  Inv'
    <2>1. NetOK' /\ NumbersConserved'
        BY <1>0, <1>1, <1>3, <1>5, NumbersKept DEF NetOK, SameConns
    <2>2. CoreOK' /\ QueueOK' /\ PlayerOK'
        BY <1>0, <1>3, <1>5 DEF CoreOK, QueueOK, PlayerOK
    <2> QED
        BY <1>5, <2>1, <2>2, PartsNext DEF Inv
<1>6. ASSUME NEW u \in Account \cup {None}, NEW k,
             conn' = conn \/ conn' = [conn EXCEPT ![k].uid = u]
      PROVE  SameConns(conn')
    <2> DEFINE c == [conn[k] EXCEPT !.uid = u]
    <2>1. ASSUME k \in DOMAIN conn PROVE c \in ConnState /\ c.chan = conn[k].chan
        <3>1. conn[k] \in ConnState
            BY <1>0, <2>1 DEF NetOK
        <3> QED
            BY <3>1 DEF ConnState
    <2>2. conn' = conn \/ conn' = [conn EXCEPT ![k] = c]
        BY <1>6
    <2> HIDE DEF c
    <2> QED
        BY <1>0, <2>1, <2>2, SameUpdated DEF SameConns
<1>7. CASE RunBind(p.chan, p.uid)
    <2>1. /\ player' = pl("bound") /\ UNCHANGED <<slot, freeQ, coreQ>>
          /\ conn' = conn \/ conn' = [conn EXCEPT ![slot[p.chan]].uid = p.uid]
        BY <1>7 DEF RunBind
    <2>2. SeenOK'
        BY <1>0, <1>7 DEF RunBind, SeenOK
    <2>3. SameConns(conn')
        BY <1>2, <1>6, <2>1
    <2> QED
        BY <1>4, <1>5, <2>1, <2>2, <2>3
<1>8. CASE RunUnbind(p.chan, p.uid)
    <2>1. /\ player' = pl("no") /\ UNCHANGED <<slot, freeQ, coreQ, seen>>
          /\ conn' = conn \/ conn' = [conn EXCEPT ![slot[p.chan]].uid = None]
        BY <1>8 DEF RunUnbind
    <2>2. SeenOK'
        BY <1>0, <2>1 DEF SeenOK
    <2>3. SameConns(conn')
        BY <1>6, <2>1
    <2> QED
        BY <1>4, <1>5, <2>1, <2>2, <2>3
<1>9. CASE RunClose(p.chan, p.uid)
    <2>1. DoClose(p.chan, conn, pl("no")) /\ UNCHANGED seen
        BY <1>9 DEF RunClose
    <2> HIDE DEF pl
    <2>2. NetOK' /\ NumbersConserved' /\ QueueOK' /\ PlayerOK'
        BY <1>0, <1>1, <1>2, <1>3, <1>4, <2>1, CloseTypes
    <2>3. CoreOK' /\ SeenOK'
        BY <1>0, <1>3, <2>1 DEF CoreOK, SeenOK
    <2> QED
        BY <2>2, <2>3, PartsNext DEF Inv
<1> QED
    BY <1>7, <1>8, <1>9 DEF RunPosted, p

----------------------------------------------------------------------------
LEMMA InitInv == Init => Inv
<1> SUFFICES ASSUME Init PROVE Inv
    OBVIOUS
<1>1. PICK setup \in Setups : freeQ = setup.ids /\ mapLoaded = setup.loaded
    BY DEF Init
<1>2. setup.ids \in Seq(Nat \ {0}) /\ setup.loaded \in BOOLEAN /\ IsInjective(setup.ids)
    BY SessionAssumption
<1>3. Range(setup.ids) \subseteq Slot
    BY DEF Slot
<1>4. freeQ \in Seq(Slot)
    <2>1. \A i \in 1 .. Len(setup.ids) : setup.ids[i] \in Slot
        BY <1>2, <1>3 DEF Range
    <2> QED
        BY <1>1, <1>2, <2>1
<1>5. NetOK
    <2>1. conn = <<>> /\ netQ = <<>> /\ raced = FALSE
        BY DEF Init
    <2>2. conn \in Seq(ConnState) /\ Len(conn) = 0 /\ netQ \in Seq(Closure)
        BY <2>1
    <2>3. slot \in [Slot -> Conn \cup {None}]
        BY DEF Init
    <2>4. raced \in BOOLEAN
        BY <2>1
    <2>5. Len(conn) <= MaxConn
        BY <2>2, SessionAssumption
    <2> QED
        BY <1>4, <2>2, <2>3, <2>4, <2>5 DEF NetOK
<1>6. CoreOK
    BY <1>1, <1>2 DEF Init, CoreOK, Entries, NoEntry, Entry
<1>7. QueueOK /\ PlayerOK /\ SeenOK
    <2>1. NoPlayer \in PlayerState
        BY DEF NoPlayer, PlayerState
    <2> QED
        BY <2>1 DEF Init, QueueOK, PlayerOK, SeenOK, Players
<1>8. NumbersConserved
    <2>1. \A s \in Slot : slot[s] = None
        BY DEF Init
    <2>2. Range(setup.ids) = Range(freeQ) \cup {s \in Slot : slot[s] # None}
        BY <1>1, <2>1
    <2>3. IsInjective(freeQ) /\ Range(freeQ) \subseteq Slot
        BY <1>1, <1>2, <1>3
    <2> QED
        BY <2>1, <2>2, <2>3 DEF NumbersConserved
<1> QED
    BY <1>5, <1>6, <1>7, <1>8, Parts DEF Inv

LEMMA StutterStep == ASSUME Inv, UNCHANGED vars PROVE Inv'
<1>1. player' \in Players /\ netQ' \in Seq(Closure)
    BY Parts DEF Inv, vars, netVars, NetOK, PlayerOK
<1> QED
    BY <1>1, OwnStep DEF vars, netVars

LEMMA NextStep == ASSUME Inv, Next PROVE Inv'
<1>1. CASE Accept
    BY <1>1, AcceptStep
<1>2. CASE Channels
    BY <1>2, ReaderStep, SocketStep DEF Channels
<1>3. CASE RunPosted
    BY <1>3, PostedStep
<1>4. CASE CoreActor
    BY <1>4, CoreMessageStep, MapStep, PollStep DEF CoreActor
<1>5. ASSUME NEW d \in Account, PlayerStep(d) PROVE Inv'
    BY <1>5, MailStep, LifeStep DEF PlayerStep
<1> QED
    BY <1>1, <1>2, <1>3, <1>4, <1>5 DEF Next

\* The state keeps its types and the channel numbers are conserved, in every
\* reachable state.
THEOREM Invariance == Spec => []Inv
<1>1. Inv /\ [Next]_vars => Inv'
    BY NextStep, StutterStep
<1> QED
    BY InitInv, <1>1, PTL DEF Spec

\* Slots, queues, entries and players stay in their types
\* (netdriver.cpp, servicecorenet.cpp, player.cpp).
THEOREM TypeIsCorrect == Spec => []TypeOK
<1>1. Inv => TypeOK
    BY DEF Inv
<1> QED
    BY <1>1, Invariance, PTL

\* No channel number is lost, free twice, or free and in use, in whatever order a
\* channel is closed by its reader, its writer and its player
\* (netdriver.cpp:83-119, 307-330).
THEOREM NumbersAreConserved == Spec => []NumbersConserved
<1>1. Inv => NumbersConserved
    BY DEF Inv
<1> QED
    BY <1>1, Invariance, PTL
----------------------------------------------------------------------------
(* Whose connection is closed. A connection that is closed but still has a  *)
(* reader or a writer to end has put its number back at the end of the      *)
(* queue; one accept at most comes before they end, and takes the first.    *)

NumberRests ==
    \A k \in Ending : conn[k].full = FALSE =>
        /\ conn[k].chan \in Range(freeQ)
        /\ raced = TRUE \/ Head(freeQ) # conn[k].chan

\* The sockets are as they were: the rest of their connections may change.
SocketsKept ==
    /\ UNCHANGED <<slot, freeQ, raced>>
    /\ SameConns(conn')
    /\ \A k \in DOMAIN conn : conn'[k].loops = conn[k].loops /\ conn'[k].full = conn[k].full

LEMMA TellFields ==
    ASSUME NetOK, NEW cs, SameConns(cs), NEW s, NEW p \in Phases, NEW k \in DOMAIN conn
    PROVE  /\ Tell(cs, s, p)[k].uid = cs[k].uid /\ Tell(cs, s, p)[k].acct = cs[k].acct
           /\ Tell(cs, s, p)[k].loops = cs[k].loops /\ Tell(cs, s, p)[k].full = cs[k].full
           /\ \/ Tell(cs, s, p)[k].client = cs[k].client
              \/ Tell(cs, s, p)[k].client = p /\ slot[s] = k
<1>1. DOMAIN cs = DOMAIN conn /\ cs \in Seq(ConnState)
    BY DEF SameConns, NetOK
<1>2. CASE slot[s] = None \/ cs[slot[s]].client = "gone"
    BY <1>2 DEF Tell
<1>3. CASE ~(slot[s] = None \/ cs[slot[s]].client = "gone")
    <2>1. Tell(cs, s, p) = [cs EXCEPT ![slot[s]].client = p]
        BY <1>3 DEF Tell
    <2>2. CASE k = slot[s]
        <3>1. cs[k] \in ConnState
            BY <1>1
        <3>2. Tell(cs, s, p)[k] = [cs[k] EXCEPT !.client = p]
            BY <1>1, <2>1, <2>2
        <3> QED
            BY <2>2, <3>1, <3>2 DEF ConnState
    <2>3. CASE k # slot[s]
        <3>1. Tell(cs, s, p)[k] = cs[k]
            BY <1>1, <2>1, <2>3
        <3> QED
            BY <3>1
    <2> QED
        BY <2>2, <2>3
<1> QED
    BY <1>2, <1>3

\* The connection of slot s ends; the others are those of cs.
Closed(s, cs, ps) ==
    /\ slot[s] \in DOMAIN conn /\ conn[slot[s]].chan = s
    /\ slot' = [slot EXCEPT ![s] = None] /\ freeQ' = Append(freeQ, s)
    /\ coreQ' = Append(coreQ, [type |-> "BADCHANNEL", chan |-> s])
    /\ \A j \in DOMAIN conn : j # slot[s] => conn'[j] = cs[j]
    /\ conn'[slot[s]].uid = None
    /\ conn'[slot[s]].full = FALSE => freeQ # <<>>
    /\ conn'[slot[s]].loops \subseteq cs[slot[s]].loops
    /\ conn'[slot[s]].acct = cs[slot[s]].acct /\ conn'[slot[s]].client = cs[slot[s]].client
    /\ player' = IF conn[slot[s]].uid = None THEN ps
                 ELSE Deliver(ps, conn[slot[s]].uid, [type |-> "BADCHANNEL", chan |-> s])

LEMMA CloseFields ==
    ASSUME Inv, NEW s \in Slot, NEW cs, SameConns(cs), NEW ps, DoClose(s, cs, ps), slot[s] # None
    PROVE  Closed(s, cs, ps)
<1> DEFINE k == slot[s]
<1>1. k \in DOMAIN conn /\ conn[k].chan = s
    BY DEF Inv, NumbersConserved
<1>2. DOMAIN cs = DOMAIN conn /\ cs[k] \in ConnState
    BY <1>1, Parts DEF SameConns, NetOK, Inv
<1>3. PICK ended \in SUBSET {"writer"} :
          conn' = [cs EXCEPT ![k].uid = None, ![k].full = (freeQ = <<>>),
                             ![k].loops = @ \ ended]
    BY DEF DoClose
<1>4. \A j \in DOMAIN conn : j # k => conn'[j] = cs[j]
    BY <1>2, <1>3
<1>5. conn'[k] = [[[cs[k] EXCEPT !.uid = None] EXCEPT !.full = (freeQ = <<>>)] EXCEPT !.loops = @ \ ended]
    BY <1>1, <1>2, <1>3
<1>6. /\ conn'[k].uid = None /\ conn'[k].full = (freeQ = <<>>)
      /\ conn'[k].acct = cs[k].acct /\ conn'[k].client = cs[k].client
    BY <1>2, <1>5 DEF ConnState
<1>7. (conn'[k].full = FALSE => freeQ # <<>>) /\ conn'[k].loops \subseteq cs[k].loops
    <2>1. conn'[k].loops = cs[k].loops \ ended
        BY <1>2, <1>5 DEF ConnState
    <2> QED
        BY <1>6, <2>1
<1> QED
    BY <1>1, <1>4, <1>6, <1>7 DEF DoClose, Closed

LEMMA RestKept == ASSUME Inv, NumberRests, SocketsKept PROVE NumberRests'
<1>1. DOMAIN conn' = DOMAIN conn
    BY Parts DEF Inv, NetOK, SocketsKept, SameConns
<1>2. \A k \in DOMAIN conn : conn'[k].chan = conn[k].chan
    BY DEF SocketsKept, SameConns
<1>3. Ending' = Ending
    BY <1>1, <1>2 DEF Ending, Open, SocketsKept
<1> QED
    BY <1>1, <1>2, <1>3 DEF NumberRests, SocketsKept, Ending

LEMMA RestAccept == ASSUME Inv, NumberRests, Accept PROVE NumberRests'
<1> DEFINE h == Head(freeQ)
           n == Len(conn) + 1
<1>1. /\ freeQ # <<>> /\ freeQ' = Tail(freeQ) /\ slot' = [slot EXCEPT ![h] = n]
      /\ raced' = (Ending # {}) /\ (raced => Ending = {})
      /\ conn' = Append(conn, NewConn(h))
    BY DEF Accept
<1>2. NetOK /\ conn \in Seq(ConnState) /\ Len(conn) \in Nat
    BY Parts DEF Inv, NetOK
<1>3. freeQ \in Seq(Slot) /\ IsInjective(freeQ)
    BY <1>2 DEF Inv, NumbersConserved, NetOK
<1>4. h \in Slot /\ Range(freeQ) = Range(freeQ') \cup {h} /\ slot[h] = None
    <2>1. h \in Slot /\ Range(freeQ) = Range(freeQ') \cup {h}
        BY <1>1, <1>3, TailInjective
    <2> QED
        BY <2>1 DEF Inv, NumbersConserved
<1>5. DOMAIN conn' = DOMAIN conn \cup {n} /\ n \notin DOMAIN conn
      /\ \A k \in DOMAIN conn : conn'[k] = conn[k]
    <2> DEFINE c == NewConn(h)
    <2> HIDE DEF c
    <2>1. conn' = Append(conn, c)
        BY <1>1 DEF c
    <2> QED
        BY <1>2, <2>1
<1>6. conn'[n].chan = h /\ slot'[h] = n
    <2>1. conn'[n] = NewConn(h)
        BY <1>1, <1>2
    <2> QED
        BY <1>1, <1>2, <1>4, <2>1 DEF NewConn, NetOK
<1>7. Ending' \subseteq Ending
    <2> SUFFICES ASSUME NEW k \in Ending' PROVE k \in Ending
        OBVIOUS
    <2>1. k \in DOMAIN conn' /\ slot'[conn'[k].chan] # k /\ conn'[k].loops # {}
        BY DEF Ending, Open
    <2>2. k # n
        BY <1>6, <2>1
    <2>3. k \in DOMAIN conn /\ conn'[k] = conn[k]
        BY <1>5, <2>1, <2>2
    <2>4. slot[conn[k].chan] # k
        <3>1. CASE conn[k].chan = h
            <4>1. k # None
                BY <1>2, <2>3, SessionAssumption
            <4> QED
                BY <1>4, <3>1, <4>1
        <3>2. CASE conn[k].chan # h
            BY <1>1, <1>2, <2>1, <2>3, <3>2 DEF NetOK
        <3> QED
            BY <3>1, <3>2
    <2> QED
        BY <2>1, <2>3, <2>4 DEF Ending, Open
<1>8. SUFFICES ASSUME NEW k \in Ending', conn'[k].full = FALSE
               PROVE  conn'[k].chan \in Range(freeQ') /\ raced' = TRUE
    BY DEF NumberRests
<1>9. k \in Ending /\ conn'[k] = conn[k]
    BY <1>5, <1>7 DEF Ending
<1>10. raced' = TRUE /\ raced = FALSE
    BY <1>1, <1>2, <1>9 DEF NetOK
<1>11. conn[k].chan \in Range(freeQ) /\ h # conn[k].chan
    BY <1>8, <1>9, <1>10 DEF NumberRests
<1> QED
    BY <1>4, <1>9, <1>10, <1>11

\* DoClose, when the connections it is given differ only where a loop has ended.
LEMMA RestClose ==
    ASSUME Inv, NumberRests, NEW s \in Slot, NEW cs, SameConns(cs), NEW ps,
           DoClose(s, cs, ps), SameConns(conn'), UNCHANGED raced,
           \A k \in DOMAIN conn : /\ conn[k].loops = {} => cs[k].loops = {}
                                  /\ cs[k].loops = {} \/ cs[k].full = conn[k].full
    PROVE  NumberRests'
<1>0. NetOK
    BY Parts DEF Inv
<1>1. DOMAIN conn' = DOMAIN conn /\ \A k \in DOMAIN conn : conn'[k].chan = conn[k].chan
    BY <1>0 DEF NetOK, SameConns
<1>2. CASE slot[s] = None
    <2>1. conn' = cs /\ UNCHANGED <<slot, freeQ>>
        BY <1>2 DEF DoClose
    <2>2. SUFFICES ASSUME NEW k \in Ending', conn'[k].full = FALSE
                   PROVE  conn'[k].chan \in Range(freeQ') /\ (raced' = TRUE \/ Head(freeQ') # conn'[k].chan)
        BY DEF NumberRests
    <2>3. k \in DOMAIN conn /\ cs[k].loops # {} /\ ~Open(k)
        BY <1>1, <2>1 DEF Ending, Open
    <2>4. k \in Ending /\ conn[k].full = FALSE
        BY <2>1, <2>2, <2>3 DEF Ending
    <2> QED
        BY <1>1, <2>1, <2>3, <2>4 DEF NumberRests
<1>3. CASE slot[s] # None
    <2> DEFINE k == slot[s]
    <2>1. /\ k \in DOMAIN conn /\ conn[k].chan = s
          /\ slot' = [slot EXCEPT ![s] = None] /\ freeQ' = Append(freeQ, s)
          /\ \A j \in DOMAIN conn : j # k => conn'[j] = cs[j]
          /\ conn'[k].full = FALSE => freeQ # <<>>
        <3>1. Closed(s, cs, ps)
            BY <1>3, CloseFields
        <3> QED
            BY <3>1 DEF Closed
    <2>2. freeQ \in Seq(Slot) /\ s \notin Range(freeQ)
        BY <1>0, <1>3 DEF NetOK, Inv, NumbersConserved
    <2>3. Range(freeQ') = Range(freeQ) \cup {s} /\ (freeQ # <<>> => Head(freeQ') = Head(freeQ))
        BY <2>1, <2>2, StaysInjective DEF Inv, NumbersConserved
    <2>4. SUFFICES ASSUME NEW j \in Ending', conn'[j].full = FALSE
                   PROVE  conn'[j].chan \in Range(freeQ') /\ (raced' = TRUE \/ Head(freeQ') # conn'[j].chan)
        BY DEF NumberRests
    <2>5. j \in DOMAIN conn /\ conn'[j].chan = conn[j].chan /\ conn'[j].loops # {}
        BY <1>1 DEF Ending
    <2>6. CASE j = k
        <3>1. freeQ # <<>> /\ Head(freeQ) \in Range(freeQ)
            <4>1. freeQ # <<>>
                BY <2>1, <2>4, <2>6
            <4>2. Head(freeQ) = freeQ[1] /\ 1 \in DOMAIN freeQ
                BY <2>2, <4>1
            <4> QED
                BY <4>1, <4>2 DEF Range
        <3> QED
            BY <2>1, <2>2, <2>3, <2>5, <2>6, <3>1
    <2>7. CASE j # k
        <3>1. conn'[j] = cs[j] /\ cs[j].loops # {}
            BY <2>1, <2>5, <2>7
        <3>2. ~Open(j)
            <4>1. slot'[conn[j].chan] # j
                BY <2>4, <2>5 DEF Ending, Open
            <4>2. CASE conn[j].chan = s
                BY <2>7, <4>2 DEF Open
            <4>3. CASE conn[j].chan # s
                BY <1>0, <2>1, <4>1, <4>3 DEF Open, NetOK
            <4> QED
                BY <4>2, <4>3
        <3>3. j \in Ending /\ conn[j].full = FALSE
            BY <2>4, <2>5, <3>1, <3>2 DEF Ending
        <3>4. conn[j].chan \in Range(freeQ) /\ (raced = TRUE \/ Head(freeQ) # conn[j].chan)
            BY <3>3 DEF NumberRests
        <3>5. freeQ # <<>>
            BY <3>4 DEF Range
        <3> QED
            BY <2>3, <2>5, <3>4, <3>5
    <2> QED
        BY <2>6, <2>7
<1> QED
    BY <1>2, <1>3

\* What the connections keep in a step that moves no socket.
SameBinds == \A k \in DOMAIN conn : conn'[k].uid = conn[k].uid
SameAccts == \A k \in DOMAIN conn : conn'[k].acct = conn[k].acct
NoneEnters == \A k \in DOMAIN conn : conn'[k].client = "game" => conn[k].client = "game"

\* A step that leaves the sockets alone and tells a client of a screen at most.
LEMMA ToldKept ==
    ASSUME Inv, NEW s, NEW p \in Phases, conn' = Tell(conn, s, p), UNCHANGED <<slot, freeQ, raced>>
    PROVE  /\ SocketsKept /\ SameBinds /\ SameAccts
           /\ \A k \in DOMAIN conn : conn'[k].client = conn[k].client \/ (conn'[k].client = p /\ slot[s] = k)
           /\ p # "game" => NoneEnters
<1>1. NetOK /\ SameConns(conn)
    BY Parts, SameRefl DEF Inv
<1>2. SameConns(conn')
    BY <1>1, TellSame
<1>3. ASSUME NEW k \in DOMAIN conn
      PROVE  /\ conn'[k].uid = conn[k].uid /\ conn'[k].acct = conn[k].acct
             /\ conn'[k].loops = conn[k].loops /\ conn'[k].full = conn[k].full
             /\ conn'[k].client = conn[k].client \/ (conn'[k].client = p /\ slot[s] = k)
    BY <1>1, TellFields
<1> QED
    BY <1>2, <1>3 DEF SocketsKept, SameBinds, SameAccts, NoneEnters

LEMMA UntouchedKept ==
    ASSUME Inv, UNCHANGED <<slot, freeQ, raced, conn>>
    PROVE  SocketsKept /\ SameBinds /\ SameAccts /\ NoneEnters
<1>1. SameConns(conn')
    BY Parts, SameRefl DEF Inv, SameConns
<1> QED
    BY <1>1 DEF SocketsKept, SameBinds, SameAccts, NoneEnters

LEMMA ReaderKept ==
    ASSUME Inv, NEW k \in DOMAIN conn, NEW m \in ClientMsg, Recv(k, m) \/ RecvLate(k, m)
    PROVE  SocketsKept /\ SameBinds /\ SameAccts /\ NoneEnters
<1>1. CASE Recv(k, m)
    BY <1>1, UntouchedKept DEF Recv, netVars
<1>2. CASE RecvLate(k, m)
    <2>1. UNCHANGED <<slot, freeQ, raced>> /\ conn' = [conn EXCEPT ![k].client = "gone"]
        BY <1>2 DEF RecvLate
    <2>2. conn \in Seq(ConnState)
        BY Parts DEF Inv, NetOK
    <2> DEFINE c == [conn[k] EXCEPT !.client = "gone"]
    <2>3. /\ c \in ConnState /\ c.chan = conn[k].chan /\ c.uid = conn[k].uid /\ c.acct = conn[k].acct
          /\ c.loops = conn[k].loops /\ c.full = conn[k].full /\ c.client = "gone"
        <3>1. conn[k] \in ConnState
            BY <2>2
        <3> QED
            BY <3>1 DEF ConnState, Phases
    <2>4. conn' = [conn EXCEPT ![k] = c]
        BY <2>1
    <2> HIDE DEF c
    <2>5. \A j \in DOMAIN conn : conn'[j] = IF j = k THEN c ELSE conn[j]
        BY <2>2, <2>4
    <2>6. SameConns(conn')
        <3>1. NetOK /\ SameConns(conn)
            BY Parts, SameRefl DEF Inv
        <3> QED
            BY <2>3, <2>4, <3>1, SameUpdated
    <2> QED
        BY <2>1, <2>3, <2>5, <2>6 DEF SocketsKept, SameBinds, SameAccts, NoneEnters
<1> QED
    BY <1>1, <1>2

\* net_CM_LOGIN: the connection that logs in, if any does, is that of the packet.
LEMMA LoginKept ==
    ASSUME Inv, Login, coreQ # <<>>, UNCHANGED <<slot, freeQ, raced>>
    PROVE  /\ SocketsKept /\ SameBinds /\ NoneEnters
           /\ \A k \in DOMAIN conn : conn'[k].acct = IF k = Core.conn /\ dbList' # dbList
                                                     THEN Core.uid ELSE conn[k].acct
<1> DEFINE m == Core
<1>0. NetOK /\ CoreOK /\ SameConns(conn) /\ conn \in Seq(ConnState)
    BY Parts, SameRefl DEF Inv, NetOK
<1>1. m \in CoreMsg
    <2>1. coreQ \in Seq(CoreMsg)
        BY Parts DEF Inv, QueueOK
    <2> QED
        BY <2>1 DEF Core
<1>2. m.chan \in Slot /\ m.uid \in Account /\ m.conn \in Conn
    BY <1>1, CoreMsgs DEF Login
<1>3. "login" \in Phases /\ "select" \in Phases
    BY DEF Phases
<1>4. CASE conn' = conn /\ dbList' = dbList
    BY <1>4, UntouchedKept
<1>5. CASE conn' = Tell(conn, m.chan, "login") /\ dbList' = dbList
    BY <1>3, <1>5, ToldKept DEF SameAccts
<1>6. CASE /\ dbList[m.chan] = NoEntry /\ dbList' = [dbList EXCEPT ![m.chan] = Entry(m.uid, FALSE)]
           /\ conn' = Tell([conn EXCEPT ![m.conn].acct = m.uid], m.chan, "select")
    <2> DEFINE c == [conn[m.conn] EXCEPT !.acct = m.uid]
               cs == [conn EXCEPT ![m.conn] = c]
    <2>1. dbList' # dbList
        <3>1. dbList'[m.chan].dbid = m.uid
            BY <1>0, <1>2, <1>6 DEF CoreOK, Entries, Entry
        <3>2. dbList[m.chan].dbid = None
            BY <1>6 DEF NoEntry, Entry
        <3> QED
            BY <1>2, <3>1, <3>2, SessionAssumption
    <2>2. conn' = Tell(cs, m.chan, "select")
        BY <1>6
    <2> HIDE DEF m
    <2>3. ASSUME m.conn \in DOMAIN conn
          PROVE  /\ c \in ConnState /\ c.chan = conn[m.conn].chan /\ c.uid = conn[m.conn].uid
                 /\ c.acct = m.uid /\ c.loops = conn[m.conn].loops /\ c.full = conn[m.conn].full
                 /\ c.client = conn[m.conn].client
        <3>1. conn[m.conn] \in ConnState
            BY <1>0, <2>3
        <3> QED
            BY <1>2, <3>1 DEF ConnState
    <2> HIDE DEF c
    <2>4. SameConns(cs)
        BY <1>0, <2>3, SameUpdated
    <2>5. \A j \in DOMAIN conn : cs[j] = IF j = m.conn THEN c ELSE conn[j]
        BY <1>0
    <2> HIDE DEF cs
    <2>6. SameConns(conn')
        BY <1>0, <1>3, <2>2, <2>4, TellSame
    <2>7. ASSUME NEW j \in DOMAIN conn
          PROVE  /\ conn'[j].uid = conn[j].uid /\ conn'[j].acct = (IF j = m.conn THEN m.uid ELSE conn[j].acct)
                 /\ conn'[j].loops = conn[j].loops /\ conn'[j].full = conn[j].full
                 /\ conn'[j].client = "game" => conn[j].client = "game"
        <3>1. /\ conn'[j].uid = cs[j].uid /\ conn'[j].acct = cs[j].acct
              /\ conn'[j].loops = cs[j].loops /\ conn'[j].full = cs[j].full
              /\ conn'[j].client = cs[j].client \/ conn'[j].client = "select"
            BY <1>0, <1>3, <2>2, <2>4, TellFields
        <3> QED
            BY <2>3, <2>5, <3>1
    <2> QED
        BY <2>1, <2>6, <2>7 DEF SocketsKept, SameBinds, NoneEnters, m
<1> QED
    BY <1>4, <1>5, <1>6 DEF Login

LEMMA LogoutKept ==
    ASSUME Inv, NEW s, NEW d, LogoutOK(s, d), UNCHANGED <<slot, freeQ, raced>>
    PROVE  SocketsKept /\ SameBinds /\ SameAccts /\ NoneEnters
<1>1. CASE conn' = conn
    BY <1>1, UntouchedKept
<1>2. CASE conn' = Tell(conn, s, "select")
    <2>1. "select" \in Phases
        BY DEF Phases
    <2> QED
        BY <1>2, <2>1, ToldKept
<1> QED
    BY <1>1, <1>2 DEF LogoutOK

\* What the core does besides net_CM_LOGIN.
LEMMA CoreKept ==
    ASSUME Inv,
           \/ CoreStep /\ Login = FALSE
           \/ MapLoaded
           \/ \E i \in DOMAIN polls : Poll(i)
    PROVE  SocketsKept /\ SameBinds /\ SameAccts /\ NoneEnters
<1>1. UNCHANGED <<slot, freeQ, raced>>
    BY DEF CoreStep, MapLoaded, netVars, Poll
<1>2. conn' = conn \/ \E s, d : LogoutOK(s, d)
    BY DEF CoreStep, Online, Gameplay, BadChannel, PlayerLogout, MapLoaded, netVars, Poll
<1> QED
    BY <1>1, <1>2, UntouchedKept, LogoutKept

LEMMA PlayerKept ==
    ASSUME Inv, NEW d \in Account, PlayerStep(d)
    PROVE  /\ SocketsKept /\ SameBinds /\ SameAccts
           /\ NoneEnters \/ OnlineOK(d)
<1>1. CASE OnlineOK(d)
    <2>1. "game" \in Phases
        BY DEF Phases
    <2>2. conn' = Tell(conn, player[d].chan, "game") /\ UNCHANGED <<slot, freeQ, raced>>
        BY <1>1 DEF OnlineOK
    <2> QED
        BY <1>1, <2>1, <2>2, ToldKept
<1>2. CASE OnlineOK(d) = FALSE
    <2>1. UNCHANGED <<slot, freeQ, raced, conn>>
        BY <1>2 DEF PlayerStep, BindChannel, LostChannel, RequestLogout, OtherPacket, Ignore,
                    Deactivate, Erase, netVars
    <2> QED
        BY <2>1, UntouchedKept
<1>3. OnlineOK(d) \in BOOLEAN
    BY DEF OnlineOK
<1> QED
    BY <1>1, <1>2, <1>3

\* Channel::bindPlayer and unbindPlayer: only the player of one connection changes.
LEMMA BindKept ==
    ASSUME Inv, NEW u \in Account \cup {None}, NEW n, UNCHANGED <<slot, freeQ, raced>>,
           conn' = conn \/ conn' = [conn EXCEPT ![n].uid = u]
    PROVE  /\ SocketsKept /\ SameAccts /\ NoneEnters
           /\ \A k \in DOMAIN conn : conn'[k].uid = conn[k].uid \/ (k = n /\ conn'[k].uid = u)
           /\ conn' # conn /\ n \in DOMAIN conn => conn'[n].uid = u
<1>1. CASE conn' = conn
    BY <1>1, UntouchedKept DEF SameBinds
<1>2. CASE conn' = [conn EXCEPT ![n].uid = u]
    <2>1. NetOK /\ SameConns(conn) /\ conn \in Seq(ConnState)
        BY Parts, SameRefl DEF Inv, NetOK
    <2> DEFINE c == [conn[n] EXCEPT !.uid = u]
    <2>2. ASSUME n \in DOMAIN conn
          PROVE  /\ c \in ConnState /\ c.chan = conn[n].chan /\ c.uid = u /\ c.acct = conn[n].acct
                 /\ c.loops = conn[n].loops /\ c.full = conn[n].full /\ c.client = conn[n].client
        <3>1. conn[n] \in ConnState
            BY <2>1, <2>2
        <3> QED
            BY <3>1 DEF ConnState
    <2>3. conn' = [conn EXCEPT ![n] = c]
        BY <1>2
    <2> HIDE DEF c
    <2>4. \A j \in DOMAIN conn : conn'[j] = IF j = n THEN c ELSE conn[j]
        BY <2>1, <2>3
    <2>5. SameConns(conn')
        BY <2>1, <2>2, <2>3, SameUpdated
    <2> QED
        BY <2>2, <2>4, <2>5 DEF SocketsKept, SameAccts, NoneEnters
<1> QED
    BY <1>1, <1>2

LEMMA PostedKept ==
    ASSUME Inv, RunPosted, Head(netQ).op # "close"
    PROVE  SocketsKept /\ SameAccts /\ NoneEnters
<1> DEFINE p == Head(netQ)
<1>1. p \in Closure
    BY Parts DEF Inv, NetOK, RunPosted
<1>2. p.uid \in Account
    BY <1>1 DEF Closure
<1>3. RunBind(p.chan, p.uid) \/ RunUnbind(p.chan, p.uid)
    BY DEF RunPosted
<1> HIDE DEF p
<1>4. UNCHANGED <<slot, freeQ>>
    BY <1>3 DEF RunBind, RunUnbind
<1>6. raced' = raced
    BY DEF RunPosted
<1>5. PICK u \in Account \cup {None} : conn' = conn \/ conn' = [conn EXCEPT ![slot[p.chan]].uid = u]
    BY <1>2, <1>3 DEF RunBind, RunUnbind
<1> QED
    BY <1>4, <1>5, <1>6, BindKept

\* Break and Abort close the slot of k, with one loop of k less.
CloseOf(k, cs) ==
    /\ SameConns(cs) /\ DoClose(conn[k].chan, cs, player)
    /\ \A j \in DOMAIN conn : j # k => cs[j] = conn[j]
    /\ cs[k].uid = conn[k].uid /\ cs[k].acct = conn[k].acct
    /\ cs[k].client \in {conn[k].client, "gone"}
    /\ conn[k].loops = {} => cs[k].loops = {}
    /\ cs[k].loops = {} \/ cs[k].full = conn[k].full

LEMMA SocketCloses ==
    ASSUME Inv, NEW k \in DOMAIN conn, NEW l \in Loops, Break(k, l) \/ Abort(k, l)
    PROVE  \E cs : CloseOf(k, cs)
<1>1. conn[k] \in ConnState /\ conn \in Seq(ConnState) /\ NetOK /\ SameConns(conn)
    <2>1. conn \in Seq(ConnState) /\ NetOK /\ SameConns(conn)
        BY Parts, SameRefl DEF Inv, NetOK
    <2> QED
        BY <2>1
<1> DEFINE left == conn[k].loops \ {l}
           c1 == [conn[k] EXCEPT !.loops = left]
           c2 == [c1 EXCEPT !.client = "gone", !.full = FALSE]
<1>2. /\ c1 \in ConnState /\ c1.chan = conn[k].chan /\ c1.uid = conn[k].uid /\ c1.acct = conn[k].acct
      /\ c1.client = conn[k].client /\ c1.loops = left /\ c1.full = conn[k].full
    BY <1>1 DEF ConnState
<1>3. /\ c2 \in ConnState /\ c2.chan = conn[k].chan /\ c2.uid = conn[k].uid /\ c2.acct = conn[k].acct
      /\ c2.client = "gone" /\ c2.loops = left
    <2> HIDE DEF c1
    <2> QED
        BY <1>2 DEF ConnState, Phases
<1>4. \/ DoClose(conn[k].chan, [conn EXCEPT ![k] = c1], player)
      \/ DoClose(conn[k].chan, [conn EXCEPT ![k] = c2], player) /\ left = {}
    <2>1. [conn EXCEPT ![k].loops = left] = [conn EXCEPT ![k] = c1]
        OBVIOUS
    <2>2. [[conn EXCEPT ![k].loops = left] EXCEPT ![k].client = "gone", ![k].full = FALSE]
             = [conn EXCEPT ![k] = c2]
        OBVIOUS
    <2>3. CASE Break(k, l)
        BY <2>1, <2>3 DEF Break
    <2>4. CASE Abort(k, l)
        BY <2>1, <2>2, <2>4 DEF Abort
    <2> QED
        BY <2>3, <2>4
<1> HIDE DEF c1, c2
<1>5. ASSUME NEW c \in {c1, c2}, DoClose(conn[k].chan, [conn EXCEPT ![k] = c], player),
             c = c1 \/ left = {}
      PROVE  \E cs : CloseOf(k, cs)
    <2> DEFINE cs == [conn EXCEPT ![k] = c]
    <2>1. SameConns(cs)
        BY <1>1, <1>2, <1>3, SameUpdated
    <2>2. cs[k] = c /\ \A j \in DOMAIN conn : j # k => cs[j] = conn[j]
        BY <1>1
    <2> HIDE DEF cs
    <2>3. conn[k].loops = {} => left = {}
        OBVIOUS
    <2>4. CloseOf(k, cs)
        BY <1>2, <1>3, <1>5, <2>1, <2>2, <2>3 DEF cs, CloseOf
    <2> QED
        BY <2>4
<1> QED
    BY <1>4, <1>5

LEMMA RestSocket ==
    ASSUME Inv, NumberRests, NEW k \in DOMAIN conn, NEW l \in Loops, Break(k, l) \/ Abort(k, l)
    PROVE  NumberRests'
<1>1. PICK cs : CloseOf(k, cs)
    BY SocketCloses
<1>2. SameConns(cs) /\ DoClose(conn[k].chan, cs, player) /\ raced' = raced
    BY <1>1 DEF CloseOf, Break, Abort
<1>3. conn[k].chan \in Slot /\ player \in Players
    <2>1. conn \in Seq(ConnState) /\ player \in Players
        BY Parts DEF Inv, NetOK, PlayerOK
    <2>2. conn[k] \in ConnState
        BY <2>1
    <2> QED
        BY <2>1, <2>2 DEF ConnState
<1>4. SameConns(conn')
    BY <1>2, <1>3, CloseStep
<1>5. \A j \in DOMAIN conn : /\ conn[j].loops = {} => cs[j].loops = {}
                             /\ cs[j].loops = {} \/ cs[j].full = conn[j].full
    BY <1>1 DEF CloseOf
<1> QED
    BY <1>2, <1>3, <1>4, <1>5, RestClose

\* RunClose is a DoClose in which no loop of another connection ends.
LEMMA PostedCloses ==
    ASSUME Inv, RunPosted, Head(netQ).op = "close"
    PROVE  LET p  == Head(netQ)
               ps == [player EXCEPT ![p.uid].wait = "no"]
           IN  /\ p \in Closure /\ p.chan \in Slot /\ p.uid \in Account
               /\ ps \in Players /\ DoClose(p.chan, conn, ps)
               /\ SameConns(conn) /\ SameConns(conn')
               /\ UNCHANGED <<raced, dbList, onlines, polls, mapLoaded, seen, fault>>
<1> DEFINE p == Head(netQ)
           ps == [player EXCEPT ![p.uid].wait = "no"]
<1>1. p \in Closure /\ NetOK /\ SameConns(conn) /\ player \in Players
    BY Parts, SameRefl DEF Inv, NetOK, RunPosted, PlayerOK
<1>2. p.chan \in Slot /\ p.uid \in Account
    BY <1>1 DEF Closure
<1>3. DoClose(p.chan, conn, ps) /\ UNCHANGED <<raced, dbList, onlines, polls, mapLoaded, seen, fault>>
    BY DEF RunPosted, RunClose
<1>4. ps \in Players
    <2>1. player[p.uid] \in PlayerState
        BY <1>1, <1>2 DEF Players
    <2>2. [player[p.uid] EXCEPT !.wait = "no"] \in PlayerState
        BY <2>1 DEF PlayerState
    <2> QED
        BY <1>1, <1>2, <2>2 DEF Players
<1>5. SameConns(conn')
    BY <1>1, <1>2, <1>3, <1>4, CloseStep
<1> QED
    BY <1>1, <1>2, <1>3, <1>4, <1>5

LEMMA RestStep == ASSUME Inv, NumberRests, [Next]_vars PROVE NumberRests'
<1>1. CASE Accept
    BY <1>1, RestAccept
<1>2. CASE Channels
    BY <1>2, ReaderKept, RestKept, RestSocket DEF Channels
<1>3. CASE RunPosted /\ Head(netQ).op # "close"
    BY <1>3, PostedKept, RestKept
<1>4. CASE RunPosted /\ Head(netQ).op = "close"
    <2> DEFINE p == Head(netQ)
               ps == [player EXCEPT ![p.uid].wait = "no"]
    <2>1. /\ p.chan \in Slot /\ DoClose(p.chan, conn, ps) /\ SameConns(conn) /\ SameConns(conn')
          /\ raced' = raced
        BY <1>4, PostedCloses
    <2> HIDE DEF p, ps
    <2> QED
        BY <2>1, RestClose
<1>5. CASE CoreActor
    <2>1. CASE CoreStep /\ Login
        <3>1. coreQ # <<>> /\ UNCHANGED <<slot, freeQ, raced>>
            BY <2>1 DEF CoreStep
        <3> QED
            BY <2>1, <3>1, LoginKept, RestKept
    <2>2. CASE ~(CoreStep /\ Login)
        <3>1. Login \in BOOLEAN
            BY DEF Login
        <3> QED
            BY <1>5, <2>2, <3>1, CoreKept, RestKept DEF CoreActor
    <2> QED
        BY <2>1, <2>2
<1>6. ASSUME NEW d \in Account, PlayerStep(d) PROVE NumberRests'
    BY <1>6, PlayerKept, RestKept
<1>7. CASE UNCHANGED vars
    BY <1>7, UntouchedKept, RestKept DEF vars, netVars
<1> QED
    BY <1>1, <1>2, <1>3, <1>4, <1>5, <1>6, <1>7 DEF Next

LEMMA OpenKept ==
    ASSUME Inv, SocketsKept, NEW j \in DOMAIN conn
    PROVE  Open(j)' <=> Open(j)
BY DEF SocketsKept, SameConns, Open

LEMMA AcceptOpen ==
    ASSUME Inv, Accept, NEW j \in DOMAIN conn
    PROVE  /\ j \in DOMAIN conn' /\ conn'[j] = conn[j]
           /\ Open(j)' <=> Open(j)
           /\ slot[Head(freeQ)] = None /\ Head(freeQ) \in Slot
<1> DEFINE h == Head(freeQ)
           n == Len(conn) + 1
           c == NewConn(h)
<1>1. /\ freeQ # <<>> /\ slot' = [slot EXCEPT ![h] = n] /\ conn' = Append(conn, c)
    BY DEF Accept
<1>2. NetOK /\ conn \in Seq(ConnState) /\ Len(conn) \in Nat
    BY Parts DEF Inv, NetOK
<1>3. h \in Slot /\ slot[h] = None
    <2>1. freeQ \in Seq(Slot) /\ IsInjective(freeQ)
        BY <1>2 DEF Inv, NumbersConserved, NetOK
    <2>2. h \in Slot /\ Range(freeQ) = Range(Tail(freeQ)) \cup {h}
        BY <1>1, <2>1, TailInjective
    <2> QED
        BY <2>2 DEF Inv, NumbersConserved
<1> HIDE DEF c
<1>4. j \in DOMAIN conn' /\ conn'[j] = conn[j] /\ j # n /\ j \in Nat
    BY <1>1, <1>2
<1>5. \A t \in Slot : slot'[t] = IF t = h THEN n ELSE slot[t]
    BY <1>1, <1>2 DEF NetOK
<1>6. conn[j].chan \in Slot /\ j # None
    <2>1. conn[j] \in ConnState
        BY <1>2
    <2> QED
        BY <1>4, <2>1, SessionAssumption DEF ConnState
<1> QED
    BY <1>3, <1>4, <1>5, <1>6 DEF Open

\* Of the connections that were open only that of the slot is not any more.
LEMMA CloseOpen ==
    ASSUME Inv, NEW s \in Slot, NEW cs, SameConns(cs), NEW ps, DoClose(s, cs, ps), SameConns(conn'),
           NEW j \in DOMAIN conn
    PROVE  Open(j)' <=> Open(j) /\ j # slot[s]
<1>0. NetOK /\ j # None /\ conn'[j].chan = conn[j].chan
    <2>1. NetOK /\ conn \in Seq(ConnState)
        BY Parts DEF Inv, NetOK
    <2> QED
        BY <2>1, SessionAssumption DEF SameConns
<1>1. CASE slot[s] = None
    <2>1. slot' = slot
        BY <1>1 DEF DoClose
    <2> QED
        BY <1>0, <1>1, <2>1 DEF Open
<1>2. CASE slot[s] # None
    <2>1. slot' = [slot EXCEPT ![s] = None] /\ conn[slot[s]].chan = s
        <3>1. Closed(s, cs, ps)
            BY <1>2, CloseFields
        <3> QED
            BY <3>1 DEF Closed
    <2> QED
        BY <1>0, <2>1 DEF Open, NetOK
<1> QED
    BY <1>1, <1>2

LEMMA StrangerStep ==
    ASSUME Inv, NumberRests, [Next]_vars, NEW j \in DOMAIN conn, NEW k \in DOMAIN conn,
           j # k, Open(j), ~Open(j)', conn'[k].loops # conn[k].loops
    PROVE  conn[k].full
<1>1. CASE Accept
    BY <1>1, AcceptOpen
<1>2. ASSUME NEW i \in DOMAIN conn, NEW l \in Loops, Break(i, l) \/ Abort(i, l) PROVE conn[k].full
    <2> DEFINE s == conn[i].chan
    <2>1. PICK cs : CloseOf(i, cs)
        BY <1>2, SocketCloses
    <2>2. conn[i] \in ConnState /\ conn[k] \in ConnState /\ player \in Players
        <3>1. conn \in Seq(ConnState) /\ player \in Players
            BY Parts DEF Inv, NetOK, PlayerOK
        <3> QED
            BY <3>1
    <2>3. SameConns(cs) /\ DoClose(s, cs, player) /\ s \in Slot
        BY <2>1, <2>2 DEF CloseOf, ConnState
    <2> HIDE DEF s
    <2>4. SameConns(conn')
        BY <2>2, <2>3, CloseStep
    <2>5. j = slot[s] /\ j # None
        <3>1. conn \in Seq(ConnState)
            BY Parts DEF Inv, NetOK
        <3> QED
            BY <2>3, <2>4, <3>1, CloseOpen, SessionAssumption
    <2>6. conn'[k] = cs[k]
        <3>1. Closed(s, cs, player)
            BY <2>3, <2>5, CloseFields
        <3> QED
            BY <2>5, <3>1 DEF Closed
    <2>7. k = i
        BY <2>1, <2>6 DEF CloseOf
    <2>8. ~Open(k) /\ l \in conn[k].loops
        BY <1>2, <2>5, <2>7 DEF Break, Abort, Open, s
    <2>9. k \in Ending
        BY <2>8 DEF Ending
    <2>10. ASSUME conn[k].full = FALSE PROVE FALSE
        <3>1. conn[k].chan \in Range(freeQ)
            BY <2>9, <2>10 DEF NumberRests
        <3>2. slot[conn[k].chan] = None
            BY <3>1 DEF Inv, NumbersConserved
        <3> QED
            BY <2>5, <2>7, <3>2 DEF s
    <2> QED
        BY <2>2, <2>10 DEF ConnState
<1>3. CASE RunPosted /\ Head(netQ).op = "close"
    <2> DEFINE p == Head(netQ)
               ps == [player EXCEPT ![p.uid].wait = "no"]
    <2>1. p.chan \in Slot /\ DoClose(p.chan, conn, ps) /\ SameConns(conn) /\ SameConns(conn')
        BY <1>3, PostedCloses
    <2> HIDE DEF p, ps
    <2>2. j = slot[p.chan] /\ j # None
        <3>1. conn \in Seq(ConnState)
            BY Parts DEF Inv, NetOK
        <3> QED
            BY <2>1, <3>1, CloseOpen, SessionAssumption
    <2>3. Closed(p.chan, conn, ps)
        BY <2>1, <2>2, CloseFields
    <2> QED
        BY <2>2, <2>3 DEF Closed
<1>4. ASSUME SocketsKept PROVE FALSE
    BY <1>4, OpenKept
<1>5. CASE Channels
    BY <1>2, <1>4, <1>5, ReaderKept DEF Channels
<1>6. CASE RunPosted /\ Head(netQ).op # "close"
    BY <1>4, <1>6, PostedKept
<1>7. CASE CoreActor
    <2>1. CASE CoreStep /\ Login
        <3>1. coreQ # <<>> /\ UNCHANGED <<slot, freeQ, raced>>
            BY <2>1 DEF CoreStep
        <3> QED
            BY <1>4, <2>1, <3>1, LoginKept
    <2>2. CASE ~(CoreStep /\ Login)
        <3>1. Login \in BOOLEAN
            BY DEF Login
        <3> QED
            BY <1>4, <1>7, <2>2, <3>1, CoreKept DEF CoreActor
    <2> QED
        BY <2>1, <2>2
<1>8. ASSUME NEW d \in Account, PlayerStep(d) PROVE FALSE
    BY <1>4, <1>8, PlayerKept
<1>9. CASE UNCHANGED vars
    BY <1>4, <1>9, UntouchedKept DEF vars, netVars
<1> QED
    BY <1>1, <1>3, <1>5, <1>6, <1>7, <1>8, <1>9 DEF Next

\* The error of a connection that is already closed closes another client's
\* connection only if no channel number was free when the first one closed
\* (netdriver.cpp:83-119, 307-330, channel.hpp).
THEOREM StrangersAreClosed == Spec => StrangersClosed
<1>1. Init => Inv /\ NumberRests
    <2>1. Init => NumberRests
        BY DEF Init, NumberRests, Ending
    <2> QED
        BY <2>1, InitInv
<1>2. Inv /\ NumberRests /\ [Next]_vars => (Inv /\ NumberRests)'
    BY RestStep, NextStep, StutterStep
<1>3. Inv /\ NumberRests /\ [Next]_vars =>
          [\A j, k \in DOMAIN conn :
              j # k /\ Open(j) /\ ~Open(j)' /\ conn'[k].loops # conn[k].loops => conn[k].full]_vars
    BY StrangerStep
<1> QED
    BY <1>1, <1>2, <1>3, PTL DEF Spec, StrangersClosed
=============================================================================
