------------------------- MODULE SessionLinkProofs -------------------------
(* What the parts of a session say of one another, for any number of slots, *)
(* accounts and connections. A slot number is all that the core, the net    *)
(* thread and the players share, and it is used again: the invariants here  *)
(* follow it through the mailbox of the core (a packet comes before the     *)
(* BADCHANNEL of its connection), the entries of m_dbidList, the coroutines *)
(* that wait for the map, the closures of the net thread and the players.   *)
(* From them follow EntryFollowsChannel, NoStuckEntry, DeafOnlyIfBoundLate  *)
(* and FaultsExplained of Session.                                          *)
EXTENDS SessionProofs, WellFoundedInduction

Packet(i) == coreQ[i].type \in {"LOGIN", "ONLINE", "LOGOUT"}
Bad(i, s) == coreQ[i].type = "BADCHANNEL" /\ coreQ[i].chan = s

\* The core has acted on a connection that had gone: dbList may say anything.
Stale == seen \cap {"lateRead", "lateOnline"} # {}

(* The mailbox of the core. A packet is of the slot of its connection; after*)
(* a packet of an open connection there is no BADCHANNEL of its slot, after *)
(* one of a closed connection there is; between packets of two connections  *)
(* of a slot there is one too.                                              *)
PacketSlot == \A i \in DOMAIN coreQ : Packet(i) =>
    coreQ[i].conn \in DOMAIN conn /\ conn[coreQ[i].conn].chan = coreQ[i].chan
OpenPacket == \A i, j \in DOMAIN coreQ :
    Packet(i) /\ i < j /\ Open(coreQ[i].conn) => ~Bad(j, coreQ[i].chan)
ClosedPacket == "lateRead" \in seen \/ \A i \in DOMAIN coreQ : Packet(i) =>
    Open(coreQ[i].conn) \/ \E j \in DOMAIN coreQ : i < j /\ Bad(j, coreQ[i].chan)
OneConn == "lateRead" \in seen \/ \A i, j \in DOMAIN coreQ :
    Packet(i) /\ Packet(j) /\ i < j /\ coreQ[i].chan = coreQ[j].chan =>
        \/ coreQ[i].conn = coreQ[j].conn
        \/ \E b \in DOMAIN coreQ : i < b /\ b < j /\ Bad(b, coreQ[i].chan)
Mailbox == PacketSlot /\ OpenPacket /\ ClosedPacket /\ OneConn

(* The entries of m_dbidList. An entry is of a connection of its slot: that *)
(* of the packets before the first BADCHANNEL, and still there if there is  *)
(* none; an account has one entry; an open connection that has logged in has*)
(* its entry.                                                               *)
EmptyEntry == \A s \in Slot : dbList[s].dbid = None => dbList[s] = NoEntry
OneEntry == \A s, t \in Slot : dbList[s].dbid \in Account /\ dbList[s].dbid = dbList[t].dbid => s = t
NoZero == Stale \/ \A s \in Slot : dbList[s].dbid # 0
Owned(s, c) ==
    /\ conn[c].chan = s /\ conn[c].acct = dbList[s].dbid
    /\ Closing(s) \/ slot[s] = c
    /\ \A i \in DOMAIN coreQ : Packet(i) /\ coreQ[i].chan = s =>
          coreQ[i].conn = c \/ \E j \in DOMAIN coreQ : j < i /\ Bad(j, s)
EntryOwned == Stale \/ \A s \in Slot : dbList[s].dbid # None => \E c \in DOMAIN conn : Owned(s, c)
LoggedIn == \A c \in DOMAIN conn : Open(c) /\ conn[c].acct # None =>
    dbList[conn[c].chan].dbid = conn[c].acct /\ ~Closing(conn[c].chan)
EntryInv == EmptyEntry /\ OneEntry /\ NoZero /\ EntryOwned /\ LoggedIn

\* The coroutines that wait for the map; two of one account are an overlap.
WaitingSlot == \A i \in DOMAIN onlines :
    /\ onlines[i].conn \in DOMAIN conn /\ conn[onlines[i].conn].chan = onlines[i].chan
    /\ Open(onlines[i].conn) =>
          dbList[onlines[i].chan].dbid = onlines[i].uid /\ ~Closing(onlines[i].chan)
Twice == "overlap" \in seen \/ \A i, j \in DOMAIN onlines : onlines[i].uid = onlines[j].uid => i = j
NoWait == mapLoaded = TRUE => onlines = <<>>
WaitInv == WaitingSlot /\ Twice /\ NoWait

CoreInv == Mailbox /\ EntryInv /\ WaitInv

----------------------------------------------------------------------------
(* Connections from one step to the next: none moves, none opens again.     *)

SeenGrows == seen \subseteq seen'

\* No connection comes or goes.
Steady == SameConns(conn') /\ UNCHANGED slot

LEMMA KeptSteady == ASSUME SocketsKept PROVE Steady
BY DEF SocketsKept, Steady

LEMMA ConnsStay ==
    ASSUME Inv, Steady
    PROVE  /\ DOMAIN conn' = DOMAIN conn
           /\ \A c \in DOMAIN conn : conn'[c].chan = conn[c].chan /\ conn[c].chan \in Slot
           /\ \A c \in DOMAIN conn : Open(c)' <=> Open(c)
           /\ UNCHANGED slot
<1>1. NetOK /\ conn \in Seq(ConnState)
    BY Parts DEF Inv, NetOK
<1>2. DOMAIN conn' = DOMAIN conn /\ \A c \in DOMAIN conn : conn'[c].chan = conn[c].chan
    BY <1>1 DEF Steady, SameConns
<1>3. \A c \in DOMAIN conn : conn[c].chan \in Slot
    <2> SUFFICES ASSUME NEW c \in DOMAIN conn PROVE conn[c].chan \in Slot
        OBVIOUS
    <2>1. conn[c] \in ConnState
        BY <1>1
    <2> QED
        BY <2>1 DEF ConnState
<1>4. \A c \in DOMAIN conn : Open(c)' <=> Open(c)
    BY <1>2 DEF Steady, Open
<1> QED
    BY <1>2, <1>3, <1>4 DEF Steady

LEMMA TailQueue ==
    ASSUME Inv, coreQ # <<>>, coreQ' = Tail(coreQ)
    PROVE  /\ Core = coreQ[1] /\ Core \in CoreMsg /\ 1 \in DOMAIN coreQ /\ DOMAIN coreQ \subseteq Nat \ {0}
           /\ \A i \in DOMAIN coreQ' : i + 1 \in DOMAIN coreQ /\ coreQ'[i] = coreQ[i + 1]
           /\ \A j \in DOMAIN coreQ : j # 1 => j - 1 \in DOMAIN coreQ' /\ coreQ'[j - 1] = coreQ[j]
           /\ DOMAIN coreQ' \subseteq Nat \ {0}
<1> DEFINE t == Tail(coreQ)
<1>1. coreQ \in Seq(CoreMsg)
    BY Parts DEF Inv, QueueOK
<1>2. /\ Len(coreQ) \in Nat \ {0} /\ Len(t) = Len(coreQ) - 1
      /\ DOMAIN t = 1 .. Len(coreQ) - 1 /\ DOMAIN coreQ = 1 .. Len(coreQ)
      /\ \A i \in DOMAIN t : t[i] = coreQ[i + 1]
      /\ Head(coreQ) = coreQ[1] /\ coreQ[1] \in CoreMsg
    BY <1>1
<1> HIDE DEF t
<1>3. coreQ' = t
    BY DEF t
<1> QED
    BY <1>2, <1>3 DEF Core

LEMMA AppendQueue ==
    ASSUME Inv, NEW m \in CoreMsg, coreQ' = Append(coreQ, m)
    PROVE  LET n == Len(coreQ) + 1 IN
           /\ n \notin DOMAIN coreQ /\ DOMAIN coreQ' = DOMAIN coreQ \cup {n}
           /\ coreQ'[n] = m /\ \A i \in DOMAIN coreQ : i < n /\ coreQ'[i] = coreQ[i]
           /\ DOMAIN coreQ' \subseteq Nat \ {0}
<1>1. coreQ \in Seq(CoreMsg)
    BY Parts DEF Inv, QueueOK
<1> QED
    BY <1>1

\* Reading a message ends the wait for the BADCHANNEL of its own slot at most.
LEMMA TailClosing ==
    ASSUME Inv, coreQ # <<>>, coreQ' = Tail(coreQ), NEW s
    PROVE  /\ Closing(s)' => Closing(s)
           /\ Closing(s) /\ ~Bad(1, s) => Closing(s)'
<1>1. Closing(s)' => Closing(s)
    BY TailQueue DEF Closing
<1>2. ASSUME Closing(s), ~Bad(1, s) PROVE Closing(s)'
    <2>1. PICK j \in DOMAIN coreQ : Bad(j, s)
        BY <1>2 DEF Closing, Bad
    <2>2. j - 1 \in DOMAIN coreQ' /\ coreQ'[j - 1] = coreQ[j]
        BY <1>2, <2>1, TailQueue
    <2> QED
        BY <2>1, <2>2 DEF Closing, Bad
<1> QED
    BY <1>1, <1>2

LEMMA AppendClosing ==
    ASSUME Inv, NEW m \in CoreMsg, coreQ' = Append(coreQ, m), NEW s
    PROVE  Closing(s)' <=> Closing(s) \/ (m.type = "BADCHANNEL" /\ m.chan = s)
<1> DEFINE n == Len(coreQ) + 1
<1>1. /\ DOMAIN coreQ' = DOMAIN coreQ \cup {n}
      /\ coreQ'[n] = m /\ \A i \in DOMAIN coreQ : coreQ'[i] = coreQ[i]
    BY AppendQueue
<1> HIDE DEF n
<1> QED
    BY <1>1 DEF Closing

----------------------------------------------------------------------------
(* The mailbox of the core.                                                 *)

LEMMA MailboxKept ==
    ASSUME Inv, Mailbox, Steady, SeenGrows, UNCHANGED coreQ
    PROVE  Mailbox'
<1>1. PacketSlot' /\ OpenPacket'
    BY ConnsStay DEF Mailbox, PacketSlot, OpenPacket, Packet, Bad
<1>2. ClosedPacket'
    BY ConnsStay DEF Mailbox, PacketSlot, ClosedPacket, Packet, Bad, SeenGrows
<1>3. OneConn'
    BY DEF Mailbox, OneConn, Packet, Bad, SeenGrows
<1> QED
    BY <1>1, <1>2, <1>3 DEF Mailbox

LEMMA MailboxTail ==
    ASSUME Inv, Mailbox, Steady, SeenGrows, coreQ # <<>>, coreQ' = Tail(coreQ)
    PROVE  Mailbox'
<1>1. PacketSlot'
    BY ConnsStay, TailQueue DEF Mailbox, PacketSlot, Packet
<1>2. OpenPacket'
    <2> SUFFICES ASSUME NEW i \in DOMAIN coreQ', NEW j \in DOMAIN coreQ', NEW c, NEW s,
                        c = coreQ'[i].conn, s = coreQ'[i].chan,
                        Packet(i)', i < j, Open(c)', Bad(j, s)'
                 PROVE  FALSE
        BY DEF OpenPacket, Bad, Open
    <2>1. /\ i + 1 \in DOMAIN coreQ /\ j + 1 \in DOMAIN coreQ /\ i + 1 < j + 1
          /\ coreQ'[i] = coreQ[i + 1] /\ coreQ'[j] = coreQ[j + 1]
        BY TailQueue
    <2>2. Packet(i + 1) /\ Bad(j + 1, s) /\ c = coreQ[i + 1].conn /\ s = coreQ[i + 1].chan
        BY <2>1 DEF Packet, Bad
    <2>3. c \in DOMAIN conn
        BY <2>1, <2>2 DEF Mailbox, PacketSlot
    <2>4. Open(c)
        BY <2>3, ConnsStay
    <2> QED
        BY <2>1, <2>2, <2>4 DEF Mailbox, OpenPacket
<1>3. ClosedPacket'
    <2> SUFFICES ASSUME "lateRead" \notin seen', NEW i \in DOMAIN coreQ', NEW c, NEW s,
                        c = coreQ'[i].conn, s = coreQ'[i].chan, Packet(i)', ~Open(c)'
                 PROVE  \E j \in DOMAIN coreQ' : i < j /\ Bad(j, s)'
        BY DEF ClosedPacket, Bad, Open
    <2>1. i + 1 \in DOMAIN coreQ /\ coreQ'[i] = coreQ[i + 1] /\ i \in Nat
        BY TailQueue
    <2>2. Packet(i + 1) /\ c \in DOMAIN conn /\ c = coreQ[i + 1].conn /\ s = coreQ[i + 1].chan
        BY <2>1 DEF Packet, Mailbox, PacketSlot
    <2>3. ~Open(c)
        BY <2>2, ConnsStay
    <2>4. PICK j \in DOMAIN coreQ : i + 1 < j /\ Bad(j, s)
        BY <2>1, <2>2, <2>3 DEF Mailbox, ClosedPacket, SeenGrows
    <2>5. j - 1 \in DOMAIN coreQ' /\ coreQ'[j - 1] = coreQ[j] /\ i < j - 1
        BY <2>1, <2>4, TailQueue
    <2> QED
        BY <2>1, <2>4, <2>5 DEF Bad
<1>4. OneConn'
    <2> SUFFICES ASSUME "lateRead" \notin seen', NEW i \in DOMAIN coreQ', NEW j \in DOMAIN coreQ', NEW s,
                        s = coreQ'[i].chan, Packet(i)', Packet(j)', i < j, s = coreQ'[j].chan,
                        coreQ'[i].conn # coreQ'[j].conn
                 PROVE  \E b \in DOMAIN coreQ' : i < b /\ b < j /\ Bad(b, s)'
        BY DEF OneConn, Bad
    <2>1. /\ i + 1 \in DOMAIN coreQ /\ j + 1 \in DOMAIN coreQ /\ i \in Nat /\ j \in Nat
          /\ coreQ'[i] = coreQ[i + 1] /\ coreQ'[j] = coreQ[j + 1]
        BY TailQueue
    <2>2. Packet(i + 1) /\ Packet(j + 1) /\ i + 1 < j + 1
        BY <2>1 DEF Packet
    <2>3. PICK b \in DOMAIN coreQ : i + 1 < b /\ b < j + 1 /\ Bad(b, s)
        BY <2>1, <2>2 DEF Mailbox, OneConn, SeenGrows
    <2>4. b - 1 \in DOMAIN coreQ' /\ coreQ'[b - 1] = coreQ[b] /\ i < b - 1 /\ b - 1 < j
        BY <2>1, <2>3, TailQueue
    <2> QED
        BY <2>1, <2>3, <2>4 DEF Bad
<1> QED
    BY <1>1, <1>2, <1>3, <1>4 DEF Mailbox

\* A message is added, and it is known how it stands to the packets before it.
LEMMA MailboxAppend ==
    ASSUME Inv, Mailbox, SeenGrows, NEW m \in CoreMsg, coreQ' = Append(coreQ, m),
           \A c \in DOMAIN conn : /\ c \in DOMAIN conn' /\ conn'[c].chan = conn[c].chan
                                  /\ Open(c)' => Open(c)
                                  /\ Open(c) => Open(c)' \/ (m.type = "BADCHANNEL" /\ m.chan = conn[c].chan),
           m.type = "BADCHANNEL" => \A c \in DOMAIN conn : Open(c)' => conn[c].chan # m.chan,
           m.type \in {"LOGIN", "ONLINE", "LOGOUT"} =>
               /\ m.conn \in DOMAIN conn /\ m.chan = conn[m.conn].chan
               /\ Open(m.conn)' \/ "lateRead" \in seen'
    PROVE  Mailbox'
<1> DEFINE n == Len(coreQ) + 1
<1>1. /\ n \notin DOMAIN coreQ /\ DOMAIN coreQ' = DOMAIN coreQ \cup {n}
      /\ coreQ'[n] = m /\ \A i \in DOMAIN coreQ : i < n /\ coreQ'[i] = coreQ[i]
      /\ DOMAIN coreQ' \subseteq Nat \ {0}
    BY AppendQueue
<1> HIDE DEF n
<1>2. PacketSlot'
    BY <1>1 DEF Mailbox, PacketSlot, Packet
<1>3. OpenPacket'
    <2> SUFFICES ASSUME NEW i \in DOMAIN coreQ', NEW j \in DOMAIN coreQ', NEW c, NEW s,
                        c = coreQ'[i].conn, s = coreQ'[i].chan,
                        Packet(i)', i < j, Open(c)', Bad(j, s)'
                 PROVE  FALSE
        BY DEF OpenPacket, Bad, Open
    <2>1. i \in DOMAIN coreQ
        BY <1>1
    <2>2. Packet(i) /\ c = coreQ[i].conn /\ s = coreQ[i].chan /\ c \in DOMAIN conn /\ conn[c].chan = s
        BY <1>1, <2>1 DEF Packet, Mailbox, PacketSlot
    <2>3. CASE j = n
        BY <1>1, <2>2, <2>3 DEF Bad
    <2>4. CASE j \in DOMAIN coreQ
        <3>1. Bad(j, s) /\ Open(c)
            BY <1>1, <2>2, <2>4 DEF Bad
        <3> QED
            BY <2>1, <2>2, <2>4, <3>1 DEF Mailbox, OpenPacket
    <2> QED
        BY <1>1, <2>3, <2>4
<1>4. ClosedPacket'
    <2> SUFFICES ASSUME "lateRead" \notin seen', NEW i \in DOMAIN coreQ', NEW c, NEW s,
                        c = coreQ'[i].conn, s = coreQ'[i].chan, Packet(i)', ~Open(c)'
                 PROVE  \E j \in DOMAIN coreQ' : i < j /\ Bad(j, s)'
        BY DEF ClosedPacket, Bad, Open
    <2>1. i \in DOMAIN coreQ
        BY <1>1 DEF Packet
    <2>2. Packet(i) /\ c = coreQ[i].conn /\ s = coreQ[i].chan /\ c \in DOMAIN conn /\ conn[c].chan = s
        BY <1>1, <2>1 DEF Packet, Mailbox, PacketSlot
    <2>3. CASE Open(c)
        BY <1>1, <2>1, <2>2, <2>3 DEF Bad
    <2>4. CASE ~Open(c)
        <3>1. PICK j \in DOMAIN coreQ : i < j /\ Bad(j, s)
            BY <2>1, <2>2, <2>4 DEF Mailbox, ClosedPacket, SeenGrows
        <3> QED
            BY <1>1, <3>1 DEF Bad
    <2> QED
        BY <2>3, <2>4
<1>5. OneConn'
    <2> SUFFICES ASSUME "lateRead" \notin seen', NEW i \in DOMAIN coreQ', NEW j \in DOMAIN coreQ', NEW s,
                        s = coreQ'[i].chan, Packet(i)', Packet(j)', i < j, s = coreQ'[j].chan,
                        coreQ'[i].conn # coreQ'[j].conn
                 PROVE  \E b \in DOMAIN coreQ' : i < b /\ b < j /\ Bad(b, s)'
        BY DEF OneConn, Bad
    <2>0. i \in DOMAIN coreQ
        <3>1. i \in Nat /\ j \in Nat /\ n \in Nat /\ (j = n \/ j < n)
            BY <1>1
        <3> QED
            BY <1>1, <3>1
    <2>1. i \in DOMAIN coreQ /\ Packet(i) /\ s = coreQ[i].chan
        BY <1>1, <2>0 DEF Packet
    <2>2. CASE j \in DOMAIN coreQ
        <3>1. Packet(j) /\ s = coreQ[j].chan /\ coreQ[i].conn # coreQ[j].conn
            BY <1>1, <2>1, <2>2 DEF Packet
        <3>2. PICK b \in DOMAIN coreQ : i < b /\ b < j /\ Bad(b, s)
            BY <2>1, <2>2, <3>1 DEF Mailbox, OneConn, SeenGrows
        <3> QED
            BY <1>1, <3>2 DEF Bad
    <2>3. CASE j = n
        <3>1. /\ m.conn \in DOMAIN conn /\ conn[m.conn].chan = s /\ Open(m.conn)
              /\ coreQ[i].conn # m.conn
            BY <1>1, <2>1, <2>3 DEF Packet
        <3>2. coreQ[i].conn \in DOMAIN conn /\ conn[coreQ[i].conn].chan = s
            BY <2>1 DEF Mailbox, PacketSlot
        <3>3. ~Open(coreQ[i].conn)
            BY <3>1, <3>2 DEF Open
        <3>4. PICK b \in DOMAIN coreQ : i < b /\ Bad(b, s)
            BY <2>1, <3>3 DEF Mailbox, ClosedPacket, SeenGrows
        <3> QED
            BY <1>1, <2>3, <3>4 DEF Bad
    <2> QED
        BY <1>1, <2>2, <2>3
<1> QED
    BY <1>2, <1>3, <1>4, <1>5 DEF Mailbox

LEMMA MailboxAccept == ASSUME Inv, Mailbox, Accept PROVE Mailbox'
<1>1. UNCHANGED <<coreQ, seen>>
    BY DEF Accept, coreVars
<1>2. \A c \in DOMAIN conn : c \in DOMAIN conn' /\ conn'[c] = conn[c] /\ (Open(c)' <=> Open(c))
    BY AcceptOpen
<1>3. PacketSlot' /\ OpenPacket'
    BY <1>1, <1>2 DEF Mailbox, PacketSlot, OpenPacket, Packet, Bad
<1>4. ClosedPacket'
    BY <1>1, <1>2 DEF Mailbox, PacketSlot, ClosedPacket, Packet, Bad
<1>5. OneConn'
    BY <1>1 DEF Mailbox, OneConn, Packet, Bad
<1> QED
    BY <1>3, <1>4, <1>5 DEF Mailbox

----------------------------------------------------------------------------
(* The entries and the coroutines, in the steps of the net thread and of the*)
(* players: the mailbox grows at its end at most.                           *)

\* The connections stay what they are but may close; new ones have no account.
ConnsAge ==
    /\ \A c \in DOMAIN conn : /\ c \in DOMAIN conn' /\ conn'[c].chan = conn[c].chan
                              /\ conn'[c].acct = conn[c].acct /\ (Open(c)' => Open(c))
    /\ \A c \in DOMAIN conn' : c \notin DOMAIN conn => conn'[c].acct = None
    /\ \A c \in DOMAIN conn, s \in Slot : slot[s] = c => slot'[s] = c \/ Closing(s)'

QueueGrows ==
    /\ DOMAIN coreQ \subseteq DOMAIN coreQ' /\ \A i \in DOMAIN coreQ : coreQ'[i] = coreQ[i]
    /\ \A i \in DOMAIN coreQ' : i \notin DOMAIN coreQ =>
          /\ \A j \in DOMAIN coreQ : j < i
          /\ coreQ'[i].type \in {"LOGIN", "ONLINE", "LOGOUT"} =>
                Stale' \/ (/\ coreQ'[i].conn \in DOMAIN conn /\ Open(coreQ'[i].conn)
                           /\ conn[coreQ'[i].conn].chan = coreQ'[i].chan)
          /\ coreQ'[i].type = "BADCHANNEL" =>
                \A c \in DOMAIN conn : Open(c)' => conn[c].chan # coreQ'[i].chan

LEMMA GrowsKept == ASSUME UNCHANGED coreQ PROVE QueueGrows
BY DEF QueueGrows

LEMMA GrowsAppend ==
    ASSUME Inv, NEW m \in CoreMsg, coreQ' = Append(coreQ, m),
           m.type = "BADCHANNEL" => \A c \in DOMAIN conn : Open(c)' => conn[c].chan # m.chan,
           m.type \in {"LOGIN", "ONLINE", "LOGOUT"} =>
               Stale' \/ (m.conn \in DOMAIN conn /\ Open(m.conn) /\ conn[m.conn].chan = m.chan)
    PROVE  QueueGrows
<1> DEFINE n == Len(coreQ) + 1
<1>1. /\ n \notin DOMAIN coreQ /\ DOMAIN coreQ' = DOMAIN coreQ \cup {n}
      /\ coreQ'[n] = m /\ \A i \in DOMAIN coreQ : i < n /\ coreQ'[i] = coreQ[i]
    BY AppendQueue
<1> HIDE DEF n
<1> QED
    BY <1>1 DEF QueueGrows, Open

LEMMA GrowsClosing ==
    ASSUME QueueGrows, NEW s
    PROVE  /\ Closing(s) => Closing(s)'
           /\ Closing(s)' => Closing(s) \/ \A c \in DOMAIN conn : Open(c)' => conn[c].chan # s
BY DEF QueueGrows, Closing

LEMMA EntryOutside ==
    ASSUME Inv, EntryInv, SeenGrows, ConnsAge, QueueGrows, UNCHANGED dbList
    PROVE  EntryInv'
<1>0. Stale => Stale'
    BY DEF SeenGrows, Stale
<1>1. EmptyEntry' /\ OneEntry' /\ NoZero'
    BY <1>0 DEF EntryInv, EmptyEntry, OneEntry, NoZero
<1>2. EntryOwned'
    <2> SUFFICES ASSUME Stale' = FALSE, NEW s \in Slot, dbList[s].dbid # None
                 PROVE  \E c \in DOMAIN conn' : Owned(s, c)'
        BY DEF EntryOwned, Stale
    <2>1. PICK c \in DOMAIN conn : Owned(s, c)
        BY <1>0 DEF EntryInv, EntryOwned
    <2>2. conn'[c].chan = s /\ conn'[c].acct = dbList'[s].dbid /\ c \in DOMAIN conn'
        BY <2>1 DEF Owned, ConnsAge
    <2>3. Closing(s)' \/ slot'[s] = c
        BY <2>1, GrowsClosing DEF Owned, ConnsAge
    <2>4. ASSUME NEW i \in DOMAIN coreQ', Packet(i)', coreQ'[i].chan = s
          PROVE  coreQ'[i].conn = c \/ \E j \in DOMAIN coreQ' : j < i /\ Bad(j, s)'
        <3>1. CASE i \in DOMAIN coreQ
            <4>1. Packet(i) /\ coreQ[i].chan = s /\ coreQ'[i] = coreQ[i]
                BY <2>4, <3>1 DEF QueueGrows, Packet
            <4>2. coreQ[i].conn = c \/ \E j \in DOMAIN coreQ : j < i /\ Bad(j, s)
                BY <2>1, <3>1, <4>1 DEF Owned
            <4> QED
                BY <4>1, <4>2 DEF QueueGrows, Bad
        <3>2. CASE i \notin DOMAIN coreQ
            <4>1. /\ \A j \in DOMAIN coreQ : j < i
                  /\ coreQ'[i].conn \in DOMAIN conn /\ Open(coreQ'[i].conn) /\ conn[coreQ'[i].conn].chan = s
                BY <2>4, <3>2 DEF QueueGrows, Packet
            <4>2. CASE Closing(s)
                BY <4>1, <4>2 DEF Closing, QueueGrows, Bad
            <4>3. CASE ~Closing(s)
                BY <2>1, <4>1, <4>3 DEF Owned, Open
            <4> QED
                BY <4>2, <4>3
        <3> QED
            BY <3>1, <3>2
    <2>5. Owned(s, c)'
        BY <2>2, <2>3, <2>4 DEF Owned
    <2> QED
        BY <2>2, <2>5
<1>3. LoggedIn'
    <2> SUFFICES ASSUME NEW c \in DOMAIN conn', NEW s, s = conn'[c].chan, Open(c)', conn'[c].acct # None
                 PROVE  dbList'[s].dbid = conn'[c].acct /\ ~Closing(s)'
        BY DEF LoggedIn, Closing
    <2>1. c \in DOMAIN conn /\ conn[c].chan = s /\ conn[c].acct = conn'[c].acct /\ Open(c)
        BY DEF ConnsAge
    <2>2. dbList[s].dbid = conn[c].acct /\ ~Closing(s)
        BY <2>1 DEF EntryInv, LoggedIn
    <2> QED
        BY <2>1, <2>2, GrowsClosing
<1> QED
    BY <1>1, <1>2, <1>3 DEF EntryInv

LEMMA WaitOutside ==
    ASSUME Inv, WaitInv, SeenGrows, ConnsAge, QueueGrows, UNCHANGED <<dbList, onlines, mapLoaded>>
    PROVE  WaitInv'
<1>1. WaitingSlot'
    <2> SUFFICES ASSUME NEW i \in DOMAIN onlines, NEW c, NEW s, c = onlines[i].conn, s = onlines[i].chan
                 PROVE  /\ c \in DOMAIN conn' /\ conn'[c].chan = s
                        /\ Open(c)' => dbList'[s].dbid = onlines[i].uid /\ ~Closing(s)'
        BY DEF WaitingSlot, Open, Closing
    <2>1. c \in DOMAIN conn /\ conn[c].chan = s
        BY DEF WaitInv, WaitingSlot
    <2>2. c \in DOMAIN conn' /\ conn'[c].chan = s /\ (Open(c)' => Open(c))
        BY <2>1 DEF ConnsAge
    <2>3. Open(c) => dbList[s].dbid = onlines[i].uid /\ ~Closing(s)
        BY DEF WaitInv, WaitingSlot
    <2> QED
        BY <2>1, <2>2, <2>3, GrowsClosing
<1>2. Twice' /\ NoWait'
    BY DEF WaitInv, Twice, NoWait, SeenGrows
<1> QED
    BY <1>1, <1>2 DEF WaitInv

----------------------------------------------------------------------------
(* The entries and the coroutines, in the steps of the core.                *)

\* The core reads a message, or goes on with a coroutine.
CoreReads == UNCHANGED coreQ \/ (coreQ # <<>> /\ coreQ' = Tail(coreQ))

\* No entry changes its account; a late coroutine may create one without.
Renewed == \A s \in Slot :
    \/ dbList'[s].dbid = dbList[s].dbid /\ (dbList[s].dbid = None => dbList'[s] = dbList[s])
    \/ Stale' /\ dbList[s].dbid = None /\ dbList'[s].dbid = 0

\* The message read is not the BADCHANNEL of slot s.
Spared(s) == UNCHANGED coreQ \/ ~Bad(1, s)

LEMMA ReadsClosing ==
    ASSUME Inv, CoreReads, NEW s
    PROVE  /\ Closing(s)' => Closing(s)
           /\ Closing(s) /\ Spared(s) => Closing(s)'
<1>1. CASE UNCHANGED coreQ
    BY <1>1 DEF Closing
<1>2. CASE coreQ # <<>> /\ coreQ' = Tail(coreQ) /\ coreQ' # coreQ
    BY <1>2, TailClosing DEF Spared
<1> QED
    BY <1>1, <1>2 DEF CoreReads

LEMMA OwnedReads ==
    ASSUME Inv, CoreReads, Steady, NEW s \in Slot, NEW c \in DOMAIN conn, Owned(s, c), Spared(s),
           conn'[c].acct = dbList'[s].dbid
    PROVE  Owned(s, c)'
<1>1. conn'[c].chan = s /\ slot' = slot /\ (Closing(s)' \/ slot'[s] = c)
    BY ConnsStay, ReadsClosing DEF Owned
<1>2. ASSUME NEW i \in DOMAIN coreQ', Packet(i)', coreQ'[i].chan = s
      PROVE  coreQ'[i].conn = c \/ \E j \in DOMAIN coreQ' : j < i /\ Bad(j, s)'
    <2>1. CASE UNCHANGED coreQ
        BY <1>2, <2>1 DEF Owned, Packet, Bad
    <2>2. CASE coreQ # <<>> /\ coreQ' = Tail(coreQ) /\ ~Bad(1, s)
        <3>1. i + 1 \in DOMAIN coreQ /\ coreQ'[i] = coreQ[i + 1] /\ i \in Nat
            BY <2>2, TailQueue
        <3>2. coreQ[i + 1].conn = c \/ \E j \in DOMAIN coreQ : j < i + 1 /\ Bad(j, s)
            BY <1>2, <3>1 DEF Owned, Packet
        <3>3. ASSUME NEW j \in DOMAIN coreQ, j < i + 1, Bad(j, s)
              PROVE  \E h \in DOMAIN coreQ' : h < i /\ Bad(h, s)'
            <4>1. j - 1 \in DOMAIN coreQ' /\ coreQ'[j - 1] = coreQ[j] /\ j - 1 < i
                BY <2>2, <3>1, <3>3, TailQueue
            <4> QED
                BY <3>3, <4>1 DEF Bad
        <3> QED
            BY <3>1, <3>2, <3>3
    <2> QED
        BY <2>1, <2>2 DEF CoreReads, Spared
<1> QED
    BY <1>1, <1>2 DEF Owned

LEMMA EntryRenewed ==
    ASSUME Inv, EntryInv, Steady, SameAccts, SeenGrows, CoreReads, Renewed,
           \A s \in Slot : Spared(s)
    PROVE  EntryInv'
<1>0. Stale => Stale'
    BY DEF SeenGrows, Stale
<1>1. EmptyEntry' /\ OneEntry' /\ NoZero'
    <2>1. 0 # None /\ 0 \notin Account
        BY SessionAssumption
    <2> QED
        BY <1>0, <2>1 DEF EntryInv, EmptyEntry, OneEntry, NoZero, Renewed
<1>2. EntryOwned'
    <2> SUFFICES ASSUME Stale' = FALSE, NEW s \in Slot, dbList'[s].dbid # None
                 PROVE  \E c \in DOMAIN conn' : Owned(s, c)'
        BY DEF EntryOwned, Stale
    <2>1. dbList'[s].dbid = dbList[s].dbid
        BY DEF Renewed
    <2>2. PICK c \in DOMAIN conn : Owned(s, c)
        BY <1>0, <2>1 DEF EntryInv, EntryOwned
    <2>3. conn'[c].acct = dbList'[s].dbid
        BY <2>1, <2>2 DEF Owned, SameAccts
    <2>4. Owned(s, c)'
        BY <2>2, <2>3, OwnedReads
    <2> QED
        BY <2>4, ConnsStay
<1>3. LoggedIn'
    <2> SUFFICES ASSUME NEW c \in DOMAIN conn', NEW s, s = conn'[c].chan, Open(c)', conn'[c].acct # None
                 PROVE  dbList'[s].dbid = conn'[c].acct /\ ~Closing(s)'
        BY DEF LoggedIn, Closing
    <2>1. c \in DOMAIN conn /\ conn[c].chan = s /\ conn[c].acct = conn'[c].acct /\ Open(c) /\ s \in Slot
        BY ConnsStay DEF SameAccts
    <2>2. dbList[s].dbid = conn[c].acct /\ ~Closing(s)
        BY <2>1 DEF EntryInv, LoggedIn
    <2> QED
        BY <2>1, <2>2, ReadsClosing DEF Renewed
<1> QED
    BY <1>1, <1>2, <1>3 DEF EntryInv

\* The coroutines that wait keep their slots and their entries.
LEMMA WaitRenewed ==
    ASSUME Inv, WaitingSlot, Steady, CoreReads,
           \A s \in Slot : \/ Closing(s)
                           \/ dbList[s].dbid \in Account => dbList'[s].dbid = dbList[s].dbid,
           NEW i \in DOMAIN onlines, NEW c, NEW s, c = onlines[i].conn, s = onlines[i].chan
    PROVE  /\ c \in DOMAIN conn' /\ conn'[c].chan = s
           /\ Open(c)' => dbList'[s].dbid = onlines[i].uid /\ ~Closing(s)'
<1>1. c \in DOMAIN conn /\ conn[c].chan = s
    BY DEF WaitingSlot
<1>2. onlines[i].uid \in Account
    <2>1. onlines \in Seq(Waiting)
        BY Parts DEF Inv, CoreOK
    <2>2. onlines[i] \in Waiting
        BY <2>1
    <2> QED
        BY <2>2 DEF Waiting
<1>3. c \in DOMAIN conn' /\ conn'[c].chan = s /\ (Open(c)' => Open(c)) /\ s \in Slot
    BY <1>1, ConnsStay
<1>4. Open(c) => dbList[s].dbid = onlines[i].uid /\ ~Closing(s)
    BY DEF WaitingSlot
<1> QED
    BY <1>2, <1>3, <1>4, ReadsClosing

LEMMA WaitKept ==
    ASSUME Inv, WaitInv, Steady, CoreReads, SeenGrows, UNCHANGED <<onlines, mapLoaded>>,
           \A s \in Slot : \/ Closing(s)
                           \/ dbList[s].dbid \in Account => dbList'[s].dbid = dbList[s].dbid
    PROVE  WaitInv'
<1>1. WaitingSlot'
    <2> SUFFICES ASSUME NEW i \in DOMAIN onlines, NEW c, NEW s, c = onlines[i].conn, s = onlines[i].chan
                 PROVE  /\ c \in DOMAIN conn' /\ conn'[c].chan = s
                        /\ Open(c)' => dbList'[s].dbid = onlines[i].uid /\ ~Closing(s)'
        BY DEF WaitingSlot, Open, Closing
    <2> QED
        BY WaitRenewed DEF WaitInv
<1>2. Twice' /\ NoWait'
    BY DEF WaitInv, Twice, NoWait, SeenGrows
<1> QED
    BY <1>1, <1>2 DEF WaitInv

LEMMA RenewedKeeps ==
    ASSUME Renewed, NEW s \in Slot, dbList[s].dbid \in Account
    PROVE  dbList'[s].dbid = dbList[s].dbid
BY SessionAssumption DEF Renewed

\* net_CM_LOGIN makes an entry for the connection of the packet.
LEMMA EntryLogin ==
    ASSUME Inv, CoreInv, Login, coreQ # <<>>, coreQ' = Tail(coreQ), UNCHANGED <<slot, freeQ, raced>>,
           NEW s, NEW u, NEW k, s = Core.chan, u = Core.uid, k = Core.conn
    PROVE  EntryInv' /\ WaitInv'
<1>1. /\ Steady
      /\ \A c \in DOMAIN conn : conn'[c].acct = IF c = k /\ dbList' # dbList THEN u ELSE conn[c].acct
    BY LoginKept, KeptSteady
<1>2. Core.type = "LOGIN" /\ Core = coreQ[1] /\ Core \in CoreMsg /\ 1 \in DOMAIN coreQ
    BY TailQueue DEF Login
<1>3. s \in Slot /\ u \in Account
    BY <1>2, CoreMsgs
<1>4. Packet(1) /\ k \in DOMAIN conn /\ conn[k].chan = s /\ \A t : ~Bad(1, t)
    BY <1>2 DEF Packet, Bad, CoreInv, Mailbox, PacketSlot
<1>5. UNCHANGED <<seen, onlines, mapLoaded>> /\ SeenGrows /\ CoreReads /\ \A t : Spared(t)
    BY <1>4 DEF Login, SeenGrows, CoreReads, Spared
<1>6. CASE dbList' = dbList
    <2>1. SameAccts /\ Renewed
        BY <1>1, <1>6 DEF SameAccts, Renewed
    <2> QED
        BY <1>1, <1>5, <1>6, <2>1, EntryRenewed, WaitKept DEF CoreInv
<1>7. CASE dbList' # dbList
    <2>1. /\ dbList[s] = NoEntry /\ \A t \in Slot : dbList[t].dbid # u
          /\ dbList' = [dbList EXCEPT ![s] = Entry(u, FALSE)]
        BY <1>7 DEF Login
    <2>2. dbList[s].dbid = None /\ None \notin Account /\ 0 \notin Account
        BY <2>1, SessionAssumption DEF NoEntry, Entry
    <2>3. dbList'[s].dbid = u /\ \A t \in Slot : t # s => dbList'[t] = dbList[t]
        <3>1. dbList \in Entries
            BY Parts DEF Inv, CoreOK
        <3> QED
            BY <1>3, <2>1, <3>1 DEF Entries, Entry
    <2>4. EmptyEntry' /\ OneEntry'
        <3>1. EmptyEntry'
            BY <1>3, <2>2, <2>3 DEF CoreInv, EntryInv, EmptyEntry
        <3>2. OneEntry'
            <4> SUFFICES ASSUME NEW a \in Slot, NEW b \in Slot, dbList'[a].dbid \in Account,
                                dbList'[a].dbid = dbList'[b].dbid
                         PROVE  a = b
                BY DEF OneEntry
            <4>1. \A t \in Slot : dbList[t].dbid # u
                BY <2>1
            <4>2. CASE a # s /\ b # s
                BY <2>3, <4>2 DEF CoreInv, EntryInv, OneEntry
            <4>3. CASE a = s \/ b = s
                BY <2>3, <4>1, <4>3
            <4> QED
                BY <4>2, <4>3
        <3> QED
            BY <3>1, <3>2
    <2>5. NoZero'
        <3>1. Stale' <=> Stale
            BY <1>5 DEF Stale
        <3> QED
            BY <1>3, <2>2, <2>3, <3>1 DEF CoreInv, EntryInv, NoZero
    <2>6. EntryOwned'
        <3> SUFFICES ASSUME Stale' = FALSE, NEW t \in Slot, dbList'[t].dbid # None
                     PROVE  \E c \in DOMAIN conn' : Owned(t, c)'
            BY DEF EntryOwned, Stale
        <3>0. Stale = FALSE /\ "lateRead" \notin seen
            BY <1>5 DEF Stale
        <3>1. CASE t # s
            <4>1. PICK c \in DOMAIN conn : Owned(t, c)
                BY <2>3, <3>0, <3>1 DEF CoreInv, EntryInv, EntryOwned
            <4>2. conn'[c].acct = dbList'[t].dbid
                BY <1>1, <1>4, <2>3, <3>1, <4>1 DEF Owned
            <4>3. Owned(t, c)'
                BY <1>1, <1>5, <4>1, <4>2, OwnedReads
            <4> QED
                BY <1>1, <4>3, ConnsStay
        <3>2. CASE t = s
            <4>1. conn'[k].chan = s /\ conn'[k].acct = dbList'[s].dbid /\ k \in DOMAIN conn' /\ slot' = slot
                BY <1>1, <1>4, <1>7, <2>3, ConnsStay
            <4>2. Closing(s)' \/ slot'[s] = k
                <5>1. Open(k) \/ \E j \in DOMAIN coreQ : 1 < j /\ Bad(j, s)
                    BY <1>2, <1>4, <3>0 DEF CoreInv, Mailbox, ClosedPacket
                <5>2. CASE Open(k)
                    BY <1>4, <4>1, <5>2 DEF Open
                <5>3. ASSUME NEW j \in DOMAIN coreQ, 1 < j, Bad(j, s) PROVE Closing(s)'
                    <6>1. Closing(s)
                        BY <5>3 DEF Closing, Bad
                    <6> QED
                        BY <1>5, <6>1, ReadsClosing
                <5> QED
                    BY <5>1, <5>2, <5>3
            <4>3. ASSUME NEW i \in DOMAIN coreQ', Packet(i)', coreQ'[i].chan = s
                  PROVE  coreQ'[i].conn = k \/ \E j \in DOMAIN coreQ' : j < i /\ Bad(j, s)'
                <5>1. i + 1 \in DOMAIN coreQ /\ coreQ'[i] = coreQ[i + 1] /\ i \in Nat /\ 1 < i + 1
                    BY TailQueue
                <5>2. k = coreQ[1].conn /\ s = coreQ[1].chan
                    BY <1>2
                <5>3. k = coreQ[i + 1].conn \/ \E b \in DOMAIN coreQ : 1 < b /\ b < i + 1 /\ Bad(b, s)
                    BY <1>2, <1>4, <3>0, <4>3, <5>1, <5>2 DEF CoreInv, Mailbox, OneConn, Packet
                <5>4. ASSUME NEW b \in DOMAIN coreQ, 1 < b, b < i + 1, Bad(b, s)
                      PROVE  \E j \in DOMAIN coreQ' : j < i /\ Bad(j, s)'
                    <6>1. b - 1 \in DOMAIN coreQ' /\ coreQ'[b - 1] = coreQ[b] /\ b - 1 < i
                        BY <5>1, <5>4, TailQueue
                    <6> QED
                        BY <5>4, <6>1 DEF Bad
                <5> QED
                    BY <5>1, <5>3, <5>4
            <4>4. Owned(s, k)'
                BY <4>1, <4>2, <4>3 DEF Owned
            <4> QED
                BY <3>2, <4>1, <4>4
        <3> QED
            BY <3>1, <3>2
    <2>7. LoggedIn'
        <3> SUFFICES ASSUME NEW c \in DOMAIN conn', NEW t, t = conn'[c].chan, Open(c)', conn'[c].acct # None
                     PROVE  dbList'[t].dbid = conn'[c].acct /\ ~Closing(t)'
            BY DEF LoggedIn, Closing
        <3>1. c \in DOMAIN conn /\ conn[c].chan = t /\ Open(c) /\ t \in Slot
            BY <1>1, ConnsStay
        <3>2. CASE c = k
            <4>1. t = s /\ conn'[c].acct = u
                BY <1>1, <1>4, <1>7, <3>1, <3>2
            <4>2. \A j \in DOMAIN coreQ : 1 < j => ~Bad(j, s)
                BY <1>2, <1>4, <3>1, <3>2 DEF CoreInv, Mailbox, OpenPacket
            <4>3. ~Closing(s)
                BY <1>4, <4>2, TailQueue DEF Closing, Bad
            <4> QED
                BY <1>5, <2>3, <4>1, <4>3, ReadsClosing
        <3>3. CASE c # k
            <4>1. conn'[c].acct = conn[c].acct
                BY <1>1, <3>1, <3>3
            <4>2. dbList[t].dbid = conn[c].acct /\ ~Closing(t)
                BY <3>1, <4>1 DEF CoreInv, EntryInv, LoggedIn
            <4>3. t # s
                BY <2>2, <4>1, <4>2
            <4> QED
                BY <1>5, <2>3, <3>1, <4>1, <4>2, <4>3, ReadsClosing
        <3> QED
            BY <3>2, <3>3
    <2>8. WaitInv'
        BY <1>1, <1>5, <2>2, <2>3, WaitKept DEF CoreInv
    <2> QED
        BY <2>4, <2>5, <2>6, <2>7, <2>8 DEF EntryInv
<1> QED
    BY <1>6, <1>7

----------------------------------------------------------------------------
(* CoreInv, in the steps of the net thread and of the players.              *)

\* Nothing that the core knows changes, but for the end of its mailbox.
Outside == UNCHANGED <<dbList, onlines, mapLoaded>>

LEMMA SteadyAge == ASSUME Inv, Steady, SameAccts PROVE ConnsAge
BY ConnsStay DEF ConnsAge, SameAccts, Steady

LEMMA CoreQuiet ==
    ASSUME Inv, CoreInv, Steady, SameAccts, SeenGrows, Outside, UNCHANGED coreQ
    PROVE  CoreInv'
<1>1. ConnsAge /\ QueueGrows
    BY SteadyAge, GrowsKept
<1>2. Mailbox'
    BY MailboxKept DEF CoreInv
<1>3. EntryInv' /\ WaitInv'
    BY <1>1, EntryOutside, WaitOutside DEF CoreInv, Outside
<1> QED
    BY <1>2, <1>3 DEF CoreInv

\* A message for the core from a connection that is still there, or a late one.
LEMMA CorePosted ==
    ASSUME Inv, CoreInv, Steady, SameAccts, SeenGrows, Outside,
           NEW m \in CoreMsg, coreQ' = Append(coreQ, m), m.type # "BADCHANNEL",
           m.type \in {"LOGIN", "ONLINE", "LOGOUT"} =>
               /\ m.conn \in DOMAIN conn /\ m.chan = conn[m.conn].chan
               /\ Open(m.conn) \/ "lateRead" \in seen'
    PROVE  CoreInv'
<1>1. ConnsAge
    BY SteadyAge
<1>2. QueueGrows
    BY GrowsAppend DEF Stale
<1>3. EntryInv' /\ WaitInv'
    BY <1>1, <1>2, EntryOutside, WaitOutside DEF CoreInv, Outside
<1>4. Mailbox'
    BY ConnsStay, MailboxAppend DEF CoreInv
<1> QED
    BY <1>3, <1>4 DEF CoreInv

LEMMA AcceptAge == ASSUME Inv, Accept PROVE ConnsAge
<1>1. \A c \in DOMAIN conn : c \in DOMAIN conn' /\ conn'[c] = conn[c] /\ (Open(c)' <=> Open(c))
    BY AcceptOpen
<1>2. conn' = Append(conn, NewConn(Head(freeQ))) /\ conn \in Seq(ConnState)
    BY Parts DEF Accept, Inv, NetOK
<1>3. \A c \in DOMAIN conn' : c \notin DOMAIN conn => conn'[c] = NewConn(Head(freeQ))
    <2> DEFINE e == NewConn(Head(freeQ))
    <2> HIDE DEF e
    <2>1. \A c \in DOMAIN conn' : c \notin DOMAIN conn => conn'[c] = e
        BY <1>2 DEF e
    <2> QED
        BY <2>1 DEF e
<1>4. \A c \in DOMAIN conn, s \in Slot : slot[s] = c => slot'[s] = c
    <2>1. slot' = [slot EXCEPT ![Head(freeQ)] = Len(conn) + 1] /\ slot \in [Slot -> Conn \cup {None}]
        BY Parts DEF Accept, Inv, NetOK
    <2> SUFFICES ASSUME NEW c \in DOMAIN conn, NEW s \in Slot, slot[s] = c PROVE slot'[s] = c
        OBVIOUS
    <2>2. slot[Head(freeQ)] = None /\ c # None
        BY <1>2, AcceptOpen, SessionAssumption
    <2> QED
        BY <2>1, <2>2
<1> QED
    BY <1>1, <1>3, <1>4 DEF ConnsAge, NewConn

LEMMA CoreAccept == ASSUME Inv, CoreInv, Accept PROVE CoreInv'
<1>1. UNCHANGED <<coreQ, dbList, onlines, mapLoaded, seen>>
    BY DEF Accept, coreVars
<1>2. SeenGrows /\ QueueGrows /\ Outside
    BY <1>1, GrowsKept DEF SeenGrows, Outside
<1>3. Mailbox' /\ EntryInv' /\ WaitInv'
    BY <1>1, <1>2, AcceptAge, MailboxAccept, EntryOutside, WaitOutside DEF CoreInv
<1> QED
    BY <1>3 DEF CoreInv

LEMMA CoreReader ==
    ASSUME Inv, CoreInv, NEW k \in DOMAIN conn, NEW m \in ClientMsg, Recv(k, m) \/ RecvLate(k, m)
    PROVE  CoreInv'
<1>1. Steady /\ SameAccts
    BY ReaderKept, KeptSteady
<1>2. /\ SeenGrows /\ Outside /\ Forward(k, m)
      /\ Open(k) \/ "lateRead" \in seen'
    BY DEF Recv, RecvLate, SeenGrows, Outside
<1>3. CASE UNCHANGED coreQ
    BY <1>1, <1>2, <1>3, CoreQuiet
<1>4. CASE coreQ' = Append(coreQ, ToCore(k, m))
    <2> DEFINE c == ToCore(k, m)
    <2>1. conn[k] \in ConnState /\ k \in Conn
        BY Parts, SessionAssumption DEF Inv, NetOK, Conn
    <2>2. conn[k].chan \in Slot
        BY <2>1 DEF ConnState
    <2>3. c \in CoreMsg
        BY <2>1, <2>2 DEF ToCore, CoreMsg, ClientMsg
    <2>4. c.type # "BADCHANNEL" /\ c.conn = k /\ c.chan = conn[k].chan
        BY DEF ToCore, ClientMsg
    <2> HIDE DEF c
    <2> QED
        BY <1>1, <1>2, <1>4, <2>3, <2>4, CorePosted DEF c
<1> QED
    BY <1>2, <1>3, <1>4 DEF Forward

\* A slot is emptied, and the core will read of it.
LEMMA CloseAges ==
    ASSUME Inv, NEW s \in Slot, NEW cs, SameConns(cs), NEW ps, DoClose(s, cs, ps), SameConns(conn'),
           \A c \in DOMAIN conn : cs[c].acct = conn[c].acct, slot[s] # None
    PROVE  /\ coreQ' = Append(coreQ, [type |-> "BADCHANNEL", chan |-> s])
           /\ \A c \in DOMAIN conn : /\ c \in DOMAIN conn' /\ conn'[c].chan = conn[c].chan
                                     /\ Open(c)' => Open(c) /\ conn[c].chan # s
                                     /\ Open(c) => Open(c)' \/ conn[c].chan = s
           /\ ConnsAge /\ QueueGrows /\ Closing(s)'
<1> DEFINE m == [type |-> "BADCHANNEL", chan |-> s]
<1>0. m \in CoreMsg /\ m.type = "BADCHANNEL" /\ m.chan = s
    BY DEF CoreMsg
<1>1. /\ slot[s] \in DOMAIN conn /\ conn[slot[s]].chan = s
      /\ slot' = [slot EXCEPT ![s] = None] /\ coreQ' = Append(coreQ, m)
      /\ \A c \in DOMAIN conn : conn'[c].acct = conn[c].acct
    <2>1. Closed(s, cs, ps)
        BY CloseFields
    <2>2. \A c \in DOMAIN conn : conn'[c].acct = conn[c].acct
        BY <2>1 DEF Closed
    <2> QED
        BY <2>1, <2>2 DEF Closed
<1> HIDE DEF m
<1>2. \A c \in DOMAIN conn : /\ c \in DOMAIN conn' /\ conn'[c].chan = conn[c].chan
                             /\ Open(c)' <=> Open(c) /\ c # slot[s]
    <2>1. DOMAIN conn' = DOMAIN conn /\ \A c \in DOMAIN conn : conn'[c].chan = conn[c].chan
        BY Parts DEF Inv, NetOK, SameConns
    <2> QED
        BY <2>1, CloseOpen
<1>3. \A c \in DOMAIN conn : /\ Open(c)' => Open(c) /\ conn[c].chan # s
                             /\ Open(c) => Open(c)' \/ conn[c].chan = s
    BY <1>1, <1>2 DEF Open
<1>4. Closing(s)'
    BY <1>0, <1>1, AppendClosing
<1>5. \A c \in DOMAIN conn, t \in Slot : slot[t] = c => slot'[t] = c \/ Closing(t)'
    <2>1. slot \in [Slot -> Conn \cup {None}]
        BY Parts DEF Inv, NetOK
    <2>2. \A t \in Slot : t # s => slot'[t] = slot[t]
        BY <1>1, <2>1
    <2> QED
        BY <1>4, <2>2
<1>6. DOMAIN conn' = DOMAIN conn
    BY Parts DEF Inv, NetOK, SameConns
<1>7. ConnsAge
    BY <1>1, <1>2, <1>5, <1>6 DEF ConnsAge
<1>8. QueueGrows
    BY <1>0, <1>1, <1>3, GrowsAppend
<1> QED
    BY <1>1, <1>2, <1>3, <1>4, <1>7, <1>8 DEF m

LEMMA CoreCloses ==
    ASSUME Inv, CoreInv, NEW s \in Slot, NEW cs, SameConns(cs), NEW ps, DoClose(s, cs, ps), SameConns(conn'),
           \A c \in DOMAIN conn : cs[c].acct = conn[c].acct, Outside, UNCHANGED seen
    PROVE  CoreInv'
<1>1. SeenGrows
    BY DEF SeenGrows
<1>2. CASE slot[s] = None
    <2>1. Steady /\ SameAccts /\ UNCHANGED coreQ
        BY <1>2 DEF DoClose, Steady, SameAccts
    <2> QED
        BY <1>1, <2>1, CoreQuiet
<1>3. CASE slot[s] # None
    <2> DEFINE m == [type |-> "BADCHANNEL", chan |-> s]
    <2>0. m \in CoreMsg /\ m.type = "BADCHANNEL" /\ m.chan = s
        BY DEF CoreMsg
    <2>1. /\ coreQ' = Append(coreQ, m) /\ ConnsAge /\ QueueGrows
          /\ \A c \in DOMAIN conn : /\ c \in DOMAIN conn' /\ conn'[c].chan = conn[c].chan
                                    /\ Open(c)' => Open(c) /\ conn[c].chan # s
                                    /\ Open(c) => Open(c)' \/ conn[c].chan = s
        BY <1>3, CloseAges
    <2> HIDE DEF m
    <2>2. Mailbox'
        BY <1>1, <2>0, <2>1, MailboxAppend DEF CoreInv
    <2>3. EntryInv' /\ WaitInv'
        BY <1>1, <2>1, EntryOutside, WaitOutside DEF CoreInv, Outside
    <2> QED
        BY <2>2, <2>3 DEF CoreInv
<1> QED
    BY <1>2, <1>3

----------------------------------------------------------------------------
(* The coroutines that go on when the map is loaded.                        *)

LEMMA LeastBy ==
    ASSUME NEW T, T \subseteq Nat, T # {}, NEW R, IsWellFoundedOn(R, Nat),
           \A x, y \in Nat : x < y => <<x, y>> \in R
    PROVE  \E x \in T : \A y \in T : x <= y
<1>1. \E x \in T : \A y \in T : ~ (<<y, x>> \in R)
    BY ONLY WFMin, IsWellFoundedOn(R, Nat), T \subseteq Nat, T # {}, ZenonT(60)
<1>2. PICK x \in T : \A y \in T : ~ (<<y, x>> \in R)
    BY <1>1
<1>3. \A y \in T : ~(y < x)
    BY <1>2
<1> QED
    BY <1>3

LEMMA Least ==
    ASSUME NEW T, T \subseteq Nat, T # {}
    PROVE  \E x \in T : \A y \in T : x <= y
<1>1. IsWellFoundedOn(OpToRel(<, Nat), Nat)
    BY NatLessThanWellFounded, Zenon
<1>2. \A x, y \in Nat : x < y => <<x, y>> \in OpToRel(<, Nat)
    BY Zenon DEF OpToRel
<1> QED
    BY <1>1, <1>2, LeastBy, Zenon

\* The coroutines that come to their end, and those that make a player.
Ready(os, placed) == {i \in DOMAIN os : \A j \in 1 .. i : ~Refused(os, j, placed)}
Made(os, placed)  == {i \in Ready(os, placed) : i \in placed}

LEMMA ReadyFacts ==
    ASSUME NEW os \in Seq(Waiting), NEW placed, NEW i \in Made(os, placed)
    PROVE  /\ i \in DOMAIN os /\ i \in Ready(os, placed) /\ player[os[i].uid].state = "none"
           /\ \A j \in Made(os, placed) : os[j].uid = os[i].uid => j = i
<1>1. i \in DOMAIN os /\ i \in Nat \ {0} /\ ~Refused(os, i, placed) /\ i \in placed /\ i \in Ready(os, placed)
    BY DEF Ready, Made
<1>2. ASSUME NEW j \in Made(os, placed), os[j].uid = os[i].uid PROVE j = i
    <2>1. j \in DOMAIN os /\ j \in Nat \ {0} /\ ~Refused(os, j, placed) /\ j \in placed
        BY DEF Ready, Made
    <2> QED
        BY <1>1, <1>2, <2>1 DEF Refused
<1> QED
    BY <1>1, <1>2 DEF Refused

\* What the last coroutine of a channel leaves in the entry.
Marks(os, s, placed) == \E i \in Ready(os, placed) :
    os[i].chan = s /\ (\A j \in Ready(os, placed) : os[j].chan = s => j <= i) /\ i \in placed

LEMMA MarksFacts ==
    ASSUME NEW os \in Seq(Waiting), NEW placed, NEW s
    PROVE  /\ Marks(os, s, placed) \in BOOLEAN
           /\ Marks(os, s, placed) => \E i \in Made(os, placed) : os[i].chan = s
           /\ (\E i \in Ready(os, placed) : os[i].chan = s) /\ (\A i \in Ready(os, placed) : os[i].chan = s => i \in placed)
                  => Marks(os, s, placed)
<1>1. ASSUME NEW i \in Ready(os, placed), os[i].chan = s, \A j \in Ready(os, placed) : os[j].chan = s => j \in placed
      PROVE  Marks(os, s, placed)
    <2> DEFINE n == Len(os)
               T == {n - j : j \in {k \in Ready(os, placed) : os[k].chan = s}}
    <2>1. n \in Nat /\ Ready(os, placed) \subseteq 1 .. n
        BY DEF Ready
    <2>2. T \subseteq Nat /\ n - i \in T
        BY <1>1, <2>1
    <2>3. PICK x \in T : \A y \in T : x <= y
        BY <2>2, Least
    <2>4. PICK l \in Ready(os, placed) : os[l].chan = s /\ x = n - l
        BY <2>3
    <2>5. ASSUME NEW j \in Ready(os, placed), os[j].chan = s PROVE j <= l
        <3>1. n - l <= n - j
            BY <2>3, <2>4, <2>5
        <3> HIDE DEF n
        <3> QED
            BY <2>1, <3>1
    <2> QED
        BY <1>1, <2>4, <2>5 DEF Marks
<1>2. Marks(os, s, placed) => \E i \in Made(os, placed) : os[i].chan = s
    BY DEF Marks, Made
<1> QED
    BY <1>1, <1>2 DEF Marks

LEMMA AddedFacts ==
    ASSUME NEW os \in Seq(Waiting), NEW placed
    PROVE  /\ \A s \in Slot : Added(os, placed).dbList[s] =
                 IF \E i \in Ready(os, placed) : os[i].chan = s
                 THEN Entry(IF dbList[s] = NoEntry THEN 0 ELSE dbList[s].dbid, Marks(os, s, placed)) ELSE dbList[s]
           /\ \A d \in Account :
                 \/ \E i \in Made(os, placed) : os[i].uid = d /\ Added(os, placed).player[d] = AddPlayer(os[i])
                 \/ (\A i \in Made(os, placed) : os[i].uid # d) /\ Added(os, placed).player[d] = player[d]
           /\ Ready(os, placed) = DOMAIN os => Added(os, placed).fault = None
           /\ Ready(os, placed) # DOMAIN os =>
                 \E n \in DOMAIN os : Refused(os, n, placed) /\ Added(os, placed).fault = <<"attach", os[n].uid>>
<1> DEFINE done == {i \in DOMAIN os : \A j \in 1 .. i : ~Refused(os, j, placed)}
           next == CHOOSE i \in DOMAIN os \ done : \A j \in 1 .. i - 1 : j \in done
           made == done \cap placed
           last(s) == {i \in done : os[i].chan = s /\ \A j \in done : os[j].chan = s => j <= i}
           pl == [d \in Account |->
                     IF \E i \in made : os[i].uid = d
                     THEN AddPlayer(os[CHOOSE i \in made : os[i].uid = d]) ELSE player[d]]
           marks(s) == \E i \in last(s) : MarkMade(i, placed)
           db == [s \in Slot |->
                     IF \E i \in done : os[i].chan = s
                     THEN Entry(IF dbList[s] = NoEntry THEN 0 ELSE dbList[s].dbid, marks(s))
                     ELSE dbList[s]]
           un == \E i \in made, j \in done \ made : os[i].chan = os[j].chan
<1>1. Added(os, placed) = [player |-> pl, dbList |-> db,
                   fault |-> IF done = DOMAIN os THEN None ELSE <<"attach", os[next].uid>>,
                   unmarked |-> un]
    BY DEF Added
<1>2. done = Ready(os, placed) /\ made = Made(os, placed) /\ \A s : marks(s) = Marks(os, s, placed)
    BY DEF Ready, Made, Marks, MarkMade
<1>3. ASSUME NEW d \in Account
      PROVE  \/ \E i \in made : os[i].uid = d /\ pl[d] = AddPlayer(os[i])
             \/ (\A i \in made : os[i].uid # d) /\ pl[d] = player[d]
    <2>1. CASE \E i \in made : os[i].uid = d
        <3> DEFINE n == CHOOSE i \in made : os[i].uid = d
        <3>1. n \in made /\ os[n].uid = d
            BY <2>1
        <3>2. pl[d] = AddPlayer(os[n])
            BY <2>1
        <3> HIDE DEF n, made, pl
        <3> QED
            BY <3>1, <3>2
    <2>2. CASE ~ \E i \in made : os[i].uid = d
        <3>1. pl[d] = player[d]
            BY <2>2
        <3> HIDE DEF made, pl
        <3> QED
            BY <2>2, <3>1
    <2> QED
        BY <2>1, <2>2
<1>4. ASSUME Ready(os, placed) # DOMAIN os PROVE next \in DOMAIN os /\ Refused(os, next, placed)
    <2>0. done \subseteq DOMAIN os
        OBVIOUS
    <2> HIDE DEF done
    <2>1. DOMAIN os \ done \subseteq Nat /\ DOMAIN os \ done # {}
        <3>1. DOMAIN os \subseteq Nat
            OBVIOUS
        <3> QED
            BY <1>2, <1>4, <2>0, <3>1
    <2>2. PICK x \in DOMAIN os \ done : \A y \in DOMAIN os \ done : x <= y
        BY <2>1, Least
    <2>3. \A j \in 1 .. x - 1 : j \in done
        <3>1. x \in 1 .. Len(os) /\ DOMAIN os = 1 .. Len(os) /\ Len(os) \in Nat
            BY <2>2
        <3> QED
            BY <2>2, <3>1
    <2>4. next \in DOMAIN os \ done /\ \A j \in 1 .. next - 1 : j \in done
        BY <2>3
    <2> HIDE DEF next
    <2>5. next \in Nat \ {0}
        BY <2>4
    <2>6. PICK j \in 1 .. next : Refused(os, j, placed)
        BY <2>4 DEF done
    <2>7. j = next
        <3>1. ASSUME j # next PROVE FALSE
            <4>1. j \in done
                BY <2>4, <2>5, <3>1
            <4>2. ~Refused(os, j, placed)
                BY <2>5, <4>1 DEF done
            <4> QED
                BY <2>6, <4>2
        <3> QED
            BY <3>1
    <2> QED
        BY <2>4, <2>6, <2>7
<1> HIDE DEF next, done, made, marks, pl
<1>5. \A s \in Slot : db[s] = IF \E i \in Ready(os, placed) : os[i].chan = s
                              THEN Entry(IF dbList[s] = NoEntry THEN 0 ELSE dbList[s].dbid, Marks(os, s, placed))
                              ELSE dbList[s]
    BY <1>2
<1> HIDE DEF db
<1> HIDE DEF un
<1>6. /\ Added(os, placed).player = pl /\ Added(os, placed).dbList = db
      /\ Added(os, placed).fault = IF done = DOMAIN os THEN None ELSE <<"attach", os[next].uid>>
    BY <1>1
<1>7. Ready(os, placed) # DOMAIN os =>
          \E n \in DOMAIN os : Refused(os, n, placed) /\ Added(os, placed).fault = <<"attach", os[n].uid>>
    BY <1>2, <1>4, <1>6
<1>8. Ready(os, placed) = DOMAIN os => Added(os, placed).fault = None
    BY <1>2, <1>6
<1>9. \A d \in Account :
          \/ \E i \in Made(os, placed) : os[i].uid = d /\ Added(os, placed).player[d] = AddPlayer(os[i])
          \/ (\A i \in Made(os, placed) : os[i].uid # d) /\ Added(os, placed).player[d] = player[d]
    BY <1>2, <1>3, <1>6
<1> QED
    BY <1>5, <1>6, <1>7, <1>8, <1>9

\* A player is left without its mark by a coroutine of its channel that made none.
LEMMA AddedUnmarked ==
    ASSUME NEW os, NEW placed
    PROVE  Added(os, placed).unmarked <=>
             \E i \in Made(os, placed) : \E j \in Ready(os, placed) : j \notin placed /\ os[i].chan = os[j].chan
BY DEF Added, Made, Ready

\* requestLoadMap resumes the coroutines in another order.
LEMMA Rotated ==
    ASSUME Inv, onlines # <<>>, NEW os, os = Append(Tail(onlines), Head(onlines))
    PROVE  /\ os \in Seq(Waiting)
           /\ \A i \in DOMAIN os : \E g \in DOMAIN onlines : os[i] = onlines[g]
           /\ \A i, j \in DOMAIN os : i # j =>
                 \E g, h \in DOMAIN onlines : g # h /\ os[i] = onlines[g] /\ os[j] = onlines[h]
<1> DEFINE n == Len(onlines)
           from(i) == IF i = n THEN 1 ELSE i + 1
<1>1. onlines \in Seq(Waiting)
    BY Parts DEF Inv, CoreOK
<1>2. /\ os \in Seq(Waiting) /\ Len(os) = n /\ n \in Nat \ {0}
      /\ DOMAIN os = 1 .. n /\ DOMAIN onlines = 1 .. n
      /\ \A i \in 1 .. n : os[i] = IF i = n THEN onlines[1] ELSE onlines[i + 1]
    BY <1>1
<1> HIDE DEF n
<1>3. \A i \in DOMAIN os : from(i) \in DOMAIN onlines /\ os[i] = onlines[from(i)]
    BY <1>2
<1>4. \A i, j \in DOMAIN os : i # j => from(i) # from(j)
    BY <1>2
<1> HIDE DEF from
<1> QED
    BY <1>2, <1>3, <1>4

\* m_dbidList[channID] keeps the account of the channel, or has none any more.
LEMMA AddedRenewed ==
    ASSUME NEW os \in Seq(Waiting), NEW placed, dbList' = Added(os, placed).dbList, EmptyEntry,
           \A i \in DOMAIN os : dbList[os[i].chan].dbid # None \/ Stale'
    PROVE  Renewed
<1> SUFFICES ASSUME NEW s \in Slot
             PROVE  \/ dbList'[s].dbid = dbList[s].dbid /\ (dbList[s].dbid = None => dbList'[s] = dbList[s])
                    \/ Stale' /\ dbList[s].dbid = None /\ dbList'[s].dbid = 0
    BY DEF Renewed
<1> DEFINE d == IF dbList[s] = NoEntry THEN 0 ELSE dbList[s].dbid
<1>1. dbList'[s] = IF \E i \in Ready(os, placed) : os[i].chan = s THEN Entry(d, Marks(os, s, placed)) ELSE dbList[s]
    BY AddedFacts
<1>2. Entry(d, Marks(os, s, placed)).dbid = d
    BY DEF Entry
<1>3. CASE dbList'[s] = dbList[s]
    BY <1>3
<1>4. ASSUME NEW i \in Ready(os, placed), os[i].chan = s, dbList'[s].dbid = d
      PROVE  \/ dbList'[s].dbid = dbList[s].dbid /\ (dbList[s].dbid = None => dbList'[s] = dbList[s])
             \/ Stale' /\ dbList[s].dbid = None /\ dbList'[s].dbid = 0
    <2>1. dbList[s].dbid # None \/ Stale'
        BY <1>4 DEF Ready
    <2>2. dbList[s] = NoEntry <=> dbList[s].dbid = None
        <3>1. NoEntry.dbid = None
            BY DEF NoEntry, Entry
        <3> QED
            BY <3>1 DEF EmptyEntry
    <2> QED
        BY <1>4, <2>1, <2>2
<1> QED
    BY <1>1, <1>2, <1>3, <1>4

LEMMA MailboxReads == ASSUME Inv, Mailbox, Steady, SeenGrows, CoreReads PROVE Mailbox'
BY MailboxKept, MailboxTail DEF CoreReads

\* The end of on_AM_PLAYERLOGOUT.
LEMMA LogoutRenewed ==
    ASSUME Inv, CoreInv, NEW s \in Slot, NEW d \in Account, LogoutOK(s, d)
    PROVE  Renewed
<1>1. dbList \in Entries /\ None \notin Account
    BY Parts, SessionAssumption DEF Inv, CoreOK
<1>2. CASE dbList[s].dbid = d
    <2>1. dbList' = [dbList EXCEPT ![s].online = FALSE] /\ dbList[s].dbid # None
        BY <1>1, <1>2 DEF LogoutOK
    <2>2. dbList[s] \in [dbid : Account \cup {None, 0}, online : BOOLEAN]
        BY <1>1 DEF Entries
    <2>3. dbList'[s] = [dbList[s] EXCEPT !.online = FALSE] /\ \A t \in Slot : t # s => dbList'[t] = dbList[t]
        BY <1>1, <2>1 DEF Entries
    <2>4. dbList'[s].dbid = dbList[s].dbid
        BY <2>2, <2>3
    <2> QED
        BY <2>1, <2>3, <2>4 DEF Renewed
<1>3. CASE dbList[s].dbid # d
    BY <1>3 DEF LogoutOK, Renewed
<1> QED
    BY <1>2, <1>3

\* A step of the core that changes no account of an entry and starts no wait.
LEMMA CoreRenews ==
    ASSUME Inv, CoreInv, Steady, SameAccts, SeenGrows, CoreReads, Renewed, \A s \in Slot : Spared(s),
           UNCHANGED <<onlines, mapLoaded>>
    PROVE  CoreInv'
<1>1. Mailbox' /\ EntryInv'
    BY MailboxReads, EntryRenewed DEF CoreInv
<1>2. WaitInv'
    BY RenewedKeeps, WaitKept DEF CoreInv
<1> QED
    BY <1>1, <1>2 DEF CoreInv

LEMMA CoreBadChannel ==
    ASSUME Inv, CoreInv, BadChannel, coreQ # <<>>, coreQ' = Tail(coreQ), Steady, SameAccts
    PROVE  CoreInv'
<1> DEFINE s == Core.chan
<1>1. /\ UNCHANGED <<seen, onlines, mapLoaded>> /\ SeenGrows /\ CoreReads
      /\ Core.type = "BADCHANNEL" /\ dbList' = [dbList EXCEPT ![s] = NoEntry]
    BY DEF BadChannel, SeenGrows, CoreReads
<1>2. Core = coreQ[1] /\ Core \in CoreMsg /\ 1 \in DOMAIN coreQ /\ s \in Slot
    BY TailQueue, CoreMsgs
<1>3. Bad(1, s) /\ \A t : t # s => Spared(t)
    BY <1>1, <1>2 DEF Bad, Spared
<1>4. Closing(s)
    BY <1>2, <1>3 DEF Closing, Bad
<1>5. dbList'[s] = NoEntry /\ \A t \in Slot : t # s => dbList'[t] = dbList[t]
    <2>1. dbList \in Entries
        BY Parts DEF Inv, CoreOK
    <2> QED
        BY <1>1, <1>2, <2>1 DEF Entries
<1>6. NoEntry.dbid = None /\ None \notin Account /\ None # 0
    BY SessionAssumption DEF NoEntry, Entry
<1>7. \E b \in Slot : /\ Closing(b) /\ dbList'[b] = NoEntry
                      /\ \A t \in Slot : t # b => dbList'[t] = dbList[t] /\ Spared(t)
    BY <1>2, <1>3, <1>4, <1>5
<1>8. PICK b \in Slot : /\ Closing(b) /\ dbList'[b] = NoEntry
                        /\ \A t \in Slot : t # b => dbList'[t] = dbList[t] /\ Spared(t)
    BY <1>7
<1> HIDE DEF s
<1>9. EmptyEntry' /\ NoZero'
    BY <1>1, <1>6, <1>8 DEF CoreInv, EntryInv, EmptyEntry, NoZero, Stale
<1>10. OneEntry'
    BY <1>6, <1>8 DEF CoreInv, EntryInv, OneEntry
<1>11. EntryOwned'
    <2> SUFFICES ASSUME Stale' = FALSE, NEW t \in Slot, dbList'[t].dbid # None
                 PROVE  \E c \in DOMAIN conn' : Owned(t, c)'
        BY DEF EntryOwned, Stale
    <2>1. t # b /\ dbList'[t] = dbList[t] /\ Spared(t) /\ Stale = FALSE
        BY <1>1, <1>6, <1>8 DEF Stale
    <2>2. PICK c \in DOMAIN conn : Owned(t, c)
        BY <2>1 DEF CoreInv, EntryInv, EntryOwned
    <2>3. conn'[c].acct = dbList'[t].dbid
        BY <2>1, <2>2 DEF Owned, SameAccts
    <2>4. Owned(t, c)'
        BY <1>1, <2>1, <2>2, <2>3, OwnedReads
    <2> QED
        BY <2>4, ConnsStay
<1>12. LoggedIn'
    <2> SUFFICES ASSUME NEW c \in DOMAIN conn', NEW t, t = conn'[c].chan, Open(c)', conn'[c].acct # None
                 PROVE  dbList'[t].dbid = conn'[c].acct /\ ~Closing(t)'
        BY DEF LoggedIn, Closing
    <2>1. c \in DOMAIN conn /\ conn[c].chan = t /\ conn[c].acct = conn'[c].acct /\ Open(c) /\ t \in Slot
        BY ConnsStay DEF SameAccts
    <2>2. dbList[t].dbid = conn[c].acct /\ ~Closing(t)
        BY <2>1 DEF CoreInv, EntryInv, LoggedIn
    <2>3. t # b
        BY <1>8, <2>2
    <2> QED
        BY <1>1, <1>8, <2>1, <2>2, <2>3, ReadsClosing
<1>13. Mailbox'
    BY <1>1, MailboxReads DEF CoreInv
<1>14. WaitInv'
    BY <1>1, <1>8, WaitKept DEF CoreInv
<1> QED
    BY <1>9, <1>10, <1>11, <1>12, <1>13, <1>14 DEF CoreInv, EntryInv

\* net_CM_ONLINE: the map is there, or the coroutine waits for it.
LEMMA CoreOnline ==
    ASSUME Inv, CoreInv, Online, coreQ # <<>>, coreQ' = Tail(coreQ), Steady, SameAccts,
           NEW s, NEW o, s = Core.chan, o = [chan |-> s, uid |-> dbList[s].dbid, conn |-> Core.conn]
    PROVE  CoreInv'
<1>1. Core = coreQ[1] /\ Core \in CoreMsg /\ 1 \in DOMAIN coreQ /\ Core.type = "ONLINE"
    BY TailQueue DEF Online
<1>2. s \in Slot /\ Core.conn \in Conn
    BY <1>1, CoreMsgs
<1>3. Packet(1) /\ Core.conn \in DOMAIN conn /\ conn[Core.conn].chan = s /\ \A t : Spared(t)
    BY <1>1 DEF Packet, Bad, Spared, CoreInv, Mailbox, PacketSlot
<1>4. CoreReads /\ SeenGrows /\ mapLoaded' = mapLoaded
    BY DEF CoreReads, Online, SeenGrows
<1>5. CASE UNCHANGED <<dbList, onlines>>
    <2>1. Renewed
        BY <1>5 DEF Renewed
    <2> QED
        BY <1>3, <1>4, <1>5, <2>1, CoreRenews
<1>6. ASSUME dbList[s].dbid \in Account, UNCHANGED onlines, NEW placed, dbList' = Added(<<o>>, placed).dbList
      PROVE  CoreInv'
    <2>1. o \in Waiting /\ o.chan = s
        BY <1>2, <1>6 DEF Waiting
    <2>2. <<o>> \in Seq(Waiting) /\ DOMAIN <<o>> = {1} /\ <<o>>[1] = o
        BY <2>1
    <2>3. \A i \in DOMAIN <<o>> : dbList[<<o>>[i].chan].dbid # None \/ Stale'
        BY <1>6, <2>1, <2>2, SessionAssumption
    <2>4. Renewed
        BY <1>6, <2>2, <2>3, AddedRenewed DEF CoreInv, EntryInv
    <2> QED
        BY <1>3, <1>4, <1>6, <2>4, CoreRenews
<1>7. CASE /\ dbList[s].dbid \in Account /\ mapLoaded = FALSE /\ UNCHANGED dbList
           /\ onlines' = Append(onlines, o)
           /\ \/ \A i \in DOMAIN onlines : onlines[i].uid # o.uid
              \/ "overlap" \in seen'
    <2>1. o \in Waiting /\ o.chan = s /\ o.uid = dbList[s].dbid /\ o.conn = Core.conn
        BY <1>2, <1>7 DEF Waiting
    <2>2. Renewed
        BY <1>7 DEF Renewed
    <2>3. Mailbox' /\ EntryInv'
        BY <1>3, <1>4, <2>2, MailboxReads, EntryRenewed DEF CoreInv
    <2> DEFINE n == Len(onlines) + 1
    <2>4. /\ DOMAIN onlines' = DOMAIN onlines \cup {n} /\ n \notin DOMAIN onlines
          /\ onlines'[n] = o /\ \A i \in DOMAIN onlines : onlines'[i] = onlines[i]
        <3>1. onlines \in Seq(Waiting)
            BY Parts DEF Inv, CoreOK
        <3> QED
            BY <1>7, <2>1, <3>1
    <2> HIDE DEF n
    <2>5. WaitingSlot'
        <3> SUFFICES ASSUME NEW i \in DOMAIN onlines', NEW c, NEW t, c = onlines'[i].conn, t = onlines'[i].chan
                     PROVE  /\ c \in DOMAIN conn' /\ conn'[c].chan = t
                            /\ Open(c)' => dbList'[t].dbid = onlines'[i].uid /\ ~Closing(t)'
            BY DEF WaitingSlot, Open, Closing
        <3>1. CASE i \in DOMAIN onlines
            <4>1. c = onlines[i].conn /\ t = onlines[i].chan
                BY <2>4, <3>1
            <4>2. /\ c \in DOMAIN conn' /\ conn'[c].chan = t
                  /\ Open(c)' => dbList'[t].dbid = onlines[i].uid /\ ~Closing(t)'
                BY <1>4, <1>7, <3>1, <4>1, WaitRenewed DEF CoreInv, WaitInv
            <4> QED
                BY <2>4, <3>1, <4>2
        <3>2. CASE i = n
            <4>1. c = Core.conn /\ t = s
                BY <2>1, <2>4, <3>2
            <4>2. c \in DOMAIN conn' /\ conn'[c].chan = t /\ (Open(c)' => Open(c))
                BY <1>3, <4>1, ConnsStay
            <4>3. ASSUME Open(c) PROVE ~Closing(t)'
                <5>1. \A j \in DOMAIN coreQ : 1 < j => ~Bad(j, s)
                    BY <1>1, <1>3, <4>1, <4>3 DEF CoreInv, Mailbox, OpenPacket
                <5>2. ~Closing(s)
                    BY <1>1, <5>1, TailQueue DEF Closing, Bad
                <5> QED
                    BY <1>4, <4>1, <5>2, ReadsClosing
            <4> QED
                BY <1>7, <2>1, <2>4, <3>2, <4>1, <4>2, <4>3
        <3> QED
            BY <2>4, <3>1, <3>2
    <2>6. Twice'
        BY <1>4, <1>7, <2>4 DEF CoreInv, WaitInv, Twice, SeenGrows
    <2>7. NoWait'
        BY <1>4, <1>7 DEF NoWait
    <2> QED
        BY <2>3, <2>5, <2>6, <2>7 DEF CoreInv, WaitInv
<1>8. mapLoaded \in BOOLEAN
    BY Parts DEF Inv, CoreOK
<1> QED
    BY <1>5, <1>6, <1>7, <1>8 DEF Online

LEMMA CoreMapLoaded == ASSUME Inv, CoreInv, MapLoaded PROVE CoreInv'
<1> DEFINE os == Append(Tail(onlines), Head(onlines))
<1>1. /\ UNCHANGED <<netVars, coreQ>> /\ SeenGrows /\ CoreReads /\ \A s : Spared(s)
      /\ onlines # <<>> /\ onlines' = <<>>
      /\ (\E i \in DOMAIN onlines : ~Open(onlines[i].conn)) => Stale'
    BY DEF MapLoaded, SeenGrows, CoreReads, Spared, Stale
<1>2. Steady /\ SameAccts
    BY <1>1, UntouchedKept, KeptSteady DEF netVars
<1>3. os \in Seq(Waiting) /\ \A i \in DOMAIN os : \E g \in DOMAIN onlines : os[i] = onlines[g]
    BY <1>1, Rotated
<1> HIDE DEF os
<1>4. \A i \in DOMAIN os : dbList[os[i].chan].dbid # None \/ Stale'
    <2> SUFFICES ASSUME NEW i \in DOMAIN os, ~Stale' PROVE dbList[os[i].chan].dbid # None
        OBVIOUS
    <2>1. PICK g \in DOMAIN onlines : os[i] = onlines[g]
        BY <1>3
    <2>2. Open(onlines[g].conn)
        BY <1>1
    <2>3. dbList[os[i].chan].dbid = os[i].uid
        BY <2>1, <2>2 DEF CoreInv, WaitInv, WaitingSlot
    <2>4. os[i].uid \in Account
        <3>1. os[i] \in Waiting
            BY <1>3
        <3> QED
            BY <3>1 DEF Waiting
    <2> QED
        BY <2>3, <2>4, SessionAssumption
<1>8. PICK placed : dbList' = Added(os, placed).dbList
    BY DEF MapLoaded, os
<1>5. Renewed
    BY <1>1, <1>3, <1>4, <1>8, AddedRenewed DEF CoreInv, EntryInv
<1>6. Mailbox' /\ EntryInv'
    BY <1>1, <1>2, <1>5, MailboxReads, EntryRenewed DEF CoreInv
<1>7. WaitInv'
    BY <1>1 DEF WaitInv, WaitingSlot, Twice, NoWait
<1> QED
    BY <1>6, <1>7 DEF CoreInv

LEMMA CorePoll == ASSUME Inv, CoreInv, NEW i \in DOMAIN polls, Poll(i) PROVE CoreInv'
<1>1. /\ UNCHANGED <<slot, freeQ, raced, coreQ, onlines, mapLoaded, seen>>
      /\ SeenGrows /\ CoreReads /\ \A s : Spared(s)
      /\ LogoutOK(polls[i].chan, polls[i].uid)
    BY DEF Poll, SeenGrows, CoreReads, Spared
<1>2. Steady /\ SameAccts
    BY <1>1, LogoutKept, KeptSteady
<1>3. polls[i].chan \in Slot /\ polls[i].uid \in Account
    <2>1. polls \in Seq(Asked)
        BY Parts DEF Inv, CoreOK
    <2>2. polls[i] \in Asked
        BY <2>1
    <2> QED
        BY <2>2 DEF Asked
<1>4. Renewed
    BY <1>1, <1>3, LogoutRenewed
<1> QED
    BY <1>1, <1>2, <1>4, CoreRenews

LEMMA CoreMessage == ASSUME Inv, CoreInv, CoreStep PROVE CoreInv'
<1>1. coreQ # <<>> /\ coreQ' = Tail(coreQ) /\ UNCHANGED <<slot, freeQ, raced>> /\ CoreReads
    BY DEF CoreStep, CoreReads
<1>2. Core = coreQ[1] /\ Core \in CoreMsg
    BY <1>1, TailQueue
<1>3. CASE Login
    <2>1. EntryInv' /\ WaitInv'
        BY <1>1, <1>3, EntryLogin
    <2>2. Steady /\ SeenGrows
        BY <1>1, <1>3, LoginKept, KeptSteady DEF Login, SeenGrows
    <2> QED
        BY <1>1, <2>1, <2>2, MailboxReads DEF CoreInv
<1>4. ASSUME Login = FALSE PROVE Steady /\ SameAccts
    BY <1>4, CoreKept, KeptSteady
<1>5. ASSUME Online, Login = FALSE PROVE CoreInv'
    BY <1>1, <1>4, <1>5, CoreOnline
<1>6. ASSUME BadChannel, Login = FALSE PROVE CoreInv'
    BY <1>1, <1>4, <1>6, CoreBadChannel
<1>7. ASSUME Gameplay \/ PlayerLogout, Login = FALSE PROVE CoreInv'
    <2>1. UNCHANGED <<onlines, mapLoaded, seen>> /\ SeenGrows /\ \A s : Spared(s)
        BY <1>2, <1>7 DEF Gameplay, PlayerLogout, SeenGrows, Spared, Bad
    <2>2. Renewed
        <3>1. CASE dbList' = dbList
            BY <3>1 DEF Renewed
        <3>2. CASE Core.type = "PLAYERLOGOUT" /\ LogoutOK(Core.chan, Core.uid)
            <4>1. Core.chan \in Slot /\ Core.uid \in Account
                BY <1>2, <3>2, CoreMsgs
            <4> QED
                BY <3>2, <4>1, LogoutRenewed
        <3> QED
            BY <1>7, <3>1, <3>2 DEF Gameplay, PlayerLogout
    <2> QED
        BY <1>1, <1>4, <1>7, <2>1, <2>2, CoreRenews
<1>8. Login \in BOOLEAN
    BY DEF Login
<1> QED
    BY <1>3, <1>5, <1>6, <1>7, <1>8 DEF CoreStep

LEMMA CorePlayer == ASSUME Inv, CoreInv, NEW d \in Account, PlayerStep(d) PROVE CoreInv'
<1>1. Steady /\ SameAccts
    BY PlayerKept, KeptSteady
<1>2. SeenGrows /\ Outside
    BY DEF PlayerStep, BindChannel, LostChannel, RequestLogout, OtherPacket, Ignore, OnlineOK,
           Deactivate, Erase, coreVars, SeenGrows, Outside
<1>3. CASE UNCHANGED coreQ
    BY <1>1, <1>2, <1>3, CoreQuiet
<1>4. CASE Deactivate(d) /\ player[d].soft # None
    <2> DEFINE m == [type |-> "PLAYERLOGOUT", chan |-> player[d].soft, uid |-> d]
    <2>1. player[d].soft \in Slot
        <3>1. player[d] \in PlayerState
            BY Parts DEF Inv, PlayerOK, Players
        <3> QED
            BY <1>4, <3>1 DEF PlayerState
    <2>2. m \in CoreMsg /\ m.type = "PLAYERLOGOUT"
        BY <2>1 DEF CoreMsg
    <2>3. coreQ' = Append(coreQ, m)
        BY <1>4 DEF Deactivate
    <2> HIDE DEF m
    <2> QED
        BY <1>1, <1>2, <2>2, <2>3, CorePosted
<1>5. UNCHANGED coreQ \/ (Deactivate(d) /\ player[d].soft # None)
    BY DEF PlayerStep, BindChannel, LostChannel, RequestLogout, OtherPacket, Ignore, OnlineOK,
           Deactivate, Erase, coreVars
<1> QED
    BY <1>3, <1>4, <1>5

LEMMA CoreSocket ==
    ASSUME Inv, CoreInv, NEW k \in DOMAIN conn, NEW l \in Loops, Break(k, l) \/ Abort(k, l)
    PROVE  CoreInv'
<1>1. PICK cs : CloseOf(k, cs)
    BY SocketCloses
<1>2. SameConns(cs) /\ DoClose(conn[k].chan, cs, player) /\ \A c \in DOMAIN conn : cs[c].acct = conn[c].acct
    BY <1>1 DEF CloseOf
<1>3. conn[k].chan \in Slot /\ player \in Players
    <2>1. conn \in Seq(ConnState) /\ player \in Players
        BY Parts DEF Inv, NetOK, PlayerOK
    <2>2. conn[k] \in ConnState
        BY <2>1
    <2> QED
        BY <2>1, <2>2 DEF ConnState
<1>4. SameConns(conn')
    BY <1>2, <1>3, CloseStep
<1>5. Outside /\ UNCHANGED seen
    BY DEF Break, Abort, Outside
<1> QED
    BY <1>2, <1>3, <1>4, <1>5, CoreCloses

LEMMA CoreRun == ASSUME Inv, CoreInv, RunPosted PROVE CoreInv'
<1>1. CASE Head(netQ).op = "close"
    <2>1. Outside /\ UNCHANGED seen
        BY <1>1, PostedCloses DEF Outside
    <2> QED
        BY <1>1, <2>1, PostedCloses, CoreCloses
<1>2. CASE Head(netQ).op # "close"
    <2>1. Steady /\ SameAccts
        BY <1>2, PostedKept, KeptSteady
    <2>2. SeenGrows /\ Outside /\ UNCHANGED coreQ
        BY <1>2 DEF RunPosted, RunBind, RunUnbind, SeenGrows, Outside
    <2> QED
        BY <2>1, <2>2, CoreQuiet
<1> QED
    BY <1>1, <1>2

LEMMA CoreStays == ASSUME Inv, CoreInv, [Next]_vars PROVE CoreInv'
<1>1. CASE UNCHANGED vars
    <2>1. Steady /\ SameAccts /\ SeenGrows /\ Outside /\ UNCHANGED coreQ
        BY <1>1, UntouchedKept, KeptSteady DEF vars, netVars, coreVars, SeenGrows, Outside
    <2> QED
        BY <2>1, CoreQuiet
<1>2. CASE Channels
    BY <1>2, CoreReader, CoreSocket DEF Channels
<1>3. CASE CoreActor
    BY <1>3, CoreMessage, CoreMapLoaded, CorePoll DEF CoreActor
<1> QED
    BY <1>1, <1>2, <1>3, CoreAccept, CoreRun, CorePlayer DEF Next

LEMMA CoreInit == Init => CoreInv
<1> SUFFICES ASSUME Init PROVE CoreInv
    OBVIOUS
<1>1. Mailbox
    BY DEF Init, Mailbox, PacketSlot, OpenPacket, ClosedPacket, OneConn
<1>2. WaitInv
    BY DEF Init, WaitInv, WaitingSlot, Twice, NoWait
<1>3. \A s \in Slot : dbList[s] = NoEntry
    BY DEF Init
<1>4. NoEntry.dbid = None /\ None \notin Account /\ None # 0
    BY SessionAssumption DEF NoEntry, Entry
<1>5. EmptyEntry /\ OneEntry /\ NoZero /\ EntryOwned
    BY <1>3, <1>4 DEF EmptyEntry, OneEntry, NoZero, EntryOwned
<1>6. LoggedIn
    BY DEF Init, LoggedIn
<1> QED
    BY <1>1, <1>2, <1>5, <1>6 DEF CoreInv, EntryInv

LEMMA CoreInvariance == Spec => [](Inv /\ CoreInv)
<1>1. Init => Inv /\ CoreInv
    BY InitInv, CoreInit
<1>2. Inv /\ CoreInv /\ [Next]_vars => (Inv /\ CoreInv)'
    BY CoreStays, NextStep, StutterStep
<1> QED
    BY <1>1, <1>2, PTL DEF Spec

\* An entry of m_dbidList is of the connection in that slot, or the core has the
\* BADCHANNEL still to read, unless a packet or the map came after the BADCHANNEL
\* of its connection (servicecorenet.cpp:33-98, servicecoreop.cpp, channel.cpp).
THEOREM EntriesFollowChannels == Spec => []EntryFollowsChannel
<1>1. ASSUME Inv, CoreInv PROVE EntryFollowsChannel
    <2> SUFFICES ASSUME NEW s \in Slot, dbList[s] # NoEntry, ~Closing(s), ~Stale
                 PROVE  slot[s] # None /\ conn[slot[s]].acct = dbList[s].dbid
        BY DEF EntryFollowsChannel, Stale
    <2>1. dbList[s].dbid # None
        BY <1>1 DEF CoreInv, EntryInv, EmptyEntry
    <2>2. PICK c \in DOMAIN conn : Owned(s, c)
        BY <1>1, <2>1 DEF CoreInv, EntryInv, EntryOwned
    <2>3. c # None
        <3>1. conn \in Seq(ConnState)
            BY <1>1, Parts DEF Inv, NetOK
        <3> QED
            BY <3>1, SessionAssumption
    <2> QED
        BY <2>2, <2>3 DEF Owned
<1> QED
    BY <1>1, CoreInvariance, PTL

----------------------------------------------------------------------------
(* The players, as long as no assertion has failed.                         *)

\* The mailbox of a player that has not bound its channel yet, and of another.
Fresh(q, s) ==
    /\ q # <<>> /\ q[1].chan = s
    /\ \A i \in DOMAIN q : (q[i].type = "BINDCHANNEL" <=> i = 1) /\ q[i].type # "BADCHANNEL"
Calm(q, s) == \A i \in DOMAIN q : q[i].type # "BINDCHANNEL" /\ (q[i].type = "BADCHANNEL" => q[i].chan = s)
Has(q, type) == \E i \in DOMAIN q : q[i].type = type

\* What a player p made for a connection in slot s looks like.
Shape(p, s) ==
    /\ p.state = "live" => p.soft = None
    /\ p.state = "live" /\ p.chan = None => p.wait = "no" /\ Fresh(p.inbox, s)
    /\ p.state = "live" /\ p.chan # None => p.wait \in {"no", "bind", "bound"} /\ p.chan = s
    /\ p.state = "live" /\ p.chan # None => Calm(p.inbox, s)
    /\ p.state = "offline" => p.chan = 0 /\ p.wait \in {"no", "unbind", "close"} /\ Calm(p.inbox, s)
    /\ p.state = "offline" => (p.wait = "unbind" => p.soft # None) /\ (p.soft # None => p.soft = s)
    /\ p.state = "detached" => p.wait = "no"
Own(d) == IF player[d].state = "none" THEN player[d] = NoPlayer
          ELSE player[d].for \in DOMAIN conn /\ Shape(player[d], conn[player[d].for].chan)
OwnInv == \A d \in Account : Own(d)

\* The closures of the net thread: one of a player at most, and it waits for it.
Posted ==
    /\ \A i \in DOMAIN netQ : /\ player[netQ[i].uid].wait = netQ[i].op
                              /\ netQ[i].chan = conn[player[netQ[i].uid].for].chan
    /\ \A i, j \in DOMAIN netQ : netQ[i].uid = netQ[j].uid => i = j

(* A Channel has a player only while the socket is open, and one that was   *)
(* made for a connection in that slot and is still to let it go; a player   *)
(* that has bound its channel finds itself there as long as its connection  *)
(* is open.                                                                 *)
InPlay(p) == p.state = "live" /\ p.chan # None /\ p.wait # "bind"
Held(p) == InPlay(p) \/ (p.state = "offline" /\ p.wait \in {"unbind", "close"})
Holds(p) == InPlay(p) \/ (p.state = "offline" /\ p.wait = "unbind")
Bound == \A k \in DOMAIN conn : conn[k].uid # None =>
    /\ Open(k) /\ Held(player[conn[k].uid])
    /\ conn[player[conn[k].uid].for].chan = conn[k].chan
Binds == \A d \in Account : Holds(player[d]) /\ Open(player[d].for) => conn[player[d].for].uid = d
BoundFor == "lateBind" \in seen \/ \A k \in DOMAIN conn : conn[k].uid # None => player[conn[k].uid].for = k
Heard == "lateBind" \in seen \/ \A d \in Account : InPlay(player[d]) =>
    (\E k \in DOMAIN conn : conn[k].uid = d) \/ Has(player[d].inbox, "BADCHANNEL")
MapFirst == mapLoaded = FALSE => \A d \in Account : player[d].state = "none"
LinksInv == Bound /\ Binds /\ BoundFor
PlayerInv == OwnInv /\ Posted /\ LinksInv /\ Heard /\ MapFirst

LEMMA PlayerTypes ==
    ASSUME Inv
    PROVE  /\ None \notin Account /\ None \notin Nat /\ 0 \notin Slot /\ None \notin Slot
           /\ \A d \in Account : player[d] \in PlayerState /\ player[d].inbox \in Seq(PlayerMsg)
           /\ \A k \in DOMAIN conn : /\ k \in Nat /\ conn[k] \in ConnState /\ conn[k].chan \in Slot
                                     /\ conn[k].uid \in Account \cup {None}
           /\ \A i \in DOMAIN netQ : netQ[i] \in Closure /\ netQ[i].uid \in Account
<1>1. player \in Players /\ conn \in Seq(ConnState) /\ netQ \in Seq(Closure)
    BY Parts DEF Inv, PlayerOK, NetOK
<1>2. ASSUME NEW d \in Account PROVE player[d] \in PlayerState /\ player[d].inbox \in Seq(PlayerMsg)
    <2>1. player[d] \in PlayerState
        BY <1>1 DEF Players
    <2> QED
        BY <2>1 DEF PlayerState
<1>3. ASSUME NEW k \in DOMAIN conn
      PROVE  k \in Nat /\ conn[k] \in ConnState /\ conn[k].chan \in Slot /\ conn[k].uid \in Account \cup {None}
    <2>1. k \in Nat /\ conn[k] \in ConnState
        BY <1>1
    <2> QED
        BY <2>1 DEF ConnState
<1>4. ASSUME NEW i \in DOMAIN netQ PROVE netQ[i] \in Closure /\ netQ[i].uid \in Account
    <2>1. netQ[i] \in Closure
        BY <1>1
    <2> QED
        BY <2>1 DEF Closure
<1> QED
    BY <1>2, <1>3, <1>4, NumbersAreNat, SessionAssumption

LEMMA CalmTail ==
    ASSUME NEW q \in Seq(PlayerMsg), q # <<>>, NEW s
    PROVE  /\ Calm(q, s) => Calm(Tail(q), s) /\ Head(q).type # "BINDCHANNEL"
           /\ Calm(q, s) /\ Head(q).type = "BADCHANNEL" => Head(q).chan = s
           /\ Fresh(q, s) => Calm(Tail(q), s) /\ ~Has(Tail(q), "BADCHANNEL")
           /\ Fresh(q, s) => Head(q).type = "BINDCHANNEL" /\ Head(q).chan = s
           /\ Head(q).type = "BADCHANNEL" => Has(q, "BADCHANNEL")
           /\ Has(Tail(q), "BADCHANNEL") => Has(q, "BADCHANNEL")
           /\ Has(q, "BADCHANNEL") /\ Head(q).type # "BADCHANNEL" => Has(Tail(q), "BADCHANNEL")
<1> DEFINE t == Tail(q)
<1>1. /\ Head(q) = q[1] /\ 1 \in DOMAIN q /\ DOMAIN q \subseteq Nat
      /\ \A i \in DOMAIN t : i \in Nat \ {0} /\ i + 1 \in DOMAIN q /\ t[i] = q[i + 1]
      /\ \A j \in DOMAIN q : j # 1 => j - 1 \in DOMAIN t /\ t[j - 1] = q[j]
    OBVIOUS
<1> HIDE DEF t
<1>2. /\ Calm(q, s) => Calm(t, s)
      /\ Fresh(q, s) => Calm(t, s) /\ ~Has(t, "BADCHANNEL")
      /\ Has(t, "BADCHANNEL") => Has(q, "BADCHANNEL")
    BY <1>1 DEF Calm, Fresh, Has
<1>3. Has(q, "BADCHANNEL") /\ Head(q).type # "BADCHANNEL" => Has(t, "BADCHANNEL")
    <2> SUFFICES ASSUME NEW j \in DOMAIN q, q[j].type = "BADCHANNEL", j # 1 PROVE Has(t, "BADCHANNEL")
        BY <1>1 DEF Has
    <2> QED
        BY <1>1 DEF Has
<1>4. /\ Calm(q, s) => Head(q).type # "BINDCHANNEL"
      /\ Calm(q, s) /\ Head(q).type = "BADCHANNEL" => Head(q).chan = s
      /\ Fresh(q, s) => Head(q).type = "BINDCHANNEL" /\ Head(q).chan = s
      /\ Head(q).type = "BADCHANNEL" => Has(q, "BADCHANNEL")
    BY <1>1 DEF Calm, Fresh, Has
<1> QED
    BY <1>2, <1>3, <1>4 DEF t

LEMMA CalmAppend ==
    ASSUME NEW q \in Seq(PlayerMsg), NEW m \in PlayerMsg, m.type # "BINDCHANNEL", NEW s
    PROVE  /\ Calm(q, s) /\ (m.type = "BADCHANNEL" => m.chan = s) => Calm(Append(q, m), s)
           /\ Fresh(q, s) /\ m.type # "BADCHANNEL" => Fresh(Append(q, m), s)
           /\ Has(Append(q, m), "BADCHANNEL") <=> Has(q, "BADCHANNEL") \/ m.type = "BADCHANNEL"
<1> DEFINE a == Append(q, m)
           n == Len(q) + 1
<1>1. /\ DOMAIN a = DOMAIN q \cup {n} /\ n \notin DOMAIN q /\ a[n] = m
      /\ \A i \in DOMAIN q : a[i] = q[i]
      /\ q # <<>> => 1 \in DOMAIN q
      /\ a # <<>>
    OBVIOUS
<1> HIDE DEF a, n
<1>2. Calm(q, s) /\ (m.type = "BADCHANNEL" => m.chan = s) => Calm(a, s)
    BY <1>1 DEF Calm
<1>3. Fresh(q, s) /\ m.type # "BADCHANNEL" => Fresh(a, s)
    BY <1>1 DEF Fresh
<1>4. Has(a, "BADCHANNEL") <=> Has(q, "BADCHANNEL") \/ m.type = "BADCHANNEL"
    BY <1>1 DEF Has
<1> QED
    BY <1>2, <1>3, <1>4 DEF a

----------------------------------------------------------------------------
(* What the player actors do to themselves.                                 *)

\* The fields of the player d after the step; nothing happens to the others.
Turns(d, st, ch, w, so, q) ==
    /\ player'[d].state = st /\ player'[d].chan = ch /\ player'[d].wait = w /\ player'[d].soft = so
    /\ player'[d].inbox = q /\ player'[d].for = player[d].for
    /\ \A e \in Account : e # d => player'[e] = player[e]

LEMMA TakenFields ==
    ASSUME Inv, NEW d \in Account
    PROVE  /\ Taken(d).state = player[d].state /\ Taken(d).chan = player[d].chan
           /\ Taken(d).wait = player[d].wait /\ Taken(d).soft = player[d].soft
           /\ Taken(d).for = player[d].for /\ Taken(d).inbox = Tail(player[d].inbox)
           /\ DOMAIN Taken(d) = {"state", "chan", "wait", "soft", "for", "inbox"}
<1> DEFINE q == Tail(player[d].inbox)
           t == [player[d] EXCEPT !.inbox = q]
<1>1. Taken(d) = t
    BY DEF Taken
<1> HIDE DEF q
<1>2. player[d] \in PlayerState
    BY PlayerTypes
<1>3. /\ t.state = player[d].state /\ t.chan = player[d].chan /\ t.wait = player[d].wait
      /\ t.soft = player[d].soft /\ t.for = player[d].for /\ t.inbox = q
      /\ DOMAIN t = {"state", "chan", "wait", "soft", "for", "inbox"}
    BY <1>2 DEF PlayerState
<1> HIDE DEF t
<1> QED
    BY <1>1, <1>3 DEF q

LEMMA TakenTurns ==
    ASSUME Inv, NEW d \in Account, player' = [player EXCEPT ![d] = Taken(d)]
    PROVE  Turns(d, player[d].state, player[d].chan, player[d].wait, player[d].soft, Tail(player[d].inbox))
<1> DEFINE t == Taken(d)
<1>1. player'[d] = t /\ \A e \in Account : e # d => player'[e] = player[e]
    BY Parts DEF Inv, PlayerOK, Players
<1> HIDE DEF t
<1> QED
    BY <1>1, TakenFields DEF Turns, t

LEMMA BindTurns ==
    ASSUME Inv, NEW d \in Account, NEW s, player' = [player EXCEPT ![d] = [Taken(d) EXCEPT !.chan = s, !.wait = "bind"]]
    PROVE  Turns(d, player[d].state, s, "bind", player[d].soft, Tail(player[d].inbox))
<1> DEFINE t == Taken(d)
           r == [t EXCEPT !.chan = s, !.wait = "bind"]
<1>1. player'[d] = r /\ \A e \in Account : e # d => player'[e] = player[e]
    BY Parts DEF Inv, PlayerOK, Players
<1>2. /\ t.state = player[d].state /\ t.soft = player[d].soft /\ t.for = player[d].for
      /\ t.inbox = Tail(player[d].inbox) /\ DOMAIN t = {"state", "chan", "wait", "soft", "for", "inbox"}
    BY TakenFields
<1> HIDE DEF t
<1>3. r.state = t.state /\ r.chan = s /\ r.wait = "bind" /\ r.soft = t.soft /\ r.for = t.for /\ r.inbox = t.inbox
    BY <1>2
<1> HIDE DEF r
<1> QED
    BY <1>1, <1>2, <1>3 DEF Turns

LEMMA OfflineTurns ==
    ASSUME Inv, NEW d \in Account, NEW soft \in BOOLEAN, GoOffline(d, soft)
    PROVE  Turns(d, "offline", 0, IF soft THEN "unbind" ELSE "close", IF soft THEN player[d].chan ELSE None,
                 Tail(player[d].inbox))
<1> DEFINE t == Taken(d)
           w == IF soft THEN "unbind" ELSE "close"
           f == IF soft THEN player[d].chan ELSE None
           r == [t EXCEPT !.chan = 0, !.state = "offline", !.wait = w, !.soft = f]
<1>1. player'[d] = r /\ \A e \in Account : e # d => player'[e] = player[e]
    BY Parts DEF Inv, PlayerOK, Players, GoOffline
<1>2. /\ t.for = player[d].for
      /\ t.inbox = Tail(player[d].inbox) /\ DOMAIN t = {"state", "chan", "wait", "soft", "for", "inbox"}
    BY TakenFields
<1> HIDE DEF t, w, f
<1>3. r.state = "offline" /\ r.chan = 0 /\ r.wait = w /\ r.soft = f /\ r.for = t.for /\ r.inbox = t.inbox
    BY <1>2
<1> HIDE DEF r
<1> QED
    BY <1>1, <1>2, <1>3 DEF Turns, w, f

LEMMA WaitTurns ==
    ASSUME Inv, NEW d \in Account, NEW w, player' = [player EXCEPT ![d].wait = w]
    PROVE  Turns(d, player[d].state, player[d].chan, w, player[d].soft, player[d].inbox)
<1> DEFINE r == [player[d] EXCEPT !.wait = w]
<1>1. player'[d] = r /\ \A e \in Account : e # d => player'[e] = player[e]
    BY Parts DEF Inv, PlayerOK, Players
<1>2. player[d] \in PlayerState
    BY PlayerTypes
<1>3. /\ r.state = player[d].state /\ r.chan = player[d].chan /\ r.wait = w /\ r.soft = player[d].soft
      /\ r.for = player[d].for /\ r.inbox = player[d].inbox
    BY <1>2 DEF PlayerState
<1> HIDE DEF r
<1> QED
    BY <1>1, <1>3 DEF Turns

LEMMA DeactivateTurns ==
    ASSUME Inv, NEW d \in Account, Deactivate(d)
    PROVE  Turns(d, "detached", player[d].chan, player[d].wait, player[d].soft, <<>>)
<1> DEFINE r == [player[d] EXCEPT !.state = "detached", !.inbox = <<>>]
<1>1. player'[d] = r /\ \A e \in Account : e # d => player'[e] = player[e]
    BY Parts DEF Inv, PlayerOK, Players, Deactivate
<1>2. player[d] \in PlayerState
    BY PlayerTypes
<1>3. /\ r.state = "detached" /\ r.chan = player[d].chan /\ r.wait = player[d].wait /\ r.soft = player[d].soft
      /\ r.for = player[d].for /\ r.inbox = <<>>
    BY <1>2 DEF PlayerState
<1> HIDE DEF r
<1> QED
    BY <1>1, <1>3 DEF Turns

LEMMA DeliverFields ==
    ASSUME NEW pl \in Players, NEW d \in Account, NEW m \in PlayerMsg, NEW e \in Account
    PROVE  LET r == Deliver(pl, d, m)[e] IN
           /\ r.state = pl[e].state /\ r.chan = pl[e].chan /\ r.wait = pl[e].wait
           /\ r.soft = pl[e].soft /\ r.for = pl[e].for
           /\ \/ r = pl[e] /\ (e # d \/ pl[e].state \notin {"live", "offline"})
              \/ e = d /\ pl[d].state \in {"live", "offline"} /\ r.inbox = Append(pl[d].inbox, m)
<1> DEFINE q == Append(pl[d].inbox, m)
           r == Deliver(pl, d, m)[e]
<1>1. pl[e] \in PlayerState /\ pl[d] \in PlayerState
    BY DEF Players
<1> HIDE DEF q
<1>2. Deliver(pl, d, m) = IF pl[d].state \in {"live", "offline"} THEN [pl EXCEPT ![d].inbox = q] ELSE pl
    BY DEF Deliver, q
<1>3. CASE e = d /\ pl[d].state \in {"live", "offline"}
    <2>1. r = [pl[d] EXCEPT !.inbox = q]
        BY <1>2, <1>3 DEF Players
    <2> HIDE DEF r
    <2>2. /\ r.state = pl[d].state /\ r.chan = pl[d].chan /\ r.wait = pl[d].wait
          /\ r.soft = pl[d].soft /\ r.for = pl[d].for /\ r.inbox = q
        BY <1>1, <2>1 DEF PlayerState
    <2> QED
        BY <1>3, <2>2 DEF q, r
<1>4. CASE e # d \/ pl[d].state \notin {"live", "offline"}
    <2>1. r = pl[e]
        BY <1>2, <1>4 DEF Players
    <2> HIDE DEF r
    <2> QED
        BY <1>4, <2>1 DEF r
<1> QED
    BY <1>3, <1>4

LEMMA NewFields ==
    ASSUME NEW o
    PROVE  /\ AddPlayer(o).state = "live" /\ AddPlayer(o).chan = None /\ AddPlayer(o).wait = "no"
           /\ AddPlayer(o).soft = None /\ AddPlayer(o).for = o.conn
           /\ AddPlayer(o).inbox = <<[type |-> "BINDCHANNEL", chan |-> o.chan]>>
           /\ Fresh(AddPlayer(o).inbox, o.chan)
           /\ ~Has(AddPlayer(o).inbox, "BADCHANNEL")
<1> DEFINE q == <<[type |-> "BINDCHANNEL", chan |-> o.chan]>>
<1>1. Fresh(q, o.chan) /\ ~Has(q, "BADCHANNEL")
    BY DEF Fresh, Has
<1> HIDE DEF q
<1>2. AddPlayer(o) = [NoPlayer EXCEPT !.state = "live", !.for = o.conn, !.inbox = q]
    BY DEF AddPlayer, q
<1>3. /\ AddPlayer(o).state = "live" /\ AddPlayer(o).chan = None /\ AddPlayer(o).wait = "no"
      /\ AddPlayer(o).soft = None /\ AddPlayer(o).for = o.conn /\ AddPlayer(o).inbox = q
    BY <1>2 DEF NoPlayer
<1> QED
    BY <1>1, <1>3 DEF q

LEMMA NoneFields ==
    /\ NoPlayer.state = "none" /\ NoPlayer.chan = None /\ NoPlayer.wait = "no"
    /\ NoPlayer.soft = None /\ NoPlayer.for = None /\ NoPlayer.inbox = <<>>
BY DEF NoPlayer

----------------------------------------------------------------------------
(* How the links between players and channels last.                         *)

\* The connections as the players see them; a new one has no player.
Framed ==
    /\ \A k \in DOMAIN conn : /\ k \in DOMAIN conn' /\ conn'[k].chan = conn[k].chan
                              /\ conn'[k].uid = conn[k].uid /\ (Open(k)' <=> Open(k))
    /\ \A k \in DOMAIN conn' : k \notin DOMAIN conn => conn'[k].uid = None
SameSlots == \A k \in DOMAIN conn : k \in DOMAIN conn' /\ conn'[k].chan = conn[k].chan

LEMMA FramedSteady == ASSUME Inv, Steady, SameBinds PROVE Framed
BY ConnsStay DEF Framed, SameBinds

LEMMA FramedAccept == ASSUME Inv, Accept PROVE Framed
<1>1. \A k \in DOMAIN conn : k \in DOMAIN conn' /\ conn'[k] = conn[k] /\ (Open(k)' <=> Open(k))
    BY AcceptOpen
<1>2. conn' = Append(conn, NewConn(Head(freeQ))) /\ conn \in Seq(ConnState)
    BY Parts DEF Accept, Inv, NetOK
<1>3. \A k \in DOMAIN conn' : k \notin DOMAIN conn => conn'[k] = NewConn(Head(freeQ))
    <2> DEFINE e == NewConn(Head(freeQ))
    <2> HIDE DEF e
    <2>1. \A k \in DOMAIN conn' : k \notin DOMAIN conn => conn'[k] = e
        BY <1>2 DEF e
    <2> QED
        BY <2>1 DEF e
<1> QED
    BY <1>1, <1>3 DEF Framed, NewConn

\* A player that is there was made for a connection.
LEMMA ForConn ==
    ASSUME OwnInv, NEW d \in Account, player[d].state # "none"
    PROVE  player[d].for \in DOMAIN conn /\ Shape(player[d], conn[player[d].for].chan)
BY DEF OwnInv, Own

LEMMA WaitsFor ==
    ASSUME OwnInv, NEW d \in Account, player[d].wait # "no"
    PROVE  player[d].for \in DOMAIN conn /\ Shape(player[d], conn[player[d].for].chan)
BY NoneFields DEF OwnInv, Own, Shape

LEMMA OwnOther ==
    ASSUME NEW e \in Account, Own(e), player'[e] = player[e], SameSlots
    PROVE  Own(e)'
BY DEF Own, Shape, SameSlots

LEMMA LinksKept ==
    ASSUME Inv, OwnInv, LinksInv, Framed, SeenGrows,
           \A d \in Account : /\ Held(player[d]) => Held(player'[d]) /\ player'[d].for = player[d].for
                              /\ Holds(player'[d]) => Holds(player[d]) /\ player'[d].for = player[d].for
    PROVE  LinksInv'
<1>1. ASSUME NEW k \in DOMAIN conn', NEW d, d = conn'[k].uid, d # None
      PROVE  /\ k \in DOMAIN conn /\ d = conn[k].uid /\ d \in Account /\ Held(player[d]) /\ Open(k)
             /\ player'[d].for = player[d].for /\ Held(player'[d])
             /\ player[d].for \in DOMAIN conn /\ conn[player[d].for].chan = conn[k].chan
    <2>1. k \in DOMAIN conn /\ d = conn[k].uid
        BY <1>1 DEF Framed
    <2>2. d \in Account
        BY <1>1, <2>1, PlayerTypes
    <2>3. Held(player[d]) /\ Open(k) /\ conn[player[d].for].chan = conn[k].chan
        BY <1>1, <2>1 DEF LinksInv, Bound
    <2>4. player[d].for \in DOMAIN conn
        BY <2>2, <2>3, ForConn DEF Held, InPlay
    <2> QED
        BY <2>1, <2>2, <2>3, <2>4
<1>2. Bound'
    <2> SUFFICES ASSUME NEW k \in DOMAIN conn', NEW d, d = conn'[k].uid, d # None
                 PROVE  Open(k)' /\ Held(player'[d]) /\ conn'[player'[d].for].chan = conn'[k].chan
        BY DEF Bound, Held, InPlay, Open
    <2> QED
        BY <1>1 DEF Framed
<1>3. Binds'
    <2> SUFFICES ASSUME NEW d \in Account, Holds(player'[d]), NEW f, f = player'[d].for, Open(f)'
                 PROVE  conn'[f].uid = d
        BY DEF Binds, Holds, InPlay, Open
    <2>1. Holds(player[d]) /\ f = player[d].for
        OBVIOUS
    <2>2. f \in DOMAIN conn
        BY <2>1, ForConn DEF Holds, InPlay
    <2> QED
        BY <2>1, <2>2 DEF Framed, LinksInv, Binds
<1>4. BoundFor'
    <2> SUFFICES ASSUME "lateBind" \notin seen', NEW k \in DOMAIN conn', conn'[k].uid # None
                 PROVE  player'[conn'[k].uid].for = k
        BY DEF BoundFor
    <2> QED
        BY <1>1 DEF LinksInv, BoundFor, SeenGrows
<1> QED
    BY <1>2, <1>3, <1>4 DEF LinksInv

LEMMA HeardKept ==
    ASSUME Heard, Framed, SeenGrows,
           \A d \in Account : InPlay(player'[d]) =>
               /\ InPlay(player[d])
               /\ Has(player[d].inbox, "BADCHANNEL") => Has(player'[d].inbox, "BADCHANNEL")
    PROVE  Heard'
<1> SUFFICES ASSUME "lateBind" \notin seen', NEW d \in Account, InPlay(player'[d])
             PROVE  (\E k \in DOMAIN conn' : conn'[k].uid = d) \/ Has(player'[d].inbox, "BADCHANNEL")
    BY DEF Heard, InPlay, Has
<1> QED
    BY DEF Heard, Framed, SeenGrows

LEMMA PostsKept ==
    ASSUME Inv, OwnInv, Posted, SameSlots, UNCHANGED netQ,
           \A d \in Account : player[d].wait \in {"bind", "unbind", "close"} =>
               player'[d].wait = player[d].wait /\ player'[d].for = player[d].for
    PROVE  Posted'
<1>1. ASSUME NEW i \in DOMAIN netQ, NEW d, d = netQ[i].uid
      PROVE  /\ player'[d].wait = netQ[i].op /\ netQ[i].chan = conn'[player'[d].for].chan
    <2>1. d \in Account /\ netQ[i] \in Closure
        BY <1>1, PlayerTypes
    <2>2. player[d].wait = netQ[i].op /\ netQ[i].chan = conn[player[d].for].chan
        BY <1>1 DEF Posted
    <2>3. player[d].wait \in {"bind", "unbind", "close"}
        BY <2>1, <2>2 DEF Closure
    <2>4. player[d].for \in DOMAIN conn
        BY <2>1, <2>3, WaitsFor
    <2> QED
        BY <2>1, <2>2, <2>3, <2>4 DEF SameSlots
<1> QED
    BY <1>1 DEF Posted

\* A player that does not wait posts a closure and waits for it.
LEMMA PostsAdd ==
    ASSUME Inv, OwnInv, Posted, SameSlots, NEW c \in Closure, netQ' = Append(netQ, c),
           player[c.uid].wait = "no", player'[c.uid].wait = c.op, player'[c.uid].for = player[c.uid].for,
           c.chan = conn[player[c.uid].for].chan, player[c.uid].for \in DOMAIN conn,
           \A e \in Account : e # c.uid => player'[e] = player[e]
    PROVE  Posted'
<1> DEFINE n == Len(netQ) + 1
<1>1. /\ DOMAIN netQ' = DOMAIN netQ \cup {n} /\ n \notin DOMAIN netQ /\ netQ'[n] = c
      /\ \A i \in DOMAIN netQ : netQ'[i] = netQ[i]
    <2>1. netQ \in Seq(Closure)
        BY Parts DEF Inv, NetOK
    <2> QED
        BY <2>1
<1> HIDE DEF n
<1>2. ASSUME NEW i \in DOMAIN netQ
      PROVE  /\ netQ[i].uid # c.uid
             /\ player'[netQ[i].uid].wait = netQ[i].op
             /\ netQ[i].chan = conn'[player'[netQ[i].uid].for].chan
    <2>1. netQ[i].uid \in Account /\ netQ[i] \in Closure
        BY PlayerTypes
    <2>2. player[netQ[i].uid].wait = netQ[i].op /\ netQ[i].chan = conn[player[netQ[i].uid].for].chan
        BY DEF Posted
    <2>3. player[netQ[i].uid].wait # "no"
        BY <2>1, <2>2 DEF Closure
    <2>4. player[netQ[i].uid].for \in DOMAIN conn /\ netQ[i].uid # c.uid
        BY <2>1, <2>3, WaitsFor
    <2> QED
        BY <2>1, <2>2, <2>4 DEF SameSlots
<1>3. player'[c.uid].wait = c.op /\ c.chan = conn'[player'[c.uid].for].chan
    BY DEF SameSlots
<1>4. \A i \in DOMAIN netQ' : /\ player'[netQ'[i].uid].wait = netQ'[i].op
                              /\ netQ'[i].chan = conn'[player'[netQ'[i].uid].for].chan
    BY <1>1, <1>2, <1>3
<1>5. \A i, j \in DOMAIN netQ' : netQ'[i].uid = netQ'[j].uid => i = j
    BY <1>1, <1>2 DEF Posted
<1> QED
    BY <1>4, <1>5 DEF Posted

\* A player keeps all but its mailbox, where no BADCHANNEL is lost.
Mild(d) ==
    /\ player'[d].state = player[d].state /\ player'[d].chan = player[d].chan
    /\ player'[d].wait = player[d].wait /\ player'[d].soft = player[d].soft
    /\ player'[d].for = player[d].for
    /\ Has(player[d].inbox, "BADCHANNEL") => Has(player'[d].inbox, "BADCHANNEL")

LEMMA MildStep ==
    ASSUME Inv, PlayerInv, Framed, SeenGrows, UNCHANGED <<netQ, mapLoaded>>,
           \A d \in Account : Mild(d) /\ Own(d)'
    PROVE  PlayerInv'
<1>1. SameSlots
    BY DEF Framed, SameSlots
<1>2. LinksInv'
    BY LinksKept DEF PlayerInv, Mild, Held, Holds, InPlay
<1>3. Heard'
    BY HeardKept DEF PlayerInv, Mild, InPlay
<1>4. Posted'
    BY <1>1, PostsKept DEF PlayerInv, Mild
<1>5. OwnInv' /\ MapFirst'
    BY DEF PlayerInv, OwnInv, MapFirst, Mild
<1> QED
    BY <1>2, <1>3, <1>4, <1>5 DEF PlayerInv

LEMMA QuietStep ==
    ASSUME Inv, PlayerInv, Framed, SeenGrows, UNCHANGED <<netQ, mapLoaded, player>>
    PROVE  PlayerInv'
<1>1. SameSlots
    BY DEF Framed, SameSlots
<1>2. \A d \in Account : Mild(d) /\ Own(d)'
    BY <1>1, OwnOther DEF Mild, PlayerInv, OwnInv
<1> QED
    BY <1>2, MildStep

----------------------------------------------------------------------------
(* PlayerInv, in the steps of the net thread.                               *)

LEMMA OwnDeliver ==
    ASSUME Inv, OwnInv, SameSlots, NEW d \in Account, NEW m \in ClientMsg, player' = Deliver(player, d, m)
    PROVE  \A e \in Account : Mild(e) /\ Own(e)'
<1> SUFFICES ASSUME NEW e \in Account PROVE Mild(e) /\ Own(e)'
    OBVIOUS
<1>1. /\ player \in Players /\ m \in PlayerMsg
      /\ m.type \in {"LOGIN", "ONLINE", "LOGOUT"}
    BY Parts DEF Inv, PlayerOK, PlayerMsg, ClientMsg
<1>2. CASE player'[e] = player[e]
    BY <1>2, OwnOther DEF Mild, OwnInv
<1>3. CASE player'[e] # player[e]
    <2>1. /\ player'[e].state = player[e].state /\ player'[e].chan = player[e].chan
          /\ player'[e].wait = player[e].wait /\ player'[e].soft = player[e].soft
          /\ player'[e].for = player[e].for /\ player[e].state \in {"live", "offline"}
          /\ player'[e].inbox = Append(player[e].inbox, m)
        BY <1>1, <1>3, DeliverFields
    <2>2. /\ player[e].for \in DOMAIN conn /\ Shape(player[e], conn[player[e].for].chan)
          /\ player[e].inbox \in Seq(PlayerMsg)
        BY <2>1, ForConn, PlayerTypes
    <2> DEFINE s == conn[player[e].for].chan
               q == Append(player[e].inbox, m)
    <2>3. /\ Calm(player[e].inbox, s) => Calm(q, s)
          /\ Fresh(player[e].inbox, s) => Fresh(q, s)
          /\ Has(player[e].inbox, "BADCHANNEL") => Has(q, "BADCHANNEL")
        BY <1>1, <2>2, CalmAppend
    <2> HIDE DEF q
    <2>4. Mild(e)
        BY <2>1, <2>3 DEF Mild, q
    <2>5. Shape(player'[e], s)
        BY <2>1, <2>2, <2>3 DEF Shape, q
    <2>6. player'[e].for \in DOMAIN conn' /\ conn'[player'[e].for].chan = s
        BY <2>1, <2>2 DEF SameSlots
    <2>7. player'[e].state # "none"
        BY <2>1
    <2> HIDE DEF s
    <2>8. Own(e)'
        BY <2>5, <2>6, <2>7 DEF Own, Shape, Calm, Fresh
    <2> QED
        BY <2>4, <2>8
<1> QED
    BY <1>2, <1>3

LEMMA PlayersReader ==
    ASSUME Inv, PlayerInv, NEW k \in DOMAIN conn, NEW m \in ClientMsg, Recv(k, m) \/ RecvLate(k, m)
    PROVE  PlayerInv'
<1>1. Framed
    BY ReaderKept, KeptSteady, FramedSteady
<1>2. SameSlots
    BY <1>1 DEF Framed, SameSlots
<1>3. SeenGrows /\ UNCHANGED <<netQ, mapLoaded>> /\ Forward(k, m)
    BY DEF Recv, RecvLate, netVars, SeenGrows
<1>4. CASE UNCHANGED player
    BY <1>1, <1>3, <1>4, QuietStep
<1>5. CASE conn[k].uid # None /\ player' = Deliver(player, conn[k].uid, m)
    <2>1. conn[k].uid \in Account
        BY <1>5, PlayerTypes
    <2>2. \A e \in Account : Mild(e) /\ Own(e)'
        BY <1>2, <1>5, <2>1, OwnDeliver DEF PlayerInv
    <2> QED
        BY <1>1, <1>3, <2>2, MildStep
<1> QED
    BY <1>3, <1>4, <1>5 DEF Forward

\* The player d, if any, is the one that closes its channel and waits no longer.
Waker(d, s, ps) ==
    /\ \A e \in Account : e # d => ps[e] = player[e]
    /\ d # None =>
         /\ player[d].state = "offline" /\ player[d].wait = "close" /\ conn[player[d].for].chan = s
         /\ ps[d].state = player[d].state /\ ps[d].chan = player[d].chan /\ ps[d].wait = "no"
         /\ ps[d].soft = player[d].soft /\ ps[d].for = player[d].for /\ ps[d].inbox = player[d].inbox

\* What the players and their channels see of a DoClose.
CloseSeen(s, d) ==
    /\ DOMAIN conn' = DOMAIN conn
    /\ \A k \in DOMAIN conn : /\ conn'[k].chan = conn[k].chan
                              /\ conn'[k].uid = IF k = slot[s] THEN None ELSE conn[k].uid
                              /\ Open(k)' <=> Open(k) /\ k # slot[s]
    /\ \A e \in Account :
         /\ player'[e].state = player[e].state /\ player'[e].chan = player[e].chan
         /\ player'[e].soft = player[e].soft /\ player'[e].for = player[e].for
         /\ player'[e].wait = IF e = d THEN "no" ELSE player[e].wait
         /\ \/ /\ player'[e].inbox = player[e].inbox /\ (e # d => player'[e] = player[e])
               /\ slot[s] \in DOMAIN conn /\ conn[slot[s]].uid = e => player[e].state \notin {"live", "offline"}
            \/ /\ slot[s] \in DOMAIN conn /\ conn[slot[s]].uid = e
               /\ player'[e].inbox = Append(player[e].inbox, [type |-> "BADCHANNEL", chan |-> s])

LEMMA CloseView ==
    ASSUME Inv, NEW s \in Slot, NEW cs, SameConns(cs), NEW ps \in Players, DoClose(s, cs, ps),
           SameConns(conn'), \A c \in DOMAIN conn : cs[c].uid = conn[c].uid,
           NEW d \in Account \cup {None}, Waker(d, s, ps)
    PROVE  CloseSeen(s, d)
<1> DEFINE m == [type |-> "BADCHANNEL", chan |-> s]
<1>1. DOMAIN conn' = DOMAIN conn /\ \A k \in DOMAIN conn : conn'[k].chan = conn[k].chan
    BY Parts DEF Inv, NetOK, SameConns
<1>2. \A k \in DOMAIN conn : Open(k)' <=> Open(k) /\ k # slot[s]
    BY CloseOpen
<1>3. \A e \in Account :
         /\ ps[e].state = player[e].state /\ ps[e].chan = player[e].chan
         /\ ps[e].soft = player[e].soft /\ ps[e].for = player[e].for
         /\ ps[e].wait = (IF e = d THEN "no" ELSE player[e].wait)
         /\ ps[e].inbox = player[e].inbox /\ (e # d => ps[e] = player[e])
    BY SessionAssumption DEF Waker
<1>4. CASE slot[s] = None
    <2>1. conn' = cs /\ player' = ps
        BY <1>4 DEF DoClose
    <2>2. None \notin DOMAIN conn
        BY PlayerTypes
    <2> QED
        BY <1>1, <1>2, <1>3, <1>4, <2>1, <2>2 DEF CloseSeen
<1>5. CASE slot[s] # None
    <2>1. Closed(s, cs, ps)
        BY <1>5, CloseFields
    <2>2. \A k \in DOMAIN conn : conn'[k].uid = IF k = slot[s] THEN None ELSE conn[k].uid
        BY <2>1 DEF Closed
    <2> DEFINE u == conn[slot[s]].uid
    <2>3. u \in Account \cup {None} /\ slot[s] \in DOMAIN conn
        BY <2>1, PlayerTypes DEF Closed
    <2>4. player' = IF u = None THEN ps ELSE Deliver(ps, u, m)
        BY <2>1 DEF Closed
    <2>5. m \in PlayerMsg
        BY DEF PlayerMsg
    <2> HIDE DEF u, m
    <2>6. ASSUME NEW e \in Account
          PROVE  /\ player'[e].state = ps[e].state /\ player'[e].chan = ps[e].chan
                 /\ player'[e].soft = ps[e].soft /\ player'[e].for = ps[e].for
                 /\ player'[e].wait = ps[e].wait
                 /\ \/ player'[e] = ps[e] /\ (u = e => ps[e].state \notin {"live", "offline"})
                    \/ u = e /\ player'[e].inbox = Append(ps[e].inbox, m)
        <3>1. CASE u = None
            BY <2>4, <3>1, PlayerTypes
        <3>2. CASE u # None
            BY <2>3, <2>4, <2>5, <3>2, DeliverFields
        <3> QED
            BY <3>1, <3>2
    <2>7. ASSUME NEW e \in Account
          PROVE  /\ player'[e].state = player[e].state /\ player'[e].chan = player[e].chan
                 /\ player'[e].soft = player[e].soft /\ player'[e].for = player[e].for
                 /\ player'[e].wait = (IF e = d THEN "no" ELSE player[e].wait)
                 /\ \/ /\ player'[e].inbox = player[e].inbox /\ (e # d => player'[e] = player[e])
                       /\ u = e => player[e].state \notin {"live", "offline"}
                    \/ u = e /\ player'[e].inbox = Append(player[e].inbox, m)
        BY <1>3, <2>6
    <2> QED
        BY <1>1, <1>2, <2>2, <2>3, <2>7 DEF CloseSeen, u, m
<1> QED
    BY <1>4, <1>5

LEMMA ClosePlayers ==
    ASSUME Inv, PlayerInv, NEW s \in Slot, NEW d \in Account \cup {None}, CloseSeen(s, d),
           d # None => /\ player[d].state = "offline" /\ player[d].wait = "close"
                       /\ conn[player[d].for].chan = s,
           SeenGrows, UNCHANGED mapLoaded
    PROVE  OwnInv' /\ LinksInv' /\ Heard' /\ MapFirst'
<1> DEFINE h == slot[s]
           m == [type |-> "BADCHANNEL", chan |-> s]
<1>0. /\ None \notin Account /\ m \in PlayerMsg /\ m.type = "BADCHANNEL" /\ m.chan = s
      /\ h \in DOMAIN conn => conn[h].chan = s
      /\ \A k \in DOMAIN conn : k # None
      /\ \A e \in Account : e = d => player[e].state = "offline"
    BY PlayerTypes DEF PlayerMsg, Inv, NumbersConserved
\* Who hears of the end: a player of that slot.
<1>1. ASSUME NEW e \in Account, h \in DOMAIN conn, conn[h].uid = e
      PROVE  Held(player[e]) /\ conn[player[e].for].chan = s
    BY <1>0, <1>1 DEF PlayerInv, LinksInv, Bound
<1>2. ASSUME NEW k \in DOMAIN conn, conn[k].uid = d, d # None PROVE k = h
    <2>1. Open(k) /\ conn[k].chan = s
        BY <1>2 DEF PlayerInv, LinksInv, Bound
    <2> QED
        BY <2>1 DEF Open
<1> HIDE DEF h, m
<1>3. Bound'
    <2> SUFFICES ASSUME NEW k \in DOMAIN conn', NEW u, u = conn'[k].uid, u # None
                 PROVE  Open(k)' /\ Held(player'[u]) /\ conn'[player'[u].for].chan = conn'[k].chan
        BY DEF Bound, Held, InPlay, Open
    <2>1. k \in DOMAIN conn /\ u = conn[k].uid /\ k # h /\ u # d
        BY <1>2 DEF CloseSeen, h
    <2>2. u \in Account
        BY <2>1, PlayerTypes
    <2>3. Open(k) /\ Held(player[u]) /\ conn[player[u].for].chan = conn[k].chan
        BY <2>1 DEF PlayerInv, LinksInv, Bound
    <2>4. player[u].for \in DOMAIN conn
        BY <2>2, <2>3, ForConn DEF PlayerInv, Held, InPlay
    <2>5. /\ player'[u].state = player[u].state /\ player'[u].chan = player[u].chan
          /\ player'[u].wait = player[u].wait /\ player'[u].for = player[u].for
        BY <2>1, <2>2 DEF CloseSeen
    <2>6. Held(player'[u])
        BY <2>3, <2>5 DEF Held, InPlay
    <2> QED
        BY <2>1, <2>3, <2>4, <2>5, <2>6 DEF CloseSeen, h
<1>4. Binds'
    <2> SUFFICES ASSUME NEW e \in Account, Holds(player'[e]), NEW f, f = player'[e].for, Open(f)'
                 PROVE  conn'[f].uid = e
        BY DEF Binds, Holds, InPlay, Open
    <2>1. /\ player'[e].state = player[e].state /\ player'[e].chan = player[e].chan
          /\ player'[e].wait = (IF e = d THEN "no" ELSE player[e].wait) /\ player'[e].for = player[e].for
        BY DEF CloseSeen
    <2>2. Holds(player[e]) /\ f = player[e].for
        BY <1>0, <2>1 DEF Holds, InPlay
    <2>3. f \in DOMAIN conn
        BY <2>2, ForConn DEF PlayerInv, Holds, InPlay
    <2>4. Open(f) /\ f # h
        BY <2>3 DEF CloseSeen, h
    <2>5. conn[f].uid = e
        BY <2>2, <2>4 DEF PlayerInv, LinksInv, Binds
    <2> QED
        BY <2>3, <2>4, <2>5 DEF CloseSeen, h
<1>5. BoundFor'
    <2> SUFFICES ASSUME "lateBind" \notin seen', NEW k \in DOMAIN conn', NEW u, u = conn'[k].uid, u # None
                 PROVE  player'[u].for = k
        BY DEF BoundFor
    <2>1. k \in DOMAIN conn /\ u = conn[k].uid
        BY DEF CloseSeen
    <2>2. u \in Account
        BY <2>1, PlayerTypes
    <2>3. player[u].for = k
        BY <2>1 DEF PlayerInv, LinksInv, BoundFor, SeenGrows
    <2> QED
        BY <2>2, <2>3 DEF CloseSeen
<1>6. ASSUME NEW e \in Account
      PROVE  /\ Own(e)'
             /\ Has(player[e].inbox, "BADCHANNEL") => Has(player'[e].inbox, "BADCHANNEL")
             /\ h \in DOMAIN conn /\ conn[h].uid = e => Has(player'[e].inbox, "BADCHANNEL")
    <2>1. /\ player'[e].state = player[e].state /\ player'[e].chan = player[e].chan
          /\ player'[e].soft = player[e].soft /\ player'[e].for = player[e].for
          /\ player'[e].wait = (IF e = d THEN "no" ELSE player[e].wait)
          /\ \/ /\ player'[e].inbox = player[e].inbox /\ (e # d => player'[e] = player[e])
                /\ h \in DOMAIN conn /\ conn[h].uid = e => player[e].state \notin {"live", "offline"}
             \/ h \in DOMAIN conn /\ conn[h].uid = e /\ player'[e].inbox = Append(player[e].inbox, m)
        BY DEF CloseSeen, h, m
    <2>2. CASE player'[e] = player[e] /\ ~(h \in DOMAIN conn /\ conn[h].uid = e)
        <3>1. SameSlots
            BY DEF SameSlots, CloseSeen
        <3> QED
            BY <2>2, <3>1, OwnOther DEF PlayerInv, OwnInv
    <2>3. CASE player'[e] # player[e] \/ (h \in DOMAIN conn /\ conn[h].uid = e)
        <3>1. player[e].state \in {"live", "offline"}
            BY <1>0, <1>1, <2>1, <2>3 DEF Held, InPlay
        <3>2. player[e].for \in DOMAIN conn /\ Shape(player[e], conn[player[e].for].chan)
            BY <3>1, ForConn DEF PlayerInv
        <3> DEFINE t == conn[player[e].for].chan
                   q == Append(player[e].inbox, m)
        <3>3. player[e].inbox \in Seq(PlayerMsg)
            BY PlayerTypes
        <3>4. /\ Calm(player[e].inbox, s) => Calm(q, s)
              /\ Has(q, "BADCHANNEL")
            BY <1>0, <3>3, CalmAppend
        <3> HIDE DEF q
        <3>5. Shape(player'[e], t)
            <4>1. CASE player'[e].inbox = player[e].inbox
                BY <2>1, <3>2, <4>1 DEF Shape
            <4>2. CASE h \in DOMAIN conn /\ conn[h].uid = e /\ player'[e].inbox = q
                <5>1. t = s /\ Held(player[e])
                    BY <1>1, <4>2
                <5> QED
                    BY <2>1, <3>1, <3>2, <3>4, <4>2, <5>1 DEF Shape, Held, InPlay
            <4> QED
                BY <2>1, <4>1, <4>2 DEF q
        <3>6. player'[e].for \in DOMAIN conn' /\ conn'[player'[e].for].chan = t /\ player'[e].state # "none"
            BY <2>1, <3>1, <3>2 DEF CloseSeen
        <3> HIDE DEF t
        <3>7. Own(e)'
            BY <3>5, <3>6 DEF Own, Shape, Calm, Fresh
        <3> QED
            BY <2>1, <3>1, <3>4, <3>7 DEF q
    <2> QED
        BY <2>2, <2>3
<1>7. OwnInv'
    BY <1>6 DEF OwnInv
<1>8. Heard'
    <2> SUFFICES ASSUME "lateBind" \notin seen', NEW e \in Account, InPlay(player'[e])
                 PROVE  (\E k \in DOMAIN conn' : conn'[k].uid = e) \/ Has(player'[e].inbox, "BADCHANNEL")
        BY DEF Heard, InPlay, Has
    <2>1. InPlay(player[e])
        BY <1>0 DEF CloseSeen, InPlay
    <2>2. (\E k \in DOMAIN conn : conn[k].uid = e) \/ Has(player[e].inbox, "BADCHANNEL")
        BY <2>1 DEF PlayerInv, Heard, SeenGrows
    <2>3. ASSUME NEW k \in DOMAIN conn, conn[k].uid = e
          PROVE  conn'[k].uid = e \/ Has(player'[e].inbox, "BADCHANNEL")
        BY <1>6, <2>3 DEF CloseSeen, h
    <2> QED
        BY <1>6, <2>2, <2>3 DEF CloseSeen
<1>9. MapFirst'
    BY DEF PlayerInv, MapFirst, CloseSeen
<1> QED
    BY <1>3, <1>4, <1>5, <1>7, <1>8, <1>9 DEF LinksInv

LEMMA PlayersSocket ==
    ASSUME Inv, PlayerInv, NEW k \in DOMAIN conn, NEW l \in Loops, Break(k, l) \/ Abort(k, l)
    PROVE  PlayerInv'
<1> DEFINE s == conn[k].chan
<1>1. PICK cs : CloseOf(k, cs)
    BY SocketCloses
<1>2. SameConns(cs) /\ DoClose(s, cs, player) /\ \A c \in DOMAIN conn : cs[c].uid = conn[c].uid
    BY <1>1 DEF CloseOf
<1>3. s \in Slot /\ player \in Players
    BY PlayerTypes, Parts DEF Inv, PlayerOK
<1>4. SameConns(conn')
    BY <1>2, <1>3, CloseStep
<1>5. SeenGrows /\ UNCHANGED <<netQ, mapLoaded>>
    BY DEF Break, Abort, SeenGrows
<1> HIDE DEF s
<1>6. CloseSeen(s, None)
    <2>1. Waker(None, s, player)
        BY DEF Waker
    <2> QED
        BY <1>2, <1>3, <1>4, <2>1, CloseView
<1>7. OwnInv' /\ LinksInv' /\ Heard' /\ MapFirst'
    BY <1>3, <1>5, <1>6, ClosePlayers
<1>8. Posted'
    <2>1. SameSlots /\ None \notin Account
        BY <1>6, PlayerTypes DEF SameSlots, CloseSeen
    <2>2. \A e \in Account : player'[e].wait = player[e].wait /\ player'[e].for = player[e].for
        BY <1>6, <2>1 DEF CloseSeen
    <2> QED
        BY <1>5, <2>1, <2>2, PostsKept DEF PlayerInv
<1> QED
    BY <1>7, <1>8 DEF PlayerInv

\* The closure that the net thread takes, and the player that waits for it.
LEMMA PostsHead ==
    ASSUME Inv, OwnInv, Posted, netQ # <<>>
    PROVE  LET p == Head(netQ) IN
           /\ p \in Closure /\ p.uid \in Account /\ p.chan \in Slot
           /\ player[p.uid].wait = p.op /\ player[p.uid].for \in DOMAIN conn
           /\ conn[player[p.uid].for].chan = p.chan
           /\ Shape(player[p.uid], p.chan)
<1> DEFINE p == Head(netQ)
<1>1. p = netQ[1] /\ 1 \in DOMAIN netQ /\ p \in Closure
    BY Parts DEF Inv, NetOK
<1>2. p.uid \in Account /\ p.chan \in Slot
    BY <1>1 DEF Closure
<1>3. player[p.uid].wait = p.op /\ p.chan = conn[player[p.uid].for].chan
    BY <1>1 DEF Posted
<1>4. player[p.uid].wait # "no"
    BY <1>1, <1>3 DEF Closure
<1>5. player[p.uid].for \in DOMAIN conn /\ Shape(player[p.uid], conn[player[p.uid].for].chan)
    BY <1>2, <1>4, WaitsFor
<1> QED
    BY <1>1, <1>2, <1>3, <1>5

LEMMA PostsTail ==
    ASSUME Inv, OwnInv, Posted, SameSlots, netQ # <<>>, netQ' = Tail(netQ),
           \A e \in Account : e # Head(netQ).uid =>
               player'[e].wait = player[e].wait /\ player'[e].for = player[e].for
    PROVE  Posted'
<1>1. /\ Head(netQ) = netQ[1] /\ 1 \in DOMAIN netQ
      /\ \A i \in DOMAIN netQ' : i + 1 \in DOMAIN netQ /\ netQ'[i] = netQ[i + 1] /\ i \in Nat \ {0}
    <2>1. netQ \in Seq(Closure)
        BY Parts DEF Inv, NetOK
    <2> DEFINE t == Tail(netQ)
    <2>2. \A i \in DOMAIN t : i + 1 \in DOMAIN netQ /\ t[i] = netQ[i + 1] /\ i \in Nat \ {0}
        BY <2>1
    <2>3. netQ' = t /\ Head(netQ) = netQ[1] /\ 1 \in DOMAIN netQ
        BY <2>1
    <2> HIDE DEF t
    <2> QED
        BY <2>2, <2>3
<1>2. ASSUME NEW i \in DOMAIN netQ'
      PROVE  /\ player'[netQ'[i].uid].wait = netQ'[i].op
             /\ netQ'[i].chan = conn'[player'[netQ'[i].uid].for].chan
    <2> DEFINE c == netQ[i + 1]
    <2>1. netQ'[i] = c /\ i + 1 \in DOMAIN netQ /\ i + 1 # 1
        BY <1>1
    <2>2. c.uid \in Account /\ c \in Closure /\ c.uid # Head(netQ).uid
        BY <1>1, <2>1, PlayerTypes DEF Posted
    <2>3. player[c.uid].wait = c.op /\ c.chan = conn[player[c.uid].for].chan
        BY <2>1 DEF Posted
    <2> HIDE DEF c
    <2>4. player[c.uid].wait # "no"
        BY <2>2, <2>3 DEF Closure
    <2>5. player[c.uid].for \in DOMAIN conn
        BY <2>2, <2>4, WaitsFor
    <2> QED
        BY <2>1, <2>2, <2>3, <2>5 DEF SameSlots
<1>3. \A i, j \in DOMAIN netQ' : netQ'[i].uid = netQ'[j].uid => i = j
    <2> SUFFICES ASSUME NEW i \in DOMAIN netQ', NEW j \in DOMAIN netQ', netQ'[i].uid = netQ'[j].uid PROVE i = j
        OBVIOUS
    <2>1. i + 1 \in DOMAIN netQ /\ j + 1 \in DOMAIN netQ /\ netQ[i + 1].uid = netQ[j + 1].uid
        BY <1>1
    <2>2. i + 1 = j + 1
        BY <2>1 DEF Posted
    <2> QED
        BY <1>1, <2>2
<1> QED
    BY <1>2, <1>3 DEF Posted

\* NetDriver::close, posted by a player that waits for it.
LEMMA PostedView ==
    ASSUME Inv, PlayerInv, RunPosted, Head(netQ).op = "close"
    PROVE  /\ CloseSeen(Head(netQ).chan, Head(netQ).uid)
           /\ player[Head(netQ).uid].wait = "close" /\ player[Head(netQ).uid].state = "offline"
           /\ conn[player[Head(netQ).uid].for].chan = Head(netQ).chan
<1> DEFINE p  == Head(netQ)
           ps == [player EXCEPT ![p.uid].wait = "no"]
<1>1. /\ p.chan \in Slot /\ p.uid \in Account /\ ps \in Players /\ DoClose(p.chan, conn, ps)
      /\ SameConns(conn) /\ SameConns(conn') /\ UNCHANGED <<mapLoaded, seen>>
    BY PostedCloses
<1>2. netQ # <<>> /\ netQ' = Tail(netQ)
    BY DEF RunPosted
<1>3. /\ player[p.uid].wait = "close" /\ conn[player[p.uid].for].chan = p.chan
      /\ player[p.uid].state = "offline"
    <2>1. /\ player[p.uid].wait = p.op /\ conn[player[p.uid].for].chan = p.chan
          /\ player[p.uid].for \in DOMAIN conn /\ Shape(player[p.uid], p.chan)
        BY <1>2, PostsHead DEF PlayerInv
    <2>2. player[p.uid].state # "none"
        BY <1>1, <2>1, NoneFields DEF PlayerInv, OwnInv, Own
    <2>3. player[p.uid].state \in {"none", "live", "offline", "detached"}
        <3>1. player[p.uid] \in PlayerState
            BY <1>1, PlayerTypes
        <3> QED
            BY <3>1 DEF PlayerState
    <2> QED
        BY <2>1, <2>2, <2>3 DEF Shape
<1>4. Waker(p.uid, p.chan, ps)
    <2> DEFINE r == [player[p.uid] EXCEPT !.wait = "no"]
    <2>1. ps[p.uid] = r /\ \A e \in Account : e # p.uid => ps[e] = player[e]
        BY <1>1, Parts DEF Inv, PlayerOK, Players
    <2>2. player[p.uid] \in PlayerState
        BY <1>1, PlayerTypes
    <2>3. /\ r.state = player[p.uid].state /\ r.chan = player[p.uid].chan /\ r.wait = "no"
          /\ r.soft = player[p.uid].soft /\ r.for = player[p.uid].for /\ r.inbox = player[p.uid].inbox
        BY <2>2 DEF PlayerState
    <2> HIDE DEF r, ps
    <2> QED
        BY <1>3, <2>1, <2>3 DEF Waker
<1> HIDE DEF p, ps
<1>5. CloseSeen(p.chan, p.uid)
    BY <1>1, <1>4, CloseView
<1> QED
    BY <1>3, <1>5 DEF p

LEMMA PlayersClose == ASSUME Inv, PlayerInv, RunPosted, Head(netQ).op = "close" PROVE PlayerInv'
<1> DEFINE p == Head(netQ)
<1>1. p.chan \in Slot /\ p.uid \in Account /\ UNCHANGED <<mapLoaded, seen>>
    BY PostedCloses
<1>2. netQ # <<>> /\ netQ' = Tail(netQ)
    BY DEF RunPosted
<1>3. /\ player[p.uid].wait = "close" /\ conn[player[p.uid].for].chan = p.chan
      /\ player[p.uid].state = "offline" /\ CloseSeen(p.chan, p.uid)
    BY PostedView
<1> HIDE DEF p
<1>4. OwnInv' /\ LinksInv' /\ Heard' /\ MapFirst'
    BY <1>1, <1>3, ClosePlayers DEF SeenGrows
<1>5. Posted'
    <2>1. SameSlots
        BY <1>3 DEF SameSlots, CloseSeen
    <2>2. \A e \in Account : e # p.uid => player'[e].wait = player[e].wait /\ player'[e].for = player[e].for
        BY <1>3 DEF CloseSeen
    <2> QED
        BY <1>2, <2>1, <2>2, PostsTail DEF PlayerInv, p
<1> QED
    BY <1>4, <1>5 DEF PlayerInv

LEMMA NoFaults ==
    /\ \A d \in Account : /\ <<"attach", d>> # None /\ <<"bound", d>> # None /\ <<"lost", d>> # None
                          /\ <<"packet", d>> # None /\ <<"unbind", d>> # None
    /\ \A s \in Slot : <<"bind", s>> # None /\ <<"dbid", s>> # None /\ <<"stranger", s>> # None
    /\ \A k \in Conn : <<"login", k>> # None
BY FaultAssumption DEF Fault

LEMMA UidSet ==
    ASSUME Inv, NEW n, NEW u \in Account \cup {None},
           \/ n = None /\ conn' = conn
           \/ n \in DOMAIN conn /\ conn' = [conn EXCEPT ![n].uid = u]
    PROVE  \A k \in DOMAIN conn : conn'[k].uid = IF k = n THEN u ELSE conn[k].uid
<1>1. CASE n = None /\ conn' = conn
    BY <1>1, PlayerTypes
<1>2. CASE n \in DOMAIN conn /\ conn' = [conn EXCEPT ![n].uid = u]
    <2> DEFINE c == [conn[n] EXCEPT !.uid = u]
    <2>1. c.uid = u
        <3>1. conn[n] \in ConnState
            BY <1>2, PlayerTypes
        <3> QED
            BY <3>1 DEF ConnState
    <2>2. conn' = [conn EXCEPT ![n] = c] /\ conn \in Seq(ConnState)
        BY <1>2, Parts DEF Inv, NetOK
    <2> HIDE DEF c
    <2>3. \A k \in DOMAIN conn : conn'[k] = IF k = n THEN c ELSE conn[k]
        BY <1>2, <2>2
    <2> QED
        BY <2>1, <2>3
<1> QED
    BY <1>1, <1>2

\* Channel::unbindPlayer: the channel of d, if it is there, lets its player go.
LEMMA PlayersUnbind ==
    ASSUME Inv, PlayerInv, RunPosted, Head(netQ).op = "unbind", fault' = None,
           NEW s, NEW d, s = Head(netQ).chan, d = Head(netQ).uid
    PROVE  PlayerInv'
<1>1. netQ # <<>> /\ netQ' = Tail(netQ) /\ UNCHANGED mapLoaded /\ RunUnbind(s, d)
    BY DEF RunPosted
<1>2. /\ d \in Account /\ s \in Slot /\ player[d].wait = "unbind" /\ player[d].for \in DOMAIN conn
      /\ conn[player[d].for].chan = s /\ Shape(player[d], s)
    BY <1>1, PostsHead DEF PlayerInv
<1>3. player[d].state = "offline"
    <2>1. player[d].state \in {"none", "live", "offline", "detached"} /\ player[d].state # "none"
        BY <1>2, PlayerTypes, NoneFields DEF PlayerInv, OwnInv, Own, PlayerState
    <2> QED
        BY <1>2, <2>1 DEF Shape
<1>4. Turns(d, player[d].state, player[d].chan, "no", player[d].soft, player[d].inbox)
    BY <1>1, <1>2, WaitTurns DEF RunUnbind
<1>5. SeenGrows
    BY <1>1 DEF RunUnbind, SeenGrows
<1>6. Steady
    BY PostedKept, KeptSteady
<1>7. /\ \A k \in DOMAIN conn : conn'[k].uid = IF k = slot[s] THEN None ELSE conn[k].uid
      /\ slot[s] = None \/ (slot[s] \in DOMAIN conn /\ conn[slot[s]].uid = d)
    <2>1. CASE slot[s] = None
        BY <1>1, <2>1, UidSet DEF RunUnbind
    <2>2. CASE slot[s] # None
        <3>1. slot[s] \in DOMAIN conn
            BY <1>2, <2>2 DEF Inv, NumbersConserved
        <3>2. conn[slot[s]].uid = d /\ conn' = [conn EXCEPT ![slot[s]].uid = None]
            BY <1>1, <1>2, <2>2, NoFaults DEF RunUnbind
        <3> QED
            BY <3>1, <3>2, UidSet
    <2> QED
        BY <2>1, <2>2
<1>8. DOMAIN conn' = DOMAIN conn /\ \A k \in DOMAIN conn : conn'[k].chan = conn[k].chan /\ (Open(k)' <=> Open(k))
    BY <1>6, ConnsStay
<1>9. SameSlots
    BY <1>8 DEF SameSlots
<1>10. OwnInv'
    <2> SUFFICES ASSUME NEW e \in Account PROVE Own(e)'
        BY DEF OwnInv
    <2>1. CASE e # d
        BY <1>4, <1>9, <2>1, OwnOther DEF Turns, PlayerInv, OwnInv
    <2>2. CASE e = d
        <3>1. Shape(player'[d], s)
            BY <1>2, <1>3, <1>4 DEF Shape, Turns
        <3>2. player'[d].for \in DOMAIN conn' /\ conn'[player'[d].for].chan = s /\ player'[d].state # "none"
            BY <1>2, <1>3, <1>4, <1>8 DEF Turns
        <3> QED
            BY <2>2, <3>1, <3>2 DEF Own, Shape, Calm, Fresh
    <2> QED
        BY <2>1, <2>2
\* Nobody else's channel loses its player, and d is in none any more.
<1>11. ASSUME NEW k \in DOMAIN conn, conn[k].uid # None, k # slot[s] PROVE conn[k].uid # d
    BY <1>2, <1>11 DEF PlayerInv, LinksInv, Bound, Open
<1>12. Bound'
    <2> SUFFICES ASSUME NEW k \in DOMAIN conn', NEW u, u = conn'[k].uid, u # None
                 PROVE  Open(k)' /\ Held(player'[u]) /\ conn'[player'[u].for].chan = conn'[k].chan
        BY DEF Bound, Held, InPlay, Open
    <2>1. k \in DOMAIN conn /\ u = conn[k].uid /\ u # d
        BY <1>7, <1>8, <1>11
    <2>2. u \in Account
        BY <2>1, PlayerTypes
    <2>3. Open(k) /\ Held(player[u]) /\ conn[player[u].for].chan = conn[k].chan /\ player'[u] = player[u]
        BY <1>4, <2>1, <2>2 DEF PlayerInv, LinksInv, Bound, Turns
    <2>4. player[u].for \in DOMAIN conn
        BY <2>2, <2>3, ForConn DEF PlayerInv, Held, InPlay
    <2> QED
        BY <1>8, <2>1, <2>3, <2>4
<1>13. Binds'
    <2> SUFFICES ASSUME NEW e \in Account, Holds(player'[e]), NEW f, f = player'[e].for, Open(f)'
                 PROVE  conn'[f].uid = e
        BY DEF Binds, Holds, InPlay, Open
    <2>1. e # d
        BY <1>3, <1>4 DEF Turns, Holds, InPlay
    <2>2. player'[e] = player[e]
        BY <1>4, <2>1 DEF Turns
    <2>3. f \in DOMAIN conn
        BY <2>2, ForConn DEF PlayerInv, Holds, InPlay
    <2>4. conn[f].uid = e
        BY <1>8, <2>2, <2>3 DEF PlayerInv, LinksInv, Binds
    <2> QED
        BY <1>7, <2>1, <2>3, <2>4, PlayerTypes
<1>14. BoundFor'
    <2> SUFFICES ASSUME "lateBind" \notin seen', NEW k \in DOMAIN conn', NEW u, u = conn'[k].uid, u # None
                 PROVE  player'[u].for = k
        BY DEF BoundFor
    <2>1. k \in DOMAIN conn /\ u = conn[k].uid /\ u # d
        BY <1>7, <1>8, <1>11
    <2>2. u \in Account /\ player[u].for = k
        BY <1>5, <2>1, PlayerTypes DEF PlayerInv, LinksInv, BoundFor, SeenGrows
    <2> QED
        BY <1>4, <2>1, <2>2 DEF Turns
<1>15. Heard'
    <2> SUFFICES ASSUME "lateBind" \notin seen', NEW e \in Account, InPlay(player'[e])
                 PROVE  (\E k \in DOMAIN conn' : conn'[k].uid = e) \/ Has(player'[e].inbox, "BADCHANNEL")
        BY DEF Heard, InPlay, Has
    <2>1. e # d
        BY <1>3, <1>4 DEF Turns, InPlay
    <2>2. player'[e] = player[e] /\ e # None
        BY <1>4, <2>1, PlayerTypes DEF Turns
    <2>3. (\E k \in DOMAIN conn : conn[k].uid = e) \/ Has(player[e].inbox, "BADCHANNEL")
        BY <1>5, <2>2 DEF PlayerInv, Heard, SeenGrows
    <2>4. ASSUME NEW k \in DOMAIN conn, conn[k].uid = e PROVE k \in DOMAIN conn' /\ conn'[k].uid = e
        <3>1. k # slot[s]
            BY <1>7, <2>1, <2>4, PlayerTypes
        <3> QED
            BY <1>7, <1>8, <2>4, <3>1
    <2> QED
        BY <2>2, <2>3, <2>4
<1>16. MapFirst'
    BY <1>1, <1>4 DEF PlayerInv, MapFirst, Turns
<1>17. Posted'
    <2>1. \A e \in Account : e # d => player'[e].wait = player[e].wait /\ player'[e].for = player[e].for
        BY <1>4 DEF Turns
    <2> QED
        BY <1>1, <1>9, <2>1, PostsTail DEF PlayerInv
<1> QED
    BY <1>10, <1>12, <1>13, <1>14, <1>15, <1>16, <1>17 DEF PlayerInv, LinksInv

\* Channel::bindPlayer: the channel that is in the slot by then, if any, has d.
LEMMA PlayersBind ==
    ASSUME Inv, PlayerInv, RunPosted, Head(netQ).op = "bind", fault' = None,
           NEW s, NEW d, s = Head(netQ).chan, d = Head(netQ).uid
    PROVE  PlayerInv'
<1>1. netQ # <<>> /\ netQ' = Tail(netQ) /\ UNCHANGED mapLoaded /\ RunBind(s, d)
    BY DEF RunPosted
<1>2. /\ d \in Account /\ s \in Slot /\ player[d].wait = "bind" /\ player[d].for \in DOMAIN conn
      /\ conn[player[d].for].chan = s /\ Shape(player[d], s)
    BY <1>1, PostsHead DEF PlayerInv
<1>3. player[d].state = "live" /\ player[d].chan # None
    <2>1. player[d].state \in {"none", "live", "offline", "detached"} /\ player[d].state # "none"
        BY <1>2, PlayerTypes, NoneFields DEF PlayerInv, OwnInv, Own, PlayerState
    <2> QED
        BY <1>2, <2>1 DEF Shape
<1>4. Turns(d, player[d].state, player[d].chan, "bound", player[d].soft, player[d].inbox)
    BY <1>1, <1>2, WaitTurns DEF RunBind
<1>5. SeenGrows /\ ("lateBind" \in seen' \/ slot[s] = player[d].for)
    BY <1>1 DEF RunBind, SeenGrows
<1>6. Steady
    BY PostedKept, KeptSteady
<1>7. /\ \A k \in DOMAIN conn : conn'[k].uid = IF k = slot[s] THEN d ELSE conn[k].uid
      /\ slot[s] = None \/ (slot[s] \in DOMAIN conn /\ conn[slot[s]].uid = None /\ conn[slot[s]].chan = s)
    <2>1. CASE slot[s] = None
        BY <1>1, <1>2, <2>1, UidSet DEF RunBind
    <2>2. CASE slot[s] # None
        <3>1. slot[s] \in DOMAIN conn /\ conn[slot[s]].chan = s
            BY <1>2, <2>2 DEF Inv, NumbersConserved
        <3>2. conn[slot[s]].uid = None /\ conn' = [conn EXCEPT ![slot[s]].uid = d]
            BY <1>1, <1>2, <2>2, NoFaults DEF RunBind
        <3> QED
            BY <1>2, <3>1, <3>2, UidSet
    <2> QED
        BY <2>1, <2>2
<1>8. DOMAIN conn' = DOMAIN conn /\ \A k \in DOMAIN conn : conn'[k].chan = conn[k].chan /\ (Open(k)' <=> Open(k))
    BY <1>6, ConnsStay
<1>9. SameSlots
    BY <1>8 DEF SameSlots
<1>10. OwnInv'
    <2> SUFFICES ASSUME NEW e \in Account PROVE Own(e)'
        BY DEF OwnInv
    <2>1. CASE e # d
        BY <1>4, <1>9, <2>1, OwnOther DEF Turns, PlayerInv, OwnInv
    <2>2. CASE e = d
        <3>1. Shape(player'[d], s)
            BY <1>2, <1>3, <1>4 DEF Shape, Turns
        <3>2. player'[d].for \in DOMAIN conn' /\ conn'[player'[d].for].chan = s /\ player'[d].state # "none"
            BY <1>2, <1>3, <1>4, <1>8 DEF Turns
        <3> QED
            BY <2>2, <3>1, <3>2 DEF Own, Shape, Calm, Fresh
    <2> QED
        BY <2>1, <2>2
\* d was in no channel before.
<1>11. ASSUME NEW k \in DOMAIN conn, NEW u, u = conn[k].uid, u # None
       PROVE  u # d /\ u \in Account /\ player'[u] = player[u]
    <2>1. u # d
        BY <1>2, <1>3, <1>11 DEF PlayerInv, LinksInv, Bound, Held, InPlay
    <2>2. u \in Account
        BY <1>11, PlayerTypes
    <2> QED
        BY <1>4, <2>1, <2>2 DEF Turns
<1>12. Bound'
    <2> SUFFICES ASSUME NEW k \in DOMAIN conn', NEW u, u = conn'[k].uid, u # None
                 PROVE  Open(k)' /\ Held(player'[u]) /\ conn'[player'[u].for].chan = conn'[k].chan
        BY DEF Bound, Held, InPlay, Open
    <2>1. CASE k # slot[s]
        <3>1. k \in DOMAIN conn /\ u = conn[k].uid
            BY <1>7, <1>8, <2>1
        <3>2. u \in Account /\ player'[u] = player[u]
            BY <1>11, <3>1
        <3>3. Open(k) /\ Held(player[u]) /\ conn[player[u].for].chan = conn[k].chan
            BY <3>1 DEF PlayerInv, LinksInv, Bound
        <3>4. player[u].for \in DOMAIN conn
            BY <3>2, <3>3, ForConn DEF PlayerInv, Held, InPlay
        <3> QED
            BY <1>8, <3>1, <3>2, <3>3, <3>4
    <2>2. CASE k = slot[s]
        <3>1. k \in DOMAIN conn /\ u = d /\ conn[k].chan = s /\ Open(k)
            BY <1>7, <1>8, <2>2, PlayerTypes DEF Open
        <3>2. Held(player'[d]) /\ player'[d].for = player[d].for
            BY <1>3, <1>4 DEF Turns, Held, InPlay
        <3> QED
            BY <1>2, <1>8, <3>1, <3>2
    <2> QED
        BY <2>1, <2>2
<1>13. Binds'
    <2> SUFFICES ASSUME NEW e \in Account, Holds(player'[e]), NEW f, f = player'[e].for, Open(f)'
                 PROVE  conn'[f].uid = e
        BY DEF Binds, Holds, InPlay, Open
    <2>1. CASE e = d
        <3>1. f = player[d].for /\ f \in DOMAIN conn
            BY <1>2, <1>4, <2>1 DEF Turns
        <3>2. Open(f)
            BY <1>8, <3>1
        <3>3. f = slot[s]
            BY <1>2, <3>1, <3>2 DEF Open
        <3> QED
            BY <1>7, <2>1, <3>1, <3>3
    <2>2. CASE e # d
        <3>1. player'[e] = player[e]
            BY <1>4, <2>2 DEF Turns
        <3>2. f \in DOMAIN conn
            BY <3>1, ForConn DEF PlayerInv, Holds, InPlay
        <3>3. conn[f].uid = e
            BY <1>8, <3>1, <3>2 DEF PlayerInv, LinksInv, Binds
        <3> QED
            BY <1>7, <3>2, <3>3, PlayerTypes
    <2> QED
        BY <2>1, <2>2
<1>14. BoundFor'
    <2> SUFFICES ASSUME "lateBind" \notin seen', NEW k \in DOMAIN conn', NEW u, u = conn'[k].uid, u # None
                 PROVE  player'[u].for = k
        BY DEF BoundFor
    <2>1. CASE k = slot[s]
        BY <1>4, <1>5, <1>7, <1>8, <2>1 DEF Turns
    <2>2. CASE k # slot[s]
        <3>1. k \in DOMAIN conn /\ u = conn[k].uid
            BY <1>7, <1>8, <2>2
        <3>2. player[u].for = k
            BY <1>5, <3>1 DEF PlayerInv, LinksInv, BoundFor, SeenGrows
        <3> QED
            BY <1>11, <3>1, <3>2
    <2> QED
        BY <2>1, <2>2
<1>15. Heard'
    <2> SUFFICES ASSUME "lateBind" \notin seen', NEW e \in Account, InPlay(player'[e])
                 PROVE  (\E k \in DOMAIN conn' : conn'[k].uid = e) \/ Has(player'[e].inbox, "BADCHANNEL")
        BY DEF Heard, InPlay, Has
    <2>1. CASE e = d
        <3>1. slot[s] \in DOMAIN conn /\ conn'[slot[s]].uid = d
            BY <1>2, <1>5, <1>7
        <3> QED
            BY <1>8, <2>1, <3>1
    <2>2. CASE e # d
        <3>1. player'[e] = player[e] /\ e # None
            BY <1>4, <2>2, PlayerTypes DEF Turns
        <3>2. (\E k \in DOMAIN conn : conn[k].uid = e) \/ Has(player[e].inbox, "BADCHANNEL")
            BY <1>5, <3>1 DEF PlayerInv, Heard, SeenGrows
        <3>3. ASSUME NEW k \in DOMAIN conn, conn[k].uid = e PROVE k \in DOMAIN conn' /\ conn'[k].uid = e
            <4>1. k # slot[s]
                BY <1>7, <3>1, <3>3, PlayerTypes
            <4> QED
                BY <1>7, <1>8, <3>3, <4>1
        <3> QED
            BY <3>1, <3>2, <3>3
    <2> QED
        BY <2>1, <2>2
<1>16. MapFirst'
    BY <1>1, <1>4 DEF PlayerInv, MapFirst, Turns
<1>17. Posted'
    <2>1. \A e \in Account : e # d => player'[e].wait = player[e].wait /\ player'[e].for = player[e].for
        BY <1>4 DEF Turns
    <2> QED
        BY <1>1, <1>9, <2>1, PostsTail DEF PlayerInv
<1> QED
    BY <1>10, <1>12, <1>13, <1>14, <1>15, <1>16, <1>17 DEF PlayerInv, LinksInv
----------------------------------------------------------------------------
(* PlayerInv, in the steps of the players.                                  *)

\* A step of the player d that changes nothing but d.
LEMMA TurnStep ==
    ASSUME Inv, PlayerInv, NEW d \in Account, player[d].state # "none", Framed, SeenGrows,
           UNCHANGED mapLoaded, \A e \in Account : e # d => player'[e] = player[e],
           Own(d)', Posted',
           Held(player[d]) => Held(player'[d]) /\ player'[d].for = player[d].for,
           Holds(player'[d]) => Holds(player[d]) /\ player'[d].for = player[d].for,
           InPlay(player'[d]) => /\ InPlay(player[d])
                                 /\ Has(player[d].inbox, "BADCHANNEL") => Has(player'[d].inbox, "BADCHANNEL")
    PROVE  PlayerInv'
<1>1. SameSlots
    BY DEF Framed, SameSlots
<1>2. LinksInv'
    BY LinksKept DEF PlayerInv
<1>3. Heard'
    BY HeardKept DEF PlayerInv
<1>4. OwnInv'
    <2> SUFFICES ASSUME NEW e \in Account PROVE Own(e)'
        BY DEF OwnInv
    <2>1. CASE e = d
        BY <2>1
    <2>2. CASE e # d
        BY <1>1, <2>2, OwnOther DEF PlayerInv, OwnInv
    <2> QED
        BY <2>1, <2>2
<1>5. MapFirst'
    BY DEF PlayerInv, MapFirst
<1> QED
    BY <1>2, <1>3, <1>4, <1>5 DEF PlayerInv

\* What a player that reads its mailbox has been made for.
LEMMA IdleFacts ==
    ASSUME Inv, OwnInv, NEW d \in Account, NEW type, Idle(d, type), NEW s, s = conn[player[d].for].chan
    PROVE  /\ player[d].for \in DOMAIN conn /\ s \in Slot /\ Shape(player[d], s)
           /\ player[d].state \in {"live", "offline"} /\ player[d].wait = "no"
           /\ player[d].inbox \in Seq(PlayerMsg) /\ player[d].inbox # <<>>
           /\ Head(player[d].inbox).type = type
<1>1. player[d].state \in {"live", "offline"} /\ player[d].state # "none"
    BY DEF Idle
<1> QED
    BY <1>1, ForConn, PlayerTypes DEF Idle

\* A player of this shape is its own.
LEMMA OwnTurned ==
    ASSUME NEW d \in Account, player'[d].state # "none", NEW s, SameSlots, Shape(player'[d], s),
           player'[d].for = player[d].for, player[d].for \in DOMAIN conn, s = conn[player[d].for].chan
    PROVE  Own(d)'
<1>1. player'[d].for \in DOMAIN conn' /\ conn'[player'[d].for].chan = s
    BY DEF SameSlots
<1> QED
    BY <1>1 DEF Own, Shape, Calm, Fresh

LEMMA PlayersBindPost ==
    ASSUME Inv, PlayerInv, NEW d \in Account, BindChannel(d), fault' = None
    PROVE  PlayerInv'
<1> DEFINE s == conn[player[d].for].chan
           q == player[d].inbox
<1>1. /\ Idle(d, "BINDCHANNEL") /\ player[d].chan = None
      /\ player' = [player EXCEPT ![d] = [Taken(d) EXCEPT !.chan = Head(q).chan, !.wait = "bind"]]
      /\ netQ' = Append(netQ, [op |-> "bind", chan |-> Head(q).chan, uid |-> d])
      /\ UNCHANGED <<slot, freeQ, conn, raced, coreVars, seen>>
    BY NoFaults DEF BindChannel, Post
<1>2. /\ player[d].for \in DOMAIN conn /\ s \in Slot /\ Shape(player[d], s)
      /\ player[d].state \in {"live", "offline"} /\ player[d].wait = "no"
      /\ q \in Seq(PlayerMsg) /\ q # <<>>
    BY <1>1, IdleFacts DEF PlayerInv
<1> HIDE DEF s, q
<1>3. player[d].state = "live" /\ Fresh(q, s) /\ player[d].soft = None
    BY <1>1, <1>2, SessionAssumption DEF Shape, q
<1>4. Head(q).chan = s /\ Calm(Tail(q), s)
    BY <1>2, <1>3, CalmTail
<1>5. Turns(d, player[d].state, s, "bind", player[d].soft, Tail(q))
    BY <1>1, <1>4, BindTurns DEF q
<1>6. Framed /\ SeenGrows /\ SameSlots /\ UNCHANGED mapLoaded
    <2>1. Steady /\ SameBinds
        BY <1>1, UntouchedKept, KeptSteady
    <2>2. Framed
        BY <2>1, FramedSteady
    <2> QED
        BY <1>1, <2>2 DEF SeenGrows, Framed, SameSlots, coreVars
<1>7. Own(d)'
    <2>1. Shape(player'[d], s)
        BY <1>2, <1>3, <1>4, <1>5, PlayerTypes DEF Turns, Shape
    <2> QED
        BY <1>2, <1>3, <1>5, <1>6, <2>1, OwnTurned DEF Turns, s
<1>8. Posted'
    <2> DEFINE c == [op |-> "bind", chan |-> s, uid |-> d]
    <2>1. c \in Closure /\ c.uid = d /\ c.op = "bind" /\ c.chan = s
        BY <1>2 DEF Closure
    <2>2. netQ' = Append(netQ, c)
        BY <1>1, <1>4
    <2> HIDE DEF c
    <2> QED
        BY <1>2, <1>5, <1>6, <2>1, <2>2, PostsAdd DEF PlayerInv, Turns, s
<1> QED
    BY <1>1, <1>3, <1>5, <1>6, <1>7, <1>8, TurnStep DEF Turns, Held, Holds, InPlay

\* A player that is offline throws its mail away.
LEMMA PlayersOffline ==
    ASSUME Inv, PlayerInv, NEW d \in Account, NEW type, Idle(d, type), player[d].state = "offline",
           player' = [player EXCEPT ![d] = Taken(d)],
           UNCHANGED <<slot, freeQ, conn, raced, netQ, coreVars, seen>>
    PROVE  PlayerInv'
<1> DEFINE s == conn[player[d].for].chan
           q == player[d].inbox
<1>1. /\ player[d].for \in DOMAIN conn /\ s \in Slot /\ Shape(player[d], s)
      /\ player[d].wait = "no" /\ q \in Seq(PlayerMsg) /\ q # <<>>
    BY IdleFacts DEF PlayerInv
<1> HIDE DEF s, q
<1>2. Calm(Tail(q), s)
    BY <1>1, CalmTail DEF Shape, q
<1>3. Turns(d, player[d].state, player[d].chan, player[d].wait, player[d].soft, Tail(q))
    BY TakenTurns DEF q
<1>4. Framed /\ SeenGrows /\ SameSlots /\ UNCHANGED mapLoaded
    <2>1. Steady /\ SameBinds
        BY UntouchedKept, KeptSteady
    <2>2. Framed
        BY <2>1, FramedSteady
    <2> QED
        BY <2>2 DEF SeenGrows, Framed, SameSlots, coreVars
<1>5. Own(d)'
    <2>1. Shape(player'[d], s)
        BY <1>1, <1>2, <1>3 DEF Turns, Shape
    <2> QED
        BY <1>1, <1>3, <1>4, <2>1, OwnTurned DEF Turns, s
<1>6. Posted'
    <2>1. \A e \in Account : player[e].wait \in {"bind", "unbind", "close"} =>
              player'[e].wait = player[e].wait /\ player'[e].for = player[e].for
        BY <1>1, <1>3 DEF Turns
    <2> QED
        BY <1>4, <2>1, PostsKept DEF PlayerInv
<1> QED
    BY <1>1, <1>3, <1>4, <1>5, <1>6, TurnStep DEF Turns, Held, Holds, InPlay

\* goOffline, with the closure that lets the channel go.
LEMMA PlayersGoOffline ==
    ASSUME Inv, PlayerInv, NEW d \in Account, NEW type, Idle(d, type), NEW soft \in BOOLEAN,
           player[d].chan # None, player[d].chan # 0, GoOffline(d, soft),
           UNCHANGED <<slot, freeQ, conn, raced, coreVars, seen>>
    PROVE  PlayerInv'
<1> DEFINE s == conn[player[d].for].chan
           q == player[d].inbox
           w == IF soft THEN "unbind" ELSE "close"
<1>1. /\ player[d].for \in DOMAIN conn /\ s \in Slot /\ Shape(player[d], s)
      /\ player[d].state \in {"live", "offline"} /\ player[d].wait = "no"
      /\ q \in Seq(PlayerMsg) /\ q # <<>>
    BY IdleFacts DEF PlayerInv
<1> HIDE DEF s, q
<1>2. player[d].state = "live" /\ player[d].chan = s /\ Calm(q, s)
    BY <1>1 DEF Shape, q
<1>3. Calm(Tail(q), s)
    BY <1>1, <1>2, CalmTail
<1>4. Turns(d, "offline", 0, w, IF soft THEN s ELSE None, Tail(q))
    BY <1>2, OfflineTurns DEF q
<1>5. Framed /\ SeenGrows /\ SameSlots /\ UNCHANGED mapLoaded
    <2>1. Steady /\ SameBinds
        BY UntouchedKept, KeptSteady
    <2>2. Framed
        BY <2>1, FramedSteady
    <2> QED
        BY <2>2 DEF SeenGrows, Framed, SameSlots, coreVars
<1>6. Own(d)'
    <2>1. s # None
        BY <1>1, PlayerTypes
    <2>2. Shape(player'[d], s)
        BY <1>3, <1>4, <2>1 DEF Turns, Shape
    <2> QED
        BY <1>1, <1>4, <1>5, <2>2, OwnTurned DEF Turns, s
<1>7. Posted'
    <2> DEFINE c == [op |-> w, chan |-> s, uid |-> d]
    <2>1. c \in Closure /\ c.uid = d /\ c.op = w /\ c.chan = s
        BY <1>1 DEF Closure
    <2>2. netQ' = Append(netQ, c)
        BY <1>2 DEF GoOffline, Post
    <2> HIDE DEF c
    <2> QED
        BY <1>1, <1>4, <1>5, <2>1, <2>2, PostsAdd DEF PlayerInv, Turns, s
<1> QED
    BY <1>1, <1>2, <1>4, <1>5, <1>6, <1>7, TurnStep DEF Turns, Held, Holds, InPlay

\* postOnlineOK.
LEMMA PlayersOnlineOK ==
    ASSUME Inv, PlayerInv, NEW d \in Account, OnlineOK(d)
    PROVE  PlayerInv'
<1> DEFINE s == conn[player[d].for].chan
<1>1. /\ player[d].wait = "bound" /\ player' = [player EXCEPT ![d].wait = "no"]
      /\ UNCHANGED <<slot, freeQ, raced, netQ, coreVars>> /\ SeenGrows /\ PlayerStep(d)
    BY DEF OnlineOK, SeenGrows, PlayerStep
<1>2. player[d].for \in DOMAIN conn /\ Shape(player[d], s) /\ s \in Slot
    BY <1>1, WaitsFor, PlayerTypes DEF PlayerInv
<1> HIDE DEF s
<1>3. player[d].state = "live" /\ player[d].chan # None
    <2>1. player[d].state \in {"none", "live", "offline", "detached"} /\ player[d].state # "none"
        BY <1>1, PlayerTypes, NoneFields DEF PlayerInv, OwnInv, Own, PlayerState
    <2> QED
        BY <1>1, <1>2, <2>1 DEF Shape
<1>4. Turns(d, player[d].state, player[d].chan, "no", player[d].soft, player[d].inbox)
    BY <1>1, WaitTurns
<1>5. Framed /\ SameSlots /\ UNCHANGED mapLoaded
    <2>1. Steady /\ SameBinds
        BY <1>1, PlayerKept, KeptSteady
    <2>2. Framed
        BY <2>1, FramedSteady
    <2> QED
        BY <1>1, <2>2 DEF Framed, SameSlots, coreVars
<1>6. Own(d)'
    <2>1. Shape(player'[d], s)
        BY <1>2, <1>3, <1>4 DEF Turns, Shape
    <2> QED
        BY <1>2, <1>3, <1>4, <1>5, <2>1, OwnTurned DEF Turns, s
<1>7. Posted'
    <2>1. \A e \in Account : player[e].wait \in {"bind", "unbind", "close"} =>
              player'[e].wait = player[e].wait /\ player'[e].for = player[e].for
        BY <1>1, <1>4 DEF Turns
    <2> QED
        BY <1>1, <1>5, <2>1, PostsKept DEF PlayerInv
<1> QED
    BY <1>1, <1>3, <1>4, <1>5, <1>6, <1>7, TurnStep DEF Turns, Held, Holds, InPlay

\* fnDeactivate, and the pool that erases the mailbox.
LEMMA PlayersLeave ==
    ASSUME Inv, PlayerInv, NEW d \in Account, Deactivate(d) \/ Erase(d)
    PROVE  PlayerInv'
<1>1. Framed /\ SameSlots /\ SeenGrows /\ UNCHANGED <<netQ, mapLoaded>>
    <2>1. Steady /\ SameBinds
        BY PlayerKept, KeptSteady DEF PlayerStep
    <2>2. Framed
        BY <2>1, FramedSteady
    <2> QED
        BY <2>2 DEF Framed, SameSlots, coreVars, netVars, Deactivate, Erase, SeenGrows
<1>2. CASE Deactivate(d)
    <2> DEFINE s == conn[player[d].for].chan
    <2>1. player[d].state = "offline" /\ player[d].wait = "no"
        BY <1>2 DEF Deactivate
    <2>2. player[d].for \in DOMAIN conn
        BY <2>1, ForConn DEF PlayerInv
    <2> HIDE DEF s
    <2>3. Turns(d, "detached", player[d].chan, player[d].wait, player[d].soft, <<>>)
        BY <1>2, DeactivateTurns
    <2>4. Own(d)'
        <3>1. Shape(player'[d], s)
            BY <2>1, <2>3 DEF Turns, Shape
        <3> QED
            BY <1>1, <2>2, <2>3, <3>1, OwnTurned DEF Turns, s
    <2>5. Posted'
        <3>1. \A e \in Account : player[e].wait \in {"bind", "unbind", "close"} =>
                  player'[e].wait = player[e].wait /\ player'[e].for = player[e].for
            BY <2>1, <2>3 DEF Turns
        <3> QED
            BY <1>1, <3>1, PostsKept DEF PlayerInv
    <2> QED
        BY <1>1, <2>1, <2>3, <2>4, <2>5, TurnStep DEF Turns, Held, Holds, InPlay
<1>3. CASE Erase(d)
    <2>1. player[d].state = "detached" /\ player' = [player EXCEPT ![d] = NoPlayer]
        BY <1>3 DEF Erase
    <2>2. player'[d] = NoPlayer /\ \A e \in Account : e # d => player'[e] = player[e]
        BY <2>1, Parts DEF Inv, PlayerOK, Players
    <2>3. player[d].wait = "no"
        BY <2>1, ForConn DEF PlayerInv, Shape
    <2>4. Own(d)'
        BY <2>2, NoneFields DEF Own
    <2>5. Posted'
        <3>1. \A e \in Account : player[e].wait \in {"bind", "unbind", "close"} =>
                  player'[e].wait = player[e].wait /\ player'[e].for = player[e].for
            BY <2>2, <2>3
        <3> QED
            BY <1>1, <3>1, PostsKept DEF PlayerInv
    <2> QED
        BY <1>1, <2>1, <2>2, <2>4, <2>5, NoneFields, TurnStep DEF Held, Holds, InPlay
<1> QED
    BY <1>2, <1>3

LEMMA PlayersTurn ==
    ASSUME Inv, PlayerInv, NEW d \in Account, PlayerStep(d), fault' = None
    PROVE  PlayerInv'
<1>1. ASSUME NEW type, Idle(d, type), player[d].chan = 0 PROVE player[d].state = "offline"
    BY <1>1, IdleFacts, PlayerTypes, SessionAssumption DEF PlayerInv, Shape
<1>2. CASE LostChannel(d)
    <2>1. /\ Idle(d, "BADCHANNEL") /\ player[d].chan # None
          /\ UNCHANGED <<slot, freeQ, conn, raced, coreVars, seen>>
          /\ \/ player[d].chan = 0 /\ player' = [player EXCEPT ![d] = Taken(d)] /\ UNCHANGED netQ
             \/ player[d].chan # 0 /\ GoOffline(d, FALSE)
        BY <1>2, NoFaults DEF LostChannel
    <2> QED
        BY <1>1, <2>1, PlayersOffline, PlayersGoOffline
<1>3. CASE RequestLogout(d)
    <2>1. /\ Idle(d, "LOGOUT") /\ player[d].chan # None /\ player[d].chan # 0 /\ GoOffline(d, TRUE)
          /\ UNCHANGED <<slot, freeQ, conn, raced, coreVars, seen>>
        BY <1>3, PlayerTypes DEF RequestLogout
    <2> QED
        BY <2>1, PlayersGoOffline
<1>4. OtherPacket(d) = FALSE
    BY NoFaults DEF OtherPacket
<1>5. CASE Ignore(d)
    <2>1. PICK type \in {"LOGIN", "ONLINE", "LOGOUT"} : Idle(d, type)
        BY <1>5 DEF Ignore
    <2>2. /\ player[d].chan \in {None, 0} /\ player' = [player EXCEPT ![d] = Taken(d)]
          /\ UNCHANGED <<slot, freeQ, conn, raced, netQ, coreVars, seen>>
        BY <1>5 DEF Ignore, netVars
    <2>3. player[d].state = "offline"
        BY <2>1, <2>2, IdleFacts, CalmTail, PlayerTypes, SessionAssumption DEF PlayerInv, Shape
    <2> QED
        BY <2>1, <2>2, <2>3, PlayersOffline
<1> QED
    BY <1>2, <1>3, <1>4, <1>5, PlayersBindPost, PlayersOnlineOK, PlayersLeave DEF PlayerStep

----------------------------------------------------------------------------
(* PlayerInv, in the steps of the core, and in all of them.                 *)

LEMMA PlayersAdded ==
    ASSUME Inv, PlayerInv, NEW os \in Seq(Waiting), NEW placed, player' = Added(os, placed).player,
           Framed, SeenGrows, UNCHANGED netQ, mapLoaded' = TRUE,
           \A i \in DOMAIN os : os[i].conn \in DOMAIN conn /\ conn[os[i].conn].chan = os[i].chan
    PROVE  PlayerInv'
<1>1. SameSlots
    BY DEF Framed, SameSlots
<1>2. ASSUME NEW d \in Account
      PROVE  \/ player'[d] = player[d]
             \/ \E o \in Waiting : /\ player'[d] = AddPlayer(o) /\ player[d] = NoPlayer
                                   /\ o.conn \in DOMAIN conn /\ conn[o.conn].chan = o.chan
    <2>1. CASE player'[d] = player[d]
        BY <2>1
    <2>2. CASE \E i \in Made(os, placed) : os[i].uid = d /\ Added(os, placed).player[d] = AddPlayer(os[i])
        <3>1. PICK i \in Made(os, placed) : os[i].uid = d /\ Added(os, placed).player[d] = AddPlayer(os[i])
            BY <2>2
        <3>2. i \in DOMAIN os /\ player[os[i].uid].state = "none"
            BY ReadyFacts
        <3>3. os[i] \in Waiting
            BY <3>2
        <3>4. player[d] = NoPlayer
            BY <3>1, <3>2 DEF PlayerInv, OwnInv, Own
        <3> QED
            BY <3>1, <3>2, <3>3, <3>4
    <2> QED
        BY <2>1, <2>2, AddedFacts
<1>3. ASSUME NEW d \in Account
      PROVE  /\ Own(d)'
             /\ Held(player[d]) => Held(player'[d]) /\ player'[d].for = player[d].for
             /\ Holds(player'[d]) => Holds(player[d]) /\ player'[d].for = player[d].for
             /\ InPlay(player'[d]) => player'[d] = player[d]
             /\ player[d].wait \in {"bind", "unbind", "close"} => player'[d] = player[d]
    <2>1. CASE player'[d] = player[d]
        BY <1>1, <2>1, OwnOther DEF PlayerInv, OwnInv
    <2>2. CASE player'[d] # player[d]
        <3>1. PICK o \in Waiting : /\ player'[d] = AddPlayer(o) /\ player[d] = NoPlayer
                                   /\ o.conn \in DOMAIN conn /\ conn[o.conn].chan = o.chan
            BY <1>2, <2>2
        <3>2. /\ player'[d].state = "live" /\ player'[d].chan = None /\ player'[d].wait = "no"
              /\ player'[d].soft = None /\ player'[d].for = o.conn /\ Fresh(player'[d].inbox, o.chan)
            BY <3>1, NewFields
        <3>3. Shape(player'[d], o.chan)
            BY <3>2 DEF Shape
        <3>4. player'[d].for \in DOMAIN conn' /\ conn'[player'[d].for].chan = o.chan
            BY <1>1, <3>1, <3>2 DEF SameSlots
        <3>5. Own(d)'
            BY <3>2, <3>3, <3>4 DEF Own, Shape, Calm, Fresh
        <3>6. player[d].state = "none" /\ player[d].wait = "no"
            BY <3>1, NoneFields
        <3> QED
            BY <3>2, <3>5, <3>6 DEF Held, Holds, InPlay
    <2> QED
        BY <2>1, <2>2
<1>4. LinksInv'
    BY <1>3, LinksKept DEF PlayerInv
<1>5. Heard'
    BY <1>3, HeardKept DEF PlayerInv
<1>6. Posted'
    BY <1>1, <1>3, PostsKept DEF PlayerInv
<1> QED
    BY <1>3, <1>4, <1>5, <1>6 DEF PlayerInv, OwnInv, MapFirst

LEMMA PlayersOnline ==
    ASSUME Inv, CoreInv, PlayerInv, Online, coreQ # <<>>, coreQ' = Tail(coreQ),
           UNCHANGED <<slot, freeQ, raced, netQ>>
    PROVE  PlayerInv'
<1> DEFINE s == Core.chan
           o == [chan |-> s, uid |-> dbList[s].dbid, conn |-> Core.conn]
<1>1. Framed /\ SeenGrows /\ UNCHANGED mapLoaded
    <2>1. Steady /\ SameBinds
        BY UntouchedKept, KeptSteady DEF Online
    <2> QED
        BY <2>1, FramedSteady DEF Online, SeenGrows
<1>2. CASE UNCHANGED player
    BY <1>1, <1>2, QuietStep
<1>3. CASE player' # player
    <2>1. Core = coreQ[1] /\ Core \in CoreMsg /\ 1 \in DOMAIN coreQ /\ Core.type = "ONLINE"
        BY TailQueue DEF Online
    <2>2. Core.conn \in DOMAIN conn /\ conn[Core.conn].chan = s /\ s \in Slot /\ Core.conn \in Conn
        BY <2>1, CoreMsgs DEF Packet, CoreInv, Mailbox, PacketSlot
    <2>3. dbList[s].dbid \in Account /\ mapLoaded /\ \E placed : player' = Added(<<o>>, placed).player
        BY <1>3 DEF Online
    <2>4. o \in Waiting /\ o.chan = s /\ o.conn = Core.conn
        BY <2>2, <2>3 DEF Waiting
    <2> HIDE DEF o
    <2>5. <<o>> \in Seq(Waiting) /\ DOMAIN <<o>> = {1} /\ <<o>>[1] = o
        BY <2>4
    <2>6. mapLoaded' = TRUE
        <3>1. mapLoaded \in BOOLEAN
            BY Parts DEF Inv, CoreOK
        <3> QED
            BY <1>1, <2>3, <3>1
    <2> QED
        BY <1>1, <2>2, <2>3, <2>4, <2>5, <2>6, PlayersAdded
<1> QED
    BY <1>2, <1>3

LEMMA PlayersMapLoaded == ASSUME Inv, CoreInv, PlayerInv, MapLoaded PROVE PlayerInv'
<1> DEFINE os == Append(Tail(onlines), Head(onlines))
<1>1. UNCHANGED netVars /\ SeenGrows /\ onlines # <<>> /\ mapLoaded' = TRUE
    BY DEF MapLoaded, SeenGrows
<1>2. Framed /\ UNCHANGED netQ
    <2>1. Steady /\ SameBinds
        BY <1>1, UntouchedKept, KeptSteady DEF netVars
    <2> QED
        BY <1>1, <2>1, FramedSteady DEF netVars
<1>3. os \in Seq(Waiting) /\ \A i \in DOMAIN os : \E g \in DOMAIN onlines : os[i] = onlines[g]
    BY <1>1, Rotated
<1> HIDE DEF os
<1>4. \A i \in DOMAIN os : os[i].conn \in DOMAIN conn /\ conn[os[i].conn].chan = os[i].chan
    BY <1>3 DEF CoreInv, WaitInv, WaitingSlot
<1>5. PICK placed : player' = Added(os, placed).player
    BY DEF MapLoaded, os
<1> QED
    BY <1>1, <1>2, <1>3, <1>4, <1>5, PlayersAdded

LEMMA PlayersCore == ASSUME Inv, CoreInv, PlayerInv, CoreActor PROVE PlayerInv'
<1>1. CASE CoreStep /\ Online
    BY <1>1, PlayersOnline DEF CoreStep
<1>2. CASE CoreStep /\ (Login \/ Gameplay \/ BadChannel \/ PlayerLogout)
    <2>1. UNCHANGED <<netQ, mapLoaded, player, seen>>
        BY <1>2 DEF CoreStep, Login, Gameplay, BadChannel, PlayerLogout
    <2>2. Steady /\ SameBinds
        <3>1. CASE Login
            BY <1>2, <3>1, LoginKept, KeptSteady DEF CoreStep
        <3>2. CASE Login = FALSE
            BY <1>2, <3>2, CoreKept, KeptSteady
        <3>3. Login \in BOOLEAN
            BY DEF Login
        <3> QED
            BY <3>1, <3>2, <3>3
    <2>3. Framed /\ SeenGrows
        BY <2>1, <2>2, FramedSteady DEF SeenGrows
    <2> QED
        BY <2>1, <2>3, QuietStep
<1>3. ASSUME NEW i \in DOMAIN polls, Poll(i) PROVE PlayerInv'
    <2>1. UNCHANGED <<netQ, mapLoaded, player, seen>> /\ SeenGrows
        BY <1>3 DEF Poll, SeenGrows
    <2>2. Steady /\ SameBinds
        BY <1>3, CoreKept, KeptSteady
    <2>3. Framed
        BY <2>2, FramedSteady
    <2> QED
        BY <2>1, <2>3, QuietStep
<1> QED
    BY <1>1, <1>2, <1>3, PlayersMapLoaded DEF CoreActor, CoreStep

LEMMA PlayersStay == ASSUME Inv, CoreInv, PlayerInv, [Next]_vars, fault' = None PROVE PlayerInv'
<1>1. CASE UNCHANGED vars
    <2>1. Steady /\ SameBinds /\ SeenGrows /\ UNCHANGED <<netQ, mapLoaded, player>>
        BY <1>1, UntouchedKept, KeptSteady DEF vars, netVars, coreVars, SeenGrows
    <2> QED
        BY <2>1, FramedSteady, QuietStep
<1>2. CASE Accept
    <2>1. SeenGrows /\ UNCHANGED <<netQ, mapLoaded, player>>
        BY <1>2 DEF Accept, coreVars, SeenGrows
    <2> QED
        BY <1>2, <2>1, FramedAccept, QuietStep
<1>3. CASE Channels
    BY <1>3, PlayersReader, PlayersSocket DEF Channels
<1>4. CASE RunPosted
    <2>1. Head(netQ).op \in {"bind", "unbind", "close"}
        BY <1>4 DEF RunPosted
    <2> QED
        BY <1>4, <2>1, PlayersBind, PlayersUnbind, PlayersClose
<1> QED
    BY <1>1, <1>2, <1>3, <1>4, PlayersCore, PlayersTurn DEF Next

LEMMA PlayersInit == Init => PlayerInv
<1> SUFFICES ASSUME Init PROVE PlayerInv
    OBVIOUS
<1>1. /\ \A d \in Account : player[d] = NoPlayer
      /\ conn = <<>> /\ netQ = <<>>
    BY DEF Init
<1>2. OwnInv /\ MapFirst
    BY <1>1, NoneFields DEF OwnInv, Own, MapFirst
<1>3. Posted /\ Bound /\ BoundFor
    BY <1>1 DEF Posted, Bound, BoundFor
<1>4. Binds /\ Heard
    BY <1>1, NoneFields DEF Binds, Heard, Holds, InPlay
<1> QED
    BY <1>2, <1>3, <1>4 DEF PlayerInv, LinksInv

----------------------------------------------------------------------------
(* The marks of m_dbidList, as long as no assertion has failed.             *)

Mark(s, d) == dbList[s].dbid = d /\ dbList[s].online = TRUE

(* The account of a player whose connection is open is in the entry of its  *)
(* slot, which is marked unless a CM_ONLINE that made no player took the    *)
(* mark away.                                                               *)
Claim(s, d) == dbList[s].dbid = d /\ ("unmarked" \in seen \/ dbList[s].online = TRUE)
Strayed == {"unmarked", "lateOnline"} \subseteq seen
Marked == Strayed \/ \A d \in Account, k \in DOMAIN conn, s \in Slot :
    player[d].state # "none" /\ player[d].for = k /\ Open(k) /\ conn[k].chan = s => Claim(s, d) /\ ~Closing(s)

\* The core will clear the mark of a player that has logged out.
Reported(s, d) ==
    \/ \E i \in DOMAIN coreQ : coreQ[i].type = "PLAYERLOGOUT" /\ coreQ[i].chan = s /\ coreQ[i].uid = d
    \/ \E i \in DOMAIN polls : polls[i].chan = s /\ polls[i].uid = d

\* Who will clear it: the player, that has not been told of the end of its channel.
BackedBy(s, d) ==
    \/ /\ player[d].state = "live" /\ conn[player[d].for].chan = s
       /\ ~Has(player[d].inbox, "BADCHANNEL")
    \/ player[d].state = "offline" /\ player[d].soft = s
    \/ player[d].state \in {"detached", "none"} /\ Reported(s, d)
Backed == "lateOnline" \in seen \/ \A s \in Slot, d \in Account :
    Mark(s, d) /\ ~Closing(s) => BackedBy(s, d)

\* A client that plays has logged in, and so has one that logs out.
InGame == Late \/ \A c \in DOMAIN conn : Open(c) /\ conn[c].client = "game" => conn[c].acct # None
Logouts == Late \/ \A i \in DOMAIN coreQ : coreQ[i].type = "LOGOUT" =>
    /\ dbList[coreQ[i].chan].dbid \in Account
    /\ \A j \in DOMAIN coreQ : j < i => ~Bad(j, coreQ[i].chan)
MarkInv == Marked /\ Backed /\ InGame /\ Logouts

LEMMA StrayedGrows == ASSUME SeenGrows PROVE (Strayed => Strayed') /\ (Strayed => Late)
BY DEF SeenGrows, Strayed, Late

LEMMA LateGrows == ASSUME SeenGrows PROVE (Late => Late') /\ (Stale => Late)
BY DEF SeenGrows, Late, Stale

LEMMA MarkKept == ASSUME UNCHANGED dbList, NEW s, NEW d PROVE Mark(s, d)' <=> Mark(s, d)
BY DEF Mark

LEMMA ClaimKept == ASSUME UNCHANGED dbList, SeenGrows, NEW s, NEW d, Claim(s, d) PROVE Claim(s, d)'
BY DEF Claim, SeenGrows

LEMMA InGameKept ==
    ASSUME InGame, SeenGrows,
           \A c \in DOMAIN conn' : Open(c)' /\ conn'[c].client = "game" =>
               /\ c \in DOMAIN conn /\ Open(c) /\ conn[c].client = "game"
               /\ conn[c].acct # None => conn'[c].acct # None
    PROVE  InGame'
<1>1. CASE Late
    BY <1>1, LateGrows DEF InGame
<1>2. CASE ~Late
    <2>1. \A c \in DOMAIN conn : Open(c) /\ conn[c].client = "game" => conn[c].acct # None
        BY <1>2 DEF InGame
    <2>2. \A c \in DOMAIN conn' : Open(c)' /\ conn'[c].client = "game" => conn'[c].acct # None
        BY <2>1
    <2> QED
        BY <2>2 DEF InGame, Open
<1> QED
    BY <1>1, <1>2

LEMMA InGameOutside ==
    ASSUME InGame, SeenGrows, ConnsAge, NoneEnters,
           \A c \in DOMAIN conn' : c \notin DOMAIN conn => conn'[c].client = "login"
    PROVE  InGame'
BY InGameKept DEF ConnsAge, NoneEnters

LEMMA MarkedKept ==
    ASSUME OwnInv, Marked, SeenGrows, ConnsAge,
           \A s : Closing(s)' => Closing(s) \/ \A c \in DOMAIN conn : Open(c)' => conn[c].chan # s,
           \A d \in Account : player'[d].state # "none" =>
               /\ player[d].state # "none" /\ player'[d].for = player[d].for
               /\ \A s : Claim(s, d) /\ ~Closing(s) => Claim(s, d)'
    PROVE  Marked'
<1>1. ASSUME ~Strayed', NEW d \in Account, NEW k \in DOMAIN conn', NEW s \in Slot, player'[d].state # "none",
             player'[d].for = k, Open(k)', conn'[k].chan = s
      PROVE  Claim(s, d)' /\ ~Closing(s)'
    <2>1. player[d].state # "none" /\ k = player[d].for /\ k \in DOMAIN conn
        BY <1>1, ForConn
    <2>2. Open(k) /\ s = conn[k].chan
        BY <1>1, <2>1 DEF ConnsAge
    <2>3. Claim(s, d) /\ ~Closing(s)
        BY <1>1, <2>1, <2>2, StrayedGrows DEF Marked
    <2> QED
        BY <1>1, <2>1, <2>2, <2>3
<1> QED
    BY ONLY <1>1 DEF Marked

LEMMA BackedKept ==
    ASSUME Backed, SeenGrows,
           \A s \in Slot, d \in Account : Mark(s, d)' /\ ~Closing(s)' =>
               Mark(s, d) /\ ~Closing(s) /\ (BackedBy(s, d) => BackedBy(s, d)')
    PROVE  Backed'
<1>1. ASSUME "lateOnline" \notin seen', NEW s \in Slot, NEW d \in Account, Mark(s, d)', ~Closing(s)'
      PROVE  BackedBy(s, d)'
    <2>1. "lateOnline" \notin seen
        BY <1>1 DEF SeenGrows
    <2> QED
        BY <1>1, <2>1 DEF Backed
<1> QED
    BY ONLY <1>1, Zenon DEF Backed

LEMMA LogoutsOutside ==
    ASSUME Inv, Logouts, SeenGrows, UNCHANGED dbList,
           \/ UNCHANGED coreQ
           \/ \E m \in CoreMsg : /\ coreQ' = Append(coreQ, m)
                                 /\ m.type = "LOGOUT" =>
                                      Late' \/ (dbList[m.chan].dbid \in Account /\ ~Closing(m.chan))
    PROVE  Logouts'
<1> SUFFICES ASSUME ~Late', NEW i \in DOMAIN coreQ', coreQ'[i].type = "LOGOUT", NEW s, s = coreQ'[i].chan
             PROVE  /\ dbList'[s].dbid \in Account
                    /\ \A j \in DOMAIN coreQ' : j < i => ~Bad(j, s)'
    BY DEF Logouts, Bad
<1>1. ~Late
    BY LateGrows
<1>2. CASE UNCHANGED coreQ
    BY <1>1, <1>2 DEF Logouts, Bad
<1>3. CASE \E m \in CoreMsg : /\ coreQ' = Append(coreQ, m)
                              /\ m.type = "LOGOUT" =>
                                   Late' \/ (dbList[m.chan].dbid \in Account /\ ~Closing(m.chan))
    <2>1. PICK m \in CoreMsg : /\ coreQ' = Append(coreQ, m)
                               /\ m.type = "LOGOUT" =>
                                    Late' \/ (dbList[m.chan].dbid \in Account /\ ~Closing(m.chan))
        BY <1>3
    <2> DEFINE n == Len(coreQ) + 1
    <2>2. /\ n \notin DOMAIN coreQ /\ DOMAIN coreQ' = DOMAIN coreQ \cup {n}
          /\ coreQ'[n] = m /\ \A j \in DOMAIN coreQ : j < n /\ coreQ'[j] = coreQ[j]
          /\ DOMAIN coreQ' \subseteq Nat
        BY <2>1, AppendQueue
    <2> HIDE DEF n
    <2>3. CASE i = n
        BY <2>1, <2>2, <2>3 DEF Closing, Bad
    <2>4. CASE i \in DOMAIN coreQ
        <3>1. /\ coreQ[i].type = "LOGOUT" /\ s = coreQ[i].chan /\ dbList[s].dbid \in Account
              /\ \A j \in DOMAIN coreQ : j < i => ~Bad(j, s)
            BY <1>1, <2>2, <2>4 DEF Logouts
        <3>2. ASSUME NEW j \in DOMAIN coreQ', j < i PROVE j \in DOMAIN coreQ
            BY <2>2, <2>4, <3>2
        <3> QED
            BY <2>2, <3>1, <3>2 DEF Bad
    <2> QED
        BY <2>2, <2>3, <2>4
<1> QED
    BY <1>2, <1>3

LEMMA LogoutsReads ==
    ASSUME Inv, Logouts, SeenGrows, CoreReads,
           \A s \in Slot : dbList[s].dbid \in Account =>
               dbList'[s].dbid \in Account \/ (coreQ # <<>> /\ coreQ' = Tail(coreQ) /\ Bad(1, s))
    PROVE  Logouts'
<1> SUFFICES ASSUME ~Late', NEW i \in DOMAIN coreQ', coreQ'[i].type = "LOGOUT", NEW s, s = coreQ'[i].chan
             PROVE  /\ dbList'[s].dbid \in Account
                    /\ \A j \in DOMAIN coreQ' : j < i => ~Bad(j, s)'
    BY DEF Logouts, Bad
<1>1. ~Late
    BY LateGrows
<1>2. ASSUME NEW g \in DOMAIN coreQ PROVE coreQ[g].chan \in Slot
    <2>1. coreQ[g] \in CoreMsg
        BY Parts DEF Inv, QueueOK
    <2> QED
        BY <2>1, CoreMsgs
<1>3. CASE coreQ # <<>> /\ coreQ' = Tail(coreQ)
    <2>1. i + 1 \in DOMAIN coreQ /\ coreQ'[i] = coreQ[i + 1] /\ i \in Nat \ {0} /\ 1 \in DOMAIN coreQ
        BY <1>3, TailQueue
    <2>2. /\ s \in Slot /\ dbList[s].dbid \in Account
          /\ \A j \in DOMAIN coreQ : j < i + 1 => ~Bad(j, s)
        BY <1>1, <1>2, <2>1 DEF Logouts
    <2>3. dbList'[s].dbid \in Account
        BY <2>1, <2>2
    <2>4. ASSUME NEW j \in DOMAIN coreQ', j < i PROVE ~Bad(j, s)'
        <3>1. j + 1 \in DOMAIN coreQ /\ coreQ'[j] = coreQ[j + 1] /\ j \in Nat
            BY <1>3, TailQueue
        <3>2. j + 1 < i + 1
            BY <2>1, <2>4, <3>1
        <3>3. ~Bad(j + 1, s)
            BY <2>2, <3>1, <3>2
        <3> QED
            BY <3>1, <3>3 DEF Bad
    <2> QED
        BY <2>3, <2>4
<1>4. CASE UNCHANGED coreQ /\ ~(coreQ # <<>> /\ coreQ' = Tail(coreQ))
    BY <1>1, <1>2, <1>4 DEF Logouts, Bad
<1> QED
    BY <1>3, <1>4 DEF CoreReads

----------------------------------------------------------------------------
(* MarkInv, in the steps of the net thread.                                 *)

LEMMA MarksOutside ==
    ASSUME Inv, OwnInv, MarkInv, SeenGrows, ConnsAge, QueueGrows, UNCHANGED dbList, InGame', Logouts',
           \A d \in Account : player'[d].state # "none" =>
               player[d].state # "none" /\ player'[d].for = player[d].for,
           \A s \in Slot, d \in Account : BackedBy(s, d) /\ ~Closing(s)' => BackedBy(s, d)'
    PROVE  MarkInv'
<1>1. \A s : /\ Closing(s) => Closing(s)'
             /\ Closing(s)' => Closing(s) \/ \A c \in DOMAIN conn : Open(c)' => conn[c].chan # s
    BY GrowsClosing
<1>2. \A s, d : Mark(s, d)' <=> Mark(s, d)
    BY MarkKept
<1>3. Marked'
    BY <1>1, ClaimKept, MarkedKept DEF MarkInv
<1>4. Backed'
    BY <1>1, <1>2, BackedKept DEF MarkInv
<1> QED
    BY <1>3, <1>4 DEF MarkInv

LEMMA ReportedKept ==
    ASSUME QueueGrows, UNCHANGED polls, NEW s, NEW d, Reported(s, d)
    PROVE  Reported(s, d)'
BY DEF QueueGrows, Reported

\* A player that keeps its state and its channel.
LEMMA BackedSame ==
    ASSUME OwnInv, SameSlots, QueueGrows, UNCHANGED polls, NEW s, NEW d \in Account, BackedBy(s, d),
           player'[d].state = player[d].state, player'[d].for = player[d].for, player'[d].soft = player[d].soft,
           Has(player'[d].inbox, "BADCHANNEL") => Has(player[d].inbox, "BADCHANNEL")
    PROVE  BackedBy(s, d)'
<1>1. CASE player[d].state = "live"
    <2>1. player[d].for \in DOMAIN conn
        BY <1>1, ForConn
    <2>2. conn'[player'[d].for].chan = s /\ ~Has(player'[d].inbox, "BADCHANNEL") /\ player'[d].state = "live"
        BY <1>1, <2>1 DEF BackedBy, SameSlots
    <2> QED
        BY <2>2 DEF BackedBy, Has
<1>2. CASE player[d].state # "live"
    BY <1>2, ReportedKept DEF BackedBy
<1> QED
    BY <1>1, <1>2

LEMMA MarksAccept == ASSUME Inv, OwnInv, MarkInv, Accept PROVE MarkInv'
<1>1. SeenGrows /\ UNCHANGED <<coreQ, dbList, polls, player>>
    BY DEF Accept, coreVars, SeenGrows
<1>2. ConnsAge /\ QueueGrows
    BY <1>1, AcceptAge, GrowsKept
<1>3. SameSlots
    BY <1>2 DEF SameSlots, ConnsAge
<1>4. InGame'
    <2>1. conn' = Append(conn, NewConn(Head(freeQ))) /\ conn \in Seq(ConnState)
        BY Parts DEF Accept, Inv, NetOK
    <2>2. \A c \in DOMAIN conn' : c \notin DOMAIN conn => conn'[c].client = "login"
        <3> DEFINE e == NewConn(Head(freeQ))
        <3>1. e.client = "login"
            BY DEF NewConn
        <3> HIDE DEF e
        <3>2. \A c \in DOMAIN conn' : c \notin DOMAIN conn => conn'[c] = e
            BY <2>1 DEF e
        <3> QED
            BY <3>1, <3>2
    <2>3. NoneEnters
        BY AcceptOpen DEF NoneEnters
    <2> QED
        BY <1>1, <1>2, <2>2, <2>3, InGameOutside DEF MarkInv
<1>5. Logouts'
    BY <1>1, LogoutsOutside DEF MarkInv
<1>6. \A s \in Slot, d \in Account : BackedBy(s, d) => BackedBy(s, d)'
    BY <1>1, <1>2, <1>3, BackedSame
<1> QED
    BY <1>1, <1>2, <1>4, <1>5, <1>6, MarksOutside

LEMMA ReaderFields ==
    ASSUME Inv, NEW k \in DOMAIN conn, NEW m \in ClientMsg, Forward(k, m), NEW d \in Account
    PROVE  /\ player'[d].state = player[d].state /\ player'[d].for = player[d].for
           /\ player'[d].soft = player[d].soft
           /\ Has(player'[d].inbox, "BADCHANNEL") => Has(player[d].inbox, "BADCHANNEL")
<1>1. CASE player' = player
    BY <1>1
<1>2. CASE conn[k].uid # None /\ player' = Deliver(player, conn[k].uid, m)
    <2>1. /\ conn[k].uid \in Account /\ player \in Players /\ m \in PlayerMsg
          /\ m.type \in {"LOGIN", "ONLINE", "LOGOUT"}
        BY <1>2, PlayerTypes, Parts DEF Inv, PlayerOK, PlayerMsg, ClientMsg
    <2>2. /\ player'[d].state = player[d].state /\ player'[d].for = player[d].for
          /\ player'[d].soft = player[d].soft
          /\ \/ player'[d] = player[d]
             \/ player'[d].inbox = Append(player[d].inbox, m)
        BY <1>2, <2>1, DeliverFields
    <2>3. Has(Append(player[d].inbox, m), "BADCHANNEL") => Has(player[d].inbox, "BADCHANNEL")
        BY <2>1, PlayerTypes, CalmAppend
    <2> QED
        BY <2>2, <2>3
<1> QED
    BY <1>1, <1>2 DEF Forward

LEMMA MarksReader ==
    ASSUME Inv, CoreInv, OwnInv, MarkInv, NEW k \in DOMAIN conn, NEW m \in ClientMsg, Recv(k, m) \/ RecvLate(k, m)
    PROVE  MarkInv'
<1>1. /\ SocketsKept /\ SameBinds /\ SameAccts /\ NoneEnters /\ Steady
    BY ReaderKept, KeptSteady
<1>2. /\ SeenGrows /\ UNCHANGED <<dbList, polls>> /\ Forward(k, m)
      /\ Late' \/ (Open(k) /\ MaySend(k, m))
    BY DEF Recv, RecvLate, SeenGrows, Late
<1>3. ConnsAge /\ SameSlots
    BY <1>1, SteadyAge, ConnsStay DEF SameSlots
<1>4. InGame'
    BY <1>1, <1>2, <1>3, ConnsStay, InGameOutside DEF MarkInv
<1>5. k \in Conn /\ conn[k].chan \in Slot /\ conn[k].acct \in Account \cup {None}
    <2>1. conn[k] \in ConnState /\ k \in Conn
        BY Parts, SessionAssumption DEF Inv, NetOK, Conn
    <2> QED
        BY <2>1 DEF ConnState
<1> DEFINE c == ToCore(k, m)
<1>6. /\ c \in CoreMsg /\ c.chan = conn[k].chan /\ c.conn = k /\ c.type = m.type
      /\ c.type \in {"LOGIN", "ONLINE", "LOGOUT"}
    BY <1>5 DEF ToCore, CoreMsg, ClientMsg
<1>7. UNCHANGED coreQ \/ coreQ' = Append(coreQ, c)
    BY <1>2 DEF Forward
<1> HIDE DEF c
<1>8. QueueGrows
    <2>1. Open(k) \/ Stale'
        BY DEF Recv, RecvLate, Stale
    <2> QED
        BY <1>6, <1>7, <2>1, GrowsKept, GrowsAppend
<1>9. Logouts'
    <2>1. ASSUME m.type = "LOGOUT", ~Late'
          PROVE  dbList[conn[k].chan].dbid \in Account /\ ~Closing(conn[k].chan)
        <3>1. Open(k) /\ conn[k].client = "game" /\ ~Late
            BY <1>2, <2>1, LateGrows DEF MaySend
        <3>2. conn[k].acct # None
            BY <3>1 DEF MarkInv, InGame
        <3> QED
            BY <1>5, <3>1, <3>2 DEF CoreInv, EntryInv, LoggedIn
    <2> QED
        BY <1>2, <1>6, <1>7, <2>1, LogoutsOutside DEF MarkInv
<1>10. \A s \in Slot, d \in Account : BackedBy(s, d) => BackedBy(s, d)'
    BY <1>2, <1>3, <1>8, BackedSame, ReaderFields
<1> QED
    BY <1>2, <1>3, <1>4, <1>8, <1>9, <1>10, MarksOutside, ReaderFields

LEMMA MarksCloses ==
    ASSUME Inv, PlayerInv, MarkInv, NEW s \in Slot, NEW cs, SameConns(cs), NEW ps, DoClose(s, cs, ps),
           SameConns(conn'),
           \A c \in DOMAIN conn : cs[c].acct = conn[c].acct /\ (cs[c].client = "game" => conn[c].client = "game"),
           NEW d, CloseSeen(s, d), UNCHANGED <<seen, dbList, polls>>
    PROVE  MarkInv'
<1>1. SeenGrows
    BY DEF SeenGrows
<1>2. /\ ConnsAge /\ QueueGrows /\ NoneEnters /\ DOMAIN conn' = DOMAIN conn
      /\ slot[s] # None => Closing(s)'
      /\ \/ UNCHANGED coreQ
         \/ coreQ' = Append(coreQ, [type |-> "BADCHANNEL", chan |-> s])
    <2>1. DOMAIN conn' = DOMAIN conn
        BY DEF CloseSeen
    <2>2. CASE slot[s] = None
        <3>1. Steady /\ SameAccts /\ NoneEnters /\ UNCHANGED coreQ
            BY <2>2 DEF DoClose, Steady, SameAccts, NoneEnters
        <3> QED
            BY <2>1, <2>2, <3>1, SteadyAge, GrowsKept
    <2>3. CASE slot[s] # None
        <3>1. NoneEnters
            <4>1. Closed(s, cs, ps)
                BY <2>3, CloseFields
            <4> SUFFICES ASSUME NEW c \in DOMAIN conn, conn'[c].client = "game" PROVE conn[c].client = "game"
                BY DEF NoneEnters
            <4>2. conn'[c].client = cs[c].client
                BY <4>1 DEF Closed
            <4> QED
                BY <4>2
        <3> QED
            BY <2>1, <2>3, <3>1, CloseAges
    <2> QED
        BY <2>2, <2>3
<1>3. SameSlots
    BY DEF SameSlots, CloseSeen
<1>4. InGame'
    BY <1>1, <1>2, InGameOutside DEF MarkInv
<1>5. Logouts'
    <2> DEFINE m == [type |-> "BADCHANNEL", chan |-> s]
    <2>1. m \in CoreMsg /\ m.type # "LOGOUT"
        BY DEF CoreMsg
    <2> HIDE DEF m
    <2>2. UNCHANGED coreQ \/ \E c \in CoreMsg : coreQ' = Append(coreQ, c) /\ c.type # "LOGOUT"
        BY <1>2, <2>1 DEF m
    <2> QED
        BY <1>1, <2>2, LogoutsOutside DEF MarkInv
<1>6. ASSUME NEW t \in Slot, NEW e \in Account, BackedBy(t, e), ~Closing(t)'
      PROVE  BackedBy(t, e)'
    <2>1. /\ player'[e].state = player[e].state /\ player'[e].for = player[e].for
          /\ player'[e].soft = player[e].soft
          /\ \/ player'[e].inbox = player[e].inbox
             \/ slot[s] \in DOMAIN conn /\ conn[slot[s]].uid = e
        BY DEF CloseSeen
    <2>2. CASE player'[e].inbox = player[e].inbox \/ player[e].state # "live"
        <3>1. CASE player'[e].inbox = player[e].inbox
            BY <1>2, <1>3, <1>6, <2>1, <3>1, BackedSame DEF PlayerInv
        <3>2. CASE player[e].state # "live"
            BY <1>2, <1>6, <2>1, <3>2, ReportedKept DEF BackedBy
        <3> QED
            BY <2>2, <3>1, <3>2
    <2>3. CASE slot[s] \in DOMAIN conn /\ conn[slot[s]].uid = e /\ player[e].state = "live"
        <3>1. e # None /\ slot[s] # None
            BY <2>3, PlayerTypes
        <3>2. conn[player[e].for].chan = conn[slot[s]].chan
            BY <2>3, <3>1 DEF PlayerInv, LinksInv, Bound
        <3>3. conn[slot[s]].chan = s
            BY <3>1 DEF Inv, NumbersConserved
        <3>4. t = s
            BY <1>6, <2>3, <3>2, <3>3 DEF BackedBy
        <3> QED
            BY <1>2, <1>6, <3>1, <3>4
    <2> QED
        BY <2>1, <2>2, <2>3
<1>7. \A e \in Account : player'[e].state = player[e].state /\ player'[e].for = player[e].for
    BY DEF CloseSeen
<1> QED
    BY <1>1, <1>2, <1>4, <1>5, <1>6, <1>7, MarksOutside DEF PlayerInv

LEMMA MarksSocket ==
    ASSUME Inv, PlayerInv, MarkInv, NEW k \in DOMAIN conn, NEW l \in Loops, Break(k, l) \/ Abort(k, l)
    PROVE  MarkInv'
<1> DEFINE s == conn[k].chan
<1>1. PICK cs : CloseOf(k, cs)
    BY SocketCloses
<1>2. /\ SameConns(cs) /\ DoClose(s, cs, player)
      /\ \A c \in DOMAIN conn : /\ cs[c].uid = conn[c].uid /\ cs[c].acct = conn[c].acct
                                /\ cs[c].client = "game" => conn[c].client = "game"
    BY <1>1 DEF CloseOf
<1>3. s \in Slot /\ player \in Players
    BY PlayerTypes, Parts DEF Inv, PlayerOK
<1>4. SameConns(conn')
    BY <1>2, <1>3, CloseStep
<1>5. UNCHANGED <<seen, dbList, polls>>
    BY DEF Break, Abort
<1> HIDE DEF s
<1>6. CloseSeen(s, None)
    <2>1. Waker(None, s, player)
        BY DEF Waker
    <2> QED
        BY <1>2, <1>3, <1>4, <2>1, CloseView
<1> QED
    BY <1>2, <1>3, <1>4, <1>5, <1>6, MarksCloses

LEMMA MarksClose == ASSUME Inv, PlayerInv, MarkInv, RunPosted, Head(netQ).op = "close" PROVE MarkInv'
<1> DEFINE p  == Head(netQ)
           ps == [player EXCEPT ![p.uid].wait = "no"]
<1>1. /\ p.chan \in Slot /\ p.uid \in Account /\ ps \in Players /\ DoClose(p.chan, conn, ps)
      /\ SameConns(conn) /\ SameConns(conn') /\ UNCHANGED <<dbList, polls, seen>>
    BY PostedCloses
<1>2. CloseSeen(p.chan, p.uid)
    BY PostedView
<1> HIDE DEF p, ps
<1> QED
    BY <1>1, <1>2, MarksCloses

\* A step of d, or of the net thread on its behalf.
LEMMA MarksTurn ==
    ASSUME Inv, OwnInv, MarkInv, NEW d \in Account, Steady, SameAccts, SeenGrows, UNCHANGED <<dbList, polls>>,
           UNCHANGED coreQ \/ \E m \in CoreMsg : coreQ' = Append(coreQ, m) /\ m.type = "PLAYERLOGOUT",
           InGame', \A e \in Account : e # d => player'[e] = player[e],
           player'[d].state # "none" => player[d].state # "none" /\ player'[d].for = player[d].for,
           \A s \in Slot : BackedBy(s, d) => BackedBy(s, d)'
    PROVE  MarkInv'
<1>1. ConnsAge /\ SameSlots
    BY SteadyAge, ConnsStay DEF SameSlots
<1>2. QueueGrows
    BY GrowsKept, GrowsAppend
<1>3. Logouts'
    BY LogoutsOutside DEF MarkInv
<1>4. \A s \in Slot, e \in Account : BackedBy(s, e) => BackedBy(s, e)'
    BY <1>1, <1>2, BackedSame
<1> QED
    BY <1>1, <1>2, <1>3, <1>4, MarksOutside

\* The player d keeps its state, and reads no more than it had.
LEMMA MarksSame ==
    ASSUME Inv, OwnInv, MarkInv, NEW d \in Account, Steady, SameAccts, SeenGrows, UNCHANGED <<dbList, polls, coreQ>>,
           InGame', NEW ch, NEW w, NEW q, Turns(d, player[d].state, ch, w, player[d].soft, q),
           Has(q, "BADCHANNEL") => Has(player[d].inbox, "BADCHANNEL")
    PROVE  MarkInv'
<1>1. SameSlots /\ QueueGrows
    BY ConnsStay, GrowsKept DEF SameSlots
<1>2. \A s \in Slot : BackedBy(s, d) => BackedBy(s, d)'
    BY <1>1, BackedSame DEF Turns
<1> QED
    BY <1>2, MarksTurn DEF Turns

LEMMA MarksPosted ==
    ASSUME Inv, PlayerInv, MarkInv, RunPosted, Head(netQ).op # "close"
    PROVE  MarkInv'
<1> DEFINE s == Head(netQ).chan
           d == Head(netQ).uid
<1>1. Steady /\ SameAccts /\ NoneEnters
    BY PostedKept, KeptSteady
<1>2. /\ d \in Account /\ SeenGrows /\ UNCHANGED <<coreQ, dbList, polls>>
      /\ \E w : player' = [player EXCEPT ![d].wait = w]
    <2>1. d \in Account
        BY PostsHead DEF PlayerInv, RunPosted
    <2> QED
        BY <2>1 DEF RunPosted, RunBind, RunUnbind, SeenGrows
<1> HIDE DEF s, d
<1>3. PICK w : player' = [player EXCEPT ![d].wait = w]
    BY <1>2
<1>4. Turns(d, player[d].state, player[d].chan, w, player[d].soft, player[d].inbox)
    BY <1>2, <1>3, WaitTurns
<1>5. InGame'
    BY <1>1, <1>2, SteadyAge, ConnsStay, InGameOutside DEF MarkInv
<1> QED
    BY <1>1, <1>2, <1>4, <1>5, MarksSame DEF PlayerInv

----------------------------------------------------------------------------
(* MarkInv, in the steps of the players.                                    *)

LEMMA OwnSteps ==
    ASSUME Inv, MarkInv, NEW d \in Account, PlayerStep(d)
    PROVE  /\ Steady /\ SameAccts /\ SeenGrows /\ UNCHANGED <<dbList, polls>>
           /\ OnlineOK(d) \/ InGame'
<1>1. NoneEnters \/ OnlineOK(d)
    BY PlayerKept, KeptSteady
<1>2. SeenGrows /\ UNCHANGED <<dbList, polls>>
    BY DEF PlayerStep, BindChannel, LostChannel, RequestLogout, OtherPacket, Ignore, OnlineOK,
           Deactivate, Erase, SeenGrows, coreVars
<1>3. ConnsAge /\ DOMAIN conn' = DOMAIN conn
    BY <1>1, PlayerKept, KeptSteady, SteadyAge, ConnsStay
<1>4. Steady /\ SameAccts
    BY PlayerKept, KeptSteady
<1>5. ASSUME NoneEnters PROVE InGame'
    BY <1>2, <1>3, <1>5, InGameOutside DEF MarkInv
<1> QED
    BY <1>1, <1>2, <1>4, <1>5

\* A player that reads its mail and stays what it is.
LEMMA MarksTaken ==
    ASSUME Inv, PlayerInv, MarkInv, NEW d \in Account, PlayerStep(d), NEW type, Idle(d, type),
           OnlineOK(d) = FALSE, UNCHANGED coreQ,
           NEW ch, NEW w, Turns(d, player[d].state, ch, w, player[d].soft, Tail(player[d].inbox))
    PROVE  MarkInv'
<1>1. player[d].inbox \in Seq(PlayerMsg) /\ player[d].inbox # <<>>
    BY IdleFacts DEF PlayerInv
<1>2. Has(Tail(player[d].inbox), "BADCHANNEL") => Has(player[d].inbox, "BADCHANNEL")
    BY <1>1, CalmTail
<1> QED
    BY <1>2, OwnSteps, MarksSame DEF PlayerInv

\* goOffline: of a log-out the player will report, of a lost channel the core knows.
LEMMA MarksGoOffline ==
    ASSUME Inv, PlayerInv, MarkInv, NEW d \in Account, PlayerStep(d), NEW type, Idle(d, type),
           OnlineOK(d) = FALSE, UNCHANGED coreQ,
           NEW soft \in BOOLEAN, GoOffline(d, soft), player[d].chan # None, player[d].chan # 0,
           soft = FALSE => type = "BADCHANNEL"
    PROVE  MarkInv'
<1> DEFINE s == conn[player[d].for].chan
           q == player[d].inbox
<1>1. /\ player[d].for \in DOMAIN conn /\ s \in Slot /\ Shape(player[d], s)
      /\ player[d].state \in {"live", "offline"}
      /\ q \in Seq(PlayerMsg) /\ q # <<>> /\ Head(q).type = type
    BY IdleFacts DEF PlayerInv
<1>2. type = "BADCHANNEL" => Has(q, "BADCHANNEL")
    BY <1>1, CalmTail
<1>3. player[d].state = "live" /\ player[d].chan = s
    BY <1>1 DEF Shape
<1>4. Turns(d, "offline", 0, IF soft THEN "unbind" ELSE "close", IF soft THEN player[d].chan ELSE None, Tail(q))
    BY OfflineTurns
<1>5. ASSUME NEW t \in Slot, BackedBy(t, d) PROVE BackedBy(t, d)'
    <2>1. t = s /\ ~Has(q, "BADCHANNEL")
        BY <1>3, <1>5 DEF BackedBy
    <2>2. soft = TRUE
        BY <1>2, <2>1
    <2>3. player'[d].state = "offline" /\ player'[d].soft = t
        BY <1>3, <1>4, <2>1, <2>2 DEF Turns
    <2> QED
        BY <2>3 DEF BackedBy
<1>6. player[d].state # "none" /\ player'[d].for = player[d].for /\ \A e \in Account : e # d => player'[e] = player[e]
    BY <1>3, <1>4 DEF Turns
<1> QED
    BY <1>5, <1>6, OwnSteps, MarksTurn DEF PlayerInv

\* postOnlineOK: the client of the connection the player was made for has logged in.
LEMMA MarksOnlineOK ==
    ASSUME Inv, CoreInv, PlayerInv, MarkInv, NEW d \in Account, OnlineOK(d)
    PROVE  MarkInv'
<1> DEFINE k == player[d].for
           s == player[d].chan
<1>1. /\ player[d].wait = "bound" /\ player' = [player EXCEPT ![d].wait = "no"] /\ UNCHANGED coreQ
      /\ conn' = Tell(conn, s, "game") /\ UNCHANGED <<slot, freeQ, raced>> /\ PlayerStep(d)
      /\ slot[s] # k => Late'
    BY DEF OnlineOK, PlayerStep, coreVars, Late
<1>2. k \in DOMAIN conn /\ Shape(player[d], conn[k].chan) /\ conn[k].chan \in Slot
    BY <1>1, WaitsFor, PlayerTypes DEF PlayerInv
<1>3. player[d].state = "live" /\ s = conn[k].chan
    <2>1. player[d].state \in {"none", "live", "offline", "detached"} /\ player[d].state # "none"
        BY <1>1, PlayerTypes, NoneFields DEF PlayerInv, OwnInv, Own, PlayerState
    <2> QED
        BY <1>1, <1>2, <2>1 DEF Shape
<1>4. Turns(d, player[d].state, s, "no", player[d].soft, player[d].inbox)
    BY <1>1, WaitTurns
<1> HIDE DEF k, s
<1>5. Steady /\ SameAccts /\ SeenGrows
    BY <1>1, OwnSteps
<1>6. InGame'
    <2>1. CASE Late'
        BY <2>1 DEF InGame
    <2>2. CASE ~Late'
        <3>1. ~Late /\ ~Stale /\ slot[s] = k
            BY <1>1, <1>5, <2>2, LateGrows
        <3>2. Claim(s, d) /\ ~Closing(s)
            BY <1>2, <1>3, <3>1, StrayedGrows, <1>5 DEF MarkInv, Marked, Open, k
        <3>3. PICK n \in DOMAIN conn : Owned(s, n)
            BY <1>2, <1>3, <3>1, <3>2, PlayerTypes DEF CoreInv, EntryInv, EntryOwned, Claim
        <3>4. conn[k].acct # None
            BY <3>1, <3>2, <3>3, PlayerTypes DEF Owned, Claim
        <3>5. \A c \in DOMAIN conn : conn'[c].client = conn[c].client \/ slot[s] = c
            <4>1. "game" \in Phases
                BY DEF Phases
            <4> QED
                BY <1>1, <4>1, ToldKept
        <3>6. ASSUME NEW c \in DOMAIN conn', Open(c)', conn'[c].client = "game"
              PROVE  conn'[c].acct # None
            <4>1. c \in DOMAIN conn /\ Open(c) /\ conn'[c].acct = conn[c].acct
                BY <1>5, <3>6, ConnsStay DEF SameAccts
            <4>2. CASE slot[s] = c
                BY <3>1, <3>4, <4>1, <4>2
            <4>3. CASE conn'[c].client = conn[c].client
                BY <3>1, <3>6, <4>1, <4>3 DEF MarkInv, InGame
            <4> QED
                BY <3>5, <4>1, <4>2, <4>3
        <3> QED
            BY ONLY <3>6 DEF InGame, Open
    <2> QED
        BY <2>1, <2>2
<1> QED
    BY <1>1, <1>4, <1>5, <1>6, OwnSteps, MarksSame DEF PlayerInv

\* fnDeactivate reports a log-out, and the mailbox goes later.
LEMMA MarksLeave ==
    ASSUME Inv, PlayerInv, MarkInv, NEW d \in Account, Deactivate(d) \/ Erase(d)
    PROVE  MarkInv'
<1>1. PlayerStep(d) /\ OnlineOK(d) = FALSE
    <2>1. CASE Deactivate(d)
        <3>1. player[d].state = "offline" /\ player[d].wait = "no"
            BY <2>1 DEF Deactivate
        <3> QED
            BY <2>1, <3>1 DEF PlayerStep, OnlineOK
    <2>2. CASE Erase(d)
        <3>1. player[d].wait = "no"
            BY <2>2, ForConn DEF Erase, PlayerInv, Shape
        <3> QED
            BY <2>2, <3>1 DEF PlayerStep, OnlineOK
    <2> QED
        BY <2>1, <2>2
<1>2. Steady /\ SameAccts /\ SeenGrows /\ UNCHANGED <<dbList, polls>> /\ InGame'
    BY <1>1, OwnSteps
<1>3. CASE Deactivate(d)
    <2> DEFINE m == [type |-> "PLAYERLOGOUT", chan |-> player[d].soft, uid |-> d]
    <2>1. player[d].state = "offline"
        BY <1>3 DEF Deactivate
    <2>2. player[d].soft \in Slot \cup {None}
        BY PlayerTypes DEF PlayerState
    <2>3. CASE player[d].soft = None
        <3>1. UNCHANGED coreQ
            BY <1>3, <2>3 DEF Deactivate
        <3>2. ASSUME NEW t \in Slot PROVE ~BackedBy(t, d)
            BY <2>1, <2>3, PlayerTypes DEF BackedBy
        <3>3. player[d].state # "none" /\ player'[d].for = player[d].for
              /\ \A e \in Account : e # d => player'[e] = player[e]
            BY <1>3, <2>1, DeactivateTurns DEF Turns
        <3> QED
            BY <1>2, <3>1, <3>2, <3>3, MarksTurn DEF PlayerInv
    <2>4. CASE player[d].soft # None
        <3>1. m \in CoreMsg /\ m.type = "PLAYERLOGOUT" /\ m.chan = player[d].soft /\ m.uid = d
            BY <2>2, <2>4 DEF CoreMsg
        <3>2. coreQ' = Append(coreQ, m)
            BY <1>3, <2>4 DEF Deactivate
        <3>3. Turns(d, "detached", player[d].chan, player[d].wait, player[d].soft, <<>>)
            BY <1>3, DeactivateTurns
        <3> HIDE DEF m
        <3>4. ASSUME NEW t \in Slot, BackedBy(t, d) PROVE BackedBy(t, d)'
            <4>1. player[d].soft = t
                BY <2>1, <3>4 DEF BackedBy
            <4>2. PICK n \in DOMAIN coreQ' : coreQ'[n] = m
                BY <3>1, <3>2, AppendQueue
            <4>3. Reported(t, d)'
                BY <3>1, <4>1, <4>2 DEF Reported
            <4> QED
                BY <3>3, <4>3 DEF BackedBy, Turns
        <3> QED
            BY <1>2, <2>1, <3>1, <3>2, <3>3, <3>4, MarksTurn DEF PlayerInv, Turns
    <2> QED
        BY <2>3, <2>4
<1>4. CASE Erase(d)
    <2>1. player[d].state = "detached" /\ player' = [player EXCEPT ![d] = NoPlayer] /\ UNCHANGED coreQ
        BY <1>4 DEF Erase, coreVars
    <2>2. player'[d] = NoPlayer /\ \A e \in Account : e # d => player'[e] = player[e]
        BY <2>1, Parts DEF Inv, PlayerOK, Players
    <2>3. player'[d].state = "none"
        BY <2>2, NoneFields
    <2>4. ASSUME NEW t \in Slot, BackedBy(t, d) PROVE BackedBy(t, d)'
        <3>1. Reported(t, d)
            BY <2>1, <2>4 DEF BackedBy
        <3>2. Reported(t, d)'
            BY <1>2, <2>1, <3>1, ReportedKept, GrowsKept
        <3> QED
            BY <2>3, <3>2 DEF BackedBy
    <2> QED
        BY <1>2, <2>1, <2>2, <2>3, <2>4, MarksTurn DEF PlayerInv
<1> QED
    BY <1>3, <1>4

LEMMA MarksPlayer ==
    ASSUME Inv, CoreInv, PlayerInv, MarkInv, NEW d \in Account, PlayerStep(d), fault' = None
    PROVE  MarkInv'
<1>1. ASSUME NEW type, Idle(d, type) PROVE OnlineOK(d) = FALSE
    <2>1. player[d].wait = "no"
        BY <1>1 DEF Idle
    <2> QED
        BY <2>1 DEF OnlineOK
<1>2. CASE BindChannel(d)
    <2> DEFINE s == Head(player[d].inbox).chan
    <2>1. /\ Idle(d, "BINDCHANNEL") /\ UNCHANGED coreQ
          /\ player' = [player EXCEPT ![d] = [Taken(d) EXCEPT !.chan = s, !.wait = "bind"]]
        BY <1>2, NoFaults DEF BindChannel, coreVars
    <2> HIDE DEF s
    <2>2. Turns(d, player[d].state, s, "bind", player[d].soft, Tail(player[d].inbox))
        BY <2>1, BindTurns
    <2> QED
        BY <1>1, <2>1, <2>2, MarksTaken
<1>3. CASE LostChannel(d)
    <2>1. /\ Idle(d, "BADCHANNEL") /\ player[d].chan # None /\ UNCHANGED coreQ
          /\ \/ player[d].chan = 0 /\ player' = [player EXCEPT ![d] = Taken(d)]
             \/ player[d].chan # 0 /\ GoOffline(d, FALSE)
        BY <1>3, NoFaults DEF LostChannel, coreVars
    <2>2. CASE player' = [player EXCEPT ![d] = Taken(d)]
        BY <1>1, <2>1, <2>2, TakenTurns, MarksTaken
    <2>3. CASE player[d].chan # 0 /\ GoOffline(d, FALSE)
        BY <1>1, <2>1, <2>3, MarksGoOffline
    <2> QED
        BY <2>1, <2>2, <2>3
<1>4. CASE RequestLogout(d)
    <2>1. /\ Idle(d, "LOGOUT") /\ player[d].chan # None /\ player[d].chan # 0 /\ GoOffline(d, TRUE)
          /\ UNCHANGED coreQ
        BY <1>4, PlayerTypes DEF RequestLogout, coreVars
    <2> QED
        BY <1>1, <2>1, MarksGoOffline
<1>5. OtherPacket(d) = FALSE
    BY NoFaults DEF OtherPacket
<1>6. CASE Ignore(d)
    <2>1. PICK type \in {"LOGIN", "ONLINE", "LOGOUT"} : Idle(d, type)
        BY <1>6 DEF Ignore
    <2>2. player' = [player EXCEPT ![d] = Taken(d)] /\ UNCHANGED coreQ
        BY <1>6 DEF Ignore, coreVars
    <2> QED
        BY <1>1, <2>1, <2>2, TakenTurns, MarksTaken
<1> QED
    BY <1>2, <1>3, <1>4, <1>5, <1>6, MarksOnlineOK, MarksLeave DEF PlayerStep

----------------------------------------------------------------------------
(* MarkInv, in the steps of the core.                                       *)

\* The message that is read is no report of a log-out, or not this one.
LEMMA ReportedReads ==
    ASSUME Inv, CoreReads, NEW s, NEW d, Reported(s, d),
           UNCHANGED polls \/ \E x : polls' = Append(polls, x) /\ polls \in Seq(Asked) /\ x \in Asked,
           \/ UNCHANGED coreQ
           \/ ~(Core.type = "PLAYERLOGOUT" /\ Core.chan = s /\ Core.uid = d)
    PROVE  Reported(s, d)'
<1>1. CASE \E i \in DOMAIN polls : polls[i].chan = s /\ polls[i].uid = d
    <2>1. PICK i \in DOMAIN polls : polls[i].chan = s /\ polls[i].uid = d
        BY <1>1
    <2>2. i \in DOMAIN polls' /\ polls'[i] = polls[i]
        OBVIOUS
    <2> QED
        BY <2>1, <2>2 DEF Reported
<1>2. ASSUME NEW i \in DOMAIN coreQ, coreQ[i].type = "PLAYERLOGOUT", coreQ[i].chan = s, coreQ[i].uid = d
      PROVE  Reported(s, d)'
    <2>1. CASE UNCHANGED coreQ
        BY <1>2, <2>1 DEF Reported
    <2>2. CASE /\ coreQ # <<>> /\ coreQ' = Tail(coreQ)
               /\ ~(Core.type = "PLAYERLOGOUT" /\ Core.chan = s /\ Core.uid = d)
        <3>1. i # 1
            BY <1>2, <2>2, TailQueue
        <3>2. i - 1 \in DOMAIN coreQ' /\ coreQ'[i - 1] = coreQ[i]
            BY <2>2, <3>1, TailQueue
        <3> QED
            BY <1>2, <3>2 DEF Reported
    <2> QED
        BY <2>1, <2>2 DEF CoreReads
<1> QED
    BY <1>1, <1>2 DEF Reported

\* The players stay what they are; a mark that goes was cleared in its time.
LEMMA MarksReads ==
    ASSUME Inv, OwnInv, MarkInv, Steady, SeenGrows, CoreReads, UNCHANGED player, NoneEnters, Logouts',
           \A c \in DOMAIN conn : conn[c].acct # None => conn'[c].acct # None,
           \A s \in Slot, d \in Account :
               \/ (Mark(s, d)' <=> Mark(s, d)) /\ Spared(s) /\ (Reported(s, d) => Reported(s, d)')
               \/ ~Mark(s, d)' /\ (Closing(s) \/ player[d].state = "none"),
           \A s \in Slot, d \in Account :
               Claim(s, d) => Claim(s, d)' \/ Closing(s) \/ player[d].state = "none"
    PROVE  MarkInv'
<1>1. DOMAIN conn' = DOMAIN conn /\ \A c \in DOMAIN conn : conn'[c].chan = conn[c].chan /\ (Open(c)' <=> Open(c))
    BY ConnsStay
<1>2. InGame'
    BY <1>1, InGameKept DEF MarkInv, NoneEnters
<1>3. Marked'
    <2>1. ASSUME ~Strayed', NEW d \in Account, NEW k \in DOMAIN conn', NEW s \in Slot, player'[d].state # "none",
                 player'[d].for = k, Open(k)', conn'[k].chan = s
          PROVE  Claim(s, d)' /\ ~Closing(s)'
        <3>1. Claim(s, d) /\ ~Closing(s) /\ player[d].state # "none"
            BY <1>1, <2>1, StrayedGrows DEF MarkInv, Marked
        <3> QED
            BY <3>1, ReadsClosing
    <2> QED
        BY ONLY <2>1 DEF Marked
<1>4. ASSUME NEW s \in Slot, NEW d \in Account, Mark(s, d)', ~Closing(s)'
      PROVE  Mark(s, d) /\ ~Closing(s) /\ (BackedBy(s, d) => BackedBy(s, d)')
    <2>1. Mark(s, d) /\ Spared(s) /\ (Reported(s, d) => Reported(s, d)')
        BY <1>4
    <2>2. ~Closing(s)
        BY <1>4, <2>1, ReadsClosing
    <2>3. ASSUME BackedBy(s, d) PROVE BackedBy(s, d)'
        <3>1. CASE player[d].state = "live"
            <4>1. player[d].for \in DOMAIN conn
                BY <3>1, ForConn
            <4> QED
                BY <1>1, <2>3, <3>1, <4>1 DEF BackedBy, Has
        <3>2. CASE player[d].state # "live"
            BY <2>1, <2>3, <3>2 DEF BackedBy
        <3> QED
            BY <3>1, <3>2
    <2> QED
        BY <2>1, <2>2, <2>3
<1>5. Backed'
    BY <1>4, BackedKept DEF MarkInv
<1> QED
    BY <1>2, <1>3, <1>5 DEF MarkInv

\* The end of on_AM_PLAYERLOGOUT clears one mark.
LEMMA MarkLogout ==
    ASSUME Inv, SeenGrows, NEW s \in Slot, NEW d \in Account, LogoutOK(s, d)
    PROVE  /\ ~Mark(s, d)'
           /\ \A t \in Slot, e \in Account : t # s \/ e # d => (Mark(t, e)' <=> Mark(t, e))
           /\ \A t \in Slot, e \in Account : t # s \/ e # d => (Claim(t, e) => Claim(t, e)')
<1>1. dbList \in Entries
    BY Parts DEF Inv, CoreOK
<1>2. CASE dbList[s].dbid = d
    <2>1. dbList' = [dbList EXCEPT ![s].online = FALSE]
        BY <1>2 DEF LogoutOK
    <2>2. dbList[s] \in [dbid : Account \cup {None, 0}, online : BOOLEAN]
        BY <1>1 DEF Entries
    <2>3. dbList'[s] = [dbList[s] EXCEPT !.online = FALSE] /\ \A t \in Slot : t # s => dbList'[t] = dbList[t]
        BY <1>1, <2>1 DEF Entries
    <2>4. dbList'[s].dbid = d /\ dbList'[s].online = FALSE
        BY <1>2, <2>2, <2>3
    <2>5. \A t \in Slot, e \in Account : t # s \/ e # d => (Claim(t, e) => Claim(t, e)')
        BY <1>2, <2>3, <2>4 DEF Claim, SeenGrows
    <2> QED
        BY <1>2, <2>3, <2>4, <2>5 DEF Mark
<1>3. CASE dbList[s].dbid # d
    <2>1. UNCHANGED dbList
        BY <1>3 DEF LogoutOK
    <2> QED
        BY <1>3, <2>1, ClaimKept DEF Mark
<1> QED
    BY <1>2, <1>3

LEMMA MarksPoll == ASSUME Inv, CoreInv, OwnInv, MarkInv, NEW i \in DOMAIN polls, Poll(i) PROVE MarkInv'
<1> DEFINE s == polls[i].chan
           d == polls[i].uid
<1>1. /\ UNCHANGED <<slot, freeQ, raced, coreQ, player, seen>> /\ SeenGrows /\ CoreReads /\ \A t : Spared(t)
      /\ LogoutOK(s, d) /\ player[d].state = "none" /\ polls' = RemoveAt(polls, i)
    BY DEF Poll, SeenGrows, CoreReads, Spared
<1>2. polls \in Seq(Asked)
    BY Parts DEF Inv, CoreOK
<1>3. s \in Slot /\ d \in Account
    <2>1. polls[i] \in Asked
        BY <1>2
    <2> QED
        BY <2>1 DEF Asked
<1>4. Steady /\ SameAccts /\ NoneEnters
    BY <1>1, LogoutKept, KeptSteady
<1>5. ASSUME NEW t, NEW e, Reported(t, e), t # s \/ e # d PROVE Reported(t, e)'
    <2>1. CASE \E j \in DOMAIN coreQ : coreQ[j].type = "PLAYERLOGOUT" /\ coreQ[j].chan = t /\ coreQ[j].uid = e
        BY <1>1, <2>1 DEF Reported
    <2>2. ASSUME NEW j \in DOMAIN polls, polls[j].chan = t, polls[j].uid = e PROVE Reported(t, e)'
        <3>1. j # i
            BY <1>5, <2>2
        <3>2. \E h \in DOMAIN polls' : polls'[h] = polls[j]
            <4>1. polls' = SubSeq(polls, 1, i - 1) \o SubSeq(polls, i + 1, Len(polls))
                BY <1>1 DEF RemoveAt
            <4>2. CASE j < i
                <5>1. j \in DOMAIN polls' /\ polls'[j] = polls[j]
                    BY <1>2, <4>1, <4>2
                <5> QED
                    BY <5>1
            <4>3. CASE j > i
                <5> DEFINE a == SubSeq(polls, 1, i - 1)
                           b == SubSeq(polls, i + 1, Len(polls))
                <5>2. i \in 1 .. Len(polls) /\ j \in 1 .. Len(polls)
                    BY <1>2
                <5>3. a \in Seq(Asked) /\ Len(a) = i - 1
                    BY <1>2, <5>2
                <5>4. b \in Seq(Asked) /\ Len(b) = Len(polls) - i /\ \A h \in 1 .. Len(polls) - i : b[h] = polls[i + h]
                    BY <1>2, <5>2
                <5>5. PICK h \in 1 .. Len(polls) - i : i + h = j
                    <6>1. j - i \in 1 .. Len(polls) - i /\ i + (j - i) = j
                        BY <1>2, <4>3, <5>2
                    <6> QED
                        BY <6>1
                <5>6. polls' = a \o b
                    BY <4>1
                <5> HIDE DEF a, b
                <5>7. b[h] = polls[j] /\ h \in 1 .. Len(b) /\ Len(a) \in Nat /\ Len(a) + h = j - 1
                    BY <5>2, <5>3, <5>4, <5>5
                <5>8. Len(a) + h \in DOMAIN (a \o b) /\ (a \o b)[Len(a) + h] = b[h]
                    <6>1. a \in Seq(Asked) /\ b \in Seq(Asked) /\ h \in 1 .. Len(b) /\ Len(b) \in Nat
                        BY <5>3, <5>4, <5>7
                    <6> QED
                        BY ONLY <6>1
                <5>1. j - 1 \in DOMAIN polls' /\ polls'[j - 1] = polls[j]
                    BY <5>6, <5>7, <5>8
                <5> QED
                    BY <5>1
            <4> QED
                BY <1>2, <3>1, <4>2, <4>3
        <3> QED
            BY <2>2, <3>2 DEF Reported
    <2> QED
        BY <1>5, <2>1, <2>2 DEF Reported
<1> HIDE DEF s, d
<1>6. Logouts'
    <2>1. Renewed
        BY <1>1, <1>3, LogoutRenewed
    <2> QED
        BY <1>1, <2>1, RenewedKeeps, LogoutsReads DEF MarkInv
<1>7. ASSUME NEW t \in Slot, NEW e \in Account
      PROVE  \/ (Mark(t, e)' <=> Mark(t, e)) /\ Spared(t) /\ (Reported(t, e) => Reported(t, e)')
             \/ ~Mark(t, e)' /\ (Closing(t) \/ player[e].state = "none")
    BY <1>1, <1>3, <1>5, MarkLogout
<1>8. \A t \in Slot, e \in Account : Claim(t, e) => Claim(t, e)' \/ Closing(t) \/ player[e].state = "none"
    BY <1>1, <1>3, MarkLogout
<1> QED
    BY <1>1, <1>4, <1>6, <1>7, <1>8, MarksReads DEF SameAccts

\* net_CM_LOGIN makes an entry without a mark where none was.
LEMMA MarksLogin ==
    ASSUME Inv, CoreInv, OwnInv, MarkInv, Login, coreQ # <<>>, coreQ' = Tail(coreQ), UNCHANGED <<slot, freeQ, raced>>
    PROVE  MarkInv'
<1> DEFINE s == Core.chan
           u == Core.uid
<1>1. /\ Steady /\ NoneEnters
      /\ \A c \in DOMAIN conn : conn'[c].acct = IF c = Core.conn /\ dbList' # dbList THEN u ELSE conn[c].acct
    BY LoginKept, KeptSteady
<1>2. Core.type = "LOGIN" /\ Core = coreQ[1] /\ Core \in CoreMsg
    BY TailQueue DEF Login
<1>3. s \in Slot /\ u \in Account /\ u # None
    BY <1>2, CoreMsgs, PlayerTypes
<1>4. UNCHANGED <<seen, player, polls>> /\ SeenGrows /\ CoreReads /\ \A t : Spared(t)
    <2>1. polls' = polls
        BY DEF Login
    <2> QED
        BY <1>2, <2>1 DEF Login, SeenGrows, CoreReads, Spared, Bad
<1>5. ASSUME NEW t, NEW e, Reported(t, e) PROVE Reported(t, e)'
    BY <1>2, <1>4, <1>5, ReportedReads
<1>6. ASSUME NEW t \in Slot
      PROVE  \/ dbList'[t] = dbList[t]
             \/ dbList[t].dbid = None /\ dbList[t].online = FALSE /\ dbList'[t].online = FALSE
    <2>1. CASE dbList' = dbList
        BY <2>1
    <2>2. CASE dbList[s] = NoEntry /\ dbList' = [dbList EXCEPT ![s] = Entry(u, FALSE)]
        <3>1. dbList \in Entries
            BY Parts DEF Inv, CoreOK
        <3>2. dbList'[s] = Entry(u, FALSE) /\ \A a \in Slot : a # s => dbList'[a] = dbList[a]
            BY <1>3, <2>2, <3>1 DEF Entries
        <3> QED
            BY <2>2, <3>2 DEF NoEntry, Entry
    <2> QED
        BY <2>1, <2>2 DEF Login
<1>7. Logouts'
    <2>1. \A t \in Slot : dbList[t].dbid \in Account => dbList'[t].dbid \in Account
        BY <1>6, SessionAssumption
    <2> QED
        BY <1>4, <2>1, LogoutsReads DEF MarkInv
<1>8. \A t \in Slot, e \in Account : Mark(t, e)' <=> Mark(t, e)
    BY <1>6 DEF Mark
<1>10. \A t \in Slot, e \in Account : Claim(t, e) => Claim(t, e)'
    BY <1>4, <1>6, SessionAssumption DEF Claim
<1>9. \A c \in DOMAIN conn : conn[c].acct # None => conn'[c].acct # None
    BY <1>1, <1>3
<1> QED
    BY <1>1, <1>4, <1>5, <1>7, <1>8, <1>9, <1>10, MarksReads

\* on_AM_BADCHANNEL
LEMMA MarksBadChannel ==
    ASSUME Inv, CoreInv, OwnInv, MarkInv, BadChannel, coreQ # <<>>, coreQ' = Tail(coreQ),
           Steady, SameAccts, NoneEnters
    PROVE  MarkInv'
<1> DEFINE s == Core.chan
<1>1. /\ UNCHANGED <<seen, polls, player>> /\ SeenGrows /\ CoreReads
      /\ Core.type = "BADCHANNEL" /\ dbList' = [dbList EXCEPT ![s] = NoEntry]
    BY DEF BadChannel, SeenGrows, CoreReads
<1>2. Core = coreQ[1] /\ Core \in CoreMsg /\ 1 \in DOMAIN coreQ /\ s \in Slot
    BY TailQueue, CoreMsgs
<1>3. Bad(1, s) /\ \A t : t # s => Spared(t)
    BY <1>1, <1>2 DEF Bad, Spared
<1>4. Closing(s)
    BY <1>2, <1>3 DEF Closing, Bad
<1>5. dbList'[s] = NoEntry /\ \A t \in Slot : t # s => dbList'[t] = dbList[t]
    <2>1. dbList \in Entries
        BY Parts DEF Inv, CoreOK
    <2> QED
        BY <1>1, <1>2, <2>1 DEF Entries
<1>6. ASSUME NEW t, NEW e, Reported(t, e) PROVE Reported(t, e)'
    BY <1>1, <1>6, ReportedReads
<1> HIDE DEF s
<1>7. Logouts'
    <2>1. \A t \in Slot : dbList[t].dbid \in Account =>
              dbList'[t].dbid \in Account \/ (coreQ # <<>> /\ coreQ' = Tail(coreQ) /\ Bad(1, t))
        BY <1>3, <1>5
    <2> QED
        BY <1>1, <2>1, LogoutsReads DEF MarkInv
<1>8. ASSUME NEW t \in Slot, NEW e \in Account
      PROVE  \/ (Mark(t, e)' <=> Mark(t, e)) /\ Spared(t) /\ (Reported(t, e) => Reported(t, e)')
             \/ ~Mark(t, e)' /\ (Closing(t) \/ player[e].state = "none")
    <2>1. CASE t = s
        BY <1>4, <1>5, <2>1 DEF Mark, NoEntry, Entry
    <2>2. CASE t # s
        BY <1>3, <1>5, <1>6, <2>2 DEF Mark
    <2> QED
        BY <2>1, <2>2
<1>9. \A t \in Slot, e \in Account : Claim(t, e) => Claim(t, e)' \/ Closing(t) \/ player[e].state = "none"
    BY <1>1, <1>4, <1>5 DEF Claim
<1> QED
    BY <1>1, <1>7, <1>8, <1>9, MarksReads DEF SameAccts

\* on_AM_PLAYERLOGOUT, up to its first wait or to its end.
LEMMA MarksPlayerLogout ==
    ASSUME Inv, CoreInv, OwnInv, MarkInv, PlayerLogout, coreQ # <<>>, coreQ' = Tail(coreQ),
           Steady, SameAccts, NoneEnters, NEW s, NEW d, s = Core.chan, d = Core.uid
    PROVE  MarkInv'
<1> DEFINE x == [chan |-> s, uid |-> d]
<1>1. UNCHANGED <<seen, player>> /\ SeenGrows /\ CoreReads /\ Core.type = "PLAYERLOGOUT"
    BY DEF PlayerLogout, SeenGrows, CoreReads
<1>2. Core = coreQ[1] /\ Core \in CoreMsg /\ s \in Slot /\ d \in Account /\ \A t : Spared(t)
    BY <1>1, TailQueue, CoreMsgs DEF Spared, Bad
<1>3. x \in Asked /\ polls \in Seq(Asked) /\ x.chan = s /\ x.uid = d
    BY <1>2, Parts DEF Asked, Inv, CoreOK
<1>4. ASSUME UNCHANGED polls \/ polls' = Append(polls, x), NEW t, NEW e, Reported(t, e), t # s \/ e # d
      PROVE  Reported(t, e)'
    <2>1. UNCHANGED polls \/ \E y : polls' = Append(polls, y) /\ polls \in Seq(Asked) /\ y \in Asked
        BY <1>3, <1>4
    <2> QED
        BY <1>1, <1>4, <2>1, ReportedReads
<1>5. CASE player[d].state # "none"
    <2>1. polls' = Append(polls, x) /\ UNCHANGED dbList
        BY <1>5 DEF PlayerLogout
    <2>2. Reported(s, d)'
        <3>1. Len(polls) + 1 \in DOMAIN polls' /\ polls'[Len(polls) + 1] = x
            BY <1>3, <2>1
        <3> QED
            BY <1>3, <3>1 DEF Reported
    <2> HIDE DEF x
    <2>3. \A t \in Slot, e \in Account : (Mark(t, e)' <=> Mark(t, e)) /\ (Reported(t, e) => Reported(t, e)')
        BY <1>4, <2>1, <2>2, MarkKept
    <2>4. Logouts'
        BY <1>1, <2>1, LogoutsReads DEF MarkInv
    <2> QED
        BY <1>1, <1>2, <2>1, <2>3, <2>4, ClaimKept, MarksReads DEF SameAccts
<1>6. CASE player[d].state = "none"
    <2>1. LogoutOK(s, d) /\ UNCHANGED polls
        BY <1>6 DEF PlayerLogout
    <2>2. Renewed
        BY <1>2, <2>1, LogoutRenewed
    <2>3. Logouts'
        BY <1>1, <2>2, RenewedKeeps, LogoutsReads DEF MarkInv
    <2>4. ASSUME NEW t \in Slot, NEW e \in Account
          PROVE  \/ (Mark(t, e)' <=> Mark(t, e)) /\ (Reported(t, e) => Reported(t, e)')
                 \/ ~Mark(t, e)' /\ player[e].state = "none"
        BY <1>1, <1>2, <1>4, <1>6, <2>1, MarkLogout
    <2>5. \A t \in Slot, e \in Account : Claim(t, e) => Claim(t, e)' \/ player[e].state = "none"
        BY <1>1, <1>2, <1>6, <2>1, MarkLogout
    <2> QED
        BY <1>1, <1>2, <2>3, <2>4, <2>5, MarksReads DEF SameAccts
<1> QED
    BY <1>5, <1>6

\* A packet that only a player understands.
LEMMA MarksGameplay ==
    ASSUME Inv, CoreInv, OwnInv, MarkInv, Gameplay, coreQ # <<>>, coreQ' = Tail(coreQ),
           Steady, SameAccts, NoneEnters
    PROVE  MarkInv'
<1>1. UNCHANGED <<seen, player, polls, dbList>> /\ SeenGrows /\ CoreReads /\ Core.type = "LOGOUT"
    BY DEF Gameplay, SeenGrows, CoreReads
<1>2. \A t : Spared(t)
    BY <1>1, TailQueue DEF Spared, Bad
<1>3. ASSUME NEW t, NEW e, Reported(t, e) PROVE Reported(t, e)'
    BY <1>1, <1>3, ReportedReads
<1>4. Logouts'
    BY <1>1, LogoutsReads DEF MarkInv
<1> QED
    BY <1>1, <1>2, <1>3, <1>4, MarkKept, ClaimKept, MarksReads DEF SameAccts

(* The coroutines that come to their end make the players and mark their    *)
(* entries.                                                                 *)
LEMMA MarksAdded ==
    ASSUME Inv, CoreInv, OwnInv, MarkInv, NEW os \in Seq(Waiting), NEW placed,
           player' = Added(os, placed).player, dbList' = Added(os, placed).dbList, UNCHANGED <<slot, freeQ, raced, conn>>,
           Added(os, placed).unmarked => "unmarked" \in seen',
           SeenGrows, CoreReads, \A s : Spared(s), \A s, d : Reported(s, d) => Reported(s, d)',
           \A i \in DOMAIN os :
               /\ os[i].conn \in DOMAIN conn /\ conn[os[i].conn].chan = os[i].chan
               /\ Open(os[i].conn) => dbList[os[i].chan].dbid = os[i].uid /\ ~Closing(os[i].chan)'
               /\ dbList[os[i].chan].dbid = os[i].uid \/ "lateOnline" \in seen',
           \A i \in DOMAIN os, d \in Account : dbList[os[i].chan].online # TRUE \/ player[d].state = "none"
    PROVE  MarkInv'
<1>1. Steady /\ SameAccts /\ NoneEnters
    BY UntouchedKept, KeptSteady
<1>2. DOMAIN conn' = DOMAIN conn /\ \A c \in DOMAIN conn : conn'[c].chan = conn[c].chan /\ (Open(c)' <=> Open(c))
    BY <1>1, ConnsStay
<1>3. InGame'
    BY <1>1, <1>2, SteadyAge, InGameOutside DEF MarkInv
<1>4. ASSUME NEW i \in DOMAIN os PROVE os[i].uid \in Account /\ os[i].chan \in Slot
    <2>1. os[i] \in Waiting
        BY <1>4
    <2> QED
        BY <2>1 DEF Waiting
<1>5. Logouts'
    <2>1. \A i \in DOMAIN os : dbList[os[i].chan].dbid # None \/ Stale'
        BY <1>4, PlayerTypes DEF Stale
    <2>2. Renewed
        BY <2>1, AddedRenewed DEF CoreInv, EntryInv
    <2> QED
        BY <2>2, RenewedKeeps, LogoutsReads DEF MarkInv
\* What becomes of an entry.
<1>6. ASSUME NEW s \in Slot, dbList[s].dbid \in Account
      PROVE  /\ (\E i \in Ready(os, placed) : os[i].chan = s) => dbList'[s] = Entry(dbList[s].dbid, Marks(os, s, placed))
             /\ ~(\E i \in Ready(os, placed) : os[i].chan = s) => dbList'[s] = dbList[s]
    <2>1. dbList[s] # NoEntry
        <3>1. NoEntry.dbid = None
            BY DEF NoEntry, Entry
        <3> QED
            BY <1>6, <3>1, PlayerTypes
    <2> QED
        BY <2>1, AddedFacts
<1>7. \A d, on : Entry(d, on).dbid = d /\ Entry(d, on).online = on
    BY DEF Entry
\* What becomes of a player.
<1>8. ASSUME NEW d \in Account
      PROVE  \/ \E i \in Made(os, placed) : /\ os[i].uid = d /\ player'[d].state = "live" /\ player'[d].for = os[i].conn
                                     /\ ~Has(player'[d].inbox, "BADCHANNEL")
             \/ player'[d] = player[d] /\ \A i \in Made(os, placed) : os[i].uid # d
    <2>1. ASSUME NEW i \in Made(os, placed), os[i].uid = d, player'[d] = AddPlayer(os[i])
          PROVE  /\ player'[d].state = "live" /\ player'[d].for = os[i].conn
                 /\ ~Has(player'[d].inbox, "BADCHANNEL")
        BY <2>1, NewFields
    <2>2. \/ \E i \in Made(os, placed) : os[i].uid = d /\ player'[d] = AddPlayer(os[i])
          \/ player'[d] = player[d] /\ \A i \in Made(os, placed) : os[i].uid # d
        <3> DEFINE after == Added(os, placed).player
        <3>1. \/ \E i \in Made(os, placed) : os[i].uid = d /\ after[d] = AddPlayer(os[i])
              \/ (\A i \in Made(os, placed) : os[i].uid # d) /\ after[d] = player[d]
            BY AddedFacts
        <3>2. player' = after
            OBVIOUS
        <3> HIDE DEF after
        <3> QED
            BY <3>1, <3>2
    <2>3. ASSUME NEW i \in Made(os, placed), os[i].uid = d, player'[d] = AddPlayer(os[i])
          PROVE  \E j \in Made(os, placed) : /\ os[j].uid = d /\ player'[d].state = "live" /\ player'[d].for = os[j].conn
                                       /\ ~Has(player'[d].inbox, "BADCHANNEL")
        BY <2>1, <2>3
    <2> QED
        BY <2>2, <2>3
<1>9. Marked'
    <2>1. ASSUME ~Strayed', NEW d \in Account, NEW k \in DOMAIN conn', NEW s \in Slot, player'[d].state # "none",
                 player'[d].for = k, Open(k)', conn'[k].chan = s
          PROVE  Claim(s, d)' /\ ~Closing(s)'
        <3>1. k \in DOMAIN conn /\ Open(k) /\ conn[k].chan = s
            BY <1>2, <2>1
        <3>2. CASE player'[d] = player[d]
            <4>1. Claim(s, d) /\ ~Closing(s)
                BY <2>1, <3>1, <3>2, StrayedGrows DEF MarkInv, Marked
            <4>2. CASE "unmarked" \in seen'
                <5>1. dbList[s].dbid = d
                    BY <4>1 DEF Claim
                <5>2. dbList'[s].dbid = d
                    BY <1>6, <1>7, <5>1
                <5> QED
                    BY <4>1, <4>2, <5>2, ReadsClosing DEF Claim
            <4>3. CASE "unmarked" \notin seen'
                <5>1. dbList[s].dbid = d /\ dbList[s].online = TRUE
                    BY <4>1, <4>3 DEF Claim, SeenGrows
                <5>2. ~(\E i \in Ready(os, placed) : os[i].chan = s)
                    BY <2>1, <3>2, <5>1 DEF Ready
                <5>3. dbList'[s] = dbList[s]
                    BY <5>2, AddedFacts
                <5> QED
                    BY <4>1, <5>1, <5>3, ReadsClosing DEF Claim
            <4> QED
                BY <4>2, <4>3
        <3>3. ASSUME NEW i \in Made(os, placed), os[i].uid = d, player'[d].for = os[i].conn PROVE Claim(s, d)' /\ ~Closing(s)'
            <4>1. i \in DOMAIN os /\ i \in Ready(os, placed) /\ i \in placed
                BY ReadyFacts DEF Made
            <4>2. os[i].conn = k /\ os[i].chan = s
                BY <2>1, <3>1, <3>3, <4>1
            <4>3. dbList[s].dbid = d /\ ~Closing(s)'
                BY <3>1, <3>3, <4>1, <4>2
            <4>4. ASSUME NEW j \in Ready(os, placed), os[j].chan = s, j \notin placed PROVE "unmarked" \in seen'
                BY <3>3, <4>2, <4>4, AddedUnmarked
            <4>5. "unmarked" \in seen' \/ Marks(os, s, placed) = TRUE
                BY <4>1, <4>2, <4>4, MarksFacts
            <4>6. dbList'[s] = Entry(d, Marks(os, s, placed))
                BY <1>6, <4>1, <4>2, <4>3
            <4>7. dbList'[s].dbid = d /\ dbList'[s].online = Marks(os, s, placed)
                BY <1>7, <4>6
            <4> QED
                BY <4>3, <4>5, <4>7 DEF Claim
        <3> QED
            BY <1>8, <3>2, <3>3
    <2> QED
        BY ONLY <2>1 DEF Marked
<1>10. Backed'
    <2>1. ASSUME "lateOnline" \notin seen', NEW s \in Slot, NEW d \in Account, Mark(s, d)', ~Closing(s)'
          PROVE  BackedBy(s, d)'
        <3>1. "lateOnline" \notin seen /\ ~Closing(s)
            BY <2>1, ReadsClosing DEF SeenGrows
        <3>2. ASSUME NEW i \in Made(os, placed), os[i].chan = s PROVE BackedBy(s, d)'
            <4>1. i \in DOMAIN os /\ i \in Ready(os, placed)
                BY ReadyFacts
            <4>2. dbList[s].dbid = os[i].uid /\ os[i].uid \in Account /\ os[i].conn \in DOMAIN conn /\ conn[os[i].conn].chan = s
                BY <1>4, <2>1, <3>2, <4>1
            <4>3. os[i].uid = d
                <5>1. dbList'[s].dbid = d
                    BY <2>1 DEF Mark
                <5>2. dbList'[s] = Entry(os[i].uid, Marks(os, s, placed))
                    BY <1>6, <3>2, <4>1, <4>2
                <5> QED
                    BY <1>7, <5>1, <5>2
            <4>4. PICK j \in Made(os, placed) : /\ os[j].uid = d /\ player'[d].state = "live" /\ player'[d].for = os[j].conn
                                        /\ ~Has(player'[d].inbox, "BADCHANNEL")
                BY <1>8, <3>2, <4>3
            <4>5. j = i
                BY <3>2, <4>3, <4>4, ReadyFacts
            <4>6. conn'[player'[d].for].chan = s
                BY <1>2, <4>2, <4>4, <4>5
            <4> QED
                BY <4>4, <4>6 DEF BackedBy, Has
        <3>3. CASE ~\E i \in Ready(os, placed) : os[i].chan = s
            <4>1. dbList'[s] = dbList[s]
                BY <3>3, AddedFacts
            <4>2. Mark(s, d)
                BY <2>1, <4>1 DEF Mark
            <4>3. BackedBy(s, d)
                BY <3>1, <4>2 DEF MarkInv, Backed
            <4>4. player'[d] = player[d]
                <5> SUFFICES ASSUME NEW i \in Made(os, placed), os[i].uid = d PROVE FALSE
                    BY <1>8
                <5>1. i \in DOMAIN os /\ i \in Ready(os, placed) /\ os[i].chan \in Slot
                    BY <1>4, ReadyFacts
                <5>2. dbList[os[i].chan].dbid = d /\ dbList[s].dbid = d
                    BY <2>1, <4>2, <5>1 DEF Mark
                <5>3. os[i].chan = s
                    BY <5>1, <5>2 DEF CoreInv, EntryInv, OneEntry
                <5> QED
                    BY <3>3, <5>1, <5>3
            <4>5. CASE player[d].state = "live"
                <5>1. player[d].for \in DOMAIN conn
                    BY <4>5, ForConn
                <5> QED
                    BY <1>2, <4>3, <4>4, <4>5, <5>1 DEF BackedBy, Has
            <4>6. CASE player[d].state # "live"
                BY <4>3, <4>4, <4>6 DEF BackedBy
            <4> QED
                BY <4>5, <4>6
        <3>4. ASSUME NEW i \in Ready(os, placed), os[i].chan = s, ~\E j \in Made(os, placed) : os[j].chan = s PROVE FALSE
            <4>1. Marks(os, s, placed) = FALSE
                BY <3>4, MarksFacts
            <4>2. dbList'[s].online = FALSE
                BY <1>7, <3>4, <4>1, AddedFacts
            <4> QED
                BY <2>1, <4>2 DEF Mark
        <3> QED
            BY <3>2, <3>3, <3>4
    <2> QED
        BY ONLY <2>1, Zenon DEF Backed
<1> QED
    BY <1>3, <1>5, <1>9, <1>10 DEF MarkInv

LEMMA MarksOnline ==
    ASSUME Inv, CoreInv, OwnInv, MarkInv, Online, coreQ # <<>>, coreQ' = Tail(coreQ),
           UNCHANGED <<slot, freeQ, raced>>,
           NEW s, NEW o, s = Core.chan, o = [chan |-> s, uid |-> dbList[s].dbid, conn |-> Core.conn]
    PROVE  MarkInv'
<1>1. /\ CoreReads /\ SeenGrows /\ UNCHANGED <<conn, polls>>
      /\ Core = coreQ[1] /\ Core \in CoreMsg /\ 1 \in DOMAIN coreQ /\ Core.type = "ONLINE"
    BY TailQueue DEF Online, CoreReads, SeenGrows
<1>2. s \in Slot /\ Core.conn \in Conn /\ Core.conn \in DOMAIN conn /\ conn[Core.conn].chan = s /\ \A t : Spared(t)
    BY <1>1, CoreMsgs DEF Packet, Bad, Spared, CoreInv, Mailbox, PacketSlot
<1>3. ASSUME NEW t, NEW e, Reported(t, e) PROVE Reported(t, e)'
    BY <1>1, <1>3, ReportedReads
<1>4. CASE UNCHANGED <<dbList, player>>
    <2>1. Logouts'
        BY <1>1, <1>4, LogoutsReads DEF MarkInv
    <2>2. Steady /\ SameAccts /\ NoneEnters
        BY <1>1, UntouchedKept, KeptSteady
    <2> QED
        BY <1>1, <1>2, <1>3, <1>4, <2>1, <2>2, MarkKept, ClaimKept, MarksReads DEF SameAccts
<1>5. ASSUME dbList[s].dbid \in Account, ~dbList[s].online, NEW placed,
             player' = Added(<<o>>, placed).player, dbList' = Added(<<o>>, placed).dbList
      PROVE  MarkInv'
    <2>1. o \in Waiting /\ o.chan = s /\ o.uid = dbList[s].dbid /\ o.conn = Core.conn
        BY <1>2, <1>5 DEF Waiting
    <2> DEFINE os == <<o>>
    <2>2. os \in Seq(Waiting) /\ DOMAIN os = {1} /\ os[1] = o
        BY <2>1
    <2>3. Open(Core.conn) => ~Closing(s)'
        <3> SUFFICES ASSUME Open(Core.conn) PROVE ~Closing(s)'
            OBVIOUS
        <3>1. \A j \in DOMAIN coreQ : 1 < j => ~Bad(j, s)
            BY <1>1, <1>2 DEF CoreInv, Mailbox, OpenPacket, Packet
        <3>2. ~Closing(s)
            BY <1>1, <3>1, TailQueue DEF Closing, Bad
        <3> QED
            BY <1>1, <3>2, ReadsClosing
    <2>4. /\ Core.conn \in DOMAIN conn /\ conn[Core.conn].chan = s
          /\ dbList[s].dbid = o.uid
        BY <1>2, <2>1
    <2>6. player' = Added(os, placed).player /\ dbList' = Added(os, placed).dbList
        BY <1>5
    <2> HIDE DEF os
    <2>9. ~Added(os, placed).unmarked
        <3>1. \A i \in Made(os, placed), j \in Ready(os, placed) : i = 1 /\ j = 1 /\ i \in placed
            BY <2>2 DEF Made, Ready
        <3> QED
            BY <3>1, AddedUnmarked
    <2>5. ASSUME NEW i \in DOMAIN os, NEW c, NEW t, c = os[i].conn, t = os[i].chan
          PROVE  /\ c \in DOMAIN conn /\ conn[c].chan = t
                 /\ Open(c) => dbList[t].dbid = os[i].uid /\ ~Closing(t)'
                 /\ dbList[t].dbid = os[i].uid
        BY <2>1, <2>2, <2>3, <2>4, <2>5
    <2>7. \A i \in DOMAIN os, d \in Account : dbList[os[i].chan].online # TRUE \/ player[d].state = "none"
        BY <1>5, <2>1, <2>2
    <2>8. \A i \in DOMAIN os :
              /\ os[i].conn \in DOMAIN conn /\ conn[os[i].conn].chan = os[i].chan
              /\ Open(os[i].conn) => dbList[os[i].chan].dbid = os[i].uid /\ ~Closing(os[i].chan)'
              /\ dbList[os[i].chan].dbid = os[i].uid \/ "lateOnline" \in seen'
        BY <2>5
    <2> QED
        BY <1>1, <1>2, <1>3, <2>2, <2>6, <2>7, <2>8, <2>9, MarksAdded
<1> QED
    BY <1>4, <1>5 DEF Online

LEMMA MarksMapLoaded == ASSUME Inv, CoreInv, PlayerInv, MarkInv, MapLoaded PROVE MarkInv'
<1> DEFINE os == Append(Tail(onlines), Head(onlines))
<1>1. /\ UNCHANGED netVars /\ UNCHANGED <<coreQ, polls>> /\ SeenGrows /\ CoreReads /\ \A s : Spared(s)
      /\ onlines # <<>>
      /\ (\E i \in DOMAIN onlines : ~Open(onlines[i].conn)) => "lateOnline" \in seen'
    BY DEF MapLoaded, SeenGrows, CoreReads, Spared
<1>2. os \in Seq(Waiting) /\ \A i \in DOMAIN os : \E g \in DOMAIN onlines : os[i] = onlines[g]
    BY <1>1, Rotated
<1>3. \A s, d : Reported(s, d) => Reported(s, d)'
    BY <1>1 DEF Reported
<1> HIDE DEF os
<1>4. ASSUME NEW i \in DOMAIN os, NEW c, NEW t, c = os[i].conn, t = os[i].chan
      PROVE  /\ c \in DOMAIN conn /\ conn[c].chan = t
             /\ Open(c) => dbList[t].dbid = os[i].uid /\ ~Closing(t)'
             /\ dbList[t].dbid = os[i].uid \/ "lateOnline" \in seen'
    <2>1. PICK g \in DOMAIN onlines : os[i] = onlines[g]
        BY <1>2
    <2>2. /\ c \in DOMAIN conn /\ conn[c].chan = t
          /\ Open(c) => dbList[t].dbid = os[i].uid /\ ~Closing(t)
        BY <1>4, <2>1 DEF CoreInv, WaitInv, WaitingSlot
    <2>3. Open(c) \/ "lateOnline" \in seen'
        BY <1>1, <1>4, <2>1
    <2> QED
        BY <1>1, <2>2, <2>3, ReadsClosing
<1>5. \A d \in Account : player[d].state = "none"
    <2>1. mapLoaded \in BOOLEAN
        BY Parts DEF Inv, CoreOK
    <2> QED
        BY <1>1, <2>1 DEF CoreInv, WaitInv, NoWait, PlayerInv, MapFirst
<1>6. OwnInv
    BY DEF PlayerInv
<1>7. PICK placed : /\ dbList' = Added(os, placed).dbList /\ player' = Added(os, placed).player
                    /\ Added(os, placed).unmarked => "unmarked" \in seen'
    BY DEF MapLoaded, os
<1> QED
    BY <1>1, <1>2, <1>3, <1>4, <1>5, <1>6, <1>7, MarksAdded DEF netVars

LEMMA MarksCore == ASSUME Inv, CoreInv, PlayerInv, OwnInv, MarkInv, CoreActor PROVE MarkInv'
<1>1. CASE CoreStep
    <2>1. coreQ # <<>> /\ coreQ' = Tail(coreQ) /\ UNCHANGED <<slot, freeQ, raced>>
        BY <1>1 DEF CoreStep
    <2>2. CASE Login
        BY <2>1, <2>2, MarksLogin
    <2>3. CASE Login = FALSE
        <3>1. Steady /\ SameAccts /\ NoneEnters
            BY <1>1, <2>3, CoreKept, KeptSteady
        <3> QED
            BY <1>1, <2>1, <2>3, <3>1, MarksOnline, MarksBadChannel, MarksPlayerLogout, MarksGameplay DEF CoreStep
    <2>4. Login \in BOOLEAN
        BY DEF Login
    <2> QED
        BY <2>2, <2>3, <2>4
<1> QED
    BY <1>1, MarksMapLoaded, MarksPoll DEF CoreActor

LEMMA MarksStay == ASSUME Inv, CoreInv, PlayerInv, MarkInv, [Next]_vars, fault' = None PROVE MarkInv'
<1>0. OwnInv
    BY DEF PlayerInv
<1>1. CASE UNCHANGED vars
    <2>1. SeenGrows /\ UNCHANGED <<slot, freeQ, raced, conn, coreQ, dbList, polls, player>>
        BY <1>1 DEF vars, netVars, coreVars, SeenGrows
    <2>2. Steady /\ SameAccts /\ NoneEnters /\ QueueGrows
        BY <2>1, UntouchedKept, KeptSteady, GrowsKept
    <2>3. ConnsAge /\ SameSlots /\ DOMAIN conn' = DOMAIN conn
        BY <2>2, SteadyAge, ConnsStay DEF SameSlots
    <2>4. InGame' /\ Logouts'
        BY <2>1, <2>2, <2>3, InGameOutside, LogoutsOutside DEF MarkInv
    <2>5. \A s \in Slot, d \in Account : BackedBy(s, d) => BackedBy(s, d)'
        BY <1>0, <2>1, <2>2, <2>3, BackedSame
    <2> QED
        BY <1>0, <2>1, <2>2, <2>3, <2>4, <2>5, MarksOutside
<1>2. CASE Channels
    BY <1>0, <1>2, MarksReader, MarksSocket DEF Channels
<1>3. CASE RunPosted
    BY <1>3, MarksPosted, MarksClose
<1> QED
    BY <1>0, <1>1, <1>2, <1>3, MarksAccept, MarksCore, MarksPlayer DEF Next

LEMMA MarksInit == Init => MarkInv
<1> SUFFICES ASSUME Init PROVE MarkInv
    OBVIOUS
<1>1. /\ \A d \in Account : player[d] = NoPlayer
      /\ \A s \in Slot : dbList[s] = NoEntry
      /\ conn = <<>> /\ coreQ = <<>>
    BY DEF Init
<1>2. Marked /\ InGame /\ Logouts
    BY <1>1, NoneFields DEF Marked, InGame, Logouts
<1>3. Backed
    BY <1>1 DEF Backed, Mark, NoEntry, Entry
<1> QED
    BY <1>2, <1>3 DEF MarkInv

----------------------------------------------------------------------------
(* The assertions that fail, and why.                                       *)

\* What FaultsExplained says of the assertion k about x.
Explained(k, x) ==
    /\ k = "attach" => ~Open(player[x].for) \/ "overlap" \in seen \/ "unmarked" \in seen
    /\ k = "login" => conn[x].acct # None \/ Late
    /\ k \in {"dbid", "stranger", "bind"} => Late
    /\ k = "unbind" => ~Open(player[x].for)
    /\ k \notin {"lost", "bound"}

LEMMA FaultIs ==
    ASSUME NEW k, NEW x, fault' = <<k, x>>, Explained(k, x)'
    PROVE  FaultsExplained'
BY DEF FaultsExplained, Fails, Explained, Late

LEMMA NoFaultIs == ASSUME fault' = None PROVE FaultsExplained'
BY DEF FaultsExplained, Fails

LEMMA DeafPlayers == Inv /\ PlayerInv => DeafOnlyIfBoundLate
<1> SUFFICES ASSUME Inv, PlayerInv, NEW d \in Account, player[d].state = "live", player[d].chan \in Slot, player[d].wait = "no",
                    "lateBind" \notin seen
             PROVE  \/ \E k \in DOMAIN conn : conn[k].uid = d
                    \/ \E i \in DOMAIN player[d].inbox : player[d].inbox[i].type = "BADCHANNEL"
    BY DEF DeafOnlyIfBoundLate
<1>1. InPlay(player[d])
    BY PlayerTypes DEF InPlay
<1> QED
    BY <1>1 DEF PlayerInv, Heard, Has

\* A step after which the players in the game know what they knew.
LEMMA DeafKept ==
    ASSUME Inv, DeafOnlyIfBoundLate, SeenGrows, UNCHANGED conn,
           \A d \in Account : player'[d].state = "live" /\ player'[d].chan \in Slot /\ player'[d].wait = "no" =>
               player'[d] = player[d]
    PROVE  DeafOnlyIfBoundLate'
BY DEF DeafOnlyIfBoundLate, SeenGrows

\* Two CM_LOGIN of one connection.
LEMMA LoginFault ==
    ASSUME Inv, CoreInv, coreQ # <<>>, coreQ' = Tail(coreQ), Login, fault = None, fault' # None
    PROVE  FaultsExplained' /\ UNCHANGED <<conn, player, seen>>
<1> DEFINE s == Core.chan
<1>1. fault' = <<"login", Core.conn>> /\ dbList[s] # NoEntry /\ UNCHANGED <<conn, player, seen>>
    BY DEF Login
<1>2. Core = coreQ[1] /\ Core \in CoreMsg /\ 1 \in DOMAIN coreQ /\ Core.type = "LOGIN" /\ DOMAIN coreQ \subseteq Nat \ {0}
    BY TailQueue DEF Login
<1>3. s \in Slot /\ Packet(1)
    BY <1>2, CoreMsgs DEF Packet
<1>4. conn[Core.conn].acct # None \/ Late
    <2> SUFFICES ASSUME ~Late PROVE conn[Core.conn].acct # None
        OBVIOUS
    <2>1. ~Stale
        BY DEF Late, Stale
    <2>2. dbList[s].dbid # None
        BY <1>1, <1>3 DEF CoreInv, EntryInv, EmptyEntry
    <2>3. PICK c \in DOMAIN conn : Owned(s, c)
        BY <1>3, <2>1, <2>2 DEF CoreInv, EntryInv, EntryOwned
    <2>4. coreQ[1].conn = c
        <3>1. ~\E j \in DOMAIN coreQ : j < 1
            BY <1>2
        <3> QED
            BY <1>2, <1>3, <2>3, <3>1 DEF Owned
    <2> QED
        BY <1>2, <2>2, <2>3, <2>4 DEF Owned
<1>5. \E x : fault' = <<"login", x>> /\ (conn[x].acct # None \/ Late)
    BY <1>1, <1>4
<1>6. PICK x : fault' = <<"login", x>> /\ (conn[x].acct # None \/ Late)
    BY <1>5
<1>7. Explained("login", x)'
    BY <1>1, <1>6 DEF Explained, Late
<1> QED
    BY <1>1, <1>6, <1>7, FaultIs

\* findDBID and operateNet.
LEMMA EntryFault ==
    ASSUME Inv, CoreInv, MarkInv, coreQ # <<>>, coreQ' = Tail(coreQ), fault = None, fault' # None,
           NEW s, s = Core.chan,
           Gameplay \/ (Online /\ UNCHANGED <<player, seen>> /\ dbList[s].dbid = 0 /\ fault' = <<"dbid", s>>)
    PROVE  FaultsExplained' /\ UNCHANGED <<conn, player, seen>>
<1>1. Core = coreQ[1] /\ Core \in CoreMsg /\ 1 \in DOMAIN coreQ /\ s \in Slot
    BY TailQueue, CoreMsgs
<1>2. UNCHANGED <<conn, player, seen>>
    BY DEF Gameplay, Online
<1>3. (fault' = <<"stranger", s>> \/ fault' = <<"dbid", s>>) /\ Late
    <2>1. CASE Gameplay
        <3>1. Core.type = "LOGOUT"
            BY <2>1 DEF Gameplay
        <3>2. \/ fault' = <<"stranger", s>> /\ dbList[s] = NoEntry
              \/ fault' = <<"dbid", s>> /\ dbList[s].dbid = 0
            BY <2>1 DEF Gameplay
        <3>3. dbList[s].dbid \in Account \/ Late
            BY <1>1, <3>1 DEF MarkInv, Logouts
        <3>4. dbList[s].dbid \notin Account
            <4>1. NoEntry.dbid = None
                BY DEF NoEntry, Entry
            <4> QED
                BY <3>2, <4>1, SessionAssumption
        <3> QED
            BY <3>2, <3>3, <3>4
    <2>2. CASE dbList[s].dbid = 0 /\ fault' = <<"dbid", s>>
        <3>1. Stale
            BY <1>1, <2>2 DEF CoreInv, EntryInv, NoZero
        <3> QED
            BY <2>2, <3>1 DEF Late, Stale
    <2> QED
        BY <2>1, <2>2
<1>4. PICK k \in {"stranger", "dbid"} : fault' = <<k, s>>
    BY <1>3
<1>5. Explained(k, s)'
    BY <1>2, <1>3, <1>4 DEF Explained, Late
<1> QED
    BY <1>2, <1>4, <1>5, FaultIs

\* The assertions of a player on its own channel.
LEMMA OwnFault ==
    ASSUME Inv, PlayerInv, NEW d \in Account, PlayerStep(d), fault = None, fault' # None
    PROVE  FaultsExplained' /\ UNCHANGED <<conn, player, seen>>
<1> DEFINE q == player[d].inbox
           s == conn[player[d].for].chan
<1>1. ASSUME NEW type, Idle(d, type)
      PROVE  /\ Shape(player[d], s) /\ player[d].state \in {"live", "offline"}
             /\ q \in Seq(PlayerMsg) /\ q # <<>> /\ Head(q).type = type /\ s \in Slot
    BY <1>1, IdleFacts DEF PlayerInv
<1>2. BindChannel(d) = FALSE
    <2> SUFFICES ASSUME BindChannel(d) PROVE FALSE
        BY DEF BindChannel
    <2>1. Idle(d, "BINDCHANNEL") /\ player[d].chan # None
        BY DEF BindChannel
    <2>2. Calm(q, s)
        BY <1>1, <2>1 DEF Shape
    <2> QED
        BY <1>1, <2>1, <2>2, CalmTail
<1>3. LostChannel(d) = FALSE
    <2> SUFFICES ASSUME LostChannel(d) PROVE FALSE
        BY DEF LostChannel
    <2>1. /\ Idle(d, "BADCHANNEL")
          /\ player[d].chan = None \/ (player[d].chan # 0 /\ player[d].chan # Head(q).chan)
        BY DEF LostChannel
    <2>2. /\ Shape(player[d], s) /\ player[d].state \in {"live", "offline"}
          /\ q \in Seq(PlayerMsg) /\ q # <<>> /\ Head(q).type = "BADCHANNEL"
        BY <1>1, <2>1
    <2> HIDE DEF q, s
    <2>3. CASE player[d].state = "offline"
        BY <2>1, <2>2, <2>3, SessionAssumption DEF Shape
    <2>4. CASE player[d].state = "live" /\ player[d].chan = None
        <3>1. Fresh(q, s)
            BY <2>2, <2>4 DEF Shape, q
        <3> QED
            BY <2>2, <3>1, CalmTail
    <2>5. CASE player[d].state = "live" /\ player[d].chan # None
        <3>1. Calm(q, s) /\ player[d].chan = s
            BY <2>2, <2>5 DEF Shape, q
        <3> QED
            BY <2>1, <2>2, <2>5, <3>1, CalmTail
    <2> QED
        BY <2>2, <2>3, <2>4, <2>5
<1>4. OtherPacket(d)
    <2>1. ~RequestLogout(d) /\ ~Ignore(d) /\ ~OnlineOK(d) /\ ~Deactivate(d) /\ ~Erase(d)
        BY DEF RequestLogout, Ignore, OnlineOK, Deactivate, Erase
    <2> QED
        BY <1>2, <1>3, <2>1 DEF PlayerStep
<1>5. fault' = <<"packet", d>> /\ UNCHANGED <<conn, player, seen>>
    BY <1>4 DEF OtherPacket, netVars
<1>6. Explained("packet", d)'
    BY DEF Explained
<1> QED
    BY <1>5, <1>6, FaultIs

\* addPlayer of a coroutine that is refused: its account has a player already, or
\* another coroutine of the account went on before it.
LEMMA AddedFault ==
    ASSUME NEW os \in Seq(Waiting), NEW placed, player' = Added(os, placed).player,
           fault' = Added(os, placed).fault, fault' # None, UNCHANGED <<conn, slot>>, SeenGrows,
           \A n \in DOMAIN os : Refused(os, n, placed) =>
               \/ player[os[n].uid].state # "none" /\ ~Open(player[os[n].uid].for)
               \/ "overlap" \in seen \/ "unmarked" \in seen
    PROVE  FaultsExplained'
<1>1. PICK n \in DOMAIN os : Refused(os, n, placed) /\ fault' = <<"attach", os[n].uid>>
    <2>1. Added(os, placed).fault # None
        OBVIOUS
    <2>2. Ready(os, placed) # DOMAIN os
        BY <2>1, AddedFacts
    <2> DEFINE f == Added(os, placed).fault
    <2>3. \E n \in DOMAIN os : Refused(os, n, placed) /\ f = <<"attach", os[n].uid>>
        BY <2>2, AddedFacts
    <2>4. fault' = f
        OBVIOUS
    <2> HIDE DEF f
    <2> QED
        BY <2>3, <2>4
<1>2. os[n].uid \in Account
    <2>1. os[n] \in Waiting
        BY <1>1
    <2> QED
        BY <2>1 DEF Waiting
<1>3. PICK x \in Account : x = os[n].uid
    BY <1>2
<1>4. ~Open(player'[x].for) \/ "overlap" \in seen' \/ "unmarked" \in seen'
    <2>1. CASE "overlap" \in seen \/ "unmarked" \in seen
        BY <2>1 DEF SeenGrows
    <2>2. CASE player[x].state # "none" /\ ~Open(player[x].for)
        <3> DEFINE after == Added(os, placed).player
        <3>1. \/ \E i \in Made(os, placed) : os[i].uid = x /\ after[x] = AddPlayer(os[i])
              \/ (\A i \in Made(os, placed) : os[i].uid # x) /\ after[x] = player[x]
            BY AddedFacts
        <3>2. player' = after
            OBVIOUS
        <3> HIDE DEF after
        <3>3. \A i \in Made(os, placed) : os[i].uid # x
            BY <2>2, ReadyFacts
        <3>4. player'[x] = player[x]
            BY <3>1, <3>2, <3>3
        <3> QED
            BY <2>2, <3>4
    <2> QED
        BY <1>1, <1>3, <2>1, <2>2
<1>5. Explained("attach", x)'
    BY <1>4 DEF Explained, Open
<1> QED
    BY <1>1, <1>3, <1>5, FaultIs

LEMMA OnlineFault ==
    ASSUME Inv, CoreInv, PlayerInv, MarkInv, Online, coreQ # <<>>, coreQ' = Tail(coreQ),
           UNCHANGED <<slot, freeQ, raced>>, fault = None, fault' # None, dbList[Core.chan].dbid # 0,
           NEW s, NEW o, s = Core.chan, o = [chan |-> s, uid |-> dbList[s].dbid, conn |-> Core.conn]
    PROVE  /\ FaultsExplained' /\ UNCHANGED <<conn, seen>> /\ <<o>> \in Seq(Waiting)
           /\ \E placed : player' = Added(<<o>>, placed).player
<1>1. Core = coreQ[1] /\ Core \in CoreMsg /\ Core.type = "ONLINE"
    BY TailQueue DEF Online
<1>2. s \in Slot /\ Core.conn \in Conn
    BY <1>1, CoreMsgs
<1>3. dbList[s].dbid \in Account /\ ~dbList[s].online /\ UNCHANGED <<conn, seen>>
    BY DEF Online
<1>9. PICK placed \in SUBSET {1} :
          player' = Added(<<o>>, placed).player /\ fault' = Added(<<o>>, placed).fault
    BY DEF Online
<1>4. o \in Waiting /\ o.uid = dbList[s].dbid
    BY <1>2, <1>3 DEF Waiting
<1> DEFINE os == <<o>>
<1>5. os \in Seq(Waiting) /\ DOMAIN os = {1} /\ os[1] = o
    BY <1>4
<1>6. player' = Added(os, placed).player /\ fault' = Added(os, placed).fault /\ SeenGrows
    BY <1>3, <1>9 DEF SeenGrows
<1> HIDE DEF os
<1>7. ASSUME NEW n \in DOMAIN os, Refused(os, n, placed)
      PROVE  player[os[n].uid].state # "none" /\ (~Open(player[os[n].uid].for) \/ "unmarked" \in seen)
    <2> DEFINE u == os[n].uid
               k == player[u].for
    <2>1. n = 1 /\ u = dbList[s].dbid /\ u \in Account
        BY <1>3, <1>4, <1>5, <1>7
    <2>2. player[u].state # "none"
        BY <1>7, <1>9, <2>1 DEF Refused
    <2> HIDE DEF u
    <2>3. ASSUME Open(k), "unmarked" \notin seen PROVE FALSE
        <3>1. k \in DOMAIN conn /\ conn[k].chan \in Slot
            BY <2>1, <2>2, ForConn, PlayerTypes DEF PlayerInv
        <3>2. dbList[conn[k].chan].dbid = u /\ dbList[conn[k].chan].online = TRUE
            BY <2>1, <2>2, <2>3, <3>1 DEF MarkInv, Marked, Strayed, Claim
        <3>3. conn[k].chan = s
            BY <1>2, <2>1, <3>1, <3>2 DEF CoreInv, EntryInv, OneEntry
        <3> QED
            BY <1>3, <3>2, <3>3
    <2> QED
        BY <2>2, <2>3 DEF u
<1>8. FaultsExplained'
    BY <1>3, <1>5, <1>6, <1>7, AddedFault
<1> QED
    BY <1>3, <1>5, <1>6, <1>8 DEF os

LEMMA MapFault ==
    ASSUME Inv, CoreInv, PlayerInv, MapLoaded, fault = None, fault' # None
    PROVE  FaultsExplained'
<1> DEFINE os == Append(Tail(onlines), Head(onlines))
<1>1. /\ UNCHANGED <<conn, slot>> /\ SeenGrows /\ onlines # <<>>
    BY DEF MapLoaded, netVars, SeenGrows
<1>5. PICK placed \in SUBSET DOMAIN onlines :
          player' = Added(os, placed).player /\ fault' = Added(os, placed).fault
    BY DEF MapLoaded
<1>2. /\ os \in Seq(Waiting)
      /\ \A i, j \in DOMAIN os : i # j =>
            \E g, h \in DOMAIN onlines : g # h /\ os[i] = onlines[g] /\ os[j] = onlines[h]
    BY <1>1, Rotated
<1>3. \A d \in Account : player[d].state = "none"
    <2>1. mapLoaded \in BOOLEAN
        BY Parts DEF Inv, CoreOK
    <2> QED
        BY <1>1, <2>1 DEF CoreInv, WaitInv, NoWait, PlayerInv, MapFirst
<1>6. DOMAIN os = DOMAIN onlines
    <2>1. onlines \in Seq(Waiting)
        BY Parts DEF Inv, CoreOK
    <2> QED
        BY <1>1, <2>1
<1> HIDE DEF os
<1>4. ASSUME NEW n \in DOMAIN os, Refused(os, n, placed) PROVE "overlap" \in seen
    <2>1. n \in Nat /\ n <= Len(os) /\ os[n].uid \in Account
        <3>1. os[n] \in Waiting
            BY <1>2
        <3> QED
            BY <1>2, <3>1 DEF Waiting
    <2>2. PICK j \in placed : j < n /\ os[j].uid = os[n].uid
        BY <1>3, <1>4, <2>1 DEF Refused
    <2>3. j \in DOMAIN os /\ j # n
        BY <1>2, <1>6, <2>1, <2>2
    <2>4. PICK g, h \in DOMAIN onlines : g # h /\ os[j] = onlines[g] /\ os[n] = onlines[h]
        BY <1>2, <2>3
    <2> QED
        BY <2>2, <2>4 DEF CoreInv, WaitInv, Twice
<1> QED
    BY <1>1, <1>2, <1>4, <1>5, AddedFault

\* Channel::bindPlayer and Channel::unbindPlayer.
LEMMA PostedFault ==
    ASSUME Inv, CoreInv, PlayerInv, MarkInv, RunPosted, fault = None, fault' # None
    PROVE  /\ FaultsExplained' /\ SeenGrows /\ UNCHANGED conn
           /\ \A d \in Account : player'[d].state = "live" /\ player'[d].wait = "no" => player'[d] = player[d]
<1> DEFINE p == Head(netQ)
           k == player[p.uid].for
<1>1. /\ p \in Closure /\ p.uid \in Account /\ p.chan \in Slot
      /\ player[p.uid].wait = p.op /\ k \in DOMAIN conn
      /\ conn[k].chan = p.chan /\ Shape(player[p.uid], p.chan)
    BY PostsHead DEF PlayerInv, RunPosted
<1> DEFINE s == p.chan
           d == p.uid
<1>2. CASE p.op = "bind"
    <2>1. /\ RunBind(s, d) /\ slot[s] # None /\ conn[slot[s]].uid # None /\ fault' = <<"bind", s>>
          /\ UNCHANGED conn /\ player' = [player EXCEPT ![d].wait = "bound"]
        BY <1>2 DEF RunPosted, RunBind
    <2>2. SeenGrows /\ (slot[s] # k => Late')
        BY <2>1 DEF RunBind, SeenGrows, Late
    <2>3. Turns(d, player[d].state, player[d].chan, "bound", player[d].soft, player[d].inbox)
        BY <1>1, <2>1, WaitTurns
    <2>4. Late'
        <3> SUFFICES ASSUME ~Late' PROVE FALSE
            OBVIOUS
        <3>1. slot[s] = k /\ ~Late
            BY <2>2, LateGrows
        <3> DEFINE e == conn[k].uid
        <3>2. e \in Account /\ e # None
            BY <1>1, <2>1, <3>1, PlayerTypes
        <3>3. Held(player[e]) /\ player[e].for = k
            BY <1>1, <3>1, <3>2 DEF PlayerInv, LinksInv, Bound, BoundFor, Late
        <3>4. Open(k)
            BY <1>1, <3>1 DEF Open
        <3>5. player[e].state # "none" /\ player[e].wait # "bind"
            BY <3>3 DEF Held, InPlay
        <3>6. player[d].state # "none"
            <4>1. player[d].wait # "no"
                BY <1>1, <1>2
            <4> QED
                BY <1>1, <4>1, NoneFields DEF PlayerInv, OwnInv, Own
        <3>7. Claim(s, d) /\ Claim(s, e)
            BY <1>1, <2>2, <3>1, <3>2, <3>3, <3>4, <3>5, <3>6, StrayedGrows DEF MarkInv, Marked
        <3> QED
            BY <1>1, <1>2, <3>5, <3>7 DEF Claim
    <2> HIDE DEF p, k, s, d
    <2>5. PICK x : fault' = <<"bind", x>>
        BY <2>1
    <2>6. Explained("bind", x)'
        BY <2>4 DEF Explained
    <2> QED
        BY <2>1, <2>2, <2>3, <2>5, <2>6, FaultIs DEF Turns
<1>3. CASE p.op = "unbind"
    <2>1. /\ RunUnbind(s, d) /\ slot[s] # None /\ conn[slot[s]].uid # d /\ fault' = <<"unbind", d>>
          /\ UNCHANGED <<conn, slot, seen>> /\ player' = [player EXCEPT ![d].wait = "no"]
        BY <1>3 DEF RunPosted, RunUnbind
    <2>2. player[d].state = "offline"
        <3>1. player[d].state \in {"none", "live", "offline", "detached"} /\ player[d].state # "none"
            BY <1>1, <1>3, PlayerTypes, NoneFields DEF PlayerInv, OwnInv, Own, PlayerState
        <3> QED
            BY <1>1, <1>3, <3>1 DEF Shape
    <2>3. Turns(d, player[d].state, player[d].chan, "no", player[d].soft, player[d].inbox)
        BY <1>1, <2>1, WaitTurns
    <2>4. ~Open(k)
        <3> SUFFICES ASSUME Open(k) PROVE FALSE
            OBVIOUS
        <3>1. slot[s] = k
            BY <1>1 DEF Open
        <3>2. conn[k].uid = d
            BY <1>1, <1>3, <2>2 DEF PlayerInv, LinksInv, Binds, Holds
        <3> QED
            BY <2>1, <3>1, <3>2
    <2>5. PICK x \in Account : x = d
        BY <1>1
    <2>6. fault' = <<"unbind", x>> /\ ~Open(player'[x].for)
        BY <2>1, <2>3, <2>4, <2>5 DEF Turns
    <2>7. Explained("unbind", x)'
        BY <2>1, <2>6 DEF Explained, Open
    <2> HIDE DEF p, k, s, d
    <2> QED
        BY <2>1, <2>2, <2>3, <2>6, <2>7, FaultIs DEF Turns, SeenGrows
<1>4. p.op # "close"
    BY DEF RunPosted, RunClose
<1> QED
    BY <1>1, <1>2, <1>3, <1>4 DEF Closure

\* New players have no channel yet.
LEMMA AddedDeaf ==
    ASSUME Inv, NEW os \in Seq(Waiting), NEW placed, player' = Added(os, placed).player,
           NEW d \in Account, player'[d].chan \in Slot
    PROVE  player'[d] = player[d]
<1> DEFINE after == Added(os, placed).player
<1>1. \/ \E i \in Made(os, placed) : os[i].uid = d /\ after[d] = AddPlayer(os[i])
      \/ (\A i \in Made(os, placed) : os[i].uid # d) /\ after[d] = player[d]
    BY AddedFacts
<1>2. player' = after
    OBVIOUS
<1> HIDE DEF after
<1>3. \A i \in Made(os, placed) : AddPlayer(os[i]).chan \notin Slot
    BY NewFields, PlayerTypes
<1> QED
    BY <1>1, <1>2, <1>3

\* The step in which an assertion fails.
LEMMA FaultStep ==
    ASSUME Inv, CoreInv, PlayerInv, MarkInv, Next, fault' # None
    PROVE  FaultsExplained' /\ DeafOnlyIfBoundLate'
<1>1. DeafOnlyIfBoundLate /\ fault = None
    BY DeafPlayers DEF Next
<1>2. ASSUME UNCHANGED <<conn, player, seen>> PROVE DeafOnlyIfBoundLate'
    BY <1>1, <1>2 DEF DeafOnlyIfBoundLate
<1>3. ~Accept /\ ~Channels
    BY <1>1 DEF Accept, Channels, Recv, RecvLate, Break, Abort
<1>4. CASE RunPosted
    BY <1>1, <1>4, PostedFault, DeafKept
<1>5. ASSUME NEW d \in Account, PlayerStep(d) PROVE FaultsExplained' /\ DeafOnlyIfBoundLate'
    BY <1>1, <1>2, <1>5, OwnFault
<1>6. CASE CoreStep
    <2>1. coreQ # <<>> /\ coreQ' = Tail(coreQ) /\ UNCHANGED <<slot, freeQ, raced>>
        BY <1>6 DEF CoreStep
    <2>2. ~BadChannel /\ ~PlayerLogout
        BY <1>1 DEF BadChannel, PlayerLogout
    <2>3. CASE Login
        BY <1>1, <1>2, <2>1, <2>3, LoginFault
    <2>4. CASE Gameplay
        BY <1>1, <1>2, <2>1, <2>4, EntryFault
    <2>5. CASE Online /\ dbList[Core.chan].dbid = 0
        <3>1. UNCHANGED <<player, seen>> /\ fault' = <<"dbid", Core.chan>>
            BY <2>5, SessionAssumption DEF Online, NoEntry, Entry
        <3> QED
            BY <1>1, <1>2, <2>1, <2>5, <3>1, EntryFault
    <2>6. CASE Online /\ dbList[Core.chan].dbid # 0
        <3> DEFINE o == [chan |-> Core.chan, uid |-> dbList[Core.chan].dbid, conn |-> Core.conn]
        <3>1. /\ FaultsExplained' /\ UNCHANGED <<conn, seen>>
              /\ (\E placed : player' = Added(<<o>>, placed).player) /\ <<o>> \in Seq(Waiting)
            BY <1>1, <2>1, <2>6, OnlineFault
        <3> HIDE DEF o
        <3>2. DeafOnlyIfBoundLate'
            BY <1>1, <3>1, AddedDeaf, DeafKept DEF SeenGrows
        <3> QED
            BY <3>1, <3>2
    <2> QED
        BY <1>6, <2>2, <2>3, <2>4, <2>5, <2>6 DEF CoreStep
<1>7. CASE MapLoaded
    <2> DEFINE os == Append(Tail(onlines), Head(onlines))
    <2>1. UNCHANGED conn /\ SeenGrows /\ (\E placed : player' = Added(os, placed).player) /\ os \in Seq(Waiting)
        BY <1>7, Rotated DEF MapLoaded, netVars, SeenGrows
    <2> HIDE DEF os
    <2>2. DeafOnlyIfBoundLate'
        BY <1>1, <2>1, AddedDeaf, DeafKept
    <2> QED
        BY <1>1, <1>7, <2>2, MapFault
<1>8. ~\E i \in DOMAIN polls : Poll(i)
    BY <1>1 DEF Poll
<1> QED
    BY <1>3, <1>4, <1>5, <1>6, <1>7, <1>8 DEF Next, CoreActor

----------------------------------------------------------------------------
(* The theorems.                                                            *)

(* What the parts of a session say of one another. Once an assertion has    *)
(* failed the server has ended: what was true of the players until then     *)
(* explains it.                                                             *)
LinkInv == /\ Inv /\ CoreInv
           /\ fault = None => PlayerInv /\ MarkInv
           /\ FaultsExplained /\ DeafOnlyIfBoundLate

LEMMA LinkInit == Init => LinkInv
<1> SUFFICES ASSUME Init PROVE LinkInv
    OBVIOUS
<1>1. Inv /\ CoreInv /\ PlayerInv /\ MarkInv
    BY InitInv, CoreInit, PlayersInit, MarksInit
<1>2. FaultsExplained
    BY DEF Init, FaultsExplained, Fails
<1> QED
    BY <1>1, <1>2, DeafPlayers DEF LinkInv

LEMMA LinkStep == ASSUME LinkInv, [Next]_vars PROVE LinkInv'
<1>1. Inv /\ CoreInv
    BY DEF LinkInv
<1>2. Inv' /\ CoreInv'
    BY <1>1, NextStep, StutterStep, CoreStays
<1>3. CASE UNCHANGED vars /\ fault # None
    <2>1. FaultsExplained' /\ DeafOnlyIfBoundLate'
        BY <1>3 DEF LinkInv, FaultsExplained, DeafOnlyIfBoundLate, Fails, Late, Open,
                    vars, netVars, coreVars
    <2>2. fault' # None
        BY <1>3 DEF vars
    <2> QED
        BY <1>2, <2>1, <2>2 DEF LinkInv
<1>4. CASE fault = None /\ fault' = None
    <2>1. PlayerInv' /\ MarkInv'
        BY <1>1, <1>4, PlayersStay, MarksStay DEF LinkInv
    <2>2. DeafOnlyIfBoundLate'
        BY <1>2, <2>1, DeafPlayers, PTL
    <2> QED
        BY <1>2, <1>4, <2>1, <2>2, NoFaultIs DEF LinkInv
<1>5. CASE fault = None /\ fault' # None
    <2>1. Next
        BY <1>5 DEF vars
    <2>2. FaultsExplained' /\ DeafOnlyIfBoundLate'
        BY <1>1, <1>5, <2>1, FaultStep DEF LinkInv
    <2> QED
        BY <1>2, <1>5, <2>2 DEF LinkInv
<1> QED
    BY <1>3, <1>4, <1>5 DEF Next

LEMMA LinkInvariance == Spec => []LinkInv
BY LinkInit, LinkStep, PTL DEF Spec

\* An account that is marked online and has no player has a log-out under way that
\* will clear the mark, unless the map came after the BADCHANNEL of its connection:
\* no mark is left behind that on_AM_PLAYERLOGOUT will not clear
\* (servicecorenet.cpp:93-163, servicecoreop.cpp:277-294).
THEOREM NoEntryIsStuck == Spec => []NoStuckEntry
<1>1. LinkInv => NoStuckEntry
    <2> SUFFICES ASSUME LinkInv, NEW s \in Slot, dbList[s].online, dbList[s].dbid \in Account, ~Closing(s),
                        "lateOnline" \notin seen, fault = None, player[dbList[s].dbid].state = "none"
                 PROVE  \/ \E i \in DOMAIN coreQ : /\ coreQ[i].type = "PLAYERLOGOUT" /\ coreQ[i].chan = s
                                                     /\ coreQ[i].uid = dbList[s].dbid
                        \/ \E i \in DOMAIN polls : polls[i].chan = s /\ polls[i].uid = dbList[s].dbid
        BY DEF NoStuckEntry
    <2>1. PICK d \in Account : d = dbList[s].dbid
        OBVIOUS
    <2>2. dbList[s].online = TRUE
        <3>1. dbList[s] \in [dbid : Account \cup {None, 0}, online : BOOLEAN]
            BY Parts DEF LinkInv, Inv, CoreOK, Entries
        <3> QED
            BY <3>1
    <2>3. BackedBy(s, d)
        BY <2>1, <2>2 DEF LinkInv, MarkInv, Backed, Mark
    <2> QED
        BY <2>1, <2>3 DEF BackedBy, Reported
<1> QED
    BY <1>1, LinkInvariance, PTL

\* A player in the game hears of the end of its connection, from the channel it is
\* bound to or from the AM_BADCHANNEL in its mailbox, unless the channel had gone
\* before the player bound it (channel.cpp: Channel::close, bindPlayer).
THEOREM DeafIfBoundLate == Spec => []DeafOnlyIfBoundLate
<1>1. LinkInv => DeafOnlyIfBoundLate
    BY DEF LinkInv
<1> QED
    BY <1>1, LinkInvariance, PTL

\* The assertions of net_CM_LOGIN, findDBID, operateNet, addPlayer, bindPlayer,
\* unbindPlayer and on_AM_BADCHANNEL fail only for a client that sends CM_LOGIN
\* twice, for what the core or the net thread does late, for a player whose
\* connection has gone, for two CM_ONLINE of a channel that wait for the map, or
\* where a late CM_ONLINE that made no player took the mark of its slot away.
THEOREM FaultsAreExplained == Spec => []FaultsExplained
<1>1. LinkInv => FaultsExplained
    BY DEF LinkInv
<1> QED
    BY <1>1, LinkInvariance, PTL
=============================================================================
