------------------------ MODULE MapRegistryTalkProofs ------------------------
(* The talk of players and maps about switches, for any number of maps,     *)
(* scripts and players: a player has one word with one map under way while  *)
(* it switches, and none otherwise; and who has the cell of a map locked has*)
(* still something to tell that map. With the counts of MapRegistryProofs,  *)
(* it follows that nobody is forgotten. Then, where the players are that no *)
(* closing map has let in, and why a player refuses to go: nobody else is   *)
(* left behind on a map that closes, and every fault has its listed cause.  *)
EXTENDS MapRegistryProofs

Spoken == {x \in Message : x.type \in Talk}
Says(m, p) == {x \in Message : x.type \in {"TRYMAPSWITCH", "TRYLEAVE", "LEAVEOK"} /\ x.map = m /\ x.by = p}
Hears(m, p) == {x \in Message : x.type \in {"ALLOW", "BAD", "FINISHLEAVE"} /\ x.map = m /\ x.by = p}
Late(m, p) == {x \in Message : x.type \in {"SWITCHOK", "SWITCHERROR"} /\ x.map = m /\ x.by = p}
Trying(m, p) == From("TRYMAPSWITCH", m, p)
Allowed(m, p) == From("ALLOW", m, p)

Words(b, p, m) == N(b[m], Says(m, p)) + N(b[p], Hears(m, p))
Speaks(p, k) == \A m \in Map : Words(box, p, m) = (IF m = k THEN 1 ELSE 0)
Talks(p) ==
    /\ player[p].step \in {"idle", "load"} => \A m \in Map : Words(box, p, m) = 0
    /\ player[p].step = "try" => Speaks(p, player[p].to)
    /\ player[p].step = "leave" => Speaks(p, player[p].at)
    /\ player[p].step = "left" => player[p].to = player[p].at /\ \E k \in Map : Speaks(p, k)
    /\ \A m \in Map : N(box[m], Trying(m, p)) # 0 => player[p].step = "try"
Holds(p, m) ==
    \/ N(box[m], Late(m, p)) # 0
    \/ player[p].step = "try" /\ player[p].to = m /\ N(box[p], Allowed(m, p)) # 0
    \/ player[p].step \in {"leave", "left"} /\ player[p].to = m
Locks(p) == \A m \in Map : map[m].lock = p => Holds(p, m)
TalkInv == \A p \in Player : Talks(p) /\ Locks(p)

LEMMA SpokenAre ==
    /\ \A m, p : Says(m, p) \in SUBSET Spoken /\ Hears(m, p) \in SUBSET Spoken /\ Late(m, p) \in SUBSET Spoken
    /\ \A m, p : Trying(m, p) \in SUBSET Spoken /\ Allowed(m, p) \in SUBSET Spoken
    /\ \A m, p : Trying(m, p) \subseteq Says(m, p) /\ Allowed(m, p) \subseteq Hears(m, p)
BY DEF Spoken, Says, Hears, Late, Trying, Allowed, From, Talk

\* Somewhere in q one of S comes before one of T.
Before(q, S, T) == \E i, j \in DOMAIN q : i < j /\ q[i] \in S /\ q[j] \in T

(* The mailboxes d hold as many messages of each kind as the mailboxes c do,*)
(* for all kinds within K, and in no other order.                           *)
Hush(K, c, d) ==
    \A a \in Actor : \A S, T \in SUBSET K :
        N(d[a], S) = N(c[a], S) /\ (Before(d[a], S, T) => Before(c[a], S, T))
Quiet(K) == {post \in Posts : post.msg \notin K}

LEMMA BeforeTail ==
    ASSUME NEW M, NEW q \in Seq(M), q # <<>>, NEW S, NEW T, Before(Tail(q), S, T)
    PROVE  Before(q, S, T)
<1>1. PICK i, j \in DOMAIN Tail(q) : i < j /\ Tail(q)[i] \in S /\ Tail(q)[j] \in T
    BY DEF Before
<1>2. Len(q) \in Nat /\ DOMAIN q = 1 .. Len(q) /\ DOMAIN Tail(q) = 1 .. Len(q) - 1
    OBVIOUS
<1>3. \A n \in 1 .. Len(q) - 1 : Tail(q)[n] = q[n + 1]
    OBVIOUS
<1>4. i + 1 \in DOMAIN q /\ j + 1 \in DOMAIN q /\ i + 1 < j + 1
    BY <1>1, <1>2
<1>5. Tail(q)[i] = q[i + 1] /\ Tail(q)[j] = q[j + 1]
    BY <1>2, <1>3
<1> QED
    BY <1>1, <1>4, <1>5 DEF Before

LEMMA BeforeAppend ==
    ASSUME NEW M, NEW q \in Seq(M), NEW x \in M, NEW S, NEW T, Before(Append(q, x), S, T)
    PROVE  Before(q, S, T) \/ (x \in T /\ \E i \in DOMAIN q : q[i] \in S)
<1>1. PICK i, j \in DOMAIN Append(q, x) : i < j /\ Append(q, x)[i] \in S /\ Append(q, x)[j] \in T
    BY DEF Before
<1>2. DOMAIN Append(q, x) = 1 .. Len(q) + 1 /\ DOMAIN q = 1 .. Len(q) /\ Len(q) \in Nat
    OBVIOUS
<1>3. i \in DOMAIN q /\ Append(q, x)[i] = q[i]
    BY <1>1, <1>2
<1>4. CASE j \in DOMAIN q
    <2>1. Append(q, x)[j] = q[j]
        BY <1>2, <1>4
    <2> QED
        BY <1>1, <1>3, <1>4, <2>1 DEF Before
<1>5. CASE j = Len(q) + 1
    <2>1. Append(q, x)[j] = x
        BY <1>5
    <2> QED
        BY <1>1, <1>3, <2>1
<1> QED
    BY <1>2, <1>4, <1>5

LEMMA BeforeConcat ==
    ASSUME NEW M, NEW q \in Seq(M), NEW r \in Seq(M), NEW S, NEW T, \A i \in DOMAIN r : r[i] \notin T,
           Before(q \o r, S, T)
    PROVE  Before(q, S, T)
<1>1. PICK i, j \in DOMAIN (q \o r) : i < j /\ (q \o r)[i] \in S /\ (q \o r)[j] \in T
    BY DEF Before
<1>2. /\ DOMAIN (q \o r) = 1 .. Len(q) + Len(r)
      /\ \A n \in 1 .. Len(q) : (q \o r)[n] = q[n]
      /\ \A n \in Len(q) + 1 .. Len(q) + Len(r) : (q \o r)[n] = r[n - Len(q)]
    BY ConcatProperties
<1>3. DOMAIN q = 1 .. Len(q) /\ DOMAIN r = 1 .. Len(r) /\ Len(q) \in Nat /\ Len(r) \in Nat
    OBVIOUS
<1>4. j \in 1 .. Len(q)
    <2> SUFFICES ASSUME j \in Len(q) + 1 .. Len(q) + Len(r) PROVE FALSE
        BY <1>2, <1>3
    <2>1. j - Len(q) \in DOMAIN r /\ (q \o r)[j] = r[j - Len(q)]
        BY <1>2, <1>3
    <2> QED
        BY <1>1, <2>1
<1>5. i \in 1 .. Len(q)
    BY <1>1, <1>2, <1>3, <1>4
<1> QED
    BY <1>1, <1>2, <1>3, <1>4, <1>5 DEF Before

LEMMA HushTake ==
    ASSUME box \in Mailboxes, NEW a \in Actor, Got(a), NEW K, Top(a) \notin K
    PROVE  Take(a) \in Mailboxes /\ Hush(K, box, Take(a))
<1>1. /\ Take(a) \in Mailboxes
      /\ \A c \in Actor : \A S : N(Take(a)[c], S) = N(box[c], S) - (IF c = a /\ Top(a) \in S THEN 1 ELSE 0)
    BY TakeCount
<1>2. \A c \in Actor : \A S : N(box[c], S) \in Nat
    BY BoxNat
<1>3. \A c \in Actor : \A S \in SUBSET K : N(Take(a)[c], S) = N(box[c], S)
    BY <1>1, <1>2
<1>4. ASSUME NEW c \in Actor, NEW S, NEW T, Before(Take(a)[c], S, T) PROVE Before(box[c], S, T)
    <2>1. CASE c # a
        BY <1>4, <2>1 DEF Take, Mailboxes
    <2>2. CASE c = a
        <3>1. Take(a)[c] = Tail(box[c]) /\ box[c] \in Seq(Message) /\ box[c] # <<>>
            BY <2>2 DEF Take, Mailboxes, Got
        <3> QED
            BY <1>4, <3>1, BeforeTail
    <2> QED
        BY <2>1, <2>2
<1> QED
    BY <1>1, <1>3, <1>4 DEF Hush

LEMMA HushDeliver ==
    ASSUME NEW b \in Mailboxes, NEW K, NEW post \in Quiet(K)
    PROVE  Deliver(b, post) \in Mailboxes /\ Hush(K, b, Deliver(b, post))
<1>1. post \in Posts /\ post.msg \notin K
    BY DEF Quiet
<1>2. /\ Deliver(b, post) \in Mailboxes
      /\ \A c \in Actor : \A S : N(Deliver(b, post)[c], S) = N(b[c], S) + (IF post.to = c /\ post.msg \in S THEN 1 ELSE 0)
    BY <1>1, DeliverCount
<1>3. \A c \in Actor : \A S : N(b[c], S) \in Nat
    BY BoxNat
<1>4. \A c \in Actor : \A S \in SUBSET K : N(Deliver(b, post)[c], S) = N(b[c], S)
    BY <1>1, <1>2, <1>3
<1>5. ASSUME NEW c \in Actor, NEW S \in SUBSET K, NEW T \in SUBSET K, Before(Deliver(b, post)[c], S, T)
      PROVE  Before(b[c], S, T)
    <2>1. \/ Deliver(b, post)[c] = b[c]
          \/ Deliver(b, post)[c] = Append(b[c], post.msg)
        BY DEF Deliver, Put, Mailboxes
    <2>2. b[c] \in Seq(Message) /\ post.msg \in Message /\ post.msg \notin T
        BY <1>1 DEF Mailboxes, Posts
    <2> QED
        BY <1>5, <2>1, <2>2, BeforeAppend
<1> QED
    BY <1>2, <1>4, <1>5 DEF Hush

LEMMA HushPut ==
    ASSUME NEW b \in Mailboxes, NEW to \in Actor, NEW y \in Message, NEW K, y \notin K
    PROVE  Put(b, to, y) \in Mailboxes /\ Hush(K, b, Put(b, to, y))
<1>1. Post(to, y) \in Quiet(K) /\ Deliver(b, Post(to, y)) = Put(b, to, y)
    BY Actors DEF Post, Quiet, Posts, Deliver
<1> QED
    BY <1>1, HushDeliver

LEMMA HushAll ==
    ASSUME NEW b \in Mailboxes, NEW K, NEW posts \in Seq(Quiet(K))
    PROVE  DeliverAll(b, posts) \in Mailboxes /\ Hush(K, b, DeliverAll(b, posts))
<1>1. posts \in Seq(Posts)
    BY DEF Quiet
<1>2. /\ DeliverAll(b, posts) \in Mailboxes
      /\ \A c \in Actor : \A S : N(DeliverAll(b, posts)[c], S) = N(b[c], S) + Cardinality(Sends(posts, c, S))
    BY <1>1, DeliverAllCount
<1>3. ASSUME NEW c \in Actor, NEW S \in SUBSET K PROVE N(DeliverAll(b, posts)[c], S) = N(b[c], S)
    <2>1. \A i \in DOMAIN posts : posts[i].msg \notin S
        BY DEF Quiet
    <2>2. Sends(posts, c, S) = {}
        BY <2>1 DEF Sends
    <2>3. Cardinality(Sends(posts, c, S)) = 0 /\ N(b[c], S) \in Nat
        BY <2>2, FS_EmptySet, BoxNat
    <2> QED
        BY <1>2, <2>3
<1>4. ASSUME NEW c \in Actor, NEW S, NEW T \in SUBSET K, Before(DeliverAll(b, posts)[c], S, T)
      PROVE  Before(b[c], S, T)
    <2>1. /\ MailTo(c, posts) \in Seq(Message)
          /\ \A n \in DOMAIN MailTo(c, posts) : \E i \in DOMAIN posts : posts[i].msg = MailTo(c, posts)[n]
        BY <1>1, MailFacts
    <2>2. \A i \in DOMAIN posts : posts[i].msg \notin T
        BY DEF Quiet
    <2>3. \A n \in DOMAIN MailTo(c, posts) : MailTo(c, posts)[n] \notin T
        BY <2>1, <2>2
    <2>4. DeliverAll(b, posts)[c] = b[c] \o MailTo(c, posts) /\ b[c] \in Seq(Message)
        BY DEF DeliverAll, Mailboxes
    <2> QED
        BY <1>4, <2>1, <2>3, <2>4, BeforeConcat
<1> QED
    BY <1>2, <1>3, <1>4 DEF Hush

LEMMA HushOn ==
    ASSUME NEW K, NEW b, NEW c, NEW d, Hush(K, b, c), Hush(K, c, d)
    PROVE  Hush(K, b, d)
BY DEF Hush

LEMMA HushLess ==
    ASSUME NEW K, NEW b, NEW c, Hush(K, b, c), NEW L \in SUBSET K
    PROVE  Hush(L, b, c)
<1>1. \A S \in SUBSET L : S \in SUBSET K
    OBVIOUS
<1> QED
    BY <1>1 DEF Hush

LEMMA HushSame == \A K, b : Hush(K, b, b)
BY DEF Hush

(* What is heard of a switch: the words, the answer to the map that has sent*)
(* the player away, and that of the core.                                   *)
Replies == {x \in Message : x.type = "SWITCHED"}
Loads == {x \in Message : x.type = "LOADED" /\ x.by \in Player}
Heard == Spoken \cup Replies \cup Loads

\* What the cores and the maps tell each other about loads and closes.
Errands == {"LOADMAP", "CLOSEMAP", "CLOSED", "WAITACTIVATED", "ACTIVATED", "TRIGGER"}

LEMMA HeardIs ==
    /\ \A x : x.type \in Errands => x \notin Heard
    /\ \A x : x.type = "LOADED" => x \notin Spoken \cup Replies
    /\ \A x : x.type = "LOADED" /\ x.by \notin Player => x \notin Heard
    /\ \A x : x.type = "SWITCHED" => x \notin Spoken \cup Loads
    /\ Spoken \subseteq Heard /\ Spoken \cup Replies \subseteq Heard /\ Spoken \cup Loads \subseteq Heard
BY DEF Errands, Heard, Spoken, Replies, Loads, Talk

LEMMA MessageIs ==
    ASSUME NEW type \in MsgType, NEW m \in Map, NEW r \in Actor, NEW flag \in BOOLEAN
    PROVE  /\ Msg(type, m, r, flag) \in Message
           /\ Msg(type, m, r, flag).type = type /\ Msg(type, m, r, flag).by = r /\ Msg(type, m, r, flag).map = m
BY DEF Msg, Message

LEMMA QuietMessages ==
    ASSUME NEW m \in Map, NEW r \in Actor, NEW flag \in BOOLEAN, NEW type \in {"LOADMAP", "CLOSEMAP", "CLOSED", "WAITACTIVATED", "ACTIVATED", "TRIGGER"}
    PROVE  /\ Msg(type, m, r, flag) \in Message /\ Msg(type, m, r, flag) \notin Heard
           /\ Msg(type, m, r, flag) \notin Spoken \cup Replies /\ Msg(type, m, r, flag) \notin Spoken \cup Loads
<1>1. type \in MsgType
    BY DEF MsgType
<1>2. Msg(type, m, r, flag) \in Message /\ Msg(type, m, r, flag).type = type
    BY <1>1, MessageIs
<1> QED
    BY <1>2, HeardIs DEF Errands

\* The answer of the core.
LEMMA LoadedMessages ==
    ASSUME NEW m \in Map, NEW r \in Actor, NEW flag \in BOOLEAN
    PROVE  /\ Msg("LOADED", m, r, flag) \in Message /\ Msg("LOADED", m, r, flag) \notin Spoken \cup Replies
           /\ r \notin Player => Msg("LOADED", m, r, flag) \notin Heard
<1>1. Msg("LOADED", m, r, flag) \in Message /\ Msg("LOADED", m, r, flag).type = "LOADED" /\ Msg("LOADED", m, r, flag).by = r
    BY DEF Msg, Message, MsgType
<1> QED
    BY <1>1, HeardIs

\* That of the player to the map that has sent it away.
LEMMA SwitchedMessages ==
    ASSUME NEW m \in Map, NEW r \in Actor, NEW flag \in BOOLEAN
    PROVE  Msg("SWITCHED", m, r, flag) \in Message /\ Msg("SWITCHED", m, r, flag) \notin Spoken \cup Loads
<1>1. Msg("SWITCHED", m, r, flag) \in Message /\ Msg("SWITCHED", m, r, flag).type = "SWITCHED"
    BY DEF Msg, Message, MsgType
<1> QED
    BY <1>1, HeardIs

LEMMA QuietReach ==
    ASSUME NEW ms, NEW m \in Map, NEW r \in Actor, NEW flag \in BOOLEAN,
           NEW type \in {"CLOSEMAP", "WAITACTIVATED"}
    PROVE  Reach(ms, m, Msg(type, m, r, flag)) \in Quiet(Heard)
<1> DEFINE x == Msg(type, m, r, flag)
<1>1. x \in Message /\ x.type = type /\ x.by = r /\ x.map = m
    BY DEF Msg, Message, MsgType
<1>2. m \in Actor /\ Core \in Actor /\ Peer \in Actor /\ x \notin Heard
    BY <1>1, Actors, HeardIs DEF Errands
<1> HIDE DEF x
<1>3. CASE ms[m].state = "live"
    <2>1. Reach(ms, m, x) = Post(m, x)
        BY <1>3 DEF Reach
    <2> QED
        BY <1>1, <1>2, <2>1 DEF Post, Quiet, Posts, x
<1>4. CASE ms[m].state # "live"
    <2>1. Reach(ms, m, x) = Refusal(x)
        BY <1>4 DEF Reach
    <2>2. CASE type = "WAITACTIVATED"
        <3> DEFINE y == [x EXCEPT !.type = "ACTIVATED", !.flag = FALSE]
        <3>1. Refusal(x) = Post(IF x.by = Peer THEN Peer ELSE Core, y)
            BY <1>1, <2>2 DEF Refusal
        <3>2. y \in Message /\ y.type = "ACTIVATED"
            BY <1>1 DEF Message, MsgType
        <3> HIDE DEF y
        <3>3. y \notin Heard
            BY <3>2, HeardIs DEF Errands
        <3> QED
            BY <1>2, <2>1, <3>1, <3>2, <3>3 DEF Post, Quiet, Posts, x
    <2>3. CASE type = "CLOSEMAP"
        <3> DEFINE y == [x EXCEPT !.type = "CLOSED", !.flag = FALSE]
        <3>1. Refusal(x) = Post(r, y)
            BY <1>1, <2>3 DEF Refusal
        <3>2. y \in Message /\ y.type = "CLOSED"
            BY <1>1 DEF Message, MsgType
        <3> HIDE DEF y
        <3>3. y \notin Heard
            BY <3>2, HeardIs DEF Errands
        <3> QED
            BY <1>2, <2>1, <3>1, <3>2, <3>3 DEF Post, Quiet, Posts, x
    <2> QED
        BY <2>2, <2>3
<1> QED
    BY <1>3, <1>4 DEF x

LEMMA QuietAnswer ==
    ASSUME NEW ms, NEW m \in Map, NEW r \in Actor, NEW ok \in BOOLEAN, NEW wait \in BOOLEAN
    PROVE  Answering(ms, m, r, ok, wait) \in Quiet(Spoken \cup Replies)
<1>1. PICK type \in {"CLOSEMAP", "WAITACTIVATED"} : type = "WAITACTIVATED"
    OBVIOUS
<1>2. Reach(ms, m, Msg(type, m, r, TRUE)) \in Quiet(Spoken \cup Replies)
    BY QuietReach, HeardIs DEF Quiet
<1>3. Post(r, Msg("LOADED", m, r, ok)) \in Quiet(Spoken \cup Replies)
    <2>1. "LOADED" \in MsgType
        BY DEF MsgType
    <2> QED
        BY <2>1, MessageIs, HeardIs DEF Post, Quiet, Posts
<1> QED
    BY <1>1, <1>2, <1>3 DEF Answering

-----------------------------------------------------------------------------
(* The steps that say nothing about switches.                               *)

\* What a switch that goes on may do to a player that has not told any map yet.
Begins(p) ==
    /\ player'[p].at = player[p].at
    /\ player[p].dead => player'[p].dead
    /\ \/ player'[p].for = None
       \/ player'[p].to = Exit
       \/ player'[p].for = player[p].for /\ player'[p].to = player[p].to
    /\ \/ player'[p].step = player[p].step /\ player'[p].to = player[p].to
       \/ /\ player[p].step \in {"idle", "load"} /\ player'[p].step \in {"idle", "load"}
          /\ player'[p].step = "load" => player'[p].to # player'[p].at

(* They move nothing within K, nobody enters or leaves a map, and no switch *)
(* goes on in them.                                                         *)
Silent(K) ==
    /\ Hush(K, box, box')
    /\ \A m \in Map : map'[m].lock = map[m].lock /\ map'[m].grid = map[m].grid
    /\ \A p \in Player : Begins(p)
    /\ seen \subseteq seen'
\* No map sends anybody away, either.
Calm(K) == Silent(K) /\ \A m \in Map : map'[m].todo = map[m].todo

LEMMA SilentKeeps ==
    ASSUME TalkInv, Silent(Spoken)
    PROVE  TalkInv'
<1> SUFFICES ASSUME NEW p \in Player PROVE Talks(p)' /\ Locks(p)'
    BY DEF TalkInv
<1>1. Talks(p) /\ Locks(p) /\ p \in Actor /\ \A m \in Map : m \in Actor
    BY Actors DEF TalkInv
<1>2. \A m \in Map : Words(box', p, m) = Words(box, p, m) /\ N(box'[m], Trying(m, p)) = N(box[m], Trying(m, p))
    BY <1>1, SpokenAre DEF Silent, Hush, Words
<1>3. \A m \in Map : /\ N(box'[m], Late(m, p)) = N(box[m], Late(m, p))
                     /\ N(box'[p], Allowed(m, p)) = N(box[p], Allowed(m, p))
    BY <1>1, SpokenAre DEF Silent, Hush
<1>4. \A m \in Map : map'[m].lock = p => map[m].lock = p
    BY DEF Silent
<1>5. CASE player'[p].step = player[p].step /\ player'[p].to = player[p].to /\ player'[p].at = player[p].at
    <2>1. Talks(p)'
        BY <1>1, <1>2, <1>5 DEF Talks, Speaks
    <2>2. Locks(p)'
        BY <1>1, <1>3, <1>4, <1>5 DEF Locks, Holds
    <2> QED
        BY <2>1, <2>2
<1>6. CASE player[p].step \in {"idle", "load"} /\ player'[p].step \in {"idle", "load"}
    <2>1. Talks(p)'
        BY <1>1, <1>2, <1>6 DEF Talks, Speaks
    <2>2. Locks(p)'
        BY <1>1, <1>3, <1>4, <1>6 DEF Locks, Holds
    <2> QED
        BY <2>1, <2>2
<1>7. Begins(p)
    BY DEF Silent
<1>8. \/ player'[p].step = player[p].step /\ player'[p].to = player[p].to /\ player'[p].at = player[p].at
      \/ player[p].step \in {"idle", "load"} /\ player'[p].step \in {"idle", "load"}
    BY <1>7 DEF Begins
<1> QED
    BY <1>5, <1>6, <1>8

LEMMA SilentLess ==
    ASSUME NEW K, NEW L \in SUBSET K, Silent(K)
    PROVE  Silent(L)
BY HushLess DEF Silent

\* Of actors that the step leaves alone.
LEMMA PlayersRest ==
    ASSUME UNCHANGED player
    PROVE  \A p \in Player : Begins(p)
BY DEF Begins

LEMMA SilentHere ==
    ASSUME NEW K, Hush(K, box, box'), UNCHANGED player, seen \subseteq seen',
           \A m \in Map : map'[m].lock = map[m].lock /\ map'[m].grid = map[m].grid /\ map'[m].todo = map[m].todo
    PROVE  Calm(K)
BY PlayersRest DEF Silent, Calm

\* A map that is made has not been locked.
LEMMA AttachSilent ==
    ASSUME IInv, NEW m \in Map, CanAttach(m), Attach(m)
    PROVE  \A n \in Map : map'[n].lock = map[n].lock /\ map'[n].grid = map[n].grid /\ map'[n].todo = map[n].todo
<1>1. map \in [Map -> MapActor] /\ map' = [map EXCEPT ![m] = NewMap]
    BY Typed DEF Attach, IInv
<1>2. map'[m] = NewMap /\ \A n \in Map \ {m} : map'[n] = map[n]
    BY <1>1
<1>3. map[m].lock = None /\ map[m].grid = {} /\ map[m].todo = <<>>
    BY DEF IInv, RegistryInv, State, Bare, Live, CanAttach
<1> QED
    BY <1>2, <1>3, NewMapIs

LEMMA CoreLoadMapSilent ==
    ASSUME IInv, CoreLoadMap
    PROVE  Calm(Spoken \cup Replies)
<1>1. /\ Got(Core) /\ Top(Core).type = "LOADMAP" /\ Core \in Actor /\ Peer \in Actor /\ TypeOK /\ MailInv
      /\ UNCHANGED <<player, seen>>
    BY Actors DEF CoreLoadMap, IInv
<1>2. PICK m \in Map, r \in Actor, wait \in BOOLEAN : Top(Core).map = m /\ Top(Core).by = r /\ Top(Core).flag = wait
    BY <1>1, Handled
<1>3. Take(Core) \in Mailboxes /\ Hush(Spoken \cup Replies, box, Take(Core))
    BY <1>1, HeardIs, HushTake DEF Errands, MailInv, Fit
<1>4. \A ms : Hush(Spoken \cup Replies, box, Answer(Take(Core), ms, m, r, TRUE, wait))
    <2> SUFFICES ASSUME NEW ms PROVE Hush(Spoken \cup Replies, box, Answer(Take(Core), ms, m, r, TRUE, wait))
        OBVIOUS
    <2>1. PICK ok \in BOOLEAN : ok = TRUE
        OBVIOUS
    <2>2. Answering(ms, m, r, ok, wait) \in Quiet(Spoken \cup Replies)
        BY QuietAnswer
    <2>3. Hush(Spoken \cup Replies, Take(Core), Deliver(Take(Core), Answering(ms, m, r, ok, wait)))
        BY <1>3, <2>2, HushDeliver
    <2> QED
        BY <1>3, <2>1, <2>3, HushOn DEF Answer
<1>5. Hush(Spoken \cup Replies, box, Put(Take(Core), Peer, Msg("LOADMAP", m, Core, wait)))
    <2>1. Msg("LOADMAP", m, Core, wait) \in Message /\ Msg("LOADMAP", m, Core, wait) \notin Spoken \cup Replies
        BY <1>1, QuietMessages
    <2>2. Hush(Spoken \cup Replies, Take(Core), Put(Take(Core), Peer, Msg("LOADMAP", m, Core, wait)))
        BY <1>1, <1>3, <2>1, HushPut
    <2> QED
        BY <1>3, <2>2, HushOn
<1>6. Hush(Spoken \cup Replies, box, box)
    BY DEF Hush
<1>7. Hush(Spoken \cup Replies, box, box') /\ (UNCHANGED map \/ (CanAttach(m) /\ Attach(m)))
    BY <1>2, <1>3, <1>4, <1>5, <1>6 DEF CoreLoadMap
<1>8. \A n \in Map : map'[n].lock = map[n].lock /\ map'[n].grid = map[n].grid /\ map'[n].todo = map[n].todo
    BY <1>1, <1>7, AttachSilent
<1> QED
    BY <1>1, <1>7, <1>8, SilentHere

LEMMA SeqIs == \A S : \A k \in Nat : \A f \in [1 .. k -> S] : f \in Seq(S)
OBVIOUS

LEMMA CoreLoadedSilent ==
    ASSUME IInv, CoreLoaded
    PROVE  Calm(Spoken \cup Replies)
<1>1. /\ Got(Core) /\ Top(Core).type = "LOADED" /\ Core \in Actor /\ Peer \in Actor /\ TypeOK /\ MailInv
      /\ UNCHANGED <<player, map, seen>>
    BY Actors DEF CoreLoaded, IInv
<1>2. PICK m \in Map, by \in {Core, Peer} :
          Top(Core).map = m /\ Top(Core).by = by /\ Top(Core).flag = TRUE /\ F(box, Core, "LOADED", m, by) # 0
    <2>1. Top(Core) \in For(Core) /\ Top(Core).map \in Map /\ F(box, Core, "LOADED", Top(Core).map, Top(Core).by) # 0
        BY <1>1, Handled
    <2>2. Top(Core).by \in {Core, Peer} /\ Top(Core).flag = TRUE
        BY <1>1, <2>1, Actors DEF For, ForCore
    <2> QED
        BY <2>1, <2>2
<1>3. loadOp[m] \in Seq(Waiter) /\ loadOp[m] # <<>>
    BY <1>1, <1>2, LoadingAt, QueueNat
<1>4. PICK first \in Actor : Head(loadOp[m]).by = first
    <2>1. Head(loadOp[m]) \in Waiter
        BY <1>3
    <2> QED
        BY <2>1 DEF Waiter
<1> DEFINE rest == Tail(loadOp[m])
           listed == m \in coreList'
           replies == [i \in DOMAIN rest |-> Answering(map, m, rest[i].by, listed, rest[i].wait)]
           y == Msg("LOADED", m, first, TRUE)
<1>5. box' = Put(DeliverAll(Take(Core), replies), first, y)
    BY <1>2, <1>4 DEF CoreLoaded
<1>6. replies \in Seq(Quiet(Spoken \cup Replies))
    <2>1. rest \in Seq(Waiter) /\ DOMAIN rest = 1 .. Len(rest) /\ Len(rest) \in Nat
        BY <1>3
    <2>2. ASSUME NEW i \in DOMAIN rest PROVE Answering(map, m, rest[i].by, listed, rest[i].wait) \in Quiet(Spoken \cup Replies)
        <3>1. rest[i] \in Waiter /\ listed \in BOOLEAN
            BY <2>1
        <3> HIDE DEF rest, listed
        <3>2. rest[i].by \in Actor /\ rest[i].wait \in BOOLEAN
            BY <3>1 DEF Waiter
        <3> QED
            BY <3>1, <3>2, QuietAnswer
    <2> HIDE DEF rest, listed
    <2>3. replies \in [1 .. Len(rest) -> Quiet(Spoken \cup Replies)]
        BY <2>1, <2>2
    <2> HIDE DEF replies
    <2> QED
        BY <2>1, <2>3, SeqIs
<1>7. y \in Message /\ y \notin Spoken \cup Replies
    BY LoadedMessages
<1> HIDE DEF replies, y
<1>8. Take(Core) \in Mailboxes /\ Hush(Spoken \cup Replies, box, Take(Core))
    BY <1>1, HeardIs, HushTake DEF Errands, MailInv, Fit
<1>9. DeliverAll(Take(Core), replies) \in Mailboxes /\ Hush(Spoken \cup Replies, Take(Core), DeliverAll(Take(Core), replies))
    BY <1>6, <1>8, HushAll
<1>10. Hush(Spoken \cup Replies, DeliverAll(Take(Core), replies), box')
    BY <1>5, <1>7, <1>9, HushPut
<1>11. Hush(Spoken \cup Replies, box, box')
    BY <1>8, <1>9, <1>10, HushOn
<1> QED
    BY <1>1, <1>11, SilentHere

\* A core passes a message on.
LEMMA PassedSilent ==
    ASSUME IInv, NEW a \in Actor, Got(a), Top(a).type \in {"ACTIVATED", "CLOSED"}, NEW to \in Actor,
           NEW type \in {"LOADED", "CLOSED"}, box' = Put(Take(a), to, [Top(a) EXCEPT !.type = type]),
           Top(a).by \notin Player, UNCHANGED <<player, map, seen>>
    PROVE  Calm(Heard)
<1> DEFINE y == [Top(a) EXCEPT !.type = type]
<1>1. box \in Mailboxes /\ Top(a) \in Message /\ Top(a) \notin Heard
    BY Handled, HeardIs DEF IInv, MailInv, Fit, Errands
<1>2. y \in Message /\ y.type = type /\ y.by \notin Player
    BY <1>1 DEF Message, MsgType
<1> HIDE DEF y
<1>3. y \notin Heard
    BY <1>2, HeardIs DEF Errands
<1>4. Take(a) \in Mailboxes /\ Hush(Heard, box, Take(a))
    BY <1>1, HushTake
<1>5. Hush(Heard, Take(a), box')
    BY <1>2, <1>3, <1>4, HushPut DEF y
<1>6. Hush(Heard, box, box')
    BY <1>4, <1>5, HushOn
<1> QED
    BY <1>6, SilentHere

LEMMA CoreActivatedSilent ==
    ASSUME IInv, CoreActivated
    PROVE  Calm(Heard)
<1>1. Got(Core) /\ Top(Core).type = "ACTIVATED" /\ Core \in Actor /\ UNCHANGED <<player, map, seen>>
    BY Actors DEF CoreActivated
<1>2. PICK r \in Actor : Top(Core).by = r /\ r \notin Player
    <2>1. Top(Core) \in For(Core) /\ Top(Core).by \in Actor
        BY <1>1, Handled
    <2>2. Top(Core).by \in Map \cup Script
        BY <1>1, <2>1, Actors DEF For, ForCore
    <2> QED
        BY <2>1, <2>2, Actors
<1>3. PICK type \in {"LOADED", "CLOSED"} : type = "LOADED"
    OBVIOUS
<1>4. box' = Put(Take(Core), r, [Top(Core) EXCEPT !.type = type])
    BY <1>2, <1>3 DEF CoreActivated
<1> QED
    BY <1>1, <1>2, <1>4, PassedSilent

LEMMA PeerActivatedSilent ==
    ASSUME IInv, PeerActivated
    PROVE  Calm(Heard)
<1>1. Got(Peer) /\ Top(Peer).type = "ACTIVATED" /\ Core \in Actor /\ Peer \in Actor /\ UNCHANGED <<player, map, seen>>
    BY Actors DEF PeerActivated
<1>2. Top(Peer).by \notin Player
    <2>1. Top(Peer) \in For(Peer)
        BY <1>1, Handled
    <2> QED
        BY <1>1, <2>1, Actors DEF For, ForPeer
<1>3. PICK type \in {"LOADED", "CLOSED"} : type = "LOADED"
    OBVIOUS
<1>4. box' = Put(Take(Peer), Core, [Top(Peer) EXCEPT !.type = type])
    BY <1>3 DEF PeerActivated
<1> QED
    BY <1>1, <1>2, <1>4, PassedSilent

LEMMA PeerClosedSilent ==
    ASSUME IInv, PeerClosed
    PROVE  Calm(Heard)
<1>1. Got(Peer) /\ Top(Peer).type = "CLOSED" /\ Core \in Actor /\ Peer \in Actor /\ UNCHANGED <<player, map, seen>>
    BY Actors DEF PeerClosed
<1>2. PICK type \in {"LOADED", "CLOSED"} : type = "CLOSED"
    OBVIOUS
<1>3. Top(Peer).by \notin Player
    <2>1. Top(Peer) \in For(Peer)
        BY <1>1, Handled
    <2> QED
        BY <1>1, <2>1, Actors DEF For, ForPeer
<1>4. box' = Put(Take(Peer), Core, [Top(Peer) EXCEPT !.type = type])
    <2>1. Top(Peer) \in Message
        BY <1>1, Handled
    <2>2. [Top(Peer) EXCEPT !.type = type] = Top(Peer)
        BY <1>1, <1>2, <2>1 DEF Message
    <2> QED
        BY <2>2 DEF PeerClosed
<1> QED
    BY <1>1, <1>3, <1>4, PassedSilent

\* What is sent on to a map that may have gone.
LEMMA CalledHush ==
    ASSUME NEW b \in Mailboxes, NEW ms, NEW m \in Map, NEW r \in Actor, NEW flag \in BOOLEAN,
           NEW type \in {"CLOSEMAP", "WAITACTIVATED"}
    PROVE  /\ Call(b, ms, m, Msg(type, m, r, flag)) \in Mailboxes
           /\ Hush(Heard, b, Call(b, ms, m, Msg(type, m, r, flag)))
BY QuietReach, HushDeliver DEF Call

LEMMA CoreCloseMapSilent ==
    ASSUME IInv, CoreCloseMap
    PROVE  Calm(Heard)
<1>1. /\ Got(Core) /\ Top(Core).type = "CLOSEMAP" /\ Core \in Actor /\ Peer \in Actor /\ MailInv
      /\ UNCHANGED <<player, map, seen>>
    BY Actors DEF CoreCloseMap, IInv
<1>2. PICK m \in Map, r \in Actor : Top(Core).map = m /\ Top(Core).by = r
    BY <1>1, Handled
<1>3. Take(Core) \in Mailboxes /\ Hush(Heard, box, Take(Core))
    BY <1>1, HeardIs, HushTake DEF Errands, MailInv, Fit
<1>4. Hush(Heard, Take(Core), Put(Take(Core), r, Msg("CLOSED", m, r, TRUE)))
    BY <1>3, QuietMessages, HushPut
<1>5. Hush(Heard, Take(Core), Put(Take(Core), Peer, Msg("CLOSEMAP", m, Core, TRUE)))
    BY <1>1, <1>3, QuietMessages, HushPut
<1>6. Hush(Heard, Take(Core), Call(Take(Core), map, m, Msg("CLOSEMAP", m, Core, TRUE)))
    <2>1. PICK type \in {"CLOSEMAP", "WAITACTIVATED"}, flag \in BOOLEAN : type = "CLOSEMAP" /\ flag = TRUE
        OBVIOUS
    <2> QED
        BY <1>1, <1>3, <2>1, CalledHush
<1>7. \/ box' = Take(Core)
      \/ box' = Put(Take(Core), r, Msg("CLOSED", m, r, TRUE))
      \/ box' = Put(Take(Core), Peer, Msg("CLOSEMAP", m, Core, TRUE))
      \/ box' = Call(Take(Core), map, m, Msg("CLOSEMAP", m, Core, TRUE))
    BY <1>2 DEF CoreCloseMap, Closed
<1>8. box' = Take(Core) \/ Hush(Heard, Take(Core), box')
    BY <1>4, <1>5, <1>6, <1>7
<1>9. Hush(Heard, box, box')
    BY <1>3, <1>8, HushOn
<1> QED
    BY <1>1, <1>9, SilentHere

LEMMA CoreClosedSilent ==
    ASSUME IInv, CoreClosed
    PROVE  Calm(Heard)
<1>1. /\ Got(Core) /\ Top(Core).type = "CLOSED" /\ Core \in Actor /\ Peer \in Actor /\ TypeOK /\ MailInv
      /\ UNCHANGED <<player, map, seen>>
    BY Actors DEF CoreClosed, IInv
<1>2. PICK m \in Map, by \in {Core, Peer} :
          Top(Core).map = m /\ Top(Core).by = by /\ Top(Core).flag = TRUE /\ F(box, Core, "CLOSED", m, by) # 0
    <2>1. Top(Core) \in For(Core) /\ Top(Core).map \in Map /\ F(box, Core, "CLOSED", Top(Core).map, Top(Core).by) # 0
        BY <1>1, Handled
    <2>2. Top(Core).by \in {Core, Peer} /\ Top(Core).flag = TRUE
        BY <1>1, <2>1, Actors DEF For, ForCore
    <2> QED
        BY <2>1, <2>2
<1>3. closeOp[m] \in Seq(Script) /\ closeOp[m] # <<>>
    BY <1>1, <1>2, ClosingAt, QueueNat
<1>4. PICK first \in Actor : Head(closeOp[m]) = first
    BY <1>3, Actors
<1> DEFINE rest == Tail(closeOp[m])
           listed == m \in coreList'
           replies == [i \in DOMAIN rest |-> Post(rest[i], Msg("CLOSED", m, rest[i], ~listed))]
           y == Msg("CLOSED", m, first, TRUE)
<1>5. box' = Put(DeliverAll(Take(Core), replies), first, y)
    BY <1>2, <1>4 DEF CoreClosed, Closed
<1>6. replies \in Seq(Quiet(Heard))
    <2>1. rest \in Seq(Script) /\ DOMAIN rest = 1 .. Len(rest) /\ Len(rest) \in Nat
        BY <1>3
    <2>2. ASSUME NEW i \in DOMAIN rest PROVE Post(rest[i], Msg("CLOSED", m, rest[i], ~listed)) \in Quiet(Heard)
        <3>1. rest[i] \in Actor /\ (~listed) \in BOOLEAN
            BY <2>1, Actors
        <3> HIDE DEF rest, listed
        <3>2. Msg("CLOSED", m, rest[i], ~listed) \in Message /\ Msg("CLOSED", m, rest[i], ~listed) \notin Heard
            BY <3>1, QuietMessages
        <3> QED
            BY <3>1, <3>2 DEF Quiet, Posts, Post
    <2> HIDE DEF rest, listed
    <2>3. replies \in [1 .. Len(rest) -> Quiet(Heard)]
        BY <2>1, <2>2
    <2> QED
        BY <2>1, <2>3
<1>7. y \in Message /\ y \notin Heard
    BY QuietMessages
<1> HIDE DEF replies, y
<1>8. Take(Core) \in Mailboxes /\ Hush(Heard, box, Take(Core))
    BY <1>1, HeardIs, HushTake DEF Errands, MailInv, Fit
<1>9. DeliverAll(Take(Core), replies) \in Mailboxes /\ Hush(Heard, Take(Core), DeliverAll(Take(Core), replies))
    BY <1>6, <1>8, HushAll
<1>10. Hush(Heard, DeliverAll(Take(Core), replies), box')
    BY <1>5, <1>7, <1>9, HushPut
<1>11. Hush(Heard, box, box')
    BY <1>8, <1>9, <1>10, HushOn
<1> QED
    BY <1>1, <1>11, SilentHere

LEMMA PeerLoadMapSilent ==
    ASSUME IInv, PeerLoadMap
    PROVE  Calm(Heard)
<1>1. /\ Got(Peer) /\ Top(Peer).type = "LOADMAP" /\ Core \in Actor /\ Peer \in Actor /\ TypeOK /\ MailInv
      /\ UNCHANGED <<player, seen>>
    BY Actors DEF PeerLoadMap, IInv
<1>2. PICK m \in Map : Top(Peer).map = m
    BY <1>1, Handled
<1>3. Take(Peer) \in Mailboxes /\ Hush(Heard, box, Take(Peer)) /\ Hush(Heard, box, box)
    BY <1>1, HeardIs, HushTake, HushSame DEF Errands, MailInv, Fit
<1>4. Hush(Heard, Take(Peer), Put(Take(Peer), Core, Msg("LOADED", m, Core, TRUE)))
    <2>1. Msg("LOADED", m, Core, TRUE) \in Message /\ Msg("LOADED", m, Core, TRUE) \notin Heard
        BY <1>1, Actors, LoadedMessages
    <2> QED
        BY <1>1, <1>3, <2>1, HushPut
<1>5. \A ms : Hush(Heard, Take(Peer), Call(Take(Peer), ms, m, Msg("WAITACTIVATED", m, Peer, TRUE)))
    <2>1. PICK type \in {"CLOSEMAP", "WAITACTIVATED"}, flag \in BOOLEAN : type = "WAITACTIVATED" /\ flag = TRUE
        OBVIOUS
    <2> QED
        BY <1>1, <1>3, <2>1, CalledHush
<1>6. \/ box' = box
      \/ \E ms : box' = Call(Take(Peer), ms, m, Msg("WAITACTIVATED", m, Peer, TRUE))
      \/ box' = Put(Take(Peer), Core, Msg("LOADED", m, Core, TRUE))
    BY <1>2 DEF PeerLoadMap
<1>7. UNCHANGED map \/ (CanAttach(m) /\ Attach(m))
    BY <1>2 DEF PeerLoadMap
<1>8. box' = box \/ Hush(Heard, Take(Peer), box')
    BY <1>4, <1>5, <1>6
<1>9. Hush(Heard, box, box')
    BY <1>3, <1>8, HushOn
<1>10. \A n \in Map : map'[n].lock = map[n].lock /\ map'[n].grid = map[n].grid /\ map'[n].todo = map[n].todo
    BY <1>1, <1>7, AttachSilent
<1> QED
    BY <1>1, <1>9, <1>10, SilentHere

LEMMA PeerCloseMapSilent ==
    ASSUME IInv, PeerCloseMap
    PROVE  Calm(Heard)
<1>1. /\ Got(Peer) /\ Top(Peer).type = "CLOSEMAP" /\ Peer \in Actor /\ MailInv /\ UNCHANGED <<player, map, seen>>
    BY Actors DEF PeerCloseMap, IInv
<1>2. PICK m \in Map : Top(Peer).map = m
    BY <1>1, Handled
<1>3. Take(Peer) \in Mailboxes /\ Hush(Heard, box, Take(Peer)) /\ Hush(Heard, box, box)
    BY <1>1, HeardIs, HushTake, HushSame DEF Errands, MailInv, Fit
<1>4. Hush(Heard, Take(Peer), Call(Take(Peer), map, m, Msg("CLOSEMAP", m, Peer, TRUE)))
    <2>1. PICK type \in {"CLOSEMAP", "WAITACTIVATED"}, flag \in BOOLEAN : type = "CLOSEMAP" /\ flag = TRUE
        OBVIOUS
    <2> QED
        BY <1>1, <1>3, <2>1, CalledHush
<1>5. box' = box \/ box' = Call(Take(Peer), map, m, Msg("CLOSEMAP", m, Peer, TRUE))
    BY <1>2 DEF PeerCloseMap
<1>6. box' = box \/ Hush(Heard, Take(Peer), box')
    BY <1>4, <1>5
<1>7. Hush(Heard, box, box')
    BY <1>3, <1>6, HushOn
<1> QED
    BY <1>1, <1>7, SilentHere

-----------------------------------------------------------------------------

\* Where a waiter is answered.
LEMMA QuietActivated ==
    ASSUME NEW m \in Map, NEW r \in Actor
    PROVE  Activated(m, r) \in Quiet(Heard)
<1>1. Msg("ACTIVATED", m, r, TRUE) \in Message /\ Msg("ACTIVATED", m, r, TRUE) \notin Heard
    BY QuietMessages
<1> QED
    BY <1>1, Actors DEF Activated, Post, Quiet, Posts

LEMMA ActivateSilent ==
    ASSUME IInv, NEW m \in Map, Activate(m)
    PROVE  Calm(Heard)
<1> DEFINE w == map[m].waiting
           posts == [i \in DOMAIN w |-> Activated(m, w[i])]
<1>1. /\ UNCHANGED <<player, seen>> /\ TypeOK /\ box \in Mailboxes /\ w \in Seq(Actor)
      /\ map' = [map EXCEPT ![m].active = TRUE, ![m].waiting = <<>>] /\ box' = DeliverAll(box, posts)
    BY QueueNat DEF Activate, MapUnchanged, IInv, MailInv, Fit
<1>2. posts \in Seq(Quiet(Heard))
    <2>1. DOMAIN w = 1 .. Len(w) /\ Len(w) \in Nat /\ \A i \in DOMAIN w : w[i] \in Actor
        BY <1>1
    <2> HIDE DEF w
    <2>2. posts \in [1 .. Len(w) -> Quiet(Heard)]
        BY <2>1, QuietActivated
    <2> QED
        BY <2>1, <2>2
<1> HIDE DEF posts
<1>3. Hush(Heard, box, box')
    BY <1>1, <1>2, HushAll
<1>4. \A n \in Map : map'[n].lock = map[n].lock /\ map'[n].grid = map[n].grid /\ map'[n].todo = map[n].todo
    <2>1. map \in [Map -> MapActor]
        BY <1>1, Typed
    <2>2. map[m] \in MapActor
        BY <2>1
    <2>3. map'[m].lock = map[m].lock /\ map'[m].grid = map[m].grid /\ map'[m].todo = map[m].todo
        BY <1>1, <2>1, <2>2 DEF MapActor
    <2>4. \A n \in Map \ {m} : map'[n] = map[n]
        BY <1>1, <2>1
    <2> QED
        BY <2>3, <2>4
<1> QED
    BY <1>1, <1>3, <1>4, SilentHere

LEMMA WaitActivatedSilent ==
    ASSUME IInv, NEW m \in Map, WaitActivated(m)
    PROVE  Calm(Heard)
<1>1. /\ Got(m) /\ Top(m).type = "WAITACTIVATED" /\ m \in Actor /\ TypeOK /\ MailInv /\ UNCHANGED <<player, seen>>
    BY Actors DEF WaitActivated, MapUnchanged, IInv
<1>2. PICK r \in Actor : Top(m).by = r
    BY <1>1, Handled
<1>3. Take(m) \in Mailboxes /\ Hush(Heard, box, Take(m))
    BY <1>1, HeardIs, HushTake DEF Errands, MailInv, Fit
<1>4. Activated(m, r) \in Quiet(Heard)
    BY QuietActivated
<1>5. Hush(Heard, Take(m), Deliver(Take(m), Activated(m, r)))
    BY <1>3, <1>4, HushDeliver
<1>6. box' = Take(m) \/ Hush(Heard, Take(m), box')
    BY <1>2, <1>5 DEF WaitActivated
<1>7. Hush(Heard, box, box')
    BY <1>3, <1>6, HushOn
<1>8. \A n \in Map : map'[n].lock = map[n].lock /\ map'[n].grid = map[n].grid /\ map'[n].todo = map[n].todo
    <2>1. map \in [Map -> MapActor]
        BY <1>1, Typed
    <2>2. map[m] \in MapActor
        BY <2>1
    <2>3. map' = map \/ map' = [map EXCEPT ![m].waiting = Append(@, r)]
        BY <1>2 DEF WaitActivated
    <2>4. map'[m].lock = map[m].lock /\ map'[m].grid = map[m].grid /\ map'[m].todo = map[m].todo
        BY <2>1, <2>2, <2>3 DEF MapActor
    <2>5. \A n \in Map \ {m} : map'[n] = map[n]
        BY <2>1, <2>3
    <2> QED
        BY <2>4, <2>5
<1> QED
    BY <1>1, <1>7, <1>8, SilentHere

LEMMA CloseMapSilent ==
    ASSUME IInv, NEW m \in Map, CloseMap(m)
    PROVE  Calm(Heard)
<1>1. /\ Got(m) /\ Top(m).type = "CLOSEMAP" /\ m \in Actor /\ Core \in Actor /\ Exit \in Map
      /\ TypeOK /\ MailInv /\ UNCHANGED <<player, seen>>
    BY Actors DEF CloseMap, MapUnchanged, IInv
<1>2. Take(m) \in Mailboxes /\ Hush(Heard, box, Take(m)) /\ Hush(Heard, box, box)
    BY <1>1, HeardIs, HushTake, HushSame DEF Errands, MailInv, Fit
<1>3. Hush(Heard, Take(m), Put(Take(m), Core, Msg("LOADMAP", Exit, m, TRUE)))
    BY <1>1, <1>2, QuietMessages, HushPut
<1>4. box' = box \/ Hush(Heard, Take(m), box')
    BY <1>3 DEF CloseMap
<1>5. Hush(Heard, box, box')
    BY <1>2, <1>4, HushOn
<1>6. \A n \in Map : map'[n].lock = map[n].lock /\ map'[n].grid = map[n].grid /\ map'[n].todo = map[n].todo
    <2>1. map \in [Map -> MapActor]
        BY <1>1, Typed
    <2>2. map[m] \in MapActor
        BY <2>1
    <2>3. map' = map \/ map' = [map EXCEPT ![m].closing = Top(m).by]
        BY DEF CloseMap
    <2>4. map'[m].lock = map[m].lock /\ map'[m].grid = map[m].grid /\ map'[m].todo = map[m].todo
        BY <2>1, <2>2, <2>3 DEF MapActor
    <2>5. \A n \in Map \ {m} : map'[n] = map[n]
        BY <2>1, <2>3
    <2> QED
        BY <2>4, <2>5
<1> QED
    BY <1>1, <1>5, <1>6, SilentHere

LEMMA EraseSilent ==
    ASSUME IInv, NEW m \in Map, Erase(m)
    PROVE  Calm(Heard)
<1>1. TypeOK /\ UNCHANGED <<player, box, seen>> /\ map' = [map EXCEPT ![m].state = "none"]
    BY DEF Erase, MapUnchanged, IInv
<1>2. Hush(Heard, box, box')
    BY <1>1 DEF Hush
<1>3. \A n \in Map : map'[n].lock = map[n].lock /\ map'[n].grid = map[n].grid /\ map'[n].todo = map[n].todo
    <2>1. map \in [Map -> MapActor]
        BY <1>1, Typed
    <2>2. map[m] \in MapActor
        BY <2>1
    <2>3. map'[m].lock = map[m].lock /\ map'[m].grid = map[m].grid /\ map'[m].todo = map[m].todo
        BY <1>1, <2>1, <2>2 DEF MapActor
    <2>4. \A n \in Map \ {m} : map'[n] = map[n]
        BY <1>1, <2>1
    <2> QED
        BY <2>3, <2>4
<1> QED
    BY <1>1, <1>2, <1>3, SilentHere

\* The closing map sends the next player away.
LEMMA EvacuateNextSilent ==
    ASSUME IInv, NEW m \in Map, Got(m), Top(m).type \in {"LOADED", "SWITCHED"},
           NEW todo \in Seq(Player), todo # <<>>, Evacuate(Take(m), m, todo),
           UNCHANGED player, seen \subseteq seen'
    PROVE  Silent(Spoken \cup Loads)
<1>1. /\ m \in Actor /\ Exit \in Map /\ TypeOK /\ MailInv
      /\ map' = [map EXCEPT ![m].todo = todo] /\ box' = Put(Take(m), Head(todo), Msg("TRIGGER", Exit, m, TRUE))
    BY Actors DEF Evacuate, IInv
<1>2. PICK p \in Actor : p = Head(todo)
    BY Actors
<1>3. Take(m) \in Mailboxes /\ Hush(Spoken \cup Loads, box, Take(m))
    <2>1. Top(m) \in For(m)
        BY <1>1, Handled
    <2>2. Top(m) \notin Spoken \cup Loads
        <3>1. CASE Top(m).type = "SWITCHED"
            BY <3>1, HeardIs
        <3>2. CASE Top(m).type = "LOADED"
            <4>1. Top(m).by \notin Player
                BY <2>1, <3>2, Actors DEF For, ForMap
            <4> QED
                BY <3>2, <4>1, HeardIs DEF Heard
        <3> QED
            BY <3>1, <3>2
    <2>3. box \in Mailboxes
        BY <1>1 DEF MailInv, Fit
    <2> QED
        BY <1>1, <2>2, <2>3, HushTake
<1>4. Hush(Spoken \cup Loads, Take(m), box')
    BY <1>1, <1>2, <1>3, QuietMessages, HushPut
<1>5. Hush(Spoken \cup Loads, box, box')
    BY <1>3, <1>4, HushOn
<1>6. \A n \in Map : map'[n].lock = map[n].lock /\ map'[n].grid = map[n].grid 
    <2>1. map \in [Map -> MapActor]
        BY <1>1, Typed
    <2>2. map[m] \in MapActor
        BY <2>1
    <2>3. map'[m].lock = map[m].lock /\ map'[m].grid = map[m].grid 
        BY <1>1, <2>1, <2>2 DEF MapActor
    <2>4. \A n \in Map \ {m} : map'[n] = map[n]
        BY <1>1, <2>1
    <2> QED
        BY <2>3, <2>4
<1> QED
    BY <1>5, <1>6, PlayersRest DEF Silent

\* Scripts.
LEMMA ScriptSilent ==
    ASSUME IInv, NEW s \in Script, ScriptStep(s)
    PROVE  Calm(Heard)
<1>1. s \in Actor /\ Core \in Actor /\ MailInv /\ box \in Mailboxes /\ Instance \subseteq Map /\ known \subseteq Map
    BY Actors DEF IInv, MailInv, Fit, TypeOK
<1>2. UNCHANGED <<player, map, seen>>
    BY DEF ScriptStep, OpenInstance, CloseInstance, ScriptAnswered
<1>3. CASE OpenInstance(s)
    <2>1. PICK m \in Map : box' = Put(box, Core, Msg("LOADMAP", m, s, TRUE))
        BY <1>1, <1>3 DEF OpenInstance, AskCore
    <2>2. Hush(Heard, box, box')
        BY <1>1, <2>1, QuietMessages, HushPut
    <2> QED
        BY <1>2, <2>2, SilentHere
<1>4. CASE CloseInstance(s)
    <2>1. PICK m \in Map : box' = Put(box, Core, Msg("CLOSEMAP", m, s, TRUE))
        BY <1>1, <1>4 DEF CloseInstance, AskCore
    <2>2. Hush(Heard, box, box')
        BY <1>1, <2>1, QuietMessages, HushPut
    <2> QED
        BY <1>2, <2>2, SilentHere
<1>5. CASE ScriptAnswered(s)
    <2>1. Got(s) /\ box' = Take(s)
        BY <1>5 DEF ScriptAnswered
    <2>2. Top(s) \in For(s)
        BY <1>1, <2>1, Handled
    <2>3. Top(s).type \in {"LOADED", "CLOSED"} /\ Top(s).by \notin Player
        BY <2>2, Actors DEF For, ForScript
    <2>4. Top(s) \notin Heard
        BY <2>3, HeardIs DEF Errands
    <2>5. Hush(Heard, box, box')
        BY <1>1, <2>1, <2>4, HushTake
    <2> QED
        BY <1>2, <2>5, SilentHere
<1> QED
    BY <1>3, <1>4, <1>5 DEF ScriptStep

\* A player that has not told any map yet.
LEMMA PlayerSilent ==
    ASSUME TypeOK, NEW K, NEW p \in Player, NEW traveller \in Traveller, player' = [player EXCEPT ![p] = traveller],
           traveller.at = player[p].at, player[p].dead => traveller.dead,
           \/ traveller.for = None
           \/ traveller.to = Exit
           \/ traveller.for = player[p].for /\ traveller.to = player[p].to,
           \/ traveller.step = player[p].step /\ traveller.to = player[p].to
           \/ /\ player[p].step \in {"idle", "load"} /\ traveller.step \in {"idle", "load"}
              /\ traveller.step = "load" => traveller.to # traveller.at,
           Hush(K, box, box'), UNCHANGED map, seen \subseteq seen'
    PROVE  Calm(K)
<1>1. player'[p] = traveller /\ \A q \in Player \ {p} : player'[q] = player[q]
    BY OnePlayer
<1>2. Begins(p)
    <2>1. player'[p].at = player[p].at /\ (player[p].dead => player'[p].dead)
        BY <1>1, Zenon
    <2>2. \/ player'[p].for = None
          \/ player'[p].to = Exit
          \/ player'[p].for = player[p].for /\ player'[p].to = player[p].to
        BY <1>1
    <2>3. \/ player'[p].step = player[p].step /\ player'[p].to = player[p].to
          \/ /\ player[p].step \in {"idle", "load"} /\ player'[p].step \in {"idle", "load"}
             /\ player'[p].step = "load" => player'[p].to # player'[p].at
        BY <1>1, Zenon
    <2> QED
        BY <2>1, <2>2, <2>3, Zenon DEF Begins
<1>3. \A q \in Player \ {p} : Begins(q)
    BY <1>1 DEF Begins
<1>4. \A q \in Player : Begins(q)
    BY <1>2, <1>3
<1> QED
    BY <1>4 DEF Calm, Silent

LEMMA SwitchSilent ==
    ASSUME IInv, NEW p \in Player, Switch(p)
    PROVE  Calm(Heard)
<1>1. /\ TypeOK /\ box \in Mailboxes /\ p \in Actor /\ Core \in Actor /\ UNCHANGED <<map, seen>>
      /\ player \in [Player -> Traveller] /\ player[p] \in Traveller /\ player[p].step = "idle" /\ known \subseteq Map
      /\ player[p].for = None
    <2>1. TypeOK /\ box \in Mailboxes
        BY DEF IInv, MailInv, Fit
    <2>2. known \subseteq Map
        BY <2>1 DEF TypeOK, Map
    <2>3. UNCHANGED <<map, seen>> /\ player[p].step = "idle"
        BY DEF Switch, CanMove, PlayerUnchanged
    <2>4. player[p].for = None
        BY <2>3 DEF IInv, IdleInv
    <2> QED
        BY <2>1, <2>2, <2>3, <2>4, Typed, Actors
<1>2. PICK m \in Map : /\ m # player[p].at
                       /\ player' = [player EXCEPT ![p].to = m, ![p].step = "load", ![p].n = @ + 1]
                       /\ box' = Put(box, Core, Msg("LOADMAP", m, p, FALSE))
    BY <1>1 DEF Switch, AskCore, Map
<1>3. Hush(Heard, box, box')
    BY <1>1, <1>2, QuietMessages, HushPut
<1> DEFINE traveller == [player[p] EXCEPT !.to = m, !.step = "load", !.n = player[p].n + 1]
<1>4. /\ player' = [player EXCEPT ![p] = traveller] /\ traveller \in Traveller /\ traveller.step = "load"
      /\ traveller.at = player[p].at /\ traveller.dead = player[p].dead /\ traveller.for = None /\ traveller.to = m
    BY <1>1, <1>2 DEF Traveller
<1> HIDE DEF traveller
<1>5. player[p].dead => traveller.dead
    BY <1>4, Zenon
<1>6. traveller.at = player[p].at /\ traveller.for = None /\ traveller.to # traveller.at
    BY <1>2, <1>4
<1> QED
    BY <1>1, <1>3, <1>4, <1>5, <1>6, PlayerSilent

LEMMA DieSilent ==
    ASSUME IInv, NEW p \in Player, Die(p)
    PROVE  Calm(Heard)
<1>1. /\ TypeOK /\ UNCHANGED <<map, box, seen>> /\ player' = [player EXCEPT ![p].dead = TRUE]
      /\ player \in [Player -> Traveller] /\ player[p] \in Traveller
    BY Typed DEF Die, PlayerUnchanged, IInv
<1>2. Hush(Heard, box, box')
    BY <1>1 DEF Hush
<1> DEFINE traveller == [player[p] EXCEPT !.dead = TRUE]
<1>3. /\ player' = [player EXCEPT ![p] = traveller] /\ traveller \in Traveller /\ traveller.dead = TRUE
      /\ traveller.step = player[p].step /\ traveller.to = player[p].to /\ traveller.at = player[p].at
      /\ traveller.for = player[p].for
    BY <1>1 DEF Traveller
<1> HIDE DEF traveller
<1> QED
    BY <1>1, <1>2, <1>3, PlayerSilent

\* The answer to the map that has sent the player away.
LEMMA ReportHush ==
    ASSUME NEW b \in Mailboxes, NEW p \in Player, NEW m \in Map, NEW ok \in BOOLEAN, Live(m)
    PROVE  /\ Report(b, p, m, ok) = Put(b, m, Msg("SWITCHED", m, p, ok))
           /\ Hush(Spoken \cup Loads, b, Report(b, p, m, ok))
<1>1. m # None /\ m \in Actor /\ p \in Actor
    BY Actors
<1>2. Report(b, p, m, ok) = Put(b, m, Msg("SWITCHED", m, p, ok))
    BY <1>1 DEF Report, Call, Reach, Live, Deliver, Post
<1>3. Msg("SWITCHED", m, p, ok) \in Message /\ Msg("SWITCHED", m, p, ok) \notin Spoken \cup Loads
    BY <1>1, SwitchedMessages
<1>4. Hush(Spoken \cup Loads, b, Put(b, m, Msg("SWITCHED", m, p, ok)))
    BY <1>1, <1>3, HushPut
<1> QED
    BY <1>2, <1>4

LEMMA TriggeredSilent ==
    ASSUME IInv, NEW p \in Player, Triggered(p)
    PROVE  Calm(Spoken \cup Loads)
<1>1. /\ Got(p) /\ Top(p).type = "TRIGGER" /\ p \in Actor /\ Core \in Actor /\ Exit \in Map /\ TypeOK /\ MailInv
      /\ player \in [Player -> Traveller] /\ player[p] \in Traveller /\ UNCHANGED map
    BY Typed, Actors DEF Triggered, PlayerUnchanged, IInv
<1>2. seen \subseteq seen'
    BY DEF Triggered, Note
<1>3. PICK m \in Map : Top(p).by = m /\ Live(m)
    <2>1. Top(p) \in For(p) /\ F(box, p, "TRIGGER", Top(p).map, Top(p).by) # 0
        BY <1>1, Handled
    <2>2. Top(p).by \in Map /\ Top(p).map = Exit
        BY <1>1, <2>1, Actors DEF For, ForPlayer
    <2> QED
        BY <2>1, <2>2, Sender
<1>4. Take(p) \in Mailboxes /\ Hush(Spoken \cup Loads, box, Take(p))
    BY <1>1, HeardIs, HushTake DEF Errands, MailInv, Fit
<1>5. Hush(Spoken \cup Loads, Take(p), Report(Take(p), p, m, CanMove(p)))
    <2>1. PICK ok \in BOOLEAN : ok = CanMove(p)
        BY DEF CanMove
    <2>2. Hush(Spoken \cup Loads, Take(p), Report(Take(p), p, m, ok))
        BY <1>3, <1>4, ReportHush
    <2> QED
        BY <2>1, <2>2
<1>6. Hush(Spoken \cup Loads, Take(p), Put(Take(p), Core, Msg("LOADMAP", Exit, p, FALSE)))
    BY <1>1, <1>4, QuietMessages, HushPut
<1>7. Hush(Spoken \cup Loads, Take(p), box')
    BY <1>3, <1>5, <1>6 DEF Triggered
<1>8. Hush(Spoken \cup Loads, box, box')
    BY <1>4, <1>7, HushOn
<1>9. CASE UNCHANGED player
    BY <1>1, <1>2, <1>8, <1>9, SilentHere
<1>10. CASE /\ player[p].step = "idle" /\ player[p].at # Exit
            /\ player' = [player EXCEPT ![p].to = Exit, ![p].step = "load", ![p].for = m]
    <2> DEFINE traveller == [player[p] EXCEPT !.to = Exit, !.step = "load", !.for = m]
    <2>1. /\ player' = [player EXCEPT ![p] = traveller] /\ traveller \in Traveller /\ traveller.step = "load"
          /\ traveller.at = player[p].at /\ traveller.dead = player[p].dead /\ traveller.to = Exit
        BY <1>1, <1>10 DEF Traveller
    <2> HIDE DEF traveller
    <2>2. player[p].dead => traveller.dead
        BY <2>1, Zenon
    <2>3. traveller.at = player[p].at /\ traveller.to # traveller.at
        BY <1>10, <2>1
    <2>4. player[p].step \in {"idle", "load"} /\ traveller.step \in {"idle", "load"} /\ traveller.to = Exit
        BY <1>10, <2>1
    <2>5. TypeOK /\ UNCHANGED map /\ seen \subseteq seen' /\ Hush(Spoken \cup Loads, box, box')
        BY <1>1, <1>2, <1>8
    <2> QED
        BY <2>1, <2>2, <2>3, <2>4, <2>5, PlayerSilent
<1> QED
    BY <1>3, <1>9, <1>10 DEF Triggered, CanMove

-----------------------------------------------------------------------------
(* The words of a switch.                                                   *)

LEMMA WordsNat ==
    ASSUME NEW b \in Mailboxes, NEW p \in Player, NEW m \in Map
    PROVE  Words(b, p, m) \in Nat /\ N(b[m], Says(m, p)) \in Nat /\ N(b[p], Hears(m, p)) \in Nat
<1>1. p \in Actor /\ m \in Actor
    BY Actors
<1>2. N(b[m], Says(m, p)) \in Nat /\ N(b[p], Hears(m, p)) \in Nat
    BY <1>1, BoxNat
<1> QED
    BY <1>2 DEF Words

\* x is a word of p and m in the mailbox of a.
Word(a, x, p, m) == (a = m /\ x \in Says(m, p)) \/ (a = p /\ x \in Hears(m, p))

LEMMA WordTaken ==
    ASSUME box \in Mailboxes, NEW a \in Actor, Got(a), NEW p \in Player, NEW m \in Map
    PROVE  Words(Take(a), p, m) = Words(box, p, m) - (IF Word(a, Top(a), p, m) THEN 1 ELSE 0)
<1>1. p \in Actor /\ m \in Actor /\ p # m
    BY Actors
<1>2. \A c \in Actor : \A S : N(Take(a)[c], S) = N(box[c], S) - (IF c = a /\ Top(a) \in S THEN 1 ELSE 0)
    BY TakeCount
<1>3. /\ N(Take(a)[m], Says(m, p)) = N(box[m], Says(m, p)) - (IF m = a /\ Top(a) \in Says(m, p) THEN 1 ELSE 0)
      /\ N(Take(a)[p], Hears(m, p)) = N(box[p], Hears(m, p)) - (IF p = a /\ Top(a) \in Hears(m, p) THEN 1 ELSE 0)
    BY <1>1, <1>2
<1>4. N(box[m], Says(m, p)) \in Nat /\ N(box[p], Hears(m, p)) \in Nat
    BY WordsNat
<1> DEFINE u == N(box[m], Says(m, p))  v == N(box[p], Hears(m, p))
           x == N(Take(a)[m], Says(m, p))  y == N(Take(a)[p], Hears(m, p))
<1>5. Words(box, p, m) = u + v /\ Words(Take(a), p, m) = x + y /\ u \in Nat /\ v \in Nat
    BY <1>4 DEF Words
<1> HIDE DEF u, v, x, y
<1>6. CASE m = a /\ Top(a) \in Says(m, p)
    BY <1>1, <1>3, <1>5, <1>6 DEF Word, u, v, x, y
<1>7. CASE p = a /\ Top(a) \in Hears(m, p)
    BY <1>1, <1>3, <1>5, <1>7 DEF Word, u, v, x, y
<1>8. CASE ~Word(a, Top(a), p, m)
    BY <1>1, <1>3, <1>5, <1>8 DEF Word, u, v, x, y
<1> QED
    BY <1>6, <1>7, <1>8 DEF Word

LEMMA PutCount ==
    ASSUME NEW b \in Mailboxes, NEW to \in Actor, NEW y \in Message
    PROVE  /\ Put(b, to, y) \in Mailboxes
           /\ \A c \in Actor : \A S : N(Put(b, to, y)[c], S) = N(b[c], S) + (IF c = to /\ y \in S THEN 1 ELSE 0)
<1> DEFINE post == Post(to, y)
<1>1. post \in Posts /\ Deliver(b, post) = Put(b, to, y) /\ post.to = to /\ post.msg = y
    BY Actors DEF Post, Posts, Deliver
<1> HIDE DEF post
<1>2. /\ Deliver(b, post) \in Mailboxes
      /\ \A c \in Actor : \A S : N(Deliver(b, post)[c], S) = N(b[c], S) + (IF post.to = c /\ post.msg \in S THEN 1 ELSE 0)
    BY <1>1, DeliverCount
<1> QED
    BY <1>1, <1>2

LEMMA WordPut ==
    ASSUME NEW b \in Mailboxes, NEW to \in Actor, NEW y \in Message, NEW p \in Player, NEW m \in Map
    PROVE  Words(Put(b, to, y), p, m) = Words(b, p, m) + (IF Word(to, y, p, m) THEN 1 ELSE 0)
<1>1. p \in Actor /\ m \in Actor /\ p # m
    BY Actors
<1>2. \A c \in Actor : \A S : N(Put(b, to, y)[c], S) = N(b[c], S) + (IF c = to /\ y \in S THEN 1 ELSE 0)
    BY PutCount
<1>3. /\ N(Put(b, to, y)[m], Says(m, p)) = N(b[m], Says(m, p)) + (IF m = to /\ y \in Says(m, p) THEN 1 ELSE 0)
      /\ N(Put(b, to, y)[p], Hears(m, p)) = N(b[p], Hears(m, p)) + (IF p = to /\ y \in Hears(m, p) THEN 1 ELSE 0)
    BY <1>1, <1>2
<1>4. N(b[m], Says(m, p)) \in Nat /\ N(b[p], Hears(m, p)) \in Nat
    BY WordsNat
<1> DEFINE u == N(b[m], Says(m, p))  v == N(b[p], Hears(m, p))
           x == N(Put(b, to, y)[m], Says(m, p))  z == N(Put(b, to, y)[p], Hears(m, p))
<1>5. Words(b, p, m) = u + v /\ Words(Put(b, to, y), p, m) = x + z /\ u \in Nat /\ v \in Nat
    BY <1>4 DEF Words
<1> HIDE DEF u, v, x, z
<1>6. CASE m = to /\ y \in Says(m, p)
    BY <1>1, <1>3, <1>5, <1>6 DEF Word, u, v, x, z
<1>7. CASE p = to /\ y \in Hears(m, p)
    BY <1>1, <1>3, <1>5, <1>7 DEF Word, u, v, x, z
<1>8. CASE ~Word(to, y, p, m)
    BY <1>1, <1>3, <1>5, <1>8 DEF Word, u, v, x, z
<1> QED
    BY <1>6, <1>7, <1>8 DEF Word

\* No message of a player but p comes or goes from b to d.
Others(p) == {x \in Message : x.by \in Player \ {p}}
Aloof(b, d, p) == Hush(Others(p), b, d)

LEMMA OthersAre ==
    ASSUME NEW p \in Player, NEW q \in Player \ {p}
    PROVE  \A m : /\ Says(m, q) \in SUBSET Others(p) /\ Hears(m, q) \in SUBSET Others(p)
                  /\ Late(m, q) \in SUBSET Others(p)
                  /\ \A type : From(type, m, q) \in SUBSET Others(p)
BY DEF Others, Says, Hears, Late, From

LEMMA AloofOn ==
    ASSUME NEW p, NEW b, NEW c, NEW d, Aloof(b, c, p), Aloof(c, d, p)
    PROVE  Aloof(b, d, p)
BY HushOn DEF Aloof

LEMMA AloofTake ==
    ASSUME box \in Mailboxes, NEW a \in Actor, Got(a)
    PROVE  Aloof(box, Take(a), Top(a).by)
<1>1. Top(a) \notin Others(Top(a).by)
    BY DEF Others
<1> QED
    BY <1>1, HushTake DEF Aloof

LEMMA AloofPut ==
    ASSUME NEW b \in Mailboxes, NEW to \in Actor, NEW y \in Message
    PROVE  Aloof(b, Put(b, to, y), y.by)
<1>1. y \notin Others(y.by)
    BY DEF Others
<1> QED
    BY <1>1, HushPut DEF Aloof

LEMMA AloofKeeps ==
    ASSUME TalkInv, NEW p \in Player, Aloof(box, box', p),
           \A q \in Player \ {p} : player'[q] = player[q],
           \A m \in Map : map'[m].lock \in {map[m].lock, None, p},
           Talks(p)', Locks(p)'
    PROVE  TalkInv'
<1> SUFFICES ASSUME NEW q \in Player \ {p} PROVE Talks(q)' /\ Locks(q)'
    BY DEF TalkInv
<1>1. Talks(q) /\ Locks(q) /\ q # None /\ q # p
    BY Actors DEF TalkInv
<1>2. \A c \in Actor : \A S \in SUBSET Others(p) : N(box'[c], S) = N(box[c], S)
    BY DEF Aloof, Hush
<1>3. \A m \in Map : /\ Words(box', q, m) = Words(box, q, m) /\ N(box'[m], Late(m, q)) = N(box[m], Late(m, q))
                     /\ N(box'[m], Trying(m, q)) = N(box[m], Trying(m, q))
                     /\ N(box'[q], Allowed(m, q)) = N(box[q], Allowed(m, q))
    BY <1>2, OthersAre, Actors DEF Words, Trying, Allowed
<1>4. Talks(q)'
    BY <1>1, <1>3 DEF Talks, Speaks
<1>5. \A m \in Map : map'[m].lock = q => map[m].lock = q
    BY <1>1
<1>6. Locks(q)'
    BY <1>1, <1>3, <1>5 DEF Locks, Holds
<1> QED
    BY <1>4, <1>6

\* A player that has nothing under way has not asked to enter a map.
LEMMA NotTrying ==
    ASSUME NEW b \in Mailboxes, NEW p \in Player, NEW m \in Map
    PROVE  /\ N(b[m], Trying(m, p)) # 0 => N(b[m], Says(m, p)) # 0
           /\ N(b[p], Allowed(m, p)) # 0 => N(b[p], Hears(m, p)) # 0
           /\ Words(b, p, m) = 0 <=> N(b[m], Says(m, p)) = 0 /\ N(b[p], Hears(m, p)) = 0
<1>1. p \in Actor /\ m \in Actor
    BY Actors
<1>2. N(b[m], Trying(m, p)) # 0 => N(b[m], Says(m, p)) # 0
    BY <1>1, SpokenAre, BoxNat
<1>3. N(b[p], Allowed(m, p)) # 0 => N(b[p], Hears(m, p)) # 0
    BY <1>1, SpokenAre, BoxNat
<1>4. Words(b, p, m) = 0 <=> N(b[m], Says(m, p)) = 0 /\ N(b[p], Hears(m, p)) = 0
    BY WordsNat DEF Words
<1> QED
    BY <1>2, <1>3, <1>4

-----------------------------------------------------------------------------
(* The maps' part.                                                          *)

\* A step in which nothing is said.
LEMMA StraySilent ==
    ASSUME UNCHANGED <<map, box, player, seen>>, NEW K
    PROVE  Calm(K)
BY HushSame, SilentHere

LEMMA StrayTalks ==
    ASSUME TalkInv, UNCHANGED <<map, box, player, seen>>
    PROVE  TalkInv'
BY StraySilent, SilentKeeps DEF Calm

\* The words of p when m answers one of them.
LEMMA AnswerWords ==
    ASSUME box \in Mailboxes, NEW m \in Map, NEW p \in Player, Got(m), Top(m) \in Says(m, p), NEW y \in Hears(m, p),
           box' = Put(Take(m), p, y)
    PROVE  /\ Aloof(box, box', p)
           /\ \A n \in Map : /\ Words(box', p, n) = Words(box, p, n)
                             /\ N(box'[n], Trying(n, p)) # 0 => N(box[n], Trying(n, p)) # 0
                             /\ N(box'[n], Late(n, p)) = N(box[n], Late(n, p))
                             /\ N(box[p], Allowed(n, p)) # 0 => N(box'[p], Allowed(n, p)) # 0
           /\ y.type = "ALLOW" => N(box'[p], Allowed(m, p)) # 0
<1>1. p \in Actor /\ m \in Actor /\ p # m /\ y \in Message /\ y.by = p /\ Top(m).by = p /\ y.map = m
    BY Actors DEF Hears, Says
<1>2. Take(m) \in Mailboxes
    BY <1>1, TakeCount
<1>3. Aloof(box, Take(m), p) /\ Aloof(Take(m), box', p)
    BY <1>1, <1>2, AloofTake, AloofPut
<1>4. Aloof(box, box', p)
    BY <1>3, AloofOn
<1>5. ASSUME NEW n \in Map
      PROVE  Words(box', p, n) = Words(box, p, n)
    <2>1. Words(Take(m), p, n) = Words(box, p, n) - (IF Word(m, Top(m), p, n) THEN 1 ELSE 0)
        BY <1>1, WordTaken
    <2>2. Words(box', p, n) = Words(Take(m), p, n) + (IF Word(p, y, p, n) THEN 1 ELSE 0)
        BY <1>1, <1>2, WordPut
    <2>3. Word(m, Top(m), p, n) <=> n = m
        BY <1>1, Actors DEF Word, Says, Hears
    <2>4. Word(p, y, p, n) <=> n = m
        BY <1>1, Actors DEF Word, Says, Hears
    <2>5. Words(box, p, n) \in Nat
        BY WordsNat
    <2> QED
        BY <2>1, <2>2, <2>3, <2>4, <2>5
<1>6. /\ \A c \in Actor : \A S : N(box[c], S) \in Nat /\ N(box'[c], S) \in Nat
      /\ \A c \in Actor : \A S : N(Take(m)[c], S) = N(box[c], S) - (IF c = m /\ Top(m) \in S THEN 1 ELSE 0)
      /\ \A c \in Actor : \A S : N(box'[c], S) = N(Take(m)[c], S) + (IF c = p /\ y \in S THEN 1 ELSE 0)
    <2>1. Put(Take(m), p, y) \in Mailboxes
        BY <1>1, <1>2, PutCount
    <2>2. \A c \in Actor : \A S : N(box[c], S) \in Nat /\ N(box'[c], S) \in Nat
        BY <2>1, BoxNat
    <2>3. \A c \in Actor : \A S : N(Take(m)[c], S) = N(box[c], S) - (IF c = m /\ Top(m) \in S THEN 1 ELSE 0)
        BY <1>1, TakeCount
    <2>4. \A c \in Actor : \A S : N(box'[c], S) = N(Take(m)[c], S) + (IF c = p /\ y \in S THEN 1 ELSE 0)
        BY <1>1, <1>2, PutCount
    <2> QED
        BY <2>2, <2>3, <2>4
<1>7. ASSUME NEW n \in Map
      PROVE  /\ N(box'[n], Trying(n, p)) # 0 => N(box[n], Trying(n, p)) # 0
             /\ N(box'[n], Late(n, p)) = N(box[n], Late(n, p))
             /\ N(box[p], Allowed(n, p)) # 0 => N(box'[p], Allowed(n, p)) # 0
    <2>1. n \in Actor /\ n # p /\ Top(m) \notin Late(n, p)
        BY Actors DEF Says, Late
    <2> DEFINE t == N(box[n], Trying(n, p))  u == N(Take(m)[n], Trying(n, p))  v == N(box'[n], Trying(n, p))
               e == N(box[p], Allowed(n, p))  f == N(Take(m)[p], Allowed(n, p))  g == N(box'[p], Allowed(n, p))
    <2>2. t \in Nat /\ v \in Nat /\ e \in Nat /\ g \in Nat
        BY <1>1, <1>6, <2>1
    <2>3. u = t - (IF n = m /\ Top(m) \in Trying(n, p) THEN 1 ELSE 0) /\ v = u + (IF n = p /\ y \in Trying(n, p) THEN 1 ELSE 0)
        BY <1>6, <2>1
    <2>4. f = e - (IF p = m /\ Top(m) \in Allowed(n, p) THEN 1 ELSE 0) /\ g = f + (IF p = p /\ y \in Allowed(n, p) THEN 1 ELSE 0)
        BY <1>1, <1>6
    <2>5. N(box'[n], Late(n, p)) = N(box[n], Late(n, p))
        <3>1. N(Take(m)[n], Late(n, p)) = N(box[n], Late(n, p)) - (IF n = m /\ Top(m) \in Late(n, p) THEN 1 ELSE 0)
            BY <1>6, <2>1
        <3>2. N(box'[n], Late(n, p)) = N(Take(m)[n], Late(n, p)) + (IF n = p /\ y \in Late(n, p) THEN 1 ELSE 0)
            BY <1>6, <2>1
        <3>3. N(box[n], Late(n, p)) \in Nat
            BY <1>6, <2>1
        <3> QED
            BY <2>1, <3>1, <3>2, <3>3
    <2> HIDE DEF t, u, v, e, f, g
    <2>6. (v # 0 => t # 0) /\ (e # 0 => g # 0)
        BY <1>1, <2>1, <2>2, <2>3, <2>4
    <2> QED
        BY <2>5, <2>6 DEF t, v, e, g
<1>8. ASSUME y.type = "ALLOW" PROVE N(box'[p], Allowed(m, p)) # 0
    <2>1. y \in Allowed(m, p)
        BY <1>1, <1>8 DEF Allowed, From
    <2> QED
        BY <1>1, <1>6, <2>1
<1> QED
    BY <1>4, <1>5, <1>7, <1>8

\* What p says is all that it has under way, and to the map that it speaks with.
LEMMA SpeaksWith ==
    ASSUME IInv, TalkInv, NEW p \in Player, NEW m \in Map,
           N(box[m], Says(m, p)) # 0 \/ N(box[p], Hears(m, p)) # 0
    PROVE  /\ player[p].step \notin {"idle", "load"} /\ Words(box, p, m) = 1
           /\ player[p].step = "try" => m = player[p].to
           /\ player[p].step = "leave" => m = player[p].at
           /\ Speaks(p, m)
<1>1. Words(box, p, m) # 0 /\ Talks(p)
    BY NotTrying DEF TalkInv, IInv, MailInv, Fit
<1>2. \A k : Speaks(p, k) => k = m /\ Words(box, p, m) = 1
    BY <1>1 DEF Speaks
<1>3. player[p].step \notin {"idle", "load"}
    BY <1>1 DEF Talks
<1>4. player[p].step \in {"try", "leave", "left"}
    BY <1>3, Typed DEF IInv, Traveller
<1>5. player[p].step \in {"try", "leave", "left"} => \E k : Speaks(p, k)
    BY <1>1 DEF Talks
<1>6. (player[p].step = "try" => Speaks(p, player[p].to)) /\ (player[p].step = "leave" => Speaks(p, player[p].at))
    BY <1>1 DEF Talks
<1> QED
    BY <1>2, <1>3, <1>4, <1>5, <1>6

LEMMA TopSays ==
    ASSUME IInv, NEW m \in Map, Got(m), Top(m).type \in Switching
    PROVE  \E p \in Player :
               /\ Top(m).by = p /\ Live(m)
               /\ Top(m).type \in {"TRYMAPSWITCH", "TRYLEAVE", "LEAVEOK"} => Top(m) \in Says(m, p)
               /\ Top(m).type \in {"SWITCHOK", "SWITCHERROR"} => Top(m) \in Late(m, p)
<1>1. m \in Actor /\ Top(m) \in Message
    BY Handled, Actors
<1>2. Top(m).by \in Player /\ Top(m).map = m /\ Live(m)
    BY <1>1, Handled, Actors DEF For, ForMap, Switching
<1> QED
    BY <1>1, <1>2 DEF Says, Late

\* The message that is taken is there.
LEMMA TopThere ==
    ASSUME box \in Mailboxes, NEW a \in Actor, Got(a), NEW S, Top(a) \in S
    PROVE  N(box[a], S) # 0
<1>1. N(Take(a)[a], S) = N(box[a], S) - 1 /\ Take(a) \in Mailboxes
    BY TakeCount
<1>2. N(Take(a)[a], S) \in Nat /\ N(box[a], S) \in Nat
    BY <1>1, BoxNat
<1> QED
    BY <1>1, <1>2

\* Of a map that answers p.
LEMMA AnswerKeeps ==
    ASSUME IInv, TalkInv, NEW m \in Map, NEW p \in Player, Got(m), Top(m) \in Says(m, p), NEW y \in Hears(m, p),
           box' = Put(Take(m), p, y), UNCHANGED player,
           \A n \in Map : \/ map'[n].lock = map[n].lock
                          \/ n = m /\ map'[n].lock = p /\ Top(m).type = "TRYMAPSWITCH" /\ y.type = "ALLOW"
    PROVE  TalkInv'
<1>1. box \in Mailboxes /\ m \in Actor
    BY Actors DEF IInv, MailInv, Fit
<1>2. /\ Aloof(box, box', p)
      /\ \A n \in Map : /\ Words(box', p, n) = Words(box, p, n)
                        /\ N(box'[n], Trying(n, p)) # 0 => N(box[n], Trying(n, p)) # 0
                        /\ N(box'[n], Late(n, p)) = N(box[n], Late(n, p))
                        /\ N(box[p], Allowed(n, p)) # 0 => N(box'[p], Allowed(n, p)) # 0
      /\ y.type = "ALLOW" => N(box'[p], Allowed(m, p)) # 0
    BY <1>1, AnswerWords
<1>3. Talks(p) /\ Locks(p)
    BY DEF TalkInv
<1>4. Talks(p)'
    BY <1>2, <1>3 DEF Talks, Speaks
<1>5. Locks(p)'
    <2> SUFFICES ASSUME NEW n \in Map, map'[n].lock = p PROVE Holds(p, n)'
        BY DEF Locks
    <2>1. CASE map[n].lock = p
        <3>1. Holds(p, n)
            BY <1>3, <2>1 DEF Locks
        <3> QED
            BY <1>2, <3>1 DEF Holds
    <2>2. CASE n = m /\ Top(m).type = "TRYMAPSWITCH" /\ y.type = "ALLOW"
        <3>1. Top(m) \in Trying(m, p)
            BY <2>2 DEF Says, Trying, From
        <3>2. N(box[m], Trying(m, p)) # 0 /\ N(box[m], Says(m, p)) # 0
            BY <1>1, <3>1, TopThere
        <3>3. player[p].step = "try"
            BY <1>3, <3>2 DEF Talks
        <3>4. m = player[p].to
            BY <3>2, <3>3, SpeaksWith
        <3> QED
            BY <1>2, <2>2, <3>3, <3>4 DEF Holds
    <2> QED
        BY <2>1, <2>2
<1>6. \A n \in Map : map'[n].lock \in {map[n].lock, None, p}
    OBVIOUS
<1> QED
    BY <1>2, <1>4, <1>5, <1>6, AloofKeeps

LEMMA TryMapSwitchTalks ==
    ASSUME IInv, TalkInv, NEW m \in Map, TryMapSwitch(m)
    PROVE  TalkInv'
<1>1. /\ Got(m) /\ Top(m).type = "TRYMAPSWITCH" /\ TypeOK /\ UNCHANGED player
      /\ map \in [Map -> MapActor] /\ map[m] \in MapActor
    BY Typed DEF TryMapSwitch, MapUnchanged, IInv
<1>2. PICK p \in Player : Top(m).by = p /\ Top(m) \in Says(m, p)
    BY <1>1, TopSays DEF Switching
<1>3. \A flag \in BOOLEAN : Msg("ALLOW", m, p, flag) \in Hears(m, p) /\ Msg("BAD", m, p, flag) \in Hears(m, p)
    BY Actors DEF Msg, Hears, Message, MsgType
<1>4. CASE map' = [map EXCEPT ![m].lock = p] /\ box' = Put(Take(m), p, Msg("ALLOW", m, p, TRUE))
    <2>1. PICK y \in Hears(m, p) : y = Msg("ALLOW", m, p, TRUE)
        BY <1>3
    <2>2. y.type = "ALLOW"
        BY <2>1 DEF Msg
    <2>3. \A n \in Map : map'[n].lock = map[n].lock \/ (n = m /\ map'[n].lock = p)
        BY <1>1, <1>4 DEF MapActor
    <2> QED
        BY <1>1, <1>2, <1>4, <2>1, <2>2, <2>3, AnswerKeeps
<1>5. CASE UNCHANGED map /\ box' = Put(Take(m), p, Msg("BAD", m, p, FALSE))
    <2>1. PICK y \in Hears(m, p) : y = Msg("BAD", m, p, FALSE)
        BY <1>3
    <2> QED
        BY <1>1, <1>2, <1>5, <2>1, AnswerKeeps
<1> QED
    BY <1>2, <1>4, <1>5 DEF TryMapSwitch

LEMMA TryLeaveTalks ==
    ASSUME IInv, TalkInv, NEW m \in Map, TryLeave(m)
    PROVE  TalkInv'
<1>1. Got(m) /\ Top(m).type = "TRYLEAVE" /\ UNCHANGED <<player, map>>
    BY DEF TryLeave, MapUnchanged
<1>2. PICK p \in Player : Top(m).by = p /\ Top(m) \in Says(m, p)
    BY <1>1, TopSays DEF Switching
<1>3. Msg("ALLOW", m, p, TRUE) \in Hears(m, p) /\ Msg("BAD", m, p, TRUE) \in Hears(m, p)
    BY Actors DEF Msg, Hears, Message, MsgType
<1>4. PICK y \in Hears(m, p) : box' = Put(Take(m), p, y)
    BY <1>2, <1>3 DEF TryLeave
<1> QED
    BY <1>1, <1>2, <1>4, AnswerKeeps

LEMMA LeaveOKTalks ==
    ASSUME IInv, TalkInv, NEW m \in Map, LeaveOK(m)
    PROVE  TalkInv'
<1>1. /\ Got(m) /\ Top(m).type = "LEAVEOK" /\ TypeOK /\ UNCHANGED <<player, seen>>
      /\ map \in [Map -> MapActor] /\ map[m] \in MapActor
    BY Typed DEF LeaveOK, MapUnchanged, IInv
<1>2. PICK p \in Player : Top(m).by = p /\ Top(m) \in Says(m, p)
    BY <1>1, TopSays DEF Switching
<1>3. PICK y \in Hears(m, p) : y = Msg("FINISHLEAVE", m, p, TRUE)
    BY Actors DEF Msg, Hears, Message, MsgType
<1>4. CASE map' = [map EXCEPT ![m].grid = @ \ {p}] /\ box' = Put(Take(m), p, Msg("FINISHLEAVE", m, p, TRUE))
    <2>1. \A n \in Map : map'[n].lock = map[n].lock
        BY <1>1, <1>4 DEF MapActor
    <2> QED
        BY <1>1, <1>2, <1>3, <1>4, <2>1, AnswerKeeps
<1>5. CASE Stray(m)
    BY <1>1, <1>5, StrayTalks DEF Stray
<1> QED
    BY <1>2, <1>4, <1>5 DEF LeaveOK

LEMMA SwitchDoneTalks ==
    ASSUME IInv, TalkInv, NEW m \in Map, SwitchDone(m)
    PROVE  TalkInv'
<1>1. /\ Got(m) /\ Top(m).type \in {"SWITCHOK", "SWITCHERROR"} /\ TypeOK /\ UNCHANGED <<player, seen>> /\ box \in Mailboxes
      /\ m \in Actor /\ map \in [Map -> MapActor] /\ map[m] \in MapActor
    BY Typed, Actors DEF SwitchDone, MapUnchanged, IInv, MailInv, Fit
<1>2. PICK p \in Player : Top(m).by = p /\ Top(m) \in Late(m, p)
    BY <1>1, TopSays DEF Switching
<1>3. CASE /\ map' = [map EXCEPT ![m].lock = None, ![m].grid = IF Top(m).type = "SWITCHOK" THEN @ \cup {p} ELSE @]
           /\ box' = Take(m)
    <2>1. map'[m].lock = None /\ \A n \in Map \ {m} : map'[n] = map[n]
        BY <1>1, <1>3 DEF MapActor
    <2>2. Aloof(box, box', p)
        BY <1>1, <1>2, <1>3, AloofTake
    <2>3. \A c \in Actor : \A S : N(box[c], S) \in Nat /\ N(box'[c], S) = N(box[c], S) - (IF c = m /\ Top(m) \in S THEN 1 ELSE 0)
        BY <1>1, <1>3, TakeCount, BoxNat
    <2>4. ASSUME NEW n \in Map
          PROVE  /\ Words(box', p, n) = Words(box, p, n) /\ N(box'[n], Trying(n, p)) = N(box[n], Trying(n, p))
                 /\ N(box'[p], Allowed(n, p)) = N(box[p], Allowed(n, p))
                 /\ n # m => N(box'[n], Late(n, p)) = N(box[n], Late(n, p))
        <3>1. Top(m) \notin Says(n, p) /\ Top(m) \notin Hears(n, p) /\ Top(m) \notin Trying(n, p) /\ Top(m) \notin Allowed(n, p)
            BY <1>1 DEF Says, Hears, Trying, Allowed, From
        <3>2. n \in Actor /\ p \in Actor
            BY Actors
        <3>3. /\ N(box'[n], Says(n, p)) = N(box[n], Says(n, p)) /\ N(box'[p], Hears(n, p)) = N(box[p], Hears(n, p))
              /\ N(box'[n], Trying(n, p)) = N(box[n], Trying(n, p)) /\ N(box'[p], Allowed(n, p)) = N(box[p], Allowed(n, p))
            BY <2>3, <3>1, <3>2
        <3>4. n # m => N(box'[n], Late(n, p)) = N(box[n], Late(n, p))
            BY <2>3, <3>2
        <3> QED
            BY <3>3, <3>4 DEF Words
    <2>5. Talks(p) /\ Locks(p) /\ p # None
        BY Actors DEF TalkInv
    <2>6. Talks(p)'
        BY <1>1, <2>4, <2>5 DEF Talks, Speaks
    <2>7. Locks(p)'
        BY <1>1, <2>1, <2>4, <2>5 DEF Locks, Holds
    <2>8. \A n \in Map : map'[n].lock \in {map[n].lock, None, p}
        BY <2>1
    <2> QED
        BY <1>1, <2>2, <2>6, <2>7, <2>8, AloofKeeps
<1>4. CASE Stray(m)
    BY <1>1, <1>4, StrayTalks DEF Stray
<1> QED
    BY <1>2, <1>3, <1>4 DEF SwitchDone

-----------------------------------------------------------------------------
(* A map that is gone refuses what it has not heard.                        *)

LEMMA RefusedWord ==
    ASSUME NEW m \in Map, NEW x \in Message, x.type \in Switching, x.map = m, x.by \in Player
    PROVE  /\ \A q \in Player, n \in Map : (Refusal(x).to = q /\ Refusal(x).msg \in Hears(n, q)) <=> x \in Says(n, q)
           /\ \A q \in Player, n \in Map : Refusal(x).to = q => Refusal(x).msg \notin Allowed(n, q)
           /\ \A n \in Map : Refusal(x).to # n
           /\ Refusal(x) \in Posts
<1>1. Refusal(x) \in Posts
    BY Refused DEF FitPosts
<1>2. CASE x.type \in {"TRYMAPSWITCH", "TRYLEAVE", "LEAVEOK"}
    <2> DEFINE y == [x EXCEPT !.type = "BAD"]
    <2>1. Refusal(x).to = x.by /\ Refusal(x).msg = y
        BY <1>2 DEF Refusal, Post
    <2>2. y \in Message /\ y.type = "BAD" /\ y.by = x.by /\ y.map = m
        BY DEF Message, MsgType
    <2> HIDE DEF y
    <2>3. \A q \in Player, n \in Map : (Refusal(x).to = q /\ Refusal(x).msg \in Hears(n, q)) <=> x \in Says(n, q)
        BY <1>2, <2>1, <2>2 DEF Says, Hears
    <2>4. \A q \in Player, n \in Map : Refusal(x).msg \notin Allowed(n, q)
        BY <2>1, <2>2 DEF Allowed, From
    <2>5. \A n \in Map : Refusal(x).to # n
        BY <2>1, Actors
    <2> QED
        BY <1>1, <2>3, <2>4, <2>5
<1>3. CASE x.type \in {"SWITCHOK", "SWITCHERROR"}
    <2>1. Refusal(x).to = None
        BY <1>3 DEF Refusal, Post
    <2>2. \A q \in Player, n \in Map : x \notin Says(n, q) /\ q # None /\ n # None
        BY <1>3, Actors DEF Says
    <2> QED
        BY <1>1, <2>1, <2>2
<1> QED
    BY <1>2, <1>3 DEF Switching

LEMMA LastWords ==
    ASSUME IInv, NEW m \in Map, NEW type \in {"LOADED", "SWITCHED"}, NEW where \in Map, NEW who \in Client,
           Turn(m, type, where, who), box' = LastBox(m)
    PROVE  \A q \in Player, n \in Map :
               /\ Words(box', q, n) = Words(box, q, n) /\ N(box'[q], Allowed(n, q)) = N(box[q], Allowed(n, q))
               /\ n # m => N(box'[n], Late(n, q)) = N(box[n], Late(n, q)) /\ N(box'[n], Trying(n, q)) = N(box[n], Trying(n, q))
               /\ n = m => N(box'[n], Trying(n, q)) = 0
<1>1. /\ Got(m) /\ MailInv /\ box \in Mailboxes /\ m \in Actor /\ m # Core /\ m # Peer
      /\ Core \in Actor /\ Peer \in Actor /\ Top(m).type = type
    <2>1. Is(Top(m), type, where, who)
        BY DEF Turn
    <2> QED
        BY <2>1, Actors DEF Turn, IInv, MailInv, Fit, Is
<1>2. PICK by \in {Core, Peer} : by = map[m].closing
    BY LastCounts DEF Keeper
<1> DEFINE old == Take(m)[m]
           y == Answered(m)
           b == Put(Take(m), by, y)
           posts == LastPosts(m)
           after == DeliverAll(b, posts)
<1>3. y \in Message /\ y \notin Spoken /\ by \in Actor
    BY <1>1, <1>2, QuietMessages DEF Answered
<1>4. Take(m) \in Mailboxes /\ Hush(Spoken, box, Take(m)) /\ old \in Seq(Message)
    <2>1. Take(m) \in Mailboxes /\ Hush(Spoken, box, Take(m))
        BY <1>1, HushTake DEF Spoken, Talk
    <2> QED
        BY <1>1, <2>1 DEF Mailboxes
<1> HIDE DEF y
<1>5. b \in Mailboxes /\ Hush(Spoken, box, b)
    BY <1>3, <1>4, HushPut, HushOn
<1>6. /\ DOMAIN posts = DOMAIN old /\ DOMAIN old = 1 .. Len(old) /\ Len(old) \in Nat
      /\ posts = [i \in DOMAIN posts |-> posts[i]]
    BY <1>4 DEF LastPosts
<1>7. ASSUME NEW i \in DOMAIN old
      PROVE  /\ posts[i] \in Posts /\ \A n \in Map : posts[i].to # n
             /\ \A q \in Player, n \in Map : (posts[i].to = q /\ posts[i].msg \in Hears(n, q)) <=> old[i] \in Says(n, q)
             /\ \A q \in Player, n \in Map : posts[i].to = q => posts[i].msg \notin Allowed(n, q)
             /\ \A q \in Player, n \in Map : old[i] \in Says(n, q) => n = m
    <2>1. PICK x : x = old[i] /\ x \in Message /\ x.type \in Switching /\ x.map = m /\ x.by \in Player
        BY LastMail
    <2>2. posts[i] = Refusal(x)
        BY <2>1 DEF LastPosts
    <2> HIDE DEF posts, old
    <2>3. \A q \in Player, n \in Map : x \in Says(n, q) => n = m
        BY <2>1 DEF Says
    <2> QED
        BY <2>1, <2>2, <2>3, RefusedWord
<1> HIDE DEF posts
<1>8. posts \in Seq(Posts)
    <2>1. posts \in [1 .. Len(old) -> Posts]
        BY <1>6, <1>7
    <2> QED
        BY <1>6, <2>1
<1> HIDE DEF b
<1>9. \A c \in Actor : \A S : N(after[c], S) = N(b[c], S) + Cardinality(Sends(posts, c, S))
    BY <1>5, <1>8, DeliverAllCount
<1>10. after \in Mailboxes
    BY <1>5, <1>8, DeliverAllCount
<1>11. box' = [after EXCEPT ![m] = <<>>]
    BY <1>2 DEF LastBox, b, y, posts
<1> HIDE DEF after
<1>12. box'[m] = <<>> /\ \A c \in Actor : c # m => box'[c] = after[c]
    BY <1>1, <1>10, <1>11 DEF Mailboxes
<1> SUFFICES ASSUME NEW q \in Player, NEW n \in Map
             PROVE  /\ Words(box', q, n) = Words(box, q, n) /\ N(box'[q], Allowed(n, q)) = N(box[q], Allowed(n, q))
                    /\ n # m => N(box'[n], Late(n, q)) = N(box[n], Late(n, q)) /\ N(box'[n], Trying(n, q)) = N(box[n], Trying(n, q))
                    /\ n = m => N(box'[n], Trying(n, q)) = 0
    OBVIOUS
<1>13. q \in Actor /\ n \in Actor /\ q # m
    BY Actors
<1>14. \A c \in Actor : \A S : N(box[c], S) \in Nat
    BY <1>1, BoxNat
<1>15. \A c \in Actor : \A S \in SUBSET Spoken : N(b[c], S) = N(box[c], S)
    BY <1>5 DEF Hush
<1>16. Cardinality(Sends(posts, q, Hears(n, q))) = N(old, Says(n, q))
    <2>1. Sends(posts, q, Hears(n, q)) = {i \in DOMAIN old : old[i] \in Says(n, q)}
        BY <1>6, <1>7 DEF Sends
    <2> QED
        BY <2>1 DEF N
<1>17. N(box'[q], Hears(n, q)) = N(box[q], Hears(n, q)) + N(old, Says(n, q))
    <2>1. N(after[q], Hears(n, q)) = N(b[q], Hears(n, q)) + Cardinality(Sends(posts, q, Hears(n, q)))
        BY <1>9, <1>13
    <2>2. N(b[q], Hears(n, q)) = N(box[q], Hears(n, q))
        BY <1>13, <1>15, SpokenAre
    <2>3. box'[q] = after[q]
        BY <1>12, <1>13
    <2> QED
        BY <1>16, <2>1, <2>2, <2>3
<1>18. N(box'[q], Allowed(n, q)) = N(box[q], Allowed(n, q))
    <2>1. Sends(posts, q, Allowed(n, q)) = {}
        BY <1>6, <1>7 DEF Sends
    <2>2. Cardinality(Sends(posts, q, Allowed(n, q))) = 0
        BY <2>1, FS_EmptySet
    <2>3. N(after[q], Allowed(n, q)) = N(b[q], Allowed(n, q)) + 0
        BY <1>9, <1>13, <2>2
    <2>4. N(b[q], Allowed(n, q)) = N(box[q], Allowed(n, q)) /\ N(box[q], Allowed(n, q)) \in Nat
        BY <1>13, <1>14, <1>15, SpokenAre
    <2>5. box'[q] = after[q]
        BY <1>12, <1>13
    <2> QED
        BY <2>3, <2>4, <2>5
<1>19. CASE n = m
    <2>1. N(box'[n], Says(n, q)) = 0 /\ N(box'[n], Trying(n, q)) = 0
        BY <1>12, <1>19, CountEmpty
    <2>2. N(old, Says(n, q)) = N(box[n], Says(n, q))
        BY <1>1, <1>4, <1>19, SpokenAre DEF Hush
    <2>3. N(box[n], Says(n, q)) \in Nat /\ N(box[q], Hears(n, q)) \in Nat
        BY <1>13, <1>14
    <2>4. Words(box', q, n) = Words(box, q, n)
        BY <1>17, <2>1, <2>2, <2>3 DEF Words
    <2> QED
        BY <1>18, <1>19, <2>1, <2>4
<1>20. CASE n # m
    <2>1. N(old, Says(n, q)) = 0
        <3>1. \A i \in DOMAIN old : old[i] \notin Says(n, q)
            BY <1>7, <1>20
        <3> HIDE DEF old
        <3> QED
            BY <1>4, <3>1, CountFinite
    <2>2. ASSUME NEW S \in SUBSET Spoken PROVE N(box'[n], S) = N(box[n], S)
        <3>1. Sends(posts, n, S) = {}
            BY <1>6, <1>7 DEF Sends
        <3>2. Cardinality(Sends(posts, n, S)) = 0
            BY <3>1, FS_EmptySet
        <3>3. N(after[n], S) = N(b[n], S) + 0
            BY <1>9, <1>13, <3>2
        <3>4. N(b[n], S) = N(box[n], S) /\ N(box[n], S) \in Nat
            BY <1>13, <1>14, <1>15
        <3>5. box'[n] = after[n]
            BY <1>12, <1>13, <1>20
        <3> QED
            BY <3>3, <3>4, <3>5
    <2>3. /\ N(box'[n], Says(n, q)) = N(box[n], Says(n, q)) /\ N(box'[n], Late(n, q)) = N(box[n], Late(n, q))
          /\ N(box'[n], Trying(n, q)) = N(box[n], Trying(n, q))
        BY <2>2, SpokenAre
    <2>4. N(box[n], Says(n, q)) \in Nat /\ N(box[q], Hears(n, q)) \in Nat
        BY <1>13, <1>14
    <2>5. Words(box', q, n) = Words(box, q, n)
        BY <1>17, <2>1, <2>3, <2>4 DEF Words
    <2> QED
        BY <1>18, <1>20, <2>3, <2>5
<1> QED
    BY <1>19, <1>20

LEMMA EvacuateLastTalks ==
    ASSUME IInv, TalkInv, NEW m \in Map, NEW type \in {"LOADED", "SWITCHED"}, NEW where \in Map, NEW who \in Client,
           Turn(m, type, where, who), map' = [map EXCEPT ![m] = Shut], box' = LastBox(m), UNCHANGED player
    PROVE  TalkInv'
<1>1. map'[m].lock = None /\ \A n \in Map \ {m} : map'[n] = map[n]
    <2>1. TypeOK
        BY DEF IInv
    <2> QED
        BY <2>1, ShutIs, OneMap
<1>2. \A q \in Player, n \in Map :
          /\ Words(box', q, n) = Words(box, q, n) /\ N(box'[q], Allowed(n, q)) = N(box[q], Allowed(n, q))
          /\ n # m => N(box'[n], Late(n, q)) = N(box[n], Late(n, q)) /\ N(box'[n], Trying(n, q)) = N(box[n], Trying(n, q))
          /\ n = m => N(box'[n], Trying(n, q)) = 0
    BY LastWords
<1> SUFFICES ASSUME NEW q \in Player PROVE Talks(q)' /\ Locks(q)'
    BY DEF TalkInv
<1>3. Talks(q) /\ Locks(q) /\ q # None
    BY Actors DEF TalkInv
<1>4. Talks(q)'
    BY <1>2, <1>3 DEF Talks, Speaks
<1>5. Locks(q)'
    BY <1>1, <1>2, <1>3 DEF Locks, Holds
<1> QED
    BY <1>4, <1>5

LEMMA EvacuateTalks ==
    ASSUME IInv, TalkInv, NEW m \in Map, NEW type \in {"LOADED", "SWITCHED"}, NEW where \in Map, NEW who \in Client,
           Turn(m, type, where, who), NEW todo \in Seq(Player), Evacuate(Take(m), m, todo), UNCHANGED player,
           seen \subseteq seen'
    PROVE  TalkInv'
<1>1. CASE todo # <<>>
    <2>1. Got(m) /\ Is(Top(m), type, where, who)
        BY DEF Turn
    <2>2. Got(m) /\ Top(m).type \in {"LOADED", "SWITCHED"}
        BY <2>1 DEF Is
    <2>3. Silent(Spoken \cup Loads)
        BY <1>1, <2>2, EvacuateNextSilent
    <2>4. Silent(Spoken)
        BY <2>3, SilentLess
    <2> QED
        BY <2>4, SilentKeeps
<1>2. CASE todo = <<>>
    <2>1. map' = [map EXCEPT ![m] = Shut] /\ box' = LastBox(m)
        BY <1>2 DEF Evacuate, Shut, LastBox, LastPosts, Answered
    <2> QED
        BY <2>1, EvacuateLastTalks
<1> QED
    BY <1>1, <1>2

LEMMA ExitLoadedTalks ==
    ASSUME IInv, TalkInv, NEW m \in Map, ExitLoaded(m)
    PROVE  TalkInv'
<1>1. Got(m) /\ Top(m).type = "LOADED" /\ m \in Actor /\ m \in Client /\ TypeOK /\ UNCHANGED player
    BY Actors DEF ExitLoaded, MapUnchanged, IInv, Client
<1>2. Top(m).map = Exit /\ Top(m).by = m /\ Top(m).flag = TRUE /\ F(box, m, "LOADED", Exit, m) # 0
    <2>1. Top(m) \in For(m) /\ F(box, m, "LOADED", Top(m).map, Top(m).by) # 0
        BY <1>1, Handled
    <2>2. Top(m).map = Exit /\ Top(m).by = m /\ Top(m).flag = TRUE
        BY <1>1, <2>1, Actors DEF For, ForMap
    <2> QED
        BY <2>1, <2>2
<1>3. map[m].closing # None /\ map[m].todo = <<>>
    <2>1. Wants(m, Exit)
        BY <1>1, <1>2, Requested, Actors
    <2> QED
        BY <2>1, Actors DEF Wants
<1>4. Turn(m, "LOADED", Exit, m)
    BY <1>1, <1>2, <1>3 DEF Turn, Is
<1>5. PICK todo \in SetToSeqs(map[m].grid) : Evacuate(Take(m), m, todo) /\ seen \subseteq seen'
    BY <1>2 DEF ExitLoaded, Note
<1>6. todo \in Seq(Player)
    BY <1>1, Orders
<1>7. PICK type \in {"LOADED", "SWITCHED"}, where \in Map : type = "LOADED" /\ where = Exit
    BY Actors
<1> QED
    BY <1>1, <1>4, <1>5, <1>6, <1>7, EvacuateTalks

LEMMA EvacuatedTalks ==
    ASSUME IInv, TalkInv, NEW m \in Map, Evacuated(m)
    PROVE  TalkInv'
<1>1. Got(m) /\ Top(m).type = "SWITCHED" /\ m \in Actor /\ TypeOK /\ UNCHANGED <<player, seen>>
    BY Actors DEF Evacuated, MapUnchanged, IInv
<1>2. PICK p \in Player : Top(m).map = m /\ Top(m).by = p /\ F(box, m, "SWITCHED", m, p) # 0
    <2>1. Top(m) \in For(m) /\ F(box, m, "SWITCHED", Top(m).map, Top(m).by) # 0
        BY <1>1, Handled
    <2>2. Top(m).map = m /\ Top(m).by \in Player
        BY <1>1, <2>1, Actors DEF For, ForMap
    <2> QED
        BY <2>1, <2>2
<1>3. map[m].todo # <<>> /\ Head(map[m].todo) = p /\ map[m].closing # None
    BY <1>2, Sender
<1>4. map[m].todo \in Seq(Player)
    BY <1>1 DEF TypeOK
<1>5. CASE Top(m).flag
    <2>1. Evacuate(Take(m), m, Tail(map[m].todo))
        BY <1>5 DEF Evacuated
    <2>2. Turn(m, "SWITCHED", m, p)
        BY <1>1, <1>2, <1>3 DEF Turn, Is
    <2>3. Tail(map[m].todo) \in Seq(Player)
        BY <1>3, <1>4
    <2>4. PICK type \in {"LOADED", "SWITCHED"}, who \in Client : type = "SWITCHED" /\ who = p
        BY DEF Client
    <2> QED
        BY <1>1, <2>1, <2>2, <2>3, <2>4, EvacuateTalks
<1>6. CASE ~Top(m).flag
    <2>1. UNCHANGED <<map, box, player>>
        BY <1>1, <1>6 DEF Evacuated
    <2> QED
        BY <1>1, <2>1, StrayTalks
<1> QED
    BY <1>5, <1>6

-----------------------------------------------------------------------------
(* The players' part.                                                       *)

\* What p says to a map, or hears when the map is gone.
LEMMA CallWords ==
    ASSUME NEW b \in Mailboxes, NEW p \in Player, NEW m \in Map, NEW flag \in BOOLEAN,
           NEW type \in {"TRYMAPSWITCH", "TRYLEAVE", "LEAVEOK"}, NEW d, d = Call(b, map, m, Msg(type, m, p, flag))
    PROVE  /\ d \in Mailboxes /\ Aloof(b, d, p)
           /\ \A n \in Map : /\ Words(d, p, n) = Words(b, p, n) + (IF n = m THEN 1 ELSE 0)
                             /\ N(d[n], Late(n, p)) = N(b[n], Late(n, p))
                             /\ type # "TRYMAPSWITCH" => N(d[n], Trying(n, p)) = N(b[n], Trying(n, p))
<1> DEFINE x == Msg(type, m, p, flag)
           z == [x EXCEPT !.type = "BAD"]
<1>1. x \in Says(m, p) /\ x.type = type /\ x.by = p /\ z \in Hears(m, p) /\ z.type = "BAD" /\ z.by = p
    BY Actors DEF Msg, Message, MsgType, Says, Hears
<1>2. p \in Actor /\ m \in Actor /\ p # None /\ p # m /\ m # None /\ p \notin Map
    BY Actors
<1>3. \/ d = Put(b, m, x)
      \/ d = Put(b, p, z)
    <2>1. CASE map[m].state = "live"
        BY <1>2, <2>1 DEF Call, Reach, Deliver, Post
    <2>2. CASE map[m].state # "live"
        <3>1. Refusal(x) = Post(p, z)
            BY <1>1 DEF Refusal
        <3>2. d = Deliver(b, Post(p, z))
            BY <2>2, <3>1 DEF Call, Reach
        <3> HIDE DEF z
        <3> QED
            BY <1>2, <3>2 DEF Deliver, Post
    <2> QED
        BY <2>1, <2>2
<1> HIDE DEF x, z
<1>4. PICK to \in Actor, y \in Message :
          /\ d = Put(b, to, y) /\ y.by = p /\ \A n \in Map : Word(to, y, p, n) <=> n = m
          /\ \A n \in Map : /\ to # n \/ y \notin Late(n, p)
                            /\ type # "TRYMAPSWITCH" => to # n \/ y \notin Trying(n, p)
    <2>1. CASE d = Put(b, m, x)
        <3>1. x \in Message /\ \A n \in Map : Word(m, x, p, n) <=> n = m
            BY <1>1, <1>2 DEF Word, Says, Hears
        <3>2. \A n \in Map : x \notin Late(n, p) /\ (type # "TRYMAPSWITCH" => x \notin Trying(n, p))
            BY <1>1 DEF Says, Late, Trying, From
        <3> QED
            BY <1>1, <1>2, <2>1, <3>1, <3>2
    <2>2. CASE d = Put(b, p, z)
        <3>1. z \in Message /\ \A n \in Map : Word(p, z, p, n) <=> n = m
            BY <1>1, <1>2 DEF Word, Says, Hears
        <3>2. \A n \in Map : p # n
            BY <1>2
        <3> QED
            BY <1>1, <1>2, <2>2, <3>1, <3>2
    <2> QED
        BY <1>3, <2>1, <2>2
<1>5. d \in Mailboxes
    BY <1>4, PutCount
<1>6. \A c \in Actor : \A S : N(d[c], S) = N(b[c], S) + (IF c = to /\ y \in S THEN 1 ELSE 0)
    <2>1. \A c \in Actor : \A S : N(Put(b, to, y)[c], S) = N(b[c], S) + (IF c = to /\ y \in S THEN 1 ELSE 0)
        BY PutCount
    <2> QED
        BY <1>4, <2>1
<1>7. Aloof(b, d, p)
    BY <1>4, AloofPut
<1>8. ASSUME NEW n \in Map
      PROVE  Words(d, p, n) = Words(b, p, n) + (IF n = m THEN 1 ELSE 0)
    <2>1. Words(d, p, n) = Words(b, p, n) + (IF Word(to, y, p, n) THEN 1 ELSE 0)
        BY <1>4, WordPut
    <2> QED
        BY <1>4, <2>1
<1>9. ASSUME NEW n \in Map
      PROVE  /\ N(d[n], Late(n, p)) = N(b[n], Late(n, p))
             /\ type # "TRYMAPSWITCH" => N(d[n], Trying(n, p)) = N(b[n], Trying(n, p))
    <2>1. n \in Actor
        BY Actors
    <2>2. N(b[n], Late(n, p)) \in Nat /\ N(b[n], Trying(n, p)) \in Nat
        BY <2>1, BoxNat
    <2>3. N(d[n], Late(n, p)) = N(b[n], Late(n, p)) + (IF n = to /\ y \in Late(n, p) THEN 1 ELSE 0)
        BY <1>6, <2>1
    <2>4. N(d[n], Trying(n, p)) = N(b[n], Trying(n, p)) + (IF n = to /\ y \in Trying(n, p) THEN 1 ELSE 0)
        BY <1>6, <2>1
    <2> QED
        BY <1>4, <2>2, <2>3, <2>4
<1> QED
    BY <1>5, <1>7, <1>8, <1>9

\* The end of a switch, for the map whose cell p has locked.
LEMMA CallLate ==
    ASSUME NEW b \in Mailboxes, NEW p \in Player, NEW m \in Map, NEW flag \in BOOLEAN,
           NEW type \in {"SWITCHOK", "SWITCHERROR"}, NEW d, d = Call(b, map, m, Msg(type, m, p, flag))
    PROVE  /\ d \in Mailboxes /\ Aloof(b, d, p)
           /\ \A n \in Map : /\ Words(d, p, n) = Words(b, p, n)
                             /\ N(b[n], Late(n, p)) # 0 => N(d[n], Late(n, p)) # 0
           /\ Live(m) => N(d[m], Late(m, p)) # 0
<1> DEFINE x == Msg(type, m, p, flag)
<1>1. x \in Late(m, p) /\ x.type = type /\ x.by = p /\ x \in Message
    BY Actors DEF Msg, Message, MsgType, Late
<1>2. p \in Actor /\ m \in Actor /\ p # None /\ p # m /\ m # None
    BY Actors
<1>3. CASE Live(m)
    <2>1. d = Put(b, m, x)
        BY <1>2, <1>3 DEF Call, Reach, Deliver, Post, Live
    <2> HIDE DEF x
    <2>2. d \in Mailboxes
        BY <1>1, <1>2, <2>1, PutCount
    <2>3. \A c \in Actor : \A S : N(d[c], S) = N(b[c], S) + (IF c = m /\ x \in S THEN 1 ELSE 0)
        <3>1. \A c \in Actor : \A S : N(Put(b, m, x)[c], S) = N(b[c], S) + (IF c = m /\ x \in S THEN 1 ELSE 0)
            BY <1>1, <1>2, PutCount
        <3> QED
            BY <2>1, <3>1
    <2>4. Aloof(b, d, p)
        BY <1>1, <1>2, <2>1, AloofPut
    <2>5. ASSUME NEW n \in Map
          PROVE  Words(d, p, n) = Words(b, p, n)
        <3>1. Words(d, p, n) = Words(b, p, n) + (IF Word(m, x, p, n) THEN 1 ELSE 0)
            BY <1>1, <1>2, <2>1, WordPut
        <3>2. ~Word(m, x, p, n)
            BY <1>1 DEF Word, Says, Hears
        <3>3. Words(b, p, n) \in Nat
            BY WordsNat
        <3> QED
            BY <3>1, <3>2, <3>3
    <2>6. ASSUME NEW n \in Map
          PROVE  /\ N(b[n], Late(n, p)) # 0 => N(d[n], Late(n, p)) # 0
                 /\ n = m => N(d[n], Late(n, p)) # 0
        <3>1. n \in Actor
            BY Actors
        <3>2. N(b[n], Late(n, p)) \in Nat
            BY <3>1, BoxNat
        <3>3. N(d[n], Late(n, p)) = N(b[n], Late(n, p)) + (IF n = m /\ x \in Late(n, p) THEN 1 ELSE 0)
            BY <2>3, <3>1
        <3> QED
            BY <1>1, <3>2, <3>3
    <2> QED
        BY <2>2, <2>4, <2>5, <2>6
<1>4. CASE ~Live(m)
    <2>1. Refusal(x) = Post(None, x)
        BY <1>1 DEF Refusal
    <2>2. d = b
        BY <1>4, <2>1 DEF Call, Reach, Deliver, Post, Live
    <2>3. Aloof(b, b, p)
        BY HushSame DEF Aloof
    <2> QED
        BY <1>4, <2>2, <2>3
<1> QED
    BY <1>3, <1>4

\* p hears a map: nothing of its switch is under way then, but what it has to
\* tell a map whose cell it has locked.
LEMMA HeardOut ==
    ASSUME IInv, TalkInv, NEW p \in Player, Got(p), Top(p).type \in {"ALLOW", "BAD", "FINISHLEAVE"}
    PROVE  /\ Take(p) \in Mailboxes /\ Aloof(box, Take(p), p)
           /\ player[p].step = "left" => player[p].to = player[p].at
           /\ \A n \in Map :
                  /\ Words(Take(p), p, n) = 0
                  /\ map[n].lock = p => /\ Live(n)
                                        /\ \/ N(Take(p)[n], Late(n, p)) # 0
                                           \/ player[p].step = "try" /\ player[p].to = n /\ Top(p).type = "ALLOW"
                                           \/ player[p].step \in {"leave", "left"} /\ player[p].to = n
<1>1. box \in Mailboxes /\ p \in Actor /\ p \notin Map /\ p # None
    BY Actors DEF IInv, MailInv, Fit
<1>2. PICK k \in Map : Top(p) \in Hears(k, p) /\ Top(p).by = p
    <2>1. Top(p) \in For(p) /\ Top(p) \in Message /\ Top(p).map \in Map
        BY <1>1, Handled
    <2>2. Top(p).by = p
        BY <1>1, <2>1, Actors DEF For, ForPlayer
    <2> QED
        BY <2>1, <2>2 DEF Hears
<1>3. N(box[p], Hears(k, p)) # 0
    BY <1>1, <1>2, TopThere
<1>4. Words(box, p, k) = 1 /\ Speaks(p, k)
    BY <1>3, SpeaksWith
<1>5. Take(p) \in Mailboxes
    BY <1>1, TakeCount
<1>6. Aloof(box, Take(p), p)
    BY <1>1, <1>2, AloofTake
<1>7. ASSUME NEW n \in Map PROVE Words(Take(p), p, n) = 0
    <2>1. Words(Take(p), p, n) = Words(box, p, n) - (IF Word(p, Top(p), p, n) THEN 1 ELSE 0)
        BY <1>1, WordTaken
    <2>2. Word(p, Top(p), p, n) <=> n = k
        BY <1>1, <1>2 DEF Word, Hears, Says
    <2>3. Words(box, p, n) = IF n = k THEN 1 ELSE 0
        BY <1>4 DEF Speaks
    <2> QED
        BY <2>1, <2>2, <2>3
<1>8. ASSUME NEW n \in Map, map[n].lock = p
      PROVE  /\ Live(n)
             /\ \/ N(Take(p)[n], Late(n, p)) # 0
                \/ player[p].step = "try" /\ player[p].to = n /\ Top(p).type = "ALLOW"
                \/ player[p].step \in {"leave", "left"} /\ player[p].to = n
    <2>1. Live(n)
        BY <1>1, <1>8 DEF IInv, RegistryInv, State, Bare
    <2>2. Holds(p, n)
        BY <1>8 DEF TalkInv, Locks
    <2>3. Take(p)[n] = box[n]
        BY <1>1, Actors DEF Take, Mailboxes
    <2>4. ASSUME N(box[p], Allowed(n, p)) # 0 PROVE Top(p).type = "ALLOW"
        <3>1. N(Take(p)[p], Allowed(n, p)) = 0
            BY <1>5, <1>7, NotTrying
        <3>2. N(Take(p)[p], Allowed(n, p)) = N(box[p], Allowed(n, p)) - (IF p = p /\ Top(p) \in Allowed(n, p) THEN 1 ELSE 0)
            BY <1>1, TakeCount
        <3>3. N(box[p], Allowed(n, p)) \in Nat
            BY <1>1, BoxNat
        <3>4. Top(p) \in Allowed(n, p)
            BY <2>4, <3>1, <3>2, <3>3
        <3> QED
            BY <3>4 DEF Allowed, From
    <2> QED
        BY <2>1, <2>2, <2>3, <2>4 DEF Holds
<1>9. player[p].step = "left" => player[p].to = player[p].at
    BY DEF TalkInv, Talks
<1> QED
    BY <1>5, <1>6, <1>7, <1>8, <1>9

\* p ends its switch: it has told the map whose cell it had locked.
LEMMA EndTalks ==
    ASSUME IInv, TalkInv, NEW p \in Player, NEW b \in Mailboxes, Aloof(box, b, p),
           \A n \in Map : Words(b, p, n) = 0 /\ (map[n].lock = p => N(b[n], Late(n, p)) # 0),
           NEW at \in Map, NEW ok \in BOOLEAN, End(b, p, at, ok), UNCHANGED map
    PROVE  TalkInv'
<1>1. player \in [Player -> Traveller] /\ player[p] \in Traveller /\ p \in Actor /\ \A n \in Map : n \in Actor
    BY Typed, Actors DEF IInv
<1>2. player'[p].step = "idle" /\ \A q \in Player \ {p} : player'[q] = player[q]
    BY <1>1 DEF End, Traveller
<1>3. Hush(Spoken, b, box') /\ Aloof(b, box', p)
    <2>1. CASE player[p].for = None
        <3>1. box' = b
            BY <2>1 DEF End, Report
        <3> QED
            BY <3>1, HushSame DEF Aloof
    <2>2. CASE player[p].for # None
        <3>1. PICK m \in Map : m = player[p].for
            BY <1>1, <2>2 DEF Traveller
        <3>2. Live(m)
            BY <3>1, Sender
        <3>3. box' = Report(b, p, m, ok)
            BY <3>1 DEF End
        <3>4. /\ Report(b, p, m, ok) = Put(b, m, Msg("SWITCHED", m, p, ok))
              /\ Hush(Spoken \cup Loads, b, Report(b, p, m, ok))
            BY <3>2, ReportHush
        <3>5. Hush(Spoken, b, box')
            BY <3>3, <3>4, HushLess
        <3>6. Msg("SWITCHED", m, p, ok) \in Message /\ Msg("SWITCHED", m, p, ok).by = p
            BY <1>1 DEF Msg, Message, MsgType
        <3>7. m \in Actor
            BY <1>1
        <3>8. Aloof(b, box', p)
            BY <3>3, <3>4, <3>6, <3>7, AloofPut
        <3> QED
            BY <3>5, <3>8
    <2> QED
        BY <2>1, <2>2
<1>4. Aloof(box, box', p)
    BY <1>3, AloofOn
<1>5. ASSUME NEW n \in Map
      PROVE  /\ Words(box', p, n) = 0 /\ N(box'[n], Trying(n, p)) = 0
             /\ map[n].lock = p => N(box'[n], Late(n, p)) # 0
    <2>1. N(b[n], Trying(n, p)) = 0
        BY NotTrying
    <2>2. Words(box', p, n) = Words(b, p, n)
        BY <1>1, <1>3, SpokenAre DEF Hush, Words
    <2>3. N(box'[n], Trying(n, p)) = N(b[n], Trying(n, p)) /\ N(box'[n], Late(n, p)) = N(b[n], Late(n, p))
        BY <1>1, <1>3, SpokenAre DEF Hush
    <2> QED
        BY <2>1, <2>2, <2>3
<1>6. Talks(p)'
    BY <1>2, <1>5 DEF Talks
<1>7. Locks(p)'
    BY <1>5 DEF Locks, Holds
<1>8. \A n \in Map : map'[n].lock \in {map[n].lock, None, p}
    OBVIOUS
<1> QED
    BY <1>2, <1>4, <1>6, <1>7, <1>8, AloofKeeps

\* p goes on with its switch: it says one thing to one map.
LEMMA SayWords ==
    ASSUME NEW p \in Player, NEW b \in Mailboxes, Aloof(box, b, p), \A n \in Map : Words(b, p, n) = 0, NEW m \in Map,
           NEW type \in {"TRYMAPSWITCH", "TRYLEAVE", "LEAVEOK"}, NEW flag \in BOOLEAN,
           NEW d, d = Call(b, map, m, Msg(type, m, p, flag))
    PROVE  /\ Aloof(box, d, p)
           /\ \A n \in Map : /\ Words(d, p, n) = (IF n = m THEN 1 ELSE 0)
                             /\ N(d[n], Late(n, p)) = N(b[n], Late(n, p))
                             /\ N(d[n], Trying(n, p)) # 0 => type = "TRYMAPSWITCH"
<1>1. /\ Aloof(b, d, p)
      /\ \A n \in Map : /\ Words(d, p, n) = Words(b, p, n) + (IF n = m THEN 1 ELSE 0)
                        /\ N(d[n], Late(n, p)) = N(b[n], Late(n, p))
                        /\ type # "TRYMAPSWITCH" => N(d[n], Trying(n, p)) = N(b[n], Trying(n, p))
    BY CallWords
<1>2. Aloof(box, d, p)
    BY <1>1, AloofOn
<1>3. \A n \in Map : N(b[n], Trying(n, p)) = 0
    BY NotTrying
<1>4. ASSUME NEW n \in Map
      PROVE  /\ Words(d, p, n) = (IF n = m THEN 1 ELSE 0)
             /\ N(d[n], Late(n, p)) = N(b[n], Late(n, p))
             /\ N(d[n], Trying(n, p)) # 0 => type = "TRYMAPSWITCH"
    <2> DEFINE u == Words(d, p, n)  v == Words(b, p, n)
    <2>1. u = v + (IF n = m THEN 1 ELSE 0) /\ v = 0
        BY <1>1
    <2>2. u = IF n = m THEN 1 ELSE 0
        <3> HIDE DEF u, v
        <3> QED
            BY <2>1
    <2> QED
        BY <1>1, <1>3, <2>2
<1> QED
    BY <1>2, <1>4

LEMMA GoOnTalks ==
    ASSUME TalkInv, NEW p \in Player, \A q \in Player \ {p} : player'[q] = player[q], UNCHANGED map,
           NEW m \in Map, Aloof(box, box', p),
           \A n \in Map : Words(box', p, n) = (IF n = m THEN 1 ELSE 0),
           \A n \in Map : N(box'[n], Trying(n, p)) # 0 => player'[p].step = "try",
           \/ player'[p].step = "try" /\ player'[p].to = m
           \/ player'[p].step = "leave" /\ player'[p].at = m
           \/ player'[p].step = "left" /\ player'[p].at = player'[p].to,
           \A n \in Map : map[n].lock = p => Holds(p, n)'
    PROVE  TalkInv'
<1>1. Speaks(p, m)'
    BY DEF Speaks
<1>2. Talks(p)'
    BY <1>1 DEF Talks
<1>3. Locks(p)'
    BY DEF Locks
<1>4. \A n \in Map : map'[n].lock \in {map[n].lock, None, p}
    OBVIOUS
<1> QED
    BY <1>2, <1>3, <1>4, AloofKeeps

LEMMA SwitchLoadedTalks ==
    ASSUME IInv, TalkInv, NEW p \in Player, SwitchLoaded(p)
    PROVE  TalkInv'
<1>1. /\ Got(p) /\ Top(p).type = "LOADED" /\ p \in Actor /\ p \in Client /\ TypeOK /\ MailInv
      /\ player \in [Player -> Traveller] /\ player[p] \in Traveller /\ UNCHANGED map
    BY Typed, Actors DEF SwitchLoaded, PlayerUnchanged, IInv, Client
<1>2. PICK m \in Map : Top(p).map = m /\ Top(p).by = p /\ Top(p).flag = TRUE /\ F(box, p, "LOADED", m, p) # 0
    <2>1. Top(p) \in For(p) /\ Top(p).map \in Map /\ F(box, p, "LOADED", Top(p).map, Top(p).by) # 0
        BY <1>1, Handled
    <2>2. Top(p).by = p /\ Top(p).flag = TRUE
        BY <1>1, <2>1, Actors DEF For, ForPlayer
    <2> QED
        BY <2>1, <2>2
<1>3. player[p].step = "load" /\ player[p].to = m
    <2>1. Wants(p, m)
        BY <1>1, <1>2, Requested
    <2> QED
        BY <2>1, Actors DEF Wants
<1> DEFINE traveller == [player[p] EXCEPT !.step = "try"]
           b == Take(p)
<1>4. /\ player' = [player EXCEPT ![p] = traveller] /\ traveller \in Traveller
      /\ traveller.step = "try" /\ traveller.to = m
    <2>1. player' = [player EXCEPT ![p].step = "try"]
        BY <1>2 DEF SwitchLoaded
    <2> QED
        BY <1>1, <1>3, <2>1 DEF Traveller
<1>5. b \in Mailboxes /\ Hush(Spoken, box, b)
    <2>1. Top(p) \notin Spoken /\ box \in Mailboxes
        BY <1>1 DEF Spoken, Talk, MailInv, Fit
    <2> QED
        BY <1>1, <2>1, HushTake
<1>6. box' = Call(b, map, m, Msg("TRYMAPSWITCH", m, p, TRUE))
    BY <1>2, <1>3 DEF SwitchLoaded
<1>7. Aloof(box, b, p)
    <2>1. box \in Mailboxes
        BY <1>1 DEF MailInv, Fit
    <2> QED
        BY <1>1, <1>2, <2>1, AloofTake
<1> HIDE DEF traveller, b
<1>8. ASSUME NEW n \in Map
      PROVE  Words(b, p, n) = 0 /\ (map[n].lock = p => N(b[n], Late(n, p)) # 0)
    <2>1. n \in Actor /\ p \in Actor
        BY Actors
    <2>2. Words(b, p, n) = Words(box, p, n) /\ N(b[n], Late(n, p)) = N(box[n], Late(n, p))
        BY <1>5, <2>1, SpokenAre DEF Hush, Words
    <2>3. Words(box, p, n) = 0 /\ (map[n].lock = p => N(box[n], Late(n, p)) # 0)
        BY <1>3 DEF TalkInv, Talks, Locks, Holds
    <2> QED
        BY <2>2, <2>3
<1>9. player'[p] = traveller /\ \A q \in Player \ {p} : player'[q] = player[q]
    BY <1>1, <1>4, OnePlayer
<1> DEFINE d == Call(b, map, m, Msg("TRYMAPSWITCH", m, p, TRUE))
<1>10. /\ Aloof(box, d, p)
       /\ \A n \in Map : /\ Words(d, p, n) = (IF n = m THEN 1 ELSE 0)
                         /\ N(d[n], Late(n, p)) = N(b[n], Late(n, p))
    <2>1. PICK type \in {"TRYMAPSWITCH", "TRYLEAVE", "LEAVEOK"}, flag \in BOOLEAN : type = "TRYMAPSWITCH" /\ flag = TRUE
        OBVIOUS
    <2>2. d = Call(b, map, m, Msg(type, m, p, flag))
        BY <2>1
    <2> HIDE DEF d
    <2> QED
        BY <1>5, <1>7, <1>8, <2>2, SayWords
<1> HIDE DEF d
<1>11. box' = d
    BY <1>6 DEF d
<1>12. \A n \in Map : map[n].lock = p => Holds(p, n)'
    BY <1>8, <1>10, <1>11 DEF Holds
<1>13. player'[p].step = "try" /\ player'[p].to = m
    BY <1>4, <1>9
<1> QED
    BY <1>1, <1>9, <1>10, <1>11, <1>12, <1>13, GoOnTalks

\* p tells the map that it was to enter that it stays.
LEMMA ErrorWords ==
    ASSUME IInv, TalkInv, NEW p \in Player, Got(p), Top(p).type \in {"ALLOW", "BAD", "FINISHLEAVE"},
           NEW m \in Map, m = player[p].to, NEW flag \in BOOLEAN, NEW type \in {"SWITCHOK", "SWITCHERROR"},
           NEW d, d = Call(Take(p), map, m, Msg(type, m, p, flag))
    PROVE  /\ d \in Mailboxes /\ Aloof(box, d, p)
           /\ \A n \in Map : Words(d, p, n) = 0 /\ (map[n].lock = p => N(d[n], Late(n, p)) # 0)
<1> DEFINE b == Take(p)
<1>1. /\ b \in Mailboxes /\ Aloof(box, b, p)
      /\ \A n \in Map : /\ Words(b, p, n) = 0
                        /\ map[n].lock = p => Live(n) /\ (N(b[n], Late(n, p)) # 0 \/ player[p].to = n)
    BY HeardOut
<1>2. d = Call(b, map, m, Msg(type, m, p, flag))
    OBVIOUS
<1> HIDE DEF b
<1>3. /\ d \in Mailboxes /\ Aloof(b, d, p)
      /\ \A n \in Map : /\ Words(d, p, n) = Words(b, p, n)
                        /\ N(b[n], Late(n, p)) # 0 => N(d[n], Late(n, p)) # 0
      /\ Live(m) => N(d[m], Late(m, p)) # 0
    BY <1>1, <1>2, CallLate
<1>4. Aloof(box, d, p)
    BY <1>1, <1>3, AloofOn
<1> QED
    BY <1>1, <1>3, <1>4

LEMMA SwitchErrorTalks ==
    ASSUME IInv, TalkInv, NEW p \in Player, Got(p), Top(p).type \in {"ALLOW", "BAD", "FINISHLEAVE"},
           End(SwitchError(p, Take(p)), p, player[p].at, FALSE), UNCHANGED map
    PROVE  TalkInv'
<1>1. player[p].to \in Map /\ player[p].at \in Map
    BY Typed DEF IInv, Traveller
<1>2. PICK m \in Map, at \in Map, flag \in BOOLEAN, type \in {"SWITCHOK", "SWITCHERROR"} :
          m = player[p].to /\ at = player[p].at /\ flag = FALSE /\ type = "SWITCHERROR"
    BY <1>1
<1> DEFINE d == Call(Take(p), map, m, Msg(type, m, p, flag))
<1>3. d = SwitchError(p, Take(p))
    BY <1>2 DEF SwitchError
<1>4. End(d, p, at, flag)
    BY <1>2, <1>3
<1>5. d = Call(Take(p), map, m, Msg(type, m, p, flag))
    OBVIOUS
<1> HIDE DEF d
<1>6. /\ d \in Mailboxes /\ Aloof(box, d, p)
      /\ \A n \in Map : Words(d, p, n) = 0 /\ (map[n].lock = p => N(d[n], Late(n, p)) # 0)
    BY <1>2, <1>5, ErrorWords
<1> QED
    BY <1>4, <1>6, EndTalks

LEMMA SwitchAllowedTalks ==
    ASSUME IInv, TalkInv, NEW p \in Player, SwitchAllowed(p)
    PROVE  TalkInv'
<1>1. /\ Got(p) /\ Top(p).type \in {"ALLOW", "BAD"} /\ player[p].step = "try" /\ UNCHANGED map /\ TypeOK
      /\ player \in [Player -> Traveller] /\ player[p] \in Traveller
    BY Typed DEF SwitchAllowed, PlayerUnchanged, IInv
<1>2. PICK at \in Map : at = player[p].at
    BY <1>1 DEF Traveller
<1>3. PICK b \in Mailboxes : b = Take(p)
    BY <1>1, HeardOut
<1>4. /\ Aloof(box, b, p)
      /\ \A n \in Map : Words(b, p, n) = 0
      /\ \A n \in Map : map[n].lock = p => \/ N(b[n], Late(n, p)) # 0
                                           \/ player[p].to = n /\ Top(p).type = "ALLOW"
    BY <1>1, <1>3, HeardOut
<1>5. CASE Top(p).type = "BAD"
    <2>1. PICK flag \in BOOLEAN : End(b, p, at, flag)
        BY <1>2, <1>3, <1>5 DEF SwitchAllowed
    <2>2. \A n \in Map : Words(b, p, n) = 0 /\ (map[n].lock = p => N(b[n], Late(n, p)) # 0)
        BY <1>4, <1>5
    <2> QED
        BY <1>1, <1>4, <2>1, <2>2, EndTalks
<1>6. CASE Top(p).type # "BAD" /\ player[p].dead
    <2>1. End(SwitchError(p, Take(p)), p, player[p].at, FALSE)
        BY <1>6 DEF SwitchAllowed
    <2> QED
        BY <1>1, <2>1, SwitchErrorTalks
<1>7. CASE Top(p).type # "BAD" /\ ~player[p].dead
    <2> DEFINE traveller == [player[p] EXCEPT !.step = "leave"]
    <2>1. /\ player' = [player EXCEPT ![p].step = "leave"]
          /\ box' = Call(b, map, at, Msg("TRYLEAVE", at, p, TRUE))
        BY <1>2, <1>3, <1>7 DEF SwitchAllowed
    <2>2. /\ player' = [player EXCEPT ![p] = traveller] /\ traveller \in Traveller
          /\ traveller.step = "leave" /\ traveller.at = at /\ traveller.to = player[p].to
        BY <1>1, <1>2, <2>1 DEF Traveller
    <2> HIDE DEF traveller
    <2>3. player'[p] = traveller /\ \A q \in Player \ {p} : player'[q] = player[q]
        BY <1>1, <2>2, OnePlayer
    <2> DEFINE d == Call(b, map, at, Msg("TRYLEAVE", at, p, TRUE))
    <2>4. /\ Aloof(box, d, p)
          /\ \A n \in Map : /\ Words(d, p, n) = (IF n = at THEN 1 ELSE 0)
                            /\ N(d[n], Late(n, p)) = N(b[n], Late(n, p)) /\ N(d[n], Trying(n, p)) = 0
        <3>1. PICK type \in {"TRYMAPSWITCH", "TRYLEAVE", "LEAVEOK"}, flag \in BOOLEAN : type = "TRYLEAVE" /\ flag = TRUE
            OBVIOUS
        <3>2. d = Call(b, map, at, Msg(type, at, p, flag))
            BY <3>1
        <3> HIDE DEF d
        <3>3. /\ Aloof(box, d, p)
              /\ \A n \in Map : /\ Words(d, p, n) = (IF n = at THEN 1 ELSE 0)
                                /\ N(d[n], Late(n, p)) = N(b[n], Late(n, p))
                                /\ N(d[n], Trying(n, p)) # 0 => type = "TRYMAPSWITCH"
            BY <1>4, <3>2, SayWords
        <3> QED
            BY <3>1, <3>3
    <2> HIDE DEF d
    <2>5. box' = d
        BY <2>1 DEF d
    <2>6. \A n \in Map : map[n].lock = p => Holds(p, n)'
        BY <1>4, <2>2, <2>3, <2>4, <2>5 DEF Holds
    <2>7. player'[p].step = "leave" /\ player'[p].at = at
        BY <2>2, <2>3
    <2> QED
        BY <1>1, <2>3, <2>4, <2>5, <2>6, <2>7, GoOnTalks
<1> QED
    BY <1>5, <1>6, <1>7

LEMMA LeaveAllowedTalks ==
    ASSUME IInv, TalkInv, NEW p \in Player, LeaveAllowed(p)
    PROVE  TalkInv'
<1>1. /\ Got(p) /\ Top(p).type \in {"ALLOW", "BAD"} /\ player[p].step = "leave" /\ UNCHANGED map /\ TypeOK
      /\ player \in [Player -> Traveller] /\ player[p] \in Traveller
    BY Typed DEF LeaveAllowed, PlayerUnchanged, IInv
<1>2. CASE Top(p).type = "BAD" \/ player[p].dead
    <2>1. End(SwitchError(p, Take(p)), p, player[p].at, FALSE)
        BY <1>2 DEF LeaveAllowed
    <2> QED
        BY <1>1, <2>1, SwitchErrorTalks
<1>3. CASE ~(Top(p).type = "BAD" \/ player[p].dead)
    <2>1. PICK at \in Map : at = player[p].at
        BY <1>1 DEF Traveller
    <2> DEFINE traveller == [player[p] EXCEPT !.step = "left", !.at = player[p].to]
               b == Take(p)
    <2>2. /\ b \in Mailboxes /\ Aloof(box, b, p)
          /\ \A n \in Map : Words(b, p, n) = 0
          /\ \A n \in Map : map[n].lock = p => N(b[n], Late(n, p)) # 0 \/ player[p].to = n
        BY <1>1, HeardOut
    <2>3. /\ player' = [player EXCEPT ![p].step = "left", ![p].at = player[p].to]
          /\ box' = Call(b, map, at, Msg("LEAVEOK", at, p, TRUE))
        BY <1>3, <2>1 DEF LeaveAllowed
    <2>4. /\ player' = [player EXCEPT ![p] = traveller] /\ traveller \in Traveller
          /\ traveller.step = "left" /\ traveller.at = traveller.to /\ traveller.to = player[p].to
        BY <1>1, <2>3 DEF Traveller
    <2> HIDE DEF traveller, b
    <2>5. player'[p] = traveller /\ \A q \in Player \ {p} : player'[q] = player[q]
        BY <1>1, <2>4, OnePlayer
    <2> DEFINE d == Call(b, map, at, Msg("LEAVEOK", at, p, TRUE))
    <2>6. /\ Aloof(box, d, p)
          /\ \A n \in Map : /\ Words(d, p, n) = (IF n = at THEN 1 ELSE 0)
                            /\ N(d[n], Late(n, p)) = N(b[n], Late(n, p)) /\ N(d[n], Trying(n, p)) = 0
        <3>1. PICK type \in {"TRYMAPSWITCH", "TRYLEAVE", "LEAVEOK"}, flag \in BOOLEAN : type = "LEAVEOK" /\ flag = TRUE
            OBVIOUS
        <3>2. d = Call(b, map, at, Msg(type, at, p, flag))
            BY <3>1
        <3> HIDE DEF d
        <3>3. /\ Aloof(box, d, p)
              /\ \A n \in Map : /\ Words(d, p, n) = (IF n = at THEN 1 ELSE 0)
                                /\ N(d[n], Late(n, p)) = N(b[n], Late(n, p))
                                /\ N(d[n], Trying(n, p)) # 0 => type = "TRYMAPSWITCH"
            BY <2>2, <3>2, SayWords
        <3> QED
            BY <3>1, <3>3
    <2> HIDE DEF d
    <2>7. box' = d
        BY <2>3 DEF d
    <2>8. \A n \in Map : map[n].lock = p => Holds(p, n)'
        BY <2>2, <2>4, <2>5, <2>6, <2>7 DEF Holds
    <2>9. player'[p].step = "left" /\ player'[p].at = player'[p].to
        BY <2>4, <2>5
    <2> QED
        BY <1>1, <2>5, <2>6, <2>7, <2>8, <2>9, GoOnTalks
<1> QED
    BY <1>2, <1>3

LEMMA LeftTalks ==
    ASSUME IInv, TalkInv, NEW p \in Player, Left(p)
    PROVE  TalkInv'
<1>1. Got(p) /\ Top(p).type \in {"ALLOW", "BAD", "FINISHLEAVE"} /\ UNCHANGED map
    BY DEF Left, PlayerUnchanged
<1>2. player[p].to = player[p].at /\ player[p].to \in Map
    <2>1. player[p].step = "left" /\ player[p].to \in Map
        BY Typed DEF Left, IInv, Traveller
    <2> QED
        BY <1>1, <2>1, HeardOut
<1>3. PICK at \in Map, flag \in BOOLEAN, type \in {"SWITCHOK", "SWITCHERROR"} :
          at = player[p].to /\ flag = TRUE /\ type = "SWITCHOK"
    BY <1>2
<1> DEFINE d == Call(Take(p), map, at, Msg(type, at, p, flag))
<1>4. End(d, p, at, flag)
    BY <1>2, <1>3 DEF Left
<1>5. d = Call(Take(p), map, at, Msg(type, at, p, flag))
    OBVIOUS
<1> HIDE DEF d
<1>6. at = player[p].to
    BY <1>3
<1>7. /\ d \in Mailboxes /\ Aloof(box, d, p)
      /\ \A n \in Map : Words(d, p, n) = 0 /\ (map[n].lock = p => N(d[n], Late(n, p)) # 0)
    BY <1>1, <1>5, <1>6, ErrorWords
<1> QED
    BY <1>1, <1>4, <1>7, EndTalks

-----------------------------------------------------------------------------
(* The start, every step, and what is left when nothing is under way.       *)

LEMMA StartTalks ==
    ASSUME Init
    PROVE  TalkInv
<1>1. /\ box = [a \in Actor |-> <<>>]
      /\ player = [p \in Player |-> [at |-> Home, to |-> Home, step |-> "idle", for |-> None, dead |-> FALSE, n |-> 0]]
    BY DEF Init
<1>2. ASSUME NEW p \in Player, NEW m \in Map
      PROVE  /\ Words(box, p, m) = 0 /\ N(box[m], Trying(m, p)) = 0
             /\ map[m].lock = None /\ p # None
    <2>1. p \in Actor /\ m \in Actor /\ p # None
        BY Actors
    <2>2. box[p] = <<>> /\ box[m] = <<>>
        BY <1>1, <2>1
    <2>3. map[m].lock = None
        <3>1. PICK setup \in Setups :
                  map = [n \in Map |-> IF n = Home THEN [NewMap EXCEPT !.active = TRUE, !.grid = Player]
                                       ELSE IF n \in setup.loaded THEN [NewMap EXCEPT !.active = TRUE]
                                       ELSE NoMap]
            BY DEF Init
        <3>2. \/ map[m] = [NewMap EXCEPT !.active = TRUE, !.grid = Player]
              \/ map[m] = [NewMap EXCEPT !.active = TRUE]
              \/ map[m] = NoMap
            BY <3>1
        <3>3. NoMap \in [state : {"none"}, active : {FALSE}, closing : {None}, todo : {<<>>}, waiting : {<<>>},
                         grid : {{}}, lock : {None}]
            BY DEF NoMap
        <3>4. NewMap \in [state : {"live"}, active : {FALSE}, closing : {None}, todo : {<<>>}, waiting : {<<>>},
                          grid : {{}}, lock : {None}]
            BY <3>3 DEF NewMap
        <3> QED
            BY <3>2, <3>3, <3>4
    <2> QED
        BY <2>1, <2>2, <2>3, CountEmpty DEF Words
<1>3. \A p \in Player : player[p].step = "idle"
    BY <1>1
<1> QED
    BY <1>2, <1>3 DEF TalkInv, Talks, Locks

\* A step of the cores, of a map that is made or of a script.
CalmStep ==
    \/ CoreStep \/ PeerStep
    \/ \E m \in Map : Activate(m) \/ WaitActivated(m) \/ CloseMap(m) \/ Erase(m)
    \/ \E s \in Script : ScriptStep(s)
    \/ \E p \in Player : Switch(p) \/ Die(p)

LEMMA CalmSteps ==
    ASSUME IInv, CalmStep
    PROVE  /\ Calm(Spoken \cup Replies)
           /\ ~(CoreLoadMap \/ CoreLoaded) => Calm(Heard)
<1>1. Calm(Heard) => Calm(Spoken \cup Replies)
    BY SilentLess, HeardIs DEF Calm
<1>2. CASE CoreLoadMap \/ CoreLoaded
    BY <1>2, CoreLoadMapSilent, CoreLoadedSilent
<1>3. CASE CoreActivated \/ CoreCloseMap \/ CoreClosed
    BY <1>1, <1>3, CoreActivatedSilent, CoreCloseMapSilent, CoreClosedSilent
<1>4. CASE PeerStep
    BY <1>1, <1>4, PeerLoadMapSilent, PeerActivatedSilent, PeerCloseMapSilent, PeerClosedSilent DEF PeerStep
<1>5. ASSUME NEW m \in Map, Activate(m) \/ WaitActivated(m) \/ CloseMap(m) \/ Erase(m)
      PROVE  Calm(Heard)
    BY <1>5, ActivateSilent, WaitActivatedSilent, CloseMapSilent, EraseSilent
<1>6. ASSUME NEW s \in Script, ScriptStep(s)
      PROVE  Calm(Heard)
    BY <1>6, ScriptSilent
<1>7. ASSUME NEW p \in Player, Switch(p) \/ Die(p)
      PROVE  Calm(Heard)
    BY <1>7, SwitchSilent, DieSilent
<1> QED
    BY <1>1, <1>2, <1>3, <1>4, <1>5, <1>6, <1>7 DEF CalmStep, CoreStep

LEMMA CalmTalks ==
    ASSUME IInv, TalkInv, CalmStep
    PROVE  TalkInv'
<1>1. Silent(Spoken \cup Replies)
    BY CalmSteps DEF Calm
<1> QED
    BY <1>1, SilentLess, SilentKeeps

LEMMA TriggeredTalks ==
    ASSUME IInv, TalkInv, NEW p \in Player, Triggered(p)
    PROVE  TalkInv'
<1>1. Silent(Spoken \cup Loads)
    BY TriggeredSilent DEF Calm
<1> QED
    BY <1>1, SilentLess, SilentKeeps

LEMMA NextTalks ==
    ASSUME IInv, TalkInv, Next
    PROVE  TalkInv'
<1>1. CASE CalmStep
    BY <1>1, CalmTalks
<1>2. ASSUME NEW m \in Map, MapStep(m)
      PROVE  CalmStep \/ TalkInv'
    <2>1. CASE ExitLoaded(m) \/ Evacuated(m)
        BY <2>1, ExitLoadedTalks, EvacuatedTalks
    <2>2. CASE TryMapSwitch(m) \/ SwitchDone(m) \/ TryLeave(m) \/ LeaveOK(m)
        BY <2>2, TryMapSwitchTalks, SwitchDoneTalks, TryLeaveTalks, LeaveOKTalks
    <2> QED
        BY <1>2, <2>1, <2>2 DEF MapStep, CalmStep
<1>3. ASSUME NEW p \in Player, PlayerAnswered(p)
      PROVE  TalkInv'
    BY <1>3, TriggeredTalks, SwitchLoadedTalks, SwitchAllowedTalks, LeaveAllowedTalks, LeftTalks DEF PlayerAnswered
<1> QED
    BY <1>1, <1>2, <1>3 DEF Next, Server, CalmStep

LEMMA StutterTalks ==
    ASSUME TalkInv, UNCHANGED vars
    PROVE  TalkInv'
<1>1. UNCHANGED <<map, box, player, seen>>
    BY DEF vars
<1> QED
    BY <1>1, StrayTalks

(* A player has one word with one map under way while it switches, and none *)
(* otherwise; who has the cell of a map locked still has something to tell  *)
(* it (on_AM_TRYMAPSWITCH suspends until the player answers).               *)
THEOREM SwitchesTalk == Spec => []TalkInv
<1>1. Init => TalkInv
    BY StartTalks
<1>2. IInv /\ TalkInv /\ [Next]_vars => TalkInv'
    BY NextTalks, StutterTalks
<1> QED
    BY <1>1, <1>2, RegistryCounts, PTL DEF Spec

LEMMA Settled ==
    ASSUME IInv, TalkInv
    PROVE  NobodyForgotten
<1> SUFFICES ASSUME \A a \in Actor : box[a] = <<>>,
                    \A m \in Map : map[m].state = "none" \/ (map[m].state = "live" /\ map[m].active)
             PROVE  /\ \A s \in Script : script[s].op = "idle"
                    /\ \A p \in Player : player[p].step = "idle"
                    /\ \A m \in Map : loadOp[m] = <<>> /\ closeOp[m] = <<>> /\ map[m].lock = None
    BY DEF NobodyForgotten
<1>1. \A c \in Actor : \A t, m, r : F(box, c, t, m, r) = 0
    BY CountEmpty DEF F
<1>2. \A m \in Map : map[m].waiting = <<>> /\ (map[m].todo # <<>> => Live(m)) /\ \A r : Waits(m, r) = 0
    <2> SUFFICES ASSUME NEW m \in Map
                 PROVE  map[m].waiting = <<>> /\ (map[m].todo # <<>> => Live(m)) /\ \A r : Waits(m, r) = 0
        OBVIOUS
    <2>1. State(m) /\ map[m].active \in BOOLEAN
        BY Typed DEF IInv, RegistryInv, MapActor
    <2>2. map[m].waiting = <<>> /\ (map[m].todo # <<>> => Live(m))
        BY <2>1 DEF State, Bare, Live
    <2> QED
        BY <2>2, CountEmpty DEF Waits
<1>3. \A m \in Map : loadOp[m] = <<>>
    <2> SUFFICES ASSUME NEW m \in Map PROVE loadOp[m] = <<>>
        OBVIOUS
    <2>1. Loading(m) = 0
        BY <1>1, <1>2, Actors DEF Loading
    <2> QED
        BY <2>1 DEF IInv, RegistryInv, Chain
<1>4. \A r \in Client : \A m \in Map : ~Wants(r, m)
    <2> SUFFICES ASSUME NEW r \in Client, NEW m \in Map PROVE ~Wants(r, m)
        OBVIOUS
    <2>1. N(loadOp[m], By(r)) = 0
        BY <1>3, CountEmpty
    <2>2. Requests(r, m) = 0
        BY <1>1, <1>2, <2>1, LoadNat DEF Requests
    <2> QED
        BY <2>2, LoadNat DEF Load
<1>5. \A p \in Player : player[p].step = "idle" /\ player[p].for = None
    <2> SUFFICES ASSUME NEW p \in Player PROVE player[p].step = "idle"
        BY DEF IInv, IdleInv
    <2>1. player[p] \in Traveller /\ Talks(p)
        BY Typed DEF IInv, TalkInv
    <2>2. \A m \in Map : Words(box, p, m) = 0
        BY Actors, CountEmpty DEF Words
    <2>3. \A k \in Map : ~Speaks(p, k)
        BY <2>2 DEF Speaks
    <2>4. player[p].step \notin {"try", "leave", "left"}
        BY <2>1, <2>3 DEF Talks, Traveller
    <2>5. player[p].step # "load"
        <3>1. p \in Client /\ player[p].to \in Map
            BY <2>1 DEF Client, Traveller
        <3> QED
            BY <1>4, <3>1 DEF Wants
    <2> QED
        BY <2>1, <2>4, <2>5 DEF Traveller
<1>6. \A m \in Map : map[m].todo = <<>>
    <2> SUFFICES ASSUME NEW m \in Map, map[m].todo # <<>> PROVE FALSE
        OBVIOUS
    <2>1. PICK p \in Player : p = Head(map[m].todo)
        <3>1. map[m].todo \in Seq(Player)
            BY Typed DEF IInv, MapActor
        <3> QED
            BY <3>1
    <2>2. m # None
        BY Actors
    <2>3. Sent(m, p) = 0
        BY <1>1, <1>5, <2>2, SentNat DEF Sent
    <2> QED
        BY <2>1, <2>3, SentNat DEF Send
<1>7. \A m \in Map : map[m].closing = None
    <2>1. \A m \in Map : m \in Client /\ Exit \in Map
        BY Actors DEF Client
    <2> QED
        BY <1>4, <1>6, <2>1 DEF Wants
<1>8. \A m \in Map : closeOp[m] = <<>>
    <2> SUFFICES ASSUME NEW m \in Map PROVE closeOp[m] = <<>>
        OBVIOUS
    <2>1. Closing(m) = 0
        BY <1>1, <1>7, Actors DEF Closing, Gone
    <2> QED
        BY <2>1 DEF IInv, RegistryInv, Chain
<1>9. \A s \in Script : script[s].op = "idle"
    <2> SUFFICES ASSUME NEW s \in Script PROVE script[s].op = "idle"
        OBVIOUS
    <2>1. /\ script[s].op \in {"idle", "load", "close"} /\ known \subseteq Map /\ opened \subseteq Map
          /\ script[s].op = "close" => script[s].map \in known
          /\ script[s].op = "load" => script[s].map \in opened
        BY Actors DEF IInv, TypeOK, KnownInv
    <2>2. script[s].op # "load"
        <3>1. s \in Client
            BY DEF Client
        <3> QED
            BY <1>4, <2>1, <3>1 DEF Wants
    <2>3. script[s].op # "close"
        <3> SUFFICES ASSUME script[s].op = "close" PROVE FALSE
            OBVIOUS
        <3>1. PICK m \in Map : m = script[s].map
            BY <2>1
        <3>2. N(closeOp[m], {s}) = 0
            BY <1>8, CountEmpty
        <3>3. F(box, Core, "CLOSEMAP", m, s) = 0 /\ F(box, s, "CLOSED", m, s) = 0
            BY <1>1, Actors
        <3>4. Closes(s, m) = 0
            BY <3>2, <3>3 DEF Closes
        <3>5. Close(s, m)
            BY DEF IInv, CloseInv
        <3> QED
            BY <3>1, <3>4, <3>5 DEF Close
    <2> QED
        BY <2>1, <2>2, <2>3
<1>10. \A m \in Map : map[m].lock = None
    <2> SUFFICES ASSUME NEW m \in Map, map[m].lock # None PROVE FALSE
        OBVIOUS
    <2>1. PICK p \in Player : map[m].lock = p
        BY Typed DEF IInv, MapActor
    <2>2. Holds(p, m)
        BY <2>1 DEF TalkInv, Locks
    <2>3. N(box[m], Late(m, p)) = 0
        BY Actors, CountEmpty
    <2> QED
        BY <1>5, <2>2, <2>3 DEF Holds
<1> QED
    BY <1>3, <1>5, <1>8, <1>9, <1>10

(* Every load, close and switch comes to an end: when no message and no     *)
(* actor's start or end is left to run, no script and no player waits for an*)
(* answer, no operation of the core is pending and no cell is locked        *)
(* (servicecore.cpp, peercore.cpp, servermapop.cpp, battleobject.cpp).      *)
THEOREM NobodyIsForgotten == Spec => []NobodyForgotten
<1>1. IInv /\ TalkInv => NobodyForgotten
    BY Settled
<1> QED
    BY <1>1, RegistryCounts, SwitchesTalk, PTL

-----------------------------------------------------------------------------
(* Where the players are that no closing map has let in.                    *)

Ok(m, p) == From("SWITCHOK", m, p)
Err(m, p) == From("SWITCHERROR", m, p)
Leaving(m, p) == From("TRYLEAVE", m, p)
Leaves(m, p) == From("LEAVEOK", m, p)
Bad(m, p) == From("BAD", m, p)
Told(m, p, ok) == {x \in From("SWITCHED", m, p) : x.flag = ok}

(* The cell of a map is locked as long as one thing is left to be told it.  *)
Entering(p, m) ==
    N(box[m], Late(m, p))
    + (IF player[p].step = "try" /\ player[p].to = m THEN N(box[p], Allowed(m, p)) ELSE 0)
    + (IF player[p].step \in {"leave", "left"} /\ player[p].to = m THEN 1 ELSE 0)
Enters(p, m) ==
    /\ Entering(p, m) = (IF map[m].lock = p THEN 1 ELSE 0)
    /\ N(box[m], Err(m, p)) # 0 => player[p].at # m
    /\ N(box[m], Ok(m, p)) # 0 => player[p].at = m

(* Who is in the grid of a map is on it, or has just left it for another.   *)
Stays(p, m) ==
    /\ p \in map[m].grid =>
        /\ map[m].lock # p
        /\ map[m].todo # <<>> => \E i \in DOMAIN map[m].todo : map[m].todo[i] = p
        /\ N(box[m], Told(m, p, TRUE)) = 0
        /\ IF player[p].step = "left" THEN N(box[m], Leaves(m, p)) # 0 ELSE player[p].at = m
    /\ N(box[m], Leaves(m, p)) # 0 => p \in map[m].grid
Place(p) ==
    /\ player[p].step # "left" => p \in map[player[p].at].grid \/ map[player[p].at].lock = p
    /\ player[p].step = "leave" /\ N(box[p], Allowed(player[p].at, p)) # 0 => p \in map[player[p].at].grid
Where(p) == (\A m \in Map : Enters(p, m) /\ Stays(p, m)) /\ Place(p)

(* Of every player and map.                                                 *)
Course(p) ==
    /\ player[p].step \in {"load", "try", "leave"} => player[p].to # player[p].at
    /\ \A m \in Map : /\ N(box[m], Leaving(m, p)) # 0 => player[p].step = "leave"
                      /\ N(box[m], Leaves(m, p)) # 0 => player[p].step = "left"
Noted(m) == map[m].todo # <<>> => map[m].lock \in seen \cup {None}
WhereInv ==
    /\ \A p \in Player : Course(p) /\ (p \notin seen => Where(p))
    /\ \A m \in Map : Noted(m)

Heeded(q) == {x \in Message :
    x.by = q /\ x.type \in {"ALLOW", "SWITCHOK", "SWITCHERROR", "TRYLEAVE", "LEAVEOK", "SWITCHED"}}
Fares(q) == Course(q) /\ (q \notin seen => Where(q))

LEMMA HeededAre ==
    ASSUME NEW q \in Player
    PROVE  /\ \A m : /\ Late(m, q) \in SUBSET Heeded(q) /\ Ok(m, q) \in SUBSET Heeded(q) /\ Err(m, q) \in SUBSET Heeded(q)
                     /\ Leaving(m, q) \in SUBSET Heeded(q) /\ Leaves(m, q) \in SUBSET Heeded(q)
                     /\ Allowed(m, q) \in SUBSET Heeded(q) /\ Told(m, q, TRUE) \in SUBSET Heeded(q)
           /\ Heeded(q) \in SUBSET (Spoken \cup Replies)
           /\ \A p \in Player \ {q} : Heeded(q) \in SUBSET Others(p)
<1>1. /\ \A m : /\ Late(m, q) \in SUBSET Heeded(q) /\ Ok(m, q) \in SUBSET Heeded(q) /\ Err(m, q) \in SUBSET Heeded(q)
      /\ \A m : Leaving(m, q) \in SUBSET Heeded(q) /\ Leaves(m, q) \in SUBSET Heeded(q)
      /\ \A m : Allowed(m, q) \in SUBSET Heeded(q)
    BY DEF Heeded, Late, Ok, Err, Leaving, Leaves, Allowed, From
<1>2. \A m : Told(m, q, TRUE) \in SUBSET Heeded(q)
    BY DEF Heeded, Told, From
<1>3. Heeded(q) \in SUBSET (Spoken \cup Replies)
    BY DEF Heeded, Spoken, Replies, Talk
<1>4. \A p \in Player \ {q} : Heeded(q) \in SUBSET Others(p)
    BY DEF Heeded, Others
<1> QED
    BY <1>1, <1>2, <1>3, <1>4

LEMMA SameCounts ==
    ASSUME NEW q \in Player, Hush(Heeded(q), box, box')
    PROVE  \A m \in Map :
               /\ N(box'[m], Late(m, q)) = N(box[m], Late(m, q)) /\ N(box'[q], Allowed(m, q)) = N(box[q], Allowed(m, q))
               /\ N(box'[m], Ok(m, q)) = N(box[m], Ok(m, q)) /\ N(box'[m], Err(m, q)) = N(box[m], Err(m, q))
               /\ N(box'[m], Leaving(m, q)) = N(box[m], Leaving(m, q)) /\ N(box'[m], Leaves(m, q)) = N(box[m], Leaves(m, q))
               /\ N(box'[m], Told(m, q, TRUE)) = N(box[m], Told(m, q, TRUE))
<1>1. \A c \in Actor : \A S \in SUBSET Heeded(q) : N(box'[c], S) = N(box[c], S)
    BY DEF Hush
<1> QED
    BY <1>1, HeededAre, Actors

(* A player of whom nothing is heard in a step, and who does not go on.     *)
LEMMA WhereRest ==
    ASSUME NEW q \in Player, Hush(Heeded(q), box, box'), Begins(q), seen \subseteq seen',
           \A m \in Map : /\ q \in map'[m].grid <=> q \in map[m].grid
                          /\ map'[m].lock = q <=> map[m].lock = q
                          /\ map'[m].todo = map[m].todo,
           Fares(q), player[q] \in Traveller
    PROVE  Fares(q)'
<1>1. \A m \in Map :
          /\ N(box'[m], Late(m, q)) = N(box[m], Late(m, q)) /\ N(box'[q], Allowed(m, q)) = N(box[q], Allowed(m, q))
          /\ N(box'[m], Ok(m, q)) = N(box[m], Ok(m, q)) /\ N(box'[m], Err(m, q)) = N(box[m], Err(m, q))
          /\ N(box'[m], Leaving(m, q)) = N(box[m], Leaving(m, q)) /\ N(box'[m], Leaves(m, q)) = N(box[m], Leaves(m, q))
          /\ N(box'[m], Told(m, q, TRUE)) = N(box[m], Told(m, q, TRUE))
    BY SameCounts
<1>2. /\ player'[q].at = player[q].at
      /\ \/ player'[q].step = player[q].step /\ player'[q].to = player[q].to
         \/ /\ player[q].step \in {"idle", "load"} /\ player'[q].step \in {"idle", "load"}
            /\ player'[q].step = "load" => player'[q].to # player'[q].at
    BY DEF Begins
<1>3. Course(q)'
    BY <1>1, <1>2 DEF Fares, Course
<1>4. ASSUME Where(q), NEW m \in Map PROVE Enters(q, m)' /\ Stays(q, m)'
    <2>1. Enters(q, m) /\ Stays(q, m)
        BY <1>4 DEF Where
    <2>2. Entering(q, m)' = Entering(q, m)
        BY <1>1, <1>2 DEF Entering
    <2>3. Enters(q, m)'
        BY <1>1, <1>2, <2>1, <2>2 DEF Enters
    <2>4. player'[q].step = "left" <=> player[q].step = "left"
        BY <1>2
    <2>5. Stays(q, m)'
        BY <1>1, <1>2, <2>1, <2>4 DEF Stays
    <2> QED
        BY <2>3, <2>5
<1>5. ASSUME Where(q) PROVE Place(q)'
    <2>1. Place(q) /\ player[q].at \in Map
        BY <1>5 DEF Where, Traveller
    <2>2. (player'[q].step = "left" <=> player[q].step = "left") /\ (player'[q].step = "leave" <=> player[q].step = "leave")
        BY <1>2
    <2> QED
        BY <1>1, <1>2, <2>1, <2>2 DEF Place
<1>6. Where(q) => Where(q)'
    BY <1>4, <1>5 DEF Where
<1> QED
    BY <1>3, <1>6 DEF Fares

LEMMA CalmWhere ==
    ASSUME TypeOK, WhereInv, Calm(Spoken \cup Replies)
    PROVE  WhereInv'
<1>1. ASSUME NEW q \in Player PROVE Fares(q)'
    <2>1. Hush(Heeded(q), box, box')
        BY HeededAre, HushLess DEF Calm, Silent
    <2>2. \A m \in Map : map'[m].lock = map[m].lock /\ map'[m].grid = map[m].grid /\ map'[m].todo = map[m].todo
        BY DEF Calm, Silent
    <2>3. Begins(q) /\ seen \subseteq seen' /\ Fares(q)
        BY DEF Calm, Silent, WhereInv, Fares
    <2>4. player[q] \in Traveller
        BY Typed
    <2> QED
        BY <2>1, <2>2, <2>3, <2>4, WhereRest
<1>2. ASSUME NEW m \in Map PROVE Noted(m)'
    BY DEF Calm, Silent, WhereInv, Noted
<1> QED
    BY <1>1, <1>2 DEF WhereInv, Fares

(* A step that is only about p, for the others.                             *)
LEMMA AloofWhere ==
    ASSUME TypeOK, WhereInv, NEW p \in Player, Aloof(box, box', p),
           \A q \in Player \ {p} : player'[q] = player[q],
           \A m \in Map : /\ \A q \in Player \ {p} : /\ q \in map'[m].grid <=> q \in map[m].grid
                                                     /\ map'[m].lock = q <=> map[m].lock = q
                          /\ map'[m].todo = map[m].todo,
           seen \subseteq seen', Fares(p)', \A m \in Map : Noted(m)'
    PROVE  WhereInv'
<1>1. ASSUME NEW q \in Player \ {p} PROVE Fares(q)'
    <2>1. Hush(Heeded(q), box, box')
        <3>1. Heeded(q) \in SUBSET Others(p)
            BY HeededAre
        <3> QED
            BY <3>1, HushLess DEF Aloof
    <2>2. Begins(q)
        BY DEF Begins
    <2>3. Fares(q) /\ player[q] \in Traveller
        BY Typed DEF WhereInv, Fares
    <2>4. \A m \in Map : /\ q \in map'[m].grid <=> q \in map[m].grid
                         /\ map'[m].lock = q <=> map[m].lock = q
                         /\ map'[m].todo = map[m].todo
        OBVIOUS
    <2> QED
        BY <2>1, <2>2, <2>3, <2>4, WhereRest
<1>2. \A q \in Player : Fares(q)'
    BY <1>1
<1> QED
    BY <1>2 DEF WhereInv, Fares

\* A message is taken and another one is put.
LEMMA PassCount ==
    ASSUME box \in Mailboxes, NEW a \in Actor, Got(a), NEW to \in Actor, NEW y \in Message, NEW d, d = Put(Take(a), to, y)
    PROVE  /\ d \in Mailboxes /\ (y.by = Top(a).by => Aloof(box, d, y.by))
           /\ \A c \in Actor : \A S :
                  /\ N(box[c], S) \in Nat /\ N(d[c], S) \in Nat
                  /\ N(d[c], S) = N(box[c], S) - (IF c = a /\ Top(a) \in S THEN 1 ELSE 0)
                                  + (IF c = to /\ y \in S THEN 1 ELSE 0)
                  /\ c = a /\ Top(a) \in S => N(box[c], S) # 0
<1> DEFINE b == Take(a)
<1>1. /\ b \in Mailboxes
      /\ \A c \in Actor : \A S : N(b[c], S) = N(box[c], S) - (IF c = a /\ Top(a) \in S THEN 1 ELSE 0)
    BY TakeCount
<1>2. d = Put(b, to, y)
    OBVIOUS
<1>3. Aloof(box, b, Top(a).by)
    BY AloofTake
<1> HIDE DEF b
<1>4. /\ Put(b, to, y) \in Mailboxes
      /\ \A c \in Actor : \A S : N(Put(b, to, y)[c], S) = N(b[c], S) + (IF c = to /\ y \in S THEN 1 ELSE 0)
    BY <1>1, PutCount
<1>5. \A c \in Actor : \A S : N(box[c], S) \in Nat /\ N(d[c], S) \in Nat
    BY <1>2, <1>4, BoxNat
<1>6. \A S : Top(a) \in S => N(box[a], S) # 0
    BY TopThere
<1>7. y.by = Top(a).by => Aloof(box, d, y.by)
    BY <1>1, <1>2, <1>3, AloofPut, AloofOn
<1>8. \A c \in Actor : \A S : N(d[c], S) = N(box[c], S) - (IF c = a /\ Top(a) \in S THEN 1 ELSE 0)
                                  + (IF c = to /\ y \in S THEN 1 ELSE 0)
    BY <1>1, <1>2, <1>4
<1> QED
    BY <1>2, <1>4, <1>5, <1>6, <1>7, <1>8

\* What a player says to a map gets there, or comes back when the map is gone.
LEMMA CallIs ==
    ASSUME NEW b \in Mailboxes, NEW p \in Player, NEW m \in Map, NEW flag \in BOOLEAN,
           NEW type \in {"TRYMAPSWITCH", "TRYLEAVE", "LEAVEOK", "SWITCHOK", "SWITCHERROR"},
           NEW d, d = Call(b, map, m, Msg(type, m, p, flag))
    PROVE  /\ Live(m) => d = Put(b, m, Msg(type, m, p, flag))
           /\ ~Live(m) /\ type \in {"TRYMAPSWITCH", "TRYLEAVE", "LEAVEOK"} => d = Put(b, p, Msg("BAD", m, p, flag))
           /\ ~Live(m) /\ type \in {"SWITCHOK", "SWITCHERROR"} => d = b
<1> DEFINE x == Msg(type, m, p, flag)
           z == [x EXCEPT !.type = "BAD"]
<1>1. x.type = type /\ x.by = p /\ z = Msg("BAD", m, p, flag) /\ p # None /\ m # None
    BY Actors DEF Msg
<1>2. CASE Live(m)
    BY <1>1, <1>2 DEF Call, Reach, Deliver, Post, Live
<1>3. CASE ~Live(m) /\ type \in {"TRYMAPSWITCH", "TRYLEAVE", "LEAVEOK"}
    <2>1. Refusal(x) = Post(p, z)
        BY <1>1, <1>3 DEF Refusal
    <2>2. d = Deliver(b, Post(p, z))
        BY <1>3, <2>1 DEF Call, Reach, Live
    <2> HIDE DEF z
    <2> QED
        BY <1>1, <1>3, <2>2 DEF Deliver, Post
<1>4. CASE ~Live(m) /\ type \in {"SWITCHOK", "SWITCHERROR"}
    <2>1. Refusal(x) = Post(None, x)
        BY <1>1, <1>4 DEF Refusal
    <2> QED
        BY <1>4, <2>1 DEF Call, Reach, Deliver, Post, Live
<1> QED
    BY <1>2, <1>3, <1>4

LEMMA Sorts ==
    ASSUME NEW x \in Message, NEW m, NEW p
    PROVE  /\ x \in Late(m, p) <=> x.type \in {"SWITCHOK", "SWITCHERROR"} /\ x.map = m /\ x.by = p
           /\ x \in Ok(m, p) <=> x.type = "SWITCHOK" /\ x.map = m /\ x.by = p
           /\ x \in Err(m, p) <=> x.type = "SWITCHERROR" /\ x.map = m /\ x.by = p
           /\ x \in Leaving(m, p) <=> x.type = "TRYLEAVE" /\ x.map = m /\ x.by = p
           /\ x \in Leaves(m, p) <=> x.type = "LEAVEOK" /\ x.map = m /\ x.by = p
           /\ x \in Allowed(m, p) <=> x.type = "ALLOW" /\ x.map = m /\ x.by = p
           /\ x \in Bad(m, p) <=> x.type = "BAD" /\ x.map = m /\ x.by = p
           /\ \A ok : x \in Told(m, p, ok) <=> x.type = "SWITCHED" /\ x.map = m /\ x.by = p /\ x.flag = ok
           /\ x \in Says(m, p) <=> x.type \in {"TRYMAPSWITCH", "TRYLEAVE", "LEAVEOK"} /\ x.map = m /\ x.by = p
           /\ x \in Hears(m, p) <=> x.type \in {"ALLOW", "BAD", "FINISHLEAVE"} /\ x.map = m /\ x.by = p
BY DEF Late, Ok, Err, Leaving, Leaves, Allowed, Bad, Told, Says, Hears, From

LEMMA TellIs ==
    ASSUME NEW type \in MsgType, NEW m \in Map, NEW p \in Player, NEW flag \in BOOLEAN
    PROVE  /\ Msg(type, m, p, flag) \in Message
           /\ Msg(type, m, p, flag).type = type /\ Msg(type, m, p, flag).map = m
           /\ Msg(type, m, p, flag).by = p /\ Msg(type, m, p, flag).flag = flag
BY Actors DEF Msg, Message

\* Ok and Err are all of Late, and what p says to a map is one of three things.
LEMMA Kinds ==
    ASSUME NEW b \in Mailboxes, NEW p \in Player, NEW m \in Map
    PROVE  /\ N(b[m], Ok(m, p)) # 0 => N(b[m], Late(m, p)) # 0
           /\ N(b[m], Err(m, p)) # 0 => N(b[m], Late(m, p)) # 0
           /\ N(b[m], Leaving(m, p)) # 0 => N(b[m], Says(m, p)) # 0
           /\ N(b[m], Leaves(m, p)) # 0 => N(b[m], Says(m, p)) # 0
           /\ N(b[p], Allowed(m, p)) # 0 => N(b[p], Hears(m, p)) # 0
           /\ N(b[p], Bad(m, p)) # 0 => N(b[p], Hears(m, p)) # 0
<1>1. \A c \in Actor : \A S, T : S \subseteq T /\ N(b[c], S) # 0 => N(b[c], T) # 0
    BY BoxNat
<1>2. /\ Ok(m, p) \subseteq Late(m, p) /\ Err(m, p) \subseteq Late(m, p)
      /\ Leaving(m, p) \subseteq Says(m, p) /\ Leaves(m, p) \subseteq Says(m, p)
      /\ Allowed(m, p) \subseteq Hears(m, p) /\ Bad(m, p) \subseteq Hears(m, p)
    BY DEF Late, Ok, Err, Leaving, Leaves, Allowed, Bad, Says, Hears, From
<1>3. m \in Actor /\ p \in Actor
    BY Actors
<1> QED
    BY <1>1, <1>2, <1>3

LEMMA FaresIs ==
    ASSUME TypeOK, WhereInv, NEW p \in Player
    PROVE  /\ Fares(p) /\ player[p] \in Traveller /\ player[p].at \in Map /\ player[p].to \in Map
BY Typed DEF WhereInv, Fares, Traveller

LEMMA TryMapSwitchWhere ==
    ASSUME IInv, TalkInv, WhereInv, NEW m \in Map, TryMapSwitch(m)
    PROVE  WhereInv'
<1>1. /\ Got(m) /\ Top(m).type = "TRYMAPSWITCH" /\ TypeOK /\ UNCHANGED player /\ box \in Mailboxes
      /\ map \in [Map -> MapActor] /\ map[m] \in MapActor /\ m \in Actor /\ RegistryInv
    BY Typed, Actors DEF TryMapSwitch, MapUnchanged, IInv, MailInv, Fit
<1>2. PICK p \in Player : Top(m).by = p /\ Top(m) \in Says(m, p) /\ Top(m) \in Message
    BY <1>1, TopSays, Handled DEF Switching
<1>3. /\ player[p].step = "try" /\ player[p].to = m
    <2>1. Top(m) \in Trying(m, p)
        BY <1>1, <1>2 DEF Says, Trying, From
    <2>2. N(box[m], Trying(m, p)) # 0 /\ N(box[m], Says(m, p)) # 0
        BY <1>1, <1>2, <2>1, TopThere
    <2>3. player[p].step = "try"
        BY <2>2 DEF TalkInv, Talks
    <2> QED
        BY <2>2, <2>3, SpeaksWith
<1>4. p \in Actor /\ p # m /\ p # None /\ p \notin Map
    BY Actors
<1>5. Fares(p) /\ player[p] \in Traveller
    BY <1>1, FaresIs
<1> DEFINE ok == map[m].lock = None
           y == Msg(IF ok THEN "ALLOW" ELSE "BAD", m, p, ok)
<1>6. /\ box' = Put(Take(m), p, y)
      /\ ok => map' = [map EXCEPT ![m].lock = p]
      /\ ~ok => UNCHANGED map
      /\ seen \subseteq seen' /\ (ok /\ map[m].closing # None => p \in seen') /\ (~ok => "locked" \in seen')
    BY <1>2 DEF TryMapSwitch
<1>7. y \in Message /\ y.map = m /\ y.by = p /\ y.type = IF ok THEN "ALLOW" ELSE "BAD"
    <2>1. PICK type \in MsgType, flag \in BOOLEAN : type = (IF ok THEN "ALLOW" ELSE "BAD") /\ flag = ok
        BY DEF MsgType
    <2>2. y = Msg(type, m, p, flag)
        BY <2>1
    <2> HIDE DEF y
    <2>3. y \in Message /\ y.map = m /\ y.by = p /\ y.type = type
        BY <2>2, TellIs
    <2> QED
        BY <2>1, <2>3
<1> HIDE DEF y
<1>8. /\ box' \in Mailboxes /\ Aloof(box, box', p)
      /\ \A c \in Actor : \A S :
             /\ N(box[c], S) \in Nat
             /\ N(box'[c], S) = N(box[c], S) - (IF c = m /\ Top(m) \in S THEN 1 ELSE 0)
                                + (IF c = p /\ y \in S THEN 1 ELSE 0)
    BY <1>1, <1>2, <1>4, <1>6, <1>7, PassCount
<1>9. \A n \in Map :
          /\ N(box'[n], Late(n, p)) = N(box[n], Late(n, p))
          /\ N(box'[n], Ok(n, p)) = N(box[n], Ok(n, p)) /\ N(box'[n], Err(n, p)) = N(box[n], Err(n, p))
          /\ N(box'[n], Leaving(n, p)) = N(box[n], Leaving(n, p)) /\ N(box'[n], Leaves(n, p)) = N(box[n], Leaves(n, p))
          /\ N(box'[n], Told(n, p, TRUE)) = N(box[n], Told(n, p, TRUE))
          /\ N(box'[p], Allowed(n, p)) = N(box[p], Allowed(n, p)) + (IF n = m /\ ok THEN 1 ELSE 0)
    <2> SUFFICES ASSUME NEW n \in Map
                 PROVE  /\ N(box'[n], Late(n, p)) = N(box[n], Late(n, p))
                        /\ N(box'[n], Ok(n, p)) = N(box[n], Ok(n, p)) /\ N(box'[n], Err(n, p)) = N(box[n], Err(n, p))
                        /\ N(box'[n], Leaving(n, p)) = N(box[n], Leaving(n, p)) /\ N(box'[n], Leaves(n, p)) = N(box[n], Leaves(n, p))
                        /\ N(box'[n], Told(n, p, TRUE)) = N(box[n], Told(n, p, TRUE))
                        /\ N(box'[p], Allowed(n, p)) = N(box[p], Allowed(n, p)) + (IF n = m /\ ok THEN 1 ELSE 0)
        OBVIOUS
    <2>1. n \in Actor /\ n # p
        BY Actors
    <2>2. /\ Top(m) \notin Late(n, p) /\ Top(m) \notin Ok(n, p) /\ Top(m) \notin Err(n, p) /\ Top(m) \notin Leaving(n, p)
          /\ Top(m) \notin Leaves(n, p) /\ Top(m) \notin Told(n, p, TRUE)
        BY <1>1, <1>2, Sorts
    <2>3. y \in Allowed(n, p) <=> n = m /\ ok
        BY <1>7, Sorts
    <2>4. \A S : Top(m) \notin S => N(box'[n], S) = N(box[n], S)
        BY <1>8, <2>1
    <2>5. \A S : N(box'[p], S) = N(box[p], S) + (IF y \in S THEN 1 ELSE 0)
        BY <1>4, <1>8
    <2> QED
        BY <2>2, <2>3, <2>4, <2>5
<1>10. \A n \in Map : /\ map'[n].grid = map[n].grid /\ map'[n].todo = map[n].todo
                      /\ map'[n].lock = IF n = m /\ ok THEN p ELSE map[n].lock
    BY <1>1, <1>6 DEF MapActor
<1> HIDE DEF ok
<1>11. Course(p)'
    BY <1>1, <1>5, <1>9 DEF Fares, Course
<1>12. ok /\ p \notin seen' => map[m].lock = None /\ map[m].closing = None /\ map[m].todo = <<>>
    BY <1>1, <1>6 DEF ok, RegistryInv, State
<1>13. ASSUME p \notin seen' PROVE Where(p)'
    <2>1. Where(p) /\ Course(p)
        BY <1>5, <1>6, <1>13 DEF Fares
    <2>2. player[p].at \in Map /\ player[p].at # m
        BY <1>3, <1>5, <2>1 DEF Course, Traveller
    <2>3. ASSUME NEW n \in Map PROVE Enters(p, n)'
        <3>1. Enters(p, n)
            BY <2>1 DEF Where
        <3>2. Entering(p, n)' = Entering(p, n) + (IF n = m /\ ok THEN 1 ELSE 0)
            <4>1. /\ N(box[n], Late(n, p)) \in Nat /\ N(box[p], Allowed(n, p)) \in Nat
                BY <1>4, <1>8, Actors
            <4>2. Entering(p, n) = N(box[n], Late(n, p)) + (IF n = m THEN N(box[p], Allowed(n, p)) ELSE 0) + 0
                BY <1>3, <4>1 DEF Entering
            <4>3. Entering(p, n)' = N(box'[n], Late(n, p)) + (IF n = m THEN N(box'[p], Allowed(n, p)) ELSE 0) + 0
                BY <1>1, <1>3 DEF Entering
            <4>4. /\ N(box'[n], Late(n, p)) = N(box[n], Late(n, p))
                  /\ N(box'[p], Allowed(n, p)) = N(box[p], Allowed(n, p)) + (IF n = m /\ ok THEN 1 ELSE 0)
                BY <1>9
            <4> QED
                BY <4>1, <4>2, <4>3, <4>4
        <3>3. Entering(p, n)' = (IF map'[n].lock = p THEN 1 ELSE 0)
            BY <1>4, <1>10, <1>12, <1>13, <3>1, <3>2 DEF Enters
        <3> QED
            BY <1>1, <1>9, <3>1, <3>3 DEF Enters
    <2>4. ASSUME NEW n \in Map PROVE Stays(p, n)'
        <3>1. Stays(p, n)
            BY <2>1 DEF Where
        <3>2. p \in map[n].grid => n # m
            BY <1>3, <2>2, <3>1 DEF Stays
        <3> QED
            BY <1>1, <1>9, <1>10, <3>1, <3>2 DEF Stays
    <2>5. Place(p)'
        BY <1>1, <1>3, <1>10, <2>1, <2>2 DEF Where, Place
    <2> QED
        BY <2>3, <2>4, <2>5 DEF Where
<1>14. Fares(p)'
    BY <1>11, <1>13 DEF Fares
<1>15. ASSUME NEW n \in Map PROVE Noted(n)'
    <2>1. Noted(n)
        BY DEF WhereInv
    <2>2. CASE n = m /\ ok
        <3>1. map[m].todo # <<>> => map[m].closing # None
            BY <1>1 DEF RegistryInv, State
        <3> QED
            BY <1>6, <1>10, <2>2, <3>1 DEF Noted
    <2>3. CASE ~(n = m /\ ok)
        BY <1>6, <1>10, <2>1, <2>3 DEF Noted
    <2> QED
        BY <2>2, <2>3
<1>16. \A n \in Map : /\ \A q \in Player \ {p} : /\ q \in map'[n].grid <=> q \in map[n].grid
                                                 /\ map'[n].lock = q <=> map[n].lock = q
                      /\ map'[n].todo = map[n].todo
    BY <1>10, Actors DEF ok
<1> QED
    BY <1>1, <1>6, <1>8, <1>14, <1>15, <1>16, AloofWhere

\* A message is taken, and none is put.
LEMMA TakenCount ==
    ASSUME box \in Mailboxes, NEW a \in Actor, Got(a), NEW d, d = Take(a)
    PROVE  /\ d \in Mailboxes /\ Aloof(box, d, Top(a).by)
           /\ \A c \in Actor : \A S :
                  /\ N(box[c], S) \in Nat /\ N(d[c], S) \in Nat
                  /\ N(d[c], S) = N(box[c], S) - (IF c = a /\ Top(a) \in S THEN 1 ELSE 0)
<1>1. /\ d \in Mailboxes
      /\ \A c \in Actor : \A S : N(d[c], S) = N(box[c], S) - (IF c = a /\ Top(a) \in S THEN 1 ELSE 0)
    BY TakeCount
<1>2. Aloof(box, d, Top(a).by)
    BY AloofTake
<1>3. \A c \in Actor : \A S : N(box[c], S) \in Nat /\ N(d[c], S) \in Nat
    BY <1>1, BoxNat
<1> QED
    BY <1>1, <1>2, <1>3

LEMMA TryLeaveWhere ==
    ASSUME IInv, TalkInv, WhereInv, NEW m \in Map, TryLeave(m)
    PROVE  WhereInv'
<1>1. /\ Got(m) /\ Top(m).type = "TRYLEAVE" /\ TypeOK /\ UNCHANGED <<player, map, seen>> /\ box \in Mailboxes /\ m \in Actor
    BY Actors DEF TryLeave, MapUnchanged, IInv, MailInv, Fit
<1>2. PICK p \in Player : Top(m).by = p /\ Top(m) \in Says(m, p) /\ Top(m) \in Message
    BY <1>1, TopSays, Handled DEF Switching
<1>3. p \in Actor /\ p # m /\ p # None /\ p \notin Map
    BY Actors
<1>4. Fares(p) /\ player[p] \in Traveller
    BY <1>1, FaresIs
<1>5. player[p].step = "leave" /\ player[p].at = m
    <2>1. Top(m) \in Leaving(m, p)
        BY <1>1, <1>2 DEF Says, Leaving, From
    <2>2. N(box[m], Leaving(m, p)) # 0 /\ N(box[m], Says(m, p)) # 0
        BY <1>1, <1>2, <2>1, TopThere
    <2>3. player[p].step = "leave"
        BY <1>4, <2>2 DEF Fares, Course
    <2> QED
        BY <2>2, <2>3, SpeaksWith
<1> DEFINE y == Msg(IF p \in map[m].grid THEN "ALLOW" ELSE "BAD", m, p, TRUE)
<1>6. box' = Put(Take(m), p, y)
    BY <1>2 DEF TryLeave
<1>7. y \in Message /\ y.map = m /\ y.by = p /\ y.type = IF p \in map[m].grid THEN "ALLOW" ELSE "BAD"
    <2>1. PICK type \in MsgType, flag \in BOOLEAN : type = (IF p \in map[m].grid THEN "ALLOW" ELSE "BAD") /\ flag = TRUE
        BY DEF MsgType
    <2>2. y = Msg(type, m, p, flag)
        BY <2>1
    <2> HIDE DEF y
    <2>3. y \in Message /\ y.map = m /\ y.by = p /\ y.type = type
        BY <2>2, TellIs
    <2> QED
        BY <2>1, <2>3
<1> HIDE DEF y
<1>8. /\ box' \in Mailboxes /\ Aloof(box, box', p)
      /\ \A c \in Actor : \A S :
             /\ N(box[c], S) \in Nat
             /\ N(box'[c], S) = N(box[c], S) - (IF c = m /\ Top(m) \in S THEN 1 ELSE 0)
                                + (IF c = p /\ y \in S THEN 1 ELSE 0)
    BY <1>1, <1>2, <1>3, <1>6, <1>7, PassCount
<1>9. ASSUME NEW n \in Map
      PROVE  /\ N(box'[n], Late(n, p)) = N(box[n], Late(n, p))
             /\ N(box'[n], Ok(n, p)) = N(box[n], Ok(n, p)) /\ N(box'[n], Err(n, p)) = N(box[n], Err(n, p))
             /\ N(box'[n], Leaves(n, p)) = N(box[n], Leaves(n, p))
             /\ N(box'[n], Told(n, p, TRUE)) = N(box[n], Told(n, p, TRUE))
    <2>1. n \in Actor /\ n # p
        BY Actors
    <2>2. /\ Top(m) \notin Late(n, p) /\ Top(m) \notin Ok(n, p) /\ Top(m) \notin Err(n, p)
          /\ Top(m) \notin Leaves(n, p) /\ Top(m) \notin Told(n, p, TRUE)
        BY <1>1, <1>2, Sorts
    <2>3. \A S : Top(m) \notin S => N(box'[n], S) = N(box[n], S)
        BY <1>8, <2>1
    <2> QED
        BY <2>2, <2>3
<1>10. \A n \in Map : N(box'[n], Leaving(n, p)) # 0 => player[p].step = "leave"
    BY <1>5
<1>11. N(box'[p], Allowed(m, p)) # 0 => N(box[p], Allowed(m, p)) # 0 \/ p \in map[m].grid
    <2>1. y \in Allowed(m, p) => p \in map[m].grid
        BY <1>7, Sorts
    <2>2. N(box'[p], Allowed(m, p)) = N(box[p], Allowed(m, p)) + (IF y \in Allowed(m, p) THEN 1 ELSE 0)
        BY <1>3, <1>8
    <2> QED
        BY <1>3, <1>8, <2>1, <2>2
<1>12. Course(p)'
    BY <1>1, <1>4, <1>9, <1>10 DEF Fares, Course
<1>13. ASSUME Where(p) PROVE Where(p)'
    <2>1. ASSUME NEW n \in Map PROVE Enters(p, n)' /\ Stays(p, n)'
        <3>1. Enters(p, n) /\ Stays(p, n)
            BY <1>13 DEF Where
        <3>2. Entering(p, n)' = Entering(p, n)
            BY <1>1, <1>5, <1>9 DEF Entering
        <3>3. Enters(p, n)'
            BY <1>1, <1>9, <3>1, <3>2 DEF Enters
        <3>4. Stays(p, n)'
            BY <1>1, <1>9, <3>1 DEF Stays
        <3> QED
            BY <3>3, <3>4
    <2>2. Place(p)'
        BY <1>1, <1>5, <1>11, <1>13 DEF Where, Place
    <2> QED
        BY <2>1, <2>2 DEF Where
<1>14. Fares(p)'
    BY <1>1, <1>4, <1>12, <1>13 DEF Fares
<1>15. \A n \in Map : Noted(n)'
    BY <1>1 DEF WhereInv, Noted
<1> QED
    BY <1>1, <1>8, <1>14, <1>15, AloofWhere

LEMMA LeaveOKWhere ==
    ASSUME IInv, TalkInv, WhereInv, NEW m \in Map, LeaveOK(m)
    PROVE  WhereInv'
<1>1. /\ Got(m) /\ Top(m).type = "LEAVEOK" /\ TypeOK /\ UNCHANGED <<player, seen>> /\ box \in Mailboxes /\ m \in Actor
      /\ map \in [Map -> MapActor] /\ map[m] \in MapActor
    BY Typed, Actors DEF LeaveOK, MapUnchanged, IInv, MailInv, Fit
<1>2. PICK p \in Player : Top(m).by = p /\ Top(m) \in Says(m, p) /\ Top(m) \in Message
    BY <1>1, TopSays, Handled DEF Switching
<1>3. p \in Actor /\ p # m /\ p # None /\ p \notin Map
    BY Actors
<1>4. Fares(p) /\ player[p] \in Traveller
    BY <1>1, FaresIs
<1>5. player[p].step = "left" /\ N(box[m], Says(m, p)) = 1 /\ Top(m) \in Leaves(m, p)
    <2>1. Top(m) \in Leaves(m, p)
        BY <1>1, <1>2 DEF Says, Leaves, From
    <2>2. N(box[m], Leaves(m, p)) # 0 /\ N(box[m], Says(m, p)) # 0
        BY <1>1, <1>2, <2>1, TopThere
    <2>3. player[p].step = "left"
        BY <1>4, <2>2 DEF Fares, Course
    <2>4. Words(box, p, m) = 1
        BY <2>2, SpeaksWith
    <2>5. N(box[m], Says(m, p)) \in Nat /\ N(box[p], Hears(m, p)) \in Nat
        BY <1>1, WordsNat
    <2> QED
        BY <2>1, <2>2, <2>3, <2>4, <2>5 DEF Words
<1>6. CASE Stray(m)
    <2>1. Calm(Spoken \cup Replies)
        BY <1>1, <1>6, StraySilent DEF Stray
    <2> QED
        BY <1>1, <2>1, CalmWhere
<1>7. CASE map' = [map EXCEPT ![m].grid = @ \ {p}] /\ box' = Put(Take(m), p, Msg("FINISHLEAVE", m, p, TRUE))
    <2>1. PICK y \in Message : box' = Put(Take(m), p, y) /\ y.map = m /\ y.by = p /\ y.type = "FINISHLEAVE"
        <3>1. PICK type \in MsgType, flag \in BOOLEAN : type = "FINISHLEAVE" /\ flag = TRUE
            BY DEF MsgType
        <3>2. box' = Put(Take(m), p, Msg(type, m, p, flag))
            BY <1>7, <3>1
        <3>3. /\ Msg(type, m, p, flag) \in Message /\ Msg(type, m, p, flag).map = m
              /\ Msg(type, m, p, flag).by = p /\ Msg(type, m, p, flag).type = type
            BY TellIs
        <3> QED
            BY <3>1, <3>2, <3>3
    <2>2. /\ box' \in Mailboxes /\ Aloof(box, box', p)
          /\ \A c \in Actor : \A S :
                 /\ N(box[c], S) \in Nat
                 /\ N(box'[c], S) = N(box[c], S) - (IF c = m /\ Top(m) \in S THEN 1 ELSE 0)
                                    + (IF c = p /\ y \in S THEN 1 ELSE 0)
        BY <1>1, <1>2, <1>3, <2>1, PassCount
    <2>3. ASSUME NEW n \in Map
          PROVE  /\ N(box'[n], Late(n, p)) = N(box[n], Late(n, p))
                 /\ N(box'[n], Ok(n, p)) = N(box[n], Ok(n, p)) /\ N(box'[n], Err(n, p)) = N(box[n], Err(n, p))
                 /\ N(box'[n], Leaving(n, p)) = N(box[n], Leaving(n, p))
                 /\ N(box'[n], Told(n, p, TRUE)) = N(box[n], Told(n, p, TRUE))
                 /\ n # m => N(box'[n], Leaves(n, p)) = N(box[n], Leaves(n, p))
                 /\ N(box'[p], Allowed(n, p)) = N(box[p], Allowed(n, p))
        <3>1. n \in Actor /\ n # p
            BY Actors
        <3>2. /\ Top(m) \notin Late(n, p) /\ Top(m) \notin Ok(n, p) /\ Top(m) \notin Err(n, p)
              /\ Top(m) \notin Leaving(n, p) /\ Top(m) \notin Told(n, p, TRUE)
            <4>1. Top(m).type = "LEAVEOK" /\ Top(m) \in Message
                BY <1>1, <1>2
            <4> QED
                BY <4>1, Sorts
        <3>6. n # m => Top(m) \notin Leaves(n, p)
            BY <1>5 DEF Leaves, From
        <3>3. y \notin Allowed(n, p)
            BY <2>1, Sorts
        <3>4. \A S : Top(m) \notin S => N(box'[n], S) = N(box[n], S)
            BY <2>2, <3>1
        <3>5. \A S : N(box'[p], S) = N(box[p], S) + (IF y \in S THEN 1 ELSE 0) /\ N(box[p], S) \in Nat
            BY <1>3, <2>2
        <3>7. N(box'[p], Allowed(n, p)) = N(box[p], Allowed(n, p))
            BY <3>3, <3>5
        <3> QED
            BY <3>2, <3>4, <3>6, <3>7
    <2>4. N(box'[m], Leaves(m, p)) = 0
        <3>1. N(box'[m], Says(m, p)) = 0
            BY <1>1, <1>2, <1>3, <1>5, <2>2
        <3> QED
            BY <2>2, <3>1, Kinds
    <2>5. \A n \in Map : /\ map'[n].lock = map[n].lock /\ map'[n].todo = map[n].todo
                         /\ map'[n].grid = IF n = m THEN map[n].grid \ {p} ELSE map[n].grid
        BY <1>1, <1>7 DEF MapActor
    <2>6. Course(p)'
        BY <1>1, <1>4, <1>5, <2>3 DEF Fares, Course
    <2>7. ASSUME Where(p) PROVE Where(p)'
        <3>1. ASSUME NEW n \in Map PROVE Enters(p, n)' /\ Stays(p, n)'
            <4>1. Enters(p, n) /\ Stays(p, n)
                BY <2>7 DEF Where
            <4>2. Entering(p, n)' = Entering(p, n)
                BY <1>1, <2>3 DEF Entering
            <4>3. Enters(p, n)'
                BY <1>1, <2>3, <2>5, <4>1, <4>2 DEF Enters
            <4>4. Stays(p, n)'
                BY <1>1, <2>3, <2>4, <2>5, <4>1 DEF Stays
            <4> QED
                BY <4>3, <4>4
        <3>2. Place(p)'
            BY <1>1, <1>5, <2>7 DEF Where, Place
        <3> QED
            BY <3>1, <3>2 DEF Where
    <2>8. Fares(p)'
        BY <1>1, <1>4, <2>6, <2>7 DEF Fares
    <2>9. \A n \in Map : Noted(n)'
        BY <1>1, <2>5 DEF WhereInv, Noted
    <2>10. \A n \in Map : /\ \A q \in Player \ {p} : /\ q \in map'[n].grid <=> q \in map[n].grid
                                                     /\ map'[n].lock = q <=> map[n].lock = q
                          /\ map'[n].todo = map[n].todo
        BY <2>5
    <2> QED
        BY <1>1, <2>2, <2>8, <2>9, <2>10, AloofWhere
<1> QED
    BY <1>2, <1>6, <1>7 DEF LeaveOK

LEMMA SwitchDoneWhere ==
    ASSUME IInv, TalkInv, WhereInv, NEW m \in Map, SwitchDone(m)
    PROVE  WhereInv'
<1>1. /\ Got(m) /\ Top(m).type \in {"SWITCHOK", "SWITCHERROR"} /\ TypeOK /\ UNCHANGED <<player, seen>>
      /\ box \in Mailboxes /\ m \in Actor /\ map \in [Map -> MapActor] /\ map[m] \in MapActor
    BY Typed, Actors DEF SwitchDone, MapUnchanged, IInv, MailInv, Fit
<1>2. PICK p \in Player : Top(m).by = p /\ Top(m) \in Late(m, p) /\ Top(m) \in Message
    BY <1>1, TopSays, Handled DEF Switching
<1>3. p \in Actor /\ p # m /\ p # None /\ p \notin Map
    BY Actors
<1>4. Fares(p) /\ player[p] \in Traveller
    BY <1>1, FaresIs
<1>5. CASE Stray(m)
    <2>1. Calm(Spoken \cup Replies)
        BY <1>1, <1>5, StraySilent DEF Stray
    <2> QED
        BY <1>1, <2>1, CalmWhere
<1>6. CASE /\ map[m].lock = p /\ box' = Take(m)
           /\ map' = [map EXCEPT ![m].lock = None, ![m].grid = IF Top(m).type = "SWITCHOK" THEN @ \cup {p} ELSE @]
    <2>0. map[m].lock = p
        BY <1>6
    <2> DEFINE ok == Top(m).type = "SWITCHOK"
    <2>1. \A n \in Map : /\ map'[n].todo = map[n].todo
                         /\ map'[n].lock = IF n = m THEN None ELSE map[n].lock
                         /\ map'[n].grid = IF n = m /\ ok THEN map[n].grid \cup {p} ELSE map[n].grid
        BY <1>1, <1>6 DEF MapActor
    <2>2. /\ box' \in Mailboxes /\ Aloof(box, box', p)
          /\ \A c \in Actor : \A S :
                 /\ N(box[c], S) \in Nat /\ N(box'[c], S) \in Nat
                 /\ N(box'[c], S) = N(box[c], S) - (IF c = m /\ Top(m) \in S THEN 1 ELSE 0)
        <3>1. PICK d : d = Take(m)
            OBVIOUS
        <3>4. Got(m) /\ m \in Actor /\ box \in Mailboxes
            BY <1>1
        <3>2. /\ d \in Mailboxes /\ Aloof(box, d, Top(m).by)
              /\ \A c \in Actor : \A S :
                     /\ N(box[c], S) \in Nat /\ N(d[c], S) \in Nat
                     /\ N(d[c], S) = N(box[c], S) - (IF c = m /\ Top(m) \in S THEN 1 ELSE 0)
            BY <3>1, <3>4, TakenCount
        <3>3. d = box'
            BY <1>6, <3>1
        <3> QED
            BY <1>2, <3>2, <3>3
    <2> HIDE DEF ok
    <2>3. \A n \in Map :
              /\ N(box'[n], Late(n, p)) = N(box[n], Late(n, p)) - (IF n = m THEN 1 ELSE 0)
              /\ N(box'[p], Allowed(n, p)) = N(box[p], Allowed(n, p))
        <3>1. \A n \in Map : Top(m) \in Late(n, p) <=> n = m
            BY <1>2 DEF Late
        <3> SUFFICES ASSUME NEW n \in Map
                     PROVE  /\ N(box'[n], Late(n, p)) = N(box[n], Late(n, p)) - (IF n = m THEN 1 ELSE 0)
                            /\ N(box'[p], Allowed(n, p)) = N(box[p], Allowed(n, p))
            OBVIOUS
        <3>2. N(box'[n], Late(n, p)) = N(box[n], Late(n, p)) - (IF n = m THEN 1 ELSE 0)
            <4>1. n \in Actor
                BY Actors
            <4>2. N(box'[n], Late(n, p)) = N(box[n], Late(n, p)) - (IF n = m /\ Top(m) \in Late(n, p) THEN 1 ELSE 0)
                BY <2>2, <4>1
            <4> QED
                BY <3>1, <4>2
        <3>3. N(box'[p], Allowed(n, p)) = N(box[p], Allowed(n, p)) /\ N(box[p], Allowed(n, p)) \in Nat
            BY <1>3, <2>2
        <3> QED
            BY <3>2, <3>3
    <2>4. \A n \in Map :
              /\ N(box'[n], Ok(n, p)) # 0 => N(box[n], Ok(n, p)) # 0
              /\ N(box'[n], Err(n, p)) # 0 => N(box[n], Err(n, p)) # 0
        BY <2>2, Actors
    <2>5. \A n \in Map :
              /\ N(box'[n], Leaving(n, p)) = N(box[n], Leaving(n, p)) /\ N(box'[n], Leaves(n, p)) = N(box[n], Leaves(n, p))
              /\ N(box'[n], Told(n, p, TRUE)) = N(box[n], Told(n, p, TRUE))
        <3>1. \A n \in Map : Top(m) \notin Leaving(n, p) /\ Top(m) \notin Leaves(n, p) /\ Top(m) \notin Told(n, p, TRUE)
            BY <1>1 DEF Leaving, Leaves, Told, From
        <3>2. \A n \in Map : \A S : Top(m) \notin S => N(box'[n], S) = N(box[n], S)
            BY <2>2, Actors
        <3> QED
            BY <3>1, <3>2
    <2>6. Course(p)'
        BY <1>1, <1>4, <2>5 DEF Fares, Course
    <2>7. ASSUME Where(p), p \notin seen PROVE Where(p)'
        <3>1. Enters(p, m) /\ Entering(p, m) = 1 /\ N(box[m], Late(m, p)) # 0
            <4>1. N(box[m], Late(m, p)) # 0
                BY <1>1, <1>2, TopThere
            <4> QED
                BY <1>6, <2>7, <4>1 DEF Where, Enters
        <3>2. \A n \in Map : Entering(p, n)' = Entering(p, n) - (IF n = m THEN 1 ELSE 0)
            <4> SUFFICES ASSUME NEW n \in Map PROVE Entering(p, n)' = Entering(p, n) - (IF n = m THEN 1 ELSE 0)
                OBVIOUS
            <4>1. N(box[n], Late(n, p)) \in Nat /\ N(box[p], Allowed(n, p)) \in Nat
                BY <1>3, <2>2, Actors
            <4> DEFINE rest == (IF player[p].step = "try" /\ player[p].to = n THEN N(box[p], Allowed(n, p)) ELSE 0)
                                + (IF player[p].step \in {"leave", "left"} /\ player[p].to = n THEN 1 ELSE 0)
            <4>2. rest \in Nat
                BY <4>1
            <4>3. Entering(p, n) = N(box[n], Late(n, p)) + rest
                BY <4>1 DEF Entering
            <4>4. N(box'[p], Allowed(n, p)) = N(box[p], Allowed(n, p))
                BY <2>3
            <4>5. N(box'[n], Late(n, p)) = N(box[n], Late(n, p)) - (IF n = m THEN 1 ELSE 0)
                BY <2>3
            <4>6. N(box'[n], Late(n, p)) \in Int
                BY <4>1, <4>5
            <4>7. Entering(p, n)' = N(box'[n], Late(n, p)) + rest
                BY <1>1, <4>1, <4>4, <4>6 DEF Entering
            <4> HIDE DEF rest
            <4> QED
                BY <4>1, <4>2, <4>3, <4>5, <4>7
        <3>3. player[p].step = "left" => player[p].at # m
            <4> SUFFICES ASSUME player[p].step = "left", player[p].at = m PROVE FALSE
                OBVIOUS
            <4>1. player[p].to = m
                BY DEF TalkInv, Talks
            <4>2. N(box[m], Late(m, p)) \in Nat
                BY <2>2, Actors
            <4> QED
                BY <3>1, <4>1, <4>2 DEF Entering
        <3>4. ASSUME NEW n \in Map PROVE Enters(p, n)'
            <4>1. Enters(p, n)
                BY <2>7 DEF Where
            <4>2. Entering(p, n)' = (IF map'[n].lock = p THEN 1 ELSE 0)
                <5>1. CASE n = m
                    <6>1. Entering(p, n) = 1
                        BY <3>1, <5>1
                    <6>2. Entering(p, n)' = Entering(p, n) - 1
                        BY <3>2, <5>1
                    <6>3. map'[n].lock # p
                        BY <1>3, <2>1, <5>1
                    <6> QED
                        BY <6>1, <6>2, <6>3
                <5>2. CASE n # m
                    <6>1. Entering(p, n) = (IF map[n].lock = p THEN 1 ELSE 0) /\ map'[n].lock = map[n].lock
                        BY <2>1, <4>1, <5>2 DEF Enters
                    <6>2. Entering(p, n)' = Entering(p, n) - 0
                        BY <3>2, <5>2
                    <6> QED
                        BY <6>1, <6>2
                <5> QED
                    BY <5>1, <5>2
            <4> QED
                BY <1>1, <2>4, <4>1, <4>2 DEF Enters
        <3>5. ASSUME ok PROVE player[p].at = m
            <4>1. Top(m) \in Ok(m, p)
                BY <1>2, <3>5 DEF ok, Late, Ok, From
            <4>2. N(box[m], Ok(m, p)) # 0
                BY <1>1, <4>1, TopThere
            <4> QED
                BY <3>1, <4>2 DEF Enters
        <3>6. map[m].todo = <<>>
            BY <1>3, <1>6, <2>7 DEF WhereInv, Noted
        <3>7. N(box[m], Told(m, p, TRUE)) = 0
            <4> SUFFICES ASSUME N(box[m], Told(m, p, TRUE)) # 0 PROVE FALSE
                OBVIOUS
            <4>1. F(box, m, "SWITCHED", m, p) # 0
                <5>1. Told(m, p, TRUE) \subseteq From("SWITCHED", m, p)
                    BY DEF Told
                <5> QED
                    BY <1>1, <5>1, BoxNat DEF F
            <4> QED
                BY <3>6, <4>1, Sender
        <3>8. ASSUME NEW n \in Map PROVE Stays(p, n)'
            <4>1. Stays(p, n)
                BY <2>7 DEF Where
            <4>2. CASE n = m /\ ok
                <5>1. player[p].step # "left" /\ player[p].at = m
                    BY <3>3, <3>5, <4>2
                <5> QED
                    BY <1>1, <1>3, <2>1, <2>5, <3>6, <3>7, <4>2, <5>1 DEF Stays
            <4>3. CASE ~(n = m /\ ok)
                BY <1>1, <1>3, <2>1, <2>5, <4>1, <4>3 DEF Stays
            <4> QED
                BY <4>2, <4>3
        <3>9. Place(p)'
            <4>1. Place(p) /\ player[p].at \in Map
                BY <1>4, <2>7 DEF Where, Traveller
            <4>2. CASE player[p].at = m /\ ~ok
                <5>1. Top(m) \in Err(m, p)
                    BY <1>1, <1>2, <4>2 DEF ok, Late, Err, From
                <5>2. N(box[m], Err(m, p)) # 0
                    BY <1>1, <5>1, TopThere
                <5> QED
                    BY <3>1, <4>2, <5>2 DEF Enters
            <4>3. CASE ~(player[p].at = m /\ ~ok)
                BY <1>1, <2>1, <2>3, <4>1, <4>3 DEF Place
            <4> QED
                BY <4>2, <4>3
        <3> QED
            BY <3>4, <3>8, <3>9 DEF Where
    <2>8. Fares(p)'
        BY <1>1, <1>4, <2>6, <2>7 DEF Fares
    <2>9. \A n \in Map : Noted(n)'
        BY <1>1, <2>1 DEF WhereInv, Noted
    <2>10. \A n \in Map : /\ \A q \in Player \ {p} : /\ q \in map'[n].grid <=> q \in map[n].grid
                                                     /\ map'[n].lock = q <=> map[n].lock = q
                          /\ map'[n].todo = map[n].todo
        <3>1. \A q \in Player \ {p} : q # None /\ q # p
            BY Actors
        <3> QED
            BY <2>0, <2>1, <3>1
    <2> QED
        BY <1>1, <2>2, <2>8, <2>9, <2>10, AloofWhere
<1> QED
    BY <1>2, <1>5, <1>6 DEF SwitchDone

LEMMA HeardWhere ==
    ASSUME IInv, TalkInv, NEW p \in Player, Got(p), Top(p).type \in {"ALLOW", "BAD", "FINISHLEAVE"}
    PROVE  \E k \in Map :
               /\ Top(p).map = k /\ Top(p).by = p /\ Top(p) \in Message
               /\ player[p].step \notin {"idle", "load"}
               /\ player[p].step = "try" => k = player[p].to
               /\ player[p].step = "leave" => k = player[p].at
               /\ \A n \in Map : /\ Take(p)[n] = box[n]
                                 /\ N(box[n], Leaving(n, p)) = 0 /\ N(box[n], Leaves(n, p)) = 0
                                 /\ N(Take(p)[p], Allowed(n, p)) = 0 /\ N(Take(p)[p], Bad(n, p)) = 0
                                 /\ N(box[p], Allowed(n, p)) = IF n = k /\ Top(p).type = "ALLOW" THEN 1 ELSE 0
<1>1. box \in Mailboxes /\ p \in Actor /\ p \notin Map /\ p # None
    BY Actors DEF IInv, MailInv, Fit
<1>2. PICK k \in Map : Top(p) \in Hears(k, p) /\ Top(p).by = p /\ Top(p).map = k /\ Top(p) \in Message
    <2>1. Top(p) \in For(p) /\ Top(p) \in Message /\ Top(p).map \in Map
        BY <1>1, Handled
    <2>2. Top(p).by = p
        BY <1>1, <2>1, Actors DEF For, ForPlayer
    <2> QED
        BY <2>1, <2>2 DEF Hears
<1>3. /\ player[p].step \notin {"idle", "load"}
      /\ player[p].step = "try" => k = player[p].to
      /\ player[p].step = "leave" => k = player[p].at
    <2>1. N(box[p], Hears(k, p)) # 0
        BY <1>1, <1>2, TopThere
    <2> QED
        BY <2>1, SpeaksWith
<1>4. Take(p) \in Mailboxes /\ \A n \in Map : Words(Take(p), p, n) = 0
    BY HeardOut
<1>5. ASSUME NEW n \in Map
      PROVE  /\ Take(p)[n] = box[n]
             /\ N(box[n], Leaving(n, p)) = 0 /\ N(box[n], Leaves(n, p)) = 0
             /\ N(Take(p)[p], Allowed(n, p)) = 0 /\ N(Take(p)[p], Bad(n, p)) = 0
             /\ N(box[p], Allowed(n, p)) = IF n = k /\ Top(p).type = "ALLOW" THEN 1 ELSE 0
    <2>1. Take(p)[n] = box[n]
        BY <1>1, Actors DEF Take, Mailboxes
    <2>2. N(Take(p)[n], Says(n, p)) = 0 /\ N(Take(p)[p], Hears(n, p)) = 0
        BY <1>4, NotTrying
    <2>3. /\ N(box[n], Leaving(n, p)) = 0 /\ N(box[n], Leaves(n, p)) = 0
          /\ N(Take(p)[p], Allowed(n, p)) = 0 /\ N(Take(p)[p], Bad(n, p)) = 0
        BY <1>4, <2>1, <2>2, Kinds
    <2>4. N(Take(p)[p], Allowed(n, p)) = N(box[p], Allowed(n, p)) - (IF p = p /\ Top(p) \in Allowed(n, p) THEN 1 ELSE 0)
        BY <1>1, TakeCount
    <2>5. Top(p) \in Allowed(n, p) <=> n = k /\ Top(p).type = "ALLOW"
        BY <1>2, Sorts
    <2>6. N(box[p], Allowed(n, p)) \in Nat
        BY <1>1, BoxNat
    <2> QED
        BY <2>1, <2>3, <2>4, <2>5, <2>6
<1> QED
    BY <1>2, <1>3, <1>5

\* The end of a switch, and the answer to the map that has asked for it.
LEMMA EndIs ==
    ASSUME IInv, NEW p \in Player, NEW d \in Mailboxes, NEW at \in Map, NEW ok \in BOOLEAN, End(d, p, at, ok)
    PROVE  /\ box' \in Mailboxes /\ Aloof(d, box', p)
           /\ player'[p].at = at /\ player'[p].to = at /\ player'[p].step = "idle" /\ player'[p].for = None
           /\ player'[p].dead = player[p].dead
           /\ \A q \in Player \ {p} : player'[q] = player[q]
           /\ \A c \in Actor : \A S : N(d[c], S) \in Nat
           /\ \A n \in Map : \A S : N(box'[n], S) =
                  N(d[n], S) + (IF n = player[p].for /\ Msg("SWITCHED", n, p, ok) \in S THEN 1 ELSE 0)
           /\ \A S : N(box'[p], S) = N(d[p], S)
           /\ \A n \in Map : \A S, T : Before(box'[n], S, T) =>
                  Before(d[n], S, T) \/ (n = player[p].for /\ Msg("SWITCHED", n, p, ok) \in T)
<1>1. TypeOK /\ player[p] \in Traveller /\ player \in [Player -> Traveller] /\ p \in Actor /\ p \notin Map
    BY Typed, Actors DEF IInv
<1> DEFINE traveller == [player[p] EXCEPT !.at = at, !.to = at, !.step = "idle", !.for = None]
<1>2. /\ player' = [player EXCEPT ![p] = traveller] /\ traveller \in Traveller
      /\ traveller.at = at /\ traveller.to = at /\ traveller.step = "idle" /\ traveller.for = None
      /\ traveller.dead = player[p].dead
    BY <1>1 DEF End, Traveller
<1> HIDE DEF traveller
<1>3. player'[p] = traveller /\ \A q \in Player \ {p} : player'[q] = player[q]
    BY <1>1, <1>2, OnePlayer
<1>4. \A c \in Actor : \A S : N(d[c], S) \in Nat
    BY BoxNat
<1>5. player[p].for \in Map \cup {None} /\ None \notin Map
    BY <1>1, Actors DEF Traveller
<1>6. box' = Report(d, p, player[p].for, ok)
    BY DEF End
<1>7. CASE player[p].for = None
    <2>1. box' = d
        BY <1>6, <1>7 DEF Report
    <2>2. Aloof(d, d, p)
        BY HushSame DEF Aloof
    <2>3. ASSUME NEW n \in Map, NEW S
          PROVE  N(box'[n], S) = N(d[n], S) + (IF n = player[p].for /\ Msg("SWITCHED", n, p, ok) \in S THEN 1 ELSE 0)
        <3>1. n # player[p].for /\ N(d[n], S) \in Nat
            BY <1>4, <1>5, <1>7, Actors
        <3> QED
            BY <2>1, <3>1
    <2> QED
        BY <1>2, <1>3, <1>4, <2>1, <2>2, <2>3
<1>8. CASE player[p].for # None
    <2>1. PICK m \in Map : m = player[p].for
        BY <1>5, <1>8
    <2>2. Live(m)
        BY <2>1, Sender
    <2>3. PICK y \in Message : y = Msg("SWITCHED", m, p, ok) /\ y.by = p
        <3>1. Msg("SWITCHED", m, p, ok) \in Message /\ Msg("SWITCHED", m, p, ok).by = p
            <4>1. PICK type \in MsgType : type = "SWITCHED"
                BY DEF MsgType
            <4> QED
                BY <4>1, TellIs
        <3> QED
            BY <3>1
    <2>4. box' = Put(d, m, y)
        BY <1>6, <2>1, <2>2, <2>3, ReportHush
    <2>5. /\ Put(d, m, y) \in Mailboxes
          /\ \A c \in Actor : \A S : N(Put(d, m, y)[c], S) = N(d[c], S) + (IF c = m /\ y \in S THEN 1 ELSE 0)
        BY Actors, PutCount
    <2>6. Aloof(d, Put(d, m, y), p)
        <3>1. Aloof(d, Put(d, m, y), y.by)
            BY Actors, AloofPut
        <3> QED
            BY <2>3, <3>1
    <2>7. ASSUME NEW n \in Map, NEW S
          PROVE  N(box'[n], S) = N(d[n], S) + (IF n = player[p].for /\ Msg("SWITCHED", n, p, ok) \in S THEN 1 ELSE 0)
        BY <2>1, <2>3, <2>4, <2>5, Actors
    <2>8. \A S : N(box'[p], S) = N(d[p], S)
        <3>1. p # m
            BY <1>1
        <3>2. \A S : N(Put(d, m, y)[p], S) = N(d[p], S) + 0
            BY <1>1, <2>5, <3>1
        <3> QED
            BY <1>1, <1>4, <2>4, <3>2
    <2>9. ASSUME NEW n \in Map, NEW S, NEW T, Before(box'[n], S, T)
          PROVE  Before(d[n], S, T) \/ (n = player[p].for /\ Msg("SWITCHED", n, p, ok) \in T)
        <3>1. n \in Actor /\ d[n] \in Seq(Message)
            BY Actors DEF Mailboxes
        <3>2. CASE n = m
            <4>1. box'[n] = Append(d[n], y)
                BY <2>4, <3>1, <3>2 DEF Put, Mailboxes
            <4>2. Before(Append(d[n], y), S, T)
                BY <2>9, <4>1
            <4>3. Before(d[n], S, T) \/ y \in T
                BY <3>1, <4>2, BeforeAppend
            <4> QED
                BY <2>1, <2>3, <3>2, <4>3
        <3>3. CASE n # m
            BY <2>4, <2>9, <3>1, <3>3 DEF Put, Mailboxes
        <3> QED
            BY <3>2, <3>3
    <2> QED
        BY <1>2, <1>3, <1>4, <2>4, <2>5, <2>6, <2>7, <2>8, <2>9
<1> QED
    BY <1>7, <1>8

\* p ends its switch, and is where it was let in or where it has not left.
LEMMA EndWhere ==
    ASSUME IInv, WhereInv, NEW p \in Player, NEW d \in Mailboxes, Aloof(box, d, p), NEW at \in Map, NEW ok \in BOOLEAN,
           End(d, p, at, ok), UNCHANGED map, seen \subseteq seen',
           \A n \in Map :
               /\ N(d[n], Leaving(n, p)) = 0 /\ N(d[n], Leaves(n, p)) = 0
               /\ N(d[n], Told(n, p, TRUE)) = N(box[n], Told(n, p, TRUE)),
           ASSUME p \notin seen, Where(p)
           PROVE  /\ \A n \in Map :
                         /\ N(d[n], Late(n, p)) = (IF map[n].lock = p THEN 1 ELSE 0)
                         /\ N(d[n], Err(n, p)) # 0 => at # n
                         /\ N(d[n], Ok(n, p)) # 0 => at = n
                         /\ p \in map[n].grid => at = n /\ ~ok
                  /\ p \in map[at].grid \/ map[at].lock = p
    PROVE  WhereInv'
<1>1. /\ box' \in Mailboxes /\ Aloof(d, box', p)
      /\ player'[p].at = at /\ player'[p].to = at /\ player'[p].step = "idle"
      /\ \A q \in Player \ {p} : player'[q] = player[q]
      /\ \A c \in Actor : \A S : N(d[c], S) \in Nat
      /\ \A n \in Map : \A S : N(box'[n], S) =
             N(d[n], S) + (IF n = player[p].for /\ Msg("SWITCHED", n, p, ok) \in S THEN 1 ELSE 0)
    BY EndIs
<1>2. Aloof(box, box', p)
    BY <1>1, AloofOn
<1>3. TypeOK /\ Fares(p)
    BY FaresIs DEF IInv
<1>4. ASSUME NEW n \in Map
      PROVE  /\ N(box'[n], Late(n, p)) = N(d[n], Late(n, p))
             /\ N(box'[n], Ok(n, p)) = N(d[n], Ok(n, p)) /\ N(box'[n], Err(n, p)) = N(d[n], Err(n, p))
             /\ N(box'[n], Leaving(n, p)) = 0 /\ N(box'[n], Leaves(n, p)) = 0
             /\ ~ok => N(box'[n], Told(n, p, TRUE)) = N(box[n], Told(n, p, TRUE))
    <2>1. Msg("SWITCHED", n, p, ok).type = "SWITCHED" /\ Msg("SWITCHED", n, p, ok).flag = ok
        BY DEF Msg
    <2>2. /\ Msg("SWITCHED", n, p, ok) \notin Late(n, p) /\ Msg("SWITCHED", n, p, ok) \notin Ok(n, p)
          /\ Msg("SWITCHED", n, p, ok) \notin Err(n, p) /\ Msg("SWITCHED", n, p, ok) \notin Leaving(n, p)
          /\ Msg("SWITCHED", n, p, ok) \notin Leaves(n, p)
        BY <2>1 DEF Late, Ok, Err, Leaving, Leaves, From
    <2>3. ~ok => Msg("SWITCHED", n, p, ok) \notin Told(n, p, TRUE)
        BY <2>1 DEF Told
    <2>4. \A S : Msg("SWITCHED", n, p, ok) \notin S => N(box'[n], S) = N(d[n], S)
        BY <1>1, Actors
    <2> QED
        BY <2>2, <2>3, <2>4
<1>5. Course(p)'
    BY <1>1, <1>4 DEF Course
<1>6. ASSUME p \notin seen, Where(p) PROVE Where(p)'
    <2>1. /\ \A n \in Map :
              /\ N(d[n], Late(n, p)) = (IF map[n].lock = p THEN 1 ELSE 0)
              /\ N(d[n], Err(n, p)) # 0 => at # n
              /\ N(d[n], Ok(n, p)) # 0 => at = n
              /\ p \in map[n].grid => at = n /\ ~ok
          /\ p \in map[at].grid \/ map[at].lock = p
        BY <1>6
    <2>2. ASSUME NEW n \in Map PROVE Enters(p, n)'
        <3>1. Entering(p, n)' = N(box'[n], Late(n, p)) + 0 + 0
            BY <1>1 DEF Entering
        <3>2. Entering(p, n)' = (IF map'[n].lock = p THEN 1 ELSE 0)
            <4>1. N(box'[n], Late(n, p)) = (IF map[n].lock = p THEN 1 ELSE 0)
                BY <1>4, <2>1
            <4>2. map'[n].lock = map[n].lock
                OBVIOUS
            <4> QED
                BY <3>1, <4>1, <4>2
        <3> QED
            BY <1>1, <1>4, <2>1, <3>2 DEF Enters
    <2>3. ASSUME NEW n \in Map PROVE Stays(p, n)'
        <3>1. Stays(p, n)
            BY <1>6 DEF Where
        <3> QED
            BY <1>1, <1>4, <2>1, <3>1 DEF Stays
    <2>4. Place(p)'
        BY <1>1, <2>1 DEF Place
    <2> QED
        BY <2>2, <2>3, <2>4 DEF Where
<1>7. Fares(p)'
    BY <1>3, <1>5, <1>6 DEF Fares
<1>8. \A n \in Map : Noted(n)'
    BY DEF WhereInv, Noted
<1> QED
    BY <1>1, <1>2, <1>3, <1>7, <1>8, AloofWhere

LEMMA LateCounts ==
    ASSUME NEW b \in Mailboxes, NEW p \in Player, NEW m \in Map, NEW flag \in BOOLEAN,
           NEW type \in {"SWITCHOK", "SWITCHERROR"}, NEW d, d = Call(b, map, m, Msg(type, m, p, flag))
    PROVE  /\ d \in Mailboxes /\ Aloof(b, d, p)
           /\ \A n \in Map :
                  /\ N(b[n], Late(n, p)) \in Nat
                  /\ N(d[n], Late(n, p)) = N(b[n], Late(n, p)) + (IF n = m /\ Live(m) THEN 1 ELSE 0)
                  /\ N(d[n], Ok(n, p)) # 0 => N(b[n], Ok(n, p)) # 0 \/ (n = m /\ type = "SWITCHOK")
                  /\ N(d[n], Err(n, p)) # 0 => N(b[n], Err(n, p)) # 0 \/ (n = m /\ type = "SWITCHERROR")
                  /\ N(d[n], Leaving(n, p)) = N(b[n], Leaving(n, p)) /\ N(d[n], Leaves(n, p)) = N(b[n], Leaves(n, p))
                  /\ \A ok : N(d[n], Told(n, p, ok)) = N(b[n], Told(n, p, ok))
<1>1. d \in Mailboxes /\ Aloof(b, d, p)
    BY CallLate
<1>2. (Live(m) => d = Put(b, m, Msg(type, m, p, flag))) /\ (~Live(m) => d = b)
    BY CallIs
<1>3. PICK x \in Message : x = Msg(type, m, p, flag) /\ x.type = type /\ x.map = m /\ x.by = p
    <2>1. type \in MsgType
        BY DEF MsgType
    <2> QED
        BY <2>1, TellIs
<1>4. \A c \in Actor : \A S : N(b[c], S) \in Nat
    BY BoxNat
<1>5. \A c \in Actor : \A S : N(d[c], S) = N(b[c], S) + (IF Live(m) /\ c = m /\ x \in S THEN 1 ELSE 0)
    <2>1. CASE Live(m)
        <3>1. \A c \in Actor : \A S : N(Put(b, m, x)[c], S) = N(b[c], S) + (IF c = m /\ x \in S THEN 1 ELSE 0)
            BY Actors, PutCount
        <3> QED
            BY <1>2, <1>3, <2>1, <3>1
    <2>2. CASE ~Live(m)
        BY <1>2, <1>4, <2>2
    <2> QED
        BY <2>1, <2>2
<1>6. ASSUME NEW n \in Map
      PROVE  /\ N(b[n], Late(n, p)) \in Nat
             /\ N(d[n], Late(n, p)) = N(b[n], Late(n, p)) + (IF n = m /\ Live(m) THEN 1 ELSE 0)
             /\ N(d[n], Ok(n, p)) # 0 => N(b[n], Ok(n, p)) # 0 \/ (n = m /\ type = "SWITCHOK")
             /\ N(d[n], Err(n, p)) # 0 => N(b[n], Err(n, p)) # 0 \/ (n = m /\ type = "SWITCHERROR")
             /\ N(d[n], Leaving(n, p)) = N(b[n], Leaving(n, p)) /\ N(d[n], Leaves(n, p)) = N(b[n], Leaves(n, p))
             /\ \A ok : N(d[n], Told(n, p, ok)) = N(b[n], Told(n, p, ok))
    <2>1. \A S : /\ N(d[n], S) = N(b[n], S) + (IF Live(m) /\ n = m /\ x \in S THEN 1 ELSE 0)
                 /\ N(b[n], S) \in Nat
        BY <1>4, <1>5, Actors
    <2>2. x \in Late(n, p) <=> n = m
        BY <1>3 DEF Late
    <2>3. (x \in Ok(n, p) => n = m /\ type = "SWITCHOK") /\ (x \in Err(n, p) => n = m /\ type = "SWITCHERROR")
        BY <1>3 DEF Ok, Err, From
    <2>4. x \notin Leaving(n, p) /\ x \notin Leaves(n, p) /\ \A ok : x \notin Told(n, p, ok)
        BY <1>3 DEF Leaving, Leaves, Told, From
    <2>5. N(d[n], Late(n, p)) = N(b[n], Late(n, p)) + (IF n = m /\ Live(m) THEN 1 ELSE 0)
        BY <2>1, <2>2
    <2>6. /\ N(d[n], Ok(n, p)) # 0 => N(b[n], Ok(n, p)) # 0 \/ (n = m /\ type = "SWITCHOK")
          /\ N(d[n], Err(n, p)) # 0 => N(b[n], Err(n, p)) # 0 \/ (n = m /\ type = "SWITCHERROR")
        BY <2>1, <2>3
    <2>7. \A S : x \notin S => N(d[n], S) = N(b[n], S)
        BY <2>1
    <2> QED
        BY <2>1, <2>4, <2>5, <2>6, <2>7
<1> QED
    BY <1>1, <1>6

LEMMA SwitchLoadedIs ==
    ASSUME IInv, TalkInv, NEW p \in Player, SwitchLoaded(p)
    PROVE  \E m \in Map :
               /\ Got(p) /\ Top(p) \in Message /\ Top(p).type = "LOADED" /\ Top(p).by = p /\ Top(p).map = m
               /\ F(box, p, "LOADED", m, p) # 0
               /\ player[p].step = "load" /\ player[p].to = m /\ UNCHANGED <<map, seen, coreList>>
               /\ \A q \in Player \ {p} : player'[q] = player[q]
               /\ player'[p].step = "try" /\ player'[p].to = m /\ player'[p].at = player[p].at
               /\ player'[p].for = player[p].for /\ player'[p].dead = player[p].dead
               /\ box' = Call(Take(p), map, m, Msg("TRYMAPSWITCH", m, p, TRUE))
<1>1. /\ Got(p) /\ Top(p).type = "LOADED" /\ p \in Actor /\ p \in Client /\ TypeOK
      /\ player \in [Player -> Traveller] /\ player[p] \in Traveller /\ UNCHANGED <<map, seen, coreList>>
    BY Typed, Actors DEF SwitchLoaded, PlayerUnchanged, IInv, Client, coreVars
<1>2. PICK m \in Map : Top(p).map = m /\ Top(p).by = p /\ Top(p).flag = TRUE /\ F(box, p, "LOADED", m, p) # 0 /\ Top(p) \in Message
    <2>1. Top(p) \in For(p) /\ Top(p).map \in Map /\ F(box, p, "LOADED", Top(p).map, Top(p).by) # 0 /\ Top(p) \in Message
        BY <1>1, Handled
    <2>2. Top(p).by = p /\ Top(p).flag = TRUE
        BY <1>1, <2>1, Actors DEF For, ForPlayer
    <2> QED
        BY <2>1, <2>2
<1>3. player[p].step = "load" /\ player[p].to = m
    <2>1. Wants(p, m)
        BY <1>1, <1>2, Requested
    <2> QED
        BY <2>1, Actors DEF Wants
<1> DEFINE traveller == [player[p] EXCEPT !.step = "try"]
<1>4. /\ player' = [player EXCEPT ![p] = traveller] /\ traveller \in Traveller
      /\ traveller.step = "try" /\ traveller.to = m /\ traveller.at = player[p].at
      /\ traveller.for = player[p].for /\ traveller.dead = player[p].dead
    <2>1. player' = [player EXCEPT ![p].step = "try"]
        BY <1>2 DEF SwitchLoaded
    <2> QED
        BY <1>1, <1>3, <2>1 DEF Traveller
<1> HIDE DEF traveller
<1>5. player'[p] = traveller /\ \A q \in Player \ {p} : player'[q] = player[q]
    BY <1>1, <1>4, OnePlayer
<1>6. box' = Call(Take(p), map, m, Msg("TRYMAPSWITCH", m, p, TRUE))
    BY <1>2, <1>3 DEF SwitchLoaded
<1> QED
    BY <1>1, <1>2, <1>3, <1>4, <1>5, <1>6

\* What p asks of a map, or gets back when the map is gone, moves nothing of Heeded but what it says.
LEMMA AskCounts ==
    ASSUME NEW b \in Mailboxes, NEW p \in Player, NEW m \in Map, NEW flag \in BOOLEAN,
           NEW type \in {"TRYMAPSWITCH", "TRYLEAVE", "LEAVEOK"}, NEW d, d = Call(b, map, m, Msg(type, m, p, flag))
    PROVE  /\ d \in Mailboxes /\ Aloof(b, d, p)
           /\ \A n \in Map :
                  /\ N(b[n], Late(n, p)) \in Nat
                  /\ N(d[n], Late(n, p)) = N(b[n], Late(n, p))
                  /\ N(d[n], Ok(n, p)) = N(b[n], Ok(n, p)) /\ N(d[n], Err(n, p)) = N(b[n], Err(n, p))
                  /\ N(d[n], Leaving(n, p)) # 0 => N(b[n], Leaving(n, p)) # 0 \/ (n = m /\ type = "TRYLEAVE")
                  /\ N(d[n], Leaves(n, p)) # 0 => N(b[n], Leaves(n, p)) # 0 \/ (n = m /\ type = "LEAVEOK")
                  /\ type = "LEAVEOK" /\ n = m /\ Live(m) => N(d[n], Leaves(n, p)) # 0
                  /\ N(d[p], Allowed(n, p)) = N(b[p], Allowed(n, p))
                  /\ N(d[p], Bad(n, p)) # 0 => N(b[p], Bad(n, p)) # 0 \/ (n = m /\ ~Live(m))
                  /\ \A ok : N(d[n], Told(n, p, ok)) = N(b[n], Told(n, p, ok))
<1>0. m \in Actor /\ p \in Actor
    BY Actors
<1>1. d \in Mailboxes /\ Aloof(b, d, p)
    BY CallWords
<1>2. (Live(m) => d = Put(b, m, Msg(type, m, p, flag))) /\ (~Live(m) => d = Put(b, p, Msg("BAD", m, p, flag)))
    BY CallIs
<1>3. PICK x \in Message : x = Msg(type, m, p, flag) /\ x.type = type /\ x.map = m /\ x.by = p
    <2>1. type \in MsgType
        BY DEF MsgType
    <2> QED
        BY <2>1, TellIs
<1>4. PICK z \in Message : z = Msg("BAD", m, p, flag) /\ z.type = "BAD" /\ z.map = m /\ z.by = p
    <2>1. PICK bad \in MsgType : bad = "BAD"
        BY DEF MsgType
    <2>2. Msg(bad, m, p, flag) \in Message /\ Msg(bad, m, p, flag).type = bad /\ Msg(bad, m, p, flag).map = m /\ Msg(bad, m, p, flag).by = p
        BY TellIs
    <2> QED
        BY <2>1, <2>2
<1>5. \A c \in Actor : \A S : N(b[c], S) \in Nat
    BY BoxNat
<1>6. \A c \in Actor : \A S : N(d[c], S) = N(b[c], S) + (IF Live(m) /\ c = m /\ x \in S THEN 1 ELSE 0)
                                                     + (IF ~Live(m) /\ c = p /\ z \in S THEN 1 ELSE 0)
    <2>1. CASE Live(m)
        <3>1. \A c \in Actor : \A S : N(Put(b, m, x)[c], S) = N(b[c], S) + (IF c = m /\ x \in S THEN 1 ELSE 0)
            BY <1>0, PutCount
        <3>2. d = Put(b, m, x)
            BY <1>2, <1>3, <2>1
        <3>3. \A c \in Actor : \A S : N(d[c], S) = N(b[c], S) + (IF c = m /\ x \in S THEN 1 ELSE 0)
            BY <3>1, <3>2
        <3> QED
            BY <1>5, <2>1, <3>3
    <2>2. CASE ~Live(m)
        <3>1. \A c \in Actor : \A S : N(Put(b, p, z)[c], S) = N(b[c], S) + (IF c = p /\ z \in S THEN 1 ELSE 0)
            BY <1>0, PutCount
        <3>2. d = Put(b, p, z)
            BY <1>2, <1>4, <2>2
        <3>3. \A c \in Actor : \A S : N(d[c], S) = N(b[c], S) + (IF c = p /\ z \in S THEN 1 ELSE 0)
            BY <3>1, <3>2
        <3> QED
            BY <1>5, <2>2, <3>3
    <2> QED
        BY <2>1, <2>2
<1>7. ASSUME NEW n \in Map
      PROVE  /\ N(b[n], Late(n, p)) \in Nat
             /\ N(d[n], Late(n, p)) = N(b[n], Late(n, p))
             /\ N(d[n], Ok(n, p)) = N(b[n], Ok(n, p)) /\ N(d[n], Err(n, p)) = N(b[n], Err(n, p))
             /\ N(d[n], Leaving(n, p)) # 0 => N(b[n], Leaving(n, p)) # 0 \/ (n = m /\ type = "TRYLEAVE")
             /\ N(d[n], Leaves(n, p)) # 0 => N(b[n], Leaves(n, p)) # 0 \/ (n = m /\ type = "LEAVEOK")
             /\ type = "LEAVEOK" /\ n = m /\ Live(m) => N(d[n], Leaves(n, p)) # 0
             /\ N(d[p], Allowed(n, p)) = N(b[p], Allowed(n, p))
             /\ N(d[p], Bad(n, p)) # 0 => N(b[p], Bad(n, p)) # 0 \/ (n = m /\ ~Live(m))
             /\ \A ok : N(d[n], Told(n, p, ok)) = N(b[n], Told(n, p, ok))
    <2>1. n \in Actor /\ p \in Actor /\ n # p /\ p # m
        BY Actors
    <2>2. \A S : /\ N(d[n], S) = N(b[n], S) + (IF Live(m) /\ n = m /\ x \in S THEN 1 ELSE 0)
                 /\ N(b[n], S) \in Nat /\ N(b[p], S) \in Nat
                 /\ N(d[p], S) = N(b[p], S) + (IF ~Live(m) /\ z \in S THEN 1 ELSE 0)
        <3>1. \A S : N(b[n], S) \in Nat /\ N(b[p], S) \in Nat
            BY <1>5, <2>1
        <3>2. \A S : N(d[n], S) = N(b[n], S) + (IF Live(m) /\ n = m /\ x \in S THEN 1 ELSE 0) + 0
            BY <1>6, <2>1
        <3>3. \A S : N(d[p], S) = N(b[p], S) + 0 + (IF ~Live(m) /\ z \in S THEN 1 ELSE 0)
            BY <1>6, <2>1
        <3> QED
            BY <3>1, <3>2, <3>3
    <2>3. x \notin Late(n, p) /\ x \notin Ok(n, p) /\ x \notin Err(n, p) /\ \A ok : x \notin Told(n, p, ok)
        BY <1>3 DEF Late, Ok, Err, Told, From
    <2>4. (x \in Leaving(n, p) => n = m /\ type = "TRYLEAVE") /\ (x \in Leaves(n, p) <=> n = m /\ type = "LEAVEOK")
        BY <1>3 DEF Leaving, Leaves, From
    <2>5. z \notin Allowed(n, p) /\ (z \in Bad(n, p) => n = m)
        BY <1>4 DEF Allowed, Bad, From
    <2>6. \A S : x \notin S => N(d[n], S) = N(b[n], S)
        BY <2>2
    <2>7. /\ N(d[n], Leaving(n, p)) # 0 => N(b[n], Leaving(n, p)) # 0 \/ (n = m /\ type = "TRYLEAVE")
          /\ N(d[n], Leaves(n, p)) # 0 => N(b[n], Leaves(n, p)) # 0 \/ (n = m /\ type = "LEAVEOK")
          /\ type = "LEAVEOK" /\ n = m /\ Live(m) => N(d[n], Leaves(n, p)) # 0
        BY <2>2, <2>4
    <2>8. /\ N(d[p], Allowed(n, p)) = N(b[p], Allowed(n, p))
          /\ N(d[p], Bad(n, p)) # 0 => N(b[p], Bad(n, p)) # 0 \/ (n = m /\ ~Live(m))
        BY <2>2, <2>5
    <2> QED
        BY <2>2, <2>3, <2>6, <2>7, <2>8
<1> QED
    BY <1>1, <1>7

LEMMA TakeOne ==
    ASSUME IInv, NEW p \in Player, Got(p), NEW b, b = Take(p)
    PROVE  /\ b \in Mailboxes /\ box \in Mailboxes /\ \A n \in Map : b[n] = box[n]
           /\ Top(p).by = p => Aloof(box, b, p)
           /\ \A S : /\ N(b[p], S) \in Nat /\ N(box[p], S) \in Nat /\ (N(b[p], S) # 0 => N(box[p], S) # 0)
                     /\ Top(p) \notin S => N(b[p], S) = N(box[p], S)
<1>1. box \in Mailboxes /\ p \in Actor /\ p \notin Map
    BY Actors DEF IInv, MailInv, Fit
<1>2. /\ Take(p) \in Mailboxes /\ Aloof(box, Take(p), Top(p).by)
      /\ \A S : N(Take(p)[p], S) = N(box[p], S) - (IF p = p /\ Top(p) \in S THEN 1 ELSE 0)
    BY <1>1, TakeCount, AloofTake
<1>3. \A n \in Map : Take(p)[n] = box[n]
    BY <1>1, Actors DEF Take, Mailboxes
<1>4. \A S : N(Take(p)[p], S) \in Nat /\ N(box[p], S) \in Nat
    BY <1>1, <1>2, BoxNat
<1>5. \A S : /\ N(Take(p)[p], S) # 0 => N(box[p], S) # 0
             /\ Top(p) \notin S => N(Take(p)[p], S) = N(box[p], S)
    BY <1>2, <1>4
<1> QED
    BY <1>1, <1>2, <1>3, <1>4, <1>5

LEMMA SwitchLoadedWhere ==
    ASSUME IInv, TalkInv, WhereInv, NEW p \in Player, SwitchLoaded(p)
    PROVE  WhereInv'
<1>1. PICK m \in Map :
          /\ Got(p) /\ Top(p) \in Message /\ Top(p).type = "LOADED" /\ Top(p).by = p /\ Top(p).map = m
          /\ F(box, p, "LOADED", m, p) # 0
          /\ player[p].step = "load" /\ player[p].to = m /\ UNCHANGED <<map, seen, coreList>>
          /\ \A q \in Player \ {p} : player'[q] = player[q]
          /\ player'[p].step = "try" /\ player'[p].to = m /\ player'[p].at = player[p].at
          /\ player'[p].for = player[p].for /\ player'[p].dead = player[p].dead
          /\ box' = Call(Take(p), map, m, Msg("TRYMAPSWITCH", m, p, TRUE))
    BY SwitchLoadedIs
<1>2. PICK b : b = Take(p)
    OBVIOUS
<1>3. /\ b \in Mailboxes /\ box \in Mailboxes /\ Aloof(box, b, p) /\ \A n \in Map : b[n] = box[n]
      /\ \A S : N(b[p], S) # 0 => N(box[p], S) # 0
    BY <1>1, <1>2, TakeOne
<1>4. /\ box' \in Mailboxes /\ Aloof(b, box', p)
      /\ \A n \in Map :
             /\ N(b[n], Late(n, p)) \in Nat
             /\ N(box'[n], Late(n, p)) = N(b[n], Late(n, p))
             /\ N(box'[n], Ok(n, p)) = N(b[n], Ok(n, p)) /\ N(box'[n], Err(n, p)) = N(b[n], Err(n, p))
             /\ N(box'[n], Leaving(n, p)) # 0 => N(b[n], Leaving(n, p)) # 0
             /\ N(box'[n], Leaves(n, p)) # 0 => N(b[n], Leaves(n, p)) # 0
             /\ N(box'[p], Allowed(n, p)) = N(b[p], Allowed(n, p))
             /\ N(box'[n], Told(n, p, TRUE)) = N(b[n], Told(n, p, TRUE))
    <2>1. PICK type \in {"TRYMAPSWITCH", "TRYLEAVE", "LEAVEOK"}, flag \in BOOLEAN : type = "TRYMAPSWITCH" /\ flag = TRUE
        OBVIOUS
    <2>2. PICK d : d = Call(b, map, m, Msg(type, m, p, flag))
        OBVIOUS
    <2>3. /\ d \in Mailboxes /\ Aloof(b, d, p)
          /\ \A n \in Map :
                 /\ N(b[n], Late(n, p)) \in Nat
                 /\ N(d[n], Late(n, p)) = N(b[n], Late(n, p))
                 /\ N(d[n], Ok(n, p)) = N(b[n], Ok(n, p)) /\ N(d[n], Err(n, p)) = N(b[n], Err(n, p))
                 /\ N(d[n], Leaving(n, p)) # 0 => N(b[n], Leaving(n, p)) # 0 \/ (n = m /\ type = "TRYLEAVE")
                 /\ N(d[n], Leaves(n, p)) # 0 => N(b[n], Leaves(n, p)) # 0 \/ (n = m /\ type = "LEAVEOK")
                 /\ N(d[p], Allowed(n, p)) = N(b[p], Allowed(n, p))
                 /\ \A ok : N(d[n], Told(n, p, ok)) = N(b[n], Told(n, p, ok))
        BY <1>3, <2>2, AskCounts
    <2>4. d = box'
        BY <1>1, <1>2, <2>1, <2>2
    <2> QED
        BY <2>1, <2>3, <2>4
<1>5. Aloof(box, box', p)
    BY <1>3, <1>4, AloofOn
<1>6. \A n \in Map : /\ N(box[n], Leaving(n, p)) = 0 /\ N(box[n], Leaves(n, p)) = 0
                     /\ N(box[p], Allowed(n, p)) = 0
    <2> SUFFICES ASSUME NEW n \in Map
                 PROVE  /\ N(box[n], Leaving(n, p)) = 0 /\ N(box[n], Leaves(n, p)) = 0
                        /\ N(box[p], Allowed(n, p)) = 0
        OBVIOUS
    <2>1. Words(box, p, n) = 0
        BY <1>1 DEF TalkInv, Talks
    <2>2. N(box[n], Says(n, p)) = 0 /\ N(box[p], Hears(n, p)) = 0
        BY <1>3, <2>1, NotTrying
    <2> QED
        BY <1>3, <2>2, Kinds
<1>7. TypeOK /\ Fares(p)
    BY FaresIs DEF IInv
<1>8. Course(p)'
    BY <1>1, <1>3, <1>4, <1>6, <1>7 DEF Fares, Course
<1>9. ASSUME Where(p) PROVE Where(p)'
    <2>1. ASSUME NEW n \in Map PROVE Enters(p, n)' /\ Stays(p, n)'
        <3>1. Enters(p, n) /\ Stays(p, n)
            BY <1>9 DEF Where
        <3>2. N(box'[n], Late(n, p)) = N(box[n], Late(n, p)) /\ N(box[n], Late(n, p)) \in Nat
            BY <1>3, <1>4
        <3>3. N(box'[p], Allowed(n, p)) = 0
            BY <1>3, <1>4, <1>6
        <3>4. Entering(p, n)' = N(box'[n], Late(n, p))
            <4>1. N(box'[n], Late(n, p)) \in Nat
                BY <3>2
            <4>2. player'[p].step = "try" /\ player'[p].step \notin {"leave", "left"}
                BY <1>1
            <4> QED
                BY <3>3, <4>1, <4>2 DEF Entering
        <3>5. Entering(p, n) = N(box[n], Late(n, p))
            BY <1>1, <3>2 DEF Entering
        <3>6. Entering(p, n)' = Entering(p, n)
            BY <3>2, <3>4, <3>5
        <3>7. Enters(p, n)'
            BY <1>1, <1>3, <1>4, <3>1, <3>6 DEF Enters
        <3>8. Stays(p, n)'
            BY <1>1, <1>3, <1>4, <3>1, <1>6 DEF Stays
        <3> QED
            BY <3>7, <3>8
    <2>2. Place(p)'
        BY <1>1, <1>9 DEF Where, Place
    <2> QED
        BY <2>1, <2>2 DEF Where
<1>10. Fares(p)'
    BY <1>1, <1>7, <1>8, <1>9 DEF Fares
<1>11. \A n \in Map : Noted(n)'
    BY <1>1 DEF WhereInv, Noted
<1> QED
    BY <1>1, <1>5, <1>7, <1>10, <1>11, AloofWhere

\* p tells the map that it was to enter that it stays.
LEMMA SwitchErrorWhere ==
    ASSUME IInv, TalkInv, WhereInv, NEW p \in Player, Got(p), Top(p).type \in {"ALLOW", "BAD"},
           \/ player[p].step = "try" /\ Top(p).type = "ALLOW"
           \/ player[p].step = "leave",
           End(SwitchError(p, Take(p)), p, player[p].at, FALSE), UNCHANGED <<map, seen>>
    PROVE  WhereInv'
<1>1. TypeOK /\ Fares(p) /\ player[p].to \in Map /\ player[p].at \in Map
    BY FaresIs DEF IInv
<1>2. PICK k \in Map :
          /\ Top(p).map = k /\ Top(p).by = p
          /\ player[p].step = "try" => k = player[p].to
          /\ \A n \in Map : /\ Take(p)[n] = box[n]
                            /\ N(box[n], Leaving(n, p)) = 0 /\ N(box[n], Leaves(n, p)) = 0
                            /\ N(box[p], Allowed(n, p)) = IF n = k /\ Top(p).type = "ALLOW" THEN 1 ELSE 0
    BY HeardWhere
<1>3. PICK m \in Map, at \in Map, flag \in BOOLEAN, type \in {"SWITCHOK", "SWITCHERROR"} :
          m = player[p].to /\ at = player[p].at /\ flag = FALSE /\ type = "SWITCHERROR"
    BY <1>1
<1>4. PICK b : b = Take(p)
    OBVIOUS
<1>5. b \in Mailboxes /\ Aloof(box, b, p) /\ \A n \in Map : b[n] = box[n]
    BY <1>2, <1>4, TakeOne
<1>6. PICK d : d = Call(b, map, m, Msg(type, m, p, flag))
    OBVIOUS
<1>7. /\ d \in Mailboxes /\ Aloof(b, d, p)
      /\ \A n \in Map :
             /\ N(b[n], Late(n, p)) \in Nat
             /\ N(d[n], Late(n, p)) = N(b[n], Late(n, p)) + (IF n = m /\ Live(m) THEN 1 ELSE 0)
             /\ N(d[n], Ok(n, p)) # 0 => N(b[n], Ok(n, p)) # 0 \/ (n = m /\ type = "SWITCHOK")
             /\ N(d[n], Err(n, p)) # 0 => N(b[n], Err(n, p)) # 0 \/ (n = m /\ type = "SWITCHERROR")
             /\ N(d[n], Leaving(n, p)) = N(b[n], Leaving(n, p)) /\ N(d[n], Leaves(n, p)) = N(b[n], Leaves(n, p))
             /\ \A ok : N(d[n], Told(n, p, ok)) = N(b[n], Told(n, p, ok))
    BY <1>5, <1>6, LateCounts
<1>8. End(d, p, at, flag)
    BY <1>3, <1>4, <1>6 DEF SwitchError
<1>9. Aloof(box, d, p)
    BY <1>5, <1>7, AloofOn
<1>10. \A n \in Map :
           /\ N(d[n], Leaving(n, p)) = 0 /\ N(d[n], Leaves(n, p)) = 0
           /\ N(d[n], Told(n, p, TRUE)) = N(box[n], Told(n, p, TRUE))
    <2> SUFFICES ASSUME NEW n \in Map
                 PROVE  /\ N(d[n], Leaving(n, p)) = 0 /\ N(d[n], Leaves(n, p)) = 0
                        /\ N(d[n], Told(n, p, TRUE)) = N(box[n], Told(n, p, TRUE))
        OBVIOUS
    <2>1. b[n] = box[n] /\ N(box[n], Leaving(n, p)) = 0 /\ N(box[n], Leaves(n, p)) = 0
        BY <1>2, <1>5
    <2> QED
        BY <1>7, <2>1
<1>11. ASSUME p \notin seen, Where(p)
       PROVE  /\ \A n \in Map :
                     /\ N(d[n], Late(n, p)) = (IF map[n].lock = p THEN 1 ELSE 0)
                     /\ N(d[n], Err(n, p)) # 0 => at # n
                     /\ N(d[n], Ok(n, p)) # 0 => at = n
                     /\ p \in map[n].grid => at = n /\ ~flag
              /\ p \in map[at].grid \/ map[at].lock = p
    <2>1. at # m
        BY <1>1, <1>3 DEF Fares, Course
    <2>2. ASSUME NEW n \in Map PROVE N(box[n], Late(n, p)) + (IF n = m THEN 1 ELSE 0) = (IF map[n].lock = p THEN 1 ELSE 0)
        <3>1. Entering(p, n) = (IF map[n].lock = p THEN 1 ELSE 0)
            BY <1>11 DEF Where, Enters
        <3>2. N(box[n], Late(n, p)) \in Nat
            BY <1>5, <1>7
        <3>3. CASE player[p].step = "try"
            <4>1. N(box[p], Allowed(n, p)) = IF n = m THEN 1 ELSE 0
                BY <1>2, <1>3, <3>3
            <4>2. Entering(p, n) = N(box[n], Late(n, p)) + (IF n = m THEN 1 ELSE 0)
                BY <1>3, <3>2, <3>3, <4>1 DEF Entering
            <4> QED
                BY <3>1, <4>2
        <3>4. CASE player[p].step = "leave"
            <4>1. Entering(p, n) = N(box[n], Late(n, p)) + (IF n = m THEN 1 ELSE 0)
                BY <1>3, <3>2, <3>4 DEF Entering
            <4> QED
                BY <3>1, <4>1
        <3> QED
            BY <3>3, <3>4
    <2>3. Live(m)
        <3>1. map[m].lock = p
            <4>1. N(box[m], Late(m, p)) \in Nat
                BY <1>5, <1>7
            <4>2. N(box[m], Late(m, p)) + 1 = (IF map[m].lock = p THEN 1 ELSE 0)
                BY <2>2
            <4> QED
                BY <4>1, <4>2
        <3> QED
            BY <3>1, Actors DEF IInv, RegistryInv, State, Bare
    <2>4. ASSUME NEW n \in Map
          PROVE  /\ N(d[n], Late(n, p)) = (IF map[n].lock = p THEN 1 ELSE 0)
                 /\ N(d[n], Err(n, p)) # 0 => at # n
                 /\ N(d[n], Ok(n, p)) # 0 => at = n
                 /\ p \in map[n].grid => at = n /\ ~flag
        <3>1. Enters(p, n) /\ Stays(p, n)
            BY <1>11 DEF Where
        <3>2. N(d[n], Late(n, p)) = (IF map[n].lock = p THEN 1 ELSE 0)
            <4>1. N(d[n], Late(n, p)) = N(box[n], Late(n, p)) + (IF n = m THEN 1 ELSE 0)
                BY <1>5, <1>7, <2>3
            <4> QED
                BY <2>2, <4>1
        <3>3. N(d[n], Err(n, p)) # 0 => at # n
            BY <1>3, <1>5, <1>7, <2>1, <3>1 DEF Enters
        <3>4. N(d[n], Ok(n, p)) # 0 => at = n
            BY <1>3, <1>5, <1>7, <3>1 DEF Enters
        <3>5. p \in map[n].grid => at = n /\ ~flag
            BY <1>3, <3>1 DEF Stays
        <3> QED
            BY <3>2, <3>3, <3>4, <3>5
    <2>5. p \in map[at].grid \/ map[at].lock = p
        BY <1>3, <1>11 DEF Where, Place
    <2> QED
        BY <2>4, <2>5
<1> QED
    BY <1>7, <1>8, <1>9, <1>10, <1>11, EndWhere

LEMMA SwitchAllowedIs ==
    ASSUME IInv, NEW p \in Player, SwitchAllowed(p), Top(p).type # "BAD", ~player[p].dead
    PROVE  /\ Got(p) /\ Top(p).type = "ALLOW" /\ player[p].step = "try"
           /\ \A q \in Player \ {p} : player'[q] = player[q]
           /\ player'[p].step = "leave" /\ player'[p].to = player[p].to /\ player'[p].at = player[p].at
           /\ player'[p].for = player[p].for /\ player'[p].dead = player[p].dead
           /\ box' = Call(Take(p), map, player[p].at, Msg("TRYLEAVE", player[p].at, p, TRUE))
<1>1. TypeOK /\ player \in [Player -> Traveller] /\ player[p] \in Traveller
    BY Typed DEF IInv
<1>2. /\ Got(p) /\ Top(p).type = "ALLOW" /\ player[p].step = "try"
      /\ player' = [player EXCEPT ![p].step = "leave"]
      /\ box' = Call(Take(p), map, player[p].at, Msg("TRYLEAVE", player[p].at, p, TRUE))
    BY DEF SwitchAllowed
<1> DEFINE traveller == [player[p] EXCEPT !.step = "leave"]
<1>3. /\ player' = [player EXCEPT ![p] = traveller] /\ traveller \in Traveller
      /\ traveller.step = "leave" /\ traveller.at = player[p].at /\ traveller.to = player[p].to
      /\ traveller.for = player[p].for /\ traveller.dead = player[p].dead
    BY <1>1, <1>2 DEF Traveller
<1> HIDE DEF traveller
<1>4. player'[p] = traveller /\ \A q \in Player \ {p} : player'[q] = player[q]
    BY <1>1, <1>3, OnePlayer
<1> QED
    BY <1>2, <1>3, <1>4

LEMMA SwitchAllowedWhere ==
    ASSUME IInv, TalkInv, WhereInv, NEW p \in Player, SwitchAllowed(p)
    PROVE  WhereInv'
<1>1. Got(p) /\ Top(p).type \in {"ALLOW", "BAD"} /\ player[p].step = "try" /\ UNCHANGED <<map, seen>>
    BY DEF SwitchAllowed, PlayerUnchanged
<1>2. TypeOK /\ Fares(p) /\ player[p].to \in Map /\ player[p].at \in Map
    BY FaresIs DEF IInv
<1>3. PICK k \in Map :
          /\ Top(p).map = k /\ Top(p).by = p /\ k = player[p].to
          /\ \A n \in Map : /\ Take(p)[n] = box[n]
                            /\ N(box[n], Leaving(n, p)) = 0 /\ N(box[n], Leaves(n, p)) = 0
                            /\ N(Take(p)[p], Allowed(n, p)) = 0
                            /\ N(box[p], Allowed(n, p)) = IF n = k /\ Top(p).type = "ALLOW" THEN 1 ELSE 0
    BY <1>1, HeardWhere
<1>4. PICK b : b = Take(p)
    OBVIOUS
<1>5. b \in Mailboxes /\ box \in Mailboxes /\ Aloof(box, b, p) /\ \A n \in Map : b[n] = box[n]
    BY <1>1, <1>3, <1>4, TakeOne
<1>6. \A n \in Map : N(box[n], Late(n, p)) \in Nat
    BY <1>5, BoxNat, Actors
<1>7. ASSUME Where(p), NEW n \in Map
      PROVE  /\ N(box[n], Late(n, p)) + (IF n = k /\ Top(p).type = "ALLOW" THEN 1 ELSE 0) = (IF map[n].lock = p THEN 1 ELSE 0)
             /\ Enters(p, n) /\ Stays(p, n)
    <2>1. Enters(p, n) /\ Stays(p, n)
        BY <1>7 DEF Where
    <2>2. N(box[p], Allowed(n, p)) = IF n = k /\ Top(p).type = "ALLOW" THEN 1 ELSE 0
        BY <1>3
    <2>3. N(box[n], Late(n, p)) \in Nat
        BY <1>6
    <2>4. Entering(p, n) = N(box[n], Late(n, p)) + (IF n = k /\ Top(p).type = "ALLOW" THEN 1 ELSE 0)
        BY <1>1, <1>3, <2>2, <2>3 DEF Entering
    <2> QED
        BY <2>1, <2>4 DEF Enters
<1>8. CASE Top(p).type = "BAD"
    <2>1. PICK at \in Map, ok \in BOOLEAN : at = player[p].at /\ ok = FALSE
        BY <1>2
    <2>2. End(b, p, at, ok)
        BY <1>4, <1>8, <2>1 DEF SwitchAllowed
    <2>3. ASSUME NEW n \in Map
          PROVE  /\ N(b[n], Leaving(n, p)) = 0 /\ N(b[n], Leaves(n, p)) = 0
                 /\ N(b[n], Told(n, p, TRUE)) = N(box[n], Told(n, p, TRUE))
        BY <1>3, <1>5
    <2>4. ASSUME p \notin seen, Where(p)
          PROVE  /\ \A n \in Map :
                        /\ N(b[n], Late(n, p)) = (IF map[n].lock = p THEN 1 ELSE 0)
                        /\ N(b[n], Err(n, p)) # 0 => at # n
                        /\ N(b[n], Ok(n, p)) # 0 => at = n
                        /\ p \in map[n].grid => at = n /\ ~ok
                 /\ p \in map[at].grid \/ map[at].lock = p
        <3>1. ASSUME NEW n \in Map
              PROVE  /\ N(b[n], Late(n, p)) = (IF map[n].lock = p THEN 1 ELSE 0)
                     /\ N(b[n], Err(n, p)) # 0 => at # n
                     /\ N(b[n], Ok(n, p)) # 0 => at = n
                     /\ p \in map[n].grid => at = n /\ ~ok
            <4>1. /\ N(box[n], Late(n, p)) + (IF n = k /\ Top(p).type = "ALLOW" THEN 1 ELSE 0) = (IF map[n].lock = p THEN 1 ELSE 0)
                  /\ Enters(p, n) /\ Stays(p, n)
                BY <1>7, <2>4
            <4>2. N(box[n], Late(n, p)) + 0 = (IF map[n].lock = p THEN 1 ELSE 0)
                BY <1>8, <4>1
            <4>3. N(b[n], Late(n, p)) = (IF map[n].lock = p THEN 1 ELSE 0)
                BY <1>5, <1>6, <4>2
            <4>4. b[n] = box[n]
                BY <1>5
            <4>5. (N(b[n], Err(n, p)) # 0 => at # n) /\ (N(b[n], Ok(n, p)) # 0 => at = n)
                BY <2>1, <4>1, <4>4 DEF Enters
            <4>6. p \in map[n].grid => at = n /\ ~ok
                BY <1>1, <2>1, <4>1 DEF Stays
            <4> QED
                BY <4>3, <4>5, <4>6
        <3>2. p \in map[at].grid \/ map[at].lock = p
            BY <1>1, <2>1, <2>4 DEF Where, Place
        <3> QED
            BY <3>1, <3>2
    <2> QED
        BY <1>1, <1>5, <2>2, <2>3, <2>4, EndWhere
<1>9. CASE Top(p).type # "BAD" /\ player[p].dead
    <2>1. End(SwitchError(p, Take(p)), p, player[p].at, FALSE)
        BY <1>9 DEF SwitchAllowed
    <2> QED
        BY <1>1, <1>9, <2>1, SwitchErrorWhere
<1>10. CASE Top(p).type # "BAD" /\ ~player[p].dead
    <2>1. /\ Top(p).type = "ALLOW"
          /\ \A q \in Player \ {p} : player'[q] = player[q]
          /\ player'[p].step = "leave" /\ player'[p].to = player[p].to /\ player'[p].at = player[p].at
          /\ box' = Call(Take(p), map, player[p].at, Msg("TRYLEAVE", player[p].at, p, TRUE))
        BY <1>10, SwitchAllowedIs
    <2>2. PICK m \in Map, type \in {"TRYMAPSWITCH", "TRYLEAVE", "LEAVEOK"}, flag \in BOOLEAN :
              m = player[p].at /\ type = "TRYLEAVE" /\ flag = TRUE
        BY <1>2
    <2>3. PICK d : d = Call(b, map, m, Msg(type, m, p, flag))
        OBVIOUS
    <2>12. b \in Mailboxes
        BY <1>5
    <2>13. /\ d \in Mailboxes /\ Aloof(b, d, p)
           /\ \A n \in Map :
                  /\ N(b[n], Late(n, p)) \in Nat
                  /\ N(d[n], Late(n, p)) = N(b[n], Late(n, p))
                  /\ N(d[n], Ok(n, p)) = N(b[n], Ok(n, p)) /\ N(d[n], Err(n, p)) = N(b[n], Err(n, p))
                  /\ N(d[n], Leaving(n, p)) # 0 => N(b[n], Leaving(n, p)) # 0 \/ (n = m /\ type = "TRYLEAVE")
                  /\ N(d[n], Leaves(n, p)) # 0 => N(b[n], Leaves(n, p)) # 0 \/ (n = m /\ type = "LEAVEOK")
                  /\ type = "LEAVEOK" /\ n = m /\ Live(m) => N(d[n], Leaves(n, p)) # 0
                  /\ N(d[p], Allowed(n, p)) = N(b[p], Allowed(n, p))
                  /\ N(d[p], Bad(n, p)) # 0 => N(b[p], Bad(n, p)) # 0 \/ (n = m /\ ~Live(m))
                  /\ \A ok : N(d[n], Told(n, p, ok)) = N(b[n], Told(n, p, ok))
        BY <2>12, <2>3, AskCounts
    <2>4. /\ d \in Mailboxes /\ Aloof(b, d, p)
          /\ \A n \in Map :
                 /\ N(d[n], Late(n, p)) = N(b[n], Late(n, p))
                 /\ N(d[n], Ok(n, p)) = N(b[n], Ok(n, p)) /\ N(d[n], Err(n, p)) = N(b[n], Err(n, p))
                 /\ N(d[n], Leaves(n, p)) # 0 => N(b[n], Leaves(n, p)) # 0 \/ (n = m /\ type = "LEAVEOK")
                 /\ N(d[p], Allowed(n, p)) = N(b[p], Allowed(n, p))
                 /\ \A ok : N(d[n], Told(n, p, ok)) = N(b[n], Told(n, p, ok))
        BY <2>13
    <2>5. d = box'
        BY <1>4, <2>1, <2>2, <2>3
    <2>6. Aloof(box, box', p)
        BY <1>5, <2>4, <2>5, AloofOn
    <2>7. ASSUME NEW n \in Map
          PROVE  /\ N(box'[n], Late(n, p)) = N(box[n], Late(n, p))
                 /\ N(box'[n], Ok(n, p)) = N(box[n], Ok(n, p)) /\ N(box'[n], Err(n, p)) = N(box[n], Err(n, p))
                 /\ N(box'[n], Leaves(n, p)) = 0 /\ N(box'[p], Allowed(n, p)) = 0
                 /\ N(box'[n], Told(n, p, TRUE)) = N(box[n], Told(n, p, TRUE))
        <3>1. b[n] = box[n] /\ N(b[n], Leaves(n, p)) = 0 /\ N(b[p], Allowed(n, p)) = 0 /\ type # "LEAVEOK"
            BY <1>3, <1>4, <1>5, <2>2
        <3> QED
            BY <2>4, <2>5, <3>1
    <2>8. Course(p)'
        <3>1. player[p].to # player[p].at
            BY <1>1, <1>2 DEF Fares, Course
        <3> QED
            BY <2>1, <2>7, <3>1 DEF Course
    <2>9. ASSUME Where(p) PROVE Where(p)'
        <3>1. ASSUME NEW n \in Map PROVE Enters(p, n)' /\ Stays(p, n)'
            <4>1. /\ N(box[n], Late(n, p)) + (IF n = k /\ Top(p).type = "ALLOW" THEN 1 ELSE 0) = (IF map[n].lock = p THEN 1 ELSE 0)
                  /\ Enters(p, n) /\ Stays(p, n)
                BY <1>7, <2>9
            <4>2. N(box'[n], Late(n, p)) = N(box[n], Late(n, p)) /\ N(box[n], Late(n, p)) \in Nat
                BY <1>6, <2>7
            <4>3. Entering(p, n)' = N(box'[n], Late(n, p)) + 0 + (IF n = k THEN 1 ELSE 0)
                BY <1>3, <2>1 DEF Entering
            <4>4. Entering(p, n)' = (IF map[n].lock = p THEN 1 ELSE 0)
                BY <2>1, <4>1, <4>2, <4>3
            <4>5. Enters(p, n)'
                BY <1>1, <2>1, <2>7, <4>1, <4>4 DEF Enters
            <4>6. Stays(p, n)'
                BY <1>1, <2>1, <2>7, <4>1 DEF Stays
            <4> QED
                BY <4>5, <4>6
        <3>2. Place(p)'
            <4>1. N(box'[p], Allowed(player[p].at, p)) = 0
                BY <1>2, <2>7
            <4> QED
                BY <1>1, <2>1, <2>9, <4>1 DEF Where, Place
        <3> QED
            BY <3>1, <3>2 DEF Where
    <2>10. Fares(p)'
        BY <1>1, <1>2, <2>8, <2>9 DEF Fares
    <2>11. \A n \in Map : Noted(n)'
        BY <1>1 DEF WhereInv, Noted
    <2> QED
        BY <1>1, <1>2, <2>1, <2>6, <2>10, <2>11, AloofWhere
<1> QED
    BY <1>8, <1>9, <1>10

LEMMA LeaveAllowedIs ==
    ASSUME IInv, NEW p \in Player, LeaveAllowed(p), Top(p).type # "BAD", ~player[p].dead
    PROVE  /\ Got(p) /\ Top(p).type = "ALLOW" /\ player[p].step = "leave"
           /\ \A q \in Player \ {p} : player'[q] = player[q]
           /\ player'[p].step = "left" /\ player'[p].to = player[p].to /\ player'[p].at = player[p].to
           /\ player'[p].for = player[p].for /\ player'[p].dead = player[p].dead
           /\ box' = Call(Take(p), map, player[p].at, Msg("LEAVEOK", player[p].at, p, TRUE))
<1>1. TypeOK /\ player \in [Player -> Traveller] /\ player[p] \in Traveller
    BY Typed DEF IInv
<1>2. /\ Got(p) /\ Top(p).type = "ALLOW" /\ player[p].step = "leave"
      /\ player' = [player EXCEPT ![p].step = "left", ![p].at = player[p].to]
      /\ box' = Call(Take(p), map, player[p].at, Msg("LEAVEOK", player[p].at, p, TRUE))
    BY DEF LeaveAllowed
<1> DEFINE traveller == [player[p] EXCEPT !.step = "left", !.at = player[p].to]
<1>3. /\ player' = [player EXCEPT ![p] = traveller] /\ traveller \in Traveller
      /\ traveller.step = "left" /\ traveller.at = player[p].to /\ traveller.to = player[p].to
      /\ traveller.for = player[p].for /\ traveller.dead = player[p].dead
    BY <1>1, <1>2 DEF Traveller
<1> HIDE DEF traveller
<1>4. player'[p] = traveller /\ \A q \in Player \ {p} : player'[q] = player[q]
    BY <1>1, <1>3, OnePlayer
<1> QED
    BY <1>2, <1>3, <1>4

LEMMA LeaveAllowedWhere ==
    ASSUME IInv, TalkInv, WhereInv, NEW p \in Player, LeaveAllowed(p)
    PROVE  WhereInv'
<1>1. Got(p) /\ Top(p).type \in {"ALLOW", "BAD"} /\ player[p].step = "leave" /\ UNCHANGED <<map, seen>>
    BY DEF LeaveAllowed, PlayerUnchanged
<1>2. TypeOK /\ Fares(p) /\ player[p].to \in Map /\ player[p].at \in Map
    BY FaresIs DEF IInv
<1>3. CASE Top(p).type = "BAD" \/ player[p].dead
    <2>1. End(SwitchError(p, Take(p)), p, player[p].at, FALSE)
        BY <1>3 DEF LeaveAllowed
    <2> QED
        BY <1>1, <2>1, SwitchErrorWhere
<1>4. CASE Top(p).type # "BAD" /\ ~player[p].dead
    <2>1. PICK to \in Map, m \in Map, type \in {"TRYMAPSWITCH", "TRYLEAVE", "LEAVEOK"}, flag \in BOOLEAN :
              to = player[p].to /\ m = player[p].at /\ type = "LEAVEOK" /\ flag = TRUE
        BY <1>2
    <2>2. /\ Top(p).type = "ALLOW"
          /\ \A q \in Player \ {p} : player'[q] = player[q]
          /\ player'[p].step = "left" /\ player'[p].to = to /\ player'[p].at = to
          /\ box' = Call(Take(p), map, m, Msg(type, m, p, flag))
        BY <1>4, <2>1, LeaveAllowedIs
    <2>3. PICK k \in Map :
              /\ Top(p).map = k /\ Top(p).by = p /\ k = m
              /\ \A n \in Map : /\ Take(p)[n] = box[n]
                                /\ N(box[n], Leaving(n, p)) = 0 /\ N(box[n], Leaves(n, p)) = 0
                                /\ N(Take(p)[p], Allowed(n, p)) = 0
                                /\ N(box[p], Allowed(n, p)) = IF n = k /\ Top(p).type = "ALLOW" THEN 1 ELSE 0
        BY <1>1, <2>1, HeardWhere
    <2>4. PICK b : b = Take(p)
        OBVIOUS
    <2>5. b \in Mailboxes /\ box \in Mailboxes /\ Aloof(box, b, p) /\ \A n \in Map : b[n] = box[n]
        BY <1>1, <2>3, <2>4, TakeOne
    <2>6. PICK d : d = Call(b, map, m, Msg(type, m, p, flag))
        OBVIOUS
    <2>7. b \in Mailboxes
        BY <2>5
    <2>8. /\ d \in Mailboxes /\ Aloof(b, d, p)
          /\ \A n \in Map :
                 /\ N(b[n], Late(n, p)) \in Nat
                 /\ N(d[n], Late(n, p)) = N(b[n], Late(n, p))
                 /\ N(d[n], Ok(n, p)) = N(b[n], Ok(n, p)) /\ N(d[n], Err(n, p)) = N(b[n], Err(n, p))
                 /\ N(d[n], Leaving(n, p)) # 0 => N(b[n], Leaving(n, p)) # 0 \/ (n = m /\ type = "TRYLEAVE")
                 /\ N(d[n], Leaves(n, p)) # 0 => N(b[n], Leaves(n, p)) # 0 \/ (n = m /\ type = "LEAVEOK")
                 /\ type = "LEAVEOK" /\ n = m /\ Live(m) => N(d[n], Leaves(n, p)) # 0
                 /\ N(d[p], Allowed(n, p)) = N(b[p], Allowed(n, p))
                 /\ N(d[p], Bad(n, p)) # 0 => N(b[p], Bad(n, p)) # 0 \/ (n = m /\ ~Live(m))
                 /\ \A ok : N(d[n], Told(n, p, ok)) = N(b[n], Told(n, p, ok))
        BY <2>6, <2>7, AskCounts
    <2>9. d = box'
        BY <2>2, <2>4, <2>6
    <2>10. Aloof(box, box', p)
        BY <2>5, <2>8, <2>9, AloofOn
    <2>11. ASSUME NEW n \in Map
           PROVE  /\ N(box'[n], Late(n, p)) = N(box[n], Late(n, p)) /\ N(box[n], Late(n, p)) \in Nat
                  /\ N(box'[n], Ok(n, p)) = N(box[n], Ok(n, p)) /\ N(box'[n], Err(n, p)) = N(box[n], Err(n, p))
                  /\ N(box'[n], Leaving(n, p)) = 0
                  /\ N(box'[n], Leaves(n, p)) # 0 => n = m
                  /\ n = m /\ Live(m) => N(box'[n], Leaves(n, p)) # 0
                  /\ N(box'[n], Told(n, p, TRUE)) = N(box[n], Told(n, p, TRUE))
        <3>1. b[n] = box[n] /\ N(b[n], Leaving(n, p)) = 0 /\ N(b[n], Leaves(n, p)) = 0
            BY <2>3, <2>5
        <3>2. /\ N(b[n], Late(n, p)) \in Nat
              /\ N(d[n], Late(n, p)) = N(b[n], Late(n, p))
              /\ N(d[n], Ok(n, p)) = N(b[n], Ok(n, p)) /\ N(d[n], Err(n, p)) = N(b[n], Err(n, p))
              /\ N(d[n], Leaving(n, p)) # 0 => N(b[n], Leaving(n, p)) # 0 \/ (n = m /\ type = "TRYLEAVE")
              /\ N(d[n], Leaves(n, p)) # 0 => N(b[n], Leaves(n, p)) # 0 \/ (n = m /\ type = "LEAVEOK")
              /\ type = "LEAVEOK" /\ n = m /\ Live(m) => N(d[n], Leaves(n, p)) # 0
              /\ \A ok : N(d[n], Told(n, p, ok)) = N(b[n], Told(n, p, ok))
            BY <2>8
        <3>3. N(d[n], Told(n, p, TRUE)) = N(b[n], Told(n, p, TRUE)) /\ type = "LEAVEOK"
            BY <2>1, <3>2
        <3>4. d[n] = box'[n]
            BY <2>9
        <3> QED
            BY <3>1, <3>2, <3>3, <3>4
    <2>12. Course(p)'
        BY <2>2, <2>11 DEF Course
    <2>13. to # m
        BY <1>1, <1>2, <2>1 DEF Fares, Course
    <2>14. ASSUME Where(p) PROVE Where(p)'
        <3>1. ASSUME NEW n \in Map
              PROVE  /\ Enters(p, n) /\ Stays(p, n)
                     /\ N(box[n], Late(n, p)) + (IF n = to THEN 1 ELSE 0) = (IF map[n].lock = p THEN 1 ELSE 0)
            <4>1. Enters(p, n) /\ Stays(p, n)
                BY <2>14 DEF Where
            <4>2. N(box[n], Late(n, p)) \in Nat
                BY <2>11
            <4>3. Entering(p, n) = N(box[n], Late(n, p)) + (IF n = to THEN 1 ELSE 0)
                BY <1>1, <2>1, <4>2 DEF Entering
            <4> QED
                BY <4>1, <4>3 DEF Enters
        <3>2. p \in map[m].grid /\ map[m].lock # p /\ Live(m)
            <4>1. Place(p)
                BY <2>14 DEF Where
            <4>2. N(box[p], Allowed(m, p)) # 0
                BY <2>2, <2>3
            <4>3. p \in map[m].grid
                BY <1>1, <2>1, <4>1, <4>2 DEF Place
            <4>4. Live(m)
                BY <4>3 DEF IInv, RegistryInv, State, Bare
            <4>5. map[m].lock # p
                BY <3>1, <4>3 DEF Stays
            <4> QED
                BY <4>3, <4>4, <4>5
        <3>3. ASSUME NEW n \in Map PROVE Enters(p, n)' /\ Stays(p, n)'
            <4>1. /\ Enters(p, n) /\ Stays(p, n)
                  /\ N(box[n], Late(n, p)) + (IF n = to THEN 1 ELSE 0) = (IF map[n].lock = p THEN 1 ELSE 0)
                BY <3>1
            <4>2. /\ N(box'[n], Late(n, p)) = N(box[n], Late(n, p)) /\ N(box[n], Late(n, p)) \in Nat
                  /\ N(box'[n], Late(n, p)) \in Nat
                BY <2>11
            <4>3. Entering(p, n)' = N(box'[n], Late(n, p)) + (IF n = to THEN 1 ELSE 0)
                BY <2>2, <4>2 DEF Entering
            <4>4. Entering(p, n)' = (IF map'[n].lock = p THEN 1 ELSE 0)
                BY <1>1, <4>1, <4>2, <4>3
            <4>5. N(box'[n], Err(n, p)) # 0 => to # n
                <5> SUFFICES ASSUME N(box'[n], Err(n, p)) # 0, to = n PROVE FALSE
                    OBVIOUS
                <5>1. N(box[n], Late(n, p)) # 0
                    BY <2>5, <2>11, Kinds
                <5>2. N(box[n], Late(n, p)) + 1 = (IF map[n].lock = p THEN 1 ELSE 0)
                    BY <4>1
                <5> QED
                    BY <4>2, <5>1, <5>2
            <4>6. N(box'[n], Ok(n, p)) = 0
                <5> SUFFICES ASSUME N(box'[n], Ok(n, p)) # 0 PROVE FALSE
                    OBVIOUS
                <5>1. N(box[n], Ok(n, p)) # 0
                    BY <2>11
                <5>2. n = m /\ N(box[n], Late(n, p)) # 0
                    BY <2>1, <2>5, <4>1, <5>1, Kinds DEF Enters
                <5>3. N(box[n], Late(n, p)) = (IF map[n].lock = p THEN 1 ELSE 0)
                    BY <2>13, <4>1, <4>2, <5>2
                <5> QED
                    BY <3>2, <5>2, <5>3
            <4>7. Enters(p, n)'
                BY <2>2, <4>4, <4>5, <4>6 DEF Enters
            <4>8. p \in map[n].grid => n = m
                BY <1>1, <2>1, <4>1 DEF Stays
            <4>9. Stays(p, n)'
                BY <1>1, <2>2, <2>11, <3>2, <4>1, <4>8 DEF Stays
            <4> QED
                BY <4>7, <4>9
        <3>4. Place(p)'
            BY <2>2 DEF Place
        <3> QED
            BY <3>3, <3>4 DEF Where
    <2>15. Fares(p)'
        BY <1>1, <1>2, <2>12, <2>14 DEF Fares
    <2>16. \A n \in Map : Noted(n)'
        BY <1>1 DEF WhereInv, Noted
    <2> QED
        BY <1>1, <1>2, <2>2, <2>10, <2>15, <2>16, AloofWhere
<1> QED
    BY <1>3, <1>4

LEMMA LeftWhere ==
    ASSUME IInv, TalkInv, WhereInv, NEW p \in Player, Left(p)
    PROVE  WhereInv'
<1>1. Got(p) /\ Top(p).type \in {"FINISHLEAVE", "BAD"} /\ player[p].step = "left" /\ UNCHANGED <<map, seen>>
    BY DEF Left, PlayerUnchanged
<1>2. TypeOK /\ Fares(p) /\ player[p].to \in Map /\ player[p].at \in Map
    BY FaresIs DEF IInv
<1>3. PICK k \in Map :
          /\ Top(p).map = k /\ Top(p).by = p
          /\ \A n \in Map : /\ Take(p)[n] = box[n]
                            /\ N(box[n], Leaving(n, p)) = 0 /\ N(box[n], Leaves(n, p)) = 0
                            /\ N(box[p], Allowed(n, p)) = IF n = k /\ Top(p).type = "ALLOW" THEN 1 ELSE 0
    BY <1>1, HeardWhere
<1>4. PICK at \in Map, flag \in BOOLEAN, type \in {"SWITCHOK", "SWITCHERROR"} :
          at = player[p].at /\ flag = TRUE /\ type = "SWITCHOK"
    BY <1>2
<1>5. player[p].to = at
    BY <1>1, <1>4 DEF TalkInv, Talks
<1>6. PICK b : b = Take(p)
    OBVIOUS
<1>7. b \in Mailboxes /\ Aloof(box, b, p) /\ \A n \in Map : b[n] = box[n]
    BY <1>1, <1>3, <1>6, TakeOne
<1>8. PICK d : d = Call(b, map, at, Msg(type, at, p, flag))
    OBVIOUS
<1>9. /\ d \in Mailboxes /\ Aloof(b, d, p)
      /\ \A n \in Map :
             /\ N(b[n], Late(n, p)) \in Nat
             /\ N(d[n], Late(n, p)) = N(b[n], Late(n, p)) + (IF n = at /\ Live(at) THEN 1 ELSE 0)
             /\ N(d[n], Ok(n, p)) # 0 => N(b[n], Ok(n, p)) # 0 \/ (n = at /\ type = "SWITCHOK")
             /\ N(d[n], Err(n, p)) # 0 => N(b[n], Err(n, p)) # 0 \/ (n = at /\ type = "SWITCHERROR")
             /\ N(d[n], Leaving(n, p)) = N(b[n], Leaving(n, p)) /\ N(d[n], Leaves(n, p)) = N(b[n], Leaves(n, p))
             /\ \A ok : N(d[n], Told(n, p, ok)) = N(b[n], Told(n, p, ok))
    BY <1>7, <1>8, LateCounts
<1>10. End(d, p, at, flag)
    BY <1>4, <1>6, <1>8 DEF Left
<1>11. Aloof(box, d, p)
    BY <1>7, <1>9, AloofOn
<1>12. \A n \in Map :
           /\ N(d[n], Leaving(n, p)) = 0 /\ N(d[n], Leaves(n, p)) = 0
           /\ N(d[n], Told(n, p, TRUE)) = N(box[n], Told(n, p, TRUE))
    <2> SUFFICES ASSUME NEW n \in Map
                 PROVE  /\ N(d[n], Leaving(n, p)) = 0 /\ N(d[n], Leaves(n, p)) = 0
                        /\ N(d[n], Told(n, p, TRUE)) = N(box[n], Told(n, p, TRUE))
        OBVIOUS
    <2>1. b[n] = box[n] /\ N(box[n], Leaving(n, p)) = 0 /\ N(box[n], Leaves(n, p)) = 0
        BY <1>3, <1>7
    <2> QED
        BY <1>9, <2>1
<1>13. ASSUME p \notin seen, Where(p)
       PROVE  /\ \A n \in Map :
                     /\ N(d[n], Late(n, p)) = (IF map[n].lock = p THEN 1 ELSE 0)
                     /\ N(d[n], Err(n, p)) # 0 => at # n
                     /\ N(d[n], Ok(n, p)) # 0 => at = n
                     /\ p \in map[n].grid => at = n /\ ~flag
              /\ p \in map[at].grid \/ map[at].lock = p
    <2>1. ASSUME NEW n \in Map PROVE N(box[n], Late(n, p)) + (IF n = at THEN 1 ELSE 0) = (IF map[n].lock = p THEN 1 ELSE 0)
        <3>1. Entering(p, n) = (IF map[n].lock = p THEN 1 ELSE 0)
            BY <1>13 DEF Where, Enters
        <3>2. N(box[n], Late(n, p)) \in Nat
            BY <1>7, <1>9
        <3>3. Entering(p, n) = N(box[n], Late(n, p)) + (IF n = at THEN 1 ELSE 0)
            BY <1>1, <1>5, <3>2 DEF Entering
        <3> QED
            BY <3>1, <3>3
    <2>2. map[at].lock = p
        <3>1. N(box[at], Late(at, p)) \in Nat
            BY <1>7, <1>9
        <3>2. N(box[at], Late(at, p)) + 1 = (IF map[at].lock = p THEN 1 ELSE 0)
            BY <2>1
        <3> QED
            BY <3>1, <3>2
    <2>3. Live(at)
        BY <2>2, Actors DEF IInv, RegistryInv, State, Bare
    <2>4. ASSUME NEW n \in Map
          PROVE  /\ N(d[n], Late(n, p)) = (IF map[n].lock = p THEN 1 ELSE 0)
                 /\ N(d[n], Err(n, p)) # 0 => at # n
                 /\ N(d[n], Ok(n, p)) # 0 => at = n
                 /\ p \in map[n].grid => at = n /\ ~flag
        <3>1. Enters(p, n) /\ Stays(p, n)
            BY <1>13 DEF Where
        <3>2. N(d[n], Late(n, p)) = (IF map[n].lock = p THEN 1 ELSE 0)
            <4>1. N(d[n], Late(n, p)) = N(box[n], Late(n, p)) + (IF n = at THEN 1 ELSE 0)
                BY <1>7, <1>9, <2>3
            <4> QED
                BY <2>1, <4>1
        <3>3. N(d[n], Err(n, p)) # 0 => at # n
            BY <1>4, <1>7, <1>9, <3>1 DEF Enters
        <3>4. N(d[n], Ok(n, p)) # 0 => at = n
            BY <1>4, <1>7, <1>9, <3>1 DEF Enters
        <3>5. p \notin map[n].grid
            BY <1>1, <1>3, <3>1 DEF Stays
        <3> QED
            BY <3>2, <3>3, <3>4, <3>5
    <2> QED
        BY <2>2, <2>4
<1> QED
    BY <1>1, <1>9, <1>10, <1>11, <1>12, <1>13, EndWhere

LEMMA TriggeredIs ==
    ASSUME IInv, NEW p \in Player, Triggered(p)
    PROVE  \E m \in Map :
               /\ m # Exit /\ Live(m) /\ map[m].todo # <<>> /\ Aloof(box, box', p)
               /\ \A q \in Player \ {p} : player'[q] = player[q]
               /\ \A n \in Map : \A ok : N(box'[n], Told(n, p, ok)) # 0 =>
                      \/ N(box[n], Told(n, p, ok)) # 0
                      \/ n = m /\ ok = CanMove(p) /\ (CanMove(p) => player[p].at = Exit)
<1>1. /\ Got(p) /\ Top(p).type = "TRIGGER" /\ p \in Actor /\ Core \in Actor /\ Exit \in Map /\ TypeOK /\ box \in Mailboxes
      /\ player \in [Player -> Traveller] /\ player[p] \in Traveller /\ UNCHANGED map
    BY Typed, Actors DEF Triggered, PlayerUnchanged, IInv, MailInv, Fit
<1>2. PICK m \in Map : Top(p).by = m /\ Live(m) /\ m # Exit /\ map[m].todo # <<>>
    <2>1. Top(p) \in For(p) /\ F(box, p, "TRIGGER", Top(p).map, Top(p).by) # 0
        BY <1>1, Handled
    <2>2. Top(p).by \in Map /\ Top(p).map = Exit
        BY <1>1, <2>1, Actors DEF For, ForPlayer
    <2> QED
        BY <2>1, <2>2, Sender
<1>3. Take(p) \in Mailboxes /\ Aloof(box, Take(p), p)
    <2>1. Top(p) \notin Others(p)
        BY <1>2, Actors DEF Others
    <2> QED
        BY <1>1, <2>1, HushTake DEF Aloof
<1>4. PICK ok \in BOOLEAN : ok = CanMove(p)
    BY DEF CanMove
<1>5. CASE ~CanMove(p) \/ player[p].at = Exit
    <2>1. box' = Report(Take(p), p, m, ok) /\ UNCHANGED player
        BY <1>2, <1>4, <1>5 DEF Triggered
    <2>2. box' = Put(Take(p), m, Msg("SWITCHED", m, p, ok))
        BY <1>2, <1>3, <2>1, ReportHush
    <2>3. PICK y \in Message : y = Msg("SWITCHED", m, p, ok) /\ y.by = p /\ y.map = m /\ y.flag = ok
        <3>1. PICK type \in MsgType : type = "SWITCHED"
            BY DEF MsgType
        <3>2. /\ Msg(type, m, p, ok) \in Message /\ Msg(type, m, p, ok).by = p
              /\ Msg(type, m, p, ok).map = m /\ Msg(type, m, p, ok).flag = ok
            BY TellIs
        <3> QED
            BY <3>1, <3>2
    <2>4. Aloof(Take(p), box', p)
        BY <1>3, <2>2, <2>3, Actors, AloofPut
    <2>5. ASSUME NEW n \in Map, NEW told, N(box'[n], Told(n, p, told)) # 0
          PROVE  N(box[n], Told(n, p, told)) # 0 \/ (n = m /\ told = CanMove(p) /\ (CanMove(p) => player[p].at = Exit))
        <3>1. PICK d : d = Put(Take(p), m, y)
            OBVIOUS
        <3>2. /\ N(box[n], Told(n, p, told)) \in Nat
              /\ N(d[n], Told(n, p, told)) = N(box[n], Told(n, p, told)) - (IF n = p /\ Top(p) \in Told(n, p, told) THEN 1 ELSE 0)
                      + (IF n = m /\ y \in Told(n, p, told) THEN 1 ELSE 0)
            BY <1>1, <3>1, Actors, PassCount
        <3>3. n # p /\ d = box'
            BY <2>2, <2>3, <3>1, Actors
        <3>4. N(box'[n], Told(n, p, told)) = N(box[n], Told(n, p, told)) + (IF n = m /\ y \in Told(n, p, told) THEN 1 ELSE 0)
            BY <3>2, <3>3
        <3>5. y \in Told(n, p, told) => told = ok
            BY <2>3 DEF Told
        <3>6. ok => player[p].at = Exit
            BY <1>4, <1>5
        <3> QED
            BY <1>4, <2>5, <3>2, <3>4, <3>5, <3>6
    <2> QED
        BY <1>2, <1>3, <2>1, <2>4, <2>5, AloofOn
<1>6. CASE CanMove(p) /\ player[p].at # Exit
    <2>1. /\ box' = Put(Take(p), Core, Msg("LOADMAP", Exit, p, FALSE))
          /\ player' = [player EXCEPT ![p].to = Exit, ![p].step = "load", ![p].for = m]
        BY <1>2, <1>6 DEF Triggered
    <2>2. \A q \in Player \ {p} : player'[q] = player[q]
        BY <1>1, <2>1
    <2>3. PICK y \in Message : y = Msg("LOADMAP", Exit, p, FALSE) /\ y.by = p /\ y.type = "LOADMAP"
        <3>1. PICK type \in MsgType, flag \in BOOLEAN, exit \in Map : type = "LOADMAP" /\ flag = FALSE /\ exit = Exit
            BY <1>1 DEF MsgType
        <3>2. /\ Msg(type, exit, p, flag) \in Message /\ Msg(type, exit, p, flag).by = p
              /\ Msg(type, exit, p, flag).type = type
            BY TellIs
        <3> QED
            BY <3>1, <3>2
    <2>4. Aloof(Take(p), box', p)
        BY <1>1, <1>3, <2>1, <2>3, AloofPut
    <2>5. ASSUME NEW n \in Map, NEW told, N(box'[n], Told(n, p, told)) # 0
          PROVE  N(box[n], Told(n, p, told)) # 0
        <3>1. PICK d : d = Put(Take(p), Core, y)
            OBVIOUS
        <3>2. /\ N(box[n], Told(n, p, told)) \in Nat
              /\ N(d[n], Told(n, p, told)) = N(box[n], Told(n, p, told)) - (IF n = p /\ Top(p) \in Told(n, p, told) THEN 1 ELSE 0)
                      + (IF n = Core /\ y \in Told(n, p, told) THEN 1 ELSE 0)
            BY <1>1, <3>1, Actors, PassCount
        <3>3. n # p /\ n # Core /\ d = box'
            BY <2>1, <2>3, <3>1, Actors
        <3> QED
            BY <2>5, <3>2, <3>3
    <2> QED
        BY <1>2, <1>3, <2>2, <2>4, <2>5, AloofOn
<1> QED
    BY <1>5, <1>6

LEMMA TriggeredWhere ==
    ASSUME IInv, TalkInv, WhereInv, NEW p \in Player, Triggered(p)
    PROVE  WhereInv'
<1>1. PICK m \in Map :
          /\ m # Exit /\ Aloof(box, box', p) /\ \A q \in Player \ {p} : player'[q] = player[q]
          /\ \A n \in Map : \A ok : N(box'[n], Told(n, p, ok)) # 0 =>
                 \/ N(box[n], Told(n, p, ok)) # 0
                 \/ n = m /\ ok = CanMove(p) /\ (CanMove(p) => player[p].at = Exit)
    BY TriggeredIs
<1>2. TypeOK /\ Fares(p) /\ player[p].to \in Map /\ player[p].at \in Map
    BY FaresIs DEF IInv
<1>3. UNCHANGED map /\ seen \subseteq seen' /\ Begins(p) /\ Hush(Spoken, box, box')
    <2>1. Calm(Spoken \cup Loads)
        BY TriggeredSilent
    <2>2. Hush(Spoken, box, box')
        BY <2>1, HushLess DEF Calm, Silent
    <2> QED
        BY <2>1, <2>2 DEF Calm, Silent, Triggered, PlayerUnchanged
<1>4. ASSUME NEW n \in Map
      PROVE  /\ N(box'[n], Late(n, p)) = N(box[n], Late(n, p)) /\ N(box'[p], Allowed(n, p)) = N(box[p], Allowed(n, p))
             /\ N(box'[n], Ok(n, p)) = N(box[n], Ok(n, p)) /\ N(box'[n], Err(n, p)) = N(box[n], Err(n, p))
             /\ N(box'[n], Leaving(n, p)) = N(box[n], Leaving(n, p)) /\ N(box'[n], Leaves(n, p)) = N(box[n], Leaves(n, p))
    <2>1. \A a \in Actor : \A S \in SUBSET Spoken : N(box'[a], S) = N(box[a], S)
        BY <1>3 DEF Hush
    <2>2. /\ Late(n, p) \in SUBSET Spoken /\ Allowed(n, p) \in SUBSET Spoken /\ Ok(n, p) \in SUBSET Spoken
          /\ Err(n, p) \in SUBSET Spoken /\ Leaving(n, p) \in SUBSET Spoken /\ Leaves(n, p) \in SUBSET Spoken
        BY DEF Late, Allowed, Ok, Err, Leaving, Leaves, From, Spoken, Talk
    <2> QED
        BY <2>1, <2>2, Actors
<1>5. /\ player'[p].at = player[p].at
      /\ \/ player'[p].step = player[p].step /\ player'[p].to = player[p].to
         \/ /\ player[p].step \in {"idle", "load"} /\ player'[p].step \in {"idle", "load"}
            /\ player'[p].step = "load" => player'[p].to # player'[p].at
    BY <1>3 DEF Begins
<1>6. Course(p)'
    BY <1>2, <1>4, <1>5 DEF Fares, Course
<1>7. ASSUME Where(p), NEW n \in Map PROVE Enters(p, n)' /\ Stays(p, n)'
    <2>1. Enters(p, n) /\ Stays(p, n)
        BY <1>7 DEF Where
    <2>2. Entering(p, n)' = Entering(p, n)
        BY <1>4, <1>5 DEF Entering
    <2>3. Enters(p, n)'
        BY <1>3, <1>4, <1>5, <2>1, <2>2 DEF Enters
    <2>4. player'[p].step = "left" <=> player[p].step = "left"
        BY <1>5
    <2>5. p \in map[n].grid => N(box'[n], Told(n, p, TRUE)) = 0
        <3> SUFFICES ASSUME p \in map[n].grid, N(box'[n], Told(n, p, TRUE)) # 0 PROVE FALSE
            OBVIOUS
        <3>1. N(box[n], Told(n, p, TRUE)) = 0
            BY <2>1 DEF Stays
        <3>4. PICK ok \in BOOLEAN : ok = TRUE
            OBVIOUS
        <3>5. N(box'[n], Told(n, p, ok)) # 0 /\ N(box[n], Told(n, p, ok)) = 0
            BY <3>1, <3>4
        <3>6. n = m /\ ok = CanMove(p) /\ (CanMove(p) => player[p].at = Exit)
            BY <1>1, <3>5
        <3>2. n = m /\ CanMove(p) /\ player[p].at = Exit
            BY <3>4, <3>6
        <3>3. player[p].at = m
            BY <2>1, <3>2 DEF Stays, CanMove
        <3> QED
            BY <1>1, <3>2, <3>3
    <2>6. Stays(p, n)'
        BY <1>3, <1>4, <1>5, <2>1, <2>4, <2>5 DEF Stays
    <2> QED
        BY <2>3, <2>6
<1>8. ASSUME Where(p) PROVE Place(p)'
    <2>1. Place(p)
        BY <1>8 DEF Where
    <2>2. (player'[p].step = "left" <=> player[p].step = "left") /\ (player'[p].step = "leave" <=> player[p].step = "leave")
        BY <1>5
    <2> QED
        BY <1>2, <1>3, <1>4, <1>5, <2>1, <2>2 DEF Place
<1>9. Fares(p)'
    BY <1>2, <1>3, <1>6, <1>7, <1>8 DEF Fares, Where
<1>10. \A n \in Map : Noted(n)'
    BY <1>3 DEF WhereInv, Noted
<1> QED
    BY <1>1, <1>2, <1>3, <1>9, <1>10, AloofWhere

\* A map that closes asks every player in its grid.
LEMMA OrderCovers ==
    ASSUME TypeOK, NEW m \in Map, NEW todo \in SetToSeqs(map[m].grid)
    PROVE  \A q \in map[m].grid : \E i \in DOMAIN todo : todo[i] = q
<1>1. IsFiniteSet(map[m].grid)
    <2>1. map[m].grid \in SUBSET Player /\ IsFiniteSet(Player)
        BY RegistryAssumption DEF TypeOK
    <2> QED
        BY <2>1, FS_Subset
<1> DEFINE D == 1 .. Cardinality(map[m].grid)
<1>2. Cardinality(map[m].grid) \in Nat
    BY <1>1, FS_CardinalityType
<1>3. Cardinality(D) = Cardinality(map[m].grid)
    BY <1>2, FS_Interval
<1>4. todo \in Injection(D, map[m].grid) /\ DOMAIN todo = D
    BY DEF SetToSeqs, Injection, IsInjective
<1>5. todo \in Surjection(D, map[m].grid)
    BY <1>1, <1>3, <1>4, FS_Injection
<1> QED
    BY <1>4, <1>5 DEF Surjection

\* That a player is sent away tells no map anything.
LEMMA SentOn ==
    ASSUME box \in Mailboxes, NEW m \in Map, Got(m), NEW p \in Player, box' = Put(Take(m), p, Msg("TRIGGER", Exit, m, TRUE))
    PROVE  \A q \in Player, n \in Map : \A ok : N(box'[n], Told(n, q, ok)) # 0 => N(box[n], Told(n, q, ok)) # 0
<1> SUFFICES ASSUME NEW q \in Player, NEW n \in Map, NEW ok, N(box'[n], Told(n, q, ok)) # 0
             PROVE  N(box[n], Told(n, q, ok)) # 0
    OBVIOUS
<1>1. m \in Actor /\ p \in Actor /\ n \in Actor /\ n # p /\ Exit \in Map
    BY Actors
<1>2. PICK y \in Message : y = Msg("TRIGGER", Exit, m, TRUE) /\ y.type = "TRIGGER"
    <2>1. PICK type \in MsgType, flag \in BOOLEAN, exit \in Map : type = "TRIGGER" /\ flag = TRUE /\ exit = Exit
        BY <1>1 DEF MsgType
    <2>2. Msg(type, exit, m, flag) \in Message /\ Msg(type, exit, m, flag).type = type
        BY <1>1, MessageIs
    <2> QED
        BY <2>1, <2>2
<1>3. PICK d : d = Put(Take(m), p, y)
    OBVIOUS
<1>4. /\ d \in Mailboxes /\ (y.by = Top(m).by => Aloof(box, d, y.by))
      /\ \A c \in Actor : \A S :
             /\ N(box[c], S) \in Nat /\ N(d[c], S) \in Nat
             /\ N(d[c], S) = N(box[c], S) - (IF c = m /\ Top(m) \in S THEN 1 ELSE 0)
                             + (IF c = p /\ y \in S THEN 1 ELSE 0)
             /\ c = m /\ Top(m) \in S => N(box[c], S) # 0
    BY <1>1, <1>3, PassCount
<1>5. d = box'
    BY <1>2, <1>3
<1>6. PICK S : S = Told(n, q, ok)
    OBVIOUS
<1>7. /\ N(box[n], S) \in Nat
      /\ N(d[n], S) = N(box[n], S) - (IF n = m /\ Top(m) \in S THEN 1 ELSE 0)
      /\ n = m /\ Top(m) \in S => N(box[n], S) # 0
    BY <1>1, <1>4
<1>8. N(d[n], S) # 0
    BY <1>5, <1>6
<1>9. N(box[n], S) # 0
    BY <1>7, <1>8
<1> QED
    BY <1>6, <1>9

LEMMA EvacuateNextWhere ==
    ASSUME IInv, WhereInv, NEW m \in Map, Got(m), Top(m).type \in {"LOADED", "SWITCHED"},
           NEW todo \in Seq(Player), todo # <<>>, Evacuate(Take(m), m, todo), UNCHANGED player, seen \subseteq seen',
           map[m].lock \in seen' \cup {None},
           \A q \in map[m].grid : q \notin seen' /\ Where(q) => \E i \in DOMAIN todo : todo[i] = q
    PROVE  WhereInv'
<1>1. /\ m \in Actor /\ Exit \in Map /\ TypeOK /\ box \in Mailboxes
      /\ map' = [map EXCEPT ![m].todo = todo] /\ box' = Put(Take(m), Head(todo), Msg("TRIGGER", Exit, m, TRUE))
    BY Actors DEF Evacuate, IInv, MailInv, Fit
<1>2. Hush(Spoken, box, box') /\ \A n \in Map : map'[n].lock = map[n].lock /\ map'[n].grid = map[n].grid
    <2>1. Silent(Spoken \cup Loads)
        BY EvacuateNextSilent
    <2> QED
        BY <2>1, HushLess DEF Silent
<1>3. map'[m].todo = todo /\ \A n \in Map \ {m} : map'[n] = map[n]
    <2>1. map \in [Map -> MapActor] /\ map[m] \in MapActor
        BY <1>1, Typed
    <2> QED
        BY <1>1, <2>1 DEF MapActor
<1>4. \A q \in Player, n \in Map : \A ok : N(box'[n], Told(n, q, ok)) # 0 => N(box[n], Told(n, q, ok)) # 0
    <2>1. PICK p \in Player : p = Head(todo)
        OBVIOUS
    <2>2. box' = Put(Take(m), p, Msg("TRIGGER", Exit, m, TRUE))
        BY <1>1, <2>1
    <2> QED
        BY <1>1, <2>2, SentOn
<1>5. ASSUME NEW q \in Player PROVE Fares(q)'
    <2>1. Fares(q)
        BY DEF WhereInv, Fares
    <2>2. ASSUME NEW n \in Map
          PROVE  /\ N(box'[n], Late(n, q)) = N(box[n], Late(n, q)) /\ N(box'[q], Allowed(n, q)) = N(box[q], Allowed(n, q))
                 /\ N(box'[n], Ok(n, q)) = N(box[n], Ok(n, q)) /\ N(box'[n], Err(n, q)) = N(box[n], Err(n, q))
                 /\ N(box'[n], Leaving(n, q)) = N(box[n], Leaving(n, q)) /\ N(box'[n], Leaves(n, q)) = N(box[n], Leaves(n, q))
        <3>1. \A a \in Actor : \A S \in SUBSET Spoken : N(box'[a], S) = N(box[a], S)
            BY <1>2 DEF Hush
        <3>2. /\ Late(n, q) \in SUBSET Spoken /\ Allowed(n, q) \in SUBSET Spoken /\ Ok(n, q) \in SUBSET Spoken
              /\ Err(n, q) \in SUBSET Spoken /\ Leaving(n, q) \in SUBSET Spoken /\ Leaves(n, q) \in SUBSET Spoken
            BY DEF Late, Allowed, Ok, Err, Leaving, Leaves, From, Spoken, Talk
        <3> QED
            BY <3>1, <3>2, Actors
    <2>3. Course(q)'
        BY <2>1, <2>2 DEF Fares, Course
    <2>4. ASSUME q \notin seen', Where(q), NEW n \in Map PROVE Enters(q, n)' /\ Stays(q, n)'
        <3>1. Enters(q, n) /\ Stays(q, n)
            BY <2>4 DEF Where
        <3>2. Entering(q, n)' = Entering(q, n)
            BY <2>2 DEF Entering
        <3>3. Enters(q, n)'
            BY <1>2, <2>2, <3>1, <3>2 DEF Enters
        <3>4. q \in map[n].grid => (map'[n].todo # <<>> => \E i \in DOMAIN map'[n].todo : map'[n].todo[i] = q)
            <4>1. CASE n = m
                BY <1>3, <2>4, <4>1
            <4>2. CASE n # m
                BY <1>3, <3>1, <4>2 DEF Stays
            <4> QED
                BY <4>1, <4>2
        <3>5. Stays(q, n)'
            BY <1>2, <1>4, <2>2, <3>1, <3>4 DEF Stays
        <3> QED
            BY <3>3, <3>5
    <2>5. ASSUME Where(q) PROVE Place(q)'
        <3>1. Place(q) /\ player[q].at \in Map
            BY <1>1, <2>5, FaresIs DEF Where
        <3> QED
            BY <1>2, <2>2, <3>1 DEF Place
    <2> QED
        BY <2>1, <2>3, <2>4, <2>5 DEF Fares, Where
<1>6. ASSUME NEW n \in Map PROVE Noted(n)'
    <2>1. map[n].todo # <<>> => map[n].lock \in seen \cup {None}
        BY DEF WhereInv, Noted
    <2>2. map'[n].lock = map[n].lock
        BY <1>2
    <2>3. n = m \/ map'[n].todo = map[n].todo
        BY <1>3
    <2> QED
        BY <2>1, <2>2, <2>3 DEF Noted
<1> QED
    BY <1>5, <1>6 DEF WhereInv, Fares

LEMMA EvacuateLastWhere ==
    ASSUME IInv, WhereInv, NEW m \in Map, NEW type \in {"LOADED", "SWITCHED"}, NEW where \in Map, NEW who \in Client,
           Turn(m, type, where, who), map' = [map EXCEPT ![m] = Shut], box' = LastBox(m), UNCHANGED player,
           seen \subseteq seen', map[m].lock \in seen' \cup {None},
           \A q \in map[m].grid : q \notin seen' => ~Where(q)
    PROVE  WhereInv'
<1>1. TypeOK /\ box \in Mailboxes
    BY DEF IInv, MailInv, Fit
<1>2. /\ box'[m] = <<>> /\ \A n \in Map \ {m} : box'[n] = box[n]
      /\ \A q \in Player, n \in Map : N(box'[q], Allowed(n, q)) = N(box[q], Allowed(n, q))
    BY LastSent, LastWords
<1>3. /\ map'[m].grid = {} /\ map'[m].lock = None /\ map'[m].todo = <<>>
      /\ \A n \in Map \ {m} : map'[n] = map[n]
    <2>1. map'[m] = Shut /\ \A n \in Map \ {m} : map'[n] = map[n]
        BY <1>1, ShutIs, OneMap
    <2> QED
        BY <2>1, ShutIs
<1>4. \A S : N(box'[m], S) = 0
    BY <1>2, CountEmpty
<1>5. ASSUME NEW q \in Player PROVE Fares(q)'
    <2>1. Fares(q) /\ player[q].at \in Map
        BY <1>1, FaresIs
    <2>2. Course(q)'
        <3>1. ASSUME NEW n \in Map
              PROVE  /\ N(box'[n], Leaving(n, q)) # 0 => player[q].step = "leave"
                     /\ N(box'[n], Leaves(n, q)) # 0 => player[q].step = "left"
            BY <1>2, <1>4, <2>1 DEF Fares, Course
        <3> QED
            BY <2>1, <3>1 DEF Fares, Course
    <2>3. ASSUME q \notin seen', Where(q) PROVE Where(q)'
        <3>1. q \notin map[m].grid /\ map[m].lock # q
            BY <2>3, Actors
        <3>2. ASSUME NEW n \in Map, n # m PROVE Enters(q, n)' /\ Stays(q, n)'
            <4>1. Enters(q, n) /\ Stays(q, n)
                BY <2>3 DEF Where
            <4>2. box'[n] = box[n] /\ map'[n] = map[n] /\ N(box'[q], Allowed(n, q)) = N(box[q], Allowed(n, q))
                BY <1>2, <1>3, <3>2
            <4>3. Entering(q, n)' = Entering(q, n)
                BY <4>2 DEF Entering
            <4> QED
                BY <4>1, <4>2, <4>3 DEF Enters, Stays
        <3>3. Enters(q, m)' /\ Stays(q, m)'
            <4>1. Entering(q, m) = 0
                BY <2>3, <3>1 DEF Where, Enters
            <4>2. N(box[m], Late(m, q)) \in Nat /\ N(box[q], Allowed(m, q)) \in Nat
                BY <1>1, BoxNat, Actors
            <4>3. Entering(q, m)' = 0
                <5>1. N(box'[m], Late(m, q)) = 0 /\ N(box'[q], Allowed(m, q)) = N(box[q], Allowed(m, q))
                    BY <1>2, <1>4
                <5>2. /\ (IF player[q].step = "try" /\ player[q].to = m THEN N(box[q], Allowed(m, q)) ELSE 0) = 0
                      /\ (IF player[q].step \in {"leave", "left"} /\ player[q].to = m THEN 1 ELSE 0) = 0
                    BY <4>1, <4>2 DEF Entering
                <5> QED
                    BY <5>1, <5>2 DEF Entering
            <4>4. Enters(q, m)'
                BY <1>3, <1>4, <4>3, Actors DEF Enters
            <4>5. Stays(q, m)'
                BY <1>3, <1>4 DEF Stays
            <4> QED
                BY <4>4, <4>5
        <3>4. Place(q)'
            <4>1. Place(q)
                BY <2>3 DEF Where
            <4>2. N(box'[q], Allowed(player[q].at, q)) = N(box[q], Allowed(player[q].at, q))
                BY <1>2, <2>1
            <4>3. CASE player[q].at = m
                <5>1. player[q].step = "left"
                    BY <3>1, <4>1, <4>3 DEF Place
                <5> QED
                    BY <5>1 DEF Place
            <4>4. CASE player[q].at # m
                BY <1>3, <2>1, <4>1, <4>2, <4>4 DEF Place
            <4> QED
                BY <4>3, <4>4
        <3> QED
            BY <3>2, <3>3, <3>4 DEF Where
    <2> QED
        BY <2>1, <2>2, <2>3 DEF Fares
<1>6. ASSUME NEW n \in Map PROVE Noted(n)'
    BY <1>3 DEF WhereInv, Noted
<1> QED
    BY <1>5, <1>6 DEF WhereInv, Fares

LEMMA EvacuateWhere ==
    ASSUME IInv, WhereInv, NEW m \in Map, NEW type \in {"LOADED", "SWITCHED"}, NEW where \in Map, NEW who \in Client,
           Turn(m, type, where, who), NEW todo \in Seq(Player), Evacuate(Take(m), m, todo), UNCHANGED player,
           seen \subseteq seen', map[m].lock \in seen' \cup {None},
           \A q \in map[m].grid : q \notin seen' /\ Where(q) => \E i \in DOMAIN todo : todo[i] = q
    PROVE  WhereInv'
<1>1. CASE todo # <<>>
    <2>1. Got(m) /\ Is(Top(m), type, where, who)
        BY DEF Turn
    <2>2. Got(m) /\ Top(m).type \in {"LOADED", "SWITCHED"}
        BY <2>1 DEF Is
    <2> QED
        BY <1>1, <2>2, EvacuateNextWhere
<1>2. CASE todo = <<>>
    <2>1. map' = [map EXCEPT ![m] = Shut] /\ box' = LastBox(m)
        BY <1>2 DEF Evacuate, Shut, LastBox, LastPosts, Answered
    <2>2. \A q \in map[m].grid : q \notin seen' => ~Where(q)
        BY <1>2
    <2> QED
        BY <2>1, <2>2, EvacuateLastWhere
<1> QED
    BY <1>1, <1>2

LEMMA ExitLoadedWhere ==
    ASSUME IInv, WhereInv, NEW m \in Map, ExitLoaded(m)
    PROVE  WhereInv'
<1>1. Got(m) /\ Top(m).type = "LOADED" /\ m \in Actor /\ m \in Client /\ TypeOK /\ UNCHANGED player
    BY Actors DEF ExitLoaded, MapUnchanged, IInv, Client
<1>2. Top(m).map = Exit /\ Top(m).by = m /\ Top(m).flag = TRUE /\ F(box, m, "LOADED", Exit, m) # 0
    <2>1. Top(m) \in For(m) /\ F(box, m, "LOADED", Top(m).map, Top(m).by) # 0
        BY <1>1, Handled
    <2>2. Top(m).map = Exit /\ Top(m).by = m /\ Top(m).flag = TRUE
        BY <1>1, <2>1, Actors DEF For, ForMap
    <2> QED
        BY <2>1, <2>2
<1>3. map[m].closing # None /\ map[m].todo = <<>>
    <2>1. Wants(m, Exit)
        BY <1>1, <1>2, Requested, Actors
    <2> QED
        BY <2>1, Actors DEF Wants
<1>4. Turn(m, "LOADED", Exit, m)
    BY <1>1, <1>2, <1>3 DEF Turn, Is
<1>5. PICK todo \in SetToSeqs(map[m].grid) : Evacuate(Take(m), m, todo)
    BY <1>2 DEF ExitLoaded
<1>6. seen \subseteq seen' /\ map[m].lock \in seen' \cup {None}
    BY <1>2 DEF ExitLoaded, Note
<1>7. todo \in Seq(Player) /\ \A q \in map[m].grid : \E i \in DOMAIN todo : todo[i] = q
    BY <1>1, Orders, OrderCovers
<1>8. PICK type \in {"LOADED", "SWITCHED"}, where \in Map : type = "LOADED" /\ where = Exit
    BY Actors
<1> QED
    BY <1>1, <1>4, <1>5, <1>6, <1>7, <1>8, EvacuateWhere

LEMMA EvacuatedWhere ==
    ASSUME IInv, WhereInv, NEW m \in Map, Evacuated(m)
    PROVE  WhereInv'
<1>1. Got(m) /\ Top(m).type = "SWITCHED" /\ m \in Actor /\ TypeOK /\ UNCHANGED <<player, seen>> /\ box \in Mailboxes
    BY Actors DEF Evacuated, MapUnchanged, IInv, MailInv, Fit
<1>2. PICK p \in Player : Top(m).map = m /\ Top(m).by = p /\ F(box, m, "SWITCHED", m, p) # 0 /\ Top(m) \in Message
    <2>1. Top(m) \in For(m) /\ F(box, m, "SWITCHED", Top(m).map, Top(m).by) # 0 /\ Top(m) \in Message
        BY <1>1, Handled
    <2>2. Top(m).map = m /\ Top(m).by \in Player
        BY <1>1, <2>1, Actors DEF For, ForMap
    <2> QED
        BY <2>1, <2>2
<1>3. map[m].todo # <<>> /\ Head(map[m].todo) = p /\ map[m].closing # None
    BY <1>2, Sender
<1>4. map[m].todo \in Seq(Player)
    BY <1>1 DEF TypeOK
<1>5. CASE Top(m).flag
    <2>1. Evacuate(Take(m), m, Tail(map[m].todo))
        BY <1>5 DEF Evacuated
    <2>2. Turn(m, "SWITCHED", m, p)
        BY <1>1, <1>2, <1>3 DEF Turn, Is
    <2>9. Tail(map[m].todo) \in Seq(Player)
        BY <1>3, <1>4
    <2>3. PICK rest \in Seq(Player) : rest = Tail(map[m].todo)
        BY <2>9, Zenon
    <2>4. PICK type \in {"LOADED", "SWITCHED"}, who \in Client : type = "SWITCHED" /\ who = p
        BY DEF Client
    <2>5. map[m].lock \in seen' \cup {None} /\ seen \subseteq seen'
        BY <1>1, <1>3 DEF WhereInv, Noted
    <2>6. N(box[m], Told(m, p, TRUE)) # 0
        <3>1. Top(m).flag = TRUE
            BY <1>2, <1>5 DEF Message
        <3>2. Top(m) \in Told(m, p, TRUE)
            BY <1>1, <1>2, <3>1 DEF Told, From
        <3> QED
            BY <1>1, <3>2, TopThere
    <2>7. ASSUME NEW q \in map[m].grid, Where(q) PROVE \E i \in DOMAIN rest : rest[i] = q
        <3>1. q \in Player
            BY <1>1 DEF TypeOK
        <3>2. Stays(q, m)
            BY <2>7, <3>1 DEF Where
        <3>3. q # p
            BY <2>6, <3>2 DEF Stays
        <3>4. PICK i \in DOMAIN map[m].todo : map[m].todo[i] = q
            BY <1>3, <3>2 DEF Stays
        <3>5. i # 1
            BY <1>3, <1>4, <3>3, <3>4
        <3>6. i - 1 \in DOMAIN rest /\ rest[i - 1] = map[m].todo[i]
            BY <1>3, <1>4, <2>3, <3>5
        <3> QED
            BY <3>4, <3>6
    <2>8. Evacuate(Take(m), m, rest) /\ Turn(m, type, m, who) /\ UNCHANGED player
        BY <1>1, <2>1, <2>2, <2>3, <2>4
    <2> QED
        BY <2>5, <2>7, <2>8, EvacuateWhere
<1>6. CASE ~Top(m).flag
    <2>1. UNCHANGED <<map, box, player, seen>>
        BY <1>1, <1>6 DEF Evacuated
    <2> QED
        BY <1>1, <2>1, StraySilent, CalmWhere
<1> QED
    BY <1>5, <1>6

LEMMA StartWhere ==
    ASSUME Init
    PROVE  WhereInv
<1>1. /\ box = [a \in Actor |-> <<>>]
      /\ player = [p \in Player |-> [at |-> Home, to |-> Home, step |-> "idle", for |-> None, dead |-> FALSE, n |-> 0]]
    BY DEF Init
<1>2. \A m \in Map : /\ map[m].lock = None /\ map[m].todo = <<>>
                     /\ map[m].grid = IF m = Home THEN Player ELSE {}
    <2> SUFFICES ASSUME NEW m \in Map
                 PROVE  /\ map[m].lock = None /\ map[m].todo = <<>>
                        /\ map[m].grid = IF m = Home THEN Player ELSE {}
        OBVIOUS
    <2>1. PICK setup \in Setups :
              map = [n \in Map |-> IF n = Home THEN [NewMap EXCEPT !.active = TRUE, !.grid = Player]
                                   ELSE IF n \in setup.loaded THEN [NewMap EXCEPT !.active = TRUE]
                                   ELSE NoMap]
        BY DEF Init
    <2>2. map[m] = IF m = Home THEN [NewMap EXCEPT !.active = TRUE, !.grid = Player]
                   ELSE IF m \in setup.loaded THEN [NewMap EXCEPT !.active = TRUE]
                   ELSE NoMap
        BY <2>1
    <2>3. NoMap \in [state : {"none"}, active : {FALSE}, closing : {None}, todo : {<<>>}, waiting : {<<>>},
                     grid : {{}}, lock : {None}]
        BY DEF NoMap
    <2>4. NewMap \in [state : {"live"}, active : {FALSE}, closing : {None}, todo : {<<>>}, waiting : {<<>>},
                      grid : {{}}, lock : {None}]
        BY <2>3 DEF NewMap
    <2> QED
        BY <2>2, <2>3, <2>4
<1>3. \A c \in Actor : \A S : N(box[c], S) = 0
    BY <1>1, CountEmpty
<1>4. ASSUME NEW p \in Player PROVE Course(p) /\ Where(p)
    <2>1. player[p].step = "idle" /\ player[p].at = Home /\ p # None /\ p \in Actor
        BY <1>1, Actors
    <2>2. ASSUME NEW m \in Map PROVE Enters(p, m) /\ Stays(p, m)
        <3>1. \A S : N(box[m], S) = 0 /\ N(box[p], S) = 0
            BY <1>3, <2>1, Actors
        <3>2. Entering(p, m) = 0
            BY <2>1, <3>1 DEF Entering
        <3>3. Enters(p, m)
            BY <1>2, <2>1, <3>1, <3>2 DEF Enters
        <3>4. Stays(p, m)
            BY <1>2, <2>1, <3>1 DEF Stays
        <3> QED
            BY <3>3, <3>4
    <2>3. Place(p)
        BY <1>2, <2>1, Actors DEF Place
    <2>4. Course(p)
        BY <1>3, <2>1, Actors DEF Course
    <2> QED
        BY <2>2, <2>3, <2>4 DEF Where
<1> QED
    BY <1>2, <1>4 DEF WhereInv, Noted

LEMMA NextWhere ==
    ASSUME IInv, TalkInv, WhereInv, Next
    PROVE  WhereInv'
<1>1. CASE CalmStep
    BY <1>1, CalmSteps, CalmWhere DEF IInv
<1>2. ASSUME NEW m \in Map, MapStep(m)
      PROVE  CalmStep \/ WhereInv'
    <2>1. CASE ExitLoaded(m) \/ Evacuated(m)
        BY <2>1, ExitLoadedWhere, EvacuatedWhere
    <2>2. CASE TryMapSwitch(m) \/ SwitchDone(m) \/ TryLeave(m) \/ LeaveOK(m)
        BY <2>2, TryMapSwitchWhere, SwitchDoneWhere, TryLeaveWhere, LeaveOKWhere
    <2> QED
        BY <1>2, <2>1, <2>2 DEF MapStep, CalmStep
<1>3. ASSUME NEW p \in Player, PlayerAnswered(p)
      PROVE  WhereInv'
    BY <1>3, TriggeredWhere, SwitchLoadedWhere, SwitchAllowedWhere, LeaveAllowedWhere, LeftWhere DEF PlayerAnswered
<1> QED
    BY <1>1, <1>2, <1>3 DEF Next, Server, CalmStep

LEMMA StutterWhere ==
    ASSUME IInv, WhereInv, UNCHANGED vars
    PROVE  WhereInv'
<1>1. UNCHANGED <<map, box, player, seen>> /\ TypeOK
    BY DEF vars, IInv
<1> QED
    BY <1>1, StraySilent, CalmWhere

(* A player that no closing map has let in is where its map thinks it is: in*)
(* the grid of that map, or with the map's cell locked until the player     *)
(* tells it that it has come (servermapop.cpp, battleobject.cpp).           *)
THEOREM PlayersAreSomewhere == Spec => []WhereInv
<1>1. Init => WhereInv
    BY StartWhere
<1>2. IInv /\ TalkInv /\ WhereInv /\ [Next]_vars => WhereInv'
    BY NextWhere, StutterWhere
<1> QED
    BY <1>1, <1>2, RegistryCounts, SwitchesTalk, PTL DEF Spec

LEMMA NoneStays ==
    ASSUME IInv, WhereInv
    PROVE  NobodyLeftBehind
<1> SUFFICES ASSUME NEW p \in Player, player[p].step = "idle", ~Live(player[p].at), p \notin seen
             PROVE  FALSE
    BY DEF NobodyLeftBehind, Live
<1>1. player[p].at \in Map /\ TypeOK /\ p # None
    BY FaresIs, Actors DEF IInv
<1>2. Bare(player[p].at)
    BY <1>1 DEF IInv, RegistryInv, State
<1>3. p \in map[player[p].at].grid \/ map[player[p].at].lock = p
    BY DEF WhereInv, Where, Place
<1> QED
    BY <1>1, <1>2, <1>3 DEF Bare

(* A map that closes sends every player of its grid away before it goes, so *)
(* who is still on a closed map was entering it when it closed: its cell was*)
(* locked, but the grid that on_AM_CLOSEMAP walks did not have the player   *)
(* yet (servermapop.cpp).                                                   *)
THEOREM NoneLeftBehind == Spec => []NobodyLeftBehind
<1>1. IInv /\ WhereInv => NobodyLeftBehind
    BY NoneStays
<1> QED
    BY <1>1, RegistryCounts, PlayersAreSomewhere, PTL

-----------------------------------------------------------------------------
(* Why a player refuses to go, and a map meets one that it does not know.   *)

Excused(p) == player[p].dead \/ seen \cap {"busy", "locked", p} # {}
Excuse(p) ==
    /\ player[p].for # None => player[p].to = Exit
    /\ F(box, p, "LOADED", Exit, p) # 0 => Exit \in coreList
    /\ player[p].step = "try" /\ player[p].to = Exit /\ N(box[p], Bad(Exit, p)) # 0 => Excused(p)
    /\ player[p].step = "leave" /\ N(box[p], Bad(player[p].at, p)) # 0 => Excused(p)
    /\ \A m \in Map : N(box[m], Told(m, p, FALSE)) # 0 => Excused(p)
\* What p has told a map about an earlier switch is before what it asks it.
Ordered(m, p) == ~Before(box[m], Leaving(m, p), Late(m, p))
Fine(p) == Excuse(p) /\ \A m \in Map : Ordered(m, p)
ExcuseInv == \A p \in Player : Fine(p)

LEMMA ExcuseStays ==
    ASSUME NEW q, Excused(q), player[q].dead => player'[q].dead, seen \subseteq seen'
    PROVE  Excused(q)'
BY DEF Excused

(* A player of whom nothing more is heard in a step.                        *)
LEMMA ExcuseMostly ==
    ASSUME NEW q \in Player, Begins(q), seen \subseteq seen', Fine(q), player[q].at \in Map,
           F(box', q, "LOADED", Exit, q) # 0 => Exit \in coreList',
           \A m \in Map : /\ N(box'[q], Bad(m, q)) # 0 /\ (m = Exit \/ player[q].step = "leave") => N(box[q], Bad(m, q)) # 0 \/ Excused(q)'
                          /\ N(box'[m], Told(m, q, FALSE)) # 0 => N(box[m], Told(m, q, FALSE)) # 0 \/ Excused(q)'
                          /\ Before(box'[m], Leaving(m, q), Late(m, q)) => Before(box[m], Leaving(m, q), Late(m, q))
    PROVE  Fine(q)'
<1>1. /\ player'[q].at = player[q].at
      /\ \/ player'[q].for = None
         \/ player'[q].to = Exit
         \/ player'[q].for = player[q].for /\ player'[q].to = player[q].to
      /\ \/ player'[q].step = player[q].step /\ player'[q].to = player[q].to
         \/ player[q].step \in {"idle", "load"} /\ player'[q].step \in {"idle", "load"}
    BY DEF Begins
<1>2. Excused(q) => Excused(q)'
    BY ExcuseStays DEF Begins
<1>3. player'[q].for # None => player'[q].to = Exit
    BY <1>1 DEF Fine, Excuse
<1>4. player'[q].step = "try" /\ player'[q].to = Exit /\ N(box'[q], Bad(Exit, q)) # 0 => Excused(q)'
    BY <1>1, <1>2, Actors DEF Fine, Excuse
<1>5. player'[q].step = "leave" /\ N(box'[q], Bad(player'[q].at, q)) # 0 => Excused(q)'
    <2> SUFFICES ASSUME player'[q].step = "leave", N(box'[q], Bad(player'[q].at, q)) # 0 PROVE Excused(q)'
        OBVIOUS
    <2>1. player[q].step = "leave" /\ player'[q].at = player[q].at
        BY <1>1
    <2>2. N(box'[q], Bad(player[q].at, q)) # 0
        BY <2>1
    <2>3. N(box[q], Bad(player[q].at, q)) # 0 \/ Excused(q)'
        BY <2>1, <2>2
    <2>4. N(box[q], Bad(player[q].at, q)) # 0 => Excused(q)
        BY <2>1 DEF Fine, Excuse
    <2> QED
        BY <1>2, <2>3, <2>4
<1>6. \A m \in Map : N(box'[m], Told(m, q, FALSE)) # 0 => Excused(q)'
    BY <1>2 DEF Fine, Excuse
<1>7. Excuse(q)'
    BY <1>3, <1>4, <1>5, <1>6 DEF Excuse
<1> QED
    BY <1>7 DEF Fine, Ordered

LEMMA ExcuseRest ==
    ASSUME NEW q \in Player, Begins(q), seen \subseteq seen', Fine(q), player[q].at \in Map,
           F(box', q, "LOADED", Exit, q) # 0 => Exit \in coreList',
           \A m \in Map : /\ N(box'[q], Bad(m, q)) # 0 => N(box[q], Bad(m, q)) # 0 \/ Excused(q)'
                          /\ N(box'[m], Told(m, q, FALSE)) # 0 => N(box[m], Told(m, q, FALSE)) # 0 \/ Excused(q)'
                          /\ Before(box'[m], Leaving(m, q), Late(m, q)) => Before(box[m], Leaving(m, q), Late(m, q))
    PROVE  Fine(q)'
<1>1. \A m \in Map :
          /\ N(box'[q], Bad(m, q)) # 0 /\ (m = Exit \/ player[q].step = "leave") => N(box[q], Bad(m, q)) # 0 \/ Excused(q)'
          /\ N(box'[m], Told(m, q, FALSE)) # 0 => N(box[m], Told(m, q, FALSE)) # 0 \/ Excused(q)'
          /\ Before(box'[m], Leaving(m, q), Late(m, q)) => Before(box[m], Leaving(m, q), Late(m, q))
    OBVIOUS
<1> QED
    BY <1>1, ExcuseMostly

\* A step of which nothing is heard within K.
LEMMA ExcuseHush ==
    ASSUME NEW q \in Player, NEW K, Hush(K, box, box'),
           \A m \in Map : /\ Bad(m, q) \in SUBSET K /\ Told(m, q, FALSE) \in SUBSET K
                          /\ Leaving(m, q) \in SUBSET K /\ Late(m, q) \in SUBSET K
    PROVE  \A m \in Map : /\ N(box'[q], Bad(m, q)) # 0 => N(box[q], Bad(m, q)) # 0
                          /\ N(box'[m], Told(m, q, FALSE)) # 0 => N(box[m], Told(m, q, FALSE)) # 0
                          /\ Before(box'[m], Leaving(m, q), Late(m, q)) => Before(box[m], Leaving(m, q), Late(m, q))
<1>1. \A c \in Actor : \A S, T \in SUBSET K :
          N(box'[c], S) = N(box[c], S) /\ (Before(box'[c], S, T) => Before(box[c], S, T))
    BY DEF Hush
<1> SUFFICES ASSUME NEW m \in Map
             PROVE  /\ N(box'[q], Bad(m, q)) # 0 => N(box[q], Bad(m, q)) # 0
                    /\ N(box'[m], Told(m, q, FALSE)) # 0 => N(box[m], Told(m, q, FALSE)) # 0
                    /\ Before(box'[m], Leaving(m, q), Late(m, q)) => Before(box[m], Leaving(m, q), Late(m, q))
    OBVIOUS
<1>2. q \in Actor /\ m \in Actor
    BY Actors
<1>3. N(box'[q], Bad(m, q)) = N(box[q], Bad(m, q)) /\ N(box'[m], Told(m, q, FALSE)) = N(box[m], Told(m, q, FALSE))
    BY <1>1, <1>2
<1>4. Before(box'[m], Leaving(m, q), Late(m, q)) => Before(box[m], Leaving(m, q), Late(m, q))
    BY <1>1, <1>2
<1> QED
    BY <1>3, <1>4

LEMMA KindsOfExcuse ==
    ASSUME NEW q \in Player
    PROVE  /\ \A m : /\ Bad(m, q) \in SUBSET Spoken /\ Leaving(m, q) \in SUBSET Spoken
                     /\ Late(m, q) \in SUBSET Spoken /\ Told(m, q, FALSE) \in SUBSET Replies
                     /\ From("LOADED", m, q) \in SUBSET Loads
           /\ \A p \in Player \ {q} : \A m :
                     /\ Bad(m, q) \in SUBSET Others(p) /\ Leaving(m, q) \in SUBSET Others(p)
                     /\ Late(m, q) \in SUBSET Others(p) /\ Told(m, q, FALSE) \in SUBSET Others(p)
                     /\ From("LOADED", m, q) \in SUBSET Others(p)
<1>1. \A m : /\ Bad(m, q) \in SUBSET Spoken /\ Leaving(m, q) \in SUBSET Spoken
             /\ Late(m, q) \in SUBSET Spoken /\ Told(m, q, FALSE) \in SUBSET Replies
    BY DEF Bad, Leaving, Late, Told, From, Spoken, Talk, Replies
<1>2. \A m : From("LOADED", m, q) \in SUBSET Loads
    BY DEF From, Loads
<1>3. \A p \in Player \ {q} : \A m :
          /\ Bad(m, q) \in SUBSET Others(p) /\ Leaving(m, q) \in SUBSET Others(p)
          /\ Late(m, q) \in SUBSET Others(p) /\ Told(m, q, FALSE) \in SUBSET Others(p)
          /\ From("LOADED", m, q) \in SUBSET Others(p)
    BY DEF Bad, Leaving, Late, Told, From, Others
<1> QED
    BY <1>1, <1>2, <1>3

(* A step about one player.                                                 *)
LEMMA AloofExcuse ==
    ASSUME TypeOK, ExcuseInv, NEW p \in Player, Aloof(box, box', p), \A q \in Player \ {p} : player'[q] = player[q],
           seen \subseteq seen', UNCHANGED coreList, Fine(p)'
    PROVE  ExcuseInv'
<1>1. ASSUME NEW q \in Player \ {p} PROVE Fine(q)'
    <2>1. PICK K : K = Others(p)
        OBVIOUS
    <2>2. Hush(K, box, box')
        BY <2>1 DEF Aloof
    <2>3. \A m \in Map : /\ Bad(m, q) \in SUBSET K /\ Told(m, q, FALSE) \in SUBSET K
                         /\ Leaving(m, q) \in SUBSET K /\ Late(m, q) \in SUBSET K
        BY <2>1, KindsOfExcuse
    <2>4. \A m \in Map : /\ N(box'[q], Bad(m, q)) # 0 => N(box[q], Bad(m, q)) # 0
                         /\ N(box'[m], Told(m, q, FALSE)) # 0 => N(box[m], Told(m, q, FALSE)) # 0
                         /\ Before(box'[m], Leaving(m, q), Late(m, q)) => Before(box[m], Leaving(m, q), Late(m, q))
        BY <2>2, <2>3, ExcuseHush
    <2>5. Fine(q) /\ player[q].at \in Map
        BY Typed DEF ExcuseInv, Traveller
    <2>6. F(box', q, "LOADED", Exit, q) # 0 => Exit \in coreList'
        <3>1. From("LOADED", Exit, q) \in SUBSET K
            BY <2>1, KindsOfExcuse
        <3>2. N(box'[q], From("LOADED", Exit, q)) = N(box[q], From("LOADED", Exit, q))
            BY <2>2, <3>1, Actors DEF Hush
        <3> QED
            BY <2>5, <3>2 DEF F, Fine, Excuse
    <2>7. Begins(q)
        BY DEF Begins
    <2> QED
        BY <2>4, <2>5, <2>6, <2>7, ExcuseRest
<1>2. \A q \in Player : Fine(q)'
    BY <1>1
<1> QED
    BY <1>2 DEF ExcuseInv

(* A step in which nobody's switch goes on.                                 *)
LEMMA CalmExcuse ==
    ASSUME TypeOK, ExcuseInv, Calm(Spoken \cup Replies),
           \A q \in Player : F(box', q, "LOADED", Exit, q) # 0 => Exit \in coreList'
    PROVE  ExcuseInv'
<1>1. ASSUME NEW q \in Player PROVE Fine(q)'
    <2>1. PICK K : K = Spoken \cup Replies
        OBVIOUS
    <2>2. Hush(K, box, box') /\ Begins(q) /\ seen \subseteq seen'
        BY <2>1 DEF Calm, Silent
    <2>3. \A m \in Map : /\ Bad(m, q) \in SUBSET K /\ Told(m, q, FALSE) \in SUBSET K
                         /\ Leaving(m, q) \in SUBSET K /\ Late(m, q) \in SUBSET K
        BY <2>1, KindsOfExcuse
    <2>4. \A m \in Map : /\ N(box'[q], Bad(m, q)) # 0 => N(box[q], Bad(m, q)) # 0
                         /\ N(box'[m], Told(m, q, FALSE)) # 0 => N(box[m], Told(m, q, FALSE)) # 0
                         /\ Before(box'[m], Leaving(m, q), Late(m, q)) => Before(box[m], Leaving(m, q), Late(m, q))
        BY <2>2, <2>3, ExcuseHush
    <2>5. Fine(q) /\ player[q].at \in Map
        BY Typed DEF ExcuseInv, Traveller
    <2> QED
        BY <2>2, <2>4, <2>5, ExcuseRest
<1> QED
    BY <1>1 DEF ExcuseInv

(* An exit map that is loaded is never closed: scripts close instances.     *)
LEMMA ExitLives ==
    ASSUME IInv
    PROVE  closeOp[Exit] = <<>> /\ (Exit \in coreList => Live(Exit))
<1>1. Exit \in Map /\ Exit \notin known /\ Chain(Exit) /\ State(Exit)
    BY Actors DEF IInv, TypeOK, RegistryInv
<1>2. closeOp[Exit] = <<>> /\ Closing(Exit) = 0
    BY <1>1 DEF Chain
<1>3. /\ F(box, Peer, "CLOSEMAP", Exit, Core) \in Nat /\ F(box, Exit, "CLOSEMAP", Exit, Core) \in Nat
      /\ F(box, Exit, "CLOSEMAP", Exit, Peer) \in Nat /\ Gone(Exit) \in Nat
    BY <1>1, ChainNat, Actors
<1>4. Gone(Exit) = 0
    BY <1>2, <1>3 DEF Closing
<1> QED
    BY <1>1, <1>2, <1>4 DEF State

Elsewhere(m) == {x \in Message : x.map # m}

LEMMA ElsewhereReach ==
    ASSUME NEW ms, NEW m \in Map, NEW r \in Actor, NEW flag \in BOOLEAN, NEW type \in {"CLOSEMAP", "WAITACTIVATED"}
    PROVE  Reach(ms, m, Msg(type, m, r, flag)) \in Quiet(Elsewhere(m))
<1> DEFINE x == Msg(type, m, r, flag)
<1>1. x \in Message /\ x.type = type /\ x.by = r /\ x.map = m
    BY DEF Msg, Message, MsgType
<1>2. m \in Actor /\ Core \in Actor /\ Peer \in Actor /\ x \notin Elsewhere(m)
    BY <1>1, Actors DEF Elsewhere
<1> HIDE DEF x
<1>3. CASE ms[m].state = "live"
    <2>1. Reach(ms, m, x) = Post(m, x)
        BY <1>3 DEF Reach
    <2> QED
        BY <1>1, <1>2, <2>1 DEF Post, Quiet, Posts, x
<1>4. CASE ms[m].state # "live"
    <2>1. Reach(ms, m, x) = Refusal(x)
        BY <1>4 DEF Reach
    <2>2. CASE type = "WAITACTIVATED"
        <3> DEFINE y == [x EXCEPT !.type = "ACTIVATED", !.flag = FALSE]
        <3>1. Refusal(x) = Post(IF x.by = Peer THEN Peer ELSE Core, y)
            BY <1>1, <2>2 DEF Refusal
        <3>2. y \in Message /\ y.map = m
            BY <1>1 DEF Message, MsgType
        <3> HIDE DEF y
        <3> QED
            BY <1>2, <2>1, <3>1, <3>2 DEF Post, Quiet, Posts, x, Elsewhere
    <2>3. CASE type = "CLOSEMAP"
        <3> DEFINE y == [x EXCEPT !.type = "CLOSED", !.flag = FALSE]
        <3>1. Refusal(x) = Post(r, y)
            BY <1>1, <2>3 DEF Refusal
        <3>2. y \in Message /\ y.map = m
            BY <1>1 DEF Message, MsgType
        <3> HIDE DEF y
        <3> QED
            BY <1>2, <2>1, <3>1, <3>2 DEF Post, Quiet, Posts, x, Elsewhere
    <2> QED
        BY <2>2, <2>3
<1> QED
    BY <1>3, <1>4 DEF x

LEMMA ElsewhereAnswer ==
    ASSUME NEW ms, NEW m \in Map, NEW r \in Actor, NEW ok \in BOOLEAN, NEW wait \in BOOLEAN
    PROVE  Answering(ms, m, r, ok, wait) \in Quiet(Elsewhere(m))
<1>1. PICK type \in {"CLOSEMAP", "WAITACTIVATED"} : type = "WAITACTIVATED"
    OBVIOUS
<1>2. Reach(ms, m, Msg(type, m, r, TRUE)) \in Quiet(Elsewhere(m))
    BY ElsewhereReach
<1>3. Post(r, Msg("LOADED", m, r, ok)) \in Quiet(Elsewhere(m))
    <2>1. "LOADED" \in MsgType
        BY DEF MsgType
    <2> QED
        BY <2>1, MessageIs DEF Post, Quiet, Posts, Elsewhere
<1> QED
    BY <1>1, <1>2, <1>3 DEF Answering

\* Who hears that the exit map is loaded finds it in the list.
LEMMA LoadMapExit ==
    ASSUME IInv, CoreLoadMap, NEW q \in Player, F(box, q, "LOADED", Exit, q) # 0 => Exit \in coreList,
           F(box', q, "LOADED", Exit, q) # 0
    PROVE  Exit \in coreList'
<1>1. /\ Got(Core) /\ Top(Core).type = "LOADMAP" /\ Core \in Actor /\ Peer \in Actor /\ q \in Actor /\ box \in Mailboxes
      /\ coreList \subseteq coreList'
    BY Actors DEF CoreLoadMap, IInv, MailInv, Fit, coreVars
<1>2. PICK m \in Map, r \in Actor, wait \in BOOLEAN : Top(Core).map = m /\ Top(Core).by = r /\ Top(Core).flag = wait
    BY <1>1, Handled
<1>3. CASE m \in coreList'
    <2> SUFFICES ASSUME m # Exit PROVE Exit \in coreList'
        BY <1>3
    <2> DEFINE K == Elsewhere(m)
    <2>1. Take(Core) \in Mailboxes /\ Hush(K, box, Take(Core))
        <3>1. Top(Core) \notin K
            BY <1>2 DEF Elsewhere
        <3> QED
            BY <1>1, <3>1, HushTake
    <2>2. \A ms : Hush(K, box, Answer(Take(Core), ms, m, r, TRUE, wait))
        <3> SUFFICES ASSUME NEW ms PROVE Hush(K, box, Answer(Take(Core), ms, m, r, TRUE, wait))
            OBVIOUS
        <3>1. PICK ok \in BOOLEAN : ok = TRUE
            OBVIOUS
        <3>2. Answering(ms, m, r, ok, wait) \in Quiet(K)
            BY ElsewhereAnswer
        <3> HIDE DEF K
        <3>3. Hush(K, Take(Core), Deliver(Take(Core), Answering(ms, m, r, ok, wait)))
            BY <2>1, <3>2, HushDeliver
        <3> QED
            BY <2>1, <3>1, <3>3, HushOn DEF Answer
    <2>3. Hush(K, box, Put(Take(Core), Peer, Msg("LOADMAP", m, Core, wait)))
        <3>1. PICK type \in MsgType : type = "LOADMAP"
            BY DEF MsgType
        <3>2. Msg(type, m, Core, wait) \in Message /\ Msg(type, m, Core, wait) \notin K
            BY <1>1, MessageIs DEF Elsewhere
        <3> HIDE DEF K
        <3>3. Hush(K, Take(Core), Put(Take(Core), Peer, Msg(type, m, Core, wait)))
            BY <1>1, <2>1, <3>2, HushPut
        <3> QED
            BY <2>1, <3>1, <3>3, HushOn
    <2>4. Hush(K, box, box)
        BY DEF Hush
    <2>5. Hush(K, box, box')
        <3> HIDE DEF K
        <3> QED
            BY <1>2, <2>1, <2>2, <2>3, <2>4 DEF CoreLoadMap
    <2>6. From("LOADED", Exit, q) \in SUBSET K
        BY DEF From, Elsewhere
    <2> HIDE DEF K
    <2>7. F(box', q, "LOADED", Exit, q) = F(box, q, "LOADED", Exit, q)
        BY <1>1, <2>5, <2>6 DEF Hush, F
    <2> QED
        BY <1>1, <2>7
<1>4. CASE m \notin coreList'
    <2> DEFINE K == Loads
    <2>1. Take(Core) \in Mailboxes /\ Hush(K, box, Take(Core))
        <3>1. Top(Core) \notin K
            BY <1>1 DEF Loads
        <3> QED
            BY <1>1, <3>1, HushTake
    <2>2. Hush(K, box, Put(Take(Core), Peer, Msg("LOADMAP", m, Core, wait)))
        <3>1. PICK type \in MsgType : type = "LOADMAP"
            BY DEF MsgType
        <3>2. Msg(type, m, Core, wait) \in Message /\ Msg(type, m, Core, wait) \notin K
            BY <1>1, <3>1, MessageIs DEF Loads
        <3> HIDE DEF K
        <3>3. Hush(K, Take(Core), Put(Take(Core), Peer, Msg(type, m, Core, wait)))
            BY <1>1, <2>1, <3>2, HushPut
        <3> QED
            BY <2>1, <3>1, <3>3, HushOn
    <2>3. Hush(K, box, box)
        BY DEF Hush
    <2>4. \/ box' = box
          \/ box' = Take(Core)
          \/ box' = Put(Take(Core), Peer, Msg("LOADMAP", m, Core, wait))
        BY <1>2, <1>4 DEF CoreLoadMap, coreVars
    <2>5. Hush(K, box, box')
        BY <2>1, <2>2, <2>3, <2>4
    <2>6. From("LOADED", Exit, q) \in SUBSET K
        BY KindsOfExcuse
    <2> HIDE DEF K
    <2>7. F(box', q, "LOADED", Exit, q) = F(box, q, "LOADED", Exit, q)
        BY <1>1, <2>5, <2>6 DEF Hush, F
    <2> QED
        BY <1>1, <2>7
<1> QED
    BY <1>3, <1>4

LEMMA LoadedExit ==
    ASSUME IInv, CoreLoaded, NEW q \in Player, F(box, q, "LOADED", Exit, q) # 0 => Exit \in coreList,
           F(box', q, "LOADED", Exit, q) # 0
    PROVE  Exit \in coreList'
<1>1. /\ Got(Core) /\ Top(Core).type = "LOADED" /\ Core \in Actor /\ Peer \in Actor /\ TypeOK /\ q \in Actor /\ box \in Mailboxes
    BY Actors DEF CoreLoaded, IInv, MailInv, Fit
<1>2. PICK m \in Map, by \in {Core, Peer} :
          Top(Core).map = m /\ Top(Core).by = by /\ Top(Core).flag = TRUE /\ F(box, Core, "LOADED", m, by) # 0
    <2>1. Top(Core) \in For(Core) /\ Top(Core).map \in Map /\ F(box, Core, "LOADED", Top(Core).map, Top(Core).by) # 0
        BY <1>1, Handled
    <2>2. Top(Core).by \in {Core, Peer} /\ Top(Core).flag = TRUE
        BY <1>1, <2>1, Actors DEF For, ForCore
    <2> QED
        BY <2>1, <2>2
<1>3. loadOp[m] \in Seq(Waiter) /\ loadOp[m] # <<>>
    BY <1>1, <1>2, LoadingAt, QueueNat
<1>4. PICK first \in Actor : Head(loadOp[m]).by = first
    <2>1. Head(loadOp[m]) \in Waiter
        BY <1>3
    <2> QED
        BY <2>1 DEF Waiter
<1>5. coreList' = coreList \cup {m}
    BY <1>2 DEF CoreLoaded
<1> SUFFICES ASSUME m # Exit PROVE Exit \in coreList'
    BY <1>5
<1> DEFINE rest == Tail(loadOp[m])
           listed == m \in coreList'
           replies == [i \in DOMAIN rest |-> Answering(map, m, rest[i].by, listed, rest[i].wait)]
           y == Msg("LOADED", m, first, TRUE)
           K == Elsewhere(m)
<1>6. box' = Put(DeliverAll(Take(Core), replies), first, y)
    BY <1>2, <1>4 DEF CoreLoaded
<1>7. replies \in Seq(Quiet(K))
    <2>1. rest \in Seq(Waiter) /\ DOMAIN rest = 1 .. Len(rest) /\ Len(rest) \in Nat
        BY <1>3
    <2>2. ASSUME NEW i \in DOMAIN rest PROVE Answering(map, m, rest[i].by, listed, rest[i].wait) \in Quiet(K)
        <3>1. rest[i] \in Waiter /\ listed \in BOOLEAN
            BY <2>1
        <3> HIDE DEF rest, listed
        <3>2. rest[i].by \in Actor /\ rest[i].wait \in BOOLEAN
            BY <3>1 DEF Waiter
        <3> QED
            BY <3>1, <3>2, ElsewhereAnswer
    <2> HIDE DEF rest, listed, K
    <2>3. replies \in [1 .. Len(rest) -> Quiet(K)]
        BY <2>1, <2>2
    <2> HIDE DEF replies
    <2> QED
        BY <2>1, <2>3, SeqIs
<1>8. y \in Message /\ y \notin K
    <2>1. PICK type \in MsgType, flag \in BOOLEAN : type = "LOADED" /\ flag = TRUE
        BY DEF MsgType
    <2>2. Msg(type, m, first, flag) \in Message /\ Msg(type, m, first, flag).map = m
        BY MessageIs
    <2> QED
        BY <2>1, <2>2 DEF Elsewhere
<1>9. Take(Core) \in Mailboxes /\ Hush(K, box, Take(Core))
    <2>1. Top(Core) \notin K
        BY <1>2 DEF Elsewhere
    <2> HIDE DEF K
    <2> QED
        BY <1>1, <2>1, HushTake
<1>10. From("LOADED", Exit, q) \in SUBSET K
    BY DEF From, Elsewhere
<1> HIDE DEF replies, y, K
<1>11. DeliverAll(Take(Core), replies) \in Mailboxes /\ Hush(K, Take(Core), DeliverAll(Take(Core), replies))
    BY <1>7, <1>9, HushAll
<1>12. Hush(K, DeliverAll(Take(Core), replies), box')
    BY <1>6, <1>8, <1>11, HushPut
<1>13. Hush(K, box, box')
    BY <1>9, <1>11, <1>12, HushOn
<1>14. F(box', q, "LOADED", Exit, q) = F(box, q, "LOADED", Exit, q)
    BY <1>1, <1>10, <1>13 DEF Hush, F
<1> QED
    BY <1>5, <1>14

LEMMA CalmStepExcuse ==
    ASSUME IInv, ExcuseInv, CalmStep
    PROVE  ExcuseInv'
<1>1. TypeOK /\ Calm(Spoken \cup Replies)
    BY CalmSteps DEF IInv
<1>2. ASSUME NEW q \in Player, F(box', q, "LOADED", Exit, q) # 0
      PROVE  Exit \in coreList'
    <2>1. F(box, q, "LOADED", Exit, q) # 0 => Exit \in coreList
        BY DEF ExcuseInv, Fine, Excuse
    <2>2. CASE CoreLoadMap \/ CoreLoaded
        BY <1>2, <2>1, <2>2, LoadMapExit, LoadedExit
    <2>3. CASE ~(CoreLoadMap \/ CoreLoaded)
        <3>1. Hush(Heard, box, box')
            BY <2>3, CalmSteps DEF Calm, Silent
        <3>2. From("LOADED", Exit, q) \in SUBSET Heard
            BY KindsOfExcuse DEF Heard
        <3>3. F(box', q, "LOADED", Exit, q) = F(box, q, "LOADED", Exit, q)
            BY <3>1, <3>2, Actors DEF Hush, F
        <3>4. Exit \in coreList => Exit \in coreList'
            <4>1. CASE CoreClosed
                <5>1. Got(Core) /\ Top(Core).type = "CLOSED"
                    BY <4>1 DEF CoreClosed
                <5>2. PICK m \in Map, by \in {Core, Peer} :
                          Top(Core).map = m /\ Top(Core).by = by /\ F(box, Core, "CLOSED", m, by) # 0
                    <6>1. Top(Core) \in For(Core) /\ Top(Core).map \in Map /\ F(box, Core, "CLOSED", Top(Core).map, Top(Core).by) # 0
                        BY <5>1, Handled, Actors
                    <6>2. Top(Core).by \in {Core, Peer}
                        BY <5>1, <6>1, Actors DEF For, ForCore
                    <6> QED
                        BY <6>1, <6>2
                <5>3. closeOp[m] # <<>>
                    BY <5>2, ClosingAt
                <5>4. m # Exit
                    BY <5>3, ExitLives
                <5>5. coreList' \in {coreList, coreList \ {m}}
                    BY <4>1, <5>2 DEF CoreClosed
                <5> QED
                    BY <5>4, <5>5
            <4>2. CASE ~CoreClosed
                BY <2>3, <4>2 DEF CalmStep, CoreStep, CoreActivated, CoreCloseMap, PeerStep, PeerLoadMap, PeerActivated,
                    PeerCloseMap, PeerClosed, Activate, WaitActivated, CloseMap, Erase, MapUnchanged, ScriptStep,
                    OpenInstance, CloseInstance, ScriptAnswered, Switch, Die, PlayerUnchanged, coreVars
            <4> QED
                BY <4>1, <4>2
        <3> QED
            BY <1>2, <2>1, <3>3, <3>4
    <2> QED
        BY <2>2, <2>3
<1> QED
    BY <1>1, <1>2, CalmExcuse

(* What a player tells a map that sends it away.                            *)
LEMMA TriggeredExcuse ==
    ASSUME IInv, ExcuseInv, NEW p \in Player, Triggered(p)
    PROVE  ExcuseInv'
<1>1. /\ Aloof(box, box', p) /\ \A q \in Player \ {p} : player'[q] = player[q]
      /\ \A n \in Map : \A ok : N(box'[n], Told(n, p, ok)) # 0 => N(box[n], Told(n, p, ok)) # 0 \/ ok = CanMove(p)
    BY TriggeredIs
<1>2. TypeOK /\ Fine(p) /\ player[p].at \in Map /\ UNCHANGED coreList
    BY Typed DEF IInv, ExcuseInv, Traveller, Triggered, PlayerUnchanged, coreVars
<1>3. Hush(Spoken \cup Loads, box, box') /\ Begins(p) /\ seen \subseteq seen'
    BY TriggeredSilent DEF Calm, Silent
<1>4. F(box', p, "LOADED", Exit, p) = F(box, p, "LOADED", Exit, p)
    <2>1. From("LOADED", Exit, p) \in SUBSET (Spoken \cup Loads)
        BY KindsOfExcuse
    <2> QED
        BY <1>3, <2>1, Actors DEF Hush, F
<1>5. ASSUME ~CanMove(p) PROVE Excused(p)'
    <2>1. CASE player[p].dead
        BY <1>3, <2>1 DEF Begins, Excused
    <2>2. CASE player[p].step # "idle"
        BY <2>2 DEF Triggered, Note, Excused
    <2> QED
        BY <1>5, <2>1, <2>2 DEF CanMove
<1>6. ASSUME NEW m \in Map
      PROVE  /\ N(box'[p], Bad(m, p)) # 0 => N(box[p], Bad(m, p)) # 0
             /\ N(box'[m], Told(m, p, FALSE)) # 0 => N(box[m], Told(m, p, FALSE)) # 0 \/ Excused(p)'
             /\ Before(box'[m], Leaving(m, p), Late(m, p)) => Before(box[m], Leaving(m, p), Late(m, p))
    <2>1. Hush(Spoken, box, box')
        BY <1>3, HushLess
    <2>2. \A c \in Actor : \A S, T \in SUBSET Spoken :
              N(box'[c], S) = N(box[c], S) /\ (Before(box'[c], S, T) => Before(box[c], S, T))
        BY <2>1 DEF Hush
    <2>3. Bad(m, p) \in SUBSET Spoken /\ Leaving(m, p) \in SUBSET Spoken /\ Late(m, p) \in SUBSET Spoken
        BY KindsOfExcuse
    <2>4. N(box'[p], Bad(m, p)) = N(box[p], Bad(m, p))
        BY <2>2, <2>3, Actors
    <2>5. Before(box'[m], Leaving(m, p), Late(m, p)) => Before(box[m], Leaving(m, p), Late(m, p))
        BY <2>2, <2>3, Actors
    <2>6. N(box'[m], Told(m, p, FALSE)) # 0 => N(box[m], Told(m, p, FALSE)) # 0 \/ ~CanMove(p)
        <3>1. PICK ok \in BOOLEAN : ok = FALSE
            OBVIOUS
        <3>2. N(box'[m], Told(m, p, ok)) # 0 => N(box[m], Told(m, p, ok)) # 0 \/ ok = CanMove(p)
            BY <1>1
        <3> QED
            BY <3>1, <3>2
    <2> QED
        BY <1>5, <2>4, <2>5, <2>6
<1>7. Fine(p)'
    <2>1. F(box', p, "LOADED", Exit, p) # 0 => Exit \in coreList'
        BY <1>2, <1>4 DEF Fine, Excuse
    <2> QED
        BY <1>2, <1>3, <1>6, <2>1, ExcuseRest
<1> QED
    BY <1>1, <1>2, <1>3, <1>7, AloofExcuse

\* Only a player that loads a map is answered that it is loaded.
LEMMA LoadedAsked == IInv => \A p \in Player : player[p].step # "load" => F(box, p, "LOADED", Exit, p) = 0
<1> SUFFICES ASSUME IInv, NEW p \in Player, F(box, p, "LOADED", Exit, p) # 0 PROVE player[p].step = "load"
    OBVIOUS
<1>1. p \in Client /\ Exit \in Map /\ p \notin Script /\ p \notin Map
    BY Actors DEF Client
<1>2. Wants(p, Exit)
    BY <1>1, Requested
<1> QED
    BY <1>1, <1>2 DEF Wants

LEMMA LoadedAskedNext == (IInv => \A p \in Player : player[p].step # "load" => F(box, p, "LOADED", Exit, p) = 0)'
BY LoadedAsked, PTL

LEMMA EndExcuse ==
    ASSUME IInv, IInv', ExcuseInv, NEW p \in Player, NEW d \in Mailboxes, Aloof(box, d, p), NEW at \in Map, NEW ok \in BOOLEAN,
           End(d, p, at, ok), UNCHANGED <<seen, coreList>>,
           \A n \in Map : /\ N(d[n], Leaving(n, p)) = 0
                          /\ N(d[n], Told(n, p, FALSE)) = N(box[n], Told(n, p, FALSE)),
           ok = FALSE /\ player[p].for # None => Excused(p)
    PROVE  ExcuseInv'
<1>0. /\ box' \in Mailboxes /\ Aloof(d, box', p)
      /\ player'[p].step = "idle" /\ player'[p].for = None
      /\ \A q \in Player \ {p} : player'[q] = player[q]
      /\ \A c \in Actor : \A S : N(d[c], S) \in Nat
      /\ \A n \in Map : \A S : N(box'[n], S) =
             N(d[n], S) + (IF n = player[p].for /\ Msg("SWITCHED", n, p, ok) \in S THEN 1 ELSE 0)
    <2>1. Aloof(d, box', p)
        BY EndIs
    <2>2. box' \in Mailboxes
        BY EndIs
    <2>3. \A c \in Actor : \A S : N(d[c], S) \in Nat
        BY BoxNat
    <2>4. /\ player'[p].step = "idle" /\ player'[p].for = None
          /\ \A q \in Player \ {p} : player'[q] = player[q]
        BY EndIs
    <2>5. \A n \in Map : \A S : N(box'[n], S) =
              N(d[n], S) + (IF n = player[p].for /\ Msg("SWITCHED", n, p, ok) \in S THEN 1 ELSE 0)
        BY EndIs
    <2> QED
        BY <2>1, <2>2, <2>3, <2>4, <2>5
<1>1. player'[p].dead = player[p].dead
    BY EndIs
<1>2. TypeOK /\ Fine(p) /\ Aloof(box, box', p) /\ None \notin Map /\ p \in Actor
    BY <1>0, AloofOn, Actors DEF IInv, ExcuseInv
<1>3. Excused(p)' <=> Excused(p)
    BY <1>0, <1>1 DEF Excused
<1>4. ASSUME NEW n \in Map
      PROVE  /\ ~Before(box'[n], Leaving(n, p), Late(n, p))
             /\ N(box'[n], Told(n, p, FALSE)) # 0 => Excused(p)
    <2>1. PICK y \in Message : y = Msg("SWITCHED", n, p, ok) /\ y.type = "SWITCHED" /\ y.flag = ok
        <3>1. PICK type \in MsgType : type = "SWITCHED"
            BY DEF MsgType
        <3>2. Msg(type, n, p, ok) \in Message /\ Msg(type, n, p, ok).type = type /\ Msg(type, n, p, ok).flag = ok
            BY TellIs
        <3> QED
            BY <3>1, <3>2
    <2>2. y \notin Leaving(n, p) /\ (y \in Told(n, p, FALSE) => ok = FALSE)
        BY <2>1 DEF Leaving, Told, From
    <2>3. N(box'[n], Leaving(n, p)) = 0
        <3>1. PICK S : S = Leaving(n, p)
            OBVIOUS
        <3>2. N(box'[n], S) = N(d[n], S) + (IF n = player[p].for /\ y \in S THEN 1 ELSE 0)
            BY <1>0, <2>1
        <3>3. N(d[n], Leaving(n, p)) = 0 /\ y \notin S
            BY <2>2, <3>1
        <3> QED
            BY <3>1, <3>2, <3>3
    <2>4. \A i \in DOMAIN box'[n] : box'[n][i] \notin Leaving(n, p)
        <3>1. PICK b \in Mailboxes : b = box'
            BY <1>0
        <3>2. N(b[n], Leaving(n, p)) = 0 <=> \A i \in DOMAIN b[n] : b[n][i] \notin Leaving(n, p)
            BY BoxNat, Actors
        <3> QED
            BY <2>3, <3>1, <3>2
    <2>5. N(box'[n], Told(n, p, FALSE)) # 0 => Excused(p)
        <3>1. PICK S : S = Told(n, p, FALSE)
            OBVIOUS
        <3>2. N(box'[n], S) = N(d[n], S) + (IF n = player[p].for /\ y \in S THEN 1 ELSE 0)
            BY <1>0, <2>1
        <3>3. N(box[n], Told(n, p, FALSE)) # 0 => Excused(p)
            BY <1>2 DEF Fine, Excuse
        <3>4. N(d[n], S) = N(box[n], S) /\ N(d[n], S) \in Nat
            BY <1>0, <3>1, Actors
        <3>5. y \in S => ok = FALSE
            BY <2>2, <3>1
        <3>6. CASE n = player[p].for /\ y \in S
            BY <1>2, <3>5, <3>6
        <3>7. CASE ~(n = player[p].for /\ y \in S)
            <4>1. N(box'[n], S) = N(box[n], S)
                BY <3>2, <3>4, <3>7
            <4>2. N(box[n], S) # 0 => Excused(p)
                BY <3>1, <3>3
            <4> QED
                BY <3>1, <4>1, <4>2
        <3> QED
            BY <3>6, <3>7
    <2> QED
        BY <2>4, <2>5 DEF Before
<1>5. F(box', p, "LOADED", Exit, p) = 0
    BY <1>0, LoadedAskedNext
<1>6. Excuse(p)'
    BY <1>0, <1>3, <1>4, <1>5 DEF Excuse
<1>7. Fine(p)'
    BY <1>4, <1>6 DEF Fine, Ordered
<1> QED
    BY <1>0, <1>2, <1>7, AloofExcuse

(* A player that hears an answer and goes nowhere, or has arrived.          *)
LEMMA StopExcuse ==
    ASSUME IInv, IInv', TalkInv, ExcuseInv, NEW p \in Player, Got(p), Top(p).type \in {"ALLOW", "BAD", "FINISHLEAVE"},
           NEW at \in Map, NEW ok \in BOOLEAN, NEW m \in Map, NEW type \in {"SWITCHOK", "SWITCHERROR"}, NEW flag \in BOOLEAN,
           NEW d, d = Take(p) \/ d = Call(Take(p), map, m, Msg(type, m, p, flag)),
           End(d, p, at, ok), UNCHANGED <<seen, coreList>>,
           ok = FALSE /\ player[p].for # None => Excused(p)
    PROVE  ExcuseInv'
<1>1. \A n \in Map : Take(p)[n] = box[n] /\ N(box[n], Leaving(n, p)) = 0
    BY HeardWhere
<1>2. Take(p) \in Mailboxes /\ Aloof(box, Take(p), p)
    BY HeardOut
<1>3. /\ d \in Mailboxes /\ Aloof(box, d, p)
      /\ \A n \in Map : /\ N(d[n], Leaving(n, p)) = 0
                        /\ N(d[n], Told(n, p, FALSE)) = N(box[n], Told(n, p, FALSE))
    <2>1. CASE d = Take(p)
        BY <1>1, <1>2, <2>1
    <2>2. CASE d = Call(Take(p), map, m, Msg(type, m, p, flag))
        <3>1. PICK b \in Mailboxes : b = Take(p)
            BY <1>2
        <3>2. d = Call(b, map, m, Msg(type, m, p, flag))
            BY <2>2, <3>1
        <3>3. /\ d \in Mailboxes /\ Aloof(b, d, p)
              /\ \A n \in Map : /\ N(d[n], Leaving(n, p)) = N(b[n], Leaving(n, p))
                                /\ \A told : N(d[n], Told(n, p, told)) = N(b[n], Told(n, p, told))
            BY <3>2, LateCounts
        <3>4. \A n \in Map : N(d[n], Leaving(n, p)) = 0 /\ N(d[n], Told(n, p, FALSE)) = N(box[n], Told(n, p, FALSE))
            <4> SUFFICES ASSUME NEW n \in Map
                         PROVE  N(d[n], Leaving(n, p)) = 0 /\ N(d[n], Told(n, p, FALSE)) = N(box[n], Told(n, p, FALSE))
                OBVIOUS
            <4>1. b[n] = box[n] /\ N(box[n], Leaving(n, p)) = 0 /\ N(d[n], Leaving(n, p)) = N(b[n], Leaving(n, p))
                BY <1>1, <3>1, <3>3
            <4>2. PICK told \in BOOLEAN : told = FALSE
                OBVIOUS
            <4>3. N(d[n], Told(n, p, told)) = N(b[n], Told(n, p, told))
                BY <3>3
            <4> QED
                BY <4>1, <4>2, <4>3
        <3>5. Aloof(box, d, p)
            BY <1>2, <3>1, <3>3, AloofOn
        <3> QED
            BY <3>3, <3>4, <3>5
    <2> QED
        BY <2>1, <2>2
<1> QED
    BY <1>3, EndExcuse

LEMMA LeftExcuse ==
    ASSUME IInv, TalkInv, ExcuseInv, NEW p \in Player, Left(p)
    PROVE  ExcuseInv'
<1>1. /\ Got(p) /\ Top(p).type \in {"ALLOW", "BAD", "FINISHLEAVE"} /\ UNCHANGED <<seen, coreList>>
      /\ End(Call(Take(p), map, player[p].at, Msg("SWITCHOK", player[p].at, p, TRUE)), p, player[p].at, TRUE)
    BY DEF Left, PlayerUnchanged, coreVars
<1>2. PICK at \in Map : at = player[p].at
    BY Typed DEF IInv, Traveller
<1>3. PICK ok \in BOOLEAN, type \in {"SWITCHOK", "SWITCHERROR"} : ok = TRUE /\ type = "SWITCHOK"
    OBVIOUS
<1>4. PICK d : d = Call(Take(p), map, at, Msg(type, at, p, ok))
    OBVIOUS
<1>5. End(d, p, at, ok)
    BY <1>1, <1>2, <1>3, <1>4
<1>6. IInv'
    BY AllowedKeeps
<1> QED
    BY <1>1, <1>3, <1>4, <1>5, <1>6, StopExcuse

LEMMA SwitchErrorExcuse ==
    ASSUME IInv, TalkInv, ExcuseInv, NEW p \in Player, SwitchAllowed(p) \/ LeaveAllowed(p),
           End(SwitchError(p, Take(p)), p, player[p].at, FALSE), player[p].for # None => Excused(p)
    PROVE  ExcuseInv'
<1>1. Got(p) /\ Top(p).type \in {"ALLOW", "BAD", "FINISHLEAVE"} /\ UNCHANGED <<seen, coreList>>
    BY DEF SwitchAllowed, LeaveAllowed, PlayerUnchanged, coreVars
<1>2. PICK at \in Map, m \in Map : at = player[p].at /\ m = player[p].to
    BY Typed DEF IInv, Traveller
<1>3. PICK ok \in BOOLEAN, type \in {"SWITCHOK", "SWITCHERROR"} : ok = FALSE /\ type = "SWITCHERROR"
    OBVIOUS
<1>4. PICK d : d = Call(Take(p), map, m, Msg(type, m, p, ok))
    OBVIOUS
<1>5. End(d, p, at, ok)
    BY <1>2, <1>3, <1>4 DEF SwitchError
<1>6. IInv'
    BY AllowedKeeps
<1> QED
    BY <1>1, <1>4, <1>5, <1>6, StopExcuse

\* Who refuses to go is excused as who asked it is refused.
LEMMA RefusedExcuse ==
    ASSUME IInv, TalkInv, ExcuseInv, NEW p \in Player, Got(p), Top(p).type = "BAD", player[p].step \in {"try", "leave"},
           player[p].for # None
    PROVE  Excused(p)
<1>1. PICK k \in Map :
          /\ Top(p).map = k /\ Top(p).by = p /\ Top(p) \in Message
          /\ player[p].step = "try" => k = player[p].to
          /\ player[p].step = "leave" => k = player[p].at
    BY HeardWhere
<1>2. N(box[p], Bad(k, p)) # 0
    <2>1. Top(p) \in Bad(k, p)
        BY <1>1 DEF Bad, From
    <2>2. box \in Mailboxes /\ p \in Actor
        BY Actors DEF IInv, MailInv, Fit
    <2> QED
        BY <2>1, <2>2, TopThere
<1>3. Excuse(p)
    BY DEF ExcuseInv, Fine
<1> QED
    BY <1>1, <1>2, <1>3 DEF Excuse

(* A player that asks a map something.                                      *)
LEMMA AskExcuse ==
    ASSUME IInv, IInv', ExcuseInv, NEW p \in Player, NEW b \in Mailboxes, Aloof(box, b, p),
           \A n \in Map : b[n] = box[n] /\ N(box[n], Leaving(n, p)) = 0 /\ N(b[p], Bad(n, p)) = 0,
           NEW m \in Map, NEW type \in {"TRYMAPSWITCH", "TRYLEAVE", "LEAVEOK"}, NEW flag \in BOOLEAN,
           box' = Call(b, map, m, Msg(type, m, p, flag)), UNCHANGED <<seen, coreList>>,
           \A q \in Player \ {p} : player'[q] = player[q],
           player'[p].step # "load", player'[p].for = player[p].for, player'[p].to = player[p].to,
           Excused(p) => Excused(p)',
           \/ Live(m)
           \/ player'[p].step = "try" /\ m # Exit
           \/ player'[p].step \notin {"try", "leave"}
           \/ Excused(p)
    PROVE  ExcuseInv'
<1>1. PICK d : d = box'
    OBVIOUS
<1>2. d = Call(b, map, m, Msg(type, m, p, flag))
    BY <1>1
<1>3. /\ d \in Mailboxes /\ Aloof(b, d, p)
      /\ \A n \in Map : /\ N(d[p], Bad(n, p)) # 0 => N(b[p], Bad(n, p)) # 0 \/ (n = m /\ ~Live(m))
                        /\ \A ok : N(d[n], Told(n, p, ok)) = N(b[n], Told(n, p, ok))
    BY <1>2, AskCounts
<1>4. TypeOK /\ Fine(p) /\ Aloof(box, box', p)
    BY <1>1, <1>3, AloofOn DEF IInv, ExcuseInv
<1>5. ASSUME NEW n \in Map PROVE ~Before(d[n], Leaving(n, p), Late(n, p))
    <2>1. \A i \in DOMAIN b[n] : b[n][i] \notin Leaving(n, p)
        <3>1. N(b[n], Leaving(n, p)) = 0
            OBVIOUS
        <3> QED
            BY <3>1, BoxNat, Actors
    <2>2. ~Before(b[n], Leaving(n, p), Late(n, p))
        BY <2>1 DEF Before
    <2>3. CASE Live(m) /\ n = m
        <3>1. PICK x \in Message : x = Msg(type, m, p, flag) /\ x.type = type
            <4>1. type \in MsgType
                BY DEF MsgType
            <4> QED
                BY <4>1, TellIs
        <3>2. d[n] = Append(b[n], x) /\ b[n] \in Seq(Message)
            <4>1. d = Put(b, m, Msg(type, m, p, flag))
                BY <1>2, <2>3, CallIs
            <4>2. d = Put(b, m, x) /\ n \in Actor
                BY <3>1, <4>1, Actors
            <4> QED
                BY <2>3, <4>2 DEF Put, Mailboxes
        <3>3. x \notin Late(n, p)
            BY <3>1 DEF Late
        <3> QED
            BY <2>2, <3>2, <3>3, BeforeAppend
    <2>4. CASE ~(Live(m) /\ n = m)
        <3>1. d[n] = b[n]
            <4>1. CASE Live(m)
                <5>1. d = Put(b, m, Msg(type, m, p, flag))
                    BY <1>2, <4>1, CallIs
                <5> QED
                    BY <2>4, <4>1, <5>1, Actors DEF Put, Mailboxes
            <4>2. CASE ~Live(m)
                <5>1. d = Put(b, p, Msg("BAD", m, p, flag))
                    BY <1>2, <4>2, CallIs
                <5>2. n # p
                    BY Actors
                <5> QED
                    BY <5>1, <5>2, Actors DEF Put, Mailboxes
            <4> QED
                BY <4>1, <4>2
        <3> QED
            BY <2>2, <3>1
    <2> QED
        BY <2>3, <2>4
<1>6. \A n \in Map : N(box'[p], Bad(n, p)) # 0 => n = m /\ ~Live(m)
    BY <1>1, <1>3
<1>7. \A n \in Map : N(box'[n], Told(n, p, FALSE)) # 0 => Excused(p)'
    <2> SUFFICES ASSUME NEW n \in Map, N(box'[n], Told(n, p, FALSE)) # 0 PROVE Excused(p)
        OBVIOUS
    <2>1. PICK ok \in BOOLEAN : ok = FALSE
        OBVIOUS
    <2>2. N(d[n], Told(n, p, ok)) = N(b[n], Told(n, p, ok)) /\ b[n] = box[n]
        BY <1>3
    <2>3. N(box[n], Told(n, p, FALSE)) # 0
        BY <1>1, <2>1, <2>2
    <2> QED
        BY <1>4, <2>3 DEF Fine, Excuse
<1>8. F(box', p, "LOADED", Exit, p) = 0
    BY LoadedAskedNext
<1>9. player'[p].for # None => player'[p].to = Exit
    BY <1>4 DEF Fine, Excuse
<1>10. player'[p].step = "try" /\ player'[p].to = Exit /\ N(box'[p], Bad(Exit, p)) # 0 => Excused(p)'
    BY <1>6, Actors
<1>11. player'[p].step = "leave" /\ N(box'[p], Bad(player'[p].at, p)) # 0 => Excused(p)'
    <2>1. player'[p].at \in Map
        <3>1. TypeOK'
            BY DEF IInv
        <3> QED
            BY <3>1 DEF TypeOK
    <2> QED
        BY <1>6, <2>1
<1>12. Excuse(p)'
    BY <1>7, <1>8, <1>9, <1>10, <1>11 DEF Excuse
<1>13. Fine(p)'
    BY <1>1, <1>5, <1>12 DEF Fine, Ordered
<1> QED
    BY <1>4, <1>13, AloofExcuse

LEMMA SwitchAllowedExcuse ==
    ASSUME IInv, TalkInv, WhereInv, ExcuseInv, NEW p \in Player, SwitchAllowed(p)
    PROVE  ExcuseInv'
<1>1. /\ Got(p) /\ Top(p).type \in {"ALLOW", "BAD"} /\ player[p].step = "try"
      /\ UNCHANGED <<seen, coreList, map>> /\ p \in Actor /\ TypeOK /\ Fine(p) /\ IInv'
    BY AllowedKeeps, Actors DEF SwitchAllowed, PlayerUnchanged, coreVars, IInv, ExcuseInv
<1>2. PICK at \in Map : at = player[p].at
    BY <1>1, FaresIs
<1>3. CASE Top(p).type = "BAD"
    <2>1. PICK ok \in BOOLEAN : ok = FALSE
        OBVIOUS
    <2>8. PICK d : d = Take(p)
        OBVIOUS
    <2>2. End(d, p, at, ok)
        BY <1>2, <1>3, <2>1, <2>8 DEF SwitchAllowed
    <2>3. player[p].for # None => Excused(p)
        BY <1>1, <1>3, RefusedExcuse
    <2>4. PICK m \in Map, type \in {"SWITCHOK", "SWITCHERROR"} : TRUE
        BY <1>2
    <2>5. Top(p).type \in {"ALLOW", "BAD", "FINISHLEAVE"} /\ UNCHANGED <<seen, coreList>>
        BY <1>1
    <2>6. d = Take(p) \/ d = Call(Take(p), map, m, Msg(type, m, p, ok))
        BY <2>8
    <2>7. ok = FALSE /\ player[p].for # None => Excused(p)
        BY <2>3
    <2> QED
        BY <1>1, <2>2, <2>5, <2>6, <2>7, StopExcuse
<1>4. CASE Top(p).type # "BAD" /\ player[p].dead
    <2>1. End(SwitchError(p, Take(p)), p, player[p].at, FALSE) /\ Excused(p)
        BY <1>4 DEF SwitchAllowed, Excused
    <2> QED
        BY <2>1, SwitchErrorExcuse
<1>5. CASE Top(p).type # "BAD" /\ ~player[p].dead
    <2>1. /\ \A q \in Player \ {p} : player'[q] = player[q]
          /\ player'[p].step = "leave" /\ player'[p].to = player[p].to /\ player'[p].at = player[p].at
          /\ player'[p].for = player[p].for
          /\ box' = Call(Take(p), map, player[p].at, Msg("TRYLEAVE", player[p].at, p, TRUE))
        BY <1>5, SwitchAllowedIs
    <2>2. PICK type \in {"TRYMAPSWITCH", "TRYLEAVE", "LEAVEOK"}, flag \in BOOLEAN : type = "TRYLEAVE" /\ flag = TRUE
        OBVIOUS
    <2>3. PICK b \in Mailboxes : b = Take(p) /\ Aloof(box, b, p)
        BY <1>1, HeardOut
    <2>4. \A n \in Map : b[n] = box[n] /\ N(box[n], Leaving(n, p)) = 0 /\ N(b[p], Bad(n, p)) = 0
        BY <1>1, <2>3, HeardWhere
    <2>5. box' = Call(b, map, at, Msg(type, at, p, flag))
        BY <1>2, <2>1, <2>2, <2>3
    <2>6. Excused(p) => Excused(p)'
        BY <1>1, <1>5 DEF Excused
    <2>7. ~Live(at) => Excused(p)
        <3> SUFFICES ASSUME ~Live(at), p \notin seen PROVE FALSE
            BY DEF Excused
        <3>1. Place(p)
            BY FaresIs, <1>1 DEF Fares, Where
        <3>2. p \in map[at].grid \/ map[at].lock = p
            BY <1>1, <1>2, <3>1 DEF Place
        <3>3. map[at].grid = {} /\ map[at].lock = None
            BY DEF IInv, RegistryInv, State, Bare
        <3> QED
            BY <3>2, <3>3, Actors
    <2> QED
        BY <1>1, <2>1, <2>3, <2>4, <2>5, <2>6, <2>7, AskExcuse
<1> QED
    BY <1>3, <1>4, <1>5

LEMMA LeaveAllowedExcuse ==
    ASSUME IInv, TalkInv, ExcuseInv, NEW p \in Player, LeaveAllowed(p)
    PROVE  ExcuseInv'
<1>1. /\ Got(p) /\ Top(p).type \in {"ALLOW", "BAD"} /\ player[p].step = "leave"
      /\ UNCHANGED <<seen, coreList, map>> /\ p \in Actor /\ TypeOK /\ IInv'
    BY AllowedKeeps, Actors DEF LeaveAllowed, PlayerUnchanged, coreVars, IInv
<1>2. PICK at \in Map : at = player[p].at
    BY <1>1, Typed DEF Traveller
<1>3. CASE Top(p).type = "BAD" \/ player[p].dead
    <2>1. End(SwitchError(p, Take(p)), p, player[p].at, FALSE)
        BY <1>3 DEF LeaveAllowed
    <2>2. player[p].for # None => Excused(p)
        <3>1. CASE Top(p).type = "BAD"
            BY <1>1, <3>1, RefusedExcuse
        <3>2. CASE player[p].dead
            BY <3>2 DEF Excused
        <3> QED
            BY <1>3, <3>1, <3>2
    <2> QED
        BY <2>1, <2>2, SwitchErrorExcuse
<1>4. CASE Top(p).type # "BAD" /\ ~player[p].dead
    <2>1. /\ \A q \in Player \ {p} : player'[q] = player[q]
          /\ player'[p].step = "left" /\ player'[p].to = player[p].to
          /\ player'[p].for = player[p].for
          /\ box' = Call(Take(p), map, player[p].at, Msg("LEAVEOK", player[p].at, p, TRUE))
        BY <1>4, LeaveAllowedIs
    <2>2. PICK type \in {"TRYMAPSWITCH", "TRYLEAVE", "LEAVEOK"}, flag \in BOOLEAN : type = "LEAVEOK" /\ flag = TRUE
        OBVIOUS
    <2>3. PICK b \in Mailboxes : b = Take(p) /\ Aloof(box, b, p)
        BY <1>1, HeardOut
    <2>4. \A n \in Map : b[n] = box[n] /\ N(box[n], Leaving(n, p)) = 0 /\ N(b[p], Bad(n, p)) = 0
        BY <1>1, <2>3, HeardWhere
    <2>5. box' = Call(b, map, at, Msg(type, at, p, flag))
        BY <1>2, <2>1, <2>2, <2>3
    <2>6. Excused(p) => Excused(p)'
        BY <1>1, <1>4 DEF Excused
    <2> QED
        BY <1>1, <2>1, <2>3, <2>4, <2>5, <2>6, AskExcuse
<1> QED
    BY <1>3, <1>4

LEMMA SwitchLoadedExcuse ==
    ASSUME IInv, TalkInv, ExcuseInv, NEW p \in Player, SwitchLoaded(p)
    PROVE  ExcuseInv'
<1>1. PICK m \in Map :
          /\ Got(p) /\ Top(p) \in Message /\ Top(p).type = "LOADED" /\ Top(p).by = p /\ Top(p).map = m
          /\ F(box, p, "LOADED", m, p) # 0
          /\ player[p].step = "load" /\ player[p].to = m /\ UNCHANGED <<map, seen, coreList>>
          /\ \A q \in Player \ {p} : player'[q] = player[q]
          /\ player'[p].step = "try" /\ player'[p].to = m /\ player'[p].at = player[p].at
          /\ player'[p].for = player[p].for /\ player'[p].dead = player[p].dead
          /\ box' = Call(Take(p), map, m, Msg("TRYMAPSWITCH", m, p, TRUE))
    BY SwitchLoadedIs
<1>2. PICK b \in Mailboxes : b = Take(p) /\ Aloof(box, b, p) /\ box \in Mailboxes
    BY <1>1, TakeOne
<1>3. ASSUME NEW n \in Map
      PROVE  b[n] = box[n] /\ N(box[n], Leaving(n, p)) = 0 /\ N(b[p], Bad(n, p)) = 0
    <2>1. N(box[n], Says(n, p)) = 0 /\ N(box[p], Hears(n, p)) = 0
        BY <1>1, SpeaksWith
    <2>2. N(box[n], Leaving(n, p)) = 0 /\ N(box[p], Bad(n, p)) = 0
        BY <1>2, <2>1, Kinds
    <2>3. b[n] = box[n] /\ (N(b[p], Bad(n, p)) # 0 => N(box[p], Bad(n, p)) # 0)
        BY <1>1, <1>2, TakeOne
    <2> QED
        BY <2>2, <2>3
<1>4. PICK type \in {"TRYMAPSWITCH", "TRYLEAVE", "LEAVEOK"}, flag \in BOOLEAN : type = "TRYMAPSWITCH" /\ flag = TRUE
    OBVIOUS
<1>5. box' = Call(b, map, m, Msg(type, m, p, flag))
    BY <1>1, <1>2, <1>4
<1>6. Excused(p) => Excused(p)'
    BY <1>1 DEF Excused
<1>7. m = Exit => Live(m)
    <2>1. F(box, p, "LOADED", Exit, p) # 0 => Exit \in coreList
        BY DEF ExcuseInv, Fine, Excuse
    <2> QED
        BY <1>1, <2>1, ExitLives
<1>8. IInv'
    BY SwitchLoadedKeeps
<1> QED
    BY <1>1, <1>2, <1>3, <1>5, <1>6, <1>7, <1>8, AskExcuse

(* A map that answers a player, or hears from it for the last time.         *)
LEMMA AnswerExcuse ==
    ASSUME IInv, ExcuseInv, NEW m \in Map, NEW p \in Player, Got(m), Top(m).by = p,
           NEW y \in Message, y.by = p, y.type \in {"ALLOW", "BAD", "FINISHLEAVE"},
           box' = Take(m) \/ box' = Put(Take(m), p, y),
           UNCHANGED <<player, coreList>>, seen \subseteq seen', y.type = "BAD" => Excused(p)'
    PROVE  ExcuseInv'
<1>1. TypeOK /\ Fine(p) /\ box \in Mailboxes /\ m \in Actor /\ p \in Actor /\ m # p /\ player[p].at \in Map
    BY Typed, Actors DEF IInv, ExcuseInv, MailInv, Fit, Traveller
<1>2. Take(m) \in Mailboxes /\ Aloof(box, Take(m), p)
          /\ \A c \in Actor : \A S : N(box[c], S) \in Nat
                  /\ N(Take(m)[c], S) = N(box[c], S) - (IF c = m /\ Top(m) \in S THEN 1 ELSE 0)
                  /\ (c = m /\ Top(m) \in S => N(box[c], S) # 0)
    <2>1. PICK b : b = Take(m)
        OBVIOUS
    <2>2. /\ b \in Mailboxes /\ Aloof(box, b, Top(m).by)
          /\ \A c \in Actor : \A S :
                  /\ N(box[c], S) \in Nat /\ N(b[c], S) \in Nat
                  /\ N(b[c], S) = N(box[c], S) - (IF c = m /\ Top(m) \in S THEN 1 ELSE 0)
        BY <1>1, <2>1, TakenCount
    <2>3. \A S : Top(m) \in S => N(box[m], S) # 0
        BY <1>1, TopThere
    <2> QED
        BY <2>1, <2>2, <2>3
<1>3. Aloof(box, box', p)
    <2>1. CASE box' = Take(m)
        BY <1>2, <2>1
    <2>2. CASE box' = Put(Take(m), p, y)
        BY <1>1, <1>2, <2>2, AloofPut, AloofOn
    <2> QED
        BY <2>1, <2>2
<1>4. \A n \in Map : box'[n] = Take(m)[n]
    <2> SUFFICES ASSUME NEW n \in Map PROVE box'[n] = Take(m)[n]
        OBVIOUS
    <2>1. n # p /\ n \in Actor
        BY Actors
    <2> QED
        BY <1>2, <2>1 DEF Put, Mailboxes
<1>5. \A S : N(box'[p], S) # 0 => N(box[p], S) # 0 \/ y \in S
    <2> SUFFICES ASSUME NEW S, y \notin S PROVE N(box'[p], S) = N(box[p], S)
        OBVIOUS
    <2>1. N(Take(m)[p], S) = N(box[p], S) /\ N(box[p], S) \in Nat
        BY <1>1, <1>2
    <2>2. N(Put(Take(m), p, y)[p], S) = N(Take(m)[p], S)
        <3>1. PICK b \in Mailboxes : b = Take(m)
            BY <1>2
        <3>2. \A c \in Actor : \A T : N(Put(b, p, y)[c], T) = N(b[c], T) + (IF c = p /\ y \in T THEN 1 ELSE 0)
            BY <1>1, PutCount
        <3>3. N(b[p], S) \in Nat
            BY <1>1, BoxNat
        <3>4. N(Put(b, p, y)[p], S) = N(b[p], S)
            BY <1>1, <3>2, <3>3
        <3> QED
            BY <3>1, <3>4
    <2> QED
        BY <2>1, <2>2
<1>6. F(box', p, "LOADED", Exit, p) # 0 => Exit \in coreList'
    <2>1. y \notin From("LOADED", Exit, p)
        BY DEF From
    <2> QED
        BY <1>1, <1>5, <2>1 DEF F, Fine, Excuse
<1>7. ASSUME NEW n \in Map
      PROVE  /\ N(box'[p], Bad(n, p)) # 0 => N(box[p], Bad(n, p)) # 0 \/ Excused(p)'
             /\ N(box'[n], Told(n, p, FALSE)) # 0 => N(box[n], Told(n, p, FALSE)) # 0
             /\ Before(box'[n], Leaving(n, p), Late(n, p)) => Before(box[n], Leaving(n, p), Late(n, p))
    <2>1. y \in Bad(n, p) => Excused(p)'
        BY DEF Bad, From
    <2>2. N(box'[p], Bad(n, p)) # 0 => N(box[p], Bad(n, p)) # 0 \/ y \in Bad(n, p)
        BY <1>5
    <2>3. N(box'[n], Told(n, p, FALSE)) # 0 => N(box[n], Told(n, p, FALSE)) # 0
        <3>1. PICK S : S = Told(n, p, FALSE)
            OBVIOUS
        <3>2. /\ N(box[n], S) \in Nat
              /\ N(box'[n], S) = N(box[n], S) - (IF n = m /\ Top(m) \in S THEN 1 ELSE 0)
              /\ n = m /\ Top(m) \in S => N(box[n], S) # 0
            BY <1>2, <1>4, Actors
        <3>3. N(box'[n], S) # 0 => N(box[n], S) # 0
            BY <3>2
        <3> QED
            BY <3>1, <3>3
    <2>4. Before(box'[n], Leaving(n, p), Late(n, p)) => Before(box[n], Leaving(n, p), Late(n, p))
        <3>1. box[n] \in Seq(Message)
            BY <1>1, Actors DEF Mailboxes
        <3>2. CASE n = m
            <4>1. box'[n] = Tail(box[n]) /\ box[n] # <<>>
                BY <1>1, <1>4, <3>2 DEF Take, Got, Mailboxes
            <4> QED
                BY <3>1, <4>1, BeforeTail
        <3>3. CASE n # m
            <4>1. box'[n] = box[n]
                BY <1>1, <1>4, <3>3, Actors DEF Take, Mailboxes
            <4> QED
                BY <4>1
        <3> QED
            BY <3>2, <3>3
    <2> QED
        BY <2>1, <2>2, <2>3, <2>4
<1>8. Begins(p)
    BY PlayersRest
<1>9. Fine(p)'
    BY <1>1, <1>6, <1>7, <1>8, ExcuseRest
<1> QED
    BY <1>1, <1>3, <1>9, AloofExcuse

\* An answer of which the map knows nothing ends the server as it is.
LEMMA StrayExcuse ==
    ASSUME TypeOK, ExcuseInv, UNCHANGED <<map, box, player, seen, coreList>>
    PROVE  ExcuseInv'
<1>1. Calm(Spoken \cup Replies)
    BY StraySilent
<1>2. \A q \in Player : F(box', q, "LOADED", Exit, q) # 0 => Exit \in coreList'
    BY DEF ExcuseInv, Fine, Excuse, F
<1> QED
    BY <1>1, <1>2, CalmExcuse

LEMMA TryMapSwitchExcuse ==
    ASSUME IInv, ExcuseInv, NEW m \in Map, TryMapSwitch(m)
    PROVE  ExcuseInv'
<1>1. /\ Got(m) /\ Top(m).type = "TRYMAPSWITCH" /\ UNCHANGED <<player, coreList>> /\ seen \subseteq seen'
    BY DEF TryMapSwitch, MapUnchanged, coreVars
<1>2. PICK p \in Player : Top(m).by = p
    <2>1. Top(m).type \in Switching
        BY <1>1 DEF Switching
    <2> QED
        BY <1>1, <2>1, TopSays
<1>3. CASE map[m].lock = None
    <2>1. PICK type \in MsgType, flag \in BOOLEAN : type = "ALLOW" /\ flag = TRUE
        BY DEF MsgType
    <2>2. PICK y \in Message : y = Msg(type, m, p, flag) /\ y.type = type /\ y.by = p
        BY TellIs
    <2>3. box' = Put(Take(m), p, y)
        BY <1>2, <1>3, <2>1, <2>2 DEF TryMapSwitch
    <2> QED
        BY <1>1, <1>2, <2>1, <2>2, <2>3, AnswerExcuse
<1>4. CASE map[m].lock # None
    <2>1. PICK type \in MsgType, flag \in BOOLEAN : type = "BAD" /\ flag = FALSE
        BY DEF MsgType
    <2>2. PICK y \in Message : y = Msg(type, m, p, flag) /\ y.type = type /\ y.by = p
        BY TellIs
    <2>3. box' = Put(Take(m), p, y) /\ "locked" \in seen'
        BY <1>2, <1>4, <2>1, <2>2 DEF TryMapSwitch
    <2>4. Excused(p)'
        BY <2>3 DEF Excused
    <2> QED
        BY <1>1, <1>2, <2>1, <2>2, <2>3, <2>4, AnswerExcuse
<1> QED
    BY <1>3, <1>4

\* Of what p asks a map first, nothing that it told it earlier is left.
LEMMA LeavingFirst ==
    ASSUME box \in Mailboxes, NEW m \in Map, NEW p \in Player, Got(m), Top(m) \in Leaving(m, p), Ordered(m, p)
    PROVE  N(box[m], Late(m, p)) = 0
<1>1. m \in Actor /\ box[m] \in Seq(Message) /\ box[m] # <<>>
    BY Actors DEF Mailboxes, Got
<1> SUFFICES ASSUME NEW j \in DOMAIN box[m], box[m][j] \in Late(m, p) PROVE FALSE
    BY <1>1, BoxNat
<1>2. 1 \in DOMAIN box[m] /\ box[m][1] \in Leaving(m, p) /\ j \in Nat /\ j >= 1
    BY <1>1 DEF Top
<1>3. j # 1
    BY <1>2 DEF Leaving, Late, From
<1>4. 1 < j
    BY <1>2, <1>3
<1> QED
    BY <1>2, <1>4 DEF Ordered, Before

LEMMA TryLeaveExcuse ==
    ASSUME IInv, TalkInv, WhereInv, ExcuseInv, NEW m \in Map, TryLeave(m)
    PROVE  ExcuseInv'
<1>1. /\ Got(m) /\ Top(m).type = "TRYLEAVE" /\ UNCHANGED <<player, coreList>> /\ seen \subseteq seen'
      /\ box \in Mailboxes /\ m \in Actor /\ TypeOK
    BY Actors DEF TryLeave, MapUnchanged, coreVars, IInv, MailInv, Fit
<1>2. PICK p \in Player : Top(m).by = p /\ Top(m) \in Says(m, p)
    <2>1. Top(m).type \in Switching
        BY <1>1 DEF Switching
    <2> QED
        BY <1>1, <2>1, TopSays
<1>3. CASE p \in map[m].grid
    <2>1. PICK type \in MsgType, flag \in BOOLEAN : type = "ALLOW" /\ flag = TRUE
        BY DEF MsgType
    <2>2. PICK y \in Message : y = Msg(type, m, p, flag) /\ y.type = type /\ y.by = p
        BY TellIs
    <2>3. box' = Put(Take(m), p, y)
        BY <1>2, <1>3, <2>1, <2>2 DEF TryLeave
    <2> QED
        BY <1>1, <1>2, <2>1, <2>2, <2>3, AnswerExcuse
<1>4. CASE p \notin map[m].grid
    <2>1. PICK type \in MsgType, flag \in BOOLEAN : type = "BAD" /\ flag = TRUE
        BY DEF MsgType
    <2>2. PICK y \in Message : y = Msg(type, m, p, flag) /\ y.type = type /\ y.by = p
        BY TellIs
    <2>3. box' = Put(Take(m), p, y)
        BY <1>2, <1>4, <2>1, <2>2 DEF TryLeave
    <2>4. Top(m) \in Leaving(m, p)
        BY <1>1, <1>2 DEF Says, Leaving, From
    <2>5. p \in seen
        <3> SUFFICES ASSUME p \notin seen PROVE FALSE
            OBVIOUS
        <3>1. Fares(p) /\ player[p].at \in Map
            BY <1>1, FaresIs
        <3>2. Course(p) /\ Place(p) /\ Enters(p, m)
            BY <3>1 DEF Fares, Where
        <3>3. N(box[m], Leaving(m, p)) # 0
            BY <1>1, <2>4, TopThere
        <3>4. player[p].step = "leave" /\ player[p].to # player[p].at
            BY <3>2, <3>3 DEF Course
        <3>5. m = player[p].at
            <4>1. N(box[m], Says(m, p)) # 0
                BY <1>1, <1>2, TopThere
            <4> QED
                BY <3>4, <4>1, SpeaksWith
        <3>6. map[m].lock = p
            BY <1>4, <3>2, <3>4, <3>5 DEF Place
        <3>7. Ordered(m, p)
            BY DEF ExcuseInv, Fine
        <3>8. N(box[m], Late(m, p)) = 0
            BY <1>1, <2>4, <3>7, LeavingFirst
        <3>9. Entering(p, m) = 0
            BY <3>4, <3>5, <3>8 DEF Entering
        <3> QED
            BY <3>2, <3>6, <3>9 DEF Enters
    <2>6. Excused(p)'
        BY <1>1, <2>5 DEF Excused
    <2> QED
        BY <1>1, <1>2, <2>1, <2>2, <2>3, <2>6, AnswerExcuse
<1> QED
    BY <1>3, <1>4

LEMMA LeaveOKExcuse ==
    ASSUME IInv, ExcuseInv, NEW m \in Map, LeaveOK(m)
    PROVE  ExcuseInv'
<1>1. /\ Got(m) /\ Top(m).type = "LEAVEOK" /\ UNCHANGED <<player, coreList, seen>> /\ TypeOK
    BY DEF LeaveOK, MapUnchanged, coreVars, IInv
<1>2. PICK p \in Player : Top(m).by = p
    <2>1. Top(m).type \in Switching
        BY <1>1 DEF Switching
    <2> QED
        BY <1>1, <2>1, TopSays
<1>3. CASE p \in map[m].grid
    <2>1. PICK type \in MsgType, flag \in BOOLEAN : type = "FINISHLEAVE" /\ flag = TRUE
        BY DEF MsgType
    <2>2. PICK y \in Message : y = Msg(type, m, p, flag) /\ y.type = type /\ y.by = p
        BY TellIs
    <2>3. box' = Put(Take(m), p, y)
        BY <1>2, <1>3, <2>1, <2>2 DEF LeaveOK
    <2>4. seen \subseteq seen'
        BY <1>1
    <2> QED
        BY <1>1, <1>2, <2>1, <2>2, <2>3, <2>4, AnswerExcuse
<1>4. CASE p \notin map[m].grid
    <2>1. UNCHANGED <<map, box, player, seen, coreList>>
        BY <1>1, <1>2, <1>4 DEF LeaveOK, Stray
    <2> QED
        BY <1>1, <2>1, StrayExcuse
<1> QED
    BY <1>3, <1>4

LEMMA SwitchDoneExcuse ==
    ASSUME IInv, ExcuseInv, NEW m \in Map, SwitchDone(m)
    PROVE  ExcuseInv'
<1>1. /\ Got(m) /\ Top(m).type \in {"SWITCHOK", "SWITCHERROR"} /\ UNCHANGED <<player, coreList, seen>> /\ TypeOK
    BY DEF SwitchDone, MapUnchanged, coreVars, IInv
<1>2. PICK p \in Player : Top(m).by = p
    <2>1. Top(m).type \in Switching
        BY <1>1 DEF Switching
    <2> QED
        BY <1>1, <2>1, TopSays
<1>3. CASE map[m].lock = p
    <2>1. PICK type \in MsgType, flag \in BOOLEAN : type = "ALLOW" /\ flag = TRUE
        BY DEF MsgType
    <2>2. PICK y \in Message : y = Msg(type, m, p, flag) /\ y.type = type /\ y.by = p
        BY TellIs
    <2>3. box' = Take(m) /\ seen \subseteq seen'
        BY <1>1, <1>2, <1>3 DEF SwitchDone
    <2> QED
        BY <1>1, <1>2, <2>1, <2>2, <2>3, AnswerExcuse
<1>4. CASE map[m].lock # p
    <2>1. UNCHANGED <<map, box, player, seen, coreList>>
        BY <1>1, <1>2, <1>4 DEF SwitchDone, Stray
    <2> QED
        BY <1>1, <2>1, StrayExcuse
<1> QED
    BY <1>3, <1>4

(* A map that closes and has somebody left to send away.                    *)
LEMMA EvacuateNextExcuse ==
    ASSUME IInv, ExcuseInv, NEW m \in Map, Got(m), Top(m).type \in {"LOADED", "SWITCHED"},
           NEW todo \in Seq(Player), todo # <<>>, Evacuate(Take(m), m, todo), UNCHANGED <<player, coreList>>, seen \subseteq seen'
    PROVE  ExcuseInv'
<1>1. /\ TypeOK /\ box \in Mailboxes
      /\ Hush(Spoken \cup Loads, box, box')
      /\ box' = Put(Take(m), Head(todo), Msg("TRIGGER", Exit, m, TRUE))
    BY EvacuateNextSilent DEF IInv, MailInv, Fit, Silent, Evacuate
<1>2. \A q \in Player, n \in Map : \A ok : N(box'[n], Told(n, q, ok)) # 0 => N(box[n], Told(n, q, ok)) # 0
    <2>1. PICK p \in Player : p = Head(todo)
        OBVIOUS
    <2>2. box' = Put(Take(m), p, Msg("TRIGGER", Exit, m, TRUE))
        BY <1>1, <2>1
    <2> QED
        BY <1>1, <2>2, SentOn
<1>3. ASSUME NEW q \in Player PROVE Fine(q)'
    <2>1. Fine(q) /\ player[q].at \in Map /\ Begins(q)
        BY <1>1, Typed, PlayersRest DEF ExcuseInv, Traveller
    <2>2. F(box', q, "LOADED", Exit, q) = F(box, q, "LOADED", Exit, q)
        <3>1. From("LOADED", Exit, q) \in SUBSET (Spoken \cup Loads)
            BY KindsOfExcuse
        <3> QED
            BY <1>1, <3>1, Actors DEF Hush, F
    <2>3. F(box', q, "LOADED", Exit, q) # 0 => Exit \in coreList'
        BY <2>1, <2>2 DEF Fine, Excuse
    <2>4. ASSUME NEW n \in Map
          PROVE  /\ N(box'[q], Bad(n, q)) = N(box[q], Bad(n, q))
                 /\ N(box'[n], Told(n, q, FALSE)) # 0 => N(box[n], Told(n, q, FALSE)) # 0
                 /\ Before(box'[n], Leaving(n, q), Late(n, q)) => Before(box[n], Leaving(n, q), Late(n, q))
        <3>1. Hush(Spoken, box, box')
            BY <1>1, HushLess
        <3>2. \A c \in Actor : \A S, T \in SUBSET Spoken :
                  N(box'[c], S) = N(box[c], S) /\ (Before(box'[c], S, T) => Before(box[c], S, T))
            BY <3>1 DEF Hush
        <3>3. Bad(n, q) \in SUBSET Spoken /\ Leaving(n, q) \in SUBSET Spoken /\ Late(n, q) \in SUBSET Spoken
            BY KindsOfExcuse
        <3>4. N(box'[q], Bad(n, q)) = N(box[q], Bad(n, q))
            BY <3>2, <3>3, Actors
        <3>5. Before(box'[n], Leaving(n, q), Late(n, q)) => Before(box[n], Leaving(n, q), Late(n, q))
            BY <3>2, <3>3, Actors
        <3>6. N(box'[n], Told(n, q, FALSE)) # 0 => N(box[n], Told(n, q, FALSE)) # 0
            <4>1. PICK ok \in BOOLEAN : ok = FALSE
                OBVIOUS
            <4>2. N(box'[n], Told(n, q, ok)) # 0 => N(box[n], Told(n, q, ok)) # 0
                BY <1>2
            <4> QED
                BY <4>1, <4>2
        <3> QED
            BY <3>4, <3>5, <3>6
    <2>5. \A n \in Map : /\ N(box'[q], Bad(n, q)) # 0 => N(box[q], Bad(n, q)) # 0
                         /\ N(box'[n], Told(n, q, FALSE)) # 0 => N(box[n], Told(n, q, FALSE)) # 0
                         /\ Before(box'[n], Leaving(n, q), Late(n, q)) => Before(box[n], Leaving(n, q), Late(n, q))
        BY <2>4
    <2> QED
        BY <2>1, <2>3, <2>5, ExcuseRest
<1> QED
    BY <1>3 DEF ExcuseInv

\* What a map that goes refuses is about itself.
LEMMA LastBad ==
    ASSUME IInv, NEW m \in Map, NEW type \in {"LOADED", "SWITCHED"}, NEW where \in Map, NEW who \in Client,
           Turn(m, type, where, who), box' = LastBox(m)
    PROVE  \A q \in Player, n \in Map : n # m => N(box'[q], Bad(n, q)) = N(box[q], Bad(n, q))
<1>1. /\ Got(m) /\ box \in Mailboxes /\ m \in Actor /\ Core \in Actor /\ Peer \in Actor /\ Top(m).type = type
    <2>1. Is(Top(m), type, where, who)
        BY DEF Turn
    <2> QED
        BY <2>1, Actors DEF Turn, IInv, MailInv, Fit, Is
<1>2. PICK by \in {Core, Peer} : by = map[m].closing
    BY LastCounts DEF Keeper
<1> DEFINE old == Take(m)[m]
           y == Answered(m)
           b == Put(Take(m), by, y)
           posts == LastPosts(m)
           after == DeliverAll(b, posts)
           K == {x \in Spoken : x.map # m}
<1>3. y \in Message /\ y \notin K /\ by \in Actor
    BY <1>1, <1>2, QuietMessages DEF Answered
<1>4. Take(m) \in Mailboxes /\ Hush(K, box, Take(m)) /\ old \in Seq(Message)
    <2>1. Top(m) \notin K
        BY <1>1 DEF Spoken, Talk
    <2> HIDE DEF K
    <2>2. Take(m) \in Mailboxes /\ Hush(K, box, Take(m))
        BY <1>1, <2>1, HushTake
    <2> QED
        BY <1>1, <2>2 DEF Mailboxes
<1> HIDE DEF y
<1>5. b \in Mailboxes /\ Hush(K, box, b)
    <2> HIDE DEF K
    <2> QED
        BY <1>3, <1>4, HushPut, HushOn
<1>6. /\ DOMAIN posts = DOMAIN old /\ DOMAIN old = 1 .. Len(old) /\ Len(old) \in Nat
      /\ posts = [i \in DOMAIN posts |-> posts[i]]
    BY <1>4 DEF LastPosts
<1>7. ASSUME NEW i \in DOMAIN old
      PROVE  posts[i] \in Quiet(K)
    <2>1. PICK x : x = old[i] /\ x \in Message /\ x.type \in Switching /\ x.map = m /\ x.by \in Player
        BY LastMail
    <2>2. posts[i] = Refusal(x)
        BY <2>1 DEF LastPosts
    <2> HIDE DEF posts, old
    <2>3. Refusal(x) \in Posts
        BY <2>1, RefusedWord
    <2>4. Refusal(x).msg.map = m
        <3>1. x.type \notin {"WAITACTIVATED", "CLOSEMAP"}
            BY <2>1 DEF Switching
        <3>2. Refusal(x) \in {Post(x.by, [x EXCEPT !.type = "BAD"]), Post(None, x)}
            BY <3>1 DEF Refusal
        <3> QED
            BY <2>1, <3>2 DEF Post, Message
    <2> QED
        BY <2>2, <2>3, <2>4 DEF Quiet
<1> HIDE DEF posts, K, old
<1>8. posts \in Seq(Quiet(K))
    <2>1. posts \in [1 .. Len(old) -> Quiet(K)]
        BY <1>6, <1>7
    <2> QED
        BY <1>6, <2>1, SeqIs
<1> HIDE DEF b
<1>9. after \in Mailboxes /\ Hush(K, b, after)
    BY <1>5, <1>8, HushAll
<1>10. box' = [after EXCEPT ![m] = <<>>]
    BY <1>2 DEF LastBox, b, y, posts
<1> HIDE DEF after
<1>11. \A c \in Actor : c # m => box'[c] = after[c]
    BY <1>1, <1>9, <1>10 DEF Mailboxes
<1>12. Hush(K, box, after)
    BY <1>5, <1>9, HushOn
<1>13. ASSUME NEW q \in Player, NEW n \in Map, n # m PROVE N(box'[q], Bad(n, q)) = N(box[q], Bad(n, q))
    <2>1. q \in Actor /\ q # m
        BY Actors
    <2>2. Bad(n, q) \in SUBSET K
        BY <1>13 DEF K, Bad, From, Spoken, Talk
    <2>3. N(after[q], Bad(n, q)) = N(box[q], Bad(n, q))
        BY <1>12, <2>1, <2>2 DEF Hush
    <2> QED
        BY <1>11, <2>1, <2>3
<1> QED
    BY <1>13

\* Who asked to leave a map that goes was in it, or was entering it.
LEMMA EvacuateLastExcuse ==
    ASSUME IInv, TalkInv, WhereInv, ExcuseInv, NEW m \in Map, NEW type \in {"LOADED", "SWITCHED"}, NEW where \in Map,
           NEW who \in Client, Turn(m, type, where, who), box' = LastBox(m), UNCHANGED <<player, coreList>>,
           seen \subseteq seen', map[m].lock \in seen' \cup {None},
           \A q \in map[m].grid : q \notin seen' => ~Where(q)
    PROVE  ExcuseInv'
<1>1. TypeOK /\ box \in Mailboxes /\ m # Exit
    BY LastCounts DEF IInv, MailInv, Fit
<1>2. /\ Fit(box') /\ box'[m] = <<>> /\ \A n \in Map : n # m => box'[n] = box[n]
      /\ \A c \in Actor : \A t, k, q : c # m /\ t # "BAD" => F(box', c, t, k, q) = F(box, c, t, k, q)
             + (IF c = Keeper(m) /\ t = "CLOSED" /\ k = m /\ q = Keeper(m) THEN 1 ELSE 0)
    BY LastSent
<1>3. box' \in Mailboxes
    BY <1>2 DEF Fit
<1>4. \A q \in Player, n \in Map : Words(box', q, n) = Words(box, q, n)
    BY LastWords
<1>5. \A S : N(box'[m], S) = 0
    BY <1>2, CountEmpty
<1>6. \A q \in Player, n \in Map : n # m => N(box'[q], Bad(n, q)) = N(box[q], Bad(n, q))
    BY LastBad
<1>7. ASSUME NEW q \in Player PROVE Fine(q)'
    <2>1. Fine(q) /\ player[q].at \in Map /\ Begins(q) /\ q \in Actor /\ q # m /\ q # None /\ UNCHANGED coreList
        BY <1>1, Typed, PlayersRest, Actors DEF ExcuseInv, Traveller
    <2>2. F(box', q, "LOADED", Exit, q) = F(box, q, "LOADED", Exit, q)
        <3>1. F(box', q, "LOADED", Exit, q) = F(box, q, "LOADED", Exit, q)
                  + (IF q = Keeper(m) /\ "LOADED" = "CLOSED" /\ Exit = m /\ q = Keeper(m) THEN 1 ELSE 0)
            BY <1>2, <2>1
        <3>2. F(box, q, "LOADED", Exit, q) \in Nat
            BY <1>1, <2>1, BoxNat DEF F
        <3> QED
            BY <3>1, <3>2
    <2>3. F(box', q, "LOADED", Exit, q) # 0 => Exit \in coreList'
        BY <2>1, <2>2 DEF Fine, Excuse
    <2>4. ASSUME player[q].step = "leave", N(box'[q], Bad(m, q)) # 0 PROVE Excused(q)'
        <3>1. Words(box, q, m) # 0
            <4>1. N(box'[q], Hears(m, q)) # 0
                BY <1>3, <2>4, Kinds
            <4>2. Words(box', q, m) # 0
                BY <1>3, <4>1, NotTrying
            <4> QED
                BY <1>4, <4>2
        <3>2. player[q].at = m
            <4>1. Speaks(q, player[q].at)
                BY <2>4 DEF TalkInv, Talks
            <4> QED
                BY <3>1, <4>1 DEF Speaks
        <3>3. q \in seen'
            <4> SUFFICES ASSUME q \notin seen' PROVE FALSE
                OBVIOUS
            <4>1. Where(q)
                BY DEF WhereInv
            <4>2. q \in map[m].grid \/ map[m].lock = q
                BY <2>4, <3>2, <4>1 DEF Where, Place
            <4> QED
                BY <2>1, <4>1, <4>2
        <3> QED
            BY <3>3 DEF Excused
    <2>5. ASSUME NEW n \in Map
          PROVE  /\ N(box'[q], Bad(n, q)) # 0 /\ (n = Exit \/ player[q].step = "leave") => N(box[q], Bad(n, q)) # 0 \/ Excused(q)'
                 /\ N(box'[n], Told(n, q, FALSE)) # 0 => N(box[n], Told(n, q, FALSE)) # 0 \/ Excused(q)'
                 /\ Before(box'[n], Leaving(n, q), Late(n, q)) => Before(box[n], Leaving(n, q), Late(n, q))
        <3>1. CASE n = m
            <4>1. N(box'[n], Told(n, q, FALSE)) = 0
                BY <1>5, <3>1
            <4>2. ~Before(box'[n], Leaving(n, q), Late(n, q))
                <5>1. box'[n] = <<>>
                    BY <1>2, <3>1
                <5> QED
                    BY <5>1 DEF Before
            <4> QED
                BY <1>1, <2>4, <3>1, <4>1, <4>2
        <3>2. CASE n # m
            <4>1. box'[n] = box[n] /\ N(box'[q], Bad(n, q)) = N(box[q], Bad(n, q))
                BY <1>2, <1>6, <3>2
            <4> QED
                BY <4>1
        <3> QED
            BY <3>1, <3>2
    <2>6. \A n \in Map :
              /\ N(box'[q], Bad(n, q)) # 0 /\ (n = Exit \/ player[q].step = "leave") => N(box[q], Bad(n, q)) # 0 \/ Excused(q)'
              /\ N(box'[n], Told(n, q, FALSE)) # 0 => N(box[n], Told(n, q, FALSE)) # 0 \/ Excused(q)'
              /\ Before(box'[n], Leaving(n, q), Late(n, q)) => Before(box[n], Leaving(n, q), Late(n, q))
        BY <2>5
    <2> QED
        BY <2>1, <2>3, <2>6, ExcuseMostly
<1> QED
    BY <1>7 DEF ExcuseInv

LEMMA EvacuateExcuse ==
    ASSUME IInv, TalkInv, WhereInv, ExcuseInv, NEW m \in Map, NEW type \in {"LOADED", "SWITCHED"}, NEW where \in Map,
           NEW who \in Client, Turn(m, type, where, who), NEW todo \in Seq(Player), Evacuate(Take(m), m, todo),
           UNCHANGED <<player, coreList>>, seen \subseteq seen', map[m].lock \in seen' \cup {None},
           \A q \in map[m].grid : q \notin seen' /\ Where(q) => \E i \in DOMAIN todo : todo[i] = q
    PROVE  ExcuseInv'
<1>1. CASE todo # <<>>
    <2>1. Got(m) /\ Is(Top(m), type, where, who)
        BY DEF Turn
    <2>2. Got(m) /\ Top(m).type \in {"LOADED", "SWITCHED"}
        BY <2>1 DEF Is
    <2> QED
        BY <1>1, <2>2, EvacuateNextExcuse
<1>2. CASE todo = <<>>
    <2>1. box' = LastBox(m)
        BY <1>2 DEF Evacuate, LastBox, LastPosts, Answered
    <2>2. \A q \in map[m].grid : q \notin seen' => ~Where(q)
        BY <1>2
    <2> QED
        BY <2>1, <2>2, EvacuateLastExcuse
<1> QED
    BY <1>1, <1>2

LEMMA ExitLoadedExcuse ==
    ASSUME IInv, TalkInv, WhereInv, ExcuseInv, NEW m \in Map, ExitLoaded(m)
    PROVE  ExcuseInv'
<1>1. Got(m) /\ Top(m).type = "LOADED" /\ m \in Actor /\ m \in Client /\ TypeOK /\ UNCHANGED <<player, coreList>>
    BY Actors DEF ExitLoaded, MapUnchanged, coreVars, IInv, Client
<1>2. Top(m).map = Exit /\ Top(m).by = m /\ Top(m).flag = TRUE /\ F(box, m, "LOADED", Exit, m) # 0
    <2>1. Top(m) \in For(m) /\ F(box, m, "LOADED", Top(m).map, Top(m).by) # 0
        BY <1>1, Handled
    <2>2. Top(m).map = Exit /\ Top(m).by = m /\ Top(m).flag = TRUE
        BY <1>1, <2>1, Actors DEF For, ForMap
    <2> QED
        BY <2>1, <2>2
<1>3. map[m].closing # None /\ map[m].todo = <<>>
    <2>1. Wants(m, Exit)
        BY <1>1, <1>2, Requested, Actors
    <2> QED
        BY <2>1, Actors DEF Wants
<1>4. Turn(m, "LOADED", Exit, m)
    BY <1>1, <1>2, <1>3 DEF Turn, Is
<1>5. PICK todo \in SetToSeqs(map[m].grid) : Evacuate(Take(m), m, todo)
    BY <1>2 DEF ExitLoaded
<1>6. seen \subseteq seen' /\ map[m].lock \in seen' \cup {None}
    BY <1>2 DEF ExitLoaded, Note
<1>7. todo \in Seq(Player) /\ \A q \in map[m].grid : \E i \in DOMAIN todo : todo[i] = q
    BY <1>1, Orders, OrderCovers
<1>8. PICK type \in {"LOADED", "SWITCHED"}, where \in Map : type = "LOADED" /\ where = Exit
    BY Actors
<1> QED
    BY <1>1, <1>4, <1>5, <1>6, <1>7, <1>8, EvacuateExcuse

LEMMA EvacuatedExcuse ==
    ASSUME IInv, TalkInv, WhereInv, ExcuseInv, NEW m \in Map, Evacuated(m)
    PROVE  ExcuseInv'
<1>1. Got(m) /\ Top(m).type = "SWITCHED" /\ m \in Actor /\ TypeOK /\ UNCHANGED <<player, seen, coreList>> /\ box \in Mailboxes
    BY Actors DEF Evacuated, MapUnchanged, coreVars, IInv, MailInv, Fit
<1>2. PICK p \in Player : Top(m).map = m /\ Top(m).by = p /\ F(box, m, "SWITCHED", m, p) # 0 /\ Top(m) \in Message
    <2>1. Top(m) \in For(m) /\ F(box, m, "SWITCHED", Top(m).map, Top(m).by) # 0 /\ Top(m) \in Message
        BY <1>1, Handled
    <2>2. Top(m).map = m /\ Top(m).by \in Player
        BY <1>1, <2>1, Actors DEF For, ForMap
    <2> QED
        BY <2>1, <2>2
<1>3. map[m].todo # <<>> /\ Head(map[m].todo) = p /\ map[m].closing # None
    BY <1>2, Sender
<1>4. map[m].todo \in Seq(Player)
    BY <1>1 DEF TypeOK
<1>5. CASE Top(m).flag
    <2>1. Evacuate(Take(m), m, Tail(map[m].todo))
        BY <1>5 DEF Evacuated
    <2>2. Turn(m, "SWITCHED", m, p)
        BY <1>1, <1>2, <1>3 DEF Turn, Is
    <2>9. Tail(map[m].todo) \in Seq(Player)
        BY <1>3, <1>4
    <2>3. PICK rest \in Seq(Player) : rest = Tail(map[m].todo)
        BY <2>9, Zenon
    <2>4. PICK type \in {"LOADED", "SWITCHED"}, who \in Client : type = "SWITCHED" /\ who = p
        BY DEF Client
    <2>5. map[m].lock \in seen' \cup {None} /\ seen \subseteq seen'
        BY <1>1, <1>3 DEF WhereInv, Noted
    <2>6. N(box[m], Told(m, p, TRUE)) # 0
        <3>1. Top(m).flag = TRUE
            BY <1>2, <1>5 DEF Message
        <3>2. Top(m) \in Told(m, p, TRUE)
            BY <1>1, <1>2, <3>1 DEF Told, From
        <3> QED
            BY <1>1, <3>2, TopThere
    <2>7. ASSUME NEW q \in map[m].grid, Where(q) PROVE \E i \in DOMAIN rest : rest[i] = q
        <3>1. q \in Player
            BY <1>1 DEF TypeOK
        <3>2. Stays(q, m)
            BY <2>7, <3>1 DEF Where
        <3>3. q # p
            BY <2>6, <3>2 DEF Stays
        <3>4. PICK i \in DOMAIN map[m].todo : map[m].todo[i] = q
            BY <1>3, <3>2 DEF Stays
        <3>5. i # 1
            BY <1>3, <1>4, <3>3, <3>4
        <3>6. i - 1 \in DOMAIN rest /\ rest[i - 1] = map[m].todo[i]
            BY <1>3, <1>4, <2>3, <3>5
        <3> QED
            BY <3>4, <3>6
    <2>8. Evacuate(Take(m), m, rest) /\ Turn(m, type, m, who) /\ UNCHANGED <<player, coreList>>
        BY <1>1, <2>1, <2>2, <2>3, <2>4
    <2> QED
        BY <2>5, <2>7, <2>8, EvacuateExcuse
<1>6. CASE ~Top(m).flag
    <2>1. UNCHANGED <<map, box, player, seen, coreList>>
        BY <1>1, <1>6 DEF Evacuated
    <2> QED
        BY <1>1, <2>1, StrayExcuse
<1> QED
    BY <1>5, <1>6

LEMMA StartExcuse ==
    ASSUME Init
    PROVE  ExcuseInv
<1>1. /\ box = [a \in Actor |-> <<>>]
      /\ player = [p \in Player |-> [at |-> Home, to |-> Home, step |-> "idle", for |-> None, dead |-> FALSE, n |-> 0]]
    BY DEF Init
<1>2. \A c \in Actor : \A S : N(box[c], S) = 0
    BY <1>1, CountEmpty
<1>3. ASSUME NEW p \in Player PROVE Fine(p)
    <2>1. player[p].step = "idle" /\ player[p].for = None /\ p \in Actor
        BY <1>1, Actors
    <2>2. \A S : N(box[p], S) = 0
        BY <1>2, <2>1
    <2>3. \A m \in Map : box[m] = <<>> /\ \A S : N(box[m], S) = 0
        BY <1>1, <1>2, Actors
    <2>4. F(box, p, "LOADED", Exit, p) = 0
        BY <2>2 DEF F
    <2>5. Excuse(p)
        BY <2>1, <2>3, <2>4 DEF Excuse
    <2>6. \A m \in Map : Ordered(m, p)
        BY <2>3 DEF Ordered, Before
    <2> QED
        BY <2>5, <2>6 DEF Fine
<1> QED
    BY <1>3 DEF ExcuseInv

LEMMA NextExcuse ==
    ASSUME IInv, TalkInv, WhereInv, ExcuseInv, Next
    PROVE  ExcuseInv'
<1>1. CASE CalmStep
    BY <1>1, CalmStepExcuse
<1>2. ASSUME NEW m \in Map, MapStep(m)
      PROVE  CalmStep \/ ExcuseInv'
    <2>1. CASE ExitLoaded(m) \/ Evacuated(m)
        BY <2>1, ExitLoadedExcuse, EvacuatedExcuse
    <2>2. CASE TryMapSwitch(m) \/ SwitchDone(m) \/ TryLeave(m) \/ LeaveOK(m)
        BY <2>2, TryMapSwitchExcuse, SwitchDoneExcuse, TryLeaveExcuse, LeaveOKExcuse
    <2> QED
        BY <1>2, <2>1, <2>2 DEF MapStep, CalmStep
<1>3. ASSUME NEW p \in Player, PlayerAnswered(p)
      PROVE  ExcuseInv'
    BY <1>3, TriggeredExcuse, SwitchLoadedExcuse, SwitchAllowedExcuse, LeaveAllowedExcuse, LeftExcuse DEF PlayerAnswered
<1> QED
    BY <1>1, <1>2, <1>3 DEF Next, Server, CalmStep

LEMMA StutterExcuse ==
    ASSUME IInv, ExcuseInv, UNCHANGED vars
    PROVE  ExcuseInv'
<1>1. UNCHANGED <<map, box, player, seen, coreList>> /\ TypeOK
    BY DEF vars, coreVars, IInv
<1> QED
    BY <1>1, StrayExcuse

(* A player that is sent away tells the closing map that it stays only if it*)
(* is dead, is in a switch of its own, found a cell taken, or was entering a*)
(* map that closed: the exit's base map is there, and every map that lets a *)
(* player in or out knows it (battleobject.cpp, servermapop.cpp).           *)
THEOREM RefusalsAreExcused == Spec => []ExcuseInv
<1>1. Init => ExcuseInv
    BY StartExcuse
<1>2. IInv /\ TalkInv /\ WhereInv /\ ExcuseInv /\ [Next]_vars => ExcuseInv'
    BY NextExcuse, StutterExcuse
<1> QED
    BY <1>1, <1>2, RegistryCounts, SwitchesTalk, PlayersAreSomewhere, PTL DEF Spec

\* A map meets an answer that it does not wait for.
LEMMA StrayExplained ==
    ASSUME IInv, WhereInv, NEW m \in Map, SwitchDone(m) \/ LeaveOK(m)
    PROVE  fault' = fault \/ \E p \in Player : fault' = <<"stray", m, p>> /\ p \in seen'
<1>1. Got(m) /\ Top(m).type \in {"SWITCHOK", "SWITCHERROR", "LEAVEOK"} /\ seen' = seen /\ m \in Actor /\ box \in Mailboxes /\ TypeOK
    BY Actors DEF SwitchDone, LeaveOK, IInv, MailInv, Fit
<1>2. PICK p \in Player : Top(m).by = p /\ Top(m).map = m /\ Top(m) \in Message /\ p \in Actor /\ p # None
    <2>1. Top(m).type \in Switching
        BY <1>1 DEF Switching
    <2>2. PICK p \in Player :
              /\ Top(m).by = p
              /\ Top(m).type \in {"TRYMAPSWITCH", "TRYLEAVE", "LEAVEOK"} => Top(m) \in Says(m, p)
              /\ Top(m).type \in {"SWITCHOK", "SWITCHERROR"} => Top(m) \in Late(m, p)
        BY <1>1, <2>1, TopSays
    <2>3. Top(m).map = m /\ Top(m) \in Message
        BY <1>1, <2>2 DEF Says, Late
    <2>4. p \in Actor /\ p # None
        BY Actors
    <2> QED
        BY <2>2, <2>3, <2>4
<1>3. CASE SwitchDone(m)
    <2>1. CASE map[m].lock = p
        BY <1>2, <1>3, <2>1 DEF SwitchDone
    <2>2. CASE map[m].lock # p
        <3>1. Top(m) \in Late(m, p)
            BY <1>2, <1>3 DEF SwitchDone, Late
        <3>2. N(box[m], Late(m, p)) # 0 /\ N(box[m], Late(m, p)) \in Nat /\ N(box[p], Allowed(m, p)) \in Nat
            BY <1>1, <1>2, <3>1, TopThere, BoxNat
        <3>3. Entering(p, m) # 0
            BY <3>2 DEF Entering
        <3>4. p \in seen
            BY <2>2, <3>3 DEF WhereInv, Where, Enters
        <3>5. fault' = <<"stray", m, p>>
            BY <1>2, <1>3, <2>2 DEF SwitchDone, Stray
        <3> QED
            BY <1>1, <3>4, <3>5
    <2> QED
        BY <2>1, <2>2
<1>4. CASE LeaveOK(m)
    <2>1. CASE p \in map[m].grid
        BY <1>2, <1>4, <2>1 DEF LeaveOK
    <2>2. CASE p \notin map[m].grid
        <3>1. Top(m) \in Leaves(m, p)
            BY <1>2, <1>4 DEF LeaveOK, Leaves, From
        <3>2. N(box[m], Leaves(m, p)) # 0
            BY <1>1, <3>1, TopThere
        <3>3. p \in seen
            BY <2>2, <3>2 DEF WhereInv, Where, Stays
        <3>4. fault' = <<"stray", m, p>>
            BY <1>2, <1>4, <2>2 DEF LeaveOK, Stray
        <3> QED
            BY <1>1, <3>3, <3>4
    <2> QED
        BY <2>1, <2>2
<1> QED
    BY <1>3, <1>4

\* A closing map meets a player that stays.
LEMMA SwitchExplained ==
    ASSUME IInv, ExcuseInv, NEW m \in Map, Evacuated(m)
    PROVE  fault' = fault \/ \E p \in Player : fault' = <<"switch", p>> /\ Excused(p)'
<1>1. Got(m) /\ Top(m).type = "SWITCHED" /\ m \in Actor /\ UNCHANGED <<player, seen>> /\ box \in Mailboxes
    BY Actors DEF Evacuated, MapUnchanged, IInv, MailInv, Fit
<1>2. PICK p \in Player : Top(m).map = m /\ Top(m).by = p /\ Top(m) \in Message
    <2>1. Top(m) \in For(m) /\ Top(m) \in Message
        BY <1>1, Handled
    <2>2. Top(m).map = m /\ Top(m).by \in Player
        BY <1>1, <2>1, Actors DEF For, ForMap
    <2> QED
        BY <2>1, <2>2
<1>3. CASE Top(m).flag
    BY <1>3 DEF Evacuated
<1>4. CASE ~Top(m).flag
    <2>1. Top(m) \in Told(m, p, FALSE)
        <3>1. Top(m).flag = FALSE
            BY <1>2, <1>4 DEF Message
        <3> QED
            BY <1>1, <1>2, <3>1 DEF Told, From
    <2>2. Excused(p)
        BY <1>1, <2>1, TopThere DEF ExcuseInv, Fine, Excuse
    <2>3. Excused(p)'
        BY <1>1, <2>2 DEF Excused
    <2>4. fault' = <<"switch", p>>
        BY <1>2, <1>4 DEF Evacuated
    <2> QED
        BY <2>3, <2>4
<1> QED
    BY <1>3, <1>4

Crossings ==
    /\ Fails("stray") => fault[3] \in seen
    /\ Fails("switch") => Excused(fault[2])

LEMMA NextExplains ==
    ASSUME IInv, WhereInv, ExcuseInv, Next
    PROVE  Crossings'
<1>1. fault = None /\ None \notin Fault
    BY FaultAssumption DEF Next
<1>2. \/ fault' = fault
      \/ \E m \in known, p \in Player : fault' = <<"attach", m, p>> /\ known' = known
      \/ \E m \in Map, a \in Player : fault' = <<"stray", m, a>> /\ a \in seen'
      \/ \E a \in Player : fault' = <<"switch", a>> /\ Excused(a)'
    <2>1. CASE CoreStep
        BY <2>1, CoreLoadMapAsserts DEF CoreStep, CoreLoaded, CoreActivated, CoreCloseMap, CoreClosed
    <2>2. CASE PeerStep
        BY <2>2, PeerLoadMapAsserts, PeerCloseMapKeeps DEF PeerStep, PeerActivated, PeerClosed
    <2>3. ASSUME NEW m \in Map, MapStep(m)
          PROVE  \/ fault' = fault
                 \/ \E a \in Player : fault' = <<"stray", m, a>> /\ a \in seen'
                 \/ \E a \in Player : fault' = <<"switch", a>> /\ Excused(a)'
        <3>1. CASE CloseMap(m) \/ ExitLoaded(m)
            BY <3>1, CloseMapKeeps, ExitLoadedKeeps
        <3>2. CASE Evacuated(m)
            BY <3>2, SwitchExplained
        <3>3. CASE SwitchDone(m) \/ LeaveOK(m)
            BY <3>3, StrayExplained
        <3>4. CASE Activate(m) \/ WaitActivated(m) \/ Erase(m) \/ TryMapSwitch(m) \/ TryLeave(m)
            BY <3>4 DEF Activate, WaitActivated, Erase, TryMapSwitch, TryLeave
        <3> QED
            BY <2>3, <3>1, <3>2, <3>3, <3>4 DEF MapStep
    <2>4. ASSUME NEW s \in Script, ScriptStep(s)
          PROVE  fault' = fault
        BY <2>4 DEF ScriptStep, OpenInstance, CloseInstance, ScriptAnswered
    <2>5. ASSUME NEW p \in Player, Switch(p) \/ Die(p) \/ PlayerAnswered(p)
          PROVE  fault' = fault
        BY <2>5 DEF Switch, Die, PlayerAnswered, Triggered, SwitchLoaded, SwitchAllowed, LeaveAllowed, Left, PlayerUnchanged
    <2> QED
        BY <2>1, <2>2, <2>3, <2>4, <2>5 DEF Next, Server
<1>3. CASE fault' = fault
    BY <1>1, <1>3 DEF Crossings, Fails
<1>4. CASE \E m \in known, p \in Player : fault' = <<"attach", m, p>> /\ known' = known
    BY <1>4 DEF Crossings, Fails
<1>5. CASE \E m \in Map, a \in Player : fault' = <<"stray", m, a>> /\ a \in seen'
    BY <1>5 DEF Crossings, Fails
<1>6. CASE \E a \in Player : fault' = <<"switch", a>> /\ Excused(a)'
    BY <1>6 DEF Crossings, Fails
<1> QED
    BY <1>2, <1>3, <1>4, <1>5, <1>6

(* Every assertion of these handlers that can fail has one of the causes    *)
(* that FaultsExplained lists: an answer reaches a map that has forgotten   *)
(* the question only if the player entered a closing map (innHandler() of   *)
(* actorpod.cpp), and a closing map meets a player that stays               *)
(* (on_AM_CLOSEMAP of servermapop.cpp) only for a reason of that player's.  *)
THEOREM EveryFaultIsExplained == Spec => []FaultsExplained
<1>1. Init => Crossings
    BY DEF Init, Crossings, Fails
<1>2. IInv /\ WhereInv /\ ExcuseInv /\ Crossings /\ [Next]_vars => Crossings'
    <2>1. IInv /\ WhereInv /\ ExcuseInv /\ Next => Crossings'
        BY NextExplains
    <2>2. Crossings /\ UNCHANGED vars => Crossings'
        BY DEF Crossings, Excused, Fails, vars
    <2> QED
        BY <2>1, <2>2
<1>3. CoresAssert /\ Crossings => FaultsExplained
    BY DEF CoresAssert, Crossings, Excused, FaultsExplained
<1> QED
    BY <1>1, <1>2, <1>3, RegistryCounts, PlayersAreSomewhere, RefusalsAreExcused, CoresNeverFail, PTL DEF Spec
=============================================================================
