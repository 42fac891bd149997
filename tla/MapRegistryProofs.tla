------------------------- MODULE MapRegistryProofs -------------------------
(* The map registry, for any number of base and instance maps, scripts and  *)
(* players, any setup and any bounds. Everything in it is a conversation:   *)
(* a request is a message, then an entry of a pending operation, a waiter of*)
(* a map or a coroutine, then an answer. The invariants count: the places a *)
(* request can be at add up to one while somebody waits for it, and to none *)
(* otherwise. From this follow who runs which map and which assertions never*)
(* fail.                                                                    *)
EXTENDS MapRegistry, FiniteSetTheorems, SequenceTheorems, TLAPS

Message == [type : MsgType, map : Map, by : Actor, flag : BOOLEAN]
Mailboxes == [Actor -> Seq(Message)]
Posts == [to : Actor \cup {None}, msg : Message]

(* What is counted: how many elements of q are in S; the messages of a type *)
(* about a map, or about a map and by somebody.                             *)
N(q, S) == Cardinality({i \in DOMAIN q : q[i] \in S})
Of(type, m) == {x \in Message : x.type = type /\ x.map = m}
From(type, m, a) == {x \in Message : x.type = type /\ x.map = m /\ x.by = a}

LEMMA OfIs ==
    /\ \A type, m, x : x \in Of(type, m) <=> x \in Message /\ x.type = type /\ x.map = m
    /\ \A type, m, a, x : x \in From(type, m, a) <=> x \in Message /\ x.type = type /\ x.map = m /\ x.by = a
BY DEF Of, From

-----------------------------------------------------------------------------
(* Counting.                                                                *)

LEMMA CountFinite ==
    ASSUME NEW T, NEW q \in Seq(T), NEW S
    PROVE  /\ IsFiniteSet({i \in DOMAIN q : q[i] \in S})
           /\ N(q, S) \in Nat /\ N(q, S) <= Len(q)
           /\ N(q, S) = 0 <=> \A i \in DOMAIN q : q[i] \notin S
<1>1. IsFiniteSet(1 .. Len(q)) /\ Cardinality(1 .. Len(q)) = Len(q)
    <2>1. Len(q) \in Nat /\ 1 \in Int
        OBVIOUS
    <2> HIDE DEF N
    <2> QED
        BY <2>1, FS_Interval
<1>2. {i \in DOMAIN q : q[i] \in S} \in SUBSET (1 .. Len(q))
    OBVIOUS
<1>3. /\ IsFiniteSet({i \in DOMAIN q : q[i] \in S})
      /\ Cardinality({i \in DOMAIN q : q[i] \in S}) <= Len(q)
    BY <1>1, <1>2, FS_Subset
<1>4. Cardinality({i \in DOMAIN q : q[i] \in S}) \in Nat
    BY <1>3, FS_CardinalityType
<1>5. Cardinality({i \in DOMAIN q : q[i] \in S}) = 0 <=> {i \in DOMAIN q : q[i] \in S} = {}
    BY <1>3, FS_EmptySet
<1> QED
    BY <1>3, <1>4, <1>5 DEF N

LEMMA CountEmpty == \A S : N(<<>>, S) = 0
<1> SUFFICES ASSUME NEW S PROVE N(<<>>, S) = 0
    OBVIOUS
<1>1. {i \in DOMAIN <<>> : <<>>[i] \in S} = {}
    OBVIOUS
<1> QED
    BY <1>1, FS_EmptySet DEF N

\* A set of naturals that is moved along the line keeps its size.
LEMMA ShiftSize ==
    ASSUME NEW A \in SUBSET Nat, IsFiniteSet(A), NEW n \in Nat, NEW B, B = {k \in Nat : k - n \in A}
    PROVE  IsFiniteSet(B) /\ Cardinality(B) = Cardinality(A)
<1> DEFINE f == [k \in A |-> k + n]
<1>1. f \in Bijection(A, B)
    <2>1. f \in [A -> B] /\ \A j, k \in A : f[j] = f[k] => j = k
        OBVIOUS
    <2>2. \A k \in B : k - n \in A /\ f[k - n] = k
        OBVIOUS
    <2> HIDE DEF f
    <2> QED
        BY <2>1, <2>2 DEF Bijection, Injection, Surjection, IsInjective
<1> HIDE DEF f
<1>2. ExistsBijection(A, B)
    BY <1>1 DEF ExistsBijection
<1> QED
    BY <1>2, FS_Bijection

LEMMA CountConcat ==
    ASSUME NEW T, NEW q \in Seq(T), NEW r \in Seq(T), NEW S
    PROVE  N(q \o r, S) = N(q, S) + N(r, S)
<1> DEFINE A == {i \in DOMAIN q : q[i] \in S}
           R == {i \in DOMAIN r : r[i] \in S}
           B == {k \in Nat : k - Len(q) \in R}
           C == {i \in DOMAIN (q \o r) : (q \o r)[i] \in S}
<1>1. IsFiniteSet(A) /\ IsFiniteSet(R)
    BY CountFinite
<1>2. R \in SUBSET Nat /\ Len(q) \in Nat
    OBVIOUS
<1>3. IsFiniteSet(B) /\ Cardinality(B) = Cardinality(R)
    <2> HIDE DEF R
    <2> QED
        BY <1>1, <1>2, ShiftSize
<1>4. C = A \cup B
    <2>1. /\ DOMAIN (q \o r) = 1 .. Len(q) + Len(r)
          /\ \A i \in 1 .. Len(q) : (q \o r)[i] = q[i]
          /\ \A i \in Len(q) + 1 .. Len(q) + Len(r) : (q \o r)[i] = r[i - Len(q)]
        BY ConcatProperties
    <2>2. DOMAIN q = 1 .. Len(q) /\ DOMAIN r = 1 .. Len(r) /\ Len(q) \in Nat /\ Len(r) \in Nat
        OBVIOUS
    <2>3. ASSUME NEW i PROVE i \in C <=> i \in A \cup B
        <3>1. CASE i \in 1 .. Len(q)
            BY <2>1, <2>2, <3>1
        <3>2. CASE i \in Len(q) + 1 .. Len(q) + Len(r)
            BY <2>1, <2>2, <3>2
        <3>3. CASE i \notin 1 .. Len(q) + Len(r)
            BY <2>1, <2>2, <3>3
        <3> QED
            BY <2>2, <3>1, <3>2, <3>3
    <2> QED
        BY <2>3
<1>5. A \cap B = {}
    OBVIOUS
<1>6. IsFiniteSet(A \cap B) /\ Cardinality(A \cap B) = 0
    BY <1>5, FS_EmptySet
<1>7. Cardinality(A) \in Nat /\ Cardinality(B) \in Nat
    BY <1>1, <1>3, FS_CardinalityType
<1> HIDE DEF A, B, R
<1>8. Cardinality(A \cup B) = Cardinality(A) + Cardinality(B)
    <2>1. Cardinality(A \cup B) = Cardinality(A) + Cardinality(B) - Cardinality(A \cap B)
        BY <1>1, <1>3, FS_Union, Zenon
    <2> QED
        BY <1>6, <1>7, <2>1
<1> QED
    BY <1>3, <1>4, <1>8 DEF N, A, R

LEMMA CountOne == \A x, S : N(<<x>>, S) = IF x \in S THEN 1 ELSE 0
<1> SUFFICES ASSUME NEW x, NEW S PROVE N(<<x>>, S) = IF x \in S THEN 1 ELSE 0
    OBVIOUS
<1>1. CASE x \in S
    <2>1. {i \in DOMAIN <<x>> : <<x>>[i] \in S} = {1}
        BY <1>1
    <2> QED
        BY <1>1, <2>1, FS_Singleton DEF N
<1>2. CASE x \notin S
    <2>1. {i \in DOMAIN <<x>> : <<x>>[i] \in S} = {}
        BY <1>2
    <2> QED
        BY <1>2, <2>1, FS_EmptySet DEF N
<1> QED
    BY <1>1, <1>2

LEMMA CountAppend ==
    ASSUME NEW T, NEW q \in Seq(T), NEW x \in T, NEW S
    PROVE  N(Append(q, x), S) = N(q, S) + (IF x \in S THEN 1 ELSE 0)
<1>1. Append(q, x) = q \o <<x>> /\ <<x>> \in Seq(T)
    OBVIOUS
<1> QED
    <2>1. N(q \o <<x>>, S) = N(q, S) + N(<<x>>, S)
        BY <1>1, CountConcat
    <2> QED
        BY <1>1, <2>1, CountOne

LEMMA CountTail ==
    ASSUME NEW T, NEW q \in Seq(T), q # <<>>, NEW S
    PROVE  /\ N(Tail(q), S) = N(q, S) - (IF Head(q) \in S THEN 1 ELSE 0)
           /\ Head(q) \in T /\ Tail(q) \in Seq(T)
<1>1. q = <<Head(q)>> \o Tail(q) /\ <<Head(q)>> \in Seq(T) /\ Tail(q) \in Seq(T) /\ Head(q) \in T
    OBVIOUS
<1>2. N(<<Head(q)>> \o Tail(q), S) = N(<<Head(q)>>, S) + N(Tail(q), S)
    BY <1>1, CountConcat
<1>3. N(Tail(q), S) \in Nat
    BY <1>1, CountFinite
<1> HIDE DEF N
<1>4. N(q, S) = N(<<Head(q)>>, S) + N(Tail(q), S)
    BY <1>1, <1>2
<1> QED
    BY <1>1, <1>3, <1>4, CountOne

LEMMA CountBijection ==
    ASSUME NEW A, IsFiniteSet(A), NEW B, NEW f \in Bijection(A, B)
    PROVE  IsFiniteSet(B) /\ Cardinality(B) = Cardinality(A)
<1>1. ExistsBijection(A, B)
    BY DEF ExistsBijection
<1> QED
    BY <1>1, FS_Bijection

\* The members of a finite set of numbers, in their order.
LEMMA Ranks ==
    ASSUME NEW A \in SUBSET Nat, IsFiniteSet(A)
    PROVE  \A n \in 1 .. Cardinality(A) : \E i \in A :
               /\ Cardinality({j \in A : j <= i}) = n
               /\ \A k \in A : Cardinality({j \in A : j <= k}) = n => k = i
<1> DEFINE below(i) == {j \in A : j <= i}
           rank == [i \in A |-> Cardinality(below(i))]
<1>1. ASSUME NEW i \in A
      PROVE  IsFiniteSet(below(i)) /\ rank[i] \in 1 .. Cardinality(A)
    <2>1. below(i) \in SUBSET A /\ i \in below(i)
        OBVIOUS
    <2> HIDE DEF below
    <2>2. IsFiniteSet(below(i)) /\ Cardinality(below(i)) <= Cardinality(A)
        BY <2>1, FS_Subset
    <2>3. Cardinality(below(i)) \in Nat /\ Cardinality(below(i)) # 0 /\ Cardinality(A) \in Nat
        BY <2>1, <2>2, FS_CardinalityType, FS_EmptySet
    <2> QED
        BY <2>2, <2>3
<1>2. ASSUME NEW i \in A, NEW k \in A, rank[i] = rank[k] PROVE i = k
    <2>1. ASSUME NEW x \in A, NEW y \in A, x < y, rank[x] = rank[y] PROVE FALSE
        <3>0. x \in Nat /\ y \in Nat
            OBVIOUS
        <3>1. below(x) \in SUBSET below(y) /\ y \in below(y) /\ y \notin below(x)
            <4>1. ASSUME NEW j \in below(x) PROVE j \in below(y)
                <5>1. j \in A /\ j \in Nat /\ j <= x
                    BY <4>1
                <5> QED
                    BY <2>1, <3>0, <5>1
            <4>2. y \in below(y) /\ y \notin below(x)
                BY <2>1, <3>0
            <4> QED
                BY <4>1, <4>2
        <3>2. IsFiniteSet(below(y)) /\ Cardinality(below(y)) = Cardinality(below(x))
            BY <1>1, <2>1
        <3> HIDE DEF below
        <3> QED
            BY <3>1, <3>2, FS_Subset
    <2> HIDE DEF rank
    <2> QED
        BY <1>2, <2>1
<1>3. IsFiniteSet(1 .. Cardinality(A)) /\ Cardinality(1 .. Cardinality(A)) = Cardinality(A)
    <2>1. Cardinality(A) \in Nat
        BY FS_CardinalityType
    <2>2. Cardinality(A) \in Int /\ 1 \in Int
        BY <2>1
    <2>3. Cardinality(1 .. Cardinality(A)) = IF 1 > Cardinality(A) THEN 0 ELSE Cardinality(A) - 1 + 1
        BY <2>2, FS_Interval
    <2> QED
        BY <2>1, <2>2, <2>3, FS_Interval
<1>4. rank \in [A -> 1 .. Cardinality(A)]
    BY <1>1
<1> HIDE DEF rank
<1>5. rank \in Injection(A, 1 .. Cardinality(A))
    BY <1>2, <1>4 DEF Injection, IsInjective
<1>6. rank \in Surjection(A, 1 .. Cardinality(A))
    BY <1>3, <1>5, FS_Injection
<1>7. ASSUME NEW n \in 1 .. Cardinality(A) PROVE \E i \in A : rank[i] = n
    BY <1>6 DEF Surjection
<1>8. ASSUME NEW n \in 1 .. Cardinality(A)
      PROVE  \E i \in A : rank[i] = n /\ \A k \in A : rank[k] = n => k = i
    BY <1>2, <1>7, <1>8
<1> QED
    BY <1>8 DEF rank

-----------------------------------------------------------------------------
(* Mail.                                                                    *)

\* The posts to a whose message is in S.
Sends(posts, a, S) == {i \in DOMAIN posts : posts[i].to = a /\ posts[i].msg \in S}

LEMMA MailFacts ==
    ASSUME NEW posts \in Seq(Posts), NEW a
    PROVE  /\ MailTo(a, posts) \in Seq(Message)
           /\ \A S : IsFiniteSet(Sends(posts, a, S)) /\ N(MailTo(a, posts), S) = Cardinality(Sends(posts, a, S))
           /\ \A n \in DOMAIN MailTo(a, posts) : \E i \in DOMAIN posts :
                  posts[i].to = a /\ posts[i].msg = MailTo(a, posts)[n]
<1> DEFINE mine == {i \in DOMAIN posts : posts[i].to = a}
           rank(i) == Cardinality({j \in mine : j <= i})
           nth(n) == CHOOSE i \in mine : rank(i) = n
           mail == MailTo(a, posts)
<1>1. IsFiniteSet(DOMAIN posts) /\ DOMAIN posts \subseteq Nat /\ mine \in SUBSET (DOMAIN posts)
    <2>1. DOMAIN posts = 1 .. Len(posts) /\ Len(posts) \in Int /\ 1 \in Int
        OBVIOUS
    <2>2. IsFiniteSet(1 .. Len(posts))
        BY <2>1, FS_Interval
    <2> QED
        BY <2>1, <2>2
<1>2. mine \in SUBSET Nat /\ IsFiniteSet(mine) /\ Cardinality(mine) \in Nat
    <2> HIDE DEF mine
    <2> QED
        BY <1>1, FS_Subset, FS_CardinalityType
<1>3. mail = [n \in 1 .. Cardinality(mine) |-> posts[nth(n)].msg]
    BY DEF MailTo
<1>4. ASSUME NEW n \in 1 .. Cardinality(mine)
      PROVE  nth(n) \in mine /\ rank(nth(n)) = n
    <2>1. \E i \in mine : rank(i) = n
        <3> HIDE DEF mine, nth
        <3>1. PICK i \in mine : Cardinality({j \in mine : j <= i}) = n
            <4> HIDE DEF rank
            <4>1. \A k \in 1 .. Cardinality(mine) : \E i \in mine :
                      /\ Cardinality({j \in mine : j <= i}) = k
                      /\ \A l \in mine : Cardinality({j \in mine : j <= l}) = k => l = i
                BY <1>2, Ranks
            <4>2. \E i \in mine :
                      /\ Cardinality({j \in mine : j <= i}) = n
                      /\ \A l \in mine : Cardinality({j \in mine : j <= l}) = n => l = i
                BY <4>1
            <4> QED
                BY <4>2
        <3> QED
            BY <3>1
    <2> HIDE DEF mine, rank
    <2> QED
        BY <2>1
<1>5. ASSUME NEW i \in mine
      PROVE  rank(i) \in 1 .. Cardinality(mine) /\ nth(rank(i)) = i
    <2> DEFINE n == rank(i)
    <2> HIDE DEF mine
    <2>1. {j \in mine : j <= i} \in SUBSET mine /\ i \in {j \in mine : j <= i}
        BY <1>2, <1>5
    <2>2. IsFiniteSet({j \in mine : j <= i}) /\ n <= Cardinality(mine)
        BY <1>2, <2>1, FS_Subset
    <2>3. n \in Nat /\ n # 0
        BY <2>1, <2>2, FS_CardinalityType, FS_EmptySet
    <2>4. n \in 1 .. Cardinality(mine)
        BY <1>2, <2>2, <2>3
    <2> HIDE DEF n
    <2>5. PICK x \in mine : \A k \in mine : Cardinality({j \in mine : j <= k}) = n => k = x
        <3> HIDE DEF nth, rank
        <3> QED
            BY <1>2, <2>4, Ranks, Zenon
    <2>6. nth(n) \in mine /\ rank(nth(n)) = n
        <3> HIDE DEF nth, rank
        <3> QED
            BY <1>4, <2>4
    <2>7. nth(n) = i
        <3> HIDE DEF nth
        <3> QED
            BY <1>5, <2>5, <2>6 DEF n
    <2> QED
        BY <2>4, <2>7 DEF n
<1>6. mail \in Seq(Message) /\ DOMAIN mail = 1 .. Cardinality(mine) /\
      \A n \in 1 .. Cardinality(mine) : mail[n] = posts[nth(n)].msg
    <2>1. \A n \in 1 .. Cardinality(mine) : posts[nth(n)].msg \in Message
        <3>1. \A i \in mine : posts[i] \in Posts
            OBVIOUS
        <3> HIDE DEF nth, rank, mine
        <3> QED
            BY <1>4, <3>1 DEF Posts
    <2> HIDE DEF mine, nth
    <2> QED
        BY <1>2, <1>3, <2>1
<1>7. ASSUME NEW S
      PROVE  IsFiniteSet(Sends(posts, a, S)) /\ N(mail, S) = Cardinality(Sends(posts, a, S))
    <2> DEFINE B == Sends(posts, a, S)
               A == {n \in DOMAIN mail : mail[n] \in S}
               f == [n \in A |-> nth(n)]
    <2>1. IsFiniteSet(A)
        <3> HIDE DEF mail
        <3> QED
            BY <1>6, CountFinite
    <2>2. B = {i \in mine : posts[i].msg \in S}
        BY DEF Sends
    <2>3. f \in [A -> B]
        <3> SUFFICES ASSUME NEW n \in A PROVE nth(n) \in B
            OBVIOUS
        <3> HIDE DEF mine, nth, mail, rank, B
        <3> QED
            BY <1>4, <1>6, <2>2
    <2>4. \A n, k \in A : f[n] = f[k] => n = k
        <3> SUFFICES ASSUME NEW n \in A, NEW k \in A, nth(n) = nth(k) PROVE n = k
            OBVIOUS
        <3> HIDE DEF mine, nth, mail, rank
        <3> QED
            BY <1>4, <1>6
    <2>5. \A i \in B : \E n \in A : f[n] = i
        <3> SUFFICES ASSUME NEW i \in B PROVE \E n \in A : nth(n) = i
            OBVIOUS
        <3> HIDE DEF mine, nth, mail, rank
        <3> QED
            BY <1>5, <1>6, <2>2
    <2> HIDE DEF A, B, f
    <2>6. f \in Bijection(A, B)
        BY <2>3, <2>4, <2>5 DEF Bijection, Injection, Surjection, IsInjective
    <2>7. IsFiniteSet(B) /\ Cardinality(B) = Cardinality(A)
        BY <2>1, <2>6, CountBijection
    <2> QED
        BY <2>7 DEF N, A, B
<1>8. \A n \in DOMAIN mail : \E i \in DOMAIN posts : posts[i].to = a /\ posts[i].msg = mail[n]
    <2> HIDE DEF nth, mail
    <2> QED
        BY <1>4, <1>6
<1> QED
    BY <1>6, <1>7, <1>8

LEMMA BoxNat ==
    ASSUME NEW b \in Mailboxes
    PROVE  \A c \in Actor : \A S :
               /\ N(b[c], S) \in Nat
               /\ N(b[c], S) = 0 <=> \A i \in DOMAIN b[c] : b[c][i] \notin S
<1>1. \A c \in Actor : b[c] \in Seq(Message)
    BY DEF Mailboxes
<1> QED
    BY <1>1, CountFinite

LEMMA DeliverCount ==
    ASSUME NEW b \in Mailboxes, NEW post \in Posts
    PROVE  /\ Deliver(b, post) \in Mailboxes
           /\ \A c \in Actor : \A S : N(Deliver(b, post)[c], S) =
                  N(b[c], S) + (IF post.to = c /\ post.msg \in S THEN 1 ELSE 0)
<1>1. post.to \in Actor \cup {None} /\ post.msg \in Message /\ None \notin Actor
    BY ActorAssumption DEF Posts, Actor
<1>2. CASE post.to = None
    BY <1>1, <1>2, BoxNat DEF Deliver
<1>3. CASE post.to \in Actor
    <2>1. Deliver(b, post) = [b EXCEPT ![post.to] = Append(b[post.to], post.msg)]
        BY <1>1, <1>3 DEF Deliver, Put
    <2>2. Deliver(b, post) \in Mailboxes
        <3>1. b \in [Actor -> Seq(Message)] /\ Append(b[post.to], post.msg) \in Seq(Message)
            BY <1>1, <1>3 DEF Mailboxes
        <3> QED
            BY <1>3, <2>1, <3>1 DEF Mailboxes
    <2>3. ASSUME NEW c \in Actor, NEW S
          PROVE  N(Deliver(b, post)[c], S) = N(b[c], S) + (IF post.to = c /\ post.msg \in S THEN 1 ELSE 0)
        <3>1. CASE c = post.to
            <4>1. Deliver(b, post)[c] = Append(b[c], post.msg) /\ b[c] \in Seq(Message)
                BY <2>1, <3>1 DEF Mailboxes
            <4> QED
                BY <1>1, <3>1, <4>1, CountAppend
        <3>2. CASE c # post.to
            <4>1. Deliver(b, post)[c] = b[c]
                BY <2>1, <3>2 DEF Mailboxes
            <4> QED
                BY <3>2, <4>1, BoxNat
        <3> QED
            BY <3>1, <3>2
    <2> QED
        BY <2>2, <2>3
<1> QED
    BY <1>1, <1>2, <1>3

LEMMA TakeCount ==
    ASSUME box \in Mailboxes, NEW a \in Actor, Got(a)
    PROVE  /\ Take(a) \in Mailboxes /\ Top(a) \in Message
           /\ \A c \in Actor : \A S : N(Take(a)[c], S) =
                  N(box[c], S) - (IF c = a /\ Top(a) \in S THEN 1 ELSE 0)
<1>1. box[a] \in Seq(Message) /\ box[a] # <<>> /\ Take(a) = [box EXCEPT ![a] = Tail(box[a])]
    BY DEF Got, Take, Mailboxes
<1>2. Top(a) \in Message /\ Tail(box[a]) \in Seq(Message) /\
      \A S : N(Tail(box[a]), S) = N(box[a], S) - (IF Head(box[a]) \in S THEN 1 ELSE 0)
    BY <1>1, CountTail DEF Top
<1>3. Take(a) \in Mailboxes
    BY <1>1, <1>2 DEF Mailboxes
<1>4. ASSUME NEW c \in Actor, NEW S
      PROVE  N(Take(a)[c], S) = N(box[c], S) - (IF c = a /\ Top(a) \in S THEN 1 ELSE 0)
    <2>1. CASE c = a
        <3>1. Take(a)[c] = Tail(box[a])
            BY <1>1, <2>1 DEF Mailboxes
        <3> QED
            BY <1>2, <2>1, <3>1 DEF Top
    <2>2. CASE c # a
        <3>1. Take(a)[c] = box[c]
            BY <1>1, <2>2 DEF Mailboxes
        <3> QED
            BY <2>2, <3>1, BoxNat
    <2> QED
        BY <2>1, <2>2
<1> QED
    BY <1>2, <1>3, <1>4

LEMMA DeliverAllCount ==
    ASSUME NEW b \in Mailboxes, NEW posts \in Seq(Posts)
    PROVE  /\ DeliverAll(b, posts) \in Mailboxes
           /\ \A c \in Actor : \A S : N(DeliverAll(b, posts)[c], S) =
                  N(b[c], S) + Cardinality(Sends(posts, c, S))
<1>1. \A c \in Actor : DeliverAll(b, posts)[c] = b[c] \o MailTo(c, posts) /\ b[c] \in Seq(Message)
    BY DEF DeliverAll, Mailboxes
<1>2. DeliverAll(b, posts) \in Mailboxes
    <2>1. \A c \in Actor : b[c] \o MailTo(c, posts) \in Seq(Message)
        <3> SUFFICES ASSUME NEW c \in Actor PROVE b[c] \o MailTo(c, posts) \in Seq(Message)
            OBVIOUS
        <3>1. MailTo(c, posts) \in Seq(Message)
            BY MailFacts
        <3> QED
            BY <1>1, <3>1
    <2> QED
        BY <2>1 DEF DeliverAll, Mailboxes
<1>3. ASSUME NEW c \in Actor, NEW S
      PROVE  N(DeliverAll(b, posts)[c], S) =
                 N(b[c], S) + Cardinality(Sends(posts, c, S))
    <2>1. N(b[c] \o MailTo(c, posts), S) = N(b[c], S) + N(MailTo(c, posts), S)
        BY <1>1, MailFacts, CountConcat
    <2>2. N(MailTo(c, posts), S) = Cardinality(Sends(posts, c, S))
        BY MailFacts
    <2>3. DeliverAll(b, posts)[c] = b[c] \o MailTo(c, posts)
        BY <1>1
    <2> HIDE DEF N
    <2> QED
        BY <2>1, <2>2, <2>3
<1> QED
    BY <1>2, <1>3


-----------------------------------------------------------------------------
(* What may be in whose mailbox, in a pending operation and in the line of  *)
(* those who wait for a map.                                                *)

Client == Map \cup Script \cup Player

ForCore(x) ==
    \/ x.type = "LOADMAP" /\ x.by \in Client /\ (x.by \in Player => x.flag = FALSE)
    \/ x.type = "ACTIVATED" /\ x.by \in Map \cup Script /\ x.flag = TRUE
    \/ x.type = "CLOSEMAP" /\ x.by \in Script
    \/ x.type \in {"LOADED", "CLOSED"} /\ x.by \in {Core, Peer} /\ x.flag = TRUE
ForPeer(x) ==
    \/ x.type \in {"LOADMAP", "CLOSEMAP"} /\ x.by = Core
    \/ x.type \in {"ACTIVATED", "CLOSED"} /\ x.by = Peer /\ x.flag = TRUE
ForMap(m, x) ==
    \/ x.type = "WAITACTIVATED" /\ x.map = m /\ x.by \in {Peer} \cup Map \cup Script
    \/ x.type = "CLOSEMAP" /\ x.map = m /\ x.by \in {Core, Peer}
    \/ x.type = "LOADED" /\ x.map = Exit /\ x.by = m /\ x.flag = TRUE
    \/ x.type \in {"SWITCHED", "SWITCHOK", "SWITCHERROR", "TRYMAPSWITCH", "TRYLEAVE", "LEAVEOK"}
           /\ x.map = m /\ x.by \in Player
ForScript(s, x) == x.type \in {"LOADED", "CLOSED"} /\ x.by = s /\ (x.type = "LOADED" => x.flag = TRUE)
ForPlayer(p, x) ==
    \/ x.type = "LOADED" /\ x.by = p /\ x.flag = TRUE
    \/ x.type \in {"ALLOW", "BAD", "FINISHLEAVE"} /\ x.by = p
    \/ x.type = "TRIGGER" /\ x.map = Exit /\ x.by \in Map
For(a) == {x \in Message :
    \/ a = Core /\ ForCore(x)
    \/ a = Peer /\ ForPeer(x)
    \/ a \in Map /\ ForMap(a, x)
    \/ a \in Script /\ ForScript(a, x)
    \/ a \in Player /\ ForPlayer(a, x)}

Fit(b) == b \in Mailboxes /\ \A a \in Actor : b[a] \in Seq(For(a))
MailInv == Fit(box)

\* A post may be to nobody.
FitPosts == {x \in Posts : x.to = None \/ x.msg \in For(x.to)}

LEMMA FitDeliver ==
    ASSUME NEW b, Fit(b), NEW post \in FitPosts
    PROVE  Fit(Deliver(b, post))
<1>1. post \in Posts /\ post.to \in Actor \cup {None} /\ (post.to = None \/ post.msg \in For(post.to)) /\ None \notin Actor
    BY ActorAssumption DEF FitPosts, Posts, Actor
<1>2. Deliver(b, post) \in Mailboxes
    BY <1>1, DeliverCount DEF Fit
<1>3. ASSUME NEW a \in Actor PROVE Deliver(b, post)[a] \in Seq(For(a))
    <2>1. b[a] \in Seq(For(a)) /\ b \in Mailboxes
        BY DEF Fit
    <2>2. CASE post.to = a
        <3>1. Deliver(b, post)[a] = Append(b[a], post.msg)
            BY <1>1, <2>1, <2>2 DEF Deliver, Put, Mailboxes
        <3> QED
            BY <1>1, <2>1, <2>2, <3>1
    <2>3. CASE post.to # a
        <3>1. Deliver(b, post)[a] = b[a]
            BY <1>1, <2>1, <2>3 DEF Deliver, Put, Mailboxes
        <3> QED
            BY <2>1, <3>1
    <2> QED
        BY <2>2, <2>3
<1> QED
    BY <1>2, <1>3 DEF Fit

LEMMA FitTake ==
    ASSUME MailInv, NEW a \in Actor, Got(a)
    PROVE  Fit(Take(a)) /\ Top(a) \in For(a)
<1>1. box \in Mailboxes /\ \A c \in Actor : box[c] \in Seq(For(c))
    BY DEF MailInv, Fit
<1>2. Take(a) \in Mailboxes
    BY <1>1, TakeCount
<1>3. Top(a) \in For(a) /\ Tail(box[a]) \in Seq(For(a))
    BY <1>1 DEF Got, Top
<1>4. \A c \in Actor : Take(a)[c] = IF c = a THEN Tail(box[a]) ELSE box[c]
    BY <1>1 DEF Take, Mailboxes
<1> QED
    BY <1>1, <1>2, <1>3, <1>4 DEF Fit

LEMMA FitDeliverAll ==
    ASSUME NEW b, Fit(b), NEW posts \in Seq(FitPosts)
    PROVE  Fit(DeliverAll(b, posts)) /\ posts \in Seq(Posts)
<1>1. posts \in Seq(Posts)
    BY DEF FitPosts
<1>2. DeliverAll(b, posts) \in Mailboxes
    BY <1>1, DeliverAllCount DEF Fit
<1>3. ASSUME NEW a \in Actor PROVE DeliverAll(b, posts)[a] \in Seq(For(a))
    <2>1. DeliverAll(b, posts)[a] = b[a] \o MailTo(a, posts) /\ b[a] \in Seq(For(a))
        BY DEF DeliverAll, Fit
    <2>2. a # None
        BY ActorAssumption DEF Actor
    <2>3. ASSUME NEW n \in DOMAIN MailTo(a, posts) PROVE MailTo(a, posts)[n] \in For(a)
        <3>1. PICK i \in DOMAIN posts : posts[i].to = a /\ posts[i].msg = MailTo(a, posts)[n]
            BY <1>1, MailFacts
        <3>2. posts[i] \in FitPosts
            OBVIOUS
        <3> QED
            BY <2>2, <3>1, <3>2 DEF FitPosts
    <2>4. MailTo(a, posts) \in Seq(For(a))
        <3>1. MailTo(a, posts) \in Seq(Message)
            BY <1>1, MailFacts
        <3> QED
            BY <2>3, <3>1
    <2> QED
        BY <2>1, <2>4
<1> QED
    BY <1>1, <1>2, <1>3 DEF Fit

-----------------------------------------------------------------------------
(* The messages of a type about a map, by somebody, that c has not handled; *)
(* and how a handler that takes a message and sends one moves them.         *)

F(b, c, type, m, r) == N(b[c], From(type, m, r))
Is(x, type, m, r) == x.type = type /\ x.map = m /\ x.by = r

LEMMA FNat ==
    ASSUME NEW b \in Mailboxes
    PROVE  \A c \in Actor : \A type, m, r : F(b, c, type, m, r) \in Nat
BY BoxNat DEF F

LEMMA TopCounts ==
    ASSUME MailInv, NEW a \in Actor, Got(a)
    PROVE  F(box, a, Top(a).type, Top(a).map, Top(a).by) # 0
<1>1. box \in Mailboxes
    BY DEF MailInv, Fit
<1>2. Take(a) \in Mailboxes /\ Top(a) \in Message
    BY <1>1, TakeCount
<1>3. Top(a) \in From(Top(a).type, Top(a).map, Top(a).by)
    BY <1>2, OfIs
<1>4. \A S : N(Take(a)[a], S) = N(box[a], S) - (IF Top(a) \in S THEN 1 ELSE 0)
    BY <1>1, TakeCount
<1>5. \A S : N(Take(a)[a], S) \in Nat /\ N(box[a], S) \in Nat
    BY <1>1, <1>2, BoxNat
<1> QED
    BY <1>3, <1>4, <1>5 DEF F

LEMMA Taken ==
    ASSUME MailInv, NEW a \in Actor, Got(a)
    PROVE  /\ Fit(Take(a))
           /\ \A c \in Actor : c # a => Take(a)[c] = box[c]
           /\ \A c \in Actor : \A type, m, r :
                  /\ F(Take(a), c, type, m, r) \in Nat /\ F(box, c, type, m, r) \in Nat
                  /\ F(Take(a), c, type, m, r) =
                         F(box, c, type, m, r) - (IF c = a /\ Is(Top(a), type, m, r) THEN 1 ELSE 0)
<1>1. box \in Mailboxes /\ Fit(Take(a)) /\ Take(a) \in Mailboxes
    BY FitTake DEF MailInv, Fit
<1>2. \A c \in Actor : c # a => Take(a)[c] = box[c]
    BY <1>1 DEF Take, Mailboxes
<1>3. Top(a) \in Message
    BY <1>1, TakeCount
<1>4. \A type, m, r : Top(a) \in From(type, m, r) <=> Is(Top(a), type, m, r)
    BY <1>3, OfIs DEF Is
<1>5. \A c \in Actor : \A S : N(Take(a)[c], S) = N(box[c], S) - (IF c = a /\ Top(a) \in S THEN 1 ELSE 0)
    BY <1>1, TakeCount
<1>6. ASSUME NEW c \in Actor, NEW type, NEW m, NEW r
      PROVE  F(Take(a), c, type, m, r) = F(box, c, type, m, r) - (IF c = a /\ Is(Top(a), type, m, r) THEN 1 ELSE 0)
    BY <1>4, <1>5 DEF F
<1> QED
    BY <1>1, <1>2, <1>6, FNat

LEMMA Sending ==
    ASSUME NEW b, Fit(b), NEW to \in Actor, NEW y \in For(to)
    PROVE  /\ Fit(Put(b, to, y)) /\ Deliver(b, Post(to, y)) = Put(b, to, y)
           /\ \A c \in Actor : c # to => Put(b, to, y)[c] = b[c]
           /\ \A c \in Actor : \A type, m, r :
                  /\ F(Put(b, to, y), c, type, m, r) \in Nat /\ F(b, c, type, m, r) \in Nat
                  /\ F(Put(b, to, y), c, type, m, r) =
                         F(b, c, type, m, r) + (IF c = to /\ Is(y, type, m, r) THEN 1 ELSE 0)
<1> DEFINE post == Post(to, y)
<1>1. post \in FitPosts /\ post \in Posts /\ post.to = to /\ post.msg = y /\ y \in Message /\ to # None
    BY ActorAssumption DEF Post, FitPosts, Posts, For, Actor
<1>2. Deliver(b, post) = Put(b, to, y) /\ b \in Mailboxes
    BY <1>1 DEF Deliver, Fit
<1> HIDE DEF post
<1>3. Fit(Put(b, to, y)) /\ Put(b, to, y) \in Mailboxes
    BY <1>1, <1>2, FitDeliver DEF Fit
<1>4. \A c \in Actor : c # to => Put(b, to, y)[c] = b[c]
    BY <1>2 DEF Put, Mailboxes
<1>5. \A type, m, r : y \in From(type, m, r) <=> Is(y, type, m, r)
    BY <1>1, OfIs DEF Is
<1>6. \A c \in Actor : \A S : N(Put(b, to, y)[c], S) = N(b[c], S) + (IF c = to /\ y \in S THEN 1 ELSE 0)
    <2>1. \A c \in Actor : \A S : N(Deliver(b, post)[c], S) = N(b[c], S) + (IF post.to = c /\ post.msg \in S THEN 1 ELSE 0)
        BY <1>1, <1>2, DeliverCount
    <2> QED
        BY <1>1, <1>2, <2>1
<1>7. ASSUME NEW c \in Actor, NEW type, NEW m, NEW r
      PROVE  F(Put(b, to, y), c, type, m, r) = F(b, c, type, m, r) + (IF c = to /\ Is(y, type, m, r) THEN 1 ELSE 0)
    BY <1>5, <1>6 DEF F
<1> QED
    BY <1>1, <1>2, <1>3, <1>4, <1>7, FNat DEF post

\* A handler that takes a message and sends one.
LEMMA Exchange ==
    ASSUME MailInv, NEW a \in Actor, Got(a), NEW to \in Actor, NEW y \in For(to)
    PROVE  /\ Fit(Put(Take(a), to, y)) /\ Deliver(Take(a), Post(to, y)) = Put(Take(a), to, y)
           /\ \A c \in Actor : c \notin {a, to} => Put(Take(a), to, y)[c] = box[c]
           /\ \A c \in Actor : \A type, m, r :
                  /\ F(Put(Take(a), to, y), c, type, m, r) \in Nat /\ F(box, c, type, m, r) \in Nat
                  /\ F(Put(Take(a), to, y), c, type, m, r) =
                         F(box, c, type, m, r) - (IF c = a /\ Is(Top(a), type, m, r) THEN 1 ELSE 0)
                                               + (IF c = to /\ Is(y, type, m, r) THEN 1 ELSE 0)
<1>1. Fit(Take(a))
    BY Taken
<1>2. \A c \in Actor : c \notin {a, to} => Put(Take(a), to, y)[c] = box[c]
    BY <1>1, Taken, Sending
<1>3. ASSUME NEW c \in Actor, NEW type, NEW m, NEW r
      PROVE  /\ F(Put(Take(a), to, y), c, type, m, r) \in Nat /\ F(box, c, type, m, r) \in Nat
             /\ F(Put(Take(a), to, y), c, type, m, r) =
                    F(box, c, type, m, r) - (IF c = a /\ Is(Top(a), type, m, r) THEN 1 ELSE 0)
                                          + (IF c = to /\ Is(y, type, m, r) THEN 1 ELSE 0)
    <2>1. /\ F(Take(a), c, type, m, r) \in Nat /\ F(box, c, type, m, r) \in Nat
          /\ F(Take(a), c, type, m, r) = F(box, c, type, m, r) - (IF c = a /\ Is(Top(a), type, m, r) THEN 1 ELSE 0)
        BY Taken
    <2>2. /\ F(Put(Take(a), to, y), c, type, m, r) \in Nat
          /\ F(Put(Take(a), to, y), c, type, m, r) =
                 F(Take(a), c, type, m, r) + (IF c = to /\ Is(y, type, m, r) THEN 1 ELSE 0)
        BY <1>1, Sending
    <2> QED
        BY <2>1, <2>2
<1> QED
    BY <1>1, <1>2, <1>3, Sending

-----------------------------------------------------------------------------
(* The inductive invariant.                                                 *)

QueueInv ==
    \A m \in Map :
        /\ \A i \in DOMAIN loadOp[m] : /\ loadOp[m][i].by \in Client
                                       /\ loadOp[m][i].by \in Player => loadOp[m][i].wait = FALSE
        /\ \A i \in DOMAIN map[m].waiting : map[m].waiting[i] \in {Peer} \cup Map \cup Script

(* The cores load or close a map once at a time: the places where a load    *)
(* that is under way can be at, and those of a close.                       *)
Live(m) == map[m].state = "live"
Keeper(m) == IF m \in remote THEN Peer ELSE Core
Waits(m, r) == N(map[m].waiting, {r})
Loading(m) ==
    F(box, Peer, "LOADMAP", m, Core) + F(box, Peer, "ACTIVATED", m, Peer)
    + F(box, m, "WAITACTIVATED", m, Peer) + Waits(m, Peer)
    + F(box, Core, "LOADED", m, Core) + F(box, Core, "LOADED", m, Peer)
Gone(m) == F(box, Peer, "CLOSED", m, Peer) + F(box, Core, "CLOSED", m, Core) + F(box, Core, "CLOSED", m, Peer)
Closing(m) ==
    F(box, Peer, "CLOSEMAP", m, Core) + F(box, m, "CLOSEMAP", m, Core) + F(box, m, "CLOSEMAP", m, Peer)
    + (IF map[m].closing # None THEN 1 ELSE 0) + Gone(m)
Chain(m) ==
    /\ Loading(m) = (IF loadOp[m] # <<>> THEN 1 ELSE 0)
    /\ Closing(m) = (IF closeOp[m] # <<>> THEN 1 ELSE 0)
    /\ loadOp[m] # <<>> => m \in remote /\ m \notin coreList
    /\ closeOp[m] # <<>> => m \in coreList
    /\ (closeOp[m] # <<>> \/ map[m].state = "closed") => m \in known

(* What follows for the actor of the map and for the lists.                 *)
Bare(m) ==
    /\ map[m].waiting = <<>> /\ map[m].todo = <<>> /\ map[m].closing = None
    /\ map[m].active = FALSE /\ map[m].grid = {} /\ map[m].lock = None
State(m) ==
    /\ Live(m) <=> IF m \in coreList THEN Gone(m) = 0
                   ELSE loadOp[m] # <<>> /\ F(box, Peer, "LOADMAP", m, Core) = 0
    /\ m \in peerList <=> m \in remote /\ (Live(m) \/ F(box, Peer, "CLOSED", m, Peer) # 0)
    /\ ~Live(m) => box[m] = <<>> /\ Bare(m)
    /\ map[m].active = TRUE => map[m].waiting = <<>>
    /\ map[m].closing \in {None, Keeper(m)}
    /\ F(box, m, "CLOSEMAP", m, IF m \in remote THEN Core ELSE Peer) = 0
    /\ m \notin remote => F(box, Peer, "CLOSEMAP", m, Core) = 0 /\ F(box, Peer, "CLOSED", m, Peer) = 0
    /\ map[m].closing = None => map[m].todo = <<>>
RegistryInv == \A m \in Map : Chain(m) /\ State(m)

(* A script closes what somebody has loaded, and loads a map of its own.    *)
KnownInv ==
    \A s \in Script :
        /\ script[s].op = "idle" => script[s].map = None
        /\ script[s].op = "close" => script[s].map \in known
        /\ script[s].op = "load" => /\ script[s].map \in opened \ known
                                    /\ \A t \in Script \ {s} : script[t].op = "load" => script[t].map # script[s].map

(* Who waits for a load or a close has one request at one place.            *)
By(r) == [by : {r}, wait : BOOLEAN]
Wants(r, m) ==
    \/ r \in Script /\ script[r].op = "load" /\ script[r].map = m
    \/ r \in Player /\ player[r].step = "load" /\ player[r].to = m
    \/ r \in Map /\ m = Exit /\ map[r].closing # None /\ map[r].todo = <<>>
Requests(r, m) ==
    F(box, Core, "LOADMAP", m, r) + F(box, Core, "ACTIVATED", m, r) + N(loadOp[m], By(r))
    + F(box, m, "WAITACTIVATED", m, r) + Waits(m, r) + F(box, r, "LOADED", m, r)
Load(r, m) == Requests(r, m) = (IF Wants(r, m) THEN 1 ELSE 0)
LoadInv == \A r \in Client : \A m \in Map : Load(r, m)

Closes(s, m) == F(box, Core, "CLOSEMAP", m, s) + N(closeOp[m], {s}) + F(box, s, "CLOSED", m, s)
Close(s, m) == Closes(s, m) = (IF script[s].op = "close" /\ script[s].map = m THEN 1 ELSE 0)
CloseInv == \A s \in Script : \A m \in Map : Close(s, m)

(* And so has a map that closes, for the player that it sends away.         *)
Sent(m, p) ==
    F(box, p, "TRIGGER", Exit, m) + (IF player[p].for = m THEN 1 ELSE 0) + F(box, m, "SWITCHED", m, p)
Send(m, p) == Sent(m, p) = (IF map[m].todo # <<>> /\ Head(map[m].todo) = p THEN 1 ELSE 0)
SentInv == \A m \in Map : \A p \in Player : Send(m, p)
IdleInv == \A p \in Player : player[p].step = "idle" => player[p].for = None

IInv == /\ TypeOK /\ MailInv /\ QueueInv /\ RegistryInv /\ KnownInv
        /\ LoadInv /\ CloseInv /\ SentInv /\ IdleInv

MapActor == [state : {"none", "live", "closed"}, active : BOOLEAN, closing : {None, Core, Peer},
             todo : Seq(Player), waiting : Seq(Actor), grid : SUBSET Player, lock : Player \cup {None}]

LEMMA NewMapIs ==
    /\ NewMap \in MapActor /\ NewMap.state = "live" /\ NewMap.active = FALSE /\ NewMap.closing = None
    /\ NewMap.todo = <<>> /\ NewMap.waiting = <<>> /\ NewMap.grid = {} /\ NewMap.lock = None
<1>1. NoMap \in [state : {"none"}, active : {FALSE}, closing : {None}, todo : {<<>>}, waiting : {<<>>},
                grid : {{}}, lock : {None}]
    BY DEF NoMap
<1>2. <<>> \in Seq(Player) /\ <<>> \in Seq(Actor)
    OBVIOUS
<1>3. NewMap \in [state : {"live"}, active : {FALSE}, closing : {None}, todo : {<<>>}, waiting : {<<>>},
                 grid : {{}}, lock : {None}]
    BY <1>1 DEF NewMap
<1> QED
    BY <1>2, <1>3 DEF MapActor

Traveller == [at : Map, to : Map, step : {"idle", "load", "try", "leave", "left"},
              for : Map \cup {None}, dead : BOOLEAN, n : Nat]

\* Of a step that leaves the lists and the operations of the cores alone.
LEMMA TypeKeeps ==
    ASSUME TypeOK, UNCHANGED <<remote, coreVars, peerList, script, opened, known>>, Fit(box'),
           map' \in [Map -> MapActor], player' \in [Player -> Traveller],
           seen' \subseteq {"busy", "locked"} \cup Player, fault' \in Fault \cup {None}
    PROVE  TypeOK'
BY DEF TypeOK, coreVars, Fit, Mailboxes, Message, MapActor, Traveller

LEMMA Typed ==
    ASSUME TypeOK
    PROVE  /\ map \in [Map -> MapActor] /\ player \in [Player -> Traveller]
           /\ seen \subseteq {"busy", "locked"} \cup Player /\ fault \in Fault \cup {None}
BY DEF TypeOK, MapActor, Traveller

LEMMA Actors ==
    /\ Core \in Actor /\ Peer \in Actor /\ Core # Peer /\ None \notin Actor
    /\ Map \subseteq Actor /\ Script \subseteq Actor /\ Player \subseteq Actor
    /\ \A m \in Map : m # Core /\ m # Peer /\ m \notin Script /\ m \notin Player
    /\ \A s \in Script : s # Core /\ s # Peer /\ s \notin Player /\ s \notin Map
    /\ \A p \in Player : p # Core /\ p # Peer /\ p \notin Map /\ p \notin Script
    /\ Home \in Map /\ Exit \in Map /\ Exit \notin Instance /\ Instance \subseteq Map
BY ActorAssumption, RegistryAssumption DEF Actor, Map

-----------------------------------------------------------------------------
(* A step that does not touch what an invariant speaks of preserves it.     *)

LEMMA SameRegistry ==
    ASSUME NEW m \in Map, Chain(m), State(m),
           \A c \in {Core, Peer, m} : \A type : \A r \in {Core, Peer} : F(box', c, type, m, r) = F(box, c, type, m, r),
           Live(m) \/ box'[m] = box[m],
           loadOp'[m] = loadOp[m], closeOp'[m] = closeOp[m], remote' = remote,
           m \in coreList' <=> m \in coreList, m \in peerList' <=> m \in peerList, m \in known => m \in known',
           Live(m) \/ (map'[m].grid = map[m].grid /\ map'[m].lock = map[m].lock),
           map'[m].state = map[m].state, map'[m].active = map[m].active, map'[m].closing = map[m].closing,
           map'[m].todo = map[m].todo, map'[m].waiting = map[m].waiting
    PROVE  Chain(m)' /\ State(m)'
<1>1. Loading(m)' = Loading(m) /\ Gone(m)' = Gone(m) /\ Closing(m)' = Closing(m)
    BY Actors DEF Loading, Gone, Closing, Waits
<1>2. Chain(m)'
    BY <1>1 DEF Chain
<1>3. State(m)'
    BY <1>1, Actors DEF State, Live, Keeper, Bare
<1> QED
    BY <1>2, <1>3

LEMMA SameLoad ==
    ASSUME NEW r \in Client, NEW m \in Map, Load(r, m), Wants(r, m)' <=> Wants(r, m),
           F(box', Core, "LOADMAP", m, r) = F(box, Core, "LOADMAP", m, r),
           F(box', Core, "ACTIVATED", m, r) = F(box, Core, "ACTIVATED", m, r),
           F(box', m, "WAITACTIVATED", m, r) = F(box, m, "WAITACTIVATED", m, r),
           F(box', r, "LOADED", m, r) = F(box, r, "LOADED", m, r),
           loadOp'[m] = loadOp[m], map'[m].waiting = map[m].waiting
    PROVE  Load(r, m)'
BY DEF Load, Requests, Waits

LEMMA SameClose ==
    ASSUME CloseInv, closeOp' = closeOp, script' = script,
           \A s \in Script : \A m \in Map :
               /\ F(box', Core, "CLOSEMAP", m, s) = F(box, Core, "CLOSEMAP", m, s)
               /\ F(box', s, "CLOSED", m, s) = F(box, s, "CLOSED", m, s)
    PROVE  CloseInv'
BY DEF CloseInv, Close, Closes

LEMMA SameSent ==
    ASSUME SentInv, \A p \in Player : player'[p].for = player[p].for,
           \A m \in Map : map'[m].todo = map[m].todo,
           \A m \in Map : \A p \in Player :
               /\ F(box', p, "TRIGGER", Exit, m) = F(box, p, "TRIGGER", Exit, m)
               /\ F(box', m, "SWITCHED", m, p) = F(box, m, "SWITCHED", m, p)
    PROVE  SentInv'
BY DEF SentInv, Send, Sent

LEMMA SameScripts ==
    ASSUME KnownInv, script' = script, opened' = opened, known' = known
    PROVE  KnownInv'
BY DEF KnownInv

LEMMA SameFor ==
    ASSUME IdleInv, player' = player
    PROVE  IdleInv'
BY DEF IdleInv

LEMMA Aside ==
    ASSUME IInv, UNCHANGED <<script, opened, known, closeOp>>,
           \A p \in Player : /\ player'[p].for = player[p].for
                             /\ player'[p].step = "idle" => player[p].step = "idle" \/ player[p].for = None,
           \A m \in Map : map'[m].todo = map[m].todo,
           \A c \in Actor : \A type \in {"CLOSEMAP", "CLOSED", "TRIGGER", "SWITCHED"} : \A m : \A r \in Client :
               F(box', c, type, m, r) = F(box, c, type, m, r)
    PROVE  KnownInv' /\ CloseInv' /\ SentInv' /\ IdleInv'
<1>1. KnownInv /\ CloseInv /\ SentInv /\ IdleInv /\ Core \in Actor /\ Client \subseteq Actor
    BY Actors DEF IInv, Client
<1>2. KnownInv' /\ IdleInv'
    BY <1>1, SameScripts DEF IdleInv
<1>3. CloseInv'
    BY <1>1, SameClose DEF Client
<1>4. SentInv'
    BY <1>1, SameSent DEF Client
<1> QED
    BY <1>2, <1>3, <1>4

LEMMA AsideLoad ==
    ASSUME IInv, UNCHANGED <<script, loadOp>>,
           \A p \in Player : /\ (player'[p].step = "load") = (player[p].step = "load")
                             /\ player[p].step = "load" => player'[p].to = player[p].to,
           \A m \in Map : map'[m].waiting = map[m].waiting /\ map'[m].closing = map[m].closing /\ map'[m].todo = map[m].todo,
           \A c \in Actor : \A type \in {"LOADMAP", "ACTIVATED", "WAITACTIVATED", "LOADED"} : \A m : \A r \in Client :
               F(box', c, type, m, r) = F(box, c, type, m, r)
    PROVE  LoadInv'
<1> SUFFICES ASSUME NEW r \in Client, NEW m \in Map PROVE Load(r, m)'
    BY DEF LoadInv
<1>1. Load(r, m) /\ (Wants(r, m)' <=> Wants(r, m))
    BY DEF IInv, LoadInv, Wants
<1>2. Core \in Actor /\ m \in Actor /\ r \in Actor
    BY Actors DEF Client
<1> QED
    BY <1>1, <1>2, SameLoad

LEMMA AsideRegistry ==
    ASSUME IInv, UNCHANGED <<remote, coreList, peerList, loadOp, closeOp, known>>,
           \A m \in Map : /\ map'[m].state = map[m].state /\ map'[m].active = map[m].active /\ map'[m].closing = map[m].closing
                          /\ map'[m].todo = map[m].todo /\ map'[m].waiting = map[m].waiting
                          /\ Live(m) \/ (box'[m] = box[m] /\ map'[m] = map[m]),
           \A c \in Actor : \A type, m : \A r \in {Core, Peer} : F(box', c, type, m, r) = F(box, c, type, m, r)
    PROVE  RegistryInv'
<1> SUFFICES ASSUME NEW m \in Map PROVE Chain(m)' /\ State(m)'
    BY DEF RegistryInv
<1>1. Chain(m) /\ State(m)
    BY DEF IInv, RegistryInv
<1>2. \A c \in {Core, Peer, m} : \A type : \A r \in {Core, Peer} : F(box', c, type, m, r) = F(box, c, type, m, r)
    BY Actors
<1> QED
    BY <1>1, <1>2, SameRegistry

LEMMA AsideQueues ==
    ASSUME IInv, loadOp' = loadOp, \A m \in Map : map'[m].waiting = map[m].waiting
    PROVE  QueueInv'
BY DEF IInv, QueueInv

\* A step that only names a fault.
LEMMA FaultOnly ==
    ASSUME IInv, fault' \in Fault \cup {None},
           UNCHANGED <<remote, coreVars, peerList, map, script, opened, known, player, box, seen>>
    PROVE  IInv'
<1>1. TypeOK'
    BY DEF IInv, TypeOK, coreVars
<1>2. MailInv' /\ QueueInv' /\ KnownInv' /\ IdleInv'
    BY DEF IInv, MailInv, QueueInv, KnownInv, IdleInv, coreVars
<1>3. RegistryInv'
    BY DEF IInv, RegistryInv, Chain, State, Loading, Closing, Gone, Live, Keeper, Waits, Bare, coreVars
<1>4. LoadInv'
    BY DEF IInv, LoadInv, Load, Requests, Wants, Waits, coreVars
<1>5. CloseInv' /\ SentInv'
    BY SameClose, SameSent DEF IInv, coreVars
<1> QED
    BY <1>1, <1>2, <1>3, <1>4, <1>5 DEF IInv

-----------------------------------------------------------------------------
(* What the invariant says of a message that is handled.                    *)

Waiter == [by : Actor, wait : BOOLEAN]

LEMMA QueueNat ==
    ASSUME TypeOK, NEW m \in Map
    PROVE  /\ \A r : Waits(m, r) \in Nat /\ N(loadOp[m], By(r)) \in Nat /\ N(closeOp[m], {r}) \in Nat
           /\ loadOp[m] \in Seq(Waiter) /\ closeOp[m] \in Seq(Script)
           /\ map[m].waiting \in Seq(Actor) /\ map[m].todo \in Seq(Player)
<1>1. /\ loadOp[m] \in Seq(Waiter) /\ closeOp[m] \in Seq(Script)
      /\ map[m].waiting \in Seq(Actor) /\ map[m].todo \in Seq(Player)
    BY DEF TypeOK, Waiter
<1> QED
    BY <1>1, CountFinite DEF Waits

\* The message that a handler takes.
LEMMA Handled ==
    ASSUME IInv, NEW a \in Actor, Got(a)
    PROVE  /\ Top(a) \in For(a) /\ Top(a) \in Message
           /\ Top(a).map \in Map /\ Top(a).by \in Actor /\ Top(a).flag \in BOOLEAN
           /\ F(box, a, Top(a).type, Top(a).map, Top(a).by) # 0
           /\ \A c \in Actor : \A type, m, r : F(box, c, type, m, r) \in Nat
           /\ a \in Map => Live(a)
<1>1. MailInv /\ box \in Mailboxes
    BY DEF IInv, MailInv, Fit
<1>2. Top(a) \in For(a) /\ F(box, a, Top(a).type, Top(a).map, Top(a).by) # 0
    BY <1>1, FitTake, TopCounts
<1>3. Top(a) \in Message
    BY <1>2 DEF For
<1>4. Top(a).map \in Map /\ Top(a).by \in Actor /\ Top(a).flag \in BOOLEAN
    BY <1>3 DEF Message
<1>5. a \in Map => Live(a)
    BY DEF IInv, RegistryInv, State, Got
<1> QED
    BY <1>1, <1>2, <1>3, <1>4, <1>5, FNat

\* A request that is anywhere is the only one, and somebody waits for it.
LEMMA Requested ==
    ASSUME IInv, NEW r \in Client, NEW m \in Map,
           \/ F(box, Core, "LOADMAP", m, r) # 0 \/ F(box, Core, "ACTIVATED", m, r) # 0
           \/ N(loadOp[m], By(r)) # 0 \/ F(box, m, "WAITACTIVATED", m, r) # 0
           \/ Waits(m, r) # 0 \/ F(box, r, "LOADED", m, r) # 0
    PROVE  Wants(r, m)
<1>1. Load(r, m) /\ MailInv /\ TypeOK
    BY DEF IInv, LoadInv
<1>2. N(loadOp[m], By(r)) \in Nat /\ Waits(m, r) \in Nat
    BY <1>1, QueueNat
<1>3. r \in Actor /\ m \in Actor /\ Core \in Actor
    BY Actors DEF Client
<1>4. /\ F(box, Core, "LOADMAP", m, r) \in Nat /\ F(box, Core, "ACTIVATED", m, r) \in Nat
      /\ F(box, m, "WAITACTIVATED", m, r) \in Nat /\ F(box, r, "LOADED", m, r) \in Nat
    BY <1>1, <1>3, FNat DEF MailInv, Fit
<1>5. ASSUME ~Wants(r, m) PROVE FALSE
    <2>1. Requests(r, m) = 0
        BY <1>1, <1>5 DEF Load
    <2> QED
        <3> DEFINE u == F(box, Core, "LOADMAP", m, r)  v == F(box, Core, "ACTIVATED", m, r)  w == N(loadOp[m], By(r))
                   x == F(box, m, "WAITACTIVATED", m, r)  y == Waits(m, r)  z == F(box, r, "LOADED", m, r)
        <3>1. u \in Nat /\ v \in Nat /\ w \in Nat /\ x \in Nat /\ y \in Nat /\ z \in Nat
            BY <1>2, <1>4
        <3>2. u + v + w + x + y + z = 0
            BY <2>1 DEF Requests
        <3>3. u # 0 \/ v # 0 \/ w # 0 \/ x # 0 \/ y # 0 \/ z # 0
            OBVIOUS
        <3> HIDE DEF u, v, w, x, y, z
        <3> QED
            BY <3>1, <3>2, <3>3
<1> QED
    BY <1>5

\* Who waits until a map is active waits for one that nobody closes.
LEMMA WantsOpen ==
    ASSUME IInv, NEW r \in Client, r \notin Player, NEW m \in Map, Wants(r, m)
    PROVE  /\ m \notin known /\ closeOp[m] = <<>> /\ map[m].state # "closed"
           /\ m \in coreList => Live(m)
           /\ r \in Map => m = Exit
<1>1. m \notin known
    <2>1. CASE r \in Script
        BY <2>1, Actors DEF Wants, IInv, KnownInv
    <2>2. CASE r \in Map
        BY <2>2, Actors DEF Wants, IInv, TypeOK
    <2> QED
        BY <2>1, <2>2 DEF Client
<1>2. Chain(m) /\ State(m) /\ MailInv
    BY DEF IInv, RegistryInv
<1>3. closeOp[m] = <<>> /\ map[m].state # "closed"
    BY <1>1, <1>2 DEF Chain
<1>4. /\ F(box, Peer, "CLOSED", m, Peer) \in Nat /\ F(box, Core, "CLOSED", m, Core) \in Nat
      /\ F(box, Core, "CLOSED", m, Peer) \in Nat /\ F(box, Peer, "CLOSEMAP", m, Core) \in Nat
      /\ F(box, m, "CLOSEMAP", m, Core) \in Nat /\ F(box, m, "CLOSEMAP", m, Peer) \in Nat
    BY <1>2, Actors, FNat DEF MailInv, Fit
<1>5. Gone(m) = 0
    BY <1>2, <1>3, <1>4 DEF Chain, Closing, Gone
<1>6. m \in coreList => Live(m)
    BY <1>2, <1>5 DEF State
<1>7. r \in Map => m = Exit
    BY Actors DEF Wants
<1> QED
    BY <1>1, <1>3, <1>6, <1>7

\* What is sent, fits.
LEMMA WaitFits ==
    ASSUME NEW m \in Map, NEW r \in {Peer} \cup Map \cup Script
    PROVE  Msg("WAITACTIVATED", m, r, TRUE) \in For(m)
BY Actors DEF Msg, For, ForMap, Message, MsgType

LEMMA LoadedFits ==
    ASSUME NEW m \in Map, NEW r \in Client, r \in Map => m = Exit
    PROVE  Msg("LOADED", m, r, TRUE) \in For(r)
BY Actors DEF Msg, For, ForMap, ForScript, ForPlayer, Message, MsgType, Client

-----------------------------------------------------------------------------
(* The service core.                                                        *)

LEMMA LoadMapKeeps ==
    ASSUME IInv, CoreLoadMap
    PROVE  IInv'
<1>1. /\ Got(Core) /\ Top(Core).type = "LOADMAP" /\ Core \in Actor
      /\ UNCHANGED <<remote, peerList, script, opened, known, player, seen>>
    BY Actors DEF CoreLoadMap
<1>2. PICK m \in Map, r \in Actor, wait \in BOOLEAN :
          /\ Top(Core).map = m /\ Top(Core).by = r /\ Top(Core).flag = wait
          /\ F(box, Core, "LOADMAP", m, r) # 0 /\ Top(Core) \in For(Core)
          /\ \A c \in Actor : \A type, k, q : F(box, c, type, k, q) \in Nat
    BY <1>1, Handled
<1>3. r \in Client /\ (r \in Player => wait = FALSE) /\ r \notin {Core, Peer}
    BY <1>1, <1>2, Actors DEF For, ForCore, Client
<1>4. Wants(r, m)
    BY <1>2, <1>3, Requested
<1>5. /\ r \in Map => m = Exit
      /\ m \in coreList /\ wait = TRUE => Live(m)
    <2>1. r \in Map => r \notin Player
        BY Actors
    <2> QED
        BY <1>2, <1>3, <1>4, <2>1, WantsOpen
<1>6. TypeOK /\ MailInv /\ QueueInv /\ RegistryInv /\ KnownInv /\ LoadInv /\ CloseInv /\ SentInv /\ IdleInv
    BY DEF IInv
<1>7. CASE /\ m \in coreList \/ (m \notin remote /\ CanAttach(m) /\ Attach(m))
           /\ m \in coreList => UNCHANGED map
           /\ coreList' = coreList \cup {m} /\ UNCHANGED <<loadOp, closeOp, fault>>
           /\ box' = Answer(Take(Core), map', m, r, TRUE, wait)
    <2>1. /\ \A n \in Map \ {m} : map'[n] = map[n]
          /\ \A n \in Map : /\ map'[n].waiting = map[n].waiting /\ map'[n].todo = map[n].todo
                            /\ map'[n].closing = map[n].closing /\ map'[n].active = map[n].active
                            /\ map'[n].grid = map[n].grid /\ map'[n].lock = map[n].lock
          /\ m \notin coreList => m \notin remote /\ ~Live(m) /\ map[m].state = "none" /\ map'[m].state = "live"
          /\ m \in coreList => map'[m] = map[m]
        <3>1. CASE m \in coreList
            BY <1>7, <3>1
        <3>2. CASE m \notin coreList
            <4>1. map' = [map EXCEPT ![m] = NewMap] /\ m \notin remote /\ map[m].state = "none"
                BY <1>7, <3>2 DEF Attach, CanAttach
            <4>2. ~Live(m) /\ Bare(m)
                BY <1>2, <1>6, <4>1 DEF Live, RegistryInv, State
            <4>3. map'[m] = NewMap /\ \A n \in Map \ {m} : map'[n] = map[n]
                BY <1>2, <1>6, <4>1 DEF TypeOK
            <4> QED
                BY <3>2, <4>1, <4>2, <4>3, NewMapIs DEF Bare
        <3> QED
            BY <3>1, <3>2
    <2>2. wait = TRUE => map'[m].state = "live"
        BY <1>5, <2>1 DEF Live
    <2>3. PICK to \in Actor, y \in Message, answer \in {"WAITACTIVATED", "LOADED"} :
              /\ y \in For(to)
              /\ Answering(map', m, r, TRUE, wait) = Post(to, y)
              /\ \A type, k, q : Is(y, type, k, q) <=> type = answer /\ k = m /\ q = r
              /\ to = (IF answer = "LOADED" THEN r ELSE m)
              /\ answer = "LOADED" \/ map'[m].state = "live"
        <3>1. \A c : For(c) \subseteq Message
            BY DEF For
        <3>2. r \in Actor /\ m \in Actor
            BY <1>2, <1>3, Actors DEF Client
        <3>3. CASE wait = TRUE
            <4> DEFINE y == Msg("WAITACTIVATED", m, r, TRUE)
            <4>1. y \in For(m) /\ y \in Message
                BY <1>2, <1>3, <3>1, <3>3, WaitFits DEF Client
            <4>2. Answering(map', m, r, TRUE, wait) = Post(m, y)
                BY <2>2, <3>3 DEF Answering, Reach
            <4>3. \A type, k, q : Is(y, type, k, q) <=> type = "WAITACTIVATED" /\ k = m /\ q = r
                BY DEF Is, Msg
            <4> HIDE DEF y
            <4> QED
                BY <2>2, <3>2, <3>3, <4>1, <4>2, <4>3
        <3>4. CASE wait = FALSE
            <4> DEFINE y == Msg("LOADED", m, r, TRUE)
            <4>1. y \in For(r) /\ y \in Message
                BY <1>2, <1>3, <1>5, <3>1, LoadedFits
            <4>2. Answering(map', m, r, TRUE, wait) = Post(r, y)
                BY <3>4 DEF Answering
            <4>3. \A type, k, q : Is(y, type, k, q) <=> type = "LOADED" /\ k = m /\ q = r
                BY DEF Is, Msg
            <4> HIDE DEF y
            <4> QED
                BY <3>2, <4>1, <4>2, <4>3
        <3> QED
            BY <1>2, <3>3, <3>4
    <2>4. \A type, k, q : Is(Top(Core), type, k, q) <=> type = "LOADMAP" /\ k = m /\ q = r
        BY <1>1, <1>2 DEF Is
    <2>5. box' = Put(Take(Core), to, y)
        <3>1. Deliver(Take(Core), Post(to, y)) = Put(Take(Core), to, y)
            BY <1>1, <1>6, <2>3, Exchange
        <3>2. box' = Deliver(Take(Core), Answering(map', m, r, TRUE, wait))
            BY <1>7 DEF Answer
        <3> QED
            BY <2>3, <3>1, <3>2
    <2>6. /\ Fit(box') /\ \A c \in Actor : c \notin {Core, to} => box'[c] = box[c]
          /\ \A c \in Actor : \A type, k, q :
                 F(box', c, type, k, q) = F(box, c, type, k, q) - (IF c = Core /\ Is(Top(Core), type, k, q) THEN 1 ELSE 0)
                                                               + (IF c = to /\ Is(y, type, k, q) THEN 1 ELSE 0)
        BY <1>1, <1>6, <2>3, <2>5, Exchange
    <2>7. TypeOK'
        <3>1. map' \in [Map -> [state : {"none", "live", "closed"}, active : BOOLEAN, closing : {None, Core, Peer},
                          todo : Seq(Player), waiting : Seq(Actor), grid : SUBSET Player,
                          lock : Player \cup {None}]]
            <4>1. map' = map \/ map' = [map EXCEPT ![m] = NewMap]
                BY <1>7 DEF Attach
            <4> QED
                BY <1>6, <4>1, NewMapIs DEF TypeOK, MapActor
        <3> QED
            BY <1>1, <1>2, <1>6, <1>7, <2>6, <3>1 DEF TypeOK, Fit, Mailboxes, Message
    <2>8. QueueInv'
        BY <1>6, <1>7, <2>1 DEF QueueInv
    <2>9. RegistryInv'
        <3> SUFFICES ASSUME NEW n \in Map PROVE Chain(n)' /\ State(n)'
            BY DEF RegistryInv
        <3>1. Chain(n) /\ State(n)
            BY <1>6 DEF RegistryInv
        <3>2. \A c \in {Core, Peer, n} : \A type : \A q \in {Core, Peer} : F(box', c, type, n, q) = F(box, c, type, n, q)
            BY <1>2, <1>3, <2>3, <2>4, <2>6, Actors
        <3>3. CASE n = m /\ m \notin coreList
            <4>1. Loading(n)' = Loading(n) /\ Gone(n)' = Gone(n) /\ Closing(n)' = Closing(n)
                BY <2>1, <3>2, <3>3, Actors DEF Loading, Gone, Closing, Waits
            <4>2. loadOp[m] = <<>> /\ closeOp[m] = <<>> /\ ~Live(m) /\ Bare(m)
                BY <2>1, <3>1, <3>3 DEF Chain, State
            <4>3. Gone(m) = 0
                BY <1>2, <3>1, <3>3, <4>2, Actors DEF Chain, Closing, Gone
            <4>4. F(box', Peer, "LOADMAP", m, Core) = F(box, Peer, "LOADMAP", m, Core)
                  /\ F(box', Peer, "CLOSED", m, Peer) = F(box, Peer, "CLOSED", m, Peer)
                  /\ F(box', Peer, "CLOSEMAP", m, Core) = F(box, Peer, "CLOSEMAP", m, Core)
                  /\ \A q \in {Core, Peer} : F(box', m, "CLOSEMAP", m, q) = F(box, m, "CLOSEMAP", m, q)
                BY <3>2, <3>3
            <4>5. Chain(n)'
                BY <1>7, <2>1, <3>1, <3>3, <4>1, <4>2 DEF Chain
            <4>6. State(n)'
                BY <1>1, <1>7, <2>1, <3>1, <3>3, <4>1, <4>2, <4>3, <4>4 DEF State, Live, Keeper, Bare
            <4> QED
                BY <3>3, <4>5, <4>6
        <3>4. CASE n # m \/ m \in coreList
            <4>1. Live(n) \/ box'[n] = box[n]
                <5>1. n # to => box'[n] = box[n]
                    BY <2>6, Actors
                <5>2. n = to /\ answer = "LOADED" => Live(n)
                    <6>1. n = to /\ answer = "LOADED" => n = r /\ Wants(n, m)
                        BY <1>4, <2>3
                    <6>2. Wants(n, m) => map[n].closing # None
                        BY Actors DEF Wants
                    <6> QED
                        BY <3>1, <6>1, <6>2 DEF State, Bare
                <5>3. n = to /\ answer # "LOADED" => n = m /\ Live(n)
                    BY <2>1, <2>3, <3>4 DEF Live
                <5> QED
                    BY <5>1, <5>2, <5>3
            <4> QED
                BY <1>1, <1>7, <2>1, <3>1, <3>2, <3>4, <4>1, SameRegistry
        <3> QED
            BY <3>3, <3>4
    <2>10. LoadInv'
        <3> SUFFICES ASSUME NEW q \in Client, NEW n \in Map PROVE Load(q, n)'
            BY DEF LoadInv
        <3>1. Load(q, n) /\ (Wants(q, n)' <=> Wants(q, n))
            BY <1>1, <1>6, <2>1 DEF LoadInv, Wants
        <3>2. CASE q = r /\ n = m
            <4>1. /\ F(box', Core, "LOADMAP", m, r) = F(box, Core, "LOADMAP", m, r) - 1
                  /\ F(box', Core, "ACTIVATED", m, r) = F(box, Core, "ACTIVATED", m, r)
                  /\ F(box', m, "WAITACTIVATED", m, r) = F(box, m, "WAITACTIVATED", m, r) + (IF answer = "LOADED" THEN 0 ELSE 1)
                  /\ F(box', r, "LOADED", m, r) = F(box, r, "LOADED", m, r) + (IF answer = "LOADED" THEN 1 ELSE 0)
                BY <1>2, <1>3, <2>3, <2>4, <2>6, Actors DEF Client
            <4>2. N(loadOp[m], By(r))' = N(loadOp[m], By(r)) /\ Waits(m, r)' = Waits(m, r)
                BY <1>7, <2>1, <3>2 DEF Waits, By
            <4>3. N(loadOp[m], By(r)) \in Nat /\ Waits(m, r) \in Nat
                BY <1>2, <1>6, QueueNat
            <4> QED
                BY <1>2, <1>3, <3>1, <3>2, <4>1, <4>2, <4>3, Actors DEF Load, Requests, Client
        <3>3. CASE q # r \/ n # m
            <4>1. /\ F(box', Core, "LOADMAP", n, q) = F(box, Core, "LOADMAP", n, q)
                  /\ F(box', Core, "ACTIVATED", n, q) = F(box, Core, "ACTIVATED", n, q)
                  /\ F(box', n, "WAITACTIVATED", n, q) = F(box, n, "WAITACTIVATED", n, q)
                  /\ F(box', q, "LOADED", n, q) = F(box, q, "LOADED", n, q)
                BY <1>2, <2>3, <2>4, <2>6, <3>3, Actors DEF Client
            <4> QED
                BY <1>7, <2>1, <3>1, <4>1, SameLoad
        <3> QED
            BY <3>2, <3>3
    <2>11. KnownInv' /\ CloseInv' /\ SentInv' /\ IdleInv'
        <3>1. \A c \in Actor : \A type \in {"CLOSEMAP", "CLOSED", "TRIGGER", "SWITCHED"} : \A n, q :
                 F(box', c, type, n, q) = F(box, c, type, n, q)
            BY <1>2, <2>3, <2>4, <2>6
        <3>2. UNCHANGED <<script, opened, known, closeOp, player>> /\ \A n \in Map : map'[n].todo = map[n].todo
            BY <1>1, <1>7, <2>1
        <3> QED
            BY <3>1, <3>2, Aside
    <2> QED
        BY <2>6, <2>7, <2>8, <2>9, <2>10, <2>11 DEF IInv, MailInv
<1>8. CASE /\ m \notin coreList /\ m \in remote /\ UNCHANGED <<coreList, closeOp, map, fault>>
           /\ loadOp' = [loadOp EXCEPT ![m] = Append(@, [by |-> r, wait |-> wait])]
           /\ box' = IF loadOp[m] = <<>> THEN Put(Take(Core), Peer, Msg("LOADMAP", m, Core, wait))
                     ELSE Take(Core)
    <2> DEFINE y == Msg("LOADMAP", m, Core, wait)
    <2>1. y \in For(Peer) /\ \A type, k, q : Is(y, type, k, q) <=> type = "LOADMAP" /\ k = m /\ q = Core
        BY <1>2, Actors DEF Msg, For, ForPeer, Message, MsgType, Is
    <2>2. \A type, k, q : Is(Top(Core), type, k, q) <=> type = "LOADMAP" /\ k = m /\ q = r
        BY <1>1, <1>2 DEF Is
    <2> HIDE DEF y
    <2>3. /\ Fit(box') /\ \A c \in Actor : c \notin {Core, Peer} => box'[c] = box[c]
          /\ \A c \in Actor : \A type, k, q :
                 F(box', c, type, k, q) = F(box, c, type, k, q) - (IF c = Core /\ type = "LOADMAP" /\ k = m /\ q = r THEN 1 ELSE 0)
                     + (IF c = Peer /\ loadOp[m] = <<>> /\ type = "LOADMAP" /\ k = m /\ q = Core THEN 1 ELSE 0)
        <3>1. CASE loadOp[m] = <<>>
            <4>1. box' = Put(Take(Core), Peer, y)
                BY <1>8, <3>1 DEF y
            <4> QED
                BY <1>1, <1>6, <2>1, <2>2, <3>1, <4>1, Exchange, Actors
        <3>2. CASE loadOp[m] # <<>>
            <4>1. box' = Take(Core)
                BY <1>8, <3>2
            <4> QED
                BY <1>1, <1>6, <2>2, <3>2, <4>1, Taken, Actors
        <3> QED
            BY <3>1, <3>2
    <2> DEFINE op == [by |-> r, wait |-> wait]
    <2>4. /\ loadOp'[m] = Append(loadOp[m], op) /\ loadOp'[m] # <<>>
          /\ \A n \in Map \ {m} : loadOp'[n] = loadOp[n]
          /\ loadOp[m] \in Seq(Waiter) /\ op \in Waiter /\ loadOp' \in [Map -> Seq(Waiter)]
        <3>1. op \in Waiter
            BY DEF Waiter
        <3>2. loadOp \in [Map -> Seq(Waiter)] /\ loadOp' = [loadOp EXCEPT ![m] = Append(loadOp[m], op)]
            BY <1>6, <1>8 DEF TypeOK, Waiter
        <3> HIDE DEF op
        <3>3. loadOp[m] \in Seq(Waiter)
            BY <3>2
        <3>4. Append(loadOp[m], op) \in Seq(Waiter) /\ Append(loadOp[m], op) # <<>>
            BY <3>1, <3>3
        <3> QED
            BY <3>1, <3>2, <3>3, <3>4
    <2>5. TypeOK'
        BY <1>1, <1>6, <1>8, <2>3, <2>4 DEF TypeOK, Fit, Mailboxes, Message, Waiter
    <2>6. QueueInv'
        <3> SUFFICES ASSUME NEW n \in Map
                     PROVE  /\ \A i \in DOMAIN loadOp'[n] : /\ loadOp'[n][i].by \in Client
                                                            /\ loadOp'[n][i].by \in Player => loadOp'[n][i].wait = FALSE
                            /\ \A i \in DOMAIN map'[n].waiting : map'[n].waiting[i] \in {Peer} \cup Map \cup Script
            BY DEF QueueInv
        <3>1. /\ \A i \in DOMAIN loadOp[n] : /\ loadOp[n][i].by \in Client
                                             /\ loadOp[n][i].by \in Player => loadOp[n][i].wait = FALSE
              /\ \A i \in DOMAIN map[n].waiting : map[n].waiting[i] \in {Peer} \cup Map \cup Script
            BY <1>6 DEF QueueInv
        <3>2. CASE n # m
            BY <1>8, <2>4, <3>1, <3>2
        <3>3. CASE n = m
            <4>1. ASSUME NEW i \in DOMAIN loadOp'[m]
                  PROVE  loadOp'[m][i] = op \/ (i \in DOMAIN loadOp[m] /\ loadOp'[m][i] = loadOp[m][i])
                <5> HIDE DEF op
                <5> QED
                    BY <2>4, <4>1
            <4> QED
                BY <1>3, <1>8, <3>1, <3>3, <4>1
        <3> QED
            BY <3>2, <3>3
    <2>7. RegistryInv'
        <3> SUFFICES ASSUME NEW n \in Map PROVE Chain(n)' /\ State(n)'
            BY DEF RegistryInv
        <3>1. Chain(n) /\ State(n)
            BY <1>6 DEF RegistryInv
        <3>2. box'[n] = box[n]
            BY <2>3, Actors
        <3>3. CASE n # m
            <4>1. \A c \in {Core, Peer, n} : \A type : \A q \in {Core, Peer} : F(box', c, type, n, q) = F(box, c, type, n, q)
                BY <1>2, <2>3, <3>3, Actors
            <4> QED
                BY <1>1, <1>8, <2>4, <3>1, <3>2, <3>3, <4>1, SameRegistry
        <3>4. CASE n = m
            <4>1. /\ \A c \in {Core, Peer, m} : \A type : \A q \in {Core, Peer} : type # "LOADMAP" =>
                         F(box', c, type, m, q) = F(box, c, type, m, q)
                  /\ F(box', Peer, "LOADMAP", m, Core) = F(box, Peer, "LOADMAP", m, Core) + (IF loadOp[m] = <<>> THEN 1 ELSE 0)
                BY <1>2, <1>3, <2>3, Actors
            <4>2. Gone(n)' = Gone(n) /\ Closing(n)' = Closing(n)
                BY <1>8, <3>4, <4>1, Actors DEF Gone, Closing
            <4>3. Loading(n)' = Loading(n) + (IF loadOp[m] = <<>> THEN 1 ELSE 0)
                <5>1. Waits(m, Peer) \in Nat /\ Waits(m, Peer)' = Waits(m, Peer)
                    BY <1>6, <1>8, QueueNat DEF Waits
                <5> QED
                    BY <1>2, <3>4, <4>1, <5>1, Actors, SMTT(60) DEF Loading
            <4>4. Chain(n)'
                BY <1>1, <1>8, <2>4, <3>1, <3>4, <4>2, <4>3 DEF Chain
            <4>5. State(n)'
                BY <1>1, <1>2, <1>8, <2>4, <3>1, <3>2, <3>4, <4>1, <4>2, Actors DEF State, Live, Keeper, Bare
            <4> QED
                BY <4>4, <4>5
        <3> QED
            BY <3>3, <3>4
    <2>8. LoadInv'
        <3> SUFFICES ASSUME NEW q \in Client, NEW n \in Map PROVE Load(q, n)'
            BY DEF LoadInv
        <3>1. Load(q, n) /\ (Wants(q, n)' <=> Wants(q, n))
            BY <1>1, <1>6, <1>8 DEF LoadInv, Wants
        <3>2. /\ F(box', Core, "LOADMAP", n, q) = F(box, Core, "LOADMAP", n, q) - (IF n = m /\ q = r THEN 1 ELSE 0)
              /\ F(box', Core, "ACTIVATED", n, q) = F(box, Core, "ACTIVATED", n, q)
              /\ F(box', n, "WAITACTIVATED", n, q) = F(box, n, "WAITACTIVATED", n, q)
              /\ F(box', q, "LOADED", n, q) = F(box, q, "LOADED", n, q)
            BY <1>2, <2>3, Actors DEF Client
        <3>3. N(loadOp[n], By(q))' = N(loadOp[n], By(q)) + (IF n = m /\ q = r THEN 1 ELSE 0)
            <4>1. CASE n = m
                <5>1. op \in By(q) <=> q = r
                    BY DEF By
                <5> HIDE DEF op
                <5>2. N(Append(loadOp[m], op), By(q)) = N(loadOp[m], By(q)) + (IF op \in By(q) THEN 1 ELSE 0)
                    BY <2>4, CountAppend
                <5> QED
                    BY <2>4, <4>1, <5>1, <5>2
            <4>2. CASE n # m
                <5>1. loadOp'[n] = loadOp[n] /\ N(loadOp[n], By(q)) \in Nat
                    BY <1>6, <2>4, <4>2, QueueNat
                <5> QED
                    BY <4>2, <5>1
            <4> QED
                BY <4>1, <4>2
        <3>4. Waits(n, q)' = Waits(n, q) /\ Waits(n, q) \in Nat /\ N(loadOp[n], By(q)) \in Nat
            BY <1>6, <1>8, QueueNat DEF Waits
        <3> QED
            BY <1>2, <3>1, <3>2, <3>3, <3>4, Actors DEF Load, Requests, Client
    <2>9. KnownInv' /\ CloseInv' /\ SentInv' /\ IdleInv'
        <3>1. \A c \in Actor : \A type \in {"CLOSEMAP", "CLOSED", "TRIGGER", "SWITCHED"} : \A n, q :
                 F(box', c, type, n, q) = F(box, c, type, n, q)
            BY <1>2, <2>3
        <3> QED
            BY <1>1, <1>8, <3>1, Aside
    <2> QED
        BY <2>3, <2>5, <2>6, <2>7, <2>8, <2>9 DEF IInv, MailInv
<1>9. CASE fault' = <<"attach", m, r>> /\ UNCHANGED <<coreVars, map, box>>
    <2>1. fault' \in Fault \cup {None}
        BY <1>2, <1>9, Handled DEF Fault
    <2> QED
        BY <1>1, <1>9, <2>1, FaultOnly
<1>10. \/ /\ m \in coreList \/ (m \notin remote /\ CanAttach(m) /\ Attach(m))
          /\ m \in coreList => UNCHANGED map
          /\ coreList' = coreList \cup {m} /\ UNCHANGED <<loadOp, closeOp, fault>>
          /\ box' = Answer(Take(Core), map', m, r, TRUE, wait)
       \/ /\ m \notin coreList /\ m \in remote /\ UNCHANGED <<coreList, closeOp, map, fault>>
          /\ loadOp' = [loadOp EXCEPT ![m] = Append(@, [by |-> r, wait |-> wait])]
          /\ box' = IF loadOp[m] = <<>> THEN Put(Take(Core), Peer, Msg("LOADMAP", m, Core, wait))
                    ELSE Take(Core)
       \/ fault' = <<"attach", m, r>> /\ UNCHANGED <<coreVars, map, box>>
    BY <1>2 DEF CoreLoadMap, coreVars
<1> QED
    BY <1>7, <1>8, <1>9, <1>10

-----------------------------------------------------------------------------
(* What players and maps say to each other is none of the cores' business.  *)

\* Messages of these types are about switches.
Talk == {"TRYMAPSWITCH", "ALLOW", "SWITCHOK", "SWITCHERROR", "TRYLEAVE", "LEAVEOK", "FINISHLEAVE", "BAD"}

\* A step that moves only such messages, and changes of a map only who is on it.
LEMMA TalkKeeps ==
    ASSUME IInv, UNCHANGED <<remote, coreVars, peerList, script, opened, known, fault>>, Fit(box'),
           map' \in [Map -> MapActor], player' \in [Player -> Traveller], seen' \subseteq {"busy", "locked"} \cup Player,
           \A p \in Player : /\ (player'[p].step = "load") = (player[p].step = "load")
                             /\ player[p].step = "load" => player'[p].to = player[p].to
                             /\ player'[p].for = player[p].for
                             /\ player'[p].step = "idle" => player[p].step = "idle" \/ player[p].for = None,
           \A m \in Map : /\ map'[m].state = map[m].state /\ map'[m].active = map[m].active /\ map'[m].closing = map[m].closing
                          /\ map'[m].todo = map[m].todo /\ map'[m].waiting = map[m].waiting
                          /\ Live(m) \/ (box'[m] = box[m] /\ map'[m] = map[m]),
           \A c \in Actor : \A type : type \notin Talk => \A m, r : F(box', c, type, m, r) = F(box, c, type, m, r),
           \A c \in Actor : \A type, m : \A r \in {Core, Peer} : F(box', c, type, m, r) = F(box, c, type, m, r)
    PROVE  IInv'
<1>1. QueueInv' /\ RegistryInv'
    BY AsideQueues, AsideRegistry DEF coreVars
<1>2. KnownInv' /\ CloseInv' /\ SentInv' /\ IdleInv'
    <2>1. \A type \in {"CLOSEMAP", "CLOSED", "TRIGGER", "SWITCHED"} : type \notin Talk
        BY DEF Talk
    <2> QED
        BY <2>1, Aside DEF coreVars
<1>3. LoadInv'
    <2>1. \A type \in {"LOADMAP", "ACTIVATED", "WAITACTIVATED", "LOADED"} : type \notin Talk
        BY DEF Talk
    <2> QED
        BY <2>1, AsideLoad DEF coreVars
<1>4. TypeOK'
    <2>1. TypeOK /\ fault' \in Fault \cup {None}
        BY Typed DEF IInv
    <2> QED
        BY <2>1, TypeKeeps
<1> QED
    BY <1>1, <1>2, <1>3, <1>4 DEF IInv, MailInv

\* What a map answers fits the mailbox of a player.
LEMMA PlayerFits ==
    ASSUME NEW p \in Player, NEW m \in Map, NEW flag \in BOOLEAN, NEW type \in {"ALLOW", "BAD", "FINISHLEAVE"}
    PROVE  Msg(type, m, p, flag) \in For(p)
BY Actors DEF Msg, For, ForPlayer, Message, MsgType

LEMMA TalkExchange ==
    ASSUME MailInv, NEW a \in Actor, Got(a), NEW to \in Actor, NEW y \in For(to), box' = Put(Take(a), to, y),
           Top(a).type \in Talk, Top(a).by \notin {Core, Peer}, y.type \in Talk, y.by \notin {Core, Peer}
    PROVE  /\ Fit(box') /\ \A c \in Actor : c \notin {a, to} => box'[c] = box[c]
           /\ \A c \in Actor : \A t, k, q :
                  /\ t \notin Talk => F(box', c, t, k, q) = F(box, c, t, k, q)
                  /\ q \in {Core, Peer} => F(box', c, t, k, q) = F(box, c, t, k, q)
<1>1. /\ Fit(box') /\ \A c \in Actor : c \notin {a, to} => box'[c] = box[c]
      /\ \A c \in Actor : \A t, k, q :
             /\ F(box, c, t, k, q) \in Nat
             /\ F(box', c, t, k, q) = F(box, c, t, k, q) - (IF c = a /\ Is(Top(a), t, k, q) THEN 1 ELSE 0)
                                                       + (IF c = to /\ Is(y, t, k, q) THEN 1 ELSE 0)
    BY Exchange
<1>2. \A t, k, q : t \notin Talk \/ q \in {Core, Peer} => ~Is(Top(a), t, k, q) /\ ~Is(y, t, k, q)
    BY DEF Is
<1> QED
    BY <1>1, <1>2

LEMMA TryMapSwitchKeeps ==
    ASSUME IInv, NEW m \in Map, TryMapSwitch(m)
    PROVE  IInv'
<1>1. m \in Actor /\ Got(m) /\ Top(m).type = "TRYMAPSWITCH" /\ TypeOK /\ MailInv
    BY Actors DEF TryMapSwitch, IInv
<1>2. PICK p \in Player : Top(m).by = p /\ Live(m)
    BY <1>1, Handled, Actors DEF For, ForMap
<1>3. PICK type \in {"ALLOW", "BAD"}, flag \in BOOLEAN : box' = Put(Take(m), p, Msg(type, m, p, flag))
    BY <1>2 DEF TryMapSwitch
<1>4. map' = map \/ map' = [map EXCEPT ![m].lock = p]
    BY <1>2 DEF TryMapSwitch
<1> DEFINE y == Msg(type, m, p, flag)
<1>5. y \in For(p) /\ p \in Actor
    BY PlayerFits, Actors
<1>6. y.type \in Talk /\ Top(m).type \in Talk /\ y.by = p
    BY <1>1 DEF Msg, Talk
<1> HIDE DEF y
<1>7. /\ Fit(box') /\ \A c \in Actor : c \notin {m, p} => box'[c] = box[c]
      /\ \A c \in Actor : \A t, k, q :
             /\ t \notin Talk => F(box', c, t, k, q) = F(box, c, t, k, q)
             /\ q \in {Core, Peer} => F(box', c, t, k, q) = F(box, c, t, k, q)
    BY <1>1, <1>2, <1>3, <1>5, <1>6, TalkExchange, Actors DEF y
<1>8. /\ map' \in [Map -> MapActor] /\ seen' \subseteq {"busy", "locked"} \cup Player
      /\ \A n \in Map \ {m} : map'[n] = map[n]
      /\ map'[m].state = map[m].state /\ map'[m].active = map[m].active /\ map'[m].closing = map[m].closing
      /\ map'[m].todo = map[m].todo /\ map'[m].waiting = map[m].waiting
    <2>1. map \in [Map -> MapActor] /\ seen \subseteq {"busy", "locked"} \cup Player
        BY <1>1, Typed
    <2>2. seen' \subseteq {"busy", "locked"} \cup Player
        BY <1>2, <2>1 DEF TryMapSwitch
    <2>3. CASE map' = map
        BY <2>1, <2>2, <2>3
    <2>4. CASE map' = [map EXCEPT ![m].lock = p]
        <3>1. map[m] \in MapActor /\ map'[m] = [map[m] EXCEPT !.lock = p] /\ \A n \in Map \ {m} : map'[n] = map[n]
            BY <2>1, <2>4
        <3>2. map'[m] \in MapActor
            BY <3>1 DEF MapActor
        <3>3. map' \in [Map -> MapActor]
            BY <2>1, <2>4, <3>1, <3>2
        <3> QED
            BY <2>2, <3>1, <3>3 DEF MapActor
    <2> QED
        BY <1>4, <2>3, <2>4
<1>9. UNCHANGED <<remote, coreVars, peerList, script, opened, known, player, fault>> /\ player \in [Player -> Traveller]
    BY <1>1, Typed DEF TryMapSwitch, MapUnchanged
<1>10. \A n \in Map : Live(n) \/ (box'[n] = box[n] /\ map'[n] = map[n])
    BY <1>2, <1>7, <1>8, Actors
<1> QED
    BY <1>7, <1>8, <1>9, <1>10, TalkKeeps

\* A field of a map actor that talk changes.
LEMMA OneMap ==
    ASSUME TypeOK, NEW m \in Map, NEW actor \in MapActor, map' = [map EXCEPT ![m] = actor]
    PROVE  map' \in [Map -> MapActor] /\ map'[m] = actor /\ \A n \in Map \ {m} : map'[n] = map[n]
<1>1. map \in [Map -> MapActor]
    BY Typed
<1> QED
    BY <1>1

LEMMA SwitchDoneKeeps ==
    ASSUME IInv, NEW m \in Map, SwitchDone(m)
    PROVE  IInv'
<1>1. m \in Actor /\ Got(m) /\ Top(m).type \in {"SWITCHOK", "SWITCHERROR"} /\ TypeOK /\ MailInv
    BY Actors DEF SwitchDone, IInv
<1>2. PICK p \in Player : Top(m).by = p /\ Live(m)
    BY <1>1, Handled, Actors DEF For, ForMap
<1> DEFINE g == IF Top(m).type = "SWITCHOK" THEN map[m].grid \cup {p} ELSE map[m].grid
<1>3. CASE /\ map' = [map EXCEPT ![m].lock = None, ![m].grid = IF Top(m).type = "SWITCHOK" THEN @ \cup {p} ELSE @]
           /\ box' = Take(m) /\ UNCHANGED fault
    <2>1. g \in SUBSET Player /\ map' = [map EXCEPT ![m] = [map[m] EXCEPT !.lock = None, !.grid = g]]
        <3>1. map[m].grid \in SUBSET Player /\ map \in [Map -> MapActor]
            BY <1>1, Typed DEF MapActor
        <3> QED
            BY <1>3, <3>1
    <2> HIDE DEF g
    <2>2. /\ map' \in [Map -> MapActor] /\ \A n \in Map \ {m} : map'[n] = map[n]
          /\ map'[m].state = map[m].state /\ map'[m].active = map[m].active /\ map'[m].closing = map[m].closing
          /\ map'[m].todo = map[m].todo /\ map'[m].waiting = map[m].waiting
        <3> DEFINE actor == [map[m] EXCEPT !.lock = None, !.grid = g]
        <3>1. map[m] \in MapActor
            BY <1>1, Typed
        <3>2. actor \in MapActor /\ actor.state = map[m].state /\ actor.active = map[m].active /\ actor.closing = map[m].closing
              /\ actor.todo = map[m].todo /\ actor.waiting = map[m].waiting
            BY <2>1, <3>1 DEF MapActor
        <3> HIDE DEF actor
        <3> QED
            BY <1>1, <2>1, <3>2, OneMap DEF actor
    <2>3. Top(m).type \in Talk /\ p \notin {Core, Peer}
        BY <1>1, Actors DEF Talk
    <2>4. /\ Fit(box') /\ \A c \in Actor : c # m => box'[c] = box[c]
          /\ \A c \in Actor : \A t, k, q :
                 /\ t \notin Talk => F(box', c, t, k, q) = F(box, c, t, k, q)
                 /\ q \in {Core, Peer} => F(box', c, t, k, q) = F(box, c, t, k, q)
        BY <1>1, <1>2, <1>3, <2>3, Taken DEF Is
    <2>5. /\ UNCHANGED <<remote, coreVars, peerList, script, opened, known, player, fault, seen>>
          /\ player \in [Player -> Traveller] /\ seen \subseteq {"busy", "locked"} \cup Player
        BY <1>1, <1>3, Typed DEF SwitchDone, MapUnchanged
    <2>6. \A n \in Map : Live(n) \/ (box'[n] = box[n] /\ map'[n] = map[n])
        BY <1>2, <2>2, <2>4, Actors
    <2> QED
        BY <2>2, <2>4, <2>5, <2>6, TalkKeeps
<1>4. CASE Stray(m)
    <2>1. fault' \in Fault \cup {None}
        BY <1>2, <1>4, Handled, Actors DEF Stray, Fault
    <2> QED
        BY <1>4, <2>1, FaultOnly DEF SwitchDone, Stray, MapUnchanged
<1> QED
    BY <1>2, <1>3, <1>4 DEF SwitchDone, Stray

LEMMA TryLeaveKeeps ==
    ASSUME IInv, NEW m \in Map, TryLeave(m)
    PROVE  IInv'
<1>1. m \in Actor /\ Got(m) /\ Top(m).type = "TRYLEAVE" /\ TypeOK /\ MailInv
    BY Actors DEF TryLeave, IInv
<1>2. PICK p \in Player : Top(m).by = p /\ Live(m)
    BY <1>1, Handled, Actors DEF For, ForMap
<1>3. PICK type \in {"ALLOW", "BAD"} : box' = Put(Take(m), p, Msg(type, m, p, TRUE))
    BY <1>2 DEF TryLeave
<1> DEFINE y == Msg(type, m, p, TRUE)
<1>4. y \in For(p) /\ p \in Actor
    BY PlayerFits, Actors
<1>5. y.type \in Talk /\ Top(m).type \in Talk /\ y.by = p
    BY <1>1 DEF Msg, Talk
<1> HIDE DEF y
<1>6. /\ Fit(box') /\ \A c \in Actor : c \notin {m, p} => box'[c] = box[c]
      /\ \A c \in Actor : \A t, k, q :
             /\ t \notin Talk => F(box', c, t, k, q) = F(box, c, t, k, q)
             /\ q \in {Core, Peer} => F(box', c, t, k, q) = F(box, c, t, k, q)
    BY <1>1, <1>2, <1>3, <1>4, <1>5, TalkExchange, Actors DEF y
<1>7. /\ UNCHANGED <<remote, coreVars, peerList, map, script, opened, known, player, fault, seen>>
      /\ player \in [Player -> Traveller] /\ seen \subseteq {"busy", "locked"} \cup Player /\ map \in [Map -> MapActor]
    BY <1>1, Typed DEF TryLeave, MapUnchanged
<1>8. \A n \in Map : Live(n) \/ (box'[n] = box[n] /\ map'[n] = map[n])
    BY <1>2, <1>6, <1>7, Actors
<1> QED
    BY <1>6, <1>7, <1>8, TalkKeeps

LEMMA LeaveOKKeeps ==
    ASSUME IInv, NEW m \in Map, LeaveOK(m)
    PROVE  IInv'
<1>1. m \in Actor /\ Got(m) /\ Top(m).type = "LEAVEOK" /\ TypeOK /\ MailInv
    BY Actors DEF LeaveOK, IInv
<1>2. PICK p \in Player : Top(m).by = p /\ Live(m)
    BY <1>1, Handled, Actors DEF For, ForMap
<1>3. CASE /\ map' = [map EXCEPT ![m].grid = @ \ {p}]
           /\ box' = Put(Take(m), p, Msg("FINISHLEAVE", m, p, TRUE)) /\ UNCHANGED fault
    <2> DEFINE y == Msg("FINISHLEAVE", m, p, TRUE)
               actor == [map[m] EXCEPT !.grid = map[m].grid \ {p}]
    <2>1. /\ map' \in [Map -> MapActor] /\ \A n \in Map \ {m} : map'[n] = map[n]
          /\ map'[m].state = map[m].state /\ map'[m].active = map[m].active /\ map'[m].closing = map[m].closing
          /\ map'[m].todo = map[m].todo /\ map'[m].waiting = map[m].waiting
        <3>1. map[m] \in MapActor /\ map' = [map EXCEPT ![m] = actor]
            BY <1>1, <1>3, Typed
        <3>2. actor \in MapActor /\ actor.state = map[m].state /\ actor.active = map[m].active /\ actor.closing = map[m].closing
              /\ actor.todo = map[m].todo /\ actor.waiting = map[m].waiting
            BY <3>1 DEF MapActor
        <3> HIDE DEF actor
        <3> QED
            BY <1>1, <3>1, <3>2, OneMap
    <2>2. y \in For(p) /\ p \in Actor
        BY PlayerFits, Actors
    <2>3. y.type \in Talk /\ Top(m).type \in Talk /\ y.by = p
        BY <1>1 DEF Msg, Talk
    <2> HIDE DEF y
    <2>4. /\ Fit(box') /\ \A c \in Actor : c \notin {m, p} => box'[c] = box[c]
          /\ \A c \in Actor : \A t, k, q :
                 /\ t \notin Talk => F(box', c, t, k, q) = F(box, c, t, k, q)
                 /\ q \in {Core, Peer} => F(box', c, t, k, q) = F(box, c, t, k, q)
        BY <1>1, <1>2, <1>3, <2>2, <2>3, TalkExchange, Actors DEF y
    <2>5. /\ UNCHANGED <<remote, coreVars, peerList, script, opened, known, player, fault, seen>>
          /\ player \in [Player -> Traveller] /\ seen \subseteq {"busy", "locked"} \cup Player
        BY <1>1, <1>3, Typed DEF LeaveOK, MapUnchanged
    <2>6. \A n \in Map : Live(n) \/ (box'[n] = box[n] /\ map'[n] = map[n])
        BY <1>2, <2>1, <2>4, Actors
    <2> QED
        BY <2>1, <2>4, <2>5, <2>6, TalkKeeps
<1>4. CASE Stray(m)
    <2>1. fault' \in Fault \cup {None}
        BY <1>2, <1>4, Handled, Actors DEF Stray, Fault
    <2> QED
        BY <1>4, <2>1, FaultOnly DEF LeaveOK, Stray, MapUnchanged
<1> QED
    BY <1>2, <1>3, <1>4 DEF LeaveOK, Stray

LEMMA OnePlayer ==
    ASSUME TypeOK, NEW p \in Player, NEW traveller \in Traveller, player' = [player EXCEPT ![p] = traveller]
    PROVE  /\ player' \in [Player -> Traveller] /\ player'[p] = traveller
           /\ \A q \in Player \ {p} : player'[q] = player[q]
<1>1. player \in [Player -> Traveller]
    BY Typed
<1> QED
    BY <1>1

LEMMA DieKeeps ==
    ASSUME IInv, NEW p \in Player, Die(p)
    PROVE  IInv'
<1>1. /\ UNCHANGED <<remote, coreVars, peerList, map, script, opened, known, fault, box, seen>>
      /\ player' = [player EXCEPT ![p].dead = TRUE] /\ TypeOK /\ MailInv
    BY DEF Die, PlayerUnchanged, IInv
<1>2. player \in [Player -> Traveller] /\ seen \subseteq {"busy", "locked"} \cup Player /\ map \in [Map -> MapActor]
    BY <1>1, Typed
<1>3. /\ player' \in [Player -> Traveller]
      /\ \A q \in Player : /\ player'[q].step = player[q].step /\ player'[q].to = player[q].to
                           /\ player'[q].for = player[q].for
    <2> DEFINE traveller == [player[p] EXCEPT !.dead = TRUE]
    <2>1. player[p] \in Traveller /\ player' = [player EXCEPT ![p] = traveller]
        BY <1>1, <1>2
    <2>2. /\ traveller \in Traveller /\ traveller.step = player[p].step /\ traveller.to = player[p].to
          /\ traveller.for = player[p].for
        BY <2>1 DEF Traveller
    <2> HIDE DEF traveller
    <2> QED
        BY <1>1, <2>1, <2>2, OnePlayer
<1>4. Fit(box') /\ \A c, t, k, q : F(box', c, t, k, q) = F(box, c, t, k, q)
    BY <1>1 DEF MailInv
<1> QED
    BY <1>1, <1>2, <1>3, <1>4, TalkKeeps

-----------------------------------------------------------------------------
(* The peer core.                                                           *)

LEMMA ChainNat ==
    ASSUME IInv, NEW m \in Map
    PROVE  /\ Chain(m) /\ State(m) /\ Waits(m, Peer) \in Nat /\ Gone(m) \in Nat /\ Loading(m) \in Nat /\ Closing(m) \in Nat
           /\ \A c \in Actor : \A type, k, q : F(box, c, type, k, q) \in Nat
<1>1. Chain(m) /\ State(m) /\ MailInv /\ TypeOK
    BY DEF IInv, RegistryInv
<1>2. \A c \in Actor : \A type, k, q : F(box, c, type, k, q) \in Nat
    BY <1>1, FNat DEF MailInv, Fit
<1>3. Waits(m, Peer) \in Nat
    BY <1>1, QueueNat
<1>4. Gone(m) \in Nat /\ Loading(m) \in Nat /\ Closing(m) \in Nat
    BY <1>1, <1>2, Actors DEF Gone, Chain
<1> QED
    BY <1>1, <1>2, <1>3, <1>4

\* A load that is anywhere is the only one of the map, and nobody closes it.
LEMMA LoadingAt ==
    ASSUME IInv, NEW m \in Map,
           \/ F(box, Peer, "LOADMAP", m, Core) # 0 \/ F(box, Peer, "ACTIVATED", m, Peer) # 0
           \/ F(box, m, "WAITACTIVATED", m, Peer) # 0 \/ Waits(m, Peer) # 0
           \/ F(box, Core, "LOADED", m, Core) # 0 \/ F(box, Core, "LOADED", m, Peer) # 0
    PROVE  /\ loadOp[m] # <<>> /\ m \in remote /\ m \notin coreList /\ closeOp[m] = <<>> /\ Loading(m) = 1
           /\ Closing(m) = 0 /\ Gone(m) = 0 /\ map[m].closing = None
           /\ F(box, Peer, "CLOSED", m, Peer) = 0 /\ F(box, Peer, "CLOSEMAP", m, Core) = 0
<1> DEFINE u == F(box, Peer, "LOADMAP", m, Core)  v == F(box, Peer, "ACTIVATED", m, Peer)
           w == F(box, m, "WAITACTIVATED", m, Peer)  x == Waits(m, Peer)
           y == F(box, Core, "LOADED", m, Core)  z == F(box, Core, "LOADED", m, Peer)
<1>1. u \in Nat /\ v \in Nat /\ w \in Nat /\ x \in Nat /\ y \in Nat /\ z \in Nat
    BY ChainNat, Actors
<1>2. Loading(m) = u + v + w + x + y + z
    BY DEF Loading
<1>3. u # 0 \/ v # 0 \/ w # 0 \/ x # 0 \/ y # 0 \/ z # 0
    OBVIOUS
<1>4. Loading(m) # 0
    <2> HIDE DEF u, v, w, x, y, z
    <2> QED
        BY <1>1, <1>2, <1>3
<1>5. /\ loadOp[m] # <<>> /\ m \in remote /\ m \notin coreList /\ closeOp[m] = <<>> /\ Loading(m) = 1
      /\ Closing(m) = 0
    BY <1>4, ChainNat DEF Chain
<1>6. /\ F(box, Peer, "CLOSEMAP", m, Core) \in Nat /\ F(box, m, "CLOSEMAP", m, Core) \in Nat
      /\ F(box, m, "CLOSEMAP", m, Peer) \in Nat /\ Gone(m) \in Nat
    BY ChainNat, Actors
<1>7. Gone(m) = 0 /\ F(box, Peer, "CLOSEMAP", m, Core) = 0 /\ map[m].closing = None
    <2> DEFINE a == F(box, Peer, "CLOSEMAP", m, Core)  b == F(box, m, "CLOSEMAP", m, Core)
               c == F(box, m, "CLOSEMAP", m, Peer)  d == IF map[m].closing # None THEN 1 ELSE 0  g == Gone(m)
    <2>1. a \in Nat /\ b \in Nat /\ c \in Nat /\ d \in Nat /\ g \in Nat /\ a + b + c + d + g = 0
        BY <1>5, <1>6 DEF Closing
    <2> HIDE DEF a, b, c, d, g
    <2>2. a = 0 /\ d = 0 /\ g = 0
        BY <2>1
    <2> QED
        BY <2>2 DEF a, d, g
<1>8. F(box, Peer, "CLOSED", m, Peer) = 0
    BY <1>7, ChainNat, Actors DEF Gone
<1> QED
    BY <1>5, <1>7, <1>8

\* And so has a close.
LEMMA ClosingAt ==
    ASSUME IInv, NEW m \in Map,
           \/ F(box, Peer, "CLOSEMAP", m, Core) # 0 \/ F(box, m, "CLOSEMAP", m, Core) # 0
           \/ F(box, m, "CLOSEMAP", m, Peer) # 0 \/ map[m].closing # None
           \/ F(box, Peer, "CLOSED", m, Peer) # 0 \/ F(box, Core, "CLOSED", m, Core) # 0
           \/ F(box, Core, "CLOSED", m, Peer) # 0
    PROVE  /\ closeOp[m] # <<>> /\ m \in coreList /\ loadOp[m] = <<>> /\ m \in known /\ Closing(m) = 1 /\ Loading(m) = 0
           /\ m \in Instance
<1> DEFINE u == F(box, Peer, "CLOSEMAP", m, Core)  v == F(box, m, "CLOSEMAP", m, Core)
           w == F(box, m, "CLOSEMAP", m, Peer)  x == IF map[m].closing # None THEN 1 ELSE 0
           r == F(box, Peer, "CLOSED", m, Peer)
           s == F(box, Core, "CLOSED", m, Core)  t == F(box, Core, "CLOSED", m, Peer)
<1>1. u \in Nat /\ v \in Nat /\ w \in Nat /\ x \in Nat /\ r \in Nat /\ s \in Nat /\ t \in Nat
    BY ChainNat, Actors
<1>2. Closing(m) = u + v + w + x + (r + s + t)
    BY DEF Closing, Gone
<1>3. u # 0 \/ v # 0 \/ w # 0 \/ x # 0 \/ r # 0 \/ s # 0 \/ t # 0
    OBVIOUS
<1>4. Closing(m) # 0
    <2> HIDE DEF u, v, w, x, r, s, t
    <2> QED
        BY <1>1, <1>2, <1>3
<1>5. closeOp[m] # <<>> /\ m \in coreList /\ loadOp[m] = <<>> /\ m \in known /\ Closing(m) = 1 /\ Loading(m) = 0
    BY <1>4, ChainNat DEF Chain
<1>6. m \in Instance
    BY <1>5 DEF IInv, TypeOK
<1> QED
    BY <1>5, <1>6

\* What the cores say to each other and to the maps is none of the clients' business.
LEMMA CoresExchange ==
    ASSUME MailInv, NEW a \in Actor, Got(a), NEW to \in Actor, NEW y \in For(to), box' = Put(Take(a), to, y),
           Top(a).by \in {Core, Peer}, y.by \in {Core, Peer}
    PROVE  /\ Fit(box') /\ \A c \in Actor : c \notin {a, to} => box'[c] = box[c]
           /\ \A c \in Actor : \A type, k : \A q \in Client : F(box', c, type, k, q) = F(box, c, type, k, q)
           /\ \A c \in Actor : \A type, k, q :
                  F(box', c, type, k, q) = F(box, c, type, k, q) - (IF c = a /\ Is(Top(a), type, k, q) THEN 1 ELSE 0)
                                                                + (IF c = to /\ Is(y, type, k, q) THEN 1 ELSE 0)
<1>1. /\ Fit(box') /\ \A c \in Actor : c \notin {a, to} => box'[c] = box[c]
      /\ \A c \in Actor : \A type, k, q :
             /\ F(box, c, type, k, q) \in Nat
             /\ F(box', c, type, k, q) = F(box, c, type, k, q) - (IF c = a /\ Is(Top(a), type, k, q) THEN 1 ELSE 0)
                                                            + (IF c = to /\ Is(y, type, k, q) THEN 1 ELSE 0)
    BY Exchange
<1>2. \A type, k : \A q \in Client : ~Is(Top(a), type, k, q) /\ ~Is(y, type, k, q)
    BY Actors DEF Is, Client
<1> QED
    BY <1>1, <1>2

LEMMA CoresKeep ==
    ASSUME IInv, UNCHANGED <<script, opened, known, player, loadOp, closeOp>>, RegistryInv', Fit(box'), TypeOK',
           \A m \in Map : map'[m].todo = map[m].todo /\ map'[m].waiting = map[m].waiting /\ map'[m].closing = map[m].closing,
           \A c \in Actor : \A type, k : \A q \in Client : F(box', c, type, k, q) = F(box, c, type, k, q)
    PROVE  IInv'
<1>1. KnownInv' /\ CloseInv' /\ SentInv' /\ IdleInv'
    BY Aside
<1>2. LoadInv'
    BY AsideLoad
<1>3. QueueInv'
    BY AsideQueues
<1> QED
    BY <1>1, <1>2, <1>3 DEF IInv, MailInv

\* What is about one map leaves the others alone.
LEMMA OthersKeep ==
    ASSUME IInv, NEW m \in Map, \A n \in Map : n = m => Chain(n)' /\ State(n)',
           remote' = remote,
           \A n \in Map \ {m} :
               /\ loadOp'[n] = loadOp[n] /\ closeOp'[n] = closeOp[n]
               /\ (n \in coreList' <=> n \in coreList) /\ (n \in peerList' <=> n \in peerList) /\ (n \in known => n \in known')
               /\ map'[n] = map[n] /\ (Live(n) \/ box'[n] = box[n])
               /\ \A c \in Actor : \A type : \A q \in {Core, Peer} : F(box', c, type, n, q) = F(box, c, type, n, q)
    PROVE  RegistryInv'
<1> SUFFICES ASSUME NEW n \in Map, n # m PROVE Chain(n)' /\ State(n)'
    BY DEF RegistryInv
<1>1. Chain(n) /\ State(n)
    BY DEF IInv, RegistryInv
<1>2. \A c \in {Core, Peer, n} : \A type : \A q \in {Core, Peer} : F(box', c, type, n, q) = F(box, c, type, n, q)
    BY Actors
<1>3. /\ loadOp'[n] = loadOp[n] /\ closeOp'[n] = closeOp[n]
      /\ (n \in coreList' <=> n \in coreList) /\ (n \in peerList' <=> n \in peerList) /\ (n \in known => n \in known')
      /\ map'[n] = map[n] /\ (Live(n) \/ box'[n] = box[n])
    OBVIOUS
<1> QED
    BY <1>1, <1>2, <1>3, SameRegistry

LEMMA PeerActivatedKeeps ==
    ASSUME IInv, PeerActivated
    PROVE  IInv'
<1>1. /\ Got(Peer) /\ Top(Peer).type = "ACTIVATED" /\ Peer \in Actor /\ Core \in Actor /\ TypeOK /\ MailInv
      /\ UNCHANGED <<remote, coreVars, peerList, map, script, opened, known, player, seen, fault>>
    BY Actors DEF PeerActivated, IInv
<1>2. PICK m \in Map : Top(Peer).map = m /\ Top(Peer) \in For(Peer) /\ F(box, Peer, "ACTIVATED", m, Top(Peer).by) # 0
    BY <1>1, Handled
<1>3. Top(Peer).by = Peer /\ Top(Peer).flag = TRUE /\ Top(Peer) \in Message
    BY <1>1, <1>2, Actors DEF For, ForPeer
<1> DEFINE y == [Top(Peer) EXCEPT !.type = "LOADED"]
<1>4. y \in For(Core) /\ y.by = Peer /\ \A t, k, q : Is(y, t, k, q) <=> t = "LOADED" /\ k = m /\ q = Peer
    BY <1>2, <1>3, Actors DEF For, ForCore, Message, MsgType, Is
<1>5. \A t, k, q : Is(Top(Peer), t, k, q) <=> t = "ACTIVATED" /\ k = m /\ q = Peer
    BY <1>1, <1>2, <1>3 DEF Is
<1>6. box' = Put(Take(Peer), Core, y)
    BY DEF PeerActivated
<1> HIDE DEF y
<1>7. /\ Fit(box') /\ \A c \in Actor : c \notin {Peer, Core} => box'[c] = box[c]
      /\ \A c \in Actor : \A type, k : \A q \in Client : F(box', c, type, k, q) = F(box, c, type, k, q)
      /\ \A c \in Actor : \A type, k, q :
             F(box', c, type, k, q) = F(box, c, type, k, q) - (IF c = Peer /\ type = "ACTIVATED" /\ k = m /\ q = Peer THEN 1 ELSE 0)
                                                       + (IF c = Core /\ type = "LOADED" /\ k = m /\ q = Peer THEN 1 ELSE 0)
    BY <1>1, <1>3, <1>4, <1>5, <1>6, CoresExchange
<1>8. RegistryInv'
    <2>1. ASSUME NEW n \in Map, n = m PROVE Chain(n)' /\ State(n)'
        <3>1. Chain(n) /\ State(n) /\ \A c \in Actor : \A type, k, q : F(box, c, type, k, q) \in Nat
            BY ChainNat
        <3>2. Waits(n, Peer) \in Nat /\ Waits(n, Peer)' = Waits(n, Peer) /\ box'[n] = box[n]
            BY <1>1, <1>7, ChainNat, Actors DEF Waits
        <3>3. Loading(n)' = Loading(n)
            BY <1>7, <2>1, <3>1, <3>2, Actors, SMTT(60) DEF Loading
        <3>4. Gone(n)' = Gone(n) /\ Closing(n)' = Closing(n)
            BY <1>1, <1>7, <3>1, Actors, SMTT(60) DEF Gone, Closing
        <3>5. /\ F(box', Peer, "LOADMAP", n, Core) = F(box, Peer, "LOADMAP", n, Core)
              /\ F(box', Peer, "CLOSED", n, Peer) = F(box, Peer, "CLOSED", n, Peer)
              /\ F(box', Peer, "CLOSEMAP", n, Core) = F(box, Peer, "CLOSEMAP", n, Core)
              /\ \A q \in {Core, Peer} : F(box', n, "CLOSEMAP", n, q) = F(box, n, "CLOSEMAP", n, q)
            BY <1>7, <3>1, Actors
        <3>6. Chain(n)'
            BY <1>1, <3>1, <3>3, <3>4 DEF Chain, coreVars
        <3>7. State(n)'
            BY <1>1, <3>1, <3>2, <3>4, <3>5, Actors DEF State, Live, Keeper, Bare, coreVars
        <3> QED
            BY <3>6, <3>7
    <2>2. \A n \in Map \ {m} : box'[n] = box[n] /\ \A c \in Actor : \A type, q : F(box', c, type, n, q) = F(box, c, type, n, q)
        BY <1>1, <1>7, ChainNat, Actors
    <2> QED
        BY <1>1, <2>1, <2>2, OthersKeep DEF coreVars
<1>9. TypeOK'
    <2>1. map \in [Map -> MapActor] /\ player \in [Player -> Traveller]
        BY <1>1, Typed
    <2>2. seen' \subseteq {"busy", "locked"} \cup Player /\ fault' \in Fault \cup {None}
        BY <1>1, Typed
    <2> QED
        BY <1>1, <1>7, <2>1, <2>2, TypeKeeps
<1> QED
    BY <1>1, <1>7, <1>8, <1>9, CoresKeep DEF coreVars

LEMMA PeerLoadMapKeeps ==
    ASSUME IInv, PeerLoadMap
    PROVE  IInv'
<1>1. /\ Got(Peer) /\ Top(Peer).type = "LOADMAP" /\ Peer \in Actor /\ Core \in Actor /\ TypeOK /\ MailInv
      /\ UNCHANGED <<remote, coreVars, script, opened, known, player, seen>>
    BY Actors DEF PeerLoadMap, IInv
<1>2. PICK m \in Map, wait \in BOOLEAN :
          /\ Top(Peer).map = m /\ Top(Peer).flag = wait
          /\ Top(Peer) \in For(Peer) /\ F(box, Peer, "LOADMAP", m, Top(Peer).by) # 0
    BY <1>1, Handled
<1>3. Top(Peer).by = Core /\ F(box, Peer, "LOADMAP", m, Core) # 0
    BY <1>1, <1>2, Actors DEF For, ForPeer
<1>4. /\ loadOp[m] # <<>> /\ m \in remote /\ m \notin coreList /\ closeOp[m] = <<>> /\ Loading(m) = 1
      /\ Closing(m) = 0 /\ Gone(m) = 0 /\ map[m].closing = None
      /\ F(box, Peer, "CLOSED", m, Peer) = 0 /\ F(box, Peer, "CLOSEMAP", m, Core) = 0
    BY <1>3, LoadingAt
<1>5. ~Live(m) /\ Bare(m) /\ m \notin peerList
    BY <1>3, <1>4, ChainNat DEF State
<1>6. CASE /\ CanAttach(m) /\ Attach(m) /\ peerList' = peerList \cup {m} /\ UNCHANGED fault
           /\ box' = IF wait THEN Call(Take(Peer), map', m, Msg("WAITACTIVATED", m, Peer, TRUE))
                     ELSE Put(Take(Peer), Core, Msg("LOADED", m, Core, TRUE))
    <2>1. /\ map[m].state = "none" /\ map' \in [Map -> MapActor] /\ map'[m] = NewMap
          /\ \A n \in Map \ {m} : map'[n] = map[n]
        BY <1>1, <1>6, NewMapIs, OneMap DEF Attach, CanAttach
    <2>2. \A n \in Map : /\ map'[n].waiting = map[n].waiting /\ map'[n].todo = map[n].todo
                         /\ map'[n].closing = map[n].closing /\ map'[n].active = map[n].active
                         /\ map'[n].grid = map[n].grid /\ map'[n].lock = map[n].lock
        BY <1>5, <2>1, NewMapIs DEF Bare
    <2>3. PICK to \in {m, Core}, y \in Message, by \in {Core, Peer}, type \in {"WAITACTIVATED", "LOADED"} :
              /\ y \in For(to) /\ box' = Put(Take(Peer), to, y) /\ y.by = by
              /\ \A t, k, q : Is(y, t, k, q) <=> t = type /\ k = m /\ q = by
              /\ (to = m /\ by = Peer /\ type = "WAITACTIVATED") \/ (to = Core /\ by = Core /\ type = "LOADED")
        <3>1. CASE wait = TRUE
            <4> DEFINE y == Msg("WAITACTIVATED", m, Peer, TRUE)
            <4>1. y \in For(m) /\ y.by = Peer /\ m \in Actor /\ y \in Message
                BY WaitFits, Actors DEF Msg, For
            <4>2. \A t, k, q : Is(y, t, k, q) <=> t = "WAITACTIVATED" /\ k = m /\ q = Peer
                BY DEF Is, Msg
            <4>3. box' = Deliver(Take(Peer), Post(m, y))
                BY <1>6, <2>1, <3>1, NewMapIs DEF Call, Reach
            <4> HIDE DEF y
            <4>4. box' = Put(Take(Peer), m, y)
                BY <1>1, <4>1, <4>3, Exchange
            <4> QED
                BY <4>1, <4>2, <4>4
        <3>2. CASE wait = FALSE
            <4> DEFINE y == Msg("LOADED", m, Core, TRUE)
            <4>1. y \in For(Core) /\ y.by = Core /\ y \in Message
                BY Actors DEF Msg, For, ForCore, Message, MsgType
            <4>2. \A t, k, q : Is(y, t, k, q) <=> t = "LOADED" /\ k = m /\ q = Core
                BY DEF Is, Msg
            <4>3. box' = Put(Take(Peer), Core, y)
                BY <1>6, <3>2
            <4> HIDE DEF y
            <4> QED
                BY <4>1, <4>2, <4>3
        <3> QED
            BY <3>1, <3>2
    <2>4. \A t, k, q : Is(Top(Peer), t, k, q) <=> t = "LOADMAP" /\ k = m /\ q = Core
        BY <1>1, <1>2, <1>3 DEF Is
    <2>5. /\ Fit(box') /\ \A c \in Actor : c \notin {Peer, to} => box'[c] = box[c]
          /\ \A c \in Actor : \A t, k : \A q \in Client : F(box', c, t, k, q) = F(box, c, t, k, q)
          /\ \A c \in Actor : \A t, k, q :
                 F(box', c, t, k, q) = F(box, c, t, k, q) - (IF c = Peer /\ t = "LOADMAP" /\ k = m /\ q = Core THEN 1 ELSE 0)
                                                           + (IF c = to /\ t = type /\ k = m /\ q = by THEN 1 ELSE 0)
        BY <1>1, <1>3, <2>3, <2>4, CoresExchange, Actors
    <2>6. RegistryInv'
        <3>1. ASSUME NEW n \in Map, n = m PROVE Chain(n)' /\ State(n)'
            <4>1. Chain(n) /\ State(n) /\ \A c \in Actor : \A t, k, q : F(box, c, t, k, q) \in Nat
                BY ChainNat
            <4>2. Waits(n, Peer) \in Nat /\ Waits(n, Peer)' = Waits(n, Peer)
                BY <2>2, ChainNat DEF Waits
            <4>3. Loading(n)' = Loading(n)
                BY <2>3, <2>5, <3>1, <4>1, <4>2, Actors, SMTT(60) DEF Loading
            <4>4. Gone(n)' = Gone(n) /\ Closing(n)' = Closing(n)
                BY <2>2, <2>3, <2>5, <4>1, Actors, SMTT(60) DEF Gone, Closing
            <4>5. /\ F(box', Peer, "LOADMAP", n, Core) = 0
                  /\ F(box', Peer, "CLOSED", n, Peer) = F(box, Peer, "CLOSED", n, Peer)
                  /\ F(box', Peer, "CLOSEMAP", n, Core) = F(box, Peer, "CLOSEMAP", n, Core)
                  /\ \A q \in {Core, Peer} : F(box', n, "CLOSEMAP", n, q) = F(box, n, "CLOSEMAP", n, q)
                <5> DEFINE u == F(box, Peer, "LOADMAP", m, Core)  v == F(box, Peer, "ACTIVATED", m, Peer)
                           w == F(box, m, "WAITACTIVATED", m, Peer)  x == Waits(m, Peer)
                           s == F(box, Core, "LOADED", m, Core)  z == F(box, Core, "LOADED", m, Peer)
                <5>1. /\ u \in Nat /\ v \in Nat /\ w \in Nat /\ x \in Nat /\ s \in Nat /\ z \in Nat
                      /\ u + v + w + x + s + z = 1 /\ u # 0
                    BY <1>3, <1>4, <3>1, <4>1, <4>2, Actors DEF Loading
                <5>2. u = 1
                    <6> HIDE DEF u, v, w, x, s, z
                    <6> QED
                        BY <5>1
                <5> QED
                    BY <2>3, <2>5, <3>1, <4>1, <5>2, Actors
            <4>6. Chain(n)'
                BY <1>1, <1>4, <2>1, <3>1, <4>1, <4>3, <4>4, NewMapIs DEF Chain, coreVars
            <4>7. State(n)'
                BY <1>1, <1>4, <1>5, <1>6, <2>1, <3>1, <4>1, <4>4, <4>5, NewMapIs, Actors DEF State, Live, Keeper, Bare, coreVars
            <4> QED
                BY <4>6, <4>7
        <3>2. \A n \in Map \ {m} : box'[n] = box[n] /\ \A c \in Actor : \A t, q : F(box', c, t, n, q) = F(box, c, t, n, q)
            BY <2>3, <2>5, ChainNat, Actors
        <3>3. \A n \in Map \ {m} : n \in peerList' <=> n \in peerList
            BY <1>6
        <3> QED
            BY <1>1, <2>1, <3>1, <3>2, <3>3, OthersKeep DEF coreVars
    <2>7. TypeOK'
        <3>1. peerList' \subseteq remote'
            BY <1>1, <1>4, <1>6 DEF TypeOK
        <3> QED
            BY <1>1, <1>6, <2>1, <2>5, <3>1 DEF TypeOK, Fit, Mailboxes, Message, MapActor, coreVars
    <2> QED
        BY <1>1, <2>2, <2>5, <2>6, <2>7, CoresKeep DEF coreVars
<1>7. CASE fault' = <<"attach", m, Head(loadOp[m]).by>> /\ UNCHANGED <<map, peerList, box>>
    <2>1. Head(loadOp[m]) \in Waiter
        BY <1>1, <1>4, QueueNat
    <2>2. fault' \in Fault \cup {None}
        BY <1>7, <2>1 DEF Fault, Waiter
    <2> QED
        BY <1>1, <1>7, <2>2, FaultOnly
<1> QED
    BY <1>2, <1>5, <1>6, <1>7 DEF PeerLoadMap

LEMMA PeerCloseMapKeeps ==
    ASSUME IInv, PeerCloseMap
    PROVE  IInv' /\ UNCHANGED fault
<1>1. /\ Got(Peer) /\ Top(Peer).type = "CLOSEMAP" /\ Peer \in Actor /\ Core \in Actor /\ TypeOK /\ MailInv
      /\ UNCHANGED <<remote, coreVars, peerList, map, script, opened, known, player, seen>>
    BY Actors DEF PeerCloseMap, IInv
<1>2. PICK m \in Map : Top(Peer).map = m /\ Top(Peer) \in For(Peer) /\ F(box, Peer, "CLOSEMAP", m, Top(Peer).by) # 0
    BY <1>1, Handled
<1>3. Top(Peer).by = Core /\ F(box, Peer, "CLOSEMAP", m, Core) # 0
    BY <1>1, <1>2, Actors DEF For, ForPeer
<1>4. closeOp[m] # <<>> /\ m \in coreList /\ loadOp[m] = <<>> /\ Closing(m) = 1 /\ Loading(m) = 0
    BY <1>3, ClosingAt
<1>5. Gone(m) = 0
    <2> DEFINE a == F(box, Peer, "CLOSEMAP", m, Core)  b == F(box, m, "CLOSEMAP", m, Core)
               c == F(box, m, "CLOSEMAP", m, Peer)  d == IF map[m].closing # None THEN 1 ELSE 0  g == Gone(m)
    <2>1. a \in Nat /\ b \in Nat /\ c \in Nat /\ d \in Nat /\ g \in Nat /\ a + b + c + d + g = 1 /\ a # 0
        BY <1>3, <1>4, ChainNat, Actors DEF Closing
    <2> HIDE DEF a, b, c, d, g
    <2>2. g = 0
        BY <2>1
    <2> QED
        BY <2>2 DEF g
<1>6. m \in remote /\ Live(m) /\ m \in peerList
    BY <1>3, <1>4, <1>5, ChainNat DEF State
<1> DEFINE y == Msg("CLOSEMAP", m, Peer, TRUE)
<1>7. y \in For(m) /\ y.by = Peer /\ m \in Actor /\ \A t, k, q : Is(y, t, k, q) <=> t = "CLOSEMAP" /\ k = m /\ q = Peer
    BY Actors DEF Msg, For, ForMap, Message, MsgType, Is
<1>8. box' = Put(Take(Peer), m, y) /\ UNCHANGED fault
    <2>1. box' = Deliver(Take(Peer), Post(m, y)) /\ UNCHANGED fault
        BY <1>2, <1>6 DEF PeerCloseMap, Call, Reach, Live
    <2> HIDE DEF y
    <2> QED
        BY <1>1, <1>7, <2>1, Exchange
<1>9. \A t, k, q : Is(Top(Peer), t, k, q) <=> t = "CLOSEMAP" /\ k = m /\ q = Core
    BY <1>1, <1>2, <1>3 DEF Is
<1> HIDE DEF y
<1>10. /\ Fit(box') /\ \A c \in Actor : c \notin {Peer, m} => box'[c] = box[c]
       /\ \A c \in Actor : \A t, k : \A q \in Client : F(box', c, t, k, q) = F(box, c, t, k, q)
       /\ \A c \in Actor : \A t, k, q :
              F(box', c, t, k, q) = F(box, c, t, k, q) - (IF c = Peer /\ t = "CLOSEMAP" /\ k = m /\ q = Core THEN 1 ELSE 0)
                                                        + (IF c = m /\ t = "CLOSEMAP" /\ k = m /\ q = Peer THEN 1 ELSE 0)
    BY <1>1, <1>3, <1>7, <1>8, <1>9, CoresExchange
<1>11. RegistryInv'
    <2>1. ASSUME NEW n \in Map, n = m PROVE Chain(n)' /\ State(n)'
        <3>1. Chain(n) /\ State(n) /\ \A c \in Actor : \A t, k, q : F(box, c, t, k, q) \in Nat
            BY ChainNat
        <3>2. Waits(n, Peer) \in Nat /\ Waits(n, Peer)' = Waits(n, Peer)
            BY <1>1, ChainNat DEF Waits
        <3>3. Loading(n)' = Loading(n) /\ Gone(n)' = Gone(n)
            BY <1>10, <3>1, <3>2, Actors, SMTT(60) DEF Loading, Gone
        <3>4. Closing(n)' = Closing(n)
            <4>1. /\ F(box', Peer, "CLOSEMAP", n, Core) = F(box, Peer, "CLOSEMAP", n, Core) - 1
                  /\ F(box', n, "CLOSEMAP", n, Core) = F(box, n, "CLOSEMAP", n, Core)
                  /\ F(box', n, "CLOSEMAP", n, Peer) = F(box, n, "CLOSEMAP", n, Peer) + 1
                BY <1>10, <2>1, <3>1, Actors
            <4> QED
                BY <1>1, <3>1, <3>3, <4>1, ChainNat, Actors DEF Closing
        <3>5. /\ F(box', Peer, "LOADMAP", n, Core) = F(box, Peer, "LOADMAP", n, Core)
              /\ F(box', Peer, "CLOSED", n, Peer) = F(box, Peer, "CLOSED", n, Peer)
              /\ F(box', n, "CLOSEMAP", n, Core) = F(box, n, "CLOSEMAP", n, Core)
            BY <1>10, <3>1, Actors
        <3>6. Chain(n)'
            BY <1>1, <3>1, <3>3, <3>4 DEF Chain, coreVars
        <3>7. State(n)'
            BY <1>1, <1>6, <2>1, <3>1, <3>3, <3>5, Actors DEF State, Live, Keeper, Bare, coreVars
        <3> QED
            BY <3>6, <3>7
    <2>2. \A n \in Map \ {m} : box'[n] = box[n] /\ \A c \in Actor : \A t, q : F(box', c, t, n, q) = F(box, c, t, n, q)
        BY <1>10, ChainNat, Actors
    <2> QED
        BY <1>1, <2>1, <2>2, OthersKeep DEF coreVars
<1>12. TypeOK'
    BY <1>1, <1>8, <1>10, Typed, TypeKeeps
<1> QED
    BY <1>1, <1>8, <1>10, <1>11, <1>12, CoresKeep DEF coreVars

LEMMA PeerClosedHolds ==
    ASSUME IInv, PeerClosed
    PROVE  IInv'
<1>1. /\ Got(Peer) /\ Top(Peer).type = "CLOSED" /\ Peer \in Actor /\ Core \in Actor /\ TypeOK /\ MailInv
      /\ UNCHANGED <<remote, coreVars, map, script, opened, known, player, seen, fault>>
    BY Actors DEF PeerClosed, IInv
<1>2. PICK m \in Map : Top(Peer).map = m /\ Top(Peer) \in For(Peer) /\ F(box, Peer, "CLOSED", m, Top(Peer).by) # 0
    BY <1>1, Handled
<1>3. Top(Peer).by = Peer /\ Top(Peer).flag = TRUE /\ Top(Peer) \in Message /\ F(box, Peer, "CLOSED", m, Peer) # 0
    BY <1>1, <1>2, Actors DEF For, ForPeer
<1>4. closeOp[m] # <<>> /\ m \in coreList /\ loadOp[m] = <<>> /\ Closing(m) = 1 /\ Loading(m) = 0
    BY <1>3, ClosingAt
<1>5. Gone(m) # 0 /\ F(box, Peer, "CLOSED", m, Peer) = 1
    <2> DEFINE a == F(box, Peer, "CLOSEMAP", m, Core)  b == F(box, m, "CLOSEMAP", m, Core)
               c == F(box, m, "CLOSEMAP", m, Peer)  d == IF map[m].closing # None THEN 1 ELSE 0
               u == F(box, Peer, "CLOSED", m, Peer)  v == F(box, Core, "CLOSED", m, Core)  w == F(box, Core, "CLOSED", m, Peer)
    <2>1. /\ a \in Nat /\ b \in Nat /\ c \in Nat /\ d \in Nat /\ u \in Nat /\ v \in Nat /\ w \in Nat
          /\ a + b + c + d + (u + v + w) = 1 /\ u # 0 /\ Gone(m) = u + v + w
        BY <1>3, <1>4, ChainNat, Actors DEF Closing, Gone
    <2> HIDE DEF a, b, c, d, u, v, w
    <2>2. u = 1 /\ Gone(m) # 0
        BY <2>1
    <2> QED
        BY <2>2 DEF u
<1>6. m \in remote /\ ~Live(m) /\ m \in peerList
    BY <1>3, <1>4, <1>5, ChainNat DEF State
<1> DEFINE y == Top(Peer)
<1>7. y \in For(Core) /\ y.by = Peer /\ \A t, k, q : Is(y, t, k, q) <=> t = "CLOSED" /\ k = m /\ q = Peer
    BY <1>1, <1>2, <1>3, Actors DEF For, ForCore, Is
<1>8. box' = Put(Take(Peer), Core, y) /\ peerList' = peerList \ {m}
    BY <1>2, <1>3 DEF PeerClosed
<1>9. /\ Fit(box') /\ \A c \in Actor : c \notin {Peer, Core} => box'[c] = box[c]
      /\ \A c \in Actor : \A t, k : \A q \in Client : F(box', c, t, k, q) = F(box, c, t, k, q)
      /\ \A c \in Actor : \A t, k, q :
             F(box', c, t, k, q) = F(box, c, t, k, q) - (IF c = Peer /\ t = "CLOSED" /\ k = m /\ q = Peer THEN 1 ELSE 0)
                                                       + (IF c = Core /\ t = "CLOSED" /\ k = m /\ q = Peer THEN 1 ELSE 0)
    <2> HIDE DEF y
    <2> QED
        BY <1>1, <1>3, <1>7, <1>8, CoresExchange DEF y
<1>10. RegistryInv'
    <2>1. ASSUME NEW n \in Map, n = m PROVE Chain(n)' /\ State(n)'
        <3>1. Chain(n) /\ State(n) /\ \A c \in Actor : \A t, k, q : F(box, c, t, k, q) \in Nat
            BY ChainNat
        <3>2. Waits(n, Peer) \in Nat /\ Waits(n, Peer)' = Waits(n, Peer) /\ box'[n] = box[n]
            BY <1>1, <1>9, ChainNat, Actors DEF Waits
        <3>3. Loading(n)' = Loading(n) /\ Gone(n)' = Gone(n)
            BY <1>9, <2>1, <3>1, <3>2, Actors, SMTT(60) DEF Loading, Gone
        <3>4. /\ F(box', Peer, "CLOSEMAP", n, Core) = F(box, Peer, "CLOSEMAP", n, Core)
              /\ F(box', n, "CLOSEMAP", n, Core) = F(box, n, "CLOSEMAP", n, Core)
              /\ F(box', n, "CLOSEMAP", n, Peer) = F(box, n, "CLOSEMAP", n, Peer)
              /\ F(box', Peer, "LOADMAP", n, Core) = F(box, Peer, "LOADMAP", n, Core)
              /\ F(box', Peer, "CLOSED", n, Peer) = 0
            BY <1>5, <1>9, <2>1, <3>1, Actors
        <3>5. Closing(n)' = Closing(n)
            BY <1>1, <3>3, <3>4 DEF Closing
        <3>6. Chain(n)'
            BY <1>1, <3>1, <3>3, <3>5 DEF Chain, coreVars
        <3>7. State(n)'
            BY <1>1, <1>6, <1>8, <2>1, <3>1, <3>2, <3>3, <3>4, Actors DEF State, Live, Keeper, Bare, coreVars
        <3> QED
            BY <3>6, <3>7
    <2>2. \A n \in Map \ {m} : box'[n] = box[n] /\ \A c \in Actor : \A t, q : F(box', c, t, n, q) = F(box, c, t, n, q)
        BY <1>9, ChainNat, Actors
    <2>3. \A n \in Map \ {m} : n \in peerList' <=> n \in peerList
        BY <1>8
    <2> QED
        BY <1>1, <2>1, <2>2, <2>3, OthersKeep DEF coreVars
<1>11. TypeOK'
    <2>1. peerList' \subseteq remote'
        BY <1>1, <1>8 DEF TypeOK
    <2> QED
        BY <1>1, <1>9, <2>1 DEF TypeOK, Fit, Mailboxes, Message, coreVars
<1> QED
    BY <1>1, <1>9, <1>10, <1>11, CoresKeep DEF coreVars

-----------------------------------------------------------------------------
(* The scripts.                                                             *)

Errand == [op : {"idle", "load", "close"}, map : Map \cup {None}, n : 0 .. MaxClose]

LEMMA OneScript ==
    ASSUME TypeOK, NEW s \in Script, NEW errand \in Errand, script' = [script EXCEPT ![s] = errand]
    PROVE  /\ script' \in [Script -> Errand] /\ script'[s] = errand
           /\ \A t \in Script \ {s} : script'[t] = script[t]
<1>1. script \in [Script -> Errand]
    BY DEF TypeOK, Errand
<1> QED
    BY <1>1

\* Of a step of a script.
LEMMA ScriptTypeKeeps ==
    ASSUME TypeOK, UNCHANGED <<remote, coreVars, peerList, map, player, seen, fault>>, Fit(box'),
           script' \in [Script -> Errand], known' \subseteq opened', opened' \subseteq Instance
    PROVE  TypeOK'
BY DEF TypeOK, coreVars, Fit, Mailboxes, Message, Errand

LEMMA LoadNat ==
    ASSUME IInv, NEW r \in Client, NEW m \in Map
    PROVE  /\ Load(r, m) /\ N(loadOp[m], By(r)) \in Nat /\ Waits(m, r) \in Nat
           /\ F(box, Core, "LOADMAP", m, r) \in Nat /\ F(box, Core, "ACTIVATED", m, r) \in Nat
           /\ F(box, m, "WAITACTIVATED", m, r) \in Nat /\ F(box, r, "LOADED", m, r) \in Nat
           /\ r \in Actor /\ m \in Actor /\ Core \in Actor
<1>1. Load(r, m) /\ TypeOK /\ MailInv
    BY DEF IInv, LoadInv
<1>2. r \in Actor /\ m \in Actor /\ Core \in Actor
    BY Actors DEF Client
<1> QED
    BY <1>1, <1>2, QueueNat, FNat DEF MailInv, Fit

LEMMA CloseNat ==
    ASSUME IInv, NEW s \in Script, NEW m \in Map
    PROVE  /\ Close(s, m) /\ N(closeOp[m], {s}) \in Nat
           /\ F(box, Core, "CLOSEMAP", m, s) \in Nat /\ F(box, s, "CLOSED", m, s) \in Nat
           /\ s \in Actor /\ m \in Actor /\ Core \in Actor
<1>1. Close(s, m) /\ TypeOK /\ MailInv
    BY DEF IInv, CloseInv
<1>2. s \in Actor /\ m \in Actor /\ Core \in Actor
    BY Actors
<1> QED
    BY <1>1, <1>2, QueueNat, FNat DEF MailInv, Fit

\* A close that is anywhere is the only one of its script, and the script waits for it.
LEMMA Closer ==
    ASSUME IInv, NEW s \in Script, NEW m \in Map,
           F(box, Core, "CLOSEMAP", m, s) # 0 \/ N(closeOp[m], {s}) # 0 \/ F(box, s, "CLOSED", m, s) # 0
    PROVE  script[s].op = "close" /\ script[s].map = m /\ m \in known /\ Closes(s, m) = 1
<1> DEFINE u == F(box, Core, "CLOSEMAP", m, s)  v == N(closeOp[m], {s})  w == F(box, s, "CLOSED", m, s)
<1>1. u \in Nat /\ v \in Nat /\ w \in Nat /\ Closes(s, m) = u + v + w /\ (u # 0 \/ v # 0 \/ w # 0)
    BY CloseNat DEF Closes
<1>2. Closes(s, m) # 0
    <2> HIDE DEF u, v, w
    <2> QED
        BY <1>1
<1>3. script[s].op = "close" /\ script[s].map = m /\ Closes(s, m) = 1
    BY <1>2, CloseNat DEF Close
<1>4. m \in known
    BY <1>3 DEF IInv, KnownInv
<1> QED
    BY <1>3, <1>4

\* A request that a client sends to the service core.
LEMMA Asked ==
    ASSUME MailInv, NEW y \in For(Core), y.by \in Client, box' = Put(box, Core, y)
    PROVE  /\ Fit(box') /\ \A c \in Actor : c # Core => box'[c] = box[c]
           /\ \A c \in Actor : \A t, k, q :
                  /\ F(box', c, t, k, q) = F(box, c, t, k, q) + (IF c = Core /\ Is(y, t, k, q) THEN 1 ELSE 0)
                  /\ F(box, c, t, k, q) \in Nat
                  /\ q \in {Core, Peer} => F(box', c, t, k, q) = F(box, c, t, k, q)
<1>1. /\ Fit(box') /\ \A c \in Actor : c # Core => box'[c] = box[c]
      /\ \A c \in Actor : \A t, k, q :
             /\ F(box', c, t, k, q) = F(box, c, t, k, q) + (IF c = Core /\ Is(y, t, k, q) THEN 1 ELSE 0)
             /\ F(box, c, t, k, q) \in Nat
    BY Sending, Actors DEF MailInv
<1>2. \A t, k : \A q \in {Core, Peer} : ~Is(y, t, k, q)
    BY Actors DEF Is, Client
<1> QED
    BY <1>1, <1>2

LEMMA OpenInstanceKeeps ==
    ASSUME IInv, NEW s \in Script, OpenInstance(s)
    PROVE  IInv'
<1>1. PICK m \in Instance \ opened : /\ opened' = opened \cup {m} /\ box' = Put(box, Core, Msg("LOADMAP", m, s, TRUE))
                                     /\ script' = [script EXCEPT ![s].op = "load", ![s].map = m]
    BY DEF OpenInstance, AskCore
<1>2. /\ script[s].op = "idle" /\ UNCHANGED <<remote, coreVars, peerList, map, known, player, seen, fault>>
      /\ TypeOK /\ MailInv /\ KnownInv /\ s \in Client /\ m \in Map
    BY Actors DEF OpenInstance, IInv, Client
<1>3. /\ script' \in [Script -> Errand] /\ script'[s].op = "load" /\ script'[s].map = m
      /\ \A t \in Script \ {s} : script'[t] = script[t]
    <2> DEFINE errand == [script[s] EXCEPT !.op = "load", !.map = m]
    <2>1. script[s] \in Errand /\ script' = [script EXCEPT ![s] = errand]
        BY <1>1, <1>2 DEF TypeOK, Errand
    <2>2. errand \in Errand /\ errand.op = "load" /\ errand.map = m
        BY <1>2, <2>1 DEF Errand
    <2> HIDE DEF errand
    <2> QED
        BY <1>2, <2>1, <2>2, OneScript
<1> DEFINE y == Msg("LOADMAP", m, s, TRUE)
<1>4. y \in For(Core) /\ y.by \in Client /\ \A t, k, q : Is(y, t, k, q) <=> t = "LOADMAP" /\ k = m /\ q = s
    BY <1>2, Actors DEF Msg, For, ForCore, Message, MsgType, Is
<1>12. box' = Put(box, Core, y)
    BY <1>1
<1> HIDE DEF y
<1>5. /\ Fit(box') /\ \A c \in Actor : c # Core => box'[c] = box[c]
      /\ \A c \in Actor : \A t, k, q :
             /\ F(box', c, t, k, q) = F(box, c, t, k, q) + (IF c = Core /\ t = "LOADMAP" /\ k = m /\ q = s THEN 1 ELSE 0)
             /\ F(box, c, t, k, q) \in Nat
             /\ q \in {Core, Peer} => F(box', c, t, k, q) = F(box, c, t, k, q)
    BY <1>2, <1>4, <1>12, Asked
<1>6. TypeOK'
    <2>1. known' \subseteq opened' /\ opened' \subseteq Instance
        BY <1>1, <1>2 DEF TypeOK
    <2> QED
        BY <1>2, <1>3, <1>5, <2>1, ScriptTypeKeeps
<1>7. QueueInv' /\ RegistryInv' /\ IdleInv'
    <2>1. \A n \in Map : box'[n] = box[n]
        BY <1>5, Actors
    <2> QED
        BY <1>2, <1>5, <2>1, AsideQueues, AsideRegistry, SameFor DEF coreVars, IInv
<1>8. KnownInv'
    BY <1>1, <1>2, <1>3 DEF KnownInv, TypeOK
<1>9. LoadInv'
    <2> SUFFICES ASSUME NEW q \in Client, NEW n \in Map PROVE Load(q, n)'
        BY DEF LoadInv
    <2>1. CASE q = s /\ n = m
        <3>1. ~Wants(s, m) /\ Wants(s, m)'
            BY <1>2, <1>3, Actors DEF Wants
        <3>2. /\ F(box', Core, "LOADMAP", m, s) = F(box, Core, "LOADMAP", m, s) + 1
              /\ F(box', Core, "ACTIVATED", m, s) = F(box, Core, "ACTIVATED", m, s)
              /\ F(box', m, "WAITACTIVATED", m, s) = F(box, m, "WAITACTIVATED", m, s)
              /\ F(box', s, "LOADED", m, s) = F(box, s, "LOADED", m, s)
            BY <1>2, <1>5, LoadNat
        <3>3. N(loadOp[m], By(s))' = N(loadOp[m], By(s)) /\ Waits(m, s)' = Waits(m, s)
            BY <1>2 DEF Waits, By, coreVars
        <3>4. Requests(s, m)' = Requests(s, m) + 1
            BY <1>2, <3>2, <3>3, LoadNat DEF Requests
        <3> QED
            BY <1>2, <2>1, <3>1, <3>4, LoadNat DEF Load
    <2>2. CASE q # s \/ n # m
        <3>1. Wants(q, n)' <=> Wants(q, n)
            <4>1. CASE q = s
                BY <1>2, <1>3, <2>2, <4>1, Actors DEF Wants
            <4>2. CASE q # s
                BY <1>2, <1>3, <4>2 DEF Wants
            <4> QED
                BY <4>1, <4>2
        <3>2. /\ F(box', Core, "LOADMAP", n, q) = F(box, Core, "LOADMAP", n, q)
              /\ F(box', Core, "ACTIVATED", n, q) = F(box, Core, "ACTIVATED", n, q)
              /\ F(box', n, "WAITACTIVATED", n, q) = F(box, n, "WAITACTIVATED", n, q)
              /\ F(box', q, "LOADED", n, q) = F(box, q, "LOADED", n, q)
            BY <1>5, <2>2, LoadNat
        <3> QED
            BY <1>2, <3>1, <3>2, LoadNat, SameLoad DEF coreVars
    <2> QED
        BY <2>1, <2>2
<1>10. CloseInv'
    <2> SUFFICES ASSUME NEW q \in Script, NEW n \in Map PROVE Close(q, n)'
        BY DEF CloseInv
    <2>1. /\ F(box', Core, "CLOSEMAP", n, q) = F(box, Core, "CLOSEMAP", n, q)
          /\ F(box', q, "CLOSED", n, q) = F(box, q, "CLOSED", n, q)
        BY <1>5, Actors
    <2>3. N(closeOp[n], {q})' = N(closeOp[n], {q})
        BY <1>2 DEF coreVars
    <2>2. (script'[q].op = "close" /\ script'[q].map = n) <=> (script[q].op = "close" /\ script[q].map = n)
        BY <1>2, <1>3
    <2> QED
        BY <2>1, <2>2, <2>3, CloseNat DEF Close, Closes
<1>11. SentInv'
    BY <1>2, <1>5, SameSent, Actors DEF IInv
<1> QED
    BY <1>5, <1>6, <1>7, <1>8, <1>9, <1>10, <1>11 DEF IInv, MailInv

LEMMA CloseInstanceKeeps ==
    ASSUME IInv, NEW s \in Script, CloseInstance(s)
    PROVE  IInv'
<1>1. PICK m \in known : /\ box' = Put(box, Core, Msg("CLOSEMAP", m, s, TRUE))
                         /\ script' = [script EXCEPT ![s].op = "close", ![s].map = m, ![s].n = @ + 1]
    BY DEF CloseInstance, AskCore
<1>2. /\ script[s].op = "idle" /\ script[s].n < MaxClose
      /\ UNCHANGED <<remote, coreVars, peerList, map, opened, known, player, seen, fault>>
      /\ TypeOK /\ MailInv /\ KnownInv /\ s \in Client /\ m \in Map
    BY Actors DEF CloseInstance, IInv, TypeOK, Client
<1>3. /\ script' \in [Script -> Errand] /\ script'[s].op = "close" /\ script'[s].map = m
      /\ \A t \in Script \ {s} : script'[t] = script[t]
    <2> DEFINE errand == [script[s] EXCEPT !.op = "close", !.map = m, !.n = script[s].n + 1]
    <2>1. script[s] \in Errand /\ script' = [script EXCEPT ![s] = errand]
        BY <1>1, <1>2 DEF TypeOK, Errand
    <2>2. script[s].n + 1 \in 0 .. MaxClose
        BY <1>2, <2>1, RegistryAssumption DEF Errand
    <2>3. errand \in Errand /\ errand.op = "close" /\ errand.map = m
        BY <1>2, <2>1, <2>2 DEF Errand
    <2> HIDE DEF errand
    <2> QED
        BY <1>2, <2>1, <2>3, OneScript
<1> DEFINE y == Msg("CLOSEMAP", m, s, TRUE)
<1>4. y \in For(Core) /\ y.by \in Client /\ \A t, k, q : Is(y, t, k, q) <=> t = "CLOSEMAP" /\ k = m /\ q = s
    BY <1>2, Actors DEF Msg, For, ForCore, Message, MsgType, Is
<1>12. box' = Put(box, Core, y)
    BY <1>1
<1> HIDE DEF y
<1>5. /\ Fit(box') /\ \A c \in Actor : c # Core => box'[c] = box[c]
      /\ \A c \in Actor : \A t, k, q :
             /\ F(box', c, t, k, q) = F(box, c, t, k, q) + (IF c = Core /\ t = "CLOSEMAP" /\ k = m /\ q = s THEN 1 ELSE 0)
             /\ F(box, c, t, k, q) \in Nat
             /\ q \in {Core, Peer} => F(box', c, t, k, q) = F(box, c, t, k, q)
    BY <1>2, <1>4, <1>12, Asked
<1>6. TypeOK'
    BY <1>2, <1>3, <1>5, ScriptTypeKeeps DEF TypeOK
<1>7. QueueInv' /\ RegistryInv' /\ IdleInv'
    <2>1. \A n \in Map : box'[n] = box[n]
        BY <1>5, Actors
    <2> QED
        BY <1>2, <1>5, <2>1, AsideQueues, AsideRegistry, SameFor DEF coreVars, IInv
<1>8. KnownInv'
    BY <1>1, <1>2, <1>3 DEF KnownInv
<1>9. LoadInv'
    <2> SUFFICES ASSUME NEW q \in Client, NEW n \in Map PROVE Load(q, n)'
        BY DEF LoadInv
    <2>1. Wants(q, n)' <=> Wants(q, n)
        <3>1. CASE q = s
            BY <1>2, <1>3, <3>1, Actors DEF Wants
        <3>2. CASE q # s
            BY <1>2, <1>3, <3>2 DEF Wants
        <3> QED
            BY <3>1, <3>2
    <2>2. /\ F(box', Core, "LOADMAP", n, q) = F(box, Core, "LOADMAP", n, q)
          /\ F(box', Core, "ACTIVATED", n, q) = F(box, Core, "ACTIVATED", n, q)
          /\ F(box', n, "WAITACTIVATED", n, q) = F(box, n, "WAITACTIVATED", n, q)
          /\ F(box', q, "LOADED", n, q) = F(box, q, "LOADED", n, q)
        BY <1>5, LoadNat
    <2> QED
        BY <1>2, <2>1, <2>2, LoadNat, SameLoad DEF coreVars
<1>10. CloseInv'
    <2> SUFFICES ASSUME NEW q \in Script, NEW n \in Map PROVE Close(q, n)'
        BY DEF CloseInv
    <2>1. /\ F(box', Core, "CLOSEMAP", n, q) = F(box, Core, "CLOSEMAP", n, q) + (IF q = s /\ n = m THEN 1 ELSE 0)
          /\ F(box', q, "CLOSED", n, q) = F(box, q, "CLOSED", n, q)
        BY <1>5, Actors
    <2>4. Closes(q, n)' = Closes(q, n) + (IF q = s /\ n = m THEN 1 ELSE 0)
        <3>1. N(closeOp[n], {q})' = N(closeOp[n], {q})
            BY <1>2 DEF coreVars
        <3>2. /\ N(closeOp[n], {q}) \in Nat /\ F(box, Core, "CLOSEMAP", n, q) \in Nat /\ F(box, q, "CLOSED", n, q) \in Nat
            BY CloseNat
        <3> QED
            BY <2>1, <3>1, <3>2 DEF Closes
    <2>2. q = s => /\ ~(script[q].op = "close" /\ script[q].map = n)
                   /\ (script'[q].op = "close" /\ script'[q].map = n) <=> n = m
        BY <1>2, <1>3
    <2>3. q # s => script'[q] = script[q]
        BY <1>3
    <2> QED
        <3>1. Close(q, n)
            BY CloseNat
        <3>2. CASE q = s /\ n = m
            BY <2>2, <2>4, <3>1, <3>2 DEF Close
        <3>3. CASE q = s /\ n # m
            BY <2>2, <2>4, <3>1, <3>3 DEF Close
        <3>4. CASE q # s
            BY <2>3, <2>4, <3>1, <3>4 DEF Close
        <3> QED
            BY <3>2, <3>3, <3>4
<1>11. SentInv'
    BY <1>2, <1>5, SameSent, Actors DEF IInv
<1> QED
    BY <1>5, <1>6, <1>7, <1>8, <1>9, <1>10, <1>11 DEF IInv, MailInv

LEMMA ScriptAnsweredKeeps ==
    ASSUME IInv, NEW s \in Script, ScriptAnswered(s)
    PROVE  IInv'
<1>1. /\ s \in Actor /\ Got(s) /\ TypeOK /\ MailInv /\ KnownInv /\ s \in Client
      /\ UNCHANGED <<remote, coreVars, peerList, map, opened, player, seen, fault>>
    BY Actors DEF ScriptAnswered, IInv, Client
<1>2. PICK m \in Map, type \in {"LOADED", "CLOSED"} :
          /\ Top(s).map = m /\ Top(s).type = type /\ Top(s).by = s /\ (type = "LOADED" => Top(s).flag = TRUE)
          /\ F(box, s, type, m, s) # 0
    BY <1>1, Handled, Actors DEF For, ForScript
<1>3. /\ script[s].map = m /\ script[s].op = (IF type = "LOADED" THEN "load" ELSE "close")
      /\ m \in opened /\ (type = "LOADED" => m \notin known) /\ (type = "CLOSED" => m \in known)
    <2>1. CASE type = "LOADED"
        <3>1. Wants(s, m)
            BY <1>1, <1>2, <2>1, Requested
        <3> QED
            BY <1>1, <2>1, <3>1, Actors DEF Wants, KnownInv
    <2>2. CASE type = "CLOSED"
        BY <1>1, <1>2, <2>2, Closer DEF TypeOK
    <2> QED
        BY <2>1, <2>2
<1>4. known' = known \cup {m}
    BY <1>2, <1>3 DEF ScriptAnswered
<1>5. /\ script' \in [Script -> Errand] /\ script'[s].op = "idle" /\ script'[s].map = None
      /\ \A t \in Script \ {s} : script'[t] = script[t]
    <2> DEFINE errand == [script[s] EXCEPT !.op = "idle", !.map = None]
    <2>1. script[s] \in Errand /\ script' = [script EXCEPT ![s] = errand]
        BY <1>1 DEF ScriptAnswered, TypeOK, Errand
    <2>2. errand \in Errand /\ errand.op = "idle" /\ errand.map = None
        BY <2>1 DEF Errand
    <2> HIDE DEF errand
    <2> QED
        BY <1>1, <2>1, <2>2, OneScript
<1>6. /\ Fit(box') /\ \A c \in Actor : c # s => box'[c] = box[c]
      /\ \A c \in Actor : \A t, k, q :
             /\ F(box', c, t, k, q) = F(box, c, t, k, q) - (IF c = s /\ t = type /\ k = m /\ q = s THEN 1 ELSE 0)
             /\ F(box, c, t, k, q) \in Nat
    BY <1>1, <1>2, Taken DEF ScriptAnswered, Is
<1>7. \A c \in Actor : \A t, k, q : q # s => F(box', c, t, k, q) = F(box, c, t, k, q)
    BY <1>6
<1>8. TypeOK'
    <2>1. known' \subseteq opened' /\ opened' \subseteq Instance
        BY <1>1, <1>3, <1>4 DEF TypeOK
    <2> QED
        BY <1>1, <1>5, <1>6, <2>1, ScriptTypeKeeps
<1>9. QueueInv' /\ IdleInv'
    BY <1>1, AsideQueues, SameFor DEF coreVars, IInv
<1>10. RegistryInv'
    <2> SUFFICES ASSUME NEW n \in Map PROVE Chain(n)' /\ State(n)'
        BY DEF RegistryInv
    <2>1. Chain(n) /\ State(n)
        BY ChainNat
    <2>2. \A c \in {Core, Peer, n} : \A t : \A q \in {Core, Peer} : F(box', c, t, n, q) = F(box, c, t, n, q)
        BY <1>7, Actors
    <2>3. box'[n] = box[n]
        BY <1>6, Actors
    <2> QED
        BY <1>1, <1>4, <2>1, <2>2, <2>3, SameRegistry DEF coreVars
<1>11. KnownInv'
    <2> SUFFICES ASSUME NEW t \in Script
                 PROVE  /\ script'[t].op = "idle" => script'[t].map = None
                        /\ script'[t].op = "close" => script'[t].map \in known'
                        /\ script'[t].op = "load" => /\ script'[t].map \in opened' \ known'
                                                     /\ \A u \in Script \ {t} : script'[u].op = "load" => script'[u].map # script'[t].map
        BY DEF KnownInv
    <2>1. CASE t = s
        BY <1>5, <2>1
    <2>2. CASE t # s
        <3>1. script'[t] = script[t]
            BY <1>5, <2>2
        <3>2. /\ script[t].op = "idle" => script[t].map = None
              /\ script[t].op = "close" => script[t].map \in known
              /\ script[t].op = "load" => /\ script[t].map \in opened \ known
                                          /\ \A u \in Script \ {t} : script[u].op = "load" => script[u].map # script[t].map
            BY <1>1 DEF KnownInv
        <3>3. script[t].op = "load" => script[t].map # m
            BY <1>3, <2>2, <3>2
        <3>4. \A u \in Script \ {t} : script'[u].op = "load" => script'[u] = script[u]
            BY <1>5
        <3> QED
            BY <1>1, <1>4, <3>1, <3>2, <3>3, <3>4
    <2> QED
        BY <2>1, <2>2
<1>12. LoadInv'
    <2> SUFFICES ASSUME NEW q \in Client, NEW n \in Map PROVE Load(q, n)'
        BY DEF LoadInv
    <2>1. CASE q = s /\ n = m /\ type = "LOADED"
        <3>1. Wants(s, m) /\ ~Wants(s, m)'
            BY <1>1, <1>3, <1>5, <2>1, Actors DEF Wants
        <3>2. /\ F(box', Core, "LOADMAP", m, s) = F(box, Core, "LOADMAP", m, s)
              /\ F(box', Core, "ACTIVATED", m, s) = F(box, Core, "ACTIVATED", m, s)
              /\ F(box', m, "WAITACTIVATED", m, s) = F(box, m, "WAITACTIVATED", m, s)
              /\ F(box', s, "LOADED", m, s) = F(box, s, "LOADED", m, s) - 1
            BY <1>6, <2>1, Actors
        <3>3. N(loadOp[m], By(s))' = N(loadOp[m], By(s)) /\ Waits(m, s)' = Waits(m, s)
            BY <1>1 DEF Waits, By, coreVars
        <3>4. Requests(s, m)' = Requests(s, m) - 1
            BY <1>1, <3>2, <3>3, LoadNat DEF Requests
        <3> QED
            BY <1>1, <2>1, <3>1, <3>4, LoadNat DEF Load
    <2>2. CASE q # s \/ n # m \/ type # "LOADED"
        <3>1. Wants(q, n)' <=> Wants(q, n)
            <4>1. CASE q = s
                BY <1>1, <1>3, <1>5, <2>2, <4>1, Actors DEF Wants
            <4>2. CASE q # s
                BY <1>1, <1>5, <4>2 DEF Wants
            <4> QED
                BY <4>1, <4>2
        <3>2. /\ F(box', Core, "LOADMAP", n, q) = F(box, Core, "LOADMAP", n, q)
              /\ F(box', Core, "ACTIVATED", n, q) = F(box, Core, "ACTIVATED", n, q)
              /\ F(box', n, "WAITACTIVATED", n, q) = F(box, n, "WAITACTIVATED", n, q)
              /\ F(box', q, "LOADED", n, q) = F(box, q, "LOADED", n, q)
            BY <1>2, <1>6, <2>2, LoadNat
        <3> QED
            BY <1>1, <3>1, <3>2, LoadNat, SameLoad DEF coreVars
    <2> QED
        BY <1>2, <2>1, <2>2
<1>13. CloseInv'
    <2> SUFFICES ASSUME NEW q \in Script, NEW n \in Map PROVE Close(q, n)'
        BY DEF CloseInv
    <2>1. /\ F(box', Core, "CLOSEMAP", n, q) = F(box, Core, "CLOSEMAP", n, q)
          /\ F(box', q, "CLOSED", n, q) = F(box, q, "CLOSED", n, q) - (IF q = s /\ n = m /\ type = "CLOSED" THEN 1 ELSE 0)
        BY <1>2, <1>6, Actors
    <2>2. N(closeOp[n], {q})' = N(closeOp[n], {q})
        BY <1>1 DEF coreVars
    <2>3. N(closeOp[n], {q}) \in Nat /\ F(box, Core, "CLOSEMAP", n, q) \in Nat /\ F(box, q, "CLOSED", n, q) \in Nat
        BY CloseNat
    <2>4. Closes(q, n)' = Closes(q, n) - (IF q = s /\ n = m /\ type = "CLOSED" THEN 1 ELSE 0)
        BY <2>1, <2>2, <2>3 DEF Closes
    <2>5. Close(q, n)
        BY CloseNat
    <2>6. q # s => script'[q] = script[q]
        BY <1>5
    <2>7. CASE q = s
        BY <1>2, <1>3, <1>5, <2>4, <2>5, <2>7 DEF Close
    <2>8. CASE q # s
        BY <2>4, <2>5, <2>6, <2>8 DEF Close
    <2> QED
        BY <2>7, <2>8
<1>14. SentInv'
    BY <1>1, <1>7, SameSent, Actors DEF IInv
<1> QED
    BY <1>6, <1>8, <1>9, <1>10, <1>11, <1>12, <1>13, <1>14 DEF IInv, MailInv

-----------------------------------------------------------------------------
(* The service core, continued.                                             *)

LEMMA CoreActivatedKeeps ==
    ASSUME IInv, CoreActivated
    PROVE  IInv'
<1>1. /\ Got(Core) /\ Top(Core).type = "ACTIVATED" /\ Core \in Actor /\ TypeOK /\ MailInv
      /\ UNCHANGED <<remote, coreVars, peerList, map, script, opened, known, player, seen, fault>>
    BY Actors DEF CoreActivated, IInv
<1>2. PICK m \in Map, r \in Actor : Top(Core).map = m /\ Top(Core).by = r /\ Top(Core) \in For(Core) /\ F(box, Core, "ACTIVATED", m, r) # 0
    BY <1>1, Handled
<1>3. r \in Map \cup Script /\ Top(Core).flag = TRUE /\ Top(Core) \in Message /\ r \in Client
    BY <1>1, <1>2, Actors DEF For, ForCore, Client
<1>4. Wants(r, m) /\ (r \in Map => m = Exit /\ Live(r))
    <2>1. Wants(r, m)
        BY <1>2, <1>3, Requested
    <2>2. r \in Map => m = Exit /\ map[r].closing # None
        BY <2>1, Actors DEF Wants
    <2> QED
        BY <2>1, <2>2, ChainNat DEF State, Bare
<1> DEFINE y == [Top(Core) EXCEPT !.type = "LOADED"]
<1>5. y \in For(r) /\ \A t, k, q : Is(y, t, k, q) <=> t = "LOADED" /\ k = m /\ q = r
    BY <1>2, <1>3, <1>4, Actors DEF For, ForMap, ForScript, Message, MsgType, Is
<1>6. \A t, k, q : Is(Top(Core), t, k, q) <=> t = "ACTIVATED" /\ k = m /\ q = r
    BY <1>1, <1>2, <1>3 DEF Is
<1>7. box' = Put(Take(Core), r, y)
    BY <1>2 DEF CoreActivated
<1> HIDE DEF y
<1>8. /\ Fit(box') /\ \A c \in Actor : c \notin {Core, r} => box'[c] = box[c]
      /\ \A c \in Actor : \A t, k, q :
             /\ F(box', c, t, k, q) = F(box, c, t, k, q) - (IF c = Core /\ t = "ACTIVATED" /\ k = m /\ q = r THEN 1 ELSE 0)
                                                        + (IF c = r /\ t = "LOADED" /\ k = m /\ q = r THEN 1 ELSE 0)
             /\ F(box, c, t, k, q) \in Nat
    BY <1>1, <1>2, <1>5, <1>6, <1>7, Exchange
<1>9. RegistryInv' /\ QueueInv'
    <2>1. \A n \in Map : Live(n) \/ box'[n] = box[n]
        BY <1>4, <1>8, Actors
    <2>2. \A c \in Actor : \A t, k : \A q \in {Core, Peer} : F(box', c, t, k, q) = F(box, c, t, k, q)
        BY <1>3, <1>8, Actors
    <2> QED
        BY <1>1, <2>1, <2>2, AsideRegistry, AsideQueues DEF coreVars
<1>10. LoadInv'
    <2> SUFFICES ASSUME NEW q \in Client, NEW n \in Map PROVE Load(q, n)'
        BY DEF LoadInv
    <2>1. Wants(q, n)' <=> Wants(q, n)
        BY <1>1 DEF Wants
    <2>2. CASE q = r /\ n = m
        <3>1. /\ F(box', Core, "LOADMAP", m, r) = F(box, Core, "LOADMAP", m, r)
              /\ F(box', Core, "ACTIVATED", m, r) = F(box, Core, "ACTIVATED", m, r) - 1
              /\ F(box', m, "WAITACTIVATED", m, r) = F(box, m, "WAITACTIVATED", m, r)
              /\ F(box', r, "LOADED", m, r) = F(box, r, "LOADED", m, r) + 1
            BY <1>3, <1>8, Actors
        <3>2. N(loadOp[m], By(r))' = N(loadOp[m], By(r)) /\ Waits(m, r)' = Waits(m, r)
            BY <1>1 DEF Waits, By, coreVars
        <3>3. Requests(r, m)' = Requests(r, m)
            BY <1>3, <3>1, <3>2, LoadNat DEF Requests
        <3> QED
            BY <1>3, <2>1, <2>2, <3>3, LoadNat DEF Load
    <2>3. CASE q # r \/ n # m
        <3>1. /\ F(box', Core, "LOADMAP", n, q) = F(box, Core, "LOADMAP", n, q)
              /\ F(box', Core, "ACTIVATED", n, q) = F(box, Core, "ACTIVATED", n, q)
              /\ F(box', n, "WAITACTIVATED", n, q) = F(box, n, "WAITACTIVATED", n, q)
              /\ F(box', q, "LOADED", n, q) = F(box, q, "LOADED", n, q)
            BY <1>8, <2>3, LoadNat
        <3> QED
            BY <1>1, <2>1, <3>1, LoadNat, SameLoad DEF coreVars
    <2> QED
        BY <2>2, <2>3
<1>11. KnownInv' /\ CloseInv' /\ SentInv' /\ IdleInv'
    <2>1. \A c \in Actor : \A t \in {"CLOSEMAP", "CLOSED", "TRIGGER", "SWITCHED"} : \A k : \A q \in Client :
              F(box', c, t, k, q) = F(box, c, t, k, q)
        BY <1>8
    <2> QED
        BY <1>1, <2>1, Aside DEF coreVars
<1>12. TypeOK'
    BY <1>1, <1>8, Typed, TypeKeeps
<1> QED
    BY <1>8, <1>9, <1>10, <1>11, <1>12 DEF IInv, MailInv

\* A map that is not being closed.
LEMMA NoClose ==
    ASSUME IInv, NEW m \in Map, closeOp[m] = <<>>
    PROVE  /\ Gone(m) = 0 /\ map[m].closing = None
           /\ F(box, Peer, "CLOSED", m, Peer) = 0 /\ F(box, Peer, "CLOSEMAP", m, Core) = 0
           /\ F(box, m, "CLOSEMAP", m, Core) = 0 /\ F(box, m, "CLOSEMAP", m, Peer) = 0
<1>1. /\ F(box, Peer, "CLOSED", m, Peer) = 0 /\ F(box, Core, "CLOSED", m, Core) = 0 /\ F(box, Core, "CLOSED", m, Peer) = 0
      /\ F(box, Peer, "CLOSEMAP", m, Core) = 0 /\ F(box, m, "CLOSEMAP", m, Core) = 0
      /\ F(box, m, "CLOSEMAP", m, Peer) = 0 /\ map[m].closing = None
    BY ClosingAt
<1> QED
    BY <1>1 DEF Gone

LEMMA CoreCloseMapKeeps ==
    ASSUME IInv, CoreCloseMap
    PROVE  IInv'
<1>1. /\ Got(Core) /\ Top(Core).type = "CLOSEMAP" /\ Core \in Actor /\ TypeOK /\ MailInv
      /\ UNCHANGED <<remote, coreList, loadOp, peerList, map, script, opened, known, player, seen, fault>>
    BY Actors DEF CoreCloseMap, IInv
<1>2. PICK m \in Map, r \in Script : Top(Core).map = m /\ Top(Core).by = r /\ F(box, Core, "CLOSEMAP", m, r) # 0
    <2>1. /\ Top(Core) \in For(Core) /\ Top(Core).map \in Map
          /\ F(box, Core, "CLOSEMAP", Top(Core).map, Top(Core).by) # 0
        BY <1>1, Handled
    <2>2. Top(Core).by \in Script
        BY <1>1, <2>1, Actors DEF For, ForCore
    <2> QED
        BY <2>1, <2>2
<1>3. script[r].op = "close" /\ script[r].map = m /\ m \in known /\ r \in Client /\ r \in Actor
    BY <1>2, Closer, Actors DEF Client
<1>4. \A t, k, q : Is(Top(Core), t, k, q) <=> t = "CLOSEMAP" /\ k = m /\ q = r
    BY <1>1, <1>2 DEF Is
<1>5. CASE m \notin coreList /\ box' = Closed(Take(Core), m, r, TRUE) /\ UNCHANGED closeOp
    <2> DEFINE y == Msg("CLOSED", m, r, TRUE)
    <2>1. y \in For(r) /\ \A t, k, q : Is(y, t, k, q) <=> t = "CLOSED" /\ k = m /\ q = r
        BY <1>3, Actors DEF Msg, For, ForScript, Message, MsgType, Is
    <2>2. box' = Put(Take(Core), r, y)
        BY <1>5 DEF Closed
    <2> HIDE DEF y
    <2>3. /\ Fit(box') /\ \A c \in Actor : c \notin {Core, r} => box'[c] = box[c]
          /\ \A c \in Actor : \A t, k, q :
                 /\ F(box', c, t, k, q) = F(box, c, t, k, q) - (IF c = Core /\ t = "CLOSEMAP" /\ k = m /\ q = r THEN 1 ELSE 0)
                                                            + (IF c = r /\ t = "CLOSED" /\ k = m /\ q = r THEN 1 ELSE 0)
                 /\ F(box, c, t, k, q) \in Nat
        BY <1>1, <1>3, <1>4, <2>1, <2>2, Exchange
    <2>4. RegistryInv' /\ QueueInv'
        <3>1. \A n \in Map : box'[n] = box[n]
            BY <2>3, Actors
        <3>2. \A c \in Actor : \A t, k : \A q \in {Core, Peer} : F(box', c, t, k, q) = F(box, c, t, k, q)
            BY <2>3, Actors
        <3> QED
            BY <1>1, <1>5, <3>1, <3>2, AsideRegistry, AsideQueues
    <2>5. LoadInv'
        <3>1. \A c \in Actor : \A t \in {"LOADMAP", "ACTIVATED", "WAITACTIVATED", "LOADED"} : \A k, q :
                  F(box', c, t, k, q) = F(box, c, t, k, q)
            BY <2>3
        <3> QED
            BY <1>1, <3>1, AsideLoad
    <2>6. CloseInv'
        <3> SUFFICES ASSUME NEW q \in Script, NEW n \in Map PROVE Close(q, n)'
            BY DEF CloseInv
        <3>1. /\ F(box', Core, "CLOSEMAP", n, q) = F(box, Core, "CLOSEMAP", n, q) - (IF n = m /\ q = r THEN 1 ELSE 0)
              /\ F(box', q, "CLOSED", n, q) = F(box, q, "CLOSED", n, q) + (IF n = m /\ q = r THEN 1 ELSE 0)
            BY <2>3, Actors
        <3>2. N(closeOp[n], {q})' = N(closeOp[n], {q})
            BY <1>5
        <3>3. N(closeOp[n], {q}) \in Nat /\ F(box, Core, "CLOSEMAP", n, q) \in Nat /\ F(box, q, "CLOSED", n, q) \in Nat
            BY CloseNat
        <3>4. Closes(q, n)' = Closes(q, n)
            BY <3>1, <3>2, <3>3 DEF Closes
        <3>5. Close(q, n)
            BY CloseNat
        <3> QED
            BY <1>1, <3>4, <3>5 DEF Close
    <2>7. KnownInv' /\ SentInv' /\ IdleInv'
        <3>1. \A c \in Actor : \A t \in {"TRIGGER", "SWITCHED"} : \A k, q : F(box', c, t, k, q) = F(box, c, t, k, q)
            BY <2>3
        <3> QED
            BY <1>1, <3>1, SameScripts, SameSent, SameFor, Actors DEF IInv
    <2>8. TypeOK'
        BY <1>1, <1>5, <2>3, Typed, TypeKeeps DEF coreVars
    <2> QED
        BY <2>3, <2>4, <2>5, <2>6, <2>7, <2>8 DEF IInv, MailInv
<1>6. CASE /\ m \in coreList /\ closeOp' = [closeOp EXCEPT ![m] = Append(@, r)]
           /\ box' = IF closeOp[m] # <<>> THEN Take(Core)
                     ELSE IF m \in remote THEN Put(Take(Core), Peer, Msg("CLOSEMAP", m, Core, TRUE))
                     ELSE Call(Take(Core), map, m, Msg("CLOSEMAP", m, Core, TRUE))
    <2>1. Chain(m) /\ State(m) /\ loadOp[m] = <<>> /\ (closeOp[m] = <<>> => Live(m) /\ Gone(m) = 0)
        BY <1>6, ChainNat, NoClose DEF Chain, State
    <2> DEFINE y == Msg("CLOSEMAP", m, Core, TRUE)
    <2>2. PICK to \in {m, Peer} : to = IF m \in remote THEN Peer ELSE m
        OBVIOUS
    <2>3. y \in For(to) /\ to \in Actor /\ \A t, k, q : Is(y, t, k, q) <=> t = "CLOSEMAP" /\ k = m /\ q = Core
        BY <2>2, Actors DEF Msg, For, ForPeer, ForMap, Message, MsgType, Is
    <2>4. closeOp[m] = <<>> => box' = Put(Take(Core), to, y)
        <3> SUFFICES ASSUME closeOp[m] = <<>> PROVE box' = Put(Take(Core), to, y)
            OBVIOUS
        <3>1. CASE m \in remote
            BY <1>6, <2>2, <3>1
        <3>2. CASE m \notin remote
            <4>1. box' = Deliver(Take(Core), Post(to, y))
                BY <1>6, <2>1, <2>2, <3>2 DEF Call, Reach, Live
            <4> HIDE DEF y
            <4> QED
                BY <1>1, <2>3, <4>1, Exchange
        <3> QED
            BY <3>1, <3>2
    <2> HIDE DEF y
    <2>5. /\ Fit(box') /\ \A c \in Actor : c \notin {Core, m, Peer} => box'[c] = box[c]
          /\ closeOp[m] # <<>> => box'[m] = box[m]
          /\ \A c \in Actor : \A t, k, q :
                 /\ F(box', c, t, k, q) = F(box, c, t, k, q) - (IF c = Core /\ t = "CLOSEMAP" /\ k = m /\ q = r THEN 1 ELSE 0)
                        + (IF closeOp[m] = <<>> /\ c = to /\ t = "CLOSEMAP" /\ k = m /\ q = Core THEN 1 ELSE 0)
                 /\ F(box, c, t, k, q) \in Nat
        <3>1. CASE closeOp[m] = <<>>
            BY <1>1, <1>4, <2>2, <2>3, <2>4, <3>1, Exchange
        <3>2. CASE closeOp[m] # <<>>
            <4>1. box' = Take(Core)
                BY <1>6, <3>2
            <4> QED
                BY <1>1, <1>4, <3>2, <4>1, Taken, Actors
        <3> QED
            BY <3>1, <3>2
    <2>6. /\ closeOp' \in [Map -> Seq(Script)] /\ closeOp'[m] = Append(closeOp[m], r) /\ closeOp'[m] # <<>>
          /\ closeOp[m] \in Seq(Script) /\ \A n \in Map \ {m} : closeOp'[n] = closeOp[n]
        <3>1. closeOp \in [Map -> Seq(Script)]
            BY <1>1 DEF TypeOK
        <3>2. Append(closeOp[m], r) \in Seq(Script) /\ Append(closeOp[m], r) # <<>>
            BY <3>1
        <3> QED
            BY <1>6, <3>1, <3>2
    <2>7. TypeOK'
        BY <1>1, <2>5, <2>6 DEF TypeOK, Fit, Mailboxes, Message
    <2>8. RegistryInv'
        <3>1. ASSUME NEW n \in Map, n = m PROVE Chain(n)' /\ State(n)'
            <4>1. Chain(n) /\ State(n) /\ \A c \in Actor : \A t, k, q : F(box, c, t, k, q) \in Nat
                BY ChainNat
            <4>2. Loading(n)' = Loading(n) /\ Gone(n)' = Gone(n)
                BY <1>1, <2>5, Actors DEF Loading, Gone, Waits
            <4>3. /\ F(box', Peer, "CLOSEMAP", n, Core) = F(box, Peer, "CLOSEMAP", n, Core) + (IF closeOp[m] = <<>> /\ m \in remote THEN 1 ELSE 0)
                  /\ F(box', n, "CLOSEMAP", n, Core) = F(box, n, "CLOSEMAP", n, Core) + (IF closeOp[m] = <<>> /\ m \notin remote THEN 1 ELSE 0)
                  /\ F(box', n, "CLOSEMAP", n, Peer) = F(box, n, "CLOSEMAP", n, Peer)
                  /\ F(box', Peer, "CLOSED", n, Peer) = F(box, Peer, "CLOSED", n, Peer)
                  /\ F(box', Peer, "LOADMAP", n, Core) = F(box, Peer, "LOADMAP", n, Core)
                BY <2>2, <2>5, <3>1, <4>1, Actors
            <4>4. Closing(n)' = Closing(n) + (IF closeOp[m] = <<>> THEN 1 ELSE 0)
                <5>1. /\ F(box, Peer, "CLOSEMAP", n, Core) \in Nat /\ F(box, n, "CLOSEMAP", n, Core) \in Nat
                      /\ F(box, n, "CLOSEMAP", n, Peer) \in Nat /\ Gone(n) \in Nat
                    BY ChainNat, Actors
                <5>2. CASE m \in remote
                    BY <1>1, <4>2, <4>3, <5>1, <5>2, SMTT(60) DEF Closing
                <5>3. CASE m \notin remote
                    BY <1>1, <4>2, <4>3, <5>1, <5>3, SMTT(60) DEF Closing
                <5> QED
                    BY <5>2, <5>3
            <4>5. Chain(n)'
                BY <1>1, <1>3, <1>6, <2>1, <2>6, <3>1, <4>1, <4>2, <4>4 DEF Chain
            <4>6. State(n)'
                <5>1. Live(n) \/ box'[n] = box[n]
                    BY <2>1, <2>5, <3>1
                <5>2. /\ F(box', n, "CLOSEMAP", n, IF n \in remote THEN Core ELSE Peer) = 0
                      /\ n \notin remote => F(box', Peer, "CLOSEMAP", n, Core) = 0 /\ F(box', Peer, "CLOSED", n, Peer) = 0
                    <6>1. CASE m \in remote
                        BY <3>1, <4>1, <4>3, <6>1, Actors DEF State
                    <6>2. CASE m \notin remote
                        BY <3>1, <4>1, <4>3, <6>2, Actors DEF State
                    <6> QED
                        BY <6>1, <6>2
                <5> QED
                    BY <1>1, <4>1, <4>2, <4>3, <5>1, <5>2 DEF State, Live, Keeper, Bare
            <4> QED
                BY <4>5, <4>6
        <3>2. \A n \in Map \ {m} : box'[n] = box[n] /\ \A c \in Actor : \A t : \A q \in {Core, Peer} : F(box', c, t, n, q) = F(box, c, t, n, q)
            BY <2>5, Actors
        <3> QED
            BY <1>1, <2>6, <3>1, <3>2, OthersKeep
    <2>9. QueueInv' /\ LoadInv'
        <3>1. \A c \in Actor : \A t \in {"LOADMAP", "ACTIVATED", "WAITACTIVATED", "LOADED"} : \A k, q :
                  F(box', c, t, k, q) = F(box, c, t, k, q)
            BY <2>5
        <3> QED
            BY <1>1, <3>1, AsideLoad, AsideQueues
    <2>10. CloseInv'
        <3> SUFFICES ASSUME NEW q \in Script, NEW n \in Map PROVE Close(q, n)'
            BY DEF CloseInv
        <3>1. /\ F(box', Core, "CLOSEMAP", n, q) = F(box, Core, "CLOSEMAP", n, q) - (IF n = m /\ q = r THEN 1 ELSE 0)
              /\ F(box', q, "CLOSED", n, q) = F(box, q, "CLOSED", n, q)
            BY <2>2, <2>5, Actors
        <3>2. N(closeOp[n], {q})' = N(closeOp[n], {q}) + (IF n = m /\ q = r THEN 1 ELSE 0)
            <4>1. CASE n = m
                <5>1. N(Append(closeOp[m], r), {q}) = N(closeOp[m], {q}) + (IF r \in {q} THEN 1 ELSE 0)
                    BY <2>6, CountAppend
                <5> QED
                    BY <2>6, <4>1, <5>1
            <4>2. CASE n # m
                <5>1. N(closeOp[n], {q}) \in Nat
                    BY CloseNat
                <5> QED
                    BY <2>6, <4>2, <5>1
            <4> QED
                BY <4>1, <4>2
        <3>3. N(closeOp[n], {q}) \in Nat /\ F(box, Core, "CLOSEMAP", n, q) \in Nat /\ F(box, q, "CLOSED", n, q) \in Nat
            BY CloseNat
        <3>4. Closes(q, n)' = Closes(q, n)
            BY <3>1, <3>2, <3>3 DEF Closes
        <3>5. Close(q, n)
            BY CloseNat
        <3> QED
            BY <1>1, <3>4, <3>5 DEF Close
    <2>11. KnownInv' /\ SentInv' /\ IdleInv'
        <3>1. \A c \in Actor : \A t \in {"TRIGGER", "SWITCHED"} : \A k, q : F(box', c, t, k, q) = F(box, c, t, k, q)
            BY <2>5
        <3> QED
            BY <1>1, <3>1, SameScripts, SameSent, SameFor, Actors DEF IInv
    <2> QED
        BY <2>5, <2>7, <2>8, <2>9, <2>10, <2>11 DEF IInv, MailInv
<1> QED
    BY <1>2, <1>5, <1>6 DEF CoreCloseMap

-----------------------------------------------------------------------------
(* A core answers those who waited.                                         *)

LEMMA CountSplit ==
    ASSUME NEW T, NEW q \in Seq(T), NEW A, NEW B, A \cap B = {}
    PROVE  N(q, A \cup B) = N(q, A) + N(q, B)
<1> DEFINE a == {i \in DOMAIN q : q[i] \in A}  b == {i \in DOMAIN q : q[i] \in B}
<1>1. {i \in DOMAIN q : q[i] \in A \cup B} = a \cup b /\ a \cap b = {}
    OBVIOUS
<1>2. IsFiniteSet(a) /\ IsFiniteSet(b) /\ Cardinality(a) \in Nat /\ Cardinality(b) \in Nat
    BY CountFinite DEF N
<1>3. N(q, A \cup B) = Cardinality(a \cup b) /\ N(q, A) = Cardinality(a) /\ N(q, B) = Cardinality(b)
    BY <1>1 DEF N
<1> HIDE DEF a, b
<1>4. Cardinality(a \cup b) = Cardinality(a) + Cardinality(b) - Cardinality(a \cap b) /\ Cardinality({}) = 0
    BY <1>2, FS_Union, FS_EmptySet
<1>5. Cardinality(a \cap b) = Cardinality({})
    BY <1>1, Zenon
<1> QED
    BY <1>2, <1>3, <1>4, <1>5

LEMMA SentAll ==
    ASSUME NEW b, Fit(b), NEW posts \in Seq(FitPosts)
    PROVE  /\ Fit(DeliverAll(b, posts))
           /\ \A c \in Actor : \A t, k, q :
                  /\ F(DeliverAll(b, posts), c, t, k, q) = F(b, c, t, k, q) + Cardinality(Sends(posts, c, From(t, k, q)))
                  /\ F(b, c, t, k, q) \in Nat /\ Cardinality(Sends(posts, c, From(t, k, q))) \in Nat
           /\ \A c \in Actor : (\A i \in DOMAIN posts : posts[i].to # c) => DeliverAll(b, posts)[c] = b[c]
<1>1. Fit(DeliverAll(b, posts)) /\ posts \in Seq(Posts) /\ b \in Mailboxes
    BY FitDeliverAll DEF Fit
<1>2. \A c \in Actor : \A S : N(DeliverAll(b, posts)[c], S) = N(b[c], S) + Cardinality(Sends(posts, c, S))
    BY <1>1, DeliverAllCount
<1>3. \A c, S : Cardinality(Sends(posts, c, S)) \in Nat
    BY <1>1, MailFacts, FS_CardinalityType
<1>4. ASSUME NEW c \in Actor, \A i \in DOMAIN posts : posts[i].to # c
      PROVE  DeliverAll(b, posts)[c] = b[c]
    <2>1. DeliverAll(b, posts)[c] = b[c] \o MailTo(c, posts)
        BY DEF DeliverAll
    <2>2. MailTo(c, posts) \in Seq(Message) /\ DOMAIN MailTo(c, posts) = {}
        BY <1>1, <1>4, MailFacts
    <2>3. MailTo(c, posts) = <<>>
        BY <2>2
    <2>4. b[c] \in Seq(Message)
        BY <1>1 DEF Mailboxes
    <2> QED
        BY <2>1, <2>3, <2>4
<1> QED
    BY <1>1, <1>2, <1>3, <1>4, FNat DEF F

\* The first of a queue, and the others.
LEMMA CountHead ==
    ASSUME NEW T, NEW q \in Seq(T), q # <<>>, NEW S
    PROVE  /\ Head(q) \in T /\ Tail(q) \in Seq(T) /\ N(q, S) \in Nat /\ N(Tail(q), S) \in Nat
           /\ N(q, S) = N(Tail(q), S) + (IF Head(q) \in S THEN 1 ELSE 0)
<1>1. /\ N(Tail(q), S) = N(q, S) - (IF Head(q) \in S THEN 1 ELSE 0)
      /\ Head(q) \in T /\ Tail(q) \in Seq(T)
    BY CountTail
<1>2. N(q, S) \in Nat /\ N(Tail(q), S) \in Nat
    BY <1>1, CountFinite
<1> QED
    BY <1>1, <1>2

LEMMA CoreClosedKeeps ==
    ASSUME IInv, CoreClosed
    PROVE  IInv'
<1>1. /\ Got(Core) /\ Top(Core).type = "CLOSED" /\ Core \in Actor /\ Peer \in Actor /\ TypeOK /\ MailInv
      /\ UNCHANGED <<remote, loadOp, peerList, map, script, opened, known, player, seen, fault>>
    BY Actors DEF CoreClosed, IInv
<1>2. PICK m \in Map, by \in {Core, Peer} :
          /\ Top(Core).map = m /\ Top(Core).by = by /\ Top(Core).flag = TRUE /\ F(box, Core, "CLOSED", m, by) # 0
    <2>1. /\ Top(Core) \in For(Core) /\ Top(Core).map \in Map
          /\ F(box, Core, "CLOSED", Top(Core).map, Top(Core).by) # 0
        BY <1>1, Handled
    <2>2. Top(Core).by \in {Core, Peer} /\ Top(Core).flag = TRUE
        BY <1>1, <2>1, Actors DEF For, ForCore
    <2> QED
        BY <2>1, <2>2
<1>3. closeOp[m] # <<>> /\ m \in coreList /\ loadOp[m] = <<>> /\ m \in known /\ Closing(m) = 1 /\ Loading(m) = 0
    BY <1>2, ClosingAt
<1>4. Gone(m) = 1 /\ ~Live(m)
    <2> DEFINE a == F(box, Peer, "CLOSEMAP", m, Core)  b == F(box, m, "CLOSEMAP", m, Core)
               c == F(box, m, "CLOSEMAP", m, Peer)  d == IF map[m].closing # None THEN 1 ELSE 0
               u == F(box, Peer, "CLOSED", m, Peer)  v == F(box, Core, "CLOSED", m, Core)  w == F(box, Core, "CLOSED", m, Peer)
    <2>1. /\ a \in Nat /\ b \in Nat /\ c \in Nat /\ d \in Nat /\ u \in Nat /\ v \in Nat /\ w \in Nat
          /\ a + b + c + d + (u + v + w) = 1 /\ (v # 0 \/ w # 0) /\ Gone(m) = u + v + w
        BY <1>2, <1>3, ChainNat, Actors DEF Closing, Gone
    <2> HIDE DEF a, b, c, d, u, v, w
    <2>2. Gone(m) = 1 /\ Gone(m) # 0
        BY <2>1
    <2>3. ~Live(m)
        <3>1. State(m)
            BY ChainNat
        <3> QED
            BY <1>3, <2>2, <3>1 DEF State
    <2> QED
        BY <2>2, <2>3
<1>5. coreList' = coreList \ {m} /\ closeOp' = [closeOp EXCEPT ![m] = <<>>]
    BY <1>2 DEF CoreClosed
<1>6. closeOp \in [Map -> Seq(Script)] /\ closeOp[m] \in Seq(Script)
    BY <1>1 DEF TypeOK
<1>7. PICK first \in Script, rest \in Seq(Script) :
          /\ first = Head(closeOp[m]) /\ rest = Tail(closeOp[m])
          /\ \A S : N(closeOp[m], S) = N(rest, S) + (IF first \in S THEN 1 ELSE 0) /\ N(rest, S) \in Nat
    <2>1. Head(closeOp[m]) \in Script /\ Tail(closeOp[m]) \in Seq(Script)
        BY <1>3, <1>6
    <2>2. ASSUME NEW S
          PROVE  /\ N(closeOp[m], S) = N(Tail(closeOp[m]), S) + (IF Head(closeOp[m]) \in S THEN 1 ELSE 0)
                 /\ N(Tail(closeOp[m]), S) \in Nat
        BY <1>3, <1>6, CountHead
    <2> QED
        BY <2>1, <2>2
<1> DEFINE replies == [i \in DOMAIN rest |-> Post(rest[i], Msg("CLOSED", m, rest[i], TRUE))]
           y == Msg("CLOSED", m, first, TRUE)
<1>8. box' = Put(DeliverAll(Take(Core), replies), first, y)
    BY <1>2, <1>5, <1>7 DEF CoreClosed, Closed
<1>9. replies \in Seq(FitPosts)
    <2>1. ASSUME NEW i \in DOMAIN rest PROVE Post(rest[i], Msg("CLOSED", m, rest[i], TRUE)) \in FitPosts
        <3>1. rest[i] \in Script
            OBVIOUS
        <3>2. Msg("CLOSED", m, rest[i], TRUE) \in For(rest[i]) /\ Msg("CLOSED", m, rest[i], TRUE) \in Message
            BY <3>1, Actors DEF Msg, For, ForScript, Message, MsgType
        <3> QED
            BY <3>1, <3>2, Actors DEF FitPosts, Posts, Post
    <2>2. DOMAIN rest = 1 .. Len(rest) /\ Len(rest) \in Nat
        OBVIOUS
    <2>3. replies \in [1 .. Len(rest) -> FitPosts]
        BY <2>1, <2>2
    <2> HIDE DEF replies
    <2> QED
        BY <2>2, <2>3
<1>10. ASSUME NEW c \in Actor, NEW i \in DOMAIN rest
       PROVE  /\ replies[i].to = rest[i]
              /\ \A t, k, q : replies[i].msg \in From(t, k, q) <=> t = "CLOSED" /\ k = m /\ q = rest[i]
    <2>1. rest[i] \in Actor
        BY Actors
    <2>2. \A t, k, q : Msg("CLOSED", m, rest[i], TRUE) \in From(t, k, q) <=> t = "CLOSED" /\ k = m /\ q = rest[i]
        BY <2>1 DEF From, Msg, Message, MsgType
    <2>3. replies[i] = Post(rest[i], Msg("CLOSED", m, rest[i], TRUE))
        OBVIOUS
    <2> QED
        BY <2>2, <2>3 DEF Post
<1>24. DOMAIN replies = DOMAIN rest
    OBVIOUS
<1>11. \A i \in DOMAIN replies : replies[i].to \in Script
    BY DEF Post
<1>12. y \in For(first) /\ first \in Actor /\ \A t, k, q : Is(y, t, k, q) <=> t = "CLOSED" /\ k = m /\ q = first
    BY Actors DEF Msg, For, ForScript, Message, MsgType, Is
<1> HIDE DEF replies, y
<1>13. /\ Fit(Take(Core)) /\ \A c \in Actor : c # Core => Take(Core)[c] = box[c]
       /\ \A c \in Actor : \A t, k, q :
              /\ F(Take(Core), c, t, k, q) \in Nat /\ F(box, c, t, k, q) \in Nat
              /\ F(Take(Core), c, t, k, q) = F(box, c, t, k, q) - (IF c = Core /\ t = "CLOSED" /\ k = m /\ q = by THEN 1 ELSE 0)
    BY <1>1, <1>2, Taken DEF Is
<1>14. /\ Fit(box') /\ \A n \in Map : box'[n] = box[n]
       /\ \A c \in Actor : \A t, k, q : t # "CLOSED" \/ k # m => F(box', c, t, k, q) = F(box, c, t, k, q)
       /\ \A q : F(box', Core, "CLOSED", m, q) = F(box, Core, "CLOSED", m, q) - (IF q = by THEN 1 ELSE 0)
       /\ \A c \in Actor \ {Core} : F(box', c, "CLOSED", m, c) = F(box, c, "CLOSED", m, c) + N(closeOp[m], {c})
       /\ \A c \in Actor \ {Core} : \A q : q # c => F(box', c, "CLOSED", m, q) = F(box, c, "CLOSED", m, q)
    <2> DEFINE b == DeliverAll(Take(Core), replies)
    <2>1. /\ Fit(b)
          /\ \A c \in Actor : \A t, k, q :
                 /\ F(b, c, t, k, q) = F(Take(Core), c, t, k, q) + Cardinality(Sends(replies, c, From(t, k, q)))
          /\ \A c \in Actor : (\A i \in DOMAIN replies : replies[i].to # c) => b[c] = Take(Core)[c]
        BY <1>9, <1>13, SentAll
    <2> HIDE DEF b
    <2>2. /\ Fit(Put(b, first, y))
          /\ \A c \in Actor : c # first => Put(b, first, y)[c] = b[c]
          /\ \A c \in Actor : \A t, k, q :
                 F(Put(b, first, y), c, t, k, q) = F(b, c, t, k, q) + (IF c = first /\ t = "CLOSED" /\ k = m /\ q = first THEN 1 ELSE 0)
        BY <1>12, <2>1, Sending
    <2>3. box' = Put(b, first, y)
        BY <1>8 DEF b
    <2>4. \A n \in Map : box'[n] = box[n]
        BY <1>11, <1>13, <2>1, <2>2, <2>3, Actors
    <2>5. \A c \in Actor : \A t, k, q :
              F(box', c, t, k, q) = F(Take(Core), c, t, k, q) + Cardinality(Sends(replies, c, From(t, k, q)))
                                        + (IF c = first /\ t = "CLOSED" /\ k = m /\ q = first THEN 1 ELSE 0)
        BY <2>1, <2>2, <2>3
    <2>6. ASSUME NEW c \in Actor, NEW t, NEW k, NEW q, t # "CLOSED" \/ k # m \/ q # c
          PROVE  F(box', c, t, k, q) = F(Take(Core), c, t, k, q)
        <3>1. Cardinality(Sends(replies, c, From(t, k, q))) = 0
            <4>1. Sends(replies, c, From(t, k, q)) = {}
                BY <1>10, <1>24, <2>6 DEF Sends
            <4> QED
                BY <4>1, FS_EmptySet
        <3>2. F(Take(Core), c, t, k, q) \in Nat
            BY <1>13
        <3> QED
            BY <2>5, <2>6, <3>1, <3>2
    <2>7. ASSUME NEW c \in Actor
          PROVE  F(box', c, "CLOSED", m, c) = F(Take(Core), c, "CLOSED", m, c) + N(closeOp[m], {c})
        <3>1. Cardinality(Sends(replies, c, From("CLOSED", m, c))) = N(rest, {c})
            <4>1. Sends(replies, c, From("CLOSED", m, c)) = {i \in DOMAIN rest : rest[i] \in {c}}
                BY <1>10, <1>24 DEF Sends
            <4> QED
                BY <4>1 DEF N
        <3>2. N(closeOp[m], {c}) = N(rest, {c}) + (IF c = first THEN 1 ELSE 0) /\ N(rest, {c}) \in Nat
            BY <1>7
        <3>3. F(Take(Core), c, "CLOSED", m, c) \in Nat
            BY <1>13
        <3> QED
            BY <2>5, <3>1, <3>2, <3>3
    <2>8. N(closeOp[m], {Core}) = 0
        <3>1. N(closeOp[m], {Core}) = 0 <=> \A i \in DOMAIN closeOp[m] : closeOp[m][i] \notin {Core}
            BY <1>6, CountFinite
        <3>2. \A i \in DOMAIN closeOp[m] : closeOp[m][i] \in Script
            BY <1>6
        <3> QED
            BY <3>1, <3>2, Actors
    <2>9. ASSUME NEW q PROVE F(box', Core, "CLOSED", m, q) = F(box, Core, "CLOSED", m, q) - (IF q = by THEN 1 ELSE 0)
        <3>1. F(box', Core, "CLOSED", m, q) = F(Take(Core), Core, "CLOSED", m, q)
            <4>1. CASE q = Core
                BY <1>1, <1>13, <2>7, <2>8, <4>1
            <4>2. CASE q # Core
                BY <1>1, <2>6, <4>2
            <4> QED
                BY <4>1, <4>2
        <3> QED
            BY <1>1, <1>13, <3>1
    <2>10. \A c \in Actor : \A t, k, q : c # Core \/ t # "CLOSED" \/ k # m => F(Take(Core), c, t, k, q) = F(box, c, t, k, q)
        BY <1>13
    <2> QED
        BY <2>2, <2>3, <2>4, <2>6, <2>7, <2>9, <2>10
<1>15. \A q \in {Core, Peer} : N(closeOp[m], {q}) = 0
    <2> SUFFICES ASSUME NEW q \in {Core, Peer} PROVE N(closeOp[m], {q}) = 0
        OBVIOUS
    <2>1. N(closeOp[m], {q}) = 0 <=> \A i \in DOMAIN closeOp[m] : closeOp[m][i] \notin {q}
        BY <1>6, CountFinite
    <2>2. \A i \in DOMAIN closeOp[m] : closeOp[m][i] \in Script
        BY <1>6
    <2> QED
        BY <2>1, <2>2, Actors
<1>16. \A c \in Actor \ {Core} : \A t, k : \A q \in {Core, Peer} : F(box', c, t, k, q) = F(box, c, t, k, q)
    <2>1. \A q \in {Core, Peer} \ {Core} : F(box', q, "CLOSED", m, q) = F(box, q, "CLOSED", m, q)
        BY <1>1, <1>13, <1>14, <1>15
    <2> QED
        BY <1>14, <2>1
<1>17. closeOp' \in [Map -> Seq(Script)] /\ closeOp'[m] = <<>> /\ \A n \in Map \ {m} : closeOp'[n] = closeOp[n]
    BY <1>5, <1>6
<1>18. TypeOK'
    BY <1>1, <1>5, <1>14, <1>17 DEF TypeOK, Fit, Mailboxes, Message
<1>19. RegistryInv'
    <2>1. ASSUME NEW n \in Map, n = m PROVE Chain(n)' /\ State(n)'
        <3>1. Chain(n) /\ State(n) /\ \A c \in Actor : \A t, k, q : F(box, c, t, k, q) \in Nat
            BY ChainNat
        <3>2. Loading(n)' = Loading(n)
            BY <1>1, <1>14, <3>1, Actors DEF Loading, Waits
        <3>3. /\ F(box', Peer, "CLOSEMAP", n, Core) = F(box, Peer, "CLOSEMAP", n, Core)
              /\ F(box', n, "CLOSEMAP", n, Core) = F(box, n, "CLOSEMAP", n, Core)
              /\ F(box', n, "CLOSEMAP", n, Peer) = F(box, n, "CLOSEMAP", n, Peer)
              /\ F(box', Peer, "CLOSED", n, Peer) = F(box, Peer, "CLOSED", n, Peer)
              /\ F(box', Peer, "LOADMAP", n, Core) = F(box, Peer, "LOADMAP", n, Core)
            BY <1>14, <1>16, <3>1, Actors
        <3>4. Gone(n)' = Gone(n) - 1
            <4>1. CASE by = Core
                BY <1>1, <1>14, <2>1, <3>1, <3>3, <4>1, Actors DEF Gone
            <4>2. CASE by = Peer
                BY <1>1, <1>14, <2>1, <3>1, <3>3, <4>2, Actors DEF Gone
            <4> QED
                BY <4>1, <4>2
        <3>5. Closing(n)' = Closing(n) - 1
            <4>1. /\ F(box, Peer, "CLOSEMAP", n, Core) \in Nat /\ F(box, n, "CLOSEMAP", n, Core) \in Nat
                  /\ F(box, n, "CLOSEMAP", n, Peer) \in Nat /\ Gone(n) \in Nat
                BY ChainNat, Actors
            <4> QED
                BY <1>1, <3>3, <3>4, <4>1 DEF Closing
        <3>6. Chain(n)'
            BY <1>1, <1>3, <1>17, <2>1, <3>1, <3>2, <3>5 DEF Chain
        <3>7. State(n)'
            <4>1. box'[n] = box[n] /\ n \notin coreList' /\ ~Live(n)' /\ loadOp'[n] = <<>>
                BY <1>1, <1>3, <1>4, <1>5, <1>14, <2>1 DEF Live
            <4>2. F(box', n, "CLOSEMAP", n, IF n \in remote THEN Core ELSE Peer) = F(box, n, "CLOSEMAP", n, IF n \in remote THEN Core ELSE Peer)
                BY <3>3
            <4> QED
                BY <1>1, <3>1, <3>3, <4>1, <4>2 DEF State, Live, Keeper, Bare
        <3> QED
            BY <3>6, <3>7
    <2>2. \A n \in Map \ {m} : box'[n] = box[n] /\ \A c \in Actor : \A t : \A q \in {Core, Peer} : F(box', c, t, n, q) = F(box, c, t, n, q)
        BY <1>14, <1>16, Actors
    <2>3. \A n \in Map \ {m} : n \in coreList' <=> n \in coreList
        BY <1>5
    <2> QED
        BY <1>1, <1>17, <2>1, <2>2, <2>3, OthersKeep
<1>20. QueueInv' /\ LoadInv'
    <2>1. \A c \in Actor : \A t \in {"LOADMAP", "ACTIVATED", "WAITACTIVATED", "LOADED"} : \A k, q :
              F(box', c, t, k, q) = F(box, c, t, k, q)
        BY <1>14
    <2> QED
        BY <1>1, <2>1, AsideLoad, AsideQueues
<1>21. CloseInv'
    <2> SUFFICES ASSUME NEW q \in Script, NEW n \in Map PROVE Close(q, n)'
        BY DEF CloseInv
    <2>1. N(closeOp[n], {q}) \in Nat /\ F(box, Core, "CLOSEMAP", n, q) \in Nat /\ F(box, q, "CLOSED", n, q) \in Nat
        BY CloseNat
    <2>2. /\ F(box', Core, "CLOSEMAP", n, q) = F(box, Core, "CLOSEMAP", n, q)
          /\ F(box', q, "CLOSED", n, q) = F(box, q, "CLOSED", n, q) + (IF n = m THEN N(closeOp[m], {q}) ELSE 0)
        <3>1. F(box', Core, "CLOSEMAP", n, q) = F(box, Core, "CLOSEMAP", n, q)
            BY <1>1, <1>14
        <3>2. q \in Actor /\ q # Core
            BY Actors
        <3>4. F(box', q, "CLOSED", n, q) = F(box, q, "CLOSED", n, q) + (IF n = m THEN N(closeOp[m], {q}) ELSE 0)
            BY <1>14, <2>1, <3>2
        <3> QED
            BY <3>1, <3>4
    <2>3. N(closeOp[n], {q})' = IF n = m THEN 0 ELSE N(closeOp[n], {q})
        BY <1>17, CountEmpty
    <2>4. Closes(q, n)' = Closes(q, n)
        BY <2>1, <2>2, <2>3 DEF Closes
    <2>5. Close(q, n)
        BY CloseNat
    <2> QED
        BY <1>1, <2>4, <2>5 DEF Close
<1>22. KnownInv' /\ SentInv' /\ IdleInv'
    <2>1. \A c \in Actor : \A t \in {"TRIGGER", "SWITCHED"} : \A k, q : F(box', c, t, k, q) = F(box, c, t, k, q)
        BY <1>14
    <2> QED
        BY <1>1, <2>1, SameScripts, SameSent, SameFor, Actors DEF IInv
<1> QED
    BY <1>14, <1>18, <1>19, <1>20, <1>21, <1>22 DEF IInv, MailInv

\* Those who wait for a load: until the map is active, or not.
Patient(r) == [by : {r}, wait : {TRUE}]
Hasty(r) == [by : {r}, wait : {FALSE}]

LEMMA CountBy ==
    ASSUME NEW q \in Seq(Waiter), NEW r
    PROVE  N(q, By(r)) = N(q, Patient(r)) + N(q, Hasty(r)) /\ N(q, Patient(r)) \in Nat /\ N(q, Hasty(r)) \in Nat
<1> DEFINE A == Patient(r)  B == Hasty(r)
<1>1. By(r) = A \cup B /\ A \cap B = {}
    BY DEF By, Patient, Hasty
<1>2. N(q, A) \in Nat /\ N(q, B) \in Nat
    BY CountFinite
<1> HIDE DEF A, B
<1>3. N(q, A \cup B) = N(q, A) + N(q, B)
    BY <1>1, CountSplit
<1> QED
    BY <1>1, <1>2, <1>3 DEF A, B

LEMMA CoreLoadedKeeps ==
    ASSUME IInv, CoreLoaded
    PROVE  IInv'
<1>1. /\ Got(Core) /\ Top(Core).type = "LOADED" /\ Core \in Actor /\ Peer \in Actor /\ TypeOK /\ MailInv /\ QueueInv
      /\ UNCHANGED <<remote, closeOp, peerList, map, script, opened, known, player, seen, fault>>
    BY Actors DEF CoreLoaded, IInv
<1>2. PICK m \in Map, by \in {Core, Peer} :
          /\ Top(Core).map = m /\ Top(Core).by = by /\ Top(Core).flag = TRUE /\ F(box, Core, "LOADED", m, by) # 0
    <2>1. /\ Top(Core) \in For(Core) /\ Top(Core).map \in Map
          /\ F(box, Core, "LOADED", Top(Core).map, Top(Core).by) # 0
        BY <1>1, Handled
    <2>2. Top(Core).by \in {Core, Peer} /\ Top(Core).flag = TRUE
        BY <1>1, <2>1, Actors DEF For, ForCore
    <2> QED
        BY <2>1, <2>2
<1>3. /\ loadOp[m] # <<>> /\ m \in remote /\ m \notin coreList /\ closeOp[m] = <<>> /\ Loading(m) = 1
      /\ Closing(m) = 0 /\ Gone(m) = 0
    BY <1>2, LoadingAt
<1>4. F(box, Peer, "LOADMAP", m, Core) = 0 /\ Live(m)
    <2> DEFINE u == F(box, Peer, "LOADMAP", m, Core)  v == F(box, Peer, "ACTIVATED", m, Peer)
               w == F(box, m, "WAITACTIVATED", m, Peer)  x == Waits(m, Peer)
               s == F(box, Core, "LOADED", m, Core)  z == F(box, Core, "LOADED", m, Peer)
    <2>1. /\ u \in Nat /\ v \in Nat /\ w \in Nat /\ x \in Nat /\ s \in Nat /\ z \in Nat
          /\ u + v + w + x + s + z = 1 /\ (s # 0 \/ z # 0)
        BY <1>2, <1>3, ChainNat, Actors DEF Loading
    <2>2. u = 0
        <3> HIDE DEF u, v, w, x, s, z
        <3> QED
            BY <2>1
    <2> HIDE DEF v, w, x, s, z
    <2>3. State(m)
        BY ChainNat
    <2> QED
        BY <1>3, <2>2, <2>3 DEF State
<1>5. coreList' = coreList \cup {m} /\ loadOp' = [loadOp EXCEPT ![m] = <<>>]
    BY <1>2 DEF CoreLoaded
<1>6. loadOp \in [Map -> Seq(Waiter)] /\ loadOp[m] \in Seq(Waiter)
    BY <1>1 DEF TypeOK, Waiter
<1>7. PICK first \in Waiter, rest \in Seq(Waiter) :
          /\ first = Head(loadOp[m]) /\ rest = Tail(loadOp[m])
          /\ \A S : N(loadOp[m], S) = N(rest, S) + (IF first \in S THEN 1 ELSE 0) /\ N(rest, S) \in Nat
    <2>1. Head(loadOp[m]) \in Waiter /\ Tail(loadOp[m]) \in Seq(Waiter)
        BY <1>3, <1>6
    <2>2. ASSUME NEW S
          PROVE  /\ N(loadOp[m], S) = N(Tail(loadOp[m]), S) + (IF Head(loadOp[m]) \in S THEN 1 ELSE 0)
                 /\ N(Tail(loadOp[m]), S) \in Nat
        BY <1>3, <1>6, CountHead
    <2> QED
        BY <2>1, <2>2
<1>8. /\ first.by \in Client /\ first.by \in Actor
      /\ \A i \in DOMAIN rest : /\ rest[i].by \in Client /\ rest[i].by \in Actor /\ rest[i].wait \in BOOLEAN
                                /\ rest[i].by \in Player => rest[i].wait = FALSE
    <2>1. \A i \in DOMAIN loadOp[m] : loadOp[m][i].by \in Client /\ (loadOp[m][i].by \in Player => loadOp[m][i].wait = FALSE)
        BY <1>1 DEF QueueInv
    <2>2. first = loadOp[m][1] /\ 1 \in DOMAIN loadOp[m]
        BY <1>3, <1>6, <1>7
    <2>3. \A i \in DOMAIN rest : rest[i] = loadOp[m][i + 1] /\ i + 1 \in DOMAIN loadOp[m] /\ rest[i] \in Waiter
        BY <1>3, <1>6, <1>7
    <2> QED
        BY <2>1, <2>2, <2>3, Actors DEF Client, Waiter
<1>9. ASSUME NEW r \in Client, N(loadOp[m], By(r)) # 0
      PROVE  Wants(r, m) /\ (r \in Map => m = Exit /\ Live(r))
    <2>1. Wants(r, m)
        BY <1>9, Requested
    <2>2. r \in Map => m = Exit /\ map[r].closing # None
        BY <2>1, Actors DEF Wants
    <2> QED
        BY <2>1, <2>2, ChainNat DEF State, Bare
<1>10. ASSUME NEW r \in Client, first.by = r \/ \E i \in DOMAIN rest : rest[i].by = r
       PROVE  Wants(r, m) /\ (r \in Map => m = Exit /\ Live(r))
    <2>1. N(loadOp[m], By(r)) = N(rest, By(r)) + (IF first \in By(r) THEN 1 ELSE 0) /\ N(rest, By(r)) \in Nat
        BY <1>7
    <2>2. CASE first.by = r
        <3>1. first \in By(r)
            BY <2>2 DEF By, Waiter
        <3> QED
            BY <1>9, <2>1, <3>1
    <2>3. CASE \E i \in DOMAIN rest : rest[i].by = r
        <3>1. PICK i \in DOMAIN rest : rest[i].by = r
            BY <2>3
        <3>2. rest[i] \in By(r)
            <4>1. rest[i] \in Waiter
                OBVIOUS
            <4>2. \A x \in Waiter : x.by = r => x \in By(r)
                BY DEF By, Waiter
            <4> QED
                BY <3>1, <4>1, <4>2
        <3>3. N(rest, By(r)) # 0
            BY <3>2, CountFinite
        <3> QED
            BY <1>9, <2>1, <3>3
    <2> QED
        BY <1>10, <2>2, <2>3
<1> DEFINE wake(r) == Msg("WAITACTIVATED", m, r, TRUE)
           tell(r) == Msg("LOADED", m, r, TRUE)
           replies == [i \in DOMAIN rest |-> Answering(map, m, rest[i].by, TRUE, rest[i].wait)]
           y == tell(first.by)
<1>11. box' = Put(DeliverAll(Take(Core), replies), first.by, y)
    <2>1. (m \in coreList') = TRUE
        BY <1>5
    <2> QED
        BY <1>2, <1>7, <2>1 DEF CoreLoaded
<1>12. DOMAIN replies = DOMAIN rest
    OBVIOUS
<1>13. ASSUME NEW i \in DOMAIN rest
       PROVE  /\ rest[i].wait = TRUE => replies[i].to = m /\ replies[i].msg = wake(rest[i].by)
              /\ rest[i].wait = FALSE => replies[i].to = rest[i].by /\ replies[i].msg = tell(rest[i].by)
              /\ replies[i] \in FitPosts
    <2>1. CASE rest[i].wait = TRUE
        <3>1. replies[i] = Post(m, wake(rest[i].by))
            BY <1>4, <2>1 DEF Answering, Reach, Live
        <3>2. rest[i].by \in {Peer} \cup Map \cup Script
            BY <1>8, <2>1 DEF Client
        <3>3. wake(rest[i].by) \in For(m) /\ wake(rest[i].by) \in Message
            BY <3>2, WaitFits DEF For
        <3> DEFINE x == wake(rest[i].by)
        <3>4. Post(m, x).to = m /\ Post(m, x).msg = x /\ Post(m, x) \in FitPosts
            <4> HIDE DEF x
            <4> QED
                BY <3>3, Actors DEF Post, FitPosts, Posts, x
        <3> HIDE DEF replies
        <3> QED
            BY <2>1, <3>1, <3>4
    <2>2. CASE rest[i].wait = FALSE
        <3>1. replies[i] = Post(rest[i].by, tell(rest[i].by))
            BY <2>2 DEF Answering
        <3>2. rest[i].by \in Client /\ (rest[i].by \in Map => m = Exit)
            BY <1>8, <1>10
        <3>3. tell(rest[i].by) \in For(rest[i].by) /\ tell(rest[i].by) \in Message
            BY <3>2, LoadedFits DEF For
        <3> DEFINE x == tell(rest[i].by)  a == rest[i].by
        <3>4. Post(a, x).to = a /\ Post(a, x).msg = x /\ Post(a, x) \in FitPosts
            <4>1. a \in Actor /\ x \in For(a) /\ x \in Message
                BY <1>8, <3>3
            <4> HIDE DEF x, a
            <4> QED
                BY <4>1 DEF Post, FitPosts, Posts
        <3> HIDE DEF replies
        <3> QED
            BY <2>2, <3>1, <3>4
    <2> QED
        BY <1>8, <2>1, <2>2
<1>14. replies \in Seq(FitPosts)
    <2>1. DOMAIN rest = 1 .. Len(rest) /\ Len(rest) \in Nat
        OBVIOUS
    <2>2. replies \in [1 .. Len(rest) -> FitPosts]
        BY <1>13, <2>1
    <2> HIDE DEF replies
    <2> QED
        BY <2>1, <2>2
<1>15. ASSUME NEW r \in Actor
       PROVE  /\ \A t, k, q : wake(r) \in From(t, k, q) <=> t = "WAITACTIVATED" /\ k = m /\ q = r
              /\ \A t, k, q : tell(r) \in From(t, k, q) <=> t = "LOADED" /\ k = m /\ q = r
    BY DEF From, Msg, Message, MsgType
<1>16. y \in For(first.by) /\ \A t, k, q : Is(y, t, k, q) <=> t = "LOADED" /\ k = m /\ q = first.by
    <2>1. first.by \in Client /\ (first.by \in Map => m = Exit)
        BY <1>8, <1>10
    <2> QED
        BY <2>1, LoadedFits DEF Is, Msg
<1> HIDE DEF replies, y, wake, tell
<1>17. ASSUME NEW c \in Actor, NEW q
       PROVE  /\ Sends(replies, c, From("WAITACTIVATED", m, q)) = IF c = m THEN {i \in DOMAIN rest : rest[i] \in Patient(q)} ELSE {}
              /\ Sends(replies, c, From("LOADED", m, q)) = IF c = q THEN {i \in DOMAIN rest : rest[i] \in Hasty(q)} ELSE {}
    <2>1. \A i \in DOMAIN rest : rest[i] \in Waiter
        OBVIOUS
    <2>2. \A i \in DOMAIN rest : /\ rest[i] \in Patient(q) <=> rest[i].by = q /\ rest[i].wait = TRUE
                                 /\ rest[i] \in Hasty(q) <=> rest[i].by = q /\ rest[i].wait = FALSE
        BY <2>1 DEF Patient, Hasty, Waiter
    <2>3. ASSUME NEW i \in DOMAIN rest
          PROVE  /\ replies[i].to = c /\ replies[i].msg \in From("WAITACTIVATED", m, q) <=> c = m /\ rest[i] \in Patient(q)
                 /\ replies[i].to = c /\ replies[i].msg \in From("LOADED", m, q) <=> c = q /\ rest[i] \in Hasty(q)
        <3>1. CASE rest[i].wait = TRUE
            <4>1. replies[i].to = m /\ replies[i].msg = wake(rest[i].by)
                BY <1>13, <3>1
            <4>2. wake(rest[i].by) \in From("WAITACTIVATED", m, q) <=> rest[i].by = q
                BY <1>8, <1>15
            <4>3. wake(rest[i].by) \notin From("LOADED", m, q)
                BY <1>8, <1>15
            <4> QED
                BY <2>2, <3>1, <4>1, <4>2, <4>3
        <3>2. CASE rest[i].wait = FALSE
            <4>1. replies[i].to = rest[i].by /\ replies[i].msg = tell(rest[i].by)
                BY <1>13, <3>2
            <4>2. tell(rest[i].by) \in From("LOADED", m, q) <=> rest[i].by = q
                BY <1>8, <1>15
            <4>3. tell(rest[i].by) \notin From("WAITACTIVATED", m, q)
                BY <1>8, <1>15
            <4> QED
                BY <2>2, <3>2, <4>1, <4>2, <4>3
        <3> QED
            BY <1>8, <3>1, <3>2
    <2> QED
        BY <1>12, <2>3 DEF Sends
<1>18. ASSUME NEW c \in Actor, NEW t, NEW k, NEW q, (t # "WAITACTIVATED" /\ t # "LOADED") \/ k # m \/ q \notin Client
       PROVE  Sends(replies, c, From(t, k, q)) = {}
    <2>1. ASSUME NEW i \in DOMAIN rest PROVE replies[i].msg \notin From(t, k, q)
        <3>1. CASE rest[i].wait = TRUE
            <4>1. replies[i].msg = wake(rest[i].by)
                BY <1>13, <3>1
            <4>2. wake(rest[i].by) \in From(t, k, q) <=> t = "WAITACTIVATED" /\ k = m /\ q = rest[i].by
                BY <1>8, <1>15
            <4> QED
                BY <1>8, <1>18, <4>1, <4>2
        <3>2. CASE rest[i].wait = FALSE
            <4>1. replies[i].msg = tell(rest[i].by)
                BY <1>13, <3>2
            <4>2. tell(rest[i].by) \in From(t, k, q) <=> t = "LOADED" /\ k = m /\ q = rest[i].by
                BY <1>8, <1>15
            <4> QED
                BY <1>8, <1>18, <4>1, <4>2
        <3> QED
            BY <1>8, <3>1, <3>2
    <2> QED
        BY <1>12, <2>1 DEF Sends
<1>19. /\ Fit(Take(Core)) /\ \A c \in Actor : c # Core => Take(Core)[c] = box[c]
       /\ \A c \in Actor : \A t, k, q :
              /\ F(Take(Core), c, t, k, q) \in Nat /\ F(box, c, t, k, q) \in Nat
              /\ F(Take(Core), c, t, k, q) = F(box, c, t, k, q) - (IF c = Core /\ t = "LOADED" /\ k = m /\ q = by THEN 1 ELSE 0)
    BY <1>1, <1>2, Taken DEF Is
<1>20. /\ Fit(box')
       /\ \A c \in Actor : c # Core /\ c # first.by /\ (\A i \in DOMAIN replies : replies[i].to # c) => box'[c] = box[c]
       /\ \A c \in Actor : \A t, k, q :
              F(box', c, t, k, q) = F(Take(Core), c, t, k, q) + Cardinality(Sends(replies, c, From(t, k, q)))
                                        + (IF c = first.by /\ t = "LOADED" /\ k = m /\ q = first.by THEN 1 ELSE 0)
    <2> DEFINE b == DeliverAll(Take(Core), replies)
    <2>1. /\ Fit(b)
          /\ \A c \in Actor : \A t, k, q :
                 /\ F(b, c, t, k, q) = F(Take(Core), c, t, k, q) + Cardinality(Sends(replies, c, From(t, k, q)))
          /\ \A c \in Actor : (\A i \in DOMAIN replies : replies[i].to # c) => b[c] = Take(Core)[c]
        BY <1>14, <1>19, SentAll
    <2> HIDE DEF b
    <2>2. /\ Fit(Put(b, first.by, y))
          /\ \A c \in Actor : c # first.by => Put(b, first.by, y)[c] = b[c]
          /\ \A c \in Actor : \A t, k, q :
                 F(Put(b, first.by, y), c, t, k, q) = F(b, c, t, k, q) + (IF c = first.by /\ t = "LOADED" /\ k = m /\ q = first.by THEN 1 ELSE 0)
        BY <1>8, <1>16, <2>1, Sending
    <2>3. box' = Put(b, first.by, y)
        BY <1>11 DEF b
    <2> QED
        BY <1>19, <2>1, <2>2, <2>3
<1>21. \A c \in Actor : \A t, k, q : (t # "WAITACTIVATED" /\ t # "LOADED") \/ k # m => F(box', c, t, k, q) = F(box, c, t, k, q)
    <2> SUFFICES ASSUME NEW c \in Actor, NEW t, NEW k, NEW q, (t # "WAITACTIVATED" /\ t # "LOADED") \/ k # m
                 PROVE  F(box', c, t, k, q) = F(box, c, t, k, q)
        OBVIOUS
    <2>1. Sends(replies, c, From(t, k, q)) = {}
        BY <1>18
    <2>2. Cardinality(Sends(replies, c, From(t, k, q))) = 0
        BY <2>1, FS_EmptySet
    <2>3. F(Take(Core), c, t, k, q) = F(box, c, t, k, q) /\ F(box, c, t, k, q) \in Nat
        BY <1>19
    <2> QED
        BY <1>20, <2>2, <2>3
<1>22. \A c \in Actor : \A t : \A q \in {Core, Peer} : F(box', c, t, m, q) = F(Take(Core), c, t, m, q)
    <2> SUFFICES ASSUME NEW c \in Actor, NEW t, NEW q \in {Core, Peer} PROVE F(box', c, t, m, q) = F(Take(Core), c, t, m, q)
        OBVIOUS
    <2>1. q \notin Client
        BY Actors DEF Client
    <2>2. Sends(replies, c, From(t, m, q)) = {}
        BY <1>18, <2>1
    <2>3. Cardinality(Sends(replies, c, From(t, m, q))) = 0
        BY <2>2, FS_EmptySet
    <2>4. F(Take(Core), c, t, m, q) \in Nat /\ q # first.by
        BY <1>8, <1>19, <2>1
    <2> QED
        BY <1>20, <2>3, <2>4
<1>23. ASSUME NEW r \in Client
       PROVE  /\ F(box', m, "WAITACTIVATED", m, r) = F(box, m, "WAITACTIVATED", m, r) + N(rest, Patient(r))
              /\ F(box', r, "LOADED", m, r) = F(box, r, "LOADED", m, r) + N(rest, Hasty(r)) + (IF first.by = r THEN 1 ELSE 0)
    <2>1. r \in Actor /\ m \in Actor /\ r # Core /\ m # Core
        BY Actors DEF Client
    <2>2. Cardinality(Sends(replies, m, From("WAITACTIVATED", m, r))) = N(rest, Patient(r))
        <3>1. Sends(replies, m, From("WAITACTIVATED", m, r)) = {i \in DOMAIN rest : rest[i] \in Patient(r)}
            BY <1>17, <2>1
        <3> QED
            BY <3>1 DEF N
    <2>3. Cardinality(Sends(replies, r, From("LOADED", m, r))) = N(rest, Hasty(r))
        <3>1. Sends(replies, r, From("LOADED", m, r)) = {i \in DOMAIN rest : rest[i] \in Hasty(r)}
            BY <1>17, <2>1
        <3> QED
            BY <3>1 DEF N
    <2>4. N(rest, Patient(r)) \in Nat /\ N(rest, Hasty(r)) \in Nat
        BY CountBy
    <2>5. /\ F(Take(Core), m, "WAITACTIVATED", m, r) = F(box, m, "WAITACTIVATED", m, r)
          /\ F(Take(Core), r, "LOADED", m, r) = F(box, r, "LOADED", m, r)
          /\ F(box, m, "WAITACTIVATED", m, r) \in Nat /\ F(box, r, "LOADED", m, r) \in Nat
        BY <1>19, <2>1
    <2> QED
        BY <1>20, <2>1, <2>2, <2>3, <2>4, <2>5
<1>25. \A n \in Map : Live(n) \/ box'[n] = box[n]
    <2> SUFFICES ASSUME NEW n \in Map, ~Live(n) PROVE box'[n] = box[n]
        OBVIOUS
    <2>1. n # m /\ n # Core /\ n \in Actor /\ n \in Client
        BY <1>4, Actors DEF Client
    <2>2. n # first.by /\ \A i \in DOMAIN rest : rest[i].by # n
        BY <1>10, <2>1
    <2>3. \A i \in DOMAIN replies : replies[i].to # n
        BY <1>8, <1>12, <1>13, <2>1, <2>2
    <2> QED
        BY <1>20, <2>1, <2>2, <2>3
<1>26. loadOp' \in [Map -> Seq(Waiter)] /\ loadOp'[m] = <<>> /\ \A n \in Map \ {m} : loadOp'[n] = loadOp[n]
    BY <1>5, <1>6
<1>27. TypeOK'
    BY <1>1, <1>5, <1>20, <1>26 DEF TypeOK, Fit, Mailboxes, Message, Waiter
<1>28. QueueInv'
    <2> SUFFICES ASSUME NEW n \in Map
                 PROVE  /\ \A i \in DOMAIN loadOp'[n] : /\ loadOp'[n][i].by \in Client
                                                        /\ loadOp'[n][i].by \in Player => loadOp'[n][i].wait = FALSE
                        /\ \A i \in DOMAIN map'[n].waiting : map'[n].waiting[i] \in {Peer} \cup Map \cup Script
        BY DEF QueueInv
    <2>1. CASE n = m
        BY <1>1, <1>26, <2>1 DEF QueueInv
    <2>2. CASE n # m
        BY <1>1, <1>26, <2>2 DEF QueueInv
    <2> QED
        BY <2>1, <2>2
<1>29. RegistryInv'
    <2>1. ASSUME NEW n \in Map, n = m PROVE Chain(n)' /\ State(n)'
        <3>1. Chain(n) /\ State(n) /\ \A c \in Actor : \A t, k, q : F(box, c, t, k, q) \in Nat
            BY ChainNat
        <3>2. \A c \in Actor : \A t : \A q \in {Core, Peer} :
                  F(box', c, t, n, q) = F(box, c, t, n, q) - (IF c = Core /\ t = "LOADED" /\ q = by THEN 1 ELSE 0)
            BY <1>19, <1>22, <2>1
        <3>3. Waits(n, Peer)' = Waits(n, Peer) /\ Waits(n, Peer) \in Nat
            BY <1>1, ChainNat DEF Waits
        <3>4. Gone(n)' = Gone(n)
            BY <3>1, <3>2, Actors DEF Gone
        <3>5. /\ F(box', Peer, "CLOSEMAP", n, Core) = F(box, Peer, "CLOSEMAP", n, Core)
              /\ F(box', n, "CLOSEMAP", n, Core) = F(box, n, "CLOSEMAP", n, Core)
              /\ F(box', n, "CLOSEMAP", n, Peer) = F(box, n, "CLOSEMAP", n, Peer)
              /\ F(box', Peer, "CLOSED", n, Peer) = F(box, Peer, "CLOSED", n, Peer)
              /\ F(box', Peer, "LOADMAP", n, Core) = F(box, Peer, "LOADMAP", n, Core)
            BY <1>21, Actors
        <3>6. Closing(n)' = Closing(n)
            BY <1>1, <3>4, <3>5 DEF Closing
        <3>7. Loading(n)' = Loading(n) - 1
            <4>1. /\ F(box', Peer, "ACTIVATED", n, Peer) = F(box, Peer, "ACTIVATED", n, Peer)
                  /\ F(box', n, "WAITACTIVATED", n, Peer) = F(box, n, "WAITACTIVATED", n, Peer)
                BY <3>1, <3>2, Actors
            <4>4. ASSUME NEW d \in Nat, NEW e \in Nat, d + e = 1,
                         F(box', Core, "LOADED", n, Core) = F(box, Core, "LOADED", n, Core) - d,
                         F(box', Core, "LOADED", n, Peer) = F(box, Core, "LOADED", n, Peer) - e
                  PROVE  Loading(n)' = Loading(n) - 1
                <5> DEFINE u == F(box, Peer, "LOADMAP", n, Core)  v == F(box, Peer, "ACTIVATED", n, Peer)
                           w == F(box, n, "WAITACTIVATED", n, Peer)  x == Waits(n, Peer)
                           s == F(box, Core, "LOADED", n, Core)  z == F(box, Core, "LOADED", n, Peer)
                <5>1. u \in Nat /\ v \in Nat /\ w \in Nat /\ x \in Nat /\ s \in Nat /\ z \in Nat
                    BY <3>1, <3>3, Actors
                <5>2. Loading(n) = u + v + w + x + s + z
                    BY DEF Loading
                <5>3. Loading(n)' = u + v + w + x + (s - d) + (z - e)
                    BY <3>3, <3>5, <4>1, <4>4 DEF Loading
                <5> HIDE DEF u, v, w, x, s, z
                <5> QED
                    BY <4>4, <5>1, <5>2, <5>3
            <4>2. CASE by = Core
                <5>1. /\ F(box', Core, "LOADED", n, Core) = F(box, Core, "LOADED", n, Core) - 1
                      /\ F(box', Core, "LOADED", n, Peer) = F(box, Core, "LOADED", n, Peer) - 0
                    BY <3>1, <3>2, <4>2, Actors
                <5> DEFINE d == 1  e == 0
                <5>2. d \in Nat /\ e \in Nat /\ d + e = 1
                    OBVIOUS
                <5> QED
                    BY <4>4, <5>1, <5>2
            <4>3. CASE by = Peer
                <5>1. /\ F(box', Core, "LOADED", n, Core) = F(box, Core, "LOADED", n, Core) - 0
                      /\ F(box', Core, "LOADED", n, Peer) = F(box, Core, "LOADED", n, Peer) - 1
                    BY <3>1, <3>2, <4>3, Actors
                <5> DEFINE d == 0  e == 1
                <5>2. d \in Nat /\ e \in Nat /\ d + e = 1
                    OBVIOUS
                <5> QED
                    BY <4>4, <5>1, <5>2
            <4> QED
                BY <4>2, <4>3
        <3>8. Chain(n)'
            BY <1>1, <1>3, <1>26, <2>1, <3>1, <3>6, <3>7 DEF Chain
        <3>9. State(n)'
            <4>1. n \in coreList' /\ Live(n) /\ Live(n)' /\ Gone(n)' = 0
                BY <1>1, <1>3, <1>4, <1>5, <2>1, <3>4 DEF Live
            <4>2. F(box', n, "CLOSEMAP", n, IF n \in remote THEN Core ELSE Peer) = F(box, n, "CLOSEMAP", n, IF n \in remote THEN Core ELSE Peer)
                BY <3>5
            <4> QED
                BY <1>1, <3>1, <3>5, <4>1, <4>2 DEF State, Live, Keeper, Bare
        <3> QED
            BY <3>8, <3>9
    <2>2. \A n \in Map \ {m} : \A c \in Actor : \A t : \A q \in {Core, Peer} : F(box', c, t, n, q) = F(box, c, t, n, q)
        BY <1>21
    <2>3. \A n \in Map \ {m} : n \in coreList' <=> n \in coreList
        BY <1>5
    <2> QED
        BY <1>1, <1>25, <1>26, <2>1, <2>2, <2>3, OthersKeep
<1>30. LoadInv'
    <2> SUFFICES ASSUME NEW r \in Client, NEW n \in Map PROVE Load(r, n)'
        BY DEF LoadInv
    <2>1. Wants(r, n)' <=> Wants(r, n)
        BY <1>1 DEF Wants
    <2>2. CASE n = m
        <3>1. /\ F(box', Core, "LOADMAP", m, r) = F(box, Core, "LOADMAP", m, r)
              /\ F(box', Core, "ACTIVATED", m, r) = F(box, Core, "ACTIVATED", m, r)
            BY <1>1, <1>21
        <3>2. N(loadOp[m], By(r)) = N(rest, Patient(r)) + N(rest, Hasty(r)) + (IF first.by = r THEN 1 ELSE 0)
            <4>1. N(loadOp[m], By(r)) = N(rest, By(r)) + (IF first \in By(r) THEN 1 ELSE 0)
                BY <1>7
            <4>2. first \in By(r) <=> first.by = r
                BY DEF By, Waiter
            <4>3. N(rest, By(r)) = N(rest, Patient(r)) + N(rest, Hasty(r))
                BY CountBy
            <4> QED
                BY <4>1, <4>2, <4>3
        <3>3. N(loadOp[m], By(r))' = 0 /\ Waits(m, r)' = Waits(m, r)
            BY <1>1, <1>26, CountEmpty DEF Waits, By
        <3>4. N(rest, Patient(r)) \in Nat /\ N(rest, Hasty(r)) \in Nat
            BY CountBy
        <3>5. Requests(r, m)' = Requests(r, m)
            <4> DEFINE a == F(box, Core, "LOADMAP", m, r)  b == F(box, Core, "ACTIVATED", m, r)
                       c == F(box, m, "WAITACTIVATED", m, r)  d == Waits(m, r)  e == F(box, r, "LOADED", m, r)
                       p == N(rest, Patient(r))  h == N(rest, Hasty(r))  f == IF first.by = r THEN 1 ELSE 0
            <4>1. /\ a \in Nat /\ b \in Nat /\ c \in Nat /\ d \in Nat /\ e \in Nat /\ p \in Nat /\ h \in Nat /\ f \in Nat
                  /\ Requests(r, m) = a + b + (p + h + f) + c + d + e
                BY <3>2, <3>4, LoadNat DEF Requests
            <4>2. Requests(r, m)' = a + b + 0 + (c + p) + d + (e + h + f)
                BY <1>23, <3>1, <3>3 DEF Requests
            <4> HIDE DEF a, b, c, d, e, p, h, f
            <4> QED
                BY <4>1, <4>2
        <3> QED
            BY <2>1, <2>2, <3>5, LoadNat DEF Load
    <2>3. CASE n # m
        <3>1. /\ F(box', Core, "LOADMAP", n, r) = F(box, Core, "LOADMAP", n, r)
              /\ F(box', Core, "ACTIVATED", n, r) = F(box, Core, "ACTIVATED", n, r)
              /\ F(box', n, "WAITACTIVATED", n, r) = F(box, n, "WAITACTIVATED", n, r)
              /\ F(box', r, "LOADED", n, r) = F(box, r, "LOADED", n, r)
            BY <1>21, <2>3, LoadNat
        <3> QED
            BY <1>1, <1>26, <2>1, <2>3, <3>1, LoadNat, SameLoad
    <2> QED
        BY <2>2, <2>3
<1>31. KnownInv' /\ CloseInv' /\ SentInv' /\ IdleInv'
    <2>1. \A c \in Actor : \A t \in {"CLOSEMAP", "CLOSED", "TRIGGER", "SWITCHED"} : \A k : \A q \in Client :
              F(box', c, t, k, q) = F(box, c, t, k, q)
        BY <1>21
    <2> QED
        BY <1>1, <2>1, Aside
<1> QED
    BY <1>20, <1>27, <1>28, <1>29, <1>30, <1>31 DEF IInv, MailInv

-----------------------------------------------------------------------------
(* The start of a map, and those who wait for it.                           *)

LEMMA EraseKeeps ==
    ASSUME IInv, NEW m \in Map, Erase(m)
    PROVE  IInv'
<1>1. /\ map[m].state = "closed" /\ map' = [map EXCEPT ![m].state = "none"] /\ TypeOK /\ MailInv
      /\ UNCHANGED <<remote, coreVars, peerList, script, opened, known, player, box, seen, fault>>
    BY DEF Erase, MapUnchanged, IInv
<1>2. /\ map' \in [Map -> MapActor] /\ \A n \in Map \ {m} : map'[n] = map[n]
      /\ map'[m].state = "none" /\ map'[m].active = map[m].active /\ map'[m].closing = map[m].closing
      /\ map'[m].todo = map[m].todo /\ map'[m].waiting = map[m].waiting /\ map'[m].grid = map[m].grid
      /\ map'[m].lock = map[m].lock
    <2> DEFINE actor == [map[m] EXCEPT !.state = "none"]
    <2>1. map[m] \in MapActor /\ map' = [map EXCEPT ![m] = actor]
        BY <1>1, Typed
    <2>2. /\ actor \in MapActor /\ actor.state = "none" /\ actor.active = map[m].active /\ actor.closing = map[m].closing
          /\ actor.todo = map[m].todo /\ actor.waiting = map[m].waiting /\ actor.grid = map[m].grid
          /\ actor.lock = map[m].lock
        BY <2>1 DEF MapActor
    <2> HIDE DEF actor
    <2> QED
        BY <1>1, <2>1, <2>2, OneMap
<1>3. /\ Fit(box') /\ \A c, t, k, q : F(box', c, t, k, q) = F(box, c, t, k, q)
      /\ \A n : Gone(n)' = Gone(n)
    BY <1>1 DEF MailInv, Gone
<1>4. RegistryInv'
    <2>1. ASSUME NEW n \in Map, n = m PROVE Chain(n)' /\ State(n)'
        <3>1. Chain(n) /\ State(n)
            BY ChainNat
        <3>2. Loading(n)' = Loading(n) /\ Closing(n)' = Closing(n)
            BY <1>1, <1>2, <1>3, <2>1 DEF Loading, Closing, Waits
        <3>3. ~Live(n) /\ ~Live(n)'
            BY <1>1, <1>2, <2>1 DEF Live
        <3>4. Chain(n)'
            BY <1>1, <1>2, <2>1, <3>1, <3>2 DEF Chain, coreVars
        <3>5. State(n)'
            BY <1>1, <1>2, <1>3, <2>1, <3>1, <3>3 DEF State, Keeper, Bare, coreVars
        <3> QED
            BY <3>4, <3>5
    <2> QED
        BY <1>1, <1>2, <1>3, <2>1, OthersKeep DEF coreVars
<1>5. TypeOK'
    BY <1>1, <1>2, <1>3, Typed, TypeKeeps
<1>6. \A n \in Map : map'[n].todo = map[n].todo /\ map'[n].waiting = map[n].waiting /\ map'[n].closing = map[n].closing
    BY <1>2
<1> QED
    BY <1>1, <1>3, <1>4, <1>5, <1>6, CoresKeep DEF coreVars

\* A step that moves those who wait for a map from its mailbox to its line,
\* and from there to their answers.
LEMMA Waking ==
    ASSUME IInv, NEW m \in Map, Live(m), NEW actor \in MapActor, map' = [map EXCEPT ![m] = actor],
           UNCHANGED <<remote, coreVars, peerList, script, opened, known, player, seen, fault>>, Fit(box'),
           actor.state = map[m].state, actor.closing = map[m].closing, actor.todo = map[m].todo,
           actor.active = TRUE => actor.waiting = <<>>,
           \A i \in DOMAIN actor.waiting : actor.waiting[i] \in {Peer} \cup Map \cup Script,
           \A n \in Map \ {m} : box'[n] = box[n],
           \A c \in Actor : \A t, k, q : (t # "WAITACTIVATED" /\ t # "ACTIVATED") \/ k # m => F(box', c, t, k, q) = F(box, c, t, k, q),
           \A r \in Client : F(box', m, "WAITACTIVATED", m, r) + Waits(m, r)' + F(box', Core, "ACTIVATED", m, r)
                               = F(box, m, "WAITACTIVATED", m, r) + Waits(m, r) + F(box, Core, "ACTIVATED", m, r),
           F(box', m, "WAITACTIVATED", m, Peer) + Waits(m, Peer)' + F(box', Peer, "ACTIVATED", m, Peer)
               = F(box, m, "WAITACTIVATED", m, Peer) + Waits(m, Peer) + F(box, Peer, "ACTIVATED", m, Peer)
    PROVE  IInv'
<1>1. TypeOK /\ MailInv /\ QueueInv /\ m \in Actor /\ Core \in Actor /\ Peer \in Actor
    BY Actors DEF IInv
<1>2. map' \in [Map -> MapActor] /\ map'[m] = actor /\ \A n \in Map \ {m} : map'[n] = map[n]
    BY <1>1, OneMap
<1>3. \A c \in Actor : \A t, k, q : F(box', c, t, k, q) \in Nat
    BY FNat DEF Fit
<1>4. \A r : Waits(m, r)' \in Nat
    <2>1. actor.waiting \in Seq(Actor)
        BY DEF MapActor
    <2> QED
        BY <1>2, <2>1, CountFinite DEF Waits
<1>5. RegistryInv'
    <2>1. ASSUME NEW n \in Map, n = m PROVE Chain(n)' /\ State(n)'
        <3>1. Chain(n) /\ State(n) /\ Waits(n, Peer) \in Nat /\ \A c \in Actor : \A t, k, q : F(box, c, t, k, q) \in Nat
            BY ChainNat
        <3>2. /\ F(box', Peer, "LOADMAP", n, Core) = F(box, Peer, "LOADMAP", n, Core)
              /\ F(box', Core, "LOADED", n, Core) = F(box, Core, "LOADED", n, Core)
              /\ F(box', Core, "LOADED", n, Peer) = F(box, Core, "LOADED", n, Peer)
              /\ F(box', Peer, "CLOSEMAP", n, Core) = F(box, Peer, "CLOSEMAP", n, Core)
              /\ F(box', n, "CLOSEMAP", n, Core) = F(box, n, "CLOSEMAP", n, Core)
              /\ F(box', n, "CLOSEMAP", n, Peer) = F(box, n, "CLOSEMAP", n, Peer)
              /\ F(box', Peer, "CLOSED", n, Peer) = F(box, Peer, "CLOSED", n, Peer)
            BY <1>1, <2>1
        <3>3. Gone(n)' = Gone(n)
            BY <1>1 DEF Gone
        <3>4. Closing(n)' = Closing(n)
            BY <1>2, <2>1, <3>2, <3>3 DEF Closing
        <3>5. Loading(n)' = Loading(n)
            <4> DEFINE u == F(box, Peer, "LOADMAP", n, Core)  v == F(box, Peer, "ACTIVATED", n, Peer)
                       w == F(box, n, "WAITACTIVATED", n, Peer)  x == Waits(n, Peer)
                       s == F(box, Core, "LOADED", n, Core)  z == F(box, Core, "LOADED", n, Peer)
                       va == F(box', Peer, "ACTIVATED", n, Peer)  wa == F(box', n, "WAITACTIVATED", n, Peer)
                       xa == Waits(n, Peer)'
            <4>1. /\ u \in Nat /\ v \in Nat /\ w \in Nat /\ x \in Nat /\ s \in Nat /\ z \in Nat
                  /\ va \in Nat /\ wa \in Nat /\ xa \in Nat
                BY <1>1, <1>3, <1>4, <2>1, <3>1
            <4>2. wa + xa + va = w + x + v
                BY <2>1
            <4>3. Loading(n) = u + v + w + x + s + z /\ Loading(n)' = u + va + wa + xa + s + z
                BY <3>2 DEF Loading
            <4> HIDE DEF u, v, w, x, s, z, va, wa, xa
            <4> QED
                BY <4>1, <4>2, <4>3
        <3>6. Chain(n)'
            BY <1>2, <2>1, <3>1, <3>4, <3>5 DEF Chain, coreVars
        <3>7. Live(n)' = Live(n) /\ Live(n)
            BY <1>2, <2>1 DEF Live
        <3>8. State(n)'
            BY <1>2, <2>1, <3>1, <3>2, <3>3, <3>7 DEF State, Keeper, coreVars
        <3> QED
            BY <3>6, <3>8
    <2>2. \A n \in Map \ {m} : box'[n] = box[n] /\ \A c \in Actor : \A t, q : F(box', c, t, n, q) = F(box, c, t, n, q)
        OBVIOUS
    <2> QED
        BY <1>2, <2>1, <2>2, OthersKeep DEF coreVars
<1>6. LoadInv'
    <2> SUFFICES ASSUME NEW r \in Client, NEW n \in Map PROVE Load(r, n)'
        BY DEF LoadInv
    <2>1. Wants(r, n)' <=> Wants(r, n)
        BY <1>2 DEF Wants
    <2>2. /\ F(box', Core, "LOADMAP", n, r) = F(box, Core, "LOADMAP", n, r)
          /\ F(box', r, "LOADED", n, r) = F(box, r, "LOADED", n, r)
          /\ loadOp'[n] = loadOp[n]
        BY <1>1, LoadNat DEF coreVars
    <2>3. CASE n = m
        <3> DEFINE a == F(box, Core, "LOADMAP", n, r)  b == F(box, Core, "ACTIVATED", n, r)  c == F(box, n, "WAITACTIVATED", n, r)
                   d == Waits(n, r)  e == F(box, r, "LOADED", n, r)  f == N(loadOp[n], By(r))
                   ba == F(box', Core, "ACTIVATED", n, r)  ca == F(box', n, "WAITACTIVATED", n, r)  da == Waits(n, r)'
        <3>1. a \in Nat /\ b \in Nat /\ c \in Nat /\ d \in Nat /\ e \in Nat /\ f \in Nat
            BY LoadNat
        <3>2. ba \in Nat /\ ca \in Nat /\ da \in Nat
            BY <1>1, <1>3, <1>4, <2>3
        <3>3. ca + da + ba = c + d + b
            BY <2>3
        <3>4. Requests(r, n) = a + b + f + c + d + e
            BY DEF Requests
        <3>5. Requests(r, n)' = a + ba + f + ca + da + e
            BY <2>2 DEF Requests
        <3> HIDE DEF a, b, c, d, e, f, ba, ca, da
        <3>6. Requests(r, n)' = Requests(r, n)
            BY <3>1, <3>2, <3>3, <3>4, <3>5
        <3> QED
            BY <2>1, <3>6, LoadNat DEF Load
    <2>4. CASE n # m
        <3>1. /\ F(box', Core, "ACTIVATED", n, r) = F(box, Core, "ACTIVATED", n, r)
              /\ F(box', n, "WAITACTIVATED", n, r) = F(box, n, "WAITACTIVATED", n, r)
            BY <1>1, <2>4, LoadNat
        <3> QED
            BY <1>2, <2>1, <2>2, <2>4, <3>1, LoadNat, SameLoad
    <2> QED
        BY <2>3, <2>4
<1>7. QueueInv'
    <2> SUFFICES ASSUME NEW n \in Map
                 PROVE  /\ \A i \in DOMAIN loadOp'[n] : /\ loadOp'[n][i].by \in Client
                                                        /\ loadOp'[n][i].by \in Player => loadOp'[n][i].wait = FALSE
                        /\ \A i \in DOMAIN map'[n].waiting : map'[n].waiting[i] \in {Peer} \cup Map \cup Script
        BY DEF QueueInv
    <2>1. CASE n = m
        BY <1>1, <1>2, <2>1 DEF QueueInv, coreVars
    <2>2. CASE n # m
        BY <1>1, <1>2, <2>2 DEF QueueInv, coreVars
    <2> QED
        BY <2>1, <2>2
<1>8. KnownInv' /\ CloseInv' /\ SentInv' /\ IdleInv'
    <2>1. \A c \in Actor : \A t \in {"CLOSEMAP", "CLOSED", "TRIGGER", "SWITCHED"} : \A k : \A q \in Client :
              F(box', c, t, k, q) = F(box, c, t, k, q)
        OBVIOUS
    <2>2. \A n \in Map : map'[n].todo = map[n].todo
        BY <1>2
    <2> QED
        BY <2>1, <2>2, Aside DEF coreVars
<1>9. TypeOK'
    BY <1>1, <1>2, Typed, TypeKeeps
<1> QED
    BY <1>5, <1>6, <1>7, <1>8, <1>9 DEF IInv, MailInv

LEMMA WaitActivatedKeeps ==
    ASSUME IInv, NEW m \in Map, WaitActivated(m)
    PROVE  IInv'
<1>1. /\ Got(m) /\ Top(m).type = "WAITACTIVATED" /\ m \in Actor /\ Core \in Actor /\ Peer \in Actor
      /\ TypeOK /\ MailInv /\ QueueInv
      /\ UNCHANGED <<remote, coreVars, peerList, script, opened, known, player, seen, fault>>
    BY Actors DEF WaitActivated, MapUnchanged, IInv
<1>2. PICK r \in {Peer} \cup Map \cup Script : Top(m).by = r /\ Top(m).map = m /\ Live(m)
    <2>1. Top(m) \in For(m) /\ Live(m)
        BY <1>1, Handled
    <2>2. Top(m).by \in {Peer} \cup Map \cup Script /\ Top(m).map = m
        BY <1>1, <2>1, Actors DEF For, ForMap
    <2> QED
        BY <2>1, <2>2
<1>3. map \in [Map -> MapActor] /\ map[m] \in MapActor /\ r \in Actor
    BY <1>1, Typed, Actors
<1>4. \A t, k, q : Is(Top(m), t, k, q) <=> t = "WAITACTIVATED" /\ k = m /\ q = r
    BY <1>1, <1>2 DEF Is
<1>5. CASE map[m].active = TRUE
    <2> DEFINE to == IF r = Peer THEN Peer ELSE Core
               y == Msg("ACTIVATED", m, r, TRUE)
               actor == map[m]
    <2>1. to \in {Core, Peer} /\ to \in Actor /\ (r = Peer => to = Peer) /\ (r \in Client => to = Core)
        BY <1>1, Actors DEF Client
    <2>2. y \in For(to)
        BY <1>2, Actors DEF Msg, For, ForCore, ForPeer, Message, MsgType
    <2>3. \A t, k, q : Is(y, t, k, q) <=> t = "ACTIVATED" /\ k = m /\ q = r
        BY DEF Is, Msg
    <2>4. box' = Deliver(Take(m), Post(to, y)) /\ map' = map
        BY <1>2, <1>5 DEF WaitActivated, Activated
    <2> HIDE DEF to, y
    <2>5. /\ Fit(box') /\ \A c \in Actor : c \notin {m, to} => box'[c] = box[c]
          /\ \A c \in Actor : \A t, k, q :
                 /\ F(box', c, t, k, q) \in Nat /\ F(box, c, t, k, q) \in Nat
                 /\ F(box', c, t, k, q) = F(box, c, t, k, q) - (IF c = m /\ t = "WAITACTIVATED" /\ k = m /\ q = r THEN 1 ELSE 0)
                                                             + (IF c = to /\ t = "ACTIVATED" /\ k = m /\ q = r THEN 1 ELSE 0)
        BY <1>1, <1>4, <2>1, <2>2, <2>3, <2>4, Exchange
    <2>6. map' = [map EXCEPT ![m] = actor] /\ Waits(m, Peer)' = Waits(m, Peer)
        BY <1>3, <2>4 DEF Waits
    <2>7. ASSUME NEW q \in Client
          PROVE  F(box', m, "WAITACTIVATED", m, q) + Waits(m, q)' + F(box', Core, "ACTIVATED", m, q)
                     = F(box, m, "WAITACTIVATED", m, q) + Waits(m, q) + F(box, Core, "ACTIVATED", m, q)
        <3>1. Waits(m, q)' = Waits(m, q) /\ Waits(m, q) \in Nat
            BY <2>4, LoadNat DEF Waits
        <3>2. /\ F(box', m, "WAITACTIVATED", m, q) = F(box, m, "WAITACTIVATED", m, q) - (IF q = r THEN 1 ELSE 0)
              /\ F(box', Core, "ACTIVATED", m, q) = F(box, Core, "ACTIVATED", m, q) + (IF q = r THEN 1 ELSE 0)
              /\ F(box, m, "WAITACTIVATED", m, q) \in Nat /\ F(box, Core, "ACTIVATED", m, q) \in Nat
            BY <1>1, <2>1, <2>5, Actors
        <3> QED
            BY <3>1, <3>2
    <2>8. F(box', m, "WAITACTIVATED", m, Peer) + Waits(m, Peer)' + F(box', Peer, "ACTIVATED", m, Peer)
              = F(box, m, "WAITACTIVATED", m, Peer) + Waits(m, Peer) + F(box, Peer, "ACTIVATED", m, Peer)
        <3>1. /\ F(box', m, "WAITACTIVATED", m, Peer) = F(box, m, "WAITACTIVATED", m, Peer) - (IF r = Peer THEN 1 ELSE 0)
              /\ F(box', Peer, "ACTIVATED", m, Peer) = F(box, Peer, "ACTIVATED", m, Peer) + (IF r = Peer THEN 1 ELSE 0)
              /\ F(box, m, "WAITACTIVATED", m, Peer) \in Nat /\ F(box, Peer, "ACTIVATED", m, Peer) \in Nat
              /\ Waits(m, Peer) \in Nat
            BY <1>1, <2>1, <2>5, ChainNat, Actors
        <3> QED
            BY <2>6, <3>1
    <2>9. \A n \in Map \ {m} : box'[n] = box[n]
        BY <2>1, <2>5, Actors
    <2>10. \A c \in Actor : \A t, k, q : (t # "WAITACTIVATED" /\ t # "ACTIVATED") \/ k # m => F(box', c, t, k, q) = F(box, c, t, k, q)
        BY <2>5
    <2>11. /\ actor.active = TRUE => actor.waiting = <<>>
           /\ \A i \in DOMAIN actor.waiting : actor.waiting[i] \in {Peer} \cup Map \cup Script
        BY <1>1, ChainNat DEF State, QueueInv
    <2> QED
        BY <1>1, <1>2, <1>3, <2>5, <2>6, <2>7, <2>8, <2>9, <2>10, <2>11, Waking
<1>6. CASE map[m].active = FALSE
    <2> DEFINE actor == [map[m] EXCEPT !.waiting = Append(map[m].waiting, r)]
    <2>1. box' = Take(m) /\ map' = [map EXCEPT ![m] = actor]
        BY <1>2, <1>3, <1>6 DEF WaitActivated
    <2>2. /\ actor \in MapActor /\ actor.state = map[m].state /\ actor.closing = map[m].closing /\ actor.todo = map[m].todo
          /\ actor.active = FALSE /\ actor.waiting = Append(map[m].waiting, r) /\ map[m].waiting \in Seq(Actor)
        <3>1. map[m].waiting \in Seq(Actor)
            BY <1>3 DEF MapActor
        <3>2. Append(map[m].waiting, r) \in Seq(Actor)
            BY <1>3, <3>1
        <3> QED
            BY <1>3, <1>6, <3>1, <3>2 DEF MapActor
    <2> HIDE DEF actor
    <2>3. map'[m] = actor
        BY <1>3, <2>1
    <2>4. ASSUME NEW q PROVE Waits(m, q)' = Waits(m, q) + (IF q = r THEN 1 ELSE 0) /\ Waits(m, q) \in Nat
        <3>1. N(Append(map[m].waiting, r), {q}) = N(map[m].waiting, {q}) + (IF r \in {q} THEN 1 ELSE 0)
            BY <1>3, <2>2, CountAppend
        <3>2. Waits(m, q) \in Nat
            BY <1>1, QueueNat
        <3> QED
            BY <2>2, <2>3, <3>1, <3>2 DEF Waits
    <2>5. /\ Fit(box') /\ \A c \in Actor : c # m => box'[c] = box[c]
          /\ \A c \in Actor : \A t, k, q :
                 /\ F(box', c, t, k, q) \in Nat /\ F(box, c, t, k, q) \in Nat
                 /\ F(box', c, t, k, q) = F(box, c, t, k, q) - (IF c = m /\ t = "WAITACTIVATED" /\ k = m /\ q = r THEN 1 ELSE 0)
        BY <1>1, <1>4, <2>1, Taken
    <2>6. ASSUME NEW q
          PROVE  /\ F(box', m, "WAITACTIVATED", m, q) = F(box, m, "WAITACTIVATED", m, q) - (IF q = r THEN 1 ELSE 0)
                 /\ F(box', Core, "ACTIVATED", m, q) = F(box, Core, "ACTIVATED", m, q)
                 /\ F(box', Peer, "ACTIVATED", m, q) = F(box, Peer, "ACTIVATED", m, q)
                 /\ F(box, m, "WAITACTIVATED", m, q) \in Nat /\ F(box, Core, "ACTIVATED", m, q) \in Nat
                 /\ F(box, Peer, "ACTIVATED", m, q) \in Nat
        BY <1>1, <2>5
    <2>7. ASSUME NEW q \in Client
          PROVE  F(box', m, "WAITACTIVATED", m, q) + Waits(m, q)' + F(box', Core, "ACTIVATED", m, q)
                     = F(box, m, "WAITACTIVATED", m, q) + Waits(m, q) + F(box, Core, "ACTIVATED", m, q)
        BY <2>4, <2>6
    <2>8. F(box', m, "WAITACTIVATED", m, Peer) + Waits(m, Peer)' + F(box', Peer, "ACTIVATED", m, Peer)
              = F(box, m, "WAITACTIVATED", m, Peer) + Waits(m, Peer) + F(box, Peer, "ACTIVATED", m, Peer)
        BY <2>4, <2>6
    <2>9. \A n \in Map \ {m} : box'[n] = box[n]
        BY <2>5, Actors
    <2>10. \A c \in Actor : \A t, k, q : (t # "WAITACTIVATED" /\ t # "ACTIVATED") \/ k # m => F(box', c, t, k, q) = F(box, c, t, k, q)
        BY <2>5
    <2>11. \A i \in DOMAIN actor.waiting : actor.waiting[i] \in {Peer} \cup Map \cup Script
        <3>1. \A i \in DOMAIN map[m].waiting : map[m].waiting[i] \in {Peer} \cup Map \cup Script
            BY <1>1 DEF QueueInv
        <3> QED
            BY <2>2, <3>1
    <2> QED
        BY <1>1, <1>2, <2>1, <2>2, <2>5, <2>7, <2>8, <2>9, <2>10, <2>11, Waking
<1>7. map[m].active \in BOOLEAN
    BY <1>3 DEF MapActor
<1> QED
    BY <1>5, <1>6, <1>7

LEMMA ActivateKeeps ==
    ASSUME IInv, NEW m \in Map, Activate(m)
    PROVE  IInv'
<1>1. /\ Live(m) /\ m \in Actor /\ Core \in Actor /\ Peer \in Actor /\ TypeOK /\ MailInv /\ QueueInv
      /\ UNCHANGED <<remote, coreVars, peerList, script, opened, known, player, seen, fault>>
    BY Actors DEF Activate, MapUnchanged, IInv, Live
<1>2. /\ map[m] \in MapActor /\ map[m].waiting \in Seq(Actor)
      /\ \A i \in DOMAIN map[m].waiting : map[m].waiting[i] \in {Peer} \cup Map \cup Script
    BY <1>1, Typed DEF MapActor, QueueInv
<1>3. PICK w \in Seq(Actor) :
          w = map[m].waiting /\ \A i \in DOMAIN w : w[i] \in {Peer} \cup Map \cup Script
    BY <1>2
<1> DEFINE actor == [map[m] EXCEPT !.active = TRUE, !.waiting = <<>>]
           wake(r) == Msg("ACTIVATED", m, r, TRUE)
           at(r) == IF r = Peer THEN Peer ELSE Core
           posts == [i \in DOMAIN w |-> Activated(m, w[i])]
<1>4. map' = [map EXCEPT ![m] = actor] /\ box' = DeliverAll(box, posts)
    <2>1. map \in [Map -> MapActor]
        BY <1>1, Typed
    <2> QED
        BY <1>2, <1>3, <2>1 DEF Activate
<1>5. /\ actor \in MapActor /\ actor.state = map[m].state /\ actor.closing = map[m].closing /\ actor.todo = map[m].todo
      /\ actor.active = TRUE /\ actor.waiting = <<>>
    <2>1. <<>> \in Seq(Actor)
        OBVIOUS
    <2> QED
        BY <1>2, <2>1 DEF MapActor
<1> HIDE DEF actor
<1>6. DOMAIN posts = DOMAIN w
    OBVIOUS
<1>7. ASSUME NEW i \in DOMAIN w
      PROVE  posts[i].to = at(w[i]) /\ posts[i].msg = wake(w[i]) /\ posts[i] \in FitPosts
    <2>1. posts[i] = Post(at(w[i]), wake(w[i]))
        BY DEF Activated
    <2>2. w[i] \in {Peer} \cup Map \cup Script
        BY <1>3
    <2>3. ASSUME NEW r \in {Peer} \cup Map \cup Script PROVE at(r) \in Actor /\ wake(r) \in For(at(r)) /\ wake(r) \in Message
        BY <1>1, Actors DEF Msg, For, ForCore, ForPeer, Message, MsgType
    <2> HIDE DEF posts, at, wake
    <2>4. at(w[i]) \in Actor /\ wake(w[i]) \in For(at(w[i])) /\ wake(w[i]) \in Message
        BY <2>2, <2>3
    <2> DEFINE a == at(w[i])  x == wake(w[i])
    <2>5. Post(a, x).to = a /\ Post(a, x).msg = x /\ Post(a, x) \in FitPosts
        <3>1. a \in Actor /\ x \in For(a) /\ x \in Message
            BY <2>4
        <3> HIDE DEF a, x
        <3> QED
            BY <3>1 DEF Post, FitPosts, Posts
    <2> QED
        BY <2>1, <2>5
<1>8. posts \in Seq(FitPosts)
    <2>1. DOMAIN w = 1 .. Len(w) /\ Len(w) \in Nat
        OBVIOUS
    <2>2. posts \in [1 .. Len(w) -> FitPosts]
        BY <1>7, <2>1
    <2> HIDE DEF posts
    <2> QED
        BY <2>1, <2>2
<1>9. ASSUME NEW r \in Actor
      PROVE  \A t, k, q : wake(r) \in From(t, k, q) <=> t = "ACTIVATED" /\ k = m /\ q = r
    BY DEF From, Msg, Message, MsgType
<1>10. \A r \in Client : at(r) = Core
    BY Actors DEF Client
<1>11. at(Peer) = Peer /\ \A r : at(r) \in {Core, Peer}
    OBVIOUS
<1> HIDE DEF posts, wake, at
<1>12. /\ Fit(box')
       /\ \A c \in Actor : \A t, k, q :
              /\ F(box', c, t, k, q) = F(box, c, t, k, q) + Cardinality(Sends(posts, c, From(t, k, q)))
              /\ F(box, c, t, k, q) \in Nat
       /\ \A c \in Actor : (\A i \in DOMAIN posts : posts[i].to # c) => box'[c] = box[c]
    BY <1>1, <1>4, <1>8, SentAll DEF MailInv
<1>13. \A n \in Map : box'[n] = box[n]
    <2> SUFFICES ASSUME NEW n \in Map PROVE box'[n] = box[n]
        OBVIOUS
    <2>1. n \in Actor /\ n # Core /\ n # Peer
        BY Actors
    <2>2. \A i \in DOMAIN posts : posts[i].to # n
        BY <1>6, <1>7, <1>11, <2>1
    <2> QED
        BY <1>12, <2>1, <2>2
<1>14. \A c \in Actor : \A t, k, q : (t # "WAITACTIVATED" /\ t # "ACTIVATED") \/ k # m => F(box', c, t, k, q) = F(box, c, t, k, q)
    <2> SUFFICES ASSUME NEW c \in Actor, NEW t, NEW k, NEW q, t # "ACTIVATED" \/ k # m
                 PROVE  F(box', c, t, k, q) = F(box, c, t, k, q)
        OBVIOUS
    <2>1. ASSUME NEW i \in DOMAIN posts PROVE posts[i].msg \notin From(t, k, q)
        BY <1>6, <1>7, <1>9
    <2>2. Sends(posts, c, From(t, k, q)) = {}
        BY <2>1 DEF Sends
    <2>3. Cardinality(Sends(posts, c, From(t, k, q))) = 0
        BY <2>2, FS_EmptySet
    <2> QED
        BY <1>12, <2>3
<1>15. \A q : Waits(m, q)' = 0
    <2>1. map'[m].waiting = <<>>
        BY <1>1, <1>4, <1>5, Typed
    <2> QED
        BY <2>1, CountEmpty DEF Waits
<1>16. ASSUME NEW q \in Client \cup {Peer}
       PROVE  Cardinality(Sends(posts, at(q), From("ACTIVATED", m, q))) = Waits(m, q)
    <2>1. ASSUME NEW i \in DOMAIN w
          PROVE  posts[i].to = at(q) /\ posts[i].msg \in From("ACTIVATED", m, q) <=> w[i] \in {q}
        <3>1. w[i] \in Actor
            OBVIOUS
        <3>2. wake(w[i]) \in From("ACTIVATED", m, q) <=> w[i] = q
            BY <1>9, <3>1
        <3> QED
            BY <1>7, <3>2
    <2>2. Sends(posts, at(q), From("ACTIVATED", m, q)) = {i \in DOMAIN w : w[i] \in {q}}
        BY <1>6, <2>1 DEF Sends
    <2> QED
        BY <1>3, <2>2 DEF Waits, N
<1>17. ASSUME NEW q \in Client
       PROVE  F(box', m, "WAITACTIVATED", m, q) + Waits(m, q)' + F(box', Core, "ACTIVATED", m, q)
                  = F(box, m, "WAITACTIVATED", m, q) + Waits(m, q) + F(box, Core, "ACTIVATED", m, q)
    <2>1. F(box', Core, "ACTIVATED", m, q) = F(box, Core, "ACTIVATED", m, q) + Waits(m, q)
        BY <1>1, <1>10, <1>12, <1>16
    <2>2. F(box', m, "WAITACTIVATED", m, q) = F(box, m, "WAITACTIVATED", m, q) /\ Waits(m, q)' = 0
        BY <1>13, <1>15 DEF F
    <2>3. /\ F(box, m, "WAITACTIVATED", m, q) \in Nat /\ Waits(m, q) \in Nat
          /\ F(box, Core, "ACTIVATED", m, q) \in Nat
        BY LoadNat
    <2> QED
        BY <2>1, <2>2, <2>3
<1>18. F(box', m, "WAITACTIVATED", m, Peer) + Waits(m, Peer)' + F(box', Peer, "ACTIVATED", m, Peer)
           = F(box, m, "WAITACTIVATED", m, Peer) + Waits(m, Peer) + F(box, Peer, "ACTIVATED", m, Peer)
    <2>1. F(box', Peer, "ACTIVATED", m, Peer) = F(box, Peer, "ACTIVATED", m, Peer) + Waits(m, Peer)
        BY <1>1, <1>11, <1>12, <1>16
    <2>2. F(box', m, "WAITACTIVATED", m, Peer) = F(box, m, "WAITACTIVATED", m, Peer) /\ Waits(m, Peer)' = 0
        BY <1>13, <1>15 DEF F
    <2>3. /\ F(box, m, "WAITACTIVATED", m, Peer) \in Nat /\ Waits(m, Peer) \in Nat
          /\ F(box, Peer, "ACTIVATED", m, Peer) \in Nat
        BY <1>1, ChainNat
    <2> QED
        BY <2>1, <2>2, <2>3
<1>19. \A i \in DOMAIN actor.waiting : actor.waiting[i] \in {Peer} \cup Map \cup Script
    BY <1>5
<1> QED
    BY <1>1, <1>4, <1>5, <1>12, <1>13, <1>14, <1>17, <1>18, <1>19, Waking

-----------------------------------------------------------------------------
(* The close of a map.                                                      *)

\* The core that runs a map asks it to close, when nobody else does.
LEMMA AskedToClose ==
    ASSUME IInv, NEW m \in Map, F(box, m, "CLOSEMAP", m, Core) # 0 \/ F(box, m, "CLOSEMAP", m, Peer) # 0
    PROVE  /\ map[m].closing = None /\ Gone(m) = 0 /\ F(box, Peer, "CLOSEMAP", m, Core) = 0
           /\ F(box, m, "CLOSEMAP", m, Core) + F(box, m, "CLOSEMAP", m, Peer) = 1
           /\ m \in Instance /\ m \in coreList /\ m \in known /\ closeOp[m] # <<>> /\ loadOp[m] = <<>>
<1>1. closeOp[m] # <<>> /\ m \in coreList /\ loadOp[m] = <<>> /\ m \in known /\ Closing(m) = 1 /\ m \in Instance
    BY ClosingAt
<1> DEFINE a == F(box, Peer, "CLOSEMAP", m, Core)  b == F(box, m, "CLOSEMAP", m, Core)
           c == F(box, m, "CLOSEMAP", m, Peer)  d == IF map[m].closing # None THEN 1 ELSE 0  g == Gone(m)
<1>2. /\ a \in Nat /\ b \in Nat /\ c \in Nat /\ d \in Nat /\ g \in Nat
      /\ a + b + c + d + g = 1 /\ (b # 0 \/ c # 0)
    BY <1>1, ChainNat, Actors DEF Closing
<1>3. a = 0 /\ b + c = 1 /\ d = 0 /\ g = 0
    <2> HIDE DEF a, b, c, d, g
    <2> QED
        BY <1>2
<1> QED
    BY <1>1, <1>3 DEF a, b, c, d, g

LEMMA CloseMapKeeps ==
    ASSUME IInv, NEW m \in Map, CloseMap(m)
    PROVE  IInv' /\ UNCHANGED fault
<1>1. /\ Got(m) /\ Top(m).type = "CLOSEMAP" /\ m \in Actor /\ Core \in Actor /\ Peer \in Actor /\ m # Core /\ m # Peer
      /\ TypeOK /\ MailInv /\ QueueInv
      /\ UNCHANGED <<remote, coreVars, peerList, script, opened, known, player, seen>>
    BY Actors DEF CloseMap, MapUnchanged, IInv
<1>2. PICK by \in {Core, Peer} : Top(m).by = by /\ Top(m).map = m /\ Live(m) /\ F(box, m, "CLOSEMAP", m, by) # 0
    <2>1. Top(m) \in For(m) /\ Live(m) /\ F(box, m, "CLOSEMAP", Top(m).map, Top(m).by) # 0
        BY <1>1, Handled
    <2>2. Top(m).by \in {Core, Peer} /\ Top(m).map = m
        BY <1>1, <2>1, Actors DEF For, ForMap
    <2> QED
        BY <2>1, <2>2
<1>3. /\ map[m].closing = None /\ Gone(m) = 0 /\ F(box, Peer, "CLOSEMAP", m, Core) = 0
      /\ F(box, m, "CLOSEMAP", m, Core) + F(box, m, "CLOSEMAP", m, Peer) = 1
      /\ m \in Instance /\ m \in coreList /\ m \in known /\ closeOp[m] # <<>> /\ loadOp[m] = <<>> /\ m # Exit
    BY <1>2, AskedToClose, Actors
<1>4. by = Keeper(m) /\ map[m].todo = <<>>
    BY <1>2, <1>3, ChainNat DEF State, Keeper
<1> DEFINE actor == [map[m] EXCEPT !.closing = by]
           y == Msg("LOADMAP", Exit, m, TRUE)
<1>5. map' = [map EXCEPT ![m] = actor] /\ box' = Put(Take(m), Core, y) /\ UNCHANGED fault
    <2>1. map \in [Map -> MapActor]
        BY <1>1, Typed
    <2> QED
        BY <1>2, <1>3, <2>1 DEF CloseMap
<1>6. /\ actor \in MapActor /\ actor.state = map[m].state /\ actor.active = map[m].active /\ actor.closing = by
      /\ actor.todo = map[m].todo /\ actor.waiting = map[m].waiting
    <2>1. map[m] \in MapActor
        BY <1>1, Typed
    <2> QED
        BY <2>1 DEF MapActor
<1>7. y \in For(Core) /\ \A t, k, q : Is(y, t, k, q) <=> t = "LOADMAP" /\ k = Exit /\ q = m
    BY Actors DEF Msg, For, ForCore, Message, MsgType, Is, Client
<1>8. \A t, k, q : Is(Top(m), t, k, q) <=> t = "CLOSEMAP" /\ k = m /\ q = by
    BY <1>1, <1>2 DEF Is
<1> HIDE DEF actor, y
<1>9. map' \in [Map -> MapActor] /\ map'[m] = actor /\ \A n \in Map \ {m} : map'[n] = map[n]
    BY <1>1, <1>5, <1>6, OneMap
<1>10. /\ Fit(box') /\ \A c \in Actor : c # m /\ c # Core => box'[c] = box[c]
       /\ \A c \in Actor : \A t, k, q :
              /\ F(box', c, t, k, q) \in Nat /\ F(box, c, t, k, q) \in Nat
              /\ F(box', c, t, k, q) = F(box, c, t, k, q) - (IF c = m /\ t = "CLOSEMAP" /\ k = m /\ q = by THEN 1 ELSE 0)
                                                          + (IF c = Core /\ t = "LOADMAP" /\ k = Exit /\ q = m THEN 1 ELSE 0)
    BY <1>1, <1>5, <1>7, <1>8, Exchange
<1>11. RegistryInv'
    <2>1. ASSUME NEW n \in Map, n = m PROVE Chain(n)' /\ State(n)'
        <3>1. Chain(n) /\ State(n)
            BY ChainNat
        <3>2. Waits(n, Peer)' = Waits(n, Peer)
            BY <1>6, <1>9, <2>1 DEF Waits
        <3>3. \A c \in Actor : \A t : \A q \in {Core, Peer} :
                  F(box', c, t, n, q) = F(box, c, t, n, q) - (IF c = m /\ t = "CLOSEMAP" /\ q = by THEN 1 ELSE 0)
            BY <1>1, <1>10, <2>1, Actors
        <3>4. \A c \in Actor : \A t : \A q \in {Core, Peer} : t # "CLOSEMAP" => F(box', c, t, n, q) = F(box, c, t, n, q)
            BY <1>10, <3>3
        <3>5. Gone(n)' = Gone(n) /\ Loading(n)' = Loading(n)
            BY <1>1, <2>1, <3>2, <3>4 DEF Gone, Loading
        <3>6. F(box', Peer, "CLOSEMAP", n, Core) = 0 /\ F(box', m, "CLOSEMAP", n, Core) = 0 /\ F(box', m, "CLOSEMAP", n, Peer) = 0
            <4>1. F(box', Peer, "CLOSEMAP", n, Core) = 0
                BY <1>1, <1>3, <1>10, <2>1
            <4>2. \A q \in {Core, Peer} : F(box', m, "CLOSEMAP", n, q) = F(box, m, "CLOSEMAP", n, q) - (IF q = by THEN 1 ELSE 0)
                BY <1>1, <3>3
            <4>3. \A q \in {Core, Peer} : F(box', m, "CLOSEMAP", n, q) \in Nat /\ F(box, m, "CLOSEMAP", n, q) \in Nat
                BY <1>1, <1>10
            <4>4. CASE by = Core
                BY <1>1, <1>3, <2>1, <4>1, <4>2, <4>3, <4>4
            <4>5. CASE by = Peer
                BY <1>1, <1>3, <2>1, <4>1, <4>2, <4>3, <4>5
            <4> QED
                BY <4>4, <4>5
        <3>7. Closing(n)' = 1
            BY <1>1, <1>3, <1>6, <1>9, <2>1, <3>5, <3>6, Actors DEF Closing
        <3>8. Chain(n)'
            BY <1>1, <1>3, <1>6, <1>9, <2>1, <3>1, <3>5, <3>7 DEF Chain, coreVars
        <3>9. Live(n) /\ Live(n)'
            BY <1>2, <1>6, <1>9, <2>1 DEF Live
        <3>10. F(box', Peer, "CLOSED", n, Peer) = F(box, Peer, "CLOSED", n, Peer)
            BY <1>1, <3>4
        <3>11. State(n)'
            BY <1>1, <1>3, <1>4, <1>6, <1>9, <2>1, <3>1, <3>5, <3>6, <3>9, <3>10, Actors DEF State, Keeper, coreVars
        <3> QED
            BY <3>8, <3>11
    <2>2. \A n \in Map \ {m} : /\ box'[n] = box[n]
                               /\ \A c \in Actor : \A t : \A q \in {Core, Peer} : F(box', c, t, n, q) = F(box, c, t, n, q)
        BY <1>1, <1>10, Actors
    <2> QED
        BY <1>1, <1>9, <2>1, <2>2, OthersKeep DEF coreVars
<1>12. LoadInv'
    <2> SUFFICES ASSUME NEW r \in Client, NEW n \in Map PROVE Load(r, n)'
        BY DEF LoadInv
    <2>1. /\ F(box', Core, "ACTIVATED", n, r) = F(box, Core, "ACTIVATED", n, r)
          /\ F(box', n, "WAITACTIVATED", n, r) = F(box, n, "WAITACTIVATED", n, r)
          /\ F(box', r, "LOADED", n, r) = F(box, r, "LOADED", n, r)
          /\ F(box', Core, "LOADMAP", n, r) = F(box, Core, "LOADMAP", n, r) + (IF n = Exit /\ r = m THEN 1 ELSE 0)
        BY <1>1, <1>10, LoadNat
    <2>2. loadOp'[n] = loadOp[n] /\ map'[n].waiting = map[n].waiting /\ Waits(n, r)' = Waits(n, r)
        BY <1>1, <1>6, <1>9 DEF coreVars, Waits
    <2>3. CASE r = m /\ n = Exit
        <3>1. ~Wants(r, n) /\ Wants(r, n)'
            BY <1>1, <1>2, <1>3, <1>4, <1>6, <1>9, <2>3, Actors DEF Wants
        <3>2. Requests(r, n) = 0
            BY <3>1, LoadNat DEF Load
        <3>3. Requests(r, n)' = Requests(r, n) + 1
            BY <2>1, <2>2, <2>3, LoadNat DEF Requests
        <3> QED
            BY <3>1, <3>2, <3>3 DEF Load
    <2>4. CASE r # m \/ n # Exit
        <3>1. Wants(r, n)' <=> Wants(r, n)
            BY <1>1, <1>9, <2>4, Actors DEF Wants
        <3> QED
            BY <2>1, <2>2, <2>4, <3>1, LoadNat, SameLoad
    <2> QED
        BY <2>3, <2>4
<1>13. /\ \A n \in Map : map'[n].todo = map[n].todo /\ map'[n].waiting = map[n].waiting
       /\ \A c \in Actor : \A t \in {"CLOSEMAP", "CLOSED", "TRIGGER", "SWITCHED"} : \A k : \A q \in Client :
              F(box', c, t, k, q) = F(box, c, t, k, q)
    <2>1. \A q \in Client : q # by
        BY Actors DEF Client
    <2> QED
        BY <1>6, <1>9, <1>10, <2>1
<1>14. KnownInv' /\ CloseInv' /\ SentInv' /\ IdleInv' /\ QueueInv'
    BY <1>1, <1>13, Aside, AsideQueues DEF coreVars
<1>15. TypeOK'
    BY <1>1, <1>5, <1>9, <1>10, Typed, TypeKeeps
<1> QED
    BY <1>5, <1>10, <1>11, <1>12, <1>14, <1>15 DEF IInv, MailInv

\* What a map that closes has got: the exit map, or the answer of the player
\* that it has sent away.
Turn(m, type, where, who) ==
    /\ Got(m) /\ map[m].closing # None
    /\ \A t, k, q : Is(Top(m), t, k, q) <=> t = type /\ k = where /\ q = who
    /\ \/ type = "LOADED" /\ where = Exit /\ who = m /\ map[m].todo = <<>>
       \/ type = "SWITCHED" /\ where = m /\ who \in Player /\ map[m].todo # <<>> /\ Head(map[m].todo) = who

SeenInv == seen \subseteq {"busy", "locked"} \cup Player
Away(m) == Msg("TRIGGER", Exit, m, TRUE)

LEMMA EvacuateNext ==
    ASSUME IInv, NEW m \in Map, NEW type \in {"LOADED", "SWITCHED"}, NEW where \in Map, NEW who \in Client,
           Turn(m, type, where, who),
           NEW todo \in Seq(Player), todo # <<>>,
           map' = [map EXCEPT ![m].todo = todo],
           box' = Put(Take(m), Head(todo), Away(m)),
           UNCHANGED <<remote, coreVars, peerList, script, opened, known, player, fault>>,
           SeenInv'
    PROVE  IInv'
<1>1. /\ Got(m) /\ m \in Actor /\ Core \in Actor /\ Peer \in Actor /\ m # Core /\ m # Peer /\ m \in Client
      /\ TypeOK /\ MailInv /\ map[m].closing # None
    BY Actors DEF Turn, IInv, Client
<1>2. m \in Instance /\ m # Exit /\ Live(m)
    BY <1>1, ClosingAt, Handled, Actors
<1>3. who \notin {Core, Peer} /\ (type = "LOADED" => where = Exit /\ who = m) /\ (type = "SWITCHED" => where = m /\ who \in Player)
    BY Actors DEF Client, Turn
<1> DEFINE actor == [map[m] EXCEPT !.todo = todo]
           y == Away(m)
<1>4. PICK p \in Player : p = Head(todo)
    OBVIOUS
<1>5. map' = [map EXCEPT ![m] = actor] /\ box' = Put(Take(m), p, y)
    <2>1. map \in [Map -> MapActor]
        BY <1>1, Typed
    <2> QED
        BY <1>4, <2>1
<1>6. /\ actor \in MapActor /\ actor.state = map[m].state /\ actor.active = map[m].active /\ actor.closing = map[m].closing
      /\ actor.todo = todo /\ actor.waiting = map[m].waiting
    <2>1. map[m] \in MapActor
        BY <1>1, Typed
    <2> QED
        BY <2>1 DEF MapActor
<1>7. y \in For(p) /\ p \in Actor /\ \A t, k, q : Is(y, t, k, q) <=> t = "TRIGGER" /\ k = Exit /\ q = m
    BY Actors DEF Away, Msg, For, ForPlayer, Message, MsgType, Is
<1> HIDE DEF actor, y
<1>8. map' \in [Map -> MapActor] /\ map'[m] = actor /\ \A n \in Map \ {m} : map'[n] = map[n]
    BY <1>1, <1>5, <1>6, OneMap
<1>9. /\ Fit(box') /\ \A c \in Actor : c # m /\ c # p => box'[c] = box[c]
      /\ \A c \in Actor : \A t, k, q :
             /\ F(box', c, t, k, q) \in Nat /\ F(box, c, t, k, q) \in Nat
             /\ F(box', c, t, k, q) = F(box, c, t, k, q) - (IF c = m /\ t = type /\ k = where /\ q = who THEN 1 ELSE 0)
                                                         + (IF c = p /\ t = "TRIGGER" /\ k = Exit /\ q = m THEN 1 ELSE 0)
    <2>1. \A t, k, q : Is(Top(m), t, k, q) <=> t = type /\ k = where /\ q = who
        BY DEF Turn
    <2> QED
        BY <1>1, <1>5, <1>7, <2>1, Exchange
<1>10. RegistryInv'
    <2>1. \A c \in Actor : \A t, k : \A q \in {Core, Peer} : F(box', c, t, k, q) = F(box, c, t, k, q)
        BY <1>1, <1>3, <1>9
    <2>2. ASSUME NEW n \in Map, n = m PROVE Chain(n)' /\ State(n)'
        <3>1. Chain(n) /\ State(n) /\ Waits(n, Peer)' = Waits(n, Peer)
            BY <1>6, <1>8, <2>2, ChainNat DEF Waits
        <3>2. Gone(n)' = Gone(n) /\ Closing(n)' = Closing(n) /\ Loading(n)' = Loading(n)
            BY <1>1, <1>6, <1>8, <2>1, <2>2, <3>1 DEF Gone, Closing, Loading
        <3>3. Chain(n)'
            BY <1>6, <1>8, <2>2, <3>1, <3>2 DEF Chain, coreVars
        <3>4. Live(n) /\ Live(n)'
            BY <1>2, <1>6, <1>8, <2>2 DEF Live
        <3>5. /\ F(box', Peer, "CLOSED", n, Peer) = F(box, Peer, "CLOSED", n, Peer)
              /\ F(box', Peer, "LOADMAP", n, Core) = F(box, Peer, "LOADMAP", n, Core)
              /\ F(box', Peer, "CLOSEMAP", n, Core) = F(box, Peer, "CLOSEMAP", n, Core)
              /\ F(box', n, "CLOSEMAP", n, IF n \in remote THEN Core ELSE Peer) = F(box, n, "CLOSEMAP", n, IF n \in remote THEN Core ELSE Peer)
            BY <1>1, <2>1, <2>2
        <3>6. State(n)'
            BY <1>1, <1>6, <1>8, <2>2, <3>1, <3>2, <3>4, <3>5 DEF State, Keeper, coreVars
        <3> QED
            BY <3>3, <3>6
    <2>3. \A n \in Map \ {m} : box'[n] = box[n]
        BY <1>9, Actors
    <2>4. \A n \in Map \ {m} : \A c \in Actor : \A t : \A q \in {Core, Peer} : F(box', c, t, n, q) = F(box, c, t, n, q)
        BY <2>1
    <2> QED
        BY <1>1, <1>8, <2>2, <2>3, <2>4, OthersKeep DEF coreVars
<1>11. LoadInv'
    <2> SUFFICES ASSUME NEW r \in Client, NEW n \in Map PROVE Load(r, n)'
        BY DEF LoadInv
    <2>0. r \in Actor /\ n \in Actor
        BY LoadNat
    <2>1. /\ F(box', Core, "ACTIVATED", n, r) = F(box, Core, "ACTIVATED", n, r)
          /\ F(box', n, "WAITACTIVATED", n, r) = F(box, n, "WAITACTIVATED", n, r)
          /\ F(box', r, "LOADED", n, r) = F(box, r, "LOADED", n, r) - (IF r = m /\ type = "LOADED" /\ n = Exit THEN 1 ELSE 0)
          /\ F(box', Core, "LOADMAP", n, r) = F(box, Core, "LOADMAP", n, r)
        <3>1. F(box', Core, "ACTIVATED", n, r) = F(box, Core, "ACTIVATED", n, r) /\ F(box', Core, "LOADMAP", n, r) = F(box, Core, "LOADMAP", n, r)
            BY <1>1, <1>9
        <3>2. F(box', n, "WAITACTIVATED", n, r) = F(box, n, "WAITACTIVATED", n, r)
            BY <1>9, <2>0
        <3>3. F(box', r, "LOADED", n, r) = F(box, r, "LOADED", n, r) - (IF r = m /\ type = "LOADED" /\ n = Exit THEN 1 ELSE 0)
            <4>1. F(box', r, "LOADED", n, r) = F(box, r, "LOADED", n, r) - (IF r = m /\ "LOADED" = type /\ n = where /\ r = who THEN 1 ELSE 0)
                BY <1>9, <2>0
            <4> QED
                BY <1>3, <4>1
        <3> QED
            BY <3>1, <3>2, <3>3
    <2>2. loadOp'[n] = loadOp[n] /\ map'[n].waiting = map[n].waiting /\ Waits(n, r)' = Waits(n, r)
        BY <1>1, <1>6, <1>8 DEF coreVars, Waits
    <2>3. CASE r = m /\ n = Exit /\ type = "LOADED"
        <3>1. Wants(r, n) /\ ~Wants(r, n)'
            BY <1>1, <1>6, <1>8, <2>3, Actors DEF Wants, Turn
        <3>2. Requests(r, n) = 1
            BY <3>1, LoadNat DEF Load
        <3>3. Requests(r, n)' = Requests(r, n) - 1
            <4> DEFINE a == F(box, Core, "LOADMAP", n, r)  b == F(box, Core, "ACTIVATED", n, r)
                       c == F(box, n, "WAITACTIVATED", n, r)  d == Waits(n, r)  e == F(box, r, "LOADED", n, r)
                       f == N(loadOp[n], By(r))
            <4>1. /\ a \in Nat /\ b \in Nat /\ c \in Nat /\ d \in Nat /\ e \in Nat /\ f \in Nat
                  /\ Requests(r, n) = a + b + f + c + d + e
                BY LoadNat DEF Requests
            <4>2. Requests(r, n)' = a + b + f + c + d + (e - 1)
                BY <2>1, <2>2, <2>3 DEF Requests
            <4> HIDE DEF a, b, c, d, e, f
            <4> QED
                BY <4>1, <4>2
        <3> QED
            BY <3>1, <3>2, <3>3 DEF Load
    <2>4. CASE r # m \/ n # Exit \/ type # "LOADED"
        <3>1. Wants(r, n)' <=> Wants(r, n)
            BY <1>1, <1>6, <1>8, <2>4, Actors DEF Wants, Turn
        <3>2. Load(r, n) /\ F(box, r, "LOADED", n, r) \in Nat
            BY LoadNat
        <3>3. F(box', r, "LOADED", n, r) = F(box, r, "LOADED", n, r)
            BY <2>1, <2>4, <3>2
        <3> QED
            BY <2>1, <2>2, <3>1, <3>2, <3>3, SameLoad
    <2> QED
        BY <2>3, <2>4
<1>12. SentInv'
    <2> SUFFICES ASSUME NEW n \in Map, NEW q \in Player PROVE Send(n, q)'
        BY DEF SentInv
    <2>1. Send(n, q) /\ q \in Actor /\ n \in Actor
        BY Actors DEF IInv, SentInv
    <2>2. F(box', q, "TRIGGER", Exit, n) = F(box, q, "TRIGGER", Exit, n) + (IF n = m /\ q = p THEN 1 ELSE 0)
        BY <1>9, <2>1, Actors
    <2>3. F(box', n, "SWITCHED", n, q) = F(box, n, "SWITCHED", n, q) - (IF n = m /\ type = "SWITCHED" /\ q = who THEN 1 ELSE 0)
        BY <1>9, <2>1, Actors DEF Turn
    <2>4. F(box, q, "TRIGGER", Exit, n) \in Nat /\ F(box, n, "SWITCHED", n, q) \in Nat
        BY <1>9, <2>1
    <2>5. CASE n = m
        <3>1. map'[n].todo = todo
            BY <1>6, <1>8, <2>5
        <3>2. Sent(n, q)' = Sent(n, q) + (IF q = p THEN 1 ELSE 0) - (IF type = "SWITCHED" /\ q = who THEN 1 ELSE 0)
            BY <2>2, <2>3, <2>4, <2>5 DEF Sent
        <3>3. Sent(n, q) = IF type = "SWITCHED" /\ q = who THEN 1 ELSE 0
            BY <2>1, <2>5 DEF Send, Turn
        <3> QED
            BY <1>4, <3>1, <3>2, <3>3 DEF Send
    <2>6. CASE n # m
        <3>1. map'[n].todo = map[n].todo
            BY <1>8, <2>6
        <3>2. Sent(n, q)' = Sent(n, q)
            BY <2>2, <2>3, <2>4, <2>6 DEF Sent
        <3> QED
            BY <2>1, <3>1, <3>2 DEF Send
    <2> QED
        BY <2>5, <2>6
<1>13. KnownInv' /\ CloseInv' /\ IdleInv' /\ QueueInv'
    <2>1. ASSUME NEW s \in Script, NEW n \in Map
          PROVE  /\ F(box', Core, "CLOSEMAP", n, s) = F(box, Core, "CLOSEMAP", n, s)
                 /\ F(box', s, "CLOSED", n, s) = F(box, s, "CLOSED", n, s)
        <3>1. s \in Actor
            BY Actors
        <3> QED
            BY <1>1, <1>9, <3>1
    <2>2. CloseInv'
        BY <2>1, SameClose DEF IInv, coreVars
    <2>3. \A n \in Map : map'[n].waiting = map[n].waiting
        BY <1>6, <1>8
    <2> QED
        BY <2>2, <2>3, SameScripts, SameFor, AsideQueues DEF IInv, coreVars
<1>14. TypeOK'
    <2>1. player' \in [Player -> Traveller] /\ fault' \in Fault \cup {None}
        BY <1>1, Typed
    <2> QED
        BY <1>1, <1>8, <1>9, <2>1, TypeKeeps DEF SeenInv
<1> QED
    BY <1>9, <1>10, <1>11, <1>12, <1>13, <1>14 DEF IInv, MailInv

\* When a map has sent everybody away, nobody waits for it any more.
LEMMA LastWaits ==
    ASSUME IInv, NEW m \in Map, NEW type \in {"LOADED", "SWITCHED"}, NEW where \in Map, NEW who \in Client,
           Turn(m, type, where, who)
    PROVE  /\ map[m].waiting = <<>> /\ F(box, m, "WAITACTIVATED", m, Peer) = 0
           /\ \A r \in Client : F(box, m, "WAITACTIVATED", m, r) = 0
<1>1. /\ map[m].closing # None /\ TypeOK /\ MailInv /\ QueueInv /\ m \in Actor /\ Core \in Actor /\ Peer \in Actor
    BY Actors DEF Turn, IInv
<1>2. m \in Instance /\ m # Exit /\ m \in known /\ Loading(m) = 0
    BY <1>1, ClosingAt, Actors
<1>3. F(box, m, "WAITACTIVATED", m, Peer) = 0 /\ Waits(m, Peer) = 0
    <2> DEFINE u == F(box, Peer, "LOADMAP", m, Core)  v == F(box, Peer, "ACTIVATED", m, Peer)
               w == F(box, m, "WAITACTIVATED", m, Peer)  x == Waits(m, Peer)
               s == F(box, Core, "LOADED", m, Core)  z == F(box, Core, "LOADED", m, Peer)
    <2>1. /\ u \in Nat /\ v \in Nat /\ w \in Nat /\ x \in Nat /\ s \in Nat /\ z \in Nat
          /\ u + v + w + x + s + z = 0
        BY <1>1, <1>2, ChainNat DEF Loading
    <2> HIDE DEF u, v, w, x, s, z
    <2>2. w = 0 /\ x = 0
        BY <2>1
    <2> QED
        BY <2>2 DEF w, x
<1>4. ASSUME NEW r \in Map \cup Script
      PROVE  F(box, m, "WAITACTIVATED", m, r) = 0 /\ Waits(m, r) = 0
    <2>1. r \in Client /\ r \notin Player
        BY Actors DEF Client
    <2>2. ~Wants(r, m)
        BY <1>2, <2>1, WantsOpen
    <2> QED
        BY <2>1, <2>2, Requested
<1>5. ASSUME NEW r \in Player PROVE F(box, m, "WAITACTIVATED", m, r) = 0
    <2>1. ASSUME NEW i \in DOMAIN box[m] PROVE box[m][i] \notin From("WAITACTIVATED", m, r)
        <3>1. box[m][i] \in For(m)
            BY <1>1 DEF MailInv, Fit
        <3> QED
            BY <3>1, Actors DEF For, ForMap, From
    <2>2. box \in Mailboxes
        BY <1>1 DEF MailInv, Fit
    <2> QED
        BY <1>1, <2>1, <2>2, BoxNat DEF F
<1>6. map[m].waiting = <<>>
    <2>1. map[m].waiting \in Seq(Actor)
        BY <1>1, QueueNat
    <2>2. ASSUME NEW i \in DOMAIN map[m].waiting PROVE FALSE
        <3>1. map[m].waiting[i] \in {Peer} \cup Map \cup Script
            BY <1>1 DEF QueueInv
        <3>2. PICK r \in {Peer} \cup Map \cup Script : r = map[m].waiting[i]
            BY <3>1
        <3>3. Waits(m, r) = 0
            BY <1>3, <1>4, <3>2
        <3>4. map[m].waiting[i] \in {r}
            BY <3>2
        <3> QED
            BY <2>1, <3>3, <3>4, CountFinite DEF Waits
    <2>3. map[m].waiting # <<>> => 1 \in DOMAIN map[m].waiting
        BY <2>1
    <2> QED
        BY <2>2, <2>3
<1> QED
    BY <1>3, <1>4, <1>5, <1>6 DEF Client

\* Nor has anybody a request to it, but players that are entering or leaving it.
LEMMA LastCounts ==
    ASSUME IInv, NEW m \in Map, NEW type \in {"LOADED", "SWITCHED"}, NEW where \in Map, NEW who \in Client,
           Turn(m, type, where, who)
    PROVE  /\ m \in Instance /\ m # Exit /\ Live(m) /\ m \in known /\ m \in coreList
           /\ closeOp[m] # <<>> /\ loadOp[m] = <<>> /\ map[m].closing = Keeper(m)
           /\ F(box, m, "CLOSEMAP", m, Core) = 0 /\ F(box, m, "CLOSEMAP", m, Peer) = 0
           /\ Gone(m) = 0 /\ F(box, Peer, "CLOSEMAP", m, Core) = 0
           /\ \A n \in Map : /\ F(Take(m), m, "LOADED", n, m) = 0
                             /\ Requests(m, n) = F(box, m, "LOADED", n, m)
           /\ \A q \in Player : /\ F(Take(m), m, "SWITCHED", m, q) = 0
                                /\ F(box, q, "TRIGGER", Exit, m) = 0 /\ player[q].for # m
<1>1. /\ Got(m) /\ map[m].closing # None /\ TypeOK /\ MailInv /\ m \in Actor /\ Core \in Actor /\ Peer \in Actor /\ m \in Client
    BY Actors DEF Turn, IInv, Client
<1>2. /\ m \in Instance /\ m # Exit /\ m \in known /\ m \in coreList /\ closeOp[m] # <<>> /\ loadOp[m] = <<>>
      /\ Closing(m) = 1
    BY <1>1, ClosingAt, Actors
<1>3. Live(m) /\ map[m].closing = Keeper(m)
    BY <1>1, Handled, ChainNat DEF State
<1>4. /\ F(box, m, "CLOSEMAP", m, Core) = 0 /\ F(box, m, "CLOSEMAP", m, Peer) = 0
      /\ Gone(m) = 0 /\ F(box, Peer, "CLOSEMAP", m, Core) = 0
    <2> DEFINE a == F(box, Peer, "CLOSEMAP", m, Core)  b == F(box, m, "CLOSEMAP", m, Core)
               c == F(box, m, "CLOSEMAP", m, Peer)  g == Gone(m)
    <2>1. a \in Nat /\ b \in Nat /\ c \in Nat /\ g \in Nat /\ a + b + c + 1 + g = 1
        BY <1>1, <1>2, ChainNat DEF Closing
    <2> HIDE DEF a, b, c, g
    <2>2. a = 0 /\ b = 0 /\ c = 0 /\ g = 0
        BY <2>1
    <2> QED
        BY <2>2 DEF a, b, c, g
<1>5. /\ \A c \in Actor : \A t, k, q :
             /\ F(Take(m), c, t, k, q) \in Nat /\ F(box, c, t, k, q) \in Nat
             /\ F(Take(m), c, t, k, q) = F(box, c, t, k, q) - (IF c = m /\ t = type /\ k = where /\ q = who THEN 1 ELSE 0)
    <2>1. \A t, k, q : Is(Top(m), t, k, q) <=> t = type /\ k = where /\ q = who
        BY DEF Turn
    <2> QED
        BY <1>1, <2>1, Taken
<1>6. (type = "LOADED" => where = Exit /\ who = m) /\ (type = "SWITCHED" => where = m /\ who \in Player)
    BY DEF Turn
<1>7. F(box, m, type, where, who) # 0
    BY <1>1, <1>5
<1>8. ASSUME NEW n \in Map
      PROVE  F(Take(m), m, "LOADED", n, m) = 0 /\ Requests(m, n) = F(box, m, "LOADED", n, m)
    <2>1. Wants(m, n) <=> n = Exit /\ type = "LOADED"
        BY <1>1, Actors DEF Wants, Turn
    <2> DEFINE a == F(box, Core, "LOADMAP", n, m)  b == F(box, Core, "ACTIVATED", n, m)
               c == F(box, n, "WAITACTIVATED", n, m)  d == Waits(n, m)  e == F(box, m, "LOADED", n, m)
               f == N(loadOp[n], By(m))  g == F(Take(m), m, "LOADED", n, m)
    <2>2. /\ a \in Nat /\ b \in Nat /\ c \in Nat /\ d \in Nat /\ e \in Nat /\ f \in Nat
          /\ Requests(m, n) = a + b + f + c + d + e
        BY <1>1, LoadNat DEF Requests
    <2>3. Requests(m, n) = IF Wants(m, n) THEN 1 ELSE 0
        BY <1>1, LoadNat DEF Load
    <2>4. g \in Nat /\ g = e - (IF "LOADED" = type /\ n = where /\ m = who THEN 1 ELSE 0)
        BY <1>1, <1>5
    <2>5. CASE n = Exit /\ type = "LOADED"
        <3>1. g = e - 1 /\ Requests(m, n) = 1
            BY <1>6, <2>1, <2>3, <2>4, <2>5
        <3> HIDE DEF a, b, c, d, e, f, g
        <3>2. g = 0 /\ Requests(m, n) = e
            BY <2>2, <2>4, <3>1
        <3> QED
            BY <3>2 DEF g, e
    <2>6. CASE n # Exit \/ type # "LOADED"
        <3>1. Requests(m, n) = 0
            BY <2>1, <2>3, <2>6
        <3>2. g = e
            BY <1>6, <2>2, <2>4, <2>6
        <3> HIDE DEF a, b, c, d, e, f, g
        <3>3. g = 0 /\ Requests(m, n) = e
            BY <2>2, <3>1, <3>2
        <3> QED
            BY <3>3 DEF g, e
    <2> QED
        BY <2>5, <2>6
<1>9. ASSUME NEW q \in Player
      PROVE  /\ F(Take(m), m, "SWITCHED", m, q) = 0
             /\ F(box, q, "TRIGGER", Exit, m) = 0 /\ player[q].for # m
    <2>1. Send(m, q) /\ q \in Actor
        BY Actors DEF IInv, SentInv
    <2> DEFINE a == F(box, q, "TRIGGER", Exit, m)  b == IF player[q].for = m THEN 1 ELSE 0
               c == F(box, m, "SWITCHED", m, q)  g == F(Take(m), m, "SWITCHED", m, q)
    <2>2. a \in Nat /\ b \in Nat /\ c \in Nat /\ g \in Nat /\ Sent(m, q) = a + b + c
        BY <1>1, <1>5, <2>1 DEF Sent
    <2>3. g = c - (IF "SWITCHED" = type /\ m = where /\ q = who THEN 1 ELSE 0)
        BY <1>1, <1>5
    <2>4. CASE type = "SWITCHED" /\ q = who
        <3>1. Sent(m, q) = 1 /\ g = c - 1
            BY <1>6, <2>1, <2>3, <2>4 DEF Send, Turn
        <3> HIDE DEF a, b, c, g
        <3>2. a = 0 /\ b = 0 /\ g = 0
            BY <2>2, <3>1
        <3> QED
            BY <3>2 DEF a, b, g
    <2>5. CASE type # "SWITCHED" \/ q # who
        <3>1. Sent(m, q) = 0
            BY <2>1, <2>5 DEF Send, Turn
        <3>2. g = c
            BY <2>2, <2>3, <2>5
        <3> HIDE DEF a, b, c, g
        <3>3. a = 0 /\ b = 0 /\ g = 0
            BY <2>2, <3>1, <3>2
        <3> QED
            BY <3>3 DEF a, b, g
    <2> QED
        BY <2>4, <2>5
<1> QED
    BY <1>2, <1>3, <1>4, <1>8, <1>9

\* What is left in its mailbox is refused.
Switching == {"TRYMAPSWITCH", "SWITCHOK", "SWITCHERROR", "TRYLEAVE", "LEAVEOK"}

LEMMA LastMail ==
    ASSUME IInv, NEW m \in Map, NEW type \in {"LOADED", "SWITCHED"}, NEW where \in Map, NEW who \in Client,
           Turn(m, type, where, who)
    PROVE  \A i \in DOMAIN Take(m)[m] : /\ Take(m)[m][i] \in Message
                                        /\ Take(m)[m][i].type \in Switching
                                        /\ Take(m)[m][i].map = m /\ Take(m)[m][i].by \in Player
<1>1. Got(m) /\ MailInv /\ m \in Actor /\ Core \in Actor /\ Peer \in Actor
    BY Actors DEF Turn, IInv
<1>2. Fit(Take(m))
    BY <1>1, FitTake
<1>3. \A c \in Actor : \A t, k, q : F(Take(m), c, t, k, q) <= F(box, c, t, k, q) /\ F(Take(m), c, t, k, q) \in Nat /\ F(box, c, t, k, q) \in Nat
    BY <1>1, Taken
<1> SUFFICES ASSUME NEW i \in DOMAIN Take(m)[m]
             PROVE  /\ Take(m)[m][i] \in Message /\ Take(m)[m][i].type \in Switching
                    /\ Take(m)[m][i].map = m /\ Take(m)[m][i].by \in Player
    OBVIOUS
<1>4. PICK x \in For(m) : x = Take(m)[m][i]
    BY <1>1, <1>2 DEF Fit
<1>5. x \in Message /\ ForMap(m, x)
    BY Actors DEF For
<1>6. PICK t, k, q : t = x.type /\ k = x.map /\ q = x.by
    OBVIOUS
<1>7. F(Take(m), m, t, k, q) # 0
    <2>1. x \in From(t, k, q)
        BY <1>5, <1>6 DEF From
    <2>2. Take(m) \in Mailboxes
        BY <1>2 DEF Fit
    <2> QED
        BY <1>1, <1>4, <2>1, <2>2, BoxNat DEF F
<1>8. F(box, m, t, k, q) # 0
    BY <1>1, <1>3, <1>7
<1>9. ~(t = "WAITACTIVATED" /\ k = m /\ q \in {Peer} \cup Map \cup Script)
    BY <1>8, LastWaits DEF Client
<1>10. ~(t = "CLOSEMAP" /\ k = m /\ q \in {Core, Peer})
    BY <1>8, LastCounts
<1>11. ~(t = "LOADED" /\ k = Exit /\ q = m)
    BY <1>7, LastCounts, Actors
<1>12. ~(t = "SWITCHED" /\ k = m /\ q \in Player)
    BY <1>7, LastCounts
<1> QED
    BY <1>4, <1>5, <1>6, <1>9, <1>10, <1>11, <1>12 DEF ForMap, Switching

LEMMA Refused ==
    ASSUME NEW m \in Map, NEW x \in Message, x.type \in Switching, x.map = m, x.by \in Player
    PROVE  /\ Refusal(x) \in FitPosts
           /\ Refusal(x).to # None => Refusal(x).to \in Player /\ Refusal(x).msg.type = "BAD" /\ Refusal(x).msg.by = x.by
<1>1. CASE x.type \in {"TRYMAPSWITCH", "TRYLEAVE", "LEAVEOK"}
    <2> DEFINE y == [x EXCEPT !.type = "BAD"]
               p == x.by
    <2>1. Refusal(x) = Post(p, y)
        BY <1>1 DEF Refusal
    <2>2. y \in Message /\ y.type = "BAD" /\ y.by = x.by /\ y \in For(p) /\ p \in Player /\ p \in Actor
        BY Actors DEF Message, MsgType, For, ForPlayer
    <2> HIDE DEF y, p
    <2> QED
        BY <2>1, <2>2 DEF Post, FitPosts, Posts
<1>2. CASE x.type \in {"SWITCHOK", "SWITCHERROR"}
    <2>1. Refusal(x) = Post(None, x)
        BY <1>2 DEF Refusal
    <2> QED
        BY <2>1 DEF Post, FitPosts, Posts
<1> QED
    BY <1>1, <1>2 DEF Switching

\* The mailboxes after the last step of a close.
Answered(m) == Msg("CLOSED", m, map[m].closing, TRUE)
LastPosts(m) == [i \in DOMAIN Take(m)[m] |-> Refusal(Take(m)[m][i])]
LastBox(m) == [DeliverAll(Put(Take(m), map[m].closing, Answered(m)), LastPosts(m)) EXCEPT ![m] = <<>>]

LEMMA LastSent ==
    ASSUME IInv, NEW m \in Map, NEW type \in {"LOADED", "SWITCHED"}, NEW where \in Map, NEW who \in Client,
           Turn(m, type, where, who), box' = LastBox(m)
    PROVE  /\ Fit(box') /\ box'[m] = <<>>
           /\ \A c \in Map : c # m => box'[c] = box[c]
           /\ \A t, k, q : F(box', m, t, k, q) = 0
           /\ \A c \in Actor : \A t, k, q :
                  /\ F(box', c, t, k, q) \in Nat /\ F(box, c, t, k, q) \in Nat
                  /\ c # m /\ t # "BAD" => F(box', c, t, k, q) = F(box, c, t, k, q)
                         + (IF c = Keeper(m) /\ t = "CLOSED" /\ k = m /\ q = Keeper(m) THEN 1 ELSE 0)
<1>1. Got(m) /\ MailInv /\ m \in Actor /\ Core \in Actor /\ Peer \in Actor /\ m # Core /\ m # Peer
    BY Actors DEF Turn, IInv
<1>2. PICK by \in {Core, Peer} : by = Keeper(m) /\ by = map[m].closing
    BY LastCounts DEF Keeper
<1> DEFINE y == Answered(m)
           b == Put(Take(m), by, y)
           posts == LastPosts(m)
           after == DeliverAll(b, posts)
<1>3. /\ y \in For(by) /\ by \in Actor /\ by # m /\ by \notin Player /\ by \notin Map
      /\ \A t, k, q : Is(y, t, k, q) <=> t = "CLOSED" /\ k = m /\ q = by
    <2>1. by = Core => by = Keeper(m)
        BY <1>2
    <2> QED
        BY <1>1, <1>2, Actors DEF Answered, Msg, For, ForCore, ForPeer, Message, MsgType, Is
<1>4. /\ Fit(Take(m)) /\ \A c \in Actor : c # m => Take(m)[c] = box[c]
      /\ \A c \in Actor : \A t, k, q :
             /\ F(box, c, t, k, q) \in Nat /\ F(Take(m), c, t, k, q) \in Nat
             /\ c # m => F(Take(m), c, t, k, q) = F(box, c, t, k, q)
    BY <1>1, Taken
<1> HIDE DEF y
<1>5. /\ Fit(b) /\ \A c \in Actor : c # by => b[c] = Take(m)[c]
      /\ \A c \in Actor : \A t, k, q :
             F(b, c, t, k, q) = F(Take(m), c, t, k, q) + (IF c = by /\ t = "CLOSED" /\ k = m /\ q = by THEN 1 ELSE 0)
    BY <1>3, <1>4, Sending
<1>6. ASSUME NEW i \in DOMAIN posts
      PROVE  posts[i] \in FitPosts /\ (posts[i].to # None => posts[i].to \in Player /\ posts[i].msg.type = "BAD")
    <2>1. PICK x : x = Take(m)[m][i] /\ x \in Message /\ x.type \in Switching /\ x.map = m /\ x.by \in Player
        BY LastMail DEF LastPosts
    <2>2. posts[i] = Refusal(x)
        BY <2>1 DEF LastPosts
    <2> HIDE DEF posts
    <2> QED
        BY <2>1, <2>2, Refused
<1>7. posts \in Seq(FitPosts)
    <2>1. Take(m)[m] \in Seq(For(m))
        BY <1>1, <1>4 DEF Fit
    <2>2. DOMAIN posts = 1 .. Len(Take(m)[m]) /\ Len(Take(m)[m]) \in Nat
        BY <2>1 DEF LastPosts
    <2>3. posts = [i \in DOMAIN posts |-> posts[i]]
        BY DEF LastPosts
    <2> HIDE DEF posts
    <2>4. posts \in [1 .. Len(Take(m)[m]) -> FitPosts]
        BY <1>6, <2>2, <2>3
    <2> QED
        BY <2>2, <2>4
<1> HIDE DEF b, posts
<1>8. /\ Fit(after)
      /\ \A c \in Actor : \A t, k, q :
             /\ F(after, c, t, k, q) = F(b, c, t, k, q) + Cardinality(Sends(posts, c, From(t, k, q)))
             /\ F(b, c, t, k, q) \in Nat
      /\ \A c \in Actor : (\A i \in DOMAIN posts : posts[i].to # c) => after[c] = b[c]
    BY <1>5, <1>7, SentAll
<1>9. box' = [after EXCEPT ![m] = <<>>]
    BY <1>2 DEF LastBox, b, y, posts
<1> HIDE DEF after
<1>10. box'[m] = <<>> /\ \A c \in Actor : c # m => box'[c] = after[c]
    BY <1>1, <1>8, <1>9 DEF Fit, Mailboxes
<1>11. Fit(box')
    <2>1. <<>> \in Seq(Message) /\ <<>> \in Seq(For(m))
        OBVIOUS
    <2>2. box' \in [Actor -> Seq(Message)]
        BY <1>1, <1>8, <1>9, <2>1 DEF Fit, Mailboxes
    <2>3. \A c \in Actor : box'[c] \in Seq(For(c))
        <3> SUFFICES ASSUME NEW c \in Actor PROVE box'[c] \in Seq(For(c))
            OBVIOUS
        <3>1. CASE c = m
            BY <1>10, <2>1, <3>1
        <3>2. CASE c # m
            BY <1>8, <1>10, <3>2 DEF Fit
        <3> QED
            BY <3>1, <3>2
    <2> QED
        BY <2>2, <2>3 DEF Fit, Mailboxes
<1>12. \A t, k, q : F(box', m, t, k, q) = 0
    BY <1>10, CountEmpty DEF F
<1>13. ASSUME NEW c \in Map, c # m PROVE box'[c] = box[c]
    <2>1. c \in Actor /\ c \notin Player /\ c # by /\ c # None
        BY <1>3, Actors
    <2>2. \A i \in DOMAIN posts : posts[i].to # c
        BY <1>6, <2>1
    <2> QED
        BY <1>4, <1>5, <1>8, <1>10, <1>13, <2>1, <2>2
<1>14. ASSUME NEW c \in Actor, NEW t, NEW k, NEW q, c # m, t # "BAD"
       PROVE  F(box', c, t, k, q) = F(box, c, t, k, q) + (IF c = by /\ t = "CLOSED" /\ k = m /\ q = by THEN 1 ELSE 0)
    <2>1. c # None
        BY Actors
    <2>2. ASSUME NEW i \in DOMAIN posts, posts[i].to = c PROVE posts[i].msg \notin From(t, k, q)
        BY <1>6, <1>14, <2>1, <2>2 DEF From
    <2>3. Sends(posts, c, From(t, k, q)) = {}
        BY <2>2 DEF Sends
    <2>4. Cardinality(Sends(posts, c, From(t, k, q))) = 0
        BY <2>3, FS_EmptySet
    <2>5. F(box', c, t, k, q) = F(after, c, t, k, q)
        BY <1>10, <1>14 DEF F
    <2>6. F(after, c, t, k, q) = F(b, c, t, k, q)
        BY <1>8, <2>4
    <2>7. F(b, c, t, k, q) = F(Take(m), c, t, k, q) + (IF c = by /\ t = "CLOSED" /\ k = m /\ q = by THEN 1 ELSE 0)
        BY <1>5
    <2>8. F(Take(m), c, t, k, q) = F(box, c, t, k, q)
        BY <1>4, <1>14
    <2> QED
        BY <2>5, <2>6, <2>7, <2>8
<1>15. \A c \in Actor : \A t, k, q : F(box', c, t, k, q) \in Nat
    BY <1>11, FNat DEF Fit
<1> QED
    BY <1>2, <1>4, <1>10, <1>11, <1>12, <1>13, <1>14, <1>15

Shut == [NoMap EXCEPT !.state = "closed"]

LEMMA ShutIs ==
    /\ Shut \in MapActor /\ Shut.state = "closed" /\ Shut.active = FALSE /\ Shut.closing = None
    /\ Shut.todo = <<>> /\ Shut.waiting = <<>> /\ Shut.grid = {} /\ Shut.lock = None
<1>1. NoMap \in [state : {"none"}, active : {FALSE}, closing : {None}, todo : {<<>>}, waiting : {<<>>},
                grid : {{}}, lock : {None}]
    BY DEF NoMap
<1>2. <<>> \in Seq(Player) /\ <<>> \in Seq(Actor)
    OBVIOUS
<1>3. Shut \in [state : {"closed"}, active : {FALSE}, closing : {None}, todo : {<<>>}, waiting : {<<>>},
               grid : {{}}, lock : {None}]
    BY <1>1 DEF Shut
<1> QED
    BY <1>2, <1>3 DEF MapActor

LEMMA EvacuateLast ==
    ASSUME IInv, NEW m \in Map, NEW type \in {"LOADED", "SWITCHED"}, NEW where \in Map, NEW who \in Client,
           Turn(m, type, where, who), map' = [map EXCEPT ![m] = Shut], box' = LastBox(m),
           UNCHANGED <<remote, coreVars, peerList, script, opened, known, player, fault>>,
           SeenInv'
    PROVE  IInv'
<1>1. /\ m \in Actor /\ Core \in Actor /\ Peer \in Actor /\ m # Core /\ m # Peer /\ m \in Client /\ Core # Peer
      /\ TypeOK /\ MailInv /\ map[m].closing # None
    BY Actors DEF Turn, IInv, Client
<1>2. map' \in [Map -> MapActor] /\ map'[m] = Shut /\ \A n \in Map \ {m} : map'[n] = map[n]
    BY <1>1, ShutIs, OneMap
<1>3. /\ Fit(box') /\ box'[m] = <<>>
      /\ \A c \in Map : c # m => box'[c] = box[c]
      /\ \A t, k, q : F(box', m, t, k, q) = 0
      /\ \A c \in Actor : \A t, k, q :
             /\ F(box', c, t, k, q) \in Nat /\ F(box, c, t, k, q) \in Nat
             /\ c # m /\ t # "BAD" => F(box', c, t, k, q) = F(box, c, t, k, q)
                    + (IF c = Keeper(m) /\ t = "CLOSED" /\ k = m /\ q = Keeper(m) THEN 1 ELSE 0)
    BY LastSent
<1>4. /\ map[m].waiting = <<>> /\ F(box, m, "WAITACTIVATED", m, Peer) = 0
      /\ \A r \in Client : F(box, m, "WAITACTIVATED", m, r) = 0
    BY LastWaits
<1>5. /\ m \in Instance /\ m # Exit /\ Live(m) /\ m \in known /\ m \in coreList
      /\ closeOp[m] # <<>> /\ loadOp[m] = <<>> /\ map[m].closing = Keeper(m)
      /\ F(box, m, "CLOSEMAP", m, Core) = 0 /\ F(box, m, "CLOSEMAP", m, Peer) = 0
      /\ Gone(m) = 0 /\ F(box, Peer, "CLOSEMAP", m, Core) = 0
    BY LastCounts
<1>6. /\ \A n \in Map : Requests(m, n) = F(box, m, "LOADED", n, m)
      /\ \A q \in Player : F(box, q, "TRIGGER", Exit, m) = 0 /\ player[q].for # m
    BY LastCounts
<1>7. Keeper(m) \in {Core, Peer} /\ (m \in remote <=> Keeper(m) = Peer)
    BY <1>1 DEF Keeper
<1>8. \A n \in Map : map'[n].waiting = map[n].waiting
    BY <1>2, <1>4, ShutIs
<1>9. RegistryInv'
    <2>1. ASSUME NEW n \in Map, n = m PROVE Chain(n)' /\ State(n)'
        <3>1. Chain(n) /\ State(n) /\ Waits(n, Peer)' = Waits(n, Peer) /\ Waits(n, Peer) \in Nat
            BY <1>8, ChainNat DEF Waits
        <3>2. /\ F(box', Peer, "LOADMAP", n, Core) = F(box, Peer, "LOADMAP", n, Core)
              /\ F(box', Peer, "ACTIVATED", n, Peer) = F(box, Peer, "ACTIVATED", n, Peer)
              /\ F(box', n, "WAITACTIVATED", n, Peer) = F(box, n, "WAITACTIVATED", n, Peer)
              /\ F(box', Core, "LOADED", n, Core) = F(box, Core, "LOADED", n, Core)
              /\ F(box', Core, "LOADED", n, Peer) = F(box, Core, "LOADED", n, Peer)
            BY <1>1, <1>3, <1>4, <2>1
        <3>3. Loading(n)' = Loading(n)
            BY <3>1, <3>2 DEF Loading
        <3>4. F(box', Peer, "CLOSEMAP", n, Core) = 0 /\ F(box', n, "CLOSEMAP", n, Core) = 0 /\ F(box', n, "CLOSEMAP", n, Peer) = 0
            BY <1>1, <1>3, <1>5, <2>1
        <3>5. F(box, Peer, "CLOSED", n, Peer) = 0 /\ F(box, Core, "CLOSED", n, Core) = 0 /\ F(box, Core, "CLOSED", n, Peer) = 0
            <4>1. /\ F(box, Peer, "CLOSED", n, Peer) \in Nat /\ F(box, Core, "CLOSED", n, Core) \in Nat
                  /\ F(box, Core, "CLOSED", n, Peer) \in Nat
                BY <1>1, <1>3
            <4> QED
                BY <1>5, <2>1, <4>1 DEF Gone
        <3>6. /\ F(box', Peer, "CLOSED", n, Peer) = (IF Keeper(m) = Peer THEN 1 ELSE 0)
              /\ F(box', Core, "CLOSED", n, Core) = (IF Keeper(m) = Core THEN 1 ELSE 0)
              /\ F(box', Core, "CLOSED", n, Peer) = 0
            BY <1>1, <1>3, <1>7, <2>1, <3>5
        <3>7. Gone(n)' = 1
            BY <1>1, <1>7, <3>6 DEF Gone
        <3>8. map'[n].closing = None /\ map'[n].state = "closed"
            BY <1>2, <2>1, ShutIs
        <3>9. Closing(n)' = 1
            BY <3>4, <3>7, <3>8 DEF Closing
        <3>10. Chain(n)'
            BY <1>5, <2>1, <3>1, <3>3, <3>9 DEF Chain, coreVars
        <3>11. ~Live(n)' /\ Live(n) /\ Bare(n)'
            BY <1>2, <1>5, <2>1, ShutIs DEF Live, Bare
        <3>12. State(n)'
            BY <1>1, <1>2, <1>3, <1>5, <1>7, <2>1, <3>1, <3>4, <3>6, <3>7, <3>8, <3>11, ShutIs DEF State, coreVars
        <3> QED
            BY <3>10, <3>12
    <2>2. \A n \in Map \ {m} : \A c \in Actor : \A t : \A q \in {Core, Peer} :
              t # "BAD" /\ c # m => F(box', c, t, n, q) = F(box, c, t, n, q)
        BY <1>3
    <2>3. ASSUME NEW n \in Map, n # m PROVE Chain(n)' /\ State(n)'
        <3>1. Chain(n) /\ State(n)
            BY ChainNat
        <3>2. n \in Actor /\ n # m /\ Core # m /\ Peer # m
            BY <1>1, <2>3, Actors
        <3>3. /\ F(box', Peer, "LOADMAP", n, Core) = F(box, Peer, "LOADMAP", n, Core)
              /\ F(box', Peer, "ACTIVATED", n, Peer) = F(box, Peer, "ACTIVATED", n, Peer)
              /\ F(box', n, "WAITACTIVATED", n, Peer) = F(box, n, "WAITACTIVATED", n, Peer)
              /\ F(box', Core, "LOADED", n, Core) = F(box, Core, "LOADED", n, Core)
              /\ F(box', Core, "LOADED", n, Peer) = F(box, Core, "LOADED", n, Peer)
              /\ F(box', Peer, "CLOSEMAP", n, Core) = F(box, Peer, "CLOSEMAP", n, Core)
              /\ F(box', n, "CLOSEMAP", n, Core) = F(box, n, "CLOSEMAP", n, Core)
              /\ F(box', n, "CLOSEMAP", n, Peer) = F(box, n, "CLOSEMAP", n, Peer)
              /\ F(box', Peer, "CLOSED", n, Peer) = F(box, Peer, "CLOSED", n, Peer)
              /\ F(box', Core, "CLOSED", n, Core) = F(box, Core, "CLOSED", n, Core)
              /\ F(box', Core, "CLOSED", n, Peer) = F(box, Core, "CLOSED", n, Peer)
            BY <1>1, <2>2, <3>2
        <3>4. map'[n] = map[n] /\ box'[n] = box[n] /\ Waits(n, Peer)' = Waits(n, Peer)
            BY <1>2, <1>3, <2>3 DEF Waits
        <3>5. Loading(n)' = Loading(n) /\ Gone(n)' = Gone(n) /\ Closing(n)' = Closing(n)
            BY <3>3, <3>4 DEF Loading, Gone, Closing
        <3>6. Chain(n)'
            BY <3>1, <3>4, <3>5 DEF Chain, coreVars
        <3>7. F(box', n, "CLOSEMAP", n, IF n \in remote THEN Core ELSE Peer) = F(box, n, "CLOSEMAP", n, IF n \in remote THEN Core ELSE Peer)
            BY <3>3
        <3>8. State(n)'
            BY <3>1, <3>3, <3>4, <3>5, <3>7 DEF State, Live, Keeper, Bare, coreVars
        <3> QED
            BY <3>6, <3>8
    <2> QED
        BY <2>1, <2>3 DEF RegistryInv
<1>10. LoadInv'
    <2> SUFFICES ASSUME NEW r \in Client, NEW n \in Map PROVE Load(r, n)'
        BY DEF LoadInv
    <2>1. r \in Actor /\ n \in Actor /\ Load(r, n) /\ r # Core /\ r # Peer
        BY LoadNat, Actors DEF Client
    <2>2. /\ F(box', Core, "ACTIVATED", n, r) = F(box, Core, "ACTIVATED", n, r)
          /\ F(box', Core, "LOADMAP", n, r) = F(box, Core, "LOADMAP", n, r)
        BY <1>1, <1>3
    <2>3. F(box', n, "WAITACTIVATED", n, r) = F(box, n, "WAITACTIVATED", n, r)
        <3>1. CASE n = m
            BY <1>3, <1>4, <3>1
        <3>2. CASE n # m
            BY <1>3, <3>2 DEF F
        <3> QED
            BY <3>1, <3>2
    <2>4. loadOp'[n] = loadOp[n] /\ map'[n].waiting = map[n].waiting /\ Waits(n, r)' = Waits(n, r)
        BY <1>8 DEF coreVars, Waits
    <2>5. CASE r = m
        <3>1. ~Wants(r, n)'
            BY <1>1, <1>2, <2>5, ShutIs, Actors DEF Wants
        <3>2. F(box', r, "LOADED", n, r) = 0
            BY <1>3, <2>5
        <3>3. Requests(r, n) = F(box, r, "LOADED", n, r)
            BY <1>6, <2>5
        <3> DEFINE a == F(box, Core, "LOADMAP", n, r)  b == F(box, Core, "ACTIVATED", n, r)
                   c == F(box, n, "WAITACTIVATED", n, r)  d == Waits(n, r)  e == F(box, r, "LOADED", n, r)
                   f == N(loadOp[n], By(r))
        <3>4. /\ a \in Nat /\ b \in Nat /\ c \in Nat /\ d \in Nat /\ e \in Nat /\ f \in Nat
              /\ a + b + f + c + d + e = e
            BY <3>3, LoadNat DEF Requests
        <3>5. Requests(r, n)' = a + b + f + c + d + 0
            BY <2>2, <2>3, <2>4, <3>2 DEF Requests
        <3> HIDE DEF a, b, c, d, e, f
        <3>6. Requests(r, n)' = 0
            BY <3>4, <3>5
        <3> QED
            BY <3>1, <3>6 DEF Load
    <2>6. CASE r # m
        <3>1. Wants(r, n)' <=> Wants(r, n)
            BY <1>2, <2>6 DEF Wants
        <3>2. F(box', r, "LOADED", n, r) = F(box, r, "LOADED", n, r)
            BY <1>3, <2>1, <2>6
        <3> QED
            BY <2>1, <2>2, <2>3, <2>4, <3>1, <3>2, SameLoad
    <2> QED
        BY <2>5, <2>6
<1>11. SentInv'
    <2> SUFFICES ASSUME NEW n \in Map, NEW q \in Player PROVE Send(n, q)'
        BY DEF SentInv
    <2>1. Send(n, q) /\ q \in Actor /\ n \in Actor /\ q # m
        BY Actors DEF IInv, SentInv
    <2>2. F(box', q, "TRIGGER", Exit, n) = F(box, q, "TRIGGER", Exit, n)
        BY <1>3, <2>1
    <2>3. CASE n = m
        <3>1. map'[n].todo = <<>>
            BY <1>2, <2>3, ShutIs
        <3>2. F(box', n, "SWITCHED", n, q) = 0 /\ F(box', q, "TRIGGER", Exit, n) = 0 /\ player'[q].for # n
            BY <1>3, <1>6, <2>2, <2>3
        <3> QED
            BY <3>1, <3>2 DEF Send, Sent
    <2>4. CASE n # m
        <3>1. map'[n].todo = map[n].todo /\ F(box', n, "SWITCHED", n, q) = F(box, n, "SWITCHED", n, q)
            BY <1>2, <1>3, <2>4 DEF F
        <3> QED
            BY <2>1, <2>2, <3>1 DEF Send, Sent
    <2> QED
        BY <2>3, <2>4
<1>12. KnownInv' /\ CloseInv' /\ IdleInv' /\ QueueInv'
    <2>1. ASSUME NEW s \in Script, NEW n \in Map
          PROVE  /\ F(box', Core, "CLOSEMAP", n, s) = F(box, Core, "CLOSEMAP", n, s)
                 /\ F(box', s, "CLOSED", n, s) = F(box, s, "CLOSED", n, s)
        <3>1. s \in Actor /\ s # m /\ s # Core /\ s # Peer
            BY <1>1, Actors
        <3> QED
            BY <1>1, <1>3, <1>7, <3>1
    <2>2. CloseInv'
        BY <2>1, SameClose DEF IInv, coreVars
    <2> QED
        BY <1>8, <2>2, SameScripts, SameFor, AsideQueues DEF IInv, coreVars
<1>13. TypeOK'
    <2>1. player' \in [Player -> Traveller] /\ fault' \in Fault \cup {None}
        BY <1>1, Typed
    <2> QED
        BY <1>1, <1>2, <1>3, <2>1, TypeKeeps DEF SeenInv
<1> QED
    BY <1>3, <1>9, <1>10, <1>11, <1>12, <1>13 DEF IInv, MailInv

\* The player whom a map has sent away and waits for.
LEMMA SentNat ==
    ASSUME IInv, NEW m \in Map, NEW p \in Player
    PROVE  /\ Send(m, p) /\ F(box, p, "TRIGGER", Exit, m) \in Nat /\ F(box, m, "SWITCHED", m, p) \in Nat
           /\ p \in Actor /\ m \in Actor
<1>1. Send(m, p) /\ MailInv /\ p \in Actor /\ m \in Actor
    BY Actors DEF IInv, SentInv
<1> QED
    BY <1>1, FNat DEF MailInv, Fit

LEMMA Sender ==
    ASSUME IInv, NEW m \in Map, NEW p \in Player,
           F(box, p, "TRIGGER", Exit, m) # 0 \/ player[p].for = m \/ F(box, m, "SWITCHED", m, p) # 0
    PROVE  /\ map[m].todo # <<>> /\ Head(map[m].todo) = p /\ Sent(m, p) = 1
           /\ map[m].closing # None /\ Live(m) /\ m \in Instance /\ m # Exit
<1> DEFINE u == F(box, p, "TRIGGER", Exit, m)  v == IF player[p].for = m THEN 1 ELSE 0  w == F(box, m, "SWITCHED", m, p)
<1>1. u \in Nat /\ v \in Nat /\ w \in Nat /\ Sent(m, p) = u + v + w /\ (u # 0 \/ v # 0 \/ w # 0)
    BY SentNat DEF Sent
<1>2. Sent(m, p) # 0
    <2> HIDE DEF u, v, w
    <2> QED
        BY <1>1
<1>3. map[m].todo # <<>> /\ Head(map[m].todo) = p /\ Sent(m, p) = 1
    BY <1>2, SentNat DEF Send
<1>4. map[m].closing # None /\ Live(m)
    BY <1>3, ChainNat DEF State, Bare
<1> QED
    BY <1>3, <1>4, ClosingAt, Actors

\* Who is on the map, in some order.
LEMMA Orders ==
    ASSUME TypeOK, NEW m \in Map, NEW todo \in SetToSeqs(map[m].grid)
    PROVE  todo \in Seq(Player)
<1>1. map[m].grid \in SUBSET Player /\ IsFiniteSet(Player)
    BY RegistryAssumption DEF TypeOK
<1>2. IsFiniteSet(map[m].grid)
    BY <1>1, FS_Subset
<1>3. Cardinality(map[m].grid) \in Nat
    BY <1>2, FS_CardinalityType
<1>4. todo \in [1 .. Cardinality(map[m].grid) -> map[m].grid]
    BY DEF SetToSeqs
<1> QED
    BY <1>1, <1>3, <1>4

LEMMA EvacuateKeeps ==
    ASSUME IInv, NEW m \in Map, NEW type \in {"LOADED", "SWITCHED"}, NEW where \in Map, NEW who \in Client,
           Turn(m, type, where, who), NEW todo \in Seq(Player), Evacuate(Take(m), m, todo),
           UNCHANGED <<remote, coreVars, peerList, script, opened, known, player, fault>>,
           SeenInv'
    PROVE  IInv'
<1>1. CASE todo # <<>>
    <2>1. map' = [map EXCEPT ![m].todo = todo] /\ box' = Put(Take(m), Head(todo), Away(m))
        BY <1>1 DEF Evacuate, Away
    <2> QED
        BY <1>1, <2>1, EvacuateNext
<1>2. CASE todo = <<>>
    <2>1. map' = [map EXCEPT ![m] = Shut] /\ box' = LastBox(m)
        BY <1>2 DEF Evacuate, Shut, LastBox, LastPosts, Answered
    <2> QED
        BY <2>1, EvacuateLast
<1> QED
    BY <1>1, <1>2

LEMMA ExitLoadedKeeps ==
    ASSUME IInv, NEW m \in Map, ExitLoaded(m)
    PROVE  IInv' /\ UNCHANGED fault
<1>1. /\ Got(m) /\ Top(m).type = "LOADED" /\ m \in Actor /\ m \in Client /\ TypeOK
      /\ UNCHANGED <<remote, coreVars, peerList, script, opened, known, player>>
    BY Actors DEF ExitLoaded, MapUnchanged, IInv, Client
<1>2. Top(m).map = Exit /\ Top(m).by = m /\ Top(m).flag = TRUE /\ F(box, m, "LOADED", Exit, m) # 0
    <2>1. Top(m) \in For(m) /\ F(box, m, "LOADED", Top(m).map, Top(m).by) # 0
        BY <1>1, Handled
    <2>2. Top(m).map = Exit /\ Top(m).by = m /\ Top(m).flag = TRUE
        BY <1>1, <2>1, Actors DEF For, ForMap
    <2> QED
        BY <2>1, <2>2
<1>3. map[m].closing # None /\ map[m].todo = <<>>
    <2>1. Wants(m, Exit)
        BY <1>1, <1>2, Requested, Actors
    <2> QED
        BY <2>1, Actors DEF Wants
<1>4. Turn(m, "LOADED", Exit, m)
    BY <1>1, <1>2, <1>3 DEF Turn, Is
<1>5. PICK todo \in SetToSeqs(map[m].grid) : Evacuate(Take(m), m, todo)
    BY <1>2 DEF ExitLoaded
<1>6. UNCHANGED fault /\ SeenInv'
    <2>1. map[m].lock \in Player \cup {None} /\ seen \subseteq {"busy", "locked"} \cup Player
        BY <1>1 DEF TypeOK
    <2>2. UNCHANGED fault /\ seen' = IF map[m].lock # None THEN seen \cup {map[m].lock} ELSE seen
        BY <1>2 DEF ExitLoaded, Note
    <2> QED
        BY <2>1, <2>2 DEF SeenInv
<1>7. todo \in Seq(Player)
    BY <1>1, Orders
<1>8. PICK type \in {"LOADED", "SWITCHED"}, where \in Map : type = "LOADED" /\ where = Exit
    BY Actors
<1> QED
    BY <1>1, <1>4, <1>5, <1>6, <1>7, <1>8, EvacuateKeeps

LEMMA EvacuatedKeeps ==
    ASSUME IInv, NEW m \in Map, Evacuated(m)
    PROVE  IInv'
<1>1. /\ Got(m) /\ Top(m).type = "SWITCHED" /\ m \in Actor /\ TypeOK /\ MailInv
      /\ UNCHANGED <<remote, coreVars, peerList, script, opened, known, player, seen>>
    BY Actors DEF Evacuated, MapUnchanged, IInv
<1>2. PICK p \in Player : Top(m).map = m /\ Top(m).by = p /\ F(box, m, "SWITCHED", m, p) # 0
    <2>1. Top(m) \in For(m) /\ F(box, m, "SWITCHED", Top(m).map, Top(m).by) # 0
        BY <1>1, Handled
    <2>2. Top(m).map = m /\ Top(m).by \in Player
        BY <1>1, <2>1, Actors DEF For, ForMap
    <2> QED
        BY <2>1, <2>2
<1>3. map[m].todo # <<>> /\ Head(map[m].todo) = p
    BY <1>2, Sender
<1>4. map[m].closing # None /\ map[m].todo \in Seq(Player)
    BY <1>1, <1>3, ChainNat DEF State, TypeOK
<1>5. CASE Top(m).flag
    <2>1. Evacuate(Take(m), m, Tail(map[m].todo)) /\ UNCHANGED fault
        BY <1>5 DEF Evacuated
    <2>2. Turn(m, "SWITCHED", m, p)
        BY <1>1, <1>2, <1>3, <1>4 DEF Turn, Is
    <2>3. Tail(map[m].todo) \in Seq(Player)
        BY <1>3, <1>4
    <2>4. SeenInv'
        BY <1>1 DEF SeenInv, TypeOK
    <2>5. PICK type \in {"LOADED", "SWITCHED"}, who \in Client : type = "SWITCHED" /\ who = p
        BY DEF Client
    <2> QED
        BY <1>1, <2>1, <2>2, <2>3, <2>4, <2>5, EvacuateKeeps
<1>6. CASE ~Top(m).flag
    <2>1. fault' = <<"switch", p>> /\ UNCHANGED <<map, box>>
        BY <1>2, <1>6 DEF Evacuated
    <2>2. fault' \in Fault \cup {None}
        BY <2>1, Actors DEF Fault
    <2> QED
        BY <1>1, <2>1, <2>2, FaultOnly
<1> QED
    BY <1>5, <1>6

-----------------------------------------------------------------------------
(* The players.                                                             *)

\* The mailboxes a are b but for what players and maps say about switches.
Chat(b, a) ==
    /\ Fit(a)
    /\ \A n \in Map : Live(n) \/ a[n] = b[n]
    /\ \A c \in Actor : \A t, k, q : t \notin Talk \/ q \in {Core, Peer} => F(a, c, t, k, q) = F(b, c, t, k, q)

LEMMA ChatTake ==
    ASSUME IInv, NEW p \in Player, Got(p), Top(p).type \in Talk
    PROVE  Chat(box, Take(p))
<1>1. MailInv /\ p \in Actor /\ Top(p) \in For(p) /\ Top(p).by \in Actor
    BY Handled, Actors DEF IInv
<1>2. Top(p).by = p
    <2>1. Top(p).type \notin {"LOADED", "TRIGGER"}
        BY DEF Talk
    <2> QED
        BY <1>1, <2>1, Actors DEF For, ForPlayer
<1>3. \A t, k, q : t \notin Talk \/ q \in {Core, Peer} => ~Is(Top(p), t, k, q)
    BY <1>2, Actors DEF Is
<1>4. \A n \in Map : Take(p)[n] = box[n]
    BY <1>1, Taken, Actors
<1>5. \A c \in Actor : \A t, k, q : t \notin Talk \/ q \in {Core, Peer} => F(Take(p), c, t, k, q) = F(box, c, t, k, q)
    BY <1>1, <1>3, Taken
<1> QED
    BY <1>1, <1>4, <1>5, Taken DEF Chat

\* What a player says to a map, or hears when the map is gone.
LEMMA ChatCall ==
    ASSUME NEW b, NEW a, Chat(b, a), NEW m \in Map, NEW p \in Player, NEW type \in Switching, NEW flag \in BOOLEAN
    PROVE  Chat(b, Call(a, map, m, Msg(type, m, p, flag)))
<1> DEFINE x == Msg(type, m, p, flag)
<1>1. x \in Message /\ x.type = type /\ x.map = m /\ x.by = p
    BY Actors DEF Msg, Message, MsgType, Switching
<1>2. x \in For(m) /\ x.type \in Talk
    BY <1>1 DEF For, ForMap, Switching, Talk
<1>3. p \in Actor /\ m \in Actor /\ p # None /\ p \notin {Core, Peer} /\ p \notin Map
    BY Actors
<1> HIDE DEF x
<1>4. PICK post \in FitPosts :
          /\ post = Reach(map, m, x)
          /\ post.to # None => /\ post.msg.type \in Talk /\ post.msg.by = p
                               /\ post.to \notin Map \/ Live(post.to)
    <2>1. CASE Live(m)
        <3>1. Reach(map, m, x) = Post(m, x)
            BY <2>1 DEF Reach, Live
        <3>2. Post(m, x) \in FitPosts /\ Post(m, x).to = m /\ Post(m, x).msg = x
            BY <1>1, <1>2, <1>3 DEF Post, FitPosts, Posts
        <3> QED
            BY <1>1, <1>2, <2>1, <3>1, <3>2
    <2>2. CASE ~Live(m)
        <3>1. Reach(map, m, x) = Refusal(x)
            BY <2>2 DEF Reach, Live
        <3>2. /\ Refusal(x) \in FitPosts
              /\ Refusal(x).to # None => Refusal(x).to \in Player /\ Refusal(x).msg.type = "BAD" /\ Refusal(x).msg.by = p
            BY <1>1, Refused
        <3> QED
            BY <3>1, <3>2, Actors DEF Talk
    <2> QED
        BY <2>1, <2>2
<1> DEFINE d == Deliver(a, post)
<1>5. d = Call(a, map, m, Msg(type, m, p, flag))
    BY <1>4 DEF Call, x
<1>6. Fit(d)
    BY FitDeliver DEF Chat
<1>7. a \in Mailboxes /\ post \in Posts
    BY DEF Chat, Fit, FitPosts
<1>8. \A c \in Actor : \A S : N(d[c], S) = N(a[c], S) + (IF post.to = c /\ post.msg \in S THEN 1 ELSE 0)
    BY <1>7, DeliverCount
<1>9. ASSUME NEW c \in Actor, NEW t, NEW k, NEW q, t \notin Talk \/ q \in {Core, Peer}
      PROVE  F(d, c, t, k, q) = F(b, c, t, k, q)
    <2>1. c # None
        BY Actors
    <2>2. post.to = c => post.msg \notin From(t, k, q)
        BY <1>3, <1>4, <1>9, <2>1 DEF From
    <2>3. F(a, c, t, k, q) \in Nat
        BY <1>7, FNat
    <2>4. F(d, c, t, k, q) = F(a, c, t, k, q)
        <3>1. N(d[c], From(t, k, q)) = N(a[c], From(t, k, q)) + (IF post.to = c /\ post.msg \in From(t, k, q) THEN 1 ELSE 0)
            BY <1>8
        <3> HIDE DEF d
        <3> QED
            BY <2>2, <2>3, <3>1 DEF F
    <2> QED
        BY <1>9, <2>4 DEF Chat
<1>10. ASSUME NEW n \in Map, ~Live(n) PROVE d[n] = b[n]
    <2>1. n # None /\ n \in Actor
        BY Actors
    <2>2. post.to # n
        BY <1>4, <1>10, <2>1
    <2>3. d[n] = a[n]
        BY <1>7, <2>1, <2>2 DEF Deliver, Put, Mailboxes
    <2> QED
        BY <1>10, <2>3 DEF Chat
<1> HIDE DEF d
<1>11. Chat(b, d)
    BY <1>6, <1>9, <1>10 DEF Chat
<1> QED
    BY <1>5, <1>11

\* A player that goes on with its switch, or ends one that nobody waits for.
LEMMA TalkOn ==
    ASSUME IInv, NEW p \in Player, NEW traveller \in Traveller, player' = [player EXCEPT ![p] = traveller],
           traveller.for = player[p].for, player[p].step # "load", traveller.step # "load",
           traveller.step = "idle" => player[p].for = None,
           Chat(box, box'), UNCHANGED <<remote, coreVars, peerList, map, script, opened, known, seen, fault>>
    PROVE  IInv'
<1>1. TypeOK
    BY DEF IInv
<1>2. player' \in [Player -> Traveller] /\ player'[p] = traveller /\ \A q \in Player \ {p} : player'[q] = player[q]
    BY <1>1, OnePlayer
<1>3. \A q \in Player : /\ (player'[q].step = "load") = (player[q].step = "load")
                        /\ player[q].step = "load" => player'[q].to = player[q].to
                        /\ player'[q].for = player[q].for
                        /\ player'[q].step = "idle" => player[q].step = "idle" \/ player[q].for = None
    BY <1>2
<1>4. map' \in [Map -> MapActor] /\ seen' \subseteq {"busy", "locked"} \cup Player
    BY <1>1, Typed
<1>5. \A m \in Map : /\ map'[m].state = map[m].state /\ map'[m].active = map[m].active /\ map'[m].closing = map[m].closing
                     /\ map'[m].todo = map[m].todo /\ map'[m].waiting = map[m].waiting
                     /\ Live(m) \/ (box'[m] = box[m] /\ map'[m] = map[m])
    BY DEF Chat
<1>6. /\ \A c \in Actor : \A type : type \notin Talk => \A m, r : F(box', c, type, m, r) = F(box, c, type, m, r)
      /\ \A c \in Actor : \A type, m : \A r \in {Core, Peer} : F(box', c, type, m, r) = F(box, c, type, m, r)
      /\ Fit(box')
    BY DEF Chat
<1> QED
    BY <1>2, <1>3, <1>4, <1>5, <1>6, TalkKeeps

\* The answer of a player that was sent away.
LEMMA SwitchedFits ==
    ASSUME NEW m \in Map, NEW p \in Player, NEW flag \in BOOLEAN
    PROVE  /\ Msg("SWITCHED", m, p, flag) \in For(m)
           /\ \A t, k, q : Is(Msg("SWITCHED", m, p, flag), t, k, q) <=> t = "SWITCHED" /\ k = m /\ q = p
BY Actors DEF Msg, For, ForMap, Message, MsgType, Is

LEMMA EndKeeps ==
    ASSUME IInv, NEW p \in Player, player[p].step # "load", player[p].step # "idle", NEW b, Chat(box, b),
           NEW at \in Map, NEW ok \in BOOLEAN, End(b, p, at, ok),
           UNCHANGED <<remote, coreVars, peerList, map, script, opened, known, seen, fault>>
    PROVE  IInv'
<1> DEFINE traveller == [player[p] EXCEPT !.at = at, !.to = at, !.step = "idle", !.for = None]
<1>1. TypeOK /\ player \in [Player -> Traveller] /\ player[p] \in Traveller
    BY Typed DEF IInv
<1>2. player' = [player EXCEPT ![p] = traveller] /\ box' = Report(b, p, player[p].for, ok)
    BY <1>1 DEF End
<1>3. traveller \in Traveller /\ traveller.step = "idle" /\ traveller.for = None
    BY <1>1 DEF Traveller
<1> HIDE DEF traveller
<1>4. CASE player[p].for = None
    <2>1. box' = b
        BY <1>2, <1>4 DEF Report
    <2> QED
        BY <1>2, <1>3, <1>4, <2>1, TalkOn
<1>5. CASE player[p].for # None
    <2>1. PICK m \in Map : m = player[p].for
        BY <1>1, <1>5 DEF Traveller
    <2>2. Live(m) /\ Sent(m, p) = 1 /\ map[m].todo # <<>> /\ Head(map[m].todo) = p /\ m \in Actor /\ m # None
        BY <2>1, Sender, Actors
    <2> DEFINE y == Msg("SWITCHED", m, p, ok)
    <2>3. box' = Call(b, map, m, y)
        BY <1>2, <2>1, <2>2 DEF Report
    <2>4. y \in For(m) /\ \A t, k, q : Is(y, t, k, q) <=> t = "SWITCHED" /\ k = m /\ q = p
        BY SwitchedFits
    <2> HIDE DEF y
    <2>5. box' = Put(b, m, y)
        <3>1. Reach(map, m, y) = Post(m, y)
            BY <2>2 DEF Reach, Live
        <3>2. Deliver(b, Post(m, y)) = Put(b, m, y)
            BY <2>2, <2>4, Sending DEF Chat
        <3> QED
            BY <2>3, <3>1, <3>2 DEF Call
    <2>6. /\ Fit(box') /\ \A c \in Actor : c # m => box'[c] = b[c]
          /\ \A c \in Actor : \A t, k, q :
                 /\ F(box', c, t, k, q) \in Nat /\ F(b, c, t, k, q) \in Nat
                 /\ F(box', c, t, k, q) = F(b, c, t, k, q) + (IF c = m /\ t = "SWITCHED" /\ k = m /\ q = p THEN 1 ELSE 0)
        BY <2>2, <2>4, <2>5, Sending DEF Chat
    <2>7. /\ \A c \in Actor : \A t, k, q : t \notin Talk =>
                 F(box', c, t, k, q) = F(box, c, t, k, q) + (IF c = m /\ t = "SWITCHED" /\ k = m /\ q = p THEN 1 ELSE 0)
          /\ \A c \in Actor : \A t, k : \A q \in {Core, Peer} : F(box', c, t, k, q) = F(box, c, t, k, q)
        <3>1. \A c \in Actor : \A t, k, q : t \notin Talk => F(b, c, t, k, q) = F(box, c, t, k, q)
            BY DEF Chat
        <3>2. \A c \in Actor : \A t, k : \A q \in {Core, Peer} : F(b, c, t, k, q) = F(box, c, t, k, q)
            BY DEF Chat
        <3>3. p # Core /\ p # Peer
            BY Actors
        <3> QED
            BY <2>6, <3>1, <3>2, <3>3
    <2>8. player' \in [Player -> Traveller] /\ player'[p] = traveller /\ \A q \in Player \ {p} : player'[q] = player[q]
        BY <1>1, <1>2, <1>3, OnePlayer
    <2>9. RegistryInv' /\ QueueInv'
        <3>1. \A n \in Map : Live(n) \/ box'[n] = box[n]
            BY <2>2, <2>6, Actors DEF Chat
        <3> QED
            BY <2>7, <3>1, AsideRegistry, AsideQueues DEF coreVars
    <2>10. LoadInv'
        <3>1. \A c \in Actor : \A t \in {"LOADMAP", "ACTIVATED", "WAITACTIVATED", "LOADED"} : \A k : \A q \in Client :
                  F(box', c, t, k, q) = F(box, c, t, k, q)
            <4> SUFFICES ASSUME NEW c \in Actor, NEW t \in {"LOADMAP", "ACTIVATED", "WAITACTIVATED", "LOADED"}, NEW k, NEW q \in Client
                         PROVE  F(box', c, t, k, q) = F(box, c, t, k, q)
                OBVIOUS
            <4>1. t \notin Talk /\ t # "SWITCHED"
                BY DEF Talk
            <4>2. MailInv
                BY DEF IInv
            <4>3. F(box, c, t, k, q) \in Nat
                BY <4>2, FNat DEF MailInv, Fit
            <4> QED
                BY <2>7, <4>1, <4>3
        <3>2. \A q \in Player : /\ (player'[q].step = "load") = (player[q].step = "load")
                                /\ player[q].step = "load" => player'[q].to = player[q].to
            BY <1>3, <2>8
        <3> QED
            BY <3>1, <3>2, AsideLoad DEF coreVars
    <2>11. CloseInv'
        <3>1. ASSUME NEW s \in Script, NEW n \in Map
              PROVE  /\ F(box', Core, "CLOSEMAP", n, s) = F(box, Core, "CLOSEMAP", n, s)
                     /\ F(box', s, "CLOSED", n, s) = F(box, s, "CLOSED", n, s)
            <4>1. "CLOSEMAP" \notin Talk /\ "CLOSED" \notin Talk
                BY DEF Talk
            <4>2. /\ Core # m /\ s # m /\ s # p /\ s \in Actor /\ Core \in Actor
                  /\ F(box, Core, "CLOSEMAP", n, s) \in Nat /\ F(box, s, "CLOSED", n, s) \in Nat
                BY CloseNat, Actors
            <4>3. F(box', Core, "CLOSEMAP", n, s) = F(box, Core, "CLOSEMAP", n, s)
                BY <2>7, <4>1, <4>2
            <4>4. F(box', s, "CLOSED", n, s) = F(box, s, "CLOSED", n, s)
                BY <2>7, <4>1, <4>2
            <4> QED
                BY <4>3, <4>4
        <3> QED
            BY <3>1, SameClose DEF IInv, coreVars
    <2>12. SentInv'
        <3> SUFFICES ASSUME NEW n \in Map, NEW q \in Player PROVE Send(n, q)'
            BY DEF SentInv
        <3>1. Send(n, q) /\ F(box, q, "TRIGGER", Exit, n) \in Nat /\ F(box, n, "SWITCHED", n, q) \in Nat /\ q \in Actor /\ n \in Actor
            BY SentNat
        <3>2. "TRIGGER" \notin Talk /\ "SWITCHED" \notin Talk
            BY DEF Talk
        <3>3. F(box', q, "TRIGGER", Exit, n) = F(box, q, "TRIGGER", Exit, n)
            BY <2>7, <3>1, <3>2
        <3>4. F(box', n, "SWITCHED", n, q) = F(box, n, "SWITCHED", n, q) + (IF n = m /\ q = p THEN 1 ELSE 0)
            BY <2>7, <3>1, <3>2
        <3>5. player'[q].for = n <=> player[q].for = n /\ q # p
            BY <1>3, <2>8, Actors
        <3>6. Sent(n, q)' = Sent(n, q)
            <4> DEFINE u == F(box, q, "TRIGGER", Exit, n)  w == F(box, n, "SWITCHED", n, q)
            <4>1. u \in Nat /\ w \in Nat /\ Sent(n, q) = u + (IF player[q].for = n THEN 1 ELSE 0) + w
                BY <3>1 DEF Sent
            <4>2. Sent(n, q)' = u + (IF player'[q].for = n THEN 1 ELSE 0) + (w + (IF n = m /\ q = p THEN 1 ELSE 0))
                BY <3>3, <3>4 DEF Sent
            <4> HIDE DEF u, w
            <4>3. CASE q = p
                BY <2>1, <3>5, <4>1, <4>2, <4>3
            <4>4. CASE q # p
                BY <3>5, <4>1, <4>2, <4>4
            <4> QED
                BY <4>3, <4>4
        <3> QED
            BY <3>1, <3>6 DEF Send
    <2>13. KnownInv' /\ IdleInv'
        <3>1. IdleInv'
            BY <1>3, <2>8 DEF IInv, IdleInv
        <3> QED
            BY <3>1, SameScripts DEF IInv
    <2>14. TypeOK'
        BY <1>1, <2>6, <2>8, Typed, TypeKeeps
    <2> QED
        BY <2>6, <2>9, <2>10, <2>11, <2>12, <2>13, <2>14 DEF IInv, MailInv
<1> QED
    BY <1>4, <1>5

\* Where a switch has got to.
LEMMA AllowedKeeps ==
    ASSUME IInv, NEW p \in Player, SwitchAllowed(p) \/ LeaveAllowed(p) \/ Left(p)
    PROVE  IInv'
<1>1. /\ TypeOK /\ player[p] \in Traveller /\ player \in [Player -> Traveller] /\ player[p].at \in Map /\ player[p].to \in Map
      /\ player[p].step \in {"idle", "load", "try", "leave", "left"}
    BY Typed DEF IInv, Traveller
<1>2. /\ UNCHANGED <<remote, coreVars, peerList, map, script, opened, known, seen, fault>>
      /\ Got(p) /\ Top(p).type \in Talk /\ player[p].step \in {"try", "leave", "left"}
    BY DEF SwitchAllowed, LeaveAllowed, Left, PlayerUnchanged, Talk
<1>3. Chat(box, Take(p))
    BY <1>2, ChatTake
<1>4. \A type \in Switching : \A m \in Map : \A flag \in BOOLEAN : Chat(box, Call(Take(p), map, m, Msg(type, m, p, flag)))
    BY <1>3, ChatCall
<1>5. Chat(box, SwitchError(p, Take(p)))
    BY <1>1, <1>4 DEF SwitchError, Switching
<1>6. \/ \E at \in Map, ok \in BOOLEAN : \E b : Chat(box, b) /\ End(b, p, at, ok)
      \/ \E step \in {"leave", "left"}, at \in Map :
             player' = [player EXCEPT ![p].step = step, ![p].at = at] /\ Chat(box, box')
    <2>1. CASE SwitchAllowed(p)
        <3>1. \/ End(Take(p), p, player[p].at, FALSE)
              \/ End(SwitchError(p, Take(p)), p, player[p].at, FALSE)
              \/ /\ player' = [player EXCEPT ![p].step = "leave"]
                 /\ box' = Call(Take(p), map, player[p].at, Msg("TRYLEAVE", player[p].at, p, TRUE))
            BY <2>1 DEF SwitchAllowed
        <3>2. player' = [player EXCEPT ![p].step = "leave"] => player' = [player EXCEPT ![p].step = "leave", ![p].at = player[p].at]
            BY <1>1 DEF Traveller
        <3>3. Chat(box, Call(Take(p), map, player[p].at, Msg("TRYLEAVE", player[p].at, p, TRUE)))
            BY <1>1, <1>4 DEF Switching
        <3> QED
            BY <1>1, <1>3, <1>5, <3>1, <3>2, <3>3
    <2>2. CASE LeaveAllowed(p)
        <3>1. \/ End(SwitchError(p, Take(p)), p, player[p].at, FALSE)
              \/ /\ player' = [player EXCEPT ![p].step = "left", ![p].at = player[p].to]
                 /\ box' = Call(Take(p), map, player[p].at, Msg("LEAVEOK", player[p].at, p, TRUE))
            BY <2>2 DEF LeaveAllowed
        <3>2. Chat(box, Call(Take(p), map, player[p].at, Msg("LEAVEOK", player[p].at, p, TRUE)))
            BY <1>1, <1>4 DEF Switching
        <3> QED
            BY <1>1, <1>5, <3>1, <3>2
    <2>3. CASE Left(p)
        <3>1. End(Call(Take(p), map, player[p].at, Msg("SWITCHOK", player[p].at, p, TRUE)), p, player[p].at, TRUE)
            BY <2>3 DEF Left
        <3>2. Chat(box, Call(Take(p), map, player[p].at, Msg("SWITCHOK", player[p].at, p, TRUE)))
            BY <1>1, <1>4 DEF Switching
        <3> QED
            BY <1>1, <3>1, <3>2
    <2> QED
        BY <2>1, <2>2, <2>3
<1>7. CASE \E at \in Map, ok \in BOOLEAN : \E b : Chat(box, b) /\ End(b, p, at, ok)
    <2>1. PICK at \in Map, ok \in BOOLEAN : \E b : Chat(box, b) /\ End(b, p, at, ok)
        BY <1>7
    <2>2. PICK b : Chat(box, b) /\ End(b, p, at, ok)
        BY <2>1
    <2>3. player[p].step # "load" /\ player[p].step # "idle"
        BY <1>2
    <2> QED
        BY <1>2, <2>2, <2>3, EndKeeps
<1>8. CASE \E step \in {"leave", "left"}, at \in Map :
               player' = [player EXCEPT ![p].step = step, ![p].at = at] /\ Chat(box, box')
    <2>1. PICK step \in {"leave", "left"}, at \in Map :
               player' = [player EXCEPT ![p].step = step, ![p].at = at] /\ Chat(box, box')
        BY <1>8
    <2> DEFINE traveller == [player[p] EXCEPT !.step = step, !.at = at]
    <2>2. player' = [player EXCEPT ![p] = traveller] /\ traveller \in Traveller /\ traveller.step = step /\ traveller.for = player[p].for
        BY <1>1, <2>1 DEF Traveller
    <2> HIDE DEF traveller
    <2>3. traveller.step # "load" /\ traveller.step # "idle" /\ player[p].step # "load"
        BY <1>2, <2>2
    <2> QED
        BY <1>2, <2>1, <2>2, <2>3, TalkOn
<1> QED
    BY <1>6, <1>7, <1>8

LEMMA SwitchLoadedKeeps ==
    ASSUME IInv, NEW p \in Player, SwitchLoaded(p)
    PROVE  IInv'
<1>1. /\ Got(p) /\ Top(p).type = "LOADED" /\ p \in Actor /\ p \in Client /\ TypeOK /\ MailInv
      /\ player \in [Player -> Traveller] /\ player[p] \in Traveller
      /\ UNCHANGED <<remote, coreVars, peerList, map, script, opened, known, seen, fault>>
    BY Typed, Actors DEF SwitchLoaded, PlayerUnchanged, IInv, Client
<1>2. PICK m \in Map : Top(p).map = m /\ Top(p).by = p /\ Top(p).flag = TRUE /\ F(box, p, "LOADED", m, p) # 0
    <2>1. Top(p) \in For(p) /\ Top(p).map \in Map /\ F(box, p, "LOADED", Top(p).map, Top(p).by) # 0
        BY <1>1, Handled
    <2>2. Top(p).by = p /\ Top(p).flag = TRUE
        BY <1>1, <2>1, Actors DEF For, ForPlayer
    <2> QED
        BY <2>1, <2>2
<1>3. player[p].step = "load" /\ player[p].to = m /\ Requests(p, m) = 1
    <2>1. Wants(p, m)
        BY <1>1, <1>2, Requested
    <2> QED
        BY <1>1, <2>1, LoadNat, Actors DEF Wants, Load
<1> DEFINE traveller == [player[p] EXCEPT !.step = "try"]
<1>4. /\ player' = [player EXCEPT ![p] = traveller] /\ traveller \in Traveller
      /\ traveller.step = "try" /\ traveller.for = player[p].for
    <2>1. player' = [player EXCEPT ![p].step = "try"]
        BY <1>2 DEF SwitchLoaded
    <2> QED
        BY <1>1, <2>1 DEF Traveller
<1> HIDE DEF traveller
<1>5. player' \in [Player -> Traveller] /\ player'[p] = traveller /\ \A q \in Player \ {p} : player'[q] = player[q]
    BY <1>1, <1>4, OnePlayer
<1>6. /\ Fit(Take(p)) /\ \A c \in Actor : c # p => Take(p)[c] = box[c]
      /\ \A c \in Actor : \A t, k, q :
             /\ F(Take(p), c, t, k, q) \in Nat /\ F(box, c, t, k, q) \in Nat
             /\ F(Take(p), c, t, k, q) = F(box, c, t, k, q) - (IF c = p /\ t = "LOADED" /\ k = m /\ q = p THEN 1 ELSE 0)
    BY <1>1, <1>2, Taken DEF Is
<1>7. Chat(Take(p), box')
    <2>1. Chat(Take(p), Take(p))
        BY <1>6 DEF Chat
    <2>2. PICK type \in Switching, flag \in BOOLEAN : type = "TRYMAPSWITCH" /\ flag = TRUE
        BY DEF Switching
    <2>3. box' = Call(Take(p), map, m, Msg(type, m, p, flag))
        BY <1>2, <1>3, <2>2 DEF SwitchLoaded
    <2> QED
        BY <2>1, <2>3, ChatCall
<1>8. /\ Fit(box')
      /\ \A n \in Map : Live(n) \/ box'[n] = box[n]
      /\ \A c \in Actor : \A t, k : \A q \in {Core, Peer} : F(box', c, t, k, q) = F(box, c, t, k, q)
      /\ \A c \in Actor : \A t, k, q : t \notin Talk =>
             F(box', c, t, k, q) = F(box, c, t, k, q) - (IF c = p /\ t = "LOADED" /\ k = m /\ q = p THEN 1 ELSE 0)
    <2>1. \A c \in Actor : \A t, k, q : t \notin Talk \/ q \in {Core, Peer} => F(box', c, t, k, q) = F(Take(p), c, t, k, q)
        BY <1>7 DEF Chat
    <2>2. p # Core /\ p # Peer /\ \A n \in Map : n # p /\ n \in Actor
        BY Actors
    <2>3. Fit(box') /\ \A n \in Map : Live(n) \/ box'[n] = box[n]
        BY <1>6, <1>7, <2>2 DEF Chat
    <2>4. \A c \in Actor : \A t, k : \A q \in {Core, Peer} : F(box', c, t, k, q) = F(box, c, t, k, q)
        BY <1>6, <2>1, <2>2
    <2> QED
        BY <1>6, <2>1, <2>3, <2>4
<1>9. RegistryInv' /\ QueueInv'
    BY <1>1, <1>8, AsideRegistry, AsideQueues DEF coreVars
<1>10. LoadInv'
    <2> SUFFICES ASSUME NEW r \in Client, NEW n \in Map PROVE Load(r, n)'
        BY DEF LoadInv
    <2>1. "LOADMAP" \notin Talk /\ "ACTIVATED" \notin Talk /\ "WAITACTIVATED" \notin Talk /\ "LOADED" \notin Talk
        BY DEF Talk
    <2>2. /\ F(box', Core, "LOADMAP", n, r) = F(box, Core, "LOADMAP", n, r)
          /\ F(box', Core, "ACTIVATED", n, r) = F(box, Core, "ACTIVATED", n, r)
          /\ F(box', n, "WAITACTIVATED", n, r) = F(box, n, "WAITACTIVATED", n, r)
        BY <1>8, <2>1, LoadNat
    <2>3. F(box', r, "LOADED", n, r) = F(box, r, "LOADED", n, r) - (IF n = m /\ r = p THEN 1 ELSE 0)
        BY <1>8, <2>1, LoadNat
    <2>4. loadOp'[n] = loadOp[n] /\ map'[n].waiting = map[n].waiting /\ Waits(n, r)' = Waits(n, r)
        BY <1>1 DEF coreVars, Waits
    <2>5. CASE r = p /\ n = m
        <3>1. ~Wants(r, n)'
            BY <1>4, <1>5, <2>5, Actors DEF Wants
        <3>2. Requests(r, n)' = 0
            <4> DEFINE a == F(box, Core, "LOADMAP", n, r)  b == F(box, Core, "ACTIVATED", n, r)
                       c == F(box, n, "WAITACTIVATED", n, r)  d == Waits(n, r)  e == F(box, r, "LOADED", n, r)
                       f == N(loadOp[n], By(r))
            <4>1. /\ a \in Nat /\ b \in Nat /\ c \in Nat /\ d \in Nat /\ e \in Nat /\ f \in Nat
                  /\ a + b + f + c + d + e = 1
                BY <1>3, <2>5, LoadNat DEF Requests
            <4>2. Requests(r, n)' = a + b + f + c + d + (e - 1)
                BY <2>2, <2>3, <2>4, <2>5 DEF Requests
            <4> HIDE DEF a, b, c, d, e, f
            <4> QED
                BY <4>1, <4>2
        <3> QED
            BY <3>1, <3>2 DEF Load
    <2>6. CASE r # p \/ n # m
        <3>1. Wants(r, n)' <=> Wants(r, n)
            BY <1>1, <1>3, <1>4, <1>5, <2>6, Actors DEF Wants
        <3>2. F(box', r, "LOADED", n, r) = F(box, r, "LOADED", n, r)
            BY <2>3, <2>6, LoadNat
        <3> QED
            BY <2>2, <2>4, <3>1, <3>2, LoadNat, SameLoad
    <2> QED
        BY <2>5, <2>6
<1>11. KnownInv' /\ CloseInv' /\ SentInv' /\ IdleInv'
    <2>1. \A c \in Actor : \A t \in {"CLOSEMAP", "CLOSED", "TRIGGER", "SWITCHED"} : \A k : \A q \in Client :
              F(box', c, t, k, q) = F(box, c, t, k, q)
        <3> SUFFICES ASSUME NEW c \in Actor, NEW t \in {"CLOSEMAP", "CLOSED", "TRIGGER", "SWITCHED"}, NEW k, NEW q \in Client
                     PROVE  F(box', c, t, k, q) = F(box, c, t, k, q)
            OBVIOUS
        <3>1. t \notin Talk /\ t # "LOADED"
            BY DEF Talk
        <3> QED
            BY <1>6, <1>8, <3>1
    <2>2. \A q \in Player : player'[q].for = player[q].for /\ (player'[q].step = "idle" => player[q].step = "idle")
        BY <1>4, <1>5
    <2> QED
        BY <1>1, <2>1, <2>2, Aside DEF coreVars
<1>12. TypeOK'
    BY <1>1, <1>5, <1>8, Typed, TypeKeeps
<1> QED
    BY <1>8, <1>9, <1>10, <1>11, <1>12 DEF IInv, MailInv

\* A player asks the core for the map that it is to switch to.
LEMMA AskFits ==
    ASSUME NEW p \in Player, NEW m \in Map
    PROVE  /\ Msg("LOADMAP", m, p, FALSE) \in For(Core)
           /\ \A t, k, q : Is(Msg("LOADMAP", m, p, FALSE), t, k, q) <=> t = "LOADMAP" /\ k = m /\ q = p
BY Actors DEF Msg, For, ForCore, Message, MsgType, Client, Is

\* From b, which differs from the mailboxes only in a "trigger" that is taken.
LEMMA AskLoad ==
    ASSUME IInv, NEW p \in Player, player[p].step = "idle", NEW m \in Map, NEW traveller \in Traveller,
           player' = [player EXCEPT ![p] = traveller], traveller.step = "load", traveller.to = m,
           NEW b, Fit(b), \A n \in Map : b[n] = box[n],
           \A c \in Actor : \A t, k, q : t # "TRIGGER" \/ q \notin Map => F(b, c, t, k, q) = F(box, c, t, k, q),
           NEW y \in For(Core), \A t, k, q : Is(y, t, k, q) <=> t = "LOADMAP" /\ k = m /\ q = p,
           box' = Put(b, Core, y), SeenInv',
           UNCHANGED <<remote, coreVars, peerList, map, script, opened, known, fault>>,
           SentInv'
    PROVE  IInv'
<1>1. TypeOK /\ MailInv /\ Core \in Actor /\ p \in Actor /\ p \in Client /\ p # Core /\ p # Peer
    BY Actors DEF IInv, Client
<1>2. player' \in [Player -> Traveller] /\ player'[p] = traveller /\ \A q \in Player \ {p} : player'[q] = player[q]
    BY <1>1, OnePlayer
<1>3. /\ Fit(box') /\ \A c \in Actor : c # Core => box'[c] = b[c]
      /\ \A c \in Actor : \A t, k, q :
             /\ F(b, c, t, k, q) \in Nat
             /\ F(box', c, t, k, q) = F(b, c, t, k, q) + (IF c = Core /\ t = "LOADMAP" /\ k = m /\ q = p THEN 1 ELSE 0)
    BY <1>1, Sending
<1>4. \A c \in Actor : \A t, k, q : t # "TRIGGER" \/ q \notin Map =>
          F(box', c, t, k, q) = F(box, c, t, k, q) + (IF c = Core /\ t = "LOADMAP" /\ k = m /\ q = p THEN 1 ELSE 0)
    BY <1>3
<1>5. RegistryInv' /\ QueueInv'
    <2>1. \A n \in Map : box'[n] = box[n]
        BY <1>3, Actors
    <2>2. \A c \in Actor : \A t, k : \A q \in {Core, Peer} : F(box', c, t, k, q) = F(box, c, t, k, q)
        <3>1. \A q \in {Core, Peer} : q \notin Map /\ q # p
            BY <1>1, Actors
        <3> QED
            BY <1>3, <1>4, <3>1
    <2> QED
        BY <2>1, <2>2, AsideRegistry, AsideQueues DEF coreVars
<1>6. LoadInv'
    <2> SUFFICES ASSUME NEW r \in Client, NEW n \in Map PROVE Load(r, n)'
        BY DEF LoadInv
    <2>1. /\ F(box', Core, "ACTIVATED", n, r) = F(box, Core, "ACTIVATED", n, r)
          /\ F(box', n, "WAITACTIVATED", n, r) = F(box, n, "WAITACTIVATED", n, r)
          /\ F(box', r, "LOADED", n, r) = F(box, r, "LOADED", n, r)
          /\ F(box', Core, "LOADMAP", n, r) = F(box, Core, "LOADMAP", n, r) + (IF n = m /\ r = p THEN 1 ELSE 0)
        BY <1>4, LoadNat
    <2>2. loadOp'[n] = loadOp[n] /\ map'[n].waiting = map[n].waiting /\ Waits(n, r)' = Waits(n, r)
        BY DEF coreVars, Waits
    <2>3. CASE r = p /\ n = m
        <3>1. ~Wants(r, n) /\ Wants(r, n)'
            BY <1>2, <2>3, Actors DEF Wants
        <3>2. Requests(r, n) = 0
            BY <3>1, LoadNat DEF Load
        <3>3. Requests(r, n)' = Requests(r, n) + 1
            BY <2>1, <2>2, <2>3, LoadNat DEF Requests
        <3> QED
            BY <3>1, <3>2, <3>3 DEF Load
    <2>4. CASE r # p \/ n # m
        <3>1. Wants(r, n)' <=> Wants(r, n)
            BY <1>2, <2>4, Actors DEF Wants
        <3> QED
            BY <2>1, <2>2, <2>4, <3>1, LoadNat, SameLoad
    <2> QED
        BY <2>3, <2>4
<1>7. KnownInv' /\ CloseInv' /\ IdleInv'
    <2>1. ASSUME NEW s \in Script, NEW n \in Map
          PROVE  /\ F(box', Core, "CLOSEMAP", n, s) = F(box, Core, "CLOSEMAP", n, s)
                 /\ F(box', s, "CLOSED", n, s) = F(box, s, "CLOSED", n, s)
        <3>1. /\ s # p /\ s # Core /\ s \in Actor /\ Core \in Actor
              /\ F(box, Core, "CLOSEMAP", n, s) \in Nat /\ F(box, s, "CLOSED", n, s) \in Nat
            BY CloseNat, Actors
        <3>2. F(box', Core, "CLOSEMAP", n, s) = F(box, Core, "CLOSEMAP", n, s)
            BY <1>4, <3>1
        <3>3. F(box', s, "CLOSED", n, s) = F(box, s, "CLOSED", n, s)
            BY <1>4, <3>1
        <3> QED
            BY <3>2, <3>3
    <2>2. CloseInv'
        BY <2>1, SameClose DEF IInv, coreVars
    <2>3. IdleInv'
        BY <1>2 DEF IInv, IdleInv
    <2> QED
        BY <2>2, <2>3, SameScripts DEF IInv
<1>8. TypeOK'
    BY <1>1, <1>2, <1>3, Typed, TypeKeeps DEF SeenInv
<1> QED
    BY <1>3, <1>5, <1>6, <1>7, <1>8 DEF IInv, MailInv

LEMMA SwitchKeeps ==
    ASSUME IInv, NEW p \in Player, Switch(p)
    PROVE  IInv'
<1>1. /\ player[p].step = "idle" /\ TypeOK /\ MailInv /\ player \in [Player -> Traveller] /\ player[p] \in Traveller
      /\ UNCHANGED <<remote, coreVars, peerList, map, script, opened, known, seen, fault>>
    BY Typed DEF Switch, CanMove, PlayerUnchanged, IInv
<1>2. PICK m \in Map :
          /\ player' = [player EXCEPT ![p].to = m, ![p].step = "load", ![p].n = @ + 1]
          /\ box' = Put(box, Core, Msg("LOADMAP", m, p, FALSE))
    BY <1>1 DEF Switch, AskCore, Map, IInv, TypeOK
<1> DEFINE traveller == [player[p] EXCEPT !.to = m, !.step = "load", !.n = player[p].n + 1]
           y == Msg("LOADMAP", m, p, FALSE)
<1>3. /\ player' = [player EXCEPT ![p] = traveller] /\ traveller \in Traveller
      /\ traveller.step = "load" /\ traveller.to = m /\ traveller.for = player[p].for
    BY <1>1, <1>2 DEF Traveller
<1>4. y \in For(Core) /\ \A t, k, q : Is(y, t, k, q) <=> t = "LOADMAP" /\ k = m /\ q = p
    BY AskFits
<1>5. box' = Put(box, Core, y)
    BY <1>2
<1> HIDE DEF traveller, y
<1>6. SentInv'
    <2>1. /\ Core \in Actor
          /\ \A c \in Actor : \A t, k, q :
                 /\ F(box, c, t, k, q) \in Nat
                 /\ F(box', c, t, k, q) = F(box, c, t, k, q) + (IF c = Core /\ t = "LOADMAP" /\ k = m /\ q = p THEN 1 ELSE 0)
        BY <1>1, <1>4, <1>5, Sending, Actors DEF MailInv
    <2>2. ASSUME NEW n \in Map, NEW q \in Player
          PROVE  /\ F(box', q, "TRIGGER", Exit, n) = F(box, q, "TRIGGER", Exit, n)
                 /\ F(box', n, "SWITCHED", n, q) = F(box, n, "SWITCHED", n, q)
        <3>1. q \in Actor /\ n \in Actor /\ q # Core /\ n # Core
            BY Actors
        <3> QED
            BY <2>1, <3>1
    <2>3. \A q \in Player : player'[q].for = player[q].for
        BY <1>1, <1>3
    <2> QED
        BY <1>1, <2>2, <2>3, SameSent DEF IInv
<1>7. SeenInv'
    BY <1>1 DEF SeenInv, TypeOK
<1>8. Fit(box)
    BY <1>1 DEF MailInv
<1> QED
    BY <1>1, <1>3, <1>4, <1>5, <1>6, <1>7, <1>8, AskLoad

LEMMA TriggeredKeeps ==
    ASSUME IInv, NEW p \in Player, Triggered(p)
    PROVE  IInv'
<1>1. /\ Got(p) /\ Top(p).type = "TRIGGER" /\ p \in Actor /\ Core \in Actor /\ TypeOK /\ MailInv
      /\ player \in [Player -> Traveller] /\ player[p] \in Traveller
      /\ UNCHANGED <<remote, coreVars, peerList, map, script, opened, known, fault>>
    BY Typed, Actors DEF Triggered, PlayerUnchanged, IInv
<1>2. PICK m \in Map : Top(p).map = Exit /\ Top(p).by = m /\ F(box, p, "TRIGGER", Exit, m) # 0
    <2>1. Top(p) \in For(p) /\ F(box, p, "TRIGGER", Top(p).map, Top(p).by) # 0
        BY <1>1, Handled
    <2>2. Top(p).map = Exit /\ Top(p).by \in Map
        BY <1>1, <2>1, Actors DEF For, ForPlayer
    <2> QED
        BY <2>1, <2>2
<1>3. Live(m) /\ Sent(m, p) = 1 /\ m # None /\ m \in Actor /\ m # p /\ p \notin Map /\ m # Core /\ p # Core
    BY <1>2, Sender, Actors
<1>4. F(box, p, "TRIGGER", Exit, m) = 1 /\ player[p].for # m /\ F(box, m, "SWITCHED", m, p) = 0
    <2> DEFINE u == F(box, p, "TRIGGER", Exit, m)  v == IF player[p].for = m THEN 1 ELSE 0  w == F(box, m, "SWITCHED", m, p)
    <2>1. u \in Nat /\ v \in Nat /\ w \in Nat /\ u + v + w = 1 /\ u # 0
        BY <1>2, <1>3, SentNat DEF Sent
    <2>2. u = 1 /\ v = 0 /\ w = 0
        <3> HIDE DEF u, v, w
        <3> QED
            BY <2>1
    <2> QED
        BY <2>2
<1>5. SeenInv'
    <2>1. seen' = IF player[p].step # "idle" THEN seen \cup {"busy"} ELSE seen
        BY DEF Triggered, Note
    <2> QED
        BY <1>1, <2>1 DEF SeenInv, TypeOK
<1>6. /\ Fit(Take(p)) /\ \A c \in Actor : c # p => Take(p)[c] = box[c]
      /\ \A c \in Actor : \A t, k, q :
             /\ F(Take(p), c, t, k, q) \in Nat /\ F(box, c, t, k, q) \in Nat
             /\ F(Take(p), c, t, k, q) = F(box, c, t, k, q) - (IF c = p /\ t = "TRIGGER" /\ k = Exit /\ q = m THEN 1 ELSE 0)
    BY <1>1, <1>2, Taken DEF Is
<1>7. CASE ~CanMove(p) \/ player[p].at = Exit
    <2>1. PICK ok \in BOOLEAN : box' = Report(Take(p), p, m, ok)
        <3>1. CanMove(p) \in BOOLEAN
            BY DEF CanMove
        <3> QED
            BY <1>2, <1>7, <3>1 DEF Triggered
    <2> DEFINE y == Msg("SWITCHED", m, p, ok)
    <2>2. y \in For(m) /\ \A t, k, q : Is(y, t, k, q) <=> t = "SWITCHED" /\ k = m /\ q = p
        BY SwitchedFits
    <2>3. box' = Call(Take(p), map, m, y)
        BY <1>3, <2>1 DEF Report
    <2> HIDE DEF y
    <2>4. box' = Put(Take(p), m, y)
        <3>1. Reach(map, m, y) = Post(m, y)
            BY <1>3 DEF Reach, Live
        <3>2. Deliver(Take(p), Post(m, y)) = Put(Take(p), m, y)
            BY <1>3, <1>6, <2>2, Sending
        <3> QED
            BY <2>3, <3>1, <3>2 DEF Call
    <2>5. /\ Fit(box') /\ \A c \in Actor : c # m => box'[c] = Take(p)[c]
          /\ \A c \in Actor : \A t, k, q :
                 F(box', c, t, k, q) = F(Take(p), c, t, k, q) + (IF c = m /\ t = "SWITCHED" /\ k = m /\ q = p THEN 1 ELSE 0)
        BY <1>3, <1>6, <2>2, <2>4, Sending
    <2>6. player' = player
        BY <1>7 DEF Triggered
    <2>7. RegistryInv' /\ QueueInv'
        <3>1. \A n \in Map : Live(n) \/ box'[n] = box[n]
            BY <1>3, <1>6, <2>5, Actors
        <3>2. \A c \in Actor : \A t, k : \A q \in {Core, Peer} : F(box', c, t, k, q) = F(box, c, t, k, q)
            <4>1. \A q \in {Core, Peer} : q # m /\ q # p
                BY Actors
            <4> QED
                BY <1>6, <2>5, <4>1
        <3> QED
            BY <1>1, <3>1, <3>2, AsideRegistry, AsideQueues DEF coreVars
    <2>8. LoadInv'
        <3>1. \A c \in Actor : \A t \in {"LOADMAP", "ACTIVATED", "WAITACTIVATED", "LOADED"} : \A k : \A q \in Client :
                  F(box', c, t, k, q) = F(box, c, t, k, q)
            BY <1>6, <2>5
        <3> QED
            BY <1>1, <2>6, <3>1, AsideLoad DEF coreVars
    <2>9. CloseInv'
        <3>1. ASSUME NEW s \in Script, NEW n \in Map
              PROVE  /\ F(box', Core, "CLOSEMAP", n, s) = F(box, Core, "CLOSEMAP", n, s)
                     /\ F(box', s, "CLOSED", n, s) = F(box, s, "CLOSED", n, s)
            <4>1. /\ s # p /\ s # m /\ s \in Actor
                  /\ F(box, Core, "CLOSEMAP", n, s) \in Nat /\ F(box, s, "CLOSED", n, s) \in Nat
                BY CloseNat, Actors
            <4>2. F(box', Core, "CLOSEMAP", n, s) = F(box, Core, "CLOSEMAP", n, s)
                BY <1>1, <1>3, <1>6, <2>5, <4>1
            <4>3. F(box', s, "CLOSED", n, s) = F(box, s, "CLOSED", n, s)
                BY <1>6, <2>5, <4>1
            <4> QED
                BY <4>2, <4>3
        <3> QED
            BY <1>1, <3>1, SameClose DEF IInv, coreVars
    <2>10. SentInv'
        <3> SUFFICES ASSUME NEW n \in Map, NEW q \in Player PROVE Send(n, q)'
            BY DEF SentInv
        <3>1. Send(n, q) /\ F(box, q, "TRIGGER", Exit, n) \in Nat /\ F(box, n, "SWITCHED", n, q) \in Nat /\ q \in Actor /\ n \in Actor
            BY SentNat
        <3>2. n # p /\ q # m
            BY Actors
        <3>3. F(box', q, "TRIGGER", Exit, n) = F(box, q, "TRIGGER", Exit, n) - (IF n = m /\ q = p THEN 1 ELSE 0)
            BY <1>6, <2>5, <3>1, <3>2
        <3>4. F(box', n, "SWITCHED", n, q) = F(box, n, "SWITCHED", n, q) + (IF n = m /\ q = p THEN 1 ELSE 0)
            BY <1>6, <2>5, <3>1, <3>2
        <3>5. Sent(n, q)' = Sent(n, q)
            BY <2>6, <3>1, <3>3, <3>4 DEF Sent
        <3> QED
            BY <1>1, <3>1, <3>5 DEF Send
    <2>11. KnownInv' /\ IdleInv'
        BY <1>1, <2>6, SameScripts, SameFor DEF IInv
    <2>12. TypeOK'
        BY <1>1, <1>5, <2>5, <2>6, Typed, TypeKeeps DEF SeenInv
    <2> QED
        BY <2>5, <2>7, <2>8, <2>9, <2>10, <2>11, <2>12 DEF IInv, MailInv
<1>8. CASE ~(~CanMove(p) \/ player[p].at = Exit)
    <2>1. /\ player[p].step = "idle"
          /\ player' = [player EXCEPT ![p].to = Exit, ![p].step = "load", ![p].for = m]
          /\ box' = Put(Take(p), Core, Msg("LOADMAP", Exit, p, FALSE))
        BY <1>2, <1>8 DEF Triggered, CanMove
    <2>2. player[p].for = None
        BY <2>1 DEF IInv, IdleInv
    <2> DEFINE traveller == [player[p] EXCEPT !.to = Exit, !.step = "load", !.for = m]
               y == Msg("LOADMAP", Exit, p, FALSE)
    <2>3. /\ player' = [player EXCEPT ![p] = traveller] /\ traveller \in Traveller
          /\ traveller.step = "load" /\ traveller.to = Exit /\ traveller.for = m
        BY <1>1, <2>1, Actors DEF Traveller
    <2>4. y \in For(Core) /\ \A t, k, q : Is(y, t, k, q) <=> t = "LOADMAP" /\ k = Exit /\ q = p
        BY AskFits, Actors
    <2>5. box' = Put(Take(p), Core, y)
        BY <2>1
    <2> HIDE DEF traveller, y
    <2>6. SentInv'
        <3> SUFFICES ASSUME NEW n \in Map, NEW q \in Player PROVE Send(n, q)'
            BY DEF SentInv
        <3>1. Send(n, q) /\ F(box, q, "TRIGGER", Exit, n) \in Nat /\ F(box, n, "SWITCHED", n, q) \in Nat /\ q \in Actor /\ n \in Actor
            BY SentNat
        <3>2. n # p /\ q # Core /\ n # Core
            BY Actors
        <3>3. \A c \in Actor : \A t, k, r :
                  F(box', c, t, k, r) = F(Take(p), c, t, k, r) + (IF c = Core /\ t = "LOADMAP" /\ k = Exit /\ r = p THEN 1 ELSE 0)
            BY <1>1, <1>6, <2>4, <2>5, Sending
        <3>4. F(box', q, "TRIGGER", Exit, n) = F(box, q, "TRIGGER", Exit, n) - (IF n = m /\ q = p THEN 1 ELSE 0)
            BY <1>6, <3>1, <3>2, <3>3
        <3>5. F(box', n, "SWITCHED", n, q) = F(box, n, "SWITCHED", n, q)
            BY <1>6, <3>1, <3>2, <3>3
        <3>6. player'[q].for = IF q = p THEN m ELSE player[q].for
            BY <1>1, <2>3
        <3>7. Sent(n, q)' = Sent(n, q)
            BY <1>3, <2>2, <3>1, <3>4, <3>5, <3>6, Actors DEF Sent
        <3> QED
            BY <1>1, <3>1, <3>7 DEF Send
    <2>7. /\ \A n \in Map : Take(p)[n] = box[n]
          /\ \A c \in Actor : \A t, k, q : t # "TRIGGER" \/ q \notin Map => F(Take(p), c, t, k, q) = F(box, c, t, k, q)
        BY <1>6, Actors
    <2>8. UNCHANGED <<remote, coreVars, peerList, map, script, opened, known, fault>>
        BY <1>1
    <2>9. PICK k \in Map : k = Exit
        BY Actors
    <2>10. traveller.to = k /\ \A t, l, q : Is(y, t, l, q) <=> t = "LOADMAP" /\ l = k /\ q = p
        BY <2>3, <2>4, <2>9
    <2> DEFINE b == Take(p)
    <2>11. /\ Fit(b) /\ \A n \in Map : b[n] = box[n]
           /\ \A c \in Actor : \A t, l, q : t # "TRIGGER" \/ q \notin Map => F(b, c, t, l, q) = F(box, c, t, l, q)
           /\ box' = Put(b, Core, y)
        BY <1>6, <2>5, <2>7
    <2> HIDE DEF b
    <2>12. player[p].step = "idle" /\ y \in For(Core) /\ SeenInv'
        BY <1>5, <2>1, <2>4
    <2>13. player' = [player EXCEPT ![p] = traveller] /\ traveller \in Traveller /\ traveller.step = "load"
        BY <2>3
    <2> QED
        BY <2>6, <2>8, <2>10, <2>11, <2>12, <2>13, AskLoad
<1> QED
    BY <1>7, <1>8

-----------------------------------------------------------------------------
(* The start, and every step.                                               *)

LEMMA InitHolds ==
    ASSUME Init
    PROVE  IInv
<1>1. PICK setup \in Setups :
          /\ remote = setup.remote /\ coreList = setup.loaded /\ peerList = setup.loaded \cap setup.remote
          /\ loadOp = [m \in Map |-> <<>>] /\ closeOp = [m \in Map |-> <<>>]
          /\ map = [m \in Map |-> IF m = Home THEN [NewMap EXCEPT !.active = TRUE, !.grid = Player]
                                  ELSE IF m \in setup.loaded THEN [NewMap EXCEPT !.active = TRUE]
                                  ELSE NoMap]
          /\ script = [s \in Script |-> [op |-> "idle", map |-> None, n |-> 0]]
          /\ opened = {} /\ known = {} /\ seen = {} /\ fault = None
          /\ player = [p \in Player |-> [at |-> Home, to |-> Home, step |-> "idle",
                                         for |-> None, dead |-> FALSE, n |-> 0]]
          /\ box = [a \in Actor |-> <<>>]
    BY DEF Init
<1>2. setup.remote \in SUBSET Map /\ setup.loaded \in SUBSET Map /\ Home \in setup.loaded /\ MaxClose \in Nat
    BY <1>1, RegistryAssumption DEF Map
<1>3. <<>> \in Seq(Player) /\ <<>> \in Seq(Actor) /\ None \notin Map /\ None \notin {Core, Peer}
    BY ActorAssumption
<1>4. NoMap \in [state : {"none"}, active : {FALSE}, closing : {None}, todo : {<<>>}, waiting : {<<>>},
                 grid : {{}}, lock : {None}]
    BY DEF NoMap
<1>5. ASSUME NEW m \in Map
      PROVE  /\ map[m] \in MapActor /\ map[m].closing = None /\ map[m].todo = <<>> /\ map[m].waiting = <<>>
             /\ map[m].state # "closed" /\ (Live(m) <=> m \in coreList) /\ (~Live(m) => Bare(m))
    <2>1. NewMap \in [state : {"live"}, active : {FALSE}, closing : {None}, todo : {<<>>}, waiting : {<<>>},
                      grid : {{}}, lock : {None}]
        BY <1>4 DEF NewMap
    <2>2. map[m] = IF m = Home THEN [NewMap EXCEPT !.active = TRUE, !.grid = Player]
                   ELSE IF m \in setup.loaded THEN [NewMap EXCEPT !.active = TRUE]
                   ELSE NoMap
        BY <1>1
    <2>3. CASE m = Home
        BY <1>1, <1>2, <1>3, <2>1, <2>2, <2>3 DEF MapActor, Live
    <2>4. CASE m # Home /\ m \in setup.loaded
        BY <1>1, <1>3, <2>1, <2>2, <2>4 DEF MapActor, Live
    <2>5. CASE m # Home /\ m \notin setup.loaded
        BY <1>1, <1>3, <1>4, <2>2, <2>5 DEF MapActor, Live, Bare
    <2> QED
        BY <2>3, <2>4, <2>5
<1>6. \A a \in Actor : \A type, m, r : F(box, a, type, m, r) = 0
    BY <1>1, CountEmpty DEF F
<1>7. \A m \in Map : /\ loadOp[m] = <<>> /\ closeOp[m] = <<>>
                     /\ \A r : Waits(m, r) = 0 /\ N(loadOp[m], By(r)) = 0 /\ N(closeOp[m], {r}) = 0
    BY <1>1, <1>5, CountEmpty DEF Waits
<1>8. \A p \in Player : player[p].step = "idle" /\ player[p].for = None /\ player[p] \in Traveller
    BY <1>1, Actors DEF Traveller
<1>9. \A s \in Script : script[s].op = "idle" /\ script[s].map = None
    BY <1>1
<1>10. TypeOK
    <2>1. map \in [Map -> MapActor]
        BY <1>1, <1>5
    <2>2. loadOp \in [Map -> Seq([by : Actor, wait : BOOLEAN])] /\ closeOp \in [Map -> Seq(Script)]
        BY <1>1
    <2>3. box \in [Actor -> Seq([type : MsgType, map : Map, by : Actor, flag : BOOLEAN])]
        BY <1>1
    <2>4. player \in [Player -> Traveller]
        BY <1>1, <1>8
    <2>5. script \in [Script -> [op : {"idle", "load", "close"}, map : Map \cup {None}, n : 0 .. MaxClose]]
        BY <1>1, <1>2
    <2>6. remote \subseteq Map /\ coreList \subseteq Map /\ peerList \subseteq remote
        BY <1>1, <1>2
    <2> QED
        BY <1>1, <2>1, <2>2, <2>3, <2>4, <2>5, <2>6 DEF TypeOK, MapActor, Traveller
<1>11. MailInv
    BY <1>1 DEF MailInv, Fit, Mailboxes
<1>12. QueueInv
    BY <1>5, <1>7 DEF QueueInv
<1>13. RegistryInv
    <2> SUFFICES ASSUME NEW m \in Map PROVE Chain(m) /\ State(m)
        BY DEF RegistryInv
    <2>1. m \in Actor /\ Core \in Actor /\ Peer \in Actor /\ box[m] = <<>>
        BY <1>1, Actors
    <2>2. Loading(m) = 0 /\ Closing(m) = 0 /\ Gone(m) = 0
        <3>1. /\ F(box, Peer, "LOADMAP", m, Core) = 0 /\ F(box, Peer, "ACTIVATED", m, Peer) = 0
              /\ F(box, m, "WAITACTIVATED", m, Peer) = 0 /\ Waits(m, Peer) = 0
              /\ F(box, Core, "LOADED", m, Core) = 0 /\ F(box, Core, "LOADED", m, Peer) = 0
            BY <1>6, <1>7, <2>1
        <3>2. /\ F(box, Peer, "CLOSED", m, Peer) = 0 /\ F(box, Core, "CLOSED", m, Core) = 0
              /\ F(box, Core, "CLOSED", m, Peer) = 0 /\ F(box, Peer, "CLOSEMAP", m, Core) = 0
              /\ F(box, m, "CLOSEMAP", m, Core) = 0 /\ F(box, m, "CLOSEMAP", m, Peer) = 0
            BY <1>6, <2>1
        <3>3. Loading(m) = 0
            BY <3>1 DEF Loading
        <3>4. Gone(m) = 0
            BY <3>2 DEF Gone
        <3> QED
            BY <1>5, <3>2, <3>3, <3>4 DEF Closing
    <2>3. Chain(m)
        BY <1>5, <1>7, <2>2 DEF Chain
    <2>4. m \in peerList <=> m \in remote /\ Live(m)
        BY <1>1, <1>5
    <2> QED
        BY <1>5, <1>6, <1>7, <2>1, <2>2, <2>3, <2>4 DEF State
<1>14. KnownInv
    BY <1>9 DEF KnownInv
<1>15. LoadInv
    <2> SUFFICES ASSUME NEW r \in Client, NEW m \in Map PROVE Load(r, m)
        BY DEF LoadInv
    <2>1. m \in Actor /\ Core \in Actor /\ r \in Actor
        BY Actors DEF Client
    <2>2. Requests(r, m) = 0
        <3>1. /\ F(box, Core, "LOADMAP", m, r) = 0 /\ F(box, Core, "ACTIVATED", m, r) = 0
              /\ N(loadOp[m], By(r)) = 0 /\ Waits(m, r) = 0
              /\ F(box, m, "WAITACTIVATED", m, r) = 0 /\ F(box, r, "LOADED", m, r) = 0
            BY <1>6, <1>7, <2>1
        <3> QED
            BY <3>1 DEF Requests
    <2>3. ~Wants(r, m)
        BY <1>5, <1>8, <1>9 DEF Wants
    <2> QED
        BY <2>2, <2>3 DEF Load
<1>16. CloseInv
    <2> SUFFICES ASSUME NEW s \in Script, NEW m \in Map PROVE Close(s, m)
        BY DEF CloseInv
    <2>1. F(box, Core, "CLOSEMAP", m, s) = 0 /\ N(closeOp[m], {s}) = 0 /\ F(box, s, "CLOSED", m, s) = 0
        BY <1>6, <1>7, Actors
    <2>2. Closes(s, m) = 0
        BY <2>1 DEF Closes
    <2> QED
        BY <1>9, <2>2 DEF Close
<1>17. SentInv
    <2> SUFFICES ASSUME NEW m \in Map, NEW p \in Player PROVE Send(m, p)
        BY DEF SentInv
    <2>1. m \in Actor /\ p \in Actor /\ player[p].for # m /\ map[m].todo = <<>>
        BY <1>3, <1>5, <1>8, Actors
    <2> QED
        BY <1>6, <2>1 DEF Send, Sent
<1>18. IdleInv
    BY <1>8 DEF IdleInv
<1> QED
    BY <1>10, <1>11, <1>12, <1>13, <1>14, <1>15, <1>16, <1>17, <1>18 DEF IInv

LEMMA NextKeeps ==
    ASSUME IInv, Next
    PROVE  IInv'
<1>1. CASE CoreStep
    BY <1>1, LoadMapKeeps, CoreLoadedKeeps, CoreActivatedKeeps, CoreCloseMapKeeps, CoreClosedKeeps DEF CoreStep
<1>2. CASE PeerStep
    BY <1>2, PeerLoadMapKeeps, PeerActivatedKeeps, PeerCloseMapKeeps, PeerClosedHolds DEF PeerStep
<1>3. ASSUME NEW m \in Map, MapStep(m)
      PROVE  IInv'
    BY <1>3, ActivateKeeps, WaitActivatedKeeps, CloseMapKeeps, ExitLoadedKeeps, EvacuatedKeeps, EraseKeeps,
       TryMapSwitchKeeps, SwitchDoneKeeps, TryLeaveKeeps, LeaveOKKeeps DEF MapStep
<1>4. ASSUME NEW s \in Script, ScriptStep(s)
      PROVE  IInv'
    BY <1>4, OpenInstanceKeeps, CloseInstanceKeeps, ScriptAnsweredKeeps DEF ScriptStep
<1>5. ASSUME NEW p \in Player, Switch(p) \/ Die(p) \/ PlayerAnswered(p)
      PROVE  IInv'
    BY <1>5, SwitchKeeps, DieKeeps, TriggeredKeeps, SwitchLoadedKeeps, AllowedKeeps DEF PlayerAnswered
<1> QED
    BY <1>1, <1>2, <1>3, <1>4, <1>5 DEF Next, Server

LEMMA StutterKeeps ==
    ASSUME IInv, UNCHANGED vars
    PROVE  IInv'
<1>1. fault' \in Fault \cup {None} /\
      UNCHANGED <<remote, coreVars, peerList, map, script, opened, known, player, box, seen>>
    BY DEF IInv, TypeOK, vars
<1> QED
    BY <1>1, FaultOnly

(* The inductive invariant: every request for a load or a close, and every  *)
(* player that a closing map sends away, is at one place as long as somebody*)
(* waits for it, and nowhere otherwise; and the lists of the cores and the  *)
(* map actors follow from the places of those that are under way.           *)
THEOREM RegistryCounts == Spec => []IInv
<1>1. Init => IInv
    BY InitHolds
<1>2. IInv /\ [Next]_vars => IInv'
    BY NextKeeps, StutterKeeps
<1> QED
    BY <1>1, <1>2, PTL DEF Spec

(* Every variable of the registry stays in its type: the peer core lists    *)
(* maps of its own process only, scripts can name only what was built.      *)
THEOREM RegistryTypes == Spec => []TypeOK
<1>1. IInv => TypeOK
    BY DEF IInv
<1> QED
    BY <1>1, RegistryCounts, PTL

LEMMA ListsFollow ==
    ASSUME IInv
    PROVE  ListFollowsMaps
<1> SUFFICES ASSUME NEW m \in Map
             PROVE  /\ m \in coreList /\ (map[m].state # "live" \/ (m \in remote /\ m \notin peerList)) => closeOp[m] # <<>>
                    /\ m \notin coreList /\ map[m].state = "live" => loadOp[m] # <<>>
                    /\ loadOp[m] # <<>> => m \notin coreList /\ closeOp[m] = <<>>
    BY DEF ListFollowsMaps, IInv, TypeOK
<1>1. Chain(m) /\ State(m)
    BY DEF IInv, RegistryInv
<1>2. CASE m \in coreList /\ closeOp[m] = <<>>
    <2>1. Gone(m) = 0
        <3> DEFINE u == F(box, Peer, "CLOSEMAP", m, Core)  v == F(box, m, "CLOSEMAP", m, Core)
                   w == F(box, m, "CLOSEMAP", m, Peer)  x == IF map[m].closing # None THEN 1 ELSE 0
        <3>1. u \in Nat /\ v \in Nat /\ w \in Nat /\ x \in Nat /\ Gone(m) \in Nat
            BY ChainNat, Actors
        <3>2. u + v + w + x + Gone(m) = 0
            BY <1>1, <1>2 DEF Chain, Closing
        <3> HIDE DEF u, v, w, x
        <3> QED
            BY <3>1, <3>2
    <2>2. Live(m)
        BY <1>1, <1>2, <2>1 DEF State
    <2> QED
        BY <1>1, <1>2, <2>2 DEF Chain, State, Live
<1> QED
    BY <1>1, <1>2 DEF Chain, State, Live

(* The service core's list and the peer core's list follow the map actors,  *)
(* and a load and a close of one map never overlap (on_AM_LOADMAP,          *)
(* on_AM_CLOSEMAP of servicecore.cpp and peercore.cpp).                     *)
THEOREM ListsFollowMaps == Spec => []ListFollowsMaps
<1>1. IInv => ListFollowsMaps
    BY ListsFollow
<1> QED
    BY <1>1, RegistryCounts, PTL

-----------------------------------------------------------------------------
(* The assertions of the cores and of a closing map.                        *)

\* Without those about players that a map meets after it closed.
CoresAssert ==
    /\ ~Fails("closing") /\ ~Fails("peerList") /\ ~Fails("exit")
    /\ Fails("attach") => fault[2] \in known /\ fault[3] \in Player

\* A map that is still there when it is loaded was closed, and a player loads it.
LEMMA LoadedAgain ==
    ASSUME IInv, NEW m \in Map, map[m].state = "closed", NEW r \in Client, Wants(r, m)
    PROVE  m \in known /\ r \in Player
<1>1. Chain(m)
    BY DEF IInv, RegistryInv
<1>2. m \in known
    BY <1>1 DEF Chain
<1> QED
    BY <1>2, WantsOpen

LEMMA CoreLoadMapAsserts ==
    ASSUME IInv, CoreLoadMap, ~UNCHANGED fault
    PROVE  \E m \in known, p \in Player : fault' = <<"attach", m, p>> /\ known' = known
<1>1. Got(Core) /\ Top(Core).type = "LOADMAP" /\ Core \in Actor
    BY Actors DEF CoreLoadMap
<1>2. PICK m \in Map, r \in Actor :
          /\ Top(Core).map = m /\ Top(Core).by = r
          /\ F(box, Core, "LOADMAP", m, r) # 0 /\ Top(Core) \in For(Core)
    BY <1>1, Handled
<1>3. r \in Client
    BY <1>1, <1>2, Actors DEF For, ForCore
<1>4. fault' = <<"attach", m, r>> /\ m \notin coreList /\ m \notin remote /\ map[m].state # "none" /\ known' = known
    BY <1>2 DEF CoreLoadMap, CanAttach
<1>5. map[m].state = "closed"
    BY <1>4 DEF IInv, RegistryInv, Chain, State, Live, TypeOK
<1>6. Wants(r, m)
    BY <1>2, <1>3, Requested
<1>7. m \in known /\ r \in Player
    BY <1>3, <1>5, <1>6, LoadedAgain
<1> QED
    BY <1>4, <1>7

LEMMA PeerLoadMapAsserts ==
    ASSUME IInv, PeerLoadMap, ~UNCHANGED fault
    PROVE  \E m \in known, p \in Player : fault' = <<"attach", m, p>> /\ known' = known
<1>1. Got(Peer) /\ Top(Peer).type = "LOADMAP" /\ Peer \in Actor /\ TypeOK
    BY Actors DEF PeerLoadMap, IInv
<1>2. PICK m \in Map : Top(Peer).map = m /\ Top(Peer) \in For(Peer) /\ F(box, Peer, "LOADMAP", m, Top(Peer).by) # 0
    BY <1>1, Handled
<1>3. Top(Peer).by = Core /\ F(box, Peer, "LOADMAP", m, Core) # 0
    BY <1>1, <1>2, Actors DEF For, ForPeer
<1>4. loadOp[m] # <<>> /\ loadOp[m] \in Seq(Waiter)
    BY <1>1, <1>3, LoadingAt, QueueNat
<1>5. PICK r \in Client : Head(loadOp[m]).by = r
    <2>1. 1 \in DOMAIN loadOp[m] /\ Head(loadOp[m]) = loadOp[m][1]
        BY <1>4
    <2> QED
        BY <2>1 DEF IInv, QueueInv
<1>6. N(loadOp[m], By(r)) # 0
    <2>1. Head(loadOp[m]) \in Waiter
        BY <1>4
    <2>2. Head(loadOp[m]) \in By(r)
        BY <1>5, <2>1 DEF Waiter, By
    <2>3. 1 \in DOMAIN loadOp[m] /\ loadOp[m][1] \in By(r)
        BY <1>4, <2>2
    <2> QED
        BY <1>4, <2>3, CountFinite
<1>7. Wants(r, m)
    BY <1>6, Requested
<1>8. fault' = <<"attach", m, r>> /\ map[m].state # "none" /\ known' = known
    BY <1>2, <1>5 DEF PeerLoadMap, CanAttach
<1>9. map[m].state = "closed"
    <2>1. ~Live(m)
        BY <1>3, LoadingAt, ChainNat DEF State
    <2> QED
        BY <1>1, <1>8, <2>1 DEF Live, TypeOK
<1>10. m \in known /\ r \in Player
    BY <1>7, <1>9, LoadedAgain
<1> QED
    BY <1>8, <1>10

LEMMA NextAsserts ==
    ASSUME IInv, Next
    PROVE  CoresAssert'
<1>1. fault = None /\ None \notin Fault
    BY FaultAssumption DEF Next
<1>2. \/ fault' = fault
      \/ \E m \in known, p \in Player : fault' = <<"attach", m, p>> /\ known' = known
      \/ \E m \in Map, a \in Actor : fault' = <<"stray", m, a>>
      \/ \E a \in Actor : fault' = <<"switch", a>>
    <2>1. CASE CoreStep
        BY <2>1, CoreLoadMapAsserts DEF CoreStep, CoreLoaded, CoreActivated, CoreCloseMap, CoreClosed
    <2>2. CASE PeerStep
        BY <2>2, PeerLoadMapAsserts, PeerCloseMapKeeps DEF PeerStep, PeerActivated, PeerClosed
    <2>3. ASSUME NEW m \in Map, MapStep(m)
          PROVE  \/ fault' = fault
                 \/ \E a \in Actor : fault' = <<"stray", m, a>>
                 \/ \E a \in Actor : fault' = <<"switch", a>>
        <3>1. m \in Actor /\ (Got(m) => Top(m).by \in Actor)
            BY Handled, Actors
        <3>2. CASE CloseMap(m) \/ ExitLoaded(m)
            BY <3>2, CloseMapKeeps, ExitLoadedKeeps
        <3>3. CASE Evacuated(m)
            BY <3>1, <3>3 DEF Evacuated
        <3>4. CASE SwitchDone(m) \/ LeaveOK(m)
            BY <3>1, <3>4 DEF SwitchDone, LeaveOK, Stray
        <3>5. CASE Activate(m) \/ WaitActivated(m) \/ Erase(m) \/ TryMapSwitch(m) \/ TryLeave(m)
            BY <3>5 DEF Activate, WaitActivated, Erase, TryMapSwitch, TryLeave
        <3> QED
            BY <2>3, <3>2, <3>3, <3>4, <3>5 DEF MapStep
    <2>4. ASSUME NEW s \in Script, ScriptStep(s)
          PROVE  fault' = fault
        BY <2>4 DEF ScriptStep, OpenInstance, CloseInstance, ScriptAnswered
    <2>5. ASSUME NEW p \in Player, Switch(p) \/ Die(p) \/ PlayerAnswered(p)
          PROVE  fault' = fault
        BY <2>5 DEF Switch, Die, PlayerAnswered, Triggered, SwitchLoaded, SwitchAllowed, LeaveAllowed, Left, PlayerUnchanged
    <2> QED
        BY <2>1, <2>2, <2>3, <2>4, <2>5 DEF Next, Server
<1>3. CASE fault' = fault
    BY <1>1, <1>3 DEF CoresAssert, Fails
<1>4. CASE \E m \in known, p \in Player : fault' = <<"attach", m, p>> /\ known' = known
    BY <1>4 DEF CoresAssert, Fails
<1>5. CASE \E m \in Map, a \in Actor : fault' = <<"stray", m, a>>
    BY <1>5 DEF CoresAssert, Fails
<1>6. CASE \E a \in Actor : fault' = <<"switch", a>>
    BY <1>6 DEF CoresAssert, Fails
<1> QED
    BY <1>2, <1>3, <1>4, <1>5, <1>6

(* One AM_CLOSEMAP at a time reaches a map, the peer core has the map that  *)
(* it is to close, and the exit map loads: three assertions that never fail *)
(* (on_AM_CLOSEMAP of peercore.cpp and servermapop.cpp). The mailbox of a   *)
(* closed map is met only by a player's load of an instance that was known. *)
THEOREM CoresNeverFail == Spec => []CoresAssert
<1>1. Init => CoresAssert
    BY DEF Init, CoresAssert, Fails
<1>2. IInv /\ CoresAssert /\ [Next]_vars => CoresAssert'
    <2>1. IInv /\ Next => CoresAssert'
        BY NextAsserts
    <2>2. CoresAssert /\ UNCHANGED vars => CoresAssert'
        BY DEF CoresAssert, Fails, vars
    <2> QED
        BY <2>1, <2>2
<1> QED
    BY <1>1, <1>2, RegistryCounts, PTL DEF Spec
=============================================================================
