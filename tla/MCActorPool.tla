----------------------------- MODULE MCActorPool -----------------------------
(* Instances of ActorPool for TLC: the UIDs of the actors and the workers   *)
(* their buckets belong to.                                                 *)
EXTENDS ActorPool, TLC

CONSTANTS w1, w2, m1, m2, u1, u2

\* Two actors in the bucket of w1: w2 can only steal or be notified at random.
SameBucket  == (u1 :> w1) @@ (u2 :> w1)
\* One actor in each bucket.
TwoBuckets  == (u1 :> w1) @@ (u2 :> w2)

DistinctUid == (m1 :> u1) @@ (m2 :> u2)
\* m2 is a second incarnation of the UID of m1, as when a player logs in again.
SameUid     == (m1 :> u1) @@ (m2 :> u1)
OneHome     == (u1 :> w1)

Messages == Permutations(MsgId)
=============================================================================
