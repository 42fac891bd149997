----------------------------- MODULE MCSession -----------------------------
(* Instances of Session for TLC.                                            *)
EXTENDS Session

(* maxPlayerCount is 1, where a number is in use again at once, or 2; the   *)
(* start map is loaded, or the first CM_ONLINE waits for it.                *)
Setup(ids, loaded) == [ids |-> ids, loaded |-> loaded]
SmallSetups == {Setup(<<1>>, FALSE), Setup(<<1, 2>>, TRUE)}
LiveSetups == {Setup(<<1>>, FALSE)}
Accounts == Permutations(Account)
=============================================================================
