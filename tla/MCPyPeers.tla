----------------------------- MODULE MCPyPeers ------------------------------
(* PyPeers with two handler threads and two remotes behind one address,    *)
(* written with and without a trailing slash, which is also the address of *)
(* the bootstrap peer.                                                     *)
EXTENDS PyPeers

CONSTANTS w1, w2, r1, r2, x, y, z

TwoForms == [a \in {"addr", "addr/", x, y, z} |-> IF a = "addr/" THEN "addr" ELSE a]
SharedAddress == [r \in Remotes |-> {"addr", "addr/"}]

(* Threads, remotes and addresses that only register are alike. *)
Alike == Permutations({w1, w2}) \cup Permutations({r1, r2}) \cup Permutations({x, y, z})

(* Bound: where there are rows of peers that only register there are no    *)
(* requests and at most one challenge, where there is a second challenge   *)
(* at most one accepted request is followed, and a behaviour ends with the *)
(* first request that is accepted after a restart.                         *)
Apart ==
    /\ \/ rows \subseteq {"addr"}
       \/ Len(issued) <= 1 /\ SumFunction(accepted) = 0 /\ \A w \in Workers : job[w].kind # "request"
    /\ Len(issued) <= 1 \/ SumFunction(accepted) <= 1
    /\ restarts = 0 \/ SumFunction(accepted) = 0
=============================================================================
