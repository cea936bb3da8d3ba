------------------------------ MODULE PyPeers ------------------------------
(***************************************************************************)
(* Peer registration and authentication at one Python node: the handlers  *)
(* of api/network_routes.py for register, challenge, authenticate and the *)
(* authenticated requests, the ChallengeStore and ReplayCache of          *)
(* handshake.py, the registry of peer.py, and the rows of storage.py.     *)
(*                                                                         *)
(* The handlers run in a pool of threads and share the stores without a    *)
(* lock: job[w] is what thread w has read and not yet acted upon.  A       *)
(* challenge is the number of the call that issued it.  Envelopes are      *)
(* well formed and may arrive more than once; requests are signed by the   *)
(* remote that they name, answers to challenges perhaps not.  An address   *)
(* is written in several forms, with or without a trailing slash: the      *)
(* table of credentials has it as it was written, the table of peers in    *)
(* its normal form.  Of time only the order is known: a challenge becomes  *)
(* old at any time after it was issued.                                    *)
(***************************************************************************)
EXTENDS Integers, Sequences, FiniteSets, SequencesExt, TLC

CONSTANTS
    Workers,           \* handler threads, the maintenance thread among them
    Remotes,           \* node ids of other nodes
    normalize_address, \* normalize_address[a]: the normal form of a written address
    address,           \* address[r]: the forms in which r writes its address; two remotes may share one
    NoAddress,         \* a request that names no address
    Listed,            \* addresses that are registered or listed by peers
    Bootstrap,         \* settings.p2p.bootstrap_peers
    Nonces,            \* nonces of authenticated requests
    max_size,          \* of the ChallengeStore
    replay_cache_size,
    max_peers,
    MaxChallenges,     \* bound: challenges issued
    MaxRequests,       \* bound: requests accepted in a life of the process
    MaxRestarts        \* bound

ASSUME PyPeersAssumption ==
    /\ IsFiniteSet(Workers) /\ Workers # {} /\ {max_size, replay_cache_size, max_peers} \subseteq Nat \ {0}
    /\ {MaxChallenges, MaxRequests, MaxRestarts} \subseteq Nat
    /\ Listed \cup Bootstrap \cup UNION {address[r] : r \in Remotes} \subseteq DOMAIN normalize_address
    /\ NoAddress \notin Range(normalize_address)

VARIABLES
    challenges, order, \* ChallengeStore._challenges and ._order
    nonces,            \* the replay cache, oldest first
    rows, credentials, \* tables peers and peer_credentials
    job,
    issued,            \* issued[i]: the remote that challenge i was issued for
    restarts,
    uses,              \* uses[i]: how many calls of verify_and_consume have accepted challenge i
    accepted,          \* how many requests with each nonce were accepted
    named,             \* remotes of accepted requests that named an address
    proved,            \* remotes that have answered a challenge of theirs
    forgotten,         \* nonces that left the replay cache since the process started
    overlapped,        \* two calls of the challenge store have overlapped
    cut                \* rows that a restart kept an authentication from writing

memory == <<challenges, order, nonces, job>>
ghosts == <<uses, accepted, named, proved, forgotten, overlapped, cut>>
vars == <<memory, rows, credentials, issued, restarts, ghosts>>

idle == [kind |-> "idle"]

Init ==
    /\ challenges = <<>> /\ order = <<>> /\ nonces = <<>>
    /\ rows = {} /\ credentials = <<>>
    /\ job = [w \in Workers |-> idle] /\ issued = <<>> /\ restarts = 0
    /\ uses = <<>> /\ accepted = [k \in Remotes \X Nonces |-> 0] /\ named = {} /\ proved = {}
    /\ forgotten = {} /\ overlapped = FALSE /\ cut = {}

put(f, x, value) == [y \in DOMAIN f \cup {x} |-> IF y = x THEN value ELSE f[y]]

(* Mutant: the entry stays. *)
kept(f, x) == f

without(f, x) == [y \in DOMAIN f \ {x} |-> f[y]]

finish(w) == job' = [job EXCEPT ![w] = idle]

begin(w, next) == job' = [job EXCEPT ![w] = next]

in_store(w) == job[w].kind \in {"issue", "verify", "consume"}

note_overlap(w) == overlapped' = (overlapped \/ \E v \in Workers \ {w} : in_store(v))

-----------------------------------------------------------------------------
(* PeerRegistry.register, from the route, from discover_peers and for the  *)
(* bootstrap peers: the cap is read before the row is written.             *)

(* Mutant: the cap is not asked. *)
register_uncapped(w, a) ==
    /\ job[w].kind = "idle"
    /\ begin(w, [kind |-> "register", address |-> normalize_address[a]])
    /\ UNCHANGED <<challenges, order, nonces, rows, credentials, issued, restarts, ghosts>>

register(w, a) ==
    /\ job[w].kind = "idle"
    /\ normalize_address[a] \in rows \/ Cardinality(rows) < max_peers
    /\ begin(w, [kind |-> "register", address |-> normalize_address[a]])
    /\ UNCHANGED <<challenges, order, nonces, rows, credentials, issued, restarts, ghosts>>

(* Mutant: the cap holds for authenticated peers too. *)
upsert_within_cap(a) == rows' = IF Cardinality(rows) < max_peers THEN rows \cup {a} ELSE rows

upsert_peer(a) == rows' = rows \cup {a}

write_row(w) ==
    /\ job[w].kind \in {"register", "trusted"}
    /\ upsert_peer(job[w].address)
    /\ finish(w)
    /\ UNCHANGED <<challenges, order, nonces, credentials, issued, restarts, ghosts>>

(* _discover_bootstrap_peers: mark_failure or mark_seen writes the row of  *)
(* a bootstrap peer even when register refused it at the cap.              *)
mark_bootstrap(w, a) ==
    /\ job[w].kind = "idle"
    /\ upsert_peer(normalize_address[a])
    /\ UNCHANGED <<memory, credentials, issued, restarts, ghosts>>

-----------------------------------------------------------------------------
(* ChallengeStore *)

issue_challenge(w, r) ==
    /\ job[w].kind = "idle" /\ Len(issued) < MaxChallenges
    /\ begin(w, [kind |-> "issue", remote |-> r, known |-> r \in DOMAIN challenges])
    /\ note_overlap(w)
    /\ UNCHANGED <<challenges, order, nonces, rows, credentials, issued, restarts, uses, accepted, named, proved, forgotten, cut>>

(* Mutant: the evicted challenge stays in the dictionary. *)
store_evicting_order(c, o, r, number) ==
    LET appended == Append(o, r)
        stored   == put(c, r, [number |-> number, fresh |-> TRUE])
    IN  [challenges |-> stored, order |-> IF Len(appended) > max_size THEN Tail(appended) ELSE appended]

store_challenge(c, o, r, number) ==
    LET appended == Append(o, r)
        stored   == put(c, r, [number |-> number, fresh |-> TRUE])
    IN  IF Len(appended) > max_size
        THEN [challenges |-> without(stored, Head(appended)), order |-> Tail(appended)]
        ELSE [challenges |-> stored, order |-> appended]

(* list.remove raises when another thread has removed the entry since. *)
issue(w) ==
    /\ job[w].kind = "issue"
    /\ LET r == job[w].remote
           new == store_challenge(challenges, IF job[w].known THEN RemoveFirst(order, r) ELSE order, r, Len(issued) + 1)
       IN  IF job[w].known /\ ~Contains(order, r) THEN UNCHANGED <<challenges, order, issued, uses>>
           ELSE /\ challenges' = new.challenges /\ order' = new.order
                /\ issued' = Append(issued, r) /\ uses' = Append(uses, 0)
    /\ finish(w)
    /\ UNCHANGED <<nonces, rows, credentials, restarts, accepted, named, proved, forgotten, overlapped, cut>>

grow_old(r) ==
    /\ r \in DOMAIN challenges /\ challenges[r].fresh
    /\ challenges' = [challenges EXCEPT ![r].fresh = FALSE]
    /\ UNCHANGED <<order, nonces, rows, credentials, job, issued, restarts, ghosts>>

(* verify_and_consume: an old challenge leaves the dictionary and not the  *)
(* order list.                                                             *)
verify(w, r, number) ==
    /\ job[w].kind = "idle"
    /\ number \in DOMAIN issued /\ issued[number] = r
    /\ note_overlap(w)
    /\ IF r \notin DOMAIN challenges THEN UNCHANGED <<challenges, job>>
       ELSE IF ~challenges[r].fresh THEN challenges' = without(challenges, r) /\ UNCHANGED job
       ELSE IF challenges[r].number # number THEN UNCHANGED <<challenges, job>>
       ELSE begin(w, [kind |-> "verify", remote |-> r, number |-> number]) /\ UNCHANGED challenges
    /\ UNCHANGED <<order, nonces, rows, credentials, issued, restarts, uses, accepted, named, proved, forgotten, cut>>

consume(w) ==
    /\ job[w].kind = "verify"
    /\ challenges' = without(challenges, job[w].remote)
    /\ begin(w, [job[w] EXCEPT !.kind = "consume"])
    /\ uses' = [uses EXCEPT ![job[w].number] = @ + 1]
    /\ UNCHANGED <<order, nonces, rows, credentials, issued, restarts, accepted, named, proved, forgotten, overlapped, cut>>

-----------------------------------------------------------------------------
(* authenticate_peer after verify_handshake_envelope.  The credential of   *)
(* the address, as it was written, is replaced whoever held it, and        *)
(* mark_seen writes the row of its normal form even when register refused  *)
(* it at the cap.                                                          *)

(* The challenge is gone before the signature and the advertised address   *)
(* are looked at.                                                          *)
verify_handshake_envelope_fails(w) ==
    /\ job[w].kind = "consume"
    /\ order' = RemoveFirst(order, job[w].remote)
    /\ finish(w)
    /\ UNCHANGED <<challenges, nonces, rows, credentials, issued, restarts, ghosts>>

upsert_peer_credential(a, r) == credentials' = put(credentials, a, r)

authenticate_peer(w, a) ==
    /\ job[w].kind = "consume"
    /\ LET r == job[w].remote
       IN  /\ a \in address[r]
           /\ order' = RemoveFirst(order, r)
           /\ upsert_peer_credential(a, r)
           /\ proved' = proved \cup {r}
           /\ begin(w, [kind |-> "trusted", address |-> normalize_address[a]])
    /\ UNCHANGED <<challenges, nonces, rows, issued, restarts, uses, accepted, named, forgotten, overlapped, cut>>

-----------------------------------------------------------------------------
(* authenticate_request: the credential is read first, and the replay      *)
(* cache is asked and written in two calls.  A request that names no       *)
(* address is not asked for a credential at all.                           *)

get_peer_credential(a) == IF a \in DOMAIN credentials THEN {credentials[a]} ELSE {}

(* What a request of r that names a is granted: the row of its sender, a   *)
(* request without a row, or nothing.                                      *)
grant(r, a) ==
    IF a = NoAddress THEN {NoAddress}
    ELSE IF get_peer_credential(a) = {r} THEN {normalize_address[a]} ELSE {}

authenticate_request(w, r, nonce, a) ==
    /\ job[w].kind = "idle" /\ SumFunction(accepted) < MaxRequests
    /\ a \in address[r] \cup {NoAddress}
    /\ <<r, nonce>> \notin Range(nonces)
    /\ begin(w, [kind |-> "request", key |-> <<r, nonce>>, grant |-> grant(r, a)])
    /\ UNCHANGED <<challenges, order, nonces, rows, credentials, issued, restarts, ghosts>>

(* Mutant: the nonce is not recorded. *)
forget_nonce(s, key) == s

add_nonce(s, key) ==
    LET rest == RemoveFirst(s, key)
    IN  Append(IF Len(rest) < replay_cache_size THEN rest ELSE Tail(rest), key)

(* A named peer whose block or transaction is accepted is marked as seen.  *)
check_and_record(w) ==
    /\ job[w].kind = "request"
    /\ nonces' = add_nonce(nonces, job[w].key)
    /\ forgotten' = forgotten \cup (Range(nonces) \ Range(nonces'))
    /\ accepted' = IF job[w].grant # {} THEN [accepted EXCEPT ![job[w].key] = @ + 1] ELSE accepted
    /\ LET row == job[w].grant \ {NoAddress}
       IN  /\ named' = IF row # {} THEN named \cup {job[w].key[1]} ELSE named
           /\ rows' \in {rows, rows \cup row}
    /\ finish(w)
    /\ UNCHANGED <<challenges, order, credentials, issued, restarts, uses, proved, overlapped, cut>>

-----------------------------------------------------------------------------
(* The process starts again: the tables stay. *)

Restart ==
    /\ restarts < MaxRestarts /\ restarts' = restarts + 1
    /\ challenges' = <<>> /\ order' = <<>> /\ nonces' = <<>> /\ job' = [w \in Workers |-> idle]
    /\ cut' = cut \cup {job[w].address : w \in {v \in Workers : job[v].kind = "trusted"}}
    /\ accepted' = [k \in Remotes \X Nonces |-> 0] /\ forgotten' = {}
    /\ UNCHANGED <<rows, credentials, issued, uses, named, proved, overlapped>>

Next ==
    \/ \E w \in Workers :
           \/ \E a \in Listed \cup Bootstrap : register(w, a)
           \/ \E a \in Bootstrap : mark_bootstrap(w, a)
           \/ \E r \in Remotes : issue_challenge(w, r) \/ \E i \in DOMAIN issued : verify(w, r, i)
           \/ \E r \in Remotes, n \in Nonces : \E a \in address[r] \cup {NoAddress} : authenticate_request(w, r, n, a)
           \/ \E r \in Remotes : \E a \in address[r] : authenticate_peer(w, a)
           \/ write_row(w) \/ issue(w) \/ consume(w)
           \/ verify_handshake_envelope_fails(w) \/ check_and_record(w)
    \/ \E r \in Remotes : grow_old(r)
    \/ Restart

Spec == Init /\ [][Next]_vars

-----------------------------------------------------------------------------

(* verify_and_consume accepts a challenge once as long as calls of the     *)
(* store do not overlap, and otherwise at most once for each thread: the   *)
(* threads that compared it before the first of them removed it.  Neither  *)
(* a newer challenge, an eviction nor a restart makes it valid again       *)
(* (handshake.py compares and removes in two calls, without a lock).       *)
SingleUse ==
    \A i \in DOMAIN uses : uses[i] <= IF overlapped THEN Cardinality(Workers) ELSE 1

(* As long as calls of the store have not overlapped, every remembered     *)
(* challenge has its place in the order list, which is what bounds the     *)
(* store ("the underlying store has a fixed capacity", handshake.py).      *)
StoreBounded ==
    ~overlapped => DOMAIN challenges \subseteq Range(order) /\ Cardinality(DOMAIN challenges) <= max_size

normal_forms(addresses) == {normalize_address[a] : a \in addresses}

(* Rows of peers that neither authenticated nor are bootstrap peers exceed *)
(* max_peers by at most the threads that may have read the count together  *)
(* (peer.py register; mark_seen and mark_failure ask no cap).              *)
UntrustedWithinCap ==
    Cardinality(rows \ normal_forms(DOMAIN credentials \cup Bootstrap)) <= max_peers + Cardinality(Workers) - 1

(* The normal form of a trusted address is in the registry, even when the  *)
(* registry was full: unless its handler is about to write the row, or a   *)
(* restart cut the handler short between the two tables                    *)
(* (network_routes.py authenticate_peer).                                  *)
TrustedIsKnown ==
    normal_forms(DOMAIN credentials) \subseteq
        rows \cup cut \cup {job[w].address : w \in {v \in Workers : job[v].kind = "trusted"}}

(* Unless the replay cache has had to forget its nonce, a request is       *)
(* accepted at most once by each thread, as the cache is asked and written *)
(* in two calls; and one that names an address is accepted only from a     *)
(* remote that has answered a challenge (propagation.py                    *)
(* authenticate_request; one that names none needs no credential).         *)
AcceptedOncePerThread ==
    /\ named \subseteq proved
    /\ \A r \in Remotes, n \in Nonces :
           accepted[r, n] <= Cardinality(Workers) \/ <<r, n>> \in forgotten
=============================================================================
