--------------------------- MODULE PyPeersProofs ---------------------------
(***************************************************************************)
(* Proofs about module PyPeers, for every number of threads, remotes,      *)
(* addresses and restarts, and every capacity.                             *)
(***************************************************************************)
EXTENDS PyPeers, DataLemmas, FiniteSetTheorems, TLAPS

-----------------------------------------------------------------------------
(* Registry and credentials *)

(* job has a record for every thread. *)
JobDomain == DOMAIN job = Workers

(* The inductive invariant of TrustedIsKnown. *)
KnownInv == JobDomain /\ TrustedIsKnown

(* No step takes a row away, and the credential of an address comes with a *)
(* job that will write its row.                                            *)
LEMMA KnownStep == KnownInv /\ [Next]_vars => KnownInv'
<1> SUFFICES ASSUME KnownInv, [Next]_vars PROVE KnownInv'
  OBVIOUS
<1> USE DEF KnownInv, TrustedIsKnown, JobDomain
<1>1. ASSUME NEW w \in Workers, NEW a, register(w, a) PROVE KnownInv'
  BY <1>1 DEF register, begin, ghosts
<1>2. ASSUME NEW w \in Workers, NEW r \in Remotes, issue_challenge(w, r) PROVE KnownInv'
  BY <1>2 DEF issue_challenge, begin
<1>3. ASSUME NEW w \in Workers, NEW r \in Remotes, NEW i \in DOMAIN issued, verify(w, r, i) PROVE KnownInv'
  <2>1. UNCHANGED <<credentials, rows, cut>>
    BY <1>3 DEF verify
  <2>2. job' = job \/ job' = [job EXCEPT ![w] = [kind |-> "verify", remote |-> r, number |-> i]]
    BY <1>3 DEF verify, begin
  <2> QED BY <2>1, <2>2, <1>3 DEF verify
<1>4. ASSUME NEW w \in Workers, NEW r \in Remotes, NEW n \in Nonces, NEW a, authenticate_request(w, r, n, a) PROVE KnownInv'
  BY <1>4 DEF authenticate_request, begin, ghosts
<1>5. ASSUME NEW w \in Workers, write_row(w) PROVE KnownInv'
  BY <1>5 DEF write_row, finish, upsert_peer, idle, ghosts
<1>6. ASSUME NEW w \in Workers, issue(w) PROVE KnownInv'
  <2>1. UNCHANGED <<credentials, rows, cut>> /\ job' = [job EXCEPT ![w] = idle] /\ job[w].kind = "issue"
    BY <1>6 DEF issue, finish, ghosts
  <2> QED BY <2>1 DEF idle
<1>7. ASSUME NEW w \in Workers, consume(w) PROVE KnownInv'
  <2>1. UNCHANGED <<credentials, rows, cut>> /\ job[w].kind = "verify"
    BY <1>7 DEF consume
  <2>2. job' = [job EXCEPT ![w] = [job[w] EXCEPT !.kind = "consume"]]
    BY <1>7 DEF consume, begin
  <2> QED BY <2>1, <2>2
<1>8. ASSUME NEW w \in Workers, NEW a, authenticate_peer(w, a) PROVE KnownInv'
  <2>1. UNCHANGED <<rows, cut>> /\ job[w].kind = "consume"
    BY <1>8 DEF authenticate_peer
  <2>2. job' = [job EXCEPT ![w] = [kind |-> "trusted", address |-> normalize_address[a]]]
    BY <1>8 DEF authenticate_peer, begin
  <2>3. DOMAIN credentials' = DOMAIN credentials \cup {a}
    BY <1>8 DEF authenticate_peer, upsert_peer_credential, put
  <2>4. normal_forms(DOMAIN credentials') = normal_forms(DOMAIN credentials) \cup {normalize_address[a]}
    BY <2>3 DEF normal_forms
  <2> QED BY <2>1, <2>2, <2>4
<1>9. ASSUME NEW w \in Workers, check_and_record(w) PROVE KnownInv'
  <2>1. UNCHANGED <<credentials, cut>> /\ job[w].kind = "request" /\ job' = [job EXCEPT ![w] = idle]
    BY <1>9 DEF check_and_record, finish
  <2>2. rows \subseteq rows'
    BY <1>9 DEF check_and_record
  <2> QED BY <2>1, <2>2 DEF idle
<1>14. ASSUME NEW w \in Workers, NEW a, mark_bootstrap(w, a) PROVE KnownInv'
  BY <1>14 DEF mark_bootstrap, upsert_peer, memory, ghosts
<1>13. ASSUME NEW w \in Workers, verify_handshake_envelope_fails(w) PROVE KnownInv'
  BY <1>13 DEF verify_handshake_envelope_fails, finish, idle, ghosts
<1>10. ASSUME NEW r \in Remotes, grow_old(r) PROVE KnownInv'
  BY <1>10 DEF grow_old, ghosts
<1>11. CASE Restart
  BY <1>11 DEF Restart, idle
<1>12. CASE UNCHANGED vars
  BY <1>12 DEF vars, memory, ghosts
<1> QED BY <1>1, <1>2, <1>3, <1>4, <1>5, <1>6, <1>7, <1>8, <1>9, <1>10, <1>11, <1>12, <1>13, <1>14 DEF Next

(* The normal form of a trusted address is in the registry at every        *)
(* capacity, unless a restart fell between the two tables                  *)
(* (network_routes.py authenticate_peer).                                  *)
THEOREM TrustedKnown == Spec => []TrustedIsKnown
<1>1. Init => KnownInv
  <2> SUFFICES ASSUME Init PROVE KnownInv
    OBVIOUS
  <2>1. DOMAIN credentials = {} /\ DOMAIN job = Workers
    BY DEF Init
  <2>2. normal_forms(DOMAIN credentials) = {}
    BY <2>1 DEF normal_forms
  <2> QED BY <2>1, <2>2 DEF KnownInv, JobDomain, TrustedIsKnown
<1>2. KnownInv => TrustedIsKnown
  BY DEF KnownInv
<1> QED BY <1>1, <1>2, KnownStep, PTL DEF Spec

-----------------------------------------------------------------------------
(* Challenges *)

(* Threads that have compared challenge i and not yet removed it. *)
Comparing(i) == {w \in Workers : job[w].kind = "verify" /\ job[w].number = i}

(* A number belongs to one remote. *)
NumbersOK ==
    /\ JobDomain
    /\ issued \in Seq(Remotes) /\ uses \in Seq(Nat) /\ Len(uses) = Len(issued)
    /\ \A r \in DOMAIN challenges :
           challenges[r].number \in DOMAIN issued /\ issued[challenges[r].number] = r
    /\ \A w \in Workers :
           /\ job[w].kind \in {"verify", "consume"} =>
                  job[w].number \in DOMAIN issued /\ issued[job[w].number] = job[w].remote
           /\ job[w].kind = "issue" => job[w].remote \in Remotes

(* A challenge in the store was never accepted, and afterwards only the    *)
(* threads that are comparing it can accept it.                            *)
CountsOK ==
    /\ \A r \in DOMAIN challenges : uses[challenges[r].number] = 0
    /\ \A i \in DOMAIN uses : uses[i] + Cardinality(Comparing(i)) <= Cardinality(Workers)

AloneOK ==
    ~overlapped =>
        /\ \A i \in DOMAIN uses : uses[i] <= 1
        /\ \A w \in Workers : job[w].kind = "verify" => uses[job[w].number] = 0
        /\ \A v, w \in Workers : in_store(v) /\ in_store(w) => v = w

UseInv == NumbersOK /\ CountsOK /\ AloneOK

LEMMA ComparingSize ==
    ASSUME NEW A, A \subseteq Workers
    PROVE  /\ IsFiniteSet(A) /\ Cardinality(A) \in Nat /\ Cardinality(Workers) \in Nat
           /\ Cardinality(A) <= Cardinality(Workers)
BY FS_Subset, FS_CardinalityType, PyPeersAssumption

(* The store after issue: the new challenge, and some of the old ones. *)
LEMMA Stored ==
    ASSUME NEW o, NEW r, NEW number, NEW q \in DOMAIN store_challenge(challenges, o, r, number).challenges
    PROVE  LET c == store_challenge(challenges, o, r, number).challenges
           IN  \/ q = r /\ c[q] = [number |-> number, fresh |-> TRUE]
               \/ q # r /\ q \in DOMAIN challenges /\ c[q] = challenges[q]
<1> DEFINE stored == put(challenges, r, [number |-> number, fresh |-> TRUE])
           gone == Head(Append(o, r))
<1>1. store_challenge(challenges, o, r, number).challenges \in {stored, without(stored, gone)}
  BY DEF store_challenge
<1>2. DOMAIN without(stored, gone) \subseteq DOMAIN stored
      /\ \A x \in DOMAIN without(stored, gone) : without(stored, gone)[x] = stored[x]
  BY DEF without
<1>3. q \in DOMAIN stored /\ store_challenge(challenges, o, r, number).challenges[q] = stored[q]
  BY <1>1, <1>2
<1> QED BY <1>3 DEF put

(* A step in which no thread enters a call of the store or removes a       *)
(* challenge it has compared.                                              *)
LEMMA UseQuiet ==
    ASSUME UseInv, JobDomain', UNCHANGED <<issued, uses>>, overlapped => overlapped',
           \A v \in Workers : job'[v] = job[v] \/ job'[v].kind \notin {"issue", "verify", "consume"},
           \A q \in DOMAIN challenges' : q \in DOMAIN challenges /\ challenges'[q].number = challenges[q].number
    PROVE  UseInv'
<1>1. NumbersOK'
  BY DEF UseInv, NumbersOK
<1>2. \A i \in DOMAIN uses : uses[i] + Cardinality(Comparing(i)') <= Cardinality(Workers)
  <2> SUFFICES ASSUME NEW i \in DOMAIN uses PROVE uses[i] + Cardinality(Comparing(i)') <= Cardinality(Workers)
    OBVIOUS
  <2>1. Comparing(i)' \subseteq Comparing(i) /\ Comparing(i) \subseteq Workers
    BY DEF Comparing
  <2>2. /\ Cardinality(Comparing(i)') <= Cardinality(Comparing(i)) /\ Cardinality(Comparing(i)') \in Nat
        /\ Cardinality(Comparing(i)) \in Nat /\ Cardinality(Workers) \in Nat
    BY <2>1, ComparingSize, FS_Subset, FS_CardinalityType
  <2>3. uses[i] \in Nat /\ uses[i] + Cardinality(Comparing(i)) <= Cardinality(Workers)
    BY DEF UseInv, NumbersOK, CountsOK
  <2> QED BY ONLY <2>2, <2>3
<1>3. CountsOK'
  BY <1>2 DEF UseInv, CountsOK
<1>4. AloneOK'
  <2>1. \A v \in Workers : in_store(v)' => in_store(v)
    BY DEF in_store
  <2>2. \A v \in Workers : job'[v].kind = "verify" => job'[v] = job[v]
    OBVIOUS
  <2> QED BY <2>1, <2>2 DEF UseInv, AloneOK
<1> QED BY <1>1, <1>3, <1>4 DEF UseInv

(* The first half of a call of the store: issue, or the comparison. *)
LEMMA UseEnter ==
    ASSUME UseInv, NEW w \in Workers, NEW next, ~in_store(w), job' = [job EXCEPT ![w] = next],
           UNCHANGED <<issued, uses, challenges>>, note_overlap(w),
           \/ next.kind = "issue" /\ next.remote \in Remotes
           \/ /\ next.kind = "verify" /\ next.remote \in DOMAIN challenges
              /\ next.number = challenges[next.remote].number
    PROVE  UseInv'
<1>1. JobDomain' /\ \A v \in Workers : job'[v] = IF v = w THEN next ELSE job[v]
  BY DEF UseInv, NumbersOK, JobDomain
<1>2. NumbersOK'
  BY <1>1 DEF UseInv, NumbersOK
<1>3. CountsOK'
  <2>1. ASSUME NEW i \in DOMAIN uses PROVE uses[i] + Cardinality(Comparing(i)') <= Cardinality(Workers)
    <3>0. Comparing(i)' \subseteq Workers /\ uses[i] \in Nat
      BY DEF Comparing, UseInv, NumbersOK
    <3>1. CASE next.kind = "verify" /\ i = next.number
      <4>1. uses[i] = 0
        BY <3>1 DEF UseInv, CountsOK
      <4>2. Cardinality(Comparing(i)') <= Cardinality(Workers) /\ Cardinality(Comparing(i)') \in Nat
        BY <3>0, ComparingSize
      <4> QED BY ONLY <4>1, <4>2
    <3>2. CASE ~(next.kind = "verify" /\ i = next.number)
      <4>1. Comparing(i)' \subseteq Comparing(i) /\ Comparing(i) \subseteq Workers
        BY <1>1, <3>2 DEF Comparing
      <4>2. /\ Cardinality(Comparing(i)') <= Cardinality(Comparing(i)) /\ Cardinality(Comparing(i)') \in Nat
            /\ Cardinality(Comparing(i)) \in Nat /\ Cardinality(Workers) \in Nat
        BY <4>1, ComparingSize, FS_Subset, FS_CardinalityType
      <4>3. uses[i] + Cardinality(Comparing(i)) <= Cardinality(Workers)
        BY DEF UseInv, CountsOK
      <4> QED BY ONLY <3>0, <4>2, <4>3
    <3> QED BY <3>1, <3>2
  <2> QED BY <2>1 DEF UseInv, CountsOK
<1>4. AloneOK'
  <2>1. ~overlapped' => ~overlapped /\ \A v \in Workers : in_store(v) => v = w
    BY DEF note_overlap
  <2>2. \A v \in Workers : in_store(v)' => v = w \/ in_store(v)
    BY <1>1 DEF in_store
  <2>3. next.kind = "verify" => uses[next.number] = 0
    BY DEF UseInv, CountsOK
  <2> QED BY <1>1, <2>1, <2>2, <2>3 DEF UseInv, AloneOK
<1> QED BY <1>2, <1>3, <1>4 DEF UseInv

LEMMA UseIssue ==
    ASSUME UseInv, NEW w \in Workers, issue(w)
    PROVE  UseInv'
<1> DEFINE r == job[w].remote
           o == IF job[w].known THEN RemoveFirst(order, r) ELSE order
           N == Len(issued) + 1
<1>1. /\ UNCHANGED overlapped /\ job' = [job EXCEPT ![w] = idle] /\ r \in Remotes
      /\ in_store(w) /\ job[w].kind = "issue"
  BY DEF issue, finish, UseInv, NumbersOK, in_store
<1>2. JobDomain' /\ \A v \in Workers : job'[v] = IF v = w THEN idle ELSE job[v]
  BY <1>1 DEF UseInv, NumbersOK, JobDomain
<1>3. CASE UNCHANGED <<challenges, issued, uses>>
  BY <1>1, <1>2, <1>3, UseQuiet DEF idle
<1>4. CASE /\ challenges' = store_challenge(challenges, o, r, N).challenges
           /\ issued' = Append(issued, r) /\ uses' = Append(uses, 0)
  <2>0. issued \in Seq(Remotes) /\ uses \in Seq(Nat) /\ Len(uses) = Len(issued) /\ N \in Nat
    BY DEF UseInv, NumbersOK
  <2>1. /\ issued' \in Seq(Remotes) /\ uses' \in Seq(Nat) /\ Len(uses') = Len(issued')
        /\ DOMAIN issued' = DOMAIN issued \cup {N} /\ DOMAIN uses' = DOMAIN uses \cup {N}
        /\ issued'[N] = r /\ uses'[N] = 0 /\ N \notin DOMAIN issued
    BY <1>1, <1>4, <2>0
  <2>2. /\ \A i \in DOMAIN issued : issued'[i] = issued[i]
        /\ \A i \in DOMAIN uses : uses'[i] = uses[i]
        /\ DOMAIN uses = DOMAIN issued
    BY <1>1, <1>4, <2>0
  <2>3. \A q \in DOMAIN challenges' :
            \/ q = r /\ challenges'[q] = [number |-> N, fresh |-> TRUE]
            \/ q # r /\ q \in DOMAIN challenges /\ challenges'[q] = challenges[q]
    BY <1>4, Stored
  <2> HIDE DEF r, o, N
  <2>4. NumbersOK'
    <3>1. ASSUME NEW q \in DOMAIN challenges' PROVE challenges'[q].number \in DOMAIN issued' /\ issued'[challenges'[q].number] = q
      BY <2>1, <2>2, <2>3 DEF UseInv, NumbersOK
    <3>2. ASSUME NEW v \in Workers, job'[v].kind \in {"verify", "consume"}
          PROVE  job'[v].number \in DOMAIN issued' /\ issued'[job'[v].number] = job'[v].remote
      <4>1. v # w /\ job'[v] = job[v]
        BY <1>2, <3>2 DEF idle
      <4>2. job[v].number \in DOMAIN issued /\ issued[job[v].number] = job[v].remote
        BY <3>2, <4>1 DEF UseInv, NumbersOK
      <4> QED BY <2>1, <2>2, <4>1, <4>2
    <3>3. ASSUME NEW v \in Workers, job'[v].kind = "issue" PROVE job'[v].remote \in Remotes
      BY <1>2, <3>3 DEF idle, UseInv, NumbersOK
    <3> QED BY <1>2, <2>1, <3>1, <3>2, <3>3 DEF NumbersOK
  <2>5. CountsOK'
    <3>1. ASSUME NEW q \in DOMAIN challenges' PROVE uses'[challenges'[q].number] = 0
      <4>1. CASE q = r /\ challenges'[q] = [number |-> N, fresh |-> TRUE]
        BY <2>1, <4>1
      <4>2. CASE q \in DOMAIN challenges /\ challenges'[q] = challenges[q]
        <5>1. challenges[q].number \in DOMAIN uses /\ uses[challenges[q].number] = 0
          BY <2>2, <4>2 DEF UseInv, NumbersOK, CountsOK
        <5> QED BY <2>2, <4>2, <5>1
      <4> QED BY <2>3, <4>1, <4>2
    <3>2. ASSUME NEW i \in DOMAIN uses' PROVE uses'[i] + Cardinality(Comparing(i)') <= Cardinality(Workers)
      <4>0. Comparing(i)' \subseteq Workers
        BY DEF Comparing
      <4>1. CASE i = N
        <5>1. uses'[i] = 0
          BY <2>1, <4>1
        <5>2. Cardinality(Comparing(i)') <= Cardinality(Workers) /\ Cardinality(Comparing(i)') \in Nat
          BY <4>0, ComparingSize
        <5> QED BY ONLY <5>1, <5>2
      <4>2. CASE i \in DOMAIN uses
        <5>1. Comparing(i)' \subseteq Comparing(i) /\ Comparing(i) \subseteq Workers
          BY <1>2 DEF Comparing, idle
        <5>2. /\ Cardinality(Comparing(i)') <= Cardinality(Comparing(i)) /\ Cardinality(Comparing(i)') \in Nat
              /\ Cardinality(Comparing(i)) \in Nat /\ Cardinality(Workers) \in Nat
          BY <5>1, ComparingSize, FS_Subset, FS_CardinalityType
        <5>3. uses[i] + Cardinality(Comparing(i)) <= Cardinality(Workers) /\ uses'[i] = uses[i] /\ uses[i] \in Nat
          BY <2>0, <2>2, <4>2 DEF UseInv, CountsOK
        <5> QED BY ONLY <5>2, <5>3
      <4> QED BY <2>1, <4>1, <4>2
    <3> QED BY <3>1, <3>2 DEF CountsOK
  <2>6. AloneOK'
    <3>1. \A v \in Workers : in_store(v)' => v # w /\ in_store(v)
      BY <1>2 DEF in_store, idle
    <3>2. ~overlapped' => \A v \in Workers : ~in_store(v)'
      BY <1>1, <3>1 DEF UseInv, AloneOK
    <3>3. \A v \in Workers : job'[v].kind = "verify" => in_store(v)'
      BY DEF in_store
    <3>4. ~overlapped' => \A i \in DOMAIN uses' : uses'[i] <= 1
      BY <1>1, <2>1, <2>2 DEF UseInv, AloneOK
    <3> QED BY <3>2, <3>3, <3>4 DEF AloneOK
  <2> QED BY <2>4, <2>5, <2>6 DEF UseInv
<1> QED BY <1>3, <1>4 DEF issue

LEMMA UseConsume ==
    ASSUME UseInv, NEW w \in Workers, consume(w)
    PROVE  UseInv'
<1> DEFINE n == job[w].number
           next == [job[w] EXCEPT !.kind = "consume"]
<1>1. /\ UNCHANGED <<issued, overlapped>> /\ job[w].kind = "verify"
      /\ uses' = [uses EXCEPT ![n] = @ + 1] /\ job' = [job EXCEPT ![w] = next]
      /\ challenges' = without(challenges, job[w].remote)
  BY DEF consume, begin
<1>2. /\ JobDomain' /\ \A v \in Workers : v # w => job'[v] = job[v]
      /\ job'[w].kind # "verify" /\ job'[w].kind # "issue"
      /\ job'[w].remote = job[w].remote /\ job'[w].number = n
  BY <1>1 DEF UseInv, NumbersOK, JobDomain
<1>3. \A q \in DOMAIN challenges' : q # job[w].remote /\ q \in DOMAIN challenges /\ challenges'[q] = challenges[q]
  BY <1>1 DEF without
<1>4. n \in DOMAIN issued /\ issued[n] = job[w].remote
  BY <1>1 DEF UseInv, NumbersOK
<1>5. /\ uses \in Seq(Nat) /\ n \in DOMAIN uses /\ uses' \in Seq(Nat) /\ Len(uses') = Len(uses) /\ DOMAIN uses' = DOMAIN uses
      /\ \A i \in DOMAIN uses : uses'[i] = IF i = n THEN uses[i] + 1 ELSE uses[i]
  <2>1. uses \in Seq(Nat) /\ Len(uses) = Len(issued) /\ issued \in Seq(Remotes)
    BY DEF UseInv, NumbersOK
  <2>2. n \in DOMAIN uses
    BY <1>4, <2>1
  <2> HIDE DEF n, next
  <2> QED BY <1>1, <2>1, <2>2
<1> HIDE DEF n, next
<1>6. NumbersOK'
  <2>1. ASSUME NEW v \in Workers, job'[v].kind \in {"verify", "consume"}
        PROVE  job'[v].number \in DOMAIN issued' /\ issued'[job'[v].number] = job'[v].remote
    <3>1. CASE v = w
      BY <1>1, <1>2, <1>4, <3>1
    <3>2. CASE v # w
      BY <1>1, <1>2, <2>1, <3>2 DEF UseInv, NumbersOK
    <3> QED BY <3>1, <3>2
  <2>2. \A v \in Workers : job'[v].kind = "issue" => job'[v].remote \in Remotes
    BY <1>2 DEF UseInv, NumbersOK
  <2>3. Len(uses') = Len(issued') /\ issued' \in Seq(Remotes)
    BY <1>1, <1>5 DEF UseInv, NumbersOK
  <2> QED BY <1>1, <1>2, <1>3, <1>5, <2>1, <2>2, <2>3 DEF UseInv, NumbersOK
<1>7. CountsOK'
  <2>1. ASSUME NEW q \in DOMAIN challenges' PROVE uses'[challenges'[q].number] = 0
    <3>1. /\ challenges[q].number \in DOMAIN issued /\ issued[challenges[q].number] = q
          /\ uses[challenges[q].number] = 0 /\ DOMAIN issued = DOMAIN uses
      BY <1>3, <1>5 DEF UseInv, NumbersOK, CountsOK
    <3>2. challenges[q].number # n
      BY <1>3, <1>4, <3>1
    <3> QED BY <1>3, <1>5, <3>1, <3>2
  <2>2. ASSUME NEW i \in DOMAIN uses' PROVE uses'[i] + Cardinality(Comparing(i)') <= Cardinality(Workers)
    <3>0. /\ uses[i] + Cardinality(Comparing(i)) <= Cardinality(Workers) /\ uses[i] \in Nat
          /\ IsFiniteSet(Comparing(i)) /\ Cardinality(Comparing(i)) \in Nat /\ Cardinality(Workers) \in Nat
      <4>1. Comparing(i) \subseteq Workers
        BY DEF Comparing
      <4> QED BY <1>5, <4>1, ComparingSize DEF UseInv, CountsOK
    <3>1. CASE i = n
      <4>1. Comparing(i)' = Comparing(i) \ {w} /\ w \in Comparing(i)
        BY <1>1, <1>2, <3>1 DEF Comparing, n
      <4>2. Cardinality(Comparing(i)') = Cardinality(Comparing(i)) - 1
        BY <3>0, <4>1, FS_RemoveElement
      <4>3. uses'[i] = uses[i] + 1
        BY <1>5, <3>1
      <4> QED BY ONLY <3>0, <4>2, <4>3
    <3>2. CASE i # n
      <4>1. Comparing(i)' = Comparing(i)
        BY <1>1, <1>2, <3>2 DEF Comparing, n
      <4>2. uses'[i] = uses[i]
        BY <1>5, <3>2
      <4> QED BY <3>0, <4>1, <4>2
    <3> QED BY <3>1, <3>2
  <2> QED BY <2>1, <2>2 DEF CountsOK
<1>8. AloneOK'
  <2>1. \A v \in Workers : in_store(v)' => in_store(v)
    BY <1>1, <1>2 DEF in_store
  <2>2. ASSUME ~overlapped PROVE \A v \in Workers : job'[v].kind # "verify"
    <3>1. in_store(w) /\ \A v \in Workers : job'[v].kind = "verify" => v # w /\ in_store(v)
      BY <1>1, <1>2 DEF in_store
    <3> QED BY <2>2, <3>1 DEF UseInv, AloneOK
  <2>3. ASSUME ~overlapped, NEW i \in DOMAIN uses PROVE uses'[i] <= 1
    <3>1. uses[n] = 0 /\ uses[i] <= 1
      BY <1>1, <2>3 DEF UseInv, AloneOK, n
    <3> QED BY <1>5, <3>1
  <2> QED BY <1>1, <1>5, <2>1, <2>2, <2>3 DEF UseInv, AloneOK
<1> QED BY <1>6, <1>7, <1>8 DEF UseInv

(* No step puts a challenge that was accepted back into the store. *)
LEMMA UseStep == UseInv /\ [Next]_vars => UseInv'
<1> SUFFICES ASSUME UseInv, [Next]_vars PROVE UseInv'
  OBVIOUS
<1>0. JobDomain
  BY DEF UseInv, NumbersOK
<1>1. ASSUME NEW w \in Workers, NEW next, job' = [job EXCEPT ![w] = next],
             next.kind \notin {"issue", "verify", "consume"}, UNCHANGED <<challenges, issued, uses, overlapped>>
      PROVE  UseInv'
  BY <1>0, <1>1, UseQuiet DEF JobDomain
<1>2. ASSUME NEW w \in Workers, NEW a, register(w, a) PROVE UseInv'
  BY <1>1, <1>2 DEF register, begin, ghosts
<1>3. ASSUME NEW w \in Workers, write_row(w) \/ check_and_record(w) \/ verify_handshake_envelope_fails(w) PROVE UseInv'
  <2>1. job' = [job EXCEPT ![w] = idle] /\ UNCHANGED <<challenges, issued, uses, overlapped>>
    BY <1>3 DEF write_row, check_and_record, verify_handshake_envelope_fails, finish, ghosts
  <2> QED BY <1>1, <2>1 DEF idle
<1>4. ASSUME NEW w \in Workers, NEW a, authenticate_peer(w, a) PROVE UseInv'
  <2> DEFINE next == [kind |-> "trusted", address |-> normalize_address[a]]
  <2>1. job' = [job EXCEPT ![w] = next] /\ next.kind = "trusted" /\ UNCHANGED <<challenges, issued, uses, overlapped>>
    BY <1>4 DEF authenticate_peer, begin
  <2> HIDE DEF next
  <2> QED BY <1>1, <2>1
<1>5. ASSUME NEW w \in Workers, NEW r \in Remotes, NEW n \in Nonces, NEW a, authenticate_request(w, r, n, a) PROVE UseInv'
  <2> DEFINE next == [kind |-> "request", key |-> <<r, n>>, grant |-> grant(r, a)]
  <2>1. job' = [job EXCEPT ![w] = next] /\ next.kind = "request" /\ UNCHANGED <<challenges, issued, uses, overlapped>>
    BY <1>5 DEF authenticate_request, begin, ghosts
  <2> HIDE DEF next
  <2> QED BY <1>1, <2>1
<1>6. ASSUME NEW w \in Workers, NEW r \in Remotes, issue_challenge(w, r) PROVE UseInv'
  <2> DEFINE next == [kind |-> "issue", remote |-> r, known |-> r \in DOMAIN challenges]
  <2>1. /\ job[w].kind = "idle" /\ job' = [job EXCEPT ![w] = next] /\ next.kind = "issue" /\ next.remote = r
        /\ note_overlap(w) /\ UNCHANGED <<challenges, issued, uses>>
    BY <1>6 DEF issue_challenge, begin
  <2> HIDE DEF next
  <2>2. ~in_store(w)
    BY <2>1 DEF in_store
  <2> QED BY <2>1, <2>2, UseEnter
<1>7. ASSUME NEW w \in Workers, NEW r \in Remotes, NEW i \in DOMAIN issued, verify(w, r, i) PROVE UseInv'
  <2> DEFINE next == [kind |-> "verify", remote |-> r, number |-> i]
  <2>1. /\ job[w].kind = "idle" /\ note_overlap(w) /\ UNCHANGED <<issued, uses>>
        /\ next.kind = "verify" /\ next.remote = r /\ next.number = i
    BY <1>7 DEF verify
  <2>2. ~in_store(w) /\ (overlapped => overlapped')
    BY <2>1 DEF in_store, note_overlap
  <2>3. CASE /\ job' = [job EXCEPT ![w] = next] /\ UNCHANGED challenges
             /\ r \in DOMAIN challenges /\ challenges[r].number = i
    <3> HIDE DEF next
    <3> QED BY <2>1, <2>2, <2>3, UseEnter
  <2>4. CASE UNCHANGED job /\ (challenges' = challenges \/ challenges' = without(challenges, r))
    <3>1. \A q \in DOMAIN challenges' : q \in DOMAIN challenges /\ challenges'[q].number = challenges[q].number
      BY <2>4 DEF without
    <3>2. JobDomain'
      BY <1>0, <2>4 DEF JobDomain
    <3> QED BY <2>1, <2>2, <2>4, <3>1, <3>2, UseQuiet
  <2> QED BY <1>7, <2>3, <2>4 DEF verify, begin
<1>8. ASSUME NEW r \in Remotes, grow_old(r) PROVE UseInv'
  <2>1. UNCHANGED <<job, issued, uses, overlapped>> /\ DOMAIN challenges' = DOMAIN challenges
        /\ \A q \in DOMAIN challenges : challenges'[q].number = challenges[q].number
    BY <1>8 DEF grow_old, ghosts
  <2>2. JobDomain'
    BY <1>0, <2>1 DEF JobDomain
  <2> QED BY <2>1, <2>2, UseQuiet
<1>9. CASE Restart
  <2>1. job' = [w \in Workers |-> idle] /\ challenges' = <<>> /\ UNCHANGED <<issued, uses, overlapped>>
    BY <1>9 DEF Restart
  <2> QED BY <2>1, UseQuiet DEF idle, JobDomain
<1>10. CASE UNCHANGED <<job, challenges, issued, uses, overlapped>>
  BY <1>0, <1>10, UseQuiet DEF JobDomain
<1>11. ASSUME NEW w \in Workers, NEW a, mark_bootstrap(w, a) PROVE UseInv'
  BY <1>10, <1>11 DEF mark_bootstrap, memory, ghosts
<1>12. CASE UNCHANGED vars
  BY <1>10, <1>12 DEF vars, memory, ghosts
<1> QED BY <1>2, <1>3, <1>4, <1>5, <1>6, <1>7, <1>8, <1>9, <1>11, <1>12, UseIssue, UseConsume DEF Next

(* A challenge is accepted once when calls of the store do not overlap,    *)
(* and otherwise at most once for each thread, for every number of threads *)
(* (handshake.py verify_and_consume takes no lock).                        *)
THEOREM ChallengeSingleUse == Spec => []SingleUse
<1>1. Init => UseInv
  <2> SUFFICES ASSUME Init PROVE UseInv
    OBVIOUS
  <2>1. NumbersOK
    BY DEF Init, NumbersOK, JobDomain, idle
  <2>2. CountsOK /\ AloneOK
    BY DEF Init, CountsOK, AloneOK, in_store, idle
  <2> QED BY <2>1, <2>2 DEF UseInv
<1>2. UseInv => SingleUse
  <2> SUFFICES ASSUME UseInv, NEW i \in DOMAIN uses
               PROVE  uses[i] <= IF overlapped THEN Cardinality(Workers) ELSE 1
    BY DEF SingleUse
  <2>1. Comparing(i) \subseteq Workers
    BY DEF Comparing
  <2>2. Cardinality(Comparing(i)) \in Nat /\ Cardinality(Workers) \in Nat
    BY <2>1, ComparingSize
  <2>3. uses[i] + Cardinality(Comparing(i)) <= Cardinality(Workers) /\ uses[i] \in Nat
    BY DEF UseInv, NumbersOK, CountsOK
  <2>4. ~overlapped => uses[i] <= 1
    BY DEF UseInv, AloneOK
  <2>5. uses[i] <= Cardinality(Workers)
    BY ONLY <2>2, <2>3
  <2> QED BY <2>4, <2>5
<1> QED BY <1>1, <1>2, UseStep, PTL DEF Spec

-----------------------------------------------------------------------------
(* The cap of the registry *)

Untrusted == rows \ normal_forms(DOMAIN credentials \cup Bootstrap)

(* Threads that have read the count and will write a new row. *)
Pending == {w \in Workers : job[w].kind = "register" /\ job[w].address \notin rows}

(* A handler that is about to write the row of an authenticated peer has   *)
(* written or read its credential.                                         *)
Credited ==
    \A w \in Workers :
        /\ job[w].kind = "trusted" => job[w].address \in normal_forms(DOMAIN credentials \cup Bootstrap)
        /\ job[w].kind = "request" =>
               /\ IsFiniteSet(job[w].grant)
               /\ job[w].grant \ {NoAddress} \subseteq normal_forms(DOMAIN credentials \cup Bootstrap)

(* The invariant counts the rows that are on their way. *)
CapInv ==
    /\ JobDomain
    /\ Credited
    /\ IsFiniteSet(rows)
    /\ Cardinality(Untrusted) + Cardinality(Pending) <= max_peers + Cardinality(Workers) - 1

(* Sizes of the sets above. *)
LEMMA Sizes ==
    ASSUME IsFiniteSet(rows)
    PROVE  /\ IsFiniteSet(Untrusted) /\ Cardinality(Untrusted) \in Nat /\ Cardinality(Untrusted) <= Cardinality(rows)
           /\ IsFiniteSet(Pending) /\ Cardinality(Pending) \in Nat /\ Cardinality(Pending) <= Cardinality(Workers)
           /\ Cardinality(Workers) \in Nat /\ Cardinality(rows) \in Nat
<1>1. Untrusted \subseteq rows /\ Pending \subseteq Workers
  BY DEF Untrusted, Pending
<1> QED BY <1>1, FS_Subset, FS_CardinalityType, PyPeersAssumption

(* A step that adds no untrusted row and no pending thread keeps CapInv. *)
LEMMA NoMore ==
    ASSUME CapInv, JobDomain', Credited', IsFiniteSet(rows'), Untrusted' \subseteq Untrusted, Pending' \subseteq Pending
    PROVE  CapInv'
<1>1. /\ IsFiniteSet(Untrusted) /\ IsFiniteSet(Pending)
      /\ Cardinality(Untrusted) \in Nat /\ Cardinality(Pending) \in Nat /\ Cardinality(Workers) \in Nat
  BY Sizes DEF CapInv
<1>2. /\ Cardinality(Untrusted') <= Cardinality(Untrusted) /\ Cardinality(Untrusted') \in Nat
      /\ Cardinality(Pending') <= Cardinality(Pending) /\ Cardinality(Pending') \in Nat
  BY <1>1, FS_Subset, FS_CardinalityType
<1> QED BY <1>1, <1>2, PyPeersAssumption DEF CapInv

(* Only register makes a thread pending, when there is room, and only      *)
(* write_row makes a row of a peer that is not trusted.                    *)
LEMMA CapStep == CapInv /\ [Next]_vars => CapInv'
<1> SUFFICES ASSUME CapInv, [Next]_vars PROVE CapInv'
  OBVIOUS
<1> USE DEF JobDomain
<1>0. JobDomain /\ Credited /\ IsFiniteSet(rows)
  BY DEF CapInv
<1>1. ASSUME NEW w \in Workers, NEW next, job' = [job EXCEPT ![w] = next],
             next.kind \notin {"register", "trusted", "request"}, UNCHANGED <<rows, credentials>>
      PROVE  CapInv'
  <2>1. JobDomain' /\ Untrusted' = Untrusted /\ Pending' \subseteq Pending
    BY <1>0, <1>1 DEF Untrusted, Pending
  <2>2. Credited'
    BY <1>0, <1>1 DEF Credited
  <2> QED BY <1>0, <1>1, <2>1, <2>2, NoMore
<1>2. ASSUME UNCHANGED <<rows, credentials, job>>
      PROVE  CapInv'
  BY <1>0, <1>2, NoMore DEF Untrusted, Pending, Credited
<1>3. ASSUME NEW w \in Workers, NEW a, register(w, a) PROVE CapInv'
  <2>1. UNCHANGED <<rows, credentials>> /\ job' = [job EXCEPT ![w] = [kind |-> "register", address |-> normalize_address[a]]]
    BY <1>3 DEF register, begin
  <2>2. Untrusted' = Untrusted /\ JobDomain' /\ Credited'
    BY <1>0, <2>1 DEF Untrusted, Credited
  <2>3. CASE normalize_address[a] \in rows
    BY <1>0, <2>1, <2>2, <2>3, NoMore DEF Pending
  <2>4. CASE Cardinality(rows) < max_peers
    <3>1. Cardinality(Pending') <= Cardinality(Workers) /\ Cardinality(Pending') \in Nat
      <4>1. Pending' \subseteq Workers
        BY DEF Pending
      <4> QED BY <4>1, FS_Subset, FS_CardinalityType, PyPeersAssumption
    <3>2. Cardinality(Untrusted') = Cardinality(Untrusted) /\ IsFiniteSet(rows')
      BY <1>0, <2>1, <2>2
    <3> QED BY <1>0, <2>2, <2>4, <3>1, <3>2, Sizes, PyPeersAssumption DEF CapInv
  <2> QED BY <1>3, <2>3, <2>4 DEF register
<1>4. ASSUME NEW w \in Workers, write_row(w) PROVE CapInv'
  <2> DEFINE a == job[w].address
  <2>1. /\ UNCHANGED credentials /\ rows' = rows \cup {a} /\ job' = [job EXCEPT ![w] = idle]
        /\ job[w].kind \in {"register", "trusted"}
    BY <1>4 DEF write_row, upsert_peer, finish
  <2>2. IsFiniteSet(rows') /\ JobDomain' /\ Credited'
    <3>1. IsFiniteSet(rows')
      BY <1>0, <2>1, FS_AddElement
    <3>2. JobDomain' /\ Credited'
      BY <1>0, <2>1 DEF Credited, idle
    <3> QED BY <3>1, <3>2
  <2>3. CASE a \in rows \/ a \in normal_forms(DOMAIN credentials \cup Bootstrap)
    <3>1. Untrusted' \subseteq Untrusted
      BY <2>1, <2>3 DEF Untrusted
    <3>2. Pending' \subseteq Pending
      BY <1>0, <2>1 DEF Pending, idle
    <3> QED BY <2>2, <3>1, <3>2, NoMore
  <2>4. CASE a \notin rows /\ job[w].kind = "register"
    <3>1. Untrusted' \subseteq Untrusted \cup {a} /\ w \in Pending /\ Pending' \subseteq Pending \ {w}
      BY <1>0, <2>1, <2>4 DEF Untrusted, Pending, idle
    <3>2. IsFiniteSet(Untrusted) /\ IsFiniteSet(Pending) /\ Cardinality(Untrusted) \in Nat /\ Cardinality(Pending) \in Nat
      BY <1>0, Sizes
    <3>3. Cardinality(Untrusted') <= Cardinality(Untrusted) + 1 /\ Cardinality(Untrusted') \in Nat
      <4>1. a \notin Untrusted
        BY <2>4 DEF Untrusted
      <4>2. IsFiniteSet(Untrusted \cup {a}) /\ Cardinality(Untrusted \cup {a}) = Cardinality(Untrusted) + 1
        BY <3>2, <4>1, FS_AddElement
      <4>3. IsFiniteSet(Untrusted') /\ Cardinality(Untrusted') <= Cardinality(Untrusted \cup {a})
        BY <3>1, <4>2, FS_Subset
      <4> QED BY <4>2, <4>3, FS_CardinalityType
    <3>4. Cardinality(Pending') <= Cardinality(Pending) - 1 /\ Cardinality(Pending') \in Nat
      BY <3>1, <3>2, FS_RemoveElement, FS_Subset, FS_CardinalityType
    <3> QED BY <1>0, <2>2, <3>2, <3>3, <3>4, Sizes, PyPeersAssumption DEF CapInv
  <2> QED BY <1>0, <2>1, <2>3, <2>4 DEF Credited
<1>5. ASSUME NEW w \in Workers, NEW a, authenticate_peer(w, a) PROVE CapInv'
  <2>1. UNCHANGED rows /\ job' = [job EXCEPT ![w] = [kind |-> "trusted", address |-> normalize_address[a]]]
    BY <1>5 DEF authenticate_peer, begin
  <2>2. DOMAIN credentials' = DOMAIN credentials \cup {a}
    BY <1>5 DEF authenticate_peer, upsert_peer_credential, put
  <2>a. /\ normal_forms(DOMAIN credentials \cup Bootstrap) \subseteq normal_forms(DOMAIN credentials' \cup Bootstrap)
        /\ normalize_address[a] \in normal_forms(DOMAIN credentials' \cup Bootstrap)
    BY <2>2 DEF normal_forms
  <2>3. JobDomain' /\ Credited' /\ IsFiniteSet(rows')
    BY <1>0, <2>1, <2>a DEF Credited
  <2>4. Untrusted' \subseteq Untrusted /\ Pending' \subseteq Pending
    BY <1>0, <2>1, <2>a DEF Untrusted, Pending
  <2> QED BY <2>3, <2>4, NoMore
<1>6. ASSUME NEW w \in Workers, NEW r \in Remotes, issue_challenge(w, r) PROVE CapInv'
  BY <1>1, <1>6 DEF issue_challenge, begin
<1>7. ASSUME NEW w \in Workers, NEW r \in Remotes, NEW i \in DOMAIN issued, verify(w, r, i) PROVE CapInv'
  <2>1. UNCHANGED <<rows, credentials>>
    BY <1>7 DEF verify
  <2>2. job' = job \/ job' = [job EXCEPT ![w] = [kind |-> "verify", remote |-> r, number |-> i]]
    BY <1>7 DEF verify, begin
  <2> QED BY <2>1, <2>2, <1>1, <1>2
<1>8. ASSUME NEW w \in Workers, NEW r \in Remotes, NEW n \in Nonces, NEW a, authenticate_request(w, r, n, a) PROVE CapInv'
  <2> DEFINE g == grant(r, a)
             next == [kind |-> "request", key |-> <<r, n>>, grant |-> g]
  <2>1. UNCHANGED <<rows, credentials>> /\ job' = [job EXCEPT ![w] = next] /\ next.kind = "request" /\ next.grant = g
    BY <1>8 DEF authenticate_request, begin
  <2>2. g \in {{}, {NoAddress}, {normalize_address[a]}}
    BY DEF grant
  <2>3. g \ {NoAddress} \subseteq normal_forms(DOMAIN credentials)
    BY DEF grant, get_peer_credential, normal_forms
  <2>4. IsFiniteSet(g)
    <3>1. IsFiniteSet({}) /\ IsFiniteSet({NoAddress}) /\ IsFiniteSet({normalize_address[a]})
      BY FS_EmptySet, FS_Singleton
    <3> QED BY ONLY <2>2, <3>1
  <2> HIDE DEF next, g
  <2>5. normal_forms(DOMAIN credentials) \subseteq normal_forms(DOMAIN credentials \cup Bootstrap)
    BY DEF normal_forms
  <2>6. JobDomain' /\ Untrusted' = Untrusted /\ Pending' \subseteq Pending
    BY <1>0, <2>1 DEF Untrusted, Pending
  <2>7. Credited'
    BY <1>0, <2>1, <2>3, <2>4, <2>5 DEF Credited
  <2> QED BY <1>0, <2>1, <2>6, <2>7, NoMore
<1>9. ASSUME NEW w \in Workers, issue(w) \/ verify_handshake_envelope_fails(w) PROVE CapInv'
  <2>1. UNCHANGED <<rows, credentials>> /\ job' = [job EXCEPT ![w] = idle]
    BY <1>9 DEF issue, verify_handshake_envelope_fails, finish
  <2> QED BY <2>1, <1>1 DEF idle
<1>10. ASSUME NEW w \in Workers, consume(w) PROVE CapInv'
  <2>1. UNCHANGED <<rows, credentials>> /\ job[w].kind = "verify"
    BY <1>10 DEF consume
  <2>2. job' = [job EXCEPT ![w] = [job[w] EXCEPT !.kind = "consume"]]
    BY <1>10 DEF consume, begin
  <2>3. [job[w] EXCEPT !.kind = "consume"].kind \notin {"register", "trusted", "request"}
    OBVIOUS
  <2> QED BY <2>1, <2>2, <2>3, <1>1
<1>11. ASSUME NEW r \in Remotes, grow_old(r) PROVE CapInv'
  BY <1>2, <1>11 DEF grow_old
<1>12. CASE Restart
  <2>1. JobDomain' /\ Credited' /\ Untrusted' = Untrusted /\ Pending' = {} /\ UNCHANGED rows
    BY <1>12 DEF Restart, idle, Credited, Untrusted, Pending
  <2> QED BY <1>0, <2>1, NoMore
<1>14. ASSUME NEW X \in SUBSET normal_forms(DOMAIN credentials \cup Bootstrap), IsFiniteSet(X),
              JobDomain', UNCHANGED credentials, rows' = rows \/ rows' = rows \cup X,
              \A v \in Workers : job'[v] = job[v] \/ job'[v].kind \notin {"register", "trusted", "request"}
       PROVE  CapInv'
  <2>1. IsFiniteSet(rows')
    BY <1>0, <1>14, FS_Union
  <2>2. Untrusted' \subseteq Untrusted
    BY <1>14 DEF Untrusted
  <2>3. Pending' \subseteq Pending
    BY <1>14 DEF Pending
  <2>4. Credited'
    BY <1>0, <1>14 DEF Credited
  <2> QED BY <1>14, <2>1, <2>2, <2>3, <2>4, NoMore
<1>15. ASSUME NEW w \in Workers, NEW a \in Bootstrap, mark_bootstrap(w, a) PROVE CapInv'
  <2>1. normalize_address[a] \in normal_forms(DOMAIN credentials \cup Bootstrap)
    BY DEF normal_forms
  <2>2. UNCHANGED <<credentials, job>> /\ rows' = rows \cup {normalize_address[a]} /\ JobDomain'
    BY <1>0, <1>15 DEF mark_bootstrap, upsert_peer, memory
  <2>3. IsFiniteSet({normalize_address[a]})
    BY FS_Singleton
  <2> QED BY <1>14, <2>1, <2>2, <2>3
<1>16. ASSUME NEW w \in Workers, check_and_record(w) PROVE CapInv'
  <2> DEFINE X == job[w].grant \ {NoAddress}
  <2>1. /\ job[w].kind = "request" /\ job' = [job EXCEPT ![w] = idle] /\ UNCHANGED credentials
        /\ rows' = rows \/ rows' = rows \cup X
    BY <1>16 DEF check_and_record, finish
  <2>2. X \in SUBSET normal_forms(DOMAIN credentials \cup Bootstrap) /\ IsFiniteSet(job[w].grant)
    BY <1>0, <2>1 DEF Credited
  <2>3. IsFiniteSet(X)
    BY <2>2, FS_Difference
  <2>4. JobDomain' /\ \A v \in Workers : job'[v] = job[v] \/ job'[v].kind \notin {"register", "trusted", "request"}
    BY <1>0, <2>1 DEF idle
  <2> HIDE DEF X
  <2> QED BY <1>14, <2>1, <2>2, <2>3, <2>4
<1>13. CASE UNCHANGED vars
  BY <1>2, <1>13 DEF vars, memory
<1> QED BY <1>3, <1>4, <1>5, <1>6, <1>7, <1>8, <1>9, <1>10, <1>11, <1>12, <1>13, <1>15, <1>16 DEF Next

(* The registry exceeds its cap, by peers that neither authenticated nor   *)
(* are bootstrap peers, only as far as threads can read the count together *)
(* (peer.py register takes no lock between peer_count and upsert_peer).    *)
THEOREM UntrustedCapped == Spec => []UntrustedWithinCap
<1>1. Init => CapInv
  <2> SUFFICES ASSUME Init PROVE CapInv
    OBVIOUS
  <2>1. rows = {} /\ Untrusted = {} /\ Pending = {} /\ JobDomain /\ Credited
    BY DEF Init, Untrusted, Pending, JobDomain, Credited, idle
  <2>2. Cardinality(Workers) \in Nat \ {0}
    BY PyPeersAssumption, FS_EmptySet, FS_CardinalityType
  <2> QED BY <2>1, <2>2, FS_EmptySet, PyPeersAssumption DEF CapInv
<1>2. CapInv => UntrustedWithinCap
  BY Sizes, PyPeersAssumption DEF CapInv, UntrustedWithinCap, Untrusted
<1> QED BY <1>1, <1>2, CapStep, PTL DEF Spec

-----------------------------------------------------------------------------
(* The capacity of the ChallengeStore *)

InOrder(q) == \E i \in 1..Len(order) : order[i] = q

(* Every remembered challenge has its place in the order list, and that    *)
(* list has at most max_size places; it may name a remote twice, since     *)
(* an old challenge leaves only the dictionary.  Between the two halves of *)
(* verify_and_consume the remote has no challenge, as long as no other     *)
(* call of the store has come in between.                                  *)
StoreInv ==
    /\ JobDomain
    /\ order \in Seq(Remotes) /\ Len(order) <= max_size
    /\ \A w \in Workers : in_store(w) => job[w].remote \in Remotes
    /\ ~overlapped =>
           /\ \A v, w \in Workers : in_store(v) /\ in_store(w) => v = w
           /\ \A q \in DOMAIN challenges : InOrder(q)
           /\ \A w \in Workers : job[w].kind = "consume" => job[w].remote \notin DOMAIN challenges

(* A step outside the store. *)
LEMMA StoreQuiet ==
    ASSUME StoreInv, NEW w \in Workers, NEW next, job' = [job EXCEPT ![w] = next],
           next.kind \notin {"issue", "verify", "consume"}, UNCHANGED <<challenges, order, overlapped>>
    PROVE  StoreInv'
<1>1. \A v \in Workers : job'[v] = IF v = w THEN next ELSE job[v]
  BY DEF StoreInv, JobDomain
<1>2. \A v \in Workers : in_store(v)' => v # w /\ in_store(v)
  BY <1>1 DEF in_store
<1> QED BY <1>1, <1>2 DEF StoreInv, JobDomain, InOrder

(* The first half of a call of the store. *)
LEMMA StoreEnter ==
    ASSUME StoreInv, NEW w \in Workers, NEW next, job' = [job EXCEPT ![w] = next], ~in_store(w),
           next.kind \in {"issue", "verify"}, next.remote \in Remotes,
           note_overlap(w), UNCHANGED <<challenges, order>>
    PROVE  StoreInv'
<1>1. \A v \in Workers : job'[v] = IF v = w THEN next ELSE job[v]
  BY DEF StoreInv, JobDomain
<1>2. \A v \in Workers : in_store(v)' => v = w \/ in_store(v)
  BY <1>1 DEF in_store
<1>3. ~overlapped' => ~overlapped /\ \A v \in Workers : in_store(v) => v = w
  BY DEF note_overlap
<1> QED BY <1>1, <1>2, <1>3 DEF StoreInv, JobDomain, InOrder

(* The order list after an entry was taken out and another appended. *)
LEMMA IssueOrder ==
    ASSUME StoreInv, NEW r \in Remotes, NEW known \in BOOLEAN, known => InOrder(r),
           NEW o, o = (IF known THEN RemoveFirst(order, r) ELSE order), NEW number,
           NEW new, new = store_challenge(challenges, o, r, number)
    PROVE  /\ new.order \in Seq(Remotes) /\ Len(new.order) <= max_size
           /\ (\A q \in DOMAIN challenges : InOrder(q)) =>
                  \A q \in DOMAIN new.challenges : \E i \in 1..Len(new.order) : new.order[i] = q
<1>1. order \in Seq(Remotes) /\ Len(order) \in Nat /\ Len(order) <= max_size /\ max_size \in Nat /\ max_size > 0
  BY PyPeersAssumption DEF StoreInv
<1>2. /\ o \in Seq(Remotes) /\ Len(o) <= max_size /\ Len(o) \in Nat
      /\ \A q : q # r /\ InOrder(q) => \E i \in 1..Len(o) : o[i] = q
  <2>1. CASE known
    <3>0. o = RemoveFirst(order, r) /\ \E i \in 1..Len(order) : order[i] = r
      BY <2>1 DEF InOrder
    <3>1. /\ o \in Seq(Remotes) /\ Len(o) = Len(order) - 1
          /\ \A j \in 1..Len(order) : order[j] # r => \E i \in 1..Len(o) : o[i] = order[j]
      <4>1. order \in Seq(Remotes)
        BY <1>1
      <4> DEFINE f == RemoveFirst(order, r)
      <4>2. /\ f \in Seq(Remotes)
            /\ (\E i \in 1..Len(order) : order[i] = r) => Len(f) = Len(order) - 1
            /\ \A j \in 1..Len(order) : order[j] # r => \E i \in 1..Len(f) : f[i] = order[j]
        BY <4>1, RemoveFirstValues
      <4> HIDE DEF f
      <4>3. o = f
        BY <3>0 DEF f
      <4> QED BY <3>0, <4>2, <4>3
    <3>2. Len(o) \in Nat
      BY <3>1
    <3> QED BY <1>1, <3>1, <3>2 DEF InOrder
  <2>2. CASE ~known
    BY <1>1, <2>2 DEF InOrder
  <2> QED BY <2>1, <2>2
<1> DEFINE p == Append(o, r)
           stored == put(challenges, r, [number |-> number, fresh |-> TRUE])
<1>3. /\ p \in Seq(Remotes) /\ Len(p) = Len(o) + 1 /\ p[Len(o) + 1] = r
      /\ \A i \in 1..Len(o) : p[i] = o[i]
  BY <1>2
<1>4. DOMAIN stored = DOMAIN challenges \cup {r}
  BY DEF put
<1> HIDE DEF p, stored
<1>5. ASSUME \A q \in DOMAIN challenges : InOrder(q), NEW q \in DOMAIN stored
      PROVE  \E i \in 1..Len(p) : p[i] = q
  <2>1. CASE q = r
    BY <1>2, <1>3, <2>1
  <2>2. CASE q # r
    <3>1. PICK i \in 1..Len(o) : o[i] = q
      BY <1>2, <1>4, <1>5, <2>2
    <3>2. i \in 1..Len(p) /\ p[i] = q
      BY <1>2, <1>3, <3>1
    <3> QED BY <3>2
  <2> QED BY <2>1, <2>2
<1>6. CASE Len(p) > max_size
  <2>1. new.challenges = without(stored, Head(p)) /\ new.order = Tail(p)
    BY <1>6 DEF store_challenge, p, stored
  <2>2. p # <<>>
    BY <1>2, <1>3
  <2>3. /\ Tail(p) \in Seq(Remotes) /\ Len(Tail(p)) = Len(p) - 1 /\ Head(p) = p[1]
        /\ \A i \in 1..(Len(p) - 1) : Tail(p)[i] = p[i + 1]
    BY <1>3, <2>2, HeadTailProperties
  <2>4. DOMAIN without(stored, Head(p)) = DOMAIN stored \ {Head(p)}
    BY DEF without
  <2>5. ASSUME \A q \in DOMAIN challenges : InOrder(q), NEW q \in DOMAIN new.challenges
        PROVE  \E i \in 1..Len(new.order) : new.order[i] = q
    <3>1. q \in DOMAIN stored /\ q # p[1]
      BY <2>1, <2>3, <2>4
    <3>2. PICK i \in 1..Len(p) : p[i] = q
      BY <1>5, <2>5, <3>1
    <3>3. i # 1 /\ i - 1 \in 1..(Len(p) - 1) /\ (i - 1) + 1 = i
      BY <1>2, <1>3, <3>1, <3>2
    <3> QED BY <2>1, <2>3, <3>2, <3>3
  <2>6. Len(Tail(p)) <= max_size
    BY <1>1, <1>2, <1>3, <2>3
  <2> QED BY <2>1, <2>3, <2>5, <2>6
<1>7. CASE ~(Len(p) > max_size)
  <2>1. new.challenges = stored /\ new.order = p
    BY <1>7 DEF store_challenge, p, stored
  <2> QED BY <1>1, <1>2, <1>3, <1>5, <1>7, <2>1
<1> QED BY <1>6, <1>7

LEMMA IssueStep ==
    ASSUME StoreInv, NEW w \in Workers, job[w].kind = "issue" => job[w].known \in BOOLEAN, issue(w)
    PROVE  StoreInv'
<1> DEFINE r == job[w].remote
           known == job[w].known
           o == IF known THEN RemoveFirst(order, r) ELSE order
           new == store_challenge(challenges, o, r, Len(issued) + 1)
<1>1. job[w].kind = "issue" /\ r \in Remotes /\ known \in BOOLEAN /\ in_store(w)
  BY DEF issue, StoreInv, in_store
<1>2. job' = [job EXCEPT ![w] = idle] /\ UNCHANGED overlapped
  BY DEF issue, finish, ghosts
<1>3. CASE UNCHANGED <<challenges, order>>
  <2>1. idle.kind \notin {"issue", "verify", "consume"}
    BY DEF idle
  <2> QED BY <1>2, <1>3, <2>1, StoreQuiet
<1>4. CASE challenges' = new.challenges /\ order' = new.order /\ (known => InOrder(r))
  <2>1. /\ new.order \in Seq(Remotes) /\ Len(new.order) <= max_size
        /\ (\A q \in DOMAIN challenges : InOrder(q)) =>
               \A q \in DOMAIN new.challenges : \E i \in 1..Len(new.order) : new.order[i] = q
    <3>1. r \in Remotes /\ known \in BOOLEAN /\ (known => InOrder(r))
      BY <1>1, <1>4
    <3>2. o = (IF known THEN RemoveFirst(order, r) ELSE order) /\ new = store_challenge(challenges, o, r, Len(issued) + 1)
      OBVIOUS
    <3> HIDE DEF new, r, known, o
    <3> QED BY <3>1, <3>2, IssueOrder
  <2> HIDE DEF new, r, known, o
  <2>2. \A v \in Workers : job'[v] = IF v = w THEN idle ELSE job[v]
    BY <1>2 DEF StoreInv, JobDomain
  <2>3. \A v \in Workers : in_store(v)' => v # w /\ in_store(v)
    BY <2>2 DEF in_store, idle
  <2>4. ~overlapped' => \A v \in Workers : ~in_store(v)'
    BY <1>1, <1>2, <2>3 DEF StoreInv
  <2>5. ~overlapped' => \A v \in Workers : job'[v].kind # "consume"
    BY <2>4 DEF in_store
  <2> QED BY <1>2, <1>4, <2>1, <2>2, <2>3, <2>4, <2>5 DEF StoreInv, JobDomain, InOrder
<1> QED BY <1>3, <1>4 DEF issue, Contains, InOrder

(* The fields of the calls of the store that are under way. *)
IssueTyped ==
    \A w \in Workers :
        /\ job[w].kind = "issue" => job[w].known \in BOOLEAN
        /\ job[w].kind = "verify" =>
               job[w] = [kind |-> "verify", remote |-> job[w].remote, number |-> job[w].number]

LEMMA FreeOrder ==
    ASSUME StoreInv, NEW w \in Workers, job[w].kind = "consume", NEW next,
           order' = RemoveFirst(order, job[w].remote), job' = [job EXCEPT ![w] = next],
           next.kind \notin {"issue", "verify", "consume"}, UNCHANGED <<challenges, overlapped>>
    PROVE  StoreInv'
<1> DEFINE r == job[w].remote
<1>0. order \in Seq(Remotes) /\ Len(order) \in Nat /\ max_size \in Nat /\ Len(order) <= max_size
  BY PyPeersAssumption DEF StoreInv
<1>1. /\ order' \in Seq(Remotes) /\ Len(order') <= Len(order)
      /\ \A j \in 1..Len(order) : order[j] # r => \E i \in 1..Len(order') : order'[i] = order[j]
  <2>1. order \in Seq(Remotes) /\ order' = RemoveFirst(order, r)
    BY <1>0
  <2> HIDE DEF r
  <2> QED BY <2>1, RemoveFirstValues
<1>2. Len(order') <= max_size
  <2>1. Len(order') \in Nat
    BY <1>1
  <2> QED BY <1>0, <1>1, <2>1
<1>3. ASSUME ~overlapped, NEW q \in DOMAIN challenges PROVE InOrder(q)'
  <2>1. InOrder(q) /\ q # r
    BY <1>3 DEF StoreInv
  <2> QED BY <1>1, <2>1 DEF InOrder
<1>4. \A v \in Workers : job'[v] = IF v = w THEN next ELSE job[v]
  BY DEF StoreInv, JobDomain
<1>5. \A v \in Workers : in_store(v)' => v # w /\ in_store(v)
  BY <1>4 DEF in_store
<1> HIDE DEF r
<1> QED BY <1>1, <1>2, <1>3, <1>4, <1>5 DEF StoreInv, JobDomain

LEMMA StoreStep == StoreInv /\ IssueTyped /\ [Next]_vars => StoreInv' /\ IssueTyped'
<1> SUFFICES ASSUME StoreInv, IssueTyped, [Next]_vars PROVE StoreInv' /\ IssueTyped'
  OBVIOUS
<1>0. JobDomain
  BY DEF StoreInv
<1>1. ASSUME NEW w \in Workers, NEW next, job' = [job EXCEPT ![w] = next],
             next.kind \notin {"issue", "verify", "consume"}, UNCHANGED <<challenges, order, overlapped>>
      PROVE  StoreInv' /\ IssueTyped'
  <2>1. IssueTyped'
    BY <1>0, <1>1 DEF IssueTyped, JobDomain
  <2> QED BY <1>1, <2>1, StoreQuiet
<1>2. ASSUME NEW w \in Workers, NEW a, register(w, a) PROVE StoreInv' /\ IssueTyped'
  BY <1>1, <1>2 DEF register, begin, ghosts
<1>3. ASSUME NEW w \in Workers, write_row(w) \/ check_and_record(w) PROVE StoreInv' /\ IssueTyped'
  <2>1. job' = [job EXCEPT ![w] = idle] /\ UNCHANGED <<challenges, order, overlapped>>
    BY <1>3 DEF write_row, check_and_record, finish, ghosts
  <2> QED BY <1>1, <2>1 DEF idle
<1>4. ASSUME NEW w \in Workers, NEW r \in Remotes, NEW n \in Nonces, NEW a, authenticate_request(w, r, n, a)
      PROVE  StoreInv' /\ IssueTyped'
  <2> DEFINE next == [kind |-> "request", key |-> <<r, n>>, grant |-> grant(r, a)]
  <2>1. job' = [job EXCEPT ![w] = next] /\ next.kind = "request" /\ UNCHANGED <<challenges, order, overlapped>>
    BY <1>4 DEF authenticate_request, begin, ghosts
  <2> HIDE DEF next
  <2> QED BY <1>1, <2>1
<1>5. ASSUME NEW w \in Workers, NEW r \in Remotes, issue_challenge(w, r) PROVE StoreInv' /\ IssueTyped'
  <2> DEFINE next == [kind |-> "issue", remote |-> r, known |-> r \in DOMAIN challenges]
  <2>1. /\ job[w].kind = "idle" /\ job' = [job EXCEPT ![w] = next]
        /\ next.kind = "issue" /\ next.remote = r /\ next.known \in BOOLEAN
        /\ note_overlap(w) /\ UNCHANGED <<challenges, order>>
    BY <1>5 DEF issue_challenge, begin
  <2> HIDE DEF next
  <2>2. ~in_store(w)
    BY <2>1 DEF in_store
  <2>3. IssueTyped'
    BY <1>0, <2>1 DEF IssueTyped, JobDomain
  <2> QED BY <2>1, <2>2, <2>3, StoreEnter
<1>6. ASSUME NEW w \in Workers, NEW r \in Remotes, NEW i \in DOMAIN issued, verify(w, r, i)
      PROVE  StoreInv' /\ IssueTyped'
  <2> DEFINE next == [kind |-> "verify", remote |-> r, number |-> i]
  <2>1. job[w].kind = "idle" /\ note_overlap(w) /\ UNCHANGED order /\ next.kind = "verify" /\ next.remote = r
    BY <1>6 DEF verify
  <2>2. ~in_store(w)
    BY <2>1 DEF in_store
  <2>3. CASE job' = [job EXCEPT ![w] = next] /\ UNCHANGED challenges
    <3>0. next = [kind |-> "verify", remote |-> next.remote, number |-> next.number]
      OBVIOUS
    <3> HIDE DEF next
    <3>1. IssueTyped'
      BY <1>0, <2>1, <2>3, <3>0 DEF IssueTyped, JobDomain
    <3> QED BY <2>1, <2>2, <2>3, <3>1, StoreEnter
  <2>4. CASE UNCHANGED job /\ (challenges' = challenges \/ challenges' = without(challenges, r))
    <3>1. DOMAIN challenges' \subseteq DOMAIN challenges
      BY <2>4 DEF without
    <3>2. ~overlapped' => ~overlapped
      BY <2>1 DEF note_overlap
    <3> QED BY <2>1, <2>4, <3>1, <3>2 DEF StoreInv, IssueTyped, JobDomain, in_store, InOrder
  <2> QED BY <1>6, <2>3, <2>4 DEF verify, begin
<1>7. ASSUME NEW w \in Workers, issue(w) PROVE StoreInv' /\ IssueTyped'
  <2>1. job' = [job EXCEPT ![w] = idle]
    BY <1>7 DEF issue, finish
  <2>2. IssueTyped'
    BY <1>0, <2>1 DEF IssueTyped, JobDomain, idle
  <2> QED BY <1>7, <2>2, IssueStep DEF IssueTyped
<1>8. ASSUME NEW w \in Workers, consume(w) PROVE StoreInv' /\ IssueTyped'
  <2> DEFINE next == [job[w] EXCEPT !.kind = "consume"]
  <2>1. /\ job[w].kind = "verify" /\ UNCHANGED <<order, overlapped>>
        /\ challenges' = without(challenges, job[w].remote) /\ job' = [job EXCEPT ![w] = next]
    BY <1>8 DEF consume, begin
  <2>2. \A v \in Workers : job'[v] = IF v = w THEN next ELSE job[v]
    BY <1>0, <2>1 DEF JobDomain
  <2>3. job'[w].kind = "consume" /\ job'[w].remote = job[w].remote
    <3>1. job[w] = [kind |-> "verify", remote |-> job[w].remote, number |-> job[w].number]
      BY <2>1 DEF IssueTyped
    <3>2. next = [kind |-> "consume", remote |-> job[w].remote, number |-> job[w].number]
      BY <3>1
    <3> QED BY <2>2, <3>2
  <2> HIDE DEF next
  <2>4. DOMAIN challenges' = DOMAIN challenges \ {job[w].remote}
    BY <2>1 DEF without
  <2>5. \A v \in Workers : in_store(v)' = in_store(v) /\ job'[v].remote = job[v].remote
    BY <2>1, <2>2, <2>3 DEF in_store
  <2>6. IssueTyped' /\ JobDomain'
    BY <1>0, <2>1, <2>2, <2>3 DEF IssueTyped, JobDomain
  <2>7. \A v \in Workers : job'[v].kind = "consume" /\ ~overlapped => job'[v].remote \notin DOMAIN challenges'
    BY <2>2, <2>3, <2>4 DEF StoreInv
  <2> QED BY <2>1, <2>4, <2>5, <2>6, <2>7 DEF StoreInv, InOrder
<1>9. ASSUME NEW w \in Workers, verify_handshake_envelope_fails(w) PROVE StoreInv' /\ IssueTyped'
  <2>1. /\ job[w].kind = "consume" /\ order' = RemoveFirst(order, job[w].remote)
        /\ job' = [job EXCEPT ![w] = idle] /\ UNCHANGED <<challenges, overlapped>>
    BY <1>9 DEF verify_handshake_envelope_fails, finish, ghosts
  <2>2. IssueTyped'
    BY <1>0, <2>1 DEF IssueTyped, JobDomain, idle
  <2> QED BY <2>1, <2>2, FreeOrder DEF idle
<1>10. ASSUME NEW w \in Workers, NEW a, authenticate_peer(w, a) PROVE StoreInv' /\ IssueTyped'
  <2> DEFINE next == [kind |-> "trusted", address |-> normalize_address[a]]
  <2>1. /\ job[w].kind = "consume" /\ order' = RemoveFirst(order, job[w].remote)
        /\ job' = [job EXCEPT ![w] = next] /\ next.kind = "trusted" /\ UNCHANGED <<challenges, overlapped>>
    BY <1>10 DEF authenticate_peer, begin
  <2> HIDE DEF next
  <2>2. IssueTyped'
    BY <1>0, <2>1 DEF IssueTyped, JobDomain
  <2> QED BY <2>1, <2>2, FreeOrder
<1>11. ASSUME NEW r \in Remotes, grow_old(r) PROVE StoreInv' /\ IssueTyped'
  <2>1. DOMAIN challenges' = DOMAIN challenges /\ UNCHANGED <<job, order, overlapped>>
    BY <1>11 DEF grow_old, ghosts
  <2> QED BY <2>1 DEF StoreInv, IssueTyped, JobDomain, in_store, InOrder
<1>12. CASE Restart
  <2>1. order' = <<>> /\ challenges' = <<>> /\ job' = [w \in Workers |-> idle]
    BY <1>12 DEF Restart
  <2>2. \A w \in Workers : ~in_store(w)' /\ job'[w].kind \notin {"issue", "verify", "consume"}
    BY <2>1 DEF in_store, idle
  <2> QED BY <2>1, <2>2, PyPeersAssumption DEF StoreInv, IssueTyped, JobDomain
<1>13. CASE UNCHANGED <<challenges, order, job, overlapped>>
  BY <1>13 DEF StoreInv, IssueTyped, JobDomain, in_store, InOrder
<1>14. ASSUME NEW w \in Workers, NEW a, mark_bootstrap(w, a) PROVE StoreInv' /\ IssueTyped'
  BY <1>13, <1>14 DEF mark_bootstrap, memory, ghosts
<1>15. CASE UNCHANGED vars
  BY <1>13, <1>15 DEF vars, memory, ghosts
<1> QED BY <1>2, <1>3, <1>4, <1>5, <1>6, <1>7, <1>8, <1>9, <1>10, <1>11, <1>12, <1>14, <1>15 DEF Next

(* A sequence has at most as many values as places. *)
LEMMA RangeSize ==
    ASSUME NEW V, NEW s \in Seq(V)
    PROVE  IsFiniteSet(Range(s)) /\ Cardinality(Range(s)) <= Len(s)
<1>1. Len(s) \in Nat /\ DOMAIN s = 1..Len(s)
  OBVIOUS
<1>2. IsFiniteSet(1..Len(s)) /\ Cardinality(1..Len(s)) = Len(s)
  BY <1>1, FS_Interval
<1>3. s \in Surjection(1..Len(s), Range(s))
  BY <1>1 DEF Surjection, Range
<1> QED BY <1>2, <1>3, FS_Surjection

(* The ChallengeStore keeps to its capacity as long as its calls do not    *)
(* overlap (handshake.py ChallengeStore has no lock).                      *)
THEOREM StoreKeepsCapacity == Spec => []StoreBounded
<1>1. Init => StoreInv /\ IssueTyped
  BY PyPeersAssumption DEF Init, StoreInv, IssueTyped, JobDomain, in_store, idle
<1>2. StoreInv => StoreBounded
  <2> SUFFICES ASSUME StoreInv, ~overlapped
               PROVE  DOMAIN challenges \subseteq Range(order) /\ Cardinality(DOMAIN challenges) <= max_size
    BY DEF StoreBounded
  <2>1. order \in Seq(Remotes) /\ Len(order) <= max_size /\ Len(order) \in Nat /\ max_size \in Nat
    BY PyPeersAssumption DEF StoreInv
  <2>2. DOMAIN challenges \subseteq Range(order)
    BY <2>1 DEF StoreInv, InOrder, Range
  <2>3. IsFiniteSet(Range(order)) /\ Cardinality(Range(order)) <= Len(order)
    BY <2>1, RangeSize
  <2>4. /\ Cardinality(DOMAIN challenges) <= Cardinality(Range(order))
        /\ Cardinality(DOMAIN challenges) \in Nat /\ Cardinality(Range(order)) \in Nat
    BY <2>2, <2>3, FS_Subset, FS_CardinalityType
  <2> QED BY <2>1, <2>2, <2>3, <2>4
<1> QED BY <1>1, <1>2, StoreStep, PTL DEF Spec

-----------------------------------------------------------------------------
(* Authenticated requests *)

Keys == Remotes \X Nonces

(* The threads that have found the nonce new and not yet recorded it. *)
Asking(k) == {w \in Workers : job[w].kind = "request" /\ job[w].key = k}

(* Who holds a credential has answered a challenge, and so has the sender  *)
(* of a request that was found to hold the address it names.               *)
HoldersProved ==
    /\ \A a \in DOMAIN credentials : credentials[a] \in proved
    /\ \A w \in Workers : job[w].kind = "request" =>
           job[w].key \in Keys /\ (job[w].grant \ {NoAddress} # {} => job[w].key[1] \in proved)

(* An accepted nonce is in the replay cache or was forgotten; before it is *)
(* there, each thread may be asking for it once.                           *)
AcceptInv ==
    /\ JobDomain
    /\ nonces \in Seq(Keys) /\ accepted \in [Keys -> Nat]
    /\ HoldersProved
    /\ named \subseteq proved
    /\ \A k \in Keys \ forgotten :
           /\ accepted[k] > 0 => k \in Range(nonces)
           /\ accepted[k] + Cardinality(Asking(k)) <= Cardinality(Workers)

LEMMA AskingSize ==
    ASSUME NEW A, A \subseteq Workers
    PROVE  /\ IsFiniteSet(A) /\ Cardinality(A) \in Nat /\ Cardinality(Workers) \in Nat
           /\ Cardinality(A) <= Cardinality(Workers)
BY FS_Subset, FS_CardinalityType, PyPeersAssumption

LEMMA AtMost ==
    ASSUME NEW a \in Nat, NEW b \in Nat, NEW c \in Nat, a + b <= c
    PROVE  a <= c
OBVIOUS

(* A step that starts no request, and neither accepts nor records one. *)
LEMMA AcceptQuiet ==
    ASSUME AcceptInv, JobDomain', HoldersProved', proved \subseteq proved',
           UNCHANGED <<nonces, accepted, forgotten, named>>,
           \A k \in Keys : Asking(k)' \subseteq Asking(k)
    PROVE  AcceptInv'
<1>1. ASSUME NEW k \in Keys \ forgotten
      PROVE  accepted[k] + Cardinality(Asking(k)') <= Cardinality(Workers)
  <2>1. Asking(k) \subseteq Workers /\ Asking(k)' \subseteq Asking(k)
    BY DEF Asking
  <2>2. /\ Cardinality(Asking(k)') <= Cardinality(Asking(k)) /\ Cardinality(Asking(k)') \in Nat
        /\ Cardinality(Asking(k)) \in Nat /\ Cardinality(Workers) \in Nat
    BY <2>1, AskingSize, FS_Subset, FS_CardinalityType
  <2>3. accepted[k] + Cardinality(Asking(k)) <= Cardinality(Workers) /\ accepted[k] \in Nat
    BY DEF AcceptInv
  <2> QED BY <2>2, <2>3
<1> QED BY <1>1 DEF AcceptInv

LEMMA RequestStep ==
    ASSUME AcceptInv, NEW w \in Workers, NEW r \in Remotes, NEW n \in Nonces, NEW a, authenticate_request(w, r, n, a)
    PROVE  AcceptInv'
<1> DEFINE key == <<r, n>>
           next == [kind |-> "request", key |-> key, grant |-> grant(r, a)]
<1>1. /\ job[w].kind = "idle" /\ key \notin Range(nonces) /\ job' = [job EXCEPT ![w] = next]
      /\ UNCHANGED <<nonces, credentials, proved, accepted, forgotten, named>>
  BY DEF authenticate_request, begin, ghosts
<1>2. /\ next.kind = "request" /\ next.key = key /\ key[1] = r /\ key \in Keys
      /\ next.grant = grant(r, a)
  BY DEF Keys
<1> HIDE DEF next, key
<1>3. next.grant \ {NoAddress} # {} => key[1] \in proved
  <2>1. ASSUME grant(r, a) \ {NoAddress} # {} PROVE a \in DOMAIN credentials /\ credentials[a] = r
    BY <2>1 DEF grant, get_peer_credential
  <2> QED BY <1>2, <2>1 DEF AcceptInv, HoldersProved
<1>4. JobDomain' /\ \A v \in Workers : job'[v] = IF v = w THEN next ELSE job[v]
  BY <1>1 DEF AcceptInv, JobDomain
<1>5. HoldersProved'
  BY <1>1, <1>2, <1>3, <1>4 DEF AcceptInv, HoldersProved
<1>6. ASSUME NEW k \in Keys \ forgotten
      PROVE  accepted[k] + Cardinality(Asking(k)') <= Cardinality(Workers)
  <2>0. Asking(k)' \subseteq Workers /\ accepted[k] \in Nat
    BY DEF Asking, AcceptInv
  <2>1. CASE k = key
    <3>1. accepted[k] = 0
      BY <1>1, <2>0, <2>1 DEF AcceptInv
    <3> QED BY <2>0, <3>1, AskingSize
  <2>2. CASE k # key
    <3>1. Asking(k)' = Asking(k)
      BY <1>1, <1>2, <1>4, <2>2 DEF Asking
    <3> QED BY <3>1 DEF AcceptInv
  <2> QED BY <2>1, <2>2
<1> QED BY <1>1, <1>4, <1>5, <1>6 DEF AcceptInv

LEMMA RecordStep ==
    ASSUME AcceptInv, NEW w \in Workers, check_and_record(w)
    PROVE  AcceptInv'
<1> DEFINE key == job[w].key
           counts == job[w].grant # {}
<1>1. /\ job[w].kind = "request" /\ nonces' = add_nonce(nonces, key) /\ job' = [job EXCEPT ![w] = idle]
      /\ accepted' = IF counts THEN [accepted EXCEPT ![key] = @ + 1] ELSE accepted
      /\ forgotten' = forgotten \cup (Range(nonces) \ Range(nonces'))
      /\ named' = IF job[w].grant \ {NoAddress} # {} THEN named \cup {key[1]} ELSE named
      /\ UNCHANGED <<credentials, proved>>
  BY DEF check_and_record, finish
<1>2. key \in Keys /\ named' \subseteq proved
  BY <1>1 DEF AcceptInv, HoldersProved
<1>3. nonces' \in Seq(Keys) /\ key \in Range(nonces')
  <2> DEFINE rest == RemoveFirst(nonces, key)
             old == IF Len(rest) < replay_cache_size THEN rest ELSE Tail(rest)
  <2>0. nonces \in Seq(Keys) /\ replay_cache_size \in Nat /\ replay_cache_size > 0
    BY PyPeersAssumption DEF AcceptInv
  <2>1. rest \in Seq(Keys)
    BY <2>0, RemoveFirstValues
  <2>2. nonces' = Append(old, key)
    BY <1>1 DEF add_nonce
  <2> HIDE DEF rest, key
  <2>3. old \in Seq(Keys)
    BY <2>0, <2>1
  <2> HIDE DEF old
  <2> QED BY <1>2, <2>2, <2>3 DEF Range
<1>4. JobDomain' /\ \A v \in Workers : job'[v] = IF v = w THEN idle ELSE job[v]
  BY <1>1 DEF AcceptInv, JobDomain
<1>5. HoldersProved'
  BY <1>1, <1>4 DEF AcceptInv, HoldersProved, idle
<1>6. \A k \in Keys : Asking(k)' = Asking(k) \ {w}
  BY <1>4 DEF Asking, idle
<1>7. w \in Asking(key)
  BY <1>1 DEF Asking
<1> HIDE DEF key, counts
<1>8. /\ accepted' \in [Keys -> Nat] /\ accepted'[key] \in {accepted[key], accepted[key] + 1}
      /\ \A k \in Keys : k # key => accepted'[k] = accepted[k]
      /\ ~counts => accepted' = accepted
  BY <1>1, <1>2 DEF AcceptInv
<1>9. named' \subseteq proved'
  BY <1>1, <1>2
<1>10. ASSUME NEW k \in Keys \ forgotten'
       PROVE  /\ accepted'[k] > 0 => k \in Range(nonces')
              /\ accepted'[k] + Cardinality(Asking(k)') <= Cardinality(Workers)
  <2>0. k \in Keys \ forgotten /\ (k \in Range(nonces) => k \in Range(nonces')) /\ accepted[k] \in Nat
    BY <1>1 DEF AcceptInv
  <2>1. accepted'[k] > 0 => k \in Range(nonces')
    BY <1>3, <1>8, <2>0 DEF AcceptInv
  <2>2. accepted'[k] + Cardinality(Asking(k)') <= Cardinality(Workers)
    <3>1. Asking(k) \subseteq Workers
      BY DEF Asking
    <3>2. IsFiniteSet(Asking(k)) /\ Cardinality(Asking(k)) \in Nat /\ Cardinality(Workers) \in Nat
      BY <3>1, AskingSize
    <3>3. accepted[k] + Cardinality(Asking(k)) <= Cardinality(Workers)
      BY <2>0 DEF AcceptInv
    <3>4. CASE k = key
      <4>1. Cardinality(Asking(k)') = Cardinality(Asking(k)) - 1
        BY <1>6, <1>7, <2>0, <3>2, <3>4, FS_RemoveElement
      <4>2. accepted'[k] \in {accepted[k], accepted[k] + 1}
        BY <1>8, <3>4
      <4> QED BY <2>0, <3>2, <3>3, <4>1, <4>2
    <3>5. CASE k # key
      <4>1. Asking(k)' \subseteq Asking(k) /\ accepted'[k] = accepted[k]
        BY <1>6, <1>8, <2>0, <3>5
      <4>2. Cardinality(Asking(k)') <= Cardinality(Asking(k)) /\ Cardinality(Asking(k)') \in Nat
        BY <3>2, <4>1, FS_Subset, FS_CardinalityType
      <4> QED BY <2>0, <3>2, <3>3, <4>1, <4>2
    <3> QED BY <3>4, <3>5
  <2> QED BY <2>1, <2>2
<1> QED BY <1>1, <1>3, <1>4, <1>5, <1>8, <1>9, <1>10 DEF AcceptInv

LEMMA AcceptStep == AcceptInv /\ [Next]_vars => AcceptInv'
<1> SUFFICES ASSUME AcceptInv, [Next]_vars PROVE AcceptInv'
  OBVIOUS
<1>0. JobDomain /\ HoldersProved
  BY DEF AcceptInv
<1>1. ASSUME NEW w \in Workers, NEW next, job' = [job EXCEPT ![w] = next], next.kind # "request",
             UNCHANGED <<nonces, accepted, forgotten, named, credentials, proved>>
      PROVE  AcceptInv'
  <2>1. JobDomain' /\ \A v \in Workers : job'[v] = IF v = w THEN next ELSE job[v]
    BY <1>0, <1>1 DEF JobDomain
  <2>2. HoldersProved' /\ \A k \in Keys : Asking(k)' \subseteq Asking(k)
    BY <1>0, <1>1, <2>1 DEF HoldersProved, Asking
  <2> QED BY <1>1, <2>1, <2>2, AcceptQuiet
<1>2. ASSUME UNCHANGED <<job, nonces, accepted, forgotten, named, credentials, proved>>
      PROVE  AcceptInv'
  BY <1>0, <1>2, AcceptQuiet DEF HoldersProved, Asking, JobDomain
<1>3. ASSUME NEW w \in Workers, NEW a, register(w, a) PROVE AcceptInv'
  <2> DEFINE next == [kind |-> "register", address |-> normalize_address[a]]
  <2>1. /\ job' = [job EXCEPT ![w] = next] /\ next.kind = "register"
        /\ UNCHANGED <<nonces, accepted, forgotten, named, credentials, proved>>
    BY <1>3 DEF register, begin, ghosts
  <2> HIDE DEF next
  <2> QED BY <1>1, <2>1
<1>4. ASSUME NEW w \in Workers, NEW r \in Remotes, issue_challenge(w, r) PROVE AcceptInv'
  <2> DEFINE next == [kind |-> "issue", remote |-> r, known |-> r \in DOMAIN challenges]
  <2>1. /\ job' = [job EXCEPT ![w] = next] /\ next.kind = "issue"
        /\ UNCHANGED <<nonces, accepted, forgotten, named, credentials, proved>>
    BY <1>4 DEF issue_challenge, begin
  <2> HIDE DEF next
  <2> QED BY <1>1, <2>1
<1>5. ASSUME NEW w \in Workers, NEW r \in Remotes, NEW i \in DOMAIN issued, verify(w, r, i) PROVE AcceptInv'
  <2>1. UNCHANGED <<nonces, accepted, forgotten, named, credentials, proved>>
    BY <1>5 DEF verify
  <2> DEFINE next == [kind |-> "verify", remote |-> r, number |-> i]
  <2>2. next.kind = "verify" /\ (job' = job \/ job' = [job EXCEPT ![w] = next])
    BY <1>5 DEF verify, begin
  <2> HIDE DEF next
  <2>3. CASE job' = job
    BY <1>2, <2>1, <2>3
  <2>4. CASE job' = [job EXCEPT ![w] = next]
    BY <1>1, <2>1, <2>2, <2>4
  <2> QED BY <2>2, <2>3, <2>4
<1>6. ASSUME NEW w \in Workers, NEW r \in Remotes, NEW n \in Nonces, NEW a, authenticate_request(w, r, n, a) PROVE AcceptInv'
  BY <1>6, RequestStep
<1>7. ASSUME NEW w \in Workers, write_row(w) \/ issue(w) \/ verify_handshake_envelope_fails(w) PROVE AcceptInv'
  <2>1. job' = [job EXCEPT ![w] = idle] /\ UNCHANGED <<nonces, accepted, forgotten, named, credentials, proved>>
    BY <1>7 DEF write_row, issue, verify_handshake_envelope_fails, finish, ghosts
  <2>2. idle.kind = "idle"
    BY DEF idle
  <2> QED BY <1>1, <2>1, <2>2
<1>8. ASSUME NEW w \in Workers, consume(w) PROVE AcceptInv'
  <2> DEFINE next == [job[w] EXCEPT !.kind = "consume"]
  <2>1. /\ job' = [job EXCEPT ![w] = next] /\ job[w].kind = "verify"
        /\ UNCHANGED <<nonces, accepted, forgotten, named, credentials, proved>>
    BY <1>8 DEF consume, begin
  <2>2. next.kind # "request"
    BY <2>1
  <2> HIDE DEF next
  <2> QED BY <1>1, <2>1, <2>2
<1>9. ASSUME NEW w \in Workers, NEW a, authenticate_peer(w, a) PROVE AcceptInv'
  <2> DEFINE r == job[w].remote
             next == [kind |-> "trusted", address |-> normalize_address[a]]
  <2>1. /\ job' = [job EXCEPT ![w] = next] /\ next.kind = "trusted" /\ proved' = proved \cup {r}
        /\ credentials' = put(credentials, a, r) /\ UNCHANGED <<nonces, accepted, forgotten, named>>
    BY <1>9 DEF authenticate_peer, begin, upsert_peer_credential
  <2> HIDE DEF next, r
  <2>2. JobDomain' /\ \A v \in Workers : job'[v] = IF v = w THEN next ELSE job[v]
    BY <1>0, <2>1 DEF JobDomain
  <2>3. \A b \in DOMAIN credentials' : credentials'[b] \in proved'
    BY <1>0, <2>1 DEF put, HoldersProved
  <2>4. HoldersProved' /\ \A k \in Keys : Asking(k)' \subseteq Asking(k)
    BY <1>0, <2>1, <2>2, <2>3 DEF HoldersProved, Asking
  <2> QED BY <2>1, <2>2, <2>4, AcceptQuiet
<1>10. ASSUME NEW w \in Workers, check_and_record(w) PROVE AcceptInv'
  BY <1>10, RecordStep
<1>11. ASSUME NEW r \in Remotes, grow_old(r) PROVE AcceptInv'
  BY <1>2, <1>11 DEF grow_old, ghosts
<1>12. CASE Restart
  <2>1. /\ nonces' = <<>> /\ job' = [w \in Workers |-> idle] /\ accepted' = [k \in Keys |-> 0]
        /\ UNCHANGED <<credentials, proved, named>>
    BY <1>12 DEF Restart, Keys
  <2>2. JobDomain' /\ HoldersProved' /\ \A k \in Keys : Asking(k)' = {}
    BY <1>0, <2>1 DEF JobDomain, HoldersProved, Asking, idle
  <2>3. Cardinality({}) = 0 /\ Cardinality(Workers) \in Nat
    BY FS_EmptySet, FS_CardinalityType, PyPeersAssumption
  <2>4. nonces' \in Seq(Keys) /\ accepted' \in [Keys -> Nat] /\ \A k \in Keys : accepted'[k] = 0
    BY <2>1
  <2>5. \A k \in Keys : Cardinality(Asking(k)') = 0
    BY <2>2, <2>3
  <2>6. \A k \in Keys : accepted'[k] + Cardinality(Asking(k)') <= Cardinality(Workers)
    BY <2>3, <2>4, <2>5
  <2> QED BY <2>1, <2>2, <2>4, <2>6 DEF AcceptInv
<1>13. CASE UNCHANGED vars
  BY <1>2, <1>13 DEF vars, memory, ghosts
<1>14. ASSUME NEW w \in Workers, NEW a, mark_bootstrap(w, a) PROVE AcceptInv'
  BY <1>2, <1>14 DEF mark_bootstrap, memory, ghosts
<1> QED BY <1>3, <1>4, <1>5, <1>6, <1>7, <1>8, <1>9, <1>10, <1>11, <1>12, <1>13, <1>14 DEF Next

(* A request that names an address is accepted only from a remote that has *)
(* answered a challenge, and every request at most once by each thread     *)
(* unless the replay cache had to forget its nonce (handshake.py           *)
(* verify_auth_envelope asks the cache and records the nonce in two calls; *)
(* a request that names no address is asked for no credential).            *)
THEOREM ReplaysAreBounded == Spec => []AcceptedOncePerThread
<1>1. Init => AcceptInv
  <2> SUFFICES ASSUME Init PROVE AcceptInv
    OBVIOUS
  <2>1. /\ nonces = <<>> /\ job = [w \in Workers |-> idle] /\ accepted = [k \in Keys |-> 0] /\ DOMAIN credentials = {}
        /\ named = {}
    BY DEF Init, Keys
  <2>2. JobDomain /\ HoldersProved /\ \A k \in Keys : Asking(k) = {}
    BY <2>1 DEF JobDomain, HoldersProved, Asking, idle
  <2>3. Cardinality({}) = 0 /\ Cardinality(Workers) \in Nat
    BY FS_EmptySet, FS_CardinalityType, PyPeersAssumption
  <2>4. nonces \in Seq(Keys) /\ accepted \in [Keys -> Nat] /\ \A k \in Keys : accepted[k] = 0
    BY <2>1
  <2>5. \A k \in Keys : Cardinality(Asking(k)) = 0
    BY <2>2, <2>3
  <2>6. \A k \in Keys : accepted[k] + Cardinality(Asking(k)) <= Cardinality(Workers)
    BY <2>3, <2>4, <2>5
  <2>7. named \subseteq proved
    BY <2>1
  <2> QED BY <2>2, <2>4, <2>6, <2>7 DEF AcceptInv
<1>2. AcceptInv => AcceptedOncePerThread
  <2> SUFFICES ASSUME AcceptInv, NEW r \in Remotes, NEW n \in Nonces
               PROVE  accepted[r, n] <= Cardinality(Workers) \/ <<r, n>> \in forgotten
    BY DEF AcceptedOncePerThread, AcceptInv
  <2> DEFINE k == <<r, n>>
  <2>1. k \in Keys /\ accepted[k] \in Nat
    BY DEF Keys, AcceptInv
  <2>2. Asking(k) \subseteq Workers
    BY DEF Asking
  <2>3. Cardinality(Asking(k)) \in Nat /\ Cardinality(Workers) \in Nat
    BY <2>2, AskingSize
  <2>5. k \notin forgotten => accepted[k] + Cardinality(Asking(k)) <= Cardinality(Workers)
    BY <2>1 DEF AcceptInv
  <2> HIDE DEF k
  <2>6. k \notin forgotten => accepted[k] <= Cardinality(Workers)
    BY <2>1, <2>3, <2>5, AtMost
  <2> QED BY <2>6 DEF k
<1> QED BY <1>1, <1>2, AcceptStep, PTL DEF Spec
=============================================================================
