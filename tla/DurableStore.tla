---------------------------- MODULE DurableStore ----------------------------
(***************************************************************************)
(* What the node expects of its journal, without bytes: an ordered log of  *)
(* records.  A record that was acknowledged survives every crash; one that *)
(* reached the log without being acknowledged may survive, but never       *)
(* without everything before it; a start sees exactly what survived.       *)
(* There is one way to lose more, and it is part of what the journal gives *)
(* its users: a write that fails halfway breaks the log, and what is       *)
(* acknowledged after that is seen by the running process alone.           *)
(* Module Journal is shown to implement it.                                *)
(***************************************************************************)
EXTENDS Integers, Sequences, SequencesExt

CONSTANTS Records, Nothing, apply(_, _)

VARIABLES
    log,    \* the records a start would find
    sure,   \* how many of them no crash can take away
    view,   \* what the running process sees
    up,
    broken  \* a write has failed halfway since the last start

vars == <<log, sure, view, up, broken>>

(* What a start makes of a log *)
replayed(s) ==
    LET after[n \in 0..Len(s)] == IF n = 0 THEN Nothing ELSE apply(after[n - 1], s[n])
    IN  after[Len(s)]

Init == log = <<>> /\ sure = 0 /\ view = Nothing /\ up = FALSE /\ broken = FALSE

Recover ==
    /\ ~up
    /\ up' = TRUE
    /\ view' = replayed(log)
    /\ sure' \in {sure, Len(log)}
    /\ broken' = FALSE
    /\ UNCHANGED log

Land(r) ==
    /\ up /\ ~broken
    /\ log' = Append(log, r)
    /\ UNCHANGED <<sure, view, up, broken>>

Acknowledge ==
    /\ up /\ ~broken
    /\ sure < Len(log)
    /\ sure' = Len(log)
    /\ view' = apply(view, Last(log))
    /\ UNCHANGED <<log, up, broken>>

Break ==
    /\ up /\ ~broken
    /\ broken' = TRUE
    /\ UNCHANGED <<log, sure, view, up>>

(* Acknowledged behind the half-written record: no start will find it. *)
Swallow(r) ==
    /\ up /\ broken
    /\ sure' = Len(log)
    /\ view' = apply(view, r)
    /\ UNCHANGED <<log, up, broken>>

Harden ==
    /\ sure' = Len(log)
    /\ UNCHANGED <<log, view, up, broken>>

Crash ==
    /\ \E n \in sure..Len(log) : log' = SubSeq(log, 1, n)
    /\ up' = FALSE
    /\ view' = Nothing
    /\ UNCHANGED <<sure, broken>>

Next ==
    \/ Recover \/ Acknowledge \/ Break \/ Harden \/ Crash
    \/ \E r \in Records : Land(r) \/ Swallow(r)

Spec == Init /\ [][Next]_vars
=============================================================================
