------------------------------ MODULE MCJournal ------------------------------
(* Journal with payloads of one, two and four cells, so that a half-written
   payload can be longer or shorter than the record behind it. *)
EXTENDS Journal

MCPayloadLen(type) == IF type = "tip" THEN 1 ELSE IF type = "block" THEN 4 ELSE 2
=============================================================================
