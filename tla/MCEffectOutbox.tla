--------------------------- MODULE MCEffectOutbox ---------------------------
(***************************************************************************)
(* Three effects of one stream.  The first may be claimed twice, so that a *)
(* stale claim of it meets a newer one; the third shows that the           *)
(* predecessor guard looks past a superseded neighbour.                    *)
(***************************************************************************)
EXTENDS EffectOutbox

Attempts == [s \in 1 .. MaxSeq |-> IF s = 1 THEN 2 ELSE 1]
=============================================================================
