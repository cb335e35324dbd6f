--------------------------------- MODULE Lists ---------------------------------
(***************************************************************************)
(* The comprehensions over tuples that the state modules are written with. *)
(***************************************************************************)
EXTENDS Naturals, SequencesExt

(* The elements of seq that are in S, in their order                       *)
Filtered(seq, S) == FlattenSeq([i \in DOMAIN seq |-> IF seq[i] \in S THEN <<seq[i]>> ELSE << >>])
=============================================================================
