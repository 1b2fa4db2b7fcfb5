--------------------------- MODULE MCOrderedWriter ---------------------------
(* TLC instance of OrderedWriter: frames of one, two, one, one, two bytes. *)
EXTENDS OrderedWriter

MCEnds == [f \in 0..Count |-> f + (f + 1) \div 3]
=============================================================================
