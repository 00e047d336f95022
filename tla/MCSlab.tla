------------------------------- MODULE MCSlab -------------------------------
(* The slab allocator with one cell per page: 1 -> 2 -> 4 cells, so two      *)
(* expansions succeed and the third one is refused.                          *)
EXTENDS Slab
=============================================================================
