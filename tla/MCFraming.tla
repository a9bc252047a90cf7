----------------------------- MODULE MCFraming -----------------------------
(* Lines that are shorter than the limit, that reach it in one read, and     *)
(* that are longer by a read.                                                *)
EXTENDS Framing
=============================================================================
