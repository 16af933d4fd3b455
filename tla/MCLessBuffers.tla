---------------------------- MODULE MCLessBuffers ----------------------------
(* Up to two buffers, or as many as one likes. *)
EXTENDS LessBuffers
const_Cbufs == {1, 2}
==============================================================================
