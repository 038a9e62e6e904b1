---------------------------- MODULE MCQuicDriver ----------------------------
(* QuicDriver with every kind of operation. *)
EXTENDS QuicDriver

MCKinds == ConnectionKinds \cup StreamKinds
=============================================================================
