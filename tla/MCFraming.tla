------------------------------ MODULE MCFraming ------------------------------
(* Three messages with bodies of one to three symbols: every way the reads cut  *)
(* a message that follows another and is followed by a third.                   *)
EXTENDS Framing
=============================================================================
