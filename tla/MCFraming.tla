----------------------------- MODULE MCFraming -----------------------------
(***************************************************************************)
(* A small instance of Framing: lengths of two bytes for four.             *)
(***************************************************************************)
EXTENDS Framing

MCBodies == {2, 3}
\* nothing, less than a message, more than one, more than ever comes
MCStray == {0, 1, 4, 99}
=============================================================================
