----------------------------- MODULE MCMessages -----------------------------
(* Instances of Messages for TLC: what a handler does with more than one call, *)
(* the handlers its call runs do with one.                                     *)
EXTENDS Messages
=============================================================================
