-------------------------- MODULE MCSharedMessages --------------------------
(* Instances of SharedMessages and MessageQueue for TLC. *)
EXTENDS SharedMessages, TLC

Symmetry == Permutations(Message) \cup Permutations(Thread)
                \cup Permutations(Dest) \cup Permutations(Event)
=============================================================================
