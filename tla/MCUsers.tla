------------------------------- MODULE MCUsers -------------------------------
(* Small instances of Users for TLC. *)
EXTENDS Users, TLC

(* Nothing in the handlers tells one worker, session or password from another. *)
Symmetry == Permutations(Workers) \cup Permutations(Sessions) \cup Permutations(Passwords)

==============================================================================
