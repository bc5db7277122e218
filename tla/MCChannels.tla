----------------------------- MODULE MCChannels -----------------------------
(* Small instances of Channels for TLC. *)
EXTENDS Channels, TLC

CSymmetry == Permutations(Workers) \cup Permutations(Logins) \cup Permutations(Names)

==============================================================================
