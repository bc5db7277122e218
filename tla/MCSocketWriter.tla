--------------------------- MODULE MCSocketWriter ---------------------------
(* A small instance of SocketWriter for TLC. *)
EXTENDS SocketWriter

==============================================================================
