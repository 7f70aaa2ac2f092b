---------------------------- MODULE MCTcpFraming ----------------------------
(* Instances of TcpFraming for TLC. *)
EXTENDS TcpFraming

SomeContent == {NL, SP, CR}
=============================================================================
