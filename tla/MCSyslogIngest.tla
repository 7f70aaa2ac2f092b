--------------------------- MODULE MCSyslogIngest ---------------------------
(* Instances of SyslogIngest for TLC. *)
EXTENDS SyslogIngest
=============================================================================
