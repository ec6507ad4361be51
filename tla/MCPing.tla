------------------------------- MODULE MCPing -------------------------------
(* A host with a remote address and one of this machine.                   *)
EXTENDS Ping

MCLocal == {2}
=============================================================================
