---------------------------- MODULE SslSocketMC ----------------------------
(* A server's handshake with a flight larger than the BIO, and two sends.   *)
EXTENDS SslSocket
MCScript == <<"r", "w", "w", "w", "r", "w">>
MCSends == <<2, 1>>
=============================================================================
