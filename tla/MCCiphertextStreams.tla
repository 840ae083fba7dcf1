------------------------ MODULE MCCiphertextStreams ------------------------
(* A convolution on one GPU: one ciphertext and the two plaintexts that two   *)
(* rows take; dnum = 1.  The other operations are checked on one GPU and on   *)
(* two in MCPeerExchange.                                                     *)
EXTENDS CiphertextStreams, TLC

MCStream == StreamsOfContext
=============================================================================
