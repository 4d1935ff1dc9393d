------------------------- MODULE MC_AuthRequestBroker -------------------------
(* Challenges offer any subset of Basic, Digest and NTLM.  NTLM is a       *)
(* scheme the non-Windows loop does not accept, and the one a Windows      *)
(* handshake can continue with.                                            *)
EXTENDS AuthRequestBroker, TLC

ChallengeSchemes == {"Basic", "Digest", "NTLM"}
=============================================================================
