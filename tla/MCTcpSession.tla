------------------------------ MODULE MCTcpSession ------------------------------
(* Instances of TcpSession for TLC.                                         *)
EXTENDS TcpSession, SequencesExt

\* Up to two authentication responses that TCP delivers together, with a session
\* check response or without.
OneOrTwo == [responses : BoundedSeq(AuthResponses, 2), pong : BOOLEAN]
=============================================================================
