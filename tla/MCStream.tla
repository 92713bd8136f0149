------------------------------ MODULE MCStream ------------------------------
(* A stream with two goroutines in Header, SendMsg and CloseSend *)
EXTENDS Stream

CONSTANTS s1, s2
=============================================================================
