---------------------------- MODULE MCUpstreamPool ----------------------------
(* UpstreamPool with three servers.                                           *)
EXTENDS UpstreamPool, TLC

CONSTANTS s1, s2, s3
=============================================================================
