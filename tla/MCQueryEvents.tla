--------------------------- MODULE MCQueryEvents ---------------------------
(* A small instance of QueryEvents for TLC. *)
EXTENDS QueryEvents
CONSTANTS t1, t2, s1, s2, s3
MCThreads == {t1, t2}
MCStreams == {s1, s2, s3}
=============================================================================
