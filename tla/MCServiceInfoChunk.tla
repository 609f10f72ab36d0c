------------------------ MODULE MCServiceInfoChunk ------------------------
(***************************************************************************)
(* Instances of ServiceInfoChunk for TLC.                                  *)
(***************************************************************************)
EXTENDS ServiceInfoChunk, TLC

CONSTANTS short, long

\* "fsim:x" and "fdo.upload:need-sha-bytes", whose head has a second byte.
MCKeyLen == short :> 6 @@ long :> 25

\* Values around the lengths at which heads grow, and around what a message of the
\* smaller sizes holds.
MCLengths == {0, 1, 23, 24, 40, 256, 300}

\* At 3 the limit wraps.
MCMtus == {3, 11, 48, 73, 278, 300}
=============================================================================
