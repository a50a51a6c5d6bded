--------------------------- MODULE MCMetadataLock ---------------------------
(* Instances of MetadataLock; the timeout is shorter than the stale age,   *)
(* as LOCK_WAIT_TIMEOUT (10 s) is than STALE_LOCK_AGE (60 s).              *)
EXTENDS MetadataLock
=============================================================================
