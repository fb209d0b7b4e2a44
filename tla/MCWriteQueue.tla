---------------------------- MODULE MCWriteQueue ----------------------------
(* WriteQueue for TLC: two senders, so that one of them meets a full queue,  *)
(* a closed one or a started writer while the other is between two steps.    *)
EXTENDS WriteQueue
=============================================================================
