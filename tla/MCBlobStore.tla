---------------------------- MODULE MCBlobStore ----------------------------
(***************************************************************************)
(* The blob store with a bound on the messages under way.                  *)
(***************************************************************************)
EXTENDS BlobStore

CONSTANT MaxMsgs    \* bound: TLC does not go on with more messages than this

FewMessages == Cardinality(msgs) <= MaxMsgs

=============================================================================
