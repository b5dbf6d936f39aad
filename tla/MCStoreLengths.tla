--------------------------- MODULE MCStoreLengths ---------------------------
(* Blobs for StoreLengths.                                                 *)
EXTENDS StoreLengths

\* An empty store, one with a short object, and one that is nearly full.
MCBlobs == {Empty,
            [id \in {1} |-> [name |-> 1, body |-> 1]],
            [id \in {1, 2} |-> [name |-> 4, body |-> 4]]}
=============================================================================
