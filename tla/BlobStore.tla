----------------------------- MODULE BlobStore -----------------------------
(***************************************************************************)
(* The block-blob operations trilli-serve uses of its object store         *)
(* (storage/azureblob behind storage/encryptedstore), as operators on the  *)
(* state of one blob.  A blob keeps the committed blocks a reader sees and *)
(* the staged blocks that wait for a block-list commit.  A block is "good" *)
(* when it holds the whole plaintext chunk the upload plan gives it and    *)
(* "bad" when a wrong-size body was staged under its id.                   *)
(***************************************************************************)
CONSTANT Chunks    \* the block ids of a blob (one per chunk of the plan)

Block == {"none", "good", "bad"}

BlobState == [exists : BOOLEAN, block : [Chunks -> Block], staged : [Chunks -> Block]]

NoBlocks == [c \in Chunks |-> "none"]

NoBlob == [exists |-> FALSE, block |-> NoBlocks, staged |-> NoBlocks]

\* UploadStream: the blob appears whole or not at all.
Put == [exists |-> TRUE, block |-> [c \in Chunks |-> "good"], staged |-> NoBlocks]

\* Staging replaces what was staged under the id and leaves the committed
\* content alone.
StageBlock(b, c, quality) == [b EXCEPT !.staged[c] = quality]

\* A commit by id takes the staged block, else the committed one.
Latest(b, c) == IF b.staged[c] # "none" THEN b.staged[c] ELSE b.block[c]

Committable(b) == \A c \in Chunks : Latest(b, c) # "none"

CommitBlocks(b) ==
  [exists |-> TRUE, block |-> [c \in Chunks |-> Latest(b, c)], staged |-> NoBlocks]

\* The first half of AbortBlocks: an empty block list leaves a zero-byte blob,
\* whatever was committed before.
CommitNothing == [exists |-> TRUE, block |-> NoBlocks, staged |-> NoBlocks]

\* Deleting a blob that is not there succeeds.
Delete(b) == [b EXCEPT !.exists = FALSE, !.block = NoBlocks]

\* What a download of the file would return in full.
Intact(b) == b.exists /\ \A c \in Chunks : b.block[c] = "good"
=============================================================================
