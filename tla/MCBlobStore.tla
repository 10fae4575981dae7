---------------------------- MODULE MCBlobStore ----------------------------
EXTENDS BlobStore, TLC

\* Blobs, tasks and ordinary owners are interchangeable.
Symmetry == Permutations(Blobs) \union Permutations(Tasks) \union Permutations(Owners \ Expiring)
=============================================================================
