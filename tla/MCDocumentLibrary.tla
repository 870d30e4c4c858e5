-------------------------- MODULE MCDocumentLibrary --------------------------
(* TLC instances of DocumentLibrary: which file each document carries, and *)
(* the symmetric sets.                                                     *)
EXTENDS DocumentLibrary, TLC

CONSTANTS f1, f2

(* Every document is an upload of the same file, one after the other.      *)
OneFile == [d \in Docs |-> f1]

(* Each document has a file of its own.                                    *)
OwnFile == CHOOSE m \in [Docs -> Files] :
              \A d, e \in Docs : m[d] = m[e] => d = e

Symmetry == Permutations(Users) \cup Permutations(Handlers)
                \cup Permutations(Sweepers)
=============================================================================
