--------------------------- MODULE MCUploadIngest ---------------------------
(***************************************************************************)
(* Instances of UploadIngest for TLC.                                      *)
(***************************************************************************)
EXTENDS UploadIngest, TLC

CONSTANTS a1, a2, a3

\* a1 and a3 are byte-identical archives built at different times.
TwinChecksum == (a1 :> "sha1") @@ (a2 :> "sha2") @@ (a3 :> "sha1")
SoloChecksum == a1 :> "sha1"

Symmetry == Permutations(Workers) \cup Permutations(Uploads)

\* a1 and a3 differ in nothing but their names.
TwinSymmetry == Symmetry \cup Permutations({a1, a3})
=============================================================================
