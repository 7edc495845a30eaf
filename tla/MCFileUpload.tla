--------------------------- MODULE MCFileUpload ----------------------------
(***************************************************************************)
(* Instances of FileUpload for TLC, and of the arithmetic of its parts.    *)
(***************************************************************************)
EXTENDS UploadPlans, TLC

CONSTANTS f1, f2, f3, k1

\* A double tap of a multipart upload, and the same key with another body.
TapKeyOf == (f1 :> k1) @@ (f2 :> k1) @@ (f3 :> k1)
TapBodyOf == (f1 :> "archive") @@ (f2 :> "archive") @@ (f3 :> "photo")

\* Two files with no key: a multipart and a single PUT.
MixKeyOf == (f1 :> NoKey) @@ (f2 :> NoKey)
MixBodyOf == (f1 :> "archive") @@ (f2 :> "photo")

\* One of them.
BigKeyOf == f1 :> NoKey
BigBodyOf == f1 :> "archive"

=============================================================================
