----------------------------- MODULE MCStorage ------------------------------
(***************************************************************************)
(* The two users of storage.ts, the upload contract and the edge, for TLC. *)
(* They share the bucket and nothing in it: uploads never go through the   *)
(* edge, which serves assets/ only.  So no step of one can tell what the   *)
(* other has done, and a behaviour of this instance is one of either.      *)
(***************************************************************************)
EXTENDS MCFileUpload, EdgeCache

storageVars == <<vars, edgeVars>>

StorageNext ==
    \/ EdgeInit /\ Next /\ UNCHANGED edgeVars
    \/ Init /\ EdgeNext /\ UNCHANGED vars

\* Fair to the uploads, so that what is asked of them in the end is asked of
\* behaviours in which they run; the safety of the edge needs no fairness.
StorageSpec == Init /\ EdgeInit /\ [][StorageNext]_storageVars /\ Fairness

=============================================================================
