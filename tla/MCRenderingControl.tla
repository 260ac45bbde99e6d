--------------------------- MODULE MCRenderingControl ---------------------------
(***************************************************************************)
(* Constants for model-checking RenderingControl: one subscriber of the     *)
(* service, a desired volume out of range on either side, 0 and the default. *)
(***************************************************************************)
EXTENDS RenderingControl, TLC

RenderingPaths == [s \in Sids |-> "RenderingControl"]
DesiredVolumes == {-5, 0, 50, 250}
VolumeEvents == [volume : 0..100, muted : BOOLEAN]

Symmetry == Permutations(Requests)
===============================================================================
