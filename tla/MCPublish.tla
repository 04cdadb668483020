------------------------------ MODULE MCPublish ------------------------------
(* Instances of Publish for TLC.                                           *)
EXTENDS Publish, TLC

Symmetry == Permutations(Call)

(* A publish, its continuation, the synchronization tools and the creation *)
(* of the pull request.                                                    *)
EveryKind == AllKinds

(* A publish and its continuation only.                                    *)
PublishKinds == {"publish", "resume"}
=============================================================================
