-------------------------- MODULE MCReplicaPromotion --------------------------
(* ReplicaPromotion for TLC: all of its tests, or the one that promotes a    *)
(* replica it has entered in a cleanup list.                                 *)
EXTENDS ReplicaPromotion

MCTests == DOMAIN Script
MCPromoteBack == {"promote_back"}
=============================================================================
