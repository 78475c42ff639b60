------------------------- MODULE MCResourceCleanup -------------------------
(* ResourceCleanup for TLC: a share of the class on a share network of the *)
(* class, with a snapshot and a replica that belong to a test.             *)
EXTENDS ResourceCleanup

MCResources == {"net", "share", "snap", "rep"}

MCKind == [net   |-> "plain",
           share |-> "share",
           snap  |-> "waited",
           rep   |-> "share_replica"]

MCNeeds == [net   |-> {},
            share |-> {"net"},
            snap  |-> {"share"},
            rep   |-> {"share"}]

MCMembers == [r \in MCResources |-> {}]

MCClassScope == {"net", "share"}

(* A share type of the class; of that type, a share group with its share,  *)
(* which a test makes from a snapshot of another group; the test locks the *)
(* share, and enters something clear_resources does not know.              *)
GroupResources  == {"type", "group", "member", "lock", "odd"}
GroupKind       == [type |-> "share_type", group |-> "waited",
                    member |-> "share", lock |-> "lock", odd |-> "unsupported"]
GroupNeeds      == [type |-> {}, group |-> {"type"},
                    member |-> {"group", "type"}, lock |-> {"member"},
                    odd |-> {}]
GroupMembers    == [type |-> {}, group |-> {"member"}, member |-> {},
                    lock |-> {}, odd |-> {}]
GroupClassScope == {"type"}

(* A share of a test with a replica of the same test.                      *)
ReplicaResources  == {"share", "rep"}
ReplicaKind       == [share |-> "share", rep |-> "share_replica"]
ReplicaNeeds      == [share |-> {}, rep |-> {"share"}]
ReplicaMembers    == [r \in ReplicaResources |-> {}]
ReplicaClassScope == {}

=============================================================================
