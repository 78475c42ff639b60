--------------------------- MODULE MCClassTeardown ---------------------------
(* ClassTeardown for TLC.  The first class is one of the API tests with    *)
(* users of all roles: a share network, a user, and a share that user      *)
(* makes on the network.  The second is one of the RBAC tests: a share     *)
(* network of the API base class, a user with a project of its own, made   *)
(* in setup_clients, a share type, a share of that user, and a snapshot of *)
(* the share.  The third, again with users, makes nothing: it finds what   *)
(* the others have left.                                                   *)
EXTENDS ClassTeardown

CONSTANTS u, p, type, share, snapshot, net1, net2, member, share2

MCThings == {u, p, type, share, snapshot, net1, net2, member, share2}

MCClassOf ==
  [r \in MCThings |-> IF r \in {net1, member, share2} THEN 1 ELSE 2]

MCPlace ==
  [r \in MCThings |->
     CASE r \in {u, p}               -> "raw"
       [] r = type                   -> "stack"
       [] r \in {share, snapshot}    -> "waited"
       [] r \in {net1, net2, share2} -> "list"
       [] r = member                 -> "users"]

MCEarly == {u, p, net1, net2, member}

MCNeeds ==
  [r \in MCThings |->
     CASE r = share    -> {type}
       [] r = snapshot -> {share}
       [] r = share2   -> {net1}
       [] OTHER        -> {}]

MCOwners ==
  [r \in MCThings |->
     CASE r \in {share, snapshot} -> {u, p}
       [] r = share2              -> {member}
       [] OTHER                   -> {}]
=============================================================================
