------------------------- MODULE MCScenarioCleanup -------------------------
(* ScenarioCleanup for TLC: a share on a share network with its share      *)
(* server, a snapshot of it, a copy made from the snapshot, which cannot   *)
(* do without it, and a machine the first share is attached to; without    *)
(* multitenancy, the same less the network and the share server.           *)
EXTENDS ScenarioCleanup

MCResources == {"net", "srv", "share", "snap", "copy"}
MCKind  == [net |-> "network", srv |-> "share_server", share |-> "share",
            snap |-> "snapshot", copy |-> "share"]
MCNeeds == [net |-> {}, srv |-> {"net"}, share |-> {"net", "srv"},
            snap |-> {"share"}, copy |-> {"net", "srv", "snap"}]
MCShareOf == [att |-> "share"]
MCVmOf    == [att |-> "vm"]

(* A share attached to two machines, as in                                 *)
(* test_multiple_shares_via_virtiofs.                                      *)
VirtioResources == {"share"}
VirtioKind      == [share |-> "share"]
VirtioNeeds     == [share |-> {}]
VirtioShareOf   == [att1 |-> "share", att2 |-> "share"]
VirtioVmOf      == [att1 |-> "vm1", att2 |-> "vm2"]
=============================================================================
