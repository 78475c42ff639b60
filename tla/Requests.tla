------------------------------ MODULE Requests ------------------------------
(***************************************************************************)
(* How the client of shares_client.py forms its requests.  Every method    *)
(* takes a microversion, and that version decides several things in        *)
(* different places: the name of the action or of the URL, whether the API *)
(* is still experimental, which fields the body may have, and the header   *)
(* by which Manila reads all that.  They have to agree.  The module also   *)
(* has the dispatch of is_resource_deleted, which chooses what to look up  *)
(* from the keywords it is given.                                          *)
(*                                                                         *)
(* A version "x.y" is the pair <<x, y>> get_microversion_as_tuple makes.   *)
(* Manila's own table (since when it serves a name, a field or an API      *)
(* without the experimental header) is external.                           *)
(***************************************************************************)
EXTENDS Integers

CONSTANTS
  Versions,    \* the versions a test may name
  MinVersion,  \* CONF.share.min_api_microversion
  MaxVersion   \* CONF.share.max_api_microversion

Gt(v, w) == v[1] > w[1] \/ (v[1] = w[1] /\ v[2] > w[2])
Ge(v, w) == ~Gt(w, v)
Lt(v, w) == Gt(w, v)

\* There is no v1 API any more, and list_availability_zones has the new name
\* of its URL for a default, whatever the version: the latest must know it.
ASSUME RequestsAssumption ==
  /\ Versions \subseteq Nat \X Nat
  /\ MinVersion \in Versions /\ MaxVersion \in Versions
  /\ Ge(MaxVersion, MinVersion) /\ Ge(MinVersion, <<2, 0>>)
  /\ Ge(MaxVersion, <<2, 7>>)

VARIABLES
  pc,     \* "idle", "sent" or "answered"
  asked,  \* what the caller asked for: version, fields, and keys of a lookup
  wire,   \* the request
  answer  \* Manila's answer, or the exception that kept it from being sent

vars == <<pc, asked, wire, answer>>

Latest == MaxVersion

\* Tests name a version behind skip_if_microversion_not_supported.
Supported == {v \in Versions : Ge(v, MinVersion) /\ Ge(MaxVersion, v)}

-----------------------------------------------------------------------------
(* Manila.  A request without a version is read as one for 2.0.            *)

NoVersion == <<0, 0>>

Since ==
  [force |-> <<2, 64>>, snapshot_metadata |-> <<2, 73>>,
   replica_metadata |-> <<2, 95>>, subnet_metadata |-> <<2, 78>>,
   access_metadata |-> <<2, 45>>, lock_visibility |-> <<2, 82>>,
   lock_deletion |-> <<2, 82>>, unrestrict |-> <<2, 82>>]

Fields == DOMAIN Since

Known(v) == {f \in Fields : Ge(v, Since[f])}

Graduated ==
  [share_group |-> <<2, 55>>, share_group_type |-> <<2, 55>>,
   share_group_snapshot |-> <<2, 55>>, share_replica |-> <<2, 56>>,
   share_migration |-> <<2, 96>>]

NeverGraduated == {"share_backup", "subnet_check", "share_server_migration"}

\* The version that brought an API.
Brought ==
  [export_locations |-> <<2, 9>>, share_replica |-> <<2, 11>>,
   snapshot_manage |-> <<2, 12>>, snapshot_instances |-> <<2, 19>>,
   share_migration |-> <<2, 22>>, revert |-> <<2, 27>>,
   share_group |-> <<2, 31>>, share_group_type |-> <<2, 31>>,
   share_group_snapshot |-> <<2, 31>>, snapshot_access |-> <<2, 32>>,
   messages |-> <<2, 37>>, access_metadata |-> <<2, 45>>, subnet |-> <<2, 51>>,
   share_server_migration |-> <<2, 57>>, soft_delete |-> <<2, 69>>,
   subnet_check |-> <<2, 70>>, snapshot_metadata |-> <<2, 73>>,
   transfers |-> <<2, 77>>, subnet_metadata |-> <<2, 78>>,
   share_backup |-> <<2, 80>>, locks |-> <<2, 81>>, access_level |-> <<2, 88>>]

Has(v, api) == api \in DOMAIN Brought => Ge(v, Brought[api])

ReadAs(r) == IF r.version = NoVersion THEN <<2, 0>> ELSE r.version

WellFormed(r) ==
  LET v == ReadAs(r) IN
  /\ r.api # "discovery" => Ge(v, MinVersion) /\ Ge(MaxVersion, v)
  /\ r.name = "os" => Lt(v, <<2, 7>>)
  /\ r.name = "plain" => Ge(v, <<2, 7>>)
  /\ r.api = "access_list" => Lt(v, <<2, 45>>)
  /\ r.api = "access_rules" => Ge(v, <<2, 45>>)
  /\ r.api \in NeverGraduated => r.experimental
  /\ r.api \in DOMAIN Graduated /\ Lt(v, Graduated[r.api]) => r.experimental
  /\ r.fields \subseteq Known(v)

Serves(r) == WellFormed(r) /\ Has(ReadAs(r), r.api)

-----------------------------------------------------------------------------
(* The headers.  "headers" says whether EXPERIMENTAL is passed.            *)

\* Headers passed without extra_headers replace the whole set.
Inject(headers, version, extra) ==
  [version |-> IF headers /\ ~extra THEN NoVersion ELSE version,
   experimental |-> headers]

ShareGroupsGraduation == <<2, 55>>
ShareReplicaGraduation == <<2, 56>>
ShareMigrationGraduation == <<2, 96>>

ExtraHeaders(v, graduation) ==
  [headers |-> Lt(v, graduation), extra |-> Lt(v, graduation)]

\* Mutant: the new names are used from 2.6 on.
NameOffByOne(v) == IF Ge(v, <<2, 6>>) THEN "plain" ELSE "os"

\* Mutant: no name is chosen for an old version.
NameUnset(v) == IF Gt(v, <<2, 6>>) THEN "plain" ELSE "none"

\* The os- prefix of actions, URLs and keys went away after 2.6.
Name(v) == IF Gt(v, <<2, 6>>) THEN "plain" ELSE "os"

Request(api, name, fields, header) ==
  [api |-> api, name |-> name, fields |-> fields,
   version |-> header.version, experimental |-> header.experimental]

\* A method that only passes its version on.
Of(api, v) == Request(api, "fixed", {}, Inject(FALSE, v, FALSE))

Plain(v) == Of("core", v)

Experimental(api, v, graduation) ==
  LET e == ExtraHeaders(v, graduation)
  IN  Request(api, "fixed", {}, Inject(e.headers, v, e.extra))

-----------------------------------------------------------------------------
(* The methods.                                                            *)

\* Mutant: the headers are not marked as extra ones.
SharesReplacingHeaders(v, experimental) ==
  Request("core", "fixed", {}, Inject(experimental, v, FALSE))

Shares(v, experimental) ==
  Request("core", "fixed", {}, Inject(experimental, v, experimental))

\* A share group passes its experimental header along.
AdminAction(v, group) ==
  LET headers == group /\ ExtraHeaders(v, ShareGroupsGraduation).headers
  IN  Request(IF group THEN "share_group" ELSE "core", Name(v), {},
              Inject(headers, v, TRUE))

Resize(v, extend) ==
  Request("core", Name(v),
          IF extend /\ Gt(v, <<2, 63>>) THEN {"force"} ELSE {},
          Inject(FALSE, v, FALSE))

ManageShare(v) == Request("core", Name(v), {}, Inject(FALSE, v, FALSE))

\* Mutant: the field is sent only after the version that brought it.
CreateSnapshotLate(v, fields) ==
  Request("core", "fixed", IF Gt(v, <<2, 73>>) THEN fields ELSE {},
          Inject(FALSE, v, FALSE))

CreateSnapshot(v, fields) ==
  Request("core", "fixed", IF Ge(v, <<2, 73>>) THEN fields ELSE {},
          Inject(FALSE, v, FALSE))

\* The optional fields go into post_body['allow_access'] or ['deny_access'],
\* which the body has only under the new name: see AccessRuleCrashes.
AccessRule(v, fields) ==
  Request("core", Name(v), fields, Inject(FALSE, v, TRUE))

AccessRuleCrashes(v, fields) == Name(v) = "os" /\ fields # {}

ListAccessRules(v) ==
  IF Lt(v, <<2, 45>>)
  THEN Request("access_list", Name(v), {}, Inject(FALSE, v, FALSE))
  ELSE Request("access_rules", "fixed", {}, Inject(FALSE, v, FALSE))

\* The gate of list_availability_zones is behind a default that is not None.
AvailabilityZones == Request("core", "plain", {}, Inject(FALSE, Latest, FALSE))

Services(v) == Request("core", Name(v), {}, Inject(FALSE, v, FALSE))

ShareTypes(v) == Request("core", Name(v), {}, Inject(FALSE, v, FALSE))

Quotas(v) == Request("core", Name(v), {}, Inject(FALSE, v, FALSE))

ShareGroups(v) == Experimental("share_group", v, ShareGroupsGraduation)

ShareGroupTypes(v) ==
  Experimental("share_group_type", v, ShareGroupsGraduation)

ShareGroupSnapshots(v) ==
  Experimental("share_group_snapshot", v, ShareGroupsGraduation)

ShareServers(v) == Request("core", "fixed", {}, Inject(FALSE, v, TRUE))

Migration(v) == Experimental("share_migration", v, ShareMigrationGraduation)

Replicas(v) == Experimental("share_replica", v, ShareReplicaGraduation)

CreateReplica(v, fields) ==
  [Replicas(v) EXCEPT !.fields = IF Ge(v, <<2, 95>>) THEN fields ELSE {}]

Backups(v) == Request("share_backup", "fixed", {}, Inject(TRUE, v, TRUE))

\* reset_state_share_backup has a version and does not use it.
ResetBackup(v) == Backups(Latest)

\* get_subnet and delete_subnet have no version of their own.
Subnet == Of("subnet", Latest)

\* create_subnet has one and does not send it: it decides on the metadata only.
CreateSubnet(v, fields) ==
  [Subnet EXCEPT !.fields = IF Ge(v, <<2, 78>>) THEN fields ELSE {}]

SubnetCheck(v) == Request("subnet_check", "fixed", {}, Inject(TRUE, v, TRUE))

ServerMigration(v) ==
  Request("share_server_migration", "fixed", {}, Inject(TRUE, v, TRUE))

ExportLocations(v)    == Of("export_locations", v)
SoftDelete(v)         == Of("soft_delete", v)
Transfers(v)          == Of("transfers", v)
Snapshots(v)          == Plain(v)
ManageSnapshot(v)     == Of("snapshot_manage", v)
Revert(v)             == Of("revert", v)
TypeSpecs(v)          == Plain(v)
SnapshotInstances(v)  == Of("snapshot_instances", v)
SnapshotExports(v)    == Of("snapshot_access", v)
SnapshotRules(v)      == Of("snapshot_access", v)
ShareNetworks(v)      == Plain(v)
Messages(v)           == Of("messages", v)
SecurityServices(v)   == Plain(v)
ResourceLocks(v)      == Of("locks", v)
AccessMetadata(v)     == Of("access_metadata", v)
UpdateAccessRule(v)   == Of("access_level", v)

\* Extra headers without any headers: the version is added to the usual ones.
ResetSnapshotInstance(v) ==
  Request("snapshot_instances", "fixed", {}, Inject(FALSE, v, TRUE))

\* The rules of snapshots are made and deleted at the latest version.
SnapshotRule == SnapshotRules(Latest)

\* One set of methods for all metadata; the resource names the URL.
Metadata(resource, v) ==
  Of(CASE resource = "share"    -> "core"
       [] resource = "snapshot" -> "snapshot_metadata"
       [] resource = "subnet"   -> "subnet_metadata", v)

ShareGroupTypeSpecs(v) ==
  Experimental("share_group_type", v, ShareGroupsGraduation)

ForceDeleteReplica(v) ==
  Experimental("share_replica", v, ShareReplicaGraduation)

\* send_microversion_request goes round the header injection: the version is
\* sent as it is given, and none if none is given.
Discovery(v) ==
  [api |-> "discovery", name |-> "fixed", fields |-> {}, version |-> v,
   experimental |-> FALSE]

-----------------------------------------------------------------------------
(* is_resource_deleted: the first of these keywords that is given decides  *)
(* what is looked up.                                                      *)

Rank ==
  [share_instance_id |-> 1, share_group_id |-> 2,
   share_group_snapshot_id |-> 3, share_group_type_id |-> 4,
   replica_id |-> 5, message_id |-> 6, share_network_subnet_id |-> 7,
   share_id |-> 8, snapshot_id |-> 9, sn_id |-> 10, ss_id |-> 11,
   vt_id |-> 12, st_id |-> 13, server_id |-> 14, backup_id |-> 15]

\* Every keyword by itself, the keywords callers pass together, and none at all
\* (the id is given by position).
KeySets ==
  {{k} : k \in DOMAIN Rank} \cup
  {{}, {"share_network_subnet_id", "sn_id"},
   {"share_id", "rule_id"}, {"share_id", "rule_id", "version"}}

\* Mutant: a subnet is looked up by its share network.
ChosenNetworkFirst(keys) ==
  IF "sn_id" \in keys THEN "sn_id"
  ELSE LET first == CHOOSE k \in keys \cap DOMAIN Rank :
                      \A other \in keys \cap DOMAIN Rank :
                        Rank[k] <= Rank[other]
       IN  IF first = "share_id" /\ "rule_id" \in keys THEN "rule_id" ELSE first

Chosen(keys) ==
  LET first == CHOOSE k \in keys \cap DOMAIN Rank :
                 \A other \in keys \cap DOMAIN Rank : Rank[k] <= Rank[other]
  IN  IF first = "share_id" /\ "rule_id" \in keys THEN "rule_id" ELSE first

\* Mutant: groups, replicas and backups are looked up like any resource.
LookupPlain(key) ==
  CASE key = "rule_id" -> ListAccessRules(Latest)
    [] key = "share_network_subnet_id" -> Subnet
    [] OTHER -> Request(IF key = "backup_id" THEN "share_backup"
                        ELSE IF key = "replica_id" THEN "share_replica"
                        ELSE "core", "fixed", {}, Inject(FALSE, Latest, FALSE))

\* The lookup of a key, at the latest version whatever version is passed.
Lookup(key) ==
  CASE key = "share_group_id" -> ShareGroups(Latest)
    [] key = "share_group_type_id" -> ShareGroupTypes(Latest)
    [] key = "share_group_snapshot_id" -> ShareGroupSnapshots(Latest)
    [] key = "replica_id" -> Replicas(Latest)
    [] key = "backup_id" -> Backups(Latest)
    [] key = "rule_id" -> ListAccessRules(Latest)
    [] key = "share_network_subnet_id" -> Subnet
    [] key = "message_id" -> Messages(Latest)
    [] OTHER -> Plain(Latest)

-----------------------------------------------------------------------------
NoRequest == Request("none", "fixed", {}, Inject(FALSE, NoVersion, FALSE))

NothingAsked == [version |-> Latest, fields |-> {}, keys |-> {}]

Init == pc = "idle" /\ asked = NothingAsked /\ wire = NoRequest /\ answer = "none"

\* The tests of an API are skipped unless Manila has the version that brought
\* it, and name no version before that one.
Send(v, fields, request) ==
  /\ pc = "idle" /\ pc' = "sent"
  /\ Has(v, request.api)
  /\ asked' = [version |-> v, fields |-> fields, keys |-> {}]
  /\ wire' = request
  /\ UNCHANGED answer

\* A method raises before anything is sent.
RaiseBefore(v, fields, exception) ==
  /\ pc = "idle" /\ pc' = "answered"
  /\ asked' = [version |-> v, fields |-> fields, keys |-> {}]
  /\ wire' = NoRequest
  /\ answer' = exception

CallUngated ==
  \E v \in Supported :
    \/ Send(v, {}, Plain(v))
    \/ \E experimental \in BOOLEAN : Send(v, {}, Shares(v, experimental))
    \/ Send(v, {}, ShareServers(v))
    \/ Send(v, {}, Backups(v)) \/ Send(v, {}, ResetBackup(v))
    \/ v = Latest /\ Send(v, {}, Subnet)
    \/ Send(v, {}, SubnetCheck(v)) \/ Send(v, {}, ServerMigration(v))

\* The methods of one version each, of APIs that came later.
Later(v) ==
  {ExportLocations(v), SoftDelete(v), Transfers(v), Snapshots(v),
   ManageSnapshot(v), Revert(v), TypeSpecs(v), SnapshotInstances(v),
   ResetSnapshotInstance(v), SnapshotExports(v), SnapshotRules(v),
   ShareNetworks(v), Messages(v), SecurityServices(v), ResourceLocks(v),
   AccessMetadata(v), UpdateAccessRule(v)}

CallLater ==
  \/ \E v \in Supported : \E r \in Later(v) : Send(v, {}, r)
  \/ \E v \in Supported, resource \in {"share", "snapshot", "subnet"} :
       Send(v, {}, Metadata(resource, v))
  \/ Send(Latest, {}, SnapshotRule)
  \/ \E v \in Supported \cup {NoVersion} : Send(v, {}, Discovery(v))

CallRenamed ==
  \E v \in Supported :
    \/ \E group \in BOOLEAN : Send(v, {}, AdminAction(v, group))
    \/ \E fields \in SUBSET {"force"} : Send(v, fields, Resize(v, TRUE))
    \/ Send(v, {}, Resize(v, FALSE))
    \/ Send(v, {}, ManageShare(v)) \/ Send(v, {}, Services(v))
    \/ Send(v, {}, ShareTypes(v)) \/ Send(v, {}, Quotas(v))
    \/ Send(v, {}, ListAccessRules(v))
    \/ v = Latest /\ Send(v, {}, AvailabilityZones)

AccessFields ==
  {"access_metadata", "lock_visibility", "lock_deletion", "unrestrict"}

CallAccessRule ==
  \E v \in Supported, fields \in SUBSET AccessFields :
    \/ AccessRuleCrashes(v, fields) /\ RaiseBefore(v, fields, "key_error")
    \/ ~AccessRuleCrashes(v, fields) /\ Send(v, fields, AccessRule(v, fields))

CallGraduated ==
  \E v \in Supported :
    \/ Send(v, {}, ShareGroups(v)) \/ Send(v, {}, ShareGroupTypes(v))
    \/ Send(v, {}, ShareGroupSnapshots(v))
    \/ Send(v, {}, ShareGroupTypeSpecs(v)) \/ Send(v, {}, ForceDeleteReplica(v))
    \/ Send(v, {}, Migration(v)) \/ Send(v, {}, Replicas(v))

CallWithMetadata ==
  \E v \in Supported :
    \/ \E fields \in SUBSET {"snapshot_metadata"} :
         Send(v, fields, CreateSnapshot(v, fields))
    \/ \E fields \in SUBSET {"replica_metadata"} :
         Send(v, fields, CreateReplica(v, fields))
    \/ \E fields \in SUBSET {"subnet_metadata"} :
         Send(v, fields, CreateSubnet(v, fields))

\* A subnet is looked up in its share network: kwargs["sn_id"].
Unpaired(keys) == "share_network_subnet_id" \in keys /\ "sn_id" \notin keys

\* Is it deleted?  vt_id calls a method the client does not have.  What is
\* looked up has been made, so Manila has the API that made it.
Probe ==
  /\ pc = "idle"
  /\ \E keys \in KeySets :
       LET key == IF keys = {} THEN "none" ELSE Chosen(keys) IN
       /\ asked' = [NothingAsked EXCEPT !.keys = keys]
       /\ \/ /\ key \notin {"none", "vt_id"} /\ ~Unpaired(keys)
             /\ Has(Latest, Lookup(key).api)
             /\ pc' = "sent" /\ wire' = Lookup(key) /\ UNCHANGED answer
          \/ /\ key = "vt_id"
             /\ pc' = "answered" /\ answer' = "attribute_error"
             /\ wire' = NoRequest
          \/ /\ key = "share_network_subnet_id" /\ Unpaired(keys)
             /\ pc' = "answered" /\ answer' = "key_error"
             /\ wire' = NoRequest
          \/ /\ key = "none"
             /\ pc' = "answered" /\ answer' = "invalid_resource"
             /\ wire' = NoRequest

\* Manila answers.
Answer ==
  /\ pc = "sent" /\ pc' = "answered"
  /\ answer' = IF Serves(wire) THEN "ok" ELSE "refused"
  /\ UNCHANGED <<asked, wire>>

Return ==
  /\ pc = "answered" /\ pc' = "idle"
  /\ asked' = NothingAsked /\ wire' = NoRequest /\ answer' = "none"

Call == CallUngated \/ CallLater \/ CallRenamed \/ CallAccessRule \/ CallGraduated
          \/ CallWithMetadata

Next == Call \/ Probe \/ Answer \/ Return

Spec == Init /\ [][Next]_vars

-----------------------------------------------------------------------------
TypeOK ==
  /\ pc \in {"idle", "sent", "answered"}
  /\ asked.version \in Supported \cup {NoVersion} /\ asked.fields \subseteq Fields
  /\ asked.keys \in KeySets
  /\ wire.name \in {"os", "plain", "fixed"}
  /\ wire.version \in Supported \cup {NoVersion}
  /\ wire.experimental \in BOOLEAN /\ wire.fields \subseteq Fields
  /\ answer \in {"none", "ok", "refused", "key_error", "attribute_error",
                 "invalid_resource"}

\* The parts of a request agree with one another and with its header: no
\* request is refused for its name, its missing experimental header or a field
\* its version does not have.  The optional fields of access rules have no gate
\* in the client: that the version has them is the caller's business.
Understood ==
  /\ pc = "answered" /\ asked.keys = {}
  /\ asked.fields \cap AccessFields \subseteq Known(asked.version)
  => answer \in {"ok", "invalid_resource"}

\* No lookup of is_resource_deleted is refused for its form, however old the
\* latest version is: the waiter would take the NotFound an experimental API
\* answers without its header for the deletion of the resource.
NoFalseDeletion ==
  pc = "answered" /\ asked.keys # {} => answer # "refused"

\* A field the caller asked for is not dropped by a gate that is too strict.
FieldsHonoured ==
  pc = "sent" => asked.fields \cap Known(asked.version) \subseteq wire.fields

\* No request goes out without a version, to be read as one for 2.0.
VersionNeverLost == pc = "sent" => wire.version \in {asked.version, Latest}

\* When the keywords name a resource inside another one and a lookup is sent,
\* it is the inner one that is looked up: a share network outlives its subnet,
\* a share its rule.  A subnet without its network is not looked up at all.
InnermostProbed ==
  wire # NoRequest =>
    /\ ~Unpaired(asked.keys)
    /\ "share_network_subnet_id" \in asked.keys => wire.api = "subnet"
    /\ "rule_id" \in asked.keys => wire.api \in {"access_list", "access_rules"}
=============================================================================
