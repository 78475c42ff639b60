--------------------------- MODULE RequestsProofs ---------------------------
(***************************************************************************)
(* Whatever the versions of the cloud: the parts of every request agree.   *)
(* The invariant says of a request that has been sent what Manila will     *)
(* make of it; each method of the client has a lemma of its own.           *)
(***************************************************************************)
EXTENDS Requests, TLAPS

Contract == asked.fields \cap AccessFields \subseteq Known(asked.version)

Sent ==
  pc = "sent" =>
    /\ Contract => Serves(wire)
    /\ asked.fields \cap Known(asked.version) \subseteq wire.fields
    /\ wire.version \in {asked.version, Latest}

Answered ==
  pc = "answered" =>
    /\ asked.keys = {} /\ Contract => answer \in {"ok", "invalid_resource"}
    /\ asked.keys # {} => answer # "refused"

Lookups == asked.keys # {} => asked.fields = {}

IInv == Sent /\ Answered /\ Lookups

\* What makes a call good: Manila serves its request if its optional access
\* fields are fields of its version, no field is dropped, and the header names
\* the version asked for or the latest one.
Good(v, fields, r) ==
  /\ fields \cap AccessFields \subseteq Known(v) => WellFormed(r)
  /\ fields \cap Known(v) \subseteq r.fields
  /\ r.version \in {v, Latest}

LEMMA VersionFacts ==
  /\ Latest \in Supported
  /\ ~Lt(Latest, <<2, 7>>) /\ Gt(Latest, <<2, 6>>)
  /\ \A v \in Supported :
       /\ v \in Nat \X Nat /\ v # NoVersion
       /\ Ge(v, MinVersion) /\ Ge(MaxVersion, v)
       /\ Gt(v, <<2, 6>>) <=> Ge(v, <<2, 7>>)
       /\ Lt(v, <<2, 7>>) <=> ~Ge(v, <<2, 7>>)
BY RequestsAssumption DEF Supported, Latest, Gt, Ge, Lt, NoVersion

\* A request of the current version under the name of its version is served.
LEMMA NamedServed ==
  ASSUME NEW v \in Supported, NEW e \in BOOLEAN,
         NEW n \in {"fixed", Name(v)}, NEW f \in SUBSET Known(v)
  PROVE  WellFormed([api |-> "core", name |-> n, fields |-> f, version |-> v,
                 experimental |-> e])
BY VersionFacts DEF WellFormed, ReadAs, Name, NeverGraduated, Graduated

\* A request under a fixed name for an API that wants the experimental header
\* until it graduates, formed by get_extra_headers, is served.
LEMMA ExperimentalServed ==
  ASSUME NEW v \in Supported,
         NEW api \in {"share_group", "share_group_type",
                      "share_group_snapshot", "share_replica",
                      "share_migration"},
         NEW f \in SUBSET Known(v)
  PROVE  LET e == ExtraHeaders(v, Graduated[api])
             h == Inject(e.headers, v, e.extra)
         IN  /\ h.version = v
             /\ WellFormed([api |-> api, name |-> "fixed", fields |-> f,
                        version |-> v, experimental |-> h.experimental])
BY VersionFacts DEF ExtraHeaders, Inject, WellFormed, ReadAs, NeverGraduated,
   Graduated

\* An API that never graduated gets its header in every version.
LEMMA NeverGraduatedServed ==
  ASSUME NEW v \in Supported, NEW api \in NeverGraduated
  PROVE  WellFormed([api |-> api, name |-> "fixed", fields |-> {}, version |-> v,
                 experimental |-> TRUE])
BY VersionFacts DEF WellFormed, ReadAs, NeverGraduated, Graduated

UngatedApis ==
  {"core", "export_locations", "soft_delete", "transfers", "snapshot_manage",
   "revert", "snapshot_instances", "snapshot_access", "messages", "locks",
   "access_metadata", "access_level", "snapshot_metadata", "subnet_metadata",
   "subnet"}

LEMMA UngatedServed ==
  ASSUME NEW v \in Supported, NEW api \in UngatedApis
  PROVE  WellFormed([api |-> api, name |-> "fixed", fields |-> {}, version |-> v,
                 experimental |-> FALSE])
BY VersionFacts DEF WellFormed, ReadAs, NeverGraduated, Graduated, UngatedApis

LEMMA UngatedGood ==
  ASSUME NEW v \in Supported, NEW e \in BOOLEAN
  PROVE  /\ Good(v, {}, Plain(v)) /\ Good(v, {}, Shares(v, e))
         /\ Good(v, {}, ShareServers(v)) /\ Good(v, {}, Backups(v))
         /\ Good(v, {}, ResetBackup(v)) /\ Good(v, {}, SubnetCheck(v))
         /\ Good(v, {}, ServerMigration(v)) /\ Good(Latest, {}, Subnet)
         /\ Good(Latest, {}, Of("messages", Latest))
<1>1. \A w \in Supported, x \in BOOLEAN :
        WellFormed([api |-> "core", name |-> "fixed", fields |-> {},
                version |-> w, experimental |-> x])
  BY NamedServed
<1>2. Latest \in Supported
  BY VersionFacts
<1> QED
  BY <1>1, <1>2, NeverGraduatedServed, UngatedServed
  DEF UngatedApis, Of, Good, Plain, Shares, ShareServers, Backups, ResetBackup, SubnetCheck,
      ServerMigration, Subnet, Request, Inject, NeverGraduated

LEMMA LaterGood ==
  ASSUME NEW v \in Supported
  PROVE  /\ \A r \in Later(v) : Good(v, {}, r)
         /\ \A resource \in {"share", "snapshot", "subnet"} :
              Good(v, {}, Metadata(resource, v))
         /\ Good(Latest, {}, SnapshotRule)
<1>1. \A w \in Supported, api \in UngatedApis : Good(w, {}, Of(api, w))
  BY UngatedServed DEF Good, Of, Request, Inject
<1>2. Good(v, {}, ResetSnapshotInstance(v))
  BY UngatedServed
  DEF Good, ResetSnapshotInstance, Request, Inject, UngatedApis
<1>3. \A r \in Later(v) :
        r = ResetSnapshotInstance(v) \/ \E api \in UngatedApis : r = Of(api, v)
  BY DEF Later, ExportLocations, SoftDelete, Transfers, Snapshots,
         ManageSnapshot, Revert, TypeSpecs, SnapshotInstances, SnapshotExports,
         SnapshotRules, ShareNetworks, Messages, SecurityServices,
         ResourceLocks, AccessMetadata, UpdateAccessRule, Plain, UngatedApis
<1>4. \A resource \in {"share", "snapshot", "subnet"} :
        \E api \in UngatedApis : Metadata(resource, v) = Of(api, v)
  BY DEF Metadata, UngatedApis
<1>5. Good(Latest, {}, SnapshotRule)
  BY <1>1, VersionFacts DEF SnapshotRule, SnapshotRules, UngatedApis
<1> QED
  BY <1>1, <1>2, <1>3, <1>4, <1>5

\* Above 2.63 a resize may say force.
LEMMA ResizeFields ==
  ASSUME NEW v \in Supported, NEW extend \in BOOLEAN
  PROVE  Resize(v, extend).fields \subseteq Known(v)
BY VersionFacts
DEF Resize, Request, Known, Fields, Since, Gt, Ge

LEMMA RenamedGood ==
  ASSUME NEW v \in Supported, NEW extend \in BOOLEAN
  PROVE  /\ Good(v, {}, Resize(v, extend))
         /\ Good(v, {"force"}, Resize(v, TRUE))
         /\ Good(v, {}, ManageShare(v)) /\ Good(v, {}, Services(v))
         /\ Good(v, {}, ShareTypes(v)) /\ Good(v, {}, Quotas(v))
         /\ Good(Latest, {}, AvailabilityZones)
<1>1. \A w \in Supported, f \in SUBSET Known(v) :
        w = v => WellFormed([api |-> "core", name |-> Name(w), fields |-> f,
                         version |-> w, experimental |-> FALSE])
  BY NamedServed
<1>2. {} \in SUBSET Known(v)
  OBVIOUS
<1>3. WellFormed(AvailabilityZones)
  <2>1. Name(Latest) = "plain"
    BY VersionFacts DEF Name
  <2>2. WellFormed([api |-> "core", name |-> Name(Latest), fields |-> {},
                version |-> Latest, experimental |-> FALSE])
    BY VersionFacts, NamedServed
  <2> QED
    BY <2>1, <2>2 DEF AvailabilityZones, Request, Inject
<1>4. WellFormed(Resize(v, extend)) /\ WellFormed(Resize(v, TRUE))
  BY <1>1, ResizeFields DEF Resize, Request, Inject
<1>5. {"force"} \cap Known(v) \subseteq Resize(v, TRUE).fields
  BY VersionFacts DEF Resize, Request, Known, Fields, Since, Gt, Ge
<1> QED
  BY <1>1, <1>2, <1>3, <1>4, <1>5
  DEF Good, Resize, ManageShare, Services, ShareTypes, Quotas,
      AvailabilityZones, Request, Inject

LEMMA AdminActionGood ==
  ASSUME NEW v \in Supported, NEW group \in BOOLEAN
  PROVE  Good(v, {}, AdminAction(v, group))
BY VersionFacts
DEF Good, AdminAction, Request, Inject, ExtraHeaders, ShareGroupsGraduation,
    WellFormed, ReadAs, Name, NeverGraduated, Graduated

LEMMA ListAccessRulesGood ==
  ASSUME NEW v \in Supported
  PROVE  Good(v, {}, ListAccessRules(v))
BY VersionFacts
DEF Good, ListAccessRules, Request, Inject, WellFormed, ReadAs, Name, Ge, Lt,
    NeverGraduated, Graduated

LEMMA AccessRuleGood ==
  ASSUME NEW v \in Supported, NEW fields \in SUBSET AccessFields
  PROVE  Good(v, fields, AccessRule(v, fields))
<1>1. SUFFICES ASSUME fields \cap AccessFields \subseteq Known(v)
               PROVE  WellFormed(AccessRule(v, fields))
  BY DEF Good, AccessRule, Request, Inject
<1>2. fields \in SUBSET Known(v)
  BY <1>1
<1> QED
  BY <1>2, NamedServed DEF AccessRule, Request, Inject

\* The old name has none of the optional fields: where the method raises, the
\* caller has asked for a field its version does not have.
LEMMA CrashBeyondVersion ==
  ASSUME NEW v \in Supported, NEW fields \in SUBSET AccessFields,
         AccessRuleCrashes(v, fields)
  PROVE  ~(fields \cap AccessFields \subseteq Known(v))
<1>1. PICK f \in fields : f \in AccessFields
  BY DEF AccessRuleCrashes
<1>2. v \in Nat \X Nat /\ ~Gt(v, <<2, 6>>)
  BY VersionFacts DEF AccessRuleCrashes, Name
<1>3. /\ Since["access_metadata"] = <<2, 45>>
      /\ Since["lock_visibility"] = <<2, 82>>
      /\ Since["lock_deletion"] = <<2, 82>>
      /\ Since["unrestrict"] = <<2, 82>>
  BY DEF Since
<1>4. ~Ge(v, <<2, 45>>) /\ ~Ge(v, <<2, 82>>)
  BY <1>2 DEF Ge, Gt
<1>5. ~Ge(v, Since[f])
  BY <1>1, <1>3, <1>4 DEF AccessFields
<1> QED
  BY <1>1, <1>5 DEF Known

LEMMA GraduatedGood ==
  ASSUME NEW v \in Supported
  PROVE  /\ Good(v, {}, ShareGroups(v)) /\ Good(v, {}, ShareGroupTypes(v))
         /\ Good(v, {}, ShareGroupSnapshots(v)) /\ Good(v, {}, Migration(v))
         /\ Good(v, {}, Replicas(v)) /\ Good(v, {}, ShareGroupTypeSpecs(v))
         /\ Good(v, {}, ForceDeleteReplica(v))
<1>1. {} \in SUBSET Known(v)
  OBVIOUS
<1>2. /\ Graduated["share_group"] = ShareGroupsGraduation
      /\ Graduated["share_group_type"] = ShareGroupsGraduation
      /\ Graduated["share_group_snapshot"] = ShareGroupsGraduation
      /\ Graduated["share_replica"] = ShareReplicaGraduation
      /\ Graduated["share_migration"] = ShareMigrationGraduation
  BY DEF Graduated, ShareGroupsGraduation, ShareReplicaGraduation,
         ShareMigrationGraduation
<1> QED
  BY <1>1, <1>2, ExperimentalServed
  DEF Good, ShareGroups, ShareGroupTypes, ShareGroupSnapshots, Migration,
      Replicas, ShareGroupTypeSpecs, ForceDeleteReplica, Experimental, Request

LEMMA MetadataGood ==
  ASSUME NEW v \in Supported
  PROVE  /\ \A fields \in SUBSET {"snapshot_metadata"} :
              Good(v, fields, CreateSnapshot(v, fields))
         /\ \A fields \in SUBSET {"replica_metadata"} :
              Good(v, fields, CreateReplica(v, fields))
         /\ \A fields \in SUBSET {"subnet_metadata"} :
              Good(v, fields, CreateSubnet(v, fields))
<1>1. ASSUME NEW fields \in SUBSET {"snapshot_metadata"}
      PROVE  Good(v, fields, CreateSnapshot(v, fields))
  BY VersionFacts
  DEF Good, CreateSnapshot, Request, Inject, WellFormed, ReadAs, Known, Fields,
      Since, NeverGraduated, Graduated
<1>2. ASSUME NEW fields \in SUBSET {"replica_metadata"}
      PROVE  Good(v, fields, CreateReplica(v, fields))
  BY VersionFacts
  DEF Good, CreateReplica, Replicas, Experimental, ExtraHeaders,
      ShareReplicaGraduation, Request, Inject, WellFormed, ReadAs, Known, Fields,
      Since, NeverGraduated, Graduated
<1>3. ASSUME NEW fields \in SUBSET {"subnet_metadata"}
      PROVE  Good(v, fields, CreateSubnet(v, fields))
  <2>1. Ge(v, <<2, 78>>) => Ge(Latest, <<2, 78>>)
    BY VersionFacts DEF Ge, Gt, Latest
  <2> QED
    BY <2>1, VersionFacts
    DEF Good, CreateSubnet, Subnet, Of, Request, Inject, WellFormed, ReadAs, Known, Fields,
        Since, NeverGraduated, Graduated
<1> QED
  BY <1>1, <1>2, <1>3

\* Whatever is_resource_deleted looks up is served.
LEMMA LookupGood ==
  ASSUME NEW key
  PROVE  Good(Latest, {}, Lookup(key))
<1>1. Latest \in Supported
  BY VersionFacts
<1> QED
  BY <1>1, UngatedGood, GraduatedGood, ListAccessRulesGood
  DEF Lookup, Messages

-----------------------------------------------------------------------------
\* A request that is well-formed is served once the API is there: the version
\* it is sent with is no older than the one its caller named.
LEMMA GoodServed ==
  ASSUME NEW v \in Supported, NEW fields, NEW r, Good(v, fields, r),
         Has(v, r.api), fields \cap AccessFields \subseteq Known(v)
  PROVE  Serves(r)
<1>1. WellFormed(r) /\ r.version \in {v, Latest} /\ r.version # NoVersion
  BY VersionFacts DEF Good
<1>2. ReadAs(r) = r.version
  BY <1>1 DEF ReadAs
<1>3. ASSUME r.api \in DOMAIN Brought PROVE Ge(r.version, Brought[r.api])
  <2>1. Brought[r.api] \in Nat \X Nat
    BY <1>3 DEF Brought
  <2>2. Ge(v, Brought[r.api])
    BY <1>3 DEF Has
  <2>3. /\ v \in Nat \X Nat /\ Latest \in Nat \X Nat /\ Ge(Latest, v)
    BY VersionFacts DEF Latest
  <2>4. Ge(Latest, Brought[r.api])
    BY <2>1, <2>2, <2>3 DEF Ge, Gt
  <2> QED
    BY <1>1, <2>2, <2>4
<1> QED
  BY <1>1, <1>2, <1>3 DEF Serves, Has

LEMMA InitIInv == Init => IInv
BY DEF Init, NothingAsked, IInv, Sent, Answered, Lookups

\* A good call keeps the invariant.
LEMMA SendKeeps ==
  ASSUME IInv, NEW v \in Supported, NEW fields, NEW r, Good(v, fields, r),
         Send(v, fields, r)
  PROVE  IInv'
<1>1. /\ pc' = "sent" /\ wire' = r /\ Has(v, r.api)
      /\ asked' = [version |-> v, fields |-> fields, keys |-> {}]
  BY DEF Send
<1>2. /\ asked'.version = v /\ asked'.fields = fields /\ asked'.keys = {}
  BY <1>1
<1> QED
  BY <1>1, <1>2, GoodServed DEF IInv, Sent, Answered, Lookups, Good, Contract

\* So does a request to discover the versions, which may name none.
LEMMA DiscoveryKeeps ==
  ASSUME IInv, NEW v, Send(v, {}, Discovery(v))
  PROVE  IInv'
<1>1. /\ pc' = "sent" /\ wire' = Discovery(v)
      /\ asked' = [version |-> v, fields |-> {}, keys |-> {}]
  BY DEF Send
<1>2. Serves(Discovery(v))
  BY DEF Discovery, Serves, WellFormed, Has, Brought, NeverGraduated,
         Graduated
<1>3. wire'.version = v
  BY <1>1 DEF Discovery
<1> QED
  BY <1>1, <1>2, <1>3 DEF IInv, Sent, Answered, Lookups, Contract

LEMMA CallKeeps == ASSUME IInv, Call PROVE IInv'
<1>1. CASE CallUngated
  <2>1. PICK v \in Supported :
          \/ Send(v, {}, Plain(v))
          \/ \E e \in BOOLEAN : Send(v, {}, Shares(v, e))
          \/ Send(v, {}, ShareServers(v))
          \/ Send(v, {}, Backups(v)) \/ Send(v, {}, ResetBackup(v))
          \/ v = Latest /\ Send(v, {}, Subnet)
          \/ Send(v, {}, SubnetCheck(v)) \/ Send(v, {}, ServerMigration(v))
    BY <1>1 DEF CallUngated
  <2> QED
    BY <2>1, UngatedGood, SendKeeps
<1>0. CASE CallLater
  <2>1. Latest \in Supported
    BY VersionFacts
  <2> QED
    BY <1>0, <2>1, LaterGood, SendKeeps, DiscoveryKeeps DEF CallLater
<1>2. CASE CallRenamed
  <2>1. PICK v \in Supported :
          \/ \E group \in BOOLEAN : Send(v, {}, AdminAction(v, group))
          \/ \E fields \in SUBSET {"force"} :
               Send(v, fields, Resize(v, TRUE))
          \/ Send(v, {}, Resize(v, FALSE))
          \/ Send(v, {}, ManageShare(v)) \/ Send(v, {}, Services(v))
          \/ Send(v, {}, ShareTypes(v)) \/ Send(v, {}, Quotas(v))
          \/ Send(v, {}, ListAccessRules(v))
          \/ v = Latest /\ Send(v, {}, AvailabilityZones)
    BY <1>2 DEF CallRenamed
  <2>2. \A fields \in SUBSET {"force"} : fields = {} \/ fields = {"force"}
    OBVIOUS
  <2>3. Good(v, {}, Resize(v, TRUE)) /\ Good(v, {}, Resize(v, FALSE))
    BY RenamedGood
  <2>4. CASE \E group \in BOOLEAN : Send(v, {}, AdminAction(v, group))
    BY <2>4, AdminActionGood, SendKeeps
  <2>5. CASE \E fields \in SUBSET {"force"} : Send(v, fields, Resize(v, TRUE))
    <3>1. \/ Send(v, {}, Resize(v, TRUE))
          \/ Send(v, {"force"}, Resize(v, TRUE))
      BY <2>2, <2>5
    <3>2. Good(v, {"force"}, Resize(v, TRUE))
      BY RenamedGood
    <3> QED
      BY <2>3, <3>1, <3>2, SendKeeps
  <2>6. CASE \/ Send(v, {}, Resize(v, FALSE))
             \/ Send(v, {}, ManageShare(v)) \/ Send(v, {}, Services(v))
             \/ Send(v, {}, ShareTypes(v)) \/ Send(v, {}, Quotas(v))
             \/ Send(v, {}, ListAccessRules(v))
             \/ v = Latest /\ Send(v, {}, AvailabilityZones)
    BY <2>3, <2>6, RenamedGood, ListAccessRulesGood, SendKeeps
  <2> QED
    BY <2>1, <2>4, <2>5, <2>6
<1>3. CASE CallAccessRule
  <2>1. PICK v \in Supported, fields \in SUBSET AccessFields :
          \/ AccessRuleCrashes(v, fields) /\ RaiseBefore(v, fields, "key_error")
          \/ Send(v, fields, AccessRule(v, fields))
    BY <1>3 DEF CallAccessRule
  <2>2. CASE AccessRuleCrashes(v, fields) /\ RaiseBefore(v, fields, "key_error")
    <3>1. /\ pc' = "answered" /\ asked'.version = v /\ asked'.fields = fields
          /\ asked'.keys = {}
      BY <2>2 DEF RaiseBefore
    <3>2. ~Contract'
      BY <2>2, <3>1, CrashBeyondVersion DEF Contract
    <3> QED
      BY <3>1, <3>2 DEF IInv, Sent, Answered, Lookups
  <2> QED
    BY <2>1, <2>2, AccessRuleGood, SendKeeps
<1>4. CASE CallGraduated
  BY <1>4, GraduatedGood, SendKeeps DEF CallGraduated
<1>5. CASE CallWithMetadata
  BY <1>5, MetadataGood, SendKeeps DEF CallWithMetadata
<1> QED
  BY <1>0, <1>1, <1>2, <1>3, <1>4, <1>5 DEF Call

LEMMA ProbeKeeps == ASSUME IInv, Probe PROVE IInv'
<1>1. PICK keys \in KeySets :
        LET key == IF keys = {} THEN "none" ELSE Chosen(keys) IN
        /\ asked' = [NothingAsked EXCEPT !.keys = keys]
        /\ \/ /\ key \notin {"none", "vt_id"} /\ ~Unpaired(keys)
              /\ Has(Latest, Lookup(key).api)
              /\ pc' = "sent" /\ wire' = Lookup(key) /\ UNCHANGED answer
           \/ /\ key = "vt_id"
              /\ pc' = "answered" /\ answer' = "attribute_error"
              /\ wire' = NoRequest
           \/ /\ key = "share_network_subnet_id" /\ Unpaired(keys)
              /\ pc' = "answered" /\ answer' = "key_error"
              /\ wire' = NoRequest
           \/ /\ key = "none"
              /\ pc' = "answered" /\ answer' = "invalid_resource"
              /\ wire' = NoRequest
  BY DEF Probe
<1>2. /\ asked'.version = Latest /\ asked'.fields = {} /\ asked'.keys = keys
  BY <1>1 DEF NothingAsked
<1>3. ASSUME pc' = "sent"
      PROVE  \E key : wire' = Lookup(key) /\ Has(Latest, Lookup(key).api)
  BY <1>1, <1>3
<1>4. Sent'
  <2> SUFFICES ASSUME pc' = "sent" PROVE Sent'
    BY DEF Sent
  <2>1. PICK key : wire' = Lookup(key) /\ Has(Latest, Lookup(key).api)
    BY <1>3
  <2>2. Serves(wire') /\ wire'.version \in {Latest}
    BY <2>1, LookupGood, GoodServed, VersionFacts DEF Good
  <2> QED
    BY <1>2, <2>2 DEF Sent
<1>5. pc' = "answered" =>
        \/ answer' = "invalid_resource"
        \/ answer' \in {"attribute_error", "key_error"} /\ keys # {}
  <2> DEFINE key == IF keys = {} THEN "none" ELSE Chosen(keys)
  <2>1. \/ key \notin {"none", "vt_id"} /\ pc' = "sent"
        \/ key = "vt_id" /\ answer' = "attribute_error"
        \/ key = "share_network_subnet_id" /\ answer' = "key_error"
        \/ answer' = "invalid_resource"
    BY <1>1
  <2>2. keys = {} => key \notin {"vt_id", "share_network_subnet_id"}
    OBVIOUS
  <2> QED
    BY <2>1, <2>2
<1>6. Answered' /\ Lookups'
  BY <1>2, <1>5 DEF Answered, Lookups
<1> QED
  BY <1>4, <1>6 DEF IInv

LEMMA StepIInv == IInv /\ [Next]_vars => IInv'
<1> SUFFICES ASSUME IInv, [Next]_vars PROVE IInv'
  OBVIOUS
<1>1. CASE Call
  BY <1>1, CallKeeps
<1>2. CASE Probe
  BY <1>2, ProbeKeeps
<1>3. CASE Answer
  BY <1>3 DEF Answer, IInv, Sent, Answered, Lookups, Contract
<1>4. CASE Return
  BY <1>4 DEF Return, NothingAsked, IInv, Sent, Answered, Lookups
<1>5. CASE UNCHANGED vars
  BY <1>5 DEF vars, IInv, Sent, Answered, Lookups, Contract
<1> QED
  BY <1>1, <1>2, <1>3, <1>4, <1>5 DEF Next

\* The parts of every request agree, and lookups are never refused for their
\* form: for every range of versions a cloud may have.
THEOREM Inductive == Spec => []IInv
BY InitIInv, StepIInv, PTL DEF Spec

\* No request is refused for its name, its headers or its fields.
THEOREM AlwaysUnderstood == Spec => []Understood
<1>1. IInv => Understood
  BY DEF IInv, Answered, Contract, Understood
<1> QED
  BY <1>1, Inductive, PTL

\* No lookup is refused, to be taken for a deletion.
THEOREM NeverFalselyDeleted == Spec => []NoFalseDeletion
<1>1. IInv => NoFalseDeletion
  BY DEF IInv, Answered, NoFalseDeletion
<1> QED
  BY <1>1, Inductive, PTL

\* No gate drops a field its version has.
THEOREM AlwaysHonoured == Spec => []FieldsHonoured
<1>1. IInv => FieldsHonoured
  BY DEF IInv, Sent, FieldsHonoured
<1> QED
  BY <1>1, Inductive, PTL

\* No request goes out without a version.
THEOREM VersionKept == Spec => []VersionNeverLost
<1>1. IInv => VersionNeverLost
  BY DEF IInv, Sent, VersionNeverLost
<1> QED
  BY <1>1, Inductive, PTL

-----------------------------------------------------------------------------
(* Types, and what is looked up.                                           *)

Typed(r) ==
  /\ r.name \in {"os", "plain", "fixed"}
  /\ r.version \in Supported \cup {NoVersion}
  /\ r.experimental \in BOOLEAN /\ r.fields \subseteq Fields

LEMMA RequestTyped ==
  ASSUME NEW api, NEW name \in {"os", "plain", "fixed"},
         NEW fields \in SUBSET Fields, NEW headers \in BOOLEAN,
         NEW v \in Supported, NEW extra \in BOOLEAN
  PROVE  /\ Typed(Request(api, name, fields, Inject(headers, v, extra)))
         /\ Request(api, name, fields, Inject(headers, v, extra)).api = api
BY DEF Typed, Request, Inject

LEMMA NameTyped ==
  ASSUME NEW v
  PROVE  Name(v) \in {"os", "plain", "fixed"}
BY DEF Name

LEMMA ExperimentalTyped ==
  ASSUME NEW api, NEW v \in Supported, NEW graduation
  PROVE  Typed(Experimental(api, v, graduation))
BY RequestTyped DEF Experimental, ExtraHeaders, Lt, Gt

LEMMA OfTyped ==
  ASSUME NEW api, NEW v \in Supported
  PROVE  Typed(Of(api, v)) /\ Of(api, v).api = api
BY RequestTyped DEF Of

LEMMA MethodsTyped ==
  ASSUME NEW v \in Supported
  PROVE  /\ \A e \in BOOLEAN : Typed(Shares(v, e)) /\ Typed(AdminAction(v, e))
         /\ \A e \in BOOLEAN : Typed(Resize(v, e))
         /\ Typed(Plain(v)) /\ Typed(ShareServers(v)) /\ Typed(Backups(v))
         /\ Typed(ResetBackup(v)) /\ Typed(Subnet) /\ Typed(SubnetCheck(v))
         /\ Typed(ServerMigration(v)) /\ Typed(ManageShare(v))
         /\ Typed(Services(v)) /\ Typed(ShareTypes(v)) /\ Typed(Quotas(v))
         /\ Typed(ListAccessRules(v)) /\ Typed(AvailabilityZones)
         /\ \A r \in Later(v) : Typed(r)
         /\ \A x \in {"share", "snapshot", "subnet"} : Typed(Metadata(x, v))
         /\ Typed(SnapshotRule)
<1>1. Latest \in Supported
  BY VersionFacts
<1>2. /\ Typed(Plain(v)) /\ Typed(Subnet) /\ Typed(SnapshotRule)
      /\ \A x \in {"share", "snapshot", "subnet"} : Typed(Metadata(x, v))
  BY <1>1, OfTyped DEF Plain, Subnet, SnapshotRule, SnapshotRules, Metadata
<1>3. /\ Typed(ShareServers(v)) /\ Typed(Backups(v)) /\ Typed(ResetBackup(v))
      /\ Typed(SubnetCheck(v)) /\ Typed(ServerMigration(v))
  BY <1>1, RequestTyped
  DEF ShareServers, Backups, ResetBackup, SubnetCheck, ServerMigration
<1>4. /\ Typed(ManageShare(v)) /\ Typed(Services(v)) /\ Typed(ShareTypes(v))
      /\ Typed(Quotas(v)) /\ Typed(AvailabilityZones)
      /\ Typed(ListAccessRules(v))
  BY <1>1, RequestTyped, NameTyped
  DEF ManageShare, Services, ShareTypes, Quotas, AvailabilityZones,
      ListAccessRules
<1>5. ASSUME NEW e \in BOOLEAN
      PROVE  Typed(Shares(v, e)) /\ Typed(AdminAction(v, e)) /\ Typed(Resize(v, e))
  <2>1. Typed(Shares(v, e))
    BY RequestTyped DEF Shares
  <2>2. Typed(AdminAction(v, e))
    BY NameTyped
    DEF AdminAction, ExtraHeaders, Lt, Gt, Typed, Request, Inject
  <2>3. Typed(Resize(v, e))
    BY NameTyped DEF Resize, Fields, Since, Typed, Request, Inject
  <2> QED
    BY <2>1, <2>2, <2>3
<1>6. ASSUME NEW r \in Later(v) PROVE Typed(r)
  <2>1. r = ResetSnapshotInstance(v) \/ \E api \in UngatedApis : r = Of(api, v)
    BY <1>6 DEF Later, ExportLocations, SoftDelete, Transfers, Snapshots,
         ManageSnapshot, Revert, TypeSpecs, SnapshotInstances, SnapshotExports,
         SnapshotRules, ShareNetworks, Messages, SecurityServices,
         ResourceLocks, AccessMetadata, UpdateAccessRule, Plain, UngatedApis
  <2>2. Typed(ResetSnapshotInstance(v))
    BY RequestTyped DEF ResetSnapshotInstance
  <2> QED
    BY <2>1, <2>2, OfTyped
<1> QED
  BY <1>2, <1>3, <1>4, <1>5, <1>6

LEMMA GraduatedTyped ==
  ASSUME NEW v \in Supported
  PROVE  /\ Typed(ShareGroups(v)) /\ Typed(ShareGroupTypes(v))
         /\ Typed(ShareGroupSnapshots(v)) /\ Typed(ShareGroupTypeSpecs(v))
         /\ Typed(ForceDeleteReplica(v)) /\ Typed(Migration(v))
         /\ Typed(Replicas(v))
BY ExperimentalTyped
DEF ShareGroups, ShareGroupTypes, ShareGroupSnapshots, ShareGroupTypeSpecs,
    ForceDeleteReplica, Migration, Replicas

LEMMA FieldsTyped ==
  ASSUME NEW v \in Supported
  PROVE  /\ \A fields \in SUBSET AccessFields : Typed(AccessRule(v, fields))
         /\ \A fields \in SUBSET {"snapshot_metadata"} :
              Typed(CreateSnapshot(v, fields))
         /\ \A fields \in SUBSET {"replica_metadata"} :
              Typed(CreateReplica(v, fields))
         /\ \A fields \in SUBSET {"subnet_metadata"} :
              Typed(CreateSubnet(v, fields))
<1>1. /\ AccessFields \subseteq Fields /\ "snapshot_metadata" \in Fields
      /\ "replica_metadata" \in Fields /\ "subnet_metadata" \in Fields
  BY DEF AccessFields, Fields, Since
<1>2. ASSUME NEW fields \in SUBSET AccessFields
      PROVE  Typed(AccessRule(v, fields))
  BY <1>1, RequestTyped, NameTyped DEF AccessRule
<1>3. ASSUME NEW fields \in SUBSET {"snapshot_metadata"}
      PROVE  Typed(CreateSnapshot(v, fields))
  BY <1>1 DEF CreateSnapshot, Typed, Request, Inject
<1>4. ASSUME NEW fields \in SUBSET {"replica_metadata"}
      PROVE  Typed(CreateReplica(v, fields))
  <2>1. Typed(Replicas(v))
    BY GraduatedTyped
  <2> QED
    BY <1>1, <2>1
    DEF CreateReplica, Replicas, Experimental, Request, Typed
<1>5. ASSUME NEW fields \in SUBSET {"subnet_metadata"}
      PROVE  Typed(CreateSubnet(v, fields))
  <2>1. Typed(Subnet)
    BY MethodsTyped
  <2> QED
    BY <1>1, <2>1 DEF CreateSubnet, Subnet, Of, Request, Typed
<1> QED
  BY <1>2, <1>3, <1>4, <1>5

\* A lookup is typed, and reaches the resource that is named.
LEMMA LookupTyped ==
  ASSUME NEW key
  PROVE  /\ Typed(Lookup(key))
         /\ key = "share_network_subnet_id" => Lookup(key).api = "subnet"
         /\ key = "rule_id" => Lookup(key).api \in {"access_list", "access_rules"}
<1>1. Latest \in Supported
  BY VersionFacts
<1>2. Typed(Lookup(key))
  BY <1>1, GraduatedTyped, MethodsTyped, OfTyped DEF Lookup, Messages
<1>3. key = "share_network_subnet_id" => Lookup(key).api = "subnet"
  BY DEF Lookup, Subnet, Of, Request
<1>4. key = "rule_id" => Lookup(key).api \in {"access_list", "access_rules"}
  BY DEF Lookup, ListAccessRules, Request
<1> QED
  BY <1>2, <1>3, <1>4

\* Of the keywords of callers, the one that names the inner resource is chosen.
LEMMA InnermostChosen ==
  ASSUME NEW keys \in KeySets
  PROVE  /\ "share_network_subnet_id" \in keys
              => Chosen(keys) = "share_network_subnet_id"
         /\ "rule_id" \in keys => Chosen(keys) = "rule_id"
<1> DEFINE P(k) == /\ k \in keys \cap DOMAIN Rank
                   /\ \A other \in keys \cap DOMAIN Rank : Rank[k] <= Rank[other]
<1>1. ASSUME "share_network_subnet_id" \in keys
      PROVE  Chosen(keys) = "share_network_subnet_id"
  <2>1. keys \in {{"share_network_subnet_id"}, {"share_network_subnet_id", "sn_id"}}
    BY <1>1 DEF KeySets
  <2>2. /\ "share_network_subnet_id" \in DOMAIN Rank /\ "sn_id" \in DOMAIN Rank
        /\ Rank["share_network_subnet_id"] = 7 /\ Rank["sn_id"] = 10
    BY DEF Rank
  <2>3. P("share_network_subnet_id") /\ \A k : P(k) => k = "share_network_subnet_id"
    BY <2>1, <2>2
  <2> QED
    BY <2>3 DEF Chosen
<1>2. ASSUME "rule_id" \in keys PROVE Chosen(keys) = "rule_id"
  <2>1. keys \in {{"share_id", "rule_id"}, {"share_id", "rule_id", "version"}}
    BY <1>2 DEF KeySets, Rank
  <2>2. /\ "share_id" \in DOMAIN Rank
        /\ "rule_id" \notin DOMAIN Rank /\ "version" \notin DOMAIN Rank
        /\ Rank["share_id"] = 8
    BY DEF Rank
  <2>3. P("share_id") /\ \A k : P(k) => k = "share_id"
    BY <2>1, <2>2
  <2> QED
    BY <1>2, <2>3 DEF Chosen
<1> QED
  BY <1>1, <1>2

LEMMA SendTyped ==
  ASSUME TypeOK, NEW v \in Supported \cup {NoVersion}, NEW fields \in SUBSET Fields,
         NEW r, Typed(r), Send(v, fields, r)
  PROVE  TypeOK' /\ InnermostProbed'
<1>1. /\ pc' = "sent" /\ wire' = r /\ UNCHANGED answer
      /\ asked' = [version |-> v, fields |-> fields, keys |-> {}]
  BY DEF Send
<1>2. {} \in KeySets
  BY DEF KeySets
<1> QED
  BY <1>1, <1>2 DEF TypeOK, Typed, Unpaired, InnermostProbed

LEMMA CallTyped == ASSUME TypeOK, Call PROVE TypeOK' /\ InnermostProbed'
<1>0. {} \in SUBSET Fields /\ Latest \in Supported
  BY VersionFacts
<1>1. CASE CallUngated
  <2>1. PICK v \in Supported :
          \/ Send(v, {}, Plain(v))
          \/ \E e \in BOOLEAN : Send(v, {}, Shares(v, e))
          \/ Send(v, {}, ShareServers(v))
          \/ Send(v, {}, Backups(v)) \/ Send(v, {}, ResetBackup(v))
          \/ v = Latest /\ Send(v, {}, Subnet)
          \/ Send(v, {}, SubnetCheck(v)) \/ Send(v, {}, ServerMigration(v))
    BY <1>1 DEF CallUngated
  <2> QED
    BY <1>0, <2>1, MethodsTyped, SendTyped
<1>2. CASE CallLater
  <2>1. CASE \E v \in Supported : \E r \in Later(v) : Send(v, {}, r)
    BY <1>0, <2>1, MethodsTyped, SendTyped
  <2>2. CASE \E v \in Supported, resource \in {"share", "snapshot", "subnet"} :
               Send(v, {}, Metadata(resource, v))
    BY <1>0, <2>2, MethodsTyped, SendTyped
  <2>3. CASE Send(Latest, {}, SnapshotRule)
    BY <1>0, <2>3, MethodsTyped, SendTyped
  <2>4. CASE \E v \in Supported \cup {NoVersion} : Send(v, {}, Discovery(v))
    <3>1. \A v \in Supported \cup {NoVersion} : Typed(Discovery(v))
      BY DEF Typed, Discovery
    <3> QED
      BY <1>0, <2>4, <3>1, SendTyped
  <2> QED
    BY <1>2, <2>1, <2>2, <2>3, <2>4 DEF CallLater
<1>3. CASE CallRenamed
  <2>1. PICK v \in Supported :
          \/ \E group \in BOOLEAN : Send(v, {}, AdminAction(v, group))
          \/ \E fields \in SUBSET {"force"} : Send(v, fields, Resize(v, TRUE))
          \/ Send(v, {}, Resize(v, FALSE))
          \/ Send(v, {}, ManageShare(v)) \/ Send(v, {}, Services(v))
          \/ Send(v, {}, ShareTypes(v)) \/ Send(v, {}, Quotas(v))
          \/ Send(v, {}, ListAccessRules(v))
          \/ v = Latest /\ Send(v, {}, AvailabilityZones)
    BY <1>3 DEF CallRenamed
  <2>2. SUBSET {"force"} \subseteq SUBSET Fields
    BY DEF Fields, Since
  <2> QED
    BY <1>0, <2>1, <2>2, MethodsTyped, SendTyped
<1>4. CASE CallAccessRule
  <2>1. PICK v \in Supported, fields \in SUBSET AccessFields :
          \/ RaiseBefore(v, fields, "key_error")
          \/ Send(v, fields, AccessRule(v, fields))
    BY <1>4 DEF CallAccessRule
  <2>2. fields \in SUBSET Fields
    BY DEF AccessFields, Fields, Since
  <2>3. CASE RaiseBefore(v, fields, "key_error")
    <3>1. /\ pc' = "answered" /\ asked'.version = v /\ asked'.fields = fields
          /\ asked'.keys = {} /\ wire' = NoRequest /\ answer' = "key_error"
      BY <2>3 DEF RaiseBefore
    <3>2. {} \in KeySets
      BY DEF KeySets
    <3>3. Typed(NoRequest)
      BY DEF NoRequest, Typed, Request, Inject
    <3> QED
      BY <2>2, <3>1, <3>2, <3>3 DEF TypeOK, Typed, InnermostProbed
  <2> QED
    BY <2>1, <2>2, <2>3, FieldsTyped, SendTyped
<1>5. CASE CallGraduated
  BY <1>0, <1>5, GraduatedTyped, SendTyped DEF CallGraduated
<1>6. CASE CallWithMetadata
  <2>1. /\ SUBSET {"snapshot_metadata"} \subseteq SUBSET Fields
        /\ SUBSET {"replica_metadata"} \subseteq SUBSET Fields
        /\ SUBSET {"subnet_metadata"} \subseteq SUBSET Fields
    BY DEF Fields, Since
  <2> QED
    BY <1>6, <2>1, FieldsTyped, SendTyped DEF CallWithMetadata
<1> QED
  BY <1>1, <1>2, <1>3, <1>4, <1>5, <1>6 DEF Call

LEMMA ProbeTyped == ASSUME TypeOK, Probe PROVE TypeOK' /\ InnermostProbed'
<1>1. PICK keys \in KeySets :
        LET key == IF keys = {} THEN "none" ELSE Chosen(keys) IN
        /\ asked' = [NothingAsked EXCEPT !.keys = keys]
        /\ \/ /\ key \notin {"none", "vt_id"} /\ ~Unpaired(keys)
              /\ Has(Latest, Lookup(key).api)
              /\ pc' = "sent" /\ wire' = Lookup(key) /\ UNCHANGED answer
           \/ /\ key = "vt_id"
              /\ pc' = "answered" /\ answer' = "attribute_error"
              /\ wire' = NoRequest
           \/ /\ key = "share_network_subnet_id" /\ Unpaired(keys)
              /\ pc' = "answered" /\ answer' = "key_error"
              /\ wire' = NoRequest
           \/ /\ key = "none"
              /\ pc' = "answered" /\ answer' = "invalid_resource"
              /\ wire' = NoRequest
  BY DEF Probe
<1> DEFINE key == IF keys = {} THEN "none" ELSE Chosen(keys)
<1>2. /\ asked'.version = Latest /\ asked'.fields = {} /\ asked'.keys = keys
      /\ Latest \in Supported
  BY <1>1, VersionFacts DEF NothingAsked
<1>3. Typed(NoRequest)
  BY DEF NoRequest, Typed, Request, Inject
<1>4. /\ "share_network_subnet_id" \in keys => key = "share_network_subnet_id"
      /\ "rule_id" \in keys => key = "rule_id"
  BY InnermostChosen
<1>5. CASE key \notin {"none", "vt_id"} /\ ~Unpaired(keys) /\ pc' = "sent" /\ wire' = Lookup(key)
           /\ UNCHANGED answer
  <2> HIDE DEF key
  <2> QED
    BY <1>2, <1>4, <1>5, LookupTyped DEF TypeOK, Typed, InnermostProbed
<1>6. CASE /\ pc' = "answered" /\ wire' = NoRequest
           /\ answer' \in {"attribute_error", "key_error", "invalid_resource"}
  <2> HIDE DEF key
  <2> QED
    BY <1>2, <1>3, <1>4, <1>6 DEF TypeOK, Typed, InnermostProbed
<1> QED
  BY <1>1, <1>5, <1>6

LEMMA StepTyped ==
  TypeOK /\ InnermostProbed /\ [Next]_vars => TypeOK' /\ InnermostProbed'
<1> SUFFICES ASSUME TypeOK, InnermostProbed, [Next]_vars
             PROVE  TypeOK' /\ InnermostProbed'
  OBVIOUS
<1>1. CASE Answer
  BY <1>1 DEF Answer, TypeOK, InnermostProbed
<1>2. CASE Return
  <2>1. /\ {} \in KeySets /\ Latest \in Supported
        /\ Typed(NoRequest)
    BY VersionFacts DEF KeySets, NoRequest, Typed, Request, Inject
  <2> QED
    BY <1>2, <2>1 DEF Return, NothingAsked, TypeOK, Typed, InnermostProbed
<1>3. CASE UNCHANGED vars
  BY <1>3 DEF vars, TypeOK, InnermostProbed
<1> QED
  BY <1>1, <1>2, <1>3, CallTyped, ProbeTyped DEF Next

LEMMA InitTyped == Init => TypeOK /\ InnermostProbed
<1>1. /\ {} \in KeySets /\ Latest \in Supported
      /\ Typed(NoRequest)
  BY VersionFacts DEF KeySets, NoRequest, Typed, Request, Inject
<1> QED
  BY <1>1 DEF Init, NothingAsked, TypeOK, Typed, InnermostProbed

\* What is asked for and what is sent keep their types.
THEOREM TypeCorrect == Spec => []TypeOK
BY InitTyped, StepTyped, PTL DEF Spec

\* When the keywords name a resource inside another one, the lookup that is sent
\* is of the inner one, and a subnet is looked up with its network or not at all.
THEOREM AlwaysInnermost == Spec => []InnermostProbed
BY InitTyped, StepTyped, PTL DEF Spec

=============================================================================
