----------------------- MODULE SnapshotClone_proofs ------------------------
(***************************************************************************)
(* Theorems about SnapshotClone: its types, the reference count, and that  *)
(* the store keeps the promise of SharedDisks as long as nobody deletes    *)
(* with --force, that consistent captures are quiet, that clones find a    *)
(* captured disk read-only, and that a build counts what it linked, for    *)
(* any number of lanes, entities and snapshots.                            *)
(***************************************************************************)
EXTENDS SnapshotClone, FiniteSetTheorems, TLAPS

LaneType == [at : InBuild \cup {"idle", "built", "up"}, e : Entities \cup {NoEntity},
             tag : Tags \cup {NoTag}, counted : Tags \cup {NoTag}, linked : BOOLEAN]
OpType == [at : OpAt, tag : Tags \cup {NoTag}, quiesce : BOOLEAN, strict : BOOLEAN,
           quiet : BOOLEAN, by : Origins]
EntryType == [kind : Kinds, refs : Nat, sound : BOOLEAN, by : Origins]

LEMMA Constants ==
    /\ Idle \in OpType /\ AtHome \in LaneType /\ NoEntry \in EntryType
BY DEF Idle, OpType, OpAt, Origins, AtHome, LaneType, InBuild, NoEntry, EntryType, Kinds

LEMMA InitType == Init => TypeOK
BY Constants, CloneAssumption DEF Init, TypeOK, OpType, LaneType, EntryType

----------------------------------------------------------------------------
(* Types, one lemma per helper and one step per action.                    *)

LEMMA GoType ==
    ASSUME TypeOK, NEW l \in Lanes, NEW at \in InBuild \cup {"idle", "built", "up"}, Go(l, at)
    PROVE  lane' \in [Lanes -> LaneType]
<1>1. lane \in [Lanes -> LaneType]
  BY DEF TypeOK, LaneType
<1>2. [lane[l] EXCEPT !.at = at] \in LaneType
  BY <1>1 DEF LaneType
<1> QED BY <1>1, <1>2 DEF Go

LEMMA FailsType ==
    ASSUME TypeOK, NEW l \in Lanes, BuildFails(l)
    PROVE  lane' \in [Lanes -> LaneType]
<1>1. lane \in [Lanes -> LaneType]
  BY DEF TypeOK, LaneType
<1> QED BY <1>1, Constants DEF BuildFails

LEMMA CapturedType ==
    ASSUME TypeOK, op.tag \in Tags,
           NEW q \in BOOLEAN, NEW at \in OpAt, NEW by \in Origins, Captured(q, at, by)
    PROVE  /\ captures' \in 0..MaxCaptures /\ store' \subseteq Tags
           /\ mode' \in [Tags -> {"ro", "rw"}] /\ moved' \subseteq Tags
           /\ newer' \subseteq Entities /\ active' \in Tags \cup {NoTag}
           /\ op' \in OpType
<1> USE DEF TypeOK, Captured
<1>1. captures' \in 0..MaxCaptures
  BY CloneAssumption
<1>2. newer' \subseteq Entities
  BY DEF OnTag
<1>3. op' \in OpType
  BY DEF OpType
<1> QED BY <1>1, <1>2, <1>3

LEMMA PromotedType ==
    ASSUME TypeOK, NEW t \in Tags, Promoted(t)
    PROVE  /\ captures' \in 0..MaxCaptures /\ store' \subseteq Tags
           /\ mode' \in [Tags -> {"ro", "rw"}] /\ moved' \subseteq Tags
           /\ newer' \subseteq Entities /\ entry' \in [Tags -> EntryType]
<1> USE DEF TypeOK, Promoted
<1>1. captures' \in 0..MaxCaptures
  BY CloneAssumption
<1>2. newer' \subseteq Entities
  BY DEF OnTag
<1> DEFINE external == [entry EXCEPT ![t].kind = "external"]
<1>3. entry \in [Tags -> EntryType]
  BY DEF EntryType
<1>4. external \in [Tags -> EntryType]
  BY <1>3 DEF EntryType, Kinds
<1>5. [external EXCEPT ![t].by = "promote"] \in [Tags -> EntryType]
  <2>1. [external[t] EXCEPT !.by = "promote"] \in EntryType
    BY <1>4 DEF EntryType, Origins
  <2> HIDE DEF external
  <2> QED BY <1>4, <2>1
<1>6. entry' \in [Tags -> EntryType]
  BY <1>5
<1> QED BY <1>1, <1>2, <1>6

\* What a command under way knows of its tag.
OpTags ==
    /\ op.at \in {"external", "internal", "seal", "record"} => op.tag \in Tags /\ ~Recorded(op.tag)
    /\ op.at = "revert" => op.tag \in Tags
    /\ op.at \in {"seal", "record"} => op.tag \in store

\* A lane builds an entity of its own choice and has not counted anything
\* before it does.
LaneTags ==
    \A l \in Lanes :
        /\ lane[l].at # "idle" => lane[l].tag \in Tags /\ lane[l].e \in Entities
        /\ lane[l].at \in {"idle", "lookup", "fresh", "create", "count"} => lane[l].counted = NoTag

TypeInv == TypeOK /\ OpTags /\ LaneTags

\* TypeOK by its parts.
LEMMA TypeParts ==
    TypeOK <=>
    /\ keeper \in {"off", "running"} /\ active \in Tags \cup {NoTag}
    /\ store \subseteq Tags /\ mode \in [Tags -> {"ro", "rw"}]
    /\ entry \in [Tags -> EntryType]
    /\ moved \subseteq Tags /\ captures \in 0..MaxCaptures
    /\ overlay \in [Entities -> Tags \cup {NoTag}] /\ newer \subseteq Entities
    /\ op \in OpType /\ lane \in [Lanes -> LaneType]
BY DEF TypeOK, EntryType, OpType, LaneType

LEMMA AskType ==
    ASSUME TypeInv, NEW t \in Tags, NEW at \in {"external", "internal"},
           NEW q \in BOOLEAN, NEW s \in BOOLEAN, Ask(t, at, q, s)
    PROVE  op' \in OpType /\ op'.at = at /\ op'.tag = t
BY Constants DEF Ask, Idle, OpType, OpAt

LEMMA OperatorType ==
    ASSUME TypeInv, OperatorStep
    PROVE  TypeOK' /\ OpTags'
<1> USE DEF TypeInv
<1>0. /\ keeper \in {"off", "running"} /\ active \in Tags \cup {NoTag}
      /\ store \subseteq Tags /\ mode \in [Tags -> {"ro", "rw"}]
      /\ entry \in [Tags -> EntryType]
      /\ moved \subseteq Tags /\ captures \in 0..MaxCaptures
      /\ overlay \in [Entities -> Tags \cup {NoTag}] /\ newer \subseteq Entities
      /\ op \in OpType /\ lane \in [Lanes -> LaneType]
  BY TypeParts
<1> SUFFICES /\ keeper' \in {"off", "running"} /\ active' \in Tags \cup {NoTag}
             /\ store' \subseteq Tags /\ mode' \in [Tags -> {"ro", "rw"}]
             /\ entry' \in [Tags -> EntryType]
             /\ moved' \subseteq Tags /\ captures' \in 0..MaxCaptures
             /\ overlay' \in [Entities -> Tags \cup {NoTag}] /\ newer' \subseteq Entities
             /\ op' \in OpType /\ lane' \in [Lanes -> LaneType]
             /\ OpTags'
  BY DEF TypeOK, EntryType, OpType, LaneType
<1>1. CASE OpenForStart
  BY <1>0, <1>1 DEF OpenForStart, keeperVars, cloneVars, OpTags, Recorded, OpType, OpAt
<1>2. CASE StartKeeper
  BY <1>0, <1>2 DEF StartKeeper, storeVars, cloneVars, OpTags, Recorded, OpType, OpAt
<1>3. CASE SealAfterStart
  BY <1>0, <1>3, Constants DEF SealAfterStart, keeperVars, cloneVars, OpTags, Recorded, Idle
<1>4. CASE CaptureExternal
  <2>1. op.tag \in Tags /\ ~Recorded(op.tag)
    BY <1>4 DEF CaptureExternal, OpTags
  <2>2. ASSUME NEW q \in BOOLEAN, NEW at \in {"seal", "record"}, NEW by \in {"capture", "fallback"},
               Captured(q, at, by), UNCHANGED <<keeper, entry, overlay, lane>>
        PROVE  TypeOK' /\ OpTags'
    <3>1. /\ captures' \in 0..MaxCaptures /\ store' \subseteq Tags
          /\ mode' \in [Tags -> {"ro", "rw"}] /\ moved' \subseteq Tags
          /\ newer' \subseteq Entities /\ active' \in Tags \cup {NoTag}
          /\ op' \in OpType
      BY <2>1, <2>2, CapturedType DEF OpAt, Origins
    <3>2. OpTags'
      BY <1>0, <2>1, <2>2 DEF Captured, OpTags, Recorded, OpType
    <3>3. UNCHANGED <<keeper, entry, overlay, lane>>
      BY <2>2
    <3> QED BY <1>0, <3>1, <3>2, <3>3 DEF TypeOK, EntryType, OpType, LaneType
  <2>3. ASSUME op' = Idle, UNCHANGED <<active, store, mode, moved, captures, newer, keeper, entry, overlay, lane>>
        PROVE  TypeOK' /\ OpTags'
    <3>1. op' \in OpType /\ OpTags'
      BY <2>3, Constants DEF OpTags, Idle
    <3> QED BY <1>0, <2>3, <3>1 DEF TypeOK, EntryType, OpType, LaneType
  <2>4. Quiet(op.quiesce) \in BOOLEAN /\ Quiet(FALSE) \in BOOLEAN
    BY <1>0 DEF Quiet, OpType
  <2>5. TypeOK' /\ OpTags'
    BY <1>4, <2>2, <2>3, <2>4 DEF CaptureExternal
  <2> QED BY <2>5 DEF TypeOK, EntryType, OpType, LaneType
<1>5. CASE SealSnapshot
  BY <1>0, <1>5 DEF SealSnapshot, keeperVars, cloneVars, OpTags, Recorded, OpType, OpAt
<1>6. CASE RecordEntry
  <2>1. op.tag \in Tags
    BY <1>6 DEF RecordEntry, OpTags
  <2>2. [kind |-> "external", refs |-> 0, sound |-> op.strict => op.quiet, by |-> op.by] \in EntryType
    BY <1>0 DEF EntryType, OpType, Kinds
  <2>3. entry' \in [Tags -> EntryType]
    BY <1>0, <1>6, <2>1, <2>2 DEF RecordEntry
  <2> QED BY <1>0, <1>6, <2>3, Constants DEF RecordEntry, keeperVars, cloneVars, OpTags, Idle
<1>7. CASE CaptureInternal
  <2>1. op.tag \in Tags
    BY <1>7 DEF CaptureInternal, OpTags
  <2>2. [kind |-> "internal", refs |-> 0, sound |-> TRUE, by |-> "capture"] \in EntryType
    BY DEF EntryType, Kinds, Origins
  <2>3. entry' \in [Tags -> EntryType]
    BY <1>0, <1>7, <2>1, <2>2 DEF CaptureInternal
  <2> QED BY <1>0, <1>7, <2>3, Constants DEF CaptureInternal, keeperVars, cloneVars, OpTags, Idle
<1>8. CASE Revert
  BY <1>0, <1>8, Constants DEF Revert, keeperVars, storeVars, cloneVars, OpTags, Idle, OpType, OpAt
<1>9. ASSUME NEW t \in Tags,
             CreateSnapshot(t) \/ CreateConsistent(t) \/ Promote(t) \/ Delete(t)
             \/ AskRevert(t) \/ RevertStops(t)
      PROVE  TypeOK' /\ OpTags'
  <2>1. CASE CreateSnapshot(t) \/ CreateConsistent(t)
    <3>1. PICK at \in {"external", "internal"}, q \in BOOLEAN, c \in BOOLEAN : Ask(t, at, q, c)
      BY <2>1 DEF CreateSnapshot, CreateConsistent
    <3>2. op' \in OpType /\ op'.at = at /\ op'.tag = t
      BY <3>1, AskType
    <3>3. UNCHANGED <<keeperVars, storeVars, cloneVars, lane>> /\ ~Recorded(t)
      BY <2>1, <3>1 DEF CreateSnapshot, CreateConsistent, Ask
    <3>4. OpTags'
      BY <3>2, <3>3 DEF OpTags, storeVars, Recorded
    <3> QED BY <1>0, <3>2, <3>3, <3>4
            DEF keeperVars, storeVars, cloneVars, TypeOK, EntryType, OpType, LaneType
  <2>2. CASE Promote(t)
    <3>1. /\ captures' \in 0..MaxCaptures /\ store' \subseteq Tags
          /\ mode' \in [Tags -> {"ro", "rw"}] /\ moved' \subseteq Tags
          /\ newer' \subseteq Entities /\ entry' \in [Tags -> EntryType]
      BY <2>2, PromotedType DEF Promote
    <3>2. UNCHANGED <<keeperVars, overlay, op, lane>> /\ op.at = "idle"
      BY <2>2 DEF Promote
    <3> QED BY <1>0, <3>1, <3>2 DEF keeperVars, TypeOK, EntryType, OpType, LaneType, OpTags
  <2>3. CASE Delete(t)
    <3>1. entry' \in [Tags -> EntryType]
      BY <1>0, <2>3, Constants DEF Delete
    <3> QED BY <1>0, <2>3, <3>1
            DEF Delete, keeperVars, cloneVars, TypeOK, EntryType, OpType, LaneType, OpTags
  <2>4. CASE AskRevert(t) \/ RevertStops(t)
    <3>1. op' \in OpType /\ OpTags'
      BY <2>4, Constants DEF AskRevert, RevertStops, OpTags, Idle, OpType, OpAt
    <3> QED BY <1>0, <2>4, <3>1
            DEF AskRevert, RevertStops, keeperVars, storeVars, cloneVars, TypeOK, EntryType, OpType, LaneType
  <2> QED BY <1>9, <2>1, <2>2, <2>3, <2>4
<1> QED BY <1>1, <1>2, <1>3, <1>4, <1>5, <1>6, <1>7, <1>8, <1>9
        DEF OperatorStep, TypeOK, EntryType, OpType, LaneType

\* A lane's step leaves the keeper, its command and the other lanes alone.
LEMMA LaneKeepsType ==
    ASSUME TypeInv, NEW l \in Lanes, LaneStep(l)
    PROVE  TypeInv'
<1> USE DEF TypeInv
<1>0. /\ keeper \in {"off", "running"} /\ active \in Tags \cup {NoTag}
      /\ store \subseteq Tags /\ mode \in [Tags -> {"ro", "rw"}]
      /\ entry \in [Tags -> EntryType]
      /\ moved \subseteq Tags /\ captures \in 0..MaxCaptures
      /\ overlay \in [Entities -> Tags \cup {NoTag}] /\ newer \subseteq Entities
      /\ op \in OpType /\ lane \in [Lanes -> LaneType]
  BY TypeParts
<1> DEFINE Others == \A k \in Lanes \ {l} : lane'[k] = lane[k]
           Here == /\ lane'[l].at # "idle" => lane'[l].tag \in Tags /\ lane'[l].e \in Entities
                   /\ lane'[l].at \in {"idle", "lookup", "fresh", "create", "count"} => lane'[l].counted = NoTag
           Same == UNCHANGED <<keeperVars, op>>
<1>a. ASSUME NEW at \in InBuild \cup {"idle", "built", "up"}, Go(l, at), lane[l].at # "idle",
             at \in {"fresh", "create", "count"} => lane[l].counted = NoTag, at # "idle", at # "lookup"
      PROVE  lane' \in [Lanes -> LaneType] /\ Others /\ Here
  <2>1. lane' \in [Lanes -> LaneType]
    BY <1>a, GoType
  <2>2. Others
    BY <1>0, <1>a DEF Go
  <2>3. lane'[l] = [lane[l] EXCEPT !.at = at]
    BY <1>0, <1>a DEF Go
  <2>4. Here
    BY <1>0, <1>a, <2>3 DEF LaneTags, LaneType
  <2> QED BY <2>1, <2>2, <2>4
<1>b. ASSUME BuildFails(l)
      PROVE  lane' \in [Lanes -> LaneType] /\ Others /\ Here
  BY <1>0, <1>b, FailsType, Constants DEF BuildFails, AtHome
<1>c. ASSUME lane' \in [Lanes -> LaneType], Others, Here
      PROVE  LaneTags'
  BY <1>c DEF LaneTags
<1>d. ASSUME UNCHANGED <<keeperVars, op, entry, store>>
      PROVE  OpTags'
  BY <1>d DEF OpTags, Recorded
<1> HIDE DEF Others, Here
<1> SUFFICES /\ keeper' \in {"off", "running"} /\ active' \in Tags \cup {NoTag}
             /\ store' \subseteq Tags /\ mode' \in [Tags -> {"ro", "rw"}]
             /\ entry' \in [Tags -> EntryType]
             /\ moved' \subseteq Tags /\ captures' \in 0..MaxCaptures
             /\ overlay' \in [Entities -> Tags \cup {NoTag}] /\ newer' \subseteq Entities
             /\ op' \in OpType /\ lane' \in [Lanes -> LaneType]
             /\ OpTags' /\ LaneTags'
  BY DEF TypeOK, EntryType, OpType, LaneType
<1> USE <1>0 DEF InBuild
<1>1. CASE LockEntity(l)
  <2>1. PICK e \in Entities, t \in Tags :
           lane' = [lane EXCEPT ![l] = [AtHome EXCEPT !.at = "lookup", !.e = e, !.tag = t]]
    BY <1>1 DEF LockEntity
  <2>2. [AtHome EXCEPT !.at = "lookup", !.e = e, !.tag = t] \in LaneType
    BY DEF AtHome, LaneType
  <2>3. lane' \in [Lanes -> LaneType] /\ Others /\ Here
    BY <2>1, <2>2 DEF Others, Here, AtHome
  <2> QED BY <1>1, <2>3, <1>c, <1>d DEF LockEntity, keeperVars, storeVars, cloneVars
<1>2. CASE LookupParent(l)
  <2> DEFINE t == lane[l].tag
  <2>1. t \in Tags /\ lane[l].counted = NoTag
    BY <1>2 DEF LookupParent, LaneTags
  <2>2. lane' \in [Lanes -> LaneType] /\ Others /\ Here
    BY <1>2, <2>1, <1>a, <1>b DEF LookupParent
  <2>3. CASE UNCHANGED <<storeVars, newer>>
    BY <1>2, <2>2, <2>3, <1>c, <1>d DEF LookupParent, keeperVars, storeVars
  <2>4. CASE Promoted(t)
    <3>1. /\ captures' \in 0..MaxCaptures /\ store' \subseteq Tags
          /\ mode' \in [Tags -> {"ro", "rw"}] /\ moved' \subseteq Tags
          /\ newer' \subseteq Entities /\ entry' \in [Tags -> EntryType]
      BY <2>1, <2>4, PromotedType
    <3>2. entry[t].kind = "internal" /\ store' = store \cup {t} /\ \A u \in Tags \ {t} : entry'[u] = entry[u]
      BY <2>4 DEF Promoted
    <3>3. UNCHANGED op /\ OpTags'
      BY <1>2, <2>1, <3>2 DEF LookupParent, OpTags, Recorded
    <3> QED BY <1>2, <2>2, <3>1, <3>3, <1>c DEF LookupParent, keeperVars
  <2> QED BY <1>2, <2>3, <2>4 DEF LookupParent
<1>3. CASE TestFresh(l)
  <2>1. lane' \in [Lanes -> LaneType] /\ Others /\ Here
    <3>1. lane[l].at = "fresh" /\ lane[l].counted = NoTag
      BY <1>3 DEF TestFresh, LaneTags
    <3> QED BY <1>3, <3>1, <1>a DEF TestFresh
  <2> QED BY <1>3, <2>1, <1>c, <1>d DEF TestFresh, keeperVars, storeVars, cloneVars
<1>4. CASE CreateOverlay(l)
  <2>1. lane[l].at = "create" /\ lane[l].counted = NoTag /\ lane[l].tag \in Tags /\ lane[l].e \in Entities
    BY <1>4 DEF CreateOverlay, LaneTags
  <2>2. lane' \in [Lanes -> LaneType] /\ Others /\ Here
    BY <1>4, <2>1, <1>a, <1>b DEF CreateOverlay
  <2>3. overlay' \in [Entities -> Tags \cup {NoTag}] /\ newer' \subseteq Entities
    BY <1>4, <2>1 DEF CreateOverlay, cloneVars
  <2> QED BY <1>4, <2>2, <2>3, <1>c, <1>d DEF CreateOverlay, keeperVars, storeVars
<1>5. CASE CountReference(l)
  <2> DEFINE t == lane[l].tag
  <2>1. t \in Tags /\ lane[l].e \in Entities /\ lane[l].at = "count"
    BY <1>5 DEF CountReference, LaneTags
  <2>2. CASE Recorded(t)
    <3>1. /\ entry' = [entry EXCEPT ![t].refs = @ + 1]
          /\ lane' = [lane EXCEPT ![l].at = "seed", ![l].counted = t, ![l].linked = Linkable(t)]
      BY <1>5, <2>2 DEF CountReference
    <3>2. entry' \in [Tags -> EntryType] /\ \A u \in Tags : entry'[u].kind = entry[u].kind
      BY <2>1, <3>1 DEF EntryType
    <3>3. lane'[l] = [lane[l] EXCEPT !.at = "seed", !.counted = t, !.linked = Linkable(t)]
      BY <3>1
    <3>3a. Linkable(t) \in BOOLEAN
      BY DEF Linkable
    <3>4. lane'[l] \in LaneType
      BY <2>1, <3>3, <3>3a DEF LaneType
    <3>5. lane' = [lane EXCEPT ![l] = lane'[l]]
      BY <3>1
    <3>6. lane' \in [Lanes -> LaneType] /\ Others
      BY <3>4, <3>5 DEF Others
    <3>7. Here
      BY <2>1, <3>3 DEF Here, LaneType
    <3>8. LaneTags'
      BY <3>6, <3>7, <1>c
    <3>9. UNCHANGED op /\ UNCHANGED store
      BY <1>5 DEF CountReference
    <3>10. OpTags'
      BY <3>2, <3>9 DEF OpTags, Recorded
    <3> QED BY <1>5, <3>2, <3>6, <3>8, <3>10 DEF CountReference, keeperVars, cloneVars
  <2>3. CASE ~Recorded(t)
    <3>1. lane' \in [Lanes -> LaneType] /\ Others /\ Here
      BY <1>5, <2>1, <2>3, <1>a DEF CountReference
    <3> QED BY <1>5, <2>3, <3>1, <1>c, <1>d DEF CountReference, keeperVars, cloneVars
  <2> QED BY <2>2, <2>3
<1>6. CASE WriteSeed(l)
  <2>1. lane' \in [Lanes -> LaneType] /\ Others /\ Here
    BY <1>6, <1>a, <1>b DEF WriteSeed
  <2> QED BY <1>6, <2>1, <1>c, <1>d DEF WriteSeed, keeperVars, storeVars, cloneVars
<1>7. CASE Boot(l)
  <2>1. lane' \in [Lanes -> LaneType] /\ Others /\ Here
    BY <1>7, <1>a DEF Boot
  <2> QED BY <1>7, <2>1, <1>c, <1>d DEF Boot, keeperVars, storeVars, cloneVars
<1>8. CASE TearDown(l)
  <2> DEFINE t == lane[l].counted
  <2>1. BuildFails(l) /\ t \in Tags \cup {NoTag}
    BY <1>8 DEF TearDown, BuildFails, LaneType
  <2>2. lane' \in [Lanes -> LaneType] /\ Others /\ Here
    BY <2>1, <1>b
  <2>3. entry' \in [Tags -> EntryType] /\ \A u \in Tags : entry'[u].kind = entry[u].kind
    <3>1. CASE entry' = entry
      BY <3>1
    <3>2. CASE entry' = [entry EXCEPT ![t].refs = @ - 1] /\ t # NoTag /\ entry[t].refs > 0
      <4>1. t \in Tags /\ entry[t] \in EntryType
        BY <2>1, <3>2
      <4>2. [entry[t] EXCEPT !.refs = @ - 1] \in EntryType
        BY <3>2, <4>1 DEF EntryType
      <4> QED BY <3>2, <4>1, <4>2 DEF EntryType
    <3> QED BY <1>8, <3>1, <3>2 DEF TearDown
  <2>4. UNCHANGED op /\ UNCHANGED store
    BY <1>8 DEF TearDown
  <2>5. OpTags'
    BY <2>3, <2>4 DEF OpTags, Recorded
  <2> QED BY <1>8, <2>2, <2>3, <2>5, <1>c DEF TearDown, keeperVars, cloneVars
<1> QED BY <1>1, <1>2, <1>3, <1>4, <1>5, <1>6, <1>7, <1>8
        DEF LaneStep, TypeOK, EntryType, OpType, LaneType

\* An operator's step leaves the lanes alone, and so do the keeper's writes, its
\* stopping and a rebuilt base.
LEMMA OthersLeaveLanes ==
    ASSUME OperatorStep \/ KeeperWrites \/ KeeperStops \/ BaseRebuilt
    PROVE  UNCHANGED lane
BY DEF OperatorStep, KeeperWrites, KeeperStops, BaseRebuilt, OpenForStart, StartKeeper, SealAfterStart,
       CaptureExternal, SealSnapshot, RecordEntry, CaptureInternal, Revert, CreateSnapshot,
       CreateConsistent, Promote, Delete, AskRevert, RevertStops, storeVars, cloneVars

LEMMA WorldType ==
    ASSUME TypeInv, KeeperWrites \/ KeeperStops \/ BaseRebuilt \/ UNCHANGED vars
    PROVE  TypeOK' /\ OpTags'
<1> USE DEF TypeInv, OpTags, Recorded, keeperVars, storeVars, cloneVars
<1>1. CASE KeeperWrites
  <2>1. newer' \subseteq Entities
    BY <1>1 DEF KeeperWrites, OnTag, TypeOK
  <2> QED BY <1>1, <2>1 DEF KeeperWrites, TypeOK
<1>2. CASE KeeperStops
  BY <1>2 DEF KeeperStops, TypeOK
<1>3. CASE BaseRebuilt
  BY <1>3 DEF BaseRebuilt, TypeOK
<1>4. CASE UNCHANGED vars
  BY <1>4 DEF vars, TypeOK
<1> QED BY <1>1, <1>2, <1>3, <1>4

LEMMA StepType == TypeInv /\ [Next]_vars => TypeInv'
<1> SUFFICES ASSUME TypeInv, [Next]_vars
             PROVE  TypeInv'
  OBVIOUS
<1>1. CASE OperatorStep
  BY <1>1, OperatorType, OthersLeaveLanes DEF TypeInv, LaneTags
<1>2. CASE KeeperWrites \/ KeeperStops \/ BaseRebuilt
  BY <1>2, WorldType, OthersLeaveLanes DEF TypeInv, LaneTags
<1>3. CASE \E l \in Lanes : LaneStep(l)
  BY <1>3, LaneKeepsType
<1>4. CASE UNCHANGED vars
  BY <1>4, WorldType DEF TypeInv, LaneTags, vars
<1> QED BY <1>1, <1>2, <1>3, <1>4 DEF Next

LEMMA InitTags == Init => OpTags /\ LaneTags
BY DEF Init, OpTags, LaneTags, Idle, AtHome

\* Every variable keeps its type, whatever the operator, the keeper and the
\* lanes do.
THEOREM TypeCorrect == Spec => []TypeOK
<1>1. Init => TypeInv
  BY InitType, InitTags DEF TypeInv
<1>2. TypeInv => TypeOK
  BY DEF TypeInv
<1> QED BY <1>1, <1>2, StepType, PTL DEF Spec
----------------------------------------------------------------------------
(* The reference count covers the lanes that counted themselves.           *)

\* An entry that is not recorded counts nobody, and an external one has a disk.
EntryInv ==
    \A t \in Tags : /\ ~Recorded(t) => entry[t].refs = 0
                    /\ Linkable(t) => t \in store

RefsInv == TypeInv /\ EntryInv /\ RefsCoverLanes

LEMMA CountedFinite ==
    ASSUME NEW t
    PROVE  /\ IsFiniteSet(Counted(t)) /\ Cardinality(Counted(t)) \in Nat
           /\ Cardinality(Counted(t)) <= 0 => Counted(t) = {}
<1>1. IsFiniteSet(Counted(t))
  BY CloneAssumption, FS_Subset DEF Counted
<1> QED BY <1>1, FS_CardinalityType, FS_EmptySet

\* Without --force, who counts a snapshot keeps it from being deleted.
LEMMA DeleteUncounted ==
    ASSUME RefsInv, TRUE \notin Forces, NEW t \in Tags, Delete(t)
    PROVE  entry[t].refs = 0 /\ Counted(t) = {}
<1>1. entry[t].refs = 0
  BY DEF Delete
<1> QED BY <1>1, CountedFinite DEF RefsInv, RefsCoverLanes

LEMMA UnrecordedUncounted ==
    ASSUME RefsInv, NEW t \in Tags, ~Recorded(t)
    PROVE  Counted(t) = {}
BY CountedFinite DEF RefsInv, RefsCoverLanes, EntryInv

\* What a step of the operator does to the entries: an entry keeps its count, or
\* is written anew when nobody is counted on it.
LEMMA OperatorEntries ==
    ASSUME RefsInv, TRUE \notin Forces, OperatorStep
    PROVE  /\ \A t \in Tags : entry'[t].refs = entry[t].refs \/ (Counted(t) = {} /\ entry'[t].refs \in Nat)
           /\ EntryInv'
<1> USE DEF RefsInv
<1>0. entry \in [Tags -> EntryType] /\ store \subseteq Tags /\ op \in OpType
  BY TypeParts DEF TypeInv
<1>1. CASE UNCHANGED <<store, entry>>
  BY <1>1 DEF EntryInv, Recorded, Linkable
<1>2. CASE CaptureExternal
  <2>1. store \subseteq store' /\ UNCHANGED entry
    BY <1>2 DEF CaptureExternal, Captured
  <2> QED BY <2>1 DEF EntryInv, Recorded, Linkable
<1>3. CASE RecordEntry
  <2>1. op.tag \in Tags /\ ~Recorded(op.tag) /\ op.tag \in store
    BY <1>3 DEF RecordEntry, TypeInv, OpTags
  <2>2. Counted(op.tag) = {}
    BY <2>1, UnrecordedUncounted
  <2>3. /\ \A u \in Tags \ {op.tag} : entry'[u] = entry[u]
        /\ entry'[op.tag].refs = 0 /\ entry'[op.tag].kind = "external" /\ UNCHANGED store
    BY <1>0, <1>3, <2>1 DEF RecordEntry
  <2> QED BY <2>1, <2>2, <2>3 DEF EntryInv, Recorded, Linkable
<1>4. CASE CaptureInternal
  <2>1. op.tag \in Tags /\ ~Recorded(op.tag)
    BY <1>4 DEF CaptureInternal, TypeInv, OpTags
  <2>2. Counted(op.tag) = {}
    BY <2>1, UnrecordedUncounted
  <2>3. /\ \A u \in Tags \ {op.tag} : entry'[u] = entry[u]
        /\ entry'[op.tag] = entry[op.tag] \/ (entry'[op.tag].refs = 0 /\ entry'[op.tag].kind = "internal")
        /\ UNCHANGED store
    BY <1>0, <1>4, <2>1 DEF CaptureInternal
  <2> QED BY <2>1, <2>2, <2>3 DEF EntryInv, Recorded, Linkable
<1>5. ASSUME NEW t \in Tags, Promote(t)
      PROVE  /\ \A u \in Tags : entry'[u].refs = entry[u].refs
             /\ EntryInv'
  <2>1. /\ entry' = [entry EXCEPT ![t].kind = "external", ![t].by = "promote"]
        /\ store' = store \cup {t} /\ entry[t].kind = "internal"
    BY <1>5 DEF Promote, Promoted
  <2>2. /\ \A u \in Tags \ {t} : entry'[u] = entry[u]
        /\ entry'[t].refs = entry[t].refs /\ entry'[t].kind = "external"
    BY <1>0, <2>1 DEF EntryType
  <2> QED BY <2>1, <2>2 DEF EntryInv, Recorded, Linkable
<1>6. ASSUME NEW t \in Tags, Delete(t)
      PROVE  /\ \A u \in Tags : entry'[u].refs = entry[u].refs \/ (Counted(u) = {} /\ entry'[u].refs \in Nat)
             /\ EntryInv'
  <2>1. Counted(t) = {}
    BY <1>6, DeleteUncounted
  <2>2. /\ \A u \in Tags \ {t} : entry'[u] = entry[u]
        /\ entry'[t].refs = 0 /\ entry'[t].kind = "none" /\ store' = store \ {t}
    BY <1>0, <1>6 DEF Delete, NoEntry
  <2>3. \A u \in Tags : entry'[u].refs = entry[u].refs \/ (Counted(u) = {} /\ entry'[u].refs \in Nat)
    BY <2>1, <2>2
  <2>4. ASSUME NEW u \in Tags
        PROVE  (entry'[u].kind = "none" => entry'[u].refs = 0) /\ (entry'[u].kind = "external" => u \in store')
    BY <2>2 DEF EntryInv, Recorded, Linkable
  <2> QED BY <2>3, <2>4 DEF EntryInv, Recorded, Linkable
<1>7. \/ UNCHANGED <<store, entry>> \/ CaptureExternal \/ RecordEntry \/ CaptureInternal
      \/ \E t \in Tags : Promote(t) \/ Delete(t)
  BY DEF OperatorStep, OpenForStart, StartKeeper, SealAfterStart, SealSnapshot, Revert, CreateSnapshot,
         CreateConsistent, AskRevert, RevertStops, storeVars
<1> QED BY <1>1, <1>2, <1>3, <1>4, <1>5, <1>6, <1>7

\* A lane's step leaves who it counts, or counts the lane on a recorded
\* snapshot, or sends it home.
SameCount(l) ==
    /\ lane'[l].counted = lane[l].counted
    /\ lane'[l].linked = lane[l].linked \/ lane[l].counted = NoTag
    /\ \A t \in Tags : entry'[t].refs = entry[t].refs
    /\ store' = store \/ \E t \in Tags : store' = store \cup {t}
Counts(l, t) ==
    /\ lane[l].counted = NoTag /\ lane'[l].counted = t /\ lane'[l].linked = Linkable(t)
    /\ entry'[t].refs = entry[t].refs + 1
    /\ \A u \in Tags \ {t} : entry'[u].refs = entry[u].refs
    /\ store' = store
GoesHome(l) ==
    /\ lane'[l].counted = NoTag
    /\ \A t \in Tags : \/ entry'[t].refs = entry[t].refs
                       \/ t = lane[l].counted /\ entry[t].refs > 0 /\ entry'[t].refs = entry[t].refs - 1
    /\ store' = store

LEMMA LaneEffects ==
    ASSUME RefsInv, NEW l \in Lanes, LaneStep(l)
    PROVE  /\ \A k \in Lanes \ {l} : lane'[k] = lane[k]
           /\ SameCount(l) \/ GoesHome(l) \/ \E t \in Tags : Counts(l, t)
           /\ EntryInv'
<1> USE DEF RefsInv
<1>0. entry \in [Tags -> EntryType] /\ store \subseteq Tags /\ lane \in [Lanes -> LaneType]
  BY TypeParts DEF TypeInv
<1>a. ASSUME NEW at, Go(l, at)
      PROVE  /\ \A k \in Lanes \ {l} : lane'[k] = lane[k]
             /\ lane'[l].counted = lane[l].counted /\ lane'[l].linked = lane[l].linked
  BY <1>0, <1>a DEF Go, LaneType
<1>b. ASSUME BuildFails(l)
      PROVE  (\A k \in Lanes \ {l} : lane'[k] = lane[k]) /\ lane'[l].counted = NoTag
  BY <1>0, <1>b DEF BuildFails, AtHome
<1>c. ASSUME UNCHANGED <<store, entry>>
      PROVE  EntryInv'
  BY <1>c DEF EntryInv, Recorded, Linkable
<1>1. CASE LockEntity(l)
  <2>1. /\ \A k \in Lanes \ {l} : lane'[k] = lane[k]
        /\ lane'[l].counted = NoTag
    BY <1>0, <1>1 DEF LockEntity, AtHome
  <2>2. lane[l].counted = NoTag
    BY <1>1 DEF LockEntity, TypeInv, LaneTags
  <2> QED BY <1>1, <2>1, <2>2, <1>c DEF LockEntity, storeVars, SameCount
<1>2. CASE LookupParent(l)
  <2> DEFINE t == lane[l].tag
  <2>1. t \in Tags /\ lane[l].counted = NoTag
    BY <1>2 DEF LookupParent, TypeInv, LaneTags
  <2>2. (\A k \in Lanes \ {l} : lane'[k] = lane[k]) /\ lane'[l].counted = NoTag
    BY <1>2, <2>1, <1>a, <1>b DEF LookupParent
  <2>3. CASE UNCHANGED storeVars
    BY <2>1, <2>2, <2>3, <1>c DEF storeVars, SameCount
  <2>4. CASE Promoted(t)
    <3>1. /\ entry' = [entry EXCEPT ![t].kind = "external", ![t].by = "promote"]
          /\ store' = store \cup {t} /\ entry[t].kind = "internal"
      BY <2>4 DEF Promoted
    <3>2. /\ \A u \in Tags \ {t} : entry'[u] = entry[u]
          /\ entry'[t].refs = entry[t].refs /\ entry'[t].kind = "external"
      BY <1>0, <2>1, <3>1 DEF EntryType
    <3>3. EntryInv'
      BY <3>1, <3>2 DEF EntryInv, Recorded, Linkable
    <3> QED BY <2>1, <2>2, <3>1, <3>2, <3>3 DEF SameCount
  <2> QED BY <1>2, <2>3, <2>4 DEF LookupParent
<1>3. CASE TestFresh(l)
  BY <1>3, <1>a, <1>c DEF TestFresh, storeVars, SameCount
<1>4. CASE CreateOverlay(l)
  <2>1. lane[l].counted = NoTag
    BY <1>4 DEF CreateOverlay, TypeInv, LaneTags
  <2>2. (\A k \in Lanes \ {l} : lane'[k] = lane[k]) /\ lane'[l].counted = NoTag
    BY <1>4, <2>1, <1>a, <1>b DEF CreateOverlay
  <2> QED BY <1>4, <2>1, <2>2, <1>c DEF CreateOverlay, storeVars, SameCount
<1>5. CASE CountReference(l)
  <2> DEFINE t == lane[l].tag
  <2>1. t \in Tags /\ lane[l].counted = NoTag /\ UNCHANGED store
    BY <1>5 DEF CountReference, TypeInv, LaneTags
  <2>2. CASE Recorded(t)
    <3>1. /\ entry' = [entry EXCEPT ![t].refs = @ + 1]
          /\ lane' = [lane EXCEPT ![l].at = "seed", ![l].counted = t, ![l].linked = Linkable(t)]
      BY <1>5, <2>2 DEF CountReference
    <3>2. \A k \in Lanes \ {l} : lane'[k] = lane[k]
      BY <1>0, <3>1
    <3>3. lane'[l].counted = t /\ lane'[l].linked = Linkable(t)
      BY <1>0, <3>1 DEF LaneType
    <3>4. /\ entry'[t].refs = entry[t].refs + 1 /\ entry'[t].kind = entry[t].kind
          /\ \A u \in Tags \ {t} : entry'[u] = entry[u]
      BY <1>0, <2>1, <3>1 DEF EntryType
    <3>5. Counts(l, t)
      BY <2>1, <3>3, <3>4 DEF Counts
    <3>6. EntryInv'
      BY <2>1, <2>2, <3>4 DEF EntryInv, Recorded, Linkable
    <3> QED BY <2>1, <3>2, <3>5, <3>6
  <2>3. CASE ~Recorded(t)
    BY <1>5, <2>1, <2>3, <1>a, <1>c DEF CountReference, SameCount
  <2> QED BY <2>2, <2>3
<1>6. CASE WriteSeed(l)
  BY <1>6, <1>a, <1>b, <1>c DEF WriteSeed, storeVars, SameCount, GoesHome
<1>7. CASE Boot(l)
  BY <1>7, <1>a, <1>c DEF Boot, storeVars, SameCount
<1>8. CASE TearDown(l)
  <2> DEFINE t == lane[l].counted
  <2>1. BuildFails(l) /\ UNCHANGED store
    BY <1>8 DEF TearDown, BuildFails
  <2>2. CASE entry' = entry
    BY <2>1, <2>2, <1>b, <1>c DEF GoesHome
  <2>3. CASE entry' = [entry EXCEPT ![t].refs = @ - 1] /\ t # NoTag /\ Recorded(t) /\ entry[t].refs > 0
    <3>1. t \in Tags
      BY <1>0, <2>3 DEF LaneType
    <3>2. /\ entry'[t].refs = entry[t].refs - 1 /\ entry'[t].kind = entry[t].kind
          /\ \A u \in Tags \ {t} : entry'[u] = entry[u]
      BY <1>0, <2>3, <3>1 DEF EntryType
    <3>3. GoesHome(l)
      BY <2>1, <2>3, <3>2, <1>b DEF GoesHome
    <3>4. EntryInv'
      BY <2>1, <2>3, <3>2 DEF EntryInv, Recorded, Linkable
    <3> QED BY <2>1, <3>3, <3>4, <1>b
  <2> QED BY <1>8, <2>2, <2>3 DEF TearDown
<1> QED BY <1>1, <1>2, <1>3, <1>4, <1>5, <1>6, <1>7, <1>8 DEF LaneStep

\* The sets of counted and linked lanes after a step of one lane.
LEMMA CountedAfter ==
    ASSUME NEW l \in Lanes, NEW t, \A k \in Lanes \ {l} : lane'[k] = lane[k]
    PROVE  /\ Counted(t)' = IF lane'[l].counted = t THEN Counted(t) \cup {l} ELSE Counted(t) \ {l}
           /\ Linked(t)' = IF lane'[l].counted = t /\ lane'[l].linked THEN Linked(t) \cup {l} ELSE Linked(t) \ {l}
<1>1. ASSUME NEW k \in Lanes
      PROVE  k # l => lane'[k] = lane[k]
  BY <1>1
<1>2. Counted(t)' = IF lane'[l].counted = t THEN Counted(t) \cup {l} ELSE Counted(t) \ {l}
  BY <1>1 DEF Counted
<1>3. Linked(t)' = IF lane'[l].counted = t /\ lane'[l].linked THEN Linked(t) \cup {l} ELSE Linked(t) \ {l}
  BY <1>1 DEF Linked, Counted
<1> QED BY <1>2, <1>3

LEMMA LaneKeepsRefs ==
    ASSUME RefsInv, NEW l \in Lanes, LaneStep(l)
    PROVE  RefsCoverLanes'
<1> SUFFICES ASSUME NEW t \in Tags
             PROVE  Cardinality(Counted(t)') <= entry'[t].refs
  BY DEF RefsCoverLanes
<1>1. /\ \A k \in Lanes \ {l} : lane'[k] = lane[k]
      /\ SameCount(l) \/ GoesHome(l) \/ \E u \in Tags : Counts(l, u)
  BY LaneEffects
<1>2. Counted(t)' = IF lane'[l].counted = t THEN Counted(t) \cup {l} ELSE Counted(t) \ {l}
  BY <1>1, CountedAfter
<1>3. /\ IsFiniteSet(Counted(t)) /\ Cardinality(Counted(t)) \in Nat
      /\ Cardinality(Counted(t)) <= entry[t].refs /\ entry[t].refs \in Nat
      /\ l \in Counted(t) <=> lane[l].counted = t
  BY CountedFinite, TypeParts DEF RefsInv, RefsCoverLanes, TypeInv, EntryType, Counted
<1>4. /\ Cardinality(Counted(t) \cup {l}) = IF l \in Counted(t) THEN Cardinality(Counted(t)) ELSE Cardinality(Counted(t)) + 1
      /\ Cardinality(Counted(t) \ {l}) = IF l \in Counted(t) THEN Cardinality(Counted(t)) - 1 ELSE Cardinality(Counted(t))
  BY <1>3, FS_AddElement, FS_RemoveElement
<1>5. NoTag \notin Tags
  BY CloneAssumption
<1>6. CASE SameCount(l)
  BY <1>2, <1>3, <1>4, <1>6 DEF SameCount
<1>7. CASE GoesHome(l)
  BY <1>2, <1>3, <1>4, <1>5, <1>7 DEF GoesHome
<1>8. ASSUME NEW u \in Tags, Counts(l, u)
      PROVE  Cardinality(Counted(t)') <= entry'[t].refs
  BY <1>2, <1>3, <1>4, <1>5, <1>8 DEF Counts
<1> QED BY <1>1, <1>6, <1>7, <1>8

LEMMA StepRefs ==
    ASSUME RefsInv, TRUE \notin Forces, [Next]_vars
    PROVE  RefsInv'
<1>1. TypeInv'
  BY StepType DEF RefsInv
<1>2. ASSUME UNCHANGED <<store, entry, lane>>
      PROVE  EntryInv' /\ RefsCoverLanes'
  BY <1>2 DEF RefsInv, EntryInv, RefsCoverLanes, Recorded, Linkable, Counted
<1>3. CASE OperatorStep
  <2>1. /\ \A t \in Tags : entry'[t].refs = entry[t].refs \/ (Counted(t) = {} /\ entry'[t].refs \in Nat)
        /\ EntryInv'
    BY <1>3, OperatorEntries
  <2>2. \A t \in Tags : Counted(t)' = Counted(t)
    BY <1>3, OthersLeaveLanes DEF Counted
  <2>3. ASSUME NEW t \in Tags
        PROVE  Cardinality(Counted(t)') <= entry'[t].refs
    <3>1. Counted(t)' = Counted(t) /\ Cardinality(Counted(t)) <= entry[t].refs
      BY <2>2 DEF RefsInv, RefsCoverLanes
    <3>2. CASE entry'[t].refs = entry[t].refs
      BY <3>1, <3>2
    <3>3. CASE Counted(t) = {} /\ entry'[t].refs \in Nat
      <4>1. Cardinality(Counted(t)') = 0
        BY <3>1, <3>3, FS_EmptySet
      <4> QED BY <3>3, <4>1
    <3> QED BY <2>1, <3>2, <3>3
  <2> QED BY <1>1, <2>1, <2>3 DEF RefsInv, RefsCoverLanes
<1>4. CASE KeeperWrites \/ KeeperStops \/ BaseRebuilt
  BY <1>1, <1>2, <1>4 DEF RefsInv, KeeperWrites, KeeperStops, BaseRebuilt, storeVars
<1>5. ASSUME NEW l \in Lanes, LaneStep(l)
      PROVE  RefsInv'
  BY <1>1, <1>5, LaneKeepsRefs, LaneEffects DEF RefsInv
<1>6. CASE UNCHANGED vars
  BY <1>1, <1>2, <1>6 DEF RefsInv, vars, storeVars
<1> QED BY <1>3, <1>4, <1>5, <1>6 DEF Next

LEMMA InitRefs == Init => RefsInv
<1> SUFFICES ASSUME Init
             PROVE  RefsInv
  OBVIOUS
<1>1. TypeInv
  BY InitType, InitTags DEF TypeInv
<1>2. \A t \in Tags : entry[t].kind = "none" /\ entry[t].refs = 0 /\ Counted(t) = {}
  BY CloneAssumption DEF Init, NoEntry, Counted, AtHome
<1> QED BY <1>1, <1>2, FS_EmptySet DEF RefsInv, EntryInv, RefsCoverLanes, Recorded, Linkable

\* The count of a snapshot covers every lane that counted itself on it, as long
\* as nobody forces a deletion (vm_clone.go:218-225, vm_snapshot_command.go:246).
THEOREM RefsCovered ==
    ASSUME TRUE \notin Forces
    PROVE  Spec => []RefsCoverLanes
<1>1. RefsInv => RefsCoverLanes
  BY DEF RefsInv
<1>2. RefsInv /\ [Next]_vars => RefsInv'
  BY StepRefs
<1> QED BY <1>1, <1>2, InitRefs, PTL DEF Spec
----------------------------------------------------------------------------
(* The store keeps the promise of SharedDisks.                             *)

disks == <<store, [t \in Tags |-> Linked(t)]>>

\* Only counted lanes are linked.
LEMMA LinkedCounted ==
    ASSUME NEW t, Counted(t) = {}
    PROVE  Linked(t) = {}
BY DEF Linked

LEMMA LaneImplements ==
    ASSUME RefsInv, NEW l \in Lanes, LaneStep(l)
    PROVE  Shared!Next \/ UNCHANGED disks
<1> DEFINE users == [t \in Tags |-> Linked(t)]
<1>0. NoTag \notin Tags
  BY CloneAssumption
<1>1. /\ \A k \in Lanes \ {l} : lane'[k] = lane[k]
      /\ SameCount(l) \/ GoesHome(l) \/ \E u \in Tags : Counts(l, u)
  BY LaneEffects
<1>2. \A t \in Tags : Linked(t)' = IF lane'[l].counted = t /\ lane'[l].linked THEN Linked(t) \cup {l} ELSE Linked(t) \ {l}
  BY <1>1, CountedAfter
<1>3. \A t \in Tags : l \in Linked(t) <=> (lane[l].counted = t /\ lane[l].linked)
  BY DEF Linked, Counted
<1>4. users' = [t \in Tags |-> Linked(t)']
  OBVIOUS
<1>5. CASE SameCount(l)
  <2>1. \A t \in Tags : Linked(t)' = Linked(t)
    BY <1>0, <1>2, <1>3, <1>5 DEF SameCount
  <2>2. users' = users
    BY <2>1, <1>4
  <2> QED BY <1>5, <2>2 DEF SameCount, Shared!Next, Shared!Keep, disks
<1>6. CASE GoesHome(l)
  <2>1. \A t \in Tags : Linked(t)' = Linked(t) \ {l}
    BY <1>0, <1>2, <1>6 DEF GoesHome
  <2>2. CASE \E t \in Tags : l \in Linked(t)
    <3>1. PICK t \in Tags : l \in Linked(t)
      BY <2>2
    <3>2. \A u \in Tags \ {t} : Linked(u)' = Linked(u)
      BY <1>3, <2>1, <3>1
    <3>3. users' = [users EXCEPT ![t] = @ \ {l}]
      BY <1>4, <2>1, <3>1, <3>2
    <3> QED BY <1>6, <3>1, <3>3 DEF GoesHome, Shared!Next, Shared!Unlink
  <2>3. CASE \A t \in Tags : l \notin Linked(t)
    <3>1. users' = users
      BY <1>4, <2>1, <2>3
    <3> QED BY <1>6, <3>1 DEF GoesHome, disks
  <2> QED BY <2>2, <2>3
<1>7. ASSUME NEW t \in Tags, Counts(l, t)
      PROVE  Shared!Next \/ UNCHANGED disks
  <2>1. ASSUME NEW u \in Tags \ {t}
        PROVE  Linked(u)' = Linked(u)
    <3>1. lane[l].counted # u /\ lane'[l].counted # u
      BY <1>0, <1>7 DEF Counts
    <3> QED BY <1>2, <1>3, <3>1
  <2>2. CASE Linkable(t)
    <3>1. t \in store
      BY <2>2 DEF RefsInv, EntryInv
    <3>2. users' = [users EXCEPT ![t] = @ \cup {l}]
      BY <1>2, <1>4, <1>7, <2>1, <2>2 DEF Counts
    <3> QED BY <1>7, <3>1, <3>2 DEF Counts, Shared!Next, Shared!Link
  <2>3. CASE ~Linkable(t)
    <3>1. Linked(t)' = Linked(t)
      BY <1>0, <1>2, <1>3, <1>7, <2>3 DEF Counts
    <3>2. users' = users
      BY <1>4, <2>1, <3>1
    <3> QED BY <1>7, <3>2 DEF Counts, disks
  <2> QED BY <2>2, <2>3
<1> QED BY <1>1, <1>5, <1>6, <1>7

LEMMA OperatorImplements ==
    ASSUME RefsInv, TRUE \notin Forces, OperatorStep
    PROVE  Shared!Next \/ UNCHANGED disks
<1>1. [t \in Tags |-> Linked(t)]' = [t \in Tags |-> Linked(t)]
  BY OthersLeaveLanes DEF Linked, Counted
<1>2. CASE UNCHANGED store
  BY <1>1, <1>2 DEF disks
<1>3. ASSUME NEW t \in Tags, store' = store \cup {t}
      PROVE  Shared!Next
  BY <1>1, <1>3 DEF Shared!Next, Shared!Keep
<1>4. ASSUME NEW t \in Tags, Delete(t)
      PROVE  Shared!Next
  <2>1. Linked(t) = {}
    BY <1>4, DeleteUncounted, LinkedCounted
  <2>2. [u \in Tags |-> Linked(u)][t] = {}
    BY <2>1
  <2>3. store' = store \ {t}
    BY <1>4 DEF Delete
  <2> QED BY <1>1, <2>2, <2>3 DEF Shared!Next, Shared!Discard
<1>5. CASE CaptureExternal
  <2>1. op.tag \in Tags
    BY <1>5 DEF CaptureExternal, RefsInv, TypeInv, OpTags
  <2>2. store' = store \cup {op.tag} \/ UNCHANGED store
    BY <1>5 DEF CaptureExternal, Captured
  <2> QED BY <2>1, <2>2, <1>2, <1>3
<1>6. UNCHANGED store \/ CaptureExternal \/ (\E t \in Tags : Delete(t) \/ store' = store \cup {t})
  BY DEF OperatorStep, OpenForStart, StartKeeper, SealAfterStart, SealSnapshot, RecordEntry, CaptureInternal,
         Revert, CreateSnapshot, CreateConsistent, Promote, Promoted, AskRevert, RevertStops, storeVars
<1> QED BY <1>2, <1>3, <1>4, <1>5, <1>6

\* No lane is left with a disk that is gone: without --force, the store, with
\* the lanes that counted themselves on one of its disks as users, behaves as
\* SharedDisks.
THEOREM Implements ==
    ASSUME TRUE \notin Forces
    PROVE  Spec => SharedSpec
<1>1. Init => Shared!Init
  <2>1. Init => store = {} /\ \A t \in Tags : Linked(t) = {}
    BY CloneAssumption DEF Init, Linked, Counted, AtHome
  <2>2. (\A t \in Tags : Linked(t) = {}) => [t \in Tags |-> Linked(t)] = [t \in Tags |-> {}]
    OBVIOUS
  <2> QED BY <2>1, <2>2 DEF Shared!Init
<1>2. ASSUME RefsInv, [Next]_vars
      PROVE  [Shared!Next]_(Shared!sharedVars)
  <2>1. UNCHANGED <<store, lane>> => UNCHANGED disks
    BY DEF disks, Linked, Counted
  <2>2. KeeperWrites \/ KeeperStops \/ BaseRebuilt \/ UNCHANGED vars => UNCHANGED <<store, lane>>
    BY DEF KeeperWrites, KeeperStops, BaseRebuilt, vars, storeVars
  <2>3. Shared!Next \/ UNCHANGED disks
    BY <1>2, <2>1, <2>2, LaneImplements, OperatorImplements DEF Next
  <2> QED BY <2>3 DEF disks, Shared!sharedVars
<1>3. RefsInv /\ [Next]_vars => RefsInv'
  BY StepRefs
<1>4. RefsInv /\ [Next]_vars => [Shared!Next]_(Shared!sharedVars)
  BY <1>2
<1> QED BY <1>1, <1>3, <1>4, InitRefs, PTL DEF Spec, SharedSpec, Shared!Spec

\* What the promise is for: without --force no counted lane is ever linked to a disk
\* that is gone.  It follows from the promise alone, whatever keeps it.
THEOREM NobodyDangles ==
    ASSUME TRUE \notin Forces
    PROVE  Spec => []Shared!NoneDangling
<1> DEFINE Users == [t \in Tags |-> Linked(t)]
<1>1. Shared!Init => Shared!NoneDangling
  BY DEF Shared!Init, Shared!NoneDangling
<1>2. ASSUME Shared!NoneDangling, [Shared!Next]_(Shared!sharedVars)
      PROVE  Shared!NoneDangling'
  <2> SUFFICES ASSUME NEW t \in Tags, Users'[t] # {} PROVE t \in store'
    BY DEF Shared!NoneDangling
  <2>1. Users[t] # {} => t \in store
    BY <1>2 DEF Shared!NoneDangling
  <2>2. CASE UNCHANGED <<store, Users>>
    BY <2>1, <2>2
  <2>3. ASSUME NEW k \in Tags, Shared!Keep(k) \/ Shared!Discard(k) PROVE t \in store'
    BY <2>1, <2>3 DEF Shared!Keep, Shared!Discard
  <2>4. ASSUME NEW k \in Tags, NEW u \in Lanes, Shared!Link(u, k) \/ Shared!Unlink(u, k)
        PROVE  t \in store'
    BY <2>1, <2>4 DEF Shared!Link, Shared!Unlink
  <2> QED BY <1>2, <2>2, <2>3, <2>4 DEF Shared!Next, Shared!sharedVars
<1>3. Shared!NoneDangling /\ [Shared!Next]_(Shared!sharedVars) => Shared!NoneDangling'
  BY <1>2
<1> QED BY <1>1, <1>3, Implements, PTL DEF SharedSpec, Shared!Spec

----------------------------------------------------------------------------
(* Consistent captures.                                                    *)

\* A strict capture without quiesce was asked for while the keeper is off, and
\* one that is to be recorded found the guest off or frozen.
StrictInv ==
    /\ op.at = "external" /\ op.strict /\ ~op.quiesce => keeper = "off"
    /\ op.at \in {"seal", "record"} /\ op.strict => op.quiet

QuietInv == TypeInv /\ StrictInv /\ ConsistentIsQuiet

LEMMA InitQuiet == Init => QuietInv
<1>1. Init => TypeInv
  BY InitType, InitTags DEF TypeInv
<1>2. Init => StrictInv /\ ConsistentIsQuiet
  BY DEF Init, Idle, NoEntry, StrictInv, ConsistentIsQuiet
<1> QED BY <1>1, <1>2 DEF QuietInv

\* A lane never writes whether an entry is sound.
LEMMA LaneKeepsSound ==
    ASSUME TypeInv, NEW l \in Lanes, LaneStep(l)
    PROVE  (\A t \in Tags : entry'[t].sound = entry[t].sound) /\ UNCHANGED <<op, keeper>>
<1>0. entry \in [Tags -> EntryType] /\ lane \in [Lanes -> LaneType]
  BY TypeParts DEF TypeInv
<1>1. CASE LookupParent(l)
  <2> DEFINE t == lane[l].tag
  <2>1. CASE UNCHANGED storeVars
    BY <1>1, <2>1 DEF LookupParent, storeVars, keeperVars
  <2>2. CASE Promoted(t)
    <3>1. t \in Tags
      BY <1>1 DEF LookupParent, TypeInv, LaneTags
    <3>2. entry' = [entry EXCEPT ![t].kind = "external", ![t].by = "promote"]
      BY <2>2 DEF Promoted
    <3> QED BY <1>0, <1>1, <3>1, <3>2 DEF LookupParent, EntryType, keeperVars
  <2> QED BY <1>1, <2>1, <2>2 DEF LookupParent
<1>2. CASE CountReference(l)
  BY <1>0, <1>2 DEF CountReference, EntryType, keeperVars
<1>3. CASE TearDown(l)
  BY <1>0, <1>3 DEF TearDown, EntryType, keeperVars
<1>4. CASE LockEntity(l) \/ TestFresh(l) \/ CreateOverlay(l) \/ WriteSeed(l) \/ Boot(l)
  BY <1>4 DEF LockEntity, TestFresh, CreateOverlay, WriteSeed, Boot, storeVars, keeperVars
<1> QED BY <1>1, <1>2, <1>3, <1>4 DEF LaneStep

LEMMA StepQuiet ==
    ASSUME QuietInv, ReadFails = FALSE, [Next]_vars
    PROVE  QuietInv'
<1>0. /\ TypeInv' /\ entry \in [Tags -> EntryType] /\ op \in OpType /\ keeper \in {"off", "running"}
  BY StepType, TypeParts DEF QuietInv, TypeInv
<1> SUFFICES StrictInv' /\ ConsistentIsQuiet'
  BY <1>0 DEF QuietInv
<1>a. ASSUME UNCHANGED <<op, entry>>, keeper' = keeper \/ keeper' = "off"
      PROVE  StrictInv' /\ ConsistentIsQuiet'
  BY <1>a DEF QuietInv, StrictInv, ConsistentIsQuiet
<1>b. ASSUME op'.at \notin {"external", "seal", "record"}, UNCHANGED entry
      PROVE  StrictInv' /\ ConsistentIsQuiet'
  BY <1>b DEF QuietInv, StrictInv, ConsistentIsQuiet
<1>c. ASSUME \A t \in Tags : entry'[t].sound, op'.at \notin {"external", "seal", "record"} \/ UNCHANGED <<op, keeper>>
      PROVE  StrictInv' /\ ConsistentIsQuiet'
  BY <1>c DEF QuietInv, StrictInv, ConsistentIsQuiet
<1>1. CASE OpenForStart \/ StartKeeper \/ SealAfterStart \/ Revert
  <2>1. UNCHANGED entry
    BY <1>1 DEF OpenForStart, StartKeeper, SealAfterStart, Revert, storeVars
  <2>2. op'.at \in {"start", "started", "idle", "revived"}
    BY <1>0, <1>1 DEF OpenForStart, StartKeeper, SealAfterStart, Revert, Idle, OpType
  <2> QED BY <2>1, <2>2, <1>b
<1>2. CASE CaptureExternal
  <2>1. op.strict => Quiet(op.quiesce)
    BY <1>2 DEF CaptureExternal, Quiet, QuietInv, StrictInv
  <2>2. UNCHANGED entry
    BY <1>2 DEF CaptureExternal
  <2>3. ASSUME NEW q, NEW at \in {"seal", "record"}, NEW by, Captured(q, at, by), op.strict => q
        PROVE  StrictInv'
    <3>1. op'.at = at /\ op'.quiet = q /\ op'.strict = op.strict
      BY <1>0, <2>3 DEF Captured, OpType
    <3> QED BY <2>3, <3>1 DEF StrictInv
  <2>4. CASE op' = Idle
    BY <2>2, <2>4, <1>b DEF Idle
  <2>5. StrictInv'
    BY <1>2, <2>1, <2>3, <2>4 DEF CaptureExternal
  <2> QED BY <2>2, <2>5 DEF QuietInv, ConsistentIsQuiet
<1>3. CASE SealSnapshot
  <2>1. op'.at = "record" /\ op'.quiet = op.quiet /\ op'.strict = op.strict /\ UNCHANGED entry
    BY <1>0, <1>3 DEF SealSnapshot, OpType
  <2> QED BY <1>3, <2>1 DEF SealSnapshot, QuietInv, StrictInv, ConsistentIsQuiet
<1>4. CASE RecordEntry
  <2>1. op.strict => op.quiet
    BY <1>4 DEF RecordEntry, QuietInv, StrictInv
  <2>2. \A t \in Tags : entry'[t] = entry[t] \/ entry'[t].sound = (op.strict => op.quiet)
    BY <1>0, <1>4 DEF RecordEntry
  <2>3. \A t \in Tags : entry'[t].sound
    BY <2>1, <2>2 DEF QuietInv, ConsistentIsQuiet
  <2> QED BY <1>4, <2>3, <1>c DEF RecordEntry, Idle
<1>5. CASE CaptureInternal
  <2>1. \A t \in Tags : entry'[t].sound
    BY <1>0, <1>5 DEF CaptureInternal, QuietInv, ConsistentIsQuiet, EntryType
  <2> QED BY <1>5, <2>1, <1>c DEF CaptureInternal, Idle
<1>6. ASSUME NEW t \in Tags, CreateSnapshot(t)
      PROVE  StrictInv' /\ ConsistentIsQuiet'
  <2>1. ~op'.strict /\ op'.at \in {"internal", "external"} /\ UNCHANGED entry
    BY <1>6 DEF CreateSnapshot, Ask, Idle, storeVars
  <2> QED BY <2>1 DEF QuietInv, StrictInv, ConsistentIsQuiet
<1>7. ASSUME NEW t \in Tags, CreateConsistent(t)
      PROVE  StrictInv' /\ ConsistentIsQuiet'
  <2>1. PICK running \in SeesRunning :
           \/ running /\ Ask(t, "external", TRUE, TRUE)
           \/ ~running /\ \E at \in {"external", "internal"} : Ask(t, at, FALSE, TRUE)
    BY <1>7 DEF CreateConsistent
  <2>2. ~running => keeper = "off"
    BY <1>0, <2>1, CloneAssumption DEF SeesRunning, QuietInv
  <2>3. ~op'.quiesce => keeper = "off"
    BY <2>1, <2>2 DEF Ask, Idle
  <2>4. op'.at \in {"internal", "external"} /\ UNCHANGED <<entry, keeper>>
    BY <1>7, <2>1 DEF CreateConsistent, Ask, Idle, keeperVars, storeVars
  <2> QED BY <2>3, <2>4 DEF QuietInv, StrictInv, ConsistentIsQuiet
<1>8. ASSUME NEW t \in Tags, Promote(t) \/ Delete(t)
      PROVE  StrictInv' /\ ConsistentIsQuiet'
  <2>1. \A u \in Tags : entry'[u].sound = entry[u].sound \/ entry'[u] = NoEntry
    <3>1. CASE Promote(t)
      BY <1>0, <3>1 DEF Promote, Promoted, EntryType
    <3>2. CASE Delete(t)
      BY <1>0, <3>2 DEF Delete
    <3> QED BY <1>8, <3>1, <3>2
  <2>2. \A u \in Tags : entry'[u].sound
    BY <2>1 DEF NoEntry, QuietInv, ConsistentIsQuiet
  <2> QED BY <1>8, <2>2, <1>c DEF Promote, Delete, keeperVars
<1>9. ASSUME NEW t \in Tags, AskRevert(t) \/ RevertStops(t)
      PROVE  StrictInv' /\ ConsistentIsQuiet'
  BY <1>9, <1>b DEF AskRevert, RevertStops, Idle, storeVars
<1>10. ASSUME NEW l \in Lanes, LaneStep(l)
       PROVE  StrictInv' /\ ConsistentIsQuiet'
  <2>1. (\A t \in Tags : entry'[t].sound = entry[t].sound) /\ UNCHANGED <<op, keeper>>
    BY <1>10, LaneKeepsSound DEF QuietInv
  <2>2. \A t \in Tags : entry'[t].sound
    BY <2>1 DEF QuietInv, ConsistentIsQuiet
  <2> QED BY <2>1, <2>2, <1>c
<1>11. CASE KeeperWrites \/ KeeperStops \/ BaseRebuilt \/ UNCHANGED vars
  BY <1>11, <1>a DEF KeeperWrites, KeeperStops, BaseRebuilt, vars, keeperVars, storeVars
<1> QED BY <1>1, <1>2, <1>3, <1>4, <1>5, <1>6, <1>7, <1>8, <1>9, <1>10, <1>11 DEF Next, OperatorStep

\* create-consistent never records a snapshot of a running guest that was not
\* frozen, as long as reading the keeper's state does not fail
\* (vm_snapshot_composites.go:73-91, where a failing read counts as stopped).
THEOREM ConsistentRecorded ==
    ASSUME ReadFails = FALSE
    PROVE  Spec => []ConsistentIsQuiet
<1>1. QuietInv => ConsistentIsQuiet
  BY DEF QuietInv
<1>2. QuietInv /\ [Next]_vars => QuietInv'
  BY StepQuiet
<1> QED BY <1>1, <1>2, InitQuiet, PTL DEF Spec
----------------------------------------------------------------------------
(* Read-only disks under the clones.                                       *)

\* The disk of a capture about to be recorded is read-only, or is a fallback's.
SealedInv == op.at = "record" => op.by = "fallback" \/ mode[op.tag] = "ro"

ModeInv == TypeInv /\ SealedInv /\ ReadOnlyForClones

LEMMA InitMode == Init => ModeInv
<1>1. Init => TypeInv
  BY InitType, InitTags DEF TypeInv
<1>2. Init => SealedInv /\ ReadOnlyForClones
  BY DEF Init, Idle, SealedInv, ReadOnlyForClones
<1> QED BY <1>1, <1>2 DEF ModeInv

\* A copy made by a promotion, of a tag that is no capture under way.
LEMMA PromotedMode ==
    ASSUME ModeInv, NEW t \in Tags, Promoted(t), UNCHANGED <<op, active>>
    PROVE  SealedInv' /\ ReadOnlyForClones'
<1>0. mode \in [Tags -> {"ro", "rw"}] /\ entry \in [Tags -> EntryType]
  BY TypeParts DEF ModeInv, TypeInv
<1>1. /\ mode' = [mode EXCEPT ![t] = "rw"] /\ store' = store \cup {t}
      /\ entry' = [entry EXCEPT ![t].kind = "external", ![t].by = "promote"]
      /\ entry[t].kind = "internal"
  BY DEF Promoted
<1>2. op.at = "record" => op.tag \in Tags /\ op.tag # t
  BY <1>1 DEF ModeInv, TypeInv, OpTags, Recorded
<1>3. /\ \A u \in Tags \ {t} : entry'[u] = entry[u] /\ mode'[u] = mode[u] /\ (u \in store' <=> u \in store)
      /\ entry'[t].by = "promote"
  BY <1>0, <1>1 DEF EntryType
<1>4. SealedInv'
  BY <1>2, <1>3 DEF ModeInv, SealedInv
<1>5. ReadOnlyForClones'
  BY <1>3 DEF ModeInv, ReadOnlyForClones, Linkable
<1> QED BY <1>4, <1>5

LEMMA OperatorMode ==
    ASSUME ModeInv, OperatorStep
    PROVE  SealedInv' /\ ReadOnlyForClones'
<1>0. /\ mode \in [Tags -> {"ro", "rw"}] /\ entry \in [Tags -> EntryType] /\ op \in OpType
      /\ active \in Tags \cup {NoTag} /\ NoTag \notin Tags
  BY TypeParts, CloneAssumption DEF ModeInv, TypeInv
<1>1. CASE OpenForStart
  <2>1. /\ op'.at = "start" /\ UNCHANGED <<active, store, entry>>
        /\ \A t \in Tags : mode'[t] = mode[t] \/ t = active
    BY <1>0, <1>1 DEF OpenForStart, OpType, keeperVars
  <2>2. op.at \notin {"start", "started"}
    BY <1>1 DEF OpenForStart
  <2> QED BY <2>1, <2>2 DEF ModeInv, SealedInv, ReadOnlyForClones, Linkable
<1>2. CASE StartKeeper
  <2>1. op.at = "start" /\ op'.at = "started" /\ UNCHANGED <<active, store, mode, entry>>
    BY <1>0, <1>2 DEF StartKeeper, OpType, storeVars
  <2> QED BY <2>1 DEF ModeInv, SealedInv, ReadOnlyForClones, Linkable
<1>3. CASE SealAfterStart
  <2>1. /\ op'.at = "idle" /\ UNCHANGED <<active, store, entry>>
        /\ \A t \in Tags : mode'[t] = IF t = active THEN "ro" ELSE mode[t]
    BY <1>0, <1>3 DEF SealAfterStart, Idle, keeperVars
  <2> QED BY <2>1 DEF ModeInv, SealedInv, ReadOnlyForClones, Linkable
<1>4. CASE CaptureExternal
  <2>1. op.at = "external" /\ op.tag \in Tags /\ ~Recorded(op.tag) /\ UNCHANGED entry
    BY <1>4 DEF CaptureExternal, ModeInv, TypeInv, OpTags
  <2>2. CASE op' = Idle /\ UNCHANGED <<store, mode>>
    BY <2>1, <2>2 DEF ModeInv, SealedInv, ReadOnlyForClones, Linkable, Idle
  <2>3. ASSUME NEW q, NEW at, NEW by, at = "record" => by = "fallback", Captured(q, at, by)
        PROVE  SealedInv' /\ ReadOnlyForClones'
    <3>1. op'.at = at /\ op'.by = by
      BY <1>0, <2>3 DEF Captured, OpType
    <3>2. \A t \in Tags \ {op.tag} : mode'[t] = mode[t] /\ (t \in store' <=> t \in store)
      BY <1>0, <2>3 DEF Captured
    <3>3. entry'[op.tag].kind # "external"
      BY <2>1 DEF Recorded
    <3> QED BY <2>1, <2>3, <3>1, <3>2, <3>3 DEF ModeInv, SealedInv, ReadOnlyForClones, Linkable
  <2> QED BY <1>4, <2>2, <2>3 DEF CaptureExternal
<1>5. CASE SealSnapshot
  <2>1. /\ op.at = "seal" /\ op'.tag = op.tag /\ op.tag \in Tags /\ UNCHANGED <<store, entry>>
        /\ mode' = [mode EXCEPT ![op.tag] = "ro"]
    BY <1>0, <1>5 DEF SealSnapshot, OpType, ModeInv, TypeInv, OpTags
  <2>2. \A t \in Tags : mode'[t] = IF t = op.tag THEN "ro" ELSE mode[t]
    BY <1>0, <2>1
  <2> QED BY <2>1, <2>2 DEF ModeInv, SealedInv, ReadOnlyForClones, Linkable
<1>6. CASE RecordEntry
  <2>1. op.at = "record" /\ op.tag \in Tags /\ op' = Idle /\ UNCHANGED <<store, mode>>
    BY <1>6 DEF RecordEntry, ModeInv, TypeInv, OpTags
  <2>2. (\A t \in Tags \ {op.tag} : entry'[t] = entry[t]) /\ entry'[op.tag].by = op.by
    BY <1>0, <1>6, <2>1 DEF RecordEntry
  <2> QED BY <2>1, <2>2 DEF ModeInv, SealedInv, ReadOnlyForClones, Linkable, Idle
<1>7. CASE CaptureInternal
  <2>1. op.at = "internal" /\ op.tag \in Tags /\ op' = Idle /\ UNCHANGED <<store, mode>>
    BY <1>7 DEF CaptureInternal, ModeInv, TypeInv, OpTags
  <2>2. \A t \in Tags : entry'[t] = entry[t] \/ entry'[t].kind = "internal"
    BY <1>0, <1>7, <2>1 DEF CaptureInternal
  <2> QED BY <2>1, <2>2 DEF ModeInv, SealedInv, ReadOnlyForClones, Linkable, Idle
<1>8. CASE Revert
  <2>1. op.at \in {"revert", "revertOnly"} /\ op'.at \in {"revived", "idle"} /\ UNCHANGED <<store, mode, entry>>
    BY <1>8 DEF Revert, Idle, storeVars
  <2> QED BY <2>1 DEF ModeInv, SealedInv, ReadOnlyForClones, Linkable
<1>9. ASSUME NEW t \in Tags, CreateSnapshot(t) \/ CreateConsistent(t) \/ AskRevert(t) \/ RevertStops(t)
      PROVE  SealedInv' /\ ReadOnlyForClones'
  <2>1. /\ op.at = "idle" /\ op'.at \in {"external", "internal", "revert", "revertOnly"}
        /\ UNCHANGED <<store, mode, entry>>
    BY <1>9 DEF CreateSnapshot, CreateConsistent, AskRevert, RevertStops, Ask, Idle, storeVars
  <2> QED BY <2>1 DEF ModeInv, SealedInv, ReadOnlyForClones, Linkable
<1>10. ASSUME NEW t \in Tags, Promote(t)
       PROVE  SealedInv' /\ ReadOnlyForClones'
  BY <1>10, PromotedMode DEF Promote, keeperVars
<1>11. ASSUME NEW t \in Tags, Delete(t)
       PROVE  SealedInv' /\ ReadOnlyForClones'
  <2>1. /\ op.at = "idle" /\ UNCHANGED <<op, active>> /\ entry'[t].kind = "none"
        /\ \A u \in Tags \ {t} : entry'[u] = entry[u] /\ mode'[u] = mode[u] /\ (u \in store' <=> u \in store)
    BY <1>0, <1>11 DEF Delete, NoEntry, keeperVars
  <2> QED BY <2>1 DEF ModeInv, SealedInv, ReadOnlyForClones, Linkable
<1> QED BY <1>1, <1>2, <1>3, <1>4, <1>5, <1>6, <1>7, <1>8, <1>9, <1>10, <1>11 DEF OperatorStep

\* A lane changes no mode unless it promotes.
LEMMA LaneMode ==
    ASSUME ModeInv, NEW l \in Lanes, LaneStep(l)
    PROVE  SealedInv' /\ ReadOnlyForClones'
<1>0. entry \in [Tags -> EntryType] /\ lane \in [Lanes -> LaneType]
  BY TypeParts DEF ModeInv, TypeInv
<1>a. ASSUME UNCHANGED <<op, active, store, mode>>,
             \A t \in Tags : entry'[t].kind = entry[t].kind /\ entry'[t].by = entry[t].by
      PROVE  SealedInv' /\ ReadOnlyForClones'
  BY <1>a DEF ModeInv, SealedInv, ReadOnlyForClones, Linkable
<1>1. CASE LookupParent(l)
  <2>1. lane[l].tag \in Tags /\ UNCHANGED <<op, active>>
    BY <1>1 DEF LookupParent, ModeInv, TypeInv, LaneTags, keeperVars
  <2>2. Promoted(lane[l].tag) \/ UNCHANGED storeVars
    BY <1>1 DEF LookupParent
  <2> QED BY <2>1, <2>2, <1>a, PromotedMode DEF storeVars
<1>2. CASE CountReference(l)
  BY <1>0, <1>2, <1>a DEF CountReference, EntryType, keeperVars
<1>3. CASE TearDown(l)
  BY <1>0, <1>3, <1>a DEF TearDown, EntryType, keeperVars
<1>4. CASE LockEntity(l) \/ TestFresh(l) \/ CreateOverlay(l) \/ WriteSeed(l) \/ Boot(l)
  BY <1>4, <1>a DEF LockEntity, TestFresh, CreateOverlay, WriteSeed, Boot, storeVars, keeperVars
<1> QED BY <1>1, <1>2, <1>3, <1>4 DEF LaneStep

LEMMA StepMode ==
    ASSUME ModeInv, [Next]_vars
    PROVE  ModeInv'
<1>1. TypeInv'
  BY StepType DEF ModeInv
<1>2. CASE KeeperWrites \/ KeeperStops \/ BaseRebuilt \/ UNCHANGED vars
  <2>1. UNCHANGED <<op, active, store, mode, entry>>
    BY <1>2 DEF KeeperWrites, KeeperStops, BaseRebuilt, vars, keeperVars, storeVars
  <2> QED BY <1>1, <2>1 DEF ModeInv, SealedInv, ReadOnlyForClones, Linkable
<1> QED BY <1>1, <1>2, OperatorMode, LaneMode DEF Next, ModeInv

\* A recorded capture is read-only from the moment the registry names it, so
\* that the clones can open it together, except while its keeper is started on
\* it (vm_snapshot_libvirt.go:147-159, the chmod after the capture, and :190-226,
\* the two around a start); whatever the lanes, reverts and deletions do meanwhile.
THEOREM ClonesFindReadOnly == Spec => []ReadOnlyForClones
<1>1. ModeInv => ReadOnlyForClones
  BY DEF ModeInv
<1>2. ModeInv /\ [Next]_vars => ModeInv'
  BY StepMode
<1> QED BY <1>1, <1>2, InitMode, PTL DEF Spec
----------------------------------------------------------------------------
(* Builds of one entity exclude each other.                                *)

\* The entity lock: no two lanes build the same entity.
OneBuilder ==
    \A k, l \in Lanes : k # l /\ lane[k].at \in InBuild /\ lane[l].at \in InBuild => lane[k].e # lane[l].e

LinkInv == TypeInv /\ OneBuilder /\ CountsWhatItLinked

\* What a lane's step does to its own record, and to the overlays.
LEMMA LaneBuild ==
    ASSUME TypeInv, NEW l \in Lanes, LaneStep(l)
    PROVE  /\ \A k \in Lanes \ {l} : lane'[k] = lane[k]
           /\ \/ lane'[l].at \notin InBuild
              \/ lane[l].at \in InBuild /\ lane'[l].e = lane[l].e /\ lane'[l].tag = lane[l].tag
              \/ ~Locked(lane'[l].e) /\ lane'[l].at = "lookup"
           /\ \A e \in Entities : overlay'[e] = overlay[e] \/ (e = lane[l].e /\ lane[l].at = "create")
           /\ lane'[l].at = "count" => overlay'[lane'[l].e] = lane'[l].tag
<1>0. /\ lane \in [Lanes -> LaneType] /\ overlay \in [Entities -> Tags \cup {NoTag}]
      /\ lane[l].at # "idle" => lane[l].tag \in Tags /\ lane[l].e \in Entities
  BY TypeParts DEF TypeInv, LaneTags
<1>a. ASSUME NEW at, Go(l, at)
      PROVE  /\ \A k \in Lanes \ {l} : lane'[k] = lane[k]
             /\ lane'[l].at = at /\ lane'[l].e = lane[l].e /\ lane'[l].tag = lane[l].tag
  BY <1>0, <1>a DEF Go, LaneType
<1>b. ASSUME BuildFails(l)
      PROVE  (\A k \in Lanes \ {l} : lane'[k] = lane[k]) /\ lane'[l].at = "idle"
  BY <1>0, <1>b DEF BuildFails, AtHome
<1> USE DEF InBuild
<1>1. CASE LockEntity(l)
  <2>1. PICK e \in Entities, t \in Tags :
           /\ ~Locked(e)
           /\ lane' = [lane EXCEPT ![l] = [AtHome EXCEPT !.at = "lookup", !.e = e, !.tag = t]]
    BY <1>1 DEF LockEntity
  <2>2. (\A k \in Lanes \ {l} : lane'[k] = lane[k]) /\ lane'[l].at = "lookup" /\ lane'[l].e = e
    BY <1>0, <2>1 DEF AtHome
  <2> QED BY <1>1, <2>1, <2>2 DEF LockEntity, cloneVars
<1>2. CASE LookupParent(l)
  BY <1>2, <1>a, <1>b DEF LookupParent
<1>3. CASE TestFresh(l)
  BY <1>3, <1>a DEF TestFresh, CloneDiskFresh, cloneVars
<1>4. CASE CreateOverlay(l)
  BY <1>0, <1>4, <1>a, <1>b DEF CreateOverlay, cloneVars
<1>5. CASE CountReference(l)
  <2>1. /\ \A k \in Lanes \ {l} : lane'[k] = lane[k]
        /\ lane'[l].at = "seed" /\ lane'[l].e = lane[l].e /\ lane'[l].tag = lane[l].tag
    BY <1>0, <1>5, <1>a DEF CountReference, LaneType
  <2> QED BY <1>5, <2>1 DEF CountReference, cloneVars
<1>6. CASE WriteSeed(l) \/ Boot(l)
  BY <1>6, <1>a, <1>b DEF WriteSeed, Boot, cloneVars
<1>7. CASE TearDown(l)
  BY <1>7, <1>b DEF TearDown, BuildFails, cloneVars
<1> QED BY <1>1, <1>2, <1>3, <1>4, <1>5, <1>6, <1>7 DEF LaneStep

LEMMA StepLink ==
    ASSUME LinkInv, [Next]_vars
    PROVE  LinkInv'
<1>1. TypeInv'
  BY StepType DEF LinkInv
<1>2. CASE UNCHANGED <<lane, overlay>>
  BY <1>1, <1>2 DEF LinkInv, OneBuilder, CountsWhatItLinked
<1>3. ASSUME NEW l \in Lanes, LaneStep(l)
      PROVE  LinkInv'
  <2>1. /\ \A k \in Lanes \ {l} : lane'[k] = lane[k]
        /\ \/ lane'[l].at \notin InBuild
           \/ lane[l].at \in InBuild /\ lane'[l].e = lane[l].e /\ lane'[l].tag = lane[l].tag
           \/ ~Locked(lane'[l].e) /\ lane'[l].at = "lookup"
        /\ \A e \in Entities : overlay'[e] = overlay[e] \/ (e = lane[l].e /\ lane[l].at = "create")
        /\ lane'[l].at = "count" => overlay'[lane'[l].e] = lane'[l].tag
    BY <1>3, LaneBuild DEF LinkInv
  <2>2. ASSUME NEW k \in Lanes \ {l}, lane[k].at \in InBuild, lane'[l].at \in InBuild
        PROVE  lane'[l].e # lane[k].e
    BY <2>1, <2>2 DEF LinkInv, OneBuilder, Locked
  <2>3. OneBuilder'
    BY <2>1, <2>2 DEF LinkInv, OneBuilder
  <2>4. ASSUME NEW k \in Lanes, lane'[k].at = "count"
        PROVE  overlay'[lane'[k].e] = lane'[k].tag
    <3>1. CASE k = l
      BY <2>1, <2>4, <3>1
    <3>2. CASE k # l
      <4>1. lane'[k] = lane[k] /\ lane[k].e \in Entities /\ overlay[lane[k].e] = lane[k].tag
        BY <2>1, <2>4, <3>2 DEF LinkInv, TypeInv, LaneTags, CountsWhatItLinked
      <4>2. lane[l].at = "create" => lane[l].e # lane[k].e
        BY <2>4, <3>2, <4>1 DEF LinkInv, OneBuilder, InBuild
      <4> QED BY <2>1, <4>1, <4>2
    <3> QED BY <3>1, <3>2
  <2> QED BY <1>1, <2>3, <2>4 DEF LinkInv, CountsWhatItLinked
<1>4. OperatorStep => UNCHANGED overlay
  BY DEF OperatorStep, OpenForStart, StartKeeper, SealAfterStart, CaptureExternal, SealSnapshot, RecordEntry,
         CaptureInternal, Revert, CreateSnapshot, CreateConsistent, Promote, Delete, AskRevert, RevertStops, cloneVars
<1>5. KeeperWrites \/ KeeperStops \/ BaseRebuilt \/ UNCHANGED vars => UNCHANGED <<lane, overlay>>
  BY DEF KeeperWrites, KeeperStops, BaseRebuilt, vars, cloneVars
<1> QED BY <1>2, <1>3, <1>4, <1>5, OthersLeaveLanes DEF Next

LEMMA InitLink == Init => LinkInv
<1>1. Init => TypeInv
  BY InitType, InitTags DEF TypeInv
<1>2. Init => OneBuilder /\ CountsWhatItLinked
  BY DEF Init, AtHome, OneBuilder, CountsWhatItLinked, InBuild
<1> QED BY <1>1, <1>2 DEF LinkInv

\* A build that counts its reference has its overlay on the snapshot it counts,
\* however many lanes build the same entity (vm_clone.go:184-226, under the entity
\* lock of vm_build.go:97-106).
THEOREM LinkedWhatItCounts == Spec => []CountsWhatItLinked
<1>1. LinkInv => CountsWhatItLinked
  BY DEF LinkInv
<1>2. LinkInv /\ [Next]_vars => LinkInv'
  BY StepLink
<1> QED BY <1>1, <1>2, InitLink, PTL DEF Spec

=============================================================================
