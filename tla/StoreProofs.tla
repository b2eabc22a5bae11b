------------------------------ MODULE StoreProofs ------------------------------
(***************************************************************************)
(* The WORM adapter, for any number of objects, writers, custodians and    *)
(* crashes, any retentions and any clock: what is put is born locked       *)
(* (BornLocked), what is retained reads (RetainedReadable), and where no   *)
(* two writers meet the bucket is a write-once store (ImmutableStore).     *)
(*                                                                         *)
(* The dead letter queue, for any number of recorders, events and failures *)
(* and any policy: retries end (RetriesEnd), and every failure is          *)
(* accounted for (Accounted).                                              *)
(***************************************************************************)
EXTENDS Worm, Dlq, SequenceTheorems, TLAPS

-----------------------------------------------------------------------------
(* WORM: the inductive invariant.                                          *)

Stages == {"down", "making", "made", "versioned", "locked", "ready"}

CustodyCalls ==
  [op : {"extend", "delete"}, key : Objects, until : Nat, version : Nat \cup {Absent}]

WormTypes ==
  /\ clock \in Nat /\ puts \in Nat
  /\ bucket \in Buckets \cup {Absent}
  /\ versions \in [Objects -> Seq(Versions)]
  /\ stage \in [Processes -> Stages]
  /\ writing \in [Processes -> Objects \cup {Absent}]
  /\ admin \in [Custodians -> CustodyCalls \cup {Absent}]

\* The bucket's default is a retention some writer is configured with.
DefaultSet == bucket.lock /\ bucket.days \in Floors

\* How far a process can have come with the bucket.
BootLawful ==
  \A p \in Processes :
    /\ stage[p] \in {"made", "versioned", "locked", "ready"} => bucket # Absent
    /\ stage[p] = "locked" => bucket.lock /\ DaysOf[p] # Absent
    /\ stage[p] = "ready" /\ DaysOf[p] # Absent => DefaultSet

\* Whoever is about to put has come through all of it.
WritersReady == \A p \in Processes : writing[p] # Absent => MayWrite(p)

\* A version is never a marker, and was locked when it was put.
Born(v) == ~v.marker /\ \E d \in Floors : v.until >= v.at + d

AllBorn == \A k \in Objects : \A i \in DOMAIN versions[k] : Born(versions[k][i])

WormIInv == WormTypes /\ BootLawful /\ WritersReady /\ AllBorn

-----------------------------------------------------------------------------
(* The operators.                                                          *)

\* A retention is a number of days.
LEMMA FloorsAreDays == Floors \subseteq Nat \ {0} /\ Absent \notin Floors
BY WormAssumption DEF Floors

\* A bucket without a default is a bucket.
LEMMA NewBucket ==
  ASSUME NEW on \in BOOLEAN
  PROVE  [lock |-> on, versioned |-> on, days |-> Absent] \in Buckets
BY DEF Buckets

\* Taking a version out leaves versions that were there.
LEMMA WithoutKeeps ==
  ASSUME NEW vs \in Seq(Versions), NEW i \in DOMAIN vs
  PROVE  /\ Without(vs, i) \in Seq(Versions)
         /\ \A j \in DOMAIN Without(vs, i) : \E m \in DOMAIN vs : Without(vs, i)[j] = vs[m]
<1>1. Len(vs) \in Nat \ {0} /\ DOMAIN vs = 1..Len(vs) /\ i \in 1..Len(vs)
  OBVIOUS
<1>2. DOMAIN Without(vs, i) = 1..(Len(vs) - 1)
  BY DEF Without
<1>3. ASSUME NEW j \in 1..(Len(vs) - 1)
      PROVE  \E m \in DOMAIN vs : Without(vs, i)[j] = vs[m]
  <2>1. j \in DOMAIN vs /\ j + 1 \in DOMAIN vs
    BY <1>1, <1>3
  <2>2. Without(vs, i)[j] = IF j < i THEN vs[j] ELSE vs[j + 1]
    BY <1>3 DEF Without
  <2> QED BY <2>1, <2>2
<1>4. \A m \in DOMAIN vs : vs[m] \in Versions
  OBVIOUS
<1>5. Without(vs, i) \in [1..(Len(vs) - 1) -> Versions]
  BY <1>3, <1>4 DEF Without
<1>6. Len(vs) - 1 \in Nat
  BY <1>1
<1> QED BY <1>2, <1>3, <1>5, <1>6

\* What a read serves is absent exactly where there is no version.
LEMMA ServedIsVersion ==
  ASSUME WormIInv, NEW k \in Objects
  PROVE  /\ Served(k) # Absent <=> versions[k] # <<>>
         /\ Served(k) # Absent => Served(k) \in Versions
<1>1. versions[k] \in Seq(Versions)
  BY DEF WormIInv, WormTypes
<1>2. versions[k] # <<>> => /\ versions[k][Len(versions[k])] \in Versions
                            /\ Len(versions[k]) \in DOMAIN versions[k]
  BY <1>1
<1>3. versions[k] # <<>> => ~versions[k][Len(versions[k])].marker
  BY <1>2 DEF WormIInv, AllBorn, Born
<1> QED BY <1>2, <1>3, WormAssumption DEF Served

-----------------------------------------------------------------------------
(* The initial states and the steps.                                       *)

LEMMA WormInitially == WormInit => WormIInv
<1> SUFFICES ASSUME WormInit PROVE WormIInv
  OBVIOUS
<1>1. bucket \in Buckets \cup {Absent}
  <2>1. [lock |-> FALSE, versioned |-> FALSE, days |-> Absent] \in Buckets
    BY NewBucket
  <2>2. [lock |-> TRUE, versioned |-> TRUE, days |-> Absent] \in Buckets
    BY NewBucket
  <2> QED BY <2>1, <2>2 DEF WormInit
<1>2. clock \in Nat /\ puts \in Nat
  BY DEF WormInit
<1>3. WormTypes
  BY <1>1, <1>2 DEF WormInit, WormTypes, Stages
<1>4. BootLawful /\ WritersReady /\ AllBorn
  BY <1>1 DEF WormInit, BootLawful, WritersReady, AllBorn
<1> QED BY <1>3, <1>4 DEF WormIInv

\* A step of ensureBucket touches the bucket and the stage of its process.
LEMMA BootKeeps ==
  ASSUME WormIInv, NEW p \in Processes,
         \/ BucketExists(p) \/ MakeBucket(p) \/ SetBucketVersioning(p)
         \/ AssertObjectLockEnabled(p) \/ SetObjectLockConfig(p)
  PROVE  WormIInv'
<1>1. Booting /\ DaysOf[p] \in {Absent} \cup (Nat \ {0})
  BY WormAssumption DEF BucketExists, MakeBucket, SetBucketVersioning, AssertObjectLockEnabled,
     SetObjectLockConfig
<1>2. AllBorn'
  BY <1>1 DEF WormIInv, AllBorn, Booting
<1>3. stage \in [Processes -> Stages] /\ bucket \in Buckets \cup {Absent}
  BY DEF WormIInv, WormTypes
<1>4. stage[p] # "ready"
  BY DEF At, BucketExists, MakeBucket, SetBucketVersioning, AssertObjectLockEnabled,
         SetObjectLockConfig
<1>5. WritersReady'
  <2>1. \A q \in Processes \ {p} : stage'[q] = stage[q]
    BY <1>3 DEF At, BucketExists, MakeBucket, SetBucketVersioning, AssertObjectLockEnabled,
       SetObjectLockConfig
  <2>2. writing[p] = Absent
    BY <1>4 DEF WormIInv, WritersReady, MayWrite
  <2> QED BY <1>1, <2>1, <2>2 DEF WormIInv, WritersReady, MayWrite, Booting
<1>6. bucket' \in Buckets \cup {Absent} /\ stage' \in [Processes -> Stages] /\ BootLawful'
  <2>1. CASE BucketExists(p)
    BY <1>3, <2>1 DEF WormIInv, BootLawful, BucketExists, At, Stages, DefaultSet
  <2>2. CASE MakeBucket(p)
    <3>1. [lock |-> TRUE, versioned |-> TRUE, days |-> Absent] \in Buckets
      BY NewBucket
    <3>2. bucket' # Absent /\ bucket' \in Buckets /\ (bucket # Absent => bucket' = bucket)
      BY <1>3, <2>2, <3>1, WormAssumption DEF MakeBucket
    <3>3. stage' \in [Processes -> Stages] /\ stage'[p] \in {"made", "down"}
          /\ \A q \in Processes \ {p} : stage'[q] = stage[q]
      BY <1>3, <2>2 DEF MakeBucket, At, Stages
    <3> QED BY <3>2, <3>3 DEF WormIInv, BootLawful, DefaultSet
  <2>3. CASE SetBucketVersioning(p)
    BY <1>3, <2>3, WormAssumption
       DEF WormIInv, BootLawful, SetBucketVersioning, At, Stages, DefaultSet, Buckets
  <2>4. CASE AssertObjectLockEnabled(p)
    BY <1>3, <2>4 DEF WormIInv, BootLawful, AssertObjectLockEnabled, AfterVersioning, At, Stages,
       DefaultSet
  <2>5. CASE SetObjectLockConfig(p)
    BY <1>1, <1>3, <2>5, WormAssumption
       DEF WormIInv, BootLawful, SetObjectLockConfig, At, Stages, DefaultSet, Buckets, Floors
  <2> QED BY <2>1, <2>2, <2>3, <2>4, <2>5
<1> QED BY <1>1, <1>2, <1>5, <1>6 DEF WormIInv, WormTypes, Booting

LEMMA WormCrashKeeps ==
  ASSUME WormIInv, NEW p \in Processes, CrashWriter(p)
  PROVE  WormIInv'
<1>1. /\ stage' = [stage EXCEPT ![p] = "down"]
      /\ writing' = [writing EXCEPT ![p] = Absent]
      /\ UNCHANGED <<clock, bucket, versions, puts, admin>>
  BY DEF CrashWriter
<1>2. WormTypes' /\ AllBorn'
  BY <1>1 DEF WormIInv, WormTypes, AllBorn, Stages
<1>3. BootLawful' /\ WritersReady'
  BY <1>1 DEF WormIInv, WormTypes, BootLawful, DefaultSet, WritersReady, MayWrite
<1> QED BY <1>2, <1>3 DEF WormIInv

LEMMA PutCheckKeeps ==
  ASSUME WormIInv, NEW p \in Processes, NEW k \in Objects, NEW failed \in BOOLEAN,
         PutCheck(p, k, failed)
  PROVE  WormIInv'
<1>1. /\ MayWrite(p)
      /\ writing' = [writing EXCEPT ![p] = k]
      /\ UNCHANGED <<clock, bucket, versions, puts, stage, admin>>
  BY DEF PutCheck
<1>2. WormTypes' /\ AllBorn' /\ BootLawful'
  BY <1>1 DEF WormIInv, WormTypes, AllBorn, BootLawful, DefaultSet
<1>3. WritersReady'
  BY <1>1 DEF WormIInv, WormTypes, WritersReady, MayWrite
<1> QED BY <1>2, <1>3 DEF WormIInv

\* The put is locked by the bucket's default, which is that of some writer.
LEMMA PutObjectKeeps ==
  ASSUME WormIInv, NEW p \in Processes, PutObject(p)
  PROVE  WormIInv'
<1> DEFINE k == writing[p]
           new == [id |-> puts + 1, marker |-> FALSE, hold |-> FALSE, at |-> clock,
                   until |-> IF bucket.lock /\ bucket.days # Absent THEN clock + bucket.days
                             ELSE clock]
<1>1. /\ k # Absent /\ k \in Objects
      /\ versions' = [versions EXCEPT ![k] = Append(@, new)]
      /\ puts' = puts + 1
      /\ writing' = [writing EXCEPT ![p] = Absent]
      /\ UNCHANGED <<clock, bucket, stage, admin>>
  BY DEF PutObject, Stored, WormIInv, WormTypes
<1>2. bucket.lock /\ bucket.days \in Floors /\ bucket.days \in Nat /\ bucket.days # Absent
  BY <1>1, FloorsAreDays DEF WormIInv, WritersReady, MayWrite, BootLawful, DefaultSet
<1>3. new \in Versions /\ Born(new)
  BY <1>2 DEF WormIInv, WormTypes, Versions, Born
<1>4. versions[k] \in Seq(Versions) /\ Append(versions[k], new) \in Seq(Versions)
  BY <1>1, <1>3 DEF WormIInv, WormTypes
<1>5. \A i \in DOMAIN Append(versions[k], new) : Born(Append(versions[k], new)[i])
  BY <1>1, <1>3, <1>4 DEF WormIInv, AllBorn
<1>6. WormTypes'
  BY <1>1, <1>4 DEF WormIInv, WormTypes
<1>7. AllBorn'
  BY <1>1, <1>5 DEF WormIInv, WormTypes, AllBorn
<1>8. BootLawful' /\ WritersReady'
  BY <1>1 DEF WormIInv, WormTypes, BootLawful, DefaultSet, WritersReady, MayWrite
<1> QED BY <1>6, <1>7, <1>8 DEF WormIInv

\* A step that leaves the writers alone keeps the invariant if it leaves versions
\* that were born locked.
LEMMA CustodyKeeps ==
  ASSUME WormIInv, UNCHANGED <<bucket, stage, writing>>, clock' \in Nat, puts' \in Nat,
         admin' \in [Custodians -> CustodyCalls \cup {Absent}],
         versions' \in [Objects -> Seq(Versions)], AllBorn'
  PROVE  WormIInv'
BY DEF WormIInv, WormTypes, BootLawful, DefaultSet, WritersReady, MayWrite

\* A call that has only started has changed no version.
LEMMA StartedKeeps ==
  ASSUME WormIInv, NEW c \in Custodians, NEW k \in Objects, NEW failed, NEW call \in CustodyCalls,
         Started(c, k, failed, call)
  PROVE  WormIInv'
<1>1. /\ admin' = [admin EXCEPT ![c] = call]
      /\ UNCHANGED <<clock, bucket, puts, stage, writing, versions>>
  BY DEF Started, Administered
<1>2. admin' \in [Custodians -> CustodyCalls \cup {Absent}] /\ AllBorn'
  BY <1>1 DEF WormIInv, WormTypes, AllBorn
<1> QED BY <1>1, <1>2, CustodyKeeps DEF WormIInv, WormTypes

LEMMA LatestVersionIdKeeps ==
  ASSUME WormIInv, NEW c \in Custodians, LatestVersionId(c)
  PROVE  WormIInv'
<1> DEFINE call == admin[c]
           served == Served(call.key)
<1>1. /\ call # Absent
      /\ admin' = [admin EXCEPT ![c] =
           IF served = Absent THEN Absent ELSE [call EXCEPT !.version = served.id]]
      /\ UNCHANGED <<clock, bucket, puts, stage, writing, versions>>
  BY DEF LatestVersionId, Administered
<1>2. call \in CustodyCalls /\ call.key \in Objects
  BY <1>1 DEF WormIInv, WormTypes, CustodyCalls
<1>3. served # Absent => served.id \in Nat
  BY <1>2, ServedIsVersion DEF Versions
<1>4. served # Absent => [call EXCEPT !.version = served.id] \in CustodyCalls
  BY <1>2, <1>3 DEF CustodyCalls
<1>5. admin' \in [Custodians -> CustodyCalls \cup {Absent}] /\ AllBorn'
  BY <1>1, <1>4 DEF WormIInv, WormTypes, AllBorn
<1> QED BY <1>1, <1>5, CustodyKeeps DEF WormIInv, WormTypes

\* A change of one version by its id changes at most that one, and leaves a
\* sequence of versions.
LEMMA ChangedVersions ==
  ASSUME WormIInv, NEW k \in Objects, NEW changed \in Seq(Versions),
         DOMAIN changed = DOMAIN versions[k],
         \A i \in DOMAIN changed : Born(changed[i]),
         versions' = [versions EXCEPT ![k] = changed]
  PROVE  versions' \in [Objects -> Seq(Versions)] /\ (UNCHANGED clock => AllBorn')
<1>1. versions \in [Objects -> Seq(Versions)] /\ AllBorn
  BY DEF WormIInv, WormTypes
<1>2. versions' \in [Objects -> Seq(Versions)]
  BY <1>1
<1>3. AllBorn'
  BY <1>1 DEF AllBorn
<1> QED BY <1>2, <1>3

\* A retention is only ever extended.
LEMMA PutObjectRetentionKeeps ==
  ASSUME WormIInv, NEW c \in Custodians, PutObjectRetention(c)
  PROVE  WormIInv'
<1> DEFINE call == admin[c]
           k == call.key
           vs == versions[k]
           Extended(v) == IF call.until >= v.until THEN [v EXCEPT !.until = call.until] ELSE v
           changed == [i \in DOMAIN vs |-> IF vs[i].id = call.version THEN Extended(vs[i]) ELSE vs[i]]
<1>1. /\ call # Absent
      /\ versions' = [versions EXCEPT ![k] = changed]
      /\ admin' = [admin EXCEPT ![c] = Absent]
      /\ UNCHANGED <<clock, bucket, puts, stage, writing>>
  BY DEF PutObjectRetention, Administered, OfVersion
<1>2. k \in Objects /\ call.until \in Nat /\ vs \in Seq(Versions)
  BY <1>1 DEF WormIInv, WormTypes, CustodyCalls
<1>3. \A i \in DOMAIN vs : vs[i] \in Versions /\ Born(vs[i])
  BY <1>2 DEF WormIInv, AllBorn
<1>4. ASSUME NEW v \in Versions, Born(v)
      PROVE  Extended(v) \in Versions /\ Born(Extended(v))
  <2>1. CASE call.until >= v.until
    <3>1. Extended(v) = [v EXCEPT !.until = call.until]
      BY <2>1
    <3>2. /\ Extended(v) \in Versions /\ ~Extended(v).marker
          /\ Extended(v).until = call.until /\ Extended(v).at = v.at
      BY <1>2, <1>4, <3>1 DEF Versions, Born
    <3>3. PICK d \in Floors : v.until >= v.at + d
      BY <1>4 DEF Born
    <3>4. call.until >= v.at + d
      <4>1. v.until \in Nat /\ v.at \in Nat /\ d \in Nat
        BY FloorsAreDays DEF Versions
      <4> QED
        BY <1>2, <2>1, <3>3, <4>1
    <3> QED BY <3>2, <3>4 DEF Born
  <2>2. CASE ~(call.until >= v.until)
    BY <1>4, <2>2
  <2> QED BY <2>1, <2>2
<1>5. changed \in Seq(Versions) /\ DOMAIN changed = DOMAIN vs
      /\ \A i \in DOMAIN changed : Born(changed[i])
  <2> HIDE DEF Extended
  <2>1. \A i \in DOMAIN vs : changed[i] \in Versions /\ Born(changed[i])
    BY <1>3, <1>4
  <2>2. DOMAIN vs = 1..Len(vs) /\ Len(vs) \in Nat
    BY <1>2
  <2>3. changed \in [1..Len(vs) -> Versions]
    BY <2>1, <2>2
  <2> QED BY <2>1, <2>2, <2>3
<1>6. versions' \in [Objects -> Seq(Versions)] /\ AllBorn'
  <2> HIDE DEF changed
  <2> QED BY <1>1, <1>2, <1>5, ChangedVersions
<1>7. admin' \in [Custodians -> CustodyCalls \cup {Absent}]
  BY <1>1 DEF WormIInv, WormTypes
<1> QED BY <1>1, <1>6, <1>7, CustodyKeeps DEF WormIInv, WormTypes

LEMMA SetLegalHoldKeeps ==
  ASSUME WormIInv, NEW c \in Custodians, NEW k \in Objects, NEW on \in BOOLEAN, SetLegalHold(c, k, on)
  PROVE  WormIInv'
<1> DEFINE vs == versions[k]
           id == Served(k).id
           changed == [i \in DOMAIN vs |-> IF vs[i].id = id THEN [vs[i] EXCEPT !.hold = on] ELSE vs[i]]
<1>1. /\ versions' = [versions EXCEPT ![k] = changed]
      /\ UNCHANGED <<clock, bucket, puts, stage, writing, admin>>
  BY DEF SetLegalHold, Administered, OfVersion
<1>2. vs \in Seq(Versions)
  BY DEF WormIInv, WormTypes
<1>3. \A i \in DOMAIN vs : vs[i] \in Versions /\ Born(vs[i])
  BY <1>2 DEF WormIInv, AllBorn
<1>4. ASSUME NEW v \in Versions, Born(v)
      PROVE  [v EXCEPT !.hold = on] \in Versions /\ Born([v EXCEPT !.hold = on])
  BY <1>4 DEF Versions, Born
<1>5. \A i \in DOMAIN vs : changed[i] \in Versions /\ Born(changed[i])
  BY <1>3, <1>4
<1>6. DOMAIN vs = 1..Len(vs) /\ Len(vs) \in Nat
  BY <1>2
<1>7. changed \in Seq(Versions) /\ DOMAIN changed = DOMAIN vs
  <2>1. changed \in [1..Len(vs) -> Versions]
    BY <1>5, <1>6
  <2> QED BY <1>6, <2>1
<1>8. versions' \in [Objects -> Seq(Versions)] /\ AllBorn'
  <2> HIDE DEF changed
  <2> QED BY <1>1, <1>5, <1>7, ChangedVersions
<1> QED BY <1>1, <1>8, CustodyKeeps DEF WormIInv, WormTypes

\* A version that is removed takes no other with it.
LEMMA RemoveObjectKeeps ==
  ASSUME WormIInv, NEW c \in Custodians, RemoveObject(c)
  PROVE  WormIInv'
<1> DEFINE k == admin[c].key
           vs == versions[k]
           Here == {i \in DOMAIN vs : vs[i].id = admin[c].version}
<1>1. /\ admin[c] # Absent
      /\ versions' = Removed(k, admin[c].version)
      /\ admin' = [admin EXCEPT ![c] = Absent]
      /\ UNCHANGED <<clock, bucket, puts, stage, writing>>
  BY DEF RemoveObject, Administered, Deleted
<1>2. k \in Objects /\ vs \in Seq(Versions) /\ versions \in [Objects -> Seq(Versions)]
  BY <1>1 DEF WormIInv, WormTypes, CustodyCalls
<1>3. versions' \in [Objects -> Seq(Versions)] /\ AllBorn'
  <2>1. CASE \E i \in Here : ~Locked(vs[i])
    <3>1. PICK i \in DOMAIN vs : versions' = [versions EXCEPT ![k] = Without(vs, i)]
      BY <1>1, <2>1 DEF Removed
    <3>2. Without(vs, i) \in Seq(Versions)
          /\ \A j \in DOMAIN Without(vs, i) : \E m \in DOMAIN vs : Without(vs, i)[j] = vs[m]
      BY <1>2, WithoutKeeps
    <3>3. \A j \in DOMAIN Without(vs, i) : Born(Without(vs, i)[j])
      BY <1>2, <3>2 DEF WormIInv, AllBorn
    <3>4. AllBorn'
      BY <1>2, <3>1, <3>3 DEF WormIInv, AllBorn
    <3> QED BY <1>2, <3>1, <3>2, <3>4
  <2>2. CASE ~\E i \in Here : ~Locked(vs[i])
    BY <1>1, <1>2, <2>2 DEF Removed, WormIInv, AllBorn
  <2> QED BY <2>1, <2>2
<1>4. admin' \in [Custodians -> CustodyCalls \cup {Absent}]
  BY <1>1 DEF WormIInv, WormTypes
<1> QED BY <1>1, <1>3, <1>4, CustodyKeeps DEF WormIInv, WormTypes

LEMMA WormInductive == WormIInv /\ [WormNext]_wvars => WormIInv'
<1> SUFFICES ASSUME WormIInv, [WormNext]_wvars PROVE WormIInv'
  OBVIOUS
<1>1. CASE Tick
  <2>1. clock' \in Nat /\ UNCHANGED <<bucket, versions, puts, stage, writing, admin>>
    BY <1>1, WormAssumption DEF Tick, WormIInv, WormTypes
  <2>2. AllBorn'
    BY <2>1 DEF WormIInv, AllBorn
  <2> QED BY <2>1, <2>2, CustodyKeeps DEF WormIInv, WormTypes
<1>2. CASE \E p \in Processes :
             \/ BucketExists(p) \/ MakeBucket(p) \/ SetBucketVersioning(p)
             \/ AssertObjectLockEnabled(p) \/ SetObjectLockConfig(p)
  BY <1>2, BootKeeps
<1>3. CASE \E p \in Processes : CrashWriter(p)
  BY <1>3, WormCrashKeeps
<1>4. CASE \E p \in Processes : \E k \in Objects, failed \in BOOLEAN : PutCheck(p, k, failed)
  BY <1>4, PutCheckKeeps
<1>5. CASE \E p \in Processes : PutObject(p)
  BY <1>5, PutObjectKeeps
<1>6. CASE \E c \in Custodians : LatestVersionId(c)
  BY <1>6, LatestVersionIdKeeps
<1>7. CASE \E c \in Custodians : PutObjectRetention(c)
  BY <1>7, PutObjectRetentionKeeps
<1>8. CASE \E c \in Custodians : RemoveObject(c)
  BY <1>8, RemoveObjectKeeps
<1>9. ASSUME NEW c \in Custodians, NEW k \in Objects, NEW t \in Instants, NEW failed \in BOOLEAN,
             DeleteExpired(c, k, t, failed)
      PROVE  WormIInv'
  <2>1. [op |-> "delete", key |-> k, until |-> 0, version |-> Absent] \in CustodyCalls
    BY DEF CustodyCalls
  <2> QED BY <1>9, <2>1, StartedKeeps DEF DeleteExpired
<1>10. ASSUME NEW c \in Custodians, NEW k \in Objects, NEW t \in Instants, ExtendRetention(c, k, t)
       PROVE  WormIInv'
  <2>1. [op |-> "extend", key |-> k, until |-> t, version |-> Absent] \in CustodyCalls
    BY WormAssumption DEF CustodyCalls
  <2> QED BY <1>10, <2>1, StartedKeeps DEF ExtendRetention
<1>11. CASE \E c \in Custodians : \E k \in Objects, on \in BOOLEAN : SetLegalHold(c, k, on)
  BY <1>11, SetLegalHoldKeeps
<1>12. CASE UNCHANGED wvars
  <2>1. UNCHANGED <<clock, bucket, versions, puts, stage, writing, admin>>
    BY <1>12 DEF wvars
  <2>2. AllBorn'
    BY <2>1 DEF WormIInv, AllBorn
  <2> QED BY <2>1, <2>2, CustodyKeeps DEF WormIInv, WormTypes
<1> QED BY <1>1, <1>2, <1>3, <1>4, <1>5, <1>6, <1>7, <1>8, <1>9, <1>10, <1>11, <1>12 DEF WormNext

-----------------------------------------------------------------------------
(* What is proved of the adapter.                                          *)

LEMMA WormAlways == WormSpec => []WormIInv
BY WormInitially, WormInductive, PTL DEF WormSpec

\* Whatever order processes boot, crash and put in, and whatever retentions they
\* are configured with, no object is born without the lock of some writer's
\* retention (MinioWormStore.ensureBucket, putImmutable).
THEOREM AlwaysBornLocked == WormSpec => []BornLocked
<1>1. WormIInv => BornLocked
  BY DEF WormIInv, AllBorn, Born, BornLocked
<1> QED BY <1>1, WormAlways, PTL

-----------------------------------------------------------------------------
(* The refinement of ImmutableStore.                                       *)

\* Under a key that is not contested there is at most one version, and none while
\* a put of it is under way, which is the only one.
OnePerKey ==
  \A k \in Objects \ contested :
    /\ Len(versions[k]) <= 1
    /\ \A p \in Processes : writing[p] = k =>
         versions[k] = <<>> /\ \A q \in Processes : writing[q] = k => q = p

RetentionsReached ==
  /\ \A k \in Objects : \A i \in DOMAIN versions[k] : versions[k][i].until \in Reach
  /\ \A c \in Custodians :
       admin[c] # Absent /\ admin[c].op = "extend" => admin[c].until \in Instants

RInv ==
  /\ WormIInv
  /\ clock \in Instants
  /\ OnePerKey
  /\ RetentionsReached

\* What a sequence of versions shows.
LockOf(vs) ==
  IF vs = <<>> \/ vs[Len(vs)].marker THEN Absent
  ELSE [until |-> vs[Len(vs)].until, hold |-> vs[Len(vs)].hold]

ShowsLocks == Shown = [k \in Objects |-> LockOf(versions[k])]

LEMMA ShownLocks == WormIInv => ShowsLocks
<1> SUFFICES ASSUME WormIInv PROVE Shown = [k \in Objects |-> LockOf(versions[k])]
  BY DEF ShowsLocks
<1>1. ASSUME NEW k \in Objects
      PROVE  (IF Served(k) = Absent THEN Absent
              ELSE [until |-> Served(k).until, hold |-> Served(k).hold]) = LockOf(versions[k])
  <2>1. CASE versions[k] = <<>>
    BY <2>1 DEF Served, LockOf
  <2>2. CASE versions[k] # <<>>
    <3>1. Served(k) # Absent
      BY <2>2, ServedIsVersion
    <3>2. ~versions[k][Len(versions[k])].marker /\ Served(k) = versions[k][Len(versions[k])]
      BY <3>1 DEF Served
    <3> QED BY <2>2, <3>1, <3>2 DEF LockOf
  <2> QED BY <2>1, <2>2
<1> QED BY <1>1 DEF Shown

\* A change of the versions under one key changes what that key shows.
LEMMA ShownChanges ==
  ASSUME WormIInv, WormIInv', NEW k \in Objects, NEW changed,
         versions' = [versions EXCEPT ![k] = changed]
  PROVE  Shown' = [Shown EXCEPT ![k] = LockOf(changed)]
<1>1. Shown = [o \in Objects |-> LockOf(versions[o])]
  BY ShownLocks DEF ShowsLocks
<1>2. Shown' = [o \in Objects |-> LockOf(versions'[o])]
  <2>1. ShowsLocks'
    BY ShownLocks, PTL
  <2> QED BY <2>1 DEF ShowsLocks, LockOf
<1>3. versions \in [Objects -> Seq(Versions)]
  BY DEF WormIInv, WormTypes
<1> QED BY <1>1, <1>2, <1>3

\* What is shown of a key with a version is that version's lock.
LocksPresent == \A k \in Objects : versions[k] # <<>> => LockOf(versions[k]) \in Locks

LEMMA PresentLocks == WormIInv => LocksPresent
<1> SUFFICES ASSUME WormIInv, NEW k \in Objects, versions[k] # <<>>
             PROVE  LockOf(versions[k]) \in Locks
  BY DEF LocksPresent
<1> DEFINE last == versions[k][Len(versions[k])]
<1>1. Len(versions[k]) \in DOMAIN versions[k] /\ last \in Versions
  BY DEF WormIInv, WormTypes
<1>2. ~last.marker
  BY <1>1 DEF WormIInv, AllBorn, Born
<1>3. LockOf(versions[k]) = [until |-> last.until, hold |-> last.hold]
  BY <1>2 DEF LockOf
<1> QED BY <1>1, <1>3 DEF Locks, Versions

\* A step that changes no version is a stutter, a meeting of writers or a tick.
LEMMA SameVersions ==
  ASSUME RInv, WormIInv', UNCHANGED versions, clock' \in Instants, OnePerKey',
         \/ clock' = clock /\ contested \subseteq contested'
         \/ clock' > clock /\ contested' = contested,
         \A c \in Custodians :
           admin'[c] # Absent /\ admin'[c].op = "extend" => admin'[c].until \in Instants
  PROVE  RInv' /\ [Abstract!Next]_<<Shown, contested, clock>>
<1>1. Shown' = Shown
  BY DEF Shown, Served
<1>2. ASSUME clock' = clock /\ contested \subseteq contested'
      PROVE  [Abstract!Next]_<<Shown, contested, clock>>
  <2>1. Abstract!Contest
    BY <1>1, <1>2 DEF Abstract!Contest, Abstract!Retained
  <2> QED BY <1>2, <2>1 DEF Abstract!Next
<1>3. ASSUME clock' > clock /\ contested' = contested
      PROVE  [Abstract!Next]_<<Shown, contested, clock>>
  <2>1. clock' \in Reach
    BY DEF Reach
  <2>2. Abstract!Tick
    BY <1>1, <1>3, <2>1 DEF Abstract!Tick
  <2> QED BY <2>2 DEF Abstract!Next
<1>4. RetentionsReached'
  BY DEF RInv, RetentionsReached, Reach
<1>5. RInv'
  BY <1>4 DEF RInv
<1> QED BY <1>2, <1>3, <1>5

\* A change of the versions under one key is a step of the store as soon as it is
\* one for a key that is not contested, and leaves a version where one is retained.
LEMMA OneKeyChanges ==
  ASSUME RInv, WormIInv', NEW k \in Objects, NEW changed,
         versions' = [versions EXCEPT ![k] = changed],
         UNCHANGED <<contested, clock>>,
         Abstract!Retained(k) => changed # <<>>,
         k \notin contested =>
           [Abstract!PutImmutable(k) \/ Abstract!ExtendRetention(k) \/ Abstract!SetLegalHold(k)
            \/ Abstract!DeleteExpired(k)]_Shown
  PROVE  [Abstract!Next]_<<Shown, contested, clock>>
<1>1. CASE k \in contested
  <2>1. Shown' = [Shown EXCEPT ![k] = LockOf(changed)]
    BY ShownChanges DEF RInv
  <2>2. \A o \in Objects \ contested' : Shown'[o] = Shown[o]
    BY <1>1, <2>1 DEF Shown
  <2>3. changed # <<>> => LockOf(changed) # Absent
    <3>1. LocksPresent'
      BY PresentLocks, PTL
    <3>2. versions'[k] = changed
      BY DEF RInv, WormIInv, WormTypes
    <3>3. changed # <<>> => LockOf(changed) \in Locks
      BY <3>1, <3>2 DEF LocksPresent, LockOf
    <3> QED BY <3>3, WormAssumption
  <2>4. ASSUME NEW o \in Objects, Abstract!Retained(o) PROVE Shown'[o] # Absent
    <3>1. Shown[o] # Absent
      BY <2>4 DEF Abstract!Retained
    <3> QED BY <2>1, <2>3, <2>4, <3>1 DEF Shown
  <2>5. Abstract!Contest
    BY <2>2, <2>4 DEF Abstract!Contest
  <2> QED BY <2>5 DEF Abstract!Next
<1>2. CASE k \notin contested
  BY <1>2 DEF Abstract!Next
<1> QED BY <1>1, <1>2

\* A put under a key nobody contests is the first one.
LEMMA PutObjectRefines ==
  ASSUME RInv, WormIInv', NEW p \in Processes, PutObject(p)
  PROVE  RInv' /\ [Abstract!Next]_<<Shown, contested, clock>>
<1> DEFINE k == writing[p]
           new == [id |-> puts + 1, marker |-> FALSE, hold |-> FALSE, at |-> clock,
                   until |-> IF bucket.lock /\ bucket.days # Absent THEN clock + bucket.days
                             ELSE clock]
           changed == Append(versions[k], new)
<1>1. /\ k # Absent /\ k \in Objects
      /\ versions' = [versions EXCEPT ![k] = changed]
      /\ writing' = [writing EXCEPT ![p] = Absent]
      /\ UNCHANGED <<clock, bucket, stage, admin, contested>>
  BY DEF PutObject, Stored, RInv, WormIInv, WormTypes
<1>2. bucket.lock /\ bucket.days \in Floors /\ bucket.days # Absent /\ bucket.days \in Nat \ {0}
  BY <1>1, FloorsAreDays DEF RInv, WormIInv, WritersReady, MayWrite, BootLawful, DefaultSet
<1>3. new.until \in Reach /\ new.until > clock /\ new.marker = FALSE /\ new.hold = FALSE
  <2>1. clock \in Nat /\ clock + bucket.days > clock
    BY <1>2 DEF RInv, WormIInv, WormTypes
  <2> QED BY <1>2, <2>1 DEF RInv, Reach
<1>4. versions \in [Objects -> Seq(Versions)] /\ writing \in [Processes -> Objects \cup {Absent}]
  BY DEF RInv, WormIInv, WormTypes
<1>5. k \notin contested => versions[k] = <<>>
  BY <1>1 DEF RInv, OnePerKey
<1>6. versions[k] = <<>> => changed = <<new>>
  BY <1>1, <1>4
<1>7. OnePerKey'
  <2>1. ASSUME NEW o \in Objects \ contested
        PROVE  /\ Len(versions'[o]) <= 1
               /\ \A q \in Processes : writing'[q] = o =>
                    versions'[o] = <<>> /\ \A r \in Processes : writing'[r] = o => r = q
    <3>1. CASE o = k
      <4>1. versions'[o] = <<new>> /\ Len(<<new>>) = 1
        BY <1>1, <1>4, <1>5, <1>6, <3>1
      <4>2. \A q \in Processes : writing'[q] # o
        BY <1>1, <1>4, <3>1 DEF RInv, OnePerKey
      <4> QED BY <4>1, <4>2
    <3>2. CASE o # k
      <4>1. versions'[o] = versions[o] /\ \A q \in Processes : writing'[q] = o => writing[q] = o
        BY <1>1, <1>4, <3>2, WormAssumption
      <4> QED BY <4>1 DEF RInv, OnePerKey
    <3> QED BY <3>1, <3>2
  <2> QED BY <1>1, <2>1 DEF OnePerKey
<1>8. RetentionsReached'
  <2>1. \A i \in DOMAIN changed : changed[i].until \in Reach
    BY <1>1, <1>3, <1>4 DEF RInv, RetentionsReached
  <2>2. Reach' = Reach
    BY DEF Reach, Floors
  <2> QED BY <1>1, <1>4, <2>1, <2>2 DEF RInv, RetentionsReached
<1>9. k \notin contested => Abstract!PutImmutable(k)
  <2> SUFFICES ASSUME k \notin contested PROVE Abstract!PutImmutable(k)
    OBVIOUS
  <2>1. LockOf(changed) = [until |-> new.until, hold |-> FALSE]
    <3> HIDE DEF changed, new
    <3>1. changed = <<new>>
      BY <1>5, <1>6
    <3>2. changed # <<>> /\ Len(changed) = 1 /\ changed[1] = new
      BY <3>1
    <3> QED BY <1>3, <3>2 DEF LockOf
  <2>2. Shown' = [Shown EXCEPT ![k] = [until |-> new.until, hold |-> FALSE]]
    <3> HIDE DEF changed, new
    <3> QED BY <1>1, <2>1, ShownChanges DEF RInv
  <2>3. Shown[k] = Absent
    BY <1>1, <1>5, ShownLocks DEF RInv, LockOf, ShowsLocks
  <2> HIDE DEF new
  <2>4. \E t \in Reach : t > clock /\ Shown' = [Shown EXCEPT ![k] = [until |-> t, hold |-> FALSE]]
    BY <1>3, <2>2
  <2> QED BY <2>3, <2>4 DEF Abstract!PutImmutable
<1>10. changed # <<>>
  <2>1. Len(changed) = Len(versions[k]) + 1 /\ Len(versions[k]) \in Nat
    BY <1>1, <1>4
  <2> HIDE DEF changed
  <2>2. Len(changed) # 0
    BY <2>1
  <2>3. Len(<<>>) = 0
    OBVIOUS
  <2> QED BY <2>2, <2>3
<1> HIDE DEF changed
<1>11. [Abstract!Next]_<<Shown, contested, clock>>
  BY <1>1, <1>9, <1>10, OneKeyChanges
<1> QED BY <1>1, <1>7, <1>8, <1>11 DEF RInv

\* What custodians do adds no version and leaves the writers alone.
LEMMA CustodyRefines ==
  ASSUME RInv, WormIInv', NEW k \in Objects, NEW changed \in Seq(Versions),
         Len(changed) <= Len(versions[k]),
         versions' = [versions EXCEPT ![k] = changed],
         UNCHANGED <<clock, writing, contested>>,
         \A i \in DOMAIN changed : changed[i].until \in Reach,
         \A c \in Custodians : admin'[c] \in {admin[c], Absent}
  PROVE  RInv'
<1>1. versions \in [Objects -> Seq(Versions)]
  BY DEF RInv, WormIInv, WormTypes
<1>2. OnePerKey'
  <2>1. ASSUME NEW o \in Objects \ contested
        PROVE  /\ Len(versions'[o]) <= 1
               /\ \A q \in Processes : writing[q] = o =>
                    versions'[o] = <<>> /\ \A r \in Processes : writing[r] = o => r = q
    <3>1. CASE o = k
      <4>1. versions[o] = <<>> => changed = <<>>
        <5> SUFFICES ASSUME versions[o] = <<>> PROVE changed = <<>>
          OBVIOUS
        <5>1. Len(changed) = 0
          BY <3>1
        <5> QED BY <5>1
      <4>2. Len(changed) <= 1
        BY <1>1, <3>1 DEF RInv, OnePerKey
      <4> QED BY <1>1, <3>1, <4>1, <4>2 DEF RInv, OnePerKey
    <3>2. CASE o # k
      BY <1>1, <3>2 DEF RInv, OnePerKey
    <3> QED BY <3>1, <3>2
  <2> QED BY <2>1 DEF OnePerKey
<1>3. RetentionsReached'
  <2>1. Reach' = Reach
    BY DEF Reach, Floors
  <2> QED BY <1>1, <2>1 DEF RInv, RetentionsReached
<1> QED BY <1>2, <1>3 DEF RInv

\* A sequence of one.
LEMMA NotEmpty ==
  ASSUME NEW vs, Len(vs) = 1
  PROVE  vs # <<>>
<1>1. Len(<<>>) = 0
  OBVIOUS
<1> QED BY <1>1

LEMMA JustOne ==
  ASSUME NEW vs \in Seq(Versions), Len(vs) <= 1, vs # <<>>
  PROVE  Len(vs) = 1 /\ DOMAIN vs = {1} /\ vs[1] \in Versions
<1>1. Len(vs) = 1
  BY EmptySeq
<1> QED BY <1>1

\* Under a key that is not contested there is nothing or one version.
LEMMA OneOrNone ==
  ASSUME RInv, NEW k \in Objects, k \notin contested
  PROVE  \/ versions[k] = <<>> /\ Shown[k] = Absent
         \/ /\ DOMAIN versions[k] = {1} /\ Len(versions[k]) = 1
            /\ versions[k][1] \in Versions /\ ~versions[k][1].marker
            /\ Shown[k] = [until |-> versions[k][1].until, hold |-> versions[k][1].hold]
            /\ Shown[k] # Absent
<1>1. versions[k] \in Seq(Versions) /\ Len(versions[k]) <= 1
  BY DEF RInv, WormIInv, WormTypes, OnePerKey
<1>2. Shown[k] = LockOf(versions[k])
  BY ShownLocks DEF RInv, ShowsLocks
<1>3. CASE versions[k] = <<>>
  BY <1>2, <1>3 DEF LockOf
<1>4. CASE versions[k] # <<>>
  <2>1. Len(versions[k]) = 1 /\ DOMAIN versions[k] = {1} /\ versions[k][1] \in Versions
    BY <1>1, <1>4, JustOne
  <2>2. ~versions[k][1].marker
    BY <2>1 DEF RInv, WormIInv, AllBorn, Born
  <2>3. Shown[k] = [until |-> versions[k][1].until, hold |-> versions[k][1].hold]
    BY <1>2, <1>4, <2>1, <2>2 DEF LockOf
  <2>4. Shown[k] \in Locks
    BY <2>1, <2>3 DEF Versions, Locks
  <2> QED BY <2>1, <2>2, <2>3, <2>4, WormAssumption
<1> QED BY <1>3, <1>4

\* Where something is retained there is a version, and as many after a change that
\* takes none away.
LEMMA SameLength ==
  ASSUME RInv, NEW k \in Objects, NEW changed, Len(changed) = Len(versions[k]),
         Abstract!Retained(k)
  PROVE  changed # <<>>
<1>1. versions[k] \in Seq(Versions)
  BY DEF RInv, WormIInv, WormTypes
<1>2. versions[k] # <<>>
  BY ShownLocks DEF RInv, ShowsLocks, LockOf, Abstract!Retained
<1>3. Len(versions[k]) # 0
  BY <1>1, <1>2, EmptySeq
<1>4. Len(<<>>) = 0
  OBVIOUS
<1> QED BY <1>3, <1>4

LEMMA PutObjectRetentionRefines ==
  ASSUME RInv, WormIInv', NEW c \in Custodians, PutObjectRetention(c)
  PROVE  RInv' /\ [Abstract!Next]_<<Shown, contested, clock>>
<1> DEFINE call == admin[c]
           k == call.key
           vs == versions[k]
           Extended(v) == IF call.until >= v.until THEN [v EXCEPT !.until = call.until] ELSE v
           changed == [i \in DOMAIN vs |-> IF vs[i].id = call.version THEN Extended(vs[i]) ELSE vs[i]]
<1>1. /\ call # Absent
      /\ call.op = "extend"
      /\ versions' = [versions EXCEPT ![k] = changed]
      /\ admin' = [admin EXCEPT ![c] = Absent]
      /\ UNCHANGED <<clock, bucket, puts, stage, writing, contested>>
  BY DEF PutObjectRetention, Administered, OfVersion
<1>2. /\ k \in Objects /\ call.until \in Nat /\ vs \in Seq(Versions)
      /\ versions \in [Objects -> Seq(Versions)]
  BY <1>1 DEF RInv, WormIInv, WormTypes, CustodyCalls
<1>3. call.until \in Reach
  BY <1>1 DEF RInv, RetentionsReached, Reach
<1>4. ASSUME NEW v \in Versions
      PROVE  /\ Extended(v) \in Versions /\ Extended(v).marker = v.marker /\ Extended(v).hold = v.hold
             /\ Extended(v).until = IF call.until >= v.until THEN call.until ELSE v.until
  BY <1>2 DEF Versions
<1>5. changed \in Seq(Versions) /\ DOMAIN changed = DOMAIN vs /\ Len(changed) = Len(vs)
  <2> HIDE DEF Extended
  <2>1. \A i \in DOMAIN vs : changed[i] \in Versions
    BY <1>2, <1>4
  <2>2. DOMAIN vs = 1..Len(vs) /\ Len(vs) \in Nat
    BY <1>2
  <2>3. changed \in [1..Len(vs) -> Versions]
    BY <2>1, <2>2
  <2> QED BY <2>2, <2>3
<1>6. \A i \in DOMAIN changed : changed[i].until \in Reach
  <2> SUFFICES ASSUME NEW i \in DOMAIN vs PROVE changed[i].until \in Reach
    BY <1>5
  <2>1. vs[i] \in Versions /\ vs[i].until \in Reach
    BY <1>2 DEF RInv, RetentionsReached
  <2> HIDE DEF Extended
  <2>2. Extended(vs[i]).until \in Reach
    BY <1>3, <1>4, <2>1
  <2> QED BY <2>1, <2>2
<1>7. RInv'
  <2>1. \A d \in Custodians : admin'[d] \in {admin[d], Absent}
    BY <1>1 DEF RInv, WormIInv, WormTypes
  <2> HIDE DEF changed
  <2>2. Len(changed) <= Len(vs)
    BY <1>2, <1>5
  <2> QED BY <1>1, <1>2, <1>5, <1>6, <2>1, <2>2, CustodyRefines
<1>8. Shown' = [Shown EXCEPT ![k] = LockOf(changed)]
  <2> HIDE DEF changed
  <2> QED BY <1>1, <1>2, ShownChanges DEF RInv
<1>9. k \notin contested => [Abstract!ExtendRetention(k)]_Shown
  <2> SUFFICES ASSUME k \notin contested PROVE [Abstract!ExtendRetention(k)]_Shown
    OBVIOUS
  <2>0. Shown = [o \in Objects |-> Shown[o]]
    BY DEF Shown
  <2>1. CASE vs = <<>>
    <3>1. changed = <<>>
      <4> HIDE DEF changed
      <4>1. Len(changed) = 0
        BY <1>5, <2>1
      <4> QED BY <1>5, <4>1
    <3>2. LockOf(changed) = Shown[k]
      BY <1>2, <2>1, <3>1, ShownLocks DEF RInv, ShowsLocks
    <3> HIDE DEF changed
    <3> QED BY <1>8, <2>0, <3>2
  <2>2. CASE vs # <<>>
    <3> DEFINE v == vs[1]
    <3>1. /\ DOMAIN vs = {1} /\ Len(vs) = 1 /\ v \in Versions /\ ~v.marker
          /\ Shown[k] = [until |-> v.until, hold |-> v.hold] /\ Shown[k] # Absent
      BY <1>2, <2>2, OneOrNone
    <3>2. changed[1] = IF v.id = call.version THEN Extended(v) ELSE v
      BY <3>1
    <3>3. Len(changed) = 1 /\ changed # <<>>
      <4> HIDE DEF changed
      <4>1. Len(changed) = 1
        BY <1>5, <3>1
      <4> QED BY <4>1, NotEmpty
    <3>4. CASE v.id = call.version /\ call.until >= v.until
      <4> HIDE DEF changed, Extended
      <4>1. ~changed[1].marker /\ changed[1].hold = v.hold /\ changed[1].until = call.until
        BY <1>4, <3>1, <3>2, <3>4
      <4>2. LockOf(changed) = [until |-> call.until, hold |-> v.hold]
        BY <3>3, <4>1 DEF LockOf
      <4>3. [Shown[k] EXCEPT !.until = call.until] = LockOf(changed)
        BY <3>1, <4>2
      <4>4. Shown' = [Shown EXCEPT ![k].until = call.until]
        BY <1>8, <4>3
      <4>5. call.until >= Shown[k].until
        BY <3>1, <3>4
      <4> QED BY <1>3, <3>1, <4>4, <4>5 DEF Abstract!ExtendRetention
    <3>5. CASE ~(v.id = call.version /\ call.until >= v.until)
      <4>1. changed[1] = v
        BY <3>2, <3>5
      <4> HIDE DEF changed
      <4>2. LockOf(changed) = Shown[k]
        BY <3>1, <3>3, <4>1 DEF LockOf
      <4> QED BY <1>8, <2>0, <4>2
    <3> QED BY <3>4, <3>5
  <2> QED BY <2>1, <2>2
<1>10. Abstract!Retained(k) => changed # <<>>
  <2> HIDE DEF changed
  <2> QED BY <1>2, <1>5, SameLength
<1> HIDE DEF changed
<1> QED BY <1>1, <1>2, <1>7, <1>9, <1>10, OneKeyChanges

LEMMA SetLegalHoldRefines ==
  ASSUME RInv, WormIInv', NEW c \in Custodians, NEW k \in Objects, NEW on \in BOOLEAN,
         SetLegalHold(c, k, on)
  PROVE  RInv' /\ [Abstract!Next]_<<Shown, contested, clock>>
<1> DEFINE vs == versions[k]
           id == Served(k).id
           Held(v) == [v EXCEPT !.hold = on]
           changed == [i \in DOMAIN vs |-> IF vs[i].id = id THEN Held(vs[i]) ELSE vs[i]]
<1>1. /\ versions' = [versions EXCEPT ![k] = changed]
      /\ Served(k) # Absent
      /\ UNCHANGED <<clock, bucket, puts, stage, writing, admin, contested>>
  BY DEF SetLegalHold, Administered, OfVersion
<1>2. vs \in Seq(Versions) /\ vs # <<>> /\ DOMAIN vs = 1..Len(vs) /\ Len(vs) \in Nat
  BY <1>1, ServedIsVersion DEF RInv, WormIInv, WormTypes
<1>3. ASSUME NEW i \in DOMAIN vs
      PROVE  /\ changed[i] \in Versions /\ changed[i].until = vs[i].until
             /\ changed[i].marker = vs[i].marker
             /\ vs[i].id = id => changed[i].hold = on
  <2>1. vs[i] \in Versions
    BY <1>2
  <2>2. /\ Held(vs[i]) \in Versions /\ Held(vs[i]).until = vs[i].until
        /\ Held(vs[i]).marker = vs[i].marker /\ Held(vs[i]).hold = on
    BY <2>1 DEF Versions
  <2> HIDE DEF Held
  <2> QED BY <2>1, <2>2
<1>4. changed \in Seq(Versions) /\ DOMAIN changed = DOMAIN vs /\ Len(changed) = Len(vs)
  <2>1. changed = [i \in 1..Len(vs) |-> changed[i]]
    BY <1>2
  <2>2. \A i \in 1..Len(vs) : changed[i] \in Versions
    <3> SUFFICES ASSUME NEW i \in 1..Len(vs) PROVE changed[i] \in Versions
      OBVIOUS
    <3>1. i \in DOMAIN vs
      BY <1>2
    <3> HIDE DEF changed, vs
    <3> QED BY <1>3, <3>1
  <2> HIDE DEF changed
  <2>3. changed \in [1..Len(vs) -> Versions]
    BY <2>1, <2>2
  <2> QED BY <1>2, <2>3
<1>5. \A i \in DOMAIN changed : changed[i].until \in Reach
  <2> SUFFICES ASSUME NEW i \in DOMAIN vs PROVE changed[i].until \in Reach
    BY <1>4
  <2>1. vs[i].until \in Reach
    BY DEF RInv, RetentionsReached
  <2> HIDE DEF changed
  <2>2. changed[i].until = vs[i].until
    BY <1>3
  <2> QED BY <2>1, <2>2
<1>6. RInv'
  <2>1. \A d \in Custodians : admin'[d] \in {admin[d], Absent}
    BY <1>1
  <2> HIDE DEF changed
  <2>2. Len(changed) <= Len(vs)
    BY <1>2, <1>4
  <2> QED BY <1>1, <1>2, <1>4, <1>5, <2>1, <2>2, CustodyRefines
<1>7. Shown' = [Shown EXCEPT ![k] = LockOf(changed)]
  <2> HIDE DEF changed
  <2> QED BY <1>1, ShownChanges DEF RInv
<1>8. k \notin contested => Abstract!SetLegalHold(k)
  <2> SUFFICES ASSUME k \notin contested PROVE Abstract!SetLegalHold(k)
    OBVIOUS
  <2>1. /\ DOMAIN vs = {1} /\ Len(vs) = 1 /\ vs[1] \in Versions /\ ~vs[1].marker
        /\ Shown[k] = [until |-> vs[1].until, hold |-> vs[1].hold] /\ Shown[k] # Absent
    BY <1>2, OneOrNone
  <2>2. id = vs[1].id
    BY <1>1, <2>1 DEF Served
  <2>3. /\ Len(changed) = 1 /\ changed # <<>> /\ ~changed[1].marker
        /\ changed[1].until = vs[1].until /\ changed[1].hold = on
    <3> HIDE DEF changed
    <3>1. Len(changed) = 1 /\ 1 \in DOMAIN changed
      BY <1>4, <2>1
    <3>2. changed # <<>>
      BY <3>1, NotEmpty
    <3>3. changed[1].until = vs[1].until /\ changed[1].marker = vs[1].marker /\ changed[1].hold = on
      BY <1>3, <2>1, <2>2
    <3> QED BY <2>1, <3>1, <3>2, <3>3
  <2> HIDE DEF changed
  <2>4. LockOf(changed) = [until |-> vs[1].until, hold |-> on]
    BY <2>3 DEF LockOf
  <2>5. [Shown[k] EXCEPT !.hold = on] = LockOf(changed)
    BY <2>1, <2>4
  <2>6. Shown' = [Shown EXCEPT ![k].hold = on]
    BY <1>7, <2>5
  <2> QED BY <2>1, <2>6 DEF Abstract!SetLegalHold
<1>9. Abstract!Retained(k) => changed # <<>>
  <2> HIDE DEF changed
  <2> QED BY <1>4, SameLength
<1> HIDE DEF changed
<1> QED BY <1>1, <1>6, <1>8, <1>9, OneKeyChanges

\* What is removed under a key nobody contests is the object, its retention over.
LEMMA RemoveObjectRefines ==
  ASSUME RInv, WormIInv', NEW c \in Custodians, RemoveObject(c)
  PROVE  RInv' /\ [Abstract!Next]_<<Shown, contested, clock>>
<1> DEFINE k == admin[c].key
           vs == versions[k]
           Here == {i \in DOMAIN vs : vs[i].id = admin[c].version}
<1>1. /\ admin[c] # Absent
      /\ versions' = Removed(k, admin[c].version)
      /\ admin' = [admin EXCEPT ![c] = Absent]
      /\ UNCHANGED <<clock, bucket, puts, stage, writing, contested>>
  BY DEF RemoveObject, Administered, Deleted
<1>2. k \in Objects /\ vs \in Seq(Versions) /\ versions \in [Objects -> Seq(Versions)]
  BY <1>1 DEF RInv, WormIInv, WormTypes, CustodyCalls
<1>3. \A d \in Custodians : admin'[d] \in {admin[d], Absent}
  BY <1>1 DEF RInv, WormIInv, WormTypes
<1>4. CASE \E i \in Here : ~Locked(vs[i])
  <2> DEFINE i == CHOOSE i \in Here : TRUE
             changed == Without(vs, i)
  <2>1. i \in DOMAIN vs /\ versions' = [versions EXCEPT ![k] = changed]
    BY <1>1, <1>4 DEF Removed
  <2>2. changed \in Seq(Versions)
        /\ \A j \in DOMAIN changed : \E m \in DOMAIN vs : changed[j] = vs[m]
    BY <1>2, <2>1, WithoutKeeps
  <2>3. Len(changed) = Len(vs) - 1
    <3>1. Len(vs) \in Nat \ {0}
      BY <1>2, <2>1
    <3>2. DOMAIN changed = 1..(Len(vs) - 1)
      BY DEF Without
    <3> HIDE DEF changed
    <3> QED BY <2>2, <3>1, <3>2
  <2>4. \A j \in DOMAIN changed : changed[j].until \in Reach
    <3> HIDE DEF changed
    <3> QED BY <1>2, <2>2 DEF RInv, RetentionsReached
  <2>5. RInv'
    <3> HIDE DEF changed
    <3>1. Len(changed) <= Len(vs)
      BY <1>2, <2>3
    <3> QED BY <1>1, <1>2, <1>3, <2>1, <2>2, <2>4, <3>1, CustodyRefines
  <2>6. k \notin contested => Abstract!DeleteExpired(k)
    <3> SUFFICES ASSUME k \notin contested PROVE Abstract!DeleteExpired(k)
      OBVIOUS
    <3>1. /\ DOMAIN vs = {1} /\ Len(vs) = 1 /\ vs[1] \in Versions /\ ~vs[1].marker
          /\ Shown[k] = [until |-> vs[1].until, hold |-> vs[1].hold] /\ Shown[k] # Absent
      BY <1>2, <2>1, OneOrNone
    <3>2. ~vs[1].hold /\ clock >= vs[1].until
      <4>1. ~Locked(vs[1])
        BY <1>4, <3>1
      <4>2. vs[1].until \in Nat /\ clock \in Nat
        BY <3>1 DEF Versions, RInv, WormIInv, WormTypes
      <4> QED BY <3>1, <4>1, <4>2 DEF Locked
    <3>3. changed = <<>>
      <4> HIDE DEF changed
      <4> QED BY <2>2, <2>3, <3>1
    <3>4. Shown' = [Shown EXCEPT ![k] = Absent]
      <4>1. LockOf(changed) = Absent
        BY <3>3 DEF LockOf
      <4> HIDE DEF changed
      <4> QED BY <1>2, <2>1, <4>1, ShownChanges DEF RInv
    <3>5. ~Abstract!Retained(k)
      <4>1. vs[1].until \in Nat /\ clock \in Nat
        BY <3>1 DEF Versions, RInv, WormIInv, WormTypes
      <4> QED BY <3>1, <3>2, <4>1 DEF Abstract!Retained
    <3> QED BY <3>1, <3>4, <3>5 DEF Abstract!DeleteExpired
  <2>7. Abstract!Retained(k) => changed # <<>>
    <3> SUFFICES ASSUME changed = <<>> PROVE ~Abstract!Retained(k)
      OBVIOUS
    <3>1. Len(changed) = 0
      <4> HIDE DEF changed
      <4> QED OBVIOUS
    <3>2. Len(vs) = 1 /\ DOMAIN vs = {1}
      <4> HIDE DEF changed, vs
      <4>1. Len(vs) \in Nat
        BY <1>2
      <4>2. Len(vs) = 1
        BY <2>3, <3>1, <4>1
      <4> QED BY <1>2, <4>2
    <3>3. vs[1] \in Versions /\ ~Locked(vs[1]) /\ ~vs[1].marker
      BY <1>2, <1>4, <3>2 DEF RInv, WormIInv, AllBorn, Born
    <3>4. Shown[k] = [until |-> vs[1].until, hold |-> vs[1].hold]
      <4>1. vs # <<>>
        <5> HIDE DEF vs
        <5> QED BY <3>2, NotEmpty
      <4> QED BY <1>2, <3>2, <3>3, <4>1, ShownLocks DEF RInv, ShowsLocks, LockOf
    <3>5. vs[1].until \in Nat /\ clock \in Nat
      BY <3>3 DEF Versions, RInv, WormIInv, WormTypes
    <3> QED BY <3>3, <3>4, <3>5 DEF Locked, Abstract!Retained
  <2> HIDE DEF changed
  <2> QED BY <1>1, <1>2, <2>1, <2>5, <2>6, <2>7, OneKeyChanges
<1>5. CASE ~\E i \in Here : ~Locked(vs[i])
  <2>1. versions' = versions
    BY <1>1, <1>5 DEF Removed
  <2>2. OnePerKey'
    BY <1>1, <2>1 DEF RInv, OnePerKey
  <2> QED BY <1>1, <1>3, <2>1, <2>2, SameVersions DEF RInv, RetentionsReached
<1> QED BY <1>4, <1>5

\* A put whose check passes is alone, or contests the key.
LEMMA PutCheckRefines ==
  ASSUME RInv, WormIInv', NEW p \in Processes, NEW k \in Objects, NEW failed \in BOOLEAN,
         PutCheck(p, k, failed)
  PROVE  RInv' /\ [Abstract!Next]_<<Shown, contested, clock>>
<1>1. /\ ~Exists(k, failed)
      /\ writing' = [writing EXCEPT ![p] = k]
      /\ contested' = IF failed \/ \E q \in Processes : writing[q] = k
                      THEN contested \cup {k} ELSE contested
      /\ UNCHANGED <<clock, versions, admin>>
  BY DEF PutCheck
<1>2. writing \in [Processes -> Objects \cup {Absent}]
  BY DEF RInv, WormIInv, WormTypes
<1>3. OnePerKey'
  <2>1. ASSUME NEW o \in Objects \ contested'
        PROVE  /\ Len(versions[o]) <= 1
               /\ \A q \in Processes : writing'[q] = o =>
                    versions[o] = <<>> /\ \A r \in Processes : writing'[r] = o => r = q
    <3>1. o \notin contested
      BY <1>1
    <3>2. CASE o = k
      <4>1. ~failed /\ \A q \in Processes : writing[q] # k
        BY <1>1, <3>2
      <4>2. versions[k] = <<>>
        BY <1>1, <4>1, ServedIsVersion DEF Exists, RInv
      <4> QED BY <1>1, <1>2, <3>2, <4>1, <4>2
    <3>3. CASE o # k
      BY <1>1, <1>2, <3>1, <3>3 DEF RInv, OnePerKey
    <3> QED BY <3>2, <3>3
  <2> QED BY <1>1, <2>1 DEF OnePerKey
<1> QED BY <1>1, <1>3, SameVersions DEF RInv, RetentionsReached

\* A writer that comes up or goes down, and the clock, change no object.
LEMMA WritersRefine ==
  ASSUME RInv, WormIInv', UNCHANGED <<versions, admin, contested>>, clock' \in Instants,
         clock' = clock \/ clock' > clock,
         \A q \in Processes : writing'[q] \in {writing[q], Absent}
  PROVE  RInv' /\ [Abstract!Next]_<<Shown, contested, clock>>
<1>1. OnePerKey'
  BY WormAssumption DEF RInv, OnePerKey
<1> QED BY <1>1, SameVersions DEF RInv, RetentionsReached

LEMMA StepRefines ==
  RInv /\ WormIInv' /\ [WormNext]_wvars => RInv' /\ [Abstract!Next]_<<Shown, contested, clock>>
<1> DEFINE Goal == RInv' /\ [Abstract!Next]_<<Shown, contested, clock>>
<1> SUFFICES ASSUME RInv, WormIInv', [WormNext]_wvars PROVE Goal
  OBVIOUS
<1> HIDE DEF Goal
<1>0. clock \in Instants /\ writing \in [Processes -> Objects \cup {Absent}]
      /\ admin \in [Custodians -> CustodyCalls \cup {Absent}]
  BY DEF RInv, WormIInv, WormTypes
<1>1. CASE Tick
  <2>1. clock' > clock
    BY <1>1, WormAssumption DEF Tick, RInv, WormIInv, WormTypes
  <2> QED BY <1>1, <2>1, WritersRefine DEF Tick, Goal
<1>2. ASSUME NEW p \in Processes,
             \/ BucketExists(p) \/ MakeBucket(p) \/ SetBucketVersioning(p)
             \/ AssertObjectLockEnabled(p) \/ SetObjectLockConfig(p)
      PROVE  Goal
  <2>1. Booting
    BY <1>2 DEF BucketExists, MakeBucket, SetBucketVersioning, AssertObjectLockEnabled,
       SetObjectLockConfig
  <2> QED BY <1>0, <2>1, WritersRefine DEF Booting, Goal
<1>3. ASSUME NEW p \in Processes, CrashWriter(p)
      PROVE  Goal
  <2>1. UNCHANGED <<clock, versions, admin, contested>>
        /\ \A q \in Processes : writing'[q] \in {writing[q], Absent}
    BY <1>0, <1>3 DEF CrashWriter
  <2> QED BY <1>0, <2>1, WritersRefine DEF Goal
<1>4. ASSUME NEW p \in Processes, NEW k \in Objects, NEW failed \in BOOLEAN, PutCheck(p, k, failed)
      PROVE  Goal
  BY <1>4, PutCheckRefines DEF Goal
<1>5. ASSUME NEW p \in Processes, PutObject(p)
      PROVE  Goal
  BY <1>5, PutObjectRefines DEF Goal
\* A call of a custodian on its way changes no version.
<1>6. ASSUME UNCHANGED <<clock, versions, writing, contested>>,
             \A c \in Custodians :
               admin'[c] # Absent /\ admin'[c].op = "extend" => admin'[c].until \in Instants
      PROVE  Goal
  <2>1. OnePerKey'
    BY <1>6 DEF RInv, OnePerKey
  <2> QED BY <1>0, <1>6, <2>1, SameVersions DEF Goal
<1>7. ASSUME NEW c \in Custodians, LatestVersionId(c)
      PROVE  Goal
  <2> DEFINE call == admin[c]
             served == Served(call.key)
  <2>1. /\ call # Absent
        /\ admin' = [admin EXCEPT ![c] =
             IF served = Absent THEN Absent ELSE [call EXCEPT !.version = served.id]]
        /\ UNCHANGED <<clock, versions, writing, contested>>
    BY <1>7 DEF LatestVersionId, Administered
  <2>2. call \in CustodyCalls
    BY <1>0, <2>1
  <2> HIDE DEF served
  <2>3. ASSUME NEW d \in Custodians, admin'[d] # Absent, admin'[d].op = "extend"
        PROVE  admin'[d].until \in Instants
    <3>1. CASE d = c
      <4>1. admin'[c] = [call EXCEPT !.version = served.id]
        BY <1>0, <2>1, <2>3, <3>1
      <4>2. admin'[c].op = call.op /\ admin'[c].until = call.until
        BY <2>2, <4>1 DEF CustodyCalls
      <4> QED BY <2>1, <2>3, <3>1, <4>2 DEF RInv, RetentionsReached
    <3>2. CASE d # c
      BY <1>0, <2>1, <2>3, <3>2 DEF RInv, RetentionsReached
    <3> QED BY <3>1, <3>2
  <2> QED BY <1>6, <2>1, <2>3
<1>8. ASSUME NEW c \in Custodians, NEW k \in Objects, NEW failed, NEW call,
             Started(c, k, failed, call), call.op = "extend" => call.until \in Instants
      PROVE  Goal
  <2>1. /\ admin' = [admin EXCEPT ![c] = call]
        /\ UNCHANGED <<clock, versions, writing, contested>>
    BY <1>8 DEF Started, Administered
  <2>2. \A d \in Custodians :
          admin'[d] # Absent /\ admin'[d].op = "extend" => admin'[d].until \in Instants
    BY <1>0, <1>8, <2>1 DEF RInv, RetentionsReached
  <2> QED BY <1>6, <2>1, <2>2
<1>9. ASSUME NEW c \in Custodians, NEW k \in Objects, NEW t \in Instants, NEW failed \in BOOLEAN,
             DeleteExpired(c, k, t, failed)
      PROVE  Goal
  BY <1>8, <1>9 DEF DeleteExpired
<1>10. ASSUME NEW c \in Custodians, NEW k \in Objects, NEW t \in Instants, ExtendRetention(c, k, t)
       PROVE  Goal
  BY <1>8, <1>10 DEF ExtendRetention
<1>11. ASSUME NEW c \in Custodians, PutObjectRetention(c)
       PROVE  Goal
  BY <1>11, PutObjectRetentionRefines DEF Goal
<1>12. ASSUME NEW c \in Custodians, RemoveObject(c)
       PROVE  Goal
  BY <1>12, RemoveObjectRefines DEF Goal
<1>13. ASSUME NEW c \in Custodians, NEW k \in Objects, NEW on \in BOOLEAN, SetLegalHold(c, k, on)
       PROVE  Goal
  BY <1>13, SetLegalHoldRefines DEF Goal
<1>14. CASE UNCHANGED wvars
  BY <1>0, <1>14, WritersRefine DEF wvars, Goal
<1> QED BY <1>1, <1>2, <1>3, <1>4, <1>5, <1>7, <1>9, <1>10, <1>11, <1>12, <1>13, <1>14 DEF WormNext

LEMMA RInvInitially == WormInit => RInv /\ Abstract!Init
<1> SUFFICES ASSUME WormInit PROVE RInv /\ Abstract!Init
  OBVIOUS
<1>1. WormIInv
  BY WormInitially
<1>2. OnePerKey
  <2>1. \A k \in Objects : versions[k] = <<>> /\ Len(<<>>) <= 1
    BY DEF WormInit
  <2>2. \A p \in Processes : writing[p] \notin Objects
    BY WormAssumption DEF WormInit
  <2> QED BY <2>1, <2>2 DEF OnePerKey
<1>3. RetentionsReached /\ clock \in Instants
  BY WormAssumption DEF WormInit, RetentionsReached
<1>4. \A k \in Objects : Served(k) = Absent
  BY DEF WormInit, Served
<1> QED BY <1>1, <1>2, <1>3, <1>4 DEF RInv, Abstract!Init, Shown, WormInit

LEMMA RInvAlways == WormSpec => []RInv
BY RInvInitially, StepRefines, WormAlways, PTL DEF WormSpec

\* To clients that do not meet over a key, and whose stats do not fail, the bucket
\* behind the adapter is the write-once store: what is put stays, its retention is
\* only extended, and it is deleted only when the store's clock has reached its
\* retention and not under hold; under every key, what is retained does not leave
\* the readers with nothing
\* (MinioWormStore.putImmutable, extendRetention, setLegalHold, deleteExpired).
THEOREM BucketIsImmutableStore == WormSpec => ActsAsImmutableStore
BY RInvInitially, StepRefines, WormAlways, PTL DEF WormSpec, ActsAsImmutableStore, Abstract!Spec

\* Whatever order puts, holds, extensions and deletions come in, a version that is
\* retained or held is the one the readers are served, and where writers met over
\* its key or a stat failed under a put, the key still reads
\* (MinioWormStore.deleteExpired names the version it deletes).
THEOREM RetainedAlwaysReadable == WormSpec => []RetainedReadable
<1>1. RInv => RetainedReadable
  <2> SUFFICES ASSUME RInv, NEW k \in Objects, NEW i \in DOMAIN versions[k]
               PROVE  /\ Served(k) # Absent
                      /\ k \notin contested => Served(k) = versions[k][i]
    BY DEF RetainedReadable
  <2>1. versions[k] # <<>>
    BY DEF RInv, WormIInv, WormTypes
  <2>2. Served(k) # Absent
    BY <2>1, ServedIsVersion DEF RInv
  <2>3. k \notin contested => i = 1 /\ Len(versions[k]) = 1 /\ ~versions[k][1].marker
    BY <2>1, OneOrNone
  <2> QED BY <2>1, <2>2, <2>3 DEF Served
<1> QED BY <1>1, RInvAlways, PTL

-----------------------------------------------------------------------------
(* The dead letter queue: the inductive invariant.                         *)

Active(r) == calls[r] # Nothing
On(r)     == EventId(calls[r].event)

DlqTypes ==
  /\ table \in [Ids -> StoredItems \cup {Nothing}]
  /\ calls \in [Recorders -> Calls \cup {Nothing}]
  /\ alarms \in [Ids -> [enqueue : Nat, quarantine : Nat]]
  /\ written \in [Ids -> Nat]
  /\ resolved \subseteq Events

\* An item that may be retried is one the policy lets be retried.
Lawful(item) == item.status = "retryable" => item.count < MaxRetries

ItemsLawful == \A i \in Ids : table[i] # Nothing => Lawful(table[i])

\* The payload of an item is that of the event it is filed under.
PayloadsMatch ==
  \A e \in Events : table[EventId(e)] # Nothing => table[EventId(e)].payload = e.payload

CountsBelow == \A i \in Ids : table[i] # Nothing => table[i].count < written[i]

NothingWritten == \A i \in Ids : table[i] = Nothing => written[i] = 0

CountsExact == \A i \in Ids \ met : table[i] # Nothing => table[i].count = written[i] - 1

\* What holds of the table and what was written to it.
Kept == ItemsLawful /\ PayloadsMatch /\ CountsBelow /\ NothingWritten /\ CountsExact

ResolvedStored == \A e \in resolved : table[EventId(e)] # Nothing

AlarmsOfStored == \A i \in Ids : alarms[i] # NoAlarms => table[i] # Nothing

\* What a call has read was stored before, and what it has written is.
CallsKnow ==
  \A r \in Recorders : Active(r) =>
    /\ calls[r].existing # Nothing =>
         calls[r].existing.count < written[On(r)] /\ table[On(r)] # Nothing
    /\ calls[r].step = "written" => table[On(r)] # Nothing

\* Where no two calls met, a call that has not written yet is the only one, and
\* what it read is still so.
Current ==
  \A r \in Recorders : Active(r) /\ calls[r].step = "read" /\ On(r) \notin met =>
    /\ calls[r].existing = table[On(r)]
    /\ \A q \in Recorders : Reading(q, On(r)) => q = r

\* Calls that have written, and are to raise the arrival or the quarantine of i.
Wrote(r, i)   == Active(r) /\ calls[r].step = "written" /\ On(r) = i
Arrives(r, i) == Wrote(r, i) /\ calls[r].existing = Nothing
Condemns(r, i) ==
  /\ Wrote(r, i)
  /\ ItemOf(calls[r]).status = "quarantined"
  /\ calls[r].existing = Nothing \/ calls[r].existing.status # "quarantined"

\* Where no two calls met, the arrival is raised once.
RaisedOnce ==
  \A i \in Ids \ met :
    /\ alarms[i].enqueue <= 1
    /\ \A r \in Recorders : Arrives(r, i) =>
         alarms[i].enqueue = 0 /\ \A q \in Recorders : Arrives(q, i) => q = r

\* An arrival was raised or is about to be, unless its call was cut off.
ArrivalDue ==
  \A i \in Ids \ cut : table[i] # Nothing =>
    alarms[i].enqueue >= 1 \/ \E r \in Recorders : Arrives(r, i)

\* So was a quarantine that the table or a call knows of.
Condemned(i) ==
  \/ table[i] # Nothing /\ table[i].status = "quarantined"
  \/ \E r \in Recorders : /\ Active(r) /\ On(r) = i
                          /\ calls[r].existing # Nothing
                          /\ calls[r].existing.status = "quarantined"

QuarantineDue ==
  \A i \in Ids \ cut : Condemned(i) =>
    alarms[i].quarantine >= 1 \/ \E r \in Recorders : Condemns(r, i)

Known == ResolvedStored /\ AlarmsOfStored /\ CallsKnow /\ Current

Due == RaisedOnce /\ ArrivalDue /\ QuarantineDue

DlqIInv == DlqTypes /\ Kept /\ Known /\ Due

-----------------------------------------------------------------------------
(* The operators.                                                          *)

\* Every event is filed under an id, and two events under one id agree on the
\* payload.
LEMMA IdsOfEvents ==
  /\ \A e \in Events : EventId(e) \in Ids
  /\ \A e, d \in Events : EventId(e) = EventId(d) => e.payload = d.payload
BY DEF EventId, Ids

LEMMA CallsAreOnIds ==
  ASSUME DlqTypes, NEW r \in Recorders, Active(r)
  PROVE  calls[r] \in Calls /\ calls[r].event \in Events /\ On(r) \in Ids
BY IdsOfEvents DEF DlqTypes, Active, On, Calls

\* Every failure falls into a category.
LEMMA Classified == \A f \in Failures : Category(f) \in Categories
<1> SUFFICES ASSUME NEW f \in Failures PROVE Category(f) \in Categories
  OBVIOUS
<1>1. f.category \in Categories \cup {Nothing} /\ f.error \in Messages \cup {Nothing}
  BY DlqAssumption
<1>2. \A m \in Messages : CategoryOf[m] \in Categories
  BY DEF Messages, CategoryOf, Categories
<1>3. "UNCLASSIFIED" \in Categories
  BY DEF Categories
<1> QED BY <1>1, <1>2, <1>3 DEF Category

\* What a call makes of its event is an item the policy allows.
LEMMA ItemLawful ==
  ASSUME NEW call \in Calls
  PROVE  ItemOf(call) \in StoredItems /\ Lawful(ItemOf(call))
<1>1. call.event.payload \in Payloads /\ call.failure \in Failures
  BY DEF Calls, Events
<1>2. CountOf(call.existing) \in Nat
  BY DEF Calls, StoredItems, CountOf
<1>3. Category(call.failure) \in Categories
  BY <1>1, Classified
<1>4. DecideStatus(call.failure, CountOf(call.existing)) \in {"quarantined", "retryable"}
  BY DEF DecideStatus
<1>5. ItemOf(call) \in StoredItems
  BY <1>1, <1>2, <1>3, <1>4 DEF ItemOf, StoredItems
<1>6. Lawful(ItemOf(call))
  BY <1>2, DlqAssumption DEF ItemOf, Lawful, DecideStatus
<1> QED BY <1>5, <1>6

\* The upsert keeps the payload and takes the rest from the new item.
LEMMA UpsertedItem ==
  ASSUME NEW old \in StoredItems \cup {Nothing}, NEW new \in StoredItems
  PROVE  /\ Upserted(old, new) \in StoredItems
         /\ Upserted(old, new).count = new.count
         /\ Upserted(old, new).status = new.status
         /\ Lawful(new) => Lawful(Upserted(old, new))
         /\ Upserted(old, new).payload = IF old = Nothing THEN new.payload ELSE old.payload
BY DEF Upserted, StoredItems, Lawful

\* What a write that takes effect does to the table.
LEMMA AppliedItem ==
  ASSUME DlqIInv, NEW r \in Recorders, Active(r), calls[r].step = "read", Applied(calls[r])
  PROVE  /\ table' \in [Ids -> StoredItems \cup {Nothing}] /\ written' \in [Ids -> Nat]
         /\ \A i \in Ids \ {On(r)} : table'[i] = table[i] /\ written'[i] = written[i]
         /\ table'[On(r)] # Nothing
         /\ table'[On(r)].status = ItemOf(calls[r]).status
         /\ written[On(r)] \in Nat /\ written'[On(r)] = written[On(r)] + 1
         /\ UNCHANGED met => Kept'
<1> DEFINE call == calls[r]
           id == On(r)
           item == Upserted(table[id], ItemOf(call))
<1>1. call \in Calls /\ call.event \in Events /\ id \in Ids
  BY CallsAreOnIds DEF DlqIInv
<1>2. table[id] \in StoredItems \cup {Nothing} /\ ItemOf(call) \in StoredItems /\ Lawful(ItemOf(call))
  BY <1>1, ItemLawful DEF DlqIInv, DlqTypes
<1>3. /\ item \in StoredItems /\ item # Nothing /\ Lawful(item)
      /\ item.count = CountOf(call.existing)
      /\ item.status = ItemOf(call).status
      /\ item.payload = IF table[id] = Nothing THEN call.event.payload ELSE table[id].payload
  BY <1>2, UpsertedItem, DlqAssumption DEF ItemOf
<1>4. /\ table' = [table EXCEPT ![id] = item]
      /\ written' = [written EXCEPT ![id] = @ + 1]
  BY DEF Applied, On
<1> HIDE DEF item
<1>5. /\ table' \in [Ids -> StoredItems \cup {Nothing}] /\ written' \in [Ids -> Nat]
      /\ \A i \in Ids \ {id} : table'[i] = table[i] /\ written'[i] = written[i]
      /\ table'[id] = item
      /\ written[id] \in Nat /\ written'[id] = written[id] + 1
  BY <1>1, <1>3, <1>4 DEF DlqIInv, DlqTypes
<1>6. ASSUME UNCHANGED met PROVE Kept'
  <2>1. ItemsLawful'
    BY <1>3, <1>5 DEF DlqIInv, Kept, ItemsLawful, Lawful
  <2>2. PayloadsMatch'
    BY <1>1, <1>3, <1>5, IdsOfEvents DEF DlqIInv, Kept, PayloadsMatch, On
  <2>3. call.existing # Nothing => call.existing.count < written[id] /\ call.existing.count \in Nat
    BY <1>1 DEF DlqIInv, Known, CallsKnow, Calls, StoredItems
  <2>4. item.count \in Nat /\ item.count < written'[id]
    BY <1>3, <1>5, <2>3 DEF CountOf
  <2>5. CountsBelow'
    BY <1>5, <2>4 DEF DlqIInv, Kept, CountsBelow
  <2>6. NothingWritten'
    BY <1>3, <1>5 DEF DlqIInv, Kept, NothingWritten
  <2>7. id \notin met => item.count = written'[id] - 1
    <3> SUFFICES ASSUME id \notin met PROVE item.count = written[id]
      BY <1>5
    <3>1. call.existing = table[id]
      BY DEF DlqIInv, Known, Current
    <3>2. CASE table[id] = Nothing
      <4>1. written[id] = 0
        BY <1>1, <3>2 DEF DlqIInv, Kept, NothingWritten
      <4> QED BY <1>3, <3>1, <3>2, <4>1 DEF CountOf
    <3>3. CASE table[id] # Nothing
      <4>1. table[id].count = written[id] - 1
        BY <1>1, <3>3 DEF DlqIInv, Kept, CountsExact
      <4>2. item.count = table[id].count + 1
        BY <1>3, <3>1, <3>3 DEF CountOf
      <4> QED BY <1>5, <4>1, <4>2
    <3> QED BY <3>2, <3>3
  <2>8. CountsExact'
    BY <1>5, <1>6, <2>7 DEF DlqIInv, Kept, CountsExact
  <2> QED BY <2>1, <2>2, <2>5, <2>6, <2>8 DEF Kept
<1> QED BY <1>3, <1>5, <1>6

-----------------------------------------------------------------------------
(* The initial states and the steps.                                       *)

LEMMA DlqInitially == DlqInit => DlqIInv
<1> SUFFICES ASSUME DlqInit PROVE DlqIInv
  OBVIOUS
<1>1. DlqTypes
  BY DEF DlqInit, DlqTypes, NoAlarms
<1>2. \A i \in Ids : table[i] = Nothing /\ alarms[i] = NoAlarms /\ written[i] = 0
  BY DEF DlqInit
<1>3. \A r \in Recorders : ~Active(r)
  BY DEF DlqInit, Active
<1>4. Kept
  BY <1>2, IdsOfEvents DEF Kept, ItemsLawful, PayloadsMatch, CountsBelow, NothingWritten, CountsExact
<1>5. Known
  BY <1>2, <1>3 DEF Known, ResolvedStored, AlarmsOfStored, CallsKnow, Current, DlqInit
<1>6. Due
  BY <1>2, <1>3 DEF Due, RaisedOnce, ArrivalDue, QuarantineDue, Condemned, Arrives, Wrote, NoAlarms
<1> QED BY <1>1, <1>4, <1>5, <1>6 DEF DlqIInv

\* A call that begins has read what is stored.
LEMMA ReadKeeps ==
  ASSUME DlqIInv, NEW r \in Recorders, NEW e \in Events, NEW f \in Failures, Read(r, e, f)
  PROVE  DlqIInv'
<1> DEFINE id == EventId(e)
           new == [event |-> e, failure |-> f, existing |-> table[id], step |-> "read"]
<1>1. /\ calls[r] = Nothing
      /\ calls' = [calls EXCEPT ![r] = new]
      /\ met' = IF \E q \in Recorders \ {r} : Reading(q, id) THEN met \cup {id} ELSE met
      /\ UNCHANGED <<table, alarms, written, cut, resolved>>
  BY DEF Read
<1>2. id \in Ids /\ new \in Calls /\ Nothing \notin Calls
  BY IdsOfEvents, DlqAssumption DEF DlqIInv, DlqTypes, Calls
<1>3. DlqTypes'
  BY <1>1, <1>2 DEF DlqIInv, DlqTypes
<1>4. /\ \A q \in Recorders \ {r} : calls'[q] = calls[q]
      /\ calls'[r] = new /\ new # Nothing /\ ~Active(r)
      /\ met \subseteq met'
  BY <1>1, <1>2 DEF DlqIInv, DlqTypes, Active
<1>5. Kept'
  BY <1>1, <1>4 DEF DlqIInv, Kept, ItemsLawful, PayloadsMatch, CountsBelow, NothingWritten, CountsExact
<1>6. CallsKnow'
  BY <1>1, <1>2, <1>4 DEF DlqIInv, Kept, Known, CallsKnow, CountsBelow, Active, On
<1>7. Current'
  <2> SUFFICES ASSUME NEW q \in Recorders, Active(q)', calls'[q].step = "read", On(q)' \notin met'
               PROVE  /\ calls'[q].existing = table'[On(q)']
                      /\ \A p \in Recorders : Reading(p, On(q))' => p = q
    BY DEF Current
  <2>1. CASE q = r
    <3>1. On(q)' = id /\ calls'[q].existing = table[id]
      BY <1>4, <2>1 DEF On
    <3>2. \A p \in Recorders \ {r} : ~Reading(p, id)
      BY <1>1, <3>1
    <3> QED BY <1>1, <1>4, <2>1, <3>1, <3>2 DEF Reading
  <2>2. CASE q # r
    <3>1. Active(q) /\ calls[q].step = "read" /\ On(q)' = On(q) /\ On(q) \notin met
      BY <1>4, <2>2 DEF Active, On
    <3>2. On(q) # id
      BY <1>1, <2>2, <3>1 DEF Active, On, Reading
    <3>3. \A p \in Recorders : Reading(p, On(q))' => p # r /\ Reading(p, On(q))
      BY <1>4, <3>1, <3>2 DEF Reading
    <3> QED BY <1>1, <1>4, <2>2, <3>1, <3>3 DEF DlqIInv, Known, Current
  <2> QED BY <2>1, <2>2
<1>8. \A q \in Recorders, i \in Ids : Wrote(q, i)' <=> q # r /\ Wrote(q, i)
  BY <1>4 DEF Wrote, Active, On
<1>9. \A q \in Recorders, i \in Ids : /\ Arrives(q, i)' <=> q # r /\ Arrives(q, i)
                                      /\ Condemns(q, i)' <=> q # r /\ Condemns(q, i)
  BY <1>4, <1>8 DEF Arrives, Condemns, ItemOf
<1>10. \A i \in Ids : ~Arrives(r, i) /\ ~Condemns(r, i)
  BY <1>4 DEF Arrives, Condemns, Wrote
<1>11. RaisedOnce' /\ ArrivalDue'
  BY <1>1, <1>4, <1>9, <1>10 DEF DlqIInv, Due, RaisedOnce, ArrivalDue
<1>12. \A i \in Ids : Condemned(i)' => Condemned(i)
  <2> SUFFICES ASSUME NEW i \in Ids, Condemned(i)' PROVE Condemned(i)
    OBVIOUS
  <2>1. CASE table'[i] # Nothing /\ table'[i].status = "quarantined"
    BY <1>1, <2>1 DEF Condemned
  <2>2. ASSUME NEW q \in Recorders, Active(q)', On(q)' = i, calls'[q].existing # Nothing,
               calls'[q].existing.status = "quarantined"
        PROVE  Condemned(i)
    BY <1>4, <2>2 DEF Condemned, Active, On
  <2> QED BY <2>1, <2>2 DEF Condemned
<1>13. QuarantineDue'
  BY <1>1, <1>9, <1>10, <1>12 DEF DlqIInv, Due, QuarantineDue
<1> QED BY <1>1, <1>3, <1>5, <1>6, <1>7, <1>11, <1>13
       DEF DlqIInv, Known, ResolvedStored, AlarmsOfStored, Due

\* What is known of the other calls when the item of one has been written.
LEMMA AppliedKnown ==
  ASSUME DlqIInv, NEW r \in Recorders, Active(r), calls[r].step = "read", Applied(calls[r]),
         UNCHANGED <<alarms, met, resolved>>,
         \A q \in Recorders \ {r} : calls'[q] = calls[q],
         \/ calls'[r] = Nothing
         \/ /\ calls'[r] # Nothing
            /\ calls'[r].event = calls[r].event /\ calls'[r].existing = calls[r].existing
            /\ calls'[r].step = "written"
  PROVE  Known'
<1> DEFINE id == On(r)
<1>1. /\ \A i \in Ids \ {id} : table'[i] = table[i] /\ written'[i] = written[i]
      /\ table'[id] # Nothing /\ written[id] \in Nat /\ written'[id] = written[id] + 1
  BY AppliedItem
<1>2. ResolvedStored' /\ AlarmsOfStored'
  BY <1>1, IdsOfEvents DEF DlqIInv, DlqTypes, Known, ResolvedStored, AlarmsOfStored
<1>3. \A q \in Recorders : Active(q)' => Active(q) /\ On(q)' = On(q) /\ On(q) \in Ids
                             /\ calls'[q].existing = calls[q].existing
  BY CallsAreOnIds DEF DlqIInv, Active, On
<1>4. CallsKnow'
  <2> SUFFICES ASSUME NEW q \in Recorders, Active(q)'
               PROVE  /\ calls'[q].existing # Nothing =>
                           calls'[q].existing.count < written'[On(q)] /\ table'[On(q)] # Nothing
                      /\ calls'[q].step = "written" => table'[On(q)] # Nothing
    BY <1>3 DEF CallsKnow
  <2>1. CASE On(q) = id
    <3>1. calls[q].existing # Nothing =>
            calls[q].existing.count < written[id] /\ calls[q].existing.count \in Nat
      BY <1>3, <2>1, CallsAreOnIds DEF DlqIInv, Known, CallsKnow, Calls, StoredItems
    <3> QED BY <1>1, <1>3, <2>1, <3>1
  <2>2. CASE On(q) # id
    BY <1>1, <1>3, <2>2 DEF DlqIInv, Known, CallsKnow
  <2> QED BY <2>1, <2>2
<1>5. Current'
  <2> SUFFICES ASSUME NEW q \in Recorders, Active(q)', calls'[q].step = "read", On(q)' \notin met
               PROVE  /\ calls'[q].existing = table'[On(q)']
                      /\ \A p \in Recorders : Reading(p, On(q))' => p = q
    BY DEF Current
  <2>1. q # r /\ Active(q) /\ calls[q].step = "read" /\ On(q)' = On(q) /\ On(q) \in Ids
    BY <1>3 DEF Active
  <2>2. On(q) # id
    BY <2>1 DEF DlqIInv, Known, Current, Reading, Active, On
  <2>3. \A p \in Recorders : Reading(p, On(q))' => Reading(p, On(q))
    BY <2>1 DEF Reading
  <2> QED BY <1>1, <2>1, <2>2, <2>3 DEF DlqIInv, Known, Current
<1> QED BY <1>2, <1>4, <1>5 DEF Known

\* The write replaces the item by what follows from what the call has read.
LEMMA UpsertKeeps ==
  ASSUME DlqIInv, NEW r \in Recorders, Upsert(r)
  PROVE  DlqIInv'
<1> DEFINE call == calls[r]
           id == On(r)
           next == [call EXCEPT !.step = "written"]
<1>1. /\ Active(r) /\ call.step = "read" /\ Applied(call)
      /\ calls' = [calls EXCEPT ![r] = next]
      /\ UNCHANGED <<alarms, met, cut, resolved>>
  BY DEF Upsert, Written, Active
<1>2. call \in Calls /\ id \in Ids
  BY <1>1, CallsAreOnIds DEF DlqIInv
<1>3. next \in Calls /\ next # Nothing /\ next.event = call.event /\ next.failure = call.failure
      /\ next.existing = call.existing /\ next.step = "written"
  BY <1>2, DlqAssumption DEF Calls
<1> HIDE DEF next
<1>4. calls'[r] = next /\ \A q \in Recorders \ {r} : calls'[q] = calls[q]
  BY <1>1 DEF DlqIInv, DlqTypes
<1>5. /\ table' \in [Ids -> StoredItems \cup {Nothing}] /\ written' \in [Ids -> Nat]
      /\ \A i \in Ids \ {id} : table'[i] = table[i]
      /\ table'[id] # Nothing /\ table'[id].status = ItemOf(call).status
      /\ Kept'
  BY <1>1, AppliedItem
<1>6. DlqTypes'
  BY <1>1, <1>3, <1>5 DEF DlqIInv, DlqTypes
<1>7. Known'
  BY <1>1, <1>3, <1>4, AppliedKnown
<1>8. \A q \in Recorders : Active(q)' <=> Active(q)
  BY <1>1, <1>3, <1>4 DEF Active
<1>9. \A q \in Recorders : Active(q) => On(q)' = On(q) /\ calls'[q].existing = calls[q].existing
                                          /\ ItemOf(calls[q])' = ItemOf(calls[q])
  BY <1>3, <1>4 DEF On, ItemOf
<1>10. \A q \in Recorders, i \in Ids :
         Wrote(q, i)' <=> IF q = r THEN i = id ELSE Wrote(q, i)
  <2> SUFFICES ASSUME NEW q \in Recorders, NEW i \in Ids
               PROVE  Wrote(q, i)' <=> IF q = r THEN i = id ELSE Wrote(q, i)
    OBVIOUS
  <2>1. CASE q = r
    BY <1>1, <1>3, <1>4, <1>8, <1>9, <2>1 DEF Wrote
  <2>2. CASE q # r
    BY <1>4, <1>8, <1>9, <2>2 DEF Wrote
  <2> QED BY <2>1, <2>2
<1>11. \A i \in Ids : ~Wrote(r, i)
  BY <1>1 DEF Wrote
<1>12. \A q \in Recorders, i \in Ids : Wrote(q, i)' =>
         /\ Arrives(q, i)' <=> calls[q].existing = Nothing
         /\ Condemns(q, i)' <=>
              /\ ItemOf(calls[q]).status = "quarantined"
              /\ calls[q].existing = Nothing \/ calls[q].existing.status # "quarantined"
  <2> SUFFICES ASSUME NEW q \in Recorders, NEW i \in Ids, Wrote(q, i)'
               PROVE  /\ Arrives(q, i)' <=> calls[q].existing = Nothing
                      /\ Condemns(q, i)' <=>
                           /\ ItemOf(calls[q]).status = "quarantined"
                           /\ calls[q].existing = Nothing \/ calls[q].existing.status # "quarantined"
    OBVIOUS
  <2>1. Active(q)
    BY <1>8 DEF Wrote
  <2> QED BY <1>9, <2>1 DEF Arrives, Condemns
<1>13. \A q \in Recorders \ {r}, i \in Ids :
         (Arrives(q, i)' <=> Arrives(q, i)) /\ (Condemns(q, i)' <=> Condemns(q, i))
  BY <1>10, <1>12 DEF Arrives, Condemns
<1>14. table[id] = Nothing => call.existing = Nothing
  BY <1>1 DEF DlqIInv, Known, CallsKnow
<1>15. RaisedOnce'
  <2> SUFFICES ASSUME NEW i \in Ids \ met
               PROVE  /\ alarms[i].enqueue <= 1
                      /\ \A q \in Recorders : Arrives(q, i)' =>
                           alarms[i].enqueue = 0 /\ \A p \in Recorders : Arrives(p, i)' => p = q
    BY <1>1 DEF RaisedOnce
  <2>1. CASE Arrives(r, i)'
    <3>1. i = id /\ call.existing = Nothing
      BY <1>10, <1>12, <2>1 DEF Arrives
    <3>2. table[i] = Nothing
      BY <1>1, <3>1 DEF DlqIInv, Known, Current
    <3>3. alarms[i].enqueue = 0
      BY <3>2 DEF DlqIInv, Known, AlarmsOfStored, NoAlarms
    <3>4. \A q \in Recorders : ~Arrives(q, i)
      BY <3>2 DEF DlqIInv, Known, CallsKnow, Arrives, Wrote
    <3> QED BY <1>13, <3>3, <3>4
  <2>2. CASE ~Arrives(r, i)'
    BY <1>13, <2>2 DEF DlqIInv, Due, RaisedOnce
  <2> QED BY <2>1, <2>2
<1>16. ArrivalDue'
  <2> SUFFICES ASSUME NEW i \in Ids \ cut, table'[i] # Nothing
               PROVE  alarms[i].enqueue >= 1 \/ \E q \in Recorders : Arrives(q, i)'
    BY <1>1 DEF ArrivalDue
  <2>1. CASE table[i] # Nothing
    <3>1. alarms[i].enqueue >= 1 \/ \E q \in Recorders \ {r} : Arrives(q, i)
      BY <1>11, <2>1 DEF DlqIInv, Due, ArrivalDue, Arrives
    <3> QED BY <1>13, <3>1
  <2>2. CASE table[i] = Nothing
    <3>1. i = id
      BY <1>5, <2>2
    <3> QED BY <1>10, <1>12, <1>14, <2>2, <3>1
  <2> QED BY <2>1, <2>2
<1>17. QuarantineDue'
  <2> SUFFICES ASSUME NEW i \in Ids \ cut, Condemned(i)'
               PROVE  alarms[i].quarantine >= 1 \/ \E q \in Recorders : Condemns(q, i)'
    BY <1>1 DEF QuarantineDue
  <2>1. Condemned(i) => alarms[i].quarantine >= 1 \/ \E q \in Recorders \ {r} : Condemns(q, i)
    BY <1>11 DEF DlqIInv, Due, QuarantineDue, Condemns
  <2>2. CASE Condemned(i)
    BY <1>13, <2>1, <2>2
  <2>3. CASE ~Condemned(i)
    <3>1. ~\E q \in Recorders : /\ Active(q)' /\ On(q)' = i
                                /\ calls'[q].existing # Nothing
                                /\ calls'[q].existing.status = "quarantined"
      BY <1>8, <1>9, <2>3 DEF Condemned
    <3>2. table'[i] # Nothing /\ table'[i].status = "quarantined"
      BY <3>1 DEF Condemned
    <3>3. i = id
      BY <1>5, <2>3, <3>2 DEF Condemned
    <3>4. ItemOf(call).status = "quarantined"
      BY <1>5, <3>2, <3>3
    <3>5. call.existing = Nothing \/ call.existing.status # "quarantined"
      BY <1>1, <2>3, <3>3 DEF Condemned
    <3> QED BY <1>10, <1>12, <3>3, <3>4, <3>5
  <2> QED BY <2>2, <2>3
<1> QED BY <1>5, <1>6, <1>7, <1>15, <1>16, <1>17 DEF DlqIInv, Due

\* What the end of a call leaves of the alarms that are due.
LEMMA EndedDue ==
  ASSUME DlqIInv, NEW r \in Recorders, Active(r), calls'[r] = Nothing,
         \A q \in Recorders \ {r} : calls'[q] = calls[q],
         UNCHANGED <<alarms, met>>, cut \subseteq cut',
         calls[r].step = "written" => On(r) \in cut',
         \A i \in Ids \ cut' : table'[i] = table[i]
  PROVE  Due'
<1>1. \A q \in Recorders, i \in Ids :
        /\ Arrives(q, i)' <=> q # r /\ Arrives(q, i)
        /\ Condemns(q, i)' <=> q # r /\ Condemns(q, i)
  BY DEF Arrives, Condemns, Wrote, Active, On, ItemOf
<1>2. \A i \in Ids \ cut' : ~Arrives(r, i) /\ ~Condemns(r, i)
  BY DEF Arrives, Condemns, Wrote
<1>3. RaisedOnce'
  BY <1>1 DEF DlqIInv, Due, RaisedOnce
<1>4. ArrivalDue'
  BY <1>1, <1>2 DEF DlqIInv, Due, ArrivalDue
<1>5. \A i \in Ids \ cut' : Condemned(i)' => Condemned(i)
  BY DEF Condemned, Active, On
<1>6. QuarantineDue'
  BY <1>1, <1>2, <1>5 DEF DlqIInv, Due, QuarantineDue
<1> QED BY <1>3, <1>4, <1>6 DEF Due

\* What the end of a call leaves of what is known.
LEMMA EndedKnown ==
  ASSUME DlqIInv, NEW r \in Recorders, calls'[r] = Nothing,
         \A q \in Recorders \ {r} : calls'[q] = calls[q],
         UNCHANGED <<table, written, met>>, ResolvedStored', AlarmsOfStored'
  PROVE  Known' /\ Kept'
<1>1. CallsKnow'
  BY DEF DlqIInv, Known, CallsKnow, Active, On
<1>2. Current'
  BY DEF DlqIInv, Known, Current, Reading, Active, On
<1>3. Kept'
  BY DEF DlqIInv, Kept, ItemsLawful, PayloadsMatch, CountsBelow, NothingWritten, CountsExact
<1> QED BY <1>1, <1>2, <1>3 DEF Known

\* A call that ends without a trace: its write failed, or it crashed before it.  One
\* that crashed after it leaves its event cut off.
LEMMA EndsUnraised ==
  ASSUME DlqIInv, NEW r \in Recorders, Active(r),
         calls' = [calls EXCEPT ![r] = Nothing], UNCHANGED <<table, alarms, written, met, resolved>>,
         cut' = IF calls[r].step = "written" THEN cut \cup {On(r)} ELSE cut
  PROVE  DlqIInv'
<1>1. calls'[r] = Nothing /\ \A q \in Recorders \ {r} : calls'[q] = calls[q]
  BY DEF DlqIInv, DlqTypes
<1>2. DlqTypes'
  BY DEF DlqIInv, DlqTypes
<1>3. ResolvedStored' /\ AlarmsOfStored'
  BY DEF DlqIInv, Known, ResolvedStored, AlarmsOfStored
<1>4. Known' /\ Kept'
  BY <1>1, <1>3, EndedKnown
<1>5. Due'
  BY <1>1, EndedDue
<1> QED BY <1>2, <1>4, <1>5 DEF DlqIInv

\* A write whose answer is lost counts, and its event is cut off.
LEMMA UpsertUnansweredKeeps ==
  ASSUME DlqIInv, NEW r \in Recorders, UpsertUnanswered(r)
  PROVE  DlqIInv'
<1>1. /\ Active(r) /\ calls[r].step = "read" /\ Applied(calls[r])
      /\ calls' = [calls EXCEPT ![r] = Nothing]
      /\ cut' = cut \cup {On(r)}
      /\ UNCHANGED <<alarms, met, resolved>>
  BY DEF UpsertUnanswered, Active, On
<1>2. calls'[r] = Nothing /\ \A q \in Recorders \ {r} : calls'[q] = calls[q]
  BY <1>1 DEF DlqIInv, DlqTypes
<1>3. /\ table' \in [Ids -> StoredItems \cup {Nothing}] /\ written' \in [Ids -> Nat]
      /\ \A i \in Ids \ {On(r)} : table'[i] = table[i]
      /\ Kept'
  BY <1>1, AppliedItem
<1>4. DlqTypes'
  BY <1>1, <1>3 DEF DlqIInv, DlqTypes
<1>5. Known'
  BY <1>1, <1>2, AppliedKnown
<1>6. Due'
  BY <1>1, <1>2, <1>3, EndedDue
<1> QED BY <1>3, <1>4, <1>5, <1>6 DEF DlqIInv

\* The alarms of a call are those that were due from it.
LEMMA RaiseKeeps ==
  ASSUME DlqIInv, NEW r \in Recorders, Raise(r)
  PROVE  DlqIInv'
<1> DEFINE call == calls[r]
           id == On(r)
           raised == RaisedBy(call, alarms[id])
<1>1. /\ Active(r) /\ call.step = "written"
      /\ alarms' = [alarms EXCEPT ![id] = raised]
      /\ calls' = [calls EXCEPT ![r] = Nothing]
      /\ resolved' = resolved \cup {call.event}
      /\ UNCHANGED <<table, written, met, cut>>
  BY DEF Raise, Active, On
<1>2. call \in Calls /\ call.event \in Events /\ id \in Ids
  BY <1>1, CallsAreOnIds DEF DlqIInv
<1>3. alarms[id].enqueue \in Nat /\ alarms[id].quarantine \in Nat
  BY <1>2 DEF DlqIInv, DlqTypes
<1>4. /\ raised \in [enqueue : Nat, quarantine : Nat]
      /\ raised.enqueue = alarms[id].enqueue + (IF Arrives(r, id) THEN 1 ELSE 0)
      /\ raised.quarantine = alarms[id].quarantine + (IF Condemns(r, id) THEN 1 ELSE 0)
  BY <1>1, <1>3 DEF RaisedBy, Arrives, Condemns, Wrote
<1> HIDE DEF raised
<1>5. /\ \A q \in Recorders \ {r} : calls'[q] = calls[q]
      /\ calls'[r] = Nothing
      /\ \A i \in Ids \ {id} : alarms'[i] = alarms[i]
      /\ alarms'[id] = raised
  BY <1>1, <1>2 DEF DlqIInv, DlqTypes
<1>6. DlqTypes'
  BY <1>1, <1>2, <1>4 DEF DlqIInv, DlqTypes
<1>7. table[id] # Nothing
  BY <1>1 DEF DlqIInv, Known, CallsKnow
<1>8. ResolvedStored' /\ AlarmsOfStored'
  BY <1>1, <1>5, <1>7 DEF DlqIInv, Known, ResolvedStored, AlarmsOfStored, On
<1>9. Known' /\ Kept'
  BY <1>1, <1>5, <1>8, EndedKnown
<1>10. \A q \in Recorders, i \in Ids :
         /\ Arrives(q, i)' <=> q # r /\ Arrives(q, i)
         /\ Condemns(q, i)' <=> q # r /\ Condemns(q, i)
  BY <1>5 DEF Arrives, Condemns, Wrote, Active, On, ItemOf
<1>11. \A i \in Ids \ {id} : ~Arrives(r, i) /\ ~Condemns(r, i)
  BY DEF Arrives, Condemns, Wrote
<1>12. RaisedOnce'
  <2> SUFFICES ASSUME NEW i \in Ids \ met
               PROVE  /\ alarms'[i].enqueue <= 1
                      /\ \A q \in Recorders : Arrives(q, i)' =>
                           alarms'[i].enqueue = 0 /\ \A p \in Recorders : Arrives(p, i)' => p = q
    BY <1>1 DEF RaisedOnce
  <2>1. /\ alarms[i].enqueue <= 1
        /\ \A q \in Recorders : Arrives(q, i) =>
             alarms[i].enqueue = 0 /\ \A p \in Recorders : Arrives(p, i) => p = q
    BY DEF DlqIInv, Due, RaisedOnce
  <2>2. CASE i = id /\ Arrives(r, id)
    <3>1. alarms'[i].enqueue = 1
      BY <1>4, <1>5, <2>1, <2>2
    <3>2. \A q \in Recorders : ~Arrives(q, i)'
      BY <1>10, <2>1, <2>2
    <3> QED BY <3>1, <3>2
  <2>3. CASE ~(i = id /\ Arrives(r, id))
    <3>1. alarms'[i].enqueue = alarms[i].enqueue
      BY <1>3, <1>4, <1>5, <2>3
    <3> QED BY <1>10, <2>1, <3>1
  <2> QED BY <2>2, <2>3
<1>13. \A i \in Ids : /\ alarms[i].enqueue >= 1 => alarms'[i].enqueue >= 1
                      /\ Arrives(r, i) => alarms'[i].enqueue >= 1
                      /\ alarms[i].quarantine >= 1 => alarms'[i].quarantine >= 1
                      /\ Condemns(r, i) => alarms'[i].quarantine >= 1
  <2> SUFFICES ASSUME NEW i \in Ids
               PROVE  /\ alarms[i].enqueue >= 1 => alarms'[i].enqueue >= 1
                      /\ Arrives(r, i) => alarms'[i].enqueue >= 1
                      /\ alarms[i].quarantine >= 1 => alarms'[i].quarantine >= 1
                      /\ Condemns(r, i) => alarms'[i].quarantine >= 1
    OBVIOUS
  <2>1. CASE i = id
    BY <1>3, <1>4, <1>5, <2>1
  <2>2. CASE i # id
    BY <1>5, <1>11, <2>2
  <2> QED BY <2>1, <2>2
<1>14. ArrivalDue'
  BY <1>1, <1>10, <1>13 DEF DlqIInv, Due, ArrivalDue
<1>15. \A i \in Ids : Condemned(i)' => Condemned(i)
  BY <1>1, <1>5 DEF Condemned, Active, On
<1>16. QuarantineDue'
  BY <1>1, <1>10, <1>13, <1>15 DEF DlqIInv, Due, QuarantineDue
<1> QED BY <1>6, <1>9, <1>12, <1>14, <1>16 DEF DlqIInv, Due

LEMMA DlqInductive == DlqIInv /\ [DlqNext]_dvars => DlqIInv'
<1> SUFFICES ASSUME DlqIInv, [DlqNext]_dvars PROVE DlqIInv'
  OBVIOUS
<1>1. CASE \E r \in Recorders : \E e \in Events, f \in Failures : Read(r, e, f)
  BY <1>1, ReadKeeps
<1>2. CASE \E r \in Recorders : Upsert(r)
  BY <1>2, UpsertKeeps
<1>3. ASSUME NEW r \in Recorders, UpsertFails(r) PROVE DlqIInv'
  <2>1. calls[r].step # "written"
    BY <1>3 DEF UpsertFails
  <2> QED BY <1>3, <2>1, EndsUnraised DEF UpsertFails, Active
<1>4. CASE \E r \in Recorders : UpsertUnanswered(r)
  BY <1>4, UpsertUnansweredKeeps
<1>5. CASE \E r \in Recorders : Raise(r)
  BY <1>5, RaiseKeeps
<1>6. CASE \E r \in Recorders : CrashRecorder(r)
  BY <1>6, EndsUnraised DEF CrashRecorder, Active, On
<1>7. CASE UNCHANGED <<table, calls, alarms, written, met, cut, resolved>>
  <2>1. DlqTypes' /\ Kept'
    BY <1>7 DEF DlqIInv, DlqTypes, Kept, ItemsLawful, PayloadsMatch, CountsBelow, NothingWritten,
       CountsExact
  <2>2. Known'
    BY <1>7 DEF DlqIInv, Known, ResolvedStored, AlarmsOfStored, CallsKnow, Current, Reading, Active, On
  <2>3. Due'
    BY <1>7 DEF DlqIInv, Due, RaisedOnce, ArrivalDue, QuarantineDue, Condemned, Arrives, Condemns,
       Wrote, Active, On, ItemOf
  <2> QED BY <2>1, <2>2, <2>3 DEF DlqIInv
<1>8. CheckDepth \/ UNCHANGED dvars => UNCHANGED <<table, calls, alarms, written, met, cut, resolved>>
  BY DEF CheckDepth, dvars
<1> QED BY <1>1, <1>2, <1>3, <1>4, <1>5, <1>6, <1>7, <1>8 DEF DlqNext

-----------------------------------------------------------------------------
(* What is proved of the queue.                                            *)

LEMMA DlqAlways == DlqSpec => []DlqIInv
BY DlqInitially, DlqInductive, PTL DEF DlqSpec

\* The count of an item keeps every try since an older reading was put back.
TriesCounted ==
  \A i \in Ids : /\ tries[i] \in Nat
                 /\ table[i] = Nothing => tries[i] = 0
                 /\ table[i] # Nothing => table[i].count >= tries[i] - 1

LEMMA AppliedTries ==
  ASSUME DlqIInv, TriesCounted, NEW r \in Recorders, Active(r), calls[r].step = "read",
         Applied(calls[r]), tries \in [Ids -> Nat]
  PROVE  TriesCounted'
<1> DEFINE call == calls[r]
           id == On(r)
           item == Upserted(table[id], ItemOf(call))
<1>1. call \in Calls /\ call.event \in Events /\ id \in Ids
  BY CallsAreOnIds DEF DlqIInv
<1>2. table[id] \in StoredItems \cup {Nothing} /\ ItemOf(call) \in StoredItems
  BY <1>1, ItemLawful DEF DlqIInv, DlqTypes
<1>3. item \in StoredItems /\ item.count = CountOf(call.existing) /\ item # Nothing
  BY <1>2, UpsertedItem, DlqAssumption DEF ItemOf
<1>4. /\ table' = [table EXCEPT ![id] = item]
      /\ tries' = [tries EXCEPT ![id] = IF call.existing = table[id] THEN tries[id] + 1 ELSE 1]
  BY DEF Applied, On
<1>5. item.count \in Nat /\ (table[id] # Nothing => table[id].count \in Nat)
  BY <1>2, <1>3 DEF StoredItems
<1> HIDE DEF item, call, id
<1>6. /\ table'[id] = item /\ tries'[id] = IF call.existing = table[id] THEN tries[id] + 1 ELSE 1
      /\ tries[id] \in Nat
      /\ \A i \in Ids \ {id} : table'[i] = table[i] /\ tries'[i] = tries[i]
  BY <1>1, <1>4 DEF DlqIInv, DlqTypes
<1>7. tries'[id] \in Nat /\ item.count >= tries'[id] - 1
  <2>1. CASE call.existing # table[id]
    BY <1>5, <1>6, <2>1
  <2>2. CASE call.existing = table[id] /\ table[id] = Nothing
    BY <1>1, <1>3, <1>5, <1>6, <2>2 DEF TriesCounted, CountOf
  <2>3. CASE call.existing = table[id] /\ table[id] # Nothing
    <3>1. item.count = table[id].count + 1 /\ table[id].count >= tries[id] - 1
      BY <1>1, <1>3, <2>3 DEF TriesCounted, CountOf
    <3> QED
      BY <1>5, <1>6, <2>3, <3>1
  <2> QED
    BY <2>1, <2>2, <2>3
<1> QED
  BY <1>3, <1>6, <1>7 DEF TriesCounted

TriesInv == DlqIInv /\ tries \in [Ids -> Nat] /\ TriesCounted

LEMMA TriesInitially == DlqInit => TriesInv
  BY DlqInitially DEF DlqInit, TriesInv, TriesCounted

LEMMA TriesInductive == TriesInv /\ [DlqNext]_dvars => TriesInv'
<1> SUFFICES ASSUME TriesInv, [DlqNext]_dvars PROVE TriesInv'
  OBVIOUS
<1>1. DlqIInv /\ DlqIInv'
  BY DlqInductive DEF TriesInv
<1>2. ASSUME NEW r \in Recorders, Upsert(r) \/ UpsertUnanswered(r) PROVE TriesInv'
  <2>1. Active(r) /\ calls[r].step = "read" /\ Applied(calls[r])
    BY <1>2 DEF Upsert, UpsertUnanswered, Active
  <2>2. TriesCounted'
    BY <1>1, <2>1, AppliedTries DEF TriesInv
  <2>3. tries' \in [Ids -> Nat]
    <3>1. On(r) \in Ids
      BY <1>1, <2>1, CallsAreOnIds DEF DlqIInv
    <3>2. tries' = [tries EXCEPT ![On(r)] =
                      IF calls[r].existing = table[On(r)] THEN tries[On(r)] + 1 ELSE 1]
      BY <2>1 DEF Applied, On
    <3> QED
      BY <3>1, <3>2 DEF TriesInv
  <2> QED
    BY <1>1, <2>2, <2>3 DEF TriesInv
<1>3. CASE UNCHANGED <<table, tries>>
  BY <1>1, <1>3 DEF TriesInv, TriesCounted
<1> QED
  BY <1>2, <1>3 DEF DlqNext, Read, UpsertFails, Raise, CrashRecorder, CheckDepth, dvars

LEMMA TriesAlways == DlqSpec => []TriesInv
BY TriesInitially, TriesInductive, PTL DEF DlqSpec

\* Retries end: whatever records of one event overlap, fail, are cut off or lose
\* their answers, an event written more often than the policy allows retries since
\* a record last put back an older reading is quarantined (DlqService.record,
\* decideStatus).
THEOREM RetriesAlwaysEnd == DlqSpec => []RetriesEnd
<1>1. TriesInv => RetriesEnd
  <2> SUFFICES ASSUME TriesInv, NEW i \in Items, tries[i] > MaxRetries
               PROVE  table[i].status = "quarantined"
    BY DEF RetriesEnd
  <2>1. i \in Ids /\ table[i] # Nothing /\ table[i] \in StoredItems /\ tries[i] \in Nat
    BY DEF TriesInv, DlqIInv, DlqTypes, Items
  <2>2. table[i].count >= tries[i] - 1 /\ Lawful(table[i])
    BY <2>1 DEF TriesInv, TriesCounted, DlqIInv, Kept, ItemsLawful
  <2>3. table[i].status \in {"quarantined", "retryable"} /\ table[i].count \in Nat
    BY <2>1 DEF StoredItems
  <2>4. ~(table[i].count < MaxRetries)
    BY <2>1, <2>2, <2>3, DlqAssumption
  <2> QED BY <2>2, <2>3, <2>4 DEF Lawful
<1> QED BY <1>1, TriesAlways, PTL

\* Accounting: what record() resolved for is in the table under its payload, each
\* write is counted where no two records met, where they met each since one put
\* back an older reading, and once no record of an item is
\* under way its arrival and its quarantine were alarmed, although records of it
\* met, unless one was cut off between its write and its alarms.
THEOREM EveryFailureAccounted == DlqSpec => []Accounted
<1>1. TriesInv => Accounted
  <2> SUFFICES ASSUME TriesInv, DlqIInv PROVE Accounted
    BY DEF TriesInv
  <2>1. \A e \in resolved : table[EventId(e)] # Nothing /\ table[EventId(e)].payload = e.payload
    BY DEF DlqIInv, DlqTypes, Known, Kept, ResolvedStored, PayloadsMatch
  <2>2. /\ \A i \in Ids : alarms[i] # NoAlarms => i \in Items
        /\ \A i \in Items : table[i].count \in (tries[i] - 1)..(written[i] - 1)
    <3>1. ASSUME NEW i \in Items PROVE table[i].count \in (tries[i] - 1)..(written[i] - 1)
      <4>1. i \in Ids /\ table[i] # Nothing /\ table[i] \in StoredItems
        BY DEF DlqIInv, DlqTypes, Items
      <4>2. table[i].count \in Nat /\ written[i] \in Nat /\ tries[i] \in Nat
        BY <4>1 DEF StoredItems, DlqIInv, DlqTypes, TriesInv
      <4>3. table[i].count >= tries[i] - 1 /\ table[i].count < written[i]
        BY <4>1 DEF TriesInv, TriesCounted, DlqIInv, Kept, CountsBelow
      <4> QED BY <4>2, <4>3
    <3> QED BY <3>1 DEF DlqIInv, Known, AlarmsOfStored, Items
  <2>3. \A i \in Items \ met : table[i].count = written[i] - 1 /\ alarms[i].enqueue <= 1
    BY DEF DlqIInv, Kept, Due, CountsExact, RaisedOnce, Items
  <2>4. ASSUME NEW i \in Items \ cut, Quiet(i)
        PROVE  /\ alarms[i].enqueue >= 1
               /\ table[i].status = "quarantined" => alarms[i].quarantine >= 1
    <3>1. \A r \in Recorders : ~Arrives(r, i) /\ ~Condemns(r, i)
      BY <2>4 DEF Quiet, Arrives, Condemns, Wrote, Active, On
    <3> QED BY <3>1 DEF DlqIInv, Due, ArrivalDue, QuarantineDue, Condemned, Items
  <2> QED BY <2>1, <2>2, <2>3, <2>4 DEF Accounted
<1> QED BY <1>1, TriesAlways, PTL
=============================================================================
