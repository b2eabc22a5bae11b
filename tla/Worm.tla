--------------------------------- MODULE Worm ---------------------------------
(***************************************************************************)
(* The WORM store adapter over a versioned bucket with Object Lock         *)
(* (MinioWormStore): several writing processes that boot the bucket and    *)
(* put objects, and custodians that extend retention, place and lift legal *)
(* holds and delete what has expired.  A call is a sequence of requests to *)
(* the object store and calls interleave; a stat may fail, and the         *)
(* adapter takes that for an object that is not there.                     *)
(***************************************************************************)
EXTENDS Integers, Sequences, FiniteSets

CONSTANTS
  Objects,      \* object keys
  Processes,    \* processes with a writer
  DaysOf,       \* [Processes -> defaultRetentionDays of its configuration, or Absent]
  Custodians,   \* callers of the retention administration
  Instants,     \* 0..n, the object store's clock, retentions and callers' clocks
  MaxPuts,      \* bound on versions written
  MaxStatFaults,\* bound on stats and hold reads that fail
  MaxCrashes,   \* bound on crashes of a writing process
  Absent

\* What the bucket keeps of a version: its lock, and the instant it was put.
Versions == [id : Nat, marker : BOOLEAN, hold : BOOLEAN, at : Nat, until : Nat]

\* The lock of an object, as a custodian reads it.
Locks == [until : Nat, hold : BOOLEAN]

\* Whether Object Lock and versioning are on, and the default retention.
Buckets == [lock : BOOLEAN, versioned : BOOLEAN, days : Nat \cup {Absent}]

ASSUME WormAssumption ==
  /\ Absent \notin Int \cup Versions \cup Locks \cup Buckets \cup Objects
  /\ Instants \subseteq Nat /\ 0 \in Instants
  /\ \A p \in Processes : DaysOf[p] \in {Absent} \cup (Nat \ {0})
  /\ MaxPuts \in Nat /\ MaxStatFaults \in Nat /\ MaxCrashes \in Nat

VARIABLES
  clock,        \* the object store's clock
  bucket,       \* the bucket, or Absent
  versions,     \* [Objects -> the versions of the key, delete markers included, oldest first]
  puts,         \* versions written so far
  stage,        \* [Processes -> how far ensureBucket has come]
  writing,      \* [Processes -> the key of a put whose check has passed, or Absent]
  admin,        \* [Custodians -> the call under way, or Absent]
  contested,    \* keys that two puts met over, or whose stat failed under a put
  faults, crashes

wvars == <<clock, bucket, versions, puts, stage, writing, admin, contested, faults, crashes>>

WormInit ==
  /\ clock = 0
  /\ bucket \in {Absent, [lock |-> FALSE, versioned |-> FALSE, days |-> Absent],
                 [lock |-> TRUE, versioned |-> TRUE, days |-> Absent]}
  /\ versions = [k \in Objects |-> <<>>]
  /\ puts = 0
  /\ stage = [p \in Processes |-> "down"]
  /\ writing = [p \in Processes |-> Absent]
  /\ admin = [c \in Custodians |-> Absent]
  /\ contested = {}
  /\ faults = 0 /\ crashes = 0

-----------------------------------------------------------------------------
(* The object store.                                                       *)

Marker == [id |-> 0, marker |-> TRUE, until |-> 0, hold |-> FALSE, at |-> 0]

Locked(v) == ~v.marker /\ (v.hold \/ v.until > clock)

\* What a read by key serves: the latest version, unless it is a delete marker.
Served(k) ==
  LET vs == versions[k]
  IN IF vs = <<>> \/ vs[Len(vs)].marker THEN Absent ELSE vs[Len(vs)]

\* A put makes a new version, locked by the bucket's default if there is one.
Stored(k) ==
  [versions EXCEPT ![k] = Append(@,
     [id |-> puts + 1, marker |-> FALSE, hold |-> FALSE, at |-> clock,
      until |-> IF bucket.lock /\ bucket.days # Absent THEN clock + bucket.days ELSE clock])]

OfVersion(k, id, Change(_)) ==
  [versions EXCEPT ![k] = [i \in DOMAIN @ |-> IF @[i].id = id THEN Change(@[i]) ELSE @[i]]]

Without(vs, i) == [j \in 1..(Len(vs) - 1) |-> IF j < i THEN vs[j] ELSE vs[j + 1]]

\* A version that is locked is not removed.
Removed(k, id) ==
  LET Here == {i \in DOMAIN versions[k] : versions[k][i].id = id}
  IN IF \E i \in Here : ~Locked(versions[k][i])
     THEN [versions EXCEPT ![k] = Without(@, CHOOSE i \in Here : TRUE)]
     ELSE versions

\* A delete that names no version hides the object behind a marker.
Hidden(k) == [versions EXCEPT ![k] = Append(@, Marker)]

Tick ==
  /\ clock + 1 \in Instants
  /\ clock' = clock + 1
  /\ UNCHANGED <<bucket, versions, puts, stage, writing, admin, contested, faults, crashes>>

-----------------------------------------------------------------------------
(* ensureBucket, request by request; the process goes on to write only     *)
(* when all of it succeeded.                                               *)

At(p, from, to) == stage[p] = from /\ stage' = [stage EXCEPT ![p] = to]

Booting == UNCHANGED <<clock, versions, puts, writing, admin, contested, faults, crashes>>

BucketExists(p) ==
  /\ At(p, "down", IF bucket = Absent THEN "making" ELSE "made")
  /\ UNCHANGED bucket
  /\ Booting

\* makeBucket is refused when another process has made it since.
MakeBucket(p) ==
  /\ At(p, "making", IF bucket = Absent THEN "made" ELSE "down")
  /\ bucket' = IF bucket = Absent THEN [lock |-> TRUE, versioned |-> TRUE, days |-> Absent]
               ELSE bucket
  /\ Booting

SetBucketVersioning(p) ==
  /\ At(p, "made", "versioned")
  /\ bucket' = [bucket EXCEPT !.versioned = TRUE]
  /\ Booting

FaultyAfterVersioning(p) == IF DaysOf[p] = Absent THEN "ready" ELSE "locked"
AfterVersioning(p) ==
  IF ~bucket.lock THEN "down" ELSE IF DaysOf[p] = Absent THEN "ready" ELSE "locked"

AssertObjectLockEnabled(p) ==
  /\ At(p, "versioned", AfterVersioning(p))
  /\ UNCHANGED bucket
  /\ Booting

SetObjectLockConfig(p) ==
  /\ At(p, "locked", "ready")
  /\ bucket' = [bucket EXCEPT !.days = DaysOf[p]]
  /\ Booting

CrashWriter(p) ==
  /\ stage[p] # "down"
  /\ crashes < MaxCrashes
  /\ crashes' = crashes + 1
  /\ stage' = [stage EXCEPT ![p] = "down"]
  /\ writing' = [writing EXCEPT ![p] = Absent]
  /\ UNCHANGED <<clock, bucket, versions, puts, admin, contested, faults>>

-----------------------------------------------------------------------------
(* putImmutable.                                                           *)

\* Every error of a stat is taken for NoSuchKey.
FaultyExists(k, failed) == FALSE
Exists(k, failed) == ~failed /\ Served(k) # Absent

MayWrite(p) == stage[p] = "ready" /\ DaysOf[p] # Absent

PutCheck(p, k, failed) ==
  /\ MayWrite(p)
  /\ writing[p] = Absent
  /\ failed => faults < MaxStatFaults
  /\ faults' = IF failed THEN faults + 1 ELSE faults
  /\ ~Exists(k, failed)
  /\ writing' = [writing EXCEPT ![p] = k]
  /\ contested' = IF failed \/ \E q \in Processes : writing[q] = k
                  THEN contested \cup {k} ELSE contested
  /\ UNCHANGED <<clock, bucket, versions, puts, stage, admin, crashes>>

PutObject(p) ==
  LET k == writing[p] IN
  /\ k # Absent
  /\ puts < MaxPuts
  /\ versions' = Stored(k)
  /\ puts' = puts + 1
  /\ writing' = [writing EXCEPT ![p] = Absent]
  /\ UNCHANGED <<clock, bucket, stage, admin, contested, faults, crashes>>

-----------------------------------------------------------------------------
(* The retention administration.                                           *)

Administered == UNCHANGED <<clock, bucket, puts, stage, writing, contested, crashes>>

\* headObjectLock: a failed read of the hold is taken for none.
HeadObjectLock(k, failed) == [until |-> Served(k).until, hold |-> ~failed /\ Served(k).hold]

MayExtend(lock, t) == t >= lock.until

MayDelete(lock, now) == ~lock.hold /\ now >= lock.until

Started(c, k, failed, call) ==
  /\ admin[c] = Absent
  /\ failed => faults < MaxStatFaults /\ Served(k).hold
  /\ faults' = IF failed THEN faults + 1 ELSE faults
  /\ admin' = [admin EXCEPT ![c] = call]
  /\ UNCHANGED versions
  /\ Administered

ExtendRetention(c, k, t) ==
  /\ Served(k) # Absent
  /\ MayExtend(HeadObjectLock(k, FALSE), t)
  /\ Started(c, k, FALSE, [op |-> "extend", key |-> k, until |-> t, version |-> Absent])

\* The caller passes the time, by whatever clock it has.
DeleteExpired(c, k, now, failed) ==
  /\ Served(k) # Absent
  /\ MayDelete(HeadObjectLock(k, failed), now)
  /\ Started(c, k, failed, [op |-> "delete", key |-> k, until |-> 0, version |-> Absent])

\* No object at the key any more: the call fails.
LatestVersionId(c) ==
  LET call == admin[c] IN
  /\ call # Absent
  /\ call.version = Absent
  /\ admin' = [admin EXCEPT ![c] =
       IF Served(call.key) = Absent THEN Absent
       ELSE [call EXCEPT !.version = Served(call.key).id]]
  /\ UNCHANGED <<versions, faults>>
  /\ Administered

\* putObjectRetention: compliance mode refuses to shorten.
PutObjectRetention(c) ==
  LET call == admin[c] IN
  /\ call # Absent
  /\ call.op = "extend" /\ call.version # Absent
  /\ versions' = OfVersion(call.key, call.version,
       LAMBDA v : IF call.until >= v.until THEN [v EXCEPT !.until = call.until] ELSE v)
  /\ admin' = [admin EXCEPT ![c] = Absent]
  /\ UNCHANGED faults
  /\ Administered

FaultyDeleted(call) == Hidden(call.key)
Deleted(call) == Removed(call.key, call.version)

RemoveObject(c) ==
  LET call == admin[c] IN
  /\ call # Absent
  /\ call.op = "delete" /\ call.version # Absent
  /\ versions' = Deleted(call)
  /\ admin' = [admin EXCEPT ![c] = Absent]
  /\ UNCHANGED faults
  /\ Administered

\* A hold names no version: it is put on the latest one.
SetLegalHold(c, k, on) ==
  /\ admin[c] = Absent
  /\ Served(k) # Absent
  /\ Served(k).hold # on
  /\ versions' = OfVersion(k, Served(k).id, LAMBDA v : [v EXCEPT !.hold = on])
  /\ UNCHANGED <<admin, faults>>
  /\ Administered

WormNext ==
  \/ Tick
  \/ \E p \in Processes :
       \/ BucketExists(p) \/ MakeBucket(p) \/ SetBucketVersioning(p)
       \/ AssertObjectLockEnabled(p) \/ SetObjectLockConfig(p) \/ CrashWriter(p)
       \/ \E k \in Objects, failed \in BOOLEAN : PutCheck(p, k, failed)
       \/ PutObject(p)
  \/ \E c \in Custodians :
       \/ LatestVersionId(c) \/ PutObjectRetention(c) \/ RemoveObject(c)
       \/ \E k \in Objects, t \in Instants, failed \in BOOLEAN :
            DeleteExpired(c, k, t, failed)
       \/ \E k \in Objects, t \in Instants : ExtendRetention(c, k, t)
       \/ \E k \in Objects, on \in BOOLEAN : SetLegalHold(c, k, on)

WormSpec == WormInit /\ [][WormNext]_wvars

-----------------------------------------------------------------------------
(* Properties.                                                             *)

\* What a store can hold, and how far a process can have come with the bucket.
TypeOK ==
  /\ clock \in Instants
  /\ \A k \in Objects : \A i, j \in DOMAIN versions[k] :
       /\ versions[k][i].id \in 0..puts
       /\ i < j => versions[k][i].id < versions[k][j].id
  /\ puts \in 0..MaxPuts
  /\ stage \in [Processes -> {"down", "making", "made", "versioned", "locked", "ready"}]
  /\ \A p \in Processes : writing[p] \in Objects \cup {Absent}
  /\ \A p \in Processes : stage[p] \in {"made", "versioned", "locked", "ready"} => bucket # Absent
  /\ contested \subseteq Objects

Floors == {DaysOf[p] : p \in Processes} \ {Absent}

\* Every object is born locked, and for no less than the shortest retention any
\* writer is configured with, although the writer sets no retention itself and
\* relies on a bucket default that another process, or a crash half way through
\* ensureBucket, may have left otherwise (H4).
BornLocked ==
  \A k \in Objects : \A i \in DOMAIN versions[k] :
    ~versions[k][i].marker => \E d \in Floors : versions[k][i].until >= versions[k][i].at + d

\* What is retained or held is what the readers are served: no order of puts,
\* holds, extensions and deletions hides it behind a marker or another version.
\* Under a contested key another version may be served, but the key still reads.
RetainedReadable ==
  \A k \in Objects : \A i \in DOMAIN versions[k] : Locked(versions[k][i]) =>
    /\ Served(k) # Absent
    /\ k \notin contested => Served(k) = versions[k][i]

\* The retentions an object can have.
Reach == Instants \cup {i + d : i \in Instants, d \in Floors}

\* What a read by key shows of each object.
Shown ==
  [k \in Objects |->
     IF Served(k) = Absent THEN Absent ELSE [until |-> Served(k).until, hold |-> Served(k).hold]]

\* To clients that do not meet over a key the versioned bucket is a store of
\* objects written once: nothing is replaced, shortened or deleted before the
\* store's clock has reached its retention.  Under the other keys what is
\* retained may be replaced in the readers' sight, but not taken out of it.
Abstract == INSTANCE ImmutableStore WITH
  Nothing <- Absent,
  Instants <- Reach,
  object <- Shown

ActsAsImmutableStore == Abstract!Spec
=============================================================================
