-------------------------- MODULE KeyRegistryProofs --------------------------
(* Proofs of the properties of KeyRegistry, for every set of planes, keys,  *)
(* instants and custodians and any number of rotations.                     *)
EXTENDS KeyRegistry, TLAPS

\* None is no instant, no record of a key and no trust file.
LEMMA NoneIsNothing ==
  /\ \A t \in Times : t # None /\ t \in Int
  /\ \A r \in KeyRecords : r # None
  /\ \A e \in TrustEntries : e # None
  /\ \A t \in [Planes -> [Keys -> TrustEntries \cup {None}]] : t # None
<1>1. \A r \in KeyRecords : r # None
  BY KeyRegistryAssumption, Zenon DEF KeyRecords
<1>2. \A t \in Times : t # None /\ t \in Int
  BY KeyRegistryAssumption
<1>3. \A e \in TrustEntries : e # None
  BY KeyRegistryAssumption, Zenon DEF TrustEntries
<1>4. \A t \in [Planes -> [Keys -> TrustEntries \cup {None}]] : t # None
  BY KeyRegistryAssumption, Zenon DEF TrustEntries
<1> QED
  BY <1>1, <1>2, <1>3, <1>4

\* An entry of a trust file is the record of the key, which stays in the
\* registry and can only be revoked after that.
TrustIsPast ==
  trust # None =>
    \A p \in Planes, k \in Keys :
      trust[p][k] # None =>
        /\ registered[p][k] # None
        /\ trust[p][k].notBefore = registered[p][k].created
        /\ trust[p][k].revoked # None => trust[p][k].revoked = registered[p][k].revoked

\* The inductive invariant.
IInv == RegistryTypeOK /\ ActiveKeyUsable /\ TrustIsPast

\* What a rotation and a revocation do to the record of one key.
Evolves(r, s) ==
  /\ s \in KeyRecords \cup {None}
  /\ \/ s = r
     \/ r = None /\ s \in KeyRecords /\ s.revoked = None
     \/ \E at \in Times :
          /\ r # None /\ r.revoked = None /\ at >= r.created
          /\ s = [r EXCEPT !.revoked = at]

LEMMA RecordsEvolve ==
  ASSUME RegistryTypeOK, RegistryNext
  PROVE  \A p \in Planes, k \in Keys : Evolves(registered[p][k], registered'[p][k])
<1> SUFFICES ASSUME NEW p \in Planes, NEW k \in Keys
             PROVE  Evolves(registered[p][k], registered'[p][k])
  OBVIOUS
<1> USE DEF Evolves
<1>1. CASE \E q \in Planes, j \in Keys, t \in Times : Rotate(q, j, t)
  <2>1. PICK q \in Planes, j \in Keys, t \in Times : Rotate(q, j, t)
    BY <1>1
  <2>2. CASE p = q /\ k = j
    <3>1. registered'[p][k] = [created |-> t, revoked |-> None] /\ registered[p][k] = None
      BY <2>1, <2>2 DEF Rotate, RegistryTypeOK
    <3> QED
      BY <3>1 DEF KeyRecords
  <2>3. CASE ~(p = q /\ k = j)
    <3>1. registered'[p][k] = registered[p][k]
      BY <2>1, <2>3 DEF Rotate, RegistryTypeOK
    <3> QED
      BY <3>1 DEF RegistryTypeOK
  <2> QED
    BY <2>2, <2>3
<1>2. CASE \E q \in Planes, j \in Keys, t \in Times : Revoke(q, j, t)
  <2>1. PICK q \in Planes, j \in Keys, t \in Times : Revoke(q, j, t)
    BY <1>2
  <2>2. CASE p = q /\ k = j
    <3>1. registered'[p][k] = [registered[p][k] EXCEPT !.revoked = t]
      BY <2>1, <2>2 DEF Revoke, RegistryTypeOK
    <3>2. registered[p][k] \in KeyRecords
      BY <2>1, <2>2 DEF Revoke, Revocable, RegistryTypeOK
    <3>3. registered'[p][k] \in KeyRecords
      BY <3>1, <3>2 DEF KeyRecords
    <3> QED
      BY <2>1, <2>2, <3>1, <3>3 DEF Revoke, Revocable
  <2>3. CASE ~(p = q /\ k = j)
    <3>1. registered'[p][k] = registered[p][k]
      BY <2>1, <2>3 DEF Revoke, RegistryTypeOK
    <3> QED
      BY <3>1 DEF RegistryTypeOK
  <2> QED
    BY <2>2, <2>3
<1>3. CASE Publish
  BY <1>3 DEF Publish, RegistryTypeOK
<1> QED
  BY <1>1, <1>2, <1>3 DEF RegistryNext

LEMMA EntryType ==
  ASSUME NEW r \in KeyRecords \cup {None}
  PROVE  Entry(r) \in TrustEntries \cup {None}
BY DEF Entry, KeyRecords, TrustEntries

LEMMA InitEstablishes == RegistryInit => IInv
<1> SUFFICES ASSUME RegistryInit PROVE IInv
  OBVIOUS
<1>1. \A p \in Planes, k \in Keys : registered[p][k] \in KeyRecords \cup {None}
  BY KeyRegistryAssumption DEF RegistryInit, KeyRecords
<1>2. \A p \in Planes, k \in Keys : registered[p][k] # None => registered[p][k].revoked = None
  BY DEF RegistryInit
<1>3. registered \in [Planes -> [Keys -> KeyRecords \cup {None}]]
  BY <1>1 DEF RegistryInit
<1>4. RegistryTypeOK
  BY <1>2, <1>3, KeyRegistryAssumption DEF RegistryInit, RegistryTypeOK
<1>5. ActiveKeyUsable
  <2> SUFFICES ASSUME NEW p \in Planes
               PROVE  registered[p][active[p]] # None /\ registered[p][active[p]].revoked = None
    BY DEF ActiveKeyUsable
  <2>1. registered[p][active[p]] = [created |-> 0, revoked |-> None]
    BY KeyRegistryAssumption DEF RegistryInit
  <2>2. [created |-> 0, revoked |-> None] \in KeyRecords
    BY KeyRegistryAssumption DEF KeyRecords
  <2> QED
    BY <2>1, <2>2, NoneIsNothing
<1> QED
  BY <1>4, <1>5 DEF IInv, TrustIsPast, RegistryInit

LEMMA TypesPreserved == RegistryTypeOK /\ [RegistryNext]_kvars => RegistryTypeOK'
<1> SUFFICES ASSUME RegistryTypeOK, [RegistryNext]_kvars PROVE RegistryTypeOK'
  OBVIOUS
<1>1. CASE UNCHANGED kvars
  BY <1>1 DEF kvars, RegistryTypeOK
<1>2. CASE RegistryNext
  <2>1. registered' \in [Planes -> [Keys -> KeyRecords \cup {None}]]
    <3>1. registered' = [q \in Planes |-> [j \in Keys |-> registered'[q][j]]]
      BY <1>2 DEF RegistryNext, Rotate, Revoke, Publish, RegistryTypeOK
    <3>2. \A q \in Planes, j \in Keys : registered'[q][j] \in KeyRecords \cup {None}
      BY <1>2, RecordsEvolve DEF Evolves
    <3> HIDE <1>2
    <3> QED
      BY <3>1, <3>2
  <2>2. ASSUME NEW p \in Planes, NEW k \in Keys,
               registered'[p][k] # None, registered'[p][k].revoked # None
        PROVE  registered'[p][k].created <= registered'[p][k].revoked
    <3>1. CASE registered'[p][k] = registered[p][k]
      BY <2>2, <3>1 DEF RegistryTypeOK
    <3>2. ASSUME NEW at \in Times, registered[p][k] # None, at >= registered[p][k].created,
                 registered'[p][k] = [registered[p][k] EXCEPT !.revoked = at]
          PROVE  registered'[p][k].created <= registered'[p][k].revoked
      <4>1. registered[p][k] \in KeyRecords
        BY <3>2 DEF RegistryTypeOK
      <4> QED
        BY <3>2, <4>1, NoneIsNothing DEF KeyRecords
    <3> QED
      BY <1>2, <2>2, <3>1, <3>2, RecordsEvolve DEF Evolves, RegistryTypeOK
  <2>3. active' \in [Planes -> Keys]
    BY <1>2 DEF RegistryNext, Rotate, Revoke, Publish, RegistryTypeOK
  <2>4. trust' \in [Planes -> [Keys -> TrustEntries \cup {None}]] \cup {None}
    <3>1. CASE Publish
      <4>1. \A p \in Planes, k \in Keys : Entry(registered[p][k]) \in TrustEntries \cup {None}
        BY EntryType DEF RegistryTypeOK
      <4> QED
        BY <3>1, <4>1 DEF Publish
    <3>2. CASE ~Publish
      BY <1>2, <3>2 DEF RegistryNext, Rotate, Revoke, RegistryTypeOK
    <3> QED
      BY <3>1, <3>2
  <2> QED
    BY <2>1, <2>2, <2>3, <2>4 DEF RegistryTypeOK
<1> QED
  BY <1>1, <1>2

LEMMA ActivePreserved ==
  RegistryTypeOK /\ ActiveKeyUsable /\ [RegistryNext]_kvars => ActiveKeyUsable'
<1> SUFFICES ASSUME RegistryTypeOK, ActiveKeyUsable, [RegistryNext]_kvars,
                    NEW p \in Planes
             PROVE  registered'[p][active'[p]] # None /\ registered'[p][active'[p]].revoked = None
  BY DEF ActiveKeyUsable
<1>1. CASE UNCHANGED kvars
  BY <1>1 DEF kvars, ActiveKeyUsable
<1>2. CASE active'[p] = active[p] /\ RegistryNext
  <2>1. active[p] \in Keys /\ registered[p][active[p]] # None
    BY DEF RegistryTypeOK, ActiveKeyUsable
  <2>2. ASSUME NEW q \in Planes, NEW j \in Keys, NEW t \in Times, Rotate(q, j, t)
        PROVE  registered'[p][active[p]] = registered[p][active[p]]
    <3>1. ~(p = q /\ j = active[p])
      BY <2>1, <2>2 DEF Rotate
    <3> QED
      BY <2>1, <2>2, <3>1 DEF Rotate, RegistryTypeOK
  <2>3. ASSUME NEW q \in Planes, NEW j \in Keys, NEW t \in Times, Revoke(q, j, t)
        PROVE  registered'[p][active[p]] = registered[p][active[p]]
    BY <2>1, <2>3 DEF Revoke, Revocable, RegistryTypeOK
  <2>4. CASE Publish
    BY <1>2, <2>1, <2>4 DEF Publish, ActiveKeyUsable
  <2> QED
    BY <1>2, <2>1, <2>2, <2>3, <2>4 DEF RegistryNext, ActiveKeyUsable
<1>3. CASE active'[p] # active[p] /\ RegistryNext
  <2>1. PICK q \in Planes, j \in Keys, t \in Times : Rotate(q, j, t)
    BY <1>3 DEF RegistryNext, Revoke, Publish
  <2>2. p = q /\ active'[p] = j
    BY <1>3, <2>1 DEF Rotate, RegistryTypeOK
  <2>3. registered'[p][j] = [created |-> t, revoked |-> None]
    BY <2>1, <2>2 DEF Rotate, RegistryTypeOK
  <2>4. [created |-> t, revoked |-> None] \in KeyRecords
    BY DEF KeyRecords
  <2> QED
    BY <2>2, <2>3, <2>4, NoneIsNothing
<1> QED
  BY <1>1, <1>2, <1>3

LEMMA TrustPreserved ==
  RegistryTypeOK /\ TrustIsPast /\ [RegistryNext]_kvars => TrustIsPast'
<1> SUFFICES ASSUME RegistryTypeOK, TrustIsPast, [RegistryNext]_kvars, trust' # None,
                    NEW p \in Planes, NEW k \in Keys, trust'[p][k] # None
             PROVE  /\ registered'[p][k] # None
                    /\ trust'[p][k].notBefore = registered'[p][k].created
                    /\ trust'[p][k].revoked # None =>
                         trust'[p][k].revoked = registered'[p][k].revoked
  BY DEF TrustIsPast
<1>1. CASE UNCHANGED kvars
  BY <1>1 DEF kvars, TrustIsPast
<1>2. CASE Publish
  BY <1>2 DEF Publish, Entry
<1>3. CASE RegistryNext /\ ~Publish
  <2>1. trust' = trust
    BY <1>3 DEF RegistryNext, Rotate, Revoke
  <2>2. /\ registered[p][k] # None
        /\ trust[p][k].notBefore = registered[p][k].created
        /\ trust[p][k].revoked # None => trust[p][k].revoked = registered[p][k].revoked
    BY <2>1 DEF TrustIsPast
  <2>3. registered[p][k] \in KeyRecords
    BY <2>2 DEF RegistryTypeOK
  <2>4. CASE registered'[p][k] = registered[p][k]
    BY <2>1, <2>2, <2>4
  <2>5. ASSUME NEW at \in Times, registered[p][k].revoked = None,
               registered'[p][k] = [registered[p][k] EXCEPT !.revoked = at]
        PROVE  /\ registered'[p][k] # None
               /\ registered'[p][k].created = registered[p][k].created
    <3>1. registered'[p][k] \in KeyRecords
      BY <2>3, <2>5 DEF KeyRecords
    <3> QED
      BY <2>3, <2>5, <3>1, NoneIsNothing DEF KeyRecords
  <2> QED
    <3>1. Evolves(registered[p][k], registered'[p][k])
      BY <1>3, RecordsEvolve
    <3> QED
      BY <2>1, <2>2, <2>4, <2>5, <3>1 DEF Evolves
<1> QED
  BY <1>1, <1>2, <1>3

LEMMA IInvHolds == RegistrySpec => []IInv
<1>1. IInv /\ [RegistryNext]_kvars => IInv'
  BY TypesPreserved, ActivePreserved, TrustPreserved DEF IInv
<1> QED
  BY InitEstablishes, <1>1, PTL DEF RegistrySpec

\* Type correctness: the records are well formed and no key is ever revoked as
\* of an instant before its creation.
THEOREM RegistryTypes == RegistrySpec => []RegistryTypeOK
BY IInvHolds, PTL DEF IInv

\* A plane always has a key to sign with.
THEOREM KeysUsable == RegistrySpec => []ActiveKeyUsable
BY IInvHolds, PTL DEF IInv

\* A trust file is wrong about a signature only where the registry has moved on
\* since it was published.
THEOREM TrustFollows == RegistrySpec => []TrustFollowsRegistry
<1>1. IInv => TrustFollowsRegistry
  <2> SUFFICES ASSUME IInv, trust # None, NEW p \in Planes, NEW k \in Ed25519, NEW at \in Times,
                      trust[p][k] # None,
                      ~(trust[p][k].revoked = None /\ registered[p][k].revoked # None)
               PROVE  IsValidAt(p, k, at) = KeyAccepted(trust[p], k, at)
    BY DEF TrustFollowsRegistry
  <2>1. k \in Keys
    BY KeyRegistryAssumption
  <2>2. /\ registered[p][k] # None
        /\ trust[p][k].notBefore = registered[p][k].created
        /\ trust[p][k].revoked = registered[p][k].revoked
    BY <2>1 DEF IInv, TrustIsPast
  <2>3. registered[p][k] \in KeyRecords
    BY <2>1, <2>2 DEF IInv, RegistryTypeOK
  <2>4. at \in Int /\ registered[p][k].created \in Int
    BY <2>3, NoneIsNothing DEF KeyRecords
  <2>5. registered[p][k].revoked # None => registered[p][k].revoked \in Int
    BY <2>3, NoneIsNothing DEF KeyRecords
  <2>6. trust[p][k].revoked = None \/ ~(at >= trust[p][k].revoked) <=>
          trust[p][k].revoked = None \/ at < registered[p][k].revoked
    BY <2>2, <2>4, <2>5
  <2>7. ~(at < trust[p][k].notBefore) <=> registered[p][k].created <= at
    BY <2>2, <2>4
  <2>8. IsValidAt(p, k, at) <=> KeyAccepted(trust[p], k, at)
    BY <2>2, <2>6, <2>7 DEF IsValidAt, KeyAccepted
  <2> QED
    BY <2>8 DEF IsValidAt, KeyAccepted
<1> QED
  BY IInvHolds, <1>1, PTL

\* Signatures stay valid through every rotation and revocation but that of
\* their own key as of their instant or earlier.
THEOREM SignaturesStayValid == RegistrySpec => NothingInvalidated
<1>1. IInv /\ [RegistryNext]_kvars =>
        [\A p \in Planes, k \in Keys, at \in Times :
           IsValidAt(p, k, at) /\ ~IsValidAt(p, k, at)' =>
             /\ registered'[p][k] # None
             /\ registered[p][k].revoked = None
             /\ registered'[p][k].revoked <= at]_kvars
  <2> SUFFICES ASSUME IInv, RegistryNext, NEW p \in Planes, NEW k \in Keys, NEW at \in Times,
                      IsValidAt(p, k, at), ~IsValidAt(p, k, at)'
               PROVE  /\ registered'[p][k] # None
                      /\ registered[p][k].revoked = None
                      /\ registered'[p][k].revoked <= at
    OBVIOUS
  <2>1. registered[p][k] # None /\ registered[p][k] \in KeyRecords
    BY DEF IsValidAt, IInv, RegistryTypeOK
  <2>2. registered'[p][k] # registered[p][k]
    BY DEF IsValidAt
  <2>3. PICK t \in Times : /\ registered[p][k].revoked = None
                           /\ registered'[p][k] = [registered[p][k] EXCEPT !.revoked = t]
    <3>1. Evolves(registered[p][k], registered'[p][k])
      BY RecordsEvolve DEF IInv
    <3> QED
      BY <2>1, <2>2, <3>1 DEF Evolves
  <2>4. registered'[p][k] \in KeyRecords /\ registered'[p][k] # None
    BY <2>1, <2>3, NoneIsNothing DEF KeyRecords
  <2>5. registered'[p][k].revoked = t /\ registered'[p][k].created = registered[p][k].created
    BY <2>1, <2>3 DEF KeyRecords
  <2>6. t <= at
    BY <2>1, <2>4, <2>5, NoneIsNothing DEF IsValidAt, KeyRecords
  <2> QED
    BY <2>3, <2>4, <2>5, <2>6
<1> QED
  BY IInvHolds, <1>1, PTL DEF RegistrySpec, NothingInvalidated

=============================================================================
