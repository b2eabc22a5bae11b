----------------------------- MODULE KeyRegistry -----------------------------
(***************************************************************************)
(* KeyRotationRegistry and buildTrustFile: the lifecycle of the public     *)
(* keys of the two trust planes, evidence signing and export signing, and  *)
(* the trust files published from them, which verifiers hold on to.        *)
(*                                                                         *)
(* An instant is an integer.  The instants of a rotation and a revocation  *)
(* are arguments of the caller: they may lie in the past or the future.    *)
(***************************************************************************)
EXTENDS Integers, FiniteSets

CONSTANTS
  Planes,       \* "signing" and "export"
  Keys,         \* signing_key_ids
  Ed25519,      \* the keys whose algorithm is ed25519
  Times,        \* instants
  Custodians,   \* principals that request and approve
  FirstKey,     \* [Planes -> the key each registry starts with]
  MaxRotations, \* bound on rotations, over all planes
  None

ASSUME KeyRegistryAssumption ==
  /\ Ed25519 \subseteq Keys
  /\ Times \subseteq Int
  /\ 0 \in Times
  /\ FirstKey \in [Planes -> Keys]
  /\ MaxRotations \in Nat
  /\ None \notin Times
  /\ None \notin [created : Times, revoked : Times \cup {None}]
  /\ None \notin [notBefore : Times, revoked : Times \cup {None}]
  /\ None \notin [Planes -> [Keys -> [notBefore : Times, revoked : Times \cup {None}]
                                       \cup {None}]]

VARIABLES
  registered,   \* [Planes -> [Keys -> key record or None]]
  active,       \* [Planes -> active key]
  trust         \* the trust file published last: [Planes -> [Keys -> entry or
                \* None]], or None

kvars == <<registered, active, trust>>

KeyRecords   == [created : Times, revoked : Times \cup {None}]
TrustEntries == [notBefore : Times, revoked : Times \cup {None}]

RegistryInit ==
  /\ registered = [p \in Planes |-> [k \in Keys |->
                     IF k = FirstKey[p] THEN [created |-> 0, revoked |-> None]
                                        ELSE None]]
  /\ active = FirstKey
  /\ trust = None

-----------------------------------------------------------------------------
\* assertDualControl: the two-person rule.
DualControl(requestedBy, approvedBy) == requestedBy # approvedBy

Rotations ==
  {pk \in Planes \X Keys : pk[2] # FirstKey[pk[1]] /\ registered[pk[1]][pk[2]] # None}

\* rotate: a new active key; the others stay in the history as they are.
Rotate(p, k, created) ==
  /\ \E a, b \in Custodians : DualControl(a, b)
  /\ registered[p][k] = None
  /\ Cardinality(Rotations) < MaxRotations
  /\ registered' = [registered EXCEPT ![p] =
       [j \in Keys |-> IF j = k THEN [created |-> created, revoked |-> None]
                                ELSE registered[p][j]]]
  /\ active' = [active EXCEPT ![p] = k]
  /\ UNCHANGED trust

RevocableActive(p, k, at) ==           \* also the key in use
  /\ registered[p][k] # None
  /\ registered[p][k].revoked = None
  /\ at >= registered[p][k].created
RevocableAgain(p, k, at) ==            \* also a key revoked already
  registered[p][k] # None /\ k # active[p] /\ at >= registered[p][k].created

\* What revoke demands of the key and the instant.
Revocable(p, k, at) ==
  /\ registered[p][k] # None
  /\ k # active[p]
  /\ registered[p][k].revoked = None
  /\ at >= registered[p][k].created

Revoke(p, k, at) ==
  /\ \E a, b \in Custodians : DualControl(a, b)
  /\ Revocable(p, k, at)
  /\ registered' = [registered EXCEPT ![p][k].revoked = at]
  /\ UNCHANGED <<active, trust>>

FaultyEntry(r) ==                      \* revoked keys are pruned
  IF r = None THEN None
  ELSE IF r.revoked # None THEN None ELSE [notBefore |-> r.created, revoked |-> None]
\* projectKeys, for one key.
Entry(r) == IF r = None THEN None
            ELSE [notBefore |-> r.created, revoked |-> r.revoked]

\* buildTrustFile: refused if a key id is in both planes.
Publish ==
  /\ \A p, q \in Planes : \A k \in Keys :
       registered[p][k] # None /\ registered[q][k] # None => p = q
  /\ trust' = [p \in Planes |-> [k \in Keys |-> Entry(registered[p][k])]]
  /\ UNCHANGED <<registered, active>>

RegistryNext ==
  \/ \E p \in Planes, k \in Keys, t \in Times : Rotate(p, k, t) \/ Revoke(p, k, t)
  \/ Publish

RegistrySpec == RegistryInit /\ [][RegistryNext]_kvars

-----------------------------------------------------------------------------
\* statusAt and isValidAt: created_at <= at < revoked_at.
IsValidAt(p, k, at) ==
  LET r == registered[p][k]
  IN r # None /\ r.created <= at /\ (r.revoked # None => at < r.revoked)

FaultyKeyAccepted(directory, k, at) ==     \* not yet valid at not_before itself
  LET e == directory[k]
  IN /\ e # None
     /\ k \in Ed25519
     /\ ~(e.revoked # None /\ at >= e.revoked)
     /\ ~(at <= e.notBefore)

\* What the verifier demands of the key of a signature made at the instant at,
\* by the directory it loaded from a trust file.
KeyAccepted(directory, k, at) ==
  LET e == directory[k]
  IN /\ e # None
     /\ k \in Ed25519
     /\ ~(e.revoked # None /\ at >= e.revoked)
     /\ ~(at < e.notBefore)

-----------------------------------------------------------------------------
(* Properties.                                                             *)

\* Types of the state; no key is revoked as of an instant before it was created.
RegistryTypeOK ==
  /\ registered \in [Planes -> [Keys -> KeyRecords \cup {None}]]
  /\ \A p \in Planes, k \in Keys :
       registered[p][k] # None /\ registered[p][k].revoked # None =>
         registered[p][k].created <= registered[p][k].revoked
  /\ active \in [Planes -> Keys]
  /\ trust \in [Planes -> [Keys -> TrustEntries \cup {None}]] \cup {None}

\* After any sequence of rotations and revocations each plane has an active
\* key that is registered and not revoked: there is always a key to sign with.
ActiveKeyUsable ==
  \A p \in Planes :
    registered[p][active[p]] # None /\ registered[p][active[p]].revoked = None

\* Rotating and revoking never invalidate what was signed before: what a
\* signature's key allowed at its instant it allows for ever, unless the key
\* itself is revoked as of that instant or an earlier one.
NothingInvalidated ==
  [][\A p \in Planes, k \in Keys, at \in Times :
       IsValidAt(p, k, at) /\ ~IsValidAt(p, k, at)' =>
         /\ registered'[p][k] # None
         /\ registered[p][k].revoked = None
         /\ registered'[p][k].revoked <= at]_kvars

\* An old trust file and the registry disagree on a signature only where the
\* registry has moved on: a key registered since, or revoked since.
TrustFollowsRegistry ==
  trust # None =>
    \A p \in Planes, k \in Ed25519, at \in Times :
      IsValidAt(p, k, at) # KeyAccepted(trust[p], k, at) =>
        \/ trust[p][k] = None
        \/ trust[p][k].revoked = None /\ registered[p][k].revoked # None

=============================================================================
