--------------------------- MODULE AnchorProviders ---------------------------
(***************************************************************************)
(* The external authorities that anchor a head, and what of their tokens   *)
(* an independent verifier can check offline with nothing but a published  *)
(* certificate: a time-stamp authority, a transparency log (a Merkle tree  *)
(* as in RFC 6962) and the authority that stands in for them in tests.     *)
(* Anchoring.tla is the control around a request: timeouts and retries.    *)
(*                                                                         *)
(* A hash is the value it commits to, a signature its key and what it is   *)
(* over, and an authority's public key also its reference.                 *)
(***************************************************************************)
EXTENDS Integers, Sequences

CONSTANTS
  Payloads,     \* payload hashes of heads
  Logs,         \* transparency logs
  Tsas,         \* time-stamp authorities
  Times,        \* what an authority's clock may say
  MaxRequests,  \* bound on requests
  MaxRestarts,  \* bound on restarts of the logs' process
  Undefined

VARIABLES
  leaves,       \* [Logs -> leaf hashes] in the log's memory
  requests, restarts,
  signedTrees,  \* the trees the logs have signed, by their leaves (history)
  kept          \* outcomes requestAnchor let through, by the head they anchor

pvars == <<leaves, requests, restarts, signedTrees, kept>>

-----------------------------------------------------------------------------
(* The Merkle tree (packages/anchor-proof/src/transparency-log.ts).        *)

LeafHash(payload) == <<"leaf", payload>>
NodeHash(l, r)    == <<"node", l, r>>

\* The leaf hashes a log may hold.
Trees == Seq({LeafHash(p) : p \in Payloads})

\* The largest power of two below n, for n > 1.
LargestPowerOfTwo(n) ==
  LET Doubled[k \in 1..n] == IF 2 * k < n THEN Doubled[2 * k] ELSE k IN Doubled[1]

Left(hashes)  == SubSeq(hashes, 1, LargestPowerOfTwo(Len(hashes)))
Right(hashes) == SubSeq(hashes, LargestPowerOfTwo(Len(hashes)) + 1, Len(hashes))

MerkleTreeHash[hashes \in Trees] ==
  IF Len(hashes) = 0 THEN <<"none">>
  ELSE IF Len(hashes) = 1 THEN hashes[1]
  ELSE NodeHash(MerkleTreeHash[Left(hashes)], MerkleTreeHash[Right(hashes)])

\* Of each leaf m, counted from 0.
InclusionPath[hashes \in Trees] ==
  [m \in 0..Len(hashes) - 1 |->
     IF Len(hashes) = 1 THEN <<>>
     ELSE LET k == LargestPowerOfTwo(Len(hashes))
          IN IF m < k THEN Append(InclusionPath[Left(hashes)][m], MerkleTreeHash[Right(hashes)])
             ELSE Append(InclusionPath[Right(hashes)][m - k], MerkleTreeHash[Left(hashes)])]

\* The inner loop: past the zeros that fn ends in.
Shifted[at \in Nat \X Nat] ==
  IF at[1] % 2 = 0 /\ at[1] # 0 THEN Shifted[<<at[1] \div 2, at[2] \div 2>>] ELSE at

FaultyClimb(at, sibling) ==    \* the last node of a level that has no sibling of its own
  [fn |-> at.fn \div 2, sn |-> at.sn \div 2,
   r |-> IF at.fn % 2 = 1 THEN NodeHash(sibling, at.r) ELSE NodeHash(at.r, sibling)]
Climb(at, sibling) ==
  IF at.fn % 2 = 1 \/ at.fn = at.sn
  THEN LET past == Shifted[<<at.fn, at.sn>>]
       IN [fn |-> past[1] \div 2, sn |-> past[2] \div 2, r |-> NodeHash(sibling, at.r)]
  ELSE [fn |-> at.fn \div 2, sn |-> at.sn \div 2, r |-> NodeHash(at.r, sibling)]

\* The nodes on the way up a path.
Climbed(start, path) ==
  LET At[j \in 0..Len(path)] == IF j = 0 THEN start ELSE Climb(At[j - 1], path[j]) IN At

\* The root, if there is one.
RootFromInclusion(index, size, hash, path) ==
  LET top == Climbed([fn |-> index, sn |-> size - 1, r |-> hash], path)[Len(path)]
  IN IF index \in 0..size - 1 /\ top.sn = 0 THEN {top.r} ELSE {}

-----------------------------------------------------------------------------
(* Offline verification of a token's proof (anchor-proof, verify-anchor.ts). *)

SignedBy(key, message) == [key |-> key, over |-> message]
Decodes(proof) == "signature" \in DOMAIN proof      \* the stand-in's proofs do not

VerifyTransparencyLogToken(proof, payload, log) ==
  /\ Decodes(proof)
  /\ proof.log_id = log /\ proof.sth.log_id = log
  /\ proof.signature = SignedBy(log, proof.sth)
  /\ proof.sth.root \in
       RootFromInclusion(proof.leaf_index, proof.sth.tree_size, LeafHash(payload), proof.path)

VerifyRfc3161Token(proof, payload, tsa) ==
  /\ Decodes(proof)
  /\ proof.tst.imprint = payload /\ proof.tst.tsa_cert_ref = tsa
  /\ proof.signature = SignedBy(tsa, proof.tst)

\* The verifier trusts the certificates of the real authorities, and supports no
\* token of a custodian.
VerifyAnchorToken(proof, payload) ==
  CASE proof.type = "rfc3161" ->
         proof.tsa_cert_ref \in Tsas /\ VerifyRfc3161Token(proof, payload, proof.tsa_cert_ref)
    [] proof.type = "transparency_log" ->
         proof.log_id \in Logs /\ VerifyTransparencyLogToken(proof, payload, proof.log_id)
    [] OTHER -> FALSE

-----------------------------------------------------------------------------
(* The authorities (services/anchoring/src).                               *)

Token(payload, proof, time) == [payload_hash |-> payload, proof |-> proof, anchored_at |-> time]

LogToken(log, payload, time) ==
  LET hashes == Append(leaves[log], LeafHash(payload))
      sth == [log_id |-> log, tree_size |-> Len(hashes), root |-> MerkleTreeHash[hashes], time |-> time]
  IN Token(payload,
           [type |-> "transparency_log", log_id |-> log, leaf_index |-> Len(leaves[log]),
            path |-> InclusionPath[hashes][Len(leaves[log])], sth |-> sth,
            signature |-> SignedBy(log, sth)], time)

LogVerifies(log, token, payload) ==
  /\ token.proof.type = "transparency_log"
  /\ token.payload_hash = payload
  /\ VerifyTransparencyLogToken(token.proof, payload, log)
  /\ token.anchored_at = token.proof.sth.time

TsaToken(tsa, payload, time) ==
  LET tst == [imprint |-> payload, gen_time |-> time, tsa_cert_ref |-> tsa]
  IN Token(payload,
           [type |-> "rfc3161", tsa_cert_ref |-> tsa, tst |-> tst, signature |-> SignedBy(tsa, tst)],
           time)

TsaVerifies(tsa, token, payload) ==
  /\ token.proof.type = "rfc3161"
  /\ token.payload_hash = payload /\ token.proof.tsa_cert_ref = tsa
  /\ VerifyRfc3161Token(token.proof, payload, tsa)
  /\ token.anchored_at = token.proof.tst.gen_time

\* The stand-in: its references belong to no real authority.
Types == {"rfc3161", "transparency_log", "dual_custodian"}
Modes == {"anchored", "wrong_hash", "forged"}
Tampered(payload) == <<"tampered", payload>>
Commit(type, payload, time) == [type |-> type, payload |-> payload, time |-> time]

FakeProof(type, commitment) ==
  [type |-> type, tsa_cert_ref |-> Undefined, log_id |-> Undefined, commitment |-> commitment]
FakeToken(type, mode, payload, time) ==
  CASE mode = "anchored"   -> Token(payload, FakeProof(type, Commit(type, payload, time)), time)
    [] mode = "wrong_hash" -> Token(Tampered(payload),
                                    FakeProof(type, Commit(type, Tampered(payload), time)), time)
    [] mode = "forged"     -> Token(payload, FakeProof(type, Undefined), time)

FakeVerifies(type, token, payload) ==
  /\ token.payload_hash = payload /\ token.proof.type = type
  /\ token.proof.commitment = Commit(type, payload, token.anchored_at)

-----------------------------------------------------------------------------
ProvidersInit ==
  /\ leaves = [l \in Logs |-> <<>>]
  /\ requests = 0 /\ restarts = 0
  /\ signedTrees = {}
  /\ kept = {}

\* requestAnchor: the authority checks its own token before it is let through, and
\* the record built of it binds the head by its hash once more.
Keep(payload, token, verified, real) ==
  /\ requests < MaxRequests
  /\ requests' = requests + 1
  /\ kept' = IF token.payload_hash = payload /\ verified
             THEN kept \cup {[head |-> payload, token |-> token, real |-> real]} ELSE kept
  /\ UNCHANGED restarts

\* The leaf stays in the log also when the answer is never read: a head that is
\* tried again has a second one.
AnchorInLog(log, payload, time) ==
  LET token == LogToken(log, payload, time)
  IN /\ Keep(payload, token, LogVerifies(log, token, payload), TRUE)
     /\ leaves' = [leaves EXCEPT ![log] = Append(@, LeafHash(payload))]
     /\ signedTrees' = signedTrees \cup {[log |-> log, hashes |-> leaves'[log]]}

AnchorAtTsa(tsa, payload, time) ==
  LET token == TsaToken(tsa, payload, time)
  IN /\ Keep(payload, token, TsaVerifies(tsa, token, payload), TRUE)
     /\ UNCHANGED <<leaves, signedTrees>>

AnchorAtFake(type, mode, payload, time) ==
  LET token == FakeToken(type, mode, payload, time)
  IN /\ Keep(payload, token, FakeVerifies(type, token, payload), FALSE)
     /\ UNCHANGED <<leaves, signedTrees>>

\* A log keeps its tree in memory and its key outside: it starts again from
\* nothing under the same name.
Restart ==
  /\ restarts < MaxRestarts
  /\ restarts' = restarts + 1
  /\ leaves' = [l \in Logs |-> <<>>]
  /\ UNCHANGED <<requests, signedTrees, kept>>

ProvidersNext ==
  \/ \E p \in Payloads, t \in Times :
       \/ \E l \in Logs : AnchorInLog(l, p, t)
       \/ \E a \in Tsas : AnchorAtTsa(a, p, t)
       \/ \E y \in Types, m \in Modes : AnchorAtFake(y, m, p, t)
  \/ Restart

ProvidersSpec == ProvidersInit /\ [][ProvidersNext]_pvars

-----------------------------------------------------------------------------
\* A head the log has taken up is anchored, can be verified offline for ever after,
\* whatever the log has become, and its token is a proof of no other head; a token
\* of the stand-in is no proof of any.  Nor can the parts of the log's tokens be put together to
\* prove what was not at that place of a tree the log signed.
Genuine(k) ==
  \A p \in Payloads : VerifyAnchorToken(k.token.proof, p) <=> k.real /\ p = k.head

InLog == {k \in kept : k.real /\ k.token.proof.type = "transparency_log"}
ProofsSound ==
  /\ \A k \in kept : k.token.payload_hash = k.head /\ Genuine(k)
  /\ \A t \in signedTrees : \E k \in InLog :
       /\ t.hashes[Len(t.hashes)] = LeafHash(k.head)
       /\ k.token.proof.log_id = t.log
       /\ k.token.proof.sth.root = MerkleTreeHash[t.hashes]
  /\ \A a, b \in {k.token.proof : k \in InLog} : \A i \in 0..MaxRequests, p \in Payloads :
       VerifyAnchorToken([b EXCEPT !.path = a.path, !.leaf_index = i], p) =>
         \E t \in signedTrees :
           /\ t.log = b.log_id
           /\ Len(t.hashes) = b.sth.tree_size /\ MerkleTreeHash[t.hashes] = b.sth.root
           /\ i < Len(t.hashes) /\ t.hashes[i + 1] = LeafHash(p)
=============================================================================
