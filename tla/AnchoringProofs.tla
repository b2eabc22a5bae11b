--------------------------- MODULE AnchoringProofs ---------------------------
(***************************************************************************)
(* Proofs about anchoring, for any number of heads, callers, coordinators, *)
(* attempts, authorities and requests.                                     *)
(*                                                                         *)
(* Of the coordinator: the properties of the runs are not inductive.  That *)
(* a joined caller is served rests on the agreement of the in-flight map   *)
(* with what the callers are doing (FlightAgrees), and that a returned     *)
(* record stays the stored one on the store only ever growing (StoreGrows).*)
(*                                                                         *)
(* Of the authorities: what the Merkle proofs of a transparency log mean,  *)
(* for trees and paths of any size, and from it what a token that          *)
(* requestAnchor lets through is worth to an offline verifier.             *)
(***************************************************************************)
EXTENDS Anchoring, AnchorProviders, SequenceTheorems, WellFoundedInduction, TLAPS

Place(k, h) == [coordinator |-> k, head |-> h]

\* The in-flight map names exactly the runs under way.
FlightAgrees ==
  /\ \A c \in Callers : Running(c) =>
       owner[c] = c /\ inflight[at[c].coordinator][at[c].head] = c
  /\ \A k \in Coordinators, h \in Heads : inflight[k][h] # None =>
       Running(inflight[k][h]) /\ at[inflight[k][h]] = Place(k, h)

\* A call under way has a place; it awaits a run until it returns, and has an
\* outcome only then.
CallsPlaced ==
  \A c \in Callers :
    /\ state[c] # "idle" => at[c] \in Places
    /\ owner[c] # None <=> state[c] \in {"asking", "sleeping", "joined"}
    /\ outcome[c] # None => state[c] = "returned"

\* There is an attempt left for a run that sleeps.
AttemptsBounded ==
  \A c \in Callers :
    /\ Running(c) => asks[c] > 0
    /\ state[c] = "sleeping" => asks[c] < MaxAttempts

IInv ==
  /\ TypeOK
  /\ NoFabrication
  /\ ReturnedIsStored
  /\ JoinedIsServed
  /\ FlightAgrees
  /\ CallsPlaced
  /\ AttemptsBounded

\* The store only gains verified records, and gains them once.
StoreGrows ==
  /\ store' \in [Heads -> Records \cup {None}]
  /\ NoFabrication'
  /\ \A h \in Heads : store[h] # None => store'[h] = store[h]
-----------------------------------------------------------------------------
LEMMA InitIInv == Init => IInv
  BY AnchoringAssumption
  DEF Init, IInv, TypeOK, NoFabrication, ReturnedIsStored, JoinedIsServed,
      FlightAgrees, CallsPlaced, AttemptsBounded, Running

\* A record that a verdict lets through is a verified record of its head.
LEMMA VerifiedReply ==
  ASSUME NEW reply \in Replies, NEW h \in Heads, Verdict(reply, h) = "anchored"
  PROVE  reply \in Tokens /\ reply.head = h /\ reply.verifies
  <1>1. reply.kind = "token" /\ reply.head = h /\ reply.verifies
    BY DEF Verdict
  <1>2. reply \in Tokens
    BY <1>1 DEF Replies, Tokens
  <1> QED BY <1>1, <1>2

\* putIfAbsent of a verified record.
LEMMA KeptGrows ==
  ASSUME IInv, NEW h \in Heads, NEW r \in Records,
         r.id = h, r.token.head = h, r.token.verifies,
         store' = [store EXCEPT ![h] = Kept(h, r)]
  PROVE  StoreGrows /\ store'[h] = Kept(h, r) /\ Kept(h, r) \in Records
  BY DEF IInv, TypeOK, NoFabrication, StoreGrows, Kept

LEMMA SameStore ==
  ASSUME IInv, UNCHANGED store
  PROVE  StoreGrows
  BY DEF IInv, TypeOK, NoFabrication, StoreGrows

\* A run settles with an outcome that is true of the store.
LEMMA SettleIInv ==
  ASSUME IInv, StoreGrows,
         NEW c \in Callers, Running(c),
         NEW o \in Outcomes, Settle(c, o),
         o.status = "anchored" => o.record = store'[at[c].head]
  PROVE  IInv'
  <1> USE AnchoringAssumption
  <1>1. /\ at[c] \in Places
        /\ at[c].coordinator \in Coordinators
        /\ at[c].head \in Heads
    BY DEF IInv, CallsPlaced, Running, Places
  <1>2. c \in Awaiting(c) /\ Awaiting(c) \subseteq Callers
    BY DEF IInv, FlightAgrees, Awaiting
  <1>3. TypeOK'
    BY <1>1 DEF IInv, TypeOK, StoreGrows, Settle
  <1>4. ReturnedIsStored'
    <2> SUFFICES ASSUME NEW d \in Callers, outcome'[d] # None, outcome'[d].status = "anchored"
                 PROVE  outcome'[d].record = store'[at'[d].head]
      BY DEF ReturnedIsStored
    <2>1. CASE d \in Awaiting(c)
      <3>1. at[d] = at[c]
        BY <2>1 DEF IInv, TypeOK, FlightAgrees, JoinedIsServed, CallsPlaced, Awaiting, Running
      <3>2. outcome'[d] = o /\ at' = at
        BY <2>1 DEF Settle
      <3> QED BY <3>1, <3>2
    <2>2. CASE d \notin Awaiting(c)
      <3>1. outcome'[d] = outcome[d] /\ at' = at
        BY <2>2 DEF Settle
      <3>2. outcome[d].record = store[at[d].head]
        BY <3>1 DEF IInv, ReturnedIsStored
      <3>3. outcome[d].record \in Records
        BY <3>1 DEF IInv, TypeOK, Outcomes
      <3>4. at[d].head \in Heads
        BY <3>1 DEF IInv, CallsPlaced, Places
      <3> QED BY <3>1, <3>2, <3>3, <3>4, NoneIsNoRecord DEF StoreGrows
    <2> QED BY <2>1, <2>2
  <1>5. \A d \in Callers : Running(d)' =>
          d \notin Awaiting(c) /\ Running(d) /\ d # c
    BY <1>2 DEF Running, Settle
  <1>6. \A d \in Callers : d \notin Awaiting(c) =>
          state'[d] = state[d] /\ owner'[d] = owner[d] /\ at'[d] = at[d]
    BY DEF IInv, TypeOK, Settle
  <1>7. \A d \in Callers : Running(d) /\ d # c => d \notin Awaiting(c) /\ Running(d)'
    BY <1>6 DEF IInv, FlightAgrees, Awaiting, Running
  <1>8. JoinedIsServed'
    <2> SUFFICES ASSUME NEW d \in Callers, state'[d] = "joined"
                 PROVE  Running(owner[d])' /\ at'[owner'[d]] = at'[d]
      BY DEF JoinedIsServed, Running
    <2>1. d \notin Awaiting(c)
      BY DEF IInv, TypeOK, Settle
    <2>2. state[d] = "joined" /\ owner'[d] = owner[d] /\ owner[d] \in Callers /\ owner[d] # c
      BY <2>1, <1>6 DEF IInv, TypeOK, CallsPlaced, Awaiting
    <2>3. Running(owner[d]) /\ at[owner[d]] = at[d]
      BY <2>2 DEF IInv, JoinedIsServed
    <2>4. owner[d] \notin Awaiting(c)
      BY <2>2, <2>3, <1>7
    <2> QED BY <2>1, <2>2, <2>3, <2>4, <1>6 DEF Running
  <1>9. FlightAgrees'
    <2>1. ASSUME NEW d \in Callers, Running(d)'
          PROVE  owner'[d] = d /\ inflight'[at'[d].coordinator][at'[d].head] = d
      <3>1. Running(d) /\ d # c /\ d \notin Awaiting(c)
        BY <2>1, <1>5
      <3>2. /\ owner[d] = d
            /\ inflight[at[d].coordinator][at[d].head] = d
            /\ inflight[at[c].coordinator][at[c].head] = c
        BY <3>1 DEF IInv, FlightAgrees
      <3>3. at[d].coordinator # at[c].coordinator \/ at[d].head # at[c].head
        BY <3>1, <3>2
      <3>4. at[d].coordinator \in Coordinators /\ at[d].head \in Heads
        BY <3>1 DEF IInv, CallsPlaced, Running, Places
      <3>5. inflight'[at[d].coordinator][at[d].head] = inflight[at[d].coordinator][at[d].head]
        BY <3>3, <3>4, <1>1 DEF IInv, TypeOK, Settle
      <3> QED BY <3>1, <3>2, <3>5, <1>6
    <2>2. ASSUME NEW k \in Coordinators, NEW h \in Heads, inflight'[k][h] # None
          PROVE  Running(inflight[k][h])' /\ at'[inflight'[k][h]] = Place(k, h)
      <3>1. inflight'[k][h] = inflight[k][h]
        BY <2>2, <1>1 DEF IInv, TypeOK, Settle
      <3>2. ~(k = at[c].coordinator /\ h = at[c].head)
        BY <2>2, <1>1 DEF IInv, TypeOK, Settle
      <3> DEFINE d == inflight[k][h]
      <3>3. d \in Callers /\ Running(d) /\ at[d] = Place(k, h)
        BY <3>1, <2>2 DEF IInv, TypeOK, FlightAgrees
      <3>4. d # c
        BY <3>2, <3>3 DEF Place
      <3>5. state'[d] = state[d] /\ at'[d] = at[d]
        BY <3>3, <3>4, <1>6, <1>7
      <3> QED BY <3>1, <3>3, <3>5 DEF Running
    <2> QED BY <2>1, <2>2 DEF FlightAgrees, Running
  <1>10. CallsPlaced'
    <2> SUFFICES ASSUME NEW d \in Callers
                 PROVE  /\ state'[d] # "idle" => at'[d] \in Places
                        /\ owner'[d] # None <=> state'[d] \in {"asking", "sleeping", "joined"}
                        /\ outcome'[d] # None => state'[d] = "returned"
      BY DEF CallsPlaced
    <2>1. CASE d \in Awaiting(c)
      BY <2>1 DEF IInv, TypeOK, CallsPlaced, Awaiting, Settle
    <2>2. CASE d \notin Awaiting(c)
      BY <2>2, <1>6 DEF IInv, TypeOK, CallsPlaced, Settle
    <2> QED BY <2>1, <2>2
  <1>11. AttemptsBounded'
    BY <1>5, <1>6 DEF IInv, TypeOK, AttemptsBounded, Running, Settle
  <1> QED
    BY <1>3, <1>4, <1>8, <1>9, <1>10, <1>11 DEF IInv, StoreGrows

\* A pending attempt of a run leads to its backoff or, after the last one, to
\* the pending outcome.
LEMMA RetryIInv ==
  ASSUME IInv, UNCHANGED store,
         NEW c \in Callers, state[c] = "asking", RetryOrGiveUp(c)
  PROVE  IInv'
  <1> USE AnchoringAssumption
  <1>1. Running(c)
    BY DEF Running
  <1>2. CASE LastAttempt(c) /\ Settle(c, [status |-> "pending", attempts |-> asks[c]])
    <2> DEFINE o == [status |-> "pending", attempts |-> asks[c]]
    <2>1. asks[c] \in 1..MaxAttempts
      BY <1>1 DEF IInv, TypeOK, AttemptsBounded
    <2>2. o \in Outcomes /\ o.status # "anchored"
      BY <2>1 DEF Outcomes
    <2>3. StoreGrows
      BY SameStore
    <2>4. Settle(c, o)
      BY <1>2
    <2> HIDE DEF o
    <2> QED BY <1>1, <2>2, <2>3, <2>4, SettleIInv
  <1>3. CASE /\ ~LastAttempt(c)
             /\ state' = [state EXCEPT ![c] = "sleeping"]
             /\ UNCHANGED <<inflight, at, owner, asks, outcome>>
    <2>1. asks[c] < MaxAttempts
      <3>1. asks[c] # MaxAttempts
        BY <1>3 DEF LastAttempt
      <3>2. asks[c] \in 0..MaxAttempts
        BY DEF IInv, TypeOK
      <3> QED BY <3>1, <3>2
    <2>2. TypeOK'
      BY <1>3 DEF IInv, TypeOK
    <2>3. \A d \in Callers : /\ Running(d)' <=> Running(d)
                             /\ state'[d] = "joined" <=> state[d] = "joined"
      BY <1>3 DEF IInv, TypeOK, Running
    <2>4. NoFabrication' /\ ReturnedIsStored'
      BY <1>3 DEF IInv, NoFabrication, ReturnedIsStored
    <2>5. JoinedIsServed' /\ FlightAgrees'
      <3>1. \A d \in Callers : state[d] = "joined" => owner[d] \in Callers
        BY DEF IInv, TypeOK, CallsPlaced
      <3>2. JoinedIsServed'
        BY <1>3, <2>3, <3>1 DEF IInv, JoinedIsServed, Running
      <3>3. \A k \in Coordinators, h \in Heads :
              inflight[k][h] # None => inflight[k][h] \in Callers
        BY DEF IInv, TypeOK
      <3>4. FlightAgrees'
        BY <1>3, <2>3, <3>3 DEF IInv, FlightAgrees, Running
      <3> QED BY <3>2, <3>4
    <2>6. CallsPlaced'
      BY <1>3 DEF IInv, TypeOK, CallsPlaced
    <2>7. AttemptsBounded'
      BY <1>3, <2>1 DEF IInv, TypeOK, AttemptsBounded, Running
    <2> QED BY <2>2, <2>4, <2>5, <2>6, <2>7 DEF IInv
  <1> QED BY <1>2, <1>3 DEF RetryOrGiveUp

LEMMA AnswerIInv ==
  ASSUME IInv, NEW c \in Callers, NEW reply \in Replies, Answer(c, reply)
  PROVE  IInv' /\ StoreGrows
  <1> DEFINE h == at[c].head
             r == [id |-> h, token |-> reply, by |-> at[c].coordinator]
  <1>1. state[c] = "asking" /\ Running(c)
    BY DEF Answer, Running
  <1>2. h \in Heads /\ at[c].coordinator \in Coordinators
    BY <1>1 DEF IInv, CallsPlaced, Places
  <1>3. CASE /\ Verdict(reply, h) = "anchored"
             /\ store' = [store EXCEPT ![h] = Kept(h, r)]
             /\ Settle(c, Anchored(Kept(h, r)))
    <2>1. reply \in Tokens /\ reply.head = h /\ reply.verifies
      BY <1>2, <1>3, VerifiedReply
    <2>2. r \in Records
      BY <1>2, <2>1 DEF Records
    <2>3. StoreGrows /\ store'[h] = Kept(h, r) /\ Kept(h, r) \in Records
      <3>1. r.id = h /\ r.token.head = h /\ r.token.verifies
        BY <2>1
      <3> HIDE DEF r, h
      <3> QED BY <1>2, <1>3, <2>2, <3>1, KeptGrows
    <2> DEFINE o == Anchored(Kept(h, r))
    <2>5. o \in Outcomes /\ o.record = store'[h]
      BY <2>3 DEF Anchored, Outcomes
    <2> HIDE DEF r, o
    <2> QED BY <1>1, <1>3, <2>3, <2>5, SettleIInv DEF o
  <1>4. ASSUME NEW status \in {"failed", "rejected"}, Settle(c, [status |-> status]),
               UNCHANGED store
        PROVE  IInv' /\ StoreGrows
    <2> DEFINE o == [status |-> status]
    <2>1. o \in Outcomes /\ o.status # "anchored"
      BY DEF Outcomes
    <2>2. StoreGrows
      BY <1>4, SameStore
    <2> QED BY <1>1, <1>4, <2>1, <2>2, SettleIInv
  <1>5. CASE RetryOrGiveUp(c) /\ UNCHANGED store
    BY <1>1, <1>5, RetryIInv, SameStore
  <1> QED BY <1>3, <1>4, <1>5 DEF Answer

LEMMA AnchorHeadIInv ==
  ASSUME IInv, NEW c \in Callers, NEW k \in Coordinators, NEW h \in Heads,
         AnchorHead(c, k, h)
  PROVE  IInv'
  <1> USE AnchoringAssumption
  <1>1. /\ state[c] = "idle" /\ ~Running(c) /\ owner[c] = None
        /\ outcome[c] = None
    BY DEF AnchorHead, IInv, TypeOK, CallsPlaced, Running
  <1>2. Place(k, h) \in Places /\ at' = [at EXCEPT ![c] = Place(k, h)] /\ store' = store
    BY DEF AnchorHead, Place, Places
  \* Nobody awaits a run of c: it has none.
  <1>3. \A d \in Callers : state[d] = "joined" => owner[d] \in Callers /\ owner[d] # c
    BY <1>1 DEF IInv, TypeOK, CallsPlaced, JoinedIsServed
  <1>4. \A kk \in Coordinators, hh \in Heads : inflight[kk][hh] # None =>
          inflight[kk][hh] \in Callers /\ inflight[kk][hh] # c
    BY <1>1 DEF IInv, TypeOK, FlightAgrees
  <1>5. NoFabrication'
    BY <1>2 DEF IInv, NoFabrication
  <1>6. ASSUME NEW d \in Runs(k, h),
               owner' = [owner EXCEPT ![c] = d],
               state' = [state EXCEPT ![c] = "joined"],
               UNCHANGED <<inflight, asks, outcome>>
        PROVE  IInv'
    <2>1. d \in Callers /\ d # c /\ d = inflight[k][h] /\ d # None
      BY <1>4 DEF Runs
    <2>2. Running(d) /\ at[d] = Place(k, h)
      BY <2>1 DEF IInv, FlightAgrees
    <2>3. TypeOK'
      BY <1>2, <1>6, <2>1 DEF IInv, TypeOK
    <2>4. \A e \in Callers : e # c =>
            state'[e] = state[e] /\ owner'[e] = owner[e] /\ at'[e] = at[e]
      BY <1>2, <1>6 DEF IInv, TypeOK
    <2>5. state'[c] = "joined" /\ owner'[c] = d /\ at'[c] = Place(k, h)
      BY <1>2, <1>6 DEF IInv, TypeOK
    <2>6. ReturnedIsStored'
      BY <1>1, <1>2, <1>6, <2>4 DEF IInv, ReturnedIsStored
    <2>7. JoinedIsServed'
      BY <1>3, <2>1, <2>2, <2>4, <2>5 DEF IInv, JoinedIsServed, Running
    <2>8. FlightAgrees'
      BY <1>4, <1>6, <2>4, <2>5 DEF IInv, FlightAgrees, Running
    <2>9. CallsPlaced'
      BY <1>1, <1>2, <1>6, <2>1, <2>4, <2>5 DEF IInv, CallsPlaced
    <2>10. AttemptsBounded'
      BY <1>6, <2>4, <2>5 DEF IInv, AttemptsBounded, Running
    <2> QED BY <1>5, <2>3, <2>6, <2>7, <2>8, <2>9, <2>10 DEF IInv
  <1>7. CASE /\ store[h] # None
             /\ state' = [state EXCEPT ![c] = "returned"]
             /\ outcome' = [outcome EXCEPT ![c] = Anchored(store[h])]
             /\ UNCHANGED <<inflight, owner, asks>>
    <2>1. store[h] \in Records /\ Anchored(store[h]) \in Outcomes
          /\ Anchored(store[h]).record = store[h]
      BY <1>7 DEF IInv, TypeOK, Anchored, Outcomes
    <2>2. TypeOK'
      BY <1>2, <1>7, <2>1 DEF IInv, TypeOK
    <2>3. \A e \in Callers : e # c =>
            state'[e] = state[e] /\ outcome'[e] = outcome[e] /\ at'[e] = at[e]
      BY <1>2, <1>7 DEF IInv, TypeOK
    <2>4. /\ state'[c] = "returned" /\ outcome'[c] = Anchored(store[h])
          /\ at'[c] = Place(k, h)
      BY <1>2, <1>7 DEF IInv, TypeOK
    <2>5. ReturnedIsStored'
      BY <1>2, <2>1, <2>3, <2>4 DEF IInv, ReturnedIsStored, Place
    <2>6. JoinedIsServed'
      BY <1>3, <1>7, <2>3, <2>4 DEF IInv, JoinedIsServed, Running
    <2>7. FlightAgrees'
      BY <1>4, <1>7, <2>3, <2>4 DEF IInv, FlightAgrees, Running
    <2>8. CallsPlaced'
      BY <1>1, <1>2, <1>7, <2>3, <2>4 DEF IInv, CallsPlaced
    <2>9. AttemptsBounded'
      BY <1>7, <2>3, <2>4 DEF IInv, AttemptsBounded, Running
    <2> QED BY <1>5, <2>2, <2>5, <2>6, <2>7, <2>8, <2>9 DEF IInv
  <1>8. CASE /\ Runs(k, h) = {}
             /\ state' = [state EXCEPT ![c] = "asking"]
             /\ owner' = [owner EXCEPT ![c] = c]
             /\ asks' = [asks EXCEPT ![c] = 1]
             /\ inflight' = [inflight EXCEPT ![k][h] = c]
             /\ UNCHANGED outcome
    <2>1. inflight[k][h] = None
      BY <1>8 DEF Runs
    <2>2. TypeOK'
      BY <1>2, <1>8 DEF IInv, TypeOK
    <2>3. \A e \in Callers : e # c => /\ state'[e] = state[e] /\ owner'[e] = owner[e]
                                     /\ at'[e] = at[e] /\ asks'[e] = asks[e]
      BY <1>2, <1>8 DEF IInv, TypeOK
    <2>4. /\ state'[c] = "asking" /\ owner'[c] = c /\ at'[c] = Place(k, h)
          /\ asks'[c] = 1
      BY <1>2, <1>8 DEF IInv, TypeOK
    <2>5. /\ inflight'[k][h] = c
          /\ \A kk \in Coordinators, hh \in Heads : kk # k \/ hh # h =>
               inflight'[kk][hh] = inflight[kk][hh]
      BY <1>8 DEF IInv, TypeOK
    <2>6. ReturnedIsStored'
      BY <1>1, <1>2, <1>8, <2>3 DEF IInv, ReturnedIsStored
    <2>7. JoinedIsServed'
      BY <1>3, <2>3, <2>4 DEF IInv, JoinedIsServed, Running
    <2>8. FlightAgrees'
      <3>1. ASSUME NEW e \in Callers, Running(e)'
            PROVE  owner'[e] = e /\ inflight'[at'[e].coordinator][at'[e].head] = e
        <4>1. CASE e = c
          BY <4>1, <2>4, <2>5 DEF Place
        <4>2. CASE e # c
          <5>1. Running(e) /\ at[e] \in Places
            BY <3>1, <4>2, <2>3 DEF IInv, CallsPlaced, Running
          <5>2. owner[e] = e /\ inflight[at[e].coordinator][at[e].head] = e
            BY <5>1 DEF IInv, FlightAgrees
          <5>3. at[e].coordinator \in Coordinators /\ at[e].head \in Heads
            BY <5>1 DEF Places
          <5>4. at[e].coordinator # k \/ at[e].head # h
            BY <5>2, <2>1
          <5> QED BY <5>2, <5>3, <5>4, <4>2, <2>3, <2>5
        <4> QED BY <4>1, <4>2
      <3>2. ASSUME NEW kk \in Coordinators, NEW hh \in Heads, inflight'[kk][hh] # None
            PROVE  Running(inflight[kk][hh])' /\ at'[inflight'[kk][hh]] = Place(kk, hh)
        <4>1. CASE kk = k /\ hh = h
          BY <4>1, <2>4, <2>5 DEF Running
        <4>2. CASE ~(kk = k /\ hh = h)
          <5>1. inflight'[kk][hh] = inflight[kk][hh]
            BY <4>2, <2>5
          <5>2. inflight[kk][hh] \in Callers /\ inflight[kk][hh] # c
            BY <5>1, <3>2, <1>4
          <5>3. Running(inflight[kk][hh]) /\ at[inflight[kk][hh]] = Place(kk, hh)
            BY <5>1, <3>2 DEF IInv, FlightAgrees
          <5> QED BY <5>1, <5>2, <5>3, <2>3 DEF Running
        <4> QED BY <4>1, <4>2
      <3> QED BY <3>1, <3>2 DEF FlightAgrees, Running
    <2>9. CallsPlaced'
      BY <1>1, <1>2, <1>8, <2>3, <2>4 DEF IInv, CallsPlaced
    <2>10. AttemptsBounded'
      BY <2>3, <2>4 DEF IInv, AttemptsBounded, Running
    <2> QED BY <1>5, <2>2, <2>6, <2>7, <2>8, <2>9, <2>10 DEF IInv
  <1> QED BY <1>6, <1>7, <1>8 DEF AnchorHead

LEMMA WakeIInv ==
  ASSUME IInv, NEW c \in Callers, Wake(c)
  PROVE  IInv'
  <1> USE AnchoringAssumption
  <1>1. asks[c] \in 0..MaxAttempts /\ asks[c] < MaxAttempts
    BY DEF IInv, TypeOK, AttemptsBounded, Wake
  <1>2. TypeOK'
    BY <1>1 DEF IInv, TypeOK, Wake
  <1>3. \A d \in Callers : /\ Running(d)' <=> Running(d)
                           /\ state'[d] = "joined" <=> state[d] = "joined"
    BY DEF IInv, TypeOK, Running, Wake
  <1>4. NoFabrication' /\ ReturnedIsStored'
    BY DEF IInv, NoFabrication, ReturnedIsStored, Wake
  <1>5. JoinedIsServed'
    <2>1. \A d \in Callers : state[d] = "joined" => owner[d] \in Callers
      BY DEF IInv, TypeOK, CallsPlaced
    <2> QED BY <1>3, <2>1 DEF IInv, JoinedIsServed, Running, Wake
  <1>6. FlightAgrees'
    <2>1. \A k \in Coordinators, h \in Heads :
            inflight[k][h] # None => inflight[k][h] \in Callers
      BY DEF IInv, TypeOK
    <2> QED BY <1>3, <2>1 DEF IInv, FlightAgrees, Running, Wake
  <1>7. CallsPlaced'
    BY DEF IInv, TypeOK, CallsPlaced, Wake
  <1>8. AttemptsBounded'
    <2>1. asks'[c] = asks[c] + 1 /\ state'[c] = "asking"
      BY DEF IInv, TypeOK, Wake
    <2>2. \A d \in Callers : d # c => asks'[d] = asks[d] /\ state'[d] = state[d]
      BY DEF IInv, TypeOK, Wake
    <2> QED BY <1>1, <2>1, <2>2 DEF IInv, AttemptsBounded, Running
  <1> QED BY <1>2, <1>4, <1>5, <1>6, <1>7, <1>8 DEF IInv

LEMMA RetireIInv ==
  ASSUME IInv, NEW c \in Callers, Retire(c)
  PROVE  IInv'
  <1> USE AnchoringAssumption
  <1>1. state[c] = "returned" /\ ~Running(c) /\ owner[c] = None
    BY DEF IInv, TypeOK, CallsPlaced, Retire, Running
  <1>2. TypeOK'
    BY DEF IInv, TypeOK, Retire
  <1>3. \A d \in Callers : d # c => /\ state'[d] = state[d] /\ outcome'[d] = outcome[d]
                                   /\ at'[d] = at[d] /\ asks'[d] = asks[d]
    BY DEF IInv, TypeOK, Retire
  <1>4. state'[c] = "idle" /\ outcome'[c] = None
    BY DEF IInv, TypeOK, Retire
  <1>5. UNCHANGED <<store, inflight, owner>>
    BY DEF Retire
  <1>6. NoFabrication'
    BY <1>5 DEF IInv, NoFabrication
  <1>7. ReturnedIsStored'
    BY <1>3, <1>4, <1>5 DEF IInv, ReturnedIsStored
  <1>8. JoinedIsServed'
    <2>1. \A d \in Callers : state[d] = "joined" => owner[d] \in Callers /\ owner[d] # c
      BY <1>1 DEF IInv, TypeOK, CallsPlaced, JoinedIsServed
    <2> QED BY <2>1, <1>3, <1>4, <1>5 DEF IInv, JoinedIsServed, Running
  <1>9. FlightAgrees'
    <2>1. \A k \in Coordinators, h \in Heads : inflight[k][h] # None =>
            inflight[k][h] \in Callers /\ inflight[k][h] # c
      BY <1>1 DEF IInv, TypeOK, FlightAgrees
    <2> QED BY <2>1, <1>3, <1>4, <1>5 DEF IInv, FlightAgrees, Running
  <1>10. CallsPlaced'
    BY <1>1, <1>3, <1>4, <1>5 DEF IInv, CallsPlaced
  <1>11. AttemptsBounded'
    BY <1>3, <1>4 DEF IInv, AttemptsBounded, Running
  <1> QED BY <1>2, <1>6, <1>7, <1>8, <1>9, <1>10, <1>11 DEF IInv

\* A crash takes every call of one coordinator with it: a joined call and the
\* run it awaits go together, for they have the same coordinator.
LEMMA CrashIInv ==
  ASSUME IInv, NEW k \in Coordinators, Crash(k)
  PROVE  IInv'
  <1> USE AnchoringAssumption
  <1> DEFINE gone == {c \in Callers : state[c] \notin {"idle", "returned"}
                                     /\ at[c].coordinator = k}
  <1>1. TypeOK'
    BY DEF IInv, TypeOK, Crash
  <1>2. \A c \in gone : /\ state'[c] = "idle" /\ owner'[c] = None
                        /\ outcome'[c] = None /\ asks'[c] = 0
    BY DEF IInv, TypeOK, CallsPlaced, Crash
  <1>3. \A c \in Callers : c \notin gone =>
          /\ state'[c] = state[c] /\ owner'[c] = owner[c]
          /\ at'[c] = at[c] /\ asks'[c] = asks[c]
    BY DEF IInv, TypeOK, Crash
  <1>4. /\ store' = store /\ outcome' = outcome
        /\ inflight' = [inflight EXCEPT ![k] = [h \in Heads |-> None]]
    BY DEF Crash
  <1>5. NoFabrication'
    BY <1>4 DEF IInv, NoFabrication
  <1>6. ReturnedIsStored'
    BY <1>2, <1>3, <1>4 DEF IInv, ReturnedIsStored
  <1>7. JoinedIsServed'
    <2> SUFFICES ASSUME NEW c \in Callers, state'[c] = "joined"
                 PROVE  Running(owner[c])' /\ at'[owner'[c]] = at'[c]
      BY DEF JoinedIsServed, Running
    <2>1. c \notin gone
      BY <1>2
    <2>2. /\ state[c] = "joined" /\ owner[c] \in Callers
          /\ Running(owner[c]) /\ at[owner[c]] = at[c]
      BY <2>1, <1>3 DEF IInv, TypeOK, CallsPlaced, JoinedIsServed
    <2>3. owner[c] \notin gone
      BY <2>1, <2>2
    <2> QED BY <1>3, <2>1, <2>2, <2>3 DEF Running
  <1>8. FlightAgrees'
    <2>1. ASSUME NEW c \in Callers, Running(c)'
          PROVE  owner'[c] = c /\ inflight'[at'[c].coordinator][at'[c].head] = c
      <3>1. c \notin gone
        BY <2>1, <1>2 DEF Running
      <3>2. /\ Running(c) /\ at[c] \in Places /\ at[c].coordinator # k
        BY <2>1, <3>1, <1>3 DEF IInv, CallsPlaced, Running
      <3>3. at[c].coordinator \in Coordinators
        BY <3>2 DEF Places
      <3>4. inflight'[at[c].coordinator] = inflight[at[c].coordinator]
        BY <3>2, <3>3, <1>4 DEF IInv, TypeOK
      <3> QED BY <3>1, <3>2, <3>4, <1>3 DEF IInv, FlightAgrees
    <2>2. ASSUME NEW kk \in Coordinators, NEW h \in Heads, inflight'[kk][h] # None
          PROVE  Running(inflight[kk][h])' /\ at'[inflight'[kk][h]] = Place(kk, h)
      <3>1. kk # k /\ inflight'[kk][h] = inflight[kk][h]
        BY <2>2, <1>4 DEF IInv, TypeOK
      <3> DEFINE c == inflight[kk][h]
      <3>2. c \in Callers /\ Running(c) /\ at[c] = Place(kk, h)
        BY <2>2, <3>1 DEF IInv, TypeOK, FlightAgrees
      <3>3. c \notin gone
        BY <3>1, <3>2 DEF Place
      <3> QED BY <1>3, <3>1, <3>2, <3>3 DEF Running
    <2> QED BY <2>1, <2>2 DEF FlightAgrees, Running
  <1>9. CallsPlaced'
    BY <1>2, <1>3, <1>4 DEF IInv, CallsPlaced
  <1>10. AttemptsBounded'
    BY <1>2, <1>3 DEF IInv, AttemptsBounded, Running
  <1> QED BY <1>1, <1>5, <1>6, <1>7, <1>8, <1>9, <1>10 DEF IInv

\* Every step keeps the invariant, and the store only grows.
LEMMA NextIInv ==
  ASSUME IInv, [Next]_vars
  PROVE  IInv' /\ StoreGrows
  <1>1. CASE UNCHANGED vars
    BY <1>1, SameStore DEF vars, IInv, TypeOK, NoFabrication, ReturnedIsStored,
       JoinedIsServed, FlightAgrees, CallsPlaced, AttemptsBounded, Running
  <1>2. ASSUME NEW c \in Callers, NEW k \in Coordinators, NEW h \in Heads,
               AnchorHead(c, k, h)
        PROVE  IInv' /\ StoreGrows
    BY <1>2, AnchorHeadIInv, SameStore DEF AnchorHead
  <1>3. ASSUME NEW c \in Callers, NEW reply \in Replies, Answer(c, reply)
        PROVE  IInv' /\ StoreGrows
    BY <1>3, AnswerIInv
  <1>4. ASSUME NEW c \in Callers, Timeout(c)
        PROVE  IInv' /\ StoreGrows
    BY <1>4, RetryIInv, SameStore DEF Timeout
  <1>5. ASSUME NEW c \in Callers, Wake(c)
        PROVE  IInv' /\ StoreGrows
    BY <1>5, WakeIInv, SameStore DEF Wake
  <1>6. ASSUME NEW c \in Callers, Retire(c)
        PROVE  IInv' /\ StoreGrows
    BY <1>6, RetireIInv, SameStore DEF Retire
  <1>7. ASSUME NEW k \in Coordinators, Crash(k)
        PROVE  IInv' /\ StoreGrows
    BY <1>7, CrashIInv, SameStore DEF Crash
  <1> QED BY <1>1, <1>2, <1>3, <1>4, <1>5, <1>6, <1>7 DEF Next

-----------------------------------------------------------------------------
\* The inductive invariant holds of every reachable state of the coordinators.
THEOREM AnchoringInvariant == Spec => []IInv
  <1>1. IInv /\ [Next]_vars => IInv'
    BY NextIInv
  <1> QED BY InitIInv, <1>1, PTL DEF Spec

\* Every reachable state has the declared types; in particular no run makes
\* more provider calls than retry.maxAttempts.
THEOREM AnchoringTypes == Spec => []TypeOK
  <1>1. IInv => TypeOK
    BY DEF IInv
  <1> QED BY AnchoringInvariant, <1>1, PTL

\* A record in the store carries a token that verifies and binds to its head,
\* whatever the provider answers (requestAnchor fails closed).
THEOREM NothingFabricated == Spec => []NoFabrication
  <1>1. IInv => NoFabrication
    BY DEF IInv
  <1> QED BY AnchoringInvariant, <1>1, PTL

\* All callers of anchorHead() that are told "anchored" hold the one record of
\* the store, also when coordinators race for the put.
THEOREM OneRecordForAll == Spec => []ReturnedIsStored
  <1>1. IInv => ReturnedIsStored
    BY DEF IInv
  <1> QED BY AnchoringInvariant, <1>1, PTL

\* A coordinator never has two runs under way for one head.
THEOREM RunsCoalesced == Spec => []OneRunPerHead
  <1>1. IInv => OneRunPerHead
    BY DEF IInv, FlightAgrees, OneRunPerHead
  <1> QED BY AnchoringInvariant, <1>1, PTL

\* A call that joined another's run awaits a run of its own head that is still
\* under way, so that there is one to answer it.
THEOREM JoinersServed == Spec => []JoinedIsServed
  <1>1. IInv => JoinedIsServed
    BY DEF IInv
  <1> QED BY AnchoringInvariant, <1>1, PTL

\* A change of the store puts one verified record in an empty register.
LEMMA StepAnchors ==
  ASSUME IInv, [Next]_vars
  PROVE  [Register!Next]_store
  <1>1. CASE UNCHANGED store
    BY <1>1
  <1>2. ASSUME NEW c \in Callers, NEW reply \in Replies, Answer(c, reply), store' # store
        PROVE  Register!Next
    <2> DEFINE h == at[c].head
               r == [id |-> h, token |-> reply, by |-> at[c].coordinator]
    <2>1. /\ Verdict(reply, h) = "anchored"
          /\ store' = [store EXCEPT ![h] = Kept(h, r)]
      BY <1>2 DEF Answer
    <2>2. h \in Heads /\ at[c].coordinator \in Coordinators
      BY <1>2 DEF IInv, CallsPlaced, Places, Answer
    <2>3. reply \in Tokens /\ reply.head = h /\ reply.verifies
      BY <2>1, <2>2, VerifiedReply
    <2>4. r \in Verified /\ r.id = h
      BY <2>2, <2>3 DEF Verified, Records
    <2>5. store[h] = None /\ store' = [store EXCEPT ![h] = r]
      BY <1>2, <2>1, <2>2 DEF Kept, IInv, TypeOK
    <2> HIDE DEF r, h
    <2> QED BY <2>2, <2>4, <2>5 DEF Register!Next, Register!Anchor
  <1> QED
    BY <1>1, <1>2 DEF Next, vars, AnchorHead, Timeout, Wake, Retire, Crash

\* The store of the coordinators implements the write-once register of
\* AnchorRegister: a head is anchored at most once, and only by a verified
\* record.
THEOREM StoreIsRegister == Spec => ImplementsRegister
  <1>1. Init => Register!Init
    BY DEF Init, Register!Init
  <1>2. IInv /\ [Next]_vars => [Register!Next]_store
    BY StepAnchors
  <1> QED BY AnchoringInvariant, <1>1, <1>2, PTL DEF Spec, ImplementsRegister, Register!Spec

-----------------------------------------------------------------------------
(* The authorities: least numbers, for the inductions.                     *)

\* What holds of a number when it holds of all smaller ones holds of every one.
LEMMA LeastNumber ==
  ASSUME NEW T \in SUBSET Nat, T # {}
  PROVE  \E m \in T : \A t \in T : m <= t
<1>1. PICK m \in T : \A t \in T : ~(<<t, m>> \in OpToRel(<, Nat))
  BY NatLessThanWellFounded, WFMin
<1>2. ASSUME NEW t \in T PROVE m <= t
  <2>1. t < m => <<t, m>> \in OpToRel(<, Nat)
    <3>1. <<t, m>> \in Nat \X Nat /\ <<t, m>>[1] = t /\ <<t, m>>[2] = m
      OBVIOUS
    <3> QED BY <3>1 DEF OpToRel
  <2>2. ~(t < m)
    BY <1>1, <2>1
  <2> QED BY <2>2
<1> QED BY <1>2

LEMMA EveryNumber ==
  ASSUME NEW S, \A n \in Nat : (\A m \in Nat : m < n => m \in S) => n \in S
  PROVE  Nat \subseteq S
<1> DEFINE T == Nat \ S
<1> SUFFICES ASSUME T # {} PROVE FALSE
  OBVIOUS
<1>1. PICK m \in T : \A t \in T : m <= t
  <2>1. T \in SUBSET Nat
    OBVIOUS
  <2> HIDE DEF T
  <2> QED BY <2>1, LeastNumber
<1>2. \A k \in Nat : k < m => k \in S
  BY <1>1
<1> QED BY <1>1, <1>2

-----------------------------------------------------------------------------
(* Powers of two.                                                          *)

Closed(S) == 1 \in S /\ \A x \in S : 2 * x \in S
Powers == {p \in Nat : \A S \in SUBSET Nat : Closed(S) => p \in S}

LEMMA PowersGrow ==
  /\ 1 \in Powers
  /\ \A p \in Powers : 2 * p \in Powers
BY DEF Powers, Closed

\* What holds of 1 and of the double of every power of which it holds.
LEMMA EveryPower ==
  ASSUME NEW S, 1 \in S, \A x \in Powers : x \in S => 2 * x \in S
  PROVE  Powers \subseteq S
<1> DEFINE T == Powers \cap S
<1>1. T \in SUBSET Nat
  BY DEF Powers
<1>2. Closed(T)
  BY PowersGrow DEF Closed
<1>3. \A p \in Powers : p \in T
  <2> HIDE DEF T
  <2> QED BY <1>1, <1>2 DEF Powers
<1> QED BY <1>3

LEMMA PowerCases ==
  ASSUME NEW p \in Powers
  PROVE  /\ p \in Nat /\ p >= 1
         /\ p = 1 \/ \E q \in Powers : q < p /\ p = 2 * q
<1> DEFINE S == {x \in Nat : x >= 1 /\ (x = 1 \/ \E q \in Powers : q < x /\ x = 2 * q)}
<1>1. 1 \in S
  OBVIOUS
<1>2. ASSUME NEW x \in Powers, x \in S PROVE 2 * x \in S
  BY <1>2
<1>3. p \in S
  <2> HIDE DEF S
  <2> QED BY <1>1, <1>2, EveryPower
<1> QED BY <1>3

\* The next power after a power is its double.
LEMMA PowerGap ==
  ASSUME NEW x \in Powers, NEW y \in Powers, x < y
  PROVE  2 * x <= y
<1> DEFINE S == {a \in Nat : \A b \in Powers : a < b => 2 * a <= b}
<1>1. 1 \in S
  BY PowerCases
<1>2. ASSUME NEW a \in Powers, a \in S PROVE 2 * a \in S
  <2>1. a \in Nat /\ a >= 1
    BY PowerCases
  <2> SUFFICES ASSUME NEW b \in Powers, 2 * a < b PROVE 2 * (2 * a) <= b
    BY <2>1
  <2>2. PICK c \in Powers : b = 2 * c
    BY <2>1, PowerCases
  <2>3. c \in Nat /\ a < c
    BY <2>1, <2>2, PowerCases
  <2>4. 2 * a <= c
    BY <1>2, <2>3
  <2> QED BY <2>1, <2>2, <2>3, <2>4
<1>3. x \in S
  <2> HIDE DEF S
  <2> QED BY <1>1, <1>2, EveryPower
<1> QED BY <1>3

-----------------------------------------------------------------------------
(* The largest power of two below a number.                                *)

DoubledFrom(f, n, k) == IF 2 * k < n THEN f[2 * k] ELSE k

LEMMA DoubledExists ==
  ASSUME NEW n \in Nat, n > 1
  PROVE  \E f : f = [k \in 1..n |-> IF 2 * k < n THEN f[2 * k] ELSE k]
<1> DEFINE Sat(f, d) == \A k \in 1..n : k >= n - d => f[k] = DoubledFrom(f, n, k)
           S == {d \in Nat : \E f : Sat(f, d)}
<1>1. ASSUME NEW d \in Nat, \A m \in Nat : m < d => m \in S
      PROVE  d \in S
  <2>1. PICK g : d > 0 => Sat(g, d - 1)
    <3>1. d > 0 => d - 1 \in Nat /\ d - 1 < d
      OBVIOUS
    <3>2. d > 0 => d - 1 \in S
      BY <1>1, <3>1
    <3> QED BY <3>2
  <2> DEFINE f == [k \in 1..n |-> DoubledFrom(g, n, k)]
  <2>2. \A k \in 1..n : k >= n - (d - 1) => d > 0
    OBVIOUS
  <2>3. ASSUME NEW k \in 1..n, k >= n - d PROVE f[k] = DoubledFrom(f, n, k)
    <3>1. f[k] = DoubledFrom(g, n, k)
      OBVIOUS
    <3>2. CASE 2 * k < n
      <4>1. 2 * k \in 1..n /\ 2 * k >= n - (d - 1)
        BY <2>3, <3>2
      <4>2. g[2 * k] = DoubledFrom(g, n, 2 * k)
        BY <2>1, <2>2, <4>1
      <4>3. f[2 * k] = DoubledFrom(g, n, 2 * k)
        BY <4>1
      <4> HIDE DEF f
      <4> QED BY <3>1, <3>2, <4>2, <4>3 DEF DoubledFrom
    <3>3. CASE ~(2 * k < n)
      BY <3>1, <3>3 DEF DoubledFrom
    <3> QED BY <3>2, <3>3
  <2> HIDE DEF f
  <2>4. Sat(f, d)
    BY <2>3
  <2> QED BY <2>4
<1>2. n \in S
  <2> HIDE DEF S
  <2> QED BY <1>1, EveryNumber
<1>3. PICK g : Sat(g, n)
  BY <1>2
<1> DEFINE f == [k \in 1..n |-> g[k]]
<1>4. \A k \in 1..n : f[k] = IF 2 * k < n THEN f[2 * k] ELSE k
  <2> SUFFICES ASSUME NEW k \in 1..n PROVE f[k] = IF 2 * k < n THEN f[2 * k] ELSE k
    OBVIOUS
  <2>1. g[k] = DoubledFrom(g, n, k)
    BY <1>3
  <2>2. f[k] = g[k]
    OBVIOUS
  <2>3. 2 * k < n => 2 * k \in 1..n
    OBVIOUS
  <2>4. 2 * k < n => f[2 * k] = g[2 * k]
    BY <2>3
  <2> HIDE DEF f
  <2> QED BY <2>1, <2>2, <2>4 DEF DoubledFrom
<1>5. f = [k \in 1..n |-> f[k]]
  OBVIOUS
<1> HIDE DEF f
<1>6. f = [k \in 1..n |-> IF 2 * k < n THEN f[2 * k] ELSE k]
  BY <1>4, <1>5
<1> QED BY <1>6

LEMMA LargestPower ==
  ASSUME NEW n \in Nat, n > 1
  PROVE  /\ LargestPowerOfTwo(n) \in Powers
         /\ LargestPowerOfTwo(n) < n /\ n <= 2 * LargestPowerOfTwo(n)
<1> DEFINE D == CHOOSE f : f = [k \in 1..n |-> IF 2 * k < n THEN f[2 * k] ELSE k]
<1>1. D = [k \in 1..n |-> IF 2 * k < n THEN D[2 * k] ELSE k]
  BY DoubledExists
<1>2. LargestPowerOfTwo(n) = D[1]
  BY DEF LargestPowerOfTwo
<1> HIDE DEF D
<1>3. \A k \in 1..n : D[k] = IF 2 * k < n THEN D[2 * k] ELSE k
  BY <1>1
<1> DEFINE Good(v) == v \in Powers /\ v < n /\ n <= 2 * v
           S == {d \in Nat : \A k \in 1..n : k \in Powers /\ k < n /\ d = n - k => Good(D[k])}
<1>4. ASSUME NEW d \in Nat, \A m \in Nat : m < d => m \in S
      PROVE  d \in S
  <2> SUFFICES ASSUME NEW k \in 1..n, k \in Powers, k < n, d = n - k PROVE Good(D[k])
    OBVIOUS
  <2>1. CASE 2 * k < n
    <3>1. 2 * k \in 1..n /\ 2 * k \in Powers /\ n - 2 * k \in Nat /\ n - 2 * k < d
      BY <2>1, PowersGrow
    <3>2. n - 2 * k \in S
      BY <1>4, <3>1
    <3>3. Good(D[2 * k])
      BY <2>1, <3>1, <3>2
    <3>4. D[k] = D[2 * k]
      BY <1>3, <2>1
    <3> QED BY <3>3, <3>4
  <2>2. CASE ~(2 * k < n)
    <3>1. D[k] = k
      BY <1>3, <2>2
    <3> QED BY <2>2, <3>1
  <2> QED BY <2>1, <2>2
<1>5. n - 1 \in S
  <2>1. n - 1 \in Nat
    OBVIOUS
  <2> HIDE DEF S
  <2> QED BY <1>4, <2>1, EveryNumber
<1>6. Good(D[1])
  BY <1>5, PowersGrow
<1> QED BY <1>2, <1>6

LEMMA LargestOfPower ==
  ASSUME NEW p \in Powers
  PROVE  LargestPowerOfTwo(2 * p) = p
<1>1. p \in Nat /\ p >= 1
  BY PowerCases
<1> DEFINE k == LargestPowerOfTwo(2 * p)
<1>2. k \in Powers /\ k < 2 * p /\ 2 * p <= 2 * k
  BY <1>1, LargestPower
<1>3. k \in Nat
  BY <1>2, PowerCases
<1> HIDE DEF k
<1>4. ~(p < k)
  BY <1>1, <1>2, <1>3, PowerGap
<1>5. k = p
  BY <1>1, <1>2, <1>3, <1>4
<1> QED BY <1>5 DEF k

-----------------------------------------------------------------------------
(* The halves of a tree.                                                   *)

LEMMA Halves ==
  ASSUME NEW s \in Trees, Len(s) > 1, NEW k, k = LargestPowerOfTwo(Len(s))
  PROVE  /\ k \in Powers /\ k \in Nat /\ 1 <= k /\ k < Len(s) /\ Len(s) <= 2 * k
         /\ Left(s) \in Trees /\ Len(Left(s)) = k
         /\ Right(s) \in Trees /\ Len(Right(s)) = Len(s) - k
         /\ \A i \in 1..k : Left(s)[i] = s[i]
         /\ \A i \in 1..Len(s) - k : Right(s)[i] = s[k + i]
<1>1. Len(s) \in Nat
  BY DEF Trees
<1>2. k \in Powers /\ k < Len(s) /\ Len(s) <= 2 * k
  BY <1>1, LargestPower
<1>3. k \in Nat /\ k >= 1
  BY <1>2, PowerCases
<1> DEFINE L == {LeafHash(p) : p \in Payloads}
<1>4. s \in Seq(L)
  BY DEF Trees
<1> HIDE DEF L
<1>5. /\ SubSeq(s, 1, k) \in Seq(L) /\ Len(SubSeq(s, 1, k)) = k
      /\ \A i \in 1..k : SubSeq(s, 1, k)[i] = s[i]
  BY <1>1, <1>2, <1>3, <1>4
<1>6. /\ SubSeq(s, k + 1, Len(s)) \in Seq(L) /\ Len(SubSeq(s, k + 1, Len(s))) = Len(s) - k
      /\ \A i \in 1..Len(s) - k : SubSeq(s, k + 1, Len(s))[i] = s[k + i]
  BY <1>1, <1>2, <1>3, <1>4
<1> QED BY <1>2, <1>3, <1>5, <1>6 DEF Left, Right, Trees, L

LEMMA TreeLength ==
  ASSUME NEW s \in Trees
  PROVE  /\ Len(s) \in Nat
         /\ Len(s) = 0 \/ Len(s) = 1 \/ Len(s) > 1
         /\ \A i \in 1..Len(s) : \E p \in Payloads : s[i] = LeafHash(p)
<1> DEFINE L == {LeafHash(p) : p \in Payloads}
<1>1. s \in Seq(L)
  BY DEF Trees
<1> HIDE DEF L
<1>2. \A i \in 1..Len(s) : s[i] \in L
  BY <1>1
<1>3. PICK n : n = Len(s)
  OBVIOUS
<1>4. n \in Nat
  BY <1>1, <1>3
<1>5. n = 0 \/ n = 1 \/ n > 1
  BY <1>4
<1> QED BY <1>2, <1>3, <1>4, <1>5 DEF L

-----------------------------------------------------------------------------
(* The recursive functions on trees.                                       *)

HashFrom(f, s) ==
  IF Len(s) = 0 THEN <<"none">> ELSE IF Len(s) = 1 THEN s[1] ELSE NodeHash(f[Left(s)], f[Right(s)])

\* f is the hash of the trees of at most N leaves.
HashesUpTo(f, N) == \A s \in Trees : Len(s) <= N => f[s] = HashFrom(f, s)

LEMMA HashesExist ==
  ASSUME NEW N \in Nat
  PROVE  \E f : HashesUpTo(f, N)
<1> DEFINE S == {n \in Nat : \E f : HashesUpTo(f, n)}
<1>1. ASSUME NEW n \in Nat, \A m \in Nat : m < n => m \in S
      PROVE  n \in S
  <2>1. PICK g : n > 0 => HashesUpTo(g, n - 1)
    <3>1. n > 0 => n - 1 \in Nat /\ n - 1 < n
      OBVIOUS
    <3>2. n > 0 => n - 1 \in S
      BY <1>1, <3>1
    <3> QED BY <3>2
  <2> DEFINE f == [s \in Trees |-> HashFrom(g, s)]
  <2>2. ASSUME NEW s \in Trees, Len(s) <= n PROVE f[s] = HashFrom(f, s)
    <3>1. f[s] = HashFrom(g, s)
      OBVIOUS
    <3>2. ASSUME Len(s) > 1, NEW t \in Trees, Len(t) < Len(s) PROVE f[t] = g[t]
      <4>1. n > 0 /\ Len(t) <= n - 1
        BY <2>2, <3>2, TreeLength
      <4>2. g[t] = HashFrom(g, t)
        BY <2>1, <4>1 DEF HashesUpTo
      <4> QED BY <4>2
    <3>3. Len(s) > 1 => f[Left(s)] = g[Left(s)] /\ f[Right(s)] = g[Right(s)]
      <4> SUFFICES ASSUME Len(s) > 1 PROVE f[Left(s)] = g[Left(s)] /\ f[Right(s)] = g[Right(s)]
        OBVIOUS
      <4>1. /\ Left(s) \in Trees /\ Len(Left(s)) < Len(s)
            /\ Right(s) \in Trees /\ Len(Right(s)) < Len(s)
        BY Halves, TreeLength
      <4> HIDE DEF f
      <4> QED BY <3>2, <4>1
    <3> HIDE DEF f
    <3> QED BY <3>1, <3>3, TreeLength DEF HashFrom
  <2> HIDE DEF f
  <2>3. HashesUpTo(f, n)
    BY <2>2 DEF HashesUpTo
  <2> QED BY <2>3
<1> HIDE DEF S
<1>2. N \in S
  BY <1>1, EveryNumber
<1> QED BY <1>2 DEF S

LEMMA HashesAgree ==
  ASSUME NEW f, NEW M \in Nat, HashesUpTo(f, M), NEW g, NEW N \in Nat, HashesUpTo(g, N),
         NEW s \in Trees, Len(s) <= M, Len(s) <= N
  PROVE  f[s] = g[s]
<1> DEFINE S == {n \in Nat : \A t \in Trees : Len(t) = n /\ n <= M /\ n <= N => f[t] = g[t]}
<1>1. ASSUME NEW n \in Nat, \A m \in Nat : m < n => m \in S
      PROVE  n \in S
  <2> SUFFICES ASSUME NEW t \in Trees, Len(t) = n, n <= M, n <= N PROVE f[t] = g[t]
    OBVIOUS
  <2>1. f[t] = HashFrom(f, t) /\ g[t] = HashFrom(g, t)
    BY DEF HashesUpTo
  <2>2. Len(t) > 1 => f[Left(t)] = g[Left(t)] /\ f[Right(t)] = g[Right(t)]
    <3> SUFFICES ASSUME Len(t) > 1 PROVE f[Left(t)] = g[Left(t)] /\ f[Right(t)] = g[Right(t)]
      OBVIOUS
    <3>1. /\ Left(t) \in Trees /\ Len(Left(t)) \in Nat /\ Len(Left(t)) < n
          /\ Right(t) \in Trees /\ Len(Right(t)) \in Nat /\ Len(Right(t)) < n
      BY Halves, TreeLength
    <3>2. Len(Left(t)) \in S /\ Len(Right(t)) \in S
      BY <1>1, <3>1
    <3> QED BY <3>1, <3>2
  <2> QED BY <2>1, <2>2, TreeLength DEF HashFrom
<1>2. Len(s) \in S
  <2>1. Len(s) \in Nat
    BY TreeLength
  <2> HIDE DEF S
  <2> QED BY <1>1, <2>1, EveryNumber
<1> QED BY <1>2

LEMMA MerkleTreeHashIs ==
  ASSUME NEW s \in Trees
  PROVE  MerkleTreeHash[s] = HashFrom(MerkleTreeHash, s)
<1> DEFINE Upto(n) == CHOOSE f : HashesUpTo(f, n)
           F == [t \in Trees |-> Upto(Len(t))[t]]
<1>1. \A n \in Nat : HashesUpTo(Upto(n), n)
  BY HashesExist
<1> HIDE DEF Upto
<1>2. \A t \in Trees : F[t] = HashFrom(F, t)
  <2> SUFFICES ASSUME NEW t \in Trees PROVE F[t] = HashFrom(F, t)
    OBVIOUS
  <2>1. F[t] = HashFrom(Upto(Len(t)), t)
    BY <1>1, TreeLength DEF HashesUpTo
  <2>2. ASSUME NEW u \in Trees, Len(u) < Len(t) PROVE F[u] = Upto(Len(t))[u]
    <3>1. F[u] = Upto(Len(u))[u]
      OBVIOUS
    <3>2. Len(u) \in Nat /\ Len(t) \in Nat
      BY TreeLength
    <3> HIDE DEF F
    <3> QED BY <1>1, <2>2, <3>1, <3>2, HashesAgree
  <2>3. Len(t) > 1 => /\ F[Left(t)] = Upto(Len(t))[Left(t)]
                      /\ F[Right(t)] = Upto(Len(t))[Right(t)]
    <3> SUFFICES ASSUME Len(t) > 1
                 PROVE /\ F[Left(t)] = Upto(Len(t))[Left(t)]
                       /\ F[Right(t)] = Upto(Len(t))[Right(t)]
      OBVIOUS
    <3>1. /\ Left(t) \in Trees /\ Len(Left(t)) < Len(t)
          /\ Right(t) \in Trees /\ Len(Right(t)) < Len(t)
      BY Halves, TreeLength
    <3> HIDE DEF F
    <3> QED BY <2>2, <3>1
  <2> HIDE DEF F
  <2> QED BY <2>1, <2>3, TreeLength DEF HashFrom
<1>3. F = [t \in Trees |-> F[t]]
  OBVIOUS
<1> HIDE DEF F
<1>4. F = [hashes \in Trees |->
             IF Len(hashes) = 0 THEN <<"none">>
             ELSE IF Len(hashes) = 1 THEN hashes[1]
             ELSE NodeHash(F[Left(hashes)], F[Right(hashes)])]
  BY <1>2, <1>3 DEF HashFrom
<1>5. MerkleTreeHash = [hashes \in Trees |->
             IF Len(hashes) = 0 THEN <<"none">>
             ELSE IF Len(hashes) = 1 THEN hashes[1]
             ELSE NodeHash(MerkleTreeHash[Left(hashes)], MerkleTreeHash[Right(hashes)])]
  BY <1>4 DEF MerkleTreeHash
<1> QED BY <1>5 DEF HashFrom

\* The hashes of trees, of which paths are made.
TreeHashes == {MerkleTreeHash[s] : s \in Trees}

PathFrom(f, s, m) ==
  IF Len(s) = 1 THEN <<>>
  ELSE IF m < LargestPowerOfTwo(Len(s)) THEN Append(f[Left(s)][m], MerkleTreeHash[Right(s)])
  ELSE Append(f[Right(s)][m - LargestPowerOfTwo(Len(s))], MerkleTreeHash[Left(s)])
PathsFrom(f, s) == [m \in 0..Len(s) - 1 |-> PathFrom(f, s, m)]

\* f gives the paths in trees of at most N leaves.
PathsUpTo(f, N) == \A s \in Trees : Len(s) <= N => f[s] = PathsFrom(f, s)

\* The paths in a tree are made of those in its halves.
LEMMA PathsOfHalves ==
  ASSUME NEW f, NEW g, NEW s \in Trees,
         Len(s) > 1 => f[Left(s)] = g[Left(s)] /\ f[Right(s)] = g[Right(s)]
  PROVE  PathsFrom(f, s) = PathsFrom(g, s)
<1>1. ASSUME NEW m \in 0..Len(s) - 1 PROVE PathFrom(f, s, m) = PathFrom(g, s, m)
  BY TreeLength DEF PathFrom
<1> QED BY <1>1 DEF PathsFrom

LEMMA PathsExist ==
  ASSUME NEW N \in Nat
  PROVE  \E f : PathsUpTo(f, N)
<1> DEFINE S == {n \in Nat : \E f : PathsUpTo(f, n)}
<1>1. ASSUME NEW n \in Nat, \A m \in Nat : m < n => m \in S
      PROVE  n \in S
  <2>1. PICK g : n > 0 => PathsUpTo(g, n - 1)
    <3>1. n > 0 => n - 1 \in Nat /\ n - 1 < n
      OBVIOUS
    <3>2. n > 0 => n - 1 \in S
      BY <1>1, <3>1
    <3> QED BY <3>2
  <2> DEFINE f == [s \in Trees |-> PathsFrom(g, s)]
  <2>2. ASSUME NEW s \in Trees, Len(s) <= n PROVE f[s] = PathsFrom(f, s)
    <3>1. f[s] = PathsFrom(g, s)
      OBVIOUS
    <3>2. ASSUME Len(s) > 1, NEW t \in Trees, Len(t) < Len(s) PROVE f[t] = g[t]
      <4>1. n > 0 /\ Len(t) <= n - 1
        BY <2>2, <3>2, TreeLength
      <4>2. g[t] = PathsFrom(g, t)
        BY <2>1, <4>1 DEF PathsUpTo
      <4> QED BY <4>2
    <3>3. Len(s) > 1 => f[Left(s)] = g[Left(s)] /\ f[Right(s)] = g[Right(s)]
      <4> SUFFICES ASSUME Len(s) > 1 PROVE f[Left(s)] = g[Left(s)] /\ f[Right(s)] = g[Right(s)]
        OBVIOUS
      <4>1. /\ Left(s) \in Trees /\ Len(Left(s)) < Len(s)
            /\ Right(s) \in Trees /\ Len(Right(s)) < Len(s)
        BY Halves, TreeLength
      <4> HIDE DEF f
      <4> QED BY <3>2, <4>1
    <3> HIDE DEF f
    <3>4. PathsFrom(f, s) = PathsFrom(g, s)
      BY <3>3, PathsOfHalves
    <3> QED BY <3>1, <3>4
  <2> HIDE DEF f
  <2>3. PathsUpTo(f, n)
    BY <2>2 DEF PathsUpTo
  <2> QED BY <2>3
<1> HIDE DEF S
<1>2. N \in S
  BY <1>1, EveryNumber
<1> QED BY <1>2 DEF S

LEMMA PathsAgree ==
  ASSUME NEW f, NEW M \in Nat, PathsUpTo(f, M), NEW g, NEW N \in Nat, PathsUpTo(g, N),
         NEW s \in Trees, Len(s) <= M, Len(s) <= N
  PROVE  f[s] = g[s]
<1> DEFINE S == {n \in Nat : \A t \in Trees : Len(t) = n /\ n <= M /\ n <= N => f[t] = g[t]}
<1>1. ASSUME NEW n \in Nat, \A m \in Nat : m < n => m \in S
      PROVE  n \in S
  <2> SUFFICES ASSUME NEW t \in Trees, Len(t) = n, n <= M, n <= N PROVE f[t] = g[t]
    OBVIOUS
  <2>1. f[t] = PathsFrom(f, t) /\ g[t] = PathsFrom(g, t)
    BY DEF PathsUpTo
  <2>2. Len(t) > 1 => f[Left(t)] = g[Left(t)] /\ f[Right(t)] = g[Right(t)]
    <3> SUFFICES ASSUME Len(t) > 1 PROVE f[Left(t)] = g[Left(t)] /\ f[Right(t)] = g[Right(t)]
      OBVIOUS
    <3>1. /\ Left(t) \in Trees /\ Len(Left(t)) \in Nat /\ Len(Left(t)) < n
          /\ Right(t) \in Trees /\ Len(Right(t)) \in Nat /\ Len(Right(t)) < n
      BY Halves, TreeLength
    <3>2. Len(Left(t)) \in S /\ Len(Right(t)) \in S
      BY <1>1, <3>1
    <3> QED BY <3>1, <3>2
  <2>3. PathsFrom(f, t) = PathsFrom(g, t)
    BY <2>2, PathsOfHalves
  <2> QED BY <2>1, <2>3
<1>2. Len(s) \in S
  <2>1. Len(s) \in Nat
    BY TreeLength
  <2> HIDE DEF S
  <2> QED BY <1>1, <2>1, EveryNumber
<1> QED BY <1>2

LEMMA InclusionPathIs ==
  ASSUME NEW s \in Trees, NEW m \in 0..Len(s) - 1
  PROVE  InclusionPath[s][m] = PathFrom(InclusionPath, s, m)
<1> DEFINE Upto(n) == CHOOSE f : PathsUpTo(f, n)
           F == [t \in Trees |-> Upto(Len(t))[t]]
<1>1. \A n \in Nat : PathsUpTo(Upto(n), n)
  BY PathsExist
<1> HIDE DEF Upto
<1>2. \A t \in Trees : F[t] = PathsFrom(F, t)
  <2> SUFFICES ASSUME NEW t \in Trees PROVE F[t] = PathsFrom(F, t)
    OBVIOUS
  <2>1. F[t] = PathsFrom(Upto(Len(t)), t)
    BY <1>1, TreeLength DEF PathsUpTo
  <2>2. ASSUME NEW u \in Trees, Len(u) < Len(t) PROVE F[u] = Upto(Len(t))[u]
    <3>1. F[u] = Upto(Len(u))[u]
      OBVIOUS
    <3>2. Len(u) \in Nat /\ Len(t) \in Nat
      BY TreeLength
    <3> HIDE DEF F
    <3> QED BY <1>1, <2>2, <3>1, <3>2, PathsAgree
  <2>3. Len(t) > 1 => /\ F[Left(t)] = Upto(Len(t))[Left(t)]
                      /\ F[Right(t)] = Upto(Len(t))[Right(t)]
    <3> SUFFICES ASSUME Len(t) > 1
                 PROVE /\ F[Left(t)] = Upto(Len(t))[Left(t)]
                       /\ F[Right(t)] = Upto(Len(t))[Right(t)]
      OBVIOUS
    <3>1. /\ Left(t) \in Trees /\ Len(Left(t)) < Len(t)
          /\ Right(t) \in Trees /\ Len(Right(t)) < Len(t)
      BY Halves, TreeLength
    <3> HIDE DEF F
    <3> QED BY <2>2, <3>1
  <2> HIDE DEF F
  <2>4. PathsFrom(F, t) = PathsFrom(Upto(Len(t)), t)
    BY <2>3, PathsOfHalves
  <2> QED BY <2>1, <2>4
<1>3. F = [t \in Trees |-> F[t]]
  OBVIOUS
<1> HIDE DEF F
<1>4. F = [t \in Trees |-> PathsFrom(F, t)]
  BY <1>2, <1>3
<1>5. \A f : (f = [t \in Trees |-> PathsFrom(f, t)]) <=>
       f = [hashes \in Trees |->
            [k \in 0..Len(hashes) - 1 |->
               IF Len(hashes) = 1 THEN <<>>
               ELSE IF k < LargestPowerOfTwo(Len(hashes))
                    THEN Append(f[Left(hashes)][k], MerkleTreeHash[Right(hashes)])
                    ELSE Append(f[Right(hashes)][k - LargestPowerOfTwo(Len(hashes))],
                                MerkleTreeHash[Left(hashes)])]]
  BY DEF PathsFrom, PathFrom
<1>6. InclusionPath = [t \in Trees |-> PathsFrom(InclusionPath, t)]
  BY <1>4, <1>5 DEF InclusionPath
<1>7. InclusionPath[s] = PathsFrom(InclusionPath, s)
  BY <1>6
<1> QED BY <1>7 DEF PathsFrom

-----------------------------------------------------------------------------
(* The inner loop.                                                         *)

Even(up) == up[1] % 2 = 0 /\ up[1] # 0
Halved(up) == <<up[1] \div 2, up[2] \div 2>>
ShiftFrom(f, up) == IF Even(up) THEN f[Halved(up)] ELSE up
ShiftsUpTo(f, N) == \A up \in Nat \X Nat : up[1] <= N => f[up] = ShiftFrom(f, up)

LEMMA HalfOfPair ==
  ASSUME NEW up \in Nat \X Nat
  PROVE  /\ up[1] \in Nat
         /\ Halved(up) \in Nat \X Nat
         /\ Even(up) => Halved(up)[1] \in Nat /\ Halved(up)[1] < up[1]
<1>1. up[1] \in Nat /\ up[2] \in Nat
  OBVIOUS
<1>2. \A x \in Nat : x \div 2 \in Nat /\ (x # 0 => x \div 2 < x)
  OBVIOUS
<1> QED BY <1>1, <1>2 DEF Halved, Even

LEMMA ShiftsExist ==
  ASSUME NEW N \in Nat
  PROVE  \E f : ShiftsUpTo(f, N)
<1> DEFINE S == {n \in Nat : \E f : ShiftsUpTo(f, n)}
<1>1. ASSUME NEW n \in Nat, \A m \in Nat : m < n => m \in S
      PROVE  n \in S
  <2>1. PICK g : n > 0 => ShiftsUpTo(g, n - 1)
    <3>1. n > 0 => n - 1 \in Nat /\ n - 1 < n
      OBVIOUS
    <3>2. n > 0 => n - 1 \in S
      BY <1>1, <3>1
    <3> QED BY <3>2
  <2> DEFINE f == [up \in Nat \X Nat |-> ShiftFrom(g, up)]
  <2>2. ASSUME NEW up \in Nat \X Nat, up[1] <= n PROVE f[up] = ShiftFrom(f, up)
    <3>1. f[up] = ShiftFrom(g, up)
      OBVIOUS
    <3>2. ASSUME Even(up) PROVE f[Halved(up)] = g[Halved(up)]
      <4>1. PICK b : b = Halved(up)
        OBVIOUS
      <4>2. b \in Nat \X Nat /\ b[1] <= n - 1 /\ n > 0
        BY <2>2, <3>2, <4>1, HalfOfPair
      <4>3. g[b] = ShiftFrom(g, b)
        BY <2>1, <4>2 DEF ShiftsUpTo
      <4>4. f[b] = ShiftFrom(g, b)
        BY <4>2
      <4> HIDE DEF f
      <4> QED BY <4>1, <4>3, <4>4
    <3> HIDE DEF f
    <3> QED BY <3>1, <3>2 DEF ShiftFrom
  <2> HIDE DEF f
  <2>3. ShiftsUpTo(f, n)
    BY <2>2 DEF ShiftsUpTo
  <2> QED BY <2>3
<1> HIDE DEF S
<1>2. N \in S
  BY <1>1, EveryNumber
<1> QED BY <1>2 DEF S

LEMMA ShiftsAgree ==
  ASSUME NEW f, NEW M \in Nat, ShiftsUpTo(f, M), NEW g, NEW N \in Nat, ShiftsUpTo(g, N),
         NEW up \in Nat \X Nat, up[1] <= M, up[1] <= N
  PROVE  f[up] = g[up]
<1> DEFINE S == {n \in Nat : \A b \in Nat \X Nat : b[1] = n /\ n <= M /\ n <= N => f[b] = g[b]}
<1>1. ASSUME NEW n \in Nat, \A m \in Nat : m < n => m \in S
      PROVE  n \in S
  <2> SUFFICES ASSUME NEW b \in Nat \X Nat, b[1] = n, n <= M, n <= N PROVE f[b] = g[b]
    OBVIOUS
  <2>1. f[b] = ShiftFrom(f, b) /\ g[b] = ShiftFrom(g, b)
    BY DEF ShiftsUpTo
  <2>2. ASSUME Even(b) PROVE f[Halved(b)] = g[Halved(b)]
    <3>1. PICK c : c = Halved(b)
      OBVIOUS
    <3>2. c \in Nat \X Nat /\ c[1] \in Nat /\ c[1] < n
      BY <2>2, <3>1, HalfOfPair
    <3>3. c[1] \in S
      BY <1>1, <3>2
    <3>4. c[1] <= M /\ c[1] <= N
      BY <3>2
    <3> QED BY <3>1, <3>2, <3>3, <3>4
  <2> QED BY <2>1, <2>2 DEF ShiftFrom
<1>2. up[1] \in S
  <2>1. up[1] \in Nat
    BY HalfOfPair
  <2> HIDE DEF S
  <2> QED BY <1>1, <2>1, EveryNumber
<1> QED BY <1>2

LEMMA ShiftedIs ==
  ASSUME NEW up \in Nat \X Nat
  PROVE  Shifted[up] = ShiftFrom(Shifted, up)
<1> DEFINE Upto(n) == CHOOSE f : ShiftsUpTo(f, n)
           F == [b \in Nat \X Nat |-> Upto(b[1])[b]]
<1>1. \A n \in Nat : ShiftsUpTo(Upto(n), n)
  BY ShiftsExist
<1> HIDE DEF Upto
<1>2. ASSUME NEW b \in Nat \X Nat PROVE F[b] = ShiftFrom(F, b)
  <2>1. F[b] = ShiftFrom(Upto(b[1]), b)
    BY <1>1, HalfOfPair DEF ShiftsUpTo
  <2>2. ASSUME Even(b) PROVE F[Halved(b)] = Upto(b[1])[Halved(b)]
    <3>1. PICK c : c = Halved(b)
      OBVIOUS
    <3>2. c \in Nat \X Nat /\ c[1] \in Nat /\ b[1] \in Nat /\ c[1] <= b[1]
      BY <2>2, <3>1, HalfOfPair
    <3>3. F[c] = Upto(c[1])[c]
      BY <3>2
    <3> HIDE DEF F
    <3> QED BY <1>1, <3>1, <3>2, <3>3, ShiftsAgree
  <2> HIDE DEF F
  <2> QED BY <2>1, <2>2 DEF ShiftFrom
<1>3. F = [b \in Nat \X Nat |-> F[b]]
  OBVIOUS
<1> HIDE DEF F
<1>4. F = [b \in Nat \X Nat |-> ShiftFrom(F, b)]
  BY <1>2, <1>3
<1>5. \A f : (f = [b \in Nat \X Nat |-> ShiftFrom(f, b)]) <=>
        f = [b \in Nat \X Nat |->
               IF b[1] % 2 = 0 /\ b[1] # 0 THEN f[<<b[1] \div 2, b[2] \div 2>>] ELSE b]
  BY DEF ShiftFrom, Even, Halved
<1>6. Shifted = [b \in Nat \X Nat |-> ShiftFrom(Shifted, b)]
  BY <1>4, <1>5 DEF Shifted
<1> QED BY <1>6

-----------------------------------------------------------------------------
(* Climbing in a tree and in the half of it that has the leaf.             *)

Node(fn, sn, r) == [fn |-> fn, sn |-> sn, r |-> r]
IsNode(up) == up = Node(up.fn, up.sn, up.r) /\ up.fn \in Nat /\ up.sn \in Nat /\ up.fn <= up.sn

\* sub is in the left half of a tree what main is in the tree, q leaves the half
\* has at their height.
LeftOf(main, sub, q) ==
  /\ IsNode(main) /\ IsNode(sub) /\ q \in Powers
  /\ main.fn = sub.fn /\ main.r = sub.r
  /\ sub.sn = q - 1 /\ q <= main.sn /\ main.sn < 2 * q

RightOf(main, sub, q) ==
  /\ IsNode(main) /\ IsNode(sub) /\ q \in Powers
  /\ main.fn = q + sub.fn /\ main.r = sub.r
  /\ main.sn = q + sub.sn /\ sub.sn < q

LEMMA HalfOfNumber ==
  ASSUME NEW x \in Nat
  PROVE  /\ x \div 2 \in Nat
         /\ \/ x % 2 = 0 /\ x = 2 * (x \div 2)
            \/ x % 2 = 1 /\ x = 2 * (x \div 2) + 1
OBVIOUS

LEMMA HalvesOfNumber ==
  ASSUME NEW q \in Nat, NEW x \in Nat, NEW y \in Nat
  PROVE  /\ x <= y => x \div 2 <= y \div 2
         /\ (2 * q + x) \div 2 = q + (x \div 2)
         /\ (2 * q + x) % 2 = x % 2
         /\ x < 2 * q => x \div 2 < q
         /\ 2 * q <= x => q <= x \div 2
         /\ q >= 1 => (2 * q - 1) \div 2 = q - 1 /\ (2 * q - 1) % 2 = 1
OBVIOUS

\* A step down is one of these two.
LEMMA ClimbOdd ==
  ASSUME NEW up, IsNode(up), up.fn % 2 = 1, NEW x
  PROVE  Climb(up, x) = Node(up.fn \div 2, up.sn \div 2, NodeHash(x, up.r))
<1>1. <<up.fn, up.sn>> \in Nat \X Nat
  BY DEF IsNode
<1>2. ~Even(<<up.fn, up.sn>>)
  <2>1. <<up.fn, up.sn>>[1] = up.fn
    OBVIOUS
  <2> QED BY <2>1 DEF Even
<1>3. Shifted[<<up.fn, up.sn>>] = <<up.fn, up.sn>>
  BY <1>1, <1>2, ShiftedIs DEF ShiftFrom
<1> QED BY <1>3 DEF Climb, Node

LEMMA ClimbLeft ==
  ASSUME NEW up, IsNode(up), up.fn % 2 = 0, up.fn # up.sn, NEW x
  PROVE  Climb(up, x) = Node(up.fn \div 2, up.sn \div 2, NodeHash(up.r, x))
BY DEF Climb, Node

\* The odd number that is left of a number is that left of the sum with a power
\* above it, but for a power.
LEMMA ShiftedSum ==
  ASSUME NEW a \in Nat, a # 0, NEW q \in Powers, a < q
  PROVE  \E p \in Powers, b \in Nat :
           /\ b % 2 = 1 /\ b < p
           /\ Shifted[<<q + a, q + a>>] = <<p + b, p + b>> /\ Shifted[<<a, a>>] = <<b, b>>
<1> DEFINE Same(x, y) == \E p \in Powers, b \in Nat :
                           /\ b % 2 = 1 /\ b < p
                           /\ Shifted[<<x + y, x + y>>] = <<p + b, p + b>> /\ Shifted[<<y, y>>] = <<b, b>>
           S == {y \in Nat : \A x \in Powers : y # 0 /\ y < x => Same(x, y)}
<1>1. ASSUME NEW y \in Nat, \A m \in Nat : m < y => m \in S
      PROVE  y \in S
  <2> SUFFICES ASSUME NEW x \in Powers, y # 0, y < x PROVE Same(x, y)
    OBVIOUS
  <2>1. PICK h \in Powers : x = 2 * h
    BY PowerCases
  <2>2. h \in Nat /\ x \in Nat
    BY PowerCases
  <2>3. <<y, y>> \in Nat \X Nat /\ <<x + y, x + y>> \in Nat \X Nat
    BY <2>2
  <2>4. (x + y) % 2 = y % 2 /\ x + y # 0 /\ (x + y) \div 2 = h + (y \div 2)
    BY <2>1, <2>2, HalvesOfNumber
  <2>5. CASE y % 2 = 1
    <3>1. ~Even(<<y, y>>) /\ ~Even(<<x + y, x + y>>)
      BY <2>4, <2>5 DEF Even
    <3>2. Shifted[<<y, y>>] = <<y, y>> /\ Shifted[<<x + y, x + y>>] = <<x + y, x + y>>
      BY <2>3, <3>1, ShiftedIs DEF ShiftFrom
    <3> QED BY <2>5, <3>2
  <2>6. CASE y % 2 = 0
    <3>1. Even(<<y, y>>) /\ Even(<<x + y, x + y>>)
      BY <2>4, <2>6 DEF Even
    <3>2. PICK z : z = y \div 2
      OBVIOUS
    <3>3. z \in Nat /\ z # 0 /\ z < y /\ z < h
      BY <2>1, <2>2, <2>6, <3>2, HalfOfNumber
    <3>4. Halved(<<y, y>>) = <<z, z>> /\ Halved(<<x + y, x + y>>) = <<h + z, h + z>>
      BY <2>4, <3>2 DEF Halved
    <3>5. Shifted[<<y, y>>] = Shifted[<<z, z>>] /\ Shifted[<<x + y, x + y>>] = Shifted[<<h + z, h + z>>]
      BY <2>3, <3>1, <3>4, ShiftedIs DEF ShiftFrom
    <3>6. Same(h, z)
      BY <1>1, <3>3
    <3> QED BY <3>5, <3>6
  <2> QED BY <2>5, <2>6, HalfOfNumber
<1>2. a \in S
  <2> HIDE DEF S
  <2> QED BY <1>1, EveryNumber
<1> QED BY <1>2

LEMMA ShiftedPower ==
  ASSUME NEW q \in Powers
  PROVE  Shifted[<<q, q>>] = <<1, 1>>
<1> DEFINE S == {x \in Nat : Shifted[<<x, x>>] = <<1, 1>>}
<1>1. 1 \in S
  <2>1. <<1, 1>> \in Nat \X Nat /\ ~Even(<<1, 1>>)
    BY DEF Even
  <2> QED BY <2>1, ShiftedIs DEF ShiftFrom
<1>2. ASSUME NEW x \in Powers, x \in S PROVE 2 * x \in S
  <2>1. x \in Nat /\ x >= 1
    BY PowerCases
  <2>2. (2 * x) % 2 = 0 /\ (2 * x) \div 2 = x /\ 2 * x # 0
    BY <2>1
  <2>3. PICK y : y = 2 * x
    OBVIOUS
  <2>4. <<y, y>> \in Nat \X Nat
    BY <2>1, <2>3
  <2>5. Even(<<y, y>>) /\ Halved(<<y, y>>) = <<x, x>>
    BY <2>2, <2>3 DEF Even, Halved
  <2>6. Shifted[<<y, y>>] = Shifted[<<x, x>>]
    BY <2>4, <2>5, ShiftedIs DEF ShiftFrom
  <2> QED BY <1>2, <2>1, <2>3, <2>6
<1>3. q \in S
  <2> HIDE DEF S
  <2> QED BY <1>1, <1>2, EveryPower
<1> QED BY <1>3

\* At the top of a left half: its node and that of the right half.
LEMMA LeftTop ==
  ASSUME NEW main, NEW sub, NEW q, LeftOf(main, sub, q), sub.sn = 0, NEW x
  PROVE  Climb(main, x) = Node(0, 0, NodeHash(sub.r, x))
<1>1. q = 1 /\ main.fn = 0 /\ main.sn = 1 /\ IsNode(main) /\ main.r = sub.r
  BY PowerCases DEF LeftOf, IsNode
<1>2. Climb(main, x) = Node(main.fn \div 2, main.sn \div 2, NodeHash(main.r, x))
  BY <1>1, ClimbLeft
<1>3. 0 \div 2 = 0 /\ 1 \div 2 = 0
  OBVIOUS
<1> QED BY <1>1, <1>2, <1>3

LEMMA RightTop ==
  ASSUME NEW main, NEW sub, NEW q, RightOf(main, sub, q), sub.sn = 0, NEW x
  PROVE  Climb(main, x) = Node(0, 0, NodeHash(x, sub.r))
<1>1. main.fn = q /\ main.sn = q /\ main.r = sub.r
  BY PowerCases DEF RightOf, IsNode
<1>2. Shifted[<<q, q>>] = <<1, 1>>
  BY ShiftedPower DEF RightOf
<1>3. 1 \div 2 = 0
  OBVIOUS
<1> QED BY <1>1, <1>2, <1>3 DEF Climb, Node

LEMMA NodeParts ==
  ASSUME NEW fn, NEW sn, NEW r
  PROVE  /\ Node(fn, sn, r).fn = fn /\ Node(fn, sn, r).sn = sn /\ Node(fn, sn, r).r = r
         /\ fn \in Nat /\ sn \in Nat /\ fn <= sn => IsNode(Node(fn, sn, r))
BY DEF Node, IsNode

LEMMA LeftClimb ==
  ASSUME NEW main, NEW sub, NEW q, LeftOf(main, sub, q), sub.sn # 0, NEW x
  PROVE  \E p : LeftOf(Climb(main, x), Climb(sub, x), p)
<1>1. PICK h \in Powers : q = 2 * h
  BY PowerCases DEF LeftOf
<1> DEFINE f == main.fn \div 2
           n == main.sn \div 2
<1>2. /\ h \in Nat /\ h >= 1 /\ main.fn \in Nat /\ main.sn \in Nat
      /\ main.fn <= 2 * h - 1 /\ 2 * h <= main.sn /\ main.sn < 2 * (2 * h)
      /\ sub.fn = main.fn /\ sub.sn = 2 * h - 1 /\ sub.r = main.r /\ IsNode(main) /\ IsNode(sub)
  BY <1>1, PowerCases DEF LeftOf, IsNode
<1>3. f \in Nat /\ n \in Nat /\ f <= h - 1 /\ h <= n /\ n < 2 * h /\ sub.sn \div 2 = h - 1 /\ sub.sn % 2 = 1
  <2>1. main.fn < 2 * h
    BY <1>2
  <2>2. f \in Nat /\ n \in Nat
    BY <1>2, HalfOfNumber
  <2>3. f < h /\ h <= n
    BY <1>2, <2>1, HalvesOfNumber
  <2>4. sub.sn \div 2 = h - 1 /\ sub.sn % 2 = 1
    BY <1>2, HalvesOfNumber
  <2>5. 2 * h \in Nat
    BY <1>2
  <2>6. n < 2 * h
    BY <1>2, <2>5, HalvesOfNumber
  <2> QED BY <1>2, <2>2, <2>3, <2>4, <2>6
<1>4. ASSUME NEW r, Climb(main, x) = Node(f, n, r), Climb(sub, x) = Node(f, h - 1, r)
      PROVE  LeftOf(Climb(main, x), Climb(sub, x), h)
  <2>1. h - 1 \in Nat /\ f <= n
    BY <1>2, <1>3
  <2>2. IsNode(Node(f, n, r)) /\ IsNode(Node(f, h - 1, r))
    BY <1>3, <2>1, NodeParts
  <2> HIDE DEF f, n
  <2> QED BY <1>3, <1>4, <2>2, NodeParts DEF LeftOf
<1>5. CASE main.fn % 2 = 1
  <2>1. /\ Climb(main, x) = Node(f, n, NodeHash(x, main.r))
        /\ Climb(sub, x) = Node(f, h - 1, NodeHash(x, main.r))
    BY <1>2, <1>3, <1>5, ClimbOdd
  <2> QED BY <1>4, <2>1
<1>6. CASE main.fn % 2 = 0
  <2>1. main.fn # main.sn /\ sub.fn # sub.sn
    BY <1>2, <1>3, <1>6
  <2>2. /\ Climb(main, x) = Node(f, n, NodeHash(main.r, x))
        /\ Climb(sub, x) = Node(f, h - 1, NodeHash(main.r, x))
    BY <1>2, <1>3, <1>6, <2>1, ClimbLeft
  <2> QED BY <1>4, <2>2
<1> QED BY <1>2, <1>5, <1>6, HalfOfNumber

LEMMA RightClimb ==
  ASSUME NEW main, NEW sub, NEW q, RightOf(main, sub, q), sub.sn # 0, NEW x
  PROVE  \E p : RightOf(Climb(main, x), Climb(sub, x), p)
<1>1. PICK h \in Powers : q = 2 * h
  BY PowerCases DEF RightOf, IsNode
<1>2. PICK a, b, r : a = sub.fn /\ b = sub.sn /\ r = sub.r
  OBVIOUS
<1>3. /\ h \in Nat /\ h >= 1 /\ a \in Nat /\ b \in Nat /\ a <= b /\ b < 2 * h
      /\ main.fn = 2 * h + a /\ main.sn = 2 * h + b /\ main.r = r /\ IsNode(main) /\ IsNode(sub)
  BY <1>1, <1>2, PowerCases DEF RightOf, IsNode
<1>4. /\ a \div 2 \in Nat /\ b \div 2 \in Nat /\ a \div 2 <= b \div 2 /\ b \div 2 < h
      /\ (2 * h + a) \div 2 = h + (a \div 2) /\ (2 * h + b) \div 2 = h + (b \div 2)
      /\ (2 * h + a) % 2 = a % 2
  BY <1>3, HalfOfNumber, HalvesOfNumber
<1>5. ASSUME NEW p \in Powers, NEW f \in Nat, NEW n \in Nat, f <= n, n < p, NEW s,
             Climb(main, x) = Node(p + f, p + n, s), Climb(sub, x) = Node(f, n, s)
      PROVE  RightOf(Climb(main, x), Climb(sub, x), p)
  <2>1. p \in Nat
    BY PowerCases
  <2>2. IsNode(Node(p + f, p + n, s)) /\ IsNode(Node(f, n, s))
    BY <1>5, <2>1, NodeParts
  <2> QED BY <1>5, <2>2, NodeParts DEF RightOf
<1>6. CASE a % 2 = 1
  <2>1. /\ Climb(main, x) = Node(h + (a \div 2), h + (b \div 2), NodeHash(x, r))
        /\ Climb(sub, x) = Node(a \div 2, b \div 2, NodeHash(x, r))
    BY <1>2, <1>3, <1>4, <1>6, ClimbOdd
  <2> QED BY <1>4, <1>5, <2>1
<1>7. CASE a % 2 = 0 /\ a # b
  <2>1. main.fn # main.sn /\ sub.fn # sub.sn
    BY <1>2, <1>3, <1>7
  <2>2. /\ Climb(main, x) = Node(h + (a \div 2), h + (b \div 2), NodeHash(r, x))
        /\ Climb(sub, x) = Node(a \div 2, b \div 2, NodeHash(r, x))
    BY <1>2, <1>3, <1>4, <1>7, <2>1, ClimbLeft
  <2> QED BY <1>4, <1>5, <2>2
<1>8. CASE a = b
  <2>1. a # 0 /\ q \in Powers /\ a < q
    BY <1>1, <1>2, <1>3, <1>8 DEF RightOf
  <2>2. PICK p \in Powers, c \in Nat :
           /\ c % 2 = 1 /\ c < p
           /\ Shifted[<<q + a, q + a>>] = <<p + c, p + c>> /\ Shifted[<<a, a>>] = <<c, c>>
    BY <1>3, <2>1, ShiftedSum
  <2>3. PICK g \in Powers : p = 2 * g
    BY <2>2, PowerCases
  <2>4. g \in Nat /\ c \div 2 \in Nat /\ c \div 2 < g /\ (p + c) \div 2 = g + (c \div 2)
    BY <2>2, <2>3, PowerCases, HalfOfNumber, HalvesOfNumber
  <2>5. main.fn = q + a /\ main.sn = q + a
    BY <1>1, <1>3, <1>8
  <2>6. Climb(main, x) = Node(g + (c \div 2), g + (c \div 2), NodeHash(x, r))
    BY <1>3, <2>2, <2>4, <2>5 DEF Climb, Node
  <2>7. Climb(sub, x) = Node(c \div 2, c \div 2, NodeHash(x, r))
    BY <1>2, <1>8, <2>2 DEF Climb, Node
  <2> QED BY <1>5, <2>4, <2>6, <2>7
<1> QED BY <1>3, <1>6, <1>7, <1>8, HalfOfNumber

\* A root is climbed over for ever.
LEMMA RootClimb ==
  ASSUME NEW up, IsNode(up), up.sn = 0, NEW x
  PROVE  Climb(up, x) = Node(0, 0, NodeHash(x, up.r))
<1>1. up.fn = 0
  BY DEF IsNode
<1>2. <<0, 0>> \in Nat \X Nat /\ ~Even(<<0, 0>>) /\ 0 \div 2 = 0
  BY DEF Even
<1>3. Shifted[<<0, 0>>] = <<0, 0>>
  BY <1>2, ShiftedIs DEF ShiftFrom
<1> QED BY <1>1, <1>2, <1>3 DEF Climb, Node

-----------------------------------------------------------------------------
(* The sizes of the right-hand trees in a tree of n leaves.                *)

Down(S) == \A x \in S : x > 1 => x - LargestPowerOfTwo(x) \in S
Spine(n) == {m \in 1..n : \A S \in SUBSET (1..n) : n \in S /\ Down(S) => m \in S}

LEMMA SpineSizes ==
  ASSUME NEW n \in Nat, n >= 1
  PROVE  /\ n \in Spine(n)
         /\ \A m \in Spine(n) : m \in Nat /\ 1 <= m /\ m <= n
         /\ \A m \in Spine(n) : m > 1 => m - LargestPowerOfTwo(m) \in Spine(n)
<1>1. n \in Spine(n) /\ \A m \in Spine(n) : m \in Nat /\ 1 <= m /\ m <= n
  BY DEF Spine
<1>2. ASSUME NEW m \in Spine(n), m > 1 PROVE m - LargestPowerOfTwo(m) \in Spine(n)
  <2>1. PICK k : k = LargestPowerOfTwo(m)
    OBVIOUS
  <2>2. m \in Nat /\ m <= n /\ k \in Nat /\ k >= 1 /\ k < m
    BY <1>1, <1>2, <2>1, LargestPower, PowerCases
  <2>3. m - k \in 1..n
    BY <2>2
  <2>4. ASSUME NEW S \in SUBSET (1..n), n \in S, Down(S) PROVE m - k \in S
    <3>1. m \in S
      BY <2>4 DEF Spine
    <3> QED BY <1>2, <2>1, <2>4, <3>1 DEF Down
  <2> QED BY <2>1, <2>3, <2>4 DEF Spine
<1> QED BY <1>1, <1>2

\* Of a tree of n leaves: n, and the sizes in its right half.
LEMMA SpineStep ==
  ASSUME NEW n \in Nat, n > 1, NEW k, k = LargestPowerOfTwo(n)
  PROVE  /\ \A m \in Spine(n) : m = n \/ m \in Spine(n - k)
         /\ \A m \in Spine(n - k) : m \in Spine(n)
<1>1. k \in Nat /\ k >= 1 /\ k < n
  BY LargestPower, PowerCases
<1>2. ASSUME NEW m \in Spine(n), m # n PROVE m \in Spine(n - k)
  <2> DEFINE T == {n} \cup Spine(n - k)
  <2>1. n - k \in Nat /\ n - k >= 1
    BY <1>1
  <2>2. T \in SUBSET (1..n)
    BY <1>1, <2>1, SpineSizes
  <2>3. Down(T)
    <3> SUFFICES ASSUME NEW x \in T, x > 1 PROVE x - LargestPowerOfTwo(x) \in Spine(n - k)
      BY DEF Down
    <3>1. CASE x = n
      BY <2>1, <3>1, SpineSizes
    <3>2. CASE x \in Spine(n - k)
      BY <2>1, <3>2, SpineSizes
    <3> QED BY <3>1, <3>2
  <2>4. n \in T
    OBVIOUS
  <2>5. m \in T
    <3> HIDE DEF T
    <3> QED BY <2>2, <2>3, <2>4 DEF Spine
  <2> QED BY <1>2, <2>5
<1>3. ASSUME NEW m \in Spine(n - k) PROVE m \in Spine(n)
  <2>1. n - k \in Nat /\ n - k >= 1 /\ n >= 1
    BY <1>1
  <2>2. m \in 1..n
    BY <1>1, <2>1, SpineSizes
  <2>3. ASSUME NEW S \in SUBSET (1..n), n \in S, Down(S) PROVE m \in S
    <3> DEFINE T == S \cap (1..(n - k))
    <3>1. n - k \in T
      BY <1>1, <2>1, <2>3 DEF Down
    <3>2. Down(T)
      <4> SUFFICES ASSUME NEW x \in T, x > 1 PROVE x - LargestPowerOfTwo(x) \in T
        BY DEF Down
      <4>1. x - LargestPowerOfTwo(x) \in S
        BY <2>3 DEF Down
      <4>2. PICK l : l = LargestPowerOfTwo(x)
        OBVIOUS
      <4>3. x \in Nat /\ x <= n - k /\ l \in Nat /\ l >= 1 /\ l < x
        BY <1>1, <4>2, LargestPower, PowerCases
      <4>4. x - l \in 1..(n - k)
        BY <1>1, <4>3
      <4> QED BY <4>1, <4>2, <4>4
    <3>3. T \in SUBSET (1..(n - k))
      OBVIOUS
    <3> HIDE DEF T
    <3>4. m \in T
      BY <3>1, <3>2, <3>3 DEF Spine
    <3> QED BY <3>4 DEF T
  <2> QED BY <2>2, <2>3 DEF Spine
<1> QED BY <1>2, <1>3

\* Of a power of two: the powers up to it.
LEMMA SpineOfPower ==
  ASSUME NEW p \in Powers, NEW q \in Powers, q <= p
  PROVE  q \in Spine(p)
<1> DEFINE S == {x \in Nat : \A y \in Powers : y <= x => y \in Spine(x)}
<1>1. 1 \in S
  BY PowerCases, SpineSizes
<1>2. ASSUME NEW x \in Powers, x \in S PROVE 2 * x \in S
  <2>1. x \in Nat /\ x >= 1
    BY PowerCases
  <2> SUFFICES ASSUME NEW y \in Powers, y <= 2 * x PROVE y \in Spine(2 * x)
    BY <2>1
  <2>2. y \in Nat
    BY PowerCases
  <2>3. 2 * x \in Nat /\ 2 * x > 1 /\ 2 * x - x = x
    BY <2>1
  <2>4. CASE y = 2 * x
    BY <2>3, <2>4, SpineSizes
  <2>5. CASE y # 2 * x
    <3>1. ~(x < y)
      BY <2>1, <2>2, <2>5, PowerGap
    <3>2. y \in Spine(x)
      BY <1>2, <2>1, <2>2, <3>1
    <3> QED BY <2>3, <3>2, SpineStep, LargestOfPower
  <2> QED BY <2>4, <2>5
<1>3. p \in S
  <2> HIDE DEF S
  <2> QED BY <1>1, <1>2, EveryPower
<1> QED BY <1>3

-----------------------------------------------------------------------------
(* Climbs.                                                                 *)

\* at is where L steps along the path lead.
Climbs(up, path, L) == \A j \in 1..L : up[j] = Climb(up[j - 1], path[j])

LEMMA ClimbedIs ==
  ASSUME NEW start, NEW path, Len(path) \in Nat
  PROVE  /\ Climbed(start, path)[0] = start
         /\ Climbs(Climbed(start, path), path, Len(path))
<1> DEFINE n == Len(path)
           From(f, j) == IF j = 0 THEN start ELSE Climb(f[j - 1], path[j])
           Sat(f, m) == \A j \in 0..n : j <= m => f[j] = From(f, j)
           S == {m \in Nat : \E f : Sat(f, m)}
<1> HIDE DEF n
<1>1. n \in Nat
  BY DEF n
<1>2. ASSUME NEW m \in Nat, \A l \in Nat : l < m => l \in S
      PROVE  m \in S
  <2>1. PICK g : m > 0 => Sat(g, m - 1)
    <3>1. m > 0 => m - 1 \in Nat /\ m - 1 < m
      OBVIOUS
    <3>2. m > 0 => m - 1 \in S
      BY <1>2, <3>1
    <3> QED BY <3>2
  <2> DEFINE f == [j \in 0..n |-> From(g, j)]
  <2>2. ASSUME NEW j \in 0..n, j <= m PROVE f[j] = From(f, j)
    <3>1. f[j] = From(g, j)
      OBVIOUS
    <3>2. ASSUME j # 0 PROVE f[j - 1] = g[j - 1]
      <4>1. j - 1 \in 0..n /\ j - 1 <= m - 1 /\ m > 0
        BY <1>1, <2>2, <3>2
      <4>2. g[j - 1] = From(g, j - 1)
        BY <2>1, <4>1
      <4>3. f[j - 1] = From(g, j - 1)
        BY <4>1
      <4> QED BY <4>2, <4>3
    <3> HIDE DEF f
    <3> QED BY <3>1, <3>2
  <2> HIDE DEF f
  <2> QED BY <2>2
<1>3. n \in S
  <2> HIDE DEF S
  <2> QED BY <1>1, <1>2, EveryNumber
<1>4. PICK g : Sat(g, n)
  BY <1>3
<1> DEFINE F == [j \in 0..n |-> g[j]]
<1>5. ASSUME NEW j \in 0..n PROVE F[j] = From(F, j)
  <2>1. g[j] = From(g, j)
    BY <1>1, <1>4
  <2>2. j # 0 => j - 1 \in 0..n
    BY <1>1
  <2>3. j # 0 => F[j - 1] = g[j - 1]
    BY <2>2
  <2>4. F[j] = g[j]
    OBVIOUS
  <2> HIDE DEF F
  <2> QED BY <2>1, <2>3, <2>4
<1>6. F = [j \in 0..n |-> F[j]]
  OBVIOUS
<1> HIDE DEF F
<1>7. F = [j \in 0..n |-> IF j = 0 THEN start ELSE Climb(F[j - 1], path[j])]
  BY <1>5, <1>6
<1> DEFINE C == CHOOSE f : f = [j \in 0..n |-> IF j = 0 THEN start ELSE Climb(f[j - 1], path[j])]
<1>8. C = [j \in 0..n |-> IF j = 0 THEN start ELSE Climb(C[j - 1], path[j])]
  BY <1>7
<1>9. Climbed(start, path) = C
  BY DEF Climbed, n
<1> HIDE DEF C
<1>10. \A j \in 0..n : C[j] = IF j = 0 THEN start ELSE Climb(C[j - 1], path[j])
  BY <1>8
<1>11. C[0] = start
  BY <1>1, <1>10
<1>12. ASSUME NEW j \in 1..n PROVE C[j] = Climb(C[j - 1], path[j])
  BY <1>1, <1>10
<1> QED BY <1>9, <1>11, <1>12 DEF Climbs, n

-----------------------------------------------------------------------------
(* A climb in a tree and in its half.                                      *)

Below(d, main, sub) == \E q : IF d = "left" THEN LeftOf(main, sub, q) ELSE RightOf(main, sub, q)
Above(d, r, x) == IF d = "left" THEN NodeHash(r, x) ELSE NodeHash(x, r)

LEMMA BelowSteps ==
  ASSUME NEW d, NEW main, NEW sub, Below(d, main, sub), NEW x
  PROVE  /\ main.sn # 0 /\ IsNode(main) /\ IsNode(sub)
         /\ sub.sn # 0 => Below(d, Climb(main, x), Climb(sub, x))
         /\ sub.sn = 0 => Climb(main, x) = Node(0, 0, Above(d, sub.r, x))
<1>1. CASE d = "left"
  <2>1. PICK q : LeftOf(main, sub, q)
    BY <1>1 DEF Below
  <2>2. q \in Nat /\ q >= 1
    BY <2>1, PowerCases DEF LeftOf
  <2>3. main.sn # 0 /\ IsNode(main) /\ IsNode(sub)
    BY <2>1, <2>2 DEF LeftOf
  <2>4. sub.sn # 0 => Below(d, Climb(main, x), Climb(sub, x))
    BY <1>1, <2>1, LeftClimb DEF Below
  <2>5. sub.sn = 0 => Climb(main, x) = Node(0, 0, Above(d, sub.r, x))
    BY <1>1, <2>1, LeftTop DEF Above
  <2> QED BY <2>3, <2>4, <2>5
<1>2. CASE d # "left"
  <2>1. PICK q : RightOf(main, sub, q)
    BY <1>2 DEF Below
  <2>2. q \in Nat /\ q >= 1
    BY <2>1, PowerCases DEF RightOf
  <2>3. main.sn # 0 /\ IsNode(main) /\ IsNode(sub)
    BY <2>1, <2>2 DEF RightOf, IsNode
  <2>4. sub.sn # 0 => Below(d, Climb(main, x), Climb(sub, x))
    BY <1>2, <2>1, RightClimb DEF Below
  <2>5. sub.sn = 0 => Climb(main, x) = Node(0, 0, Above(d, sub.r, x))
    BY <1>2, <2>1, RightTop DEF Above
  <2> QED BY <2>3, <2>4, <2>5
<1> QED BY <1>1, <1>2

LEMMA BelowStart ==
  ASSUME NEW n \in Nat, n > 1, NEW k, k = LargestPowerOfTwo(n), NEW i \in 0..n - 1, NEW r
  PROVE  /\ i < k => Below("left", Node(i, n - 1, r), Node(i, k - 1, r))
         /\ i >= k => Below("right", Node(i, n - 1, r), Node(i - k, (n - k) - 1, r))
<1>1. k \in Powers /\ k \in Nat /\ k >= 1 /\ k < n /\ n <= 2 * k
  BY LargestPower, PowerCases
<1>2. IsNode(Node(i, n - 1, r))
  BY NodeParts
<1>3. ASSUME i < k PROVE LeftOf(Node(i, n - 1, r), Node(i, k - 1, r), k)
  <2>1. k - 1 \in Nat /\ i <= k - 1 /\ k <= n - 1 /\ n - 1 < 2 * k
    BY <1>1, <1>3
  <2>2. IsNode(Node(i, k - 1, r))
    BY <2>1, NodeParts
  <2> QED BY <1>1, <1>2, <2>1, <2>2, NodeParts DEF LeftOf
<1>4. ASSUME i >= k PROVE RightOf(Node(i, n - 1, r), Node(i - k, (n - k) - 1, r), k)
  <2>1. /\ i - k \in Nat /\ (n - k) - 1 \in Nat /\ i - k <= (n - k) - 1 /\ (n - k) - 1 < k
        /\ i = k + (i - k) /\ n - 1 = k + ((n - k) - 1)
    BY <1>1, <1>4
  <2>2. IsNode(Node(i - k, (n - k) - 1, r))
    BY <2>1, NodeParts
  <2> QED BY <1>1, <1>2, <2>1, <2>2, NodeParts DEF RightOf
<1> QED BY <1>3, <1>4 DEF Below

\* They go together until the root of the half.
LEMMA BelowAlong ==
  ASSUME NEW d, NEW up, NEW sub, NEW path, NEW L \in Nat, Climbs(up, path, L), Climbs(sub, path, L),
         Below(d, up[0], sub[0]),
         \A j \in 0..L - 1 : sub[j].sn # 0 \/ ~(IsNode(up[j + 1]) /\ up[j + 1].sn = 0)
  PROVE  \A j \in 0..L : Below(d, up[j], sub[j])
<1> DEFINE S == {j \in Nat : j <= L => Below(d, up[j], sub[j])}
<1>1. ASSUME NEW j \in Nat, \A l \in Nat : l < j => l \in S
      PROVE  j \in S
  <2> SUFFICES ASSUME j <= L, j # 0 PROVE Below(d, up[j], sub[j])
    OBVIOUS
  <2>1. PICK l : l = j - 1
    OBVIOUS
  <2>2. l \in Nat /\ l < j /\ l \in 0..L - 1 /\ j \in 1..L /\ l + 1 = j
    BY <2>1
  <2>3. Below(d, up[l], sub[l])
    BY <1>1, <2>2
  <2>4. up[j] = Climb(up[l], path[j]) /\ sub[j] = Climb(sub[l], path[j])
    BY <2>1, <2>2 DEF Climbs
  <2>5. sub[l].sn # 0
    <3> SUFFICES ASSUME sub[l].sn = 0 PROVE IsNode(up[j]) /\ up[j].sn = 0
      BY <2>2
    <3>1. up[j] = Node(0, 0, Above(d, sub[l].r, path[j]))
      BY <2>3, <2>4, BelowSteps
    <3> QED BY <3>1, NodeParts
  <2> QED BY <2>3, <2>4, <2>5, BelowSteps
<1>2. ASSUME NEW j \in 0..L PROVE j \in S
  <2> HIDE DEF S
  <2> QED BY <1>1, EveryNumber
<1> QED BY <1>2

\* What a hash tells of the tree.
LEMMA HashShape ==
  ASSUME NEW s \in Trees, Len(s) >= 1
  PROVE  /\ \A p : MerkleTreeHash[s] = LeafHash(p) => Len(s) = 1 /\ s[1] = LeafHash(p)
         /\ \A a, b : MerkleTreeHash[s] = NodeHash(a, b) =>
              Len(s) > 1 /\ MerkleTreeHash[Left(s)] = a /\ MerkleTreeHash[Right(s)] = b
         /\ Len(s) = 1 => MerkleTreeHash[s] = s[1]
         /\ Len(s) > 1 => MerkleTreeHash[s] = NodeHash(MerkleTreeHash[Left(s)], MerkleTreeHash[Right(s)])
<1>1. \A p, a, b : LeafHash(p) # NodeHash(a, b)
  <2>1. \A p, a, b : LeafHash(p)[1] = "leaf" /\ NodeHash(a, b)[1] = "node"
    BY DEF LeafHash, NodeHash
  <2> QED BY <2>1
<1>2. \A a, b, x, y : NodeHash(a, b) = NodeHash(x, y) => a = x /\ b = y
  <2>1. \A a, b : NodeHash(a, b)[2] = a /\ NodeHash(a, b)[3] = b
    BY DEF NodeHash
  <2> QED BY <2>1
<1>3. MerkleTreeHash[s] = HashFrom(MerkleTreeHash, s)
  BY MerkleTreeHashIs
<1>4. Len(s) \in Nat /\ (Len(s) = 1 \/ Len(s) > 1)
  BY TreeLength
<1>5. CASE Len(s) = 1
  <2>1. MerkleTreeHash[s] = s[1]
    BY <1>3, <1>5 DEF HashFrom
  <2>2. PICK p \in Payloads : s[1] = LeafHash(p)
    BY <1>5, TreeLength
  <2> QED BY <1>1, <1>5, <2>1, <2>2
<1>6. CASE Len(s) > 1
  <2>0. Len(s) # 0 /\ Len(s) # 1
    <3>1. PICK n : n = Len(s)
      OBVIOUS
    <3>2. n > 1
      BY <1>6, <3>1
    <3>3. n # 0 /\ n # 1
      BY <3>2
    <3> QED BY <3>1, <3>3
  <2>1. MerkleTreeHash[s] = NodeHash(MerkleTreeHash[Left(s)], MerkleTreeHash[Right(s)])
    BY <1>3, <2>0 DEF HashFrom
  <2> QED BY <1>1, <1>2, <1>6, <2>0, <2>1
<1> QED BY <1>4, <1>5, <1>6

\* A climb of a leaf that ends at the root of a tree has its place in the tree.
Leads(up, path, L, n, i, leaf) ==
  /\ Len(path) \in Nat /\ L <= Len(path) /\ Climbs(up, path, L)
  /\ n \in Nat /\ i \in 0..n - 1
  /\ up[0] = Node(i, n - 1, leaf) /\ up[L].sn = 0
SoundFor(L) ==
  \A up, path, n, i : \A p \in Payloads, s \in Trees :
    /\ Leads(up, path, L, n, i, LeafHash(p))
    /\ Len(s) \in Spine(n) /\ up[L].r = MerkleTreeHash[s]
    => Len(s) = n /\ s[i + 1] = LeafHash(p)

LEMMA LongClimb ==
  ASSUME NEW up, NEW path, NEW L \in Nat, Climbs(up, path, L), NEW J \in 0..L, J < L,
         IsNode(up[J]), up[J].sn = 0
  PROVE  up[L - 1].sn = 0 /\ up[L] = Node(0, 0, NodeHash(path[L], up[L - 1].r))
<1> DEFINE S == {j \in Nat : J <= j /\ j <= L => IsNode(up[j]) /\ up[j].sn = 0}
<1>1. ASSUME NEW j \in Nat, \A l \in Nat : l < j => l \in S
      PROVE  j \in S
  <2> SUFFICES ASSUME J < j, j <= L PROVE IsNode(up[j]) /\ up[j].sn = 0
    OBVIOUS
  <2>1. PICK l : l = j - 1
    OBVIOUS
  <2>2. l \in Nat /\ l < j /\ J <= l /\ l <= L /\ j \in 1..L
    BY <2>1
  <2>3. IsNode(up[l]) /\ up[l].sn = 0
    BY <1>1, <2>2
  <2>4. up[j] = Climb(up[l], path[j])
    BY <2>1, <2>2 DEF Climbs
  <2>5. up[j] = Node(0, 0, NodeHash(path[j], up[l].r))
    BY <2>3, <2>4, RootClimb
  <2> QED BY <2>5, NodeParts
<1>2. L - 1 \in S
  <2>1. L - 1 \in Nat
    OBVIOUS
  <2> HIDE DEF S
  <2> QED BY <1>1, <2>1, EveryNumber
<1>3. L - 1 \in Nat /\ J <= L - 1 /\ L - 1 <= L /\ L \in 1..L
  OBVIOUS
<1>4. IsNode(up[L - 1]) /\ up[L - 1].sn = 0
  BY <1>2, <1>3
<1>5. up[L] = Climb(up[L - 1], path[L])
  BY <1>3 DEF Climbs
<1> QED BY <1>4, <1>5, RootClimb

LEMMA SoundStep ==
  ASSUME NEW L \in Nat, \A l \in Nat : l < L => SoundFor(l)
  PROVE  SoundFor(L)
<1> SUFFICES ASSUME NEW up, NEW path, NEW n, NEW i, NEW p \in Payloads, NEW s \in Trees,
                    Leads(up, path, L, n, i, LeafHash(p)),
                    Len(s) \in Spine(n), up[L].r = MerkleTreeHash[s]
             PROVE  Len(s) = n /\ s[i + 1] = LeafHash(p)
  BY DEF SoundFor
<1>1. /\ Len(path) \in Nat /\ L <= Len(path) /\ Climbs(up, path, L)
      /\ n \in Nat /\ i \in 0..n - 1 /\ n >= 1
      /\ up[0] = Node(i, n - 1, LeafHash(p)) /\ up[L].sn = 0
  BY DEF Leads
<1>2. PICK m : m = Len(s)
  OBVIOUS
<1>3. m \in Nat /\ 1 <= m /\ m <= n /\ m \in Spine(n)
  BY <1>1, <1>2, SpineSizes
<1>4. IsNode(up[0]) /\ up[0].sn = n - 1
  BY <1>1, NodeParts
\* A path that goes on beyond the root leads to the hash of a larger tree.
<1>5. ASSUME NEW J \in 0..L, J < L, IsNode(up[J]), up[J].sn = 0 PROVE FALSE
  <2>1. up[L - 1].sn = 0 /\ up[L] = Node(0, 0, NodeHash(path[L], up[L - 1].r))
    BY <1>1, <1>5, LongClimb
  <2>2. MerkleTreeHash[s] = NodeHash(path[L], up[L - 1].r)
    BY <2>1, NodeParts
  <2>3. m > 1 /\ MerkleTreeHash[Right(s)] = up[L - 1].r
    BY <1>2, <1>3, <2>2, HashShape
  <2>4. PICK k : k = LargestPowerOfTwo(m)
    OBVIOUS
  <2>5. Right(s) \in Trees /\ Len(Right(s)) = m - k /\ k \in Nat /\ k >= 1
    BY <1>2, <2>3, <2>4, Halves
  <2>6. m - k \in Spine(n)
    BY <1>1, <1>3, <2>3, <2>4, SpineSizes
  <2>7. PICK l : l = L - 1
    OBVIOUS
  <2>8. l \in Nat /\ l < L
    BY <1>5, <2>7
  <2>9. Leads(up, path, l, n, i, LeafHash(p))
    BY <1>1, <2>1, <2>7, <2>8 DEF Leads, Climbs
  <2>10. m - k = n
    BY <2>3, <2>5, <2>6, <2>7, <2>8, <2>9 DEF SoundFor
  <2> QED BY <1>1, <1>3, <2>5, <2>10
<1>6. CASE n = 1
  <2>1. L = 0
    <3> SUFFICES ASSUME L # 0 PROVE FALSE
      OBVIOUS
    <3>1. 0 \in 0..L /\ 0 < L /\ up[0].sn = 0
      BY <1>4, <1>6
    <3> QED BY <1>4, <1>5, <3>1
  <2>2. MerkleTreeHash[s] = LeafHash(p)
    BY <1>1, <2>1, NodeParts
  <2>3. i + 1 = 1 /\ m = 1 /\ m >= 1
    BY <1>1, <1>3, <1>6
  <2>4. s[1] = LeafHash(p)
    BY <1>2, <2>2, <2>3, HashShape
  <2> QED BY <1>2, <1>6, <2>3, <2>4
<1>7. CASE n > 1
  <2>1. L # 0
    BY <1>1, <1>4, <1>7
  <2>2. PICK k : k = LargestPowerOfTwo(n)
    OBVIOUS
  <2>3. k \in Powers /\ k \in Nat /\ 1 <= k /\ k < n /\ n <= 2 * k
    BY <1>1, <1>7, <2>2, LargestPower, PowerCases
  <2>4. PICK d, o, h : /\ d = IF i < k THEN "left" ELSE "right"
                       /\ o = IF i < k THEN i ELSE i - k
                       /\ h = IF i < k THEN k ELSE n - k
    OBVIOUS
  <2>5. h \in Nat /\ h >= 1 /\ o \in 0..h - 1
    BY <1>1, <2>3, <2>4
  <2>6. Below(d, up[0], Node(o, h - 1, LeafHash(p)))
    BY <1>1, <1>7, <2>2, <2>3, <2>4, BelowStart
  <2>7. PICK sub : sub[0] = Node(o, h - 1, LeafHash(p)) /\ Climbs(sub, path, L)
    <3>1. /\ Climbed(Node(o, h - 1, LeafHash(p)), path)[0] = Node(o, h - 1, LeafHash(p))
          /\ Climbs(Climbed(Node(o, h - 1, LeafHash(p)), path), path, Len(path))
      BY <1>1, ClimbedIs
    <3>2. Climbs(Climbed(Node(o, h - 1, LeafHash(p)), path), path, L)
      BY <1>1, <3>1 DEF Climbs
    <3> QED BY <3>1, <3>2
  <2>8. PICK l : l = L - 1
    OBVIOUS
  <2>9. l \in Nat /\ l < L /\ l + 1 = L /\ L \in 1..L
    BY <2>1, <2>8
  <2>10. Climbs(up, path, l) /\ Climbs(sub, path, l)
    BY <1>1, <2>7, <2>9 DEF Climbs
  \* The root is reached up the end only.
  <2>11. ASSUME NEW j \in 0..l, IsNode(up[j]) PROVE up[j].sn # 0
    BY <1>5, <2>9, <2>11
  <2>12. \A j \in 0..l : Below(d, up[j], sub[j])
    <3>1. \A j \in 0..l - 1 : j + 1 \in 0..l
      BY <2>9
    <3>2. \A j \in 0..l - 1 : ~(IsNode(up[j + 1]) /\ up[j + 1].sn = 0)
      BY <2>11, <3>1
    <3> QED BY <2>6, <2>7, <2>9, <2>10, <3>2, BelowAlong
  <2>13. up[L] = Climb(up[l], path[L]) /\ Below(d, up[l], sub[l])
    BY <1>1, <2>8, <2>9, <2>12 DEF Climbs
  <2>14. sub[l].sn = 0
    <3> SUFFICES ASSUME sub[l].sn # 0 PROVE FALSE
      OBVIOUS
    <3>1. Below(d, up[L], Climb(sub[l], path[L]))
      BY <2>13, BelowSteps
    <3> QED BY <1>1, <3>1, BelowSteps
  <2>15. MerkleTreeHash[s] = Above(d, sub[l].r, path[L])
    BY <2>13, <2>14, BelowSteps, NodeParts
  <2>16. Leads(sub, path, l, h, o, LeafHash(p))
    BY <1>1, <2>5, <2>7, <2>9, <2>10, <2>14 DEF Leads
  <2>17. m > 1 /\ (d = "left" => MerkleTreeHash[Left(s)] = sub[l].r)
               /\ (d = "right" => MerkleTreeHash[Right(s)] = sub[l].r)
    BY <1>2, <1>3, <2>4, <2>15, HashShape DEF Above
  <2>18. PICK c : c = LargestPowerOfTwo(m)
    OBVIOUS
  <2>19. /\ c \in Powers /\ c \in Nat /\ 1 <= c /\ c < m /\ m <= 2 * c
         /\ Left(s) \in Trees /\ Len(Left(s)) = c
         /\ Right(s) \in Trees /\ Len(Right(s)) = m - c
         /\ \A j \in 1..c : Left(s)[j] = s[j]
         /\ \A j \in 1..m - c : Right(s)[j] = s[c + j]
    BY <1>2, <2>17, <2>18, Halves
  <2>20. m = n \/ m \in Spine(n - k)
    BY <1>1, <1>3, <1>7, <2>2, SpineStep
  <2>21. m # n => m <= n - k
    <3>1. n - k \in Nat /\ n - k >= 1
      BY <1>1, <2>3
    <3> QED BY <2>20, <3>1, SpineSizes
  <2>22. CASE i < k
    <3>1. c <= k
      <4>1. ~(k < c)
        <5> SUFFICES ASSUME k < c PROVE FALSE
          OBVIOUS
        <5>1. 2 * k <= c
          BY <2>3, <2>19, PowerGap
        <5> QED BY <1>1, <1>3, <2>3, <2>19, <5>1
      <4> QED BY <2>3, <2>19, <4>1
    <3>2. c \in Spine(h)
      BY <2>3, <2>4, <2>19, <2>22, <3>1, SpineOfPower
    <3>3. c = h /\ Left(s)[o + 1] = LeafHash(p)
      BY <2>4, <2>9, <2>16, <2>17, <2>19, <2>22, <3>2 DEF SoundFor
    <3>4. c = k /\ o = i /\ i + 1 \in 1..c
      BY <1>1, <2>3, <2>4, <2>22, <3>3
    <3>5. m = n
      BY <1>1, <1>3, <2>3, <2>19, <2>21, <3>4
    <3> QED BY <1>2, <2>19, <3>3, <3>4, <3>5
  <2>23. CASE ~(i < k)
    <3>1. h = n - k /\ o = i - k /\ d = "right"
      BY <2>4, <2>23
    <3>2. m - c \in Spine(h)
      <4>1. CASE m = n
        <5>1. c = k /\ n - k \in Nat /\ n - k >= 1
          BY <1>1, <2>2, <2>3, <2>18, <4>1
        <5> QED BY <3>1, <4>1, <5>1, SpineSizes
      <4>2. CASE m \in Spine(n - k)
        BY <2>5, <2>17, <2>18, <3>1, <4>2, SpineSizes
      <4> QED BY <2>20, <4>1, <4>2
    <3>3. m - c = h /\ Right(s)[o + 1] = LeafHash(p)
      BY <2>9, <2>16, <2>17, <2>19, <3>1, <3>2 DEF SoundFor
    <3>4. m = n
      BY <1>1, <1>3, <2>3, <2>19, <2>21, <3>1, <3>3
    <3>5. c = k
      BY <2>2, <2>18, <3>4
    <3>6. o + 1 \in 1..m - c /\ c + (o + 1) = i + 1
      BY <1>1, <1>3, <2>3, <2>5, <2>23, <3>1, <3>3, <3>5
    <3>7. Right(s)[o + 1] = s[c + (o + 1)]
      BY <2>19, <3>6
    <3> QED BY <1>2, <3>3, <3>4, <3>6, <3>7
  <2> QED BY <2>22, <2>23
<1>8. n = 1 \/ n > 1
  BY <1>1
<1> QED BY <1>6, <1>7, <1>8

\* A path to the root of a tree shows its leaf at its place, whatever the path.
LEMMA PathIsSound ==
  ASSUME NEW L \in Nat
  PROVE  SoundFor(L)
<1> DEFINE S == {l \in Nat : SoundFor(l)}
<1>1. ASSUME NEW l \in Nat, \A j \in Nat : j < l => j \in S
      PROVE  l \in S
  BY <1>1, SoundStep
<1>2. L \in S
  <2> HIDE DEF S
  <2> QED BY <1>1, EveryNumber
<1> QED BY <1>2

-----------------------------------------------------------------------------
(* The path that the log gives leads to the root.                          *)

LEMMA PathType ==
  ASSUME NEW s \in Trees, NEW m \in 0..Len(s) - 1
  PROVE  InclusionPath[s][m] \in Seq(TreeHashes)
<1> DEFINE S == {n \in Nat : \A t \in Trees : Len(t) = n =>
                    \A k \in 0..n - 1 : InclusionPath[t][k] \in Seq(TreeHashes)}
<1>1. ASSUME NEW n \in Nat, \A j \in Nat : j < n => j \in S
      PROVE  n \in S
  <2> SUFFICES ASSUME NEW t \in Trees, Len(t) = n, NEW k \in 0..n - 1
               PROVE  InclusionPath[t][k] \in Seq(TreeHashes)
    OBVIOUS
  <2>1. InclusionPath[t][k] = PathFrom(InclusionPath, t, k)
    BY InclusionPathIs
  <2>2. CASE n = 1
    <3>1. <<>> \in Seq(TreeHashes)
      OBVIOUS
    <3> QED BY <2>1, <2>2, <3>1 DEF PathFrom
  <2>3. CASE n # 1
    <3>1. n > 1
      BY <2>3
    <3>2. PICK l : l = LargestPowerOfTwo(n)
      OBVIOUS
    <3>3. /\ l \in Nat /\ 1 <= l /\ l < n
          /\ Left(t) \in Trees /\ Len(Left(t)) = l /\ Right(t) \in Trees /\ Len(Right(t)) = n - l
      BY <3>1, <3>2, Halves
    <3>4. l \in S /\ n - l \in S
      BY <1>1, <3>3
    <3>5. MerkleTreeHash[Left(t)] \in TreeHashes /\ MerkleTreeHash[Right(t)] \in TreeHashes
      BY <3>3 DEF TreeHashes
    <3>6. CASE k < l
      <4>1. k \in 0..l - 1
        BY <3>3, <3>6
      <4>2. InclusionPath[Left(t)][k] \in Seq(TreeHashes)
        BY <3>3, <3>4, <4>1
      <4>3. Append(InclusionPath[Left(t)][k], MerkleTreeHash[Right(t)]) \in Seq(TreeHashes)
        BY <3>5, <4>2
      <4> QED BY <2>1, <2>3, <3>2, <3>6, <4>3 DEF PathFrom
    <3>7. CASE ~(k < l)
      <4>1. k - l \in 0..(n - l) - 1
        BY <3>3, <3>7
      <4>2. InclusionPath[Right(t)][k - l] \in Seq(TreeHashes)
        BY <3>3, <3>4, <4>1
      <4>3. Append(InclusionPath[Right(t)][k - l], MerkleTreeHash[Left(t)]) \in Seq(TreeHashes)
        BY <3>5, <4>2
      <4> QED BY <2>1, <2>3, <3>2, <3>7, <4>3 DEF PathFrom
    <3> QED BY <3>6, <3>7
  <2> QED BY <2>2, <2>3
<1>2. Len(s) \in S
  <2>1. Len(s) \in Nat
    BY TreeLength
  <2> HIDE DEF S
  <2> QED BY <1>1, <2>1, EveryNumber
<1> QED BY <1>2

\* at leads along the path to the root of tree s, and to no root before.
Reaches(up, path, s) ==
  /\ up[Len(path)].sn = 0 /\ up[Len(path)].r = MerkleTreeHash[s]
  /\ \A j \in 0..Len(path) - 1 : up[j].sn # 0
CompleteFor(n) ==
  \A up : \A s \in Trees : \A i \in 0..n - 1 :
    /\ Len(s) = n
    /\ up[0] = Node(i, n - 1, s[i + 1])
    /\ Climbs(up, InclusionPath[s][i], Len(InclusionPath[s][i]))
    => Reaches(up, InclusionPath[s][i], s)

LEMMA CompleteStep ==
  ASSUME NEW n \in Nat, \A m \in Nat : m < n => CompleteFor(m)
  PROVE  CompleteFor(n)
<1> SUFFICES ASSUME NEW up, NEW s \in Trees, NEW i \in 0..n - 1, Len(s) = n,
                    up[0] = Node(i, n - 1, s[i + 1]),
                    Climbs(up, InclusionPath[s][i], Len(InclusionPath[s][i]))
             PROVE  Reaches(up, InclusionPath[s][i], s)
  BY DEF CompleteFor
<1>1. PICK path : path = InclusionPath[s][i]
  OBVIOUS
<1>2. path = PathFrom(InclusionPath, s, i)
  BY <1>1, InclusionPathIs
<1>3. n >= 1
  OBVIOUS
<1>4. CASE n = 1
  <2>1. path = <<>> /\ Len(path) = 0
    BY <1>2, <1>4 DEF PathFrom
  <2>2. MerkleTreeHash[s] = s[1]
    BY <1>4, HashShape
  <2>3. up[0].sn = 0 /\ up[0].r = s[1]
    BY <1>4, NodeParts
  <2> QED BY <1>1, <2>1, <2>2, <2>3 DEF Reaches
<1>5. CASE n > 1
  <2>1. PICK k : k = LargestPowerOfTwo(n)
    OBVIOUS
  <2>2. /\ k \in Nat /\ 1 <= k /\ k < n
        /\ Left(s) \in Trees /\ Len(Left(s)) = k /\ Right(s) \in Trees /\ Len(Right(s)) = n - k
        /\ \A j \in 1..k : Left(s)[j] = s[j]
        /\ \A j \in 1..n - k : Right(s)[j] = s[k + j]
    BY <1>5, <2>1, Halves
  <2>3. PICK d, o, h, t, x : /\ d = IF i < k THEN "left" ELSE "right"
                             /\ o = IF i < k THEN i ELSE i - k
                             /\ h = IF i < k THEN k ELSE n - k
                             /\ t = IF i < k THEN Left(s) ELSE Right(s)
                             /\ x = IF i < k THEN MerkleTreeHash[Right(s)] ELSE MerkleTreeHash[Left(s)]
    OBVIOUS
  <2>4. h \in Nat /\ h < n /\ o \in 0..h - 1 /\ t \in Trees /\ Len(t) = h
    BY <2>2, <2>3
  <2>5. t[o + 1] = s[i + 1]
    <3>1. CASE i < k
      BY <2>2, <2>3, <3>1
    <3>2. CASE ~(i < k)
      <4>1. o + 1 \in 1..n - k /\ k + (o + 1) = i + 1
        BY <2>2, <2>3, <3>2
      <4>2. Right(s)[o + 1] = s[k + (o + 1)]
        BY <2>2, <4>1
      <4> QED BY <2>3, <3>2, <4>1, <4>2
    <3> QED BY <3>1, <3>2
  <2>6. PICK q : q = InclusionPath[t][o]
    OBVIOUS
  <2>7. q \in Seq(TreeHashes)
    BY <2>4, <2>6, PathType
  <2>8. path = Append(q, x)
    <3>1. n # 1
      BY <1>5
    <3>2. CASE i < k
      <4>1. q = InclusionPath[Left(s)][i] /\ x = MerkleTreeHash[Right(s)]
        BY <2>3, <2>6, <3>2
      <4> QED BY <1>2, <2>1, <3>1, <3>2, <4>1 DEF PathFrom
    <3>3. CASE ~(i < k)
      <4>1. q = InclusionPath[Right(s)][i - k] /\ x = MerkleTreeHash[Left(s)]
        BY <2>3, <2>6, <3>3
      <4> QED BY <1>2, <2>1, <3>1, <3>3, <4>1 DEF PathFrom
    <3> QED BY <3>2, <3>3
  <2>9. x \in TreeHashes
    BY <2>2, <2>3 DEF TreeHashes
  <2>10. PICK l : l = Len(q)
    OBVIOUS
  <2>11. /\ l \in Nat /\ Len(path) = l + 1 /\ path[l + 1] = x
         /\ \A j \in 1..l : path[j] = q[j]
    BY <2>7, <2>8, <2>9, <2>10
  <2>12. PICK sub : sub[0] = Node(o, h - 1, t[o + 1]) /\ Climbs(sub, q, l)
    BY <2>10, <2>11, ClimbedIs
  <2>13. Reaches(sub, q, t)
    BY <2>4, <2>6, <2>10, <2>12 DEF CompleteFor
  <2>14. Climbs(up, path, l + 1)
    BY <1>1, <2>11
  <2>15. Climbs(up, q, l) /\ up[l + 1] = Climb(up[l], x)
    <3>1. \A j \in 1..l : j \in 1..l + 1
      BY <2>11
    <3>2. l + 1 \in 1..l + 1 /\ (l + 1) - 1 = l
      BY <2>11
    <3> QED BY <2>11, <2>14, <3>1, <3>2 DEF Climbs
  <2>16. Below(d, up[0], sub[0])
    <3>1. k \in Nat /\ (i < k \/ i >= k)
      BY <2>2
    <3>2. up[0] = Node(i, n - 1, s[i + 1]) /\ sub[0] = Node(o, h - 1, s[i + 1])
      BY <2>5, <2>12
    <3> QED BY <1>5, <2>1, <2>3, <3>1, <3>2, BelowStart
  <2>17. sub[l].sn = 0 /\ sub[l].r = MerkleTreeHash[t] /\ \A j \in 0..l - 1 : sub[j].sn # 0
    BY <2>10, <2>13 DEF Reaches
  <2>18. \A j \in 0..l : Below(d, up[j], sub[j])
    BY <2>11, <2>12, <2>15, <2>16, <2>17, BelowAlong
  <2>19. \A j \in 0..l : up[j].sn # 0
    BY <2>18, BelowSteps
  <2>20. up[l + 1] = Node(0, 0, Above(d, MerkleTreeHash[t], x))
    <3>1. Below(d, up[l], sub[l])
      BY <2>11, <2>18
    <3> QED BY <2>15, <2>17, <3>1, BelowSteps
  <2>21. Above(d, MerkleTreeHash[t], x) = MerkleTreeHash[s]
    BY <1>5, <2>3, HashShape DEF Above
  <2>22. up[l + 1].sn = 0 /\ up[l + 1].r = MerkleTreeHash[s]
    BY <2>20, <2>21, NodeParts
  <2>23. 0..(l + 1) - 1 = 0..l
    BY <2>11
  <2> QED BY <1>1, <2>11, <2>19, <2>22, <2>23 DEF Reaches
<1> QED BY <1>3, <1>4, <1>5

LEMMA PathIsComplete ==
  ASSUME NEW n \in Nat
  PROVE  CompleteFor(n)
<1> DEFINE S == {m \in Nat : CompleteFor(m)}
<1>1. ASSUME NEW m \in Nat, \A j \in Nat : j < m => j \in S
      PROVE  m \in S
  BY <1>1, CompleteStep
<1>2. n \in S
  <2> HIDE DEF S
  <2> QED BY <1>1, EveryNumber
<1> QED BY <1>2

\* Whatever path is offered with an index and the root of a tree, the leaf that it
\* proves is the tree's leaf at that place: rootFromInclusion accepts no other.
THEOREM InclusionProofsSound ==
  ASSUME NEW s \in Trees, NEW p \in Payloads, NEW i, NEW path, Len(path) \in Nat,
         MerkleTreeHash[s] \in RootFromInclusion(i, Len(s), LeafHash(p), path)
  PROVE  i \in 0..Len(s) - 1 /\ s[i + 1] = LeafHash(p)
<1> DEFINE start == [fn |-> i, sn |-> Len(s) - 1, r |-> LeafHash(p)]
<1>1. PICK up : up = Climbed(start, path)
  OBVIOUS
<1>2. /\ i \in 0..Len(s) - 1
      /\ up[Len(path)].sn = 0 /\ up[Len(path)].r = MerkleTreeHash[s]
  BY <1>1 DEF RootFromInclusion
<1>3. up[0] = start /\ Climbs(up, path, Len(path))
  BY <1>1, ClimbedIs
<1>4. start = Node(i, Len(s) - 1, LeafHash(p))
  BY DEF Node
<1> HIDE DEF start
<1>5. Len(s) \in Nat
  BY TreeLength
<1>6. Len(s) >= 1
  <2>1. PICK n : n = Len(s)
    OBVIOUS
  <2>2. n \in Nat /\ i \in 0..n - 1
    BY <1>2, <1>5, <2>1
  <2>3. n >= 1
    BY <2>2
  <2> QED BY <2>1, <2>3
<1>7. Leads(up, path, Len(path), Len(s), i, LeafHash(p))
  BY <1>2, <1>3, <1>4, <1>5 DEF Leads
<1>8. Len(s) \in Spine(Len(s))
  BY <1>5, <1>6, SpineSizes
<1>9. SoundFor(Len(path))
  BY PathIsSound
<1> QED BY <1>2, <1>7, <1>8, <1>9 DEF SoundFor

\* The path that the log gives for a leaf leads to the root: inclusionPath and
\* rootFromInclusion agree for trees of every size.
THEOREM InclusionPathsLeadToRoot ==
  ASSUME NEW s \in Trees, NEW i \in 0..Len(s) - 1
  PROVE  MerkleTreeHash[s] \in RootFromInclusion(i, Len(s), s[i + 1], InclusionPath[s][i])
<1>1. PICK path : path = InclusionPath[s][i]
  OBVIOUS
<1>2. Len(path) \in Nat
  BY <1>1, PathType
<1>3. PICK start : start = [fn |-> i, sn |-> Len(s) - 1, r |-> s[i + 1]]
  OBVIOUS
<1>4. PICK up : up = Climbed(start, path)
  OBVIOUS
<1>5. up[0] = start /\ Climbs(up, path, Len(path))
  BY <1>2, <1>4, ClimbedIs
<1>6. start = Node(i, Len(s) - 1, s[i + 1])
  BY <1>3 DEF Node
<1>7. PICK n : n = Len(s)
  OBVIOUS
<1>8. n \in Nat /\ CompleteFor(n)
  BY <1>7, TreeLength, PathIsComplete
<1>9. Reaches(up, path, s)
  BY <1>1, <1>5, <1>6, <1>7, <1>8 DEF CompleteFor
<1> QED BY <1>1, <1>3, <1>4, <1>9 DEF RootFromInclusion, Reaches

-----------------------------------------------------------------------------
(* What the authorities let through.                                       *)

SignedHead(l, s, t) == [log_id |-> l, tree_size |-> Len(s), root |-> MerkleTreeHash[s], time |-> t]
LogProof(l, s, t, i, path) ==
  [type |-> "transparency_log", log_id |-> l, leaf_index |-> i, path |-> path,
   sth |-> SignedHead(l, s, t), signature |-> SignedBy(l, SignedHead(l, s, t))]
OfLastLeaf(l, s, t) == LogProof(l, s, t, Len(s) - 1, InclusionPath[s][Len(s) - 1])
RealRecord(p, token) == [head |-> p, token |-> token, real |-> TRUE]
FakeRecord(p, token) == [head |-> p, token |-> token, real |-> FALSE]

IsOfLog(k, p, l, s, t) ==
  /\ p \in Payloads /\ l \in Logs /\ s \in Trees /\ Len(s) >= 1
  /\ s[Len(s)] = LeafHash(p)
  /\ k = RealRecord(p, Token(p, OfLastLeaf(l, s, t), t))
OfLog(k) == \E p, l, s, t : IsOfLog(k, p, l, s, t) /\ [log |-> l, hashes |-> s] \in signedTrees
OfTsa(k) == \E p \in Payloads, a \in Tsas : \E t : k = RealRecord(p, TsaToken(a, p, t))
OfFake(k) == \E p, c, t, type : type \in Types /\ k = FakeRecord(p, Token(p, FakeProof(type, c), t))

\* A tree that was signed was signed for a token that was let through.
Answered(t) ==
  \E k \in InLog :
    /\ t.hashes[Len(t.hashes)] = LeafHash(k.head)
    /\ k.token.proof.log_id = t.log
    /\ k.token.proof.sth.root = MerkleTreeHash[t.hashes]

ProvidersIInv ==
  /\ leaves \in [Logs -> Trees]
  /\ \A k \in kept : OfLog(k) \/ OfTsa(k) \/ OfFake(k)
  /\ \A t \in signedTrees : Answered(t)

\* A proof of a log is one of what the tree's root is reached from.
LEMMA LogProofVerifies ==
  ASSUME NEW l, NEW s, NEW t, NEW i, NEW path, NEW p
  PROVE  /\ VerifyTransparencyLogToken(LogProof(l, s, t, i, path), p, l) <=>
              MerkleTreeHash[s] \in RootFromInclusion(i, Len(s), LeafHash(p), path)
         /\ VerifyAnchorToken(LogProof(l, s, t, i, path), p) <=>
              l \in Logs /\ MerkleTreeHash[s] \in RootFromInclusion(i, Len(s), LeafHash(p), path)
<1>1. PICK proof : proof = LogProof(l, s, t, i, path)
  OBVIOUS
<1>2. /\ "signature" \in DOMAIN proof /\ proof.type = "transparency_log"
      /\ proof.log_id = l /\ proof.leaf_index = i /\ proof.path = path
      /\ proof.sth = SignedHead(l, s, t) /\ proof.signature = SignedBy(l, SignedHead(l, s, t))
  BY <1>1 DEF LogProof
<1>3. /\ SignedHead(l, s, t).log_id = l /\ SignedHead(l, s, t).tree_size = Len(s)
      /\ SignedHead(l, s, t).root = MerkleTreeHash[s]
  BY DEF SignedHead
<1>4. VerifyTransparencyLogToken(proof, p, l) <=>
        MerkleTreeHash[s] \in RootFromInclusion(i, Len(s), LeafHash(p), path)
  BY <1>2, <1>3 DEF VerifyTransparencyLogToken, Decodes
<1>5. VerifyAnchorToken(proof, p) <=> l \in Logs /\ VerifyTransparencyLogToken(proof, p, l)
  BY <1>2 DEF VerifyAnchorToken
<1> QED BY <1>1, <1>4, <1>5

\* The token that a log gives is a proof of its head, and of no other.
LEMMA LastLeafVerifies ==
  ASSUME NEW l, NEW s \in Trees, Len(s) >= 1, NEW t, NEW p \in Payloads, s[Len(s)] = LeafHash(p)
  PROVE  /\ VerifyTransparencyLogToken(OfLastLeaf(l, s, t), p, l)
         /\ \A q \in Payloads : VerifyAnchorToken(OfLastLeaf(l, s, t), q) <=> l \in Logs /\ q = p
<1>1. PICK i, path : i = Len(s) - 1 /\ path = InclusionPath[s][i]
  OBVIOUS
<1>2. PICK n : n = Len(s)
  OBVIOUS
<1>3. n \in Nat /\ n >= 1
  BY <1>2, TreeLength
<1>4. i \in 0..n - 1 /\ i + 1 = n
  BY <1>1, <1>2, <1>3
<1>5. i \in 0..Len(s) - 1 /\ s[i + 1] = LeafHash(p)
  BY <1>2, <1>4
<1>6. MerkleTreeHash[s] \in RootFromInclusion(i, Len(s), LeafHash(p), path)
  BY <1>1, <1>5, InclusionPathsLeadToRoot
<1>7. ASSUME NEW q \in Payloads, MerkleTreeHash[s] \in RootFromInclusion(i, Len(s), LeafHash(q), path)
      PROVE  q = p
  <2>1. Len(path) \in Nat
    BY <1>1, <1>5, PathType
  <2>2. s[i + 1] = LeafHash(q)
    BY <1>7, <2>1, InclusionProofsSound
  <2>3. LeafHash(q)[2] = q /\ LeafHash(p)[2] = p
    BY DEF LeafHash
  <2> QED BY <1>5, <2>2, <2>3
<1>8. OfLastLeaf(l, s, t) = LogProof(l, s, t, i, path)
  BY <1>1 DEF OfLastLeaf
<1> QED BY <1>6, <1>7, <1>8, LogProofVerifies

LEMMA TokenParts ==
  ASSUME NEW p, NEW proof, NEW t, NEW real
  PROVE  /\ Token(p, proof, t).payload_hash = p /\ Token(p, proof, t).proof = proof
         /\ Token(p, proof, t).anchored_at = t
BY DEF Token

LEMMA RealParts ==
  ASSUME NEW k, NEW p, NEW token, k = RealRecord(p, token)
  PROVE  k.head = p /\ k.token = token /\ k.real
BY DEF RealRecord

LEMMA FakeParts ==
  ASSUME NEW k, NEW p, NEW token, k = FakeRecord(p, token)
  PROVE  k.head = p /\ k.token = token /\ ~k.real
BY DEF FakeRecord

LEMMA LastLeafParts ==
  ASSUME NEW l, NEW s, NEW t
  PROVE  /\ OfLastLeaf(l, s, t).type = "transparency_log" /\ OfLastLeaf(l, s, t).log_id = l
         /\ OfLastLeaf(l, s, t).sth.root = MerkleTreeHash[s] /\ OfLastLeaf(l, s, t).sth.tree_size = Len(s)
         /\ OfLastLeaf(l, s, t).sth.time = t
         /\ OfLastLeaf(l, s, t).path = InclusionPath[s][Len(s) - 1]
BY DEF OfLastLeaf, LogProof, SignedHead

LEMMA ProofReplaced ==
  ASSUME NEW l, NEW s, NEW t, NEW i, NEW path
  PROVE  [OfLastLeaf(l, s, t) EXCEPT !.path = path, !.leaf_index = i] = LogProof(l, s, t, i, path)
<1>1. PICK j, q, h, g : /\ j = Len(s) - 1 /\ q = InclusionPath[s][Len(s) - 1]
                        /\ h = SignedHead(l, s, t) /\ g = SignedBy(l, h)
  OBVIOUS
<1>2. OfLastLeaf(l, s, t) = [type |-> "transparency_log", log_id |-> l, leaf_index |-> j, path |-> q,
                             sth |-> h, signature |-> g]
  BY <1>1 DEF OfLastLeaf, LogProof
<1>3. LogProof(l, s, t, i, path) = [type |-> "transparency_log", log_id |-> l, leaf_index |-> i,
                                    path |-> path, sth |-> h, signature |-> g]
  BY <1>1 DEF LogProof
<1>4. PICK b : b = OfLastLeaf(l, s, t)
  OBVIOUS
<1>5. PICK c : c = [b EXCEPT !.path = path]
  OBVIOUS
<1>6. c = [type |-> "transparency_log", log_id |-> l, leaf_index |-> j, path |-> path,
           sth |-> h, signature |-> g]
  BY <1>2, <1>4, <1>5
<1>7. [b EXCEPT !.path = path, !.leaf_index = i] = [c EXCEPT !.leaf_index = i]
  BY ONLY <1>5
<1>8. [c EXCEPT !.leaf_index = i] = LogProof(l, s, t, i, path)
  BY ONLY <1>3, <1>6
<1> QED BY <1>4, <1>7, <1>8

\* A time-stamp is a proof of what it was given, and the stand-in's tokens of nothing.
LEMMA TsaVerifiable ==
  ASSUME NEW a \in Tsas, NEW p, NEW t, NEW q
  PROVE  VerifyAnchorToken(TsaToken(a, p, t).proof, q) <=> q = p
<1>1. PICK tst : tst = [imprint |-> p, gen_time |-> t, tsa_cert_ref |-> a]
  OBVIOUS
<1>2. PICK proof : proof = [type |-> "rfc3161", tsa_cert_ref |-> a, tst |-> tst, signature |-> SignedBy(a, tst)]
  OBVIOUS
<1>3. TsaToken(a, p, t).proof = proof
  BY <1>1, <1>2 DEF TsaToken, Token
<1>4. /\ proof.type = "rfc3161" /\ proof.tsa_cert_ref = a /\ proof.tst = tst
      /\ proof.signature = SignedBy(a, tst) /\ "signature" \in DOMAIN proof
      /\ tst.imprint = p /\ tst.tsa_cert_ref = a
  BY <1>1, <1>2
<1>5. VerifyAnchorToken(proof, q) <=> VerifyRfc3161Token(proof, q, a)
  BY <1>4 DEF VerifyAnchorToken
<1>6. VerifyRfc3161Token(proof, q, a) <=> q = p
  BY <1>4 DEF VerifyRfc3161Token, Decodes
<1> QED BY <1>3, <1>5, <1>6

LEMMA FakeIsNoProof ==
  ASSUME NEW type \in Types, NEW c, NEW q
  PROVE  ~VerifyAnchorToken(FakeProof(type, c), q)
<1>1. PICK proof : proof = FakeProof(type, c)
  OBVIOUS
<1>2. proof.type = type /\ "signature" \notin DOMAIN proof
  BY <1>1 DEF FakeProof
<1>3. ~Decodes(proof)
  BY <1>2 DEF Decodes
<1>4. \A l : ~VerifyTransparencyLogToken(proof, q, l) /\ ~VerifyRfc3161Token(proof, q, l)
  BY <1>3 DEF VerifyTransparencyLogToken, VerifyRfc3161Token
<1>5. type = "rfc3161" \/ type = "transparency_log" \/ type = "dual_custodian"
  BY DEF Types
<1> QED BY <1>1, <1>2, <1>4, <1>5 DEF VerifyAnchorToken

-----------------------------------------------------------------------------
(* The invariant.                                                          *)

\* What has been let through stays.
LEMMA KeptStays ==
  ASSUME kept \subseteq kept', signedTrees \subseteq signedTrees'
  PROVE  /\ \A k : OfLog(k) => OfLog(k)'
         /\ \A t : Answered(t) => Answered(t)'
BY DEF OfLog, Answered, InLog

LEMMA LogTokenIs ==
  ASSUME ProvidersIInv, NEW l \in Logs, NEW p \in Payloads, NEW t, NEW s, s = Append(leaves[l], LeafHash(p))
  PROVE  /\ s \in Trees /\ Len(s) >= 1 /\ s[Len(s)] = LeafHash(p)
         /\ LogToken(l, p, t) = Token(p, OfLastLeaf(l, s, t), t)
<1> DEFINE H == {LeafHash(q) : q \in Payloads}
<1>1. PICK old : old = leaves[l]
  OBVIOUS
<1>2. old \in Seq(H) /\ LeafHash(p) \in H
  BY <1>1 DEF ProvidersIInv, Trees
<1> HIDE DEF H
<1>3. PICK n : n = Len(old)
  OBVIOUS
<1>4. /\ s \in Seq(H) /\ Len(s) = n + 1 /\ s[n + 1] = LeafHash(p) /\ n \in Nat
  BY <1>1, <1>2, <1>3
<1>5. s \in Trees
  BY <1>4 DEF Trees, H
<1>6. n = Len(s) - 1 /\ Len(s) >= 1 /\ s[Len(s)] = LeafHash(p)
  BY <1>4
<1>7. LogToken(l, p, t) = Token(p, OfLastLeaf(l, s, t), t)
  <2>1. Len(leaves[l]) = Len(s) - 1
    BY <1>1, <1>3, <1>6
  <2> QED BY <2>1 DEF LogToken, OfLastLeaf, LogProof, SignedHead
<1> QED BY <1>5, <1>6, <1>7

LEMMA KeptBy ==
  ASSUME NEW p, NEW token, NEW verified
  PROVE  /\ Keep(p, token, verified, TRUE) =>
              /\ kept \subseteq kept'
              /\ \A k \in kept' : k \in kept \/ k = RealRecord(p, token)
              /\ token.payload_hash = p /\ verified => RealRecord(p, token) \in kept'
         /\ Keep(p, token, verified, FALSE) =>
              /\ kept \subseteq kept'
              /\ \A k \in kept' : k \in kept \/ (token.payload_hash = p /\ k = FakeRecord(p, token))
BY DEF Keep, RealRecord, FakeRecord

LEMMA AnchorInLogKeeps ==
  ASSUME ProvidersIInv, NEW l \in Logs, NEW p \in Payloads, NEW t \in Times, AnchorInLog(l, p, t)
  PROVE  ProvidersIInv'
<1>1. PICK s : s = Append(leaves[l], LeafHash(p))
  OBVIOUS
<1>2. PICK token : token = LogToken(l, p, t)
  OBVIOUS
<1>3. /\ s \in Trees /\ Len(s) >= 1 /\ s[Len(s)] = LeafHash(p)
      /\ token = Token(p, OfLastLeaf(l, s, t), t)
  BY <1>1, <1>2, LogTokenIs
<1>4. /\ Keep(p, token, LogVerifies(l, token, p), TRUE)
      /\ leaves' = [leaves EXCEPT ![l] = s]
      /\ signedTrees' = signedTrees \cup {[log |-> l, hashes |-> leaves'[l]]}
  BY <1>1, <1>2 DEF AnchorInLog
<1>5. leaves' \in [Logs -> Trees] /\ leaves'[l] = s
  BY <1>3, <1>4 DEF ProvidersIInv
<1>6. PICK tree : tree = [log |-> l, hashes |-> s]
  OBVIOUS
<1>7. signedTrees' = signedTrees \cup {tree} /\ tree.log = l /\ tree.hashes = s
  BY <1>4, <1>5, <1>6
<1>8. token.payload_hash = p /\ LogVerifies(l, token, p)
  <2>1. VerifyTransparencyLogToken(OfLastLeaf(l, s, t), p, l)
    BY <1>3, LastLeafVerifies
  <2> QED BY <1>3, <2>1, TokenParts, LastLeafParts DEF LogVerifies
<1>9. PICK r : r = RealRecord(p, token)
  OBVIOUS
<1>10. kept \subseteq kept' /\ r \in kept' /\ \A k \in kept' : k \in kept \/ k = r
  BY <1>4, <1>8, <1>9, KeptBy
<1>11. OfLog(r)'
  <2>1. IsOfLog(r, p, l, s, t)
    BY <1>3, <1>9 DEF IsOfLog
  <2>2. tree \in signedTrees'
    BY <1>7
  <2> QED BY <1>6, <2>1, <2>2 DEF OfLog
<1>12. Answered(tree)'
  <2>1. /\ r.real /\ r.token.proof = OfLastLeaf(l, s, t) /\ r.head = p
    BY <1>3, <1>9, RealParts, TokenParts
  <2> QED BY <1>3, <1>7, <1>10, <2>1, LastLeafParts DEF Answered, InLog
<1>13. \A k \in kept' : (OfLog(k) \/ OfTsa(k) \/ OfFake(k))'
  <2>1. \A k : (OfTsa(k) <=> OfTsa(k)') /\ (OfFake(k) <=> OfFake(k)')
    BY DEF OfTsa, OfFake
  <2>2. \A k : OfLog(k) => OfLog(k)'
    BY <1>7, <1>10, KeptStays
  <2>3. \A k \in kept : OfLog(k) \/ OfTsa(k) \/ OfFake(k)
    BY DEF ProvidersIInv
  <2> QED BY <1>10, <1>11, <2>1, <2>2, <2>3
<1>14. \A u \in signedTrees' : Answered(u)'
  <2>1. \A u : Answered(u) => Answered(u)'
    BY <1>7, <1>10, KeptStays
  <2> QED BY <1>7, <1>12, <2>1 DEF ProvidersIInv
<1> QED BY <1>5, <1>13, <1>14 DEF ProvidersIInv

LEMMA OthersKeep ==
  ASSUME ProvidersIInv, kept \subseteq kept', UNCHANGED signedTrees, leaves' \in [Logs -> Trees],
         \A k \in kept' : k \in kept \/ OfTsa(k) \/ OfFake(k)
  PROVE  ProvidersIInv'
<1>1. \A k : (OfTsa(k) <=> OfTsa(k)') /\ (OfFake(k) <=> OfFake(k)')
  BY DEF OfTsa, OfFake
<1>2. /\ \A k : OfLog(k) => OfLog(k)'
      /\ \A t : Answered(t) => Answered(t)'
  BY KeptStays
<1>3. \A k \in kept : OfLog(k) \/ OfTsa(k) \/ OfFake(k)
  BY DEF ProvidersIInv
<1>4. \A k \in kept' : (OfLog(k) \/ OfTsa(k) \/ OfFake(k))'
  BY <1>1, <1>2, <1>3
<1>5. \A t \in signedTrees' : Answered(t)'
  BY <1>2 DEF ProvidersIInv
<1> QED BY <1>4, <1>5 DEF ProvidersIInv

LEMMA ProvidersStep ==
  ASSUME ProvidersIInv, ProvidersNext
  PROVE  ProvidersIInv'
<1>1. ASSUME NEW l \in Logs, NEW p \in Payloads, NEW t \in Times, AnchorInLog(l, p, t)
      PROVE  ProvidersIInv'
  BY <1>1, AnchorInLogKeeps
<1>2. ASSUME NEW a \in Tsas, NEW p \in Payloads, NEW t \in Times, AnchorAtTsa(a, p, t)
      PROVE  ProvidersIInv'
  <2>1. PICK token, verified : /\ token = TsaToken(a, p, t) /\ Keep(p, token, verified, TRUE)
                               /\ UNCHANGED <<leaves, signedTrees>>
    BY <1>2 DEF AnchorAtTsa
  <2>2. OfTsa(RealRecord(p, token))
    BY <2>1 DEF OfTsa
  <2>3. kept \subseteq kept' /\ \A k \in kept' : k \in kept \/ k = RealRecord(p, token)
    BY <2>1, KeptBy
  <2> QED BY <2>1, <2>2, <2>3, OthersKeep DEF ProvidersIInv
<1>3. ASSUME NEW y \in Types, NEW m \in Modes, NEW p \in Payloads, NEW t \in Times, AnchorAtFake(y, m, p, t)
      PROVE  ProvidersIInv'
  <2>1. PICK token, verified : /\ token = FakeToken(y, m, p, t) /\ Keep(p, token, verified, FALSE)
                               /\ UNCHANGED <<leaves, signedTrees>>
    BY <1>3 DEF AnchorAtFake
  <2>2. PICK q, c : token = Token(q, FakeProof(y, c), t)
    BY <2>1 DEF FakeToken, Modes
  <2>3. token.payload_hash = p => OfFake(FakeRecord(p, token))
    <3>1. token.payload_hash = q
      BY <2>2, TokenParts
    <3> QED BY <2>2, <3>1 DEF OfFake
  <2>4. kept \subseteq kept' /\ \A k \in kept' : k \in kept \/ (token.payload_hash = p /\ k = FakeRecord(p, token))
    BY <2>1, KeptBy
  <2> QED BY <2>1, <2>3, <2>4, OthersKeep DEF ProvidersIInv
<1>4. ASSUME Restart PROVE ProvidersIInv'
  <2>1. /\ kept' = kept /\ UNCHANGED signedTrees
        /\ leaves' = [l \in Logs |-> <<>>]
    BY <1>4 DEF Restart
  <2>2. <<>> \in Trees
    BY DEF Trees
  <2>3. leaves' \in [Logs -> Trees]
    BY <2>1, <2>2
  <2> QED BY <2>1, <2>3, OthersKeep
<1> QED BY <1>1, <1>2, <1>3, <1>4 DEF ProvidersNext

LEMMA ProvidersAlways == ProvidersSpec => []ProvidersIInv
<1>1. ProvidersInit => ProvidersIInv
  <2>1. <<>> \in Trees
    BY DEF Trees
  <2> QED BY <2>1 DEF ProvidersInit, ProvidersIInv
<1>2. ProvidersIInv /\ [ProvidersNext]_pvars => ProvidersIInv'
  <2> SUFFICES ASSUME ProvidersIInv, [ProvidersNext]_pvars PROVE ProvidersIInv'
    OBVIOUS
  <2>1. CASE ProvidersNext
    BY <2>1, ProvidersStep
  <2>2. CASE UNCHANGED pvars
    BY <2>2, OthersKeep DEF pvars, ProvidersIInv
  <2> QED BY <2>1, <2>2
<1> QED BY <1>1, <1>2, PTL DEF ProvidersSpec

LEMMA ProvidersSound ==
  ASSUME ProvidersIInv
  PROVE  ProofsSound
<1>1. ASSUME NEW k \in kept
      PROVE  /\ k.token.payload_hash = k.head /\ Genuine(k)
             /\ k.real /\ k.token.proof.type = "transparency_log" => OfLog(k)
  <2>1. CASE OfLog(k)
    <3>1. PICK p, l, s, t : IsOfLog(k, p, l, s, t)
      BY <2>1 DEF OfLog
    <3>2. /\ p \in Payloads /\ l \in Logs /\ s \in Trees /\ Len(s) >= 1 /\ s[Len(s)] = LeafHash(p)
          /\ k = RealRecord(p, Token(p, OfLastLeaf(l, s, t), t))
      BY <3>1 DEF IsOfLog
    <3>3. /\ k.head = p /\ k.token.payload_hash = p /\ k.real
          /\ k.token.proof = OfLastLeaf(l, s, t)
      BY <3>2, RealParts, TokenParts
    <3>4. \A q \in Payloads : VerifyAnchorToken(OfLastLeaf(l, s, t), q) <=> q = p
      BY <3>2, LastLeafVerifies
    <3> QED BY <2>1, <3>3, <3>4 DEF Genuine
  <2>2. CASE OfTsa(k)
    <3>1. PICK p, a, t : p \in Payloads /\ a \in Tsas /\ k = RealRecord(p, TsaToken(a, p, t))
      BY <2>2 DEF OfTsa
    <3>2. TsaToken(a, p, t).payload_hash = p /\ TsaToken(a, p, t).proof.type = "rfc3161"
      BY DEF TsaToken, Token
    <3>3. k.head = p /\ k.real /\ k.token = TsaToken(a, p, t)
      BY <3>1, RealParts
    <3>4. \A q : VerifyAnchorToken(TsaToken(a, p, t).proof, q) <=> q = p
      BY <3>1, TsaVerifiable
    <3> QED BY <3>2, <3>3, <3>4 DEF Genuine
  <2>3. CASE OfFake(k)
    <3>1. PICK p, c, t, type : type \in Types /\ k = FakeRecord(p, Token(p, FakeProof(type, c), t))
      BY <2>3 DEF OfFake
    <3>2. k.head = p /\ k.token.payload_hash = p /\ ~k.real /\ k.token.proof = FakeProof(type, c)
      BY <3>1, FakeParts, TokenParts
    <3> QED BY <3>1, <3>2, FakeIsNoProof DEF Genuine
  <2> QED BY <2>1, <2>2, <2>3 DEF ProvidersIInv
<1>2. ASSUME NEW a \in {k.token.proof : k \in InLog}, NEW b \in {k.token.proof : k \in InLog},
             NEW i \in 0..MaxRequests, NEW p \in Payloads,
             VerifyAnchorToken([b EXCEPT !.path = a.path, !.leaf_index = i], p)
      PROVE  \E t \in signedTrees :
               /\ t.log = b.log_id
               /\ Len(t.hashes) = b.sth.tree_size /\ MerkleTreeHash[t.hashes] = b.sth.root
               /\ i < Len(t.hashes) /\ t.hashes[i + 1] = LeafHash(p)
  <2>1. PICK j \in InLog, k \in InLog : a = j.token.proof /\ b = k.token.proof
    BY <1>2
  <2>12. OfLog(j) /\ OfLog(k)
    BY <1>1 DEF InLog
  <2>2. Len(a.path) \in Nat
    <3>1. PICK q, l, s, t : IsOfLog(j, q, l, s, t)
      BY <2>12 DEF OfLog
    <3>2. s \in Trees /\ Len(s) >= 1 /\ a = OfLastLeaf(l, s, t)
      <4>1. s \in Trees /\ Len(s) >= 1 /\ j = RealRecord(q, Token(q, OfLastLeaf(l, s, t), t))
        BY <3>1 DEF IsOfLog
      <4>2. j.token = Token(q, OfLastLeaf(l, s, t), t)
        BY <4>1, RealParts
      <4> QED BY <2>1, <4>1, <4>2, TokenParts
    <3>3. Len(s) - 1 \in 0..Len(s) - 1
      BY <3>2, TreeLength
    <3>4. a.path \in Seq(TreeHashes)
      BY <3>2, <3>3, LastLeafParts, PathType
    <3> QED BY <3>4
  <2>3. PICK q, l, s, time : IsOfLog(k, q, l, s, time) /\ [log |-> l, hashes |-> s] \in signedTrees
    BY <2>12 DEF OfLog
  <2>4. s \in Trees /\ b = OfLastLeaf(l, s, time)
    <3>1. s \in Trees /\ k = RealRecord(q, Token(q, OfLastLeaf(l, s, time), time))
      BY <2>3 DEF IsOfLog
    <3>2. k.token = Token(q, OfLastLeaf(l, s, time), time)
      BY <3>1, RealParts
    <3> QED BY <2>1, <3>1, <3>2, TokenParts
  <2>5. PICK path : path = a.path
    OBVIOUS
  <2>6. VerifyAnchorToken(LogProof(l, s, time, i, path), p)
    BY <1>2, <2>4, <2>5, ProofReplaced
  <2>7. i \in 0..Len(s) - 1 /\ s[i + 1] = LeafHash(p)
    BY <2>2, <2>4, <2>5, <2>6, LogProofVerifies, InclusionProofsSound
  <2>8. i < Len(s)
    BY <2>4, <2>7, TreeLength
  <2>9. PICK tree : tree = [log |-> l, hashes |-> s]
    OBVIOUS
  <2>10. tree \in signedTrees /\ tree.log = l /\ tree.hashes = s
    BY <2>3, <2>9
  <2>11. b.log_id = l /\ b.sth.tree_size = Len(s) /\ b.sth.root = MerkleTreeHash[s]
    BY <2>4, LastLeafParts
  <2> QED BY <2>7, <2>8, <2>10, <2>11
<1>3. \A t \in signedTrees : Answered(t)
  BY DEF ProvidersIInv
<1> QED BY <1>1, <1>2, <1>3 DEF ProofsSound, Answered

\* The outcomes that requestAnchor lets through are what they say, for good: a real
\* token proves its head and no other, a signed tree answers for a head, and no
\* recombination of a log's proofs proves more than the trees it signed.
THEOREM ProofsAlwaysSound == ProvidersSpec => []ProofsSound
  BY ProvidersAlways, ProvidersSound, PTL
=============================================================================
