------------------------------ MODULE Anchoring ------------------------------
(***************************************************************************)
(* The anchor coordinator: idempotent anchoring of a signed head over a    *)
(* provider, with coalesced callers, a timeout per attempt and backed-off  *)
(* retries, over a put-if-absent record store that several coordinators    *)
(* (replicas, or a process before and after its restart) may share.        *)
(*                                                                         *)
(* An anchor_id is a head: the UUID of its payload hash and the provider   *)
(* type; that two payloads digest to one UUID is left out.  A step is the  *)
(* code between two awaits.  The answer to a request that has timed out is *)
(* dropped by the promise that has already settled.                        *)
(* What tells two records of a head apart is the coordinator that built    *)
(* them: their created_at and their tokens differ.                         *)
(***************************************************************************)
EXTENDS Integers

CONSTANTS
  Heads,          \* signed head and provider type: anchor_id
  Callers,        \* concurrent anchorHead() calls
  Coordinators,   \* AnchorCoordinator instances sharing the store
  MaxAttempts,    \* retry.maxAttempts
  None

ASSUME AnchoringAssumption ==
  /\ MaxAttempts \in Nat \ {0}
  /\ None \notin Callers

VARIABLES
  store,          \* [Heads -> anchor record or None]
  inflight,       \* [Coordinators -> [Heads -> the caller that runs it, or None]]
  state,          \* [Callers -> where the call is suspended]
  at,             \* [Callers -> its coordinator and head]
  owner,          \* [Callers -> the caller whose run it awaits]
  asks,           \* [Callers -> provider calls its run has made]
  outcome         \* [Callers -> what the call returned]

vars == <<store, inflight, state, at, owner, asks, outcome>>

-----------------------------------------------------------------------------
Tokens  == [kind : {"token"}, head : Heads, verifies : BOOLEAN]
Replies == Tokens \cup [kind : {"pending", "failed", "malformed", "throws"}]

Records  == [id : Heads, token : Tokens, by : Coordinators]
Outcomes == [status : {"anchored"}, record : Records]
            \cup [status : {"pending"}, attempts : 1..MaxAttempts]
            \cup [status : {"failed", "rejected"}]
Places   == [coordinator : Coordinators, head : Heads]

ASSUME NoneIsNoRecord == None \notin Records

Init ==
  /\ store = [h \in Heads |-> None]
  /\ inflight = [k \in Coordinators |-> [h \in Heads |-> None]]
  /\ state = [c \in Callers |-> "idle"]
  /\ at = [c \in Callers |-> None]
  /\ owner = [c \in Callers |-> None]
  /\ asks = [c \in Callers |-> 0]
  /\ outcome = [c \in Callers |-> None]

FaultyVerdict(reply, h) ==          \* binds to any head
  CASE reply.kind = "token" /\ reply.verifies -> "anchored"
    [] reply.kind \in {"pending", "throws"} -> "pending"
    [] OTHER -> "failed"

\* requestAnchor: fail closed.
Verdict(reply, h) ==
  CASE reply.kind = "token" /\ reply.head = h /\ reply.verifies -> "anchored"
    [] reply.kind \in {"pending", "throws"} -> "pending"
    [] OTHER -> "failed"

FaultyAwaiting(c) == {c}            \* joined callers are forgotten
\* The calls that await the run of caller c: c itself and those that joined.
Awaiting(c) == {d \in Callers : owner[d] = c}

\* The run of caller c resolves: its callers return, the head is not in flight.
Settle(c, o) ==
  /\ state' = [d \in Callers |-> IF d \in Awaiting(c) THEN "returned" ELSE state[d]]
  /\ outcome' = [d \in Callers |-> IF d \in Awaiting(c) THEN o ELSE outcome[d]]
  /\ owner' = [d \in Callers |-> IF d \in Awaiting(c) THEN None ELSE owner[d]]
  /\ inflight' = [inflight EXCEPT ![at[c].coordinator][at[c].head] = None]
  /\ UNCHANGED <<at, asks>>

Anchored(r) == [status |-> "anchored", record |-> r]

FaultyRuns(k, h) == {}              \* callers are not coalesced
\* The caller whose run for head h is in flight at coordinator k.
Runs(k, h) == {inflight[k][h]} \ {None}

\* anchorHead(): join the run in flight, return the stored record, or ask.
AnchorHead(c, k, h) ==
  /\ state[c] = "idle"
  /\ at' = [at EXCEPT ![c] = [coordinator |-> k, head |-> h]]
  /\ UNCHANGED store
  /\ \/ \E d \in Runs(k, h) :
          /\ owner' = [owner EXCEPT ![c] = d]
          /\ state' = [state EXCEPT ![c] = "joined"]
          /\ UNCHANGED <<inflight, asks, outcome>>
     \/ /\ Runs(k, h) = {}
        /\ store[h] # None
        /\ state' = [state EXCEPT ![c] = "returned"]
        /\ outcome' = [outcome EXCEPT ![c] = Anchored(store[h])]
        /\ UNCHANGED <<inflight, owner, asks>>
     \/ /\ Runs(k, h) = {}
        /\ store[h] = None
        /\ state' = [state EXCEPT ![c] = "asking"]
        /\ owner' = [owner EXCEPT ![c] = c]
        /\ asks' = [asks EXCEPT ![c] = 1]
        /\ inflight' = [inflight EXCEPT ![k][h] = c]
        /\ UNCHANGED outcome

FaultyKept(h, r) == r               \* last write wins
\* putIfAbsent: the record that is in the store afterwards.
Kept(h, r) == IF store[h] = None THEN r ELSE store[h]

FaultyLastAttempt(c) == FALSE       \* the bound on attempts left out
LastAttempt(c) == asks[c] = MaxAttempts

\* A pending attempt: back off, or give up after the last one.
RetryOrGiveUp(c) ==
  \/ /\ ~LastAttempt(c)
     /\ state' = [state EXCEPT ![c] = "sleeping"]
     /\ UNCHANGED <<inflight, at, owner, asks, outcome>>
  \/ /\ LastAttempt(c)
     /\ Settle(c, [status |-> "pending", attempts |-> asks[c]])

\* The provider answers the run of caller c.  With a token that binds and verifies,
\* buildAnchorRecord may still refuse the record that the head, its signature and
\* the token make: the run rejects, and so do the calls that joined it.
Answer(c, reply) ==
  /\ state[c] = "asking"
  /\ LET h == at[c].head
         r == [id |-> h, token |-> reply, by |-> at[c].coordinator]
     IN \/ /\ Verdict(reply, h) = "anchored"
           /\ store' = [store EXCEPT ![h] = Kept(h, r)]
           /\ Settle(c, Anchored(Kept(h, r)))
        \/ /\ Verdict(reply, h) = "anchored"
           /\ Settle(c, [status |-> "rejected"])
           /\ UNCHANGED store
        \/ /\ Verdict(reply, h) = "failed"
           /\ Settle(c, [status |-> "failed"])
           /\ UNCHANGED store
        \/ /\ Verdict(reply, h) = "pending"
           /\ RetryOrGiveUp(c)
           /\ UNCHANGED store

\* No answer within timeoutMs: a pending attempt.
Timeout(c) ==
  /\ state[c] = "asking"
  /\ RetryOrGiveUp(c)
  /\ UNCHANGED store

\* The backoff is over: the next attempt.
Wake(c) ==
  /\ state[c] = "sleeping"
  /\ state' = [state EXCEPT ![c] = "asking"]
  /\ asks' = [asks EXCEPT ![c] = @ + 1]
  /\ UNCHANGED <<store, inflight, at, owner, outcome>>

\* The client has its answer and may call again.
Retire(c) ==
  /\ state[c] = "returned"
  /\ state' = [state EXCEPT ![c] = "idle"]
  /\ outcome' = [outcome EXCEPT ![c] = None]
  /\ at' = [at EXCEPT ![c] = None]
  /\ asks' = [asks EXCEPT ![c] = 0]
  /\ UNCHANGED <<store, inflight, owner>>

\* Coordinator k's process dies with its calls; the store survives.
Crash(k) ==
  LET gone == {c \in Callers : state[c] \notin {"idle", "returned"} /\ at[c].coordinator = k}
  IN /\ gone # {}
     /\ inflight' = [inflight EXCEPT ![k] = [h \in Heads |-> None]]
     /\ state' = [c \in Callers |-> IF c \in gone THEN "idle" ELSE state[c]]
     /\ at' = [c \in Callers |-> IF c \in gone THEN None ELSE at[c]]
     /\ owner' = [c \in Callers |-> IF c \in gone THEN None ELSE owner[c]]
     /\ asks' = [c \in Callers |-> IF c \in gone THEN 0 ELSE asks[c]]
     /\ UNCHANGED <<store, outcome>>

Next ==
  \/ \E c \in Callers :
       \/ \E k \in Coordinators, h \in Heads : AnchorHead(c, k, h)
       \/ \E reply \in Replies : Answer(c, reply)
       \/ Timeout(c)
       \/ Wake(c)
       \/ Retire(c)
  \/ \E k \in Coordinators : Crash(k)

\* Timers fire; the provider need not answer.
Fairness == \A c \in Callers : WF_vars(Timeout(c)) /\ WF_vars(Wake(c))

Spec == Init /\ [][Next]_vars /\ Fairness

-----------------------------------------------------------------------------
(* Properties.                                                             *)

\* Types of the state.
TypeOK ==
  /\ store \in [Heads -> Records \cup {None}]
  /\ inflight \in [Coordinators -> [Heads -> Callers \cup {None}]]
  /\ state \in [Callers -> {"idle", "asking", "sleeping", "joined", "returned"}]
  /\ at \in [Callers -> Places \cup {None}]
  /\ owner \in [Callers -> Callers \cup {None}]
  /\ asks \in [Callers -> 0..MaxAttempts]
  /\ outcome \in [Callers -> Outcomes \cup {None}]

\* No fabrication: a stored record carries a token that verifies and binds to
\* the very head it is filed under.
NoFabrication ==
  \A h \in Heads : store[h] # None =>
    store[h].id = h /\ store[h].token.head = h /\ store[h].token.verifies

\* Every caller told "anchored" holds the one record in the store, whoever ran
\* the request and however many coordinators raced.
ReturnedIsStored ==
  \A c \in Callers : outcome[c] # None /\ outcome[c].status = "anchored" =>
    outcome[c].record = store[at[c].head]

Running(c) == state[c] \in {"asking", "sleeping"}

\* Coalescing: one coordinator never has two runs for one head at a time.
OneRunPerHead ==
  \A c, d \in Callers : Running(c) /\ Running(d) /\ at[c] = at[d] => c = d

\* A caller that joined awaits a run of its own head that is still under way.
JoinedIsServed ==
  \A c \in Callers : state[c] = "joined" =>
    Running(owner[c]) /\ at[owner[c]] = at[c]

\* The store implements the write-once register of the abstract specification,
\* whose records are the verified ones.
Verified == {r \in Records : r.token.head = r.id /\ r.token.verifies}
Register == INSTANCE AnchorRegister
              WITH register <- store, Ids <- Heads, Records <- Verified
ImplementsRegister == Register!Spec

\* Every call comes to an end, also one that joined another's run, although
\* the provider may never answer.
EveryCallReturns ==
  \A c \in Callers : []<>(state[c] \in {"returned", "idle"})
=============================================================================
