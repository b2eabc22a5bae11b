---------------------------- MODULE ImmutableStore ----------------------------
(***************************************************************************)
(* What a WORM store promises its clients, as the in-memory store keeps    *)
(* it: an object is written once under its key, born with a retention,     *)
(* which is only ever extended, and deleted only after the retention, and  *)
(* only when it is not under legal hold.  Where two writers met over a key *)
(* it is "contested": what is read there may be replaced, but while it is  *)
(* retained or held the key does not become empty.                         *)
(***************************************************************************)
EXTENDS Integers

CONSTANTS
  Objects,      \* object keys
  Instants,     \* instants, as retentions and as the store's clock
  Nothing       \* no object

VARIABLES
  object,       \* [Objects -> the lock of the object under the key, or Nothing]
  contested,    \* keys two writers met over
  clock         \* the store's clock

Init ==
  /\ object = [k \in Objects |-> Nothing]
  /\ contested = {}
  /\ clock = 0

Tick ==
  /\ clock' \in Instants /\ clock' > clock
  /\ UNCHANGED <<object, contested>>

PutImmutable(k) ==
  /\ object[k] = Nothing
  /\ \E t \in Instants : t > clock /\ object' = [object EXCEPT ![k] = [until |-> t, hold |-> FALSE]]

ExtendRetention(k) ==
  /\ object[k] # Nothing
  /\ \E t \in Instants : t >= object[k].until /\ object' = [object EXCEPT ![k].until = t]

SetLegalHold(k) ==
  /\ object[k] # Nothing
  /\ \E on \in BOOLEAN : object' = [object EXCEPT ![k].hold = on]

Retained(k) == object[k] # Nothing /\ (object[k].hold \/ object[k].until > clock)

DeleteExpired(k) ==
  /\ object[k] # Nothing
  /\ ~Retained(k)
  /\ object' = [object EXCEPT ![k] = Nothing]

Contest ==
  /\ contested \subseteq contested'
  /\ \A k \in Objects \ contested' : object'[k] = object[k]
  /\ \A k \in Objects : Retained(k) => object'[k] # Nothing

Next ==
  \/ Tick
  \/ /\ \E k \in Objects :
          PutImmutable(k) \/ ExtendRetention(k) \/ SetLegalHold(k) \/ DeleteExpired(k)
     /\ UNCHANGED <<contested, clock>>
  \/ Contest /\ UNCHANGED clock

Spec == Init /\ [][Next]_<<object, contested, clock>>
=============================================================================
