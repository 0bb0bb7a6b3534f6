-------------------------- MODULE CanonicalHistory --------------------------
(***************************************************************************)
(* What canonical-event ingestion promises (README: "append-only canonical *)
(* event versions"; DEVELOPMENT_STATUS.md: "native-ID idempotency"): each  *)
(* event is a sequence of versions, a version is the set of items known    *)
(* when it was recorded, each step records one item of a new identity as   *)
(* one more version of one event, and nothing recorded ever changes.       *)
(***************************************************************************)
EXTENDS Sequences

CONSTANTS
  Items,      \* source items
  EventIds,   \* canonical events
  Key(_)      \* what two deliveries of one item share

VARIABLE history  \* for each event, the item sets of its versions

Init == history = [e \in EventIds |-> <<>>]

Recorded(i) ==
  \E e \in EventIds : \E v \in DOMAIN history[e] :
    \E j \in history[e][v] : Key(j) = Key(i)

Current(e) == IF history[e] = <<>> THEN {} ELSE history[e][Len(history[e])]

Record(e, i) ==
  /\ ~Recorded(i)
  /\ history' = [history EXCEPT ![e] = Append(@, Current(e) \cup {i})]

Next == \E e \in EventIds, i \in Items : Record(e, i)

Spec == Init /\ [][Next]_history
=============================================================================
