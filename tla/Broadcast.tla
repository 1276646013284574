------------------------------- MODULE Broadcast -------------------------------
(***************************************************************************)
(* The tokio broadcast channel that joins the tasks of proberv2, as        *)
(* proberv2/src uses it: every receiver that has subscribed sees every     *)
(* later event in order; the channel keeps the last Capacity events, and a *)
(* receiver that falls further behind loses the oldest ones, which its     *)
(* next receive reports once as Lagged.                                    *)
(***************************************************************************)
EXTENDS Naturals, Sequences

CONSTANT Capacity   \* 32 in Actor::dispatch; small in the runs

ASSUME CapacityAssumption == Capacity \in Nat \ {0}

Unsubscribed == [open |-> FALSE, lagged |-> FALSE, msgs |-> << >>]
Subscribed == [open |-> TRUE, lagged |-> FALSE, msgs |-> << >>]

Receive(q, m) ==
  IF ~q.open THEN q
  ELSE IF Len(q.msgs) < Capacity THEN [q EXCEPT !.msgs = Append(@, m)]
  ELSE [q EXCEPT !.msgs = Append(Tail(@), m), !.lagged = TRUE]

\* tx.send: it fails only when nobody is subscribed, and the actor always is.
Send(queue, m) == [r \in DOMAIN queue |-> Receive(queue[r], m)]

HasRoom(queue) == \A r \in DOMAIN queue : Len(queue[r].msgs) < Capacity

\* recv: Lagged comes before the oldest event still kept.
CanTake(queue, r) == queue[r].open /\ ~queue[r].lagged /\ queue[r].msgs # << >>
Take(queue, r) == [queue EXCEPT ![r].msgs = Tail(@)]
SkipLagged(queue, r) == [queue EXCEPT ![r].lagged = FALSE]
=============================================================================
