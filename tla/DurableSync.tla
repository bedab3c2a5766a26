---------------------------- MODULE DurableSync ----------------------------
(***************************************************************************)
(* What the ingestion worker promises about a source's completion          *)
(* checkpoint, with no worker in it.  An upstream feed publishes listings, *)
(* numbered in order of publication; the event store accumulates them, in  *)
(* any order and any grouping; and a checkpoint says "everything published *)
(* up to here is durable".  IngestionWorker implements this specification. *)
(***************************************************************************)
EXTENDS Naturals

CONSTANT Sources

VARIABLES
    published,  \* published[s]: how many listings source s has published
    stored,     \* the rows <<s, r>> that are durable in the event store
    checkpoint  \* checkpoint[s]: everything up to this listing is durable

vars == <<published, stored, checkpoint>>

Init ==
    /\ published \in [Sources -> Nat]
    /\ stored = {}
    /\ checkpoint = [s \in Sources |-> 0]

Publish(s) ==
    /\ published' = [published EXCEPT ![s] = @ + 1]
    /\ UNCHANGED <<stored, checkpoint>>

\* Rows become durable; none is ever lost.
Store ==
    /\ stored \subseteq stored'
    /\ \A row \in stored' \ stored : row[2] \in 1..published[row[1]]
    /\ UNCHANGED <<published, checkpoint>>

\* The checkpoint moves only over rows that are already durable.
Advance(s) ==
    /\ \E upto \in 0..published[s] :
         /\ checkpoint[s] <= upto
         /\ \A r \in 1..upto : <<s, r>> \in stored
         /\ checkpoint' = [checkpoint EXCEPT ![s] = upto]
    /\ UNCHANGED <<published, stored>>

Next ==
    \/ \E s \in Sources : Publish(s) \/ Advance(s)
    \/ Store

Spec == Init /\ [][Next]_vars
=============================================================================
