---------------------------- MODULE SinkDelivery ----------------------------
(***************************************************************************)
(* What a durable sink may count on, whatever queues, retries, replays,    *)
(* crashes and owners lie between it and the log of one partition: it is   *)
(* handed the durable appends in log order, each exactly once by its       *)
(* checkpoint, and the log keeps what it has not been handed yet.          *)
(***************************************************************************)
EXTENDS Naturals

CONSTANT Appends      \* the sequence numbers of the partition's appends

VARIABLES durable,    \* the appends that are durable in the log
          delivered,  \* the sink has taken the appends below this number
          trimmed     \* the log keeps the appends from this number on

deliveryVars == <<durable, delivered, trimmed>>

DeliveryInit == durable = {} /\ delivered = 0 /\ trimmed = 0

(* An append becomes durable; a restart may find several more. *)
Persist ==
    /\ \E more \in SUBSET (Appends \ durable) : more # {} /\ durable' = durable \cup more
    /\ UNCHANGED <<delivered, trimmed>>

Deliver ==
    /\ delivered \in durable
    /\ delivered' = delivered + 1
    /\ UNCHANGED <<durable, trimmed>>

Trim ==
    /\ \E start \in trimmed .. delivered : trimmed' = start
    /\ UNCHANGED <<durable, delivered>>

DeliveryNext == Persist \/ Deliver \/ Trim

DeliverySpec == DeliveryInit /\ [][DeliveryNext]_deliveryVars
=============================================================================
