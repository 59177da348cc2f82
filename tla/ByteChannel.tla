----------------------------- MODULE ByteChannel -----------------------------
(***************************************************************************)
(* The byte-bounded channel in front of every shard worker: a slot-bounded *)
(* queue whose items carry a charge against one atomic byte count.  The    *)
(* charge is taken before the slot is tried, travels with the item, may be *)
(* split from it (into_parts) to outlive it, and is given back on drop.    *)
(***************************************************************************)
EXTENDS Naturals, Sequences, FiniteSetsExt

CONSTANTS Items,      \* values that senders try to send
          ItemBytes,  \* the bytes each is charged
          MaxSlots, MaxChannelBytes,
          Sends       \* bound: how often one item is sent

ASSUME ByteChannelAssumption ==
    /\ ItemBytes \in [Items -> Nat]
    /\ MaxSlots \in Nat \ {0} /\ MaxChannelBytes \in Nat \ {0} /\ Sends \in Nat

VARIABLES usedBytes,      \* ByteBudget.used
          slots,     \* the std channel
          place,        \* [Items -> where the item and its charge are]
          sendsLeft,     \* [Items -> sends left]
          receiving  \* the receiver exists

channelVars == <<usedBytes, slots, place, sendsLeft, receiving>>

ChannelInit ==
    /\ usedBytes = 0 /\ slots = <<>> /\ receiving = TRUE
    /\ place = [i \in Items |-> "sender"]
    /\ sendsLeft = [i \in Items |-> Sends]

(* try_reserve: TooLarge, Unavailable, or the bytes are taken. *)
ReserveBytes(i) ==
    /\ place[i] = "sender" /\ sendsLeft[i] > 0
    /\ sendsLeft' = [sendsLeft EXCEPT ![i] = @ - 1]
    /\ IF ItemBytes[i] <= MaxChannelBytes /\ usedBytes + ItemBytes[i] <= MaxChannelBytes
       THEN usedBytes' = usedBytes + ItemBytes[i] /\ place' = [place EXCEPT ![i] = "charged"]
       ELSE UNCHANGED <<usedBytes, place>>
    /\ UNCHANGED <<slots, receiving>>

GiveBack(i) == usedBytes' = usedBytes - ItemBytes[i]

(* Mutant: a full slot hands the item back but keeps its charge. *)
TrySlotLeaking(i) ==
    /\ place[i] = "charged"
    /\ IF receiving /\ Len(slots) < MaxSlots
       THEN slots' = Append(slots, i) /\ place' = [place EXCEPT ![i] = "queued"]
       ELSE place' = [place EXCEPT ![i] = "sender"] /\ UNCHANGED slots
    /\ UNCHANGED <<usedBytes, sendsLeft, receiving>>

(* The slot: Full and Disconnected hand the item back and drop its charge. *)
TrySlot(i) ==
    /\ place[i] = "charged"
    /\ IF receiving /\ Len(slots) < MaxSlots
       THEN slots' = Append(slots, i) /\ place' = [place EXCEPT ![i] = "queued"] /\ UNCHANGED usedBytes
       ELSE GiveBack(i) /\ place' = [place EXCEPT ![i] = "sender"] /\ UNCHANGED slots
    /\ UNCHANGED <<sendsLeft, receiving>>

(* recv, try_recv, recv_timeout. *)
Recv ==
    /\ receiving /\ slots # <<>>
    /\ place' = [place EXCEPT ![Head(slots)] = "received"]
    /\ slots' = Tail(slots)
    /\ UNCHANGED <<usedBytes, sendsLeft, receiving>>

(* into_inner, a drop, or a try_map whose map fails. *)
DropItem(i) ==
    /\ place[i] = "received"
    /\ GiveBack(i)
    /\ place' = [place EXCEPT ![i] = "sender"]
    /\ UNCHANGED <<slots, sendsLeft, receiving>>

(* into_parts, or a try_map that succeeds: the charge moves on its own; the *)
(* emptied Budgeted releases nothing when it is dropped.                   *)
IntoParts(i) ==
    /\ place[i] = "received"
    /\ place' = [place EXCEPT ![i] = "settling"]
    /\ UNCHANGED <<usedBytes, slots, sendsLeft, receiving>>

(* The owner of the split charge settles it, which may be after the         *)
(* receiver is gone.                                                       *)
SettleCharge(i) ==
    /\ place[i] = "settling"
    /\ GiveBack(i)
    /\ place' = [place EXCEPT ![i] = "sender"]
    /\ UNCHANGED <<slots, sendsLeft, receiving>>

(* The receiver is dropped with what is queued. *)
DropReceiver ==
    /\ receiving /\ receiving' = FALSE
    /\ usedBytes' = usedBytes - MapThenSumSet(LAMBDA k : ItemBytes[slots[k]], DOMAIN slots)
    /\ place' = [i \in Items |-> IF place[i] = "queued" THEN "sender" ELSE place[i]]
    /\ slots' = <<>>
    /\ UNCHANGED sendsLeft

ChannelNext ==
    \/ \E i \in Items : ReserveBytes(i) \/ TrySlot(i) \/ DropItem(i) \/ IntoParts(i) \/ SettleCharge(i)
    \/ Recv \/ DropReceiver

ChannelSpec == ChannelInit /\ [][ChannelNext]_channelVars

-----------------------------------------------------------------------------
(* The byte count is what senders, the queue and consumers hold between     *)
(* them (ByteBudget), so it never passes the bound and nothing leaks on a  *)
(* full slot, a lost receiver or a split charge (try_send, into_parts).    *)
ChannelBytesExact ==
    /\ usedBytes = MapThenSumSet(LAMBDA i : ItemBytes[i], {i \in Items : place[i] # "sender"})
    /\ usedBytes <= MaxChannelBytes
    /\ Len(slots) <= MaxSlots
=============================================================================
