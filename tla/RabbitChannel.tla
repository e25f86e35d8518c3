--------------------------- MODULE RabbitChannel ---------------------------
(***************************************************************************)
(* One queue of RabbitMQ and the Channel object (src/utils/rabbitmq.js) of *)
(* the process that consumes it.  The broker gives every delivery of a     *)
(* channel a tag; what is not acknowledged when the channel closes goes    *)
(* back to the queue.  ackMessage and rejectMessage only pass a tag, on    *)
(* whatever channel the object has by then.                                *)
(***************************************************************************)
EXTENDS Naturals, SequencesExt

CONSTANT Prefetch           \* RABBITMQ_MATRIX_CONSUME_CONCURRENCY

ASSUME RabbitChannelAssumption == Prefetch \in Nat \ {0}

VARIABLES
    ready,                  \* the queue: messages with the flag redelivered
    unacked,                \* deliveries of the consumed channel, by increasing tags
    consuming,              \* the object has a channel, with a consumer
    tags                    \* tags given out on the channel

channel == <<unacked, consuming, tags>>
queue == <<ready, channel>>

Delivery(tag, d) == [tag |-> tag, msg |-> d.msg, redelivered |-> d.redelivered]

QueueTypeOK(Message) ==
    /\ ready \in Seq([msg : Message, redelivered : BOOLEAN])
    /\ unacked \in Seq([tag : 1..tags, msg : Message, redelivered : BOOLEAN])
    /\ Len(unacked) <= Prefetch
    /\ consuming \in BOOLEAN /\ tags \in Nat
    /\ ~consuming => unacked = <<>>

(* connect and consumeQueue at the start of the process.                   *)
QueueInit == ready = <<>> /\ unacked = <<>> /\ consuming = TRUE /\ tags = 0

(* sendToQueue, with the channel of the producer: some messages at once.   *)
Sent(messages) == ready \o [i \in DOMAIN messages |-> [msg |-> messages[i], redelivered |-> FALSE]]

Deliver ==
    /\ consuming /\ ready # <<>> /\ Len(unacked) < Prefetch
    /\ tags' = tags + 1
    /\ unacked' = Append(unacked, Delivery(tags + 1, Head(ready)))
    /\ ready' = Tail(ready)
    /\ UNCHANGED consuming

(* Mutants of Close: with the option noAck what was delivered is gone; the *)
(* listener of "close" leaves the deliveries.                              *)
CloseNoAck == ready' = ready /\ unacked' = <<>> /\ consuming' = FALSE /\ tags' = 0
CloseKeeps == consuming' = FALSE /\ UNCHANGED <<ready, unacked, tags>>

(* The event "close" of the channel: the broker puts back what was not     *)
(* acknowledged, and will flag it as redelivered.                          *)
Close ==
    /\ ready' = [i \in DOMAIN unacked |-> [msg |-> unacked[i].msg, redelivered |-> TRUE]] \o ready
    /\ unacked' = <<>> /\ consuming' = FALSE /\ tags' = 0

(* The time-out after the event: a channel is opened and consumed again.   *)
Reconsume ==
    /\ ~consuming /\ consuming' = TRUE
    /\ UNCHANGED <<ready, unacked, tags>>

Known(tag) == \E i \in DOMAIN unacked : unacked[i].tag = tag
Place(tag) == CHOOSE i \in DOMAIN unacked : unacked[i].tag = tag
Without(tag) == RemoveAt(unacked, Place(tag))

(* A channel opened for a tag alone does not live: like one that settles a *)
(* tag it was not given or settled before, it is closed by the broker.     *)
Misdirected == IF consuming THEN Close ELSE UNCHANGED queue

(* ackMessage                                                              *)
Ack(tag) ==
    IF Known(tag) THEN unacked' = Without(tag) /\ UNCHANGED <<ready, consuming, tags>>
    ELSE Misdirected

(* rejectMessage: dropped, or put back to its place.                       *)
Reject(tag, requeue) ==
    IF Known(tag)
    THEN /\ unacked' = Without(tag)
         /\ ready' = IF requeue
                     THEN <<[msg |-> unacked[Place(tag)].msg, redelivered |-> TRUE]>> \o ready ELSE ready
         /\ UNCHANGED <<consuming, tags>>
    ELSE Misdirected
=============================================================================
