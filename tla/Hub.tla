-------------------------------- MODULE Hub --------------------------------
(***************************************************************************)
(* Publish and subscribe of a cluster (src/src/cluster/pubsub.cpp) with    *)
(* its delivery actor (src/src/cluster/pubsub_delivery.cpp), for one topic.*)
(*                                                                         *)
(* Futures cannot be constructed (FutureImpl calls shared_from_this in its *)
(* constructor, which throws): Stop leaves by the exception of StopFuture  *)
(* before it clears anything, and the delivery actor leaves by that of     *)
(* RequestFuture before the first message of a batch is sent, after which  *)
(* its mailbox stays marked as running and it handles nothing more.        *)
(***************************************************************************)
EXTENDS Naturals, Sequences, SequencesExt, Lists

CONSTANTS Subscribers, Clients,
          MaxBatches   \* bound on the batches waiting for the delivery actor

VARIABLES running,       \* running_
          delivery,      \* delivery_actor_: "none", "ready" or "stuck" in its first batch
          subscriptions, \* subscriptions_ of the topic
          client,        \* the call each client is in, see Free
          batches,       \* mailbox of the delivery actor
          left           \* unsubscribed for good: the call found the hub running

hubVars == <<running, delivery, subscriptions, client, batches, left>>

Free == [op |-> "none", who |-> <<>>]

Init == /\ running = FALSE
        /\ delivery = "none"
        /\ subscriptions = <<>>
        /\ client = [c \in Clients |-> Free]
        /\ batches = <<>>
        /\ left = {}

(* A second Start does nothing; one after a failed Stop finds the name     *)
(* $pubsub-delivery taken and keeps the actor it has.                      *)
Start == /\ ~running
         /\ running' = TRUE
         /\ delivery' = IF delivery = "none" THEN "ready" ELSE delivery
         /\ UNCHANGED <<subscriptions, client, batches, left>>

(* The exception of StopFuture leaves subscriptions and actor as they are. *)
Stop == /\ running
        /\ running' = FALSE
        /\ UNCHANGED <<delivery, subscriptions, client, batches, left>>

---------------------------------------------------------------------------
(* Every operation looks at running_ first and takes the lock afterwards.  *)

Enter(c, op, who) ==
  /\ client[c] = Free /\ running
  /\ client' = [client EXCEPT ![c] = [op |-> op, who |-> who]]
  /\ left' = IF op = "subscribe" THEN left \ ToSet(who) ELSE left
  /\ UNCHANGED <<running, delivery, subscriptions, batches>>

Leave(c) == /\ client' = [client EXCEPT ![c] = Free]
            /\ UNCHANGED <<running, delivery>>

Subscribe(c) ==
  /\ client[c].op = "subscribe"
  /\ LET s == Head(client[c].who)
     IN subscriptions' = IF s \in ToSet(subscriptions) THEN subscriptions
                         ELSE Append(subscriptions, s)
  /\ Leave(c)
  /\ UNCHANGED <<batches, left>>

(* No other client is about to subscribe s.                                *)
Settled(c, s) == \A d \in Clients \ {c} :
                   ~(client[d].op = "subscribe" /\ client[d].who = <<s>>)

(* Mutant: only the first entry of the subscriber is looked for, at the    *)
(* front of the list.                                                      *)
UnsubscribeFirst(c) ==
  /\ client[c].op = "unsubscribe"
  /\ LET s == Head(client[c].who)
     IN /\ subscriptions' = IF subscriptions # <<>> /\ Head(subscriptions) = s
                            THEN Tail(subscriptions) ELSE subscriptions
        /\ left' = IF Settled(c, s) THEN left \cup {s} ELSE left
  /\ Leave(c)
  /\ UNCHANGED batches

Unsubscribe(c) ==
  /\ client[c].op = "unsubscribe"
  /\ LET s == Head(client[c].who)
     IN /\ subscriptions' = Without(subscriptions, s)
        /\ left' = IF Settled(c, s) THEN left \cup {s} ELSE left
  /\ Leave(c)
  /\ UNCHANGED batches

(* The list is copied under the lock ...                                   *)
PublishCopies(c) ==
  /\ client[c].op = "publish"
  /\ client' = [client EXCEPT ![c] = IF subscriptions = <<>> THEN Free
                                     ELSE [op |-> "send", who |-> subscriptions]]
  /\ UNCHANGED <<running, delivery, subscriptions, batches, left>>

(* ... and sent to the delivery actor after it was released.               *)
PublishSends(c) ==
  /\ client[c].op = "send" /\ Len(batches) < MaxBatches
  /\ batches' = IF delivery # "none" THEN Append(batches, client[c].who) ELSE batches
  /\ Leave(c)
  /\ UNCHANGED <<subscriptions, left>>

(* DeliverBatch throws at its first subscriber.                            *)
DeliverBatch ==
  /\ delivery = "ready" /\ batches # <<>>
  /\ batches' = Tail(batches)
  /\ delivery' = "stuck"
  /\ UNCHANGED <<running, subscriptions, client, left>>

Next == \/ Start \/ Stop \/ DeliverBatch
        \/ \E c \in Clients :
             \/ \E s \in Subscribers : \/ Enter(c, "subscribe", <<s>>)
                                       \/ Enter(c, "unsubscribe", <<s>>)
             \/ Enter(c, "publish", <<>>)
             \/ Subscribe(c) \/ Unsubscribe(c) \/ PublishCopies(c) \/ PublishSends(c)

---------------------------------------------------------------------------
(* Who has left stays out: a subscriber whose Unsubscribe found the hub    *)
(* running and has returned is in no list copied by a later Publish until  *)
(* it subscribes again, although Stop and Start in between keep every      *)
(* subscription; and nobody is listed twice.                               *)
GoneIsGone == /\ left \cap ToSet(subscriptions) = {}
              /\ IsInjective(subscriptions)
=============================================================================
