------------------------------- MODULE Channel -------------------------------
(***************************************************************************)
(* One direction of a connection between two nodes: the EndpointWriter     *)
(* actor with its queue, its receive thread and its gRPC stream, and the   *)
(* GrpcService and EndpointReader of the peer.  The stream is external and *)
(* may break at any time.  The actor handles one message at a time; the    *)
(* receive thread runs beside it, from inside Initialize on.               *)
(***************************************************************************)
EXTENDS Integers, Sequences, SequencesExt

CONSTANTS
    Messages,    \* what is sent: [target, sender, type, serializer]
    Registered,  \* ids of the registered serializers that do their work
    BatchSize,   \* endpoint_writer_batch_size
    MaxRetry,    \* max_retry_count
    MaxMessages, \* bound: RemoteDeliver messages
    None         \* no sender

VARIABLES
    grpc,      \* built with ENABLE_GRPC
    writer,    \* what the actor is doing
    retry,     \* retry_count, 0 outside Initialize
    queue,     \* message_queue_, with the number of each message
    connected, \* connected_
    stream,    \* stream_: "none", "open", "refused" or "broken"
    receiver,  \* the receive thread
    wire,      \* batches written and not yet read by the peer
    blocked,   \* the peer's BlockList has this node
    handler,   \* the call of GrpcService::Receive that serves the stream
    server,    \* the peer's gRPC server
    events,    \* EndpointTerminatedEvents published
    queued,    \* history: every RemoteDeliver handled
    delivered  \* history: what the peer passed to its actors

vars == <<grpc, writer, retry, queue, connected, stream, receiver, wire, blocked,
          handler, server, events, queued, delivered>>
link == <<connected, stream, receiver, events>>
peer == <<wire, blocked, handler, server, delivered>>

Init ==
    /\ grpc \in BOOLEAN
    /\ writer = "trying" /\ retry = 0
    /\ queue = <<>> /\ queued = <<>>
    /\ connected = FALSE /\ stream = "none" /\ receiver = "none"
    /\ wire = <<>> /\ blocked = FALSE
    /\ handler = "none" /\ server = "up"
    /\ events = 0
    /\ delivered = <<>>

-----------------------------------------------------------------------------
(* The batch codec                                                          *)

Added(table, x) == IF Contains(table, x) THEN table ELSE Append(table, x)

Position(table, x) == CHOOSE i \in DOMAIN table : table[i] = x

EmptyBatch == [types |-> <<>>, targets |-> <<>>, senders |-> <<>>, envelopes |-> <<>>]

(* SerializerRegistry::Serialize takes the default serializer, number 0,    *)
(* for a negative id; for an unknown id it throws and the message is        *)
(* skipped.                                                                 *)
Serializable(m) == m.serializer < 0 \/ m.serializer \in Registered \cup {0}

(* The Protobuf serializer of the repository, number 0, names no type.      *)
TypeName(m) == IF m.serializer \in Registered THEN m.type ELSE ""

(* Mutant: the index of the sender counts from 0 like the others.           *)
EnvelopeZeroBased(b, m) ==
    LET types == Added(b.types, TypeName(m))
        targets == Added(b.targets, m.target)
        senders == IF m.sender = None THEN b.senders ELSE Added(b.senders, m.sender)
    IN  [types |-> types, targets |-> targets, senders |-> senders,
         envelopes |-> Append(b.envelopes,
            [n |-> m.n, type |-> Position(types, TypeName(m)) - 1,
             target |-> Position(targets, m.target) - 1,
             sender |-> IF m.sender = None THEN 0 ELSE Position(senders, m.sender) - 1,
             serializer |-> m.serializer])]

(* Types and targets are numbered from 0, senders from 1: 0 means none.     *)
Envelope(b, m) ==
    LET types == Added(b.types, TypeName(m))
        targets == Added(b.targets, m.target)
        senders == IF m.sender = None THEN b.senders ELSE Added(b.senders, m.sender)
    IN  [types |-> types, targets |-> targets, senders |-> senders,
         envelopes |-> Append(b.envelopes,
            [n |-> m.n, type |-> Position(types, TypeName(m)) - 1,
             target |-> Position(targets, m.target) - 1,
             sender |-> IF m.sender = None THEN 0 ELSE Position(senders, m.sender),
             serializer |-> m.serializer])]

(* A message that cannot be serialized is left out.                         *)
Encode(batch) ==
    LET sofar[i \in 0..Len(batch)] ==
            IF i = 0 THEN EmptyBatch
            ELSE IF Serializable(batch[i]) THEN Envelope(sofar[i - 1], batch[i])
            ELSE sofar[i - 1]
    IN  sofar[Len(batch)]

(* SerializerRegistry::Deserialize has no default for a negative id, and    *)
(* DeserializeAndDeliver swallows what it throws.                           *)
Decodable(b, e) ==
    /\ e.target \in 0..(Len(b.targets) - 1)
    /\ e.type \in 0..(Len(b.types) - 1) /\ b.types[e.type + 1] # ""
    /\ e.serializer \in Registered

SystemMessages == {"Watch", "Unwatch", "Terminated", "Stop", "Restart", "Started", "Stopping",
                   "Stopped", "Restarting"}

(* How a message is passed on, and what the target then gets from Message() *)
(* and Sender().  Of a system message the sender is dropped.  A user        *)
(* message with a sender is put in an envelope, and RootContext::Send puts  *)
(* this envelope in another one, without a sender: the target gets the      *)
(* inner envelope as its message.                                           *)
DeserializeAndDeliver(n, target, type, sender) ==
    LET via == IF type = "Terminated" THEN "RemoteTerminate"
               ELSE IF type \in SystemMessages THEN "SendSystemMessage" ELSE "Send"
    IN  [n |-> n, target |-> target, via |-> via, sender |-> None,
         message |-> [type |-> type,
                      envelope |-> IF via = "Send" THEN sender ELSE None]]

Decoded(b, e) ==
    DeserializeAndDeliver(e.n, b.targets[e.target + 1], b.types[e.type + 1],
        IF e.sender \in 1..Len(b.senders) THEN b.senders[e.sender] ELSE None)

(* What the peer makes of a batch, envelope by envelope.                    *)
Decode(b) ==
    LET sofar[i \in 0..Len(b.envelopes)] ==
            IF i = 0 THEN <<>>
            ELSE IF Decodable(b, b.envelopes[i])
                 THEN Append(sofar[i - 1], Decoded(b, b.envelopes[i]))
            ELSE sofar[i - 1]
    IN  sofar[Len(b.envelopes)]

-----------------------------------------------------------------------------
(* The EndpointWriter actor                                                 *)

(* HandleConnectRequest: a node on the BlockList is refused.                *)
HandleConnectRequest == [blocked |-> blocked]

(* Initialize tries again, up to max_retry_count times.                     *)
Retry ==
    \/ retry + 1 < MaxRetry /\ retry' = retry + 1 /\ writer' = writer
    \/ retry + 1 = MaxRetry /\ retry' = 0 /\ writer' = "ready"

(* InitializeInternal fails: gRPC is not built in, there is no stream or no *)
(* answer comes.  A stream left by an earlier attempt is given up.          *)
ConnectFails ==
    /\ writer = "trying"
    /\ Retry
    /\ stream' = "none"
    /\ UNCHANGED <<grpc, queue, queued, connected, receiver, events, peer>>

(* It fails as the peer has blocked this node: the stream of the attempt is *)
(* kept, and the peer goes on serving it.                                   *)
ConnectRefused ==
    /\ writer = "trying" /\ grpc /\ server = "up" /\ HandleConnectRequest.blocked
    /\ Retry
    /\ stream' = "refused" /\ handler' = "reading"
    /\ UNCHANGED <<grpc, queue, queued, connected, receiver, events, wire, blocked, server,
                   delivered>>

(* It succeeds: the receive thread runs before Initialize stores connected_. *)
ConnectSucceeds ==
    /\ writer = "trying" /\ grpc /\ server = "up" /\ ~HandleConnectRequest.blocked
    /\ stream' = "open" /\ receiver' = "reading" /\ handler' = "reading"
    /\ writer' = "connecting" /\ retry' = 0
    /\ UNCHANGED <<grpc, queue, queued, connected, events, wire, blocked, server,
                   delivered>>

StoreConnected ==
    /\ writer = "connecting"
    /\ connected' = TRUE
    /\ writer' = "ready"
    /\ UNCHANGED <<grpc, retry, queue, queued, stream, receiver, events, peer>>

(* SendMessageBatch: nothing happens without a connection or if no message  *)
(* could be encoded; a write that fails makes the writer disconnect.        *)
SendMessageBatch(batch) ==
    IF ~connected \/ stream = "none" \/ Encode(batch) = EmptyBatch THEN UNCHANGED <<writer, wire>>
    ELSE \/ stream = "open" /\ wire' = Append(wire, Encode(batch)) /\ UNCHANGED writer
         \/ stream = "broken" /\ writer' = "closing" /\ UNCHANGED wire

(* The batch is out of the queue before it is sent.                         *)
SendBatch(batch) == queue' = <<>> /\ SendMessageBatch(batch)

(* RemoteDeliver: queued, and sent once a full batch is there.              *)
Deliver ==
    /\ writer = "ready" /\ Len(queued) < MaxMessages
    /\ \E m \in Messages :
        LET numbered == [n |-> Len(queued) + 1, target |-> m.target, sender |-> m.sender,
                         type |-> m.type, serializer |-> m.serializer]
        IN  /\ queued' = Append(queued, numbered)
            /\ IF Len(queue) + 1 >= BatchSize
               THEN SendBatch(Append(queue, numbered))
               ELSE queue' = Append(queue, numbered) /\ UNCHANGED <<writer, wire>>
    /\ UNCHANGED <<grpc, retry, link, blocked, handler, server, delivered>>

(* Stopping or EndpointTerminatedEvent.                                     *)
Disconnect ==
    /\ writer = "ready"
    /\ writer' = "closing"
    /\ UNCHANGED <<grpc, retry, queue, queued, link, peer>>

(* HandleDisconnect up to the join of the receive thread: the stream is     *)
(* destroyed although the thread may be inside its Read.                    *)
CloseClientConn ==
    /\ writer = "closing"
    /\ connected' = FALSE /\ stream' = "none"
    /\ writer' = "joining"
    /\ UNCHANGED <<grpc, retry, queue, queued, receiver, events, peer>>

HandleDisconnect ==
    /\ writer = "joining" /\ receiver \in {"none", "ended"}
    /\ queue' = <<>>
    /\ receiver' = "none"
    /\ writer' = "ready"
    /\ UNCHANGED <<grpc, retry, queued, connected, stream, events, peer>>

-----------------------------------------------------------------------------
(* The receive thread                                                       *)

ReadDisconnectRequest ==
    /\ receiver = "reading" /\ stream = "open"
    /\ receiver' = "announce"
    /\ UNCHANGED <<grpc, writer, retry, queue, queued, connected, stream, events, peer>>

(* EndpointTerminatedEvent for the request; a second one follows.           *)
PublishRequest ==
    /\ receiver = "announce"
    /\ events' = events + 1
    /\ receiver' = "left"
    /\ UNCHANGED <<grpc, writer, retry, queue, queued, connected, stream, peer>>

(* The stream is broken.                                                    *)
ReadFails ==
    /\ receiver = "reading" /\ stream = "broken"
    /\ receiver' = "left"
    /\ UNCHANGED <<grpc, writer, retry, queue, queued, connected, stream, events, peer>>

(* The stream was destroyed under the Read, or between the look at stream_  *)
(* and the call of it, a use after free: the thread notices and leaves,     *)
(* finds a last message, stays in Read for good, or the process dies.  In   *)
(* the last two cases the writer does not get beyond its join.              *)
ReadFreed ==
    /\ receiver = "reading" /\ stream = "none"
    /\ receiver' \in {"left", "announce", "hung", "dead"}
    /\ UNCHANGED <<grpc, writer, retry, queue, queued, connected, stream, events, peer>>

StoreLost ==
    /\ receiver = "left"
    /\ connected' = FALSE
    /\ receiver' = "lost"
    /\ UNCHANGED <<grpc, writer, retry, queue, queued, stream, events, peer>>

(* Mutant: the loss is announced only if the stream is still there.         *)
PublishLostIfOpen ==
    /\ receiver = "lost"
    /\ events' = IF stream = "none" THEN events ELSE events + 1
    /\ receiver' = "ended"
    /\ UNCHANGED <<grpc, writer, retry, queue, queued, connected, stream, peer>>

PublishLost ==
    /\ receiver = "lost"
    /\ events' = events + 1
    /\ receiver' = "ended"
    /\ UNCHANGED <<grpc, writer, retry, queue, queued, connected, stream, peer>>

-----------------------------------------------------------------------------
(* The peer and the network                                                 *)

(* GrpcService reads a batch and its reader delivers it envelope by         *)
(* envelope.                                                                *)
HandleMessageBatch ==
    /\ handler = "reading" /\ wire # <<>>
    /\ delivered' = delivered \o Decode(Head(wire))
    /\ wire' = Tail(wire)
    /\ UNCHANGED <<grpc, writer, retry, queue, queued, link, blocked, handler, server>>

(* The stream breaks; batches the peer has not read may be lost with it.    *)
StreamBreaks ==
    /\ stream \in {"open", "refused"}
    /\ stream' = "broken"
    /\ \E kept \in 0..Len(wire) : wire' = SubSeq(wire, 1, kept)
    /\ UNCHANGED <<grpc, writer, retry, queue, queued, connected, receiver, events, blocked, handler,
                   server, delivered>>

(* The peer blocks this node.  Only HandleConnectRequest asks for it, so    *)
(* what is blocked after that is left out.                                  *)
Block ==
    /\ ~blocked /\ writer = "trying"
    /\ blocked' = TRUE
    /\ UNCHANGED <<grpc, writer, retry, queue, queued, link, wire, handler, server, delivered>>

(* Mutant: a failed Read is tried again.                                    *)
ReceiveRetries ==
    /\ handler = "reading" /\ wire = <<>> /\ stream = "none"
    /\ handler' = "ended"
    /\ UNCHANGED <<grpc, writer, retry, queue, queued, link, wire, blocked, server, delivered>>

(* GrpcService::Receive returns: everything is read and the client has      *)
(* closed, or lost, its stream.  It never ends on its own account.          *)
ReceiveReturns ==
    /\ handler = "reading" /\ wire = <<>> /\ stream \in {"none", "broken"}
    /\ handler' = "ended"
    /\ UNCHANGED <<grpc, writer, retry, queue, queued, link, wire, blocked, server, delivered>>

(* Remote::Shutdown of the peer: the server takes no new stream, and waits, *)
(* without a deadline, for the calls that run.                              *)
StopGrpcServer ==
    /\ grpc /\ server = "up"
    /\ server' = "stopping"
    /\ UNCHANGED <<grpc, writer, retry, queue, queued, link, wire, blocked, handler, delivered>>

(* Its thread is joined, and server and service are dropped.                *)
ServerStopped ==
    /\ server = "stopping" /\ handler # "reading"
    /\ server' = "down"
    /\ UNCHANGED <<grpc, writer, retry, queue, queued, link, wire, blocked, handler, delivered>>

Serve == HandleMessageBatch \/ ReceiveReturns

ReceiveLoop == ReadFails \/ ReadFreed \/ StoreLost \/ PublishLost \/ PublishRequest

Next ==
    \/ ConnectFails \/ ConnectRefused \/ ConnectSucceeds \/ StoreConnected
    \/ Deliver \/ Disconnect \/ CloseClientConn \/ HandleDisconnect
    \/ ReadDisconnectRequest \/ ReceiveLoop
    \/ Serve \/ StopGrpcServer \/ ServerStopped
    \/ StreamBreaks \/ Block

(* The receive thread and the actor, and at the peer the threads of its     *)
(* server, are threads of running processes: they go on while they can.     *)
(* Nothing is assumed of the network.                                       *)
Spec ==
    /\ Init /\ [][Next]_vars
    /\ WF_vars(ReceiveLoop) /\ WF_vars(CloseClientConn) /\ WF_vars(HandleDisconnect)
    /\ WF_vars(Serve) /\ WF_vars(ServerStopped)

-----------------------------------------------------------------------------
(* Properties                                                               *)

(* What an actor of the peer is handed is what was sent to it, of the same  *)
(* type and in the order it was handed to the writer, although batches      *)
(* share tables of types, targets and senders, messages are skipped and     *)
(* batches are lost.  The sender of a user message is the right one, but it *)
(* is inside the envelope that the actor gets as its message, and Sender()  *)
(* is null.                                                                 *)
DeliveredIntact ==
    \A i \in DOMAIN delivered :
        LET d == delivered[i]
            q == queued[d.n]
        IN  /\ d.target = q.target /\ d.message.type = q.type
            /\ q.type \notin SystemMessages => d.message.envelope = q.sender
            /\ i > 1 => delivered[i - 1].n < d.n

(* A connection that was made is announced as lost once its stream is gone, *)
(* whoever notices first: a disconnect of the peer, a broken stream that    *)
(* the receive thread reads from or the writer writes to, or the writer     *)
(* being told to stop.  The one exception is the writer's own               *)
(* CloseClientConn, if it destroys the stream the receive thread is reading *)
(* and this thread does not survive it.                                     *)
LossAnnounced ==
    (receiver \in {"announce", "left", "lost"} \/ (receiver = "reading" /\ stream # "open"))
        ~> (events > 0 \/ receiver \in {"hung", "dead"})

(* After a shutdown of the peer's server has returned nothing is delivered. *)
QuietAfterShutdown == [][server = "down" => delivered' = delivered]_vars

(* A shutdown of the peer's server returns, and nothing is delivered after  *)
(* it has, provided the node lets go of its stream: the shutdown waits for  *)
(* calls that only the other side ends, that of a refused node included.    *)
ShutdownReturns ==
    /\ (server = "stopping" /\ stream \in {"none", "broken"}) ~> (server = "down")
    /\ QuietAfterShutdown

=============================================================================
