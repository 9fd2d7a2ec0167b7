------------------------------ MODULE WebSocket ------------------------------
(***************************************************************************)
(* The WebSocket output (output/websocket.go, output/websocket/): Run      *)
(* hands every record to a server, which puts it in the queue of every     *)
(* client it knows; a client has a writer, which sends what its filters    *)
(* let through, and a reader, which notices that the peer has gone.  The   *)
(* channels of the server are unbuffered and its select is the only        *)
(* receiver, so that add, del and SendAll are one step of both ends.       *)
(*                                                                         *)
(* A record is its position in the stream.                                 *)
(***************************************************************************)
EXTENDS Integers, Sequences, FiniteSets

CONSTANTS Clients,
          Wants,     \* client -> the records its filters match
          QueueCap,  \* channelBufSize
          MaxSends,  \* bound: records
          NoClient

WebSocketAssumption == /\ IsFiniteSet(Clients) /\ NoClient \notin Clients
                       /\ Wants \in [Clients -> SUBSET Nat]
                       /\ QueueCap \in Nat \ {0} /\ MaxSends \in Nat

VARIABLES maxId,    \* the package's counter of clients
          client,   \* per client: id, state of reader and writer, queue, doneCh
          clients,  \* the server's map: id -> client
          sends,    \* records broadcast
          got,      \* per client: what its peer has been sent
          missed,   \* per client: what found its queue full
          unsent,   \* per client: what failed to be sent
          panicked  \* a doneCh was closed twice

wsvars == <<maxId, client, clients, sends, got, missed, unsent, panicked>>

Ids == 0..Cardinality(Clients)
Registered(c) == clients[client[c].id] = c

WsInit ==
    /\ maxId = 0 /\ sends = 0 /\ panicked = FALSE
    /\ client = [c \in Clients |-> [id |-> 0, rd |-> "new", wr |-> "new", ch |-> <<>>,
                                    done |-> FALSE]]
    /\ clients = [i \in Ids |-> NoClient]
    /\ got = [c \in Clients |-> <<>>] /\ missed = [c \in Clients |-> {}]
    /\ unsent = [c \in Clients |-> {}]

(* newClient: maxId++, in the goroutine of the connection and without a     *)
(* lock; the id is what maxId is when the client is made.                   *)
Connect(c) ==
    /\ client[c].rd = "new"
    /\ maxId' = maxId + 1
    /\ client' = [client EXCEPT ![c].rd = "making"]
    /\ UNCHANGED <<clients, sends, got, missed, unsent, panicked>>

NewClient(c) ==
    /\ client[c].rd = "making"
    /\ client' = [client EXCEPT ![c].rd = "adding", ![c].id = maxId]
    /\ UNCHANGED <<maxId, clients, sends, got, missed, unsent, panicked>>

(* server.add, then Listen starts both goroutines.                          *)
Add(c) ==
    /\ client[c].rd = "adding"
    /\ clients' = [clients EXCEPT ![client[c].id] = c]
    /\ client' = [client EXCEPT ![c].rd = "listen", ![c].wr = "listen"]
    /\ UNCHANGED <<maxId, sends, got, missed, unsent, panicked>>

(* Fault: the newest record goes to the front of the queue.                 *)
SendAllToFront ==
    /\ sends < MaxSends
    /\ sends' = sends + 1
    /\ client' = [c \in Clients |-> IF client[c].id # 0 /\ Registered(c)
                      THEN [client[c] EXCEPT !.ch = <<sends + 1>> \o @] ELSE client[c]]
    /\ UNCHANGED <<maxId, clients, got, missed, unsent, panicked>>

(* SendAll: Write does not wait for a client whose queue is full.           *)
SendAll ==
    /\ sends < MaxSends
    /\ sends' = sends + 1
    /\ LET known == {c \in Clients : client[c].id # 0 /\ Registered(c)}
           full == {c \in known : Len(client[c].ch) = QueueCap}
       IN  /\ client' = [c \in Clients |-> IF c \in known \ full
                             THEN [client[c] EXCEPT !.ch = Append(@, sends + 1)] ELSE client[c]]
           /\ missed' = [c \in Clients |-> IF c \in full THEN missed[c] \cup {sends + 1}
                                                         ELSE missed[c]]
    /\ UNCHANGED <<maxId, clients, got, unsent, panicked>>

(* Done: close(doneCh), which panics when it is closed already.             *)
Done(c) ==
    IF client[c].done THEN panicked' = TRUE ELSE UNCHANGED panicked

(* listenWrite: the next record of the queue is sent if it is wanted; when  *)
(* the peer has gone (io.EOF) the writer closes doneCh and ends.  Any other *)
(* error is ignored: the record is lost to this peer.                       *)
WriteNext(c) ==
    /\ client[c].wr = "listen" /\ client[c].ch # <<>>
    /\ LET msg == Head(client[c].ch)
           rest == [client EXCEPT ![c].ch = Tail(@)]
       IN  \/ /\ client' = rest
              /\ got' = IF msg \in Wants[c] THEN [got EXCEPT ![c] = Append(@, msg)] ELSE got
              /\ UNCHANGED <<unsent, panicked>>
           \/ /\ msg \in Wants[c]
              /\ client' = rest
              /\ unsent' = [unsent EXCEPT ![c] = @ \cup {msg}]
              /\ UNCHANGED <<got, panicked>>
           \/ /\ msg \in Wants[c]
              /\ Done(c)
              /\ client' = [rest EXCEPT ![c].wr = "returned", ![c].done = TRUE]
              /\ UNCHANGED <<got, unsent>>
    /\ UNCHANGED <<maxId, clients, sends, missed>>

(* server.del, by whichever of the two sees doneCh closed.                  *)
Del(c) == clients' = [clients EXCEPT ![client[c].id] = NoClient]

WriterDone(c) ==
    /\ client[c].wr = "listen" /\ client[c].done
    /\ Del(c)
    /\ client' = [client EXCEPT ![c].wr = "returned"]
    /\ UNCHANGED <<maxId, sends, got, missed, unsent, panicked>>

(* listenRead waits for the peer: when it has gone the reader closes doneCh *)
(* too, whether or not the writer has done so in the meantime.              *)
ReadEOF(c) ==
    /\ client[c].rd = "listen"
    /\ Done(c)
    /\ client' = [client EXCEPT ![c].rd = "leave", ![c].done = TRUE]
    /\ UNCHANGED <<maxId, clients, sends, got, missed, unsent>>

(* After what the peer has sent, or an error, it looks at doneCh again.     *)
ReadMessage(c) ==
    /\ client[c].rd = "listen" /\ client[c].done
    /\ client' = [client EXCEPT ![c].rd = "leave"]
    /\ UNCHANGED <<maxId, clients, sends, got, missed, unsent, panicked>>

(* Fault: the reader leaves it to the writer to tell the server.            *)
ReaderDoneQuietly(c) ==
    /\ client[c].rd = "leave"
    /\ client' = [client EXCEPT ![c].rd = "returned"]
    /\ UNCHANGED <<maxId, clients, sends, got, missed, unsent, panicked>>

ReaderDone(c) ==
    /\ client[c].rd = "leave"
    /\ Del(c)
    /\ client' = [client EXCEPT ![c].rd = "returned"]
    /\ UNCHANGED <<maxId, sends, got, missed, unsent, panicked>>

WsNext ==
    /\ ~panicked
    /\ \/ SendAll
       \/ \E c \in Clients : \/ Connect(c) \/ NewClient(c) \/ Add(c) \/ WriteNext(c)
                             \/ WriterDone(c) \/ ReadEOF(c) \/ ReadMessage(c) \/ ReaderDone(c)
WsSpec == WsInit /\ [][WsNext]_wsvars

WsTypeOK ==
    /\ maxId \in 0..Cardinality(Clients) /\ sends \in 0..MaxSends /\ panicked \in BOOLEAN
    /\ clients \in [Ids -> Clients \cup {NoClient}]
    /\ \A c \in Clients : Len(client[c].ch) <= QueueCap

(* Does another client have the id of c?  Then it has taken its place.      *)
Alone(c) == \A d \in Clients \ {c} : client[d].id # client[c].id

(* A client that shares its id with no other is known to the server from    *)
(* the time it has been added until one of its goroutines has noticed that  *)
(* the peer has gone, and is forgotten once both have ended.                *)
KnownWhileConnected ==
    \A c \in Clients : client[c].id # 0 /\ Alone(c) =>
        /\ client[c].rd = "listen" /\ ~client[c].done => Registered(c)
        /\ client[c].rd = "returned" => ~Registered(c)

Elements(s) == {s[i] : i \in DOMAIN s}
Increasing(s) == \A i, j \in DOMAIN s : i < j => s[i] < s[j]

(* A peer is sent the records its filters match, each once and in the order *)
(* of the stream, and all of those that were broadcast while the server     *)
(* knew it but for the ones that found its queue full or whose sending      *)
(* failed.                                                                  *)
PeersInOrder ==
    \A c \in Clients :
        LET queue == client[c].ch
            wanted == Elements(got[c]) \cup unsent[c] \cup (Elements(queue) \cap Wants[c])
        IN  /\ Increasing(got[c]) /\ Increasing(queue)
            /\ \A m \in Elements(got[c]), n \in Elements(queue) : m < n
            /\ Elements(got[c]) \subseteq Wants[c]
            /\ ~client[c].done /\ Alone(c) =>
                  \A m \in Wants[c] : m <= sends /\ (\E n \in wanted : n <= m)
                                         => m \in wanted \cup missed[c]
=============================================================================
