---------------------------- MODULE TunnelSession ----------------------------
(***************************************************************************)
(* One session of a worker's tunnel: gpustack/websocket_proxy/connection.py*)
(* (TunnelConnection, relay, tunnel), connection_manager.py                *)
(* (ConnectionManager at the server, ClientConnectionManager at the        *)
(* worker) and the CONNECT handler of proxy_server.py.                     *)
(*                                                                         *)
(* The two sides are alike: each has an outer stream (the requester at the *)
(* server, the target at the worker), a TunnelConnection with a queue, and *)
(* two relays, `up' from the stream into the tunnel and `down' from the    *)
(* queue to the stream.  The websocket between them is FIFO until it drops.*)
(***************************************************************************)
EXTENDS Integers, Sequences

CONSTANT MaxChunks    \* bound on the chunks each stream produces

VARIABLES
    conn,      \* _handle_connect: "idle", "sending", "waiting", "open", "failed"
    answer,    \* the server's connect future: "none", "ok", "error"
    table,     \* table[s]: is the session in _connections of s?
    queue,     \* queue[s]: _response_queue of the TunnelConnection of s
    up,        \* up[s]: the relay from the stream of s: "off", "run", "done"
    down,      \* down[s]: the relay to the stream of s
    sent,      \* sent[s]: chunks read from the stream of s
    got,       \* got[s]: the chunks written to the stream of s
    ended,     \* ended[s]: the stream's far end has closed it
    closed,    \* closed[s]: s has closed the stream
    chan,      \* chan[s]: messages on their way to s
    ws,        \* is the websocket up?
    expired    \* has a read of a TunnelConnection timed out?

svars == <<conn, answer, table, queue, up, down, sent, got, ended, closed, chan,
           ws, expired>>

Sides == {"server", "worker"}
Other(s) == IF s = "server" THEN "worker" ELSE "server"
EOF == 0
Kinds == {"request", "ok", "error", "data", "bye"}

Init ==
    /\ conn = "idle"
    /\ answer = "none"
    /\ table = [s \in Sides |-> FALSE]
    /\ queue = [s \in Sides |-> <<>>]
    /\ up = [s \in Sides |-> "off"]
    /\ down = [s \in Sides |-> "off"]
    /\ sent = [s \in Sides |-> 0]
    /\ got = [s \in Sides |-> <<>>]
    /\ ended = [s \in Sides |-> FALSE]
    /\ closed = [s \in Sides |-> FALSE]
    /\ chan = [s \in Sides |-> <<>>]
    /\ ws = TRUE
    /\ expired = FALSE

\* _send_to_websocket of s.
Sent(s, ch, kind, n) ==
    IF ws THEN [ch EXCEPT ![Other(s)] = Append(@, [kind |-> kind, n |-> n])] ELSE ch

\* TunnelConnection.close: say goodbye if the websocket takes it, unblock the reader.
Close(s, ch) ==
    /\ chan' = Sent(s, ch, "bye", 0)
    /\ queue' = [queue EXCEPT ![s] = Append(@, EOF)]

-----------------------------------------------------------------------------
(* The server's side of the handshake: ConnectionManager._websocket_connect. *)

Request ==
    /\ conn = "idle"
    /\ conn' = "sending"
    /\ table' = [table EXCEPT !["server"] = TRUE]
    /\ chan' = Sent("server", chan, "request", 0)
    /\ UNCHANGED <<answer, queue, up, down, sent, got, ended, closed, ws, expired>>

(***************************************************************************)
(* The send returns.  connect_result is read only now: an answer that came *)
(* meanwhile has cleared it, and waiting for None raises.                  *)
(***************************************************************************)
RequestSent ==
    /\ conn = "sending"
    /\ conn' = IF answer = "none" THEN "waiting" ELSE "failed"
    /\ UNCHANGED <<answer, table, queue, up, down, sent, got, ended, closed, chan, ws,
                   expired>>

\* The future is done: the tunnel starts, or the requester gets a 502.
Answered ==
    /\ conn = "waiting"
    /\ answer # "none"
    /\ conn' = IF answer = "ok" THEN "open" ELSE "failed"
    /\ up' = [up EXCEPT !["server"] = IF answer = "ok" THEN "run" ELSE @]
    /\ down' = [down EXCEPT !["server"] = IF answer = "ok" THEN "run" ELSE @]
    /\ UNCHANGED <<answer, table, queue, sent, got, ended, closed, chan, ws, expired>>

\* 30 seconds without an answer: the session is forgotten, the worker not told.
ConnectTimeout ==
    /\ conn = "waiting"
    /\ answer = "none"
    /\ conn' = "failed"
    /\ table' = [table EXCEPT !["server"] = FALSE]
    /\ UNCHANGED <<answer, queue, up, down, sent, got, ended, closed, chan, ws, expired>>

-----------------------------------------------------------------------------
(* dispatch. *)

Take(s) == /\ chan[s] # <<>>
           /\ chan' = [chan EXCEPT ![s] = Tail(@)]

Is(s, kind) == chan[s] # <<>> /\ Head(chan[s]).kind = kind

\* handle_client_connect_request: the target is reached and the tunnel starts.
Accept ==
    /\ Is("worker", "request")
    /\ table' = [table EXCEPT !["worker"] = TRUE]
    /\ chan' = Sent("worker", [chan EXCEPT !["worker"] = Tail(@)], "ok", 0)
    /\ up' = [up EXCEPT !["worker"] = "run"]
    /\ down' = [down EXCEPT !["worker"] = "run"]
    /\ UNCHANGED <<conn, answer, queue, sent, got, ended, closed, ws, expired>>

\* The target is not reached within 5 seconds.
Refuse ==
    /\ Is("worker", "request")
    /\ chan' = Sent("worker", [chan EXCEPT !["worker"] = Tail(@)], "error", 0)
    /\ UNCHANGED <<conn, answer, table, queue, up, down, sent, got, ended, closed, ws,
                   expired>>

\* ConnectResponseMessage: ignored when the session has timed out.
Response ==
    /\ Is("server", "ok") \/ Is("server", "error")
    /\ Take("server")
    /\ answer' = IF table["server"] THEN Head(chan["server"]).kind ELSE answer
    /\ UNCHANGED <<conn, table, queue, up, down, sent, got, ended, closed, ws, expired>>

\* Mutant: data that comes before the requester's relays run is dropped.
ReceiveDataWhenOpen(s) ==
    /\ Is(s, "data")
    /\ Take(s)
    /\ queue' = [queue EXCEPT ![s] = IF table[s] /\ (s = "worker" \/ conn = "open")
                                     THEN Append(@, Head(chan[s]).n) ELSE @]
    /\ UNCHANGED <<conn, answer, table, up, down, sent, got, ended, closed, ws, expired>>

\* DataMessage: queued unless the session is gone or not connected.
ReceiveData(s) ==
    /\ Is(s, "data")
    /\ Take(s)
    /\ queue' = [queue EXCEPT ![s] = IF table[s] /\ (s = "worker" \/ answer = "ok")
                                     THEN Append(@, Head(chan[s]).n) ELSE @]
    /\ UNCHANGED <<conn, answer, table, up, down, sent, got, ended, closed, ws, expired>>

\* DisconnectMessage: the session leaves the table and is closed in turn.
ReceiveBye(s) ==
    /\ Is(s, "bye")
    /\ table' = [table EXCEPT ![s] = FALSE]
    /\ IF table[s] THEN Close(s, [chan EXCEPT ![s] = Tail(@)])
                   ELSE Take(s) /\ UNCHANGED queue
    /\ UNCHANGED <<conn, answer, up, down, sent, got, ended, closed, ws, expired>>

-----------------------------------------------------------------------------
(* The relays. *)

\* A chunk from the stream; on a lost websocket the write raises and up ends.
RelayUp(s) ==
    /\ up[s] = "run"
    /\ ~ended[s] /\ ~closed[s]
    /\ sent[s] < MaxChunks
    /\ IF ws THEN /\ sent' = [sent EXCEPT ![s] = @ + 1]
                  /\ chan' = Sent(s, chan, "data", sent[s] + 1)
                  /\ UNCHANGED <<up, queue>>
             ELSE /\ up' = [up EXCEPT ![s] = "done"]
                  /\ Close(s, chan)
                  /\ UNCHANGED sent
    /\ UNCHANGED <<conn, answer, table, down, got, ended, closed, ws, expired>>

\* The stream has ended, or s has closed it: the tunnel is closed.
EndUp(s) ==
    /\ up[s] = "run"
    /\ ended[s] \/ closed[s]
    /\ up' = [up EXCEPT ![s] = "done"]
    /\ Close(s, chan)
    /\ UNCHANGED <<conn, answer, table, down, sent, got, ended, closed, ws, expired>>

\* A chunk from the queue is written to the stream.
RelayDown(s) ==
    /\ down[s] = "run"
    /\ queue[s] # <<>> /\ Head(queue[s]) # EOF
    /\ queue' = [queue EXCEPT ![s] = Tail(@)]
    /\ got' = [got EXCEPT ![s] = Append(@, Head(queue[s]))]
    /\ UNCHANGED <<conn, answer, table, up, down, sent, ended, closed, chan, ws, expired>>

\* Mutant: a relay that ends leaves its writer open.
EndDownOpen(s) ==
    /\ down[s] = "run"
    /\ queue[s] # <<>> /\ (Head(queue[s]) = EOF \/ ended[s])
    /\ queue' = [queue EXCEPT ![s] = Tail(@)]
    /\ down' = [down EXCEPT ![s] = "done"]
    /\ UNCHANGED <<conn, answer, table, up, sent, got, ended, closed, chan, ws, expired>>

\* EOF from the queue, or a write that fails because the far end is gone.
EndDown(s) ==
    /\ down[s] = "run"
    /\ queue[s] # <<>> /\ (Head(queue[s]) = EOF \/ ended[s])
    /\ queue' = [queue EXCEPT ![s] = Tail(@)]
    /\ down' = [down EXCEPT ![s] = "done"]
    /\ closed' = [closed EXCEPT ![s] = TRUE]
    /\ UNCHANGED <<conn, answer, table, up, sent, got, ended, chan, ws, expired>>

\* TunnelConnection.read: 3000 seconds without data.
ReadTimeout(s) ==
    /\ down[s] = "run"
    /\ queue[s] = <<>>
    /\ down' = [down EXCEPT ![s] = "done"]
    /\ closed' = [closed EXCEPT ![s] = TRUE]
    /\ expired' = TRUE
    /\ UNCHANGED <<conn, answer, table, queue, up, sent, got, ended, chan, ws>>

Relayed(s) == up[s] = "done" /\ down[s] = "done"

\* tunnel_and_close at the worker: the session leaves the table.
Finish ==
    /\ Relayed("worker")
    /\ table["worker"]
    /\ table' = [table EXCEPT !["worker"] = FALSE]
    /\ Close("worker", chan)
    /\ UNCHANGED <<conn, answer, up, down, sent, got, ended, closed, ws, expired>>

-----------------------------------------------------------------------------
(* The environment. *)

\* The requester or the target closes its connection.
StreamEnds(s) ==
    /\ up[s] = "run"
    /\ ~ended[s]
    /\ ended' = [ended EXCEPT ![s] = TRUE]
    /\ UNCHANGED <<conn, answer, table, queue, up, down, sent, got, closed, chan, ws,
                   expired>>

Drop ==
    /\ ws
    /\ ws' = FALSE
    /\ chan' = [s \in Sides |-> <<>>]
    /\ UNCHANGED <<conn, answer, table, queue, up, down, sent, got, ended, closed, expired>>

-----------------------------------------------------------------------------
Handshake == RequestSent \/ Answered \/ ConnectTimeout
Dispatch == \/ Accept \/ Refuse \/ Response
            \/ \E s \in Sides : ReceiveData(s) \/ ReceiveBye(s)
Deliver(s) == RelayDown(s) \/ EndDown(s) \/ ReadTimeout(s)

Next ==
    \/ Request \/ Handshake \/ Dispatch \/ Finish \/ Drop
    \/ \E s \in Sides : RelayUp(s) \/ EndUp(s) \/ Deliver(s) \/ StreamEnds(s)

Spec == Init /\ [][Next]_svars

-----------------------------------------------------------------------------
(* Properties. *)

TypeOK ==
    /\ conn \in {"idle", "sending", "waiting", "open", "failed"}
    /\ answer \in {"none", "ok", "error"}
    /\ {table, ended, closed} \subseteq [Sides -> BOOLEAN]
    /\ {up, down} \subseteq [Sides -> {"off", "run", "done"}]
    /\ sent \in [Sides -> 0 .. MaxChunks]
    /\ {queue, got} \subseteq [Sides -> Seq(0 .. MaxChunks)]
    /\ chan \in [Sides -> Seq([kind : Kinds, n : 0 .. MaxChunks])]
    /\ {ws, expired} \subseteq BOOLEAN

(***************************************************************************)
(* Chunks reach a stream in the order the other side read them, and none   *)
(* is missing: when a side stops delivering and its own stream had not     *)
(* ended, everything the other side read was delivered.  The goodbye never *)
(* overtakes data, and what comes between the answer and the start of the  *)
(* relays is kept.  A lost websocket and the read timeout are exceptions.  *)
(***************************************************************************)
NothingTruncated ==
    \A s \in Sides :
        /\ \A n \in DOMAIN got[s] : got[s][n] = n
        /\ down[s] = "done" /\ ~ended[s] /\ ws /\ ~expired =>
               Len(got[s]) = sent[Other(s)]

(***************************************************************************)
(* A session leaves nothing behind: once the requester's side is over, or  *)
(* the target's, or the websocket is lost, the worker's relays end and the *)
(* session leaves its table; and it leaves the server's table too unless   *)
(* the target was refused or the answer came before the request's send     *)
(* returned, which keep their entry until the websocket ends.              *)
(***************************************************************************)
ServerOver == conn = "failed" \/ down["server"] = "done"

Kept == answer = "error" \/ conn = "failed" \/ ~ws

SessionsEnd ==
    (ServerOver \/ ended["worker"] \/ (~ws /\ conn # "idle")) ~>
        /\ up["worker"] # "run" /\ down["worker"] # "run" /\ ~table["worker"]
        /\ table["server"] => Kept
=============================================================================
