--------------------------- MODULE TunnelRegistry ---------------------------
(***************************************************************************)
(* The registry of gpustack/websocket_proxy/message_server.py for one      *)
(* worker that keeps a websocket tunnel to a server: the handler of every  *)
(* connection registers the worker, tells the federated peer, runs the     *)
(* connect callback, serves, and undoes it all when the websocket ends.    *)
(* The callbacks write worker.proxy_address (gateway/utils.py).            *)
(*                                                                         *)
(* The worker opens a connection only after its previous one ended on its  *)
(* side, but the server may learn of that end much later, and a handler    *)
(* gives the loop up at every await, so the end of one connection and the  *)
(* beginning of the next interleave.                                       *)
(***************************************************************************)
EXTENDS Integers, Sequences

CONSTANTS
    MaxConns,   \* bound on the connections the worker opens
    MaxDrops    \* bound on the times the link to the peer drops

VARIABLES
    socket,    \* socket[k]: "none", "open", "lost" (the server does not know), "ended"
    phase,     \* phase[k]: where handle_client_connection of k is
    gens,      \* gens[k]: the generation handler k was given, 0 before
    lastGen,   \* _client_generations of the worker
    read,      \* read[k]: the proxy_address a callback of k has read
    registry,  \* client_registry: the connection that registered the worker, or 0
    manager,   \* connection_managers: the connection its tunnel uses, or 0
    address,   \* worker.proxy_address: is it set?
    link,      \* the peer in serving_peers: "down", "joining", "up"
    wire,      \* client updates on their way to the peer
    peer,      \* does the peer's registry have the worker?
    drops,     \* how often the link dropped
    overlap    \* has a connection registered before an older handler was done?

tvars == <<socket, phase, gens, lastGen, read, registry, manager, address, link,
           wire, peer, drops, overlap>>

Conns == 1 .. MaxConns
None == 0

Init ==
    /\ socket = [k \in Conns |-> "none"]
    /\ phase = [k \in Conns |-> "none"]
    /\ gens = [k \in Conns |-> 0]
    /\ lastGen = 0
    /\ read = [k \in Conns |-> FALSE]
    /\ registry = None
    /\ manager = None
    /\ address = FALSE
    /\ link = "down"
    /\ wire = <<>>
    /\ peer = FALSE
    /\ drops = 0
    /\ overlap = FALSE

\* get_connection_manager: the connection a request for the worker goes to.
Route == IF registry = None THEN None ELSE manager

At(k, from, to) == phase[k] = from /\ phase' = [phase EXCEPT ![k] = to]

\* broadcast_client_update: every connected peer is sent the update.
Broadcast(action) == wire' = IF link = "down" THEN wire ELSE Append(wire, action)

-----------------------------------------------------------------------------
(* The worker: MessageClient.run. *)

Connect(k) ==
    /\ socket[k] = "none"
    /\ \A j \in 1 .. (k - 1) : socket[j] \in {"lost", "ended"}
    /\ socket' = [socket EXCEPT ![k] = "open"]
    /\ At(k, "none", "accepting")
    /\ UNCHANGED <<gens, lastGen, read, registry, manager, address, link, wire,
                   peer, drops, overlap>>

\* The connection ends at the worker; the server learns of it at once or later.
Lose(k) ==
    /\ socket[k] = "open"
    /\ socket' = [socket EXCEPT ![k] = "lost"]
    /\ UNCHANGED <<phase, gens, lastGen, read, registry, manager, address, link,
                   wire, peer, drops, overlap>>

Notice(k) ==
    /\ socket[k] = "lost"
    /\ socket' = [socket EXCEPT ![k] = "ended"]
    /\ UNCHANGED <<phase, gens, lastGen, read, registry, manager, address, link,
                   wire, peer, drops, overlap>>

-----------------------------------------------------------------------------
(* handle_client_connection. *)

(***************************************************************************)
(* After accept(): the worker is registered whoever was before, and the    *)
(* peers are told.                                                         *)
(***************************************************************************)
Register(k) ==
    /\ At(k, "accepting", "adding")
    /\ registry' = k
    /\ manager' = k
    /\ Broadcast("add")
    /\ overlap' = (overlap \/ \E j \in Conns : j < k /\ phase[j] # "done")
    /\ UNCHANGED <<socket, gens, lastGen, read, address, link, peer, drops>>

\* _get_next_generation, and the connect callback loads the worker's row.
TakeGeneration(k) ==
    /\ At(k, "adding", "connecting")
    /\ lastGen' = lastGen + 1
    /\ gens' = [gens EXCEPT ![k] = lastGen + 1]
    /\ read' = [read EXCEPT ![k] = address]
    /\ UNCHANGED <<socket, registry, manager, address, link, wire, peer, drops, overlap>>

\* The connect callback writes unless the row it loaded has the address.
ConnectCallback(k) ==
    /\ At(k, "connecting", "serving")
    /\ address' = IF read[k] THEN address ELSE TRUE
    /\ UNCHANGED <<socket, gens, lastGen, read, registry, manager, link, wire, peer,
                   drops, overlap>>

\* Mutant: the tunnel's connection manager is not removed.
CleanUpRegistry(k) ==
    /\ socket[k] = "ended"
    /\ At(k, "serving", IF registry = None THEN "unknown" ELSE "removing")
    /\ registry' = None
    /\ Broadcast("remove")
    /\ UNCHANGED <<socket, gens, lastGen, read, manager, address, link, peer, drops, overlap>>

\* Mutant: the peers are not told.
CleanUpSilently(k) ==
    /\ socket[k] = "ended"
    /\ At(k, "serving", IF registry = None THEN "unknown" ELSE "removing")
    /\ registry' = None
    /\ manager' = None
    /\ UNCHANGED <<socket, gens, lastGen, read, address, link, wire, peer, drops, overlap>>

(***************************************************************************)
(* handle_client sees the end and cleans up whatever is registered under   *)
(* the worker's id; the peers are told.  client_info may be gone already.  *)
(***************************************************************************)
CleanUp(k) ==
    /\ socket[k] = "ended"
    /\ At(k, "serving", IF registry = None THEN "unknown" ELSE "removing")
    /\ registry' = None
    /\ manager' = None
    /\ Broadcast("remove")
    /\ UNCHANGED <<socket, gens, lastGen, read, address, link, peer, drops, overlap>>

(***************************************************************************)
(* _safe_disconnect_callback: nothing without client_info, nothing for an  *)
(* older generation; otherwise the callback loads the worker's row.        *)
(***************************************************************************)
FilterCallback(k) ==
    /\ \/ At(k, "unknown", "done")
       \/ gens[k] < lastGen /\ At(k, "removing", "done")
       \/ gens[k] >= lastGen /\ At(k, "removing", "clearing")
    /\ read' = [read EXCEPT ![k] = address]
    /\ UNCHANGED <<socket, gens, lastGen, registry, manager, address, link, wire,
                   peer, drops, overlap>>

DisconnectCallback(k) ==
    /\ At(k, "clearing", "done")
    /\ address' = IF read[k] THEN FALSE ELSE address
    /\ UNCHANGED <<socket, gens, lastGen, read, registry, manager, link, wire, peer,
                   drops, overlap>>

-----------------------------------------------------------------------------
(* Federation. *)

\* handle_server_federation: the peer gets broadcasts from here on.
PeerJoins ==
    /\ link = "down"
    /\ link' = "joining"
    /\ UNCHANGED <<socket, phase, gens, lastGen, read, registry, manager, address,
                   wire, peer, drops, overlap>>

\* send_client_update_to_peer: the workers that are connected already.
SendClients ==
    /\ link = "joining"
    /\ link' = "up"
    /\ wire' = IF registry = None THEN wire ELSE Append(wire, "add")
    /\ UNCHANGED <<socket, phase, gens, lastGen, read, registry, manager, address,
                   peer, drops, overlap>>

\* handle_peer_client_update at the peer.
PeerUpdates ==
    /\ wire # <<>>
    /\ wire' = Tail(wire)
    /\ peer' = (Head(wire) = "add")
    /\ UNCHANGED <<socket, phase, gens, lastGen, read, registry, manager, address,
                   link, drops, overlap>>

\* The link ends; the peer's handle_peer removes the workers it got over it.
PeerDrops ==
    /\ link # "down"
    /\ drops < MaxDrops
    /\ drops' = drops + 1
    /\ link' = "down"
    /\ wire' = <<>>
    /\ peer' = FALSE
    /\ UNCHANGED <<socket, phase, gens, lastGen, read, registry, manager, address, overlap>>

-----------------------------------------------------------------------------
Handler(k) ==
    \/ Register(k)
    \/ TakeGeneration(k)
    \/ ConnectCallback(k)
    \/ CleanUp(k)
    \/ FilterCallback(k)
    \/ DisconnectCallback(k)

Next ==
    \/ \E k \in Conns : Connect(k) \/ Lose(k) \/ Notice(k) \/ Handler(k)
    \/ PeerJoins \/ SendClients \/ PeerUpdates \/ PeerDrops

Spec == Init /\ [][Next]_tvars

-----------------------------------------------------------------------------
(* Properties. *)

TypeOK ==
    /\ socket \in [Conns -> {"none", "open", "lost", "ended"}]
    /\ phase \in [Conns -> {"none", "accepting", "adding", "connecting", "serving",
                            "unknown", "removing", "clearing", "done"}]
    /\ gens \in [Conns -> 0 .. MaxConns]
    /\ lastGen \in 0 .. MaxConns
    /\ read \in [Conns -> BOOLEAN]
    /\ registry \in Conns \cup {None}
    /\ manager \in Conns \cup {None}
    /\ address \in BOOLEAN
    /\ link \in {"down", "joining", "up"}
    /\ \A n \in DOMAIN wire : wire[n] \in {"add", "remove"}
    /\ peer \in BOOLEAN
    /\ drops \in 0 .. MaxDrops
    /\ overlap \in BOOLEAN

\* The server has noticed every end and every handler serves or is done.
Settled ==
    /\ \A k \in Conns : socket[k] # "lost"
    /\ \A k \in Conns : \/ phase[k] \in {"none", "done"}
                        \/ phase[k] = "serving" /\ socket[k] = "open"

Tunnelled(k) == socket[k] = "open" /\ phase[k] = "serving"

(***************************************************************************)
(* However connections overlap, a request is never sent down a connection  *)
(* whose handler has cleaned up: connection_managers holds nothing that    *)
(* nobody serves.                                                          *)
(***************************************************************************)
RouteIsServed ==
    manager # None =>
        phase[manager] \in {"adding", "connecting", "serving"}

(***************************************************************************)
(* When the server has noticed the end of a connection before the next one *)
(* registers, the route, the address in the database and the peer's view   *)
(* agree with the tunnel once the handlers and the link are settled.       *)
(***************************************************************************)
OrderlyReconnect ==
    Settled /\ ~overlap =>
        /\ \A k \in Conns : Tunnelled(k) => Route = k /\ address
        /\ (\A k \in Conns : ~Tunnelled(k)) => Route = None /\ ~address
        /\ link = "up" /\ wire = <<>> => peer = (Route # None)

(***************************************************************************)
(* worker_websocket_connect_callback: on connect the address is what the   *)
(* gateway routes to, "on disconnect it is None, clearing the field so the *)
(* worker is no longer reachable via tunnel"; the filter by generation is  *)
(* there "to avoid stale callbacks".  So once all is settled the address   *)
(* is set exactly when the worker's tunnel is up and routed to.            *)
(***************************************************************************)
AddressFollowsTunnel ==
    Settled => address = (\E k \in Conns : Tunnelled(k) /\ Route = k)
=============================================================================
