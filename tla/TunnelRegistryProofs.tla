------------------------- MODULE TunnelRegistryProofs -------------------------
(***************************************************************************)
(* The registry of tunnels for any number of connections of the worker and *)
(* any number of losses of the peer's link: nothing is routed to a         *)
(* connection that was cleaned up, and reconnects that do not overlap      *)
(* leave route, address and peer right.                                    *)
(***************************************************************************)
EXTENDS TunnelRegistry, TLAPS

Registered == {"adding", "connecting", "serving"}
Leaving == {"removing", "clearing"}
Phases == {"none", "accepting", "unknown", "done"} \cup Registered \cup Leaving

(***************************************************************************)
(* The strengthening of RouteIsServed: both tables name the same           *)
(* connection.                                                             *)
(***************************************************************************)
TableInv ==
    /\ phase \in [Conns -> Phases]
    /\ registry \in Conns \cup {None}
    /\ manager = registry
    /\ registry # None => phase[registry] \in Registered

\* The registry as the peer knows it once it has read all it was sent.
Seen == IF wire = <<>> THEN peer ELSE wire[Len(wire)] = "add"

(***************************************************************************)
(* What the peer will have seen agrees with the registry while the link is *)
(* up, and a worker it will have seen is registered while it joins.        *)
(***************************************************************************)
PeerInv ==
    /\ wire \in Seq({"add", "remove"})
    /\ peer \in BOOLEAN
    /\ link \in {"down", "joining", "up"}
    /\ link = "down" => wire = <<>> /\ ~peer
    /\ link = "joining" => (Seen => registry # None)
    /\ link = "up" => (Seen <=> registry # None)

(***************************************************************************)
(* Without overlap a handler that has registered has only finished ones    *)
(* before it, so it alone has changed registry and address since.          *)
(***************************************************************************)
HandlerInv(k) ==
    /\ phase[k] \notin {"none", "accepting"} =>
          \A j \in Conns : j < k => phase[j] = "done"
    /\ phase[k] # "unknown"
    /\ phase[k] \in Registered => registry = k
    /\ phase[k] \in Leaving => registry = None
    /\ phase[k] \in {"connecting", "serving"} \cup Leaving => gens[k] = lastGen
    /\ phase[k] \in {"adding", "connecting"} => ~address
    /\ phase[k] \in {"serving"} \cup Leaving => address
    /\ phase[k] = "connecting" => ~read[k]
    /\ phase[k] = "clearing" => read[k]

OrderInv ==
    /\ DOMAIN gens = Conns /\ DOMAIN read = Conns
    /\ lastGen \in Nat
    /\ ~overlap => /\ \A k \in Conns : HandlerInv(k)
                   /\ (\A k \in Conns : phase[k] \in {"none", "accepting", "done"}) =>
                         registry = None /\ ~address

-----------------------------------------------------------------------------
(***************************************************************************)
(* The tables.                                                             *)
(***************************************************************************)
LEMMA InitTable == Init => TableInv
BY DEF Init, TableInv, Phases

LEMMA NextTable == TableInv /\ [Next]_tvars => TableInv'
<1> SUFFICES ASSUME TableInv, [Next]_tvars PROVE TableInv'
  OBVIOUS
<1>1. CASE \E k \in Conns : Connect(k) \/ Lose(k) \/ Notice(k)
  BY <1>1 DEF TableInv, Connect, Lose, Notice, At, Phases, Registered, Conns, None
<1>2. CASE \E k \in Conns : Register(k)
  BY <1>2 DEF TableInv, Register, At, Phases, Registered
<1>3. CASE \E k \in Conns : TakeGeneration(k) \/ ConnectCallback(k)
  BY <1>3 DEF TableInv, TakeGeneration, ConnectCallback, At, Phases, Registered
<1>4. CASE \E k \in Conns : CleanUp(k)
  BY <1>4 DEF TableInv, CleanUp, At, Phases, Leaving
<1>5. CASE \E k \in Conns : FilterCallback(k) \/ DisconnectCallback(k)
  BY <1>5 DEF TableInv, FilterCallback, DisconnectCallback, At, Phases, Leaving, Registered
<1>6. CASE PeerJoins \/ SendClients \/ PeerUpdates \/ PeerDrops
  BY <1>6 DEF TableInv, PeerJoins, SendClients, PeerUpdates, PeerDrops
<1>7. CASE UNCHANGED tvars
  BY <1>7 DEF TableInv, tvars
<1> QED
  BY <1>1, <1>2, <1>3, <1>4, <1>5, <1>6, <1>7 DEF Next, Handler

(***************************************************************************)
(* RouteIsServed holds always: connection_managers holds no connection     *)
(* whose handler has cleaned up, however reconnects overlap                *)
(* (handle_client_connection, handle_client).                              *)
(***************************************************************************)
THEOREM RouteAlwaysServed == Spec => []RouteIsServed
<1>1. TableInv => RouteIsServed
  BY DEF TableInv, RouteIsServed, Registered
<1> QED
  BY <1>1, InitTable, NextTable, PTL DEF Spec

-----------------------------------------------------------------------------
(***************************************************************************)
(* The peer.                                                               *)
(***************************************************************************)
LEMMA InitPeer == Init => PeerInv
<1> SUFFICES ASSUME Init PROVE PeerInv
  OBVIOUS
<1>1. wire = <<>> /\ ~peer /\ link = "down"
  BY DEF Init
<1>2. peer \in BOOLEAN
  BY Zenon DEF Init
<1> QED
  BY <1>1, <1>2 DEF PeerInv

LEMMA Sent ==
    ASSUME wire \in Seq({"add", "remove"}), NEW a \in {"add", "remove"}, wire' = Append(wire, a)
    PROVE  /\ wire' \in Seq({"add", "remove"})
           /\ Seen' <=> a = "add"
BY DEF Seen

LEMMA NextPeer == TableInv /\ PeerInv /\ [Next]_tvars => PeerInv'
<1> SUFFICES ASSUME TableInv, PeerInv, [Next]_tvars PROVE PeerInv'
  OBVIOUS
<1>0. wire \in Seq({"add", "remove"})
  BY DEF PeerInv
<1>1. CASE UNCHANGED <<wire, peer, link, registry>>
  BY <1>1 DEF PeerInv, Seen
<1>2. CASE \E k \in Conns : Register(k)
  <2>1. PICK k \in Conns : Register(k)
    BY <1>2
  <2>2. registry' # None /\ UNCHANGED <<link, peer>>
    BY <2>1 DEF Register, Conns, None
  <2>3. CASE link = "down"
    BY <2>1, <2>2, <2>3 DEF Register, Broadcast, PeerInv
  <2>4. CASE link # "down"
    BY <1>0, <2>1, <2>2, <2>4, Sent DEF Register, Broadcast, PeerInv
  <2> QED
    BY <2>3, <2>4
<1>3. CASE \E k \in Conns : CleanUp(k)
  <2>1. PICK k \in Conns : CleanUp(k)
    BY <1>3
  <2>2. registry' = None /\ UNCHANGED <<link, peer>>
    BY <2>1 DEF CleanUp
  <2>3. CASE link = "down"
    BY <2>1, <2>2, <2>3 DEF CleanUp, Broadcast, PeerInv
  <2>4. CASE link # "down"
    BY <1>0, <2>1, <2>2, <2>4, Sent DEF CleanUp, Broadcast, PeerInv
  <2> QED
    BY <2>3, <2>4
<1>4. CASE PeerJoins
  BY <1>4 DEF PeerJoins, PeerInv, Seen
<1>5. CASE SendClients
  <2>1. CASE registry = None
    BY <1>5, <2>1 DEF SendClients, PeerInv, Seen
  <2>2. CASE registry # None
    BY <1>0, <1>5, <2>2, Sent DEF SendClients, PeerInv
  <2> QED
    BY <2>1, <2>2
<1>6. CASE PeerUpdates
  <2>1. /\ wire # <<>> /\ wire' = Tail(wire) /\ peer' = (Head(wire) = "add")
        /\ UNCHANGED <<link, registry>>
    BY <1>6 DEF PeerUpdates
  <2>2. wire' \in Seq({"add", "remove"}) /\ peer' \in BOOLEAN
    BY <1>0, <2>1
  <2>3. Seen' <=> Seen
    <3>1. CASE Len(wire) = 1
      <4>1. wire' = <<>> /\ wire[Len(wire)] = Head(wire)
        BY <1>0, <2>1, <3>1
      <4> QED
        BY <2>1, <4>1, Zenon DEF Seen
    <3>2. CASE Len(wire) # 1
      <4>1. wire' # <<>> /\ wire'[Len(wire')] = wire[Len(wire)]
        <5>1. Len(wire) \in Nat /\ Len(wire) > 1 /\ Len(wire') = Len(wire) - 1
          <6>1. Len(wire) \in Nat /\ Len(wire) # 0
            BY <1>0, <2>1
          <6>2. Len(Tail(wire)) = Len(wire) - 1
            BY <1>0, <2>1
          <6> QED
            BY <2>1, <3>2, <6>1, <6>2
        <5>2. \A n \in 1 .. Len(wire) - 1 : wire'[n] = wire[n + 1]
          BY <1>0, <2>1
        <5>3. wire'[Len(wire')] = wire[(Len(wire) - 1) + 1]
          BY <5>1, <5>2
        <5>4. wire' # <<>>
          BY <2>2, <5>1
        <5> QED
          BY <5>1, <5>3, <5>4
      <4> QED
        BY <2>1, <4>1 DEF Seen
    <3> QED
      BY <3>1, <3>2
  <2> QED
    BY <2>1, <2>2, <2>3 DEF PeerInv
<1>7. CASE PeerDrops
  <2>1. wire' = <<>> /\ ~peer' /\ link' = "down"
    BY <1>7 DEF PeerDrops
  <2>2. peer' \in BOOLEAN
    BY <1>7, Zenon DEF PeerDrops
  <2> QED
    BY <2>1, <2>2 DEF PeerInv
<1> QED
  BY <1>1, <1>2, <1>3, <1>4, <1>5, <1>6, <1>7
     DEF Next, Handler, Connect, Lose, Notice, TakeGeneration, ConnectCallback,
         FilterCallback, DisconnectCallback, tvars

-----------------------------------------------------------------------------
(***************************************************************************)
(* Reconnects without overlap.                                             *)
(***************************************************************************)
LEMMA InitOrder == Init => OrderInv
BY DEF Init, OrderInv, HandlerInv, Registered, Leaving

\* A handler's step: it is the only one that is neither new nor done.
LEMMA Alone ==
    ASSUME TableInv, OrderInv, ~overlap, NEW k \in Conns, phase[k] \in Registered \cup Leaving,
           NEW j \in Conns, j # k
    PROVE  phase[j] \in {"none", "accepting", "done"}
<1>1. j < k => phase[j] = "done"
  BY DEF OrderInv, HandlerInv, Registered, Leaving
<1>2. k < j => phase[j] \in {"none", "accepting"}
  BY DEF OrderInv, HandlerInv, Registered, Leaving
<1> QED
  BY <1>1, <1>2 DEF Conns

LEMMA QuietKeeps ==
    ASSUME OrderInv, UNCHANGED <<phase, gens, lastGen, read, registry, address, overlap>>
    PROVE  OrderInv'
BY DEF OrderInv, HandlerInv

LEMMA ConnectKeeps ==
    ASSUME TableInv, OrderInv, NEW k \in Conns, Connect(k)
    PROVE  OrderInv'
<1>1. /\ phase[k] = "none" /\ phase' = [phase EXCEPT ![k] = "accepting"]
      /\ UNCHANGED <<gens, lastGen, read, registry, address, overlap>>
  BY DEF Connect, At
<1>2. /\ phase'[k] = "accepting"
      /\ \A j \in Conns : j # k => phase'[j] = phase[j]
  BY <1>1 DEF TableInv
<1>3. ASSUME ~overlap, NEW j \in Conns PROVE HandlerInv(j)'
  <2>1. CASE j = k
    BY <1>2, <2>1 DEF HandlerInv, Registered, Leaving
  <2>2. CASE j # k
    <3>1. HandlerInv(j)
      BY <1>3 DEF OrderInv
    <3>2. \A i \in Conns : phase[i] = "done" => phase'[i] = "done"
      BY <1>1, <1>2
    <3> QED
      BY <1>1, <1>2, <2>2, <3>1, <3>2 DEF HandlerInv
  <2> QED
    BY <2>1, <2>2
<1> QED
  BY <1>1, <1>2, <1>3 DEF OrderInv

(***************************************************************************)
(* A registration without overlap finds every earlier handler done, and    *)
(* no later one has registered.                                            *)
(***************************************************************************)
LEMMA RegisterKeeps ==
    ASSUME TableInv, OrderInv, NEW k \in Conns, Register(k)
    PROVE  OrderInv'
<1>1. /\ phase[k] = "accepting" /\ phase' = [phase EXCEPT ![k] = "adding"]
      /\ registry' = k
      /\ UNCHANGED <<gens, lastGen, read, address>>
      /\ ~overlap' => ~overlap /\ \A j \in Conns : j < k => phase[j] = "done"
  BY DEF Register, At
<1>2. phase'[k] = "adding" /\ \A j \in Conns : j # k => phase'[j] = phase[j]
  BY <1>1 DEF TableInv
<1>3. ASSUME ~overlap' PROVE \A j \in Conns : j # k => phase[j] \in {"none", "accepting", "done"}
  <2> TAKE j \in Conns
  <2>1. j < k => phase[j] = "done"
    BY <1>1, <1>3
  <2>2. k < j => phase[j] \in {"none", "accepting"}
    BY <1>1, <1>3 DEF OrderInv, HandlerInv
  <2> QED
    BY <2>1, <2>2 DEF Conns
<1>4. ~overlap' => registry = None /\ ~address
  BY <1>1, <1>3 DEF OrderInv
<1>5. ASSUME ~overlap', NEW j \in Conns PROVE HandlerInv(j)'
  <2>1. CASE j = k
    <3>1. \A i \in Conns : i < k => phase'[i] = "done"
      BY <1>1, <1>2, <1>5 DEF Conns
    <3> QED
      BY <1>1, <1>2, <1>4, <1>5, <2>1, <3>1 DEF HandlerInv, Registered, Leaving
  <2>2. CASE j # k
    <3>1. HandlerInv(j) /\ phase'[j] = phase[j] /\ phase[j] \in {"none", "accepting", "done"}
      BY <1>1, <1>2, <1>3, <1>5, <2>2 DEF OrderInv
    <3>2. phase[j] = "done" => \A i \in Conns : i < j => phase'[i] = "done"
      <4> SUFFICES ASSUME phase[j] = "done", NEW i \in Conns, i < j PROVE phase'[i] = "done"
        OBVIOUS
      <4>1. phase[i] = "done"
        BY <3>1 DEF HandlerInv
      <4> QED
        BY <1>1, <1>2, <4>1
    <3> QED
      BY <3>1, <3>2 DEF HandlerInv, Registered, Leaving
  <2> QED
    BY <2>1, <2>2
<1> QED
  BY <1>1, <1>2, <1>5 DEF OrderInv

(***************************************************************************)
(* The later steps of a handler: the others are not concerned.             *)
(***************************************************************************)
LEMMA OthersKeep ==
    ASSUME TableInv, OrderInv, ~overlap, NEW k \in Conns, NEW to,
           phase[k] \in Registered \cup Leaving, phase' = [phase EXCEPT ![k] = to],
           NEW j \in Conns, j # k
    PROVE  HandlerInv(j)' /\ phase'[j] = phase[j]
<1>1. phase'[j] = phase[j] /\ \A i \in Conns : phase[i] = "done" => phase'[i] = "done"
  BY DEF TableInv, Registered, Leaving
<1>2. phase[j] \in {"none", "accepting", "done"}
  BY Alone
<1>3. HandlerInv(j)
  BY DEF OrderInv
<1> QED
  BY <1>1, <1>2, <1>3 DEF HandlerInv, Registered, Leaving

LEMMA HandlerKeeps ==
    ASSUME TableInv, OrderInv, NEW k \in Conns,
           \/ TakeGeneration(k) \/ ConnectCallback(k) \/ CleanUp(k)
           \/ FilterCallback(k) \/ DisconnectCallback(k)
    PROVE  OrderInv'
<1> USE DEF Registered, Leaving
<1>0. UNCHANGED overlap /\ DOMAIN gens' = Conns /\ DOMAIN read' = Conns /\ lastGen' \in Nat
  <2>1. UNCHANGED overlap
    BY DEF TakeGeneration, ConnectCallback, CleanUp, FilterCallback, DisconnectCallback
  <2>2. \/ UNCHANGED <<gens, lastGen>>
        \/ lastGen' = lastGen + 1 /\ gens' = [gens EXCEPT ![k] = lastGen + 1]
    BY DEF TakeGeneration, ConnectCallback, CleanUp, FilterCallback, DisconnectCallback
  <2>3. UNCHANGED read \/ read' = [read EXCEPT ![k] = address]
    BY DEF TakeGeneration, ConnectCallback, CleanUp, FilterCallback, DisconnectCallback
  <2> QED
    BY <2>1, <2>2, <2>3 DEF OrderInv
<1> SUFFICES ASSUME ~overlap
             PROVE  /\ \A j \in Conns : HandlerInv(j)'
                    /\ (\A j \in Conns : phase'[j] \in {"none", "accepting", "done"}) =>
                          registry' = None /\ ~address'
  BY <1>0 DEF OrderInv
<1>1. HandlerInv(k) /\ DOMAIN gens = Conns /\ DOMAIN read = Conns /\ lastGen \in Nat
  BY DEF OrderInv
<1>2. PICK to : phase' = [phase EXCEPT ![k] = to]
  BY DEF TakeGeneration, ConnectCallback, CleanUp, FilterCallback, DisconnectCallback, At
<1>3. phase[k] \in Registered \cup Leaving
  BY <1>1 DEF TakeGeneration, ConnectCallback, CleanUp, FilterCallback, DisconnectCallback, At,
              HandlerInv
<1>4. \A j \in Conns : j # k => HandlerInv(j)' /\ phase'[j] = phase[j]
  BY <1>2, <1>3, OthersKeep
<1>5. phase'[k] = to /\ \A j \in Conns : j < k => phase'[j] = "done"
  <2>1. \A j \in Conns : j < k => phase[j] = "done"
    BY <1>1, <1>3 DEF HandlerInv
  <2> QED
    BY <1>2, <1>4, <2>1 DEF TableInv, Conns
<1>6. CASE TakeGeneration(k)
  <2>1. /\ phase[k] = "adding" /\ phase'[k] = "connecting" /\ UNCHANGED <<registry, address>>
        /\ gens'[k] = lastGen' /\ read'[k] = address
    BY <1>1, <1>6 DEF TakeGeneration, At, TableInv
  <2> QED
    BY <1>1, <1>4, <1>5, <2>1 DEF HandlerInv
<1>7. CASE ConnectCallback(k)
  <2>1. /\ phase[k] = "connecting" /\ phase'[k] = "serving"
        /\ UNCHANGED <<registry, gens, lastGen, read>>
        /\ address' = IF read[k] THEN address ELSE TRUE
    BY <1>7 DEF ConnectCallback, At, TableInv
  <2>2. ~read[k]
    BY <1>1, <2>1 DEF HandlerInv
  <2>3. address'
    BY <2>1, <2>2
  <2> QED
    BY <1>1, <1>4, <1>5, <2>1, <2>3 DEF HandlerInv
<1>8. CASE CleanUp(k)
  <2>1. /\ phase[k] = "serving" /\ registry' = None /\ UNCHANGED <<gens, lastGen, read, address>>
        /\ phase'[k] = IF registry = None THEN "unknown" ELSE "removing"
    BY <1>8 DEF CleanUp, At, TableInv
  <2>2. phase'[k] = "removing"
    BY <1>1, <2>1 DEF HandlerInv, Conns, None
  <2> QED
    BY <1>1, <1>4, <1>5, <2>1, <2>2 DEF HandlerInv
<1>9. CASE FilterCallback(k)
  <2>1. /\ phase[k] = "removing" /\ phase'[k] = "clearing" /\ read'[k] = address
        /\ UNCHANGED <<registry, gens, lastGen, address>>
    BY <1>1, <1>9 DEF FilterCallback, At, TableInv, HandlerInv
  <2> QED
    BY <1>1, <1>4, <1>5, <2>1 DEF HandlerInv
<1>10. CASE DisconnectCallback(k)
  <2>1. /\ phase[k] = "clearing" /\ phase'[k] = "done" /\ UNCHANGED <<registry, gens, lastGen, read>>
        /\ address' = IF read[k] THEN FALSE ELSE address
    BY <1>10 DEF DisconnectCallback, At, TableInv
  <2>2. read[k] /\ registry = None
    BY <1>1, <2>1 DEF HandlerInv
  <2>3. ~address'
    BY <2>1, <2>2
  <2> QED
    BY <1>1, <1>4, <1>5, <2>1, <2>2, <2>3 DEF HandlerInv
<1> QED
  BY <1>6, <1>7, <1>8, <1>9, <1>10

LEMMA NextOrder == TableInv /\ OrderInv /\ [Next]_tvars => OrderInv'
<1> SUFFICES ASSUME TableInv, OrderInv, [Next]_tvars PROVE OrderInv'
  OBVIOUS
<1>1. CASE UNCHANGED <<phase, gens, lastGen, read, registry, address, overlap>>
  BY <1>1, QuietKeeps
<1> QED
  BY <1>1, ConnectKeeps, RegisterKeeps, HandlerKeeps
     DEF Next, Handler, Lose, Notice, PeerJoins, SendClients, PeerUpdates, PeerDrops, tvars

(***************************************************************************)
(* OrderlyReconnect holds always: if every handler was done when the next  *)
(* connection registered, then once all is settled the route and           *)
(* proxy_address follow the tunnel, and a linked peer knows the route      *)
(* (handle_client_connection and the callbacks of gateway/utils.py).       *)
(***************************************************************************)
THEOREM OrderlyReconnects == Spec => []OrderlyReconnect
<1> DEFINE Inv == TableInv /\ PeerInv /\ OrderInv
<1>1. Init => Inv
  BY InitTable, InitPeer, InitOrder
<1>2. Inv /\ [Next]_tvars => Inv'
  BY NextTable, NextPeer, NextOrder
<1>3. Inv => OrderlyReconnect
  <2> SUFFICES ASSUME Inv, Settled, ~overlap
               PROVE  /\ \A k \in Conns : Tunnelled(k) => Route = k /\ address
                      /\ (\A k \in Conns : ~Tunnelled(k)) => Route = None /\ ~address
                      /\ link = "up" /\ wire = <<>> => peer = (Route # None)
    BY DEF OrderlyReconnect
  <2>1. Route = registry
    BY DEF Route, TableInv
  <2>2. \A k \in Conns : Tunnelled(k) => Route = k /\ address
    BY <2>1 DEF OrderInv, HandlerInv, Tunnelled, Registered
  <2>3. (\A k \in Conns : ~Tunnelled(k)) => Route = None /\ ~address
    BY <2>1 DEF OrderInv, Settled, Tunnelled
  <2>4. link = "up" /\ wire = <<>> => peer = (Route # None)
    <3>1. link = "up" /\ wire = <<>> => peer \in BOOLEAN /\ (peer <=> Route # None)
      BY <2>1 DEF PeerInv, Seen
    <3> QED
      BY <3>1, Zenon
  <2> QED
    BY <2>2, <2>3, <2>4
<1> QED
  BY <1>1, <1>2, <1>3, PTL DEF Spec
=============================================================================
