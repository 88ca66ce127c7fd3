---------------------------- MODULE FabricRouting ----------------------------
(***************************************************************************)
(* A session on a compiled fabric (internal/protocols/fabric_runtime.go,   *)
(* fabric_runtime_ipv6.go, fabric_egress.go and the frame path of          *)
(* stack_threads.go, ip.go, ipv6.go, icmp.go, icmpv6.go, arp.go): a tester *)
(* plugged into the attachment network sends requests to the simulated     *)
(* devices, which answer directly on that network and through its routers  *)
(* everywhere else.                                                        *)
(*                                                                         *)
(* Addresses, link states and static routes are live: operators change     *)
(* them while replies wait in the send queue.  An address is <<network,    *)
(* number>>, a prefix a network or Everywhere, a MAC the device it belongs *)
(* to.  The lookups walk Go maps, so where two interfaces share an address *)
(* any of them may be found: a lookup is the set of its possible results.  *)
(* Each packet is decoded in one step; what it reads does not change       *)
(* while it is decoded.                                                    *)
(***************************************************************************)
EXTENDS Integers, Sequences, FiniteSets, FiniteSetsExt, SequencesExt

CONSTANTS
  Ifaces,      \* compiled interfaces with an address
  Device,      \* the device an interface belongs to
  Network,     \* the network an interface was compiled on
  Compiled,    \* its compiled address
  Numbered6,   \* interfaces with an IPv6 address, the same <<network, number>>
  Attachment,  \* the network the tester is plugged into
  RoutesIP,    \* devices of a class that routes
  Statics,     \* static routes a device may hold: [device, dest, via, next]
  Spare,       \* addresses an operator may give an interface
  DhcpServer, DhcpRelay,  \* the attachment's DHCP server and the relay it is behind
  MaxTTL,      \* TTL a device sends with
  MaxChanges,  \* bound: changes operators make
  QueueCap     \* bound: replies waiting to be sent

Everywhere == "0.0.0.0/0"
None == <<>>
Devices == {Device[i] : i \in Ifaces}
Of(d) == {i \in Ifaces : Device[i] = d}

VARIABLES
  address,   \* an interface's current IPv4 address, or None
  up,        \* interfaces administratively and operationally up
  statics,   \* static routes in the devices' tables
  queue,     \* replies waiting to be sent
  wire,      \* the frame on the wire, or NoFrame
  changes    \* changes operators made

vars == <<address, up, statics, queue, wire, changes>>

Addresses == {Compiled[i] : i \in Ifaces} \cup Spare
NoFrame == [mac |-> "none", src |-> None, ttl |-> 0, v6 |-> FALSE, at |-> 0]

TypeOK ==
  /\ address \in [Ifaces -> Addresses \cup {None}] /\ up \subseteq Ifaces
  /\ statics \subseteq Statics /\ Len(queue) <= QueueCap /\ changes \in 0..MaxChanges

Init ==
  /\ address = Compiled /\ up = Ifaces /\ statics = Statics
  /\ queue = <<>> /\ wire = NoFrame /\ changes = 0

----------------------------------------------------------------------------
(* Lookups over the live state.                                             *)

endpointForAddress(a) == {i \in Ifaces : address[i] = a}
interfaceAvailable(i) == i \in up

connectedRoutes(d) ==
  {[dest |-> address[i][1], via |-> i, next |-> None, connected |-> TRUE] :
     i \in {j \in Of(d) \cap up : address[j] # None}}

routesFor(d) ==
  connectedRoutes(d) \cup
  {[dest |-> s.dest, via |-> s.via, next |-> s.next, connected |-> FALSE] : s \in {t \in statics : t.device = d}}

Covers(dest, a) == dest = Everywhere \/ dest = a[1]
Bits(dest) == IF dest = Everywhere THEN 0 ELSE 24

(* A static route must leave through an addressed interface of the device to *)
(* an address on its link that exactly one interface, of a peer, holds.      *)
validateStaticRoute(d, r) ==
  /\ address[r.via] # None /\ Covers(address[r.via][1], r.next)
  /\ \E i \in Ifaces : endpointForAddress(r.next) = {i} /\ Device[i] # d

routeAvailable(d, r) ==
  /\ interfaceAvailable(r.via)
  /\ ~r.connected =>
       /\ validateStaticRoute(d, r)
       /\ \A i \in endpointForAddress(r.next) : Device[i] # d /\ interfaceAvailable(i)

(* The longest available routes of a device to an address.  Equal prefixes  *)
(* are settled by the table's order, which is not modelled.                 *)
bestRoute(d, a) ==
  LET usable == {r \in routesFor(d) : Covers(r.dest, a) /\ routeAvailable(d, r)}
  IN  {r \in usable : \A q \in usable : Bits(q.dest) <= Bits(r.dest)}

attachmentRouters == {i \in Ifaces : Network[i] = Attachment /\ Device[i] \in RoutesIP}

(* The routes of the attachment router a frame was addressed to. *)
routeFor(a, mac) ==
  IF \E i \in attachmentRouters : Device[i] = mac /\ interfaceAvailable(i) THEN bestRoute(mac, a) ELSE {}

Unresolved == [device |-> "none", mac |-> "none", routed |-> FALSE, hop |-> None]

resolveEndpoint(i, a, mac) ==
  IF ~interfaceAvailable(i) THEN {Unresolved}
  ELSE IF Network[i] = Attachment
  THEN {[device |-> Device[i], mac |-> Device[i], routed |-> FALSE, hop |-> None]}
  ELSE IF routeFor(a, mac) = {} THEN {Unresolved}
  ELSE {IF address[j] = None THEN Unresolved
        ELSE [device |-> Device[i], mac |-> mac, routed |-> TRUE, hop |-> address[j]] :
          j \in {k \in attachmentRouters : Device[k] = mac /\ interfaceAvailable(k)}}

resolveIPv4(a, mac) ==
  IF endpointForAddress(a) = {} THEN {Unresolved}
  ELSE UNION {resolveEndpoint(i, a, mac) : i \in endpointForAddress(a)}

resolveARP(a) ==
  {Device[i] : i \in {j \in endpointForAddress(a) : Network[j] = Attachment /\ interfaceAvailable(j)}}

(* IPv6 addresses are the compiled ones, and so is the table of who has them. *)
interfacesByAddrV6(a) == {i \in Numbered6 : Compiled[i] = a}

routeForV6(a, mac) ==
  /\ \E i \in attachmentRouters : Device[i] = mac /\ interfaceAvailable(i)
  /\ \/ \E i \in Of(mac) \cap Numbered6 \cap up : Covers(Compiled[i][1], a)
     \/ \E s \in Statics : /\ s.device = mac /\ Covers(s.dest, a) /\ interfaceAvailable(s.via)
                           /\ \E i \in interfacesByAddrV6(s.next) :
                                 Device[i] # mac /\ interfaceAvailable(i)

resolveIPv6(a, mac) ==
  LET found == {i \in interfacesByAddrV6(a) : interfaceAvailable(i)}
  IN  IF found = {} THEN {Unresolved}
      ELSE {IF Network[i] = Attachment
            THEN [device |-> Device[i], mac |-> Device[i], routed |-> FALSE, hop |-> None]
            ELSE IF routeForV6(a, mac)
            THEN [device |-> Device[i], mac |-> mac, routed |-> TRUE, hop |-> <<"link-local", mac>>]
            ELSE Unresolved : i \in found}

(* Only an address on the attachment network is on the tester's link. *)
resolveNeighbor(a) ==
  {Device[i] : i \in {j \in interfacesByAddrV6(a) : Network[j] = Attachment /\ interfaceAvailable(j)}}

deviceOnAttachment(d) == \E i \in Of(d) : Network[i] = Attachment /\ interfaceAvailable(i)

(* A relayed DHCP server answers while its relay can route a request to it. *)
dhcpServerReachable ==
  IF DhcpRelay = "none" THEN deviceOnAttachment(DhcpServer)
  ELSE \E i \in Of(DhcpServer) :
         \E r \in resolveIPv4(Compiled[i], DhcpRelay) : r.device = DhcpServer

----------------------------------------------------------------------------
(* Routers crossed by a frame from a device behind them: the walk follows    *)
(* the routes back to the source and gives up after as many steps as there   *)
(* are devices, which is how a loop of static routes ends.                   *)

(* The next device on the walk from d to source, or none when it is over. *)
hopsOn(d, route, source, origin) ==
  IF route.connected THEN {}
  ELSE {Device[i] : i \in {j \in endpointForAddress(route.next) : Device[j] # origin}}

walkHops[n \in 0..Cardinality(Devices), d \in Devices, source \in Addresses, origin \in Devices, hops \in 1..20] ==
  UNION {LET nexts == {e \in hopsOn(d, r, source, origin) : bestRoute(e, source) # {}}
         IN  IF n = 0 \/ nexts = {} THEN {hops}
             ELSE UNION {walkHops[n - 1, e, source, origin, hops + 1] : e \in nexts} :
           r \in bestRoute(d, source)}

(* Mutant: the router whose MAC the frame carries is not counted.            *)
SkipsFirstRouter(source, mac) ==
  UNION {IF Network[i] = Attachment \/ routeFor(source, mac) = {} \/ mac = Device[i] THEN {0}
         ELSE {h - 1 : h \in walkHops[Cardinality(Devices), mac, source, Device[i], 1]} :
           i \in endpointForAddress(source)}
  \cup (IF endpointForAddress(source) = {} THEN {0} ELSE {})

forwardingHops(source, mac) ==
  UNION {IF Network[i] = Attachment \/ routeFor(source, mac) = {} \/ mac = Device[i] THEN {0}
         ELSE walkHops[Cardinality(Devices), mac, source, Device[i], 1] :
           i \in endpointForAddress(source)}
  \cup (IF endpointForAddress(source) = {} THEN {0} ELSE {})

----------------------------------------------------------------------------
(* Requests of the tester.                                                  *)

Kinds == {"arp", "ipv4", "ns", "ipv6", "discover"}

send(frames) == queue' = queue \o frames
Reply(mac, src, v6) == [mac |-> mac, src |-> src, ttl |-> MaxTTL, v6 |-> v6, at |-> changes]

(* ARP and neighbour discovery answer for the attachment network alone.      *)
HandleResolution(kind, a) ==
  LET owners == IF kind = "arp" THEN resolveARP(a) ELSE resolveNeighbor(a)
  IN  IF owners = {} THEN UNCHANGED queue
      ELSE \E d \in owners : send(<<[Reply(d, a, kind = "ns") EXCEPT !.ttl = 0]>>)

(* IPv4 to a device: an expired TTL is the first router's to report, and the *)
(* reply of a routed device carries that router's MAC.                       *)
HandleIPv4(a, mac, ttl) ==
  \E r \in resolveIPv4(a, mac) :
    IF r = Unresolved THEN UNCHANGED queue
    ELSE send(<<Reply(r.mac, IF r.routed /\ ttl <= 1 THEN r.hop ELSE a, FALSE)>>)

(* Mutant: a routed device answers with its own MAC.                         *)
AnswersWithOwnMAC(a, mac) ==
  \E r \in resolveIPv6(a, mac) :
    IF r = Unresolved THEN UNCHANGED queue ELSE send(<<Reply(r.device, a, TRUE)>>)

(* IPv6 forwards without looking at the hop limit.                           *)
HandleIPv6(a, mac) ==
  \E r \in resolveIPv6(a, mac) :
    IF r = Unresolved THEN UNCHANGED queue ELSE send(<<Reply(r.mac, a, TRUE)>>)

(* A DHCP broadcast reaches the attachment's server, or the relay before it.  *)
HandleDiscover ==
  IF dhcpServerReachable
  THEN send(<<Reply(IF DhcpRelay = "none" THEN DhcpServer ELSE DhcpRelay,
                    <<Attachment, "server">>, FALSE)>>)
  ELSE UNCHANGED queue
 

(* A frame off the attachment's VLAN, or from a source that is no host of    *)
(* the attachment network, is dropped before anything looks at it.           *)
rejectFabricIngress(onLink) == ~onLink

decodePacket(kind, a, mac, ttl, onLink) ==
  /\ Len(queue) < QueueCap /\ wire = NoFrame
  /\ IF rejectFabricIngress(onLink) THEN UNCHANGED queue
     ELSE CASE kind \in {"arp", "ns"}   -> HandleResolution(kind, a)
            [] kind = "ipv4"            -> HandleIPv4(a, mac, ttl)
            [] kind = "ipv6"            -> HandleIPv6(a, mac)
            [] OTHER                    -> HandleDiscover
  /\ UNCHANGED <<address, up, statics, wire, changes>>

(* The sender: an IPv4 frame loses one TTL for every router it crosses.      *)
sendPacket ==
  /\ queue # <<>> /\ wire = NoFrame
  /\ LET frame == Head(queue) IN
     \E hops \in (IF frame.v6 \/ frame.ttl = 0 THEN {0} ELSE forwardingHops(frame.src, frame.mac)) :
       wire' = IF hops # 0 /\ frame.ttl <= hops THEN NoFrame
               ELSE [frame EXCEPT !.ttl = @ - hops]
  /\ queue' = Tail(queue)
  /\ UNCHANGED <<address, up, statics, changes>>

(* The frame leaves the transport before anything else is looked at.         *)
transmit == wire # NoFrame /\ wire' = NoFrame /\ UNCHANGED <<address, up, statics, queue, changes>>

----------------------------------------------------------------------------
(* Operators.                                                               *)

Change ==
  changes < MaxChanges /\ wire = NoFrame /\ changes' = changes + 1 /\ UNCHANGED <<queue, wire>>

SetLink(i) ==
  /\ Change
  /\ up' = IF i \in up THEN up \ {i} ELSE up \cup {i}
  /\ UNCHANGED <<address, statics>>

SetAddress(i, a) ==
  /\ Change
  /\ address' = [address EXCEPT ![i] = a]
  /\ UNCHANGED <<up, statics>>

SetRoute(s) ==
  /\ Change
  /\ statics' = IF s \in statics THEN statics \ {s} ELSE statics \cup {s}
  /\ UNCHANGED <<address, up>>

Next ==
  \/ \E kind \in Kinds, a \in Addresses, mac \in RoutesIP, ttl \in {1, MaxTTL}, onLink \in BOOLEAN :
       decodePacket(kind, a, mac, ttl, onLink)
  \/ sendPacket
  \/ transmit
  \/ \E i \in Ifaces : SetLink(i)
  \/ \E i \in Ifaces, a \in Spare \cup {None} : SetAddress(i, a)
  \/ \E s \in Statics : SetRoute(s)

Spec == Init /\ [][Next]_vars

----------------------------------------------------------------------------
(* The tester hears only the devices on its own link: whatever a frame       *)
(* answers, its source MAC is a device with an interface on the attachment   *)
(* network.                                                                  *)
OnLinkMACs ==
  \A frame \in ToSet(queue) \cup {wire} :
    frame = NoFrame \/ \E i \in Of(frame.mac) : Network[i] = Attachment

(* Routers from mac to a source, each reached through the longest available  *)
(* route of the one before, the last with the source's network or the source *)
(* itself next.                                                              *)
IsPath(path, source, origin) ==
  /\ \A k \in 1..(Len(path) - 1) :
       \E r \in bestRoute(path[k], source) :
         ~r.connected /\ path[k + 1] \in {Device[i] : i \in endpointForAddress(r.next)} \ {origin}
  /\ \E r \in bestRoute(path[Len(path)], source) :
       r.connected \/ \E i \in endpointForAddress(r.next) : Device[i] = origin

(* A reply sent while the network is as it was when the request was answered  *)
(* has crossed the routers on the way from its device: its TTL is lower by    *)
(* the length of a path without loops, when there is one, each address is one *)
(* interface's and no device has two routes of one length to choose from.     *)
HopsCharged ==
  (wire # NoFrame /\ ~wire.v6 /\ wire.ttl # 0 /\ wire.at = changes
     /\ (\A a \in Addresses : Cardinality(endpointForAddress(a)) <= 1)
     /\ (\A d \in Devices : Cardinality(bestRoute(d, wire.src)) <= 1))
  => \A i \in endpointForAddress(wire.src) :
       Network[i] # Attachment /\ Device[i] # wire.mac =>
         LET paths == {p \in UNION {[1..n -> Devices] : n \in 1..Cardinality(Devices)} :
                         p[1] = wire.mac /\ IsInjective(p) /\ IsPath(p, wire.src, Device[i])}
         IN  paths # {} => \E p \in paths : wire.ttl = MaxTTL - Len(p)
=============================================================================
