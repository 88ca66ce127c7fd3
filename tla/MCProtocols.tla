----------------------------- MODULE MCProtocols -----------------------------
(***************************************************************************)
(* What a stack answers on the wire, for TLC: the two address servers, the *)
(* frame path of a stack without a fabric, the routes of one with it, the  *)
(* placement of clients on a pool of ports, the name servers and the       *)
(* services over UDP that keep no state.  The address servers keep         *)
(* variables of their own, for what they implement.                        *)
(***************************************************************************)
EXTENDS DhcpLeases, SharedSlots, TLC

CONSTANTS DUIDs, IAIDs, AddressPools, Stations

VARIABLES leases6, addressPool, reply6

vars6 == <<leases6, addressPool, reply6>>

V6 == INSTANCE Dhcpv6Leases WITH leases <- leases6, reply <- reply6

(* Two routers on the path of segment 10, one host on segment 20. *)
Simulated == {"d1", "d2", "d3"}

SegmentTag == [d \in Simulated |-> IF d = "d3" THEN 20 ELSE 10]
SegmentAddress == [d \in Simulated |-> IF d = "d2" THEN "b" ELSE "a"]
SegmentHop == [d \in Simulated |-> IF d = "d3" THEN 0 ELSE 1]

Segment == INSTANCE SegmentPath WITH
  Devices <- Simulated, Tag <- SegmentTag, Address <- SegmentAddress, Hop <- SegmentHop,
  Speaks6 <- {"d1", "d2"}, Advertises <- {"d2", "d3"}, Reflectors <- {"d1"}, Addresses <- {"a", "b"},
  Tags <- {0, 10, 30}, TTLs <- {1, 64}, MaxPending <- 1, MaxCount <- 2, MaxChanges <- 1,
  mode <- s1, address <- s2, up <- s3, index <- s4, fragments <- s5, ttlCounts <- s6, replies <- s7, asked <- s8,
  changes <- s9

(* The tester's network A, a transit network T, and a network L behind it; a *)
(* host on A and one on L.                                                   *)
Wired == {"r1a", "r1t", "r2t", "r2l", "h", "p"}
WiredBy == [i \in Wired |-> CASE i \in {"r1a", "r1t"} -> "r1" [] i \in {"r2t", "r2l"} -> "r2" [] OTHER -> i]
WiredTo == [i \in Wired |-> CASE i \in {"r1a", "p"} -> "A" [] i \in {"r1t", "r2t"} -> "T" [] OTHER -> "L"]
WiredAs == [i \in Wired |-> <<WiredTo[i], IF i \in {"r1a", "r1t", "r2l"} THEN "1" ELSE "2">>]
WiredStatics == {[device |-> "r1", dest |-> "L", via |-> "r1t", next |-> <<"T", "2">>],
                 [device |-> "r2", dest |-> "0.0.0.0/0", via |-> "r2t", next |-> <<"T", "1">>]}

Fabric == INSTANCE FabricRouting WITH
  Ifaces <- Wired, Device <- WiredBy, Network <- WiredTo, Compiled <- WiredAs, Statics <- WiredStatics,
  Numbered6 <- Wired, Attachment <- "A", RoutesIP <- {"r1", "r2"},
  Spare <- {<<"L", "3">>, <<"T", "2">>}, DhcpServer <- "h", DhcpRelay <- "r1",
  MaxTTL <- 8, QueueCap <- 1, MaxChanges <- 2,
  address <- s1, up <- s2, statics <- s3, queue <- s4, wire <- s5, changes <- s6

(* Three stations on a pool of three ports of two switches. *)
Placement == INSTANCE ClientPlacement WITH
  Clients <- Stations, PortCount <- 3, PortsPerSwitch <- 2, AuthoredUp <- {3}, Ranks <- {1}, MaxAdmin <- 1,
  pins <- s1, scenario <- s2, assigned <- s3, earliest <- s4, observed <- s5, adminUp <- s6, carrier <- s7,
  learned <- s8, op <- s9, admin <- s10

ASSUME PlacementConstants == Placement!Constants

(* Three name servers that forward to one another in a cycle, one of them    *)
(* also outside, and three in a chain.                                       *)
Held(d, v) == [data |-> d, v4 |-> v, rcode |-> "NoError"]
HeldBy(forward, reverse, forwarders) == [forward |-> forward, reverse |-> reverse, forwarders |-> forwarders]
Cyclic ==
  "d1" :> HeldBy("a.local" :> <<Held("1", TRUE), [Held("1v6", FALSE) EXCEPT !.rcode = "ServFail"]>>, <<>>, <<"x2", "x3">>)
  @@ "d2" :> HeldBy("b" :> <<Held("2", FALSE)>>, <<>>, <<"x1", "out">>)
  @@ "d3" :> HeldBy([n \in {"a", "b", "c"} |-> <<Held("3", TRUE), Held("3v6", FALSE)>>], "ip4" :> <<Held("c", TRUE)>>, <<"x3", "x2">>)
Chain ==
  "d1" :> HeldBy(<<>>, <<>>, <<"x2">>)
  @@ "d2" :> HeldBy(<<>>, "ip6" :> <<Held("c", FALSE)>>, <<"x3">>)
  @@ "d3" :> HeldBy([n \in {"b", "*"} |-> <<Held("3", TRUE)>>], <<>>, <<"x1">>)
Ask(n, t) == [name |-> n, type |-> t]

Names == INSTANCE DnsResolver WITH
  Servers <- Simulated, Address <- "d1" :> "x1" @@ "d2" :> "x2" @@ "d3" :> "x3", Configs <- {Cyclic, Chain},
  Bare <- "a" :> "a.local", Clients <- {"c1", "c2"}, MaxInFlight <- 1, MaxEdits <- 2,
  Queries <- {<<Ask("a", "A")>>, <<Ask("ip4", "PTR")>>, <<Ask("ip6", "PTR")>>, <<Ask("c", "A"), Ask("b", "MX")>>,
              <<Ask("toolong", "A"), Ask("z", "PTR")>>},
  deviceRecords <- s1, faults <- s2, query <- s3, slots <- s4, edits <- s5

(* A workstation of two addresses and a camera: what they may be configured  *)
(* to serve, and datagrams of every kind to every address and to everyone.   *)
NetBIOS(p, e, name, ns, ss, ms) ==
  [present |-> p, enabled |-> e, name |-> name, names |-> ns, services |-> ss, msBrowse |-> ms]
NoNetBIOS == NetBIOS(FALSE, FALSE, "", <<>>, <<>>, FALSE)
NetBIOSes == {
  NoNetBIOS, NetBIOS(TRUE, FALSE, "", <<>>, <<"workstation">>, TRUE),
  NetBIOS(TRUE, TRUE, "PC", <<[name |-> "PC", suffix |-> 0, group |-> TRUE]>>, <<"workstation", "browser", "rasclient">>, TRUE),
  NetBIOS(TRUE, TRUE, "", <<>>, <<"fileserver", "msbrowse", "domainctrl">>, FALSE) }
Mdns(e, h, types) == [enabled |-> e, host |-> <<h>>, services |-> {[type |-> <<t>>] : t \in types}]
Serves(nb, md, sv, sys) == [netbios |-> nb, mdns |-> md, serves |-> sv, sysName |-> sys]
Served == {
  [ws |-> Serves(nb, md, sv, "core"), ap |-> Serves(NoNetBIOS, Mdns(TRUE, "cam", {"http"}), ap, "")] :
    nb \in NetBIOSes, md \in {Mdns(TRUE, "printer", {"ipp", "http"}), Mdns(FALSE, "printer", {"ipp"})},
    sv \in {{}, {"sip", "onvif", "enip", "dns"}, {"mapped", "sip"}, {"reflector", "dns"}}, ap \in {{}, {"sip"}} }
To(v, port, dst) ==
  [version |-> v, port |-> port, dst |-> dst, vlan |-> 10, srcPort |-> 4000, dstPort |-> 7, signature |-> FALSE]
Anyone == {"w1", "w2", "a1", "all"}
Sent ==
  {To(4, "netbios-ns", d) @@ [kind |-> k, name |-> n, suffix |-> x] :
     d \in Anyone, k \in {"query", "status", "other"}, n \in {"PC", "ws", "core"}, x \in {0, 32, 30}}
  \cup {To(6, "netbios-ns", "ws") @@ [kind |-> "query", name |-> "PC", suffix |-> 0], To(4, "netbios-dgm", "w1")}
  \cup {To(v, "nbstat", IF v = 6 THEN "ws" ELSE "w2") @@ [service |-> x] : v \in {4, 6}, x \in {"*", "msbrowse", "other"}}
  \cup {To(4, "mdns", d) @@ [questions |-> q] : d \in {"all", "w2"},
          q \in {<<Ask(<<"_services">>, "PTR")>>, <<Ask(<<"http">>, "PTR"), Ask(<<"cam">>, "A")>>, <<Ask(<<"ipp">>, "SRV")>>}}
  \cup {To(4, "sip", d) @@ [whole |-> w, cseqMethod |-> "OPTIONS", method |-> m, viaUDP |-> TRUE, sentBy |-> p,
                            rport |-> r, callID |-> "c", toTag |-> t] :
          d \in Anyone, w \in BOOLEAN, m \in {"OPTIONS", "INVITE"}, p \in {-1, 0, 5070}, r \in BOOLEAN, t \in {"", "t"}}
  \cup {To(4, "onvif", d) @@ [whole |-> TRUE, action |-> "Probe", messageID |-> "m", types |-> t, scopes |-> x, matchBy |-> m] :
          d \in {"w2", "a1"}, t \in {{}, {"Device"}, {"Printer"}}, x \in {{}, {<<"hardware">>}, {<<"name", "ap">>}},
          m \in {"", "strcmp0", "uuid"}}
  \cup {To(4, "enip", "w1") @@ [kind |-> k] : k \in {"listIdentity", "register"}}
  \cup {[signature |-> x] @@ To(4, "other", d) : d \in Anyone, x \in BOOLEAN}

Udp == INSTANCE UdpServices WITH
  Order <- <<"ws", "ap">>, Owns <- [ws |-> <<"w1", "w2">>, ap |-> <<"a1">>], Configs <- Served, Datagrams <- Sent,
  MaxArrivals <- 1,
  config <- s1, replies <- s2, asked <- s3, wsdMessages <- s4, arrivals <- s5

(* A flat scope, one with a static lease outside its pool, and a relayed one *)
(* that does not serve its static lease.                                     *)
MCConfigs == {
  [start |-> 1, end |-> 2, statics |-> <<>>, relay |-> NoAddress],
  [start |-> 2, end |-> 2, statics |-> <<[macs |-> {"c2"}, ip |-> 4]>>, relay |-> NoAddress],
  [start |-> 1, end |-> 1, statics |-> <<[macs |-> {"c2"}, ip |-> 4]>>, relay |-> 9] }

MCPools == {<<21, 22>>, <<22>>}

(* The address servers stay in one initial state while the others are active. *)
IdleServers ==
  /\ Init /\ scope.start = 2 /\ serverIP = CHOOSE a \in ServerIPs : TRUE
  /\ V6!Init

MCInit ==
  \/ focus \in {"v4", "v6"} /\ Init /\ V6!Init /\ s1 = 0 /\ Free(1)
     /\ (focus = "v6" => scope.start = 2 /\ serverIP = CHOOSE a \in ServerIPs : TRUE)
  \/ focus = "segment" /\ IdleServers /\ Segment!Init /\ Free(9)
  \/ focus = "fabric" /\ IdleServers /\ Fabric!Init /\ Free(6)
  \/ focus = "pool" /\ IdleServers /\ Placement!Init /\ Free(10)
  \/ focus = "names" /\ IdleServers /\ Names!Init /\ Free(5)
  \/ focus = "udp" /\ IdleServers /\ Udp!Init /\ Free(5)

Servers == <<vars, vars6>>

MCNext ==
  \/ focus = "v4" /\ Next /\ UNCHANGED <<slotVars, vars6>>
  \/ focus = "v6" /\ V6!Next /\ UNCHANGED <<slotVars, vars>>
  \/ focus = "segment" /\ Segment!Next /\ Keep(9) /\ UNCHANGED Servers
  \/ focus = "fabric" /\ Fabric!Next /\ Keep(6) /\ UNCHANGED Servers
  \/ focus = "pool" /\ Placement!Next /\ Keep(10) /\ UNCHANGED Servers
  \/ focus = "names" /\ Names!Next /\ Keep(5) /\ UNCHANGED Servers
  \/ focus = "udp" /\ Udp!Next /\ Keep(5) /\ UNCHANGED Servers

MCSpec == MCInit /\ [][MCNext]_<<slotVars, Servers>>

(* The properties of the parts, as their modules state them. *)

(* The DHCPv6 server implements AddressBindings.                             *)
Implements6 == V6!ImplementsBindings

(* A frame is answered in its own segment, as an address the device holds    *)
(* now, and devices that stand for one hop take turns; on a fabric every     *)
(* reply carries the MAC of a device on the tester's network and the TTL     *)
(* that the way back leaves.                                                 *)
AnsweredWhereHeld ==
  /\ focus = "segment" => Segment!AnsweredInSegment /\ Segment!HopsTakeTurns
  /\ focus = "fabric" => Fabric!OnLinkMACs /\ Fabric!HopsCharged

(* A query is answered right for the records it met, and upstream slots are  *)
(* held by exactly the queries that are outside; a datagram is answered from *)
(* where it was sent to, by one device, and what an answer leads to can be   *)
(* asked for in turn.                                                        *)
AnsweredAsHeld ==
  /\ focus = "names" => Names!AnswersRight /\ Names!SlotsHeld
  /\ focus = "udp" => Udp!AnsweredFrom /\ Udp!OneAnswers /\ Udp!ListedNamesFound /\ Udp!mdnsLeadsOn /\ Udp!SipReachesAsker

(* No two clients share a port, pinned ports are their owners', and switches *)
(* have learned a client where it is plugged in.                             *)
ClientsPlugged == focus = "pool" => Placement!ClientsPlugged

(* The port offered to the first client is the one it gets.                  *)
AdvertisedPortTaken == [][focus = "pool" => Placement!PortTakenAsAdvertised]_slotVars
=============================================================================
