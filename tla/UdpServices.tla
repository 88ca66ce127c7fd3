----------------------------- MODULE UdpServices -----------------------------
(***************************************************************************)
(* Where a datagram to a simulated device goes (src/internal/protocols/    *)
(* udp.go) and what the services that keep no state answer it: NetBIOS     *)
(* names (netbios.go), node status over DNS (dns_nbstat.go), mDNS          *)
(* (mdns.go), SIP OPTIONS (sip.go), ONVIF probes (onvif.go), EtherNet/IP   *)
(* over UDP (enip.go) and the reflector.                                   *)
(*                                                                         *)
(* A datagram is the record of what its handler reads in it; names, hosts  *)
(* and scopes are tokens, a scope the sequence of its segments.            *)
(***************************************************************************)
EXTENDS Integers, Sequences, FiniteSets, SequencesExt

CONSTANTS
  Order,     \* the devices in the order of the configuration
  Owns,      \* the IPv4 addresses of each, in order; none for a device with IPv6 only
  Configs,   \* what the devices may be configured to serve
  Datagrams, \* the datagrams that arrive
  MaxArrivals

VARIABLES
  config,    \* the loaded configuration
  replies,   \* what the last datagram was answered with
  asked,     \* the last datagram
  wsdMessages, arrivals

vars == <<config, replies, asked, wsdMessages, arrivals>>

None == <<>>

Devices == Range(Order)

FirstOf(s) == IF s = <<>> THEN None ELSE <<s[1]>>

deviceOwnsIPv4(d, ip) == ip \in Range(Owns[d])

getFirstIPv4(d) == FirstOf(Owns[d])

deviceOwns(d, m) == IF m.version = 6 THEN m.dst = d ELSE deviceOwnsIPv4(d, m.dst)

(* The devices a datagram is for: the owners of its destination, everybody   *)
(* when it is sent to all.                                                   *)
Targets(m) == IF m.dst = "all" THEN Order ELSE SelectSeq(Order, LAMBDA d : deviceOwns(d, m))

Reply(m, d, from, toPort, what) == {[device |-> d, from |-> from, toPort |-> toPort, vlan |-> m.vlan, what |-> what]}

-----------------------------------------------------------------------------
(* NetBIOS. *)

ServiceSuffix == [workstation |-> 0, messenger |-> 3, fileserver |-> 32, domainmaster |-> 27, domainctrl |-> 28,
                  masterbrowser |-> 29, browser |-> 30, rasserver |-> 6, rasclient |-> 33, netdde |-> 31,
                  netmonagent |-> 190, netmonutility |-> 191]

GroupServices == {"domainmaster", "domainctrl", "masterbrowser", "browser"}

MsBrowseEntry == [name |-> "__MSBROWSE__", suffix |-> 1, group |-> TRUE]

nbName(d) == IF config[d].netbios.name = "" THEN d ELSE config[d].netbios.name

Entry(d, svc) ==
  IF svc = "msbrowse" THEN MsBrowseEntry
  ELSE [name |-> nbName(d), suffix |-> ServiceSuffix[svc], group |-> svc \in GroupServices]

MsBrowse(d) == IF config[d].netbios.msBrowse THEN <<MsBrowseEntry>> ELSE <<>>

deriveNetBIOSNames(d) ==
  [i \in DOMAIN config[d].netbios.services |-> Entry(d, config[d].netbios.services[i])] \o MsBrowse(d)

Listed(names, m) == SelectSeq(names, LAMBDA e : e.name = m.name /\ e.suffix = m.suffix)

(* A device with a NetBIOS block answers for the names of the block only; a  *)
(* disabled block answers for none.                                          *)
matchNetBIOSNameFromConfig(d, m) ==
  IF ~config[d].netbios.enabled THEN None
  ELSE FirstOf(Listed(config[d].netbios.names, m) \o Listed(deriveNetBIOSNames(d), m))

matchNetBIOSNameFallback(d, m) ==
  IF m.name \in {d, config[d].sysName} THEN <<[name |-> m.name, suffix |-> m.suffix, group |-> FALSE]>> ELSE None

matchNetBIOSName(d, m) ==
  IF config[d].netbios.present THEN matchNetBIOSNameFromConfig(d, m) ELSE matchNetBIOSNameFallback(d, m)

findMatchingNetBIOSDevice(m) ==
  FirstOf(SelectSeq(Targets(m), LAMBDA d : matchNetBIOSName(d, m) # None))

sendNameQueryResponse(m, d) ==
  Reply(m, d, Owns[d][1], m.srcPort,
        [kind |-> "name", address |-> Owns[d][1], group |-> matchNetBIOSName(d, m)[1].group])

firstNetBIOSDevice(m) ==
  FirstOf(SelectSeq(SelectSeq(Order, LAMBDA d : deviceOwnsIPv4(d, m.dst)),
                    LAMBDA d : config[d].netbios.present /\ config[d].netbios.enabled))

sendNodeStatusResponse(m, d) ==
  Reply(m, d, Owns[d][1], m.srcPort, [kind |-> "status", names |-> Range(deriveNetBIOSNames(d))])

handleNodeStatus(m) ==
  LET d == firstNetBIOSDevice(m)
  IN IF d = None THEN {} ELSE IF deriveNetBIOSNames(d[1]) = <<>> THEN {} ELSE sendNodeStatusResponse(m, d[1])

(* Only IPv4 carries an answer; a datagram over IPv6 ends here.              *)
handleNameQuery(m) ==
  LET d == findMatchingNetBIOSDevice(m)
  IN CASE m.version = 6 -> {}
       [] m.version # 6 /\ m.kind = "status" -> handleNodeStatus(m)
       [] m.version # 6 /\ m.kind = "query" -> IF d = None THEN {} ELSE IF getFirstIPv4(d[1]) = None THEN {} ELSE sendNameQueryResponse(m, d[1])
       [] OTHER -> {}

(* Responses, and operations other than a query, are not answered.           *)
HandleNameService(m) == IF m.kind \in {"query", "status"} THEN handleNameQuery(m) ELSE {}

HandleDatagramService(m) == {}

-----------------------------------------------------------------------------
(* Node status asked of the DNS port. *)

(* The services this path names are fewer, and authored names replace them.  *)
netbiosNamesForDevice(d) ==
  (IF config[d].netbios.names # <<>> THEN config[d].netbios.names
   ELSE LET known == SelectSeq(config[d].netbios.services,
                               LAMBDA s : s \in {"workstation", "messenger", "fileserver", "domainmaster",
                                                 "masterbrowser", "browser", "msbrowse"})
        IN [i \in DOMAIN known |-> Entry(d, known[i])]) \o MsBrowse(d)

isNBSTATServiceSupported(m, d) == m.service = "*" \/ (m.service = "msbrowse" /\ config[d].netbios.msBrowse)

buildNBSTATResponse(m, d) ==
  IF ~config[d].netbios.present \/ ~isNBSTATServiceSupported(m, d) THEN <<>> ELSE netbiosNamesForDevice(d)

(* Over IPv4 on the VLAN of the query, over IPv6 on none; from the first     *)
(* address of the device either way.                                         *)
handleNBSTATQuery(m, d) ==
  IF buildNBSTATResponse(m, d) = <<>> THEN {}
  ELSE Reply(IF m.version = 6 THEN [m EXCEPT !.vlan = 0] ELSE m, d,
             IF m.version = 6 THEN "v6" ELSE Owns[d][1], m.srcPort,
             [kind |-> "nbstat", names |-> Range(buildNBSTATResponse(m, d))])

-----------------------------------------------------------------------------
(* mDNS. A name is the sequence of its labels. *)

mdnsHostname(d) == config[d].mdns.host

mdnsServiceType(svc) == svc.type

mdnsInstanceName(d, type) == mdnsHostname(d) \o type

mdnsServiceEnumeration(d) ==
  {[name |-> <<"_services">>, type |-> "PTR", to |-> mdnsServiceType(svc)] : svc \in config[d].mdns.services}

mdnsServiceInstances(d, type) ==
  UNION {{ [name |-> type, type |-> "PTR", to |-> mdnsInstanceName(d, type)],
           [name |-> mdnsInstanceName(d, type), type |-> "SRV", to |-> mdnsHostname(d)],
           [name |-> mdnsInstanceName(d, type), type |-> "TXT", to |-> svc.type] }
         : svc \in {s \in config[d].mdns.services : mdnsServiceType(s) = type}}

mdnsAnswer(d, q) ==
  CASE q.type = "A" /\ q.name = mdnsHostname(d) -> {[name |-> q.name, type |-> "A", to |-> getFirstIPv4(d)]}
    [] q.type = "PTR" /\ q.name = <<"_services">> -> mdnsServiceEnumeration(d)
    [] q.type = "PTR" /\ q.name # <<"_services">> -> mdnsServiceInstances(d, q.name)
    [] OTHER -> {}

mdnsAnswers(d, questions) ==
  IF mdnsHostname(d) = <<>> \/ getFirstIPv4(d) = None THEN {}
  ELSE UNION {mdnsAnswer(d, q) : q \in Range(questions)}

(* Every device that has something to say says it.                           *)
mdnsHandleQuery(m) ==
  UNION {IF config[d].mdns.enabled /\ mdnsAnswers(d, m.questions) # {}
           THEN Reply(m, d, Owns[d][1], m.srcPort, [kind |-> "mdns", records |-> mdnsAnswers(d, m.questions)])
           ELSE {} : d \in Range(Targets(m))}

-----------------------------------------------------------------------------
(* The identity probes: each is answered by the first device that serves it  *)
(* at the address, in silence if the probe is not one it answers.            *)

Serving(m, svc) == FirstOf(SelectSeq(Targets(m), LAMBDA d : svc \in config[d].serves /\ deviceOwns(d, m)))

(* A request must be whole and its CSeq name its own method.                 *)
parseSIPRequest(m) == m.whole /\ m.cseqMethod = m.method

(* A mutant: the answer always goes to the port the request came from.       *)
ViaIgnored(m) == [ok |-> m.viaUDP /\ m.sentBy # -1, port |-> m.srcPort]

(* Where the answer goes: the port the request came from when it asks for    *)
(* that, else the port its Via names, else the default.                      *)
sipStampVia(m) == [ok |-> m.viaUDP /\ m.sentBy # -1,
                   port |-> IF m.rport THEN m.srcPort ELSE IF m.sentBy = 0 THEN 5060 ELSE m.sentBy]

sipTag(d, m) == <<d, m.callID>>

sipOptionsResponse(m, d) == [kind |-> "sip", toTag |-> IF m.toTag # "" THEN <<m.toTag>> ELSE sipTag(d, m), callID |-> m.callID]

handleSIP(m, d) ==
  IF parseSIPRequest(m) /\ m.method = "OPTIONS" /\ sipStampVia(m).ok
    THEN Reply(m, d, m.dst, sipStampVia(m).port, sipOptionsResponse(m, d)) ELSE {}

onvifScopes(d) == {<<"type", "video_encoder">>, <<"Profile", "Streaming">>, <<"hardware", d>>, <<"name", d>>}

wsdTypesMatch(types) == types \subseteq {"NetworkVideoTransmitter", "Device"}

(* rfc3986: by whole segments from the front; strcmp0: the same; any other   *)
(* rule matches nothing.                                                     *)
wsdScopesMatch(m, d) ==
  CASE m.matchBy \in {"", "rfc3986"} -> \A want \in m.scopes : \E have \in onvifScopes(d) : IsPrefix(want, have)
    [] m.matchBy = "strcmp0" -> m.scopes \subseteq onvifScopes(d)
    [] OTHER -> FALSE

parseWSDProbe(m) == m.whole /\ m.action = "Probe" /\ m.messageID # ""

onvifEndpointUUID(d) == d

onvifProbeMatch(m, d, number) ==
  IF parseWSDProbe(m) /\ wsdTypesMatch(m.types) /\ wsdScopesMatch(m, d)
    THEN <<[kind |-> "match", relatesTo |-> m.messageID, endpoint |-> onvifEndpointUUID(d), number |-> number, at |-> m.dst]>>
    ELSE None

handleONVIF(m, d) ==
  LET r == onvifProbeMatch(m, d, wsdMessages + 1)
  IN IF r = None THEN {} ELSE Reply(m, d, m.dst, m.srcPort, r[1])

(* A datagram is List Identity or is not answered: a session needs a stream. *)
handleEtherNetIP(m, d) == IF m.kind = "listIdentity" THEN Reply(m, d, m.dst, m.srcPort, [kind |-> "identity"]) ELSE {}

handleIdentityProbe(m) ==
  LET d == Serving(m, m.port)
  IN CASE m.port = "sip" -> handleSIP(m, d[1])
       [] m.port = "onvif" -> handleONVIF(m, d[1])
       [] m.port = "enip" -> handleEtherNetIP(m, d[1])

-----------------------------------------------------------------------------
(* The demultiplexer. *)

IdentityPorts == {"sip", "onvif", "enip"}

(* The reflector swaps the addresses and keeps the ports, so the answer goes *)
(* to the port that was asked.                                               *)
tryReflect(m) ==
  LET d == Serving(m, "reflector")
  IN IF d # None /\ m.signature THEN Reply(m, d[1], m.dst, m.dstPort, [kind |-> "reflected"]) ELSE {}

(* The first device of the list refuses.                                     *)
sendPortUnreachable(m) ==
  IF Targets(m) = <<>> \/ "mapped" \in config[Targets(m)[1]].serves THEN {}
  ELSE Reply(m, Targets(m)[1], m.dst, m.srcPort, [kind |-> "unreachable"])

handleUnservedPort(m) == IF tryReflect(m) # {} THEN tryReflect(m) ELSE sendPortUnreachable(m)

(* A datagram to a device that stands for a real host is relayed to it.      *)
proxyToMap(m, d) == Reply(m, d, m.dst, m.srcPort, [kind |-> "proxied"])

Mapped(m) == SelectSeq(Targets(m), LAMBDA d : "mapped" \in config[d].serves)

Served(m) ==
  CASE m.port = "netbios-ns" -> HandleNameService(m)
    [] m.port = "netbios-dgm" -> HandleDatagramService(m)
    [] m.port = "nbstat" -> IF Serving(m, "dns") = None THEN {} ELSE handleNBSTATQuery(m, Serving(m, "dns")[1])
    [] m.port = "mdns" -> mdnsHandleQuery(m)
    [] m.port \in IdentityPorts -> IF Serving(m, m.port) = None THEN handleUnservedPort(m) ELSE handleIdentityProbe(m)
    [] OTHER -> handleUnservedPort(m)

Answers(m) ==
  IF m.version = 6 THEN IF m.port \in {"netbios-ns", "nbstat"} THEN Served(m) ELSE {}
  ELSE IF m.dst # "all" /\ Mapped(m) # <<>> THEN proxyToMap(m, Mapped(m)[1])
  ELSE Served(m)

Init ==
  /\ config \in Configs
  /\ replies = {} /\ asked = None /\ wsdMessages = 0 /\ arrivals = 0

(* Every probe to an ONVIF device takes a message number, answered or not.   *)
HandlePacket(m) ==
  /\ arrivals < MaxArrivals
  /\ arrivals' = arrivals + 1
  /\ asked' = <<m>>
  /\ replies' = Answers(m)
  /\ wsdMessages' = IF m.port = "onvif" /\ m.version = 4 /\ Serving(m, "onvif") # None /\ Mapped(m) = <<>>
                      THEN wsdMessages + 1 ELSE wsdMessages
  /\ UNCHANGED config

Next == \E m \in Datagrams : HandlePacket(m)

Spec == Init /\ [][Next]_vars

-----------------------------------------------------------------------------

(* An answer leaves from an address of the device that gives it, on the VLAN *)
(* of the question (IPv4), and from the very address that was asked, unless  *)
(* the question was for everyone or about NetBIOS names, which are answered  *)
(* from the first address.                                                   *)
AnsweredFrom ==
  \A r \in replies :
    LET m == asked[1]
    IN m.version = 4 =>
         /\ r.vlan = m.vlan
         /\ m.dst # "all" => deviceOwnsIPv4(r.device, r.from)
         /\ m.dst # "all" /\ r.what.kind \notin {"name", "status", "nbstat", "mdns"} => r.from = m.dst

(* At most one device answers what is not for everyone; a datagram is        *)
(* refused only when nobody serves its port at that address.                 *)
OneAnswers ==
  asked # None =>
    LET m == asked[1]
    IN /\ m.port # "mdns" => Cardinality(replies) <= 1
       /\ \A r \in replies : r.what.kind = "unreachable" =>
            m.port \notin {"netbios-ns", "netbios-dgm", "nbstat", "mdns"} /\ Serving(m, m.port) = None

(* What node status lists, a name query of the same device finds.            *)
ListedNamesFound ==
  \A r \in replies : r.what.kind = "status" =>
    \A e \in r.what.names :
      LET found == HandleNameService([asked[1] EXCEPT !.kind = "query", !.name = e.name, !.suffix = e.suffix])
      IN \E f \in found : f.what.kind = "name" /\ f.device = r.device /\ (config[r.device].netbios.names = <<>> => f.what.group = e.group)

(* A browser that follows what mDNS says arrives: a service that is listed   *)
(* can be browsed, and the host its instances name has an address.           *)
mdnsLeadsOn ==
  \A r \in replies : r.what.kind = "mdns" =>
    \A rec \in r.what.records :
      CASE rec.type = "PTR" /\ rec.name = <<"_services">> -> mdnsAnswers(r.device, <<[name |-> rec.to, type |-> "PTR"]>>) # {}
        [] rec.type = "SRV" -> mdnsAnswers(r.device, <<[name |-> rec.to, type |-> "A"]>>) # {}
        [] OTHER -> TRUE

(* A SIP answer goes where the request said it listens.                      *)
SipReachesAsker ==
  \A r \in replies : r.what.kind = "sip" =>
    LET m == asked[1] IN r.toPort = (IF m.rport THEN m.srcPort ELSE IF m.sentBy > 0 THEN m.sentBy ELSE 5060) /\ r.what.callID = m.callID
=============================================================================
