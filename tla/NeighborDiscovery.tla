-------------------------- MODULE NeighborDiscovery --------------------------
(***************************************************************************)
(* The link-layer discovery protocols of a stack                           *)
(* (src/internal/protocols/{lldp,lldp_med,cdp,edp,fdp}.go): four workers   *)
(* that advertise every device that speaks their protocol, the check at    *)
(* egress that an advertisement comes from the far end of the client's     *)
(* cable (discovery_egress.go), and the table of the neighbours that the   *)
(* stack hears (neighbors.go, stack_neighbors.go).                         *)
(*                                                                         *)
(* The neighbour that is heard is a stack running the same code: what is   *)
(* put on the wire is what HandlePacket may be handed, once, twice or not  *)
(* at all.  Names, ports and addresses are tokens; a frame is the record   *)
(* of what its TLVs carry.  Time is in seconds and moves from one due      *)
(* event to the next.                                                      *)
(***************************************************************************)
EXTENDS Integers, Sequences, FiniteSets, SequencesExt

CONSTANTS
  Order,       \* the devices in the order of the configuration
  Class,       \* the device class of each
  Hold,        \* the hold time each authors, 0 for none
  ChassisType, \* the chassis ID type each authors, "" for none
  AuthoredPort,\* the port ID each authors for CDP and FDP, "" for none
  Ports,       \* the pool ports: [device, iface]
  Speakers,    \* the sets of <<device, protocol>> that a configuration may author
  Workers,     \* the sets of protocols whose workers are explored together
  MaxTime, MaxEdits

VARIABLES
  authored,  \* what the loaded configuration enables
  hostname,  \* the live hostname of each device: "authored" or "renamed"
  address,   \* the first address of its state: "", "v4" or "v6"
  port,      \* placement.advertisedPort, or <<>> when every free port is shut
  workers,   \* the protocols that are running (rigid)
  next,      \* when each worker's ticker fires
  cleanAt,   \* when the cleanup ticker fires
  sendQueue, \* frames waiting for the send worker
  wire,      \* the frames that left, for the neighbour to hear
  entries,   \* the neighbour table: a set of records
  heard,     \* what was heard since the last reload, newest per key (ghost)
  now, edits

vars == <<authored, hostname, address, port, workers, next, cleanAt, sendQueue, wire, entries, heard, now, edits>>

Devices == Range(Order)

Protocols == {"LLDP", "CDP", "EDP", "FDP"}

AdvertiseInterval == [LLDP |-> 15, CDP |-> 15, EDP |-> 30, FDP |-> 60]

DefaultTTL == [LLDP |-> 120, CDP |-> 180, EDP |-> 120, FDP |-> 180]

neighborDefaultTTL == 180

neighborCleanup == 30

Smaller(a, b) == IF a < b THEN a ELSE b

-----------------------------------------------------------------------------
(* Who speaks what. *)

RunsLLDPByDefault(c) == c \in {"router", "switch", "layer3-switch", "access-point", "firewall", "voip-phone"}

(* Mutant: an absent block reads as enabled, as it once did. *)
ReadsAbsentAsEnabled(d, p) == IF p = "LLDP" THEN <<d, "noLLDP">> \notin authored ELSE TRUE

(* The rule for attributing an inbound neighbour. An LLDP block wins over    *)
(* the default of the class, so <<d, "noLLDP">> stands for one that is off.  *)
isDeviceEnabledForProtocol(d, p) ==
  IF p = "LLDP" THEN <<d, "LLDP">> \in authored
                     \/ (<<d, "noLLDP">> \notin authored /\ RunsLLDPByDefault(Class[d]))
                ELSE <<d, p>> \in authored

(* The rules of the four emitters. *)
lldpSpeaks(d) ==
  IF RunsLLDPByDefault(Class[d]) THEN <<d, "noLLDP">> \notin authored
                                 ELSE <<d, "LLDP">> \in authored

cdpSpeaks(d) == <<d, "CDP">> \in authored
edpSpeaks(d) == <<d, "EDP">> \in authored
fdpSpeaks(d) == <<d, "FDP">> \in authored

Speaks(p, d) ==
  CASE p = "LLDP" -> lldpSpeaks(d) [] p = "CDP" -> cdpSpeaks(d)
    [] p = "EDP" -> edpSpeaks(d) [] p = "FDP" -> fdpSpeaks(d)

(* Who owns an inbound neighbour: the first device that speaks the protocol, *)
(* else the first device.                                                    *)
selectDiscoveryDevice(p) ==
  LET speaking == SelectSeq(Order, LAMBDA d : isDeviceEnabledForProtocol(d, p))
  IN IF speaking = <<>> THEN Order[1] ELSE speaking[1]

-----------------------------------------------------------------------------
(* What an advertisement says. *)

advertisesAtClient(d) == port # <<>> /\ port[1] = d

advertisedPortName(d, own, fallback) ==
  IF advertisesAtClient(d) THEN port[2] ELSE IF own # "" THEN own ELSE fallback

deviceHostname(d) == <<d, hostname[d]>>

AuthoredName(d) == <<d, "authored">>

lldpChassisID(d) ==
  CASE ChassisType[d] = "local" -> AuthoredName(d)
    [] ChassisType[d] = "network_address" /\ address[d] # "" -> <<d, address[d]>>
    [] OTHER -> <<d, "mac">>

lldpPortID(d) == advertisedPortName(d, "", d)

lldpTTL(d) == IF Hold[d] > 0 THEN Smaller(Hold[d], 65535) ELSE DefaultTTL.LLDP

lldpSystemName(d) == deviceHostname(d)

lldpManagementAddress(d) == address[d]

(* The enabled capabilities; "station" only when nothing else is. *)
lldpCapabilities(d) ==
  CASE Class[d] = "router" -> {"router"}
    [] Class[d] = "layer3-switch" -> {"router", "bridge"}
    [] Class[d] = "switch" -> {"bridge"}
    [] Class[d] = "access-point" -> {"wlan-ap"}
    [] Class[d] = "firewall" -> {"router"}
    [] Class[d] = "voip-phone" -> {"phone"}
    [] OTHER -> {"station"}

buildLLDPFrame(d) ==
  [proto |-> "LLDP", device |-> d, chassis |-> lldpChassisID(d), port |-> lldpPortID(d), ttl |-> lldpTTL(d),
   name |-> lldpSystemName(d), address |-> lldpManagementAddress(d), capabilities |-> lldpCapabilities(d)]

cdpDeviceID(d) == deviceHostname(d)

cdpAddresses(d) == address[d]

cdpPortID(d) == advertisedPortName(d, AuthoredPort[d], "Port 1")

cdpCapabilities(d) ==
  CASE Class[d] = "router" -> {"router"}
    [] Class[d] = "layer3-switch" -> {"router", "switch"}
    [] Class[d] \in {"switch", "access-point"} -> {"switch"}
    [] Class[d] = "firewall" -> {"router"}
    [] Class[d] = "voip-phone" -> {"phone", "host"}
    [] OTHER -> {"host"}

buildCDPFrame(d) ==
  [proto |-> "CDP", device |-> d, chassis |-> cdpDeviceID(d), port |-> cdpPortID(d),
   ttl |-> IF Hold[d] > 0 THEN Smaller(Hold[d], 255) ELSE DefaultTTL.CDP,
   name |-> cdpDeviceID(d), address |-> cdpAddresses(d), capabilities |-> cdpCapabilities(d)]

(* The display string defaults to the authored name and the type. *)
edpDisplay(d) == AuthoredName(d)

(* The default info string carries MAC, IP and type as KEY:value fields. *)
edpInfo(d) == [mac |-> <<d, "mac">>, ip |-> address[d], type |-> Class[d]]

(* EDP carries neither a port nor a hold time. *)
buildEDPFrame(d) ==
  [proto |-> "EDP", device |-> d, chassis |-> <<d, "mac">>, port |-> "", ttl |-> 0,
   name |-> edpDisplay(d), address |-> edpInfo(d).ip, capabilities |-> {edpInfo(d).type}]

fdpDeviceID(d) == AuthoredName(d)

fdpPort(d) == advertisedPortName(d, AuthoredPort[d], "Port 1")

fdpCapabilities(d) ==
  CASE Class[d] \in {"router", "layer3-switch"} -> {"router", "switch"}
    [] Class[d] = "switch" -> {"switch"}
    [] OTHER -> {"host"}

fdpIPAddress(d) == address[d]

buildFDPFrame(d) ==
  [proto |-> "FDP", device |-> d, chassis |-> fdpDeviceID(d), port |-> fdpPort(d),
   ttl |-> IF Hold[d] > 0 THEN Smaller(Hold[d], 255) ELSE DefaultTTL.FDP,
   name |-> fdpDeviceID(d), address |-> fdpIPAddress(d), capabilities |-> fdpCapabilities(d)]

Frame(p, d) ==
  CASE p = "LLDP" -> buildLLDPFrame(d) [] p = "CDP" -> buildCDPFrame(d)
    [] p = "EDP" -> buildEDPFrame(d) [] p = "FDP" -> buildFDPFrame(d)

-----------------------------------------------------------------------------
(* The LLDP-MED block of an LLDP frame. *)

MEDBlocks ==
  [policies : SUBSET {"voice", "guest_voice"}, power : {"none", "", "pse", "pd"}, inventory : SUBSET {"serial", "model"}]

medApplicationTypes == {"voice", "guest_voice"}

medCapabilities(med) ==
  UNION { IF med.policies # {} THEN {"policy"} ELSE {},
          IF med.power = "none" THEN {} ELSE IF med.power = "pse" THEN {"power-pse"} ELSE {"power-pd"},
          IF med.inventory # {} THEN {"inventory"} ELSE {} }

medNetworkPolicyTLVs(med) == {<<"policy", a>> : a \in med.policies \cap medApplicationTypes}

medPowerTLV(med) == IF med.power = "none" THEN {} ELSE {<<"power", IF med.power = "pd" THEN "pd" ELSE "pse">>}

medInventoryTLVs(med) == {<<"inventory", f>> : f \in med.inventory}

buildMEDTLVs(med) == medNetworkPolicyTLVs(med) \cup medPowerTLV(med) \cup medInventoryTLVs(med)

-----------------------------------------------------------------------------
(* The neighbour table. *)

neighborKey(r) == <<r.local, r.proto, r.chassis, r.port>>

upsert(table, r) == {e \in table : neighborKey(e) # neighborKey(r)} \cup {r}

cleanup(table) == {e \in table : now <= e.expire}

(* A record for the frame f as each HandlePacket reads it. A TTL of zero     *)
(* becomes the protocol's own default; gopacket does not decode the IPv6     *)
(* form of a CDP address.                                                    *)
Heard(f, ttl, shown) ==
  [proto |-> f.proto, local |-> selectDiscoveryDevice(f.proto), chassis |-> f.chassis, port |-> f.port,
   remote |-> f.name, address |-> shown, expire |-> now + (IF ttl <= 0 THEN neighborDefaultTTL ELSE ttl)]

OrDefault(f) == IF f.ttl <= 0 THEN DefaultTTL[f.proto] ELSE f.ttl

lldpHandlePacket(f) == Heard(f, OrDefault(f), f.address)

cdpHandlePacket(f) == Heard(f, OrDefault(f), IF f.address = "v6" THEN "" ELSE f.address)

edpHandlePacket(f) == Heard(f, DefaultTTL.EDP, f.address)

fdpHandlePacket(f) == Heard(f, OrDefault(f), f.address)

NeighborRecord(f) ==
  CASE f.proto = "LLDP" -> lldpHandlePacket(f) [] f.proto = "CDP" -> cdpHandlePacket(f)
    [] f.proto = "EDP" -> edpHandlePacket(f) [] f.proto = "FDP" -> fdpHandlePacket(f)

-----------------------------------------------------------------------------

Init ==
  /\ authored \in Speakers
  /\ hostname = [d \in Devices |-> "authored"]
  /\ address \in [Devices -> {"v4"}]
  /\ port \in Ports
  /\ workers \in Workers
  /\ next = [p \in workers |-> 0]
  /\ cleanAt = neighborCleanup
  /\ sendQueue = <<>> /\ wire = {} /\ entries = {} /\ heard = {}
  /\ now = 0 /\ edits = 0

(* One pass of a worker: at once when it starts, then at every interval.     *)
sendAdvertisements(p) ==
  /\ next[p] = now
  /\ next' = [next EXCEPT ![p] = now + AdvertiseInterval[p]]
  /\ sendQueue' = sendQueue \o [i \in 1..Len(SelectSeq(Order, LAMBDA d : Speaks(p, d))) |->
                                  Frame(p, SelectSeq(Order, LAMBDA d : Speaks(p, d))[i])]
  /\ UNCHANGED <<authored, hostname, address, port, workers, cleanAt, wire, entries, heard, now, edits>>

(* The send worker: an advertisement whose device is not at the other end of *)
(* the client's cable when its turn comes is dropped.                        *)
validateDiscoveryEgress ==
  /\ sendQueue # <<>>
  /\ sendQueue' = Tail(sendQueue)
  /\ wire' = IF advertisesAtClient(Head(sendQueue).device) THEN wire \cup {Head(sendQueue)} ELSE wire
  /\ UNCHANGED <<authored, hostname, address, port, workers, next, cleanAt, entries, heard, now, edits>>

(* A frame on the wire is heard; it may be heard again.                      *)
HandlePacket(f) ==
  /\ f \in wire
  /\ entries' = upsert(entries, NeighborRecord(f))
  /\ heard' = upsert(heard, NeighborRecord(f))
  /\ UNCHANGED <<authored, hostname, address, port, workers, next, cleanAt, sendQueue, wire, now, edits>>

cleanupExpired ==
  /\ cleanAt = now
  /\ entries' = cleanup(entries)
  /\ cleanAt' = now + neighborCleanup
  /\ UNCHANGED <<authored, hostname, address, port, workers, next, sendQueue, wire, heard, now, edits>>

(* Reload: another configuration, and an empty table, under the write lock   *)
(* that every packet handler reads under.                                    *)
Reload(c) ==
  /\ edits < MaxEdits /\ c # authored
  /\ authored' = c
  /\ entries' = {} /\ heard' = {}
  /\ edits' = edits + 1
  /\ UNCHANGED <<hostname, address, port, workers, next, cleanAt, sendQueue, wire, now>>

(* A device is renamed or readdressed, or the port of the pool moves.        *)
Edit ==
  /\ edits < MaxEdits
  /\ edits' = edits + 1
  /\ \/ \E d \in Devices : hostname' = [hostname EXCEPT ![d] = "renamed"] /\ UNCHANGED <<address, port>>
     \/ \E d \in Devices, a \in {"", "v6"} : address' = [address EXCEPT ![d] = a] /\ UNCHANGED <<hostname, port>>
     \/ \E q \in Ports \cup {<<>>} : port' = q /\ q # port /\ UNCHANGED <<hostname, address>>
  /\ UNCHANGED <<authored, workers, next, cleanAt, sendQueue, wire, entries, heard, now>>

(* Time passes to the next due event; what left the stack before is gone     *)
(* from the wire.                                                            *)
Wait ==
  /\ sendQueue = <<>>
  /\ \A t \in {next[p] : p \in workers} \cup {cleanAt} : t > now
  /\ LET due == {next[p] : p \in workers} \cup {cleanAt}
         t == CHOOSE t \in due : \A u \in due : t <= u
     IN t <= MaxTime /\ now' = t
  /\ wire' = {}
  /\ UNCHANGED <<authored, hostname, address, port, workers, next, cleanAt, sendQueue, entries, heard, edits>>

Next ==
  \/ \E p \in workers : sendAdvertisements(p)
  \/ validateDiscoveryEgress
  \/ \E f \in wire : HandlePacket(f)
  \/ cleanupExpired
  \/ \E c \in Speakers : Reload(c)
  \/ Edit
  \/ Wait

Spec == Init /\ [][Next]_vars

-----------------------------------------------------------------------------

TypeOK ==
  /\ authored \in Speakers /\ port \in Ports \cup {<<>>} /\ workers \in Workers
  /\ hostname \in [Devices -> {"authored", "renamed"}] /\ address \in [Devices -> {"", "v4", "v6"}]
  /\ \A f \in wire : f.device \in Devices /\ f.proto \in workers
  /\ \A e \in entries : e.local \in Devices

(* A neighbour that was heard within its TTL is listed, with what it said    *)
(* last, whatever else was heard since; and none is listed longer than one   *)
(* cleanup interval after it expired.                                        *)
NeighborsCurrent ==
  /\ \A h \in heard : now <= h.expire => h \in entries
  /\ \A e \in entries : e \in heard /\ now <= e.expire + neighborCleanup

(* A listed neighbour belongs to a device of the loaded configuration that   *)
(* emits the protocol itself, if one does: the rule that attributes an       *)
(* inbound neighbour and the emitters' own rules agree.                      *)
OwnerEmits ==
  \A e \in entries : (\E d \in Devices : Speaks(e.proto, d)) => Speaks(e.proto, e.local)

(* A capability is advertised exactly when a TLV of its kind follows, for a  *)
(* power block that authors its role (one that does not advertises PD and    *)
(* then sends PSE).                                                          *)
MEDCapabilitiesFollow ==
  \A med \in MEDBlocks :
    med.power # "" =>
      medCapabilities(med) = { CASE t[1] = "power" /\ t[2] = "pse" -> "power-pse"
                                 [] t[1] = "power" /\ t[2] = "pd" -> "power-pd"
                                 [] OTHER -> t[1] : t \in buildMEDTLVs(med)}
=============================================================================
