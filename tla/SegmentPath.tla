----------------------------- MODULE SegmentPath -----------------------------
(***************************************************************************)
(* The frame path of a stack without a fabric (internal/protocols:         *)
(* stack_threads.go, stack_init.go, device_table.go, stack_device_state.go,*)
(* ip.go, ip_reassembly.go, icmp.go, icmpv6.go, udp.go, arp.go): a frame   *)
(* is confined to the devices its VLAN tag selects, finds its device       *)
(* through an index of the addresses device state holds, and is answered   *)
(* on the VLAN it came from.                                               *)
(*                                                                         *)
(* A device has one interface.  A change of its state calls the observer   *)
(* that keeps the index before it lets go of the store's lock; the state a *)
(* session is restored with is in place, and indexed, before the first     *)
(* frame.  A frame is decoded in one step.                                 *)
(***************************************************************************)
EXTENDS Integers, FiniteSets

CONSTANTS
  Devices,     \* simulated devices
  Tag,         \* the segment (VLAN tag) a device is authored in, 0 untagged
  Address,     \* the address a device is authored with
  Speaks6,     \* devices with an IPv6 address, which is the authored one
  Hop,         \* the TTL a device answers for as a router on the path, or 0
  Advertises,  \* devices with a router advertisement
  Reflectors,  \* devices that reflect a tester's probes
  Addresses,   \* addresses frames are sent to
  TTLs, Tags,  \* TTLs and VLAN tags frames carry
  MaxPending,  \* bound: datagrams put together at once
  MaxChanges,  \* bound: changes of device state
  MaxCount     \* bound: Time Exceeded replies of one device

Unaddressed == "none"
Broadcast == "255.255.255.255"
Modes == {"flat", "vlan", "segments"}

VARIABLES
  mode,      \* flat, flat serving tagged VLANs only, or one table per tag
  address,   \* a device's address in its state, or Unaddressed
  up,        \* devices whose interface is up
  index,     \* the addresses the stack answers for, per device
  fragments, \* first fragments waiting for their datagram's last, per tag and device
  ttlCounts, \* Time Exceeded replies a device has sent
  replies,   \* what the last frame was answered with
  asked,     \* the tag it carried
  changes

vars == <<mode, address, up, index, fragments, ttlCounts, replies, asked, changes>>

NoFrame == -1

TypeOK ==
  /\ mode \in Modes /\ address \in [Devices -> Addresses \cup {Unaddressed}] /\ up \subseteq Devices
  /\ index \in [Devices -> SUBSET Addresses] /\ ttlCounts \in [Devices -> 0..MaxCount]
  /\ fragments \subseteq Tags \X Devices /\ changes \in 0..MaxChanges

Indexed(a, isUp) == IF isUp /\ a # Unaddressed THEN {a} ELSE {}

(* A fresh stack holds the authored state, or what its session had saved. *)
Init ==
  /\ mode \in Modes
  /\ address \in {Address, [Address EXCEPT ![CHOOSE d \in Devices : TRUE] = Unaddressed]}
  /\ up = Devices
  /\ index = [d \in Devices |-> Indexed(address[d], d \in up)]
  /\ fragments = {} /\ ttlCounts = [d \in Devices |-> 0]
  /\ replies = {} /\ asked = NoFrame /\ changes = 0

----------------------------------------------------------------------------
(* Which devices a tag selects, and whether a frame is confined out.         *)

(* Mutant: a tag nobody claimed falls through to every device.               *)
UnclaimedTagServed(vlan) ==
  IF mode = "segments" /\ \E d \in Devices : Tag[d] = vlan THEN {d \in Devices : Tag[d] = vlan} ELSE Devices

devicesFor(vlan) == IF mode = "segments" THEN {d \in Devices : Tag[d] = vlan} ELSE Devices

Confined(vlan) == (mode = "vlan" /\ vlan <= 0) \/ (mode = "segments" /\ devicesFor(vlan) = {})

devicesForStateIPv4(vlan, a) == {d \in devicesFor(vlan) : a \in index[d]}

(* A device's address as a sender, when it has one that is up. *)
firstStateIPv4Address(d) == IF index[d] = {} THEN Unaddressed ELSE CHOOSE a \in index[d] : TRUE

----------------------------------------------------------------------------
(* Answers.  An answer names the device, the address it speaks as and the    *)
(* VLAN it leaves on.                                                        *)

Answer(d, a, vlan, what) == [device |-> d, src |-> a, vlan |-> vlan, what |-> what]

(* Mutant: the device that has answered most keeps answering.                *)
KeepsTTLDevice(vlan, ttl) ==
  LET hops == {d \in devicesFor(vlan) : Hop[d] = ttl}
  IN  {d \in hops : \A e \in hops : ttlCounts[d] >= ttlCounts[e]}

(* The device that stands in for a router at this TTL: the one that has      *)
(* answered least.                                                           *)
GetDeviceByTTL(vlan, ttl) ==
  LET hops == {d \in devicesFor(vlan) : Hop[d] = ttl}
  IN  {d \in hops : \A e \in hops : ttlCounts[d] <= ttlCounts[e]}

(* It answers unless it has no address, or is the destination itself. *)
handleTTLTimeout(d, frame) ==
  firstStateIPv4Address(d) # Unaddressed /\ frame.dst \notin index[d] /\ ttlCounts[d] < MaxCount

(* Fragments are put together only for a destination one device has, and     *)
(* a datagram goes on when its last part meets its first.                    *)
Reassembled(frame, targets) ==
  frame.part = "whole" \/
  (frame.part = "last" /\ Cardinality(targets) = 1 /\ \A d \in targets : <<frame.vlan, d>> \in fragments)

reassembleIPv4(frame, targets) ==
  fragments' = IF Cardinality(targets) # 1 \/ frame.part = "whole" THEN fragments
               ELSE IF frame.part = "first" THEN fragments \cup {<<frame.vlan, d>> : d \in targets}
               ELSE fragments \ {<<frame.vlan, d>> : d \in targets}

getTargetDevices(frame) ==
  IF frame.dst = Broadcast THEN devicesFor(frame.vlan) ELSE devicesForStateIPv4(frame.vlan, frame.dst)

(* A ping is answered by the owner of the address.                           *)
handleEchoRequest(frame, targets) ==
  {Answer(d, frame.dst, frame.vlan, "reply") : d \in {e \in targets : frame.dst \in index[e]}}

(* A mask request by every device it reaches, as the address asked or else   *)
(* the first one.                                                            *)
handleAddressMaskRequest(frame, targets) ==
  {Answer(d, IF frame.dst \in index[d] THEN frame.dst ELSE firstStateIPv4Address(d), frame.vlan, "mask") :
     d \in {e \in targets : index[e] # {}}}

(* A solicitation by every advertising device of the segment, untagged.      *)
handleRouterSolicitation(frame) ==
  {Answer(d, firstStateIPv4Address(d), 0, "advertisement") :
     d \in {e \in devicesFor(frame.vlan) \cap Advertises : index[e] # {}}}

(* A reflector's probe by the reflector that has the address, when one does; *)
(* a datagram no service claims as unreachable, by the first device.         *)
tryReflect(frame, targets) ==
  {Answer(d, frame.dst, frame.vlan, "reflected") :
     d \in {e \in targets \cap Reflectors : frame.kind = "probe" /\ frame.dst \in index[e]}}

sendPortUnreachable(frame, targets) ==
  {Answer(CHOOSE d \in targets : TRUE, frame.dst, frame.vlan, "unreachable")}

handleUnservedPort(frame, targets) ==
  IF targets = {} THEN {}
  ELSE IF tryReflect(frame, targets) # {} THEN {CHOOSE r \in tryReflect(frame, targets) : TRUE}
  ELSE sendPortUnreachable(frame, targets)

routeToProtocolHandler(frame, targets) ==
  CASE frame.kind = "echo"    -> handleEchoRequest(frame, targets)
    [] frame.kind = "mask"    -> handleAddressMaskRequest(frame, targets)
    [] frame.kind = "solicit" -> handleRouterSolicitation(frame)
    [] OTHER                  -> handleUnservedPort(frame, targets)

HandleIPv4(frame) ==
  LET targets == getTargetDevices(frame)
      hops    == GetDeviceByTTL(frame.vlan, frame.ttl)
  IN  IF targets = {} THEN replies' = {} /\ UNCHANGED <<fragments, ttlCounts>>
      ELSE /\ reassembleIPv4(frame, targets)
           /\ IF ~Reassembled(frame, targets) THEN replies' = {} /\ UNCHANGED ttlCounts
              ELSE \/ \E d \in hops :
                        /\ handleTTLTimeout(d, frame)
                        /\ replies' = {Answer(d, firstStateIPv4Address(d), frame.vlan, "exceeded")}
                        /\ ttlCounts' = [ttlCounts EXCEPT ![d] = @ + 1]
                   \/ /\ hops = {} \/ \E d \in hops : ~handleTTLTimeout(d, frame)
                      /\ replies' = routeToProtocolHandler(frame, targets) /\ UNCHANGED ttlCounts

(* ARP asks the index.                                                       *)
sendARPReplies(d, frame) == Answer(d, frame.dst, frame.vlan, "arp")

handleARPRequest(frame) ==
  {sendARPReplies(d, frame) : d \in devicesForStateIPv4(frame.vlan, frame.dst)}

(* IPv6 asks the authored addresses of the tag's devices; a link-local       *)
(* address nobody authored is the one its device's MAC spells.               *)
getIPv6TargetDevices(frame) == {d \in devicesFor(frame.vlan) \cap Speaks6 : Address[d] = frame.dst}
devicesAtLinkLocal(frame)   == devicesFor(frame.vlan) \cap Speaks6 \cap {frame.dst}

handleNeighborSolicitation(frame) ==
  LET owners == getIPv6TargetDevices(frame)
  IN  {Answer(d, frame.dst, frame.vlan, "v6") : d \in IF owners = {} THEN devicesAtLinkLocal(frame) ELSE owners}

handleEchoRequest6(frame) ==
  {Answer(d, frame.dst, frame.vlan, "v6") : d \in getIPv6TargetDevices(frame)}

(* A device advertises itself from its link-local address.                   *)
sendRouterAdvertisement(d, vlan, what) == Answer(d, d, vlan, what)

handleRouterSolicitation6(frame) ==
  {sendRouterAdvertisement(d, frame.vlan, "v6") : d \in devicesFor(frame.vlan) \cap Speaks6 \cap Advertises}

HandleLink(frame) ==
  /\ replies' = CASE frame.kind = "arp"   -> handleARPRequest(frame)
                  [] frame.kind = "ns"    -> handleNeighborSolicitation(frame)
                  [] frame.kind = "echo6" -> handleEchoRequest6(frame)
                  [] frame.kind = "rs6"   -> handleRouterSolicitation6(frame)
  /\ UNCHANGED <<fragments, ttlCounts>>

decodePacket(frame) ==
  /\ replies = {}
  /\ frame.part = "first" => Cardinality(fragments) < MaxPending
  /\ IF Confined(frame.vlan) THEN replies' = {} /\ UNCHANGED <<fragments, ttlCounts>>
     ELSE IF frame.kind \in {"arp", "ns", "echo6", "rs6"} THEN HandleLink(frame)
     ELSE HandleIPv4(frame)
  /\ asked' = IF replies' = {} THEN NoFrame ELSE frame.vlan
  /\ UNCHANGED <<mode, address, up, index, changes>>

(* The origination worker: an advertising device sends unasked, on its own   *)
(* segment.                                                                  *)
discoveryVLAN(d) == IF mode = "flat" THEN 0 ELSE Tag[d]

originateRouterAdvertisements(d) ==
  /\ replies = {} /\ d \in Speaks6 \cap Advertises
  /\ replies' = {sendRouterAdvertisement(d, discoveryVLAN(d), "unasked")} /\ asked' = discoveryVLAN(d)
  /\ UNCHANGED <<mode, address, up, index, fragments, ttlCounts, changes>>

(* The replies leave before the next frame is looked at. *)
sendPacket ==
  /\ replies # {} /\ replies' = {} /\ asked' = NoFrame
  /\ UNCHANGED <<mode, address, up, index, fragments, ttlCounts, changes>>

(* A datagram whose last part stays away is given up after a minute. *)
expireFragments(vlan, d) ==
  /\ <<vlan, d>> \in fragments /\ replies = {}
  /\ fragments' = fragments \ {<<vlan, d>>}
  /\ UNCHANGED <<mode, address, up, index, ttlCounts, replies, asked, changes>>

----------------------------------------------------------------------------
(* Device state.                                                            *)

(* Mutant: an interface that goes down keeps its address in the index.       *)
IndexesDownInterfaces(d, a, isUp) == index' = [index EXCEPT ![d] = Indexed(a, TRUE)]

indexDeviceIPv4(d, a, isUp) == index' = [index EXCEPT ![d] = Indexed(a, isUp)]

Change == changes < MaxChanges /\ replies = {} /\ changes' = changes + 1 /\ UNCHANGED <<replies, asked>>

(* A commit to a device's state runs the observer under the store's lock. *)
UpdateInterface(d, a, isUp) ==
  /\ Change
  /\ address' = [address EXCEPT ![d] = a]
  /\ up' = IF isUp THEN up \cup {d} ELSE up \ {d}
  /\ indexDeviceIPv4(d, a, isUp)
  /\ UNCHANGED <<mode, fragments, ttlCounts>>

Frames ==
  [vlan : Tags, kind : {"arp", "echo6"}, dst : Addresses, ttl : {64}, part : {"whole"}] \cup
  [vlan : Tags, kind : {"ns"}, dst : Addresses \cup Devices, ttl : {64}, part : {"whole"}] \cup
  [vlan : Tags, kind : {"rs6", "solicit"}, dst : {Broadcast}, ttl : {64}, part : {"whole"}] \cup
  [vlan : Tags, kind : {"mask", "closed", "probe"}, dst : Addresses \cup {Broadcast}, ttl : {64}, part : {"whole"}] \cup
  [vlan : Tags, kind : {"echo", "closed"}, dst : Addresses, ttl : TTLs, part : {"whole"}] \cup
  [vlan : Tags, kind : {"echo"}, dst : Addresses, ttl : {64}, part : {"first", "last"}]

Next ==
  \/ \E frame \in Frames : decodePacket(frame)
  \/ \E d \in Devices : originateRouterAdvertisements(d)
  \/ sendPacket
  \/ \E vlan \in Tags, d \in Devices : expireFragments(vlan, d)
  \/ \E d \in Devices, a \in Addresses \cup {Unaddressed}, isUp \in BOOLEAN :
       UpdateInterface(d, a, isUp)

Spec == Init /\ [][Next]_vars

----------------------------------------------------------------------------
(* A frame is answered only by the devices its tag selects, on the tag it came *)
(* with, and as an address the answering interface has now, and up: never     *)
(* across segments, never for an address that moved away.  The exceptions are *)
(* the code's: router advertisements leave untagged, a broadcast to a closed  *)
(* port is reported from the broadcast address, and IPv6 addresses are the    *)
(* authored ones.                                                             *)
AnsweredInSegment ==
  \A r \in replies :
    /\ mode = "segments" => Tag[r.device] = asked
    /\ mode = "vlan" /\ r.what # "unasked" => asked > 0
    /\ r.what # "advertisement" => r.vlan = asked
    /\ r.what \notin {"v6", "unasked"} /\ r.src # Broadcast => r.device \in up /\ r.src = address[r.device]

(* Devices that stand for the same hop of a segment take turns.               *)
HopsTakeTurns ==
  \A d, e \in Devices :
    Hop[d] # 0 /\ Hop[d] = Hop[e] /\ Tag[d] = Tag[e] => ttlCounts[d] - ttlCounts[e] <= 1
=============================================================================
