-------------------------- MODULE DhcpLeasesProofs --------------------------
(***************************************************************************)
(* The DHCPv4 server implements AddressBindings, and what it acknowledges  *)
(* is what it has recorded, for any set of clients and any scopes a reload *)
(* may install; and every server that implements AddressBindings keeps its *)
(* bindings exclusive.                                                     *)
(***************************************************************************)
EXTENDS DhcpLeases, WellFoundedInduction, TLAPS

DInv ==
  /\ scope \in Configs
  /\ leases \in [Clients -> [ip : Named \cup {NoAddress}, live : BOOLEAN, lapsed : BOOLEAN]]
  /\ request \in [client : Clients \cup {NoAddress}, ip : Named \cup {NoAddress}]

LEMMA MinIsMember ==
  ASSUME NEW S \in SUBSET Nat, S # {}
  PROVE  Min(S) \in S
<1> DEFINE less == {ss \in Nat \X Nat : ss[1] < ss[2]}
<1>0. IsWellFoundedOn(less, Nat)
  BY NatLessThanWellFounded, Zenon DEF OpToRel
<1>1. PICK x \in S : \A y \in S : ~ (<<y, x>> \in less)
  BY <1>0, WFMin
<1>2. ASSUME NEW y \in S PROVE x =< y
  <2>1. x \in Nat /\ y \in Nat
    OBVIOUS
  <2>2. y < x => <<y, x>> \in less
    BY <2>1
  <2>3. QED BY <1>1, <2>1, <2>2
<1>3. QED BY <1>2 DEF Min

LEMMA NamedTypes ==
  ASSUME scope \in Configs
  PROVE  /\ NoAddress \notin Named
         /\ \A i \in DOMAIN Pool : i \in Nat /\ Pool[i] \in Named
         /\ \A c \in Clients : matchStaticLease(c) \in Named \cup {NoAddress}
<1>1. scope \in Scope /\ \A s \in Configs : s \in Scope
  BY ConfigsAssumption
<1>2. NoAddress \notin Named
  <2>1. ASSUME NEW s \in Configs
        PROVE  /\ s.start - 1 \in Nat
               /\ s.start .. s.end \subseteq Nat
               /\ \A i \in DOMAIN s.statics : s.statics[i].ip \in Nat
    <3>1. s.start \in Nat \ {0} /\ s.end \in Nat /\ s.statics \in Seq(StaticLease)
      BY <1>1 DEF Scope
    <3>2. \A i \in DOMAIN s.statics : s.statics[i] \in StaticLease
      BY <3>1
    <3>3. QED BY <3>1, <3>2 DEF StaticLease
  <2>2. QED BY <2>1, NoAddressAssumption DEF Named
<1>3. ASSUME NEW i \in DOMAIN Pool PROVE i \in Nat /\ Pool[i] \in Named
  <2>1. Pool # <<>>
    BY <1>3
  <2>2. i \in 1 .. (scope.end - scope.start) + 1 /\ Pool[i] = scope.start + (i - 1)
    BY <1>1, <1>3, <2>1 DEF Pool, generateIPPool, Scope
  <2>3. Pool[i] \in scope.start .. scope.end
    BY <1>1, <2>2 DEF Scope
  <2>4. QED BY <2>2, <2>3 DEF Named
<1>4. ASSUME NEW c \in Clients PROVE matchStaticLease(c) \in Named \cup {NoAddress}
  <2> DEFINE hits == {i \in DOMAIN staticLeases : c \in staticLeases[i].macs}
  <2>1. CASE hits = {}
    BY <2>1 DEF matchStaticLease
  <2>2. CASE hits # {}
    <3>1. staticLeases = scope.statics /\ hits \in SUBSET Nat
      BY <1>1, <2>2 DEF staticLeases, Scope
    <3>2. Min(hits) \in hits
      BY <2>2, <3>1, MinIsMember
    <3>3. PICK k \in DOMAIN scope.statics : k = Min(hits)
      BY <3>1, <3>2
    <3>4. scope.statics[k].ip \in {scope.statics[i].ip : i \in DOMAIN scope.statics}
      OBVIOUS
    <3>5. staticLeases[Min(hits)].ip \in Named
      BY <3>1, <3>3, <3>4 DEF Named
    <3>6. QED BY <2>2, <3>5 DEF matchStaticLease
  <2>3. QED BY <2>1, <2>2
<1>5. QED BY <1>2, <1>3, <1>4

LEMMA NamedTypesAfter ==
  ASSUME scope' \in Configs
  PROVE  \A c \in Clients : matchStaticLease(c)' \in Named \cup {NoAddress}
<1>1. ASSUME NEW c \in Clients PROVE matchStaticLease(c)' \in Named \cup {NoAddress}
  <2> DEFINE hits == {i \in DOMAIN staticLeases' : c \in staticLeases'[i].macs}
  <2>1. matchStaticLease(c)' = IF hits = {} THEN NoAddress ELSE staticLeases'[Min(hits)].ip
    BY DEF matchStaticLease
  <2>2. CASE hits # {}
    <3>1. staticLeases' = scope'.statics /\ hits \in SUBSET Nat
      BY <2>2, ConfigsAssumption DEF staticLeases, Scope
    <3>2. Min(hits) \in hits
      BY <2>2, <3>1, MinIsMember
    <3>3. PICK k \in DOMAIN scope'.statics : k = Min(hits)
      BY <3>1, <3>2
    <3>4. scope'.statics[k].ip \in {scope'.statics[i].ip : i \in DOMAIN scope'.statics}
      OBVIOUS
    <3>5. staticLeases'[Min(hits)].ip \in Named
      BY <3>1, <3>3, <3>4 DEF Named
    <3>6. QED BY <2>1, <2>2, <3>5
  <2>3. QED BY <2>1, <2>2
<1>2. QED BY <1>1

LEMMA AvailableIsFree ==
  ASSUME DInv, findAvailableIP # NoAddress
  PROVE  findAvailableIP \in Named /\ ~isIPLeased(findAvailableIP)
<1> DEFINE free == {i \in DOMAIN Pool : Pool[i] \notin declined /\ ~isIPLeased(Pool[i])}
<1>1. free # {} /\ findAvailableIP = Pool[Min(free)]
  BY DEF findAvailableIP
<1>2. free \in SUBSET Nat
  BY NamedTypes DEF DInv
<1>3. Min(free) \in free
  BY <1>1, <1>2, MinIsMember
<1>4. QED BY <1>1, <1>3, NamedTypes DEF DInv

LEMMA StaticsFollowScope ==
  ASSUME UNCHANGED scope, NEW c \in Clients
  PROVE  matchStaticLease(c)' = matchStaticLease(c)
BY DEF matchStaticLease, staticLeases

LEMMA AllocateBinds ==
  ASSUME DInv, NEW c \in Clients, NEW a \in Named \cup {NoAddress},
         allocatedIP(c, a) # NoAddress, allocateLease(c, a), UNCHANGED scope
  PROVE  AB!Next /\ leases' \in [Clients -> [ip : Named \cup {NoAddress}, live : BOOLEAN, lapsed : BOOLEAN]]
<1> DEFINE x == allocatedIP(c, a)
           new == [ip |-> x, live |-> TRUE,
                   lapsed |-> HasLease(c) /\ leases[c].ip = x /\ leases[c].lapsed]
<1>1. leases' = [leases EXCEPT ![c] = new]
  BY DEF allocateLease
<1>2. [d \in Clients |-> matchStaticLease(d)]' = [d \in Clients |-> matchStaticLease(d)]
  BY StaticsFollowScope
<1>3. new.lapsed \in BOOLEAN
  OBVIOUS
<1>4. CASE matchStaticLease(c) # NoAddress
  <2>1. x = matchStaticLease(c) /\ x \in Named
    BY <1>4, NamedTypes DEF allocatedIP, DInv
  <2>2. AB!Reserve(c)
    BY <1>1, <1>2, <1>3, <1>4, <2>1 DEF AB!Reserve
  <2>3. QED BY <1>1, <1>3, <2>1, <2>2 DEF AB!Next, DInv
<1>5. CASE matchStaticLease(c) = NoAddress /\ HasLease(c) /\ x = leases[c].ip
  <2>1. new = [ip |-> leases[c].ip, live |-> TRUE, lapsed |-> leases[c].lapsed]
    BY <1>5 DEF DInv
  <2>2. AB!Renew(c)
    BY <1>1, <1>2, <1>5, <2>1 DEF AB!Renew, AB!Unbound, HasLease, NoLease
  <2>3. QED BY <1>1, <1>3, <1>5, <2>2 DEF AB!Next, DInv
<1>6. CASE matchStaticLease(c) = NoAddress /\ ~(HasLease(c) /\ x = leases[c].ip)
  <2>1. x \in Named /\ ~isIPLeased(x)
    BY <1>6, AvailableIsFree DEF allocatedIP, canGrantRequestedIPLocked
  <2>2. new = [ip |-> x, live |-> TRUE, lapsed |-> FALSE]
    BY <1>6
  <2>3. AB!Bind(c, x)
    BY <1>1, <1>2, <2>1, <2>2 DEF AB!Bind, AB!Held, isIPLeased
  <2>4. QED BY <1>1, <1>3, <2>1, <2>3 DEF AB!Next, DInv
<1>7. QED BY <1>4, <1>5, <1>6

LEMMA LeasesUntouched ==
  ASSUME DInv, UNCHANGED <<leases, scope>>
  PROVE  UNCHANGED AB!vars
<1>1. [d \in Clients |-> matchStaticLease(d)]' = [d \in Clients |-> matchStaticLease(d)]
  BY StaticsFollowScope
<1>2. QED BY <1>1 DEF AB!vars

LEMMA LeaseEnds ==
  ASSUME DInv, NEW c \in Clients, UNCHANGED scope,
         leases' = [leases EXCEPT ![c] = NoLease]
  PROVE  AB!Next /\ leases' \in [Clients -> [ip : Named \cup {NoAddress}, live : BOOLEAN, lapsed : BOOLEAN]]
<1>1. [d \in Clients |-> matchStaticLease(d)]' = [d \in Clients |-> matchStaticLease(d)]
  BY StaticsFollowScope
<1>2. AB!Unbind(c)
  BY <1>1 DEF AB!Unbind, AB!Unbound, NoLease
<1>3. QED BY <1>2 DEF AB!Next, DInv, NoLease

LEMMA InitRefines ==
  Init => DInv /\ AB!Init
<1> SUFFICES ASSUME Init PROVE DInv /\ AB!Init
  OBVIOUS
<1>1. DInv
  BY DEF Init, DInv, NoLease, NoRequest
<1>2. [c \in Clients |-> matchStaticLease(c)] \in [Clients -> Named \cup {NoAddress}]
  BY <1>1, NamedTypes DEF DInv
<1>3. QED BY <1>1, <1>2 DEF Init, AB!Init, AB!Unbound, NoLease

LEMMA StepRefines ==
  ASSUME DInv, [Next]_vars
  PROVE  DInv' /\ [AB!Next]_(AB!vars)
<1>1. CASE UNCHANGED vars
  BY <1>1, LeasesUntouched DEF vars, DInv
<1>2. ASSUME NEW c \in Clients, NEW sid \in ServerIPs \cup {NoAddress}, handleDHCPDiscover(c, sid)
      PROVE  DInv' /\ [AB!Next]_(AB!vars)
  <2>1. CASE offerAddress(c)
    BY <1>2, <2>1, LeasesUntouched DEF handleDHCPDiscover, offerAddress, DInv
  <2>2. CASE ~offerAddress(c)
    BY <1>2, <2>2, AllocateBinds DEF handleDHCPDiscover, DInv
  <2>3. QED BY <2>1, <2>2
<1>3. ASSUME NEW c \in Clients, NEW sid \in ServerIPs \cup {NoAddress}, handleDHCPInform(c, sid)
      PROVE  DInv' /\ [AB!Next]_(AB!vars)
  BY <1>3, LeasesUntouched DEF handleDHCPInform, DInv
<1>4. ASSUME NEW c \in Clients, NEW sid \in ServerIPs \cup {NoAddress},
             NEW a \in Named \cup {NoAddress}, checkDHCPRequest(c, sid, a)
      PROVE  DInv' /\ [AB!Next]_(AB!vars)
  BY <1>4, LeasesUntouched DEF checkDHCPRequest, DInv
<1>5. ASSUME NEW c \in Clients, NEW sid \in ServerIPs \cup {NoAddress},
             NEW a \in Named, handleDHCPRelease(c, sid, a)
      PROVE  DInv' /\ [AB!Next]_(AB!vars)
  BY <1>5, LeaseEnds DEF handleDHCPRelease, DInv
<1>6. ASSUME NEW c \in Clients, NEW sid \in ServerIPs \cup {NoAddress},
             NEW a \in Named, handleDHCPDecline(c, sid, a)
      PROVE  DInv' /\ [AB!Next]_(AB!vars)
  <2>1. CASE leases[c].ip = a
    BY <1>6, <2>1, LeaseEnds DEF handleDHCPDecline, DInv
  <2>2. CASE leases[c].ip # a
    BY <1>6, <2>2, LeasesUntouched DEF handleDHCPDecline, DInv
  <2>3. QED BY <2>1, <2>2
<1>7. ASSUME NEW c \in Clients, handleDHCPRequest(c)
      PROVE  DInv' /\ [AB!Next]_(AB!vars)
  <2>1. request' \in [client : Clients \cup {NoAddress}, ip : Named \cup {NoAddress}]
    BY <1>7 DEF handleDHCPRequest, NoRequest
  <2>2. request.ip \in Named \cup {NoAddress}
    BY DEF DInv
  <2>3. CASE allocatedIP(c, request.ip) = NoAddress
    BY <1>7, <2>1, <2>3, LeasesUntouched DEF handleDHCPRequest, DInv
  <2>4. CASE allocatedIP(c, request.ip) # NoAddress
    BY <1>7, <2>1, <2>2, <2>4, AllocateBinds DEF handleDHCPRequest, DInv
  <2>5. QED BY <2>3, <2>4
<1>8. ASSUME NEW c \in Clients, lapse(c)
      PROVE  DInv' /\ [AB!Next]_(AB!vars)
  <2>1. [d \in Clients |-> matchStaticLease(d)]' = [d \in Clients |-> matchStaticLease(d)]
    BY <1>8, StaticsFollowScope DEF lapse
  <2>2. AB!Lapse(c)
    BY <1>8, <2>1 DEF lapse, AB!Lapse
  <2>3. QED BY <1>8, <2>2 DEF lapse, AB!Next, DInv
<1>9. ASSUME NEW s \in Configs, configureDHCPServer(s)
      PROVE  DInv' /\ [AB!Next]_(AB!vars)
  <2>1. DInv'
    BY <1>9 DEF configureDHCPServer, DInv, NoLease
  <2>2. \A c \in Clients : matchStaticLease(c)' \in Named \cup {NoAddress}
    <3>1. scope' \in Configs
      BY <1>9 DEF configureDHCPServer
    <3>2. QED BY <3>1, NamedTypesAfter
  <2>3. AB!Reconfigure
    BY <1>9, <2>2 DEF configureDHCPServer, AB!Reconfigure, AB!Unbound, NoLease
  <2>4. QED BY <2>1, <2>3 DEF AB!Next
<1>10. ASSUME UNCHANGED <<leases, scope, request>>
       PROVE  DInv' /\ [AB!Next]_(AB!vars)
  BY <1>10, LeasesUntouched DEF DInv
<1>11. CASE \/ \E a \in ServerIPs : updateDerivedServerIP(a)
            \/ \E a \in Peers : SetDeviceAddressFault(a)
            \/ ClearDeviceFault
            \/ SetDeviceFault
  BY <1>10, <1>11 DEF updateDerivedServerIP, SetDeviceAddressFault, ClearDeviceFault, SetDeviceFault
<1>12. QED
  BY <1>1, <1>2, <1>3, <1>4, <1>5, <1>6, <1>7, <1>8, <1>9, <1>11 DEF Next, HandlePacket

(* The DHCPv4 server, with its static bindings, quarantine, faults and       *)
(* reloads, is an address server: every grant of dhcp.go's allocateLease     *)
(* binds an address nobody holds, revives the client's own binding or        *)
(* installs its reservation.                                                 *)
THEOREM DhcpImplementsBindings == Spec => ImplementsBindings
<1>1. Init => DInv /\ AB!Init
  BY InitRefines
<1>2. DInv /\ [Next]_vars => DInv' /\ [AB!Next]_(AB!vars)
  BY StepRefines
<1>3. QED BY <1>1, <1>2, PTL DEF Spec, ImplementsBindings, AB!Spec

-----------------------------------------------------------------------------
(* A grant is of the address named, and a quarantined address is granted    *)
(* only as a static one.                                                    *)
LEMMA GrantIsNamed ==
  ASSUME DInv, NEW c \in Clients, NEW a \in Named, allocatedIP(c, a) # NoAddress
  PROVE  allocatedIP(c, a) = a /\ (a \in declined => matchStaticLease(c) = a)
<1>1. a # NoAddress
  BY NamedTypes DEF DInv
<1>2. canGrantRequestedIPLocked(c, a)
  BY <1>1 DEF allocatedIP
<1>3. CASE matchStaticLease(c) # NoAddress
  BY <1>1, <1>2, <1>3 DEF allocatedIP, canGrantRequestedIPLocked
<1>4. CASE matchStaticLease(c) = NoAddress
  BY <1>1, <1>2, <1>4 DEF allocatedIP, canGrantRequestedIPLocked
<1>5. QED BY <1>3, <1>4

(* Only a REQUEST is acknowledged.                                          *)
LEMMA OtherReplies ==
  ASSUME AckIsTheBinding, [Next]_vars, ~\E c \in Clients : handleDHCPRequest(c)
  PROVE  AckIsTheBinding'
<1>1. CASE UNCHANGED vars
  BY <1>1 DEF vars, AckIsTheBinding, matchStaticLease, staticLeases
<1>2. CASE reply'.type # "ack"
  BY <1>2 DEF AckIsTheBinding
<1>3. CASE HandlePacket
  <2>1. PICK c \in Clients, sid \in ServerIPs \cup {NoAddress} :
          \/ handleDHCPDiscover(c, sid)
          \/ handleDHCPInform(c, sid)
          \/ \E a \in Named \cup {NoAddress} : checkDHCPRequest(c, sid, a)
          \/ \E a \in Named : handleDHCPRelease(c, sid, a)
          \/ \E a \in Named : handleDHCPDecline(c, sid, a)
    BY <1>3 DEF HandlePacket
  <2>2. ASSUME NEW type, NEW d, NEW ip, NEW named, type # "ack", sendDHCPResponse(type, d, ip, named)
        PROVE  reply'.type # "ack"
    BY <2>2 DEF sendDHCPResponse, buildDHCPOptions, NoReply
  <2>3. CASE handleDHCPDiscover(c, sid)
    <3>1. \E ip : sendDHCPResponse("offer", c, ip, NoAddress)
      BY <2>3 DEF handleDHCPDiscover, offerAddress, SendDHCPOffer
    <3>2. QED BY <1>2, <2>2, <3>1
  <2>4. CASE handleDHCPInform(c, sid)
    BY <1>2, <2>2, <2>4 DEF handleDHCPInform
  <2>5. ASSUME NEW a \in Named \cup {NoAddress}, checkDHCPRequest(c, sid, a) PROVE AckIsTheBinding'
    <3>1. sendDHCPResponse("nak", c, NoAddress, a) \/ reply' = NoReply
      BY <2>5 DEF checkDHCPRequest, SendDHCPNak
    <3>2. QED BY <1>2, <2>2, <3>1 DEF NoReply
  <2>6. ASSUME NEW a \in Named, handleDHCPRelease(c, sid, a) \/ handleDHCPDecline(c, sid, a) PROVE AckIsTheBinding'
    BY <1>2, <2>6 DEF handleDHCPRelease, handleDHCPDecline, NoReply
  <2>7. QED BY <2>1, <2>3, <2>4, <2>5, <2>6
<1>4. CASE \/ \E c \in Clients : lapse(c)
           \/ \E a \in ServerIPs : updateDerivedServerIP(a)
           \/ \E a \in Peers : SetDeviceAddressFault(a)
           \/ ClearDeviceFault
           \/ SetDeviceFault
           \/ \E s \in Configs : configureDHCPServer(s)
  BY <1>2, <1>4 DEF lapse, updateDerivedServerIP, SetDeviceAddressFault, ClearDeviceFault, SetDeviceFault,
                    configureDHCPServer, NoReply
<1>5. QED
  BY <1>1, <1>3, <1>4 DEF Next

LEMMA RequestAcknowledged ==
  ASSUME DInv, NEW c \in Clients, handleDHCPRequest(c)
  PROVE  AckIsTheBinding'
<1>1. CASE reply'.type # "ack"
  BY <1>1 DEF AckIsTheBinding
<1>2. CASE reply'.type = "ack"
  <2> DEFINE a == request.ip
             x == allocatedIP(c, a)
  <2>1. x # NoAddress /\ allocateLease(c, a) /\ reply' = buildDHCPOptions("ack", c, x, a)
    BY <1>2 DEF handleDHCPRequest, SendDHCPNak, SendDHCPAck, sendDHCPResponse, buildDHCPOptions, NoReply
  <2>2. reply'.client = c /\ reply'.ip = x /\ reply'.named = a
    BY <2>1 DEF buildDHCPOptions
  <2>3. leases'[c].live /\ leases'[c].ip = x
    BY <2>1 DEF allocateLease, DInv
  <2>4. UNCHANGED <<declined, scope>>
    BY DEF handleDHCPRequest
  <2>5. a # NoAddress => x = a /\ (a \in declined' => matchStaticLease(c)' = a)
    BY <2>1, <2>4, GrantIsNamed, StaticsFollowScope DEF DInv
  <2> HIDE DEF a, x
  <2>6. QED
    BY <2>2, <2>3, <2>5 DEF AckIsTheBinding
<1>3. QED BY <1>1, <1>2

(* Whatever the faults, reloads and expiries between the check of a REQUEST  *)
(* and its grant, an ACK carries the address the client named, the server    *)
(* has that client's live lease on it, and it is not quarantined unless it   *)
(* is the client's static one (handleDHCPRequest, allocateLease).            *)
THEOREM AckNamesTheBinding == Spec => []AckIsTheBinding
<1>1. Init => DInv /\ AckIsTheBinding
  BY InitRefines DEF Init, AckIsTheBinding, NoReply
<1>2. DInv /\ AckIsTheBinding /\ [Next]_vars => DInv' /\ AckIsTheBinding'
  BY StepRefines, OtherReplies, RequestAcknowledged
<1>3. QED BY <1>1, <1>2, PTL DEF Spec
-----------------------------------------------------------------------------
(***************************************************************************)
(* What AddressBindings promises of every server, for any clients and any  *)
(* addresses.                                                              *)
(***************************************************************************)
CONSTANTS Holders, Leasable, Nowhere
VARIABLES bindings, reserved

Server == INSTANCE AddressBindings WITH Clients <- Holders, Addresses <- Leasable, NoAddress <- Nowhere

(* The inductive strengthening: a binding that is not live has run out.      *)
Recorded ==
  /\ bindings \in [Holders -> [ip : Leasable \cup {Nowhere}, live : BOOLEAN, lapsed : BOOLEAN]]
  /\ reserved \in [Holders -> Leasable \cup {Nowhere}]
  /\ \A c \in Holders : bindings[c].live \/ bindings[c].lapsed \/ bindings[c] = Server!Unbound

BInv == Recorded /\ Server!BindingsExclusive

LEMMA StepKeepsBindings ==
  ASSUME BInv, [Server!Next]_(Server!vars)
  PROVE  BInv'
<1> USE DEF BInv, Recorded
<1>1. ASSUME NEW c \in Holders, NEW a \in Leasable, Server!Bind(c, a) PROVE BInv'
  <2>1. Recorded'
    BY <1>1 DEF Server!Bind
  <2>2. Server!BindingsExclusive'
    BY <1>1 DEF Server!Bind, Server!Held, Server!BindingsExclusive
  <2>3. QED BY <2>1, <2>2
<1>2. ASSUME NEW c \in Holders, Server!Reserve(c) PROVE BInv'
  <2>1. Recorded'
    BY <1>2 DEF Server!Reserve
  <2>2. Server!BindingsExclusive'
    BY <1>2 DEF Server!Reserve, Server!BindingsExclusive
  <2>3. QED BY <2>1, <2>2
<1>3. ASSUME NEW c \in Holders, Server!Renew(c) PROVE BInv'
  <2>1. Recorded'
    BY <1>3 DEF Server!Renew, Server!Unbound
  <2>2. Server!BindingsExclusive'
    BY <1>3 DEF Server!Renew, Server!BindingsExclusive
  <2>3. QED BY <2>1, <2>2
<1>4. ASSUME NEW c \in Holders, Server!Lapse(c) PROVE BInv'
  <2>1. Recorded'
    BY <1>4 DEF Server!Lapse
  <2>2. Server!BindingsExclusive'
    BY <1>4 DEF Server!Lapse, Server!BindingsExclusive
  <2>3. QED BY <2>1, <2>2
<1>5. ASSUME NEW c \in Holders, Server!Unbind(c) PROVE BInv'
  <2>1. Recorded'
    BY <1>5 DEF Server!Unbind, Server!Unbound
  <2>2. Server!BindingsExclusive'
    BY <1>5 DEF Server!Unbind, Server!Unbound, Server!BindingsExclusive
  <2>3. QED BY <2>1, <2>2
<1>6. ASSUME Server!Reconfigure PROVE BInv'
  BY <1>6 DEF Server!Reconfigure, Server!Unbound, Server!BindingsExclusive
<1>7. ASSUME UNCHANGED Server!vars PROVE BInv'
  BY <1>7 DEF Server!vars, Server!BindingsExclusive, Server!Unbound
<1>8. QED BY <1>1, <1>2, <1>3, <1>4, <1>5, <1>6, <1>7 DEF Server!Next

(* In every address server, whatever its clients and addresses, two clients  *)
(* without a reservation share a live address only if one of the bindings    *)
(* ran out and was revived.                                                  *)
THEOREM BindingsStayExclusive == Server!Spec => []Server!BindingsExclusive
<1>1. Server!Init => BInv
  BY DEF Server!Init, BInv, Recorded, Server!BindingsExclusive, Server!Unbound
<1>2. BInv /\ [Server!Next]_(Server!vars) => BInv'
  BY StepKeepsBindings
<1>3. BInv => Server!BindingsExclusive
  BY DEF BInv
<1>4. QED BY <1>1, <1>2, <1>3, PTL DEF Server!Spec
=============================================================================
