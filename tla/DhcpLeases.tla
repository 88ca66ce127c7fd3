----------------------------- MODULE DhcpLeases -----------------------------
(***************************************************************************)
(* One device's DHCPv4 server (internal/protocols/dhcp.go and the dhcp_*   *)
(* files): the lease table, the quarantine of declined addresses, the pool *)
(* and static bindings it is configured with, and its answers.             *)
(*                                                                         *)
(* Packets reach the server one at a time, from the stack's decode loop.   *)
(* Faults and the derived server address are set by other goroutines, so a *)
(* REQUEST, which is checked under one lock and granted under another, is  *)
(* two steps.  A lease's expiry is the step lapse: a lease may run out at  *)
(* any moment.  Hostnames, option encodings and transaction IDs are left   *)
(* out; the answer keeps its type, its addressee and its address.          *)
(***************************************************************************)
EXTENDS Naturals, Sequences, FiniteSetsExt

CONSTANTS
  Clients,      \* hardware addresses of the clients
  ServerIPs,    \* addresses the server device may own
  Peers,        \* addresses of active peers on the server's segment
  Configs,      \* configurations a reload may install
  MaxPoolSize,  \* converter.MaxDHCPv4PoolSize
  NoAddress     \* no address, or 0.0.0.0

StaticLease == [macs : SUBSET Clients, ip : Nat]

Scope == [start : Nat \ {0}, end : Nat, statics : Seq(StaticLease), relay : Nat \cup {NoAddress}]

ASSUME NoAddressAssumption == NoAddress \notin Nat
ASSUME ConfigsAssumption == \A s \in Configs : s \in Scope

VARIABLES
  leases,       \* DHCPHandler.leases: a lease for each client that has one
  declined,     \* DHCPHandler.declined
  scope,        \* the configuration served: pool ends, static leases, relay
  serverIP,     \* DHCPHandler.serverIP
  noOffer,      \* the no-offer fault is armed
  dupOffer,     \* the address of the duplicate-offer fault, or NoAddress
  request,      \* the REQUEST between its check and its grant, or NoRequest
  reply         \* the answer sent in the last step, or NoReply

vars == <<leases, declined, scope, serverIP, noOffer, dupOffer, request, reply>>

NoLease == [ip |-> NoAddress, live |-> FALSE, lapsed |-> FALSE]

NoRequest == [client |-> NoAddress, ip |-> NoAddress]

NoReply == [type |-> "none", client |-> NoAddress, ip |-> NoAddress, named |-> NoAddress]

(* The pool of a scope: every address from start to end, none when the range *)
(* is reversed or too large.                                                 *)
generateIPPool(start, end) ==
  IF end < start \/ (end - start) + 1 > MaxPoolSize THEN <<>>
  ELSE [i \in 1 .. (end - start) + 1 |-> start + (i - 1)]

Pool == generateIPPool(scope.start, scope.end)

(* A relayed scope serves no static leases and answers from the relay. *)
staticLeases == IF scope.relay = NoAddress THEN scope.statics ELSE <<>>

(* The address of the first static lease whose masked MAC matches. *)
matchStaticLease(c) ==
  LET hits == {i \in DOMAIN staticLeases : c \in staticLeases[i].macs}
  IN  IF hits = {} THEN NoAddress ELSE staticLeases[Min(hits)].ip

isIPInPool(a) == \E i \in DOMAIN Pool : Pool[i] = a

isIPLeased(a) == \E d \in Clients : leases[d].ip = a /\ leases[d].live

HasLease(c) == leases[c] # NoLease

(* A mutant of findAvailableIP that looks at the quarantine only. *)
FindsLeasedAddress ==
  LET free == {i \in DOMAIN Pool : Pool[i] \notin declined}
  IN  IF free = {} THEN NoAddress ELSE Pool[Min(free)]

(* The first pool address that is neither quarantined nor leased. *)
findAvailableIP ==
  LET free == {i \in DOMAIN Pool : Pool[i] \notin declined /\ ~isIPLeased(Pool[i])}
  IN  IF free = {} THEN NoAddress ELSE Pool[Min(free)]

offerSuppressed == noOffer

conflictsWithOffer(a) == a # NoAddress /\ a = dupOffer

(* A mutant of canGrantRequestedIPLocked that forgets who holds the address. *)
GrantsHeldAddresses(c, a) ==
  IF matchStaticLease(c) # NoAddress THEN a = matchStaticLease(c)
  ELSE a \notin declined /\ isIPInPool(a)

(* A statically bound client may only have its static address; a quarantined *)
(* one is never granted; a client may keep its own or claim a free one.      *)
canGrantRequestedIPLocked(c, a) ==
  IF matchStaticLease(c) # NoAddress THEN a = matchStaticLease(c)
  ELSE /\ a \notin declined
       /\ \/ HasLease(c) /\ leases[c].ip = a
          \/ isIPInPool(a) /\ ~isIPLeased(a)

canGrantRequestedIP(c, a) == ~conflictsWithOffer(a) /\ canGrantRequestedIPLocked(c, a)

(* The address allocateLease gives client c that asks for a (or for none),  *)
(* NoAddress when it fails.                                                 *)
allocatedIP(c, a) ==
  IF conflictsWithOffer(a) \/ (a # NoAddress /\ ~canGrantRequestedIPLocked(c, a)) THEN NoAddress
  ELSE IF matchStaticLease(c) # NoAddress THEN matchStaticLease(c)
  ELSE IF HasLease(c) THEN (IF a # NoAddress THEN a ELSE leases[c].ip)
  ELSE IF a # NoAddress /\ isIPInPool(a) /\ ~isIPLeased(a) THEN a
  ELSE findAvailableIP

(* allocateLease records the address, renewed; lapsed remembers that the     *)
(* binding has run out since the client was given this address.              *)
allocateLease(c, a) ==
  leases' = [leases EXCEPT ![c] =
               [ip |-> allocatedIP(c, a), live |-> TRUE,
                lapsed |-> HasLease(c) /\ leases[c].ip = allocatedIP(c, a) /\ leases[c].lapsed]]

Init ==
  /\ leases = [c \in Clients |-> NoLease]
  /\ declined = {}
  /\ scope \in Configs
  /\ serverIP \in ServerIPs
  /\ noOffer = FALSE
  /\ dupOffer = NoAddress
  /\ request = NoRequest
  /\ reply = NoReply

(* The answer and its options, of which the address matters here. *)
buildDHCPOptions(type, c, a, named) == [type |-> type, client |-> c, ip |-> a, named |-> named]

(* sendDHCPResponse: the answer goes out unless the send queue refuses it. *)
sendDHCPResponse(type, c, a, named) ==
  \/ reply' = buildDHCPOptions(type, c, a, named)
  \/ reply' = NoReply

SendDHCPOffer(c, a) == sendDHCPResponse("offer", c, a, NoAddress)

SendDHCPAck(c, a, named) == sendDHCPResponse("ack", c, a, named)

SendDHCPNak(c, named) == sendDHCPResponse("nak", c, NoAddress, named)

(* acceptsDHCPRequest: a named server must be this one; without one, DECLINE *)
(* and RELEASE are dropped and a REQUEST must name an address served here.   *)
acceptsDHCPRequest(type, c, sid, a) ==
  IF sid # NoAddress THEN sid = serverIP
  ELSE /\ type \notin {"decline", "release"}
       /\ type = "request" => a # NoAddress /\ (isIPInPool(a) \/ matchStaticLease(c) = a)

(* The decode loop is between packets. *)
Receives == request = NoRequest

(* offerAddress under the duplicate-offer fault: the peer's address, without *)
(* a lease; once the peer is gone nothing is sent.                           *)
offerAddress(c) ==
  /\ dupOffer # NoAddress
  /\ SendDHCPOffer(c, dupOffer)
  /\ UNCHANGED leases

(* DISCOVER: silent under the no-offer fault and when the pool is exhausted; *)
(* otherwise the offered address is reserved by a lease.                     *)
handleDHCPDiscover(c, sid) ==
  /\ Receives
  /\ acceptsDHCPRequest("discover", c, sid, NoAddress)
  /\ ~offerSuppressed
  /\ \/ offerAddress(c)
     \/ /\ dupOffer = NoAddress
        /\ allocatedIP(c, NoAddress) # NoAddress
        /\ allocateLease(c, NoAddress)
        /\ SendDHCPOffer(c, allocatedIP(c, NoAddress))
  /\ UNCHANGED <<declined, scope, serverIP, noOffer, dupOffer, request>>

(* REQUEST, first half: an address that cannot be granted is refused. *)
checkDHCPRequest(c, sid, a) ==
  /\ Receives
  /\ acceptsDHCPRequest("request", c, sid, a)
  /\ IF a # NoAddress /\ ~canGrantRequestedIP(c, a)
       THEN /\ SendDHCPNak(c, a)
            /\ UNCHANGED request
       ELSE /\ request' = [client |-> c, ip |-> a]
            /\ reply' = NoReply
  /\ UNCHANGED <<leases, declined, scope, serverIP, noOffer, dupOffer>>

(* REQUEST, second half: grant it, or refuse it after all. *)
handleDHCPRequest(c) ==
  /\ request # NoRequest /\ request.client = c
  /\ request' = NoRequest
  /\ IF allocatedIP(c, request.ip) = NoAddress
       THEN /\ SendDHCPNak(c, request.ip)
            /\ UNCHANGED leases
       ELSE /\ allocateLease(c, request.ip)
            /\ SendDHCPAck(c, allocatedIP(c, request.ip), request.ip)
  /\ UNCHANGED <<declined, scope, serverIP, noOffer, dupOffer>>

(* RELEASE ends the client's lease if it is for the address it names. *)
handleDHCPRelease(c, sid, ciaddr) ==
  /\ Receives
  /\ acceptsDHCPRequest("release", c, sid, ciaddr)
  /\ leases[c].ip = ciaddr
  /\ leases' = [leases EXCEPT ![c] = NoLease]
  /\ reply' = NoReply
  /\ UNCHANGED <<declined, scope, serverIP, noOffer, dupOffer, request>>

(* INFORM is answered with options and no lease. *)
handleDHCPInform(c, sid) ==
  /\ Receives
  /\ acceptsDHCPRequest("inform", c, sid, NoAddress)
  /\ sendDHCPResponse("inform ack", c, NoAddress, NoAddress)
  /\ UNCHANGED <<leases, declined, scope, serverIP, noOffer, dupOffer, request>>

(* DECLINE quarantines a pool address and drops the decliner's own lease. *)
handleDHCPDecline(c, sid, a) ==
  /\ Receives
  /\ acceptsDHCPRequest("decline", c, sid, a)
  /\ declined' = IF isIPInPool(a) THEN declined \cup {a} ELSE declined
  /\ leases' = IF leases[c].ip = a THEN [leases EXCEPT ![c] = NoLease] ELSE leases
  /\ reply' = NoReply
  /\ UNCHANGED <<scope, serverIP, noOffer, dupOffer, request>>

(* A lease's Expiry passes; nothing in the table changes but its standing. *)
lapse(c) ==
  /\ leases[c].live
  /\ leases' = [leases EXCEPT ![c] = [ip |-> leases[c].ip, live |-> FALSE, lapsed |-> TRUE]]
  /\ reply' = NoReply
  /\ UNCHANGED <<declined, scope, serverIP, noOffer, dupOffer, request>>

(* The state observer follows the device's first usable address. *)
updateDerivedServerIP(a) ==
  /\ serverIP' = a
  /\ reply' = NoReply
  /\ UNCHANGED <<leases, declined, scope, noOffer, dupOffer, request>>

(* Faults are armed and cleared between any two steps of the decode loop.    *)
SetDeviceAddressFault(a) ==
  /\ a \in Peers
  /\ dupOffer' = a
  /\ reply' = NoReply
  /\ UNCHANGED <<leases, declined, scope, serverIP, noOffer, request>>

ClearDeviceFault ==
  /\ dupOffer' = NoAddress
  /\ noOffer' = FALSE
  /\ reply' = NoReply
  /\ UNCHANGED <<leases, declined, scope, serverIP, request>>

SetDeviceFault ==
  /\ noOffer' = TRUE
  /\ reply' = NoReply
  /\ UNCHANGED <<leases, declined, scope, serverIP, dupOffer, request>>

(* A reload excludes the decode loop and builds a new handler. *)
configureDHCPServer(s) ==
  /\ Receives
  /\ scope' = s
  /\ leases' = [c \in Clients |-> NoLease]
  /\ declined' = {}
  /\ reply' = NoReply
  /\ noOffer' = FALSE
  /\ dupOffer' = NoAddress
  /\ serverIP' \in ServerIPs
  /\ UNCHANGED request

(* Addresses a client may name. *)
Named == UNION {{s.start - 1} \cup s.start .. s.end \cup
                {s.statics[i].ip : i \in DOMAIN s.statics} : s \in Configs}

HandlePacket ==
  \E c \in Clients, sid \in ServerIPs \cup {NoAddress} :
    \/ handleDHCPDiscover(c, sid)
    \/ handleDHCPInform(c, sid)
    \/ \E a \in Named \cup {NoAddress} : checkDHCPRequest(c, sid, a)
    \/ \E a \in Named : handleDHCPRelease(c, sid, a)
    \/ \E a \in Named : handleDHCPDecline(c, sid, a)

Next ==
  \/ HandlePacket
  \/ \E c \in Clients : handleDHCPRequest(c) \/ lapse(c)
  \/ \E a \in ServerIPs : updateDerivedServerIP(a)
  \/ \E a \in Peers : SetDeviceAddressFault(a)
  \/ ClearDeviceFault
  \/ SetDeviceFault
  \/ \E s \in Configs : configureDHCPServer(s)

Spec == Init /\ [][Next]_vars

TypeOK ==
  /\ leases \in [Clients -> [ip : Nat \cup {NoAddress}, live : BOOLEAN, lapsed : BOOLEAN]]
  /\ declined \subseteq Nat
  /\ scope \in Configs
  /\ serverIP \in ServerIPs
  /\ noOffer \in BOOLEAN
  /\ dupOffer \in Peers \cup {NoAddress}
  /\ request \in [client : Clients \cup {NoAddress}, ip : Nat \cup {NoAddress}]
  /\ reply.type \in {"none", "offer", "ack", "nak", "inform ack"}

(* The DHCPv4 server is an address server: an address it binds to a client   *)
(* is held live by no other client, unless it is the client's static one, so *)
(* live leases share an address only after one of them ran out.              *)
AB == INSTANCE AddressBindings WITH
        Addresses <- Named,
        bindings <- leases,
        reserved <- [c \in Clients |-> matchStaticLease(c)]

ImplementsBindings == AB!Spec

(* What the client is told is what the server has recorded: an ACK carries   *)
(* exactly the address the REQUEST named, that client's live lease is on it, *)
(* and it is not quarantined unless it is the client's static address or no  *)
(* address was named.                                                        *)
AckIsTheBinding ==
  reply.type = "ack" =>
    /\ leases[reply.client].live
    /\ leases[reply.client].ip = reply.ip
    /\ reply.named # NoAddress =>
         /\ reply.ip = reply.named
         /\ reply.ip \in declined => matchStaticLease(reply.client) = reply.ip
=============================================================================
