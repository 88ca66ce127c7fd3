---------------------------- MODULE Dhcpv6Leases ----------------------------
(***************************************************************************)
(* The stack's DHCPv6 server (internal/protocols/dhcpv6.go): the lease     *)
(* table keyed by the client's DUID and the answers to SOLICIT, REQUEST,   *)
(* RENEW, REBIND, RELEASE, DECLINE and INFORMATION-REQUEST.                *)
(*                                                                         *)
(* Messages arrive one at a time from the decode loop.  A message without  *)
(* a DUID, without an IA_NA where one is needed, or too short to parse is  *)
(* dropped: it changes nothing.  Lifetimes run out as the steps            *)
(* preferredPasses and validPasses.  Option encodings are left out.        *)
(***************************************************************************)
EXTENDS Naturals, Sequences, FiniteSetsExt

CONSTANTS
  DUIDs,        \* client identifiers
  IAIDs,        \* identity associations a client may name
  AddressPools, \* pools SetAddressPool may install
  NoAddress

VARIABLES
  leases,       \* DHCPv6Handler.leases
  addressPool,  \* DHCPv6Handler.addressPool
  reply         \* the answer sent in the last step, or NoReply

vars == <<leases, addressPool, reply>>

NoLease == [ip |-> NoAddress, iaid |-> NoAddress, preferred |-> FALSE, live |-> FALSE, lapsed |-> FALSE]

NoReply == [type |-> "none", duid |-> NoAddress, ip |-> NoAddress, valid |-> FALSE]

HasLease(c) == leases[c] # NoLease

InUse(a) == \E d \in DUIDs : leases[d].ip = a /\ leases[d].live

(* A mutant of findAvailableAddress that takes the first address. *)
FirstAddress == IF addressPool = <<>> THEN NoAddress ELSE addressPool[1]

(* The first pool address no lease holds within its valid lifetime. *)
findAvailableAddress ==
  LET free == {i \in DOMAIN addressPool : ~InUse(addressPool[i])}
  IN  IF free = {} THEN NoAddress ELSE addressPool[Min(free)]

renewLeaseUnlocked(lease) == [lease EXCEPT !.preferred = TRUE, !.live = TRUE]

(* The lease allocateLease and confirmLease leave client c with: its own,    *)
(* renewed, or a new one; NoLease when the pool is exhausted.                *)
allocateLease(c, iaid) ==
  IF HasLease(c) THEN renewLeaseUnlocked(leases[c])
  ELSE IF findAvailableAddress = NoAddress THEN NoLease
  ELSE [ip |-> findAvailableAddress, iaid |-> iaid, preferred |-> TRUE, live |-> TRUE, lapsed |-> FALSE]

(* The answer: an IA_NA with the lease's address and lifetimes, or           *)
(* configuration only.                                                       *)
buildDHCPv6Message(type, c, lease) == [type |-> type, duid |-> c, ip |-> lease.ip, valid |-> lease.live]

(* sendDHCPv6Response: the send queue may refuse it. *)
sendDHCPv6Response(type, c, lease) ==
  \/ reply' = buildDHCPv6Message(type, c, lease)
  \/ reply' = NoReply

Init ==
  /\ leases = [c \in DUIDs |-> NoLease]
  /\ addressPool = <<>>
  /\ reply = NoReply

SetAddressPool(p) ==
  /\ addressPool' = p
  /\ reply' = NoReply
  /\ UNCHANGED leases

(* SOLICIT and REQUEST differ in the type of the answer only. *)
handleLeaseMessage(c, iaid, type) ==
  /\ allocateLease(c, iaid) # NoLease
  /\ leases' = [leases EXCEPT ![c] = allocateLease(c, iaid)]
  /\ sendDHCPv6Response(type, c, allocateLease(c, iaid))
  /\ UNCHANGED addressPool

handleSolicit(c, iaid) == handleLeaseMessage(c, iaid, "advertise")

handleRequest(c, iaid) == handleLeaseMessage(c, iaid, "reply")

(* RENEW and REBIND extend the client's lease, whatever the pool is now. *)
handleRenew(c) ==
  /\ HasLease(c)
  /\ leases' = [leases EXCEPT ![c] = renewLeaseUnlocked(@)]
  /\ sendDHCPv6Response("reply", c, renewLeaseUnlocked(leases[c]))
  /\ UNCHANGED addressPool

(* RELEASE and DECLINE drop the client's lease; neither is answered. *)
handleRelease(c) ==
  /\ HasLease(c)
  /\ leases' = [leases EXCEPT ![c] = NoLease]
  /\ reply' = NoReply
  /\ UNCHANGED addressPool

handleInfoRequest(c) ==
  /\ sendDHCPv6Response("info", c, NoLease)
  /\ UNCHANGED <<leases, addressPool>>

preferredPasses(c) ==
  /\ leases[c].preferred
  /\ leases' = [leases EXCEPT ![c].preferred = FALSE]
  /\ reply' = NoReply
  /\ UNCHANGED addressPool

(* The valid lifetime ends after the preferred one. *)
validPasses(c) ==
  /\ leases[c].live /\ ~leases[c].preferred
  /\ leases' = [leases EXCEPT ![c].live = FALSE, ![c].lapsed = TRUE]
  /\ reply' = NoReply
  /\ UNCHANGED addressPool

(* A configuration reload clears the server. *)
Reset ==
  /\ leases' = [c \in DUIDs |-> NoLease]
  /\ addressPool' = <<>>
  /\ reply' = NoReply

dispatchDHCPv6Message ==
  \E c \in DUIDs :
    \/ \E iaid \in IAIDs : handleSolicit(c, iaid) \/ handleRequest(c, iaid)
    \/ handleRenew(c)
    \/ handleRelease(c)
    \/ handleInfoRequest(c)

Next ==
  \/ dispatchDHCPv6Message
  \/ \E c \in DUIDs : preferredPasses(c) \/ validPasses(c)
  \/ \E p \in AddressPools : SetAddressPool(p)
  \/ Reset

Spec == Init /\ [][Next]_vars

TypeOK ==
  /\ leases \in [DUIDs -> [ip : Nat \cup {NoAddress}, iaid : IAIDs \cup {NoAddress},
                           preferred : BOOLEAN, live : BOOLEAN, lapsed : BOOLEAN]]
  /\ addressPool \in AddressPools \cup {<<>>}

PoolAddresses == UNION {{p[i] : i \in DOMAIN p} : p \in AddressPools}

Binding(lease) == [ip |-> lease.ip, live |-> lease.live, lapsed |-> lease.lapsed]

(* The DHCPv6 server is an address server: an address it hands out is held   *)
(* live by no one, and RENEW and REBIND extend the address the client has,   *)
(* also after the pool has changed.                                          *)
AB == INSTANCE AddressBindings WITH
        Clients <- DUIDs,
        Addresses <- PoolAddresses,
        bindings <- [c \in DUIDs |-> Binding(leases[c])],
        reserved <- [c \in DUIDs |-> NoAddress]

ImplementsBindings == AB!Spec
=============================================================================
