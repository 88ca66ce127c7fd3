------------------------------ MODULE DeviceCli ------------------------------
(***************************************************************************)
(* The command line of a simulated device (internal/devicecli) over the    *)
(* tables of its state store that DeviceState leaves out (internal/        *)
(* devicestate): identity, interface addresses and status, VLANs, routing  *)
(* processes, routes, and the faults of services, addresses and prefixes.  *)
(*                                                                         *)
(* Several sessions of an SSH connection enter commands; a command that    *)
(* updates through a callback is two steps (the callback runs between two  *)
(* critical sections of the store).  The device has one interface, one     *)
(* VLAN, one routing process and one static route that may exist.          *)
(***************************************************************************)
EXTENDS Naturals, FiniteSets, TLAPS

CONSTANTS
  Sessions,      \* channels of the connection
  MaxChannels,   \* sshMaxChannelsPerConnection
  Hosts,         \* hostnames
  Addresses,     \* addresses with their prefixes
  MaxOverlays,   \* bound on the faults armed at once
  MaxVersion,    \* bound on the version from which transactions start
  None

VARIABLES
  running, startup,  \* configuration banks
  point,             \* the checkpoint, or None
  overlay,           \* the faults armed, carrier faults apart
  linkDown,          \* a carrier fault is armed
  version,
  session,           \* mode of each open session
  update             \* what each update read and its result, while its callback runs

vars == <<running, startup, point, overlay, linkDown, version, session, update>>

(* A cable is plugged in or not for as long as the scenario runs.            *)
Banks(carrier, host, address) ==
  [host |-> host, address |-> address, admin |-> TRUE, oper |-> carrier, carrier |-> carrier,
   connected |-> address, vlan |-> "absent", router |-> "absent", static |-> "absent"]

Authored == Banks(running.carrier, CHOOSE h \in Hosts : TRUE, CHOOSE a \in Addresses : TRUE)

Init ==
  /\ running \in {Banks(c, CHOOSE h \in Hosts : TRUE, CHOOSE a \in Addresses : TRUE) : c \in BOOLEAN}
  /\ startup = running
  /\ point = None
  /\ overlay = {}
  /\ linkDown = FALSE
  /\ version = 2
  /\ session = [s \in Sessions |-> "closed"]
  /\ update = [s \in Sessions |-> None]

-----------------------------------------------------------------------------
(* The store.                                                                *)

May == version < MaxVersion
Tables == <<point, overlay, linkDown>>

reconcileConnectedRoute(bank) ==
  [bank EXCEPT !.connected =
    IF bank.address # None /\ bank.admin /\ bank.oper THEN bank.address ELSE None]

ReadsSnapshot(bank, up) ==
  LET carrier == bank.carrier /\ ~linkDown IN
  [bank EXCEPT !.admin = up, !.carrier = carrier, !.oper = up /\ carrier]

setInterfaceStatus(bank, up) ==
  [bank EXCEPT !.admin = up, !.oper = up /\ bank.carrier]

(* UpdateIdentity, UpdateInterface and UpdateVLAN: the callback works on     *)
(* what was read, and its result is stored if nothing changed since.         *)
Begins(s, part, next) ==
  /\ update[s] = None
  /\ update' = [update EXCEPT ![s] =
                 [version |-> version, part |-> part, current |-> running, next |-> next]]
  /\ UNCHANGED <<running, startup, Tables, version, session>>

Stored(u) ==
  CASE u.part = "identity" -> [running EXCEPT !.host = u.next.host]
    [] u.part = "vlan" -> [running EXCEPT !.vlan = u.next.vlan]
    [] u.part = "interface" ->
         LET bank == [running EXCEPT !.address = u.next.address, !.admin = u.next.admin,
                                     !.oper = u.next.oper, !.carrier = u.next.carrier]
             moved == \/ u.current.address # u.next.address
                      \/ u.current.admin # u.next.admin \/ u.current.oper # u.next.oper
         IN IF moved THEN reconcileConnectedRoute(bank) ELSE bank

CommitsStale(s) ==
  /\ update[s] # None
  /\ running' = Stored(update[s])
  /\ version' = version + 1
  /\ update' = [update EXCEPT ![s] = None]
  /\ UNCHANGED <<startup, Tables, session>>

(* ErrConcurrentUpdate leaves everything as it is.                           *)
commitUpdate(s) ==
  /\ update[s] # None
  /\ IF update[s].version = version
     THEN running' = Stored(update[s]) /\ version' = version + 1
     ELSE UNCHANGED <<running, version>>
  /\ update' = [update EXCEPT ![s] = None]
  /\ UNCHANGED <<startup, Tables, session>>

(* A transaction of one critical section.                                    *)
Stores(bank) ==
  /\ running' = bank
  /\ version' = IF bank = running THEN version ELSE version + 1
  /\ UNCHANGED <<startup, Tables, update>>

EnsureVLAN(bank) == IF bank.vlan = "absent" THEN [bank EXCEPT !.vlan = "unnamed"] ELSE bank
EnsureRouter(bank) == IF bank.router = "absent" THEN [bank EXCEPT !.router = "empty"] ELSE bank

(* Nothing is said when the routing process is gone.                         *)
AddRouterNetwork(bank) ==
  IF bank.router = "empty" THEN [bank EXCEPT !.router = "network"] ELSE bank

UpsertRoute(bank, value) == [bank EXCEPT !.static = value]

-----------------------------------------------------------------------------
(* Sessions.                                                                 *)

Open == {s \in Sessions : session[s] # "closed"}
Idle(s) == update[s] = None /\ May

(* serveChannel: a shell starts in user mode, an exec in privileged mode     *)
(* with a single command.                                                    *)
ServeConn(s) ==
  /\ session[s] = "closed"
  /\ Cardinality(Open) < MaxChannels
  /\ \E mode \in {"user", "exec"} : session' = [session EXCEPT ![s] = mode]
  /\ UNCHANGED <<running, startup, Tables, version, update>>

In(s, mode) == Idle(s) /\ session[s] = mode
Privileged(s) == In(s, "privileged") \/ In(s, "exec")
After(s, mode) == session' = [session EXCEPT ![s] = IF @ = "exec" THEN "closed" ELSE mode]

moves(s, mode) ==
  /\ After(s, mode)
  /\ UNCHANGED <<running, startup, Tables, version, update>>

executeUser(s) == In(s, "user") /\ (moves(s, "privileged") \/ moves(s, "closed"))

executePrivileged(s) ==
  /\ Privileged(s)
  /\ \/ /\ point' = [bank |-> running, overlay |-> overlay, linkDown |-> linkDown]
        /\ version' = version + 1
        /\ UNCHANGED <<running, startup, overlay, linkDown>>
        /\ After(s, "privileged")
     \/ /\ point # None
        /\ running' = point.bank /\ overlay' = point.overlay /\ linkDown' = point.linkDown
        /\ version' = version + 1
        /\ UNCHANGED <<startup, point>>
        /\ After(s, "privileged")
     \/ /\ \E mode \in {"user", "global", "closed"} : After(s, mode)
        /\ UNCHANGED <<running, startup, Tables, version>>
  /\ UNCHANGED update

executeLifecycle(s) ==
  /\ Privileged(s)
  /\ \/ startup' = running /\ UNCHANGED running /\ After(s, "privileged")
     \/ startup' = Authored /\ UNCHANGED running /\ After(s, "privileged")
     \/ running' = startup /\ UNCHANGED startup /\ After(s, "closed")
  /\ version' = version + 1
  /\ UNCHANGED <<Tables, update>>

(* A route is taken if its next hop is a neighbour's on the interface.       *)
validateRoute == running.address # None

executeGlobal(s) ==
  /\ In(s, "global")
  /\ \/ validateRoute /\ Stores(UpsertRoute(running, "present")) /\ UNCHANGED session
     \/ \E h \in Hosts : Begins(s, "identity", [running EXCEPT !.host = h])
     \/ moves(s, "interface")
     \/ Stores(EnsureVLAN(running)) /\ session' = [session EXCEPT ![s] = "vlan"]
     \/ Stores(EnsureRouter(running)) /\ session' = [session EXCEPT ![s] = "router"]
     \/ moves(s, "privileged")

executeInterface(s) ==
  /\ In(s, "interface")
  /\ \/ \E a \in Addresses \union {None} : Begins(s, "interface", [running EXCEPT !.address = a])
     \/ \E up \in BOOLEAN : Begins(s, "interface", setInterfaceStatus(running, up))
     \/ Begins(s, "interface", running)
     \/ moves(s, "global") \/ moves(s, "privileged")

executeVLAN(s) ==
  /\ In(s, "vlan")
  /\ \/ /\ running.vlan # "absent"   \* ErrVLANNotFound otherwise
        /\ Begins(s, "vlan", [running EXCEPT !.vlan = "named"])
     \/ moves(s, "global") \/ moves(s, "privileged")

executeRouter(s) ==
  /\ In(s, "router")
  /\ \/ Stores(AddRouterNetwork(running)) /\ UNCHANGED session
     \/ moves(s, "global") \/ moves(s, "privileged")

-----------------------------------------------------------------------------
(* Faults, which change no bank.                                             *)

SetInterfaceFault(down) ==
  /\ May /\ linkDown # down
  /\ linkDown' = down
  /\ version' = version + 1
  /\ UNCHANGED <<running, startup, point, overlay, session, update>>

Overlaid(faults) ==
  /\ May
  /\ overlay' = faults
  /\ version' = IF faults = overlay THEN version ELSE version + 1
  /\ UNCHANGED <<running, startup, point, linkDown, session, update>>

Arms(fault) == Cardinality(overlay) < MaxOverlays /\ Overlaid(overlay \union {fault})
Clears(fault) == Overlaid(overlay \ {fault})

DeviceFaults == {"service_fault", "duplicate_dhcp_offer"}

SetDeviceFault == Arms("service_fault") \/ Clears("service_fault")
SetDeviceAddressFault == Arms("duplicate_dhcp_offer")
ClearDeviceFault == \E fault \in DeviceFaults : Clears(fault)
ClearDeviceFaults == Overlaid(overlay \ DeviceFaults)

SetInterfaceAddressFault == Arms("duplicate_ip")
ClearInterfaceAddressFault == Clears("duplicate_ip")

(* A mask is overridden only on an addressed interface, and stays armed when *)
(* the address goes.                                                         *)
SetInterfacePrefixFault == running.address # None /\ Arms("bad_mask")
ClearInterfacePrefixFault == Clears("bad_mask")

Next ==
  \/ \E s \in Sessions :
       \/ ServeConn(s) \/ executeUser(s) \/ executePrivileged(s) \/ executeLifecycle(s)
       \/ executeGlobal(s) \/ executeInterface(s) \/ executeVLAN(s) \/ executeRouter(s)
       \/ commitUpdate(s)
  \/ \E down \in BOOLEAN : SetInterfaceFault(down)
  \/ SetDeviceFault \/ SetDeviceAddressFault \/ ClearDeviceFault \/ ClearDeviceFaults
  \/ SetInterfaceAddressFault \/ ClearInterfaceAddressFault
  \/ SetInterfacePrefixFault \/ ClearInterfacePrefixFault

Spec == Init /\ [][Next]_vars

-----------------------------------------------------------------------------
AllBanks == {running, startup} \union (IF point = None THEN {} ELSE {point.bank})

(* A carrier fault never settles into a configuration: in every bank an      *)
(* interface is operational exactly when it is administratively up and has   *)
(* its cable, whichever faults came and went while it was configured; and a  *)
(* connected route has the interface's own prefix, with one for every        *)
(* interface that is up.                                                     *)
BanksSettled ==
  \A bank \in AllBanks :
    /\ bank.carrier = running.carrier
    /\ bank.oper = (bank.admin /\ bank.carrier)
    /\ bank.connected \in {bank.address, None}
    /\ bank.oper => bank.connected = bank.address
-----------------------------------------------------------------------------
(***************************************************************************)
(* BanksSettled holds for any sessions, hostnames and addresses.  The      *)
(* inductive invariant adds what a callback's result is worth: it is built *)
(* from the bank the update read, which is still the running one when the  *)
(* versions agree.                                                         *)
(***************************************************************************)
Constants == Hosts # {} /\ Addresses # {}

BankType ==
  [host : Hosts, address : Addresses \union {None}, admin : BOOLEAN, oper : BOOLEAN, carrier : BOOLEAN,
   connected : Addresses \union {None}, vlan : {"absent", "unnamed", "named"},
   router : {"absent", "empty", "network"}, static : {"absent", "present"}]

Updates == [version : Nat, part : {"identity", "vlan", "interface"}, current : BankType, next : BankType]

TypeOK ==
  /\ running \in BankType /\ startup \in BankType
  /\ point # None => point.bank \in BankType
  /\ version \in Nat
  /\ update \in [Sessions -> Updates \union {None}]

Settled(bank, carrier) ==
  /\ bank.carrier = carrier
  /\ bank.oper = (bank.admin /\ bank.carrier)
  /\ bank.connected \in {bank.address, None}
  /\ bank.oper => bank.connected = bank.address

Pending(u) ==
  /\ u.version <= version
  /\ u.version = version => u.current = running
  /\ u.next.carrier = u.current.carrier
  /\ u.next.oper = (u.next.admin /\ u.next.carrier)

IInv ==
  /\ TypeOK
  /\ Settled(running, running.carrier) /\ Settled(startup, running.carrier)
  /\ point # None => Settled(point.bank, running.carrier)
  /\ \A s \in Sessions : update[s] # None => Pending(update[s])

(* The authored configuration is settled, whether the cable is in or not.   *)
LEMMA AuthoredSettled ==
  ASSUME Constants, NEW carrier \in BOOLEAN, NEW h \in Hosts, NEW a \in Addresses
  PROVE  Banks(carrier, h, a) \in BankType /\ Settled(Banks(carrier, h, a), carrier)
<1>1. Banks(carrier, h, a) \in BankType
  BY DEF Banks, BankType
<1>2. Settled(Banks(carrier, h, a), carrier)
  BY DEF Banks, Settled
<1> QED
  BY <1>1, <1>2

(* Reconciling the connected route settles a bank whose status is derived.  *)
LEMMA ReconcileSettles ==
  ASSUME NEW bank \in BankType, bank.oper = (bank.admin /\ bank.carrier)
  PROVE  /\ reconcileConnectedRoute(bank) \in BankType
         /\ Settled(reconcileConnectedRoute(bank), bank.carrier)
<1> DEFINE c == IF bank.address # None /\ bank.admin /\ bank.oper THEN bank.address ELSE None
           r == [bank EXCEPT !.connected = c]
<1>1. c \in Addresses \union {None}
  BY DEF BankType
<1>2. /\ r \in BankType /\ r.connected = c /\ r.address = bank.address /\ r.admin = bank.admin
      /\ r.oper = bank.oper /\ r.carrier = bank.carrier
  BY <1>1 DEF BankType
<1>3. bank.admin \in BOOLEAN /\ bank.oper \in BOOLEAN /\ bank.carrier \in BOOLEAN
  BY DEF BankType
<1>4. Settled(r, bank.carrier)
  BY <1>2, <1>3 DEF Settled
<1> QED
  BY <1>2, <1>4 DEF reconcileConnectedRoute

(* What commitUpdate stores, when nothing changed since the update read.    *)
LEMMA StoredSettled ==
  ASSUME running \in BankType, Settled(running, running.carrier),
         NEW u \in Updates, Pending(u), u.version = version
  PROVE  Stored(u) \in BankType /\ Settled(Stored(u), running.carrier)
<1>1. /\ u.current = running /\ u.next \in BankType /\ u.part \in {"identity", "vlan", "interface"}
      /\ u.next.carrier = running.carrier
  BY DEF Updates, Pending
<1>2. CASE u.part = "identity"
  <2>1. Stored(u) = [running EXCEPT !.host = u.next.host]
    BY <1>2 DEF Stored
  <2> QED
    BY <1>1, <2>1 DEF BankType, Settled
<1>3. CASE u.part = "vlan"
  <2>1. Stored(u) = [running EXCEPT !.vlan = u.next.vlan]
    BY <1>3 DEF Stored
  <2> QED
    BY <1>1, <2>1 DEF BankType, Settled
<1>4. CASE u.part = "interface"
  <2> DEFINE bank == [running EXCEPT !.address = u.next.address, !.admin = u.next.admin,
                                     !.oper = u.next.oper, !.carrier = u.next.carrier]
             moved == \/ u.current.address # u.next.address
                      \/ u.current.admin # u.next.admin \/ u.current.oper # u.next.oper
  <2>1. Stored(u) = IF moved THEN reconcileConnectedRoute(bank) ELSE bank
    BY <1>4 DEF Stored
  <2>2. /\ bank \in BankType /\ bank.address = u.next.address /\ bank.admin = u.next.admin
        /\ bank.oper = u.next.oper /\ bank.carrier = u.next.carrier /\ bank.connected = running.connected
    BY <1>1 DEF BankType
  <2>3. bank.oper = (bank.admin /\ bank.carrier) /\ bank.carrier = running.carrier
    BY <1>1, <2>2 DEF Pending
  <2> HIDE DEF bank
  <2>4. CASE moved
    BY <2>1, <2>2, <2>3, <2>4, ReconcileSettles
  <2>5. CASE ~moved
    <3>1. Settled(bank, running.carrier)
      BY <1>1, <2>2, <2>3, <2>5 DEF Settled
    <3> QED
      BY <2>1, <2>2, <2>5, <3>1
  <2> QED
    BY <2>4, <2>5
<1> QED
  BY <1>1, <1>2, <1>3, <1>4

(* Every step but the start of an update: banks are replaced by settled     *)
(* ones of the same carrier, and updates end.                               *)
Replaced ==
  /\ TypeOK' /\ running'.carrier = running.carrier
  /\ Settled(running', running.carrier) /\ Settled(startup', running.carrier)
  /\ point' # None => Settled(point'.bank, running.carrier)
  /\ version <= version' /\ (version' = version => running' = running)
  /\ \A s \in Sessions : update'[s] \in {update[s], None}

LEMMA ReplacedKeeps == IInv /\ Replaced => IInv'
<1> SUFFICES ASSUME IInv, Replaced PROVE IInv'
  OBVIOUS
<1>1. \A s \in Sessions : update'[s] # None => Pending(update[s])'
  <2> SUFFICES ASSUME NEW s \in Sessions, update'[s] # None PROVE Pending(update[s])'
    OBVIOUS
  <2>1. update'[s] = update[s] /\ Pending(update[s]) /\ update[s] \in Updates
    BY DEF Replaced, IInv, TypeOK
  <2>2. update[s].version \in Nat /\ version \in Nat /\ version' \in Nat
    BY <2>1 DEF Replaced, IInv, TypeOK, Updates
  <2> QED
    BY <2>1, <2>2 DEF Replaced, Pending
<1> QED
  BY <1>1 DEF Replaced, IInv, Settled

(* The start of an update whose result derives the status from the carrier. *)
LEMMA BeginsKeeps ==
  ASSUME IInv, NEW s \in Sessions, NEW part \in {"identity", "vlan", "interface"}, NEW next \in BankType,
         next.carrier = running.carrier, next.oper = (next.admin /\ next.carrier),
         Begins(s, part, next)
  PROVE  IInv'
<1> DEFINE u == [version |-> version, part |-> part, current |-> running, next |-> next]
<1>1. /\ update' = [update EXCEPT ![s] = u]
      /\ UNCHANGED <<running, startup, point, version>>
  BY DEF Begins, Tables
<1>2. u \in Updates
  BY DEF IInv, TypeOK, Updates
<1>3. /\ u.version = version /\ u.current = running /\ u.next = next
  OBVIOUS
<1>4. Pending(u)
  BY <1>3 DEF Pending, IInv, TypeOK
<1> HIDE DEF u
<1>5. TypeOK'
  BY <1>1, <1>2 DEF IInv, TypeOK
<1>6. \A t \in Sessions : update'[t] # None => Pending(update[t])'
  BY <1>1, <1>4 DEF IInv, TypeOK, Pending
<1> QED
  BY <1>1, <1>5, <1>6 DEF IInv, Settled

(* A transaction of one critical section that stores a settled bank.        *)
LEMMA StoresKeeps ==
  ASSUME IInv, NEW bank \in BankType, Settled(bank, running.carrier), Stores(bank)
  PROVE  IInv'
<1>1. Replaced
  BY DEF IInv, TypeOK, Stores, Tables, Replaced, Settled
<1> QED
  BY <1>1, ReplacedKeeps

(* A step that changes no bank and no update.                               *)
LEMMA SameBanksKeep ==
  ASSUME IInv, UNCHANGED <<running, startup, point, update>>, version' \in Nat, version <= version'
  PROVE  IInv'
<1>1. Replaced
  BY DEF IInv, TypeOK, Replaced, Settled
<1> QED
  BY <1>1, ReplacedKeeps

(* The invariant holds when the device starts.                              *)
LEMMA InitInvariant == Constants /\ Init => IInv
<1> SUFFICES ASSUME Constants, Init PROVE IInv
  OBVIOUS
<1> DEFINE h == CHOOSE h \in Hosts : TRUE
           a == CHOOSE a \in Addresses : TRUE
<1>1. h \in Hosts /\ a \in Addresses
  BY DEF Constants
<1>2. PICK c \in BOOLEAN : running = Banks(c, h, a)
  BY DEF Init
<1> HIDE DEF h, a
<1>3. running \in BankType /\ Settled(running, c)
  BY <1>1, <1>2, AuthoredSettled
<1>4. running.carrier = c
  BY <1>3 DEF Settled
<1> QED
  BY <1>3, <1>4 DEF Init, IInv, TypeOK

(* The end of an update, stored or refused.                                 *)
LEMMA CommitKeeps == \A s \in Sessions : IInv /\ commitUpdate(s) => IInv'
<1> SUFFICES ASSUME NEW s \in Sessions, IInv, commitUpdate(s) PROVE IInv'
  OBVIOUS
<1>1. /\ update[s] \in Updates /\ Pending(update[s])
      /\ running \in BankType /\ startup \in BankType /\ version \in Nat
      /\ Settled(running, running.carrier)
  BY DEF IInv, TypeOK, commitUpdate
<1>2. /\ update' = [update EXCEPT ![s] = None] /\ UNCHANGED <<startup, point>>
  BY DEF commitUpdate, Tables
<1>3. update' \in [Sessions -> Updates \union {None}] /\ \A t \in Sessions : update'[t] \in {update[t], None}
  BY <1>2 DEF IInv, TypeOK
<1>4. CASE update[s].version = version
  <2>1. running' = Stored(update[s]) /\ version' = version + 1
    BY <1>4 DEF commitUpdate
  <2>2. running' \in BankType /\ Settled(running', running.carrier)
    BY <1>1, <1>4, <2>1, StoredSettled
  <2>3. Replaced
    BY <1>1, <1>2, <1>3, <2>1, <2>2 DEF Replaced, IInv, TypeOK, Settled
  <2> QED
    BY <2>3, ReplacedKeeps
<1>5. CASE update[s].version # version
  <2>1. UNCHANGED <<running, version>>
    BY <1>5 DEF commitUpdate
  <2>2. Replaced
    BY <1>1, <1>2, <1>3, <2>1 DEF Replaced, IInv, TypeOK, Settled
  <2> QED
    BY <2>2, ReplacedKeeps
<1> QED
  BY <1>4, <1>5

(* A change of mode.                                                        *)
LEMMA MovesKeep == \A s \in Sessions : \A mode : IInv /\ moves(s, mode) => IInv'
<1> SUFFICES ASSUME NEW s \in Sessions, NEW mode, IInv, moves(s, mode) PROVE IInv'
  OBVIOUS
<1>1. UNCHANGED <<running, startup, point, update, version>>
  BY DEF moves, Tables
<1> QED
  BY <1>1, SameBanksKeep DEF IInv, TypeOK

(* Checkpoint, restore and the changes of mode.                             *)
LEMMA PrivilegedKeeps == \A s \in Sessions : IInv /\ executePrivileged(s) => IInv'
<1> SUFFICES ASSUME NEW s \in Sessions, IInv, executePrivileged(s) PROVE Replaced
  BY ReplacedKeeps
<1>1. CASE /\ point' = [bank |-> running, overlay |-> overlay, linkDown |-> linkDown]
           /\ version' = version + 1
           /\ UNCHANGED <<running, startup, overlay, linkDown, update>>
  BY <1>1 DEF IInv, TypeOK, Replaced, Settled
<1>2. CASE /\ point # None /\ running' = point.bank /\ overlay' = point.overlay /\ linkDown' = point.linkDown
           /\ version' = version + 1
           /\ UNCHANGED <<startup, point, update>>
  BY <1>2 DEF IInv, TypeOK, Replaced, Settled
<1>3. CASE UNCHANGED <<running, startup, Tables, version, update>>
  BY <1>3 DEF IInv, TypeOK, Tables, Replaced, Settled
<1> QED
  BY <1>1, <1>2, <1>3 DEF executePrivileged

(* Write, erase and reload.                                                 *)
LEMMA LifecycleKeeps == Constants => \A s \in Sessions : IInv /\ executeLifecycle(s) => IInv'
<1> SUFFICES ASSUME Constants, NEW s \in Sessions, IInv, executeLifecycle(s) PROVE Replaced
  BY ReplacedKeeps
<1>1. Authored \in BankType /\ Settled(Authored, running.carrier)
  <2> DEFINE h == CHOOSE h \in Hosts : TRUE
             a == CHOOSE a \in Addresses : TRUE
  <2>1. h \in Hosts /\ a \in Addresses /\ running.carrier \in BOOLEAN
    BY DEF Constants, IInv, TypeOK, BankType
  <2>2. Authored = Banks(running.carrier, h, a)
    BY DEF Authored
  <2> HIDE DEF h, a
  <2> QED
    BY <2>1, <2>2, AuthoredSettled
<1>2. UNCHANGED <<point, update>> /\ version' = version + 1
  BY DEF executeLifecycle, Tables
<1>3. CASE startup' = running /\ UNCHANGED running
  BY <1>2, <1>3 DEF IInv, TypeOK, Replaced, Settled
<1>4. CASE startup' = Authored /\ UNCHANGED running
  BY <1>1, <1>2, <1>4 DEF IInv, TypeOK, Replaced, Settled
<1>5. CASE running' = startup /\ UNCHANGED startup
  BY <1>2, <1>5 DEF IInv, TypeOK, Replaced, Settled
<1> QED
  BY <1>3, <1>4, <1>5 DEF executeLifecycle

(* Routes, hostname, VLANs and routing processes.                           *)
LEMMA GlobalKeeps == \A s \in Sessions : IInv /\ executeGlobal(s) => IInv'
<1> SUFFICES ASSUME NEW s \in Sessions, IInv, executeGlobal(s) PROVE IInv'
  OBVIOUS
<1>1. running \in BankType /\ Settled(running, running.carrier)
  BY DEF IInv, TypeOK
<1>2. CASE Stores(UpsertRoute(running, "present"))
  <2>1. UpsertRoute(running, "present") \in BankType /\ Settled(UpsertRoute(running, "present"), running.carrier)
    BY <1>1 DEF UpsertRoute, BankType, Settled
  <2> QED
    BY <1>2, <2>1, StoresKeeps
<1>3. CASE \E h \in Hosts : Begins(s, "identity", [running EXCEPT !.host = h])
  <2>1. PICK h \in Hosts : Begins(s, "identity", [running EXCEPT !.host = h])
    BY <1>3
  <2> DEFINE next == [running EXCEPT !.host = h]
  <2>2. next \in BankType /\ next.carrier = running.carrier /\ next.oper = (next.admin /\ next.carrier)
    BY <1>1 DEF BankType, Settled
  <2> HIDE DEF next
  <2>3. Begins(s, "identity", next)
    BY <2>1 DEF next
  <2> QED
    BY <2>2, <2>3, BeginsKeeps
<1>4. CASE moves(s, "interface") \/ moves(s, "privileged")
  BY <1>4, MovesKeep
<1>5. CASE Stores(EnsureVLAN(running))
  <2>1. EnsureVLAN(running) \in BankType /\ Settled(EnsureVLAN(running), running.carrier)
    BY <1>1 DEF EnsureVLAN, BankType, Settled
  <2> QED
    BY <1>5, <2>1, StoresKeeps
<1>6. CASE Stores(EnsureRouter(running))
  <2>1. EnsureRouter(running) \in BankType /\ Settled(EnsureRouter(running), running.carrier)
    BY <1>1 DEF EnsureRouter, BankType, Settled
  <2> QED
    BY <1>6, <2>1, StoresKeeps
<1> QED
  BY <1>2, <1>3, <1>4, <1>5, <1>6 DEF executeGlobal

(* Addresses and status.                                                    *)
LEMMA InterfaceKeeps == \A s \in Sessions : IInv /\ executeInterface(s) => IInv'
<1> SUFFICES ASSUME NEW s \in Sessions, IInv, executeInterface(s) PROVE IInv'
  OBVIOUS
<1>1. /\ running \in BankType /\ running.oper = (running.admin /\ running.carrier)
      /\ running.admin \in BOOLEAN /\ running.oper \in BOOLEAN /\ running.carrier \in BOOLEAN
  BY DEF IInv, TypeOK, Settled, BankType
<1>2. CASE \E a \in Addresses \union {None} : Begins(s, "interface", [running EXCEPT !.address = a])
  <2>1. PICK a \in Addresses \union {None} : Begins(s, "interface", [running EXCEPT !.address = a])
    BY <1>2
  <2> DEFINE next == [running EXCEPT !.address = a]
  <2>2. next \in BankType /\ next.carrier = running.carrier /\ next.oper = (next.admin /\ next.carrier)
    BY <1>1 DEF BankType
  <2> HIDE DEF next
  <2>3. Begins(s, "interface", next)
    BY <2>1 DEF next
  <2> QED
    BY <2>2, <2>3, BeginsKeeps
<1>3. CASE \E up \in BOOLEAN : Begins(s, "interface", setInterfaceStatus(running, up))
  <2>1. PICK up \in BOOLEAN : Begins(s, "interface", setInterfaceStatus(running, up))
    BY <1>3
  <2> DEFINE oper == up /\ running.carrier
             next == [running EXCEPT !.admin = up, !.oper = oper]
  <2>2. oper \in BOOLEAN
    BY <1>1
  <2>3. next = setInterfaceStatus(running, up)
    BY DEF setInterfaceStatus
  <2>4. oper = (up /\ running.carrier)
    OBVIOUS
  <2> HIDE DEF oper
  <2>5. next \in BankType /\ next.carrier = running.carrier /\ next.oper = oper /\ next.admin = up
    BY <1>1, <2>2 DEF BankType
  <2>6. next.oper = (next.admin /\ next.carrier)
    BY <2>4, <2>5
  <2>7. Begins(s, "interface", next)
    BY <2>1, <2>3
  <2> HIDE DEF next
  <2> QED
    BY <2>5, <2>6, <2>7, BeginsKeeps
<1>4. CASE Begins(s, "interface", running)
  BY <1>1, <1>4, BeginsKeeps
<1>5. CASE moves(s, "global") \/ moves(s, "privileged")
  BY <1>5, MovesKeep
<1> QED
  BY <1>2, <1>3, <1>4, <1>5 DEF executeInterface

(* VLAN names and router networks.                                          *)
LEMMA VlanKeeps == \A s \in Sessions : IInv /\ (executeVLAN(s) \/ executeRouter(s)) => IInv'
<1> SUFFICES ASSUME NEW s \in Sessions, IInv, executeVLAN(s) \/ executeRouter(s) PROVE IInv'
  OBVIOUS
<1>1. running \in BankType /\ Settled(running, running.carrier)
  BY DEF IInv, TypeOK
<1>2. CASE Begins(s, "vlan", [running EXCEPT !.vlan = "named"])
  <2> DEFINE next == [running EXCEPT !.vlan = "named"]
  <2>1. next \in BankType /\ next.carrier = running.carrier /\ next.oper = (next.admin /\ next.carrier)
    BY <1>1 DEF BankType, Settled
  <2>2. Begins(s, "vlan", next)
    BY <1>2
  <2> HIDE DEF next
  <2> QED
    BY <2>1, <2>2, BeginsKeeps
<1>3. CASE Stores(AddRouterNetwork(running))
  <2>1. /\ AddRouterNetwork(running) \in BankType
        /\ Settled(AddRouterNetwork(running), running.carrier)
    BY <1>1 DEF AddRouterNetwork, BankType, Settled
  <2> QED
    BY <1>3, <2>1, StoresKeeps
<1>4. CASE moves(s, "global") \/ moves(s, "privileged")
  BY <1>4, MovesKeep
<1> QED
  BY <1>2, <1>3, <1>4 DEF executeVLAN, executeRouter

(* Faults.                                                                  *)
LEMMA FaultsKeep ==
  ASSUME IInv,
         \/ \E down \in BOOLEAN : SetInterfaceFault(down)
         \/ \E faults \in {overlay, overlay'} : Overlaid(faults)
  PROVE  IInv'
<1>1. UNCHANGED <<running, startup, point, update>> /\ (version' = version \/ version' = version + 1)
  BY DEF SetInterfaceFault, Overlaid
<1>2. version' \in Nat /\ version <= version'
  BY <1>1 DEF IInv, TypeOK
<1> QED
  BY <1>1, <1>2, SameBanksKeep

(* Every step keeps the invariant.                                          *)
LEMMA StepInvariant == Constants /\ IInv /\ [Next]_vars => IInv'
<1> SUFFICES ASSUME Constants, IInv, [Next]_vars PROVE IInv'
  OBVIOUS
<1>1. version \in Nat
  BY DEF IInv, TypeOK
<1>2. ASSUME NEW s \in Sessions, ServeConn(s) PROVE IInv'
  BY <1>1, <1>2, SameBanksKeep DEF ServeConn, Tables
<1>3. ASSUME NEW s \in Sessions, executeUser(s) PROVE IInv'
  BY <1>3, MovesKeep DEF executeUser
<1>4. ASSUME \/ SetDeviceFault \/ SetDeviceAddressFault \/ ClearDeviceFault \/ ClearDeviceFaults
             \/ SetInterfaceAddressFault \/ ClearInterfaceAddressFault
             \/ SetInterfacePrefixFault \/ ClearInterfacePrefixFault
      PROVE  IInv'
  <2>1. PICK faults : Overlaid(faults)
    BY <1>4 DEF SetDeviceFault, SetDeviceAddressFault, ClearDeviceFault, ClearDeviceFaults,
                SetInterfaceAddressFault, ClearInterfaceAddressFault, SetInterfacePrefixFault,
                ClearInterfacePrefixFault, Arms, Clears
  <2>2. faults = overlay'
    BY <2>1 DEF Overlaid
  <2> QED
    BY <2>1, <2>2, FaultsKeep
<1>5. ASSUME NEW down \in BOOLEAN, SetInterfaceFault(down) PROVE IInv'
  BY <1>5, FaultsKeep
<1>6. CASE UNCHANGED vars
  BY <1>1, <1>6, SameBanksKeep DEF vars
<1> QED
  BY <1>2, <1>3, <1>4, <1>5, <1>6, PrivilegedKeeps, LifecycleKeeps, GlobalKeeps, InterfaceKeeps,
     VlanKeeps, CommitKeeps DEF Next

(* BanksSettled for every set of sessions, hostnames and addresses, any     *)
(* number of channels and armed faults, and any number of transactions.     *)
THEOREM BanksStaySettled == ASSUME Constants PROVE Spec => []BanksSettled
<1>1. Init => IInv
  BY InitInvariant
<1>2. IInv /\ [Next]_vars => IInv'
  BY StepInvariant
<1>3. IInv => BanksSettled
  BY DEF IInv, BanksSettled, AllBanks, Settled
<1> QED
  BY <1>1, <1>2, <1>3, PTL DEF Spec
=============================================================================
