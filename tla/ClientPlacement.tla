--------------------------- MODULE ClientPlacement ---------------------------
(***************************************************************************)
(* Clients on an attachment pool (internal/protocols/client_placement.go,  *)
(* observed_clients.go; internal/daemon/attachment_pin.go): the first      *)
(* accepted frame of a MAC plugs it into a pool port, an operator pins it  *)
(* to another, and the switch carrying the port brings it up and learns    *)
(* the client there.                                                       *)
(*                                                                         *)
(* The placement itself changes under one mutex.  What follows from it, a  *)
(* port's carrier and the forwarding tables, is written step by step, and  *)
(* each carrier write is a devicestate.UpdateInterface: it reads the       *)
(* interface, and commits only if nothing else changed the device since.   *)
(* The decoder, a re-pin and Stop exclude each other (reloadMu); an        *)
(* operator's changes to a device come between any two steps.              *)
(***************************************************************************)
EXTENDS Naturals, Sequences, FiniteSets, SequencesExt, WellFoundedInduction, TLAPS

CONSTANTS
  Clients,        \* client MACs
  PortCount,      \* ports of the pool, in authored order
  PortsPerSwitch, \* how many of them one switch carries
  AuthoredUp,     \* ports authored as connected
  Ranks,          \* kinds of address a frame claims, 1 (none) worst, IPv4 best
  MaxAdmin        \* bound: administrative changes an operator makes

Ports == 1..PortCount
Switch(p) == (p - 1) \div PortsPerSwitch
Switches == {Switch(p) : p \in Ports}
None == 0

VARIABLES
  pins,      \* the pool's pins: the port a client is fixed to, or None
  scenario,  \* the pins written in the session's scenario file
  assigned,  \* the port a client is plugged into, or None
  earliest,  \* the port of the first client placed, or None
  observed,  \* what the clients seen on the wire claimed as address, best so far, or 0
  adminUp,   \* ports administratively enabled
  carrier,   \* ports with carrier
  learned,   \* on each switch, the port a client was learned on, or None
  op,        \* the placement work under way
  admin      \* administrative changes made so far

vars == <<pins, scenario, assigned, earliest, observed, adminUp, carrier, learned, op, admin>>

Idle == [kind |-> "idle", mac |-> None, from |-> None, to |-> None, cables |-> <<>>, read |-> "no"]

TypeOK ==
  /\ pins \in [Clients -> 0..PortCount] /\ scenario \in [Clients -> 0..PortCount]
  /\ assigned \in [Clients -> 0..PortCount] /\ earliest \in 0..PortCount
  /\ observed \in [Clients -> Ranks \cup {0}]
  /\ adminUp \subseteq Ports /\ carrier \subseteq Ports
  /\ learned \in [Switches -> [Clients -> 0..PortCount]]
  /\ op.kind \in {"idle", "place", "move", "unplug", "stopped"} /\ op.read \in {"no", "yes", "stale"}

taken == {assigned[c] : c \in Clients} \ {None}
reserved == {pins[c] : c \in Clients} \ {None}

Init ==
  /\ pins \in {f \in [Clients -> 0..PortCount] :
                 \A c, d \in Clients : c # d /\ f[c] # None => f[c] # f[d]}
  /\ scenario = pins
  /\ assigned = [c \in Clients |-> None] /\ earliest = None
  /\ observed = [c \in Clients |-> 0]
  /\ adminUp = Ports /\ carrier = AuthoredUp
  /\ learned = [s \in Switches |-> [c \in Clients |-> None]]
  /\ op = Idle /\ admin = 0

firstFreePort ==
  LET free == (Ports \ (reserved \cup taken)) \cap adminUp
  IN  IF free = {} THEN None ELSE CHOOSE p \in free : \A q \in free : p <= q

(* The pool port discovery advertisements name. *)
advertisedPort == IF earliest # None /\ earliest \in adminUp THEN earliest ELSE firstFreePort

----------------------------------------------------------------------------
(* The decoder: an accepted frame of a client.                              *)

observe(c, rank) ==
  observed' = [observed EXCEPT ![c] = IF rank >= @ THEN rank ELSE @]

(* Mutant: a free port is any port nobody holds, pinned for someone or not.  *)
AssignsReserved(c) ==
  LET free == (Ports \ taken) \cap adminUp
  IN  IF pins[c] # None THEN (IF pins[c] \in adminUp THEN pins[c] ELSE None)
      ELSE IF free = {} THEN None ELSE CHOOSE p \in free : \A q \in free : p <= q

(* The port assign gives a client on first sight, or None.  A pinned port is  *)
(* not looked up among the taken ones: nobody else is ever given it.         *)
assign(c) ==
  IF pins[c] # None THEN (IF pins[c] \in adminUp THEN pins[c] ELSE None) ELSE firstFreePort

recordObservedClient(c, rank) ==
  /\ op.kind = "idle"
  /\ observe(c, rank)
  /\ IF assigned[c] # None \/ assign(c) = None
     THEN UNCHANGED <<assigned, earliest, op>>
     ELSE /\ assigned' = [assigned EXCEPT ![c] = assign(c)]
          /\ earliest' = IF earliest = None THEN assign(c) ELSE earliest
          /\ op' = [Idle EXCEPT !.kind = "place", !.mac = c, !.to = assign(c),
                                !.cables = <<<<assign(c), TRUE>>>>]
  /\ UNCHANGED <<pins, scenario, adminUp, carrier, learned, admin>>

(* A silent client leaves the table of observed clients, not its port. *)
cleanupExpired(c) ==
  /\ op.kind # "stopped" /\ observed[c] # 0
  /\ observed' = [observed EXCEPT ![c] = 0]
  /\ UNCHANGED <<pins, scenario, assigned, earliest, adminUp, carrier, learned, op, admin>>

----------------------------------------------------------------------------
(* An operator pins a client to a port.  The amended scenario file is written *)
(* first and compiled, which refuses a port outside the pool or one pinned    *)
(* for another client; any refusal puts the file back.                        *)

repin(c, p) ==
  /\ p \in taken => assigned[c] = p
  /\ p \in adminUp

PinAttachmentClient(c, p) ==
  /\ op.kind = "idle"
  /\ IF (\E d \in Clients \ {c} : scenario[d] = p) \/ ~repin(c, p)
     THEN UNCHANGED vars
     ELSE /\ scenario' = [scenario EXCEPT ![c] = p]
          /\ pins' = [pins EXCEPT ![c] = p]
          /\ IF assigned[c] = None
             THEN UNCHANGED <<assigned, earliest, op>>
             ELSE /\ assigned' = [assigned EXCEPT ![c] = p]
                  /\ earliest' = IF earliest = assigned[c] THEN p ELSE earliest
                  /\ op' = IF assigned[c] = p THEN op
                           ELSE [Idle EXCEPT !.kind = "move", !.mac = c, !.from = assigned[c], !.to = p,
                                             !.cables = <<<<assigned[c], FALSE>>, <<p, TRUE>>>>]
          /\ UNCHANGED <<observed, adminUp, carrier, learned, admin>>

(* Stop unplugs every client once the stack's workers are done. *)
unplugPoolClients ==
  /\ op.kind = "idle"
  /\ op' = [Idle EXCEPT !.kind = "unplug",
                        !.cables = [i \in 1..Cardinality(taken) |-> <<SetToSeq(taken)[i], FALSE>>]]
  /\ assigned' = [c \in Clients |-> None] /\ earliest' = None
  /\ observed' = [c \in Clients |-> 0]
  /\ UNCHANGED <<pins, scenario, adminUp, carrier, learned, admin>>

----------------------------------------------------------------------------
(* setPoolPortCable: plugging a cable in or out is an optimistic update of     *)
(* the device's state, and one that lost the race is logged and given up.      *)

readInterface ==
  /\ op.cables # <<>> /\ op.read = "no"
  /\ op' = [op EXCEPT !.read = "yes"]
  /\ UNCHANGED <<pins, scenario, assigned, earliest, observed, adminUp, carrier, learned, admin>>

commitInterface ==
  LET port == op.cables[1][1]
      up   == op.cables[1][2] \/ port \in AuthoredUp
  IN  /\ op.cables # <<>> /\ op.read # "no"
      /\ carrier' = IF op.read = "stale" THEN carrier
                    ELSE IF up THEN carrier \cup {port} ELSE carrier \ {port}
      /\ op' = [op EXCEPT !.cables = Tail(@), !.read = "no"]
      /\ UNCHANGED <<pins, scenario, assigned, earliest, observed, adminUp, learned, admin>>

(* Mutant: a client that moves is learned on its new switch only.            *)
LearnsWithoutForgetting(c, from, to) ==
  learned' = [learned EXCEPT ![Switch(to)][c] = to]

(* The bridge's forwarding table: the client is forgotten where it was, when   *)
(* that is another switch, and learned where it is.                            *)
learnClient(c, from, to) ==
  learned' = [s \in Switches |->
    [learned[s] EXCEPT ![c] = IF s = Switch(to) THEN to
                              ELSE IF from # None /\ s = Switch(from) THEN None ELSE @]]

finishPlacement ==
  /\ op.kind \in {"place", "move", "unplug"} /\ op.cables = <<>>
  /\ IF op.kind = "unplug"
     THEN op' = [Idle EXCEPT !.kind = "stopped"] /\ UNCHANGED learned
     ELSE learnClient(op.mac, op.from, op.to) /\ op' = Idle
  /\ UNCHANGED <<pins, scenario, assigned, earliest, observed, adminUp, carrier, admin>>

(* An operator's change to a port, through a device's command line or SNMP:   *)
(* it moves the device's version, and with it every update still in flight.   *)
SetAdmin(p) ==
  /\ op.kind # "stopped" /\ admin < MaxAdmin
  /\ adminUp' = IF p \in adminUp THEN adminUp \ {p} ELSE adminUp \cup {p}
  /\ op' = IF op.read = "yes" /\ Switch(op.cables[1][1]) = Switch(p)
           THEN [op EXCEPT !.read = "stale"] ELSE op
  /\ admin' = admin + 1
  /\ UNCHANGED <<pins, scenario, assigned, earliest, observed, carrier, learned>>

Next ==
  \/ \E c \in Clients, rank \in Ranks : recordObservedClient(c, rank)
  \/ \E c \in Clients : cleanupExpired(c)
  \/ \E c \in Clients, p \in Ports : PinAttachmentClient(c, p)
  \/ unplugPoolClients \/ readInterface \/ commitInterface \/ finishPlacement
  \/ \E p \in Ports : SetAdmin(p)

Spec == Init /\ [][Next]_vars

----------------------------------------------------------------------------
(* No two clients share a port, a pinned port is held by its client or by     *)
(* nobody (so a client pinned late still finds it free), a pinned client that *)
(* is plugged in is on its pin, the earliest port is a placed client's, and   *)
(* the running pins are the ones in the scenario file, so the move survives   *)
(* the next start.                                                            *)
PlacementSound ==
  /\ \A c, d \in Clients : c # d /\ assigned[c] # None => assigned[c] # assigned[d]
  /\ \A c, d \in Clients : pins[c] # None /\ assigned[d] = pins[c] => c = d
  /\ \A c \in Clients : pins[c] # None /\ assigned[c] # None => assigned[c] = pins[c]
  /\ earliest = None <=> taken = {}
  /\ earliest # None => earliest \in taken
  /\ pins = scenario

(* Between placements a client is learned on the switch that carries its port *)
(* and on no other.                                                           *)
LearnedWherePlugged ==
  op.kind = "idle" =>
    \A c \in Clients, s \in Switches :
      learned[s][c] = IF assigned[c] # None /\ Switch(assigned[c]) = s THEN assigned[c] ELSE None

(* Who is plugged in where, and the switches' view of it.                     *)
ClientsPlugged == PlacementSound /\ LearnedWherePlugged

PortTakenAsAdvertised ==
  \A c \in Clients :
    /\ assigned[c] = None /\ assigned'[c] # None /\ pins[c] = None /\ earliest = None
         => assigned'[c] = advertisedPort
    /\ assigned[c] # None /\ assigned'[c] # assigned[c]
         => op'.kind = "unplug" \/ pins'[c] # pins[c]

(* A passive listener takes the port discovery advertised to it, and nobody   *)
(* but a re-pinned client ever changes ports.                                 *)
AdvertisedPortTaken == [][PortTakenAsAdvertised]_vars

(* Doc comments of placeObservedClient ("the port comes up") and              *)
(* setPoolPortCable ("Carrier follows the cable"): between placements a port   *)
(* has carrier exactly when a client is plugged into it or it was authored so. *)
CarrierFollowsCable ==
  op.kind = "idle" => carrier = taken \cup AuthoredUp
-----------------------------------------------------------------------------
(***************************************************************************)
(* ClientsPlugged and AdvertisedPortTaken for any clients, ports and       *)
(* switches.  The inductive invariant adds that no two clients are pinned  *)
(* to one port, and what the switches have learned while a placement is    *)
(* under way: its client is still where it was before.                     *)
(***************************************************************************)
Constants == PortCount \in Nat /\ PortsPerSwitch \in Nat \ {0}

Record(w) ==
  w = [kind |-> w.kind, mac |-> w.mac, from |-> w.from, to |-> w.to, cables |-> w.cables, read |-> w.read]

Placing == op.kind \in {"place", "move"}

PlacedAt(c) == IF Placing /\ c = op.mac THEN op.from ELSE assigned[c]

IInv ==
  /\ pins \in [Clients -> 0..PortCount] /\ assigned \in [Clients -> 0..PortCount]
  /\ adminUp \subseteq Ports
  /\ learned \in [Switches -> [Clients -> 0..PortCount]]
  /\ Record(op)
  /\ \A c, d \in Clients : c # d /\ pins[c] # None => pins[c] # pins[d]
  /\ PlacementSound
  /\ Placing => op.mac \in Clients /\ op.to \in Ports /\ op.to = assigned[op.mac] /\ op.from \in 0..PortCount
  /\ op.kind = "idle" \/ Placing =>
       \A c \in Clients, s \in Switches :
         learned[s][c] = IF PlacedAt(c) # None /\ Switch(PlacedAt(c)) = s THEN PlacedAt(c) ELSE None

(* firstFreePort is a port nobody holds and nobody is pinned to.             *)
LEMMA FreePort ==
  ASSUME Constants, adminUp \subseteq Ports
  PROVE  firstFreePort = None \/ firstFreePort \in (Ports \ (reserved \cup taken)) \cap adminUp
<1> DEFINE free == (Ports \ (reserved \cup taken)) \cap adminUp
           less == {ss \in Nat \X Nat : ss[1] < ss[2]}
<1>1. free \subseteq Nat
  BY DEF Ports, Constants
<1>2. firstFreePort = IF free = {} THEN None ELSE CHOOSE p \in free : \A q \in free : p <= q
  BY DEF firstFreePort
<1>3. IsWellFoundedOn(less, Nat)
  BY NatLessThanWellFounded, Zenon DEF OpToRel
<1> HIDE DEF free
<1>4. free # {} => \E p \in free : \A q \in free : p <= q
  <2> SUFFICES ASSUME free # {} PROVE \E p \in free : \A q \in free : p <= q
    OBVIOUS
  <2>1. PICK p \in free : \A q \in free : ~ (<<q, p>> \in less)
    BY <1>1, <1>3, WFMin
  <2>2. ASSUME NEW q \in free PROVE p <= q
    <3>1. p \in Nat /\ q \in Nat
      BY <1>1
    <3>2. q < p => <<q, p>> \in less
      BY <3>1
    <3> QED
      BY <2>1, <3>1, <3>2
  <2> QED
    BY <2>2
<1>5. firstFreePort = None \/ firstFreePort \in free
  BY <1>2, <1>4
<1> QED
  BY <1>5 DEF free

(* assign gives a client its pin or a port that is neither held nor pinned.  *)
LEMMA AssignedPort ==
  ASSUME Constants, IInv, NEW c \in Clients, assign(c) # None
  PROVE  /\ assign(c) \in Ports
         /\ pins[c] # None => assign(c) = pins[c]
         /\ pins[c] = None => \A d \in Clients : pins[d] # assign(c) /\ assigned[d] # assign(c)
<1>1. CASE pins[c] # None
  BY <1>1 DEF assign, IInv
<1>2. CASE pins[c] = None
  <2>1. assign(c) \in (Ports \ (reserved \cup taken)) \cap adminUp
    BY <1>2, FreePort DEF assign, IInv
  <2> QED
    BY <1>2, <2>1 DEF reserved, taken
<1> QED
  BY <1>1, <1>2

(* A port is not None and has a switch.                                      *)
LEMMA SwitchOf ==
  ASSUME Constants, NEW p \in Ports
  PROVE  p \in 0..PortCount /\ p # None /\ Switch(p) \in Switches
<1>1. p \in 0..PortCount /\ p # None
  BY DEF Ports, Constants, None
<1> QED
  BY <1>1 DEF Switches

LEMMA InitInvariant == Constants /\ Init => IInv
<1> SUFFICES ASSUME Constants, Init PROVE IInv
  OBVIOUS
<1>0. 0 \in 0..PortCount
  BY DEF Constants
<1>1. taken = {}
  BY DEF Init, taken
<1>2. PlacementSound
  BY <1>1 DEF Init, PlacementSound, None
<1>3. learned \in [Switches -> [Clients -> 0..PortCount]]
  BY <1>0 DEF Init, None
<1>4. Record(op) /\ op.kind = "idle"
  BY DEF Init, Idle, Record
<1>5. \A c \in Clients, s \in Switches : learned[s][c] = None /\ PlacedAt(c) = None
  BY <1>4 DEF Init, PlacedAt, Placing
<1> QED
  BY <1>0, <1>2, <1>3, <1>4, <1>5 DEF Init, IInv, None, Placing

(* A step that leaves the placement and the work's client and ports alone.   *)
LEMMA PlacementUntouched ==
  ASSUME IInv, UNCHANGED <<pins, scenario, assigned, earliest, learned>>,
         adminUp' \subseteq Ports, Record(op'),
         op'.kind = op.kind, op'.mac = op.mac, op'.from = op.from, op'.to = op.to
  PROVE  IInv'
<1>0. taken' = taken
  BY DEF taken
<1>1. PlacementSound'
  BY <1>0 DEF IInv, PlacementSound
<1>2. Placing' = Placing /\ \A c \in Clients : PlacedAt(c)' = PlacedAt(c)
  BY DEF Placing, PlacedAt
<1>3. (op.kind = "idle" \/ Placing)' = (op.kind = "idle" \/ Placing)
  BY <1>2
<1> QED
  BY <1>1, <1>2, <1>3 DEF IInv

(* The first accepted frame of a client.                                     *)
LEMMA PlaceKeeps ==
  ASSUME Constants, IInv, NEW c \in Clients, op.kind = "idle",
         assigned[c] = None, assign(c) # None,
         assigned' = [assigned EXCEPT ![c] = assign(c)],
         earliest' = IF earliest = None THEN assign(c) ELSE earliest,
         op' = [Idle EXCEPT !.kind = "place", !.mac = c, !.to = assign(c), !.cables = <<<<assign(c), TRUE>>>>],
         UNCHANGED <<pins, scenario, adminUp, learned>>
  PROVE  IInv'
<1> DEFINE p == assign(c)
<1>1. /\ p \in Ports
      /\ pins[c] # None => p = pins[c]
      /\ pins[c] = None => \A d \in Clients : pins[d] # p /\ assigned[d] # p
  BY AssignedPort
<1>2. p \in 0..PortCount /\ p # None
  BY <1>1, SwitchOf
<1>3. /\ Record(op') /\ op'.kind = "place" /\ op'.mac = c /\ op'.from = None /\ op'.to = p
  BY DEF Idle, Record
<1>4. /\ assigned' \in [Clients -> 0..PortCount] /\ assigned'[c] = p
      /\ \A d \in Clients \ {c} : assigned'[d] = assigned[d]
      /\ UNCHANGED <<pins, scenario>> /\ earliest' = IF earliest = None THEN p ELSE earliest
  BY <1>2 DEF IInv
<1> HIDE DEF p
<1>5. taken' = taken \cup {p}
  BY <1>2, <1>4 DEF taken
<1>6. \A d \in Clients : assigned[d] # p
  <2>1. CASE pins[c] = None
    BY <1>1, <2>1
  <2>2. CASE pins[c] # None
    BY <1>1, <1>2, <2>2 DEF IInv, PlacementSound
  <2> QED
    BY <2>1, <2>2
<1>7. \A d \in Clients : pins[d] = p => d = c
  BY <1>1, <1>2 DEF IInv
<1>8. PlacementSound'
  <2>1. \A d, e \in Clients : d # e /\ assigned'[d] # None => assigned'[d] # assigned'[e]
    BY <1>4, <1>6 DEF IInv, PlacementSound
  <2>2. \A d, e \in Clients : pins'[d] # None /\ assigned'[e] = pins'[d] => d = e
    BY <1>4, <1>7 DEF IInv, PlacementSound
  <2>3. \A d \in Clients : pins'[d] # None /\ assigned'[d] # None => assigned'[d] = pins'[d]
    BY <1>1, <1>4 DEF IInv, PlacementSound
  <2>4. earliest' # None /\ earliest' \in taken' /\ taken' # {}
    BY <1>2, <1>4, <1>5 DEF IInv, PlacementSound
  <2> QED
    BY <1>4, <2>1, <2>2, <2>3, <2>4 DEF IInv, PlacementSound, None
<1>9. \A d \in Clients : PlacedAt(d)' = PlacedAt(d)
  BY <1>3, <1>4 DEF PlacedAt, Placing, None
<1>10. Placing' /\ (op.kind = "idle" \/ Placing)
  BY <1>3 DEF Placing
<1>11. None \in 0..PortCount
  BY DEF None, Constants
<1> QED
  BY <1>1, <1>3, <1>4, <1>8, <1>9, <1>10, <1>11 DEF IInv

LEMMA ObserveKeeps ==
  ASSUME Constants, IInv, NEW c \in Clients, NEW rank, recordObservedClient(c, rank)
  PROVE  IInv'
<1>1. CASE assigned[c] # None \/ assign(c) = None
  <2>1. UNCHANGED <<pins, scenario, assigned, earliest, learned, adminUp, op>>
    BY <1>1 DEF recordObservedClient
  <2> QED
    BY <2>1, PlacementUntouched DEF IInv
<1>2. CASE ~ (assigned[c] # None \/ assign(c) = None)
  BY <1>2, PlaceKeeps DEF recordObservedClient
<1> QED
  BY <1>1, <1>2

(* A pin of a client that is not plugged in, or is on that port already.     *)
LEMMA PinInPlace ==
  ASSUME Constants, IInv, NEW c \in Clients, NEW p \in Ports,
         ~ \E d \in Clients \ {c} : scenario[d] = p, repin(c, p), assigned[c] \in {None, p},
         scenario' = [scenario EXCEPT ![c] = p], pins' = [pins EXCEPT ![c] = p],
         UNCHANGED <<assigned, earliest, op, adminUp, learned>>
  PROVE  IInv'
<1>1. p \in 0..PortCount /\ p # None
  BY SwitchOf
<1>2. /\ pins' \in [Clients -> 0..PortCount] /\ pins'[c] = p /\ pins' = scenario'
      /\ \A d \in Clients \ {c} : pins'[d] = pins[d] /\ pins[d] # p
  BY <1>1 DEF IInv, PlacementSound
<1>3. \A d \in Clients : assigned[d] = p => d = c
  BY <1>1 DEF repin, taken, IInv, PlacementSound
<1>4. taken' = taken
  BY DEF taken
<1>5. PlacementSound'
  BY <1>1, <1>2, <1>3, <1>4 DEF IInv, PlacementSound
<1>6. Placing' = Placing /\ \A d \in Clients : PlacedAt(d)' = PlacedAt(d)
  BY DEF Placing, PlacedAt
<1> QED
  BY <1>1, <1>2, <1>5, <1>6 DEF IInv

(* A pin that moves a plugged client.                                        *)
LEMMA PinMoves ==
  ASSUME Constants, IInv, NEW c \in Clients, NEW p \in Ports, op.kind = "idle",
         ~ \E d \in Clients \ {c} : scenario[d] = p, repin(c, p), assigned[c] \notin {None, p},
         scenario' = [scenario EXCEPT ![c] = p], pins' = [pins EXCEPT ![c] = p],
         assigned' = [assigned EXCEPT ![c] = p],
         earliest' = IF earliest = assigned[c] THEN p ELSE earliest,
         op' = [Idle EXCEPT !.kind = "move", !.mac = c, !.from = assigned[c], !.to = p,
                            !.cables = <<<<assigned[c], FALSE>>, <<p, TRUE>>>>],
         UNCHANGED <<adminUp, learned>>
  PROVE  IInv'
<1>1. p \in 0..PortCount /\ p # None
  BY SwitchOf
<1>2. /\ pins' \in [Clients -> 0..PortCount] /\ pins'[c] = p /\ pins' = scenario'
      /\ \A d \in Clients \ {c} : pins'[d] = pins[d] /\ pins[d] # p
  BY <1>1 DEF IInv, PlacementSound
<1>3. \A d \in Clients : assigned[d] # p
  BY <1>1 DEF repin, taken
<1>4. /\ assigned' \in [Clients -> 0..PortCount] /\ assigned'[c] = p
      /\ \A d \in Clients \ {c} : assigned'[d] = assigned[d]
  BY <1>1 DEF IInv
<1>5. \A d \in Clients \ {c} : assigned[d] # assigned[c]
  BY DEF IInv, PlacementSound
<1>6. taken' = (taken \ {assigned[c]}) \cup {p}
  BY <1>1, <1>4, <1>5 DEF taken
<1>7. PlacementSound'
  <2>1. \A d, e \in Clients : d # e /\ assigned'[d] # None => assigned'[d] # assigned'[e]
    BY <1>3, <1>4 DEF IInv, PlacementSound
  <2>2. \A d, e \in Clients : pins'[d] # None /\ assigned'[e] = pins'[d] => d = e
    BY <1>1, <1>2, <1>3, <1>4 DEF IInv, PlacementSound
  <2>3. \A d \in Clients : pins'[d] # None /\ assigned'[d] # None => assigned'[d] = pins'[d]
    BY <1>2, <1>4 DEF IInv, PlacementSound
  <2>4. assigned[c] \in taken /\ taken # {}
    BY DEF taken
  <2>5. earliest # None /\ earliest \in taken
    BY <2>4 DEF IInv, PlacementSound
  <2>6. earliest' # None /\ earliest' \in taken' /\ taken' # {}
    BY <1>1, <1>6, <2>5
  <2> QED
    BY <1>2, <2>1, <2>2, <2>3, <2>6 DEF PlacementSound, None
<1>8. Record(op') /\ op'.kind = "move" /\ op'.mac = c /\ op'.from = assigned[c] /\ op'.to = p
  BY DEF Idle, Record
<1>9. \A d \in Clients : PlacedAt(d)' = PlacedAt(d)
  BY <1>4, <1>8 DEF PlacedAt, Placing
<1>10. Placing' /\ (op.kind = "idle" \/ Placing)
  BY <1>8 DEF Placing
<1>11. assigned[c] \in 0..PortCount /\ \A d, e \in Clients : d # e /\ pins'[d] # None => pins'[d] # pins'[e]
  BY <1>2 DEF IInv
<1> QED
  BY <1>2, <1>4, <1>7, <1>8, <1>9, <1>10, <1>11 DEF IInv

LEMMA PinKeeps ==
  ASSUME Constants, IInv, NEW c \in Clients, NEW p \in Ports, PinAttachmentClient(c, p)
  PROVE  IInv'
<1>1. CASE UNCHANGED vars
  BY <1>1, PlacementUntouched DEF vars, IInv
<1>2. CASE ~ ((\E d \in Clients \ {c} : scenario[d] = p) \/ ~repin(c, p))
  <2>1. /\ scenario' = [scenario EXCEPT ![c] = p] /\ pins' = [pins EXCEPT ![c] = p] /\ op.kind = "idle"
        /\ UNCHANGED <<observed, adminUp, carrier, learned, admin>>
    BY <1>2 DEF PinAttachmentClient
  <2>2. CASE assigned[c] = None
    <3>1. UNCHANGED <<assigned, earliest, op>>
      BY <1>2, <2>2 DEF PinAttachmentClient
    <3> QED
      BY <1>2, <2>1, <2>2, <3>1, PinInPlace
  <2>3. CASE assigned[c] = p /\ assigned[c] # None
    <3>1. /\ assigned' = [assigned EXCEPT ![c] = p]
          /\ earliest' = (IF earliest = assigned[c] THEN p ELSE earliest) /\ op' = op
      BY <1>2, <2>3 DEF PinAttachmentClient
    <3>2. UNCHANGED <<assigned, earliest, op>>
      BY <2>3, <3>1 DEF IInv
    <3> QED
      BY <1>2, <2>1, <2>3, <3>2, PinInPlace
  <2>4. CASE assigned[c] \notin {None, p}
    <3>1. /\ assigned' = [assigned EXCEPT ![c] = p]
          /\ earliest' = (IF earliest = assigned[c] THEN p ELSE earliest)
          /\ op' = [Idle EXCEPT !.kind = "move", !.mac = c, !.from = assigned[c], !.to = p,
                                !.cables = <<<<assigned[c], FALSE>>, <<p, TRUE>>>>]
      BY <1>2, <2>4 DEF PinAttachmentClient
    <3> QED
      BY <1>2, <2>1, <2>4, <3>1, PinMoves
  <2> QED
    BY <2>2, <2>3, <2>4
<1> QED
  BY <1>1, <1>2 DEF PinAttachmentClient

LEMMA UnplugKeeps == Constants /\ IInv /\ unplugPoolClients => IInv'
<1> SUFFICES ASSUME Constants, IInv, unplugPoolClients PROVE IInv'
  OBVIOUS
<1>1. Record(op') /\ op'.kind = "unplug"
  BY DEF unplugPoolClients, Idle, Record
<1>2. /\ assigned' = [c \in Clients |-> None] /\ earliest' = None
      /\ UNCHANGED <<pins, scenario, adminUp, learned>>
  BY DEF unplugPoolClients
<1>3. taken' = {} /\ None \in 0..PortCount
  BY <1>2 DEF taken, None, Constants
<1>4. PlacementSound'
  BY <1>2, <1>3 DEF IInv, PlacementSound, None
<1>5. ~Placing' /\ op'.kind # "idle"
  BY <1>1 DEF Placing
<1> QED
  BY <1>1, <1>2, <1>3, <1>4, <1>5 DEF IInv

(* The steps of a cable's update leave the work's client and ports alone.    *)
LEMMA CablesKeep ==
  ASSUME IInv, readInterface \/ commitInterface \/ (\E p \in Ports : SetAdmin(p))
  PROVE  IInv'
<1>1. UNCHANGED <<pins, scenario, assigned, earliest, learned>>
  BY DEF readInterface, commitInterface, SetAdmin
<1>2. adminUp' \subseteq Ports
  BY DEF readInterface, commitInterface, SetAdmin, IInv
<1>3. op = [kind |-> op.kind, mac |-> op.mac, from |-> op.from, to |-> op.to,
            cables |-> op.cables, read |-> op.read]
  BY DEF IInv, Record
<1>4. \/ op' = [op EXCEPT !.read = "yes"]
      \/ op' = [op EXCEPT !.cables = Tail(@), !.read = "no"]
      \/ op' = [op EXCEPT !.read = "stale"]
      \/ op' = op
  BY DEF readInterface, commitInterface, SetAdmin
<1>5. \E cables, read : op' = [kind |-> op.kind, mac |-> op.mac, from |-> op.from, to |-> op.to,
                               cables |-> cables, read |-> read]
  BY <1>3, <1>4
<1>6. Record(op') /\ op'.kind = op.kind /\ op'.mac = op.mac /\ op'.from = op.from /\ op'.to = op.to
  BY <1>5 DEF Record
<1> QED
  BY <1>1, <1>2, <1>6, PlacementUntouched

(* The end of a placement: the client is forgotten where it was and learned  *)
(* where it is.                                                              *)
LEMMA FinishKeeps == Constants /\ IInv /\ finishPlacement => IInv'
<1> SUFFICES ASSUME Constants, IInv, finishPlacement PROVE IInv'
  OBVIOUS
<1>1. UNCHANGED <<pins, scenario, assigned, earliest, adminUp>>
  BY DEF finishPlacement
<1>2. taken' = taken
  BY <1>1 DEF taken
<1>3. PlacementSound'
  BY <1>1, <1>2 DEF IInv, PlacementSound
<1>4. CASE op.kind = "unplug"
  <2>1. op' = [Idle EXCEPT !.kind = "stopped"] /\ UNCHANGED learned
    BY <1>4 DEF finishPlacement
  <2>2. Record(op') /\ op'.kind = "stopped"
    BY <2>1 DEF Record, Idle
  <2> QED
    BY <1>1, <1>3, <2>1, <2>2 DEF IInv, Placing
<1>5. CASE Placing
  <2> DEFINE c == op.mac
             from == op.from
             to == op.to
  <2>1. op' = Idle /\ learnClient(c, from, to)
    BY <1>5 DEF finishPlacement, Placing
  <2>2. Record(op') /\ op'.kind = "idle"
    BY <2>1 DEF Record, Idle
  <2>3. c \in Clients /\ to \in Ports /\ to = assigned[c] /\ from \in 0..PortCount
    BY <1>5 DEF IInv
  <2>4. to \in 0..PortCount /\ to # None /\ None \in 0..PortCount
    BY <2>3, SwitchOf DEF None, Constants
  <2>5. /\ \A d \in Clients : PlacedAt(d)' = assigned[d]
        /\ \A d \in Clients \ {c} : PlacedAt(d) = assigned[d]
        /\ PlacedAt(c) = from
    BY <1>1, <1>5, <2>2 DEF PlacedAt, Placing
  <2>6. \A s \in Switches, d \in Clients :
           learned[s][d] = IF PlacedAt(d) # None /\ Switch(PlacedAt(d)) = s THEN PlacedAt(d) ELSE None
    BY <1>5 DEF IInv
  <2>7. learned \in [Switches -> [Clients -> 0..PortCount]]
    BY DEF IInv
  <2> HIDE DEF c, from, to
  <2>8. /\ learned' \in [Switches -> [Clients -> 0..PortCount]]
        /\ \A s \in Switches : \A d \in Clients \ {c} : learned'[s][d] = learned[s][d]
        /\ \A s \in Switches :
             learned'[s][c] = IF s = Switch(to) THEN to
                              ELSE IF from # None /\ s = Switch(from) THEN None ELSE learned[s][c]
    BY <2>1, <2>3, <2>4, <2>7 DEF learnClient
  <2>9. \A s \in Switches, d \in Clients :
           learned'[s][d] = IF assigned[d] # None /\ Switch(assigned[d]) = s THEN assigned[d] ELSE None
    BY <2>3, <2>4, <2>5, <2>6, <2>8
  <2> QED
    BY <1>1, <1>3, <2>2, <2>5, <2>8, <2>9 DEF IInv, Placing
<1> QED
  BY <1>4, <1>5 DEF finishPlacement, Placing

LEMMA StepInvariant == Constants /\ IInv /\ [Next]_vars => IInv'
<1> SUFFICES ASSUME Constants, IInv, [Next]_vars PROVE IInv'
  OBVIOUS
<1>1. ASSUME NEW c \in Clients, NEW rank \in Ranks, recordObservedClient(c, rank) PROVE IInv'
  BY <1>1, ObserveKeeps
<1>2. ASSUME NEW c \in Clients, cleanupExpired(c) PROVE IInv'
  BY <1>2, PlacementUntouched DEF cleanupExpired, IInv
<1>3. ASSUME NEW c \in Clients, NEW p \in Ports, PinAttachmentClient(c, p) PROVE IInv'
  BY <1>3, PinKeeps
<1>4. CASE UNCHANGED vars
  BY <1>4, PlacementUntouched DEF vars, IInv
<1> QED
  BY <1>1, <1>2, <1>3, <1>4, UnplugKeeps, CablesKeep, FinishKeeps DEF Next

(* ClientsPlugged for any number of clients, ports and switches, and any     *)
(* number of administrative changes.                                         *)
THEOREM ClientsStayPlugged == ASSUME Constants PROVE Spec => []ClientsPlugged
<1>1. Init => IInv
  BY InitInvariant
<1>2. IInv /\ [Next]_vars => IInv'
  BY StepInvariant
<1>3. IInv => ClientsPlugged
  BY DEF IInv, ClientsPlugged, LearnedWherePlugged, PlacedAt, Placing
<1> QED
  BY <1>1, <1>2, <1>3, PTL DEF Spec

(* A step that plugs in or moves a client does so as advertised and pinned.  *)
LEMMA StepAsAdvertised == IInv /\ Next => PortTakenAsAdvertised
<1> SUFFICES ASSUME IInv, Next, NEW c \in Clients
             PROVE  /\ assigned[c] = None /\ assigned'[c] # None /\ pins[c] = None /\ earliest = None
                         => assigned'[c] = advertisedPort
                    /\ assigned[c] # None /\ assigned'[c] # assigned[c]
                         => op'.kind = "unplug" \/ pins'[c] # pins[c]
  BY DEF PortTakenAsAdvertised
<1>1. CASE assigned' = assigned
  BY <1>1
<1>2. CASE \E d \in Clients, rank \in Ranks : recordObservedClient(d, rank)
  <2>1. PICK d \in Clients : \/ assigned' = assigned
                             \/ assigned[d] = None /\ assigned' = [assigned EXCEPT ![d] = assign(d)]
    BY <1>2 DEF recordObservedClient
  <2> QED
    BY <2>1 DEF assign, advertisedPort, IInv
<1>3. CASE \E d \in Clients, p \in Ports : PinAttachmentClient(d, p)
  <2>1. PICK d \in Clients, p \in Ports :
               \/ assigned' = assigned
               \/ /\ assigned[d] # None /\ assigned' = [assigned EXCEPT ![d] = p]
                  /\ pins' = [pins EXCEPT ![d] = p]
    BY <1>3 DEF PinAttachmentClient, vars
  <2>2. p # None
    BY DEF Ports, None
  <2> QED
    BY <2>1, <2>2 DEF IInv, PlacementSound
<1>4. CASE unplugPoolClients
  <2>1. op'.kind = "unplug" /\ assigned'[c] = None
    BY <1>4 DEF unplugPoolClients, Idle
  <2> QED
    BY <2>1
<1> QED
  BY <1>1, <1>2, <1>3, <1>4 DEF Next, cleanupExpired, readInterface, commitInterface, finishPlacement, SetAdmin

(* AdvertisedPortTaken for any number of clients, ports and switches: in the *)
(* second half, that nobody moves without being re-pinned rests on a plugged *)
(* client being on its pin.                                                  *)
THEOREM AdvertisedPortIsTaken == ASSUME Constants PROVE Spec => AdvertisedPortTaken
<1>1. Init => IInv
  BY InitInvariant
<1>2. IInv /\ [Next]_vars => IInv'
  BY StepInvariant
<1>3. IInv /\ [Next]_vars => [PortTakenAsAdvertised]_vars
  BY StepAsAdvertised
<1> QED
  BY <1>1, <1>2, <1>3, PTL DEF Spec, AdvertisedPortTaken
=============================================================================
