--------------------------- MODULE AddressBindings --------------------------
(***************************************************************************)
(* What an address server promises, whatever its protocol: an address is   *)
(* bound to a client only while no client holds it live, unless it is      *)
(* reserved for that client; and a binding that ran out may be revived by  *)
(* the client that had it.  Both DHCP servers implement this               *)
(* specification, and every specification of this form keeps its bindings  *)
(* exclusive, for any clients, addresses and reservations.                 *)
(***************************************************************************)
CONSTANTS Clients, Addresses, NoAddress

VARIABLES
  bindings,  \* for each client its address, whether it is live, and whether
             \* it has run out since the client was given it
  reserved   \* the address reserved for each client, or NoAddress

vars == <<bindings, reserved>>

Unbound == [ip |-> NoAddress, live |-> FALSE, lapsed |-> FALSE]

Held(a) == \E d \in Clients : bindings[d].ip = a /\ bindings[d].live

Init ==
  /\ bindings = [c \in Clients |-> Unbound]
  /\ reserved \in [Clients -> Addresses \cup {NoAddress}]

Bind(c, a) ==
  /\ ~Held(a)
  /\ bindings' = [bindings EXCEPT ![c] = [ip |-> a, live |-> TRUE, lapsed |-> FALSE]]
  /\ UNCHANGED reserved

Reserve(c) ==
  /\ reserved[c] # NoAddress
  /\ \E lapsed \in BOOLEAN :
       bindings' = [bindings EXCEPT ![c] = [ip |-> reserved[c], live |-> TRUE, lapsed |-> lapsed]]
  /\ UNCHANGED reserved

Renew(c) ==
  /\ bindings[c] # Unbound
  /\ bindings' = [bindings EXCEPT ![c] =
                    [ip |-> bindings[c].ip, live |-> TRUE, lapsed |-> bindings[c].lapsed]]
  /\ UNCHANGED reserved

Lapse(c) ==
  /\ bindings[c].live
  /\ bindings' = [bindings EXCEPT ![c] = [ip |-> bindings[c].ip, live |-> FALSE, lapsed |-> TRUE]]
  /\ UNCHANGED reserved

Unbind(c) ==
  /\ bindings' = [bindings EXCEPT ![c] = Unbound]
  /\ UNCHANGED reserved

Reconfigure ==
  /\ bindings' = [c \in Clients |-> Unbound]
  /\ reserved' \in [Clients -> Addresses \cup {NoAddress}]

Next ==
  \/ \E c \in Clients :
       \/ \E a \in Addresses : Bind(c, a)
       \/ Reserve(c)
       \/ Renew(c)
       \/ Lapse(c)
       \/ Unbind(c)
  \/ Reconfigure

Spec == Init /\ [][Next]_vars

(* Two clients without a reservation hold live bindings on one address only  *)
(* if one of the bindings ran out and was revived: no grant hands out an     *)
(* address in use.                                                           *)
BindingsExclusive ==
  \A c, d \in Clients :
    /\ c # d
    /\ bindings[c].live /\ bindings[d].live
    /\ bindings[c].ip = bindings[d].ip
    /\ reserved[c] = NoAddress /\ reserved[d] = NoAddress
    => bindings[c].lapsed \/ bindings[d].lapsed
=============================================================================
