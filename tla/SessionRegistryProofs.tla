------------------------ MODULE SessionRegistryProofs ------------------------
(***************************************************************************)
(* What holds of the session registry for every set of sessions,           *)
(* interfaces and VLANs and every budget, finite or not.                   *)
(***************************************************************************)
EXTENDS SessionRegistry, FiniteSetTheorems, TLAPS

(***************************************************************************)
(* The inductive invariant.  RegistrySound speaks of the owner of a slot   *)
(* as a choice among the sessions that could own it; here each direction   *)
(* is stated for itself, and that the sets counted are finite is added.    *)
(***************************************************************************)
At(t, i, k) ==
  sessions[t].shared /\ sessions[t].binding.iface = i /\ sessions[t].binding.vlan = k

SlotsOwned ==
  \A i \in Interfaces, k \in Keys :
    /\ \A t \in Running : At(t, i, k) => slots[i][k] = Current(t)
    /\ slots[i][k] # Nil => \E t \in Running : At(t, i, k) /\ slots[i][k] = Current(t)

Counted ==
  /\ IsFiniteSet(Running) /\ IsFiniteSet(DeviceSet(Running))
  /\ WithinBudget

IInv ==
  /\ TypeOK /\ SlotsOwned /\ SessionsCompatible /\ TrunksServeSessions
  /\ SelectionIsRunning /\ ApiServesCurrentRuntimes /\ Counted

-----------------------------------------------------------------------------
LEMMA BindingFacts ==
  ASSUME NEW b \in Bindings
  PROVE  /\ b.iface \in Interfaces /\ b.vlan \in Keys
         /\ b.mode \in {"direct", "access", "trunk"}
         /\ b.mode = "trunk" => b.vlan \in VLANs
         /\ b.mode # "trunk" => b.vlan = Native
  BY DEF Bindings, Keys

(* Compatible sessions never ask for the same slot of a trunk.              *)
LEMMA CompatibleApart ==
  ASSUME NEW a \in Bindings, NEW b \in Bindings, Compatible(a, b), a.iface = b.iface
  PROVE  a.vlan # b.vlan
  BY BindingFacts, ConstantsAssumption DEF Compatible

(* The runtime of a running session.                                        *)
LEMMA RunningFacts ==
  ASSUME TypeOK, NEW t \in Running
  PROVE  /\ t \in Sessions /\ sessions[t] \in Runtimes
         /\ sessions[t].binding \in Bindings /\ sessions[t].shared \in BOOLEAN
         /\ sessions[t].devices \in Nat
         /\ sessions[t].binding.iface \in Interfaces /\ sessions[t].binding.vlan \in Keys
<1>1. t \in Sessions /\ sessions[t] \in Runtimes
  BY DEF TypeOK, Running
<1>2. sessions[t].binding \in Bindings /\ sessions[t].shared \in BOOLEAN /\ sessions[t].devices \in Nat
  BY <1>1, ConstantsAssumption DEF Runtimes
<1> QED
  BY <1>1, <1>2, BindingFacts

(* Closing runtime r, from slots f and trunks open to slots g and trunks     *)
(* left, frees the slot it still holds and no other, and closes its trunk   *)
(* exactly when nothing is left on it.                                      *)
SlotMaps == [Interfaces -> [Keys -> Transports \cup {Nil}]]

Held(r, i, k) == r # Nil /\ r.shared /\ r.binding.iface = i /\ r.binding.vlan = k

Closes(f, open, r, transport, g, left) ==
  /\ g \in SlotMaps /\ left \subseteq open
  /\ \A i \in Interfaces, k \in Keys :
       g[i][k] = IF Held(r, i, k) /\ f[i][k] = transport THEN Nil ELSE f[i][k]
  /\ \A i \in open \ left : \A k \in Keys : g[i][k] = Nil
  /\ \A i \in left : (\E k \in Keys : f[i][k] # Nil) => \E k \in Keys : g[i][k] # Nil

LEMMA Closing ==
  ASSUME NEW f \in SlotMaps, NEW open \in SUBSET Interfaces, NEW r \in Runtimes \cup {Nil}, NEW transport
  PROVE  LET closed == CloseRuntime(f, open, r, transport)
         IN  Closes(f, open, r, transport, closed[1], closed[2])
<1> DEFINE g == CloseRuntime(f, open, r, transport)[1]
           left == CloseRuntime(f, open, r, transport)[2]
<1> SUFFICES Closes(f, open, r, transport, g, left)
  OBVIOUS
<1> USE DEF SlotMaps
<1>1. CASE r = Nil \/ ~r.shared
  <2>1. g = f /\ left = open
    BY <1>1 DEF CloseRuntime
  <2> HIDE DEF g, left
  <2> QED
    BY <1>1, <2>1 DEF Closes, Held
<1>2. CASE r # Nil /\ r.shared
  <2> DEFINE i0 == r.binding.iface
             k0 == r.binding.vlan
  <2>1. i0 \in Interfaces /\ k0 \in Keys
    <3>1. r.binding \in Bindings
      BY <1>2 DEF Runtimes
    <3> QED
      BY <3>1, BindingFacts
  <2>2. g = unregister(f, i0, k0, transport) /\ left = closeUnusedTrunk(g, open, i0)
    BY <1>2 DEF CloseRuntime
  <2> HIDE DEF g, left
  <2>3. g = [f EXCEPT ![i0] = [f[i0] EXCEPT ![k0] = IF f[i0][k0] = transport THEN Nil ELSE f[i0][k0]]]
    BY <2>2, <2>1 DEF unregister
  <2>4. g \in [Interfaces -> [Keys -> Transports \cup {Nil}]]
    <3>1. f[i0] \in [Keys -> Transports \cup {Nil}]
      BY <2>1
    <3>2. [f[i0] EXCEPT ![k0] = IF f[i0][k0] = transport THEN Nil ELSE f[i0][k0]] \in [Keys -> Transports \cup {Nil}]
      BY <3>1, <2>1
    <3> QED
      BY <3>2, <2>3
  <2>5. \A i \in Interfaces, k \in Keys :
          g[i][k] = IF i0 = i /\ k0 = k /\ f[i][k] = transport THEN Nil ELSE f[i][k]
    BY <2>1, <2>3
  <2>6. left = IF \A k \in Keys : g[i0][k] = Nil THEN open \ {i0} ELSE open
    BY <2>2 DEF closeUnusedTrunk
  <2>7. \A i \in open \ left : \A k \in Keys : g[i][k] = Nil
    BY <2>6
  <2>8. \A i \in left : (\E k \in Keys : f[i][k] # Nil) => \E k \in Keys : g[i][k] # Nil
    <3> SUFFICES ASSUME NEW i \in left, NEW k \in Keys, f[i][k] # Nil
                 PROVE  \E h \in Keys : g[i][h] # Nil
      OBVIOUS
    <3>1. CASE i = i0
      BY <3>1, <2>6
    <3>2. CASE i # i0
      BY <3>2, <2>5, <2>6
    <3> QED
      BY <3>1, <3>2
  <2> QED
    BY <1>2, <2>4, <2>5, <2>6, <2>7, <2>8 DEF Closes, Held
<1> QED
  BY <1>1, <1>2

-----------------------------------------------------------------------------
(* The device budget.                                                       *)
LEMMA DevicesOfOne ==
  ASSUME NEW s, NEW n \in Nat
  PROVE  IsFiniteSet({s} \X (1 .. n)) /\ Cardinality({s} \X (1 .. n)) = n
<1> DEFINE A == {s}
           B == 1 .. n
<1>1. IsFiniteSet(B) /\ Cardinality(B) = n
  BY FS_Interval
<1>2. IsFiniteSet(A) /\ Cardinality(A) = 1
  BY FS_Singleton, Zenon
<1> HIDE DEF A, B
<1>3. IsFiniteSet(A \X B) /\ Cardinality(A \X B) = Cardinality(A) * Cardinality(B)
  BY <1>1, <1>2, FS_Product, Zenon
<1>4. Cardinality(A \X B) = n
  BY <1>1, <1>2, <1>3
<1> QED
  BY <1>3, <1>4, Zenon DEF A, B

(* An admitted start keeps the sessions together within their budgets.      *)
LEMMA StartCounted ==
  ASSUME IInv, NEW s \in Sessions, NEW n \in DeviceCounts, NEW r, r # Nil, r.devices = n,
         admitSession(s, n), sessions' = [sessions EXCEPT ![s] = r]
  PROVE  Counted'
<1> DEFINE rest == DeviceSet(Running \ {s})
           own == {s} \X (1 .. n)
<1>1. n \in Nat /\ MaxSessions \in Nat /\ MaxDevices \in Nat
  BY ConstantsAssumption
<1>2. sessions \in [Sessions -> Runtimes \cup {Nil}]
  BY DEF IInv, TypeOK
<1>3. Running' = Running \cup {s}
  BY <1>2 DEF Running
<1>4. IsFiniteSet(Running') /\ Cardinality(Running') <= MaxSessions
  <2>1. IsFiniteSet(Running) /\ Cardinality(Running) <= MaxSessions
    BY DEF IInv, Counted, WithinBudget
  <2>2. Cardinality(Running) \in Nat
    BY <2>1, FS_CardinalityType
  <2>3. /\ IsFiniteSet(Running \cup {s})
        /\ Cardinality(Running \cup {s}) = IF s \in Running THEN Cardinality(Running) ELSE Cardinality(Running) + 1
    BY <2>1, FS_AddElement
  <2> QED
    BY <1>3, <2>1, <2>2, <2>3 DEF admitSession
<1>5. DeviceSet(Running)' = rest \cup own
  <2>1. \A t \in Running \ {s} : sessions'[t] = sessions[t]
    BY <1>2 DEF Running
  <2>2. sessions'[s] = r
    BY <1>2
  <2>3. ASSUME NEW x PROVE x \in DeviceSet(Running)' <=> x \in rest \cup own
    <3>1. x \in DeviceSet(Running)' <=> \E t \in Running \cup {s} : x \in {t} \X (1 .. sessions'[t].devices)
      BY <1>3 DEF DeviceSet
    <3>2. x \in rest <=> \E t \in Running \ {s} : x \in {t} \X (1 .. sessions[t].devices)
      BY DEF DeviceSet
    <3> QED
      BY <2>1, <2>2, <3>1, <3>2
  <2> QED
    BY <2>3
<1>6. IsFiniteSet(rest) /\ Cardinality(rest) \in Nat
  <2>1. rest \in SUBSET DeviceSet(Running)
    BY DEF DeviceSet
  <2>2. IsFiniteSet(DeviceSet(Running))
    BY DEF IInv, Counted
  <2>3. IsFiniteSet(rest)
    BY <2>1, <2>2, FS_Subset
  <2> QED
    BY <2>3, FS_CardinalityType
<1>7. rest \cap own = {}
  BY DEF DeviceSet
<1>8. IsFiniteSet(own) /\ Cardinality(own) = n
  BY <1>1, DevicesOfOne, Zenon
<1> HIDE DEF rest, own
<1>9. IsFiniteSet(rest \cup own) /\ Cardinality(rest \cup own) = Cardinality(rest) + n
  <2>1. /\ IsFiniteSet(rest \cup own)
        /\ Cardinality(rest \cup own) = Cardinality(rest) + Cardinality(own) - Cardinality(rest \cap own)
    BY <1>6, <1>8, FS_Union, Zenon
  <2>2. Cardinality(rest \cap own) = 0
    BY <1>7, FS_EmptySet, Zenon
  <2> QED
    BY <1>1, <1>6, <1>8, <2>1, <2>2
<1>10. Cardinality(rest) + n <= MaxDevices
  BY DEF admitSession, Devices, rest
<1> QED
  BY <1>4, <1>5, <1>9, <1>10 DEF Counted, WithinBudget, Devices

(* A session that leaves takes its place and its devices with it.           *)
LEMMA StopCounted ==
  ASSUME IInv, NEW s \in Sessions, sessions' = [sessions EXCEPT ![s] = Nil]
  PROVE  Counted'
<1>1. sessions \in [Sessions -> Runtimes \cup {Nil}]
  BY DEF IInv, TypeOK
<1>2. Running' = Running \ {s}
  BY <1>1 DEF Running
<1>3. \A t \in Running \ {s} : sessions'[t] = sessions[t]
  BY <1>1 DEF Running
<1>4. DeviceSet(Running)' \in SUBSET DeviceSet(Running)
  BY <1>2, <1>3 DEF DeviceSet
<1>5. /\ IsFiniteSet(Running) /\ IsFiniteSet(DeviceSet(Running))
      /\ Cardinality(Running) <= MaxSessions /\ Cardinality(DeviceSet(Running)) <= MaxDevices
  BY DEF IInv, Counted, WithinBudget, Devices
<1>6. Running' \in SUBSET Running
  BY <1>2
<1>7. /\ IsFiniteSet(Running') /\ Cardinality(Running') <= Cardinality(Running)
      /\ IsFiniteSet(DeviceSet(Running)') /\ Cardinality(DeviceSet(Running)') <= Cardinality(DeviceSet(Running))
  BY <1>4, <1>5, <1>6, FS_Subset
<1>8. /\ Cardinality(Running) \in Nat /\ Cardinality(Running') \in Nat
      /\ Cardinality(DeviceSet(Running)) \in Nat /\ Cardinality(DeviceSet(Running)') \in Nat
  BY <1>5, <1>7, FS_CardinalityType
<1> QED
  BY <1>5, <1>7, <1>8, ConstantsAssumption DEF Counted, WithinBudget, Devices

-----------------------------------------------------------------------------
LEMMA InitInvariant == Init => IInv
<1> SUFFICES ASSUME Init PROVE IInv
  OBVIOUS
<1>1. Running = {}
  BY DEF Init, Running
<1>2. DeviceSet(Running) = {}
  BY <1>1 DEF DeviceSet
<1>3. Counted
  BY <1>1, <1>2, FS_EmptySet, ConstantsAssumption DEF Counted, WithinBudget, Devices
<1>4. TypeOK
  BY DEF Init, TypeOK
<1>5. SlotsOwned /\ TrunksServeSessions
  BY <1>1 DEF Init, SlotsOwned, TrunksServeSessions
<1>6. SessionsCompatible /\ SelectionIsRunning /\ ApiServesCurrentRuntimes
  BY <1>1 DEF Init, SessionsCompatible, SelectionIsRunning, ApiServesCurrentRuntimes
<1> QED
  BY <1>3, <1>4, <1>5, <1>6 DEF IInv

(***************************************************************************)
(* A start: the slot taken is free or the session's own, so nobody else    *)
(* loses one; the runtime that is replaced gives back the slot it held     *)
(* only if the new one has not taken it.                                   *)
(***************************************************************************)
LEMMA StartInvariant ==
  ASSUME IInv, NEW s \in Sessions, NEW b \in Bindings, NEW n \in DeviceCounts, StartSimulation(s, b, n)
  PROVE  IInv'
<1> DEFINE shared == JoinsTrunk(b)
           next   == <<s, 1 - epoch[s]>>
           joined == IF shared THEN [slots EXCEPT ![b.iface][b.vlan] = next] ELSE slots
           opened == IF shared THEN trunks \cup {b.iface} ELSE trunks
           r      == [binding |-> b, devices |-> n, shared |-> shared]
<1>1. /\ TypeOK /\ SlotsOwned /\ SessionsCompatible /\ TrunksServeSessions
      /\ SelectionIsRunning /\ ApiServesCurrentRuntimes
  BY DEF IInv
<1>2. /\ validateReplacement(s, b) /\ admitSession(s, n)
      /\ epoch' = [epoch EXCEPT ![s] = 1 - @]
      /\ sessions' = [sessions EXCEPT ![s] = r]
      /\ publishSimulation(s)
  BY DEF StartSimulation, Admissible
<1>3. /\ slots' = CloseRuntime(joined, opened, sessions[s], Current(s))[1]
      /\ trunks' = CloseRuntime(joined, opened, sessions[s], Current(s))[2]
      /\ dead' = dead \cap trunks'
  BY DEF StartSimulation
<1>4. b.iface \in Interfaces /\ b.vlan \in Keys
  BY BindingFacts
<1>5. r \in Runtimes /\ r # Nil
  <2>1. shared \in BOOLEAN
    BY DEF JoinsTrunk
  <2> HIDE DEF shared
  <2>2. r \in Runtimes
    BY <2>1 DEF Runtimes
  <2> QED
    BY <2>2, NilAssumption
<1>6. /\ epoch[s] \in {0, 1} /\ next \in Transports /\ next # Current(s)
      /\ epoch'[s] = 1 - epoch[s] /\ next = <<s, epoch'[s]>> /\ epoch' \in [Sessions -> {0, 1}]
  BY <1>1, <1>2 DEF TypeOK, Transports, Current
<1>7. /\ Running' = Running \cup {s}
      /\ \A t \in Sessions \ {s} : sessions'[t] = sessions[t] /\ Current(t)' = Current(t)
      /\ sessions'[s] = r /\ Current(s)' = next
  BY <1>1, <1>2, <1>5, <1>6 DEF TypeOK, Running, Current
<1>8. /\ joined \in SlotMaps
      /\ \A i \in Interfaces, k \in Keys :
           joined[i][k] = IF shared /\ i = b.iface /\ k = b.vlan THEN next ELSE slots[i][k]
  <2>1. slots \in [Interfaces -> [Keys -> Transports \cup {Nil}]]
    BY <1>1 DEF TypeOK
  <2>2. CASE shared
    <3>1. joined = [slots EXCEPT ![b.iface] = [slots[b.iface] EXCEPT ![b.vlan] = next]]
      BY <2>1, <2>2, <1>4
    <3>2. [slots[b.iface] EXCEPT ![b.vlan] = next] \in [Keys -> Transports \cup {Nil}]
      BY <2>1, <1>4, <1>6
    <3> QED
      BY <2>1, <2>2, <3>1, <3>2, <1>4 DEF SlotMaps
  <2>3. CASE ~shared
    BY <2>1, <2>3 DEF SlotMaps
  <2> QED
    BY <2>2, <2>3 DEF SlotMaps
<1>9. opened \in SUBSET Interfaces /\ sessions[s] \in Runtimes \cup {Nil}
  BY <1>1, <1>4 DEF TypeOK
<1> HIDE DEF shared, next, joined, opened, r
<1>10. /\ slots' \in SlotMaps /\ trunks' \subseteq opened
       /\ \A i \in Interfaces, k \in Keys :
            slots'[i][k] = IF Held(sessions[s], i, k) /\ joined[i][k] = Current(s)
                           THEN Nil ELSE joined[i][k]
       /\ \A i \in opened \ trunks' : \A k \in Keys : slots'[i][k] = Nil
       /\ \A i \in trunks' : (\E k \in Keys : joined[i][k] # Nil) => \E k \in Keys : slots'[i][k] # Nil
  <2>1. Closes(joined, opened, sessions[s], Current(s), slots', trunks')
    BY <1>3, <1>8, <1>9, Closing, Zenon
  <2> QED
    BY <2>1 DEF Closes
<1>11. r.binding = b /\ r.shared = shared
  BY DEF r
<1>12. TypeOK'
  <2>1. registered' \in [Sessions -> {0, 1, Nil}] /\ simulation' \in Transports \cup {Nil} /\ apiSelected' \in Sessions \cup {Nil}
    BY <1>1, <1>2, <1>6 DEF TypeOK, publishSimulation
  <2>2. sessions' \in [Sessions -> Runtimes \cup {Nil}]
    BY <1>1, <1>2, <1>5 DEF TypeOK
  <2>3. trunks' \subseteq Interfaces /\ dead' \subseteq trunks'
    BY <1>3, <1>9, <1>10
  <2> QED
    BY <2>1, <2>2, <2>3, <1>6, <1>10 DEF TypeOK, SlotMaps
<1>13. \A t \in Running \ {s} : \A i \in Interfaces, k \in Keys :
         shared /\ i = b.iface /\ k = b.vlan => ~At(t, i, k)
  BY <1>1, <1>2, RunningFacts, CompatibleApart DEF validateReplacement, At
<1>14. SlotsOwned'
  <2>1. ASSUME NEW i \in Interfaces, NEW k \in Keys, NEW t \in Running', At(t, i, k)'
        PROVE  slots'[i][k] = Current(t)'
    <3>1. CASE t = s
      BY <2>1, <3>1, <1>6, <1>7, <1>8, <1>10, <1>11 DEF At
    <3>2. CASE t # s
      <4>1. t \in Running \ {s} /\ t \in Sessions /\ At(t, i, k)
        BY <2>1, <3>2, <1>7 DEF At, Running
      <4>2. slots[i][k] = Current(t) /\ joined[i][k] = slots[i][k]
        BY <4>1, <1>1, <1>8, <1>13 DEF SlotsOwned
      <4>3. Current(t) # Current(s)
        BY <3>2 DEF Current
      <4> QED
        BY <4>1, <4>2, <4>3, <1>7, <1>10
    <3> QED
      BY <3>1, <3>2
  <2>2. ASSUME NEW i \in Interfaces, NEW k \in Keys, slots'[i][k] # Nil
        PROVE  \E t \in Running' : At(t, i, k)' /\ slots'[i][k] = Current(t)'
    <3>1. CASE shared /\ i = b.iface /\ k = b.vlan
      <4>1. s \in Running' /\ At(s, i, k)'
        BY <3>1, <1>7, <1>11 DEF At
      <4> QED
        BY <4>1, <2>1
    <3>2. CASE ~(shared /\ i = b.iface /\ k = b.vlan)
      <4>1. slots'[i][k] = slots[i][k]
        BY <2>2, <3>2, <1>8, <1>10
      <4>2. PICK t \in Running : At(t, i, k) /\ slots[i][k] = Current(t)
        BY <2>2, <4>1, <1>1 DEF SlotsOwned
      <4>3. t # s
        BY <2>2, <3>2, <4>1, <4>2, <1>8, <1>10 DEF Running, Held, At
      <4>4. t \in Running' /\ At(t, i, k)' /\ Current(t)' = Current(t)
        BY <4>2, <4>3, <1>7 DEF At, Running
      <4> QED
        BY <4>1, <4>2, <4>4
    <3> QED
      BY <3>1, <3>2
  <2> QED
    BY <2>1, <2>2 DEF SlotsOwned
<1>15. SessionsCompatible'
  <2> SUFFICES ASSUME NEW t \in Running', NEW u \in Running', t # u
               PROVE  Compatible(sessions'[t].binding, sessions'[u].binding)
    BY DEF SessionsCompatible, Compatible
  <2>1. CASE t # s /\ u # s
    <3>1. t \in Running /\ u \in Running /\ sessions'[t] = sessions[t] /\ sessions'[u] = sessions[u]
      BY <2>1, <1>7 DEF Running
    <3> QED
      BY <3>1, <1>1 DEF SessionsCompatible
  <2>2. CASE u = s
    <3>1. t \in Running \ {s} /\ sessions'[t] = sessions[t] /\ sessions'[u].binding = b
      BY <2>2, <1>7, <1>11 DEF Running
    <3> QED
      BY <3>1, <1>2 DEF validateReplacement
  <2>3. CASE t = s
    <3>1. u \in Running \ {s} /\ sessions'[u] = sessions[u] /\ sessions'[t].binding = b
      BY <2>3, <1>7, <1>11 DEF Running
    <3>2. Compatible(sessions[u].binding, b)
      BY <3>1, <1>2 DEF validateReplacement
    <3> QED
      BY <3>1, <3>2 DEF Compatible
  <2> QED
    BY <2>1, <2>2, <2>3
<1>16. TrunksServeSessions'
  <2>1. ASSUME NEW i \in Interfaces, i \in trunks' \ dead' PROVE \E k \in Keys : slots'[i][k] # Nil
    <3>1. i \in opened /\ i \notin dead
      BY <2>1, <1>3, <1>10
    <3>2. \E k \in Keys : joined[i][k] # Nil
      <4>1. CASE shared /\ i = b.iface
        BY <4>1, <1>4, <1>6, <1>8, NilAssumption
      <4>2. CASE ~(shared /\ i = b.iface)
        BY <4>2, <3>1, <1>1, <1>8 DEF TrunksServeSessions, opened
      <4> QED
        BY <4>1, <4>2
    <3> QED
      BY <2>1, <3>2, <1>10
  <2>2. ASSUME NEW i \in Interfaces, i \notin trunks', NEW k \in Keys PROVE slots'[i][k] = Nil
    <3>1. CASE i \in opened
      BY <2>2, <3>1, <1>10
    <3>2. CASE i \notin opened
      BY <2>2, <3>2, <1>1, <1>8, <1>10 DEF TrunksServeSessions, opened
    <3> QED
      BY <3>1, <3>2
  <2> QED
    BY <2>1, <2>2 DEF TrunksServeSessions
<1>17. SelectionIsRunning'
  <2>1. CASE simulation = Nil \/ simulation[1] = s
    <3>1. simulation' = next
      BY <2>1, <1>2, <1>6 DEF publishSimulation
    <3>2. next # Nil /\ next[1] = s
      BY <1>6, NilAssumption DEF next
    <3> QED
      BY <3>1, <3>2, <1>7 DEF SelectionIsRunning
  <2>2. CASE simulation # Nil /\ simulation[1] # s
    <3>1. simulation' = simulation
      BY <2>2, <1>2 DEF publishSimulation
    <3>2. simulation[1] \in Running /\ simulation = Current(simulation[1])
      BY <2>2, <1>1 DEF SelectionIsRunning
    <3> QED
      BY <2>2, <3>1, <3>2, <1>7 DEF SelectionIsRunning, Running
  <2> QED
    BY <2>1, <2>2
<1>18. ApiServesCurrentRuntimes'
  BY <1>1, <1>2, <1>7 DEF ApiServesCurrentRuntimes, publishSimulation, TypeOK, Running
<1>19. Counted'
  <2>1. r.devices = n
    BY DEF r
  <2> QED
    BY <2>1, <1>2, <1>5, StartCounted
<1> QED
  BY <1>12, <1>14, <1>15, <1>16, <1>17, <1>18, <1>19 DEF IInv

(***************************************************************************)
(* A stop: the session's slot is given back, its trunk closes behind the   *)
(* last one, and the selection passes to a session that is still running.  *)
(***************************************************************************)
LEMMA StopInvariant ==
  ASSUME IInv, NEW s \in Running, stopSimulationLocked(s)
  PROVE  IInv'
<1>1. /\ TypeOK /\ SlotsOwned /\ SessionsCompatible /\ TrunksServeSessions
      /\ SelectionIsRunning /\ ApiServesCurrentRuntimes
  BY DEF IInv
<1>2. s \in Sessions /\ sessions[s] \in Runtimes /\ sessions[s] # Nil
  BY <1>1, RunningFacts DEF Running
<1>3. sessions' = [sessions EXCEPT ![s] = Nil] /\ UNCHANGED epoch
  BY DEF stopSimulationLocked
<1>4. /\ Running' = Running \ {s}
      /\ \A t \in Running' : sessions'[t] = sessions[t]
      /\ \A t \in Sessions : Current(t)' = Current(t)
  BY <1>1, <1>3 DEF TypeOK, Running, Current
<1>5. /\ slots' \in SlotMaps /\ trunks' \subseteq trunks /\ dead' = dead \cap trunks'
      /\ \A i \in Interfaces, k \in Keys :
           slots'[i][k] = IF Held(sessions[s], i, k) /\ slots[i][k] = Current(s) THEN Nil ELSE slots[i][k]
      /\ \A i \in trunks \ trunks' : \A k \in Keys : slots'[i][k] = Nil
      /\ \A i \in trunks' : (\E k \in Keys : slots[i][k] # Nil) => \E k \in Keys : slots'[i][k] # Nil
  <2>1. slots \in SlotMaps /\ trunks \in SUBSET Interfaces
    BY <1>1 DEF TypeOK, SlotMaps
  <2>2. /\ slots' = CloseRuntime(slots, trunks, sessions[s], Current(s))[1]
        /\ trunks' = CloseRuntime(slots, trunks, sessions[s], Current(s))[2]
        /\ dead' = dead \cap trunks'
    BY DEF stopSimulationLocked
  <2>3. Closes(slots, trunks, sessions[s], Current(s), slots', trunks')
    BY <1>2, <2>1, <2>2, Closing, Zenon
  <2> QED
    BY <2>2, <2>3 DEF Closes
<1>6. \/ /\ Running' = {} /\ simulation' = Nil
         /\ registered' = [t \in Sessions |-> Nil] /\ apiSelected' = Nil
      \/ \E first \in Running' :
           /\ simulation' = Current(first)
           /\ registered' = [registered EXCEPT ![s] = Nil]
           /\ apiSelected' \in {first, Nil, apiSelected}
  BY <1>4 DEF stopSimulationLocked
<1>7. TypeOK'
  <2>1. registered' \in [Sessions -> {0, 1, Nil}] /\ simulation' \in Transports \cup {Nil} /\ apiSelected' \in Sessions \cup {Nil}
    BY <1>1, <1>2, <1>6 DEF TypeOK, Transports, Current, Running
  <2>2. sessions' \in [Sessions -> Runtimes \cup {Nil}] /\ epoch' \in [Sessions -> {0, 1}]
    BY <1>1, <1>3 DEF TypeOK
  <2>3. trunks' \subseteq Interfaces /\ dead' \subseteq trunks'
    BY <1>1, <1>5 DEF TypeOK
  <2> QED
    BY <2>1, <2>2, <2>3, <1>5 DEF TypeOK, SlotMaps
<1>8. SlotsOwned'
  <2>1. ASSUME NEW i \in Interfaces, NEW k \in Keys, NEW t \in Running', At(t, i, k)'
        PROVE  slots'[i][k] = Current(t)'
    <3>1. t \in Running /\ t \in Sessions /\ t # s /\ At(t, i, k)
      BY <2>1, <1>4 DEF At, Running
    <3>2. slots[i][k] = Current(t) /\ Current(t) # Current(s)
      BY <3>1, <1>1 DEF SlotsOwned, Current
    <3> QED
      BY <3>1, <3>2, <1>4, <1>5
  <2>2. ASSUME NEW i \in Interfaces, NEW k \in Keys, slots'[i][k] # Nil
        PROVE  \E t \in Running' : At(t, i, k)' /\ slots'[i][k] = Current(t)'
    <3>1. slots'[i][k] = slots[i][k]
      BY <2>2, <1>5
    <3>2. PICK t \in Running : At(t, i, k) /\ slots[i][k] = Current(t)
      BY <2>2, <3>1, <1>1 DEF SlotsOwned
    <3>3. t # s
      BY <2>2, <3>2, <1>2, <1>5 DEF Held, At
    <3>4. t \in Running' /\ At(t, i, k)' /\ Current(t)' = Current(t)
      BY <3>2, <3>3, <1>4 DEF At, Running
    <3> QED
      BY <3>1, <3>2, <3>4
  <2> QED
    BY <2>1, <2>2 DEF SlotsOwned
<1>9. SessionsCompatible'
  <2> SUFFICES ASSUME NEW t \in Running', NEW u \in Running', t # u
               PROVE  Compatible(sessions'[t].binding, sessions'[u].binding)
    BY DEF SessionsCompatible, Compatible
  <2>1. t \in Running /\ u \in Running /\ sessions'[t] = sessions[t] /\ sessions'[u] = sessions[u]
    BY <1>4
  <2> QED
    BY <2>1, <1>1 DEF SessionsCompatible
<1>10. TrunksServeSessions'
  <2>1. ASSUME NEW i \in Interfaces, i \in trunks' \ dead' PROVE \E k \in Keys : slots'[i][k] # Nil
    <3>1. i \in trunks \ dead
      BY <2>1, <1>5
    <3> QED
      BY <2>1, <3>1, <1>1, <1>5 DEF TrunksServeSessions
  <2>2. ASSUME NEW i \in Interfaces, i \notin trunks', NEW k \in Keys PROVE slots'[i][k] = Nil
    BY <2>2, <1>1, <1>5 DEF TrunksServeSessions
  <2> QED
    BY <2>1, <2>2 DEF TrunksServeSessions
<1>11. SelectionIsRunning'
  <2>1. CASE Running' = {} /\ simulation' = Nil
    BY <2>1 DEF SelectionIsRunning
  <2>2. ASSUME NEW first \in Running', simulation' = Current(first) PROVE SelectionIsRunning'
    <3>1. first \in Sessions /\ Current(first) \in Transports /\ Current(first)[1] = first
      BY <1>1, <1>4 DEF TypeOK, Transports, Current, Running
    <3>2. simulation' # Nil /\ simulation'[1] = first /\ simulation' = Current(first)'
      BY <2>2, <3>1, <1>4, NilAssumption
    <3> QED
      BY <2>2, <3>2 DEF SelectionIsRunning
  <2> QED
    BY <2>1, <2>2, <1>6
<1>12. ApiServesCurrentRuntimes'
  BY <1>1, <1>2, <1>3, <1>4, <1>6 DEF ApiServesCurrentRuntimes, TypeOK
<1>13. Counted'
  BY <1>2, <1>3, StopCounted
<1> QED
  BY <1>7, <1>8, <1>9, <1>10, <1>11, <1>12, <1>13 DEF IInv

(* The steps that leave sessions, epochs and slots alone.                   *)
LEMMA IdleInvariant ==
  ASSUME IInv, UNCHANGED <<sessions, epoch, slots, registered>>,
         simulation' = simulation \/ \E s \in Running : simulation' = Current(s),
         apiSelected' \in Sessions \cup {Nil}, trunks' \subseteq Interfaces, dead' \subseteq trunks',
         TrunksServeSessions'
  PROVE  IInv'
<1>1. /\ TypeOK /\ SlotsOwned /\ SessionsCompatible /\ SelectionIsRunning
      /\ ApiServesCurrentRuntimes /\ Counted
  BY DEF IInv
<1>2. Running' = Running /\ DeviceSet(Running)' = DeviceSet(Running) /\ \A s : Current(s)' = Current(s)
  BY DEF Running, DeviceSet, Current
<1>3. simulation' \in Transports \cup {Nil} /\ SelectionIsRunning'
  <2>1. CASE simulation' = simulation
    BY <2>1, <1>1, <1>2 DEF TypeOK, SelectionIsRunning
  <2>2. ASSUME NEW s \in Running, simulation' = Current(s)
        PROVE  simulation' \in Transports \cup {Nil} /\ SelectionIsRunning'
    <3>1. Current(s) \in Transports /\ Current(s)[1] = s
      BY <1>1 DEF TypeOK, Transports, Current, Running
    <3>2. simulation' # Nil /\ simulation'[1] = s
      BY <2>2, <3>1, NilAssumption
    <3> QED
      BY <2>2, <3>1, <3>2, <1>2 DEF SelectionIsRunning
  <2> QED
    BY <2>1, <2>2
<1>4. TypeOK'
  BY <1>1, <1>3 DEF TypeOK
<1>5. SlotsOwned' /\ SessionsCompatible'
  BY <1>1, <1>2 DEF SlotsOwned, At, SessionsCompatible, Compatible
<1>6. ApiServesCurrentRuntimes'
  BY <1>1, <1>2 DEF ApiServesCurrentRuntimes
<1>7. Counted'
  BY <1>1, <1>2 DEF Counted, WithinBudget, Devices
<1> QED
  BY <1>3, <1>4, <1>5, <1>6, <1>7 DEF IInv

LEMMA StepInvariant == IInv /\ [Next]_vars => IInv'
<1> SUFFICES ASSUME IInv, [Next]_vars PROVE IInv'
  OBVIOUS
<1>1. TypeOK /\ TrunksServeSessions /\ SelectionIsRunning
  BY DEF IInv
<1>2. ASSUME NEW s \in Sessions, NEW b \in Bindings, NEW n \in DeviceCounts, abortStart(s, b, n)
      PROVE  IInv'
  <2>1. b.iface \in Interfaces
    BY BindingFacts
  <2>2. /\ trunks' = IF \A k \in Keys : slots[b.iface][k] = Nil THEN (trunks \cup {b.iface}) \ {b.iface}
                     ELSE trunks \cup {b.iface}
        /\ dead' = dead \cap trunks'
        /\ UNCHANGED <<sessions, epoch, simulation, slots, registered, apiSelected>>
    BY <1>2 DEF abortStart, closeUnusedTrunk
  <2>3. TrunksServeSessions'
    BY <2>1, <2>2, <1>1 DEF TrunksServeSessions
  <2>4. trunks' \subseteq Interfaces /\ dead' \subseteq trunks' /\ apiSelected' \in Sessions \cup {Nil}
    BY <2>1, <2>2, <1>1 DEF TypeOK
  <2> QED
    BY <2>2, <2>3, <2>4, IdleInvariant
<1>3. ASSUME NEW s \in Sessions, NEW b \in Bindings, NEW n \in DeviceCounts, registerOnDyingTrunk(s, b, n)
      PROVE  IInv'
  <2>1. b.iface \in Interfaces
    BY BindingFacts
  <2>2. /\ trunks' = trunks \cup {b.iface} /\ dead' = dead \cup {b.iface}
        /\ UNCHANGED <<sessions, epoch, simulation, slots, registered, apiSelected>>
    BY <1>3 DEF registerOnDyingTrunk
  <2>3. TrunksServeSessions'
    BY <2>1, <2>2, <1>1 DEF TrunksServeSessions
  <2>4. trunks' \subseteq Interfaces /\ dead' \subseteq trunks' /\ apiSelected' \in Sessions \cup {Nil}
    BY <2>1, <2>2, <1>1 DEF TypeOK
  <2> QED
    BY <2>2, <2>3, <2>4, IdleInvariant
<1>4. ASSUME NEW s \in Sessions, stopFails(s) \/ SelectSimulation(s) PROVE IInv'
  <2>1. /\ s \in Running /\ simulation' = Current(s)
        /\ apiSelected' \in {s, apiSelected}
        /\ UNCHANGED <<sessions, epoch, trunks, dead, slots, registered>>
    BY <1>4 DEF stopFails, SelectSimulation
  <2>2. TrunksServeSessions'
    BY <2>1, <1>1 DEF TrunksServeSessions
  <2>3. trunks' \subseteq Interfaces /\ dead' \subseteq trunks' /\ apiSelected' \in Sessions \cup {Nil}
    BY <2>1, <1>1 DEF TypeOK
  <2> QED
    BY <2>1, <2>2, <2>3, IdleInvariant
<1>5. ASSUME NEW i \in Interfaces, trunkFails(i) PROVE IInv'
  <2>1. /\ i \in trunks /\ dead' = dead \cup {i}
        /\ UNCHANGED <<sessions, epoch, simulation, trunks, slots, registered, apiSelected>>
    BY <1>5 DEF trunkFails
  <2>2. TrunksServeSessions'
    BY <2>1, <1>1 DEF TrunksServeSessions
  <2>3. trunks' \subseteq Interfaces /\ dead' \subseteq trunks' /\ apiSelected' \in Sessions \cup {Nil}
    BY <2>1, <1>1 DEF TypeOK
  <2> QED
    BY <2>1, <2>2, <2>3, IdleInvariant
<1>6. CASE UNCHANGED vars
  <2>1. UNCHANGED <<sessions, epoch, simulation, trunks, dead, slots, registered, apiSelected>>
    BY <1>6 DEF vars
  <2>2. TrunksServeSessions'
    BY <2>1, <1>1 DEF TrunksServeSessions
  <2>3. trunks' \subseteq Interfaces /\ dead' \subseteq trunks' /\ apiSelected' \in Sessions \cup {Nil}
    BY <2>1, <1>1 DEF TypeOK
  <2> QED
    BY <2>1, <2>2, <2>3, IdleInvariant
<1>7. CASE StopUnnamed
  <2>1. simulation[1] \in Running
    BY <1>1, <1>7 DEF StopUnnamed, SelectionIsRunning
  <2> QED
    BY <1>7, <2>1, StopInvariant DEF StopUnnamed
<1>8. ASSUME NEW s \in Sessions, StopSimulation(s) PROVE IInv'
  BY <1>8, StopInvariant DEF StopSimulation
<1> QED
  BY <1>2, <1>3, <1>4, <1>5, <1>6, <1>7, <1>8, StartInvariant DEF Next

THEOREM RegistryInductive == Spec => []IInv
  BY InitInvariant, StepInvariant, PTL DEF Spec

(* The invariant determines the owner of every slot.                        *)
LEMMA OwnersAgree ==
  ASSUME IInv
  PROVE  SlotsMatchSessions
<1> SUFFICES ASSUME NEW i \in Interfaces, NEW k \in Keys
             PROVE  LET owners == {t \in Running : At(t, i, k)}
                    IN  slots[i][k] = IF owners = {} THEN Nil ELSE Current(CHOOSE t \in owners : TRUE)
  BY DEF SlotsMatchSessions, At
<1> DEFINE owners == {t \in Running : At(t, i, k)}
<1>1. /\ \A t \in owners : slots[i][k] = Current(t)
      /\ slots[i][k] # Nil => owners # {}
  BY DEF IInv, SlotsOwned
<1> HIDE DEF owners
<1>2. owners # {} => (CHOOSE t \in owners : TRUE) \in owners
  OBVIOUS
<1>3. slots[i][k] = IF owners = {} THEN Nil ELSE Current(CHOOSE t \in owners : TRUE)
  BY <1>1, <1>2
<1> QED
  BY <1>3, Zenon DEF owners

(* For any number of sessions, interfaces and VLANs: the slots of the shared  *)
(* captures are those of the running sessions, no two sessions compete for    *)
(* an interface, no healthy capture is left without a session, the selected   *)
(* runtime is one in service, and admitSession keeps the budgets, whatever    *)
(* starts, replacements, aborts, stops and trunk failures came before.        *)
THEOREM RegistryIsSound == Spec => []RegistrySound
<1>1. IInv => RegistrySound
  BY OwnersAgree DEF IInv, Counted, RegistrySound
<1> QED
  BY <1>1, RegistryInductive, PTL

(* The API server serves the runtime in service of every running session and  *)
(* of no other, after any history of replacements and stops.                  *)
THEOREM ApiServesCurrent == Spec => []ApiServesCurrentRuntimes
<1>1. IInv => ApiServesCurrentRuntimes
  BY DEF IInv
<1> QED
  BY <1>1, RegistryInductive, PTL
=============================================================================
