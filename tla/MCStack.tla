------------------------------- MODULE MCStack -------------------------------
(***************************************************************************)
(* The protocol stack's own machinery for TLC: its lifecycle, the          *)
(* resolution of link addresses, and what it says and learns of the link   *)
(* it is on.  They share no state (Stop resets the resolver, which both    *)
(* model), so a behaviour is explored with one of them active (focus) and  *)
(* the others untouched; all but the lifecycle take turns in the same      *)
(* variables (s1, s2, ...).                                                *)
(***************************************************************************)
EXTENDS StackLifecycle, Sequences, Integers

CONSTANT Nil

VARIABLES
  focus,
  s1, s2, s3, s4, s5, s6, s7, s8, s9, s10, s11, s12, s13, s14

low == <<s1, s2, s3, s4, s5, s6>>
high == <<s7, s8, s9, s10, s11, s12, s13, s14>>

FreeHigh == s7 = 0 /\ s8 = 0 /\ s9 = 0 /\ s10 = 0 /\ s11 = 0 /\ s12 = 0 /\ s13 = 0 /\ s14 = 0
FreeLow == s1 = 0 /\ s2 = 0 /\ s3 = 0 /\ s4 = 0 /\ s5 = 0 /\ s6 = 0

(* One notification and one host reply wait for two next hops. *)
Neighbors == INSTANCE NeighborResolution WITH
  Notices <- {"n1"}, Local <- {"n1"}, Hosts <- {"h1"}, Targets <- {"t1", "t2"}, Timers <- {"timer1", "timer2"},
  Nil <- Nil, MaxPerHop <- 2, MaxTotal <- 2, Retries <- 1, MaxAnswers <- 1, MaxChanges <- 1, MaxOpened <- 2,
  hop <- s1, masked <- s2, learned <- s3, pending <- s4, resolution <- s5, timers <- s6, sendQueue <- s7,
  work <- s8, emissions <- s9, dropped <- s10, fresh <- s11, lifecycle <- s12, answers <- s13, changes <- s14

(* A workstation first in the configuration, a switch with a hold time below *)
(* the cleanup interval, and a router with one beyond a byte.                *)
Advertised == <<"h", "sw", "r">>
AdvertisedAs == [d \in {"h", "sw", "r"} |-> CASE d = "h" -> "workstation" [] d = "sw" -> "switch" [] OTHER -> "router"]
HoldTimes == [d \in {"h", "sw", "r"} |-> CASE d = "h" -> 0 [] d = "sw" -> 20 [] OTHER -> 300]
ChassisTypes == [d \in {"h", "sw", "r"} |-> CASE d = "h" -> "" [] d = "sw" -> "local" [] OTHER -> "network_address"]
PortIDs == [d \in {"h", "sw", "r"} |-> IF d = "sw" THEN "1" ELSE ""]
Enabled == { {<<d, p>> : d \in {"sw", "r"}, p \in {"CDP", "EDP", "FDP"}},
             {<<"r", "CDP">>, <<"r", "FDP">>, <<"sw", "noLLDP">>, <<"h", "LLDP">>} }

Discovery == INSTANCE NeighborDiscovery WITH
  Order <- Advertised, Class <- AdvertisedAs, Hold <- HoldTimes, ChassisType <- ChassisTypes, AuthoredPort <- PortIDs,
  Ports <- {<<"sw", "gi1">>, <<"sw", "gi2">>, <<"r", "gi1">>}, Speakers <- Enabled,
  Workers <- {{"LLDP"}, {"EDP"}, {"CDP", "FDP"}}, MaxTime <- 60, MaxEdits <- 1,
  authored <- s1, hostname <- s2, address <- s3, port <- s4, workers <- s5, next <- s6, cleanAt <- s7,
  sendQueue <- s8, wire <- s9, entries <- s10, heard <- s11, now <- s12, edits <- s13

(* Four bridges; parallel trunks, one authored from both ends, one to        *)
(* itself, one for the forwarding table only, and one to no bridge.          *)
Trunk(d, i, r, j, f) == [device |-> d, interface |-> i, remote |-> r, remoteInterface |-> j, fdbOnly |-> f]
AllTrunks == {Trunk(1, "p1", 2, "p1", FALSE), Trunk(2, "p1", 1, "p1", FALSE), Trunk(2, "p2", 1, "p2", FALSE),
              Trunk(3, "p1", 2, "p3", FALSE), Trunk(4, "p1", 3, "p2", FALSE), Trunk(4, "p2", 1, "p3", FALSE),
              Trunk(1, "p4", 1, "p5", FALSE), Trunk(4, "p3", 2, "p4", TRUE), Trunk(3, "p3", 9, "p1", FALSE)}
Trunkings == {t \in SUBSET AllTrunks : Cardinality(t) \in 2..5}
PortRank == [i \in {"p1", "p2", "p3", "p4", "p5"} |->
               CASE i = "p1" -> 1 [] i = "p2" -> 2 [] i = "p3" -> 3 [] i = "p4" -> 4 [] OTHER -> 5]

Tree == INSTANCE SpanningTree WITH
  Bridges <- 1..4, Authored <- Trunkings, Rank <- PortRank,
  trunks <- s1, positions <- s2, pc <- s3, hops <- s4, order <- s5, at <- s6

Hellos == [b \in 1..2 |-> IF b = 1 THEN 0 ELSE 3]

Bpdus == INSTANCE BpduOrigination WITH
  Bridges <- 1..2, HelloTime <- Hellos, Jitter <- 3, MaxTicks <- 8, MaxSkips <- 1, MaxMoves <- 1,
  eligible <- s1, tick <- s2, due <- s3, sent <- s4, skips <- s5, moves <- s6

MCInit ==
  /\ Init
  /\ \/ focus = "lifecycle" /\ FreeLow /\ FreeHigh
     \/ focus = "neighbors" /\ Neighbors!Init
     \/ focus = "discovery" /\ Discovery!Init /\ s14 = 0
     \/ focus = "tree" /\ Tree!Init /\ FreeHigh
     \/ focus = "bpdus" /\ Bpdus!Init /\ FreeHigh

MCNext ==
  /\ UNCHANGED focus
  /\ \/ focus = "lifecycle" /\ Next /\ UNCHANGED <<low, high>>
     \/ focus = "neighbors" /\ Neighbors!Next /\ UNCHANGED vars
     \/ focus = "discovery" /\ Discovery!Next /\ UNCHANGED <<vars, s14>>
     \/ focus = "tree" /\ Tree!Next /\ UNCHANGED <<vars, high>>
     \/ focus = "bpdus" /\ Bpdus!Next /\ UNCHANGED <<vars, high>>

MCFairness ==
  /\ WF_vars(focus = "lifecycle" /\ StopStep)
  /\ WF_vars(focus = "lifecycle" /\ recordWorkerFailure)
  /\ \A f \in Frames : WF_vars(focus = "lifecycle" /\ Deferred(f))
  /\ \A w \in Workers : WF_vars(focus = "lifecycle" /\ workerReturns(w))

MCSpec == MCInit /\ [][MCNext]_<<focus, vars, low, high>> /\ MCFairness

(* What waits for a link address is handed on once, is always somebody's to  *)
(* come back to, and does not outlive the session.                           *)
ResolutionsSound ==
  focus = "neighbors" => Neighbors!SentOnce /\ Neighbors!PendingAttended /\ Neighbors!NothingAfterReset

(* The neighbour table shows who was heard within its TTL, under a device    *)
(* that speaks the protocol; every MED capability is followed by its TLV;    *)
(* the elected positions are spanning trees; and hellos do not drift.        *)
DiscoverySound ==
  /\ focus = "discovery" => Discovery!NeighborsCurrent /\ Discovery!OwnerEmits /\ Discovery!MEDCapabilitiesFollow
  /\ focus = "tree" => Tree!OneTree
  /\ focus = "bpdus" => Bpdus!HelloKept
=============================================================================
