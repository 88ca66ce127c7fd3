----------------------------- MODULE DeviceState -----------------------------
(***************************************************************************)
(* The authoritative state of one simulated device (internal/devicestate)  *)
(* and the dispatcher that turns its event log into SNMP notifications     *)
(* (internal/protocols: state_notifications.go,                            *)
(* state_device_action_notifications.go).                                  *)
(*                                                                         *)
(* A transaction holds the store's lock, so it is one action: it changes   *)
(* the state, raises the version, appends events to the bounded log and    *)
(* signals the dispatcher.  UpdateInterface is two actions, because its    *)
(* callback runs between two critical sections.  Of an interface only the  *)
(* operational state of the configuration banks and the armed faults are   *)
(* kept; an interface is its index in the device's interface list.         *)
(***************************************************************************)
EXTENDS Integers, Sequences, SequencesExt

CONSTANTS
  NInterfaces,  \* interfaces of the device
  CarrierTypes, \* isCarrierFault: link_down, poe_loss
  CounterTypes, \* the faults that only move counters
  FaultValues,  \* rates above zero a fault can have
  ActionIDs,    \* identities of timeline actions
  Names,        \* checkpoint names
  MaxActions,   \* maxConsumedDeviceActions
  MaxHistory,   \* maxEventHistory
  MaxVersion,   \* bound on the version from which transactions start
  Operations,   \* the transactions clients make
  Nil

ASSUME ConstantsAssumption ==
  /\ NInterfaces \in Nat \ {0} /\ CarrierTypes \cap CounterTypes = {}
  /\ FaultValues \subseteq 1..100 /\ Nil \notin ActionIDs
  /\ MaxActions \in Nat /\ MaxHistory \in Nat \ {0} /\ MaxVersion \in Nat
  /\ Operations \subseteq {"fault", "admin", "bank", "checkpoint", "restore", "action", "restart"}

VARIABLES
  version,     \* s.version
  events,      \* s.events
  evicted,     \* version of the newest event pushed out of the log
  running,     \* running bank: interface -> OperUp
  startup,     \* startup bank
  faults,      \* s.faults: interface and type -> value, 0 if not armed
  checkpoints, \* name -> checkpoint or Nil
  telemetry,   \* s.telemetry
  consumed,    \* action ID -> type or Nil
  update,      \* the UpdateInterface between its critical sections, or Nil
  wake,        \* a signal waits in the dispatcher's channel
  dispatcher,  \* "waiting" for a signal or "dispatching"
  cursor,      \* registration.cursor
  reported,    \* interface -> operational state the receivers were told
  gap,         \* the dispatcher has logged a gap in the history
  recovered,   \* actions consumed when the process restored its record
  saved        \* the last durable record, or Nil

log      == <<version, events, evicted>>
notifier == <<dispatcher, cursor, reported, gap, recovered>>
vars == <<log, running, startup, faults, checkpoints, telemetry, consumed, update, wake,
          notifier, saved>>

Interfaces == 1..NInterfaces
FaultTypes == CarrierTypes \cup CounterTypes
Actions == {"reboot", "stp"}

Banks      == [Interfaces -> BOOLEAN]
FaultMaps  == [Interfaces \X FaultTypes -> FaultValues \cup {0}]
Telemetry  == [rebooted : BOOLEAN, stpChanges : 0..MaxActions]
Checkpoint == [running : Banks, faults : FaultMaps, telemetry : Telemetry]
Versions   == 1..(MaxVersion + NInterfaces + 1)
Events     ==
  [version : Versions, kind : {"other"}]
    \cup [version : Versions, kind : {"interface"}, target : Interfaces,
          from : BOOLEAN, to : BOOLEAN]
    \cup [version : Versions, kind : Actions, target : ActionIDs]

Authored == [i \in Interfaces |-> TRUE]
NoFaults == [k \in Interfaces \X FaultTypes |-> 0]
NoActions == [a \in ActionIDs |-> Nil]
Calm == [rebooted |-> FALSE, stpChanges |-> 0]

TypeOK ==
  /\ version \in Versions
  /\ events \in Seq(Events) /\ Len(events) <= MaxHistory
  /\ evicted \in Versions \cup {0}
  /\ running \in Banks /\ startup \in Banks
  /\ faults \in FaultMaps
  /\ checkpoints \in [Names -> Checkpoint \cup {Nil}]
  /\ telemetry \in Telemetry
  /\ consumed \in [ActionIDs -> Actions \cup {Nil}]
  /\ update \in [iface : Interfaces, up : BOOLEAN, version : Versions, current : BOOLEAN] \cup {Nil}
  /\ wake \in BOOLEAN /\ gap \in BOOLEAN
  /\ dispatcher \in {"waiting", "dispatching"}
  /\ cursor \in Versions \cup {0}
  /\ reported \in Banks
  /\ recovered \subseteq ActionIDs

Other(v) == [version |-> v, kind |-> "other"]
Link(v, i, before, after) ==
  [version |-> v, kind |-> "interface", target |-> i, from |-> before[i], to |-> after[i]]

\* applyCarrierFaults: what an interface is, as snapshots show it.
applyCarrierFaults(bank, armed) ==
  [i \in Interfaces |-> bank[i] /\ \A t \in CarrierTypes : armed[i, t] = 0]

Effective == applyCarrierFaults(running, faults)

\* The compiled network has been installed and the dispatcher is about to run.
Init ==
  /\ version = 2 /\ events = <<Other(2)>> /\ evicted = 0
  /\ running = Authored /\ startup = Authored
  /\ faults = NoFaults
  /\ checkpoints = [n \in Names |-> Nil]
  /\ telemetry = Calm
  /\ consumed = NoActions
  /\ update = Nil
  /\ wake = TRUE
  /\ dispatcher = "dispatching" /\ cursor = 0 /\ reported = Authored /\ gap = FALSE
  /\ recovered = {}
  /\ saved = Nil

-----------------------------------------------------------------------------
(***************************************************************************)
(* The event log.                                                          *)
(***************************************************************************)
May(operation) == operation \in Operations /\ version < MaxVersion

\* Mutant: the log is not bounded.
AppendKeepsAll(all) == all

\* appendEvent pushes out the oldest events of a full log.
appendEvent(all) ==
  IF Len(all) > MaxHistory THEN SubSeq(all, Len(all) - MaxHistory + 1, Len(all)) ELSE all

\* A transaction that raises the version to v and records new events.
recordEvents(v, new) ==
  LET all == events \o new IN
  /\ version' = v
  /\ events' = appendEvent(all)
  /\ evicted' = IF Len(all) > MaxHistory THEN all[Len(all) - MaxHistory].version ELSE evicted
  /\ wake' = TRUE
  /\ UNCHANGED <<notifier, saved>>

\* The interfaces on which two states differ, in the order of the list.
Changed(before, after) ==
  SelectSeq([k \in Interfaces |-> k], LAMBDA i : before[i] # after[i])

\* Mutant: a fault change is not recorded as a link change.
CarrierUnrecorded(v, before, after) == <<>>

\* recordCarrierTransitions: one event per interface, each with a version.
recordCarrierTransitions(v, before, after) ==
  [k \in DOMAIN Changed(before, after) |-> Link(v + k, Changed(before, after)[k], before, after)]

\* recordChangedInterfaceEvents compares the banks; all events have version v.
recordChangedInterfaceEvents(v, before, after) ==
  [k \in DOMAIN Changed(before, after) |-> Link(v, Changed(before, after)[k], before, after)]

(***************************************************************************)
(* Faults.                                                                 *)
(***************************************************************************)
SetFaults(armed) ==
  LET links == recordCarrierTransitions(version + 1, Effective,
                                        applyCarrierFaults(running, armed)) IN
  /\ May("fault")
  /\ armed # faults
  /\ faults' = armed
  /\ recordEvents(version + 1 + Len(links), <<Other(version + 1)>> \o links)
  /\ UNCHANGED <<running, startup, checkpoints, telemetry, consumed, update>>

SetInterfaceFault(i, t, value) == SetFaults([faults EXCEPT ![i, t] = value])

ClearInterfaceFaults(i) ==
  SetFaults([k \in Interfaces \X FaultTypes |-> IF k[1] = i THEN 0 ELSE faults[k]])

ClearAllFaults == SetFaults(NoFaults)

(***************************************************************************)
(* Operator configuration: shutdown and no shutdown on an interface, and   *)
(* the configuration banks.  The update is refused if anything changed     *)
(* while its callback ran.                                                 *)
(***************************************************************************)
UpdateInterface(i, up) ==
  /\ May("admin")
  /\ update = Nil
  /\ update' = [iface |-> i, up |-> up, version |-> version, current |-> running[i]]
  /\ UNCHANGED <<log, running, startup, faults, checkpoints, telemetry, consumed, wake,
                 notifier, saved>>

\* Mutant: the update is committed whatever happened while its callback ran.
CommitsAnyway ==
  /\ update # Nil
  /\ LET i == update.iface
         next == [running EXCEPT ![i] = update.up]
     IN /\ running' = next
        /\ recordEvents(version + 1, <<Link(version + 1, i, [running EXCEPT ![i] = update.current], next)>>)
  /\ update' = Nil
  /\ UNCHANGED <<startup, faults, checkpoints, telemetry, consumed>>

commitUpdate ==
  /\ update # Nil /\ update.version = version
  /\ LET i == update.iface
         next == [running EXCEPT ![i] = update.up]
     IN /\ running' = next
        /\ recordEvents(version + 1, <<Link(version + 1, i, [running EXCEPT ![i] = update.current], next)>>)
  /\ update' = Nil
  /\ UNCHANGED <<startup, faults, checkpoints, telemetry, consumed>>

\* ErrConcurrentUpdate.
refuseUpdate ==
  /\ update # Nil /\ update.version # version
  /\ update' = Nil
  /\ UNCHANGED <<log, running, startup, faults, checkpoints, telemetry, consumed, wake,
                 notifier, saved>>

replaceRunning(next) ==
  /\ running' = next
  /\ recordEvents(version + 1,
       <<Other(version + 1)>> \o recordChangedInterfaceEvents(version + 1, running, next))

SaveStartup ==
  /\ May("bank")
  /\ startup' = running
  /\ recordEvents(version + 1, <<Other(version + 1)>>)
  /\ UNCHANGED <<running, faults, checkpoints, telemetry, consumed, update>>

EraseStartup ==
  /\ May("bank")
  /\ startup' = Authored
  /\ recordEvents(version + 1, <<Other(version + 1)>>)
  /\ UNCHANGED <<running, faults, checkpoints, telemetry, consumed, update>>

ReloadStartup ==
  /\ May("bank")
  /\ replaceRunning(startup)
  /\ UNCHANGED <<startup, faults, checkpoints, telemetry, consumed, update>>

ResetAuthored ==
  /\ May("bank")
  /\ replaceRunning(Authored)
  /\ startup' = Authored
  /\ UNCHANGED <<faults, checkpoints, telemetry, consumed, update>>

(***************************************************************************)
(* Checkpoints.                                                            *)
(***************************************************************************)
SaveCheckpoint(n) ==
  /\ May("checkpoint")
  /\ checkpoints' = [checkpoints EXCEPT
       ![n] = [running |-> running, faults |-> faults, telemetry |-> telemetry]]
  /\ recordEvents(version + 1, <<Other(version + 1)>>)
  /\ UNCHANGED <<running, startup, faults, telemetry, consumed, update>>

\* Mutant: the consumed actions are rewound with the telemetry.
RestoreRewinds(n) ==
  /\ May("restore")
  /\ checkpoints[n] # Nil
  /\ faults' = checkpoints[n].faults
  /\ telemetry' = checkpoints[n].telemetry
  /\ replaceRunning(checkpoints[n].running)
  /\ consumed' = NoActions
  /\ UNCHANGED <<startup, checkpoints, update>>

RestoreCheckpoint(n) ==
  /\ May("restore")
  /\ checkpoints[n] # Nil
  /\ faults' = checkpoints[n].faults
  /\ telemetry' = checkpoints[n].telemetry
  /\ replaceRunning(checkpoints[n].running)
  /\ UNCHANGED <<startup, checkpoints, consumed, update>>

(***************************************************************************)
(* One-shot actions of a scenario timeline.  A repeated delivery of an     *)
(* identity, a conflicting one and one past the limit change nothing.      *)
(***************************************************************************)
Consumed == {a \in ActionIDs : consumed[a] # Nil}

ExecuteDeviceAction(kind, id) ==
  /\ May("action")
  /\ id \notin Consumed
  /\ Cardinality(Consumed) < MaxActions
  /\ telemetry' = IF kind = "reboot" THEN [telemetry EXCEPT !.rebooted = TRUE]
                  ELSE [telemetry EXCEPT !.stpChanges = @ + 1]
  /\ consumed' = [consumed EXCEPT ![id] = kind]
  /\ recordEvents(version + 1, <<[version |-> version + 1, kind |-> kind, target |-> id]>>)
  /\ UNCHANGED <<running, startup, faults, checkpoints, update>>

-----------------------------------------------------------------------------
(***************************************************************************)
(* The durable record and recovery from it.                                *)
(***************************************************************************)
Record ==
  [version |-> version, events |-> events, running |-> running, startup |-> startup,
   faults |-> faults, checkpoints |-> checkpoints, telemetry |-> telemetry,
   consumed |-> consumed]

\* The writer exports a record of the state.
ExportState ==
  /\ "restart" \in Operations
  /\ saved' = Record
  /\ UNCHANGED <<log, running, startup, faults, checkpoints, telemetry, consumed, update,
                 wake, notifier>>

validStateHistory(r) ==
  /\ r.version >= 1
  /\ Len(r.events) <= MaxHistory
  /\ \A k \in DOMAIN r.events : r.events[k].version \in 1..r.version
  /\ \A k \in 2..Len(r.events) : r.events[k - 1].version <= r.events[k].version

CountOf(r, kind) == Cardinality({a \in ActionIDs : r.consumed[a] = kind})

telemetryHasConsumedActions(t, r) ==
  /\ t.rebooted => CountOf(r, "reboot") > 0
  /\ t.stpChanges <= CountOf(r, "stp")

validActionState(r) ==
  /\ Cardinality({a \in ActionIDs : r.consumed[a] # Nil}) <= MaxActions
  /\ telemetryHasConsumedActions(r.telemetry, r)
  /\ \A n \in Names :
       r.checkpoints[n] # Nil => telemetryHasConsumedActions(r.checkpoints[n].telemetry, r)
  /\ \A k \in DOMAIN r.events :
       r.events[k].kind \in Actions => r.consumed[r.events[k].target] = r.events[k].kind

validateState(r) == validStateHistory(r) /\ validActionState(r)

\* Mutant: the dispatcher's cursor is not moved past the restored history.
ReplaysHistory ==
  /\ saved # Nil /\ validateState(saved)
  /\ version' = saved.version /\ events' = saved.events /\ evicted' = 0
  /\ running' = saved.running /\ startup' = saved.startup
  /\ faults' = saved.faults /\ checkpoints' = saved.checkpoints
  /\ telemetry' = saved.telemetry /\ consumed' = saved.consumed
  /\ update' = Nil /\ wake' = FALSE
  /\ dispatcher' = "dispatching" /\ cursor' = 0 /\ gap' = FALSE
  /\ reported' = applyCarrierFaults(saved.running, saved.faults)
  /\ recovered' = {a \in ActionIDs : saved.consumed[a] # Nil}
  /\ UNCHANGED saved

\* RestoreState in a new process: the dispatcher starts past the history, and
\* the receivers' view starts with the restored state.
RestoreState ==
  /\ saved # Nil /\ validateState(saved)
  /\ version' = saved.version /\ events' = saved.events /\ evicted' = 0
  /\ running' = saved.running /\ startup' = saved.startup
  /\ faults' = saved.faults /\ checkpoints' = saved.checkpoints
  /\ telemetry' = saved.telemetry /\ consumed' = saved.consumed
  /\ update' = Nil /\ wake' = FALSE
  /\ dispatcher' = "dispatching" /\ cursor' = saved.version /\ gap' = FALSE
  /\ reported' = applyCarrierFaults(saved.running, saved.faults)
  /\ recovered' = {a \in ActionIDs : saved.consumed[a] # Nil}
  /\ UNCHANGED saved

-----------------------------------------------------------------------------
(***************************************************************************)
(* The dispatcher.                                                         *)
(***************************************************************************)
\* Mutant: a cursor one short of the log is taken to have missed nothing.
GapUnnoticed(c) ==
  [complete |-> events = <<>> \/ events[1].version - c <= 2,
   events |-> SelectSeq(events, LAMBDA e : e.version > c)]

\* EventsAfter, and whether nothing newer than the cursor was pushed out.
EventsAfter(c) ==
  LET v == IF c < 1 THEN 1 ELSE c IN
  [complete |-> events = <<>> \/ events[1].version - v <= 1,
   events |-> SelectSeq(events, LAMBDA e : e.version > v)]

awake ==
  /\ dispatcher = "waiting" /\ wake
  /\ wake' = FALSE
  /\ dispatcher' = "dispatching"
  /\ UNCHANGED <<log, running, startup, faults, checkpoints, telemetry, consumed, update,
                 cursor, reported, gap, recovered, saved>>

\* sendEvent: a link event whose operational state did not change sends none.
LinkTraps(batch, i) ==
  SelectSeq(batch, LAMBDA e : e.kind = "interface" /\ e.target = i /\ e.from # e.to)

\* Mutant: one event is sent per signal, although signals are coalesced.
DispatchesFirst ==
  /\ dispatcher = "dispatching"
  /\ LET after == EventsAfter(cursor)
         batch == IF after.events = <<>> THEN <<>> ELSE <<Head(after.events)>>
         Sent(i) == LinkTraps(batch, i)
     IN /\ gap' = (gap \/ ~after.complete)
        /\ cursor' = IF batch = <<>> THEN cursor ELSE Last(batch).version
        /\ reported' = [i \in Interfaces |-> IF Sent(i) = <<>> THEN reported[i] ELSE Last(Sent(i)).to]
  /\ dispatcher' = "waiting"
  /\ UNCHANGED <<log, running, startup, faults, checkpoints, telemetry, consumed, update,
                 wake, recovered, saved>>

dispatchPending ==
  /\ dispatcher = "dispatching"
  /\ LET after == EventsAfter(cursor)
         Sent(i) == LinkTraps(after.events, i)
     IN /\ gap' = (gap \/ ~after.complete)
        /\ cursor' = IF after.events = <<>> THEN cursor ELSE Last(after.events).version
        /\ reported' = [i \in Interfaces |-> IF Sent(i) = <<>> THEN reported[i] ELSE Last(Sent(i)).to]
  /\ dispatcher' = "waiting"
  /\ UNCHANGED <<log, running, startup, faults, checkpoints, telemetry, consumed, update,
                 wake, recovered, saved>>

Next ==
  \/ \E i \in Interfaces, t \in FaultTypes, v \in FaultValues \cup {0} : SetInterfaceFault(i, t, v)
  \/ \E i \in Interfaces : ClearInterfaceFaults(i)
  \/ ClearAllFaults
  \/ \E i \in Interfaces, up \in BOOLEAN : UpdateInterface(i, up)
  \/ commitUpdate \/ refuseUpdate
  \/ SaveStartup \/ EraseStartup \/ ReloadStartup \/ ResetAuthored
  \/ \E n \in Names : SaveCheckpoint(n) \/ RestoreCheckpoint(n)
  \/ \E kind \in Actions, id \in ActionIDs : ExecuteDeviceAction(kind, id)
  \/ ExportState \/ RestoreState
  \/ awake \/ dispatchPending

Spec == Init /\ [][Next]_vars

\* The dispatcher's goroutine runs while the stack does.
FairSpec == Spec /\ WF_vars(awake \/ dispatchPending)

-----------------------------------------------------------------------------
\* Every record the store exports passes the validation that recovery puts it
\* through, whatever was checkpointed, restored, executed and pushed out of
\* the log before: otherwise RestoreDeviceStates would discard it (ExportState,
\* validateState).
ExportValidates == validateState(Record)

\* When EventsAfter says the history is complete, no event newer than the
\* cursor was pushed out of the log: "Complete is false when the requested
\* cursor predates the bounded history window."
GapReported == EventsAfter(cursor).complete => evicted <= cursor

\* When the dispatcher has caught up and logged no gap, the receivers' view of
\* every link is the state snapshots show: "A cut cable is a link change, and
\* what follows link changes must see it as one" (recordCarrierTransitions).
LinkStateReported ==
  dispatcher = "waiting" /\ ~wake /\ ~gap => reported = Effective

\* Every change of the running bank is recorded, from the value the interface
\* had to the value it got, whatever configuration sessions, bank changes and
\* restores did while the callback of an update ran (UpdateInterface's version
\* check).
RunningChangesRecorded ==
  [][\A i \in Interfaces :
       version' > version /\ running'[i] # running[i] =>
         \E k \in DOMAIN events' : events'[k] = Link(version', i, running, running')]_vars

\* Recovery re-announces nothing: an action that was consumed in the record the
\* process started from is not notified again (skipRestoredHistory, "past
\* events do not become new traps").
HistoryNotReplayed ==
  [][dispatcher = "dispatching" /\ dispatcher' = "waiting" =>
       \A k \in DOMAIN EventsAfter(cursor).events :
         LET e == EventsAfter(cursor).events[k]
         IN e.kind \in Actions => e.target \notin recovered]_vars

\* Signals are coalesced, yet no event waits for ever: the dispatcher's cursor
\* reaches the newest event (signalChange, Run).
EventsDispatched == events # <<>> /\ Last(events).version > cursor ~> Last(events).version <= cursor
=============================================================================
