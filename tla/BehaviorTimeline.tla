-------------------------- MODULE BehaviorTimeline --------------------------
(***************************************************************************)
(* Behaviour timelines: the validation of authored timelines               *)
(* (internal/config/behavior.go), their compilation to a list of           *)
(* transitions (internal/behavior/schedule.go) and its replay by a worker  *)
(* that a stop cancels (internal/behavior/runner.go).                      *)
(*                                                                         *)
(* A phase sets one fault, on a target that stands for device, interface   *)
(* and fault type, and may execute a one-shot device action when it        *)
(* starts.  The value it sets is the phase's own identity, so that two     *)
(* phases never set the same value by accident.  Several faults of a phase *)
(* are applied one after another like the faults of several phases.        *)
(***************************************************************************)
EXTENDS Integers, Sequences, FiniteSets, SequencesExt

CONSTANTS
  Targets,      \* what a fault is set on
  MaxOffset,    \* bound on start offsets of timelines and phases
  MaxDuration,  \* bound on the duration of a phase
  MaxRepeat,    \* bound on RepeatCount
  FirstPhases,  \* bound on the phases of the first timeline
  SecondPhases, \* bound on the phases of the second one; 0: there is none
  TargetFails,  \* the stack may refuse an action
  Interrupts,   \* the replay is stopped and reset at any time
  Nil

Phase == [start : 0..MaxOffset, duration : 1..MaxDuration, reset : BOOLEAN, target : Targets]
Timeline(n) ==
  [start : 0..MaxOffset, repeat : 1..MaxRepeat, phases : UNION {[1..k -> Phase] : k \in 1..n}]

MaxOf(S) == CHOOSE x \in S : \A y \in S : x >= y

\* The elements of a finite set in the order Before, which is total on it.
Sorted(S, Before(_, _)) ==
  [i \in 1..Cardinality(S) |->
     CHOOSE x \in S : Cardinality({y \in S : Before(y, x)}) = i - 1]

behaviorCycleDuration(timeline) ==
  MaxOf({timeline.phases[p].start + timeline.phases[p].duration : p \in DOMAIN timeline.phases})

\* A phase as it occurs in one repetition of its timeline (PhaseRef.ID), in the
\* order Compile visits them.
Occurrences(timelines) ==
  UNION {{<<i, r, p>> : r \in 0..(timelines[i].repeat - 1), p \in DOMAIN timelines[i].phases}
           : i \in DOMAIN timelines}

Visited(o, q) ==
  \/ o[1] < q[1]
  \/ o[1] = q[1] /\ (o[2] < q[2] \/ (o[2] = q[2] /\ o[3] < q[3]))

PhaseOf(timelines, o) == timelines[o[1]].phases[o[3]]
StartOf(timelines, o) ==
  LET t == timelines[o[1]] IN
  t.start + o[2] * behaviorCycleDuration(t) + t.phases[o[3]].start
EndOf(timelines, o) == StartOf(timelines, o) + PhaseOf(timelines, o).duration

-----------------------------------------------------------------------------
(***************************************************************************)
(* Validation.                                                             *)
(***************************************************************************)

\* The phases of one timeline do not overlap.
validateBehaviorTimeline(timeline) ==
  \A p, q \in DOMAIN timeline.phases :
    p # q => \/ timeline.phases[p].start + timeline.phases[p].duration <= timeline.phases[q].start
             \/ timeline.phases[q].start + timeline.phases[q].duration <= timeline.phases[p].start

\* The occurrences that take part for one target.  A phase without reset holds
\* its target from its first occurrence on.
behaviorIntervalsByTarget(timelines, target) ==
  LET taking == {o \in Occurrences(timelines) :
                   /\ PhaseOf(timelines, o).target = target
                   /\ PhaseOf(timelines, o).reset \/ o[2] = 0}
      Before(o, q) == \/ StartOf(timelines, o) < StartOf(timelines, q)
                      \/ StartOf(timelines, o) = StartOf(timelines, q) /\ Visited(o, q)
      interval(o) == [timeline |-> o[1], start |-> StartOf(timelines, o), end |-> EndOf(timelines, o),
                      persistent |-> ~PhaseOf(timelines, o).reset]
      order == Sorted(taking, Before)
  IN [i \in DOMAIN order |-> interval(order[i])]

\* Mutant: what a phase without reset left behind is taken to end with it.
EndsPersistent(previous, current) == current.start < previous.end

\* The current interval conflicts with one that started before it, of another
\* timeline.
Conflicts(previous, current) == previous.persistent \/ current.start < previous.end

\* The intervals of a target in the order of their starts: each is compared
\* with the furthest one of every other timeline.
validateBehaviorTargetIntervals(intervals, timelines) ==
  LET visit(seen, current) ==
        LET previous == seen.furthest[current.timeline] IN
        [ok |-> /\ seen.ok
                /\ \A i \in DOMAIN timelines \ {current.timeline} :
                     seen.furthest[i] # Nil => ~Conflicts(seen.furthest[i], current),
         furthest |->
           IF previous = Nil THEN [seen.furthest EXCEPT ![current.timeline] = current]
           ELSE IF current.persistent \/ (~previous.persistent /\ current.end > previous.end)
           THEN [seen.furthest EXCEPT ![current.timeline] = current]
           ELSE seen.furthest]
  IN FoldLeft(visit, [ok |-> TRUE, furthest |-> [i \in DOMAIN timelines |-> Nil]], intervals).ok

validateBehaviorTargets(timelines) ==
  /\ \A i \in DOMAIN timelines : validateBehaviorTimeline(timelines[i])
  /\ \A target \in Targets :
       validateBehaviorTargetIntervals(behaviorIntervalsByTarget(timelines, target), timelines)

-----------------------------------------------------------------------------
(***************************************************************************)
(* Compilation.                                                            *)
(***************************************************************************)

\* The stable sort: by offset, ends before starts, else as visited.
scheduledBefore(left, right) ==
  \/ left.offset < right.offset
  \/ left.offset = right.offset /\ left.end /\ ~right.end
  \/ left.offset = right.offset /\ left.end = right.end /\ Visited(left.phase, right.phase)

scheduledTransitions(timelines) ==
  LET starts == {[offset |-> StartOf(timelines, o), end |-> FALSE, phase |-> o]
                   : o \in Occurrences(timelines)}
      ends   == {[offset |-> EndOf(timelines, o), end |-> TRUE, phase |-> o]
                   : o \in Occurrences(timelines)}
  IN Sorted(starts \cup ends, scheduledBefore)

\* What a start or an end does: set the fault, clear it, or leave it.
behaviorActions(timelines, s) ==
  LET phase == PhaseOf(timelines, s.phase) IN
  IF ~s.end THEN <<[target |-> phase.target, value |-> s.phase]>>
  ELSE IF phase.reset THEN <<[target |-> phase.target, value |-> Nil]>>
  ELSE <<>>

groupTransitions(timelines, scheduled) ==
  LET group(result, s) ==
        LET new == result = <<>> \/ Last(result).offset # s.offset
            last == IF new THEN [offset |-> s.offset, starts |-> {}, ends |-> {},
                                 actions |-> <<>>, oneShots |-> <<>>]
                    ELSE Last(result)
            next == [last EXCEPT
                       !.starts = IF s.end THEN @ ELSE @ \cup {s.phase},
                       !.ends = IF s.end THEN @ \cup {s.phase} ELSE @,
                       !.actions = @ \o behaviorActions(timelines, s),
                       !.oneShots = IF s.end THEN @ ELSE Append(@, s.phase)]
        IN Append(IF new THEN result ELSE Front(result), next)
  IN FoldLeft(group, <<>>, scheduled)

Compile(timelines) == groupTransitions(timelines, scheduledTransitions(timelines))

-----------------------------------------------------------------------------
(***************************************************************************)
(* Replay.  The owner, the stack, starts, stops and resets the runner one  *)
(* call at a time; the worker runs next to it.  Of the clock only whether  *)
(* the offset of the next transition has passed matters.                   *)
(***************************************************************************)
VARIABLES
  timelines,   \* the authored timelines, accepted by validation
  transitions, \* their compiled form
  status,      \* Status.State
  phases,      \* Status.ActivePhases
  worker,      \* "none", "loop", "waiting", "apply", "done"
  at,          \* transition the worker is at
  applied,     \* actions of that transition applied
  cancelled,   \* the context of the replay is cancelled
  owner,       \* "idle", "stopping", "resetting"
  values,      \* target -> occurrence whose fault is set, or Nil
  executed     \* occurrences whose one-shot action was executed in this replay

runner == <<status, phases, worker, at, applied, cancelled>>
vars == <<timelines, transitions, runner, owner, values, executed>>

Accepted ==
  LET valid(n) == {t \in Timeline(n) : validateBehaviorTimeline(t)}
      candidates == IF SecondPhases = 0 THEN {<<t>> : t \in valid(FirstPhases)}
                    ELSE {<<t, u>> : t \in valid(FirstPhases), u \in valid(SecondPhases)}
  IN {<<>>} \cup {ts \in candidates : validateBehaviorTargets(ts)}

Status == {"idle", "running", "stopped", "failed", "completed"}

TypeOK ==
  /\ status \in Status
  /\ phases \subseteq Occurrences(timelines)
  /\ worker \in {"none", "loop", "waiting", "apply", "done"}
  /\ at \in 1..(Len(transitions) + 1)
  /\ worker = "apply" => applied <= Len(transitions[at].actions) + Len(transitions[at].oneShots)
  /\ cancelled \in BOOLEAN
  /\ owner \in {"idle", "stopping", "resetting"}
  /\ values \in [Targets -> Occurrences(timelines) \cup {Nil}]
  /\ executed \subseteq Occurrences(timelines)

Init ==
  /\ timelines \in Accepted
  /\ transitions = Compile(timelines)
  /\ status = "idle" /\ phases = {}
  /\ worker = "none" /\ at = 1 /\ applied = 0 /\ cancelled = FALSE
  /\ owner = "idle"
  /\ values = [t \in Targets |-> Nil]
  /\ executed = {}

Start ==
  /\ owner = "idle" /\ status = "idle"
  /\ \/ transitions = <<>> /\ status' = "completed" /\ UNCHANGED <<worker, cancelled>>
     \/ transitions # <<>> /\ status' = "running" /\ worker' = "loop" /\ cancelled' = FALSE
  /\ at' = 1 /\ applied' = 0
  /\ executed' = {}
  /\ UNCHANGED <<timelines, transitions, phases, owner, values>>

finish(state) ==
  /\ status' = state
  /\ phases' = {}
  /\ worker' = "done"
  /\ UNCHANGED <<at, applied, cancelled>>

\* The head of the loop: all transitions are through, or Clock.Wait is called,
\* which looks at the context first and returns at once when the
\* offset has passed.
loop ==
  /\ worker = "loop"
  /\ \/ at > Len(transitions) /\ finish("completed")
     \/ at <= Len(transitions) /\ cancelled /\ finish("stopped")
     \/ /\ at <= Len(transitions) /\ ~cancelled
        /\ worker' \in {"apply", "waiting"}
        /\ applied' = 0
        /\ UNCHANGED <<status, phases, at, cancelled>>
  /\ UNCHANGED <<timelines, transitions, owner, values, executed>>

\* The select of Clock.Wait: the timer, or the context, when it is cancelled.
Wait ==
  /\ worker = "waiting"
  /\ \/ cancelled /\ finish("stopped")
     \/ /\ worker' = "apply"
        /\ UNCHANGED <<status, phases, at, applied, cancelled>>
  /\ UNCHANGED <<timelines, transitions, owner, values, executed>>

\* The actions of the transition in order, then its one-shot actions.
applyFault ==
  /\ worker = "apply" /\ applied < Len(transitions[at].actions)
  /\ LET action == transitions[at].actions[applied + 1] IN
     values' = [values EXCEPT ![action.target] = action.value]
  /\ applied' = applied + 1
  /\ UNCHANGED <<timelines, transitions, status, phases, worker, at, cancelled, owner, executed>>

OneShot == transitions[at].oneShots[applied + 1 - Len(transitions[at].actions)]
OneShotNext ==
  /\ worker = "apply"
  /\ applied >= Len(transitions[at].actions)
  /\ applied < Len(transitions[at].actions) + Len(transitions[at].oneShots)

\* Mutant: the loop's index is advanced twice.
CountsTwice ==
  /\ OneShotNext /\ ~cancelled
  /\ executed' = executed \cup {OneShot}
  /\ applied' = applied + 2
  /\ UNCHANGED <<timelines, transitions, status, phases, worker, at, cancelled, owner, values>>

applyOneShot ==
  /\ OneShotNext /\ ~cancelled
  /\ executed' = executed \cup {OneShot}
  /\ applied' = applied + 1
  /\ UNCHANGED <<timelines, transitions, status, phases, worker, at, cancelled, owner, values>>

\* Mutant: a cancelled replay waits again instead of returning.
WaitsAgain ==
  /\ OneShotNext /\ cancelled
  /\ worker' = "waiting"
  /\ UNCHANGED <<timelines, transitions, status, phases, at, applied, cancelled, owner, values, executed>>

applyCancelled ==
  /\ OneShotNext /\ cancelled
  /\ finish("stopped")
  /\ UNCHANGED <<timelines, transitions, owner, values, executed>>

\* The target refuses the next action.
fail ==
  /\ TargetFails
  /\ worker = "apply"
  /\ applied < Len(transitions[at].actions) + Len(transitions[at].oneShots)
  /\ finish("failed")
  /\ UNCHANGED <<timelines, transitions, owner, values, executed>>

\* Mutant: phases that end stay in the status.
KeepsEnded ==
  /\ worker = "apply"
  /\ applied = Len(transitions[at].actions) + Len(transitions[at].oneShots)
  /\ phases' = phases \cup transitions[at].starts
  /\ worker' = "loop"
  /\ at' = at + 1
  /\ UNCHANGED <<timelines, transitions, status, applied, cancelled, owner, values, executed>>

transitionApplied ==
  /\ worker = "apply"
  /\ applied = Len(transitions[at].actions) + Len(transitions[at].oneShots)
  /\ phases' = (phases \ transitions[at].ends) \cup transitions[at].starts
  /\ worker' = "loop"
  /\ at' = at + 1
  /\ UNCHANGED <<timelines, transitions, status, applied, cancelled, owner, values, executed>>

Stop ==
  /\ Interrupts
  /\ owner = "idle" /\ worker # "none"
  /\ owner' \in {"stopping", "resetting"}
  /\ cancelled' = TRUE
  /\ UNCHANGED <<timelines, transitions, status, phases, worker, at, applied, values, executed>>

\* Mutant: Stop returns once the context is cancelled.
ReturnsAtOnce ==
  /\ owner = "stopping" /\ owner' = "idle"
  /\ UNCHANGED <<timelines, transitions, runner, values, executed>>

\* The worker has closed its channel.
stopReturns ==
  /\ owner = "stopping" /\ worker = "done"
  /\ owner' = "idle"
  /\ UNCHANGED <<timelines, transitions, runner, values, executed>>

Reset ==
  /\ owner = "resetting" /\ worker = "done"
  /\ owner' = "idle"
  /\ status' = "idle" /\ phases' = {}
  /\ worker' = "none"
  /\ UNCHANGED <<timelines, transitions, at, applied, cancelled, values, executed>>

run == loop \/ Wait \/ applyFault \/ applyOneShot \/ applyCancelled \/ fail \/ transitionApplied

Next == Start \/ run \/ Stop \/ stopReturns \/ Reset

Spec == Init /\ [][Next]_vars

\* The worker is scheduled, timers fire, and a call that can return returns.
FairSpec == Spec /\ WF_vars(run) /\ WF_vars(stopReturns) /\ WF_vars(Reset)

-----------------------------------------------------------------------------
(***************************************************************************)
(* What the author of the timelines wrote down.                            *)
(***************************************************************************)
Begun(time)  == {o \in Occurrences(timelines) : StartOf(timelines, o) <= time}
Active(time) == {o \in Begun(time) : time < EndOf(timelines, o)}

\* The latest phase on a target to have begun holds it while it lasts, and
\* after that if it does not reset.
Authored(target, time) ==
  LET on == {o \in Begun(time) : PhaseOf(timelines, o).target = target}
      latest == CHOOSE o \in on :
                  \A q \in on : StartOf(timelines, q) <= StartOf(timelines, o)
  IN IF on = {} THEN Nil
     ELSE IF latest \in Active(time) \/ ~PhaseOf(timelines, latest).reset THEN latest ELSE Nil

Between == worker \in {"loop", "waiting"} /\ at > 1
Reached == transitions[at - 1].offset

\* For every set of timelines that validation accepts, the replay leaves each
\* target, after every transition, with the fault of the phase that holds it
\* then, however timelines interleave, abut and repeat (Compile, run).
ReplayMatchesAuthored ==
  Between => \A target \in Targets :
    (\E o \in Begun(Reached) : PhaseOf(timelines, o).target = target) =>
      values[target] = Authored(target, Reached)

\* Status names exactly the phases under way, and the one-shot actions of
\* exactly the phases that have begun were executed (run, applyTransition).
StatusMatchesAuthored ==
  Between => phases = Active(Reached) /\ executed = Begun(Reached)

\* "Stop cancels an active replay and waits for its worker to exit": after it
\* returned, no action reaches the devices unless the runner is started again.
StoppedIsFinal ==
  [][owner = "idle" /\ cancelled /\ status # "idle" => UNCHANGED <<values, executed>>]_vars

\* A stop or a reset returns, although the worker may be waiting for an offset
\* or be in the middle of a transition (Stop).
StopReturns == owner # "idle" ~> owner = "idle"
=============================================================================
