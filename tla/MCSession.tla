------------------------------ MODULE MCSession ------------------------------
(***************************************************************************)
(* Four parts of a running session for TLC: the behaviour timelines, the   *)
(* inform tracker, the scenario checkpoints and the sender of a reverse    *)
(* iperf3 test.  They share no state, so a behaviour is explored with one  *)
(* of them active (focus) and the others untouched.                        *)
(***************************************************************************)
EXTENDS BehaviorTimeline

CONSTANTS
  Notifiers, MaxVersion, Retries,
  Devices, Names, Values, Requests,
  Modulus, Window, Duplicates, Length, First

VARIABLES
  focus,
  version, pending, armed, fired, resending, sends, wire, responses, received, givenUp,
  stopped, silenced,
  state, checkpoint, request, alone,
  conn, data, late, client, total

informVars == <<version, pending, armed, fired, resending, sends, wire, responses, received,
                givenUp, stopped, silenced>>
checkpointVars == <<state, checkpoint, request, alone>>
senderVars == <<conn, data, late, client, total>>

Informs     == INSTANCE InformTracker WITH Devices <- Notifiers, cancelled <- silenced
Checkpoints == INSTANCE ScenarioCheckpoint
Sender      == INSTANCE Iperf3Sender

(* The unfocused parts stay in one initial state. *)
MCInit ==
  /\ focus \in {"timeline", "informs", "checkpoints", "sender"}
  /\ Init /\ (focus # "timeline" => timelines = <<>>)
  /\ Informs!Init
  /\ Checkpoints!Init /\ (focus # "checkpoints" => \A d, e \in Devices : state[d] = state[e])
  /\ Sender!Init

MCNext ==
  \/ /\ focus = "timeline" /\ Next
     /\ UNCHANGED <<focus, informVars, checkpointVars, senderVars>>
  \/ /\ focus = "informs" /\ Informs!Next
     /\ UNCHANGED <<focus, vars, checkpointVars, senderVars>>
  \/ /\ focus = "checkpoints" /\ Checkpoints!Next
     /\ UNCHANGED <<focus, vars, informVars, senderVars>>
  \/ /\ focus = "sender" /\ Sender!Next
     /\ UNCHANGED <<focus, vars, informVars, checkpointVars>>

(* Each part's own fairness, for the one that is active. *)
MCFairness ==
  /\ WF_vars(focus = "timeline" /\ run)
  /\ WF_vars(focus = "timeline" /\ stopReturns)
  /\ WF_vars(focus = "timeline" /\ Reset)
  /\ \A v \in 1 .. MaxVersion :
       /\ WF_informVars(focus = "informs" /\ Informs!timerFires(v))
       /\ WF_informVars(focus = "informs" /\ Informs!retryInform(v))
  /\ WF_senderVars(focus = "sender" /\ Sender!timeout)
  /\ WF_senderVars(focus = "sender" /\ Sender!resend)
  /\ SF_senderVars(focus = "sender" /\ Sender!next)
  /\ SF_senderVars(focus = "sender" /\ Sender!arrive(conn.unacked))

MCSpec ==
  /\ MCInit /\ MCFairness
  /\ [][MCNext]_<<focus, vars, informVars, checkpointVars, senderVars>>

(* The properties of the parts, as their modules state them. *)

(* The replay leaves every target with the fault of the phase that holds it, *)
(* and its status names the phases under way.                                *)
ReplayFollowsAuthor == ReplayMatchesAuthored /\ StatusMatchesAuthored

(* An inform that was sent is received, tracked or reported, and stays quiet *)
(* once cancelled; a restore that has begun finds its checkpoint on every    *)
(* device; and the pointers of a reverse test's stream keep their order      *)
(* around the wrap.                                                          *)
PartsSound ==
  /\ Informs!NoInformForgotten /\ Informs!CancelledStaysQuiet
  /\ Checkpoints!RestoreNeverFailsHalfway
  /\ Sender!PointersOrdered

(* A stop or reset of the replay returns, and no inform is tracked for ever. *)
CallsEnd == StopReturns /\ Informs!TrackingEnds

(* A reverse test's stream is sent to its end, whatever is lost.             *)
StreamFinishes == focus = "sender" => Sender!StreamFinishes

(* A request that ran alone covers the whole scenario.                       *)
RequestsAreWhole == Checkpoints!RequestsAreWhole
=============================================================================
