---------------------------- MODULE PacketReplay ----------------------------
(***************************************************************************)
(* PCAP replay of one session: the controller (internal/replay) and the    *)
(* playback engines it creates (internal/capture/playback.go).             *)
(*                                                                         *)
(* Start and Stop hold the controller's mutex from end to end, also while  *)
(* they wait for the previous engine's goroutine.  Each engine plays its   *)
(* file in its own goroutine, which looks at the stop channel between the  *)
(* packets and sends the packet it is at even if Stop arrives meanwhile.   *)
(* Pacing is abstract: a wait ends with the packet's time or with the stop *)
(* signal.  A file is the number of its packets that pass the filter.      *)
(***************************************************************************)
EXTENDS Naturals

CONSTANTS
  Files,        \* capture files, uploads included
  Uploads,      \* the files that are temporary copies of uploaded data
  Packets,      \* Packets[f]: packets of f that match the filter
  LoopCounts,   \* values of Request.LoopCount
  Engines,      \* playback engines Start may create, 1 .. a bound
  NoFile

ASSUME UploadsAssumption == Uploads \subseteq Files /\ NoFile \notin Files
ASSUME EnginesAssumption == Engines \subseteq Nat \ {0}

VARIABLES
  disk,         \* the files that exist
  pending,      \* uploads whose request has not reached the controller yet
  current,      \* Controller.current: an engine, or 0
  running,      \* Controller.state.Running
  stateFile,    \* Controller.state.File
  cleanup,      \* Controller.cleanup
  call,         \* the call that holds the mutex
  engine,       \* the playback engines
  used,         \* engines created so far
  sender        \* the engine that sent a packet in the last step, or 0

vars == <<disk, pending, current, running, stateFile, cleanup, call, engine, used, sender>>

Idle == [op |-> "none", file |-> NoFile, loops |-> 0, interval |-> FALSE]

(* An engine before Start: its goroutine's place, its stop channel, its      *)
(* progress in the current pass and the passes it has completed.             *)
Fresh == [pc |-> "new", stop |-> FALSE, file |-> NoFile, loops |-> 0, interval |-> FALSE,
          sent |-> 0, passes |-> 0]

(* An engine whose goroutine has returned. *)
Finished == [Fresh EXCEPT !.pc = "done"]

Init ==
  /\ disk = Files \ Uploads
  /\ pending = {}
  /\ current = 0
  /\ running = FALSE
  /\ stateFile = NoFile
  /\ cleanup = NoFile
  /\ call = Idle
  /\ engine = [e \in Engines |-> Fresh]
  /\ used = 0
  /\ sender = 0

Live(e) == engine[e].pc \notin {"new", "done"}

(* processInlineData: an upload arrives as a temporary file. *)
writeUploadedFile(f) ==
  /\ f \in Uploads \ disk
  /\ disk' = disk \cup {f}
  /\ pending' = pending \cup {f}
  /\ sender' = 0
  /\ UNCHANGED <<current, running, stateFile, cleanup, call, engine, used>>

(* Start and Stop take the mutex and signal the engine that is playing. *)
signal == IF current # 0 THEN [engine EXCEPT ![current].stop = TRUE] ELSE engine

startLock(f, loops, interval) ==
  /\ call = Idle
  /\ used + 1 \in Engines
  /\ f \in Uploads => f \in pending
  /\ pending' = pending \ {f}
  /\ call' = [op |-> "start", file |-> f, loops |-> loops, interval |-> interval]
  /\ engine' = signal
  /\ sender' = 0
  /\ UNCHANGED <<disk, current, running, stateFile, cleanup, used>>

stopLock ==
  /\ call = Idle
  /\ call' = [Idle EXCEPT !.op = "stop"]
  /\ engine' = signal
  /\ sender' = 0
  /\ UNCHANGED <<disk, pending, current, running, stateFile, cleanup, used>>

(* player.Stop has waited for the goroutine. *)
previousEnded == current # 0 => ~Live(current)

cleaned == IF cleanup = NoFile THEN disk ELSE disk \ {cleanup}

(* A mutant of startReplay that does not wait for the previous engine. *)
StartsAtOnce(preflight) ==
  /\ call.op = "start"
  /\ call' = Idle
  /\ sender' = 0
  /\ preflight
  /\ used' = used + 1
  /\ current' = used'
  /\ engine' = [engine EXCEPT ![used'] =
                  [Fresh EXCEPT !.pc = "pass", !.file = call.file,
                                !.loops = call.loops, !.interval = call.interval]]
  /\ running' = TRUE
  /\ stateFile' = call.file
  /\ disk' = cleaned
  /\ cleanup' = IF call.file \in Uploads THEN call.file ELSE NoFile
  /\ UNCHANGED pending

(* A mutant of startReplay that leaves the upload of a replay that could not *)
(* start.                                                                    *)
KeepsFailedUpload(preflight) ==
  /\ call.op = "start" /\ previousEnded
  /\ call' = Idle
  /\ sender' = 0
  /\ ~preflight
  /\ current' = 0
  /\ disk' = cleaned
  /\ cleanup' = NoFile
  /\ UNCHANGED <<engine, used, running, stateFile, pending>>

(* Start: the previous engine and its upload are gone; an engine that starts *)
(* becomes current, a failed pre-flight of the file or filter removes the    *)
(* upload and leaves the state alone.                                        *)
startReplay(preflight) ==
  /\ call.op = "start" /\ previousEnded
  /\ call' = Idle
  /\ sender' = 0
  /\ IF preflight /\ call.file \in cleaned
       THEN /\ used' = used + 1
            /\ current' = used'
            /\ engine' = [engine EXCEPT ![used'] =
                            [Fresh EXCEPT !.pc = "pass", !.file = call.file,
                                          !.loops = call.loops, !.interval = call.interval]]
            /\ running' = TRUE
            /\ stateFile' = call.file
            /\ disk' = cleaned
            /\ cleanup' = IF call.file \in Uploads THEN call.file ELSE NoFile
       ELSE /\ current' = 0
            /\ disk' = cleaned \ ({call.file} \cap Uploads)
            /\ cleanup' = NoFile
            /\ UNCHANGED <<engine, used, running, stateFile>>
  /\ UNCHANGED pending

stopReplay ==
  /\ call.op = "stop" /\ previousEnded
  /\ call' = Idle
  /\ current' = 0
  /\ running' = FALSE
  /\ disk' = cleaned
  /\ cleanup' = NoFile
  /\ sender' = 0
  /\ UNCHANGED <<pending, stateFile, engine, used>>

(* An operator may delete a capture file that is not an upload.              *)
removeFile(f) ==
  /\ f \in disk \ Uploads
  /\ disk' = disk \ {f}
  /\ sender' = 0
  /\ UNCHANGED <<pending, current, running, stateFile, cleanup, call, engine, used>>

moves(e, next) ==
  /\ engine' = [engine EXCEPT ![e] = next]
  /\ UNCHANGED <<disk, pending, current, running, stateFile, cleanup, call, used>>

(* playOnce opens the file; one that cannot be read is an empty pass. *)
playOnce(e) ==
  /\ engine[e].pc = "pass"
  /\ moves(e, [engine[e] EXCEPT !.sent = 0,
                 !.pc = IF engine[e].file \in disk THEN "read" ELSE "pass done"])
  /\ sender' = 0

(* The next packet: the stop channel is looked at, then the packet's time    *)
(* waited for.                                                               *)
readPacket(e) ==
  /\ engine[e].pc = "read"
  /\ moves(e, [engine[e] EXCEPT
                 !.pc = IF engine[e].stop \/ engine[e].sent = Packets[engine[e].file]
                        THEN "pass done" ELSE "wait"])
  /\ sender' = 0

(* sleepOrStop ended by the stop channel. *)
stopWaiting(e) ==
  /\ engine[e].pc = "wait" /\ engine[e].stop
  /\ moves(e, [engine[e] EXCEPT !.pc = "pass done"])
  /\ sender' = 0

sendPacket(e) ==
  /\ engine[e].pc = "wait"
  /\ moves(e, [engine[e] EXCEPT !.pc = "read", !.sent = @ + 1])
  /\ sender' = e

(* recordPassDone and the loops around playOnce: LoopCount passes, one if    *)
(* there is neither a count nor an interval, for ever at the interval (the   *)
(* passes then do not matter and are not counted).                           *)
recordPassDone(e) ==
  /\ engine[e].pc = "pass done"
  /\ LET done    == engine[e].passes + 1
         reached == engine[e].loops > 0 /\ done >= engine[e].loops
     IN  moves(e, IF reached \/ (~engine[e].interval /\ engine[e].loops = 0) THEN Finished
                  ELSE [engine[e] EXCEPT !.pc = "between",
                          !.passes = IF engine[e].loops > 0 THEN done ELSE 0])
  /\ sender' = 0

(* A mutant of nextPass that does not look at the stop channel. *)
LoopsRegardless(e) ==
  /\ engine[e].pc = "between"
  /\ moves(e, [engine[e] EXCEPT !.pc = "pass"])
  /\ sender' = 0

(* Between passes: the interval's tick, or the next pass at once, unless the *)
(* stop channel is closed.  With an interval both may be ready.              *)
nextPass(e) ==
  /\ engine[e].pc = "between"
  /\ \/ /\ engine[e].interval \/ ~engine[e].stop
        /\ moves(e, [engine[e] EXCEPT !.pc = "pass"])
     \/ /\ engine[e].stop
        /\ moves(e, Finished)
  /\ sender' = 0

playback(e) ==
  \/ playOnce(e) \/ readPacket(e) \/ stopWaiting(e) \/ sendPacket(e)
  \/ recordPassDone(e) \/ nextPass(e)

Next ==
  \/ \E f \in Files : writeUploadedFile(f) \/ removeFile(f)
  \/ \E f \in Files, n \in LoopCounts, interval \in BOOLEAN : startLock(f, n, interval)
  \/ stopLock
  \/ \E preflight \in BOOLEAN : startReplay(preflight)
  \/ stopReplay
  \/ \E e \in Engines : playback(e)

(* The scheduler runs every goroutine; select picks a ready stop channel     *)
(* sooner or later, also when a tick is ready too.                           *)
Fairness ==
  /\ \A e \in Engines : WF_vars(playback(e)) /\ SF_vars(engine[e].stop /\ nextPass(e) /\ engine'[e].pc = "done")
  /\ WF_vars(\E preflight \in BOOLEAN : startReplay(preflight))
  /\ WF_vars(stopReplay)

Spec == Init /\ [][Next]_vars /\ Fairness

TypeOK ==
  /\ disk \subseteq Files /\ pending \subseteq Uploads
  /\ current \in Engines \cup {0}
  /\ running \in BOOLEAN
  /\ stateFile \in Files \cup {NoFile}
  /\ cleanup \in Uploads \cup {NoFile}
  /\ call.op \in {"none", "start", "stop"}
  /\ used \in Engines \cup {0}

(* Only the engine the controller knows ever plays: two replays never send   *)
(* at once, and nothing is sent once Stop has returned, whatever the old     *)
(* goroutine was doing when it was stopped.                                  *)
OneReplayPlays == \A e \in Engines : Live(e) => e = current

(* A temporary upload lives exactly as long as something may play it: it is  *)
(* not deleted under the engine that is playing it, and none is left behind  *)
(* by a replay that was stopped, replaced or could not start.                *)
UploadsFollowReplay ==
  /\ \A e \in Engines : Live(e) /\ engine[e].file \in Uploads => engine[e].file \in disk
  /\ disk \cap Uploads \subseteq pending \cup {cleanup, call.file}

(* Two replays never play at once, and an upload lives exactly as long as    *)
(* something may play it.                                                    *)
ReplaysSound == OneReplayPlays /\ UploadsFollowReplay

(* A replay that is asked to stop or to make way does so: Start and Stop     *)
(* return, whatever the loop count, the interval and the file.               *)
ReplayCallsReturn == call # Idle ~> call = Idle

(* A failed Start does not report a running replay: running means there is   *)
(* an engine, as the test of the failed Start says of the state it returns.  *)
NotRunningAfterFailedStart == running /\ call = Idle => current # 0
=============================================================================
