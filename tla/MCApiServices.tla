--------------------------- MODULE MCApiServices ----------------------------
(***************************************************************************)
(* The services behind the HTTP API for TLC: replay, standalone capture,   *)
(* the frame ring, the analysis cache, the event hub and the request gate. *)
(* They share no state, so a behaviour is explored with one of them active *)
(* (focus) and the others untouched.                                       *)
(***************************************************************************)
EXTENDS PacketReplay

CONSTANTS
  Captures,
  Frames, Bytes, FrameSizes, MaxPackets,
  Ids, ResultSizes, MaxEntries, MaxMemory, MaxSets,
  Clients, Producers, Subscriptions, BufferSize, ClientLimits, MaxTokens, MaxEvents,
  Requests, Addresses, Tokens, TokenSets, Loopback, MaxLimiters, Burst, MaxRotations

VARIABLES
  focus,
  capture, simulating, started, stopped, loops, lastError,
  frames, head, count, bytes, seen,
  entries, currentMem, clock,
  maxClients, hubLoop, hubStopped, phase, client, clients, closed, send, got, queue, draft, eventID, buckets,
  tokens, rotations, request, limiters, now

captureVars == <<capture, simulating, started, stopped, loops, lastError>>
ringVars    == <<frames, head, count, bytes, seen>>
cacheVars   == <<entries, currentMem, clock>>
hubVars     == <<maxClients, hubLoop, hubStopped, phase, client, clients, closed, send, got,
                 queue, draft, eventID, buckets>>
gateVars    == <<tokens, rotations, request, limiters, now>>
allVars     == <<focus, vars, captureVars, ringVars, cacheVars, hubVars, gateVars>>

Capture == INSTANCE StandaloneCapture WITH closed <- stopped, loop <- loops
Ring    == INSTANCE CaptureRing WITH Sizes <- FrameSizes
Cache   == INSTANCE AnalysisCache WITH Sizes <- ResultSizes
Hub     == INSTANCE EventHub WITH loop <- hubLoop, stopped <- hubStopped, tokens <- buckets
Gate    == INSTANCE ApiGate

ASSUME ServiceConstants == Capture!Constants /\ Gate!Constants

MCPackets == [f \in Files |-> IF f \in Uploads THEN 2 ELSE 1]

MCSubscriptions == {[stream |-> "packets", scope |-> ""], [stream |-> "packets", scope |-> "s1"]}

(* No token at all, two tokens of different scopes, and only one of them     *)
(* with another scope.                                                       *)
MCTokenSets == { [t \in Tokens |-> 0],
                 [t \in Tokens |-> IF t = "a" THEN 3 ELSE 1],
                 [t \in Tokens |-> IF t = "a" THEN 0 ELSE 2] }

MCInit ==
  /\ focus \in {"replay", "capture", "ring", "cache", "hub", "gate"}
  /\ Init
  /\ Capture!Init
  /\ Ring!Init
  /\ Cache!Init
  /\ Hub!Init /\ (focus # "hub" => client = [c \in Clients |-> [stream |-> "packets", scope |-> ""]] /\ maxClients = 1)
  /\ Gate!Init /\ (focus # "gate" => tokens = [t \in Tokens |-> 0])

MCNext ==
  \/ focus = "replay" /\ Next
       /\ UNCHANGED <<focus, captureVars, ringVars, cacheVars, hubVars, gateVars>>
  \/ focus = "capture" /\ Capture!Next
       /\ UNCHANGED <<focus, vars, ringVars, cacheVars, hubVars, gateVars>>
  \/ focus = "ring" /\ Ring!Next
       /\ UNCHANGED <<focus, vars, captureVars, cacheVars, hubVars, gateVars>>
  \/ focus = "cache" /\ Cache!Next
       /\ UNCHANGED <<focus, vars, captureVars, ringVars, hubVars, gateVars>>
  \/ focus = "hub" /\ Hub!Next
       /\ UNCHANGED <<focus, vars, captureVars, ringVars, cacheVars, gateVars>>
  \/ focus = "gate" /\ Gate!Next
       /\ UNCHANGED <<focus, vars, captureVars, ringVars, cacheVars, hubVars>>

(* Each service's own fairness, for the one that is active. *)
MCFairness ==
  /\ \A e \in Engines :
       /\ WF_vars(focus = "replay" /\ playback(e))
       /\ SF_vars(focus = "replay" /\ engine[e].stop /\ nextPass(e) /\ engine'[e].pc = "done")
  /\ WF_vars(focus = "replay" /\ \E preflight \in BOOLEAN : startReplay(preflight))
  /\ WF_vars(focus = "replay" /\ stopReplay)
  /\ \A e \in Captures :
       /\ WF_captureVars(focus = "capture" /\ e \in stopped /\ Capture!captureRunner(e))
       /\ WF_captureVars(focus = "capture" /\ Capture!completeStandaloneCapture(e))
  /\ WF_hubVars(focus = "hub" /\ Hub!Run)
  /\ WF_hubVars(focus = "hub" /\ Hub!closeAllClients)
  /\ \A c \in Clients :
       /\ WF_hubVars(focus = "hub" /\ hubStopped /\ Hub!abandon(c))
       /\ WF_hubVars(focus = "hub" /\ Hub!runMessageLoop(c))
       /\ WF_hubVars(focus = "hub" /\ Hub!channelClosed(c))
       /\ WF_hubVars(focus = "hub" /\ Hub!leaveStopped(c))

MCSpec == MCInit /\ [][MCNext]_allVars /\ MCFairness

(* The properties of the services, as their modules state them. *)

(* The daemon's capture is the newest session and shows no older error; the  *)
(* ring exports the longest run of newest frames its limits allow; the       *)
(* analysis cache's memory count is the sum of what it holds; browsers on    *)
(* one subscription agree on the order of its events; and a served request   *)
(* was allowed by one token set of its lifetime.                             *)
ServicesSafe ==
  /\ Hub!EventsFanOut
  /\ Capture!CaptureIsNewest
  /\ Ring!RingIsLongestSuffix
  /\ Cache!CacheWithinLimits
  /\ Gate!GrantWasCurrent

(* Every event stream ends once the hub is stopped.                          *)
StreamsEnd == Hub!StreamsEnd
=============================================================================
