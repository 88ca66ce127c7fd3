------------------------------- MODULE Iperf3 -------------------------------
(***************************************************************************)
(* The iperf3 server of a simulated device (internal/protocols/iperf3.go)  *)
(* and the life of its reverse sender (iperf3_sender.go).                  *)
(*                                                                         *)
(* Clients open connections, send a cookie and then the test's control     *)
(* messages or data in any order, disappear, and come back on the same     *)
(* ports.  A message is one step (iperf3Server.mu is held throughout); a   *)
(* connection object is its ports and a generation.  The sender goroutines *)
(* are a compare-and-swap apart.  How a stream is sent is Iperf3Sender.    *)
(***************************************************************************)
EXTENDS Naturals, Sequences, FiniteSets, SequencesExt

CONSTANTS
  Ports,            \* clients' ports
  Cookies,
  MaxConnections,   \* iperf3MaxConnections
  MaxStreams,       \* iperf3MaxStreams
  MaxGeneration,    \* bound: connections on the same ports
  Senders,          \* goroutines
  None

VARIABLES
  conns,        \* by ports: generation, test, whether it is a data stream, established
  generation,   \* how many connections the ports have had
  tests,        \* by cookie
  starting,     \* the decoder has a reverse test to start the sender for
  sending,      \* h.iperf3Sending
  sender,       \* where each goroutine is
  stopped       \* stopChan is closed

vars == <<conns, generation, tests, starting, sending, sender, stopped>>

Init ==
  /\ conns = [p \in Ports |-> None]
  /\ generation = [p \in Ports |-> 0]
  /\ tests = [c \in Cookies |-> None]
  /\ starting = FALSE
  /\ sending = FALSE
  /\ sender = [g \in Senders |-> "none"]
  /\ stopped = FALSE

Running(c) == tests[c] # None /\ tests[c].reverse /\ tests[c].state = "TestRunning"
running == {c \in Cookies : Running(c)}

Object(p) == <<p, conns[p].generation>>

-----------------------------------------------------------------------------
(* finish, drop, close and expire on a pair of tables.                       *)

KeepsDataStreams(t, c) ==
  LET test == t.tests[c] IN
  [tests |-> [t.tests EXCEPT ![c] = None],
   conns |-> [p \in Ports |->
     IF t.conns[p] # None /\ p = test.control /\ t.conns[p].test = c
     THEN [t.conns[p] EXCEPT !.test = None] ELSE t.conns[p]]]

finish(t, c) ==
  LET test == t.tests[c] IN
  [tests |-> [t.tests EXCEPT ![c] = None],
   conns |-> [p \in Ports |->
     IF t.conns[p] = None THEN None
     ELSE IF <<p, t.conns[p].generation>> \in ToSet(test.data) THEN None
     ELSE IF p = test.control /\ t.conns[p].test = c THEN [t.conns[p] EXCEPT !.test = None]
     ELSE t.conns[p]]]

close(t, p) == [t EXCEPT !.conns[p] = None]

Tables == [tests |-> tests, conns |-> conns]

(* A test is over with its control connection and, when the server is        *)
(* sending, with any of its streams.                                         *)
drop(t, p) ==
  LET c == t.conns[p].test
      over == c # None /\ (t.tests[c].control = p
                \/ (t.tests[c].reverse /\ t.conns[p].data /\ t.tests[c].state = "TestRunning"))
  IN close(IF over THEN finish(t, c) ELSE t, p)

(* refuse: the test, if there is one, and the connection.                    *)
refuse(p) ==
  close(IF conns[p].test = None THEN Tables ELSE finish(Tables, conns[p].test), p)

Becomes(t) == tests' = t.tests /\ conns' = t.conns

(* What has been silent too long: any set of tests, and of connections       *)
(* outside a test.                                                           *)
Expired(t, silent, idle) ==
  LET over == [tests |-> [c \in Cookies |-> IF c \in silent THEN None ELSE t.tests[c]],
               conns |-> [p \in Ports |->
                 IF t.conns[p] # None /\ \E c \in silent :
                      t.tests[c].control = p \/ <<p, t.conns[p].generation>> \in ToSet(t.tests[c].data)
                 THEN None ELSE t.conns[p]]]
  IN [over EXCEPT !.conns = [p \in Ports |->
        IF p \in idle /\ over.conns[p] # None /\ over.conns[p].test = None THEN None ELSE over.conns[p]]]

-----------------------------------------------------------------------------
(* The decoder, which starts the sender before it takes the next segment.    *)

Receives == ~starting /\ UNCHANGED <<starting, sending, sender, stopped>>

open(p) ==
  /\ Receives
  /\ generation[p] < MaxGeneration
  /\ \E silent \in SUBSET {c \in Cookies : tests[c] # None}, 
        idle \in SUBSET {q \in Ports : conns[q] # None /\ conns[q].test = None} :
       LET swept == Expired(Tables, silent, idle)
           kept == IF swept.conns[p] = None THEN swept ELSE drop(swept, p)
       IN IF Cardinality({q \in Ports : kept.conns[q] # None}) >= MaxConnections
          THEN Becomes(kept) /\ UNCHANGED generation
          ELSE /\ Becomes([kept EXCEPT !.conns[p] =
                    [generation |-> generation[p] + 1, test |-> None, data |-> FALSE,
                     established |-> FALSE]])
               /\ generation' = [generation EXCEPT ![p] = @ + 1]

Speaks(p) == conns[p] # None /\ Receives /\ UNCHANGED generation

establish(p) ==
  /\ Speaks(p) /\ ~conns[p].established
  /\ conns' = [conns EXCEPT ![p].established = TRUE]
  /\ UNCHANGED tests

(* A reset or a FIN at the next expected byte.                               *)
receiveClose(p) ==
  /\ Speaks(p) /\ conns[p].established
  /\ Becomes(drop(Tables, p))

Reads(p) == conns[p] # None /\ conns[p].established /\ ~conns[p].data

cookie(p, c) ==
  /\ Reads(p) /\ conns[p].test = None /\ tests[c] = None
  /\ Speaks(p)
  /\ tests' = [tests EXCEPT ![c] = [control |-> p, state |-> "ParamExchange", streams |-> 0,
                                    reverse |-> FALSE, data |-> <<>>]]
  /\ conns' = [conns EXCEPT ![p].test = c]

params(p, reverse, streams, served) ==
  LET c == conns[p].test IN
  /\ Reads(p) /\ c # None /\ tests[c].state = "ParamExchange"
  /\ Speaks(p)
  /\ IF served
     THEN /\ tests' = [tests EXCEPT ![c].reverse = reverse, ![c].streams = streams,
                                    ![c].state = "CreateStreams"]
          /\ UNCHANGED conns
     ELSE Becomes(refuse(p))

(* The last stream starts the test; a reverse one needs the sender.          *)
join(p, c) ==
  LET test == tests[c]
      joined == [conns EXCEPT ![p].test = c, ![p].data = TRUE]
      started == Len(test.data) + 1 >= test.streams
      control == conns[test.control]
  IN /\ Reads(p) /\ conns[p].test = None /\ test # None
     /\ ~starting
     /\ IF test.state # "CreateStreams" \/ p = test.control
        THEN Becomes(close(Tables, p)) /\ UNCHANGED starting
        ELSE IF started /\ (control = None \/ control.test # c)
        THEN Becomes(close(finish(Tables, c), p)) /\ UNCHANGED starting
        ELSE /\ tests' = [tests EXCEPT ![c].data = Append(@, Object(p)),
                            ![c].state = IF started THEN "TestRunning" ELSE @]
             /\ conns' = joined
             /\ starting' = (started /\ test.reverse)
     /\ UNCHANGED <<generation, sending, sender, stopped>>

clientState(p, said) ==
  LET c == conns[p].test IN
  /\ Reads(p) /\ c # None /\ tests[c].state \in {"TestRunning", "DisplayResults"}
  /\ Speaks(p)
  /\ IF said = "TestEnd" /\ tests[c].state = "TestRunning"
     THEN tests' = [tests EXCEPT ![c].state = "ExchangeResults"] /\ UNCHANGED conns
     ELSE IF (said = "Done" /\ tests[c].state = "DisplayResults") \/ said = "ClientTerminate"
     THEN Becomes(finish(Tables, c))
     ELSE Becomes(refuse(p))

exchangeResults(p, readable) ==
  LET c == conns[p].test IN
  /\ Reads(p) /\ c # None /\ tests[c].state = "ExchangeResults"
  /\ Speaks(p)
  /\ IF readable
     THEN tests' = [tests EXCEPT ![c].state = "DisplayResults"] /\ UNCHANGED conns
     ELSE Becomes(refuse(p))

(* Anything on the control connection while the streams are awaited, or a    *)
(* superframe cut short on a connection that is read.                        *)
receiveUnreadable(p) ==
  /\ Reads(p)
  /\ Speaks(p)
  /\ Becomes(refuse(p))

-----------------------------------------------------------------------------
(* The sender.                                                               *)

startSender ==
  /\ starting
  /\ starting' = FALSE
  /\ IF sending THEN UNCHANGED <<sending, sender>>
     ELSE \E g \in Senders :
            /\ sender[g] = "none"
            /\ g = CHOOSE free \in Senders : sender[free] = "none"
            /\ sending' = TRUE
            /\ sender' = [sender EXCEPT ![g] = "ticking"]
  /\ UNCHANGED <<conns, generation, tests, stopped>>

(* One tick: a test whose client has gone silent is finished.                *)
tick(g) ==
  /\ sender[g] = "ticking"
  /\ \/ \E silent \in SUBSET running :
          LET gone == FoldSet(LAMBDA c, t : finish(t, c), Tables, silent) IN
          /\ Becomes(gone)
          /\ sender' = [sender EXCEPT ![g] = IF silent = running THEN "done" ELSE "ticking"]
          /\ UNCHANGED sending
     \/ /\ stopped
        /\ sending' = FALSE
        /\ sender' = [sender EXCEPT ![g] = "none"]
        /\ UNCHANGED <<conns, tests>>
  /\ UNCHANGED <<generation, starting, stopped>>

(* With nothing left to send the flag is given up; a test that started in    *)
(* between found it set and left the work.                                   *)
release(g) ==
  /\ sender[g] = "done"
  /\ sending' = FALSE
  /\ sender' = [sender EXCEPT ![g] = "released"]
  /\ UNCHANGED <<conns, generation, tests, starting, stopped>>

GivesUp(g) ==
  /\ sender[g] = "released"
  /\ sender' = [sender EXCEPT ![g] = "none"]
  /\ UNCHANGED <<conns, generation, tests, starting, sending, stopped>>

recheck(g) ==
  /\ sender[g] = "released"
  /\ sender' = [sender EXCEPT ![g] = IF running = {} THEN "none" ELSE "retaking"]
  /\ UNCHANGED <<conns, generation, tests, starting, sending, stopped>>

retake(g) ==
  /\ sender[g] = "retaking"
  /\ sender' = [sender EXCEPT ![g] = IF sending THEN "none" ELSE "ticking"]
  /\ sending' = TRUE
  /\ UNCHANGED <<conns, generation, tests, starting, stopped>>

Stop ==
  /\ ~stopped
  /\ stopped' = TRUE
  /\ UNCHANGED <<conns, generation, tests, starting, sending, sender>>

(* What a connection that is read may say next.                              *)
advance(p) ==
  /\ Reads(p)
  /\ \/ \E c \in Cookies : cookie(p, c) \/ join(p, c)
     \/ \E reverse, served \in BOOLEAN, n \in 1..MaxStreams : params(p, reverse, n, served)
     \/ \E said \in {"TestEnd", "Done", "ClientTerminate", "other"} : clientState(p, said)
     \/ \E readable \in BOOLEAN : exchangeResults(p, readable)

Next ==
  \/ \E p \in Ports :
       \/ open(p) \/ establish(p) \/ receiveClose(p) \/ receiveUnreadable(p)
       \/ advance(p)
  \/ startSender \/ Stop
  \/ \E g \in Senders : tick(g) \/ release(g) \/ recheck(g) \/ retake(g)

Spec == Init /\ [][Next]_vars

-----------------------------------------------------------------------------
(* A test in the table has its control connection, which belongs to it; a    *)
(* connection that belongs to a test belongs to one in the table, as its     *)
(* control or among its streams.  A client that leaves without a word and    *)
(* returns on the same ports does not reach into its earlier test.           *)
TestsOwned ==
  /\ \A c \in Cookies : tests[c] # None =>
       LET control == conns[tests[c].control] IN
       control # None /\ control.test = c /\ ~control.data
  /\ \A p \in Ports : conns[p] # None /\ conns[p].test # None =>
       LET test == tests[conns[p].test] IN
       test # None /\ (IF conns[p].data THEN Object(p) \in ToSet(test.data) ELSE test.control = p)

(* A reverse test that is running has a sender, or one about to be started,  *)
(* or one that has let go of the flag and will look again; and never two     *)
(* that send.                                                                *)
SenderAttends ==
  /\ running # {} /\ ~stopped =>
       starting \/ \E g \in Senders : sender[g] # "none"
  /\ Cardinality({g \in Senders : sender[g] = "ticking"}) <= 1
=============================================================================
