--------------------------- MODULE ServiceStreams ---------------------------
(***************************************************************************)
(* The TCP services of a simulated device other than SSH and iperf3:       *)
(* internal/protocols tcp.go (the port table), tcp_stream.go and           *)
(* tcp_stateless.go (byte streams without connection state of their own),  *)
(* and the services' answers.                                              *)
(*                                                                         *)
(* A request is two units long and a client sends it whole or in halves.   *)
(* It waits for the answer to a request before it sends the next; the      *)
(* network loses, repeats and reorders what it sends and loses answers.  A *)
(* request is abstracted to its kind, an answer to the code it carries.    *)
(***************************************************************************)
EXTENDS Naturals, Sequences, FiniteSets, SequencesExt

CONSTANTS
  Ports,             \* the services under study
  Enabled,           \* the ones a device at the address is configured to serve
  Length,            \* requests in a conversation
  MaxConnections,    \* streamMaxConnections
  Rivals,            \* other connections to the same service
  MaxDeliveries      \* bound: segments that arrive

-----------------------------------------------------------------------------
(* What each kind of request is answered with, "" for nothing, and whether   *)
(* it ends the conversation.                                                 *)

Says(code) == [reply |-> code, ends |-> FALSE]
Quiet == [reply |-> "", ends |-> FALSE]
Ends(code) == [reply |-> code, ends |-> TRUE]

ftpAnswer ==
  [command |-> Says("2xx"), unknown |-> Says("502"), blank |-> Quiet,
   QUIT |-> Ends("221"), overlong |-> Ends("500")]

(* A block without a header or a control ID is rejected; bytes outside a     *)
(* block and a block past hl7MaxMessage are skipped.                         *)
hl7Answer ==
  [message |-> Says("AA"), headless |-> Says("AR"), outside |-> Quiet, oversize |-> Quiet]

(* Quantity is checked before address; an ID that is not Modbus is skipped,  *)
(* a length no request can have ends the stream.                             *)
modbusAnswer ==
  [read |-> Says("registers"), function |-> Says("illegal function"),
   quantity |-> Says("illegal value"), address |-> Says("illegal address"),
   foreign |-> Quiet, badLength |-> Ends("")]

enipAnswer ==
  [listIdentity |-> Says("identity"), nop |-> Quiet, other |-> Says("unsupported"),
   badLength |-> Ends("")]

dicomAnswer ==
  [associate |-> Says("accept"), echo |-> Says("success"), data |-> Quiet,
   release |-> Says("release"), abort |-> Ends(""), otherCommand |-> Ends("abort"),
   unexpected |-> Ends("abort"), notDICOM |-> Ends("abort"), oversize |-> Ends("abort")]

(* These answer each segment by itself.                                      *)
pjlAnswer == [infoID |-> Says("id"), infoStatus |-> Says("ready"), printData |-> Says("ack")]

generateResponse ==
  [page |-> Says("200"), endpoint |-> Says("authored"), portal |-> Says("302"),
   missing |-> Says("404"), unparsable |-> Quiet]

generateLDAPResponse == [bind |-> Says("success"), short |-> Quiet]
generateRTSPResponse == [options |-> Says("200")]
generateMySQLGreeting == [anything |-> Says("greeting")]
generatePostgresResponse == [ssl |-> Says("N"), startup |-> Says("ready"), short |-> Quiet]
generateMSSQLResponse == [login |-> Says("loginack"), short |-> Quiet]
generateOPCUAResponse == [hello |-> Says("ack"), other |-> Quiet]
generateSMBResponse == [smb1 |-> Says("negotiate"), smb2 |-> Says("negotiate2"), other |-> Quiet]

(* The services whose requests are read off a stream.                        *)
StreamPorts == {"ftp", "hl7", "modbus", "enip", "dicom"}

(* Ports a device opens only by configuration; the others accept whatever    *)
(* the address's first device is.                                            *)
Configured == StreamPorts \cup {"jetdirect"}

(* The port table.                                                           *)
Answers(p) ==
  CASE p = "ftp" -> ftpAnswer
    [] p = "hl7" -> hl7Answer
    [] p = "modbus" -> modbusAnswer
    [] p = "enip" -> enipAnswer
    [] p = "dicom" -> dicomAnswer
    [] p = "jetdirect" -> pjlAnswer
    [] p = "http" -> generateResponse
    [] p = "ldap" -> generateLDAPResponse
    [] p = "rtsp" -> generateRTSPResponse
    [] p = "mysql" -> generateMySQLGreeting
    [] p = "postgres" -> generatePostgresResponse
    [] p = "mssql" -> generateMSSQLResponse
    [] p = "opcua" -> generateOPCUAResponse
    [] p = "smb" -> generateSMBResponse
    [] p = "https" -> [hello |-> Quiet]

VARIABLES
  port,        \* the service the conversation is with
  script,      \* the kinds of its requests
  streams,     \* serviceStreams.streams, by connection
  order,       \* the connections in streams, least recently seen first
  client,      \* what the client has acknowledged to it and which request it is at
  answered,    \* requests answered, in order, with what was said
  progress,    \* position up to which the conversation was taken in order
  forgotten,   \* the stream was lost on the way: evicted, restarted, reopened
  deliveries

vars == <<port, script, streams, order, client, answered, progress, forgotten, deliveries>>

Mine == "mine"
Connections == {Mine} \cup Rivals
NoStream == [next |-> 0, start |-> 0, greeted |-> FALSE]

Init ==
  /\ port \in Ports
  /\ script \in [1..Length -> DOMAIN Answers(port)]
  /\ streams = [c \in Connections |-> NoStream]
  /\ order = <<>>
  /\ client = [state |-> "closed", request |-> 1, unacked |-> 1]
  /\ answered = <<>>
  /\ progress = 1
  /\ forgotten = FALSE
  /\ deliveries = 0

Known(c) == streams[c] # NoStream
Arrives == deliveries < MaxDeliveries /\ deliveries' = deliveries + 1
Streams == port \in StreamPorts

-----------------------------------------------------------------------------
(* tcp_stream.go.  Unit 2m - 1 and 2m are request m.                         *)

evictOldestLocked(c) ==
  IF ~Known(c) /\ Len(order) >= MaxConnections
  THEN [streams |-> [streams EXCEPT ![Head(order)] = NoStream], order |-> Tail(order)]
  ELSE [streams |-> streams, order |-> order]

Seen(o, c) == Append(SelectSeq(o, LAMBDA d : d # c), c)

open(c) ==
  LET kept == evictOldestLocked(c) IN
  /\ streams' = [kept.streams EXCEPT ![c] = [next |-> 1, start |-> 1, greeted |-> FALSE]]
  /\ order' = Seen(kept.order, c)
  /\ forgotten' = (forgotten \/ (progress > 1 /\ (c = Mine \/ streams'[Mine] = NoStream)))

close(c) ==
  /\ streams' = [streams EXCEPT ![c] = NoStream]
  /\ order' = SelectSeq(order, LAMBDA d : d # c)

(* The requests complete in [start, next), up to the one that ends the       *)
(* conversation.                                                             *)
Complete(start, next) == {m \in 1..Length : start <= 2 * m - 1 /\ 2 * m < next}

Taken(start, next) ==
  LET all == Complete(start, next) IN
  {m \in all : \A e \in all : Answers(port)[script[e]].ends => m <= e}

Replies(ms) ==
  LET replied == SelectSeq([m \in 1..Length |-> m],
                           LAMBDA m : m \in ms /\ Answers(port)[script[m]].reply # "")
  IN [i \in DOMAIN replied |->
        [request |-> replied[i], reply |-> Answers(port)[script[replied[i]]].reply]]

AnswersRepeats(stream, from, to, garbled) ==
  LET taken == Taken(from, to) IN
  [inOrder |-> TRUE, taken |-> taken, ended |-> FALSE,
   stream |-> [next |-> to, greeted |-> stream.greeted,
               start |-> IF taken = {} THEN stream.start ELSE to]]

(* serviceStream.receive: the outcome of a segment [from, to).  A stream     *)
(* that starts inside a request reads the rest of it as something else: it   *)
(* may end there (garbled) or skip it.                                       *)
Outcome(stream, from, to, garbled) ==
  LET taken == Taken(stream.start, to) IN
  IF from = stream.next
  THEN [inOrder |-> TRUE, taken |-> IF garbled THEN {} ELSE taken,
        ended |-> garbled \/ \E m \in taken : Answers(port)[script[m]].ends,
        stream |-> [next |-> to, greeted |-> stream.greeted,
                    start |-> IF taken = {} THEN stream.start ELSE 2 * Max(taken) + 1]]
  ELSE [inOrder |-> to = stream.next, taken |-> {}, ended |-> FALSE, stream |-> stream]

receive(from, to, garbled) ==
  LET kept == evictOldestLocked(Mine)
      stream == IF Known(Mine) THEN streams[Mine] ELSE [next |-> from, start |-> from, greeted |-> TRUE]
      r == Outcome(stream, from, to, garbled)
  IN /\ garbled => stream.start % 2 = 0 /\ r.inOrder
     /\ answered' = answered \o Replies(r.taken)
     /\ forgotten' = (forgotten \/ ~Known(Mine))
     /\ progress' = IF from = stream.next THEN to ELSE progress
     /\ streams' = [kept.streams EXCEPT ![Mine] = IF r.ended THEN NoStream ELSE r.stream]
     /\ order' = IF r.ended THEN SelectSeq(kept.order, LAMBDA d : d # Mine)
                 ELSE IF from = stream.next THEN Seen(kept.order, Mine) ELSE kept.order

-----------------------------------------------------------------------------
(* The handlers.                                                             *)

(* serveStream and HandleTCPConnect: a configured port is open on a device   *)
(* that serves it; the health-check ports are open everywhere.               *)
accepts == port \in Configured => port \in Enabled

handleSYN ==
  /\ Arrives
  /\ client.state \in {"closed", "open"}
  /\ IF ~accepts
     THEN client' = [client EXCEPT !.state = "reset"] /\ UNCHANGED <<streams, order, forgotten>>
     ELSE /\ client' \in {client, [client EXCEPT !.state = "open"]}
          /\ IF Streams THEN open(Mine) ELSE UNCHANGED <<streams, order, forgotten>>
  /\ UNCHANGED <<port, script, answered, progress>>

(* FTP speaks first, once, on the acknowledgment that opens the connection.  *)
greet ==
  /\ Arrives
  /\ port = "ftp" /\ client.state = "open"
  /\ Known(Mine) /\ ~streams[Mine].greeted
  /\ streams' = [streams EXCEPT ![Mine].greeted = TRUE]
  /\ UNCHANGED <<port, script, order, client, answered, progress, forgotten>>

(* The client is at the next request once this one is acknowledged and       *)
(* answered, if it is one that is answered.                                  *)
Advance(to, replied) ==
  LET m == client.request
      quiet == Answers(port)[script[m]].reply = ""
  IN IF to > client.unacked
     THEN [client EXCEPT !.unacked = to,
             !.request = IF to > 2 * m /\ (replied \/ quiet) THEN m + 1 ELSE m]
     ELSE client

Sent == {s \in (1..(2 * client.request)) \X (2..(2 * client.request + 1)) :
           /\ s[1] < s[2] /\ (s[1] - 1) \div 2 = (s[2] - 2) \div 2
           /\ ~Streams => s[2] - s[1] = 2}

serveStream(from, to) ==
  /\ Streams
  /\ \E garbled \in BOOLEAN :
       /\ receive(from, to, garbled)
       /\ client' \in {client, IF progress' = to \/ progress = to
                              THEN Advance(to, answered' # answered) ELSE client}

serveSegment(from, to) ==
  /\ ~Streams
  /\ answered' = answered \o Replies({to \div 2})
  /\ client' \in {client, Advance(to, TRUE)}
  /\ UNCHANGED <<streams, order, progress, forgotten>>

handleSegment ==
  /\ client.state = "open" /\ client.request <= Length
  /\ Arrives
  /\ \E s \in Sent : serveStream(s[1], s[2]) \/ serveSegment(s[1], s[2])
  /\ UNCHANGED <<port, script>>

(* A FIN in order closes the stream, a RST always does.                      *)
handleClose ==
  /\ client.state = "open" /\ Streams
  /\ Arrives
  /\ client.request > Length \/ ~Known(Mine) \/ streams[Mine].next = client.unacked
  /\ close(Mine)
  /\ client' = [client EXCEPT !.state = "gone"]
  /\ UNCHANGED <<port, script, answered, progress, forgotten>>

rivalOpens(c) ==
  /\ Streams /\ accepts /\ c \in Rivals /\ ~Known(c)
  /\ Arrives
  /\ open(c)
  /\ UNCHANGED <<port, script, client, answered, progress>>

(* The simulation restarts with no streams.                                  *)
restart ==
  /\ order # <<>>
  /\ streams' = [c \in Connections |-> NoStream]
  /\ order' = <<>>
  /\ forgotten' = (forgotten \/ progress > 1)
  /\ UNCHANGED <<port, script, client, answered, progress, deliveries>>

Next ==
  \/ handleSYN \/ greet \/ handleSegment \/ handleClose \/ restart
  \/ \E c \in Rivals : rivalOpens(c)

Spec == Init /\ [][Next]_vars

-----------------------------------------------------------------------------
(* However a conversation is cut into segments, lost, repeated or reordered, *)
(* its requests are answered in order and once each, up to the one that ends *)
(* it, for as long as the service remembers the connection; and it remembers *)
(* no more connections than its limit.                                       *)
AnsweredInOrder ==
  /\ Streams /\ ~forgotten => answered = Replies(Taken(1, progress))
  /\ Len(order) <= MaxConnections
  /\ {c \in Connections : Known(c)} = ToSet(order)
=============================================================================
