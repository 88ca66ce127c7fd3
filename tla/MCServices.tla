------------------------------ MODULE MCServices ------------------------------
(***************************************************************************)
(* The services of simulated devices for TLC, with the capture their       *)
(* frames come from: the command line, SSH over the virtual TCP and its    *)
(* host key, the services answered on streams, iperf3, and the trunk       *)
(* capture.  They share no state beyond the stack that hands them          *)
(* segments.                                                               *)
(***************************************************************************)
EXTENDS DeviceCli, SharedSlots

(* A connection that is closed and opened again while the first is still     *)
(* closing.                                                                  *)
Ssh == INSTANCE SshTcp WITH
  Sessions <- {"x1", "x2"}, Keys <- {"k1"}, Capacity <- 1, MaxRetries <- 1, Buffer <- 1, Requests <- 1, Answers <- 1,
  MaxSegments <- 3, NoSession <- "none", Reserved <- "reserved",
  table <- s1, session <- s2, conn <- s3, serving <- s4, emitting <- s5, closing <- s6, decoder <- s7, wire <- s8,
  received <- s9

(* Conversations of two requests with every service, and a rival for the     *)
(* only stream.                                                              *)
Streams == INSTANCE ServiceStreams WITH
  Ports <- {"ftp", "hl7", "modbus", "enip", "dicom", "jetdirect", "http", "ldap", "rtsp", "mysql", "postgres", "mssql",
            "opcua", "smb", "https"},
  Enabled <- {"ftp", "hl7", "modbus", "enip", "dicom"}, Length <- 2, MaxConnections <- 1, Rivals <- {"rival"},
  MaxDeliveries <- 6,
  port <- s1, script <- s2, streams <- s3, order <- s4, client <- s5, answered <- s6, progress <- s7, forgotten <- s8,
  deliveries <- s9

(* A test of two streams and one that follows it on the same ports. *)
Iperf == INSTANCE Iperf3 WITH
  Ports <- {"p1", "p2", "p3"}, Cookies <- {"c1"}, MaxConnections <- 2, MaxStreams <- 2, MaxGeneration <- 2,
  Senders <- {"g1", "g2"}, None <- None,
  conns <- s1, generation <- s2, tests <- s3, starting <- s4, sending <- s5, sender <- s6, stopped <- s7

Key == INSTANCE SshHostKey WITH
  Processes <- {"p1", "p2", "p3"}, None <- None, file <- s1, pc <- s2, signer <- s3, failed <- s4

(* Two transports, one of which may take the other's place. *)
Trunk == INSTANCE TrunkCapture WITH
  Keys <- {"untagged", "v1"}, Native <- "untagged", Strays <- {"x1"}, Transports <- {"t1", "t2"}, Nil <- None,
  Capacity <- 1, MaxTracked <- 1, MaxFrames <- 3,
  slots <- s1, vlan <- s2, rx <- s3, closed <- s4, reading <- s5, failed <- s6, failPc <- s7, woken <- s8, late <- s9,
  pc <- s10, key <- s11, transport <- s12, previous <- s13, frames <- s14, drops <- s15, byTag <- s16

ASSUME CliConstants == Constants
ASSUME TrunkConstants == Trunk!Constants

(* The command line keeps its own variables; the other parts take turns in   *)
(* the slots while it rests in one of its initial states.                    *)
OtherInit ==
  \/ focus = "ssh" /\ Ssh!Init /\ Free(9)
  \/ focus = "streams" /\ Streams!Init /\ Free(9)
  \/ focus = "iperf3" /\ Iperf!Init /\ Free(7)
  \/ focus = "key" /\ Key!Init /\ Free(4)
  \/ focus = "trunk" /\ Trunk!Init /\ Free(16)

OtherNext ==
  \/ focus = "ssh" /\ Ssh!Next /\ Keep(9)
  \/ focus = "streams" /\ Streams!Next /\ Keep(9)
  \/ focus = "iperf3" /\ Iperf!Next /\ Keep(7)
  \/ focus = "key" /\ Key!Next /\ Keep(4)
  \/ focus = "trunk" /\ Trunk!Next /\ Keep(16)

MCInit ==
  \/ Init /\ focus = "cli" /\ s1 = 0 /\ Free(1)
  \/ Init /\ running.carrier /\ OtherInit

MCNext ==
  \/ focus = "cli" /\ Next /\ UNCHANGED slotVars
  \/ OtherNext /\ UNCHANGED vars

MCSpec == MCInit /\ [][MCNext]_<<vars, slotVars>>

(* The bytes a session accepts are the client's in order, however they       *)
(* arrive, and every session has someone who will end it: the server, a      *)
(* timer or a close under way (tcp_ssh.go); processes that serve a device    *)
(* serve one key (ssh_host_key.go).                                          *)
SshSound ==
  /\ focus = "ssh" => Ssh!StreamInOrder /\ Ssh!SessionsAttended
  /\ focus = "key" => Key!OneHostKey

(* Each request of a conversation is answered once and in order (tcp_stream, *)
(* tcp_stateless).                                                           *)
AnsweredInOrder == focus = "streams" => Streams!AnsweredInOrder

(* Tests and connections belong to one another, and a running reverse test   *)
(* has exactly one sender or one that will look again (iperf3).              *)
TestsAttended == focus = "iperf3" => Iperf!TestsOwned /\ Iperf!SenderAttends

(* The capture loses no frame from its counters, keeps a transport open      *)
(* exactly while a session holds it, and its failure wakes the readers       *)
(* (trunk_capture).                                                          *)
TrunkSound == focus = "trunk" => Trunk!TrunkSound
=============================================================================
