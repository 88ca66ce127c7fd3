----------------------------- MODULE DnsResolver -----------------------------
(***************************************************************************)
(* The DNS servers of a stack (src/internal/protocols/dns*.go): the record *)
(* set of each device, the resolution of a query from it, through the      *)
(* forwarders that are simulated themselves, and at last from forwarders   *)
(* outside the simulation; and the two faults that disturb it.             *)
(*                                                                         *)
(* The decoder answers one query at a time.  Faults are armed and cleared  *)
(* under another lock, so answerQuery sees them change between its two     *)
(* reads.  A question to an outside forwarder is a goroutine of its own.   *)
(* The tables that are not of a device are filled by nothing in the        *)
(* program and are left out.                                               *)
(***************************************************************************)
EXTENDS Integers, Sequences, FiniteSets, SequencesExt

CONSTANTS
  Servers,     \* the devices
  Address,     \* the address of each
  Configs,     \* the configurations: [server -> [forward, reverse, forwarders]]
  Bare,        \* host names without a dot, and for each the name in the default domain
  Queries,     \* the question lists a client may send
  Clients,     \* the queries of a behaviour
  MaxInFlight, \* dnsUpstreamMaxInFlight
  MaxEdits     \* bound: faults armed or cleared, and reloads

VARIABLES
  deviceRecords, \* the record set of each device
  faults,        \* the device faults that are armed
  query,         \* per client: its place in the handler and what it is to be told
  slots,         \* upstream slots taken
  edits

vars == <<deviceRecords, faults, query, slots, edits>>

NoError == "NoError"
NXDomain == "NXDomain"
ServFail == "ServFail"

-----------------------------------------------------------------------------
(* Resolution from one record set. *)

dnsWildcardName == "*"

Get(map, key) == IF key \in DOMAIN map THEN map[key] ELSE <<>>

wildcardRecords(forward) == Get(forward, dnsWildcardName)

(* The name, then its name in the default domain, then the wildcard.         *)
lookupHost(name, set) ==
  CASE name \in DOMAIN set.forward -> set.forward[name]
    [] name \notin DOMAIN set.forward /\ name \in DOMAIN Bare /\ Bare[name] \in DOMAIN set.forward -> set.forward[Bare[name]]
    [] OTHER -> wildcardRecords(set.forward)

Unresolved == [answers |-> <<>>, rcode |-> NoError]

Answer(ctx, q, rec) ==
  [answers |-> Append(ctx.answers, [name |-> q.name, type |-> q.type, data |-> rec.data]),
   rcode |-> IF rec.rcode # NoError THEN rec.rcode ELSE ctx.rcode]

resolveARecord(ctx, q, set) ==
  FoldLeft(LAMBDA c, rec : IF rec.v4 THEN Answer(c, q, rec) ELSE c, ctx, lookupHost(q.name, set))

resolveAAAARecord(ctx, q, set) ==
  FoldLeft(LAMBDA c, rec : IF rec.v4 THEN c ELSE Answer(c, q, rec), ctx, lookupHost(q.name, set))

(* A name that is no address is skipped; an IPv6 address that is not held    *)
(* turns the response code, an IPv4 address does not.                        *)
parsePTRName(name) == [ip |-> name, ok |-> name \in {"ip4", "ip6"}, isV6 |-> name = "ip6"]

lookupPTR(ip, set) == Get(set.reverse, ip)

resolvePTRRecord(ctx, q, set) ==
  LET parsed == parsePTRName(q.name)
      host == lookupPTR(parsed.ip, set)
  IN CASE ~parsed.ok -> ctx
       [] parsed.ok /\ host = <<>> -> IF parsed.isV6 THEN [ctx EXCEPT !.rcode = NXDomain] ELSE ctx
       [] OTHER -> Answer(ctx, q, host[1])

isValidDNSName(name) == name # "toolong"

resolveByType(ctx, q, set) ==
  CASE q.type = "A" -> resolveARecord(ctx, q, set)
    [] q.type = "AAAA" -> resolveAAAARecord(ctx, q, set)
    [] q.type = "PTR" -> resolvePTRRecord(ctx, q, set)
    [] OTHER -> ctx

validateAndResolveQuestion(ctx, q, set) ==
  IF isValidDNSName(q.name) THEN resolveByType(ctx, q, set) ELSE ctx

resolveQuestions(questions, set) ==
  LET ctx == FoldLeft(LAMBDA c, q : validateAndResolveQuestion(c, q, set), Unresolved, questions)
  IN IF ctx.answers = <<>> /\ ctx.rcode = NoError THEN [ctx EXCEPT !.rcode = NXDomain] ELSE ctx

dnsUnanswered(r) == r.answers = <<>> /\ r.rcode = NXDomain

-----------------------------------------------------------------------------
(* Forwarding. *)

(* The device of the simulation at an address, as a sequence of none or one. *)
simulatedResolver(a) == SetToSeq({d \in DOMAIN deviceRecords : Address[d] = a})

(* One turn of the loop of resolveForwarded over its state: what is pending, *)
(* the resolvers visited, the forwarders outside, and the answer once found. *)
forwardTurn(questions, st) ==
  LET next == simulatedResolver(Head(st.pending))
      rest == [st EXCEPT !.pending = Tail(@)]
      found == resolveQuestions(questions, deviceRecords[next[1]])
  IN CASE next = <<>> -> [rest EXCEPT !.upstreams = Append(@, Head(st.pending))]
       [] next # <<>> /\ next[1] \in st.visited -> rest
       [] next # <<>> /\ next[1] \notin st.visited /\ ~dnsUnanswered(found) ->
            [rest EXCEPT !.pending = <<>>, !.upstreams = <<>>, !.found = found]
       [] OTHER -> [rest EXCEPT !.visited = @ \cup {next[1]}, !.pending = @ \o deviceRecords[next[1]].forwarders]

(* The loop ends: a resolver adds its forwarders once. Turns is a bound on   *)
(* its length.                                                               *)
Turns == [i \in 1..(1 + FoldSet(LAMBDA d, n : n + Len(deviceRecords[d].forwarders), 0, DOMAIN deviceRecords)) |-> i]

resolveForwarded(questions, d) ==
  FoldLeft(LAMBDA st, i : IF st.pending = <<>> THEN st ELSE forwardTurn(questions, st),
           [visited |-> {d}, pending |-> deviceRecords[d].forwarders, upstreams |-> <<>>,
            found |-> [answers |-> <<>>, rcode |-> NXDomain]],
           Turns)

-----------------------------------------------------------------------------
(* Queries. *)

Idle == [pc |-> "idle"]

Init ==
  /\ deviceRecords \in Configs
  /\ faults = [d \in Servers |-> {}]
  /\ query = [c \in Clients |-> Idle]
  /\ slots = 0
  /\ edits = 0

Decoding == \E c \in Clients : query[c].pc = "resolved"

Say(c, aa, r, by) ==
  query' = [query EXCEPT ![c] = [pc |-> "done", to |-> @.to, questions |-> @.questions, wiped |-> @.wiped, records |-> @.records,
                                 aa |-> aa, answers |-> r.answers, rcode |-> r.rcode, by |-> by]]

(* Mutant: the fault is not looked at. *)
NoFault(r, d) == r

applyNXDomainFault(r, d) == IF "nxdomain" \in faults[d] THEN [answers |-> <<>>, rcode |-> NXDomain] ELSE r

dnsQuerySilenced(d) == "timeout" \in faults[d]

(* A query arrives at the address of d. Silence is an answer too: the query  *)
(* is over.                                                                  *)
HandleQuery(c, d, questions) ==
  /\ ~Decoding /\ query[c] = Idle
  /\ d \in DOMAIN deviceRecords
  /\ query' = [query EXCEPT ![c] =
       IF dnsQuerySilenced(d) THEN [pc |-> "silenced"]
       ELSE [pc |-> "resolved", to |-> d, questions |-> questions, records |-> deviceRecords,
             wiped |-> "nxdomain" \in faults[d],
             response |-> applyNXDomainFault(resolveQuestions(questions, deviceRecords[d]), d)]]
  /\ UNCHANGED <<deviceRecords, faults, slots, edits>>

(* The rest of answerQuery, after the fault was looked at once.              *)
answerQuery(c) ==
  /\ query[c].pc = "resolved"
  /\ LET d == query[c].to
         r == query[c].response
         f == resolveForwarded(query[c].questions, d)
     IN IF ~dnsUnanswered(r) \/ deviceRecords[d].forwarders = <<>> \/ "nxdomain" \in faults[d]
          THEN Say(c, TRUE, r, "own") /\ UNCHANGED slots
        ELSE IF f.upstreams = <<>>
          THEN Say(c, f.found.answers = <<>>, f.found, "forwarder") /\ UNCHANGED slots
        ELSE IF slots = MaxInFlight
          THEN Say(c, FALSE, [answers |-> <<>>, rcode |-> ServFail], "full") /\ UNCHANGED slots
        ELSE /\ query' = [query EXCEPT ![c].pc = "upstream"]
             /\ slots' = slots + 1
  /\ UNCHANGED <<deviceRecords, faults, edits>>

(* An outside forwarder answers, or all of them fail within the time.        *)
askUpstream(c) ==
  /\ query[c].pc = "upstream"
  /\ slots' = slots - 1
  /\ \E r \in {[answers |-> <<[name |-> "x", type |-> "A", data |-> "outside"]>>, rcode |-> NoError],
               [answers |-> <<>>, rcode |-> NXDomain], [answers |-> <<>>, rcode |-> ServFail]} :
       Say(c, FALSE, r, "upstream")
  /\ UNCHANGED <<deviceRecords, faults, edits>>

ArmFault(d, f) ==
  /\ edits < MaxEdits
  /\ faults' = [faults EXCEPT ![d] = IF f \in @ THEN @ \ {f} ELSE @ \cup {f}]
  /\ edits' = edits + 1
  /\ UNCHANGED <<deviceRecords, query, slots>>

(* A reload resets the tables and loads each device again, with the decoder  *)
(* shut out.                                                                 *)
LoadDeviceDNSConfig(config) ==
  /\ ~Decoding /\ edits < MaxEdits
  /\ deviceRecords' = config /\ config # deviceRecords
  /\ faults' = [d \in Servers |-> {}]
  /\ edits' = edits + 1
  /\ UNCHANGED <<query, slots>>

Next ==
  \/ \E c \in Clients, d \in Servers, q \in Queries : HandleQuery(c, d, q)
  \/ \E c \in Clients : answerQuery(c) \/ askUpstream(c)
  \/ \E d \in Servers, f \in {"timeout", "nxdomain"} : ArmFault(d, f)
  \/ \E config \in Configs : LoadDeviceDNSConfig(config)

Spec == Init /\ [][Next]_vars

-----------------------------------------------------------------------------
(* What forwarding is to find, without a queue: the resolvers by how many    *)
(* hops they are from d.                                                     *)

Linked(records, d) == {e \in DOMAIN records : Address[e] \in Range(records[d].forwarders)}

Within[n \in Nat, records \in Configs, d \in Servers] ==
  IF n = 0 THEN {d} ELSE LET w == Within[n - 1, records, d] IN w \cup UNION {Linked(records, e) : e \in w}

Reach(records, d) == Within[Cardinality(Servers), records, d]

Distance(records, d, e) == CHOOSE n \in 0..Cardinality(Servers) : e \in Within[n, records, d] /\ (n > 0 => e \notin Within[n - 1, records, d])

Knows(records, e, questions) == ~dnsUnanswered(resolveQuestions(questions, records[e]))

Outside(records, d) ==
  {a \in UNION {Range(records[e].forwarders) : e \in Reach(records, d)} : \A e \in DOMAIN records : Address[e] # a}

(* Every answer is the right one for the records the query met. A server     *)
(* that knows speaks for itself and with authority, unless the fault wiped   *)
(* its answer. What it does not know comes from the nearest simulated        *)
(* resolver that knows, without authority; an outside forwarder is asked     *)
(* only when none does, and a name is denied with authority only when there  *)
(* is nobody left to ask.                                                    *)
AnswersRight ==
  \A c \in Clients : query[c].pc = "done" =>
    LET a == query[c]
        d == a.to
        knowing == {e \in Reach(a.records, d) : Knows(a.records, e, a.questions)}
    IN /\ d \in knowing /\ ~a.wiped => a.by = "own" /\ a.aa /\ a.answers = resolveQuestions(a.questions, a.records[d]).answers
       /\ a.by = "forwarder" /\ a.answers # <<>> =>
            /\ ~a.aa
            /\ \E e \in knowing \ {d} :
                 /\ a.answers = resolveQuestions(a.questions, a.records[e]).answers
                 /\ \A f \in knowing \ {d} : Distance(a.records, d, e) <= Distance(a.records, d, f)
       /\ a.by \in {"upstream", "full"} => knowing \ {d} = {} /\ Outside(a.records, d) # {} /\ ~a.aa
       /\ a.by = "forwarder" /\ a.answers = <<>> => knowing \ {d} = {} /\ Outside(a.records, d) = {}
       /\ a.aa /\ a.answers = <<>> /\ ~a.wiped => d \notin knowing
       /\ a.wiped /\ a.by = "own" => a.answers = <<>>

(* A slot is held by exactly the queries that are outside.                   *)
SlotsHeld == slots = Cardinality({c \in Clients : query[c].pc = "upstream"}) /\ slots <= MaxInFlight
=============================================================================
