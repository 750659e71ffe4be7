---------------------------- MODULE DnsEventLoop ----------------------------
(***************************************************************************)
(* The event loop of the VPN worker thread: VpnWorker.doOne and what it    *)
(* calls, that is the queue of DNS queries sent upstream (DnsQueryQueue,   *)
(* DnsQuery), the DNS proxy that answers or forwards the packets read from *)
(* the tunnel (DnsPacketProxy) and the queue of packets to write back      *)
(* (deviceWrites).  One worker thread runs the loop; applications, the     *)
(* upstream servers and the clock are its environment.                     *)
(*                                                                         *)
(* A request stands for one DNS packet an application sends: it names the  *)
(* packet, the socket its query is forwarded with and the reply to it.     *)
(***************************************************************************)
EXTENDS Integers, Sequences, SequencesExt

CONSTANTS
    Request,          \* the DNS packets the applications send
    MAXIMUM_WAITING,  \* DnsQueryQueue.DNS_MAXIMUM_WAITING
    TIMEOUT_SEC,      \* DnsQueryQueue.DNS_TIMEOUT_SEC
    MaxTime           \* bound of the clock, for model checking only

ASSUME DnsAssumption ==
    /\ MAXIMUM_WAITING \in Nat
    /\ TIMEOUT_SEC \in Nat
    /\ MaxTime \in Nat

VARIABLES
    now,           \* System.currentTimeMillis() / 1000
    unread,        \* packets waiting in the tunnel
    fresh,         \* packets no application has sent yet
    queries,       \* DnsQueryQueue.queries, oldest first
    open,          \* the sockets that are open
    arrived,       \* the open sockets holding an answer of the server
    deviceWrites,  \* replies waiting to be written to the tunnel
    written,       \* replies written to the tunnel, in order
    pc,            \* where the worker is in doOne
    ready          \* what poll said of the tunnel descriptor

env == <<now, unread, fresh>>
vars == <<now, unread, fresh, queries, open, arrived, deviceWrites, written,
          pc, ready>>

Query == [request : Request, time : Nat, answered : BOOLEAN]
Stage == {"poll", "responses", "write", "read", "down"}

TypeOK ==
    /\ now \in Nat
    /\ unread \subseteq Request
    /\ fresh \subseteq Request
    /\ queries \in Seq(Query)
    /\ open \subseteq Request
    /\ arrived \subseteq open
    /\ deviceWrites \in Seq(Request)
    /\ written \in Seq(Request)
    /\ pc \in Stage
    /\ ready \in [read : BOOLEAN, write : BOOLEAN]

Init ==
    /\ now = 0
    /\ unread = {}
    /\ fresh = Request
    /\ queries = <<>>
    /\ open = {}
    /\ arrived = {}
    /\ deviceWrites = <<>>
    /\ written = <<>>
    /\ pc = "poll"
    /\ ready = [read |-> FALSE, write |-> FALSE]

QueriesOf(q) == {q[i].request : i \in DOMAIN q}

-----------------------------------------------------------------------------
(* The environment: applications, upstream servers and the clock.          *)

AppSends(r) ==
    /\ r \in fresh
    /\ fresh' = fresh \ {r}
    /\ unread' = unread \cup {r}
    /\ UNCHANGED <<now, queries, open, arrived, deviceWrites, written, pc, ready>>

ServerAnswers(r) ==
    /\ r \in open \ arrived
    /\ arrived' = arrived \cup {r}
    /\ UNCHANGED <<env, queries, open, deviceWrites, written, pc, ready>>

Tick ==
    /\ now < MaxTime
    /\ now' = now + 1
    /\ UNCHANGED <<unread, fresh, queries, open, arrived, deviceWrites, written,
                   pc, ready>>

-----------------------------------------------------------------------------
(* DnsQueryQueue.                                                          *)

TimedOutEarly(query) == query.time <= now - TIMEOUT_SEC

\* DnsQuery.isOlderThan(now - DNS_TIMEOUT_SEC)
TimedOut(query) == query.time < now - TIMEOUT_SEC

\* clearTimedOutQueries removes the first k queries: it stops at the first
\* one, from the head, that is not older than the limit.
ClearsTimedOut(k) ==
    /\ \A i \in 1 .. k : TimedOut(queries[i])
    /\ k < Len(queries) => ~TimedOut(queries[k + 1])

\* ensureFreeSpace removes this many queries of a queue of the given size.
Overflow(size) == IF size > MAXIMUM_WAITING THEN 1 ELSE 0

CloseForgotten(closed, opened) ==
    /\ open' = open \cup opened
    /\ UNCHANGED arrived

\* The sockets of the queries that leave the queue are closed, with what they
\* hold; the socket of the one that joins it has been opened.
Sockets(closed, opened) ==
    /\ open' = (open \ closed) \cup opened
    /\ arrived' = arrived \ closed

EnqueueFirst(q, query) == <<query>> \o q

Enqueue(q, query) == Append(q, query)

\* addQuery: the time limit, then the space limit, then the insertion.
AddQuery(r) ==
    \E k \in 0 .. Len(queries) :
        LET dropped == k + Overflow(Len(queries) - k)
            kept    == SubSeq(queries, dropped + 1, Len(queries))
        IN  /\ ClearsTimedOut(k)
            /\ queries' = Enqueue(kept, [request |-> r, time |-> now, answered |-> FALSE])
            /\ Sockets(QueriesOf(SubSeq(queries, 1, dropped)), {r})

-----------------------------------------------------------------------------
(* The worker thread.                                                      *)

ReadBeforeResponses ==
    [poll |-> "write", write |-> "read", read |-> "responses", responses |-> "poll"]

\* The order of doOne: what poll said of the sockets is used before the tunnel
\* is read.
After == [poll |-> "responses", responses |-> "write", write |-> "read", read |-> "poll"]

PollsWriteWhenIdle == deviceWrites # <<>> /\ queries = <<>>

\* doOne asks for POLLOUT.
PollsWrite == deviceWrites # <<>>

\* poll reports the descriptors that are ready: the sockets of the queries an
\* answer arrived for, the tunnel when it holds a packet and, if some reply is
\* waiting, when it accepts one.  The pollfd of a query keeps what poll said.
Poll(writable) ==
    /\ pc = "poll"
    /\ writable => PollsWrite
    /\ writable \/ unread # {} \/ arrived # {}
    /\ ready' = [read |-> unread # {}, write |-> writable]
    /\ queries' = [i \in DOMAIN queries |->
                     [queries[i] EXCEPT !.answered = queries[i].request \in arrived]]
    /\ pc' = After[pc]
    /\ UNCHANGED <<env, open, arrived, deviceWrites, written>>

\* poll returns no event: the watchdog sends a packet (the loop goes on) or
\* says the connection is lost (VpnNetworkException).
PollTimesOut ==
    /\ pc = "poll"
    /\ unread = {} /\ arrived = {}
    /\ pc' = "down"
    /\ UNCHANGED <<env, queries, open, arrived, deviceWrites, written, ready>>

\* poll fails, with the tunnel closed for instance: an IOException.
PollFails ==
    /\ pc = "poll"
    /\ pc' = "down"
    /\ UNCHANGED <<env, queries, open, arrived, deviceWrites, written, ready>>

\* The iterator of handleResponses stops at the answered queries, in order.
NextAnswered(k) ==
    /\ queries[k].answered
    /\ \A i \in 1 .. k - 1 : ~queries[i].answered

\* One turn of handleResponses: an answered query leaves the queue, its answer
\* is read and queued for the tunnel, its socket is closed.  When reading the
\* answer fails, the query is dropped all the same.
HandleResponse ==
    /\ pc = "responses"
    /\ \E k \in DOMAIN queries :
          /\ NextAnswered(k)
          /\ queries' = RemoveAt(queries, k)
          /\ Sockets({queries[k].request}, {})
          /\ deviceWrites' \in {deviceWrites, Append(deviceWrites, queries[k].request)}
    /\ UNCHANGED <<env, written, pc, ready>>

EndResponses ==
    /\ pc = "responses"
    /\ \A i \in DOMAIN queries : ~queries[i].answered
    /\ pc' = After[pc]
    /\ UNCHANGED <<env, queries, open, arrived, deviceWrites, written, ready>>

UnwrittenPeeked(k) == SubSeq(deviceWrites, k, Len(deviceWrites))

\* What is left in the queue once k packets have been polled from it.
Unwritten(k) == SubSeq(deviceWrites, k + 1, Len(deviceWrites))

\* writeToDevice empties deviceWrites.
WriteToDevice ==
    /\ pc = "write"
    /\ ready.write
    /\ written' = written \o deviceWrites
    /\ deviceWrites' = Unwritten(Len(deviceWrites))
    /\ pc' = After[pc]
    /\ UNCHANGED <<env, queries, open, arrived, ready>>

\* Writing the k-th reply fails: it has left the queue and is lost, the ones
\* behind it stay in the queue.
WriteFails ==
    /\ pc = "write"
    /\ ready.write
    /\ \E k \in 1 .. Len(deviceWrites) :
          /\ written' = written \o SubSeq(deviceWrites, 1, k - 1)
          /\ deviceWrites' = Unwritten(k)
    /\ pc' = "down"
    /\ UNCHANGED <<env, queries, open, arrived, ready>>

SkipWrite ==
    /\ pc = "write"
    /\ ~ready.write
    /\ pc' = After[pc]
    /\ UNCHANGED <<env, queries, open, arrived, deviceWrites, written, ready>>

\* The tunnel had nothing to read: doOne returns true.
SkipRead ==
    /\ pc = "read"
    /\ ~ready.read
    /\ pc' = After[pc]
    /\ UNCHANGED <<env, queries, open, arrived, deviceWrites, written, ready>>

\* The end of the tunnel stream, or an error reading it: runVpn ends.
ReadFails ==
    /\ pc = "read"
    /\ ready.read
    /\ pc' = "down"
    /\ UNCHANGED <<env, queries, open, arrived, deviceWrites, written, ready>>

\* readPacketFromDevice takes one packet for handleDnsRequest.
Reads(r) ==
    /\ pc = "read"
    /\ ready.read
    /\ r \in unread
    /\ unread' = unread \ {r}
    /\ UNCHANGED <<now, fresh, written, ready>>

\* handleDnsRequest answers a blocked or a redirected name at once.
AnswerLocally(r) ==
    /\ Reads(r)
    /\ deviceWrites' = Append(deviceWrites, r)
    /\ pc' = After[pc]
    /\ UNCHANGED <<queries, open, arrived>>

\* handleDnsRequest forwards the query of an allowed name (forwardPacket).
ForwardQuery(r) ==
    /\ Reads(r)
    /\ AddQuery(r)
    /\ pc' = After[pc]
    /\ UNCHANGED deviceWrites

\* A packet that is no DNS query or goes to no DNS server is discarded; a
\* packet without payload is sent on without expecting an answer; a query that
\* cannot be sent for another reason than the network is dropped.
Discard(r) ==
    /\ Reads(r)
    /\ pc' = After[pc]
    /\ UNCHANGED <<queries, open, arrived, deviceWrites>>

\* Sending fails because the network is unreachable: an IOException.
ForwardFails(r) ==
    /\ Reads(r)
    /\ pc' = "down"
    /\ UNCHANGED <<queries, open, arrived, deviceWrites>>

\* work() runs runVpn again after an error, the next worker does after the end
\* of the stream: a new tunnel, the same queues.  The packets left in the
\* tunnel that was closed are gone.
Reconnect ==
    /\ pc = "down"
    /\ pc' = "poll"
    /\ unread' = {}
    /\ UNCHANGED <<now, fresh, queries, open, arrived, deviceWrites, written, ready>>

-----------------------------------------------------------------------------
Environment == Tick \/ \E r \in Request : AppSends(r) \/ ServerAnswers(r)

Worker ==
    \/ \E writable \in BOOLEAN : Poll(writable)
    \/ PollTimesOut \/ PollFails
    \/ HandleResponse \/ EndResponses
    \/ WriteToDevice \/ WriteFails \/ SkipWrite
    \/ SkipRead \/ ReadFails
    \/ \E r \in Request : AnswerLocally(r) \/ ForwardQuery(r)
                            \/ Discard(r) \/ ForwardFails(r)
    \/ Reconnect

Next == Environment \/ Worker

Spec == Init /\ [][Next]_vars

\* The thread keeps running (it may only be slow), the tunnel device does not
\* refuse packets forever, and the worker connects again whenever runVpn ends.
FairSpec ==
    /\ Spec
    /\ WF_vars(Worker)
    /\ SF_vars(Poll(TRUE))
    /\ SF_vars(\E writable \in BOOLEAN : Poll(writable))

-----------------------------------------------------------------------------
(* Safety.                                                                 *)

\* Every open socket is the one of a queued query and every queued query has
\* its own open socket: no path of addQuery, handleResponses or the error
\* handling leaks a socket or polls a closed one.
SocketsOwned ==
    /\ open = QueriesOf(queries)
    /\ \A i, j \in DOMAIN queries :
          queries[i].request = queries[j].request => i = j

\* The queue never holds more than one query above its limit: the limit is
\* tested before the new query is added.
QueueBounded == Len(queries) <= MAXIMUM_WAITING + 1

\* "older packets first, in the queue head" (the field queries): what lets
\* clearTimedOutQueries stop at the first query that is not timed out.
OldestFirst ==
    \A i, j \in DOMAIN queries : i < j => queries[i].time <= queries[j].time

\* The comment of doOne on handling the responses before reading the tunnel:
\* "otherwise a new insertion there could invalidate one of the sockets we want
\* to read from". A query poll reported an answer for leaves the queue by having
\* its answer read, never by a limit of the queue.
NoAnswerDiscarded ==
    [][\A i \in DOMAIN queries :
         queries[i].answered /\ queries[i].request \notin QueriesOf(queries')
             => pc = "responses"]_vars

\* A packet is at one place only: not sent, in the tunnel, forwarded and
\* awaiting an answer, or replied to; and it has one reply at most.
OneReplyPerRequest ==
    LET replies == written \o deviceWrites IN
    /\ \A i, j \in DOMAIN replies : replies[i] = replies[j] => i = j
    /\ Range(replies) \cap open = {}
    /\ (Range(replies) \cup open) \cap (unread \cup fresh) = {}
    /\ unread \cap fresh = {}

\* A query nobody answered is given up only when it has timed out, or when the
\* queue is over its limit and the query is the oldest one left.
GivesUpOldestOnly ==
    [][\A i \in DOMAIN queries :
         \/ queries[i].request \in QueriesOf(queries')
         \/ queries[i].answered
         \/ queries[i].time < now - TIMEOUT_SEC
         \/ /\ \A j \in 1 .. i - 1 : queries[j].time < now - TIMEOUT_SEC
            /\ Len(queries) - (i - 1) > MAXIMUM_WAITING]_vars

\* Adding a query leaves no timed out one behind it, wherever it stood.
InsertionPurges ==
    [][pc = "read" /\ queries' # queries =>
         \A i \in DOMAIN queries' : queries'[i].time >= now - TIMEOUT_SEC]_vars

(* Liveness.                                                               *)

\* A reply queued for the tunnel does not stay there: poll asks for POLLOUT
\* as long as the queue is not empty. It is written, or lost by an error.
RepliesLeaveQueue ==
    \A r \in Request : r \in Range(deviceWrites) ~> r \notin Range(deviceWrites)

\* An answer that arrived on a socket is consumed and the socket closed.
AnswersConsumed == \A r \in Request : r \in arrived ~> r \notin open
=============================================================================
