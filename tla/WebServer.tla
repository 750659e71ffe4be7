------------------------------ MODULE WebServer ------------------------------
(***************************************************************************)
(* The local web server, webserver.c on the event loop of mongoose: main,  *)
(* which listens and polls until a signal, one pass of mg_mgr_poll over    *)
(* all connections, their buffers, the requests http_cb cuts from what was *)
(* read, the files static_cb streams, TLS between socket and buffers.      *)
(*                                                                         *)
(* Data is counted in units: a part of a request, a TLS record, a header   *)
(* of an answer, a piece of its body.  The sockets are the kernel's: in    *)
(* and out are its two queues, whose other end the client has.             *)
(***************************************************************************)
EXTENDS Naturals, Sequences, FiniteSets, SequencesExt

CONSTANTS
    Conn,            \* connections clients may open, each of them once
    Kind,            \* kinds of requests clients send
    Ports,           \* the ports each client may open its connection to
    Talks,           \* bound: what each client may send, one request after the other
    FileSize,        \* units of test.html and icon.svg
    SendSize,        \* units of the send buffer static_cb fills: MG_IO_SIZE
    MG_MAX_RECV_SIZE,
    RecordRoom,      \* records the raw TLS buffer takes: 16 * 1024 + 40 bytes
    SocketRoom,      \* units of the kernel's queue to the client
    Fds              \* limits of files and accepted sockets, one of which the process starts with

\* The kinds: GET of a blocked host ("get"), of /internal-test ("test"), with
\* Connection: close ("close"), with a range no file has ("unsat"); HEAD; a
\* body of known length ("post") or in chunks ("chunked"), which comes apart
\* from its headers; POST without length ("nolen"), what is no request ("bad"), a
\* body with a chunk that is none ("badchunk").
InTwoParts == {"post", "chunked"}

ASSUME WebServerAssumption ==
    /\ Kind \subseteq {"get", "test", "close", "unsat", "head", "nolen", "bad", "badchunk"}
                      \cup InTwoParts
    /\ Ports \in [Conn -> SUBSET {"http", "https"}]
    /\ Talks \in [Conn -> SUBSET Seq(Kind)]
    /\ Conn \cap {"http", "https"} = {}
    /\ FileSize \in Nat /\ Fds \subseteq Nat
    /\ {SendSize, MG_MAX_RECV_SIZE, RecordRoom, SocketRoom} \subseteq Nat \ {0}

VARIABLES
    main,      \* main: listen, poll, pass (in mg_mgr_poll), free (the same, of mg_mgr_free), exit
    icon,      \* settings.icon
    fds,       \* RLIMIT_NOFILE, what the server itself has open taken off
    signal,    \* s_sig_num # 0
    conns,     \* mgr->conns without the listeners, newest first
    turns,     \* those the pass has still to visit, the listeners last
    incoming,  \* the listeners mg_iotest found readable
    conn,      \* the state of each connection
    leaked     \* files nobody closes any more

webVars == <<main, icon, fds, signal, conns, turns, incoming, conn, leaked>>

NoFile == FileSize + 1

Fragment == [id : Nat, kind : Kind \cup {"hello", "finished"}, part : {1, 2}]

Hello == [id |-> 0, kind |-> "hello", part |-> 1]
Finished == [id |-> 0, kind |-> "finished", part |-> 1]

\* What goes to clients: the server's part of the TLS handshake, a header with
\* the units of body the server means to send after it, a unit of body.
Header(id, n) == [type |-> "header", id |-> id, len |-> n]
Body == [type |-> "body", id |-> 0, len |-> 0]
Flight == [type |-> "flight", id |-> 0, len |-> 0]
Unit == [type : {"header", "body", "flight"}, id : Nat, len : 0 .. FileSize]

Connection ==
    [socket : {"none", "backlog", "open", "closed"},
     is_tls : BOOLEAN,                      \* of the port it was opened to
     client : {"open", "half", "gone"},     \* half: it sends no more, and reads on
     in : Seq(Fragment), out : Seq(Unit),   \* the queues of the kernel
     sent : Seq(Kind), last : 1 .. 2, got : Seq(Unit), shaken : BOOLEAN,
     recv : Seq(Fragment), rtls : Seq(Fragment), send : Seq(Unit),
     tlsSend : Seq(Unit), is_tls_hs : {"no", "start", "negotiated"}, is_tls_throttled : BOOLEAN,
     is_resp : BOOLEAN, is_draining : BOOLEAN, is_closing : BOOLEAN,
     file : 0 .. NoFile,                    \* pfn is static_cb and what it has still to send
     is_readable : BOOLEAN, is_writable : BOOLEAN,
     atClose : BOOLEAN]                     \* a request was handled on MG_EV_CLOSE

WebTypeOK ==
    /\ main \in {"listen", "poll", "pass", "free", "exit"}
    /\ icon \in BOOLEAN /\ fds \in Fds /\ signal \in BOOLEAN
    /\ conns \in Seq(Conn)
    /\ turns \in Seq(Conn \cup {"http", "https"})
    /\ incoming \subseteq {"http", "https"}
    /\ conn \in [Conn -> Connection]
    /\ leaked \in Nat

Fresh ==
    [socket |-> "none", is_tls |-> FALSE, client |-> "open", in |-> <<>>, out |-> <<>>,
     sent |-> <<>>, last |-> 2, got |-> <<>>, shaken |-> FALSE,
     recv |-> <<>>, rtls |-> <<>>, send |-> <<>>,
     tlsSend |-> <<>>, is_tls_hs |-> "no", is_tls_throttled |-> FALSE,
     is_resp |-> FALSE, is_draining |-> FALSE, is_closing |-> FALSE, file |-> NoFile,
     is_readable |-> FALSE, is_writable |-> FALSE, atClose |-> FALSE]

WebInit ==
    /\ main = "listen"
    /\ icon \in BOOLEAN /\ fds \in Fds
    /\ signal = FALSE
    /\ conns = <<>> /\ turns = <<>> /\ incoming = {}
    /\ conn = [c \in Conn |-> Fresh]
    /\ leaked = 0

Least(m, n) == IF m < n THEN m ELSE n

Port(c) == IF conn[c].is_tls THEN "https" ELSE "http"

Opened == {c \in Conn : conn[c].socket = "open"}

\* Descriptors in use by all but the file of c.
InUse(c) ==
    leaked + Cardinality(Opened) + Cardinality({d \in Opened \ {c} : conn[d].file # NoFile})

\* No descriptor to open a file: on MG_EV_CLOSE that of the socket is closed already.
OutOfFiles(c, k) == InUse(c) >= (IF k.atClose THEN fds + 1 ELSE fds)

-----------------------------------------------------------------------------
(* Answers: the user's handler fn, mg_http_reply, mg_http_serve_file.       *)

Reply(k, r, n) ==
    [k EXCEPT !.send = @ \o <<Header(r.id, n)>> \o [i \in 1 .. n |-> Body],
              !.is_resp = FALSE]

\* "Not found": no descriptor is left to open the file.
NotFound(c, k, r) == Reply(k, r, Least(1, FileSize))

\* A 416 answer streams nothing, and is streamed all the same.
ContentLength(r) == IF r.kind = "unsat" THEN 0 ELSE FileSize

mg_http_serve_file(c, k, r) ==
    IF OutOfFiles(c, k) THEN NotFound(c, k, r)
    ELSE IF r.kind = "head"
         THEN [k EXCEPT !.send = Append(@, Header(r.id, 0)), !.is_resp = FALSE]
         ELSE [k EXCEPT !.send = Append(@, Header(r.id, ContentLength(r))),
                        !.file = ContentLength(r)]

fn(c, k, r) ==
    IF icon \/ r.kind = "test" THEN mg_http_serve_file(c, k, r) ELSE Reply(k, r, 0)

-----------------------------------------------------------------------------
(* http_cb: requests, one after the other, until one is streamed.           *)

\* The loop: the connection as it is, and whether it goes on.
GoesOn(k) == [k |-> k, on |-> TRUE]
Stops(k) == [k |-> k, on |-> FALSE]

\* Connection: close drains, unless a file is streamed.
AfterAnswer(r, k) ==
    IF r.kind = "close" /\ ~k.is_resp THEN Stops([k EXCEPT !.is_draining = TRUE]) ELSE GoesOn(k)

\* The request is cut from what was read, and the handler called.
HandleRequest(c, k, r, parts, ev) ==
    AfterAnswer(r, fn(c, [k EXCEPT !.recv = SubSeq(@, parts + 1, Len(@)), !.is_resp = TRUE,
                                   !.atClose = @ \/ ev = "close"], r))

Malformed(k) == Stops([k EXCEPT !.is_draining = TRUE, !.recv = <<>>])

KeptForMore(recv) == recv

\* ofs is past the headers of a request without length: it does not come again.
Processed(recv) == Tail(recv)

\* POST without length gets 411 at once, and the loop stops: its body has no end.
\* Only a last such request is handled when the connection closes: what follows it is
\* taken to be longer than its headers.
LengthRequired(c, k, r, ev) ==
    LET replied == Reply([k EXCEPT !.recv = Processed(@)], r, 0)
    IN  IF ev = "close" /\ Len(k.recv) = 1
        THEN HandleRequest(c, [replied EXCEPT !.recv = k.recv], r, 1, ev)
        ELSE Stops(replied)

\* How many parts are the request: its headers, its body; when the connection closes
\* all that was read is, but for chunks.
Extent(k, r, ev) ==
    IF ev = "close" /\ r.kind # "chunked" THEN Len(k.recv)
    ELSE IF r.kind \in InTwoParts THEN 2 ELSE 1

\* A body whose headers were dropped is no request either.
OneRequest(c, k, ev) ==
    LET r == Head(k.recv)
    IN  CASE r.kind = "bad" \/ r.part = 2 -> Malformed(k)
          [] r.kind = "badchunk" -> Stops([k EXCEPT !.is_closing = TRUE])
          [] r.kind = "nolen" -> LengthRequired(c, k, r, ev)
          [] r.kind \notin {"bad", "badchunk", "nolen"} /\ r.part = 1 /\ Extent(k, r, ev) <= Len(k.recv) ->
                HandleRequest(c, k, r, Extent(k, r, ev), ev)
          [] OTHER -> Stops(k)

WhileBuffered(loop) == loop.on /\ loop.k.recv # <<>>

\* The condition of the loop: no answer is under way.
While(loop) == loop.on /\ ~loop.k.is_resp /\ loop.k.recv # <<>>

\* Each round takes at least one unit, or is the last.
http_cb(c, k, ev) ==
    LET Round(loop) ==
            IF While(loop) THEN OneRequest(c, loop.k, ev) ELSE Stops(loop.k)
        after[n \in 0 .. Len(k.recv)] ==
            IF n = 0 THEN GoesOn(k) ELSE Round(after[n - 1])
    IN  after[Len(k.recv)].k

\* static_cb on MG_EV_WRITE and MG_EV_POLL: fill the send buffer from the file; a
\* read of nothing is its end.
restore_http_cb(k) == [k EXCEPT !.file = NoFile, !.is_resp = FALSE]

Space(k) == SendSize - Len(k.send)

\* What it reads: never more than was announced.
ReadSize(k) == Least(SendSize - Len(k.send), k.file)

static_cb(k) ==
    LET n == ReadSize(k)
    IN  IF Len(k.send) >= SendSize THEN k
        ELSE IF n = 0 THEN restore_http_cb(k)
        ELSE [k EXCEPT !.send = @ \o [i \in 1 .. n |-> Body], !.file = @ - n]

\* mg_call of the events: static_cb or http_cb, whichever has the connection.
Streaming(k) == k.file # NoFile

ReadEvent(c, k) == IF Streaming(k) THEN k ELSE http_cb(c, k, "read")

WriteEvent(k) == IF Streaming(k) THEN static_cb(k) ELSE k

PollEvent(c, k) ==
    IF Streaming(k) THEN static_cb(k)
    ELSE IF k.is_draining THEN k ELSE http_cb(c, k, "poll")

ClosesUnasked(c, k) == k

CloseEvent(c, k) == IF Streaming(k) THEN restore_http_cb(k) ELSE http_cb(c, k, "close")

-----------------------------------------------------------------------------
(* Sockets and TLS: read_conn, write_conn, mg_tls_*.                        *)

\* recv and send, of n units.
Received(k, n) == SubSeq(k.in, 1, n)
After(s, n) == SubSeq(s, n + 1, Len(s))

Room(k) == SocketRoom - Len(k.out)

\* mg_io_send until the queue is full or the buffer empty.
mg_tls_flush(k) ==
    LET n == IF k.client = "gone" THEN 0 ELSE Least(Room(k), Len(k.tlsSend))
    IN  [k EXCEPT !.out = @ \o SubSeq(k.tlsSend, 1, n), !.tlsSend = After(@, n)]

NextRecord(k, kind) == k.rtls # <<>> /\ Head(k.rtls).kind = kind

\* mg_tls_server_handshake: both steps in one call if both records are here.
mg_tls_handshake(k) ==
    LET hello == IF k.is_tls_hs = "start" /\ NextRecord(k, "hello")
                 THEN [k EXCEPT !.is_tls_hs = "negotiated", !.rtls = Tail(@),
                                !.tlsSend = Append(@, Flight)]
                 ELSE k
        both == IF hello.is_tls_hs = "negotiated" /\ NextRecord(hello, "finished")
                THEN [hello EXCEPT !.is_tls_hs = "no", !.rtls = Tail(@)]
                ELSE hello
    IN  mg_tls_flush(both)

\* read_conn with TLS: raw bytes first, then one record. With no room for raw
\* bytes, n keeps the value that says error.
TlsRead(c, k, n) ==
    LET full == Len(k.rtls) >= RecordRoom
        raw == IF full THEN k
               ELSE [k EXCEPT !.rtls = @ \o Received(k, n), !.in = After(@, n)]
        error == full \/ (k.in = <<>> /\ k.client # "open")
        record == raw.is_tls_hs = "no" /\ raw.rtls # <<>>
        plain == IF record
                 THEN [raw EXCEPT !.recv = Append(@, Head(raw.rtls)), !.rtls = Tail(@)]
                 ELSE raw
        settled == IF error
                   THEN [plain EXCEPT !.is_closing = @ \/ plain.rtls = <<>> \/ ~record]
                   ELSE IF plain.is_tls_hs # "no" THEN mg_tls_handshake(plain) ELSE plain
    IN  IF record THEN ReadEvent(c, settled) ELSE settled

PlainRead(c, k, n) ==
    IF k.in # <<>>
    THEN ReadEvent(c, [k EXCEPT !.recv = @ \o Received(k, n), !.in = After(@, n)])
    ELSE [k EXCEPT !.is_closing = @ \/ k.client # "open"]

\* ioalloc refuses to read more than MG_MAX_RECV_SIZE: mg_error.
read_conn(c, k, n) ==
    IF Len(k.recv) >= MG_MAX_RECV_SIZE THEN [k EXCEPT !.is_closing = TRUE]
    ELSE IF k.is_tls THEN TlsRead(c, k, n) ELSE PlainRead(c, k, n)

\* mg_tls_send: what the socket does not take stays encrypted, and counts as sent, as
\* does what a socket refuses that was reset.
TlsWrite(k, reset) ==
    LET n == IF k.is_tls_throttled THEN 0 ELSE Least(SendSize, Len(k.send))
        sent == mg_tls_flush([k EXCEPT !.tlsSend = @ \o SubSeq(k.send, 1, n), !.send = After(@, n)])
        done == [sent EXCEPT !.is_tls_throttled = k.client # "gone" /\ sent.tlsSend # <<>>]
    IN  IF k.client = "gone" /\ ~reset THEN [k EXCEPT !.is_closing = TRUE]
        ELSE IF n > 0 THEN WriteEvent(done)
        ELSE done

PlainWrite(k) ==
    LET n == Least(Room(k), Len(k.send))
    IN  IF k.client = "gone" THEN [k EXCEPT !.is_closing = TRUE]
        ELSE IF n = 0 THEN k
        ELSE WriteEvent([k EXCEPT !.out = @ \o SubSeq(k.send, 1, n), !.send = After(@, n)])

write_conn(k, reset) == IF k.is_tls THEN TlsWrite(k, reset) ELSE PlainWrite(k)

-----------------------------------------------------------------------------
(* mg_mgr_poll: mg_iotest, then the connections one after the other.        *)

ListenersReadable ==
    {l \in {"http", "https"} : \E c \in Conn : conn[c].socket = "backlog" /\ Port(c) = l}

can_write(k) == k.send # <<>> /\ k.is_tls_hs = "no"

OnlySocket(k) == FALSE

\* c->rtls.len > 0 || mg_tls_pending(c) > 0.
HasRecords(k) == k.rtls # <<>>

\* Records in the TLS buffer make a connection readable, and what epoll says of
\* it is not looked at, that it may be written included.
Tested(k, err) ==
    LET pending == HasRecords(k)
    IN  [k EXCEPT !.is_closing = @ \/ err,
                  !.is_readable = pending \/ (~err /\ (k.in # <<>> \/ k.client # "open")),
                  !.is_writable = ~pending /\ ~err /\ can_write(k)
                                  /\ (Room(k) > 0 \/ k.client = "gone")]

\* EPOLLERR may tell of a client that is gone.
mg_iotest(before) ==
    \E err \in SUBSET {c \in Opened : conn[c].client = "gone"} :
        /\ conn' = [c \in Conn |-> IF c \in Opened THEN Tested(before[c], c \in err) ELSE before[c]]
        /\ incoming' = ListenersReadable
        /\ turns' = conns \o <<"https", "http">>

Always == TRUE

\* while (s_sig_num == 0).
NoSignal == ~signal

Poll ==
    /\ main = "poll" /\ NoSignal
    /\ mg_iotest(conn)
    /\ main' = "pass"
    /\ UNCHANGED <<icon, fds, signal, conns, leaked>>

AllClosing ==
    [c \in Conn |-> IF c \in Opened THEN [conn[c] EXCEPT !.is_closing = TRUE] ELSE conn[c]]

\* mg_mgr_free: all is closing in one more pass.
Free ==
    /\ main = "poll" /\ signal
    /\ mg_iotest(AllClosing)
    /\ main' = "free"
    /\ UNCHANGED <<icon, fds, signal, conns, leaked>>

Visits(who) == main \in {"pass", "free"} /\ turns # <<>> /\ Head(turns) = who

DrainedAtOnce(k) == k.is_draining

SendDrained(k) == k.is_draining /\ k.send = <<>>

\* READ follows when the answer ended in POLL: the next request may be here already.
Resumed(c, k, polled) ==
    IF k.is_resp /\ ~polled.is_resp THEN ReadEvent(c, polled) ELSE polled

IfReadable(c, k, n) == IF k.is_readable THEN read_conn(c, k, n) ELSE k
IfWritable(k, reset) == IF k.is_writable THEN write_conn(k, reset) ELSE k

FlushIfSent(k) ==
    IF k.is_tls /\ k.is_tls_hs = "no" /\ k.send = <<>> THEN mg_tls_flush(k) ELSE k

Transferred(c, k, n, reset) ==
    IF k.is_closing THEN k ELSE FlushIfSent(IfWritable(IfReadable(c, k, n), reset))

ClosesIfDrained(k) == [k EXCEPT !.is_closing = @ \/ SendDrained(k)]

\* The turn of a connection up to where it may close.
Turned(c, n, reset) ==
    ClosesIfDrained(
        Transferred(c, Resumed(c, conn[c], PollEvent(c, conn[c])), n, reset))

StaysOpen(c, k) ==
    /\ ~k.is_closing
    /\ conn' = [conn EXCEPT ![c] = k]
    /\ UNCHANGED <<conns, leaked>>

\* close_conn: MG_EV_CLOSE, then all memory is given back. A file opened in the
\* event stays open. With units unread the kernel resets the connection and may
\* drop what it has for the client.
close_conn(c, k) ==
    LET last == CloseEvent(c, k)
    IN  /\ k.is_closing
        /\ \E out \in IF k.in = <<>> THEN {k.out} ELSE {k.out, <<>>} :
              conn' = [conn EXCEPT ![c] =
                         [Fresh EXCEPT !.socket = "closed", !.is_tls = k.is_tls, !.client = k.client, !.out = out,
                                       !.sent = k.sent, !.last = k.last, !.got = k.got,
                                       !.shaken = k.shaken, !.atClose = last.atClose]]
        /\ conns' = RemoveAt(conns, CHOOSE i \in DOMAIN conns : conns[i] = c)
        /\ leaked' = leaked + (IF Streaming(last) THEN 1 ELSE 0)

Turn(c) ==
    /\ Visits(c)
    /\ \E n \in 0 .. Len(conn[c].in), reset \in BOOLEAN :
          /\ n = 0 <=> conn[c].in = <<>>
          /\ reset => conn[c].client = "gone"
          /\ LET k == Turned(c, n, reset) IN StaysOpen(c, k) \/ close_conn(c, k)
    /\ turns' = Tail(turns)
    /\ UNCHANGED <<main, icon, fds, signal, incoming>>

accept_conn(c) ==
    /\ Visits(Port(c)) /\ main = "pass"
    /\ Port(c) \in incoming
    /\ conn[c].socket = "backlog"
    /\ InUse(c) < fds
    /\ conn' = [conn EXCEPT ![c].socket = "open",
                            ![c].is_tls_hs = IF conn[c].is_tls THEN "start" ELSE "no"]
    /\ conns' = <<c>> \o conns
    /\ turns' = Tail(turns)
    /\ UNCHANGED <<main, icon, fds, signal, incoming, leaked>>

\* A listener with nobody to accept, or no descriptor left to do it, or closing.
AcceptsNone(l) ==
    /\ Visits(l)
    /\ \/ main = "free" \/ l \notin incoming
       \/ leaked + Cardinality(Opened)
             + Cardinality({c \in Opened : conn[c].file # NoFile}) >= fds
    /\ turns' = Tail(turns)
    /\ UNCHANGED <<main, icon, fds, signal, conns, incoming, conn, leaked>>

PassEnds ==
    /\ main \in {"pass", "free"} /\ turns = <<>>
    /\ main' = IF main = "pass" THEN "poll" ELSE "exit"
    /\ UNCHANGED <<icon, fds, signal, conns, turns, incoming, conn, leaked>>

-----------------------------------------------------------------------------
(* main, and the signal of killall.                                         *)

Listen ==
    /\ main = "listen"
    /\ main' = "poll"
    /\ UNCHANGED <<icon, fds, signal, conns, turns, incoming, conn, leaked>>

\* No resources given, or a port is taken.
FailsToStart ==
    /\ main = "listen"
    /\ main' = "exit"
    /\ UNCHANGED <<icon, fds, signal, conns, turns, incoming, conn, leaked>>

Signal ==
    /\ main \in {"poll", "pass"}
    /\ ~signal
    /\ signal' = TRUE
    /\ UNCHANGED <<main, icon, fds, conns, turns, incoming, conn, leaked>>

-----------------------------------------------------------------------------
(* Clients.                                                                 *)

Client(c, k) ==
    /\ conn' = [conn EXCEPT ![c] = k]
    /\ UNCHANGED <<main, icon, fds, signal, conns, turns, incoming, leaked>>

Connects(c) ==
    /\ conn[c].socket = "none" /\ main \in {"poll", "pass"}
    /\ \/ "http" \in Ports[c] /\ Client(c, [conn[c] EXCEPT !.socket = "backlog"])
       \/ "https" \in Ports[c]
          /\ Client(c, [conn[c] EXCEPT !.socket = "backlog", !.is_tls = TRUE, !.in = <<Hello>>])

CanSend(c) ==
    /\ conn[c].socket \in {"backlog", "open"} /\ conn[c].client = "open"
    /\ conn[c].is_tls => conn[c].shaken

\* A request, or its first part.
SendsRequest(c, kind) ==
    /\ CanSend(c) /\ conn[c].last = 2
    /\ \E talk \in Talks[c] : IsPrefix(Append(conn[c].sent, kind), talk)
    /\ Client(c, [conn[c] EXCEPT
            !.sent = Append(@, kind),
            !.last = IF kind \in InTwoParts THEN 1 ELSE 2,
            !.in = Append(@, [id |-> Len(conn[c].sent) + 1, kind |-> kind, part |-> 1])])

SendsRest(c) ==
    /\ CanSend(c) /\ conn[c].last = 1
    /\ LET n == Len(conn[c].sent)
       IN  Client(c, [conn[c] EXCEPT
              !.last = 2,
              !.in = Append(@, [id |-> n, kind |-> conn[c].sent[n], part |-> 2])])

\* The client reads; the server's part of the handshake it answers.
Reads(c) ==
    /\ conn[c].client # "gone" /\ conn[c].out # <<>>
    /\ LET unit == Head(conn[c].out)
           rest == [conn[c] EXCEPT !.out = Tail(@), !.got = Append(@, unit)]
       IN  Client(c, IF unit = Flight
                     THEN [rest EXCEPT !.shaken = TRUE,
                               !.in = IF rest.socket = "open" /\ rest.client = "open" THEN <<Finished>> ELSE @]
                     ELSE rest)

\* It sends no more.
ShutsDown(c) ==
    /\ CanSend(c)
    /\ Client(c, [conn[c] EXCEPT !.client = "half"])

\* It goes: what it sent may still be read, or not.
Leaves(c) ==
    /\ conn[c].socket \in {"backlog", "open"} /\ conn[c].client # "gone"
    /\ \E in \in {conn[c].in, <<>>} :
          Client(c, [conn[c] EXCEPT !.client = "gone", !.in = in])

ClientSteps(c) ==
    \/ Connects(c) \/ SendsRest(c) \/ Reads(c) \/ ShutsDown(c) \/ Leaves(c)
    \/ \E kind \in Kind : SendsRequest(c, kind)

Server ==
    \/ Listen \/ Poll \/ Free \/ PassEnds
    \/ \E c \in Conn : Turn(c) \/ accept_conn(c)
    \/ \E l \in {"http", "https"} : AcceptsNone(l)

WebNext == Server \/ FailsToStart \/ Signal \/ \E c \in Conn : ClientSteps(c)

WebSpec == WebInit /\ [][WebNext]_webVars

\* The server has one thread, which has always a step to take until it ends, and
\* never waits longer than a second: it moves on for ever.  A client reads what
\* comes as long as it is there, and need not do anything else.
ServerRuns == []<>(main = "exit") \/ []<><<TRUE>>_<<main, turns>>

WebFairSpec == WebSpec /\ ServerRuns /\ \A c \in Conn : WF_webVars(Reads(c))

-----------------------------------------------------------------------------
\* All that was written for a client: read by it, on its way, encrypted, in the buffer.
Delivered(k) == k.got \o k.out
Stream(k) == Delivered(k) \o k.tlsSend \o k.send

Headers(s) == {i \in DOMAIN s : s[i].type = "header"}

\* Where the answer that begins at i ends.
Ends(s, i) == i + s[i].len

Malforms(k, m) == \E b \in 1 .. m : b \in DOMAIN k.sent /\ k.sent[b] = "bad"

\* The answers, pipelined and streamed, keep the order of the requests: each request
\* has one answer at most, and none is passed over before one that is answered, but a
\* malformed one and what was read with it.
AnswersInOrder ==
    \A c \in Conn :
        LET s == Stream(conn[c])
        IN  /\ \A h, i \in Headers(s) : h < i => s[h].id < s[i].id
            /\ \A i \in Headers(s) : \A m \in 1 .. s[i].id :
                  (\E h \in Headers(s) : s[h].id = m) \/ Malforms(conn[c], m)

\* What a header announces is what follows, and nothing else comes in between: what
\* is no header was announced, no answer begins before the end of the one before it,
\* and what is not written of the last is what static_cb has still to send.
Framed ==
    \A c \in Conn :
        LET k == conn[c]
            s == Stream(k)
        IN  /\ \A j \in DOMAIN s : s[j] = Flight => j = 1
            /\ \A j \in DOMAIN s :
                  s[j] = Body => \E h \in Headers(s) : h < j /\ j <= Ends(s, h)
            /\ \A h, i \in Headers(s) : h < i => Ends(s, h) < i
            /\ k.socket = "open" =>
                  \A h \in Headers(s) :
                      Ends(s, h) >= Len(s) =>
                          Ends(s, h) - Len(s) = IF Streaming(k) THEN k.file ELSE 0

\* A file is open only while it is streamed to a connection that is open: the
\* others are those opened for a request that was handled on MG_EV_CLOSE.
FilesClosed ==
    /\ \A c \in Conn : Streaming(conn[c]) => conn[c].socket = "open" /\ conn[c].is_resp
    /\ leaked <= Cardinality({c \in Conn : conn[c].atClose})

Parts(c) ==
    LET two == {i \in DOMAIN conn[c].sent : conn[c].sent[i] \in InTwoParts}
    IN  Len(conn[c].sent) + Cardinality(two)

AnsweredTo(s, i) == \E h \in Headers(s) : s[h].id = i /\ Ends(s, h) <= Len(s)

\* "Send remaining data, then close and free" (is_draining), without TLS: a
\* connection the server closes on a client that is there got a whole answer to all
\* requests up to the one that closes it.  Those that mg_error closes at once are left
\* out: more was read than the buffer takes, or a chunk is none; so is a connection
\* with units still unread (in), whose end may drop what was written.
ClosedByServer(c) ==
    /\ main = "pass" /\ conn[c].socket = "open" /\ conn'[c].socket = "closed"
    /\ conn[c].client = "open" /\ conn[c].in = <<>>
    /\ "badchunk" \notin Range(conn[c].sent)

Drained(c) ==
    \E i \in DOMAIN conn[c].sent :
        /\ conn[c].sent[i] \in {"bad", "close"}
        /\ \A j \in 1 .. i : conn[c].sent[j] = "bad" \/ AnsweredTo(Delivered(conn'[c]), j)

DrainsFirst == [][\A c \in Conn : ~conn[c].is_tls /\ ClosedByServer(c) => Drained(c)]_webVars

\* A request that is here in whole, after others that are none to close the
\* connection, is answered in whole, pipelined or not, unless the client goes, the server
\* is stopped, or more is sent than the buffer takes.
Pending(c, i) ==
    /\ conn[c].socket = "open" /\ conn[c].client = "open"
    /\ Len(conn[c].sent) >= i /\ (conn[c].last = 2 \/ Len(conn[c].sent) > i)
    /\ \A j \in 1 .. i : conn[c].sent[j] \notin {"bad", "badchunk", "close"}

Answered ==
    \A c \in Conn : \A i \in UNION {DOMAIN talk : talk \in Talks[c]} :
        Pending(c, i) ~> \/ AnsweredTo(conn[c].got, i)
                         \/ conn[c].client # "open" \/ signal
                         \/ Parts(c) > MG_MAX_RECV_SIZE
                         \/ Range(conn[c].sent) \cap {"bad", "badchunk", "close"} # {}

\* killall ends the server, whatever clients do.
StopsOnSignal == signal ~> main = "exit"
==============================================================================
