-------------------------------- MODULE Tunnel --------------------------------
(***************************************************************************)
(* Requests and sockets carried over one secure channel between a phone    *)
(* and the host beside the engine (packages/remote/src/tunnel.ts, both     *)
(* sides).                                                                 *)
(*                                                                         *)
(* A request is a stream of the channel: its head, its body and its end    *)
(* one way, the answer's the other, with credit for what the phone's       *)
(* reader took; either side may abort it.  A socket is a stream that is    *)
(* opened, told, and closed by either side.  The channel delivers in order *)
(* what it delivers, and when it closes what was on its way is lost.       *)
(*                                                                         *)
(* Bytes are counted, not kept.  The engine answers a request with Body    *)
(* bytes, however it cuts them, or with an error at any point.             *)
(***************************************************************************)
EXTENDS Integers, Sequences, FiniteSets

CONSTANTS
    Requests,      \* the streams that are requests
    Sockets,       \* the streams that are sockets
    Uploads,       \* the sizes a request's own body may have
    Body,          \* how many bytes the engine answers with
    Window,        \* FLOW_WINDOW
    Step,          \* CREDIT_STEP
    Chunk,         \* CHUNK: the largest piece of a body in one frame
    Cap,           \* MAX_REQUEST_BODY
    MaxTold        \* bound: what is said on a socket

ASSUME TunnelAssumption ==
    /\ Requests \cap Sockets = {}
    /\ Uploads \subseteq Nat
    /\ Body \in Nat /\ Cap \in Nat /\ MaxTold \in Nat
    /\ Window \in Nat /\ Step \in 1 .. Window
    /\ Chunk \in Nat \ {0}

VARIABLES
    toHost,    \* frames on their way to the host
    toPhone,   \* frames on their way to the phone
    closed,    \* the sides on which the channel is closed
    streams,   \* the phone's map of streams
    phase,     \* where each stream is for the phone's app
    upload,    \* the size of the body a request is being sent with
    received,  \* bytes of an answer the phone received
    taken,     \* bytes its reader took
    credited,  \* bytes it told the host were taken
    requests,  \* the host's map of requests
    run,       \* where the host is with each request
    size,      \* bytes of the request's body the host received
    window,    \* how much more of the answer the host may send
    sent,      \* bytes of the answer it sent
    whole,     \* requests whose answer the host sent to its end
    sockets,   \* the host's map of sockets
    engine,    \* each socket between the host and the engine
    told       \* how much was said on each socket

phone == <<streams, phase, upload, received, taken, credited>>
host  == <<requests, run, size, window, sent, whole>>
wires == <<sockets, engine, told>>
vars  == <<toHost, toPhone, closed, phone, host, wires>>

Streams == Requests \cup Sockets
Types   == {"reqHead", "reqBody", "reqEnd", "resHead", "resNull", "resBody", "resEnd", "abort", "credit",
            "wsOpen", "wsOpened", "wsText", "wsClose"}
Frames  == [type : Types, stream : Streams, bytes : Nat]

TypeOK ==
    /\ toHost \in Seq(Frames) /\ toPhone \in Seq(Frames)
    /\ closed \in SUBSET {"phone", "host"}
    /\ streams \in SUBSET Streams
    /\ phase \in [Streams -> {"new", "reading", "waiting", "body", "ended", "failed",
                              "connecting", "open", "closed"}]
    /\ upload \in [Requests -> Nat]
    /\ received \in [Requests -> Nat]
    /\ taken \in [Requests -> Nat]
    /\ credited \in [Requests -> Nat]
    /\ requests \in SUBSET Requests
    /\ run \in [Requests -> {"none", "receiving", "fetching", "sending", "over"}]
    /\ size \in [Requests -> Nat]
    /\ window \in [Requests -> Int]
    /\ sent \in [Requests -> Nat]
    /\ whole \in SUBSET Requests
    /\ sockets \in SUBSET Sockets
    /\ engine \in [Sockets -> {"none", "connecting", "open", "closed"}]
    /\ told \in [Sockets -> Nat]

Init ==
    /\ toHost = <<>> /\ toPhone = <<>>
    /\ closed = {}
    /\ streams = {}
    /\ phase = [s \in Streams |-> "new"]
    /\ upload = [s \in Requests |-> 0]
    /\ received = [s \in Requests |-> 0]
    /\ taken = [s \in Requests |-> 0]
    /\ credited = [s \in Requests |-> 0]
    /\ requests = {}
    /\ run = [s \in Requests |-> "none"]
    /\ size = [s \in Requests |-> 0]
    /\ window = [s \in Requests |-> 0]
    /\ sent = [s \in Requests |-> 0]
    /\ whole = {}
    /\ sockets = {}
    /\ engine = [s \in Sockets |-> "none"]
    /\ told = [s \in Sockets |-> 0]

------------------------------------------------------------------------------
(* Sending and receiving.  A closed channel sends nothing and says nothing. *)

Frame(type, s, n) == [type |-> type, stream |-> s, bytes |-> n]
Plain(type, s)    == <<Frame(type, s, 0)>>

ToHost(frames)  == toHost' = IF "phone" \in closed THEN toHost ELSE toHost \o frames
ToPhone(frames) == toPhone' = IF "host" \in closed THEN toPhone ELSE toPhone \o frames

HostGets(type, s) ==
    /\ "host" \notin closed
    /\ toHost # <<>>
    /\ Head(toHost).type = type
    /\ Head(toHost).stream = s
    /\ toHost' = Tail(toHost)

PhoneGets(type, s) ==
    /\ "phone" \notin closed
    /\ toPhone # <<>>
    /\ Head(toPhone).type = type
    /\ Head(toPhone).stream = s
    /\ toPhone' = Tail(toPhone)

------------------------------------------------------------------------------
(* createTunnelClient: fetch.                                              *)

\* The head, the body in pieces and the end, in one go; the promise is kept in
\* streams whatever became of the channel.
Sends(s, n) ==
    /\ streams' = streams \cup {s}
    /\ phase' = [phase EXCEPT ![s] = "waiting"]
    /\ ToHost(Plain("reqHead", s) \o [i \in 1 .. n |-> Frame("reqBody", s, 1)] \o Plain("reqEnd", s))

\* fetch, up to reading the request's own body if it has one.
fetch(s) ==
    /\ phase[s] = "new"
    /\ \E n \in Uploads :
          /\ upload' = [upload EXCEPT ![s] = n]
          /\ \/ /\ "phone" \in closed
                /\ phase' = [phase EXCEPT ![s] = "failed"]
                /\ UNCHANGED <<streams, toHost>>
             \/ /\ "phone" \notin closed
                /\ n > 0
                /\ phase' = [phase EXCEPT ![s] = "reading"]
                /\ UNCHANGED <<streams, toHost>>
             \/ "phone" \notin closed /\ n = 0 /\ Sends(s, 0)
    /\ UNCHANGED <<toPhone, closed, received, taken, credited, host, wires>>

\* request.arrayBuffer() is there: nothing is looked at again.
BodyRead(s) ==
    /\ phase[s] = "reading"
    /\ Sends(s, upload[s])
    /\ UNCHANGED <<toPhone, closed, upload, received, taken, credited, host, wires>>

\* The request's signal, or cancel of the body's reader.
Aborts(s) ==
    /\ s \in streams
    /\ phase[s] \in {"waiting", "body"}
    /\ streams' = streams \ {s}
    /\ phase' = [phase EXCEPT ![s] = "failed"]
    /\ ToHost(Plain("abort", s))
    /\ UNCHANGED <<toPhone, closed, upload, received, taken, credited, host, wires>>

\* A frame of a stream that is not, or no more, the phone's is dropped.
PhoneIgnores ==
    /\ \E type \in Types, s \in Streams : s \notin streams /\ PhoneGets(type, s)
    /\ UNCHANGED <<toHost, closed, phone, host, wires>>

resHead(s) ==
    /\ s \in streams
    /\ \/ /\ PhoneGets("resHead", s)
          /\ phase' = [phase EXCEPT ![s] = "body"]
          /\ UNCHANGED streams
       \/ /\ PhoneGets("resNull", s)
          /\ phase' = [phase EXCEPT ![s] = "ended"]
          /\ streams' = streams \ {s}
    /\ UNCHANGED <<toHost, closed, upload, received, taken, credited, host, wires>>

resBody(s) ==
    /\ s \in streams
    /\ PhoneGets("resBody", s)
    /\ received' = [received EXCEPT ![s] = @ + Head(toPhone).bytes]
    /\ UNCHANGED <<toHost, closed, streams, phase, upload, taken, credited, host, wires>>

resEnd(s) ==
    /\ s \in streams
    /\ PhoneGets("resEnd", s)
    /\ streams' = streams \ {s}
    /\ phase' = [phase EXCEPT ![s] = "ended"]
    /\ UNCHANGED <<toHost, closed, upload, received, taken, credited, host, wires>>

resAbort(s) ==
    /\ s \in streams
    /\ PhoneGets("abort", s)
    /\ streams' = streams \ {s}
    /\ phase' = [phase EXCEPT ![s] = "failed"]
    /\ UNCHANGED <<toHost, closed, upload, received, taken, credited, host, wires>>

\* Mutant: what was received is credited, taken or not.
Take_received(s) ==
    /\ phase[s] \in {"body", "ended"}
    /\ \E n \in 1 .. Chunk :
          /\ taken[s] + n <= received[s]
          /\ taken' = [taken EXCEPT ![s] = @ + n]
          /\ IF received[s] - credited[s] >= Step /\ s \in streams
             THEN /\ credited' = [credited EXCEPT ![s] = received[s]]
                  /\ ToHost(<<Frame("credit", s, received[s] - credited[s])>>)
             ELSE UNCHANGED <<credited, toHost>>
    /\ UNCHANGED <<toPhone, closed, streams, phase, upload, received, host, wires>>

\* Mutant: more than the window has to be taken before it is told.
Take_late(s) ==
    /\ phase[s] \in {"body", "ended"}
    /\ \E n \in 1 .. Chunk :
          LET read == taken[s] + n - credited[s]
          IN /\ taken[s] + n <= received[s]
             /\ taken' = [taken EXCEPT ![s] = @ + n]
             /\ IF read > Window /\ s \in streams
                THEN /\ credited' = [credited EXCEPT ![s] = @ + read]
                     /\ ToHost(<<Frame("credit", s, read)>>)
                ELSE UNCHANGED <<credited, toHost>>
    /\ UNCHANGED <<toPhone, closed, streams, phase, upload, received, host, wires>>

\* The body's reader takes some of what is queued, and pull looks at what that
\* left: while the queue is short of the window, a step that was taken is told.
Take(s) ==
    /\ phase[s] \in {"body", "ended"}
    /\ \E n \in 1 .. Chunk :
          LET left == received[s] - (taken[s] + n)
              read == taken[s] + n - credited[s]
          IN /\ taken[s] + n <= received[s]
             /\ taken' = [taken EXCEPT ![s] = @ + n]
             /\ IF left < Window /\ read >= Step /\ s \in streams
                THEN /\ credited' = [credited EXCEPT ![s] = @ + read]
                     /\ ToHost(<<Frame("credit", s, read)>>)
                ELSE UNCHANGED <<credited, toHost>>
    /\ UNCHANGED <<toPhone, closed, streams, phase, upload, received, host, wires>>

------------------------------------------------------------------------------
(* serveTunnel: requests.                                                  *)

reqHead(s) ==
    /\ HostGets("reqHead", s)
    /\ requests' = requests \cup {s}
    /\ run' = [run EXCEPT ![s] = "receiving"]
    /\ window' = [window EXCEPT ![s] = Window]
    /\ UNCHANGED <<toPhone, closed, size, sent, whole, phone, wires>>

reqBody(s) ==
    /\ HostGets("reqBody", s)
    /\ size' = IF s \in requests THEN [size EXCEPT ![s] = @ + 1] ELSE size
    /\ UNCHANGED <<toPhone, closed, requests, run, window, sent, whole, phone, wires>>

\* The request's end: too large, nowhere to go, or on its way to the engine.
reqEnd(s) ==
    /\ HostGets("reqEnd", s)
    /\ \/ s \notin requests /\ UNCHANGED <<toPhone, requests, run, sent, whole>>
       \/ /\ s \in requests
          /\ size[s] > Cap
          /\ requests' = requests \ {s}
          /\ run' = [run EXCEPT ![s] = "over"]
          /\ ToPhone(Plain("resHead", s) \o <<Frame("resBody", s, 1)>> \o Plain("resEnd", s))
          /\ sent' = [sent EXCEPT ![s] = 1]
          /\ whole' = whole \cup {s}
       \/ /\ s \in requests
          /\ size[s] <= Cap
          /\ run' = [run EXCEPT ![s] = "fetching"]
          /\ UNCHANGED <<toPhone, requests, sent, whole>>
    /\ UNCHANGED <<closed, size, window, phone, wires>>

\* resolve finds no route: the phone is told, and the entry stays in requests.
NoRoute(s) ==
    /\ HostGets("reqEnd", s)
    /\ s \in requests
    /\ size[s] <= Cap
    /\ run' = [run EXCEPT ![s] = "over"]
    /\ ToPhone(Plain("abort", s))
    /\ UNCHANGED <<closed, requests, size, window, sent, whole, phone, wires>>

\* The engine answers; whether the request is still wanted is not looked at.
Answers(s) ==
    /\ run[s] = "fetching"
    /\ \/ /\ run' = [run EXCEPT ![s] = "sending"]
          /\ ToPhone(Plain("resHead", s))
          /\ UNCHANGED <<requests, whole>>
       \/ /\ run' = [run EXCEPT ![s] = "over"]
          /\ requests' = requests \ {s}
          /\ whole' = whole \cup {s}
          /\ ToPhone(Plain("resNull", s))
    /\ UNCHANGED <<toHost, closed, size, window, sent, phone, wires>>

\* Mutant: a body that could not be read to its end is ended.
Rejects_ends(s) ==
    /\ run[s] \in {"fetching", "sending"}
    /\ run' = [run EXCEPT ![s] = "over"]
    /\ requests' = requests \ {s}
    /\ IF s \in requests THEN ToPhone(Plain("resEnd", s)) ELSE UNCHANGED toPhone
    /\ UNCHANGED <<toHost, closed, size, window, sent, whole, phone, wires>>

\* The fetch or the reading of its body rejects: the phone is told, unless the
\* request was forgotten meanwhile.
Rejects(s) ==
    /\ run[s] \in {"fetching", "sending"}
    /\ run' = [run EXCEPT ![s] = "over"]
    /\ requests' = requests \ {s}
    /\ IF s \in requests THEN ToPhone(Plain("abort", s)) ELSE UNCHANGED toPhone
    /\ UNCHANGED <<toHost, closed, size, window, sent, whole, phone, wires>>

\* sendBody: a piece, once there is room for some of it.
sendBody(s) ==
    /\ run[s] = "sending"
    /\ s \in requests
    /\ window[s] > 0
    /\ \E n \in 1 .. Chunk :
          /\ sent[s] + n <= Body
          /\ sent' = [sent EXCEPT ![s] = @ + n]
          /\ window' = [window EXCEPT ![s] = @ - n]
          /\ ToPhone(<<Frame("resBody", s, n)>>)
    /\ UNCHANGED <<toHost, closed, requests, run, size, whole, phone, wires>>

\* The body is at its end.
BodyEnds(s) ==
    /\ run[s] = "sending"
    /\ sent[s] = Body
    /\ run' = [run EXCEPT ![s] = "over"]
    /\ requests' = requests \ {s}
    /\ whole' = IF s \in requests THEN whole \cup {s} ELSE whole
    /\ ToPhone(Plain("resEnd", s))
    /\ UNCHANGED <<toHost, closed, size, window, sent, phone, wires>>

\* A piece for a request that is gone: its reader is cancelled.
Cancels(s) ==
    /\ run[s] = "sending"
    /\ s \notin requests
    /\ sent[s] < Body
    /\ run' = [run EXCEPT ![s] = "over"]
    /\ UNCHANGED <<toHost, toPhone, closed, requests, size, window, sent, whole, phone, wires>>

credit(s) ==
    /\ HostGets("credit", s)
    /\ window' = IF s \in requests THEN [window EXCEPT ![s] = @ + Head(toHost).bytes] ELSE window
    /\ UNCHANGED <<toPhone, closed, requests, run, size, sent, whole, phone, wires>>

forget(s) ==
    /\ HostGets("abort", s)
    /\ requests' = requests \ {s}
    /\ UNCHANGED <<toPhone, closed, run, size, window, sent, whole, phone, wires>>

------------------------------------------------------------------------------
(* Sockets, both sides.                                                    *)

socket(s) ==
    /\ phase[s] = "new"
    /\ \/ /\ "phone" \in closed
          /\ phase' = [phase EXCEPT ![s] = "closed"]
          /\ UNCHANGED <<streams, toHost>>
       \/ /\ "phone" \notin closed
          /\ phase' = [phase EXCEPT ![s] = "connecting"]
          /\ streams' = streams \cup {s}
          /\ ToHost(Plain("wsOpen", s))
    /\ UNCHANGED <<toPhone, closed, upload, received, taken, credited, host, wires>>

\* TunnelSocket: send, close, and what the host's frames do.
SocketSends(s) ==
    /\ phase[s] = "open"
    /\ told[s] < MaxTold
    /\ told' = [told EXCEPT ![s] = @ + 1]
    /\ ToHost(Plain("wsText", s))
    /\ UNCHANGED <<toPhone, closed, phone, host, sockets, engine>>

SocketCloses(s) ==
    /\ phase[s] \in {"connecting", "open"}
    /\ phase' = [phase EXCEPT ![s] = "closed"]
    /\ streams' = streams \ {s}
    /\ ToHost(Plain("wsClose", s))
    /\ UNCHANGED <<toPhone, closed, upload, received, taken, credited, host, wires>>

SocketHears(s) ==
    /\ s \in streams
    /\ \/ /\ PhoneGets("wsOpened", s)
          /\ phase' = [phase EXCEPT ![s] = "open"]
          /\ UNCHANGED streams
       \/ PhoneGets("wsText", s) /\ UNCHANGED <<phase, streams>>
       \/ /\ PhoneGets("wsClose", s)
          /\ phase' = [phase EXCEPT ![s] = "closed"]
          /\ streams' = streams \ {s}
    /\ UNCHANGED <<toHost, closed, upload, received, taken, credited, host, wires>>

\* openSocket: there is no route, or the engine is dialled.
openSocket(s) ==
    /\ HostGets("wsOpen", s)
    /\ \/ ToPhone(Plain("wsClose", s)) /\ UNCHANGED <<sockets, engine>>
       \/ /\ sockets' = sockets \cup {s}
          /\ engine' = [engine EXCEPT ![s] = "connecting"]
          /\ UNCHANGED toPhone
    /\ UNCHANGED <<closed, told, phone, host>>

EngineOpens(s) ==
    /\ engine[s] = "connecting"
    /\ s \in sockets
    /\ engine' = [engine EXCEPT ![s] = "open"]
    /\ ToPhone(Plain("wsOpened", s))
    /\ UNCHANGED <<toHost, closed, sockets, told, phone, host>>

EngineTells(s) ==
    /\ engine[s] = "open"
    /\ told[s] < MaxTold
    /\ told' = [told EXCEPT ![s] = @ + 1]
    /\ ToPhone(Plain("wsText", s))
    /\ UNCHANGED <<toHost, closed, sockets, engine, phone, host>>

\* The engine closes, refuses, is unreachable, or was closed to: then it is
\* heard until it has closed too.
EngineCloses(s) ==
    /\ engine[s] \in {"connecting", "open"}
    /\ engine' = [engine EXCEPT ![s] = "closed"]
    /\ sockets' = sockets \ {s}
    /\ IF s \in sockets THEN ToPhone(Plain("wsClose", s)) ELSE UNCHANGED toPhone
    /\ UNCHANGED <<toHost, closed, told, phone, host>>

\* Mutant: the engine's socket is closed, and stays in the map.
HostSocketHears_kept(s) ==
    /\ \/ HostGets("wsText", s) \/ HostGets("wsClose", s)
    /\ UNCHANGED <<toPhone, closed, sockets, engine, told, phone, host>>

HostSocketHears(s) ==
    /\ \/ HostGets("wsText", s) /\ UNCHANGED sockets
       \/ /\ HostGets("wsClose", s)
          /\ sockets' = sockets \ {s}
    /\ UNCHANGED <<toPhone, closed, engine, told, phone, host>>

------------------------------------------------------------------------------
(* The channel closes: either side, and then the other.                    *)

PhoneCloses ==
    /\ "phone" \notin closed
    /\ closed' = closed \cup {"phone"}
    /\ streams' = {}
    /\ phase' = [s \in Streams |-> IF s \notin streams THEN phase[s]
                                   ELSE IF s \in Requests THEN "failed" ELSE "closed"]
    /\ toPhone' = <<>>
    /\ UNCHANGED <<toHost, upload, received, taken, credited, host, wires>>

HostCloses ==
    /\ "host" \notin closed
    /\ closed' = closed \cup {"host"}
    /\ requests' = {}
    /\ sockets' = {}
    /\ toHost' = <<>>
    /\ UNCHANGED <<toPhone, engine, run, size, window, sent, whole, told, phone>>

Phoned(s)  == fetch(s) \/ BodyRead(s) \/ Aborts(s) \/ resHead(s) \/ resBody(s) \/ resEnd(s) \/ resAbort(s)
              \/ Take(s)
Served(s)  == reqHead(s) \/ reqBody(s) \/ reqEnd(s) \/ NoRoute(s) \/ Answers(s) \/ Rejects(s) \/ sendBody(s)
              \/ BodyEnds(s) \/ Cancels(s) \/ credit(s) \/ forget(s)
Spoken(s)  == socket(s) \/ SocketSends(s) \/ SocketCloses(s) \/ SocketHears(s) \/ openSocket(s)
              \/ EngineOpens(s) \/ EngineTells(s) \/ EngineCloses(s) \/ HostSocketHears(s)

Next ==
    \/ \E s \in Requests : Phoned(s) \/ Served(s)
    \/ \E s \in Sockets : Spoken(s)
    \/ PhoneIgnores
    \/ PhoneCloses
    \/ HostCloses

Spec == Init /\ [][Next]_vars

\* Frames arrive while the channel is open and a channel closed on one side
\* closes on the other; the engine answers and ends its answers; a reader reads.
Receiving(s) == resHead(s) \/ resBody(s) \/ resEnd(s) \/ resAbort(s)
Hosting(s)   == reqHead(s) \/ reqBody(s) \/ reqEnd(s) \/ NoRoute(s) \/ credit(s) \/ forget(s)
Answering(s) == Answers(s) \/ sendBody(s) \/ BodyEnds(s) \/ Cancels(s)

FairSpec ==
    /\ Spec
    /\ WF_vars(PhoneIgnores \/ (\E s \in Requests : Receiving(s)) \/ \E s \in Sockets : SocketHears(s))
    /\ WF_vars((\E s \in Requests : Hosting(s)) \/ \E s \in Sockets : openSocket(s) \/ HostSocketHears(s))
    /\ WF_vars(\E s \in Requests : Answering(s))
    /\ WF_vars(\E s \in Requests : Take(s))
    /\ WF_vars(closed # {} /\ (PhoneCloses \/ HostCloses))

------------------------------------------------------------------------------
(* Properties.                                                             *)

\* "The host sends no more than this past what the phone said it read": what of
\* an answer is sent and not taken by its reader, wherever it is held, is never
\* a whole chunk over the window, whatever order pieces and credit cross in.
WindowHolds == \A s \in Requests : sent[s] - taken[s] < Window + Chunk

\* A body that ends without an error for its reader is the whole answer: what
\* fails, is aborted or is cut off half way is never read as if complete.
WholeOrFailed == \A s \in Requests : phase[s] = "ended" => s \in whole /\ received[s] = sent[s]

\* With no frame of a stream on its way, the phone and the host agree whether it
\* is open: neither waits on, nor keeps, what the other is done with.  The
\* exception is a request that had no route, whose entry the host keeps.
InFlight(s) == \E k \in DOMAIN toHost : toHost[k].stream = s
Coming(s)   == \E k \in DOMAIN toPhone : toPhone[k].stream = s
BothSidesAgree ==
    closed = {} =>
        \A s \in Streams :
            \/ InFlight(s) \/ Coming(s)
            \/ s \in streams <=> s \in requests \cup sockets
            \/ s \in Requests /\ run[s] = "over" /\ s \in requests /\ s \notin streams

\* A request that was sent settles: its answer ends, or fails, however little
\* the window leaves the host to send and whichever side closes the channel.
EveryFetchSettles ==
    \A s \in Requests : s \in streams /\ "phone" \notin closed ~> s \notin streams

===============================================================================
