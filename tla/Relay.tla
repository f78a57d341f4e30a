-------------------------------- MODULE Relay ---------------------------------
(***************************************************************************)
(* The relay between one host's connections and the phones that look for   *)
(* it (packages/relay/src/relay.ts), with the host's and the phones' ends  *)
(* of it (packages/remote/src/connect.ts).                                 *)
(*                                                                         *)
(* A host keeps one connection to the relay and makes another when it is   *)
(* lost; the relay lets the newest one that proves who it is replace the   *)
(* one before.  On a connection the phones' frames carry the number of a   *)
(* channel, and every connection counts its channels from 1.               *)
(*                                                                         *)
(* Each direction of a connection is a queue.  Either end may find it dead *)
(* before the other does, and what was on its way is then lost.  The       *)
(* challenge and the host's answer to it are one step; what frames hold is *)
(* left out, but for the phone and the connection they come from.          *)
(***************************************************************************)
EXTENDS Naturals, Sequences, FiniteSets

CONSTANTS
    Places,      \* where the host's identity runs: the desktop, and another copy of it
    Phones,
    MaxClients,  \* maxClientsPerHost
    MaxConns,    \* bound: connections of the host
    MaxSaid,     \* bound: frames sent on a phone's channel
    MaxBreaks    \* bound: connections and channels an end gives up by itself

ASSUME RelayAssumption ==
    /\ MaxClients \in Nat
    /\ MaxConns \in Nat
    /\ MaxSaid \in Nat
    /\ MaxBreaks \in Nat

Conns == 1 .. MaxConns

VARIABLES
    owner,       \* whose each connection made so far is
    socket,      \* each place's socket, 0 for none
    stopped,     \* the places that connect no more
    channels,    \* each place's map of wires, by channel
    toRelay,     \* frames on their way on each connection
    toHost,
    peer,        \* the relay's end of each connection
    registered,  \* the connection in hosts, 0 when the host is offline
    nextChannel,
    clients,     \* the channels in that entry, each with its phone
    data,        \* the connection and the channel a phone's socket was given
    link,        \* the relay's end of each phone's socket
    phone,       \* each phone's end
    toPhone,
    fromPhone,
    heard,       \* what reached an end: the phone, and the wire at the other
    said,        \* frames sent on each phone's channel
    breaks       \* what was given up so far

hostEnd  == <<owner, socket, stopped, channels>>
relayEnd == <<peer, registered, nextChannel, clients, data, link>>
queues   == <<toRelay, toHost, toPhone, fromPhone>>
vars     == <<hostEnd, queues, relayEnd, phone, heard, said, breaks>>

Wires    == [conn : Conns, channel : Nat \ {0}]
Unplaced == [conn |-> 0, channel |-> 0]

TypeOK ==
    /\ owner \in Seq(Places) /\ Len(owner) <= MaxConns
    /\ socket \in [Places -> 0 .. MaxConns]
    /\ stopped \in SUBSET Places
    /\ channels \in [Places -> SUBSET Wires]
    /\ DOMAIN toRelay = Conns /\ DOMAIN toHost = Conns
    /\ peer \in [Conns -> {"none", "verifying", "authed", "gone"}]
    /\ registered \in 0 .. MaxConns
    /\ nextChannel \in Nat \ {0}
    /\ clients \in SUBSET [channel : Nat \ {0}, phone : Phones]
    /\ data \in [Phones -> Wires \cup {Unplaced}]
    /\ link \in [Phones -> {"none", "open", "closing", "gone"}]
    /\ phone \in [Phones -> {"new", "connecting", "ready", "closed"}]
    /\ DOMAIN toPhone = Phones /\ DOMAIN fromPhone = Phones
    /\ said \in [Phones -> Nat]
    /\ breaks \in Nat
    /\ heard \in SUBSET [by : {"host", "phone"}, phone : Phones, wire : Wires]

Init ==
    /\ owner = <<>>
    /\ socket = [p \in Places |-> 0]
    /\ stopped = {}
    /\ channels = [p \in Places |-> {}]
    /\ toRelay = [k \in Conns |-> <<>>]
    /\ toHost = [k \in Conns |-> <<>>]
    /\ peer = [k \in Conns |-> "none"]
    /\ registered = 0
    /\ nextChannel = 1
    /\ clients = {}
    /\ data = [c \in Phones |-> Unplaced]
    /\ link = [c \in Phones |-> "none"]
    /\ phone = [c \in Phones |-> "new"]
    /\ toPhone = [c \in Phones |-> <<>>]
    /\ fromPhone = [c \in Phones |-> <<>>]
    /\ said = [c \in Phones |-> 0]
    /\ breaks = 0
    /\ heard = {}

------------------------------------------------------------------------------
(* Frames, and the sockets they travel on.                                 *)

Open(ch)        == [t |-> "open", channel |-> ch]
Close(ch)       == [t |-> "close", channel |-> ch]
Data(ch, c, w)  == [t |-> "data", channel |-> ch, phone |-> c, wire |-> w]

\* What is sent on a connection that its other end has closed goes nowhere.
ToHost(k, f) ==
    toHost' = IF socket[owner[k]] = k THEN [toHost EXCEPT ![k] = Append(@, f)] ELSE toHost
ToRelay(k, f) ==
    toRelay' = IF peer[k] # "gone" THEN [toRelay EXCEPT ![k] = Append(@, f)] ELSE toRelay

\* The relay closes some phones' sockets: what they had sent may still come.
Hangs(cs) ==
    /\ link' = [c \in Phones |-> IF c \in cs /\ link[c] = "open" THEN "closing" ELSE link[c]]
    /\ toPhone' = [c \in Phones |-> IF c \in cs /\ link[c] = "open" THEN Append(toPhone[c], [t |-> "close"])
                                    ELSE toPhone[c]]

\* An end closes or loses what the other has not, or follows it.
Breaks(follows) == IF follows THEN UNCHANGED breaks ELSE breaks < MaxBreaks /\ breaks' = breaks + 1

InEntry == {e.phone : e \in clients}

------------------------------------------------------------------------------
(* startRelayHost.                                                         *)

connect(p) ==
    LET k == Len(owner) + 1
    IN /\ p \notin stopped
       /\ socket[p] = 0
       /\ k \in Conns
       /\ owner' = Append(owner, p)
       /\ socket' = [socket EXCEPT ![p] = k]
       /\ toRelay' = [toRelay EXCEPT ![k] = <<[t |-> "auth"]>>]
       /\ peer' = [peer EXCEPT ![k] = "verifying"]
       /\ UNCHANGED <<stopped, channels, toHost, toPhone, fromPhone, registered, nextChannel, clients, data,
                      link, phone, heard, said, breaks>>

\* The next frame on the place's connection.
Next1(p, t) == socket[p] # 0 /\ toHost[socket[p]] # <<>> /\ Head(toHost[socket[p]]).t = t
Taken(p)    == toHost' = [toHost EXCEPT ![socket[p]] = Tail(@)]

HostOpens(p) ==
    /\ Next1(p, "open")
    /\ LET ch == Head(toHost[socket[p]]).channel
       IN channels' = [channels EXCEPT ![p] = {w \in @ : w.channel # ch}
                                              \cup {[conn |-> socket[p], channel |-> ch]}]
    /\ Taken(p)
    /\ UNCHANGED <<owner, socket, stopped, toRelay, toPhone, fromPhone, relayEnd, phone, heard, said, breaks>>

HostCloses(p) ==
    /\ Next1(p, "close")
    /\ channels' = [channels EXCEPT ![p] = {w \in @ : w.channel # Head(toHost[socket[p]]).channel}]
    /\ Taken(p)
    /\ UNCHANGED <<owner, socket, stopped, toRelay, toPhone, fromPhone, relayEnd, phone, heard, said, breaks>>

HostHears(p) ==
    /\ Next1(p, "data")
    /\ LET f == Head(toHost[socket[p]])
       IN heard' = heard \cup {[by |-> "host", phone |-> f.phone, wire |-> w] :
                                  w \in {w \in channels[p] : w.channel = f.channel}}
    /\ Taken(p)
    /\ UNCHANGED <<hostEnd, toRelay, toPhone, fromPhone, relayEnd, phone, said, breaks>>

\* Mutant: the wires of the lost connection stay.
Lost_kept(p, replaced) ==
    /\ socket[p] # 0
    /\ socket' = [socket EXCEPT ![p] = 0]
    /\ stopped' = IF replaced THEN stopped \cup {p} ELSE stopped
    /\ toHost' = [toHost EXCEPT ![socket[p]] = <<>>]
    /\ UNCHANGED <<owner, channels, toRelay, toPhone, fromPhone, relayEnd, phone, heard, said>>

\* onclose: closeChannels, and another connection unless this one was replaced.
Lost(p, replaced) ==
    /\ socket[p] # 0
    /\ channels' = [channels EXCEPT ![p] = {}]
    /\ socket' = [socket EXCEPT ![p] = 0]
    /\ stopped' = IF replaced THEN stopped \cup {p} ELSE stopped
    /\ toHost' = [toHost EXCEPT ![socket[p]] = <<>>]
    /\ UNCHANGED <<owner, toRelay, toPhone, fromPhone, relayEnd, phone, heard, said>>

HostGone(p)  == Next1(p, "hostGone") /\ Lost(p, TRUE) /\ UNCHANGED breaks
HostLoses(p) == Lost(p, FALSE) /\ Breaks(peer[socket[p]] = "gone")
stop(p)      == Lost(p, TRUE) /\ Breaks(FALSE)

\* What the host does with a wire: it sends on it, or closes it.
WireSends(p) ==
    \E w \in channels[p], c \in Phones :
        /\ data[c] = w
        /\ said[c] < MaxSaid
        /\ said' = [said EXCEPT ![c] = @ + 1]
        /\ ToRelay(w.conn, Data(w.channel, c, w))
        /\ UNCHANGED <<hostEnd, toHost, toPhone, fromPhone, relayEnd, phone, heard, breaks>>

WireCloses(p) ==
    \E w \in channels[p] :
        /\ channels' = [channels EXCEPT ![p] = {v \in @ : v.channel # w.channel}]
        /\ ToRelay(w.conn, Close(w.channel))
        /\ UNCHANGED <<owner, socket, stopped, toHost, toPhone, fromPhone, relayEnd, phone, heard, said>>
        /\ Breaks(FALSE)

------------------------------------------------------------------------------
(* connectRelayClient.                                                     *)

PhoneHears(c) ==
    /\ phone[c] \in {"connecting", "ready"}
    /\ toPhone[c] # <<>>
    /\ toPhone' = [toPhone EXCEPT ![c] = Tail(@)]
    /\ LET f == Head(toPhone[c])
       IN /\ phone' = [phone EXCEPT ![c] = CASE f.t = "ready" -> "ready"
                                             [] f.t = "close" -> "closed"
                                             [] OTHER         -> @]
          /\ heard' = IF f.t = "data" /\ phone[c] = "ready"
                      THEN heard \cup {[by |-> "phone", phone |-> c, wire |-> f.wire]} ELSE heard
    /\ UNCHANGED <<hostEnd, toRelay, toHost, fromPhone, relayEnd, said, breaks>>

PhoneSends(c) ==
    /\ phone[c] = "ready"
    /\ said[c] < MaxSaid
    /\ said' = [said EXCEPT ![c] = @ + 1]
    /\ fromPhone' = [fromPhone EXCEPT ![c] = Append(@, "data")]
    /\ UNCHANGED <<hostEnd, toRelay, toHost, toPhone, relayEnd, phone, heard, breaks>>

\* The phone closes, gives up waiting, or finds the connection dead.
PhoneCloses(c) ==
    /\ phone[c] \in {"connecting", "ready"}
    /\ phone' = [phone EXCEPT ![c] = "closed"]
    /\ UNCHANGED <<hostEnd, queues, relayEnd, heard, said>>
    /\ Breaks(FALSE)

------------------------------------------------------------------------------
(* startRelay: the phones' sockets.                                        *)

\* open, of a phone, which is when connectRelayClient has anybody to talk to.
RelayOpens(c) ==
    /\ phone[c] = "new"
    /\ phone' = [phone EXCEPT ![c] = "connecting"]
    /\ IF registered = 0 \/ Cardinality(clients) >= MaxClients
       THEN /\ link' = [link EXCEPT ![c] = "closing"]
            /\ toPhone' = [toPhone EXCEPT ![c] = Append(@, [t |-> "close"])]
            /\ UNCHANGED <<nextChannel, clients, data, toHost>>
       ELSE /\ link' = [link EXCEPT ![c] = "open"]
            /\ data' = [data EXCEPT ![c] = [conn |-> registered, channel |-> nextChannel]]
            /\ nextChannel' = nextChannel + 1
            /\ clients' = clients \cup {[channel |-> nextChannel, phone |-> c]}
            /\ ToHost(registered, Open(nextChannel))
            /\ toPhone' = [toPhone EXCEPT ![c] = Append(@, [t |-> "ready"])]
    /\ UNCHANGED <<hostEnd, toRelay, fromPhone, peer, registered, heard, said, breaks>>

\* Mutant: the entry has the number of the socket's channel.
Routed_numbered(c) == data[c].channel \in {e.channel : e \in clients}

\* Whose frames go on: those of the socket the entry holds under its channel.
Routed(c) == [channel |-> data[c].channel, phone |-> c] \in clients

\* message, of a phone.
RelayForwards(c) ==
    /\ link[c] \in {"open", "closing"}
    /\ fromPhone[c] # <<>>
    /\ fromPhone' = [fromPhone EXCEPT ![c] = Tail(@)]
    /\ IF registered # 0 /\ Routed(c)
       THEN /\ ToHost(registered, Data(data[c].channel, c, data[c]))
            /\ UNCHANGED <<link, toPhone>>
       ELSE Hangs({c}) /\ UNCHANGED toHost
    /\ UNCHANGED <<hostEnd, toRelay, peer, registered, nextChannel, clients, data, phone, heard, said, breaks>>

\* close, of a phone: it left, or was too slow, or idle.
RelayReleases(c) ==
    /\ link[c] \in {"open", "closing"}
    /\ link' = [link EXCEPT ![c] = "gone"]
    /\ fromPhone' = [fromPhone EXCEPT ![c] = <<>>]
    /\ toPhone' = IF link[c] = "open" THEN [toPhone EXCEPT ![c] = Append(@, [t |-> "close"])] ELSE toPhone
    /\ IF registered # 0 /\ Routed(c)
       THEN /\ clients' = clients \ {[channel |-> data[c].channel, phone |-> c]}
            /\ ToHost(registered, Close(data[c].channel))
       ELSE UNCHANGED <<clients, toHost>>
    /\ UNCHANGED <<hostEnd, toRelay, peer, registered, nextChannel, data, phone, heard, said>>
    /\ Breaks(phone[c] = "closed" \/ link[c] = "closing")

------------------------------------------------------------------------------
(* startRelay: the host's sockets.                                         *)

Next2(k, t) == toRelay[k] # <<>> /\ Head(toRelay[k]).t = t
Read(k)     == toRelay' = [toRelay EXCEPT ![k] = Tail(@)]

\* Mutant: the phones of the connection before are not let go.
Admits_keeping(k) ==
    /\ peer[k] = "verifying"
    /\ Next2(k, "auth")
    /\ Read(k)
    /\ peer' = [j \in Conns |-> IF j = k THEN "authed" ELSE IF j = registered THEN "gone" ELSE peer[j]]
    /\ IF registered = 0 THEN UNCHANGED toHost ELSE ToHost(registered, [t |-> "hostGone"])
    /\ registered' = k
    /\ clients' = {}
    /\ nextChannel' = 1
    /\ UNCHANGED <<hostEnd, toPhone, fromPhone, data, link, phone, heard, said, breaks>>

\* The answer was verified while the socket stayed open: this connection is
\* the host's, and the one before it and its phones are let go.
Admits(k) ==
    /\ peer[k] = "verifying"
    /\ Next2(k, "auth")
    /\ Read(k)
    /\ peer' = [j \in Conns |-> IF j = k THEN "authed" ELSE IF j = registered THEN "gone" ELSE peer[j]]
    /\ IF registered = 0 THEN UNCHANGED toHost ELSE ToHost(registered, [t |-> "hostGone"])
    /\ Hangs(InEntry)
    /\ registered' = k
    /\ clients' = {}
    /\ nextChannel' = 1
    /\ UNCHANGED <<hostEnd, fromPhone, data, phone, heard, said, breaks>>

\* message, of an authenticated host: a frame for a channel, or its end.
RelayDelivers(k) ==
    /\ peer[k] = "authed"
    /\ Next2(k, "data")
    /\ Read(k)
    /\ LET f  == Head(toRelay[k])
           to == {e.phone : e \in {e \in clients : e.channel = f.channel}}
       IN toPhone' = [c \in Phones |-> IF registered = k /\ c \in to /\ link[c] = "open"
                                       THEN Append(toPhone[c], f) ELSE toPhone[c]]
    /\ UNCHANGED <<hostEnd, toHost, fromPhone, relayEnd, phone, heard, said, breaks>>

RelayCloses(k) ==
    /\ peer[k] = "authed"
    /\ Next2(k, "close")
    /\ Read(k)
    /\ LET gone == {e \in clients : registered = k /\ e.channel = Head(toRelay[k]).channel}
       IN clients' = clients \ gone /\ Hangs({e.phone : e \in gone})
    /\ UNCHANGED <<hostEnd, toHost, fromPhone, peer, registered, nextChannel, data, phone, heard, said, breaks>>

\* close, of a host: it left, was too slow to answer, or its network is gone.
RelayLoses(k) ==
    /\ peer[k] \in {"verifying", "authed"}
    /\ peer' = [peer EXCEPT ![k] = "gone"]
    /\ toRelay' = [toRelay EXCEPT ![k] = <<>>]
    /\ IF registered = k
       THEN registered' = 0 /\ clients' = {} /\ Hangs(InEntry)
       ELSE UNCHANGED <<registered, clients, link, toPhone>>
    /\ UNCHANGED <<hostEnd, toHost, fromPhone, nextChannel, data, phone, heard, said>>
    /\ Breaks(socket[owner[k]] # k)

Hosted(p)  == connect(p) \/ HostOpens(p) \/ HostCloses(p) \/ HostHears(p) \/ HostGone(p) \/ HostLoses(p)
              \/ stop(p) \/ WireSends(p) \/ WireCloses(p)
Phoned(c)  == PhoneHears(c) \/ PhoneSends(c) \/ PhoneCloses(c) \/ RelayOpens(c)
              \/ RelayForwards(c) \/ RelayReleases(c)
Relayed(k) == Admits(k) \/ RelayDelivers(k) \/ RelayCloses(k) \/ RelayLoses(k)

Next ==
    \/ \E p \in Places : Hosted(p)
    \/ \E c \in Phones : Phoned(c)
    \/ \E k \in Conns : Relayed(k)

Spec == Init /\ [][Next]_vars

------------------------------------------------------------------------------
(* Properties.                                                             *)

\* A frame reaches the end it was meant for: the wire the host opened for the
\* phone that sent it, or the phone that wire was opened for, though channels
\* are numbered again on every connection, and frames for a channel that was
\* closed or a connection that was replaced are still on their way.
RightWire == \A h \in heard : h.wire = data[h.phone]

\* The host keeps no wire of a connection it lost; and with nothing on its way
\* on the one it has, its wires are the channels the relay keeps for phones.
WiresAgree ==
    \A p \in Places :
        LET k == socket[p]
        IN /\ \A w \in channels[p] : w.conn = k
           /\ (k # 0 /\ registered = k /\ toHost[k] = <<>> /\ toRelay[k] = <<>>)
              => {w.channel : w \in channels[p]} = {e.channel : e \in clients}

\* A phone that was told "ready", and that nothing is on its way to, is on a
\* channel of the connection the host has now: one whose host reconnected, was
\* replaced or closed the channel is told, and none keeps talking to nobody.
PhonesAgree ==
    \A c \in Phones :
        phone[c] = "ready" /\ toPhone[c] = <<>> => data[c].conn = registered /\ Routed(c)

===============================================================================
