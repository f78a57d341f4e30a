------------------------------ MODULE RelayProofs ------------------------------
(***************************************************************************)
(* What the relay and its two ends promise, proved for every number of     *)
(* places, of phones and of connections, and for every limit: a frame      *)
(* reaches the wire it was sent for, the two ends of a quiet connection    *)
(* keep the same channels, and a phone with nothing on its way to it is on *)
(* a channel of the host.                                                  *)
(***************************************************************************)
EXTENDS Relay, TLAPS

------------------------------------------------------------------------------
(* What is on its way.                                                     *)

Chs      == Nat \ {0}
Elems(s) == {s[i] : i \in 1 .. Len(s)}

AuthFrame  == [t |-> "auth"]
GoneFrame  == [t |-> "hostGone"]
ReadyFrame == [t |-> "ready"]
EndFrame   == [t |-> "close"]

DataFrames  == [t : {"data"}, channel : Chs, phone : Phones, wire : Wires]
HostFrames  == [t : {"open", "close"}, channel : Chs] \cup {GoneFrame} \cup DataFrames
RelayFrames == [t : {"close"}, channel : Chs] \cup {AuthFrame} \cup DataFrames
PhoneFrames == {ReadyFrame, EndFrame} \cup DataFrames

\* The channels a queue has the opening of, and the end of.
Opens(s)  == {ch \in Chs : Open(ch) \in Elems(s)}
Closes(s) == {ch \in Chs : Close(ch) \in Elems(s)}

\* Channels are opened in the order of their numbers, and none is opened again
\* behind its end.
Ordered(s) ==
    \A i, j \in 1 .. Len(s) : s[j].t = "open" =>
        /\ s[i].t = "close" /\ s[i].channel = s[j].channel => j < i
        /\ s[i].t = "open" /\ i < j => s[i].channel < s[j].channel

(***************************************************************************)
(* How the two ends of a connection stand to each other, as sets of        *)
(* channels: opens and ends on their way to the host, the host's wires,    *)
(* ends on their way back, the relay's entries, and the next number.       *)
(***************************************************************************)
Fits(opens, closes, wires, back, entries, next) ==
    /\ entries \subseteq opens \cup wires \cup back
    /\ wires \subseteq entries \cup closes
    /\ opens \subseteq entries \cup closes
    /\ opens \cap wires = {} /\ opens \cap back = {} /\ back \cap wires = {}
    /\ closes \cap entries = {}
    /\ \A ch \in entries \cup wires \cup opens \cup closes \cup back : ch < next

\* Nothing is on its way, and the ends agree.
LEMMA FitsStill ==
    ASSUME NEW W, NEW E, NEW n, Fits({}, {}, W, {}, E, n)
    PROVE  W = E
BY DEF Fits

\* A new connection has nothing to disagree about.
LEMMA FitsNone == Fits({}, {}, {}, {}, {}, 1)
BY DEF Fits

\* The relay gives a phone the next channel.
LEMMA FitsGiven ==
    ASSUME NEW O \in SUBSET Chs, NEW C \in SUBSET Chs, NEW W \in SUBSET Chs, NEW B \in SUBSET Chs,
           NEW E \in SUBSET Chs, NEW n \in Chs, Fits(O, C, W, B, E, n)
    PROVE  Fits(O \cup {n}, C, W, B, E \cup {n}, n + 1)
<1>1. n \notin O /\ n \notin C /\ n \notin W /\ n \notin B /\ n \notin E
  BY DEF Fits, Chs
<1>2. \A ch \in E \cup W \cup O \cup C \cup B : ch < n + 1
  BY DEF Fits, Chs
<1>3. n < n + 1
  BY DEF Chs
<1> QED BY <1>1, <1>2, <1>3, Zenon DEF Fits

\* The host has the wire it was told to open.
LEMMA FitsOpened ==
    ASSUME NEW O, NEW C, NEW W, NEW B, NEW E, NEW n, NEW ch \in O, Fits(O, C, W, B, E, n)
    PROVE  Fits(O \ {ch}, C, W \cup {ch}, B, E, n)
BY Zenon DEF Fits

\* The host drops a wire the relay had ended.
LEMMA FitsEnded ==
    ASSUME NEW O, NEW C, NEW W, NEW B, NEW E, NEW n, NEW ch \in C, NEW C2,
           C \ {ch} \subseteq C2, C2 \subseteq C, ch \notin O, Fits(O, C, W, B, E, n)
    PROVE  Fits(O, C2, W \ {ch}, B, E, n)
BY DEF Fits

\* The host ends a wire, and says so.
LEMMA FitsLeft ==
    ASSUME NEW O, NEW C, NEW W, NEW B, NEW E, NEW n, NEW ch \in W, Fits(O, C, W, B, E, n)
    PROVE  Fits(O, C, W \ {ch}, B \cup {ch}, E, n)
BY DEF Fits

\* The relay lets a phone go, and tells the host.
LEMMA FitsReleased ==
    ASSUME NEW O, NEW C, NEW W, NEW B, NEW E, NEW n, NEW ch \in E, Fits(O, C, W, B, E, n)
    PROVE  Fits(O, C \cup {ch}, W, B, E \ {ch}, n)
BY DEF Fits

\* The relay ends a channel the host had ended.
LEMMA FitsCut ==
    ASSUME NEW O, NEW C, NEW W, NEW B, NEW E, NEW n, NEW ch \in B, NEW B2,
           B \ {ch} \subseteq B2, B2 \subseteq B, Fits(O, C, W, B, E, n)
    PROVE  Fits(O, C, W, B2, E \ {ch}, n)
BY DEF Fits

(* Queues.                                                                 *)

LEMMA ElemsNone == Elems(<<>>) = {} /\ Opens(<<>>) = {} /\ Closes(<<>>) = {} /\ Ordered(<<>>)
BY DEF Elems, Opens, Closes, Ordered

LEMMA ElemsAppend ==
    ASSUME NEW F, NEW s \in Seq(F), NEW f \in F
    PROVE  /\ Append(s, f) \in Seq(F)
           /\ Append(s, f) # <<>>
           /\ Elems(Append(s, f)) = Elems(s) \cup {f}
<1>1. /\ Append(s, f) \in Seq(F) /\ Len(Append(s, f)) = Len(s) + 1 /\ Len(s) \in Nat
      /\ Append(s, f)[Len(s) + 1] = f
      /\ \A i \in 1 .. Len(s) : Append(s, f)[i] = s[i]
  OBVIOUS
<1>2. Append(s, f) # <<>>
  <2>1. Len(Append(s, f)) # 0 /\ Len(<<>>) = 0
    BY <1>1
  <2> QED BY <2>1
<1>3. 1 .. Len(s) + 1 = (1 .. Len(s)) \cup {Len(s) + 1}
  BY <1>1
<1> QED BY <1>1, <1>2, <1>3 DEF Elems

LEMMA ElemsTail ==
    ASSUME NEW F, NEW s \in Seq(F), s # <<>>
    PROVE  /\ Head(s) \in F
           /\ Tail(s) \in Seq(F)
           /\ Head(s) \in Elems(s)
           /\ Elems(Tail(s)) \subseteq Elems(s)
           /\ Elems(s) \subseteq Elems(Tail(s)) \cup {Head(s)}
<1>1. /\ Tail(s) \in Seq(F) /\ Len(s) \in Nat /\ Len(s) > 0 /\ Head(s) = s[1] /\ Head(s) \in F
      /\ Len(Tail(s)) = Len(s) - 1
      /\ \A i \in 1 .. Len(s) - 1 : Tail(s)[i] = s[i + 1]
  OBVIOUS
<1>2. \A i \in 1 .. Len(s) - 1 : i + 1 \in 1 .. Len(s)
  BY <1>1
<1>3. \A i \in 1 .. Len(s) : i = 1 \/ (i - 1 \in 1 .. Len(s) - 1 /\ Tail(s)[i - 1] = s[i])
  <2> TAKE i \in 1 .. Len(s)
  <2>1. i # 1 => i - 1 \in 1 .. Len(s) - 1 /\ (i - 1) + 1 = i
    BY <1>1
  <2> QED BY <2>1, <1>1
<1>4. 1 \in 1 .. Len(s)
  BY <1>1
<1> QED BY <1>1, <1>2, <1>3, <1>4 DEF Elems

LEMMA ElemsIn ==
    ASSUME NEW F, NEW s \in Seq(F)
    PROVE  Elems(s) \subseteq F
BY DEF Elems

(* Frames.                                                                 *)

LEMMA FrameShape ==
    /\ \A ch \in Chs : /\ Open(ch) \in HostFrames /\ Open(ch).t = "open" /\ Open(ch).channel = ch
                       /\ Close(ch) \in HostFrames /\ Close(ch) \in RelayFrames
                       /\ Close(ch).t = "close" /\ Close(ch).channel = ch
    /\ \A ch \in Chs : \A c \in Phones : \A w \in Wires :
          /\ Data(ch, c, w) \in DataFrames
          /\ Data(ch, c, w).t = "data" /\ Data(ch, c, w).channel = ch
          /\ Data(ch, c, w).phone = c /\ Data(ch, c, w).wire = w
    /\ GoneFrame \in HostFrames /\ GoneFrame.t = "hostGone"
    /\ AuthFrame \in RelayFrames /\ AuthFrame.t = "auth"
    /\ ReadyFrame \in PhoneFrames /\ ReadyFrame.t = "ready"
    /\ EndFrame \in PhoneFrames /\ EndFrame.t = "close"
    /\ DataFrames \subseteq HostFrames /\ DataFrames \subseteq RelayFrames /\ DataFrames \subseteq PhoneFrames
BY DEF Open, Close, Data, HostFrames, RelayFrames, PhoneFrames, DataFrames, GoneFrame, AuthFrame, ReadyFrame,
       EndFrame

LEMMA FrameKinds ==
    /\ \A f \in HostFrames : /\ f.t = "open" => f.channel \in Chs /\ f = Open(f.channel)
                             /\ f.t = "close" => f.channel \in Chs /\ f = Close(f.channel)
                             /\ f.t = "data" => f \in DataFrames
    /\ \A f \in RelayFrames : /\ f.t = "close" => f.channel \in Chs /\ f = Close(f.channel)
                              /\ f.t = "data" => f \in DataFrames
    /\ \A f \in PhoneFrames : /\ f.t = "close" => f = EndFrame
                              /\ f.t = "data" => f \in DataFrames
    /\ \A f \in DataFrames : /\ f.t = "data" /\ f.channel \in Chs /\ f.phone \in Phones /\ f.wire \in Wires
BY DEF Open, Close, Data, HostFrames, RelayFrames, PhoneFrames, DataFrames, GoneFrame, AuthFrame, ReadyFrame,
       EndFrame

\* A frame joins a queue.
LEMMA OpensAppend ==
    ASSUME NEW F, NEW s \in Seq(F), NEW f \in F
    PROVE  /\ Opens(Append(s, f)) = Opens(s) \cup {ch \in Chs : Open(ch) = f}
           /\ Closes(Append(s, f)) = Closes(s) \cup {ch \in Chs : Close(ch) = f}
BY ElemsAppend DEF Opens, Closes

\* A frame leaves a queue.
LEMMA OpensTail ==
    ASSUME NEW F, NEW s \in Seq(F), s # <<>>
    PROVE  /\ Opens(Tail(s)) \subseteq Opens(s)
           /\ \A ch \in Opens(s) : ch \in Opens(Tail(s)) \/ Open(ch) = Head(s)
           /\ Closes(Tail(s)) \subseteq Closes(s)
           /\ \A ch \in Closes(s) : ch \in Closes(Tail(s)) \/ Close(ch) = Head(s)
BY ElemsTail DEF Opens, Closes

LEMMA OrderedTail ==
    ASSUME NEW s \in Seq(HostFrames), s # <<>>, Ordered(s)
    PROVE  /\ Ordered(Tail(s))
           /\ Head(s).t = "open" => Head(s).channel \notin Opens(Tail(s))
           /\ Head(s).t = "close" => Head(s).channel \notin Opens(s)
<1>1. /\ Tail(s) \in Seq(HostFrames) /\ Len(s) \in Nat /\ Len(s) > 0 /\ Head(s) = s[1] /\ Head(s) \in HostFrames
      /\ Len(Tail(s)) = Len(s) - 1
      /\ \A i \in 1 .. Len(s) - 1 : Tail(s)[i] = s[i + 1]
  OBVIOUS
<1>2. Ordered(Tail(s))
  <2> SUFFICES ASSUME NEW i \in 1 .. Len(s) - 1, NEW j \in 1 .. Len(s) - 1, s[j + 1].t = "open"
               PROVE  /\ s[i + 1].t = "close" /\ s[i + 1].channel = s[j + 1].channel => j < i
                      /\ s[i + 1].t = "open" /\ i < j => s[i + 1].channel < s[j + 1].channel
    BY <1>1 DEF Ordered
  <2>1. i + 1 \in 1 .. Len(s) /\ j + 1 \in 1 .. Len(s) /\ (j + 1 < i + 1 <=> j < i) /\ (i + 1 < j + 1 <=> i < j)
    BY <1>1
  <2> QED BY <2>1 DEF Ordered
<1>3. ASSUME NEW ch \in Chs, NEW j \in 1 .. Len(s), s[j] = Open(ch), Head(s).t = "close"
      PROVE  Head(s).channel # ch
  <2>1. s[j].t = "open" /\ s[j].channel = ch /\ 1 \in 1 .. Len(s) /\ ~(j < 1)
    BY <1>1, <1>3, FrameShape
  <2> QED BY <2>1, <1>1, <1>3 DEF Ordered
<1>4. ASSUME NEW ch \in Chs, NEW j \in 1 .. Len(s) - 1, s[j + 1] = Open(ch), Head(s).t = "open"
      PROVE  Head(s).channel # ch
  <2>1. s[j + 1].t = "open" /\ s[j + 1].channel = ch /\ 1 \in 1 .. Len(s) /\ j + 1 \in 1 .. Len(s) /\ 1 < j + 1
    BY <1>1, <1>4, FrameShape
  <2>2. s[1].channel < ch
    BY <2>1, <1>1, <1>4 DEF Ordered
  <2>3. s[1].channel \in Chs
    BY <1>1, <1>4, FrameKinds
  <2> QED BY <2>2, <2>3, <1>1 DEF Chs
<1>5. \A ch \in Opens(s) : \E j \in 1 .. Len(s) : s[j] = Open(ch)
  BY DEF Opens, Elems
<1>6. \A ch \in Opens(Tail(s)) : \E j \in 1 .. Len(s) - 1 : s[j + 1] = Open(ch)
  BY <1>1 DEF Opens, Elems
<1>7. Opens(s) \subseteq Chs /\ Opens(Tail(s)) \subseteq Chs
  BY DEF Opens
<1> QED BY <1>2, <1>3, <1>4, <1>5, <1>6, <1>7

LEMMA OrderedAppend ==
    ASSUME NEW s \in Seq(HostFrames), NEW f \in HostFrames, Ordered(s),
           f.t = "open" => f.channel \notin Closes(s) /\ \A ch \in Opens(s) : ch < f.channel
    PROVE  Ordered(Append(s, f))
<1>1. /\ Len(Append(s, f)) = Len(s) + 1 /\ Len(s) \in Nat
      /\ Append(s, f)[Len(s) + 1] = f
      /\ \A i \in 1 .. Len(s) : Append(s, f)[i] = s[i] /\ s[i] \in HostFrames
  OBVIOUS
<1> DEFINE g == Append(s, f)
<1> SUFFICES ASSUME NEW i \in 1 .. Len(s) + 1, NEW j \in 1 .. Len(s) + 1, g[j].t = "open"
             PROVE  /\ g[i].t = "close" /\ g[i].channel = g[j].channel => j < i
                    /\ g[i].t = "open" /\ i < j => g[i].channel < g[j].channel
  BY <1>1 DEF Ordered
<1>2. CASE i \in 1 .. Len(s) /\ j \in 1 .. Len(s)
  BY <1>1, <1>2 DEF Ordered
<1>3. CASE i = Len(s) + 1 /\ j \in 1 .. Len(s)
  <2>1. j < i /\ ~(i < j)
    BY <1>1, <1>3
  <2> QED BY <2>1
<1>4. CASE j = Len(s) + 1 /\ i \in 1 .. Len(s)
  <2>1. g[j] = f /\ g[i] = s[i] /\ s[i] \in HostFrames /\ f.t = "open"
    BY <1>1, <1>4
  <2>2. s[i].t = "close" => s[i].channel \in Closes(s)
    BY <2>1, <1>4, FrameKinds DEF Closes, Elems
  <2>3. s[i].t = "open" => s[i].channel \in Opens(s)
    BY <2>1, <1>4, FrameKinds DEF Opens, Elems
  <2> QED BY <2>1, <2>2, <2>3
<1>5. CASE j = Len(s) + 1 /\ i = Len(s) + 1
  <2>1. g[j] = f /\ g[i] = f /\ f.t = "open" /\ ~(i < j)
    BY <1>1, <1>5
  <2> QED BY <2>1
<1> QED BY <1>1, <1>2, <1>3, <1>4, <1>5
------------------------------------------------------------------------------
(* The inductive invariant.                                                *)

Typed ==
    /\ TypeOK
    /\ toHost \in [Conns -> Seq(HostFrames)]
    /\ toRelay \in [Conns -> Seq(RelayFrames)]
    /\ toPhone \in [Phones -> Seq(PhoneFrames)]
    /\ fromPhone \in [Phones -> Seq({"data"})]

\* A place's wires are of the connection it has.
WiresAreNow == \A p \in Places : \A w \in channels[p] : w.conn = socket[p]

\* Whose the connections are, and what nobody has used yet.
Owned ==
    /\ \A p \in Places : socket[p] # 0 => socket[p] <= Len(owner) /\ owner[socket[p]] = p
    /\ \A k \in Conns : peer[k] = "none" <=> k > Len(owner)
    /\ \A k \in Conns : peer[k] \in {"none", "verifying"} =>
          toHost[k] = <<>> /\ \A p \in Places : socket[p] = k => channels[p] = {}
    /\ \A k \in Conns : peer[k] = "verifying" => toRelay[k] = <<AuthFrame>>
    /\ registered # 0 => peer[registered] = "authed"

\* What is on its way names the wire its phone was given, which is given once.
Meant(k, f) == f.t = "data" => f.wire = [conn |-> k, channel |-> f.channel] /\ data[f.phone] = f.wire

Addressed ==
    /\ \A c \in Phones : phone[c] = "new" => data[c] = Unplaced
    /\ \A e \in clients : registered # 0 /\ data[e.phone] = [conn |-> registered, channel |-> e.channel]
    /\ \A k \in Conns : \A f \in Elems(toHost[k]) : Meant(k, f)
    /\ \A k \in Conns : \A f \in Elems(toRelay[k]) : Meant(k, f)
    /\ \A c \in Phones : \A f \in Elems(toPhone[c]) : f.t = "data" => data[c] = f.wire
    /\ RightWire

\* The place and the relay agree but for what is on its way between them.
HostHas(p) == {w.channel : w \in channels[p]}
RelayHas   == {e.channel : e \in clients}

Fit(p) ==
    /\ Fits(Opens(toHost[registered]), Closes(toHost[registered]), HostHas(p), Closes(toRelay[registered]),
            RelayHas, nextChannel)
    /\ Ordered(toHost[registered])

Matched ==
    /\ \A d, e \in clients : d.channel = e.channel => d = e
    /\ \A e \in clients : e.channel < nextChannel
    /\ \A p \in Places : registered # 0 /\ socket[p] = registered => Fit(p)

\* A phone is on a channel of the host, or is being told that it is not.
ToldOf(c) == phone[c] \in {"connecting", "ready"} =>
                (link[c] = "open" /\ Routed(c)) \/ EndFrame \in Elems(toPhone[c])

Told == \A c \in Phones : ToldOf(c)

IInv == Typed /\ WiresAreNow /\ Owned /\ Addressed /\ Matched /\ Told

\* What the properties ask is part of it.
LEMMA Says ==
    ASSUME IInv
    PROVE  TypeOK /\ RightWire /\ WiresAgree /\ PhonesAgree
<1>1. WiresAgree
  <2> SUFFICES ASSUME NEW p \in Places, socket[p] # 0, registered = socket[p],
                      toHost[socket[p]] = <<>>, toRelay[socket[p]] = <<>>
               PROVE  {w.channel : w \in channels[p]} = {e.channel : e \in clients}
    BY DEF WiresAgree, IInv, WiresAreNow
  <2>1. Fits({}, {}, HostHas(p), {}, RelayHas, nextChannel)
    BY ElemsNone DEF IInv, Matched, Fit
  <2> QED BY <2>1, FitsStill DEF HostHas, RelayHas
<1>2. PhonesAgree
  <2> SUFFICES ASSUME NEW c \in Phones, phone[c] = "ready", toPhone[c] = <<>>
               PROVE  data[c].conn = registered /\ Routed(c)
    BY DEF PhonesAgree
  <2>1. Routed(c)
    BY ElemsNone DEF IInv, Told, ToldOf
  <2>2. data[c] = [conn |-> registered, channel |-> data[c].channel]
    BY <2>1 DEF Routed, IInv, Addressed
  <2> QED BY <2>1, <2>2
<1> QED BY <1>1, <1>2 DEF IInv, Typed, Addressed

LEMMA Starts ==
    ASSUME Init
    PROVE  IInv
<1>1. Typed
  BY RelayAssumption DEF Init, Typed, TypeOK, Conns, Unplaced
<1>2. WiresAreNow
  BY DEF Init, WiresAreNow
<1>3. Owned
  BY RelayAssumption DEF Init, Owned, Conns
<1>4. Addressed
  BY ElemsNone DEF Init, Addressed, RightWire
<1>5. Matched
  BY DEF Init, Matched
<1>6. Told
  BY DEF Init, Told, ToldOf
<1> QED BY <1>1, <1>2, <1>3, <1>4, <1>5, <1>6 DEF IInv

(* What a step leaves as it was.                                           *)

LEMMA OwnedKept ==
    ASSUME Owned, UNCHANGED <<owner, peer, registered>>,
           \A p \in Places : socket'[p] \in {socket[p], 0},
           \A k \in Conns : peer[k] \in {"none", "verifying"} => toHost'[k] = toHost[k] /\ toRelay'[k] = toRelay[k],
           \A p \in Places : channels'[p] # {} => channels[p] # {}
    PROVE  Owned'
<1>1. \A p \in Places : socket'[p] # 0 => socket'[p] = socket[p]
  OBVIOUS
<1>2. \A p \in Places : socket'[p] # 0 => socket'[p] <= Len(owner') /\ owner'[socket'[p]] = p
  BY <1>1 DEF Owned
<1>3. \A k \in Conns : peer'[k] = "none" <=> k > Len(owner')
  BY DEF Owned
<1>4. ASSUME NEW k \in Conns, peer'[k] \in {"none", "verifying"}
      PROVE  toHost'[k] = <<>> /\ \A p \in Places : socket'[p] = k => channels'[p] = {}
  <2>1. toHost'[k] = <<>>
    BY <1>4 DEF Owned
  <2>2. ASSUME NEW p \in Places, socket'[p] = k
        PROVE  channels'[p] = {}
    <3>1. socket[p] = k \/ k = 0
      BY <2>2
    <3>2. k # 0
      BY RelayAssumption DEF Conns
    <3> QED BY <3>1, <3>2, <1>4 DEF Owned
  <2> QED BY <2>1, <2>2
<1>5. \A k \in Conns : peer'[k] = "verifying" => toRelay'[k] = <<AuthFrame>>
  BY DEF Owned
<1>6. registered' # 0 => peer'[registered'] = "authed"
  BY DEF Owned
<1> QED BY <1>2, <1>3, <1>4, <1>5, <1>6 DEF Owned

LEMMA AddressedKept ==
    ASSUME Addressed, data' = data,
           \A c \in Phones : phone'[c] = "new" => phone[c] = "new",
           clients' = {} \/ (clients' \subseteq clients /\ registered' = registered),
           \A k \in Conns : \A f \in Elems(toHost'[k]) : f \in Elems(toHost[k]) \/ Meant(k, f),
           \A k \in Conns : \A f \in Elems(toRelay'[k]) : f \in Elems(toRelay[k]) \/ Meant(k, f),
           \A c \in Phones : \A f \in Elems(toPhone'[c]) :
               f \in Elems(toPhone[c]) \/ (f.t = "data" => data[c] = f.wire),
           \A h \in heard' : h \in heard \/ h.wire = data[h.phone]
    PROVE  Addressed'
<1>1. \A k, f : Meant(k, f)' <=> Meant(k, f)
  BY DEF Meant
<1>2. \A c \in Phones : phone'[c] = "new" => data'[c] = Unplaced
  BY DEF Addressed
<1>3. \A e \in clients' : registered' # 0 /\ data'[e.phone] = [conn |-> registered', channel |-> e.channel]
  BY DEF Addressed
<1>4. \A k \in Conns : \A f \in Elems(toHost'[k]) : Meant(k, f)'
  BY <1>1 DEF Addressed
<1>5. \A k \in Conns : \A f \in Elems(toRelay'[k]) : Meant(k, f)'
  BY <1>1 DEF Addressed
<1>6. \A c \in Phones : \A f \in Elems(toPhone'[c]) : f.t = "data" => data'[c] = f.wire
  BY DEF Addressed
<1>7. RightWire'
  BY DEF Addressed, RightWire
<1> QED BY <1>2, <1>3, <1>4, <1>5, <1>6, <1>7, Zenon DEF Addressed

LEMMA MatchedKept ==
    ASSUME Matched, UNCHANGED <<registered, nextChannel, clients>>,
           \A p \in Places : socket'[p] = registered /\ registered # 0 =>
               /\ socket[p] = registered
               /\ channels'[p] = channels[p]
               /\ Opens(toHost'[registered]) = Opens(toHost[registered])
               /\ Closes(toHost'[registered]) = Closes(toHost[registered])
               /\ Closes(toRelay'[registered]) = Closes(toRelay[registered])
               /\ Ordered(toHost[registered]) => Ordered(toHost'[registered])
    PROVE  Matched'
<1>1. ASSUME NEW p \in Places, registered' # 0, socket'[p] = registered'
      PROVE  Fit(p)'
  <2>1. Fit(p) /\ HostHas(p)' = HostHas(p) /\ RelayHas' = RelayHas
    BY <1>1 DEF Matched, HostHas, RelayHas
  <2> QED BY <2>1, <1>1 DEF Fit
<1> QED BY <1>1 DEF Matched

LEMMA ToldKept ==
    ASSUME Told,
           \A c \in Phones :
               /\ phone'[c] \in {"connecting", "ready"} => phone[c] \in {"connecting", "ready"}
               /\ link[c] = "open" /\ Routed(c) => (link'[c] = "open" /\ Routed(c)') \/ EndFrame \in Elems(toPhone'[c])
                                                    \/ phone'[c] \notin {"connecting", "ready"}
               /\ EndFrame \in Elems(toPhone[c]) => EndFrame \in Elems(toPhone'[c])
                                                    \/ phone'[c] \notin {"connecting", "ready"}
    PROVE  Told'
BY DEF Told, ToldOf

LEMMA Stays ==
    ASSUME IInv, UNCHANGED vars
    PROVE  IInv'
<1> USE DEF vars, hostEnd, relayEnd, queues
<1>1. Typed'
  BY DEF IInv, Typed, TypeOK
<1>2. WiresAreNow'
  BY DEF IInv, WiresAreNow
<1>3. Owned'
  BY DEF IInv, Owned
<1>4. Addressed'
  BY AddressedKept DEF IInv
<1>5. Matched'
  BY MatchedKept DEF IInv
<1>6. Told'
  BY ToldKept DEF IInv, Routed
<1> QED BY <1>1, <1>2, <1>3, <1>4, <1>5, <1>6 DEF IInv
------------------------------------------------------------------------------
(* What moves, in a step.                                                  *)

\* A connection of 1 .. MaxConns is not 0.
LEMMA ConnsAre == 0 \notin Conns /\ Conns \subseteq Nat /\ \A k \in 0 .. MaxConns : k # 0 => k \in Conns
BY RelayAssumption DEF Conns

LEMMA Sent ==
    ASSUME Typed, NEW k \in Conns, NEW f \in HostFrames, ToHost(k, f)
    PROVE  /\ toHost' \in [Conns -> Seq(HostFrames)]
           /\ \A j \in Conns : j # k => toHost'[j] = toHost[j]
           /\ toHost'[k] = toHost[k] \/ toHost'[k] = Append(toHost[k], f)
           /\ socket[owner[k]] = k => toHost'[k] = Append(toHost[k], f)
           /\ \A j \in Conns : \A g \in Elems(toHost'[j]) : g \in Elems(toHost[j]) \/ (j = k /\ g = f)
<1>1. toHost[k] \in Seq(HostFrames) /\ toHost \in [Conns -> Seq(HostFrames)]
  BY DEF Typed
<1>2. /\ Append(toHost[k], f) \in Seq(HostFrames)
      /\ Elems(Append(toHost[k], f)) = Elems(toHost[k]) \cup {f}
  BY <1>1, ElemsAppend
<1> QED BY <1>1, <1>2 DEF ToHost

LEMMA SentBack ==
    ASSUME Typed, NEW k \in Conns, NEW f \in RelayFrames, ToRelay(k, f)
    PROVE  /\ toRelay' \in [Conns -> Seq(RelayFrames)]
           /\ \A j \in Conns : j # k => toRelay'[j] = toRelay[j]
           /\ toRelay'[k] = toRelay[k] \/ toRelay'[k] = Append(toRelay[k], f)
           /\ peer[k] # "gone" => toRelay'[k] = Append(toRelay[k], f)
           /\ \A j \in Conns : \A g \in Elems(toRelay'[j]) : g \in Elems(toRelay[j]) \/ (j = k /\ g = f)
<1>1. toRelay[k] \in Seq(RelayFrames) /\ toRelay \in [Conns -> Seq(RelayFrames)]
  BY DEF Typed
<1>2. /\ Append(toRelay[k], f) \in Seq(RelayFrames)
      /\ Elems(Append(toRelay[k], f)) = Elems(toRelay[k]) \cup {f}
  BY <1>1, ElemsAppend
<1> QED BY <1>1, <1>2 DEF ToRelay

LEMMA HostTakes ==
    ASSUME Typed, NEW p \in Places, NEW t, Next1(p, t), Taken(p)
    PROVE  /\ socket[p] \in Conns
           /\ Head(toHost[socket[p]]) \in HostFrames
           /\ Head(toHost[socket[p]]) \in Elems(toHost[socket[p]])
           /\ Head(toHost[socket[p]]).t = t
           /\ toHost[socket[p]] \in Seq(HostFrames) /\ toHost[socket[p]] # <<>>
           /\ toHost' \in [Conns -> Seq(HostFrames)]
           /\ \A j \in Conns : j # socket[p] => toHost'[j] = toHost[j]
           /\ toHost'[socket[p]] = Tail(toHost[socket[p]])
           /\ \A j \in Conns : Elems(toHost'[j]) \subseteq Elems(toHost[j])
<1>1. socket[p] \in Conns
  BY ConnsAre DEF Typed, TypeOK, Next1
<1>2. toHost[socket[p]] \in Seq(HostFrames) /\ toHost \in [Conns -> Seq(HostFrames)] /\ toHost[socket[p]] # <<>>
  BY <1>1 DEF Typed, Next1
<1>3. /\ Head(toHost[socket[p]]) \in HostFrames
      /\ Head(toHost[socket[p]]) \in Elems(toHost[socket[p]])
      /\ Tail(toHost[socket[p]]) \in Seq(HostFrames)
      /\ Elems(Tail(toHost[socket[p]])) \subseteq Elems(toHost[socket[p]])
  BY <1>2, ElemsTail
<1> QED BY <1>1, <1>2, <1>3 DEF Taken, Next1

LEMMA RelayReads ==
    ASSUME Typed, NEW k \in Conns, NEW t, Next2(k, t), Read(k)
    PROVE  /\ Head(toRelay[k]) \in RelayFrames
           /\ Head(toRelay[k]) \in Elems(toRelay[k])
           /\ Head(toRelay[k]).t = t
           /\ toRelay[k] \in Seq(RelayFrames) /\ toRelay[k] # <<>>
           /\ toRelay' \in [Conns -> Seq(RelayFrames)]
           /\ \A j \in Conns : j # k => toRelay'[j] = toRelay[j]
           /\ toRelay'[k] = Tail(toRelay[k])
           /\ \A j \in Conns : Elems(toRelay'[j]) \subseteq Elems(toRelay[j])
<1>1. toRelay[k] \in Seq(RelayFrames) /\ toRelay \in [Conns -> Seq(RelayFrames)] /\ toRelay[k] # <<>>
  BY DEF Typed, Next2
<1>2. /\ Head(toRelay[k]) \in RelayFrames
      /\ Head(toRelay[k]) \in Elems(toRelay[k])
      /\ Tail(toRelay[k]) \in Seq(RelayFrames)
      /\ Elems(Tail(toRelay[k])) \subseteq Elems(toRelay[k])
  BY <1>1, ElemsTail
<1> QED BY <1>1, <1>2 DEF Read, Next2

\* A phone's queue grows by one frame.
LEMMA PhoneGets ==
    ASSUME Typed, NEW c \in Phones, NEW f \in PhoneFrames
    PROVE  /\ Append(toPhone[c], f) \in Seq(PhoneFrames)
           /\ Elems(Append(toPhone[c], f)) = Elems(toPhone[c]) \cup {f}
BY ElemsAppend DEF Typed

LEMMA Hung ==
    ASSUME Typed, NEW cs, Hangs(cs)
    PROVE  /\ link' \in [Phones -> {"none", "open", "closing", "gone"}]
           /\ toPhone' \in [Phones -> Seq(PhoneFrames)]
           /\ \A c \in Phones : c \in cs /\ link[c] = "open" => EndFrame \in Elems(toPhone'[c])
           /\ \A c \in Phones : c \notin cs => link'[c] = link[c]
           /\ \A c \in Phones : Elems(toPhone[c]) \subseteq Elems(toPhone'[c])
           /\ \A c \in Phones : \A f \in Elems(toPhone'[c]) : f \in Elems(toPhone[c]) \/ f = EndFrame
<1>1. /\ link \in [Phones -> {"none", "open", "closing", "gone"}]
      /\ toPhone \in [Phones -> Seq(PhoneFrames)]
  BY DEF Typed, TypeOK
<1>2. \A c \in Phones : /\ Append(toPhone[c], EndFrame) \in Seq(PhoneFrames)
                        /\ Elems(Append(toPhone[c], EndFrame)) = Elems(toPhone[c]) \cup {EndFrame}
  BY PhoneGets, FrameShape
<1>3. /\ link' = [c \in Phones |-> IF c \in cs /\ link[c] = "open" THEN "closing" ELSE link[c]]
      /\ toPhone' = [c \in Phones |-> IF c \in cs /\ link[c] = "open" THEN Append(toPhone[c], EndFrame)
                                      ELSE toPhone[c]]
  BY DEF Hangs, EndFrame
<1> QED BY <1>1, <1>2, <1>3

\* The connection the relay has as the host's is one that was made.
LEMMA HostIs ==
    ASSUME IInv, registered # 0
    PROVE  /\ registered \in Conns /\ registered \in 1 .. Len(owner) /\ owner[registered] \in Places
           /\ peer[registered] = "authed"
           /\ \A p \in Places : socket[p] = registered => owner[registered] = p
<1>1. registered \in Conns
  BY ConnsAre DEF IInv, Typed, TypeOK
<1>2. peer[registered] = "authed" /\ ~(registered > Len(owner))
  BY <1>1 DEF IInv, Owned
<1>3. registered \in 1 .. Len(owner) /\ owner[registered] \in Places
  BY <1>1, <1>2 DEF IInv, Typed, TypeOK, Conns
<1> QED BY <1>1, <1>2, <1>3 DEF IInv, Owned

\* The channels of what is on its way, of the wires and of the entries.
LEMMA Numbers ==
    ASSUME Typed
    PROVE  /\ \A s : Opens(s) \subseteq Chs /\ Closes(s) \subseteq Chs
           /\ \A p \in Places : HostHas(p) \subseteq Chs
           /\ RelayHas \subseteq Chs
           /\ nextChannel \in Chs
BY DEF Opens, Closes, HostHas, RelayHas, Typed, TypeOK, Chs, Wires
------------------------------------------------------------------------------
(* The host's steps.                                                       *)

LEMMA ConnectKeeps ==
    ASSUME IInv, NEW p \in Places, connect(p)
    PROVE  IInv'
<1>0. PICK k : k = Len(owner) + 1
  OBVIOUS
<1>1. /\ p \notin stopped /\ socket[p] = 0 /\ k \in Conns
      /\ owner' = Append(owner, p)
      /\ socket' = [socket EXCEPT ![p] = k]
      /\ toRelay' = [toRelay EXCEPT ![k] = <<AuthFrame>>]
      /\ peer' = [peer EXCEPT ![k] = "verifying"]
      /\ UNCHANGED <<stopped, channels, toHost, toPhone, fromPhone, registered, nextChannel, clients, data,
                     link, phone, heard, said, breaks>>
  BY <1>0 DEF connect, AuthFrame
<1>2. Typed /\ WiresAreNow /\ Owned /\ Addressed /\ Matched /\ Told
  BY DEF IInv
<1>3. /\ owner \in Seq(Places) /\ Len(owner) \in Nat /\ owner' \in Seq(Places) /\ Len(owner') = k
      /\ owner'[k] = p /\ \A j \in 1 .. Len(owner) : owner'[j] = owner[j]
  BY <1>0, <1>1, <1>2 DEF Typed, TypeOK
<1>4. <<AuthFrame>> \in Seq(RelayFrames) /\ Elems(<<AuthFrame>>) = {AuthFrame}
  <2>1. AuthFrame \in RelayFrames
    BY FrameShape
  <2> QED BY <2>1 DEF Elems
<1>5. channels[p] = {}
  BY <1>1, <1>2, ConnsAre DEF Typed, TypeOK, WiresAreNow, Wires
<1>6. Typed'
  <2>1. k \in 0 .. MaxConns /\ k <= MaxConns
    BY <1>1, RelayAssumption DEF Conns
  <2>2. socket' \in [Places -> 0 .. MaxConns] /\ peer' \in [Conns -> {"none", "verifying", "authed", "gone"}]
    BY <1>1, <1>2, <2>1 DEF Typed, TypeOK
  <2>3. toRelay' \in [Conns -> Seq(RelayFrames)]
    BY <1>1, <1>2, <1>4 DEF Typed
  <2> QED BY <1>1, <1>2, <1>3, <2>1, <2>2, <2>3 DEF Typed, TypeOK
<1>7. WiresAreNow'
  BY <1>1, <1>2, <1>5 DEF WiresAreNow, Typed, TypeOK
<1>8. peer[k] = "none" /\ \A q \in Places : socket[q] # k
  <2>1. k > Len(owner) /\ ~(k <= Len(owner)) /\ k # 0
    BY <1>0, <1>3
  <2> QED BY <1>1, <1>2, <2>1 DEF Owned
<1>9. Owned'
  <2>1. \A q \in Places : socket'[q] # 0 => socket'[q] <= Len(owner') /\ owner'[socket'[q]] = q
    <3> TAKE q \in Places
    <3>1. CASE q = p
      BY <1>0, <1>1, <1>2, <1>3, <3>1 DEF Typed, TypeOK
    <3>2. CASE q # p
      <4>1. socket'[q] = socket[q] /\ socket[q] \in 0 .. MaxConns
        BY <1>1, <1>2, <3>2 DEF Typed, TypeOK
      <4>2. socket[q] # 0 => socket[q] <= Len(owner) /\ owner[socket[q]] = q
        BY <1>2 DEF Owned
      <4> QED BY <4>1, <4>2, <1>0, <1>3
    <3> QED BY <3>1, <3>2
  <2>2. \A j \in Conns : peer'[j] = "none" <=> j > Len(owner')
    <3> TAKE j \in Conns
    <3>1. peer'[j] = IF j = k THEN "verifying" ELSE peer[j]
      BY <1>1, <1>2 DEF Typed, TypeOK
    <3>2. peer[j] = "none" <=> j > Len(owner)
      BY <1>2 DEF Owned
    <3> QED BY <3>1, <3>2, <1>0, <1>3, ConnsAre
  <2>3. ASSUME NEW j \in Conns, peer'[j] \in {"none", "verifying"}
        PROVE  toHost'[j] = <<>> /\ \A q \in Places : socket'[q] = j => channels'[q] = {}
    <3>1. peer[j] \in {"none", "verifying"}
      BY <1>1, <1>2, <1>8, <2>3 DEF Typed, TypeOK
    <3>2. \A q \in Places : q # p => socket'[q] = socket[q]
      BY <1>1, <1>2 DEF Typed, TypeOK
    <3> QED BY <1>1, <1>2, <1>5, <3>1, <3>2 DEF Owned
  <2>4. \A j \in Conns : peer'[j] = "verifying" => toRelay'[j] = <<AuthFrame>>
    BY <1>1, <1>2 DEF Typed, TypeOK, Owned
  <2>5. registered' # 0 => peer'[registered'] = "authed"
    BY <1>1, <1>2, <1>8, HostIs DEF Typed, TypeOK
  <2> QED BY <2>1, <2>2, <2>3, <2>4, <2>5 DEF Owned
<1>10. Addressed'
  <2>1. \A j \in Conns : \A f \in Elems(toRelay'[j]) : f \in Elems(toRelay[j]) \/ Meant(j, f)
    BY <1>1, <1>2, <1>4, FrameShape DEF Typed, Meant
  <2> QED BY <1>1, <1>2, <2>1, AddressedKept
<1>11. Matched'
  <2>1. registered # 0 => registered # k /\ registered \in Conns
    BY <1>8, HostIs
  <2>2. \A q \in Places : socket'[q] = registered /\ registered # 0 => socket[q] = registered
    BY <1>1, <1>2, <2>1 DEF Typed, TypeOK
  <2>3. registered # 0 => toRelay'[registered] = toRelay[registered]
    BY <1>1, <1>2, <2>1 DEF Typed
  <2> QED BY <1>1, <1>2, <2>2, <2>3, MatchedKept
<1>12. Told'
  BY <1>1, <1>2, ToldKept DEF Routed
<1> QED BY <1>6, <1>7, <1>9, <1>10, <1>11, <1>12 DEF IInv

LEMMA HostOpensKeeps ==
    ASSUME IInv, NEW p \in Places, HostOpens(p)
    PROVE  IInv'
<1>0. PICK k, f : k = socket[p] /\ f = Head(toHost[socket[p]])
  OBVIOUS
<1>1. /\ Next1(p, "open") /\ Taken(p)
      /\ channels' = [channels EXCEPT ![p] = {w \in @ : w.channel # f.channel}
                                             \cup {[conn |-> k, channel |-> f.channel]}]
      /\ UNCHANGED <<owner, socket, stopped, toRelay, toPhone, fromPhone, relayEnd, phone, heard, said, breaks>>
  BY <1>0 DEF HostOpens
<1> USE DEF relayEnd
<1>2. Typed /\ WiresAreNow /\ Owned /\ Addressed /\ Matched /\ Told
  BY DEF IInv
<1>3. /\ k \in Conns /\ f \in HostFrames /\ f \in Elems(toHost[k]) /\ f.t = "open"
      /\ toHost[k] \in Seq(HostFrames) /\ toHost[k] # <<>> /\ f = Head(toHost[k])
      /\ toHost' \in [Conns -> Seq(HostFrames)]
      /\ \A j \in Conns : j # k => toHost'[j] = toHost[j]
      /\ toHost'[k] = Tail(toHost[k])
      /\ \A j \in Conns : Elems(toHost'[j]) \subseteq Elems(toHost[j])
  BY <1>0, <1>1, <1>2, HostTakes
<1>4. f.channel \in Chs /\ f = Open(f.channel)
  BY <1>3, FrameKinds
<1>5. PICK ch \in Chs : ch = f.channel /\ f = Open(ch)
  BY <1>4
<1>6. PICK W : W = channels[p] /\ W \in SUBSET Wires
  BY <1>2 DEF Typed, TypeOK
<1>7. channels'[p] = {w \in W : w.channel # ch} \cup {[conn |-> k, channel |-> ch]}
      /\ \A q \in Places : q # p => channels'[q] = channels[q]
  BY <1>1, <1>2, <1>5, <1>6 DEF Typed, TypeOK
<1>8. Typed'
  <2>1. [conn |-> k, channel |-> ch] \in Wires
    BY <1>3 DEF Wires, Chs
  <2>2. channels' \in [Places -> SUBSET Wires]
    BY <1>1, <1>2, <1>5, <2>1 DEF Typed, TypeOK
  <2> QED BY <1>1, <1>2, <1>3, <2>2 DEF Typed, TypeOK
<1>9. WiresAreNow'
  BY <1>0, <1>1, <1>2, <1>6, <1>7 DEF WiresAreNow
<1>10. peer[k] \notin {"none", "verifying"}
  BY <1>2, <1>3 DEF Owned
<1>11. Owned'
  <2>1. \A j \in Conns : peer'[j] \in {"none", "verifying"} =>
           toHost'[j] = <<>> /\ \A q \in Places : socket'[q] = j => channels'[q] = {}
    BY <1>0, <1>1, <1>2, <1>3, <1>7, <1>10 DEF Owned
  <2> QED BY <1>1, <1>2, <2>1 DEF Owned
<1>12. Addressed'
  BY <1>1, <1>2, <1>3, AddressedKept
<1>13. Matched'
  <2>1. ASSUME NEW q \in Places, registered # 0, socket[q] = registered
        PROVE  Fit(q)'
    <3>1. Fit(q)
      BY <1>2, <2>1 DEF Matched
    <3>2. CASE q = p
      <4>1. registered = k
        BY <2>1, <3>2, <1>0
      <4>2. PICK s : s = toHost[k] /\ s \in Seq(HostFrames) /\ s # <<>>
        BY <1>3
      <4>3. ch \in Opens(s)
        BY <1>3, <1>5, <4>2 DEF Opens
      <4>4. Ordered(s) /\ Fits(Opens(s), Closes(s), HostHas(p), Closes(toRelay[k]), RelayHas, nextChannel)
        BY <3>1, <3>2, <4>1, <4>2 DEF Fit
      <4>5. Ordered(Tail(s)) /\ ch \notin Opens(Tail(s))
        BY <4>2, <4>4, <1>3, <1>5, OrderedTail
      <4>6. Opens(Tail(s)) = Opens(s) \ {ch}
        BY <4>2, <4>5, <1>3, <1>5, OpensTail, FrameShape DEF Opens
      <4>7. Closes(Tail(s)) = Closes(s)
        BY <4>2, <1>3, <1>5, OpensTail, FrameShape DEF Closes
      <4>8. HostHas(p)' = HostHas(p) \cup {ch}
        <5>1. HostHas(p) = {w.channel : w \in W}
          BY <1>6 DEF HostHas
        <5>2. HostHas(p)' = {w.channel : w \in {w \in W : w.channel # ch} \cup {[conn |-> k, channel |-> ch]}}
          BY <1>7 DEF HostHas
        <5>3. [conn |-> k, channel |-> ch].channel = ch
          OBVIOUS
        <5>4. ASSUME NEW x
              PROVE  x \in HostHas(p)' <=> x \in HostHas(p) \/ x = ch
          <6>1. x \in HostHas(p)' <=> x = ch \/ \E w \in W : w.channel # ch /\ w.channel = x
            BY <5>2, <5>3
          <6>2. x \in HostHas(p) <=> \E w \in W : w.channel = x
            BY <5>1
          <6> QED BY <6>1, <6>2
        <5> QED BY <5>4
      <4>9. Fits(Opens(s) \ {ch}, Closes(s), HostHas(p) \cup {ch}, Closes(toRelay[k]), RelayHas, nextChannel)
        BY <4>3, <4>4, FitsOpened
      <4>10. RelayHas' = RelayHas /\ registered' = k /\ toHost'[k] = Tail(s) /\ toRelay' = toRelay
             /\ nextChannel' = nextChannel
        BY <1>1, <1>3, <4>1, <4>2 DEF RelayHas
      <4> QED BY <3>2, <4>5, <4>6, <4>7, <4>8, <4>9, <4>10 DEF Fit
    <3>3. CASE q # p
      <4>1. registered # k
        BY <1>0, <1>2, <1>3, <2>1, <3>3, ConnsAre DEF Owned
      <4>2. registered \in Conns
        BY <2>1, HostIs
      <4>3. toHost'[registered] = toHost[registered] /\ HostHas(q)' = HostHas(q) /\ RelayHas' = RelayHas
        BY <1>1, <1>3, <1>7, <3>3, <4>1, <4>2 DEF HostHas, RelayHas
      <4> QED BY <1>1, <3>1, <4>3 DEF Fit
    <3> QED BY <3>2, <3>3
  <2> QED BY <1>1, <1>2, <2>1 DEF Matched
<1>14. Told'
  BY <1>1, <1>2, ToldKept DEF Routed
<1> QED BY <1>8, <1>9, <1>11, <1>12, <1>13, <1>14 DEF IInv

\* One place's end of its own connection changes.
LEMMA MatchedAt ==
    ASSUME IInv, UNCHANGED <<registered, nextChannel, clients, socket>>, NEW p \in Places,
           \A q \in Places : q # p => channels'[q] = channels[q],
           \A j \in Conns : j # socket[p] => toHost'[j] = toHost[j] /\ toRelay'[j] = toRelay[j],
           registered # 0 /\ socket[p] = registered /\ Fit(p) => Fit(p)'
    PROVE  Matched'
<1>1. ASSUME NEW q \in Places, registered # 0, socket[q] = registered
      PROVE  Fit(q)'
  <2>1. Fit(q)
    BY <1>1 DEF IInv, Matched
  <2>2. CASE q = p
    BY <1>1, <2>1, <2>2
  <2>3. CASE q # p
    <3>1. registered \in Conns /\ registered # socket[p]
      BY <1>1, <2>3, HostIs
    <3>2. /\ toHost'[registered] = toHost[registered] /\ toRelay'[registered] = toRelay[registered]
          /\ HostHas(q)' = HostHas(q) /\ RelayHas' = RelayHas
      BY <2>3, <3>1 DEF HostHas, RelayHas
    <3> QED BY <2>1, <3>2 DEF Fit
  <2> QED BY <2>2, <2>3
<1> QED BY <1>1 DEF IInv, Matched

\* A place drops the wires of a channel.
LEMMA HasLess ==
    ASSUME IInv, NEW p \in Places, NEW ch, channels' = [channels EXCEPT ![p] = {w \in @ : w.channel # ch}]
    PROVE  /\ channels' \in [Places -> SUBSET Wires]
           /\ HostHas(p)' = HostHas(p) \ {ch}
           /\ \A q \in Places : q # p => channels'[q] = channels[q]
           /\ \A q \in Places : channels'[q] \subseteq channels[q]
<1>1. channels \in [Places -> SUBSET Wires]
  BY DEF IInv, Typed, TypeOK
<1>2. channels'[p] = {w \in channels[p] : w.channel # ch}
  BY <1>1
<1>3. HostHas(p)' = {w.channel : w \in {w \in channels[p] : w.channel # ch}}
  BY <1>2 DEF HostHas
<1>4. HostHas(p) = {w.channel : w \in channels[p]}
  BY DEF HostHas
<1>5. ASSUME NEW x
      PROVE  x \in HostHas(p)' <=> x \in HostHas(p) /\ x # ch
  BY <1>3, <1>4
<1> QED BY <1>1, <1>5

LEMMA HostClosesKeeps ==
    ASSUME IInv, NEW p \in Places, HostCloses(p)
    PROVE  IInv'
<1>0. PICK k, f : k = socket[p] /\ f = Head(toHost[socket[p]])
  OBVIOUS
<1>1. /\ Next1(p, "close") /\ Taken(p)
      /\ channels' = [channels EXCEPT ![p] = {w \in @ : w.channel # f.channel}]
      /\ UNCHANGED <<owner, socket, stopped, toRelay, toPhone, fromPhone, relayEnd, phone, heard, said, breaks>>
  BY <1>0 DEF HostCloses
<1> USE DEF relayEnd
<1>2. Typed /\ WiresAreNow /\ Owned /\ Addressed /\ Matched /\ Told
  BY DEF IInv
<1>3. /\ k \in Conns /\ f \in HostFrames /\ f \in Elems(toHost[k]) /\ f.t = "close"
      /\ toHost[k] \in Seq(HostFrames) /\ toHost[k] # <<>> /\ f = Head(toHost[k])
      /\ toHost' \in [Conns -> Seq(HostFrames)]
      /\ \A j \in Conns : j # k => toHost'[j] = toHost[j]
      /\ toHost'[k] = Tail(toHost[k])
      /\ \A j \in Conns : Elems(toHost'[j]) \subseteq Elems(toHost[j])
  BY <1>0, <1>1, <1>2, HostTakes
<1>4. PICK ch \in Chs : ch = f.channel /\ f = Close(ch)
  BY <1>3, FrameKinds
<1>5. /\ channels' \in [Places -> SUBSET Wires]
      /\ HostHas(p)' = HostHas(p) \ {ch}
      /\ \A q \in Places : q # p => channels'[q] = channels[q]
      /\ \A q \in Places : channels'[q] \subseteq channels[q]
  BY <1>1, <1>4, HasLess
<1>6. Typed'
  BY <1>1, <1>2, <1>3, <1>5 DEF Typed, TypeOK
<1>7. WiresAreNow'
  BY <1>1, <1>2, <1>5 DEF WiresAreNow
<1>8. Owned'
  <2>1. peer[k] \notin {"none", "verifying"}
    BY <1>2, <1>3 DEF Owned
  <2> QED BY <1>1, <1>2, <1>3, <1>5, <2>1, OwnedKept
<1>9. Addressed'
  BY <1>1, <1>2, <1>3, AddressedKept
<1>10. Matched'
  <2>1. ASSUME registered # 0, socket[p] = registered, Fit(p)
        PROVE  Fit(p)'
    <3>1. PICK s : s = toHost[k] /\ s \in Seq(HostFrames) /\ s # <<>>
      BY <1>3
    <3>2. Ordered(s) /\ Fits(Opens(s), Closes(s), HostHas(p), Closes(toRelay[k]), RelayHas, nextChannel)
      BY <1>0, <2>1, <3>1 DEF Fit
    <3>3. ch \in Closes(s)
      BY <1>3, <1>4, <3>1 DEF Closes
    <3>4. Ordered(Tail(s)) /\ ch \notin Opens(s)
      BY <3>1, <3>2, <1>3, <1>4, OrderedTail
    <3>5. Opens(Tail(s)) = Opens(s)
      BY <3>1, <1>3, <1>4, OpensTail, FrameShape DEF Opens
    <3>6. Closes(s) \ {ch} \subseteq Closes(Tail(s)) /\ Closes(Tail(s)) \subseteq Closes(s)
      BY <3>1, <1>3, <1>4, OpensTail, FrameShape DEF Closes
    <3>7. Fits(Opens(s), Closes(Tail(s)), HostHas(p) \ {ch}, Closes(toRelay[k]), RelayHas, nextChannel)
      BY <3>2, <3>3, <3>4, <3>6, FitsEnded
    <3>8. RelayHas' = RelayHas /\ registered' = k /\ toHost'[k] = Tail(s) /\ toRelay' = toRelay
          /\ nextChannel' = nextChannel
      BY <1>0, <1>1, <1>3, <2>1, <3>1 DEF RelayHas
    <3> QED BY <1>5, <3>4, <3>5, <3>7, <3>8 DEF Fit
  <2> QED BY <1>0, <1>1, <1>3, <1>5, <2>1, MatchedAt
<1>11. Told'
  BY <1>1, <1>2, ToldKept DEF Routed
<1> QED BY <1>6, <1>7, <1>8, <1>9, <1>10, <1>11 DEF IInv

LEMMA HostHearsKeeps ==
    ASSUME IInv, NEW p \in Places, HostHears(p)
    PROVE  IInv'
<1>0. PICK k, f : k = socket[p] /\ f = Head(toHost[socket[p]])
  OBVIOUS
<1>1. /\ Next1(p, "data") /\ Taken(p)
      /\ heard' = heard \cup {[by |-> "host", phone |-> f.phone, wire |-> w] :
                                 w \in {w \in channels[p] : w.channel = f.channel}}
      /\ UNCHANGED <<hostEnd, toRelay, toPhone, fromPhone, relayEnd, phone, said, breaks>>
  BY <1>0 DEF HostHears
<1> USE DEF relayEnd, hostEnd
<1>2. Typed /\ WiresAreNow /\ Owned /\ Addressed /\ Matched /\ Told
  BY DEF IInv
<1>3. /\ k \in Conns /\ f \in HostFrames /\ f \in Elems(toHost[k]) /\ f.t = "data"
      /\ toHost[k] \in Seq(HostFrames) /\ toHost[k] # <<>> /\ f = Head(toHost[k])
      /\ toHost' \in [Conns -> Seq(HostFrames)]
      /\ \A j \in Conns : j # k => toHost'[j] = toHost[j]
      /\ toHost'[k] = Tail(toHost[k])
      /\ \A j \in Conns : Elems(toHost'[j]) \subseteq Elems(toHost[j])
  BY <1>0, <1>1, <1>2, HostTakes
<1>4. f \in DataFrames /\ f.channel \in Chs /\ f.phone \in Phones /\ f.wire \in Wires
  BY <1>3, FrameKinds
<1>5. \A h \in heard' : h \in heard \/ \E w \in channels[p] : w.channel = f.channel
                                          /\ h = [by |-> "host", phone |-> f.phone, wire |-> w]
  BY <1>1
<1>6. \A w \in channels[p] : w.channel = f.channel => w = data[f.phone] /\ w \in Wires
  <2> TAKE w \in channels[p]
  <2>1. w \in Wires /\ w.conn = k
    BY <1>0, <1>2 DEF Typed, TypeOK, WiresAreNow
  <2>2. w = [conn |-> k, channel |-> w.channel]
    BY <2>1 DEF Wires
  <2>3. f.wire = [conn |-> k, channel |-> f.channel] /\ data[f.phone] = f.wire
    BY <1>2, <1>3 DEF Addressed, Meant
  <2> QED BY <2>1, <2>2, <2>3
<1>7. Typed'
  <2>1. heard' \in SUBSET [by : {"host", "phone"}, phone : Phones, wire : Wires]
    <3>1. heard \in SUBSET [by : {"host", "phone"}, phone : Phones, wire : Wires]
      BY <1>2 DEF Typed, TypeOK
    <3>2. \A w \in channels[p] : w.channel = f.channel =>
             [by |-> "host", phone |-> f.phone, wire |-> w] \in [by : {"host", "phone"}, phone : Phones, wire : Wires]
      BY <1>4, <1>6
    <3> QED BY <1>5, <3>1, <3>2
  <2> QED BY <1>1, <1>2, <1>3, <2>1 DEF Typed, TypeOK
<1>8. WiresAreNow'
  BY <1>1, <1>2 DEF WiresAreNow
<1>9. Owned'
  <2>1. peer[k] \notin {"none", "verifying"}
    BY <1>2, <1>3 DEF Owned
  <2> QED BY <1>1, <1>2, <1>3, <2>1, OwnedKept
<1>10. Addressed'
  <2>1. \A h \in heard' : h \in heard \/ h.wire = data[h.phone]
    BY <1>5, <1>6
  <2> QED BY <1>1, <1>2, <1>3, <2>1, AddressedKept
<1>11. Matched'
  <2>1. ASSUME registered # 0, socket[p] = registered, Fit(p)
        PROVE  Fit(p)'
    <3>1. PICK s : s = toHost[k] /\ s \in Seq(HostFrames) /\ s # <<>>
      BY <1>3
    <3>2. Ordered(Tail(s))
      BY <1>0, <2>1, <3>1, OrderedTail DEF Fit
    <3>3. Opens(Tail(s)) = Opens(s) /\ Closes(Tail(s)) = Closes(s)
      BY <3>1, <1>3, OpensTail, FrameShape DEF Opens, Closes
    <3>4. RelayHas' = RelayHas /\ registered' = k /\ toHost'[k] = Tail(s) /\ toRelay' = toRelay
          /\ nextChannel' = nextChannel /\ HostHas(p)' = HostHas(p)
      BY <1>0, <1>1, <1>3, <2>1, <3>1 DEF RelayHas, HostHas
    <3> QED BY <1>0, <2>1, <3>1, <3>2, <3>3, <3>4 DEF Fit
  <2> QED BY <1>0, <1>1, <1>3, <2>1, MatchedAt
<1>12. Told'
  BY <1>1, <1>2, ToldKept DEF Routed
<1> QED BY <1>7, <1>8, <1>9, <1>10, <1>11, <1>12 DEF IInv

LEMMA LostKeeps ==
    ASSUME IInv, NEW p \in Places, NEW replaced, Lost(p, replaced), breaks' \in Nat
    PROVE  IInv'
<1>0. PICK k : k = socket[p]
  OBVIOUS
<1>1. /\ k # 0
      /\ channels' = [channels EXCEPT ![p] = {}]
      /\ socket' = [socket EXCEPT ![p] = 0]
      /\ stopped' = IF replaced THEN stopped \cup {p} ELSE stopped
      /\ toHost' = [toHost EXCEPT ![k] = <<>>]
      /\ UNCHANGED <<owner, toRelay, toPhone, fromPhone, relayEnd, phone, heard, said>>
  BY <1>0 DEF Lost
<1> USE DEF relayEnd
<1>2. Typed /\ WiresAreNow /\ Owned /\ Addressed /\ Matched /\ Told
  BY DEF IInv
<1>3. k \in Conns
  BY <1>0, <1>1, <1>2, ConnsAre DEF Typed, TypeOK
<1>4. /\ toHost' \in [Conns -> Seq(HostFrames)]
      /\ toHost'[k] = <<>> /\ \A j \in Conns : j # k => toHost'[j] = toHost[j]
  <2>1. <<>> \in Seq(HostFrames)
    OBVIOUS
  <2> QED BY <1>1, <1>2, <1>3, <2>1 DEF Typed
<1>5. /\ channels' \in [Places -> SUBSET Wires] /\ socket' \in [Places -> 0 .. MaxConns]
      /\ channels'[p] = {} /\ socket'[p] = 0
      /\ \A q \in Places : q # p => channels'[q] = channels[q] /\ socket'[q] = socket[q]
  BY <1>1, <1>2, RelayAssumption DEF Typed, TypeOK
<1>6. Typed'
  <2>1. stopped' \in SUBSET Places
    BY <1>1, <1>2 DEF Typed, TypeOK
  <2> QED BY <1>1, <1>2, <1>4, <1>5, <2>1 DEF Typed, TypeOK
<1>7. WiresAreNow'
  BY <1>1, <1>2, <1>5 DEF WiresAreNow
<1>8. Owned'
  <2>1. \A j \in Conns : peer[j] \in {"none", "verifying"} => toHost'[j] = toHost[j] /\ toRelay'[j] = toRelay[j]
    BY <1>1, <1>2, <1>4 DEF Owned
  <2>2. \A q \in Places : socket'[q] \in {socket[q], 0} /\ (channels'[q] # {} => channels[q] # {})
    BY <1>5
  <2> QED BY <1>1, <1>2, <2>1, <2>2, OwnedKept
<1>9. Addressed'
  <2>1. \A j \in Conns : \A f \in Elems(toHost'[j]) : f \in Elems(toHost[j])
    BY <1>4, ElemsNone
  <2> QED BY <1>1, <1>2, <2>1, AddressedKept
<1>10. Matched'
  <2>1. ASSUME NEW q \in Places, socket'[q] = registered, registered # 0
        PROVE  socket[q] = registered /\ channels'[q] = channels[q] /\ toHost'[registered] = toHost[registered]
    <3>1. q # p /\ socket[q] = registered /\ registered \in Conns
      BY <2>1, <1>5, HostIs
    <3>2. registered # k
      BY <1>0, <1>1, <3>1, <2>1, HostIs
    <3> QED BY <3>1, <3>2, <1>4, <1>5
  <2> QED BY <1>1, <1>2, <2>1, MatchedKept
<1>11. Told'
  BY <1>1, <1>2, ToldKept DEF Routed
<1> QED BY <1>6, <1>7, <1>8, <1>9, <1>10, <1>11 DEF IInv

LEMMA WireSendsKeeps ==
    ASSUME IInv, NEW p \in Places, WireSends(p)
    PROVE  IInv'
<1>1. PICK w \in channels[p], c \in Phones :
        /\ data[c] = w
        /\ said' = [said EXCEPT ![c] = @ + 1]
        /\ ToRelay(w.conn, Data(w.channel, c, w))
        /\ UNCHANGED <<hostEnd, toHost, toPhone, fromPhone, relayEnd, phone, heard, breaks>>
  BY DEF WireSends
<1> USE DEF relayEnd, hostEnd
<1>2. Typed /\ WiresAreNow /\ Owned /\ Addressed /\ Matched /\ Told
  BY DEF IInv
<1>3. w \in Wires /\ w.conn = socket[p] /\ w.conn \in Conns /\ w.channel \in Chs
      /\ w = [conn |-> w.conn, channel |-> w.channel]
  BY <1>2 DEF Typed, TypeOK, WiresAreNow, Wires, Chs
<1>4. PICK k \in Conns, f \in DataFrames :
         /\ k = w.conn /\ f = Data(w.channel, c, w)
         /\ f.t = "data" /\ f.channel = w.channel /\ f.phone = c /\ f.wire = w
  BY <1>3, FrameShape
<1>5. f \in RelayFrames /\ ToRelay(k, f)
  BY <1>1, <1>4, FrameShape
<1>6. /\ toRelay' \in [Conns -> Seq(RelayFrames)]
      /\ \A j \in Conns : j # k => toRelay'[j] = toRelay[j]
      /\ toRelay'[k] = toRelay[k] \/ toRelay'[k] = Append(toRelay[k], f)
      /\ \A j \in Conns : \A g \in Elems(toRelay'[j]) : g \in Elems(toRelay[j]) \/ (j = k /\ g = f)
  BY <1>2, <1>5, SentBack
<1>7. Typed'
  <2>1. said' \in [Phones -> Nat]
    BY <1>1, <1>2 DEF Typed, TypeOK
  <2> QED BY <1>1, <1>2, <1>6, <2>1 DEF Typed, TypeOK
<1>8. WiresAreNow'
  BY <1>1, <1>2 DEF WiresAreNow
<1>9. Owned'
  <2>1. peer[k] \notin {"none", "verifying"}
    BY <1>2, <1>3, <1>4 DEF Owned
  <2> QED BY <1>1, <1>2, <1>6, <2>1, OwnedKept
<1>10. Addressed'
  <2>1. Meant(k, f)
    BY <1>1, <1>3, <1>4 DEF Meant
  <2> QED BY <1>1, <1>2, <1>6, <2>1, AddressedKept
<1>11. Matched'
  <2>1. Closes(toRelay'[k]) = Closes(toRelay[k])
    <3>1. toRelay[k] \in Seq(RelayFrames)
      BY <1>2 DEF Typed
    <3>2. \A ch \in Chs : Close(ch) # f
      BY <1>4, FrameShape
    <3>3. Closes(Append(toRelay[k], f)) = Closes(toRelay[k]) \cup {ch \in Chs : Close(ch) = f}
      BY <1>5, <3>1, OpensAppend
    <3>4. Closes(Append(toRelay[k], f)) = Closes(toRelay[k])
      BY <3>2, <3>3
    <3> QED BY <1>6, <3>4
  <2>2. registered # 0 => registered \in Conns
    BY HostIs
  <2> QED BY <1>1, <1>2, <1>6, <2>1, <2>2, MatchedKept
<1>12. Told'
  BY <1>1, <1>2, ToldKept DEF Routed
<1> QED BY <1>7, <1>8, <1>9, <1>10, <1>11, <1>12 DEF IInv

LEMMA WireClosesKeeps ==
    ASSUME IInv, NEW p \in Places, WireCloses(p)
    PROVE  IInv'
<1>1. PICK w \in channels[p] :
        /\ channels' = [channels EXCEPT ![p] = {v \in @ : v.channel # w.channel}]
        /\ ToRelay(w.conn, Close(w.channel))
        /\ UNCHANGED <<owner, socket, stopped, toHost, toPhone, fromPhone, relayEnd, phone, heard, said>>
        /\ Breaks(FALSE)
  BY DEF WireCloses
<1> USE DEF relayEnd
<1>2. Typed /\ WiresAreNow /\ Owned /\ Addressed /\ Matched /\ Told
  BY DEF IInv
<1>3. w \in Wires /\ w.conn = socket[p] /\ w.conn \in Conns /\ w.channel \in Chs
  BY <1>2 DEF Typed, TypeOK, WiresAreNow, Wires, Chs
<1>4. PICK k \in Conns, ch \in Chs, f \in RelayFrames :
         k = socket[p] /\ k = w.conn /\ ch = w.channel /\ f = Close(ch)
  BY <1>3, FrameShape
<1>5. f \in RelayFrames /\ f.t = "close" /\ f.channel = ch /\ ToRelay(k, f)
  BY <1>1, <1>4, FrameShape
<1>6. /\ toRelay' \in [Conns -> Seq(RelayFrames)]
      /\ \A j \in Conns : j # k => toRelay'[j] = toRelay[j]
      /\ toRelay'[k] = toRelay[k] \/ toRelay'[k] = Append(toRelay[k], f)
      /\ peer[k] # "gone" => toRelay'[k] = Append(toRelay[k], f)
      /\ \A j \in Conns : \A g \in Elems(toRelay'[j]) : g \in Elems(toRelay[j]) \/ (j = k /\ g = f)
  BY <1>2, <1>5, SentBack
<1>7. /\ channels' \in [Places -> SUBSET Wires]
      /\ HostHas(p)' = HostHas(p) \ {ch}
      /\ \A q \in Places : q # p => channels'[q] = channels[q]
      /\ \A q \in Places : channels'[q] \subseteq channels[q]
  BY <1>1, <1>4, HasLess
<1>8. Typed'
  <2>1. breaks' \in Nat
    BY <1>1, <1>2 DEF Typed, TypeOK, Breaks
  <2> QED BY <1>1, <1>2, <1>6, <1>7, <2>1 DEF Typed, TypeOK
<1>9. WiresAreNow'
  BY <1>1, <1>2, <1>7 DEF WiresAreNow
<1>10. Owned'
  <2>1. peer[k] \notin {"none", "verifying"}
    BY <1>2, <1>4 DEF Owned
  <2>2. \A q \in Places : channels'[q] # {} => channels[q] # {}
    BY <1>7
  <2> QED BY <1>1, <1>2, <1>6, <2>1, <2>2, OwnedKept
<1>11. Addressed'
  <2>1. Meant(k, f)
    BY <1>5 DEF Meant
  <2> QED BY <1>1, <1>2, <1>6, <2>1, AddressedKept
<1>12. Matched'
  <2>1. ASSUME registered # 0, socket[p] = registered, Fit(p)
        PROVE  Fit(p)'
    <3>1. registered = k /\ peer[k] = "authed" /\ toRelay[k] \in Seq(RelayFrames)
      BY <1>2, <1>4, <2>1, HostIs DEF Typed
    <3>2. Closes(toRelay'[k]) = Closes(toRelay[k]) \cup {ch}
      <4>1. toRelay'[k] = Append(toRelay[k], f)
        BY <1>6, <3>1
      <4>2. \A x \in Chs : Close(x) = f <=> x = ch
        BY <1>4, FrameShape
      <4> QED BY <1>5, <3>1, <4>1, <4>2, OpensAppend
    <3>3. ch \in HostHas(p)
      BY <1>4 DEF HostHas
    <3>4. Fits(Opens(toHost[k]), Closes(toHost[k]), HostHas(p), Closes(toRelay[k]), RelayHas, nextChannel)
      BY <2>1, <3>1 DEF Fit
    <3>5. Fits(Opens(toHost[k]), Closes(toHost[k]), HostHas(p) \ {ch}, Closes(toRelay[k]) \cup {ch}, RelayHas,
               nextChannel)
      BY <3>3, <3>4, FitsLeft
    <3>6. RelayHas' = RelayHas /\ registered' = k /\ toHost' = toHost /\ nextChannel' = nextChannel
      BY <1>1, <3>1 DEF RelayHas
    <3> QED BY <1>7, <2>1, <3>1, <3>2, <3>5, <3>6 DEF Fit
  <2> QED BY <1>1, <1>4, <1>6, <1>7, <2>1, MatchedAt
<1>13. Told'
  BY <1>1, <1>2, ToldKept DEF Routed
<1> QED BY <1>8, <1>9, <1>10, <1>11, <1>12, <1>13 DEF IInv
------------------------------------------------------------------------------
(* The phones' steps.                                                      *)

LEMMA PhoneHearsKeeps ==
    ASSUME IInv, NEW c \in Phones, PhoneHears(c)
    PROVE  IInv'
<1>0. PICK f : f = Head(toPhone[c])
  OBVIOUS
<1>1. /\ phone[c] \in {"connecting", "ready"} /\ toPhone[c] # <<>>
      /\ toPhone' = [toPhone EXCEPT ![c] = Tail(@)]
      /\ phone' = [phone EXCEPT ![c] = CASE f.t = "ready" -> "ready"
                                         [] f.t = "close" -> "closed"
                                         [] OTHER         -> @]
      /\ heard' = IF f.t = "data" /\ phone[c] = "ready"
                  THEN heard \cup {[by |-> "phone", phone |-> c, wire |-> f.wire]} ELSE heard
      /\ UNCHANGED <<hostEnd, toRelay, toHost, fromPhone, relayEnd, said, breaks>>
  BY <1>0 DEF PhoneHears
<1> USE DEF relayEnd, hostEnd
<1>2. Typed /\ WiresAreNow /\ Owned /\ Addressed /\ Matched /\ Told
  BY DEF IInv
<1>3. /\ toPhone[c] \in Seq(PhoneFrames) /\ f \in PhoneFrames /\ f \in Elems(toPhone[c])
      /\ Tail(toPhone[c]) \in Seq(PhoneFrames)
      /\ Elems(Tail(toPhone[c])) \subseteq Elems(toPhone[c])
      /\ Elems(toPhone[c]) \subseteq Elems(Tail(toPhone[c])) \cup {f}
  <2>1. toPhone[c] \in Seq(PhoneFrames)
    BY <1>2 DEF Typed
  <2> QED BY <1>0, <1>1, <2>1, ElemsTail
<1>4. /\ toPhone' \in [Phones -> Seq(PhoneFrames)] /\ toPhone'[c] = Tail(toPhone[c])
      /\ \A d \in Phones : d # c => toPhone'[d] = toPhone[d] /\ phone'[d] = phone[d]
      /\ phone' \in [Phones -> {"new", "connecting", "ready", "closed"}]
      /\ f.t = "close" => phone'[c] = "closed"
      /\ phone'[c] # "new"
  BY <1>1, <1>2, <1>3 DEF Typed, TypeOK
<1>5. f.t = "data" => f.wire \in Wires /\ data[c] = f.wire
  BY <1>2, <1>3, FrameKinds DEF Addressed
<1>6. \A h \in heard' : h \in heard \/ (f.t = "data" /\ h = [by |-> "phone", phone |-> c, wire |-> f.wire])
  BY <1>1
<1>7. Typed'
  <2>1. heard' \in SUBSET [by : {"host", "phone"}, phone : Phones, wire : Wires]
    BY <1>2, <1>5, <1>6 DEF Typed, TypeOK
  <2> QED BY <1>1, <1>2, <1>4, <2>1 DEF Typed, TypeOK
<1>8. WiresAreNow'
  BY <1>1, <1>2 DEF WiresAreNow
<1>9. Owned'
  BY <1>1, <1>2, OwnedKept
<1>10. Addressed'
  <2>1. \A h \in heard' : h \in heard \/ h.wire = data[h.phone]
    BY <1>5, <1>6
  <2>2. \A d \in Phones : Elems(toPhone'[d]) \subseteq Elems(toPhone[d])
    BY <1>3, <1>4
  <2>3. \A d \in Phones : phone'[d] = "new" => phone[d] = "new"
    BY <1>4
  <2> QED BY <1>1, <1>2, <2>1, <2>2, <2>3, AddressedKept
<1>11. Matched'
  BY <1>1, <1>2, MatchedKept
<1>12. Told'
  <2>1. EndFrame \in Elems(toPhone[c]) => EndFrame \in Elems(toPhone'[c]) \/ phone'[c] = "closed"
    BY <1>3, <1>4, FrameShape
  <2> QED BY <1>1, <1>2, <1>4, <2>1, ToldKept DEF Routed
<1> QED BY <1>7, <1>8, <1>9, <1>10, <1>11, <1>12 DEF IInv

LEMMA PhoneSendsKeeps ==
    ASSUME IInv, NEW c \in Phones, PhoneSends(c)
    PROVE  IInv'
<1>1. /\ said' = [said EXCEPT ![c] = @ + 1]
      /\ fromPhone' = [fromPhone EXCEPT ![c] = Append(@, "data")]
      /\ UNCHANGED <<hostEnd, toRelay, toHost, toPhone, relayEnd, phone, heard, breaks>>
  BY DEF PhoneSends
<1> USE DEF relayEnd, hostEnd
<1>2. Typed /\ WiresAreNow /\ Owned /\ Addressed /\ Matched /\ Told
  BY DEF IInv
<1>3. Typed'
  <2>1. said' \in [Phones -> Nat] /\ fromPhone' \in [Phones -> Seq({"data"})]
    BY <1>1, <1>2 DEF Typed, TypeOK
  <2> QED BY <1>1, <1>2, <2>1 DEF Typed, TypeOK
<1>4. WiresAreNow'
  BY <1>1, <1>2 DEF WiresAreNow
<1>5. Owned'
  BY <1>1, <1>2, OwnedKept
<1>6. Addressed'
  BY <1>1, <1>2, AddressedKept
<1>7. Matched'
  BY <1>1, <1>2, MatchedKept
<1>8. Told'
  BY <1>1, <1>2, ToldKept DEF Routed
<1> QED BY <1>3, <1>4, <1>5, <1>6, <1>7, <1>8 DEF IInv

LEMMA PhoneClosesKeeps ==
    ASSUME IInv, NEW c \in Phones, PhoneCloses(c)
    PROVE  IInv'
<1>1. /\ phone' = [phone EXCEPT ![c] = "closed"]
      /\ UNCHANGED <<hostEnd, queues, relayEnd, heard, said>>
      /\ Breaks(FALSE)
  BY DEF PhoneCloses
<1> USE DEF relayEnd, hostEnd, queues
<1>2. Typed /\ WiresAreNow /\ Owned /\ Addressed /\ Matched /\ Told
  BY DEF IInv
<1>3. /\ phone' \in [Phones -> {"new", "connecting", "ready", "closed"}]
      /\ \A d \in Phones : phone'[d] = phone[d] \/ phone'[d] = "closed"
  BY <1>1, <1>2 DEF Typed, TypeOK
<1>4. Typed'
  <2>1. breaks' \in Nat
    BY <1>1, <1>2 DEF Typed, TypeOK, Breaks
  <2> QED BY <1>1, <1>2, <1>3, <2>1 DEF Typed, TypeOK
<1>5. WiresAreNow'
  BY <1>1, <1>2 DEF WiresAreNow
<1>6. Owned'
  BY <1>1, <1>2, OwnedKept
<1>7. Addressed'
  <2>1. \A d \in Phones : phone'[d] = "new" => phone[d] = "new"
    BY <1>3
  <2> QED BY <1>1, <1>2, <2>1, AddressedKept
<1>8. Matched'
  BY <1>1, <1>2, MatchedKept
<1>9. Told'
  BY <1>1, <1>2, <1>3, ToldKept DEF Routed
<1> QED BY <1>4, <1>5, <1>6, <1>7, <1>8, <1>9 DEF IInv
------------------------------------------------------------------------------
(* The relay's steps for its phones.                                       *)

\* Phones that are hung up on are told.
LEMMA ToldHung ==
    ASSUME IInv, NEW cs, Hangs(cs), phone' = phone,
           \A c \in Phones : Routed(c) => Routed(c)' \/ c \in cs
    PROVE  Told'
<1>1. Typed /\ Told
  BY DEF IInv
<1>2. /\ \A c \in Phones : c \in cs /\ link[c] = "open" => EndFrame \in Elems(toPhone'[c])
      /\ \A c \in Phones : c \notin cs => link'[c] = link[c]
      /\ \A c \in Phones : Elems(toPhone[c]) \subseteq Elems(toPhone'[c])
  BY <1>1, Hung
<1>3. ASSUME NEW c \in Phones, link[c] = "open", Routed(c)
      PROVE  (link'[c] = "open" /\ Routed(c)') \/ EndFrame \in Elems(toPhone'[c])
  BY <1>2, <1>3
<1> QED BY <1>1, <1>2, <1>3, ToldKept

\* A phone in the entry was given its channel.
LEMMA RoutedIs ==
    ASSUME IInv, NEW c \in Phones, Routed(c)
    PROVE  /\ registered # 0 /\ data[c] = [conn |-> registered, channel |-> data[c].channel]
           /\ data[c].channel \in Chs /\ data[c] \in Wires
           /\ data[c].channel \in RelayHas
<1>1. PICK e \in clients : e = [channel |-> data[c].channel, phone |-> c]
  BY DEF Routed
<1>2. e.phone = c /\ e.channel = data[c].channel /\ e.channel \in Chs
  BY <1>1 DEF IInv, Typed, TypeOK, Chs
<1>3. registered # 0 /\ data[c] = [conn |-> registered, channel |-> data[c].channel]
  BY <1>1, <1>2 DEF IInv, Addressed
<1>4. registered \in Conns
  BY <1>3, HostIs
<1>5. [conn |-> registered, channel |-> data[c].channel] \in Wires
  BY <1>2, <1>4 DEF Wires, Chs
<1> QED BY <1>1, <1>2, <1>3, <1>5 DEF RelayHas

LEMMA RelayRefusesKeeps ==
    ASSUME IInv, NEW c \in Phones, phone[c] = "new",
           phone' = [phone EXCEPT ![c] = "connecting"],
           link' = [link EXCEPT ![c] = "closing"],
           toPhone' = [toPhone EXCEPT ![c] = Append(@, EndFrame)],
           UNCHANGED <<nextChannel, clients, data, toHost>>,
           UNCHANGED <<hostEnd, toRelay, fromPhone, peer, registered, heard, said, breaks>>
    PROVE  IInv'
<1> USE DEF hostEnd
<1>1. Typed /\ WiresAreNow /\ Owned /\ Addressed /\ Matched /\ Told
  BY DEF IInv
<1>2. /\ Append(toPhone[c], EndFrame) \in Seq(PhoneFrames)
      /\ Elems(Append(toPhone[c], EndFrame)) = Elems(toPhone[c]) \cup {EndFrame}
  BY <1>1, PhoneGets, FrameShape
<1>3. /\ toPhone' \in [Phones -> Seq(PhoneFrames)]
      /\ toPhone'[c] = Append(toPhone[c], EndFrame)
      /\ \A d \in Phones : d # c => toPhone'[d] = toPhone[d] /\ phone'[d] = phone[d] /\ link'[d] = link[d]
      /\ phone'[c] = "connecting"
  BY <1>1, <1>2 DEF Typed, TypeOK
<1>4. Typed'
  <2>1. /\ phone' \in [Phones -> {"new", "connecting", "ready", "closed"}]
        /\ link' \in [Phones -> {"none", "open", "closing", "gone"}]
    BY <1>1 DEF Typed, TypeOK
  <2> QED BY <1>1, <1>3, <2>1 DEF Typed, TypeOK
<1>5. WiresAreNow'
  BY <1>1 DEF WiresAreNow
<1>6. Owned'
  BY <1>1, OwnedKept
<1>7. Addressed'
  <2>1. \A d \in Phones : phone'[d] = "new" => phone[d] = "new"
    BY <1>3
  <2>2. \A d \in Phones : \A f \in Elems(toPhone'[d]) : f \in Elems(toPhone[d]) \/ f.t # "data"
    BY <1>2, <1>3, FrameShape
  <2> QED BY <1>1, <2>1, <2>2, AddressedKept
<1>8. Matched'
  BY <1>1, MatchedKept
<1>9. Told'
  <2>1. EndFrame \in Elems(toPhone'[c])
    BY <1>2, <1>3
  <2>2. \A d \in Phones : d # c => (Routed(d)' <=> Routed(d))
    BY DEF Routed
  <2> QED BY <1>1, <1>3, <2>1, <2>2 DEF Told, ToldOf
<1> QED BY <1>4, <1>5, <1>6, <1>7, <1>8, <1>9 DEF IInv

LEMMA RelayTakesInKeeps ==
    ASSUME IInv, NEW c \in Phones, phone[c] = "new", registered # 0,
           phone' = [phone EXCEPT ![c] = "connecting"],
           link' = [link EXCEPT ![c] = "open"],
           data' = [data EXCEPT ![c] = [conn |-> registered, channel |-> nextChannel]],
           nextChannel' = nextChannel + 1,
           clients' = clients \cup {[channel |-> nextChannel, phone |-> c]},
           ToHost(registered, Open(nextChannel)),
           toPhone' = [toPhone EXCEPT ![c] = Append(@, ReadyFrame)],
           UNCHANGED <<hostEnd, toRelay, fromPhone, peer, registered, heard, said, breaks>>
    PROVE  IInv'
<1> USE DEF hostEnd
<1>1. Typed /\ WiresAreNow /\ Owned /\ Addressed /\ Matched /\ Told
  BY DEF IInv
<1>2. /\ registered \in Conns /\ peer[registered] = "authed"
      /\ \A p \in Places : socket[p] = registered => owner[registered] = p
  BY HostIs
<1>3. PICK n \in Chs, k \in Conns, f \in HostFrames :
         n = nextChannel /\ k = registered /\ f = Open(n) /\ f.t = "open" /\ f.channel = n
  BY <1>1, <1>2, Numbers, FrameShape
<1>4. /\ Append(toPhone[c], ReadyFrame) \in Seq(PhoneFrames)
      /\ Elems(Append(toPhone[c], ReadyFrame)) = Elems(toPhone[c]) \cup {ReadyFrame}
  BY <1>1, PhoneGets, FrameShape
<1>5. /\ toHost' \in [Conns -> Seq(HostFrames)]
      /\ \A j \in Conns : j # k => toHost'[j] = toHost[j]
      /\ socket[owner[k]] = k => toHost'[k] = Append(toHost[k], f)
      /\ \A j \in Conns : \A g \in Elems(toHost'[j]) : g \in Elems(toHost[j]) \/ (j = k /\ g = f)
  BY <1>1, <1>3, Sent
<1>6. /\ toPhone' \in [Phones -> Seq(PhoneFrames)]
      /\ toPhone'[c] = Append(toPhone[c], ReadyFrame)
      /\ phone'[c] = "connecting" /\ link'[c] = "open" /\ data'[c] = [conn |-> k, channel |-> n]
      /\ \A d \in Phones : d # c => /\ toPhone'[d] = toPhone[d] /\ phone'[d] = phone[d] /\ link'[d] = link[d]
                                    /\ data'[d] = data[d]
  BY <1>1, <1>3, <1>4 DEF Typed, TypeOK
<1>7. Typed'
  <2>1. /\ phone' \in [Phones -> {"new", "connecting", "ready", "closed"}]
        /\ link' \in [Phones -> {"none", "open", "closing", "gone"}]
    BY <1>1 DEF Typed, TypeOK
  <2>2. [conn |-> k, channel |-> n] \in Wires
    BY <1>3 DEF Wires, Chs
  <2>3. data' \in [Phones -> Wires \cup {Unplaced}]
    BY <1>1, <1>3, <2>2 DEF Typed, TypeOK
  <2>4. clients' \in SUBSET [channel : Nat \ {0}, phone : Phones]
    BY <1>1, <1>3 DEF Typed, TypeOK, Chs
  <2>5. nextChannel' \in Nat \ {0}
    BY <1>3 DEF Chs
  <2> QED BY <1>1, <1>5, <1>6, <2>1, <2>3, <2>4, <2>5 DEF Typed, TypeOK
<1>8. WiresAreNow'
  BY <1>1 DEF WiresAreNow
<1>9. Owned'
  BY <1>1, <1>2, <1>3, <1>5, OwnedKept
<1>10. Addressed'
  <2>1. \A d \in Phones : data[d] \in Wires => data'[d] = data[d] /\ d # c
    <3>1. data[c] = Unplaced /\ Unplaced \notin Wires
      BY <1>1 DEF Addressed, Unplaced, Wires, Conns
    <3> QED BY <1>6, <3>1
  <2>2. \A d \in Phones : phone'[d] = "new" => data'[d] = Unplaced
    BY <1>1, <1>6 DEF Addressed
  <2>3. \A j \in Conns : \A ch \in Chs : [conn |-> j, channel |-> ch] \in Wires
    BY DEF Wires, Chs
  <2>4. \A e \in clients' : registered' # 0 /\ data'[e.phone] = [conn |-> registered', channel |-> e.channel]
    <3> TAKE e \in clients'
    <3>1. CASE e \in clients
      <4>1. e.phone \in Phones /\ e.channel \in Chs
        BY <1>1, <3>1 DEF Typed, TypeOK, Chs
      <4>2. data[e.phone] = [conn |-> k, channel |-> e.channel]
        BY <1>1, <1>3, <3>1 DEF Addressed
      <4> QED BY <1>3, <2>1, <2>3, <4>1, <4>2
    <3>2. CASE e = [channel |-> n, phone |-> c]
      BY <1>3, <1>6, <3>2
    <3> QED BY <1>3, <3>1, <3>2
  <2>5. \A j \in Conns : \A g \in Elems(toHost'[j]) : Meant(j, g)'
    <3> TAKE j \in Conns
    <3> TAKE g \in Elems(toHost'[j])
    <3>1. CASE g = f
      BY <1>3, <3>1 DEF Meant
    <3>2. CASE g \in Elems(toHost[j])
      <4>1. g \in HostFrames /\ Meant(j, g)
        BY <1>1, <3>2, ElemsIn DEF Typed, Addressed
      <4>2. g.t = "data" => g.phone \in Phones /\ g.wire \in Wires
        BY <4>1, FrameKinds
      <4> QED BY <2>1, <4>1, <4>2 DEF Meant
    <3> QED BY <1>5, <3>1, <3>2
  <2>6. \A j \in Conns : \A g \in Elems(toRelay'[j]) : Meant(j, g)'
    <3> TAKE j \in Conns
    <3> TAKE g \in Elems(toRelay'[j])
    <3>1. g \in RelayFrames /\ Meant(j, g)
      BY <1>1, ElemsIn DEF Typed, Addressed
    <3>2. g.t = "data" => g.phone \in Phones /\ g.wire \in Wires
      BY <3>1, FrameKinds
    <3> QED BY <2>1, <3>1, <3>2 DEF Meant
  <2>7. \A d \in Phones : \A g \in Elems(toPhone'[d]) : g.t = "data" => data'[d] = g.wire
    <3> TAKE d \in Phones
    <3> TAKE g \in Elems(toPhone'[d])
    <3>1. g \in Elems(toPhone[d]) \/ g = ReadyFrame
      BY <1>4, <1>6
    <3>2. g \in Elems(toPhone[d]) => g \in PhoneFrames
      BY <1>1, ElemsIn DEF Typed
    <3>3. g \in Elems(toPhone[d]) /\ g.t = "data" => data[d] = g.wire /\ g.wire \in Wires
      BY <1>1, <3>2, FrameKinds DEF Addressed
    <3> QED BY <2>1, <3>1, <3>3, FrameShape
  <2>8. RightWire'
    <3> SUFFICES ASSUME NEW h \in heard
                 PROVE  h.wire = data'[h.phone]
      BY DEF RightWire
    <3>1. h.wire \in Wires /\ h.phone \in Phones /\ h.wire = data[h.phone]
      BY <1>1 DEF Typed, TypeOK, Addressed, RightWire
    <3> QED BY <2>1, <3>1
  <2> QED BY <2>2, <2>4, <2>5, <2>6, <2>7, <2>8, Zenon DEF Addressed
<1>11. Matched'
  <2>1. \A e \in clients : e.channel < n /\ e.channel \in Nat
    BY <1>1, <1>3 DEF Matched, Typed, TypeOK
  <2>2. \A e \in clients' : e \in clients \/ (e = [channel |-> n, phone |-> c] /\ e.channel = n)
    BY <1>3
  <2>3. \A d, e \in clients' : d.channel = e.channel => d = e
    <3>1. \A e \in clients : e.channel # n
      BY <2>1
    <3> QED BY <1>1, <2>2, <3>1 DEF Matched
  <2>4. \A e \in clients' : e.channel < nextChannel'
    BY <1>3, <2>1, <2>2 DEF Chs
  <2>5. ASSUME NEW p \in Places, socket[p] = registered
        PROVE  Fit(p)'
    <3>1. Ordered(toHost[k]) /\ Fits(Opens(toHost[k]), Closes(toHost[k]), HostHas(p), Closes(toRelay[k]),
                                     RelayHas, n)
      BY <1>1, <1>3, <2>5 DEF Matched, Fit
    <3>2. toHost'[k] = Append(toHost[k], f) /\ toHost[k] \in Seq(HostFrames)
      BY <1>1, <1>2, <1>3, <1>5, <2>5 DEF Typed
    <3>3. Opens(toHost'[k]) = Opens(toHost[k]) \cup {n}
      <4>1. \A x \in Chs : Open(x) = f <=> x = n
        BY <1>3, FrameShape
      <4> QED BY <3>2, <4>1, OpensAppend
    <3>4. Closes(toHost'[k]) = Closes(toHost[k])
      <4>1. {x \in Chs : Close(x) = f} = {}
        BY <1>3, FrameShape
      <4>2. Closes(Append(toHost[k], f)) = Closes(toHost[k]) \cup {x \in Chs : Close(x) = f}
        BY <3>2, OpensAppend
      <4> QED BY <3>2, <4>1, <4>2
    <3>5. RelayHas' = RelayHas \cup {n}
      BY <1>3, <2>2 DEF RelayHas
    <3>6. Fits(Opens(toHost[k]) \cup {n}, Closes(toHost[k]), HostHas(p), Closes(toRelay[k]), RelayHas \cup {n}, n + 1)
      BY <1>1, <3>1, FitsGiven, Numbers
    <3>7. Ordered(toHost'[k])
      <4>1. \A ch \in Opens(toHost[k]) \cup Closes(toHost[k]) : ch < n /\ ch \in Nat
        BY <1>1, <3>1, Numbers DEF Fits, Chs
      <4>2. n \notin Closes(toHost[k])
        BY <4>1
      <4> QED BY <1>3, <3>1, <3>2, <4>1, <4>2, OrderedAppend
    <3>8. HostHas(p)' = HostHas(p) /\ registered' = k /\ toRelay' = toRelay /\ nextChannel' = n + 1
      BY <1>3 DEF HostHas
    <3> QED BY <3>3, <3>4, <3>5, <3>6, <3>7, <3>8 DEF Fit
  <2> QED BY <2>3, <2>4, <2>5 DEF Matched
<1>12. Told'
  <2>1. Routed(c)' /\ link'[c] = "open"
    BY <1>3, <1>6 DEF Routed
  <2>2. \A d \in Phones : d # c => (Routed(d) => Routed(d)')
    BY <1>6 DEF Routed
  <2> QED BY <1>1, <1>6, <2>1, <2>2 DEF Told, ToldOf
<1> QED BY <1>7, <1>8, <1>9, <1>10, <1>11, <1>12 DEF IInv

LEMMA RelayOpensKeeps ==
    ASSUME IInv, NEW c \in Phones, RelayOpens(c)
    PROVE  IInv'
<1>1. CASE registered = 0 \/ Cardinality(clients) >= MaxClients
  BY <1>1, RelayRefusesKeeps DEF RelayOpens, EndFrame
<1>2. CASE ~(registered = 0 \/ Cardinality(clients) >= MaxClients)
  BY <1>2, RelayTakesInKeeps DEF RelayOpens, ReadyFrame
<1> QED BY <1>1, <1>2

LEMMA RelayForwardsKeeps ==
    ASSUME IInv, NEW c \in Phones, RelayForwards(c)
    PROVE  IInv'
<1>1. /\ link[c] \in {"open", "closing"} /\ fromPhone[c] # <<>>
      /\ fromPhone' = [fromPhone EXCEPT ![c] = Tail(@)]
      /\ UNCHANGED <<hostEnd, toRelay, peer, registered, nextChannel, clients, data, phone, heard, said, breaks>>
  BY DEF RelayForwards
<1> USE DEF hostEnd
<1>2. Typed /\ WiresAreNow /\ Owned /\ Addressed /\ Matched /\ Told
  BY DEF IInv
<1>3. fromPhone' \in [Phones -> Seq({"data"})]
  <2>1. fromPhone[c] \in Seq({"data"}) /\ fromPhone[c] # <<>>
    BY <1>1, <1>2 DEF Typed
  <2>2. Tail(fromPhone[c]) \in Seq({"data"})
    BY <2>1
  <2> QED BY <1>1, <1>2, <2>2 DEF Typed
<1>4. WiresAreNow'
  BY <1>1, <1>2 DEF WiresAreNow
<1>5. ASSUME registered # 0, Routed(c)
      PROVE  IInv'
  <2>1. /\ ToHost(registered, Data(data[c].channel, c, data[c])) /\ UNCHANGED <<link, toPhone>>
        /\ data[c] = [conn |-> registered, channel |-> data[c].channel]
        /\ data[c].channel \in Chs /\ data[c] \in Wires /\ registered \in Conns /\ peer[registered] = "authed"
    BY <1>5, RoutedIs, HostIs DEF RelayForwards
  <2>2. PICK k \in Conns, f \in HostFrames :
           /\ k = registered /\ f = Data(data[c].channel, c, data[c]) /\ f.t = "data"
           /\ f.channel = data[c].channel /\ f.phone = c /\ f.wire = data[c]
    BY <2>1, FrameShape
  <2>3. /\ toHost' \in [Conns -> Seq(HostFrames)]
        /\ \A j \in Conns : j # k => toHost'[j] = toHost[j]
        /\ toHost'[k] = toHost[k] \/ toHost'[k] = Append(toHost[k], f)
        /\ \A j \in Conns : \A g \in Elems(toHost'[j]) : g \in Elems(toHost[j]) \/ (j = k /\ g = f)
    BY <1>2, <2>1, <2>2, Sent
  <2>4. Typed'
    BY <1>1, <1>2, <1>3, <2>1, <2>3 DEF Typed, TypeOK
  <2>5. Owned'
    BY <1>1, <1>2, <2>1, <2>2, <2>3, OwnedKept
  <2>6. Addressed'
    <3>1. Meant(k, f)
      BY <2>1, <2>2 DEF Meant
    <3> QED BY <1>1, <1>2, <2>1, <2>3, <3>1, AddressedKept
  <2>7. Matched'
    <3>1. PICK s \in Seq(HostFrames) : s = toHost[k]
      BY <1>2 DEF Typed
    <3>2. {x \in Chs : Open(x) = f} = {} /\ {x \in Chs : Close(x) = f} = {}
      BY <2>2, FrameShape
    <3>3. Opens(Append(s, f)) = Opens(s) /\ Closes(Append(s, f)) = Closes(s)
      <4>1. /\ Opens(Append(s, f)) = Opens(s) \cup {x \in Chs : Open(x) = f}
            /\ Closes(Append(s, f)) = Closes(s) \cup {x \in Chs : Close(x) = f}
        BY OpensAppend
      <4> QED BY <3>2, <4>1
    <3>4. Ordered(s) => Ordered(Append(s, f))
      BY <2>2, OrderedAppend
    <3> QED BY <1>1, <1>2, <2>2, <2>3, <3>1, <3>3, <3>4, MatchedKept
  <2>8. Told'
    BY <1>1, <1>2, <2>1, ToldKept DEF Routed
  <2> QED BY <1>4, <2>4, <2>5, <2>6, <2>7, <2>8 DEF IInv
<1>6. ASSUME ~(registered # 0 /\ Routed(c))
      PROVE  IInv'
  <2>1. Hangs({c}) /\ UNCHANGED toHost
    BY <1>6 DEF RelayForwards
  <2>2. /\ link' \in [Phones -> {"none", "open", "closing", "gone"}]
        /\ toPhone' \in [Phones -> Seq(PhoneFrames)]
        /\ \A d \in Phones : \A f \in Elems(toPhone'[d]) : f \in Elems(toPhone[d]) \/ f = EndFrame
    BY <1>2, <2>1, Hung
  <2>3. Typed'
    BY <1>1, <1>2, <1>3, <2>1, <2>2 DEF Typed, TypeOK
  <2>4. Owned'
    BY <1>1, <1>2, <2>1, OwnedKept
  <2>5. Addressed'
    BY <1>1, <1>2, <2>1, <2>2, FrameShape, AddressedKept
  <2>6. Matched'
    BY <1>1, <1>2, <2>1, MatchedKept
  <2>7. Told'
    BY <1>1, <2>1, ToldHung DEF Routed
  <2> QED BY <1>4, <2>3, <2>4, <2>5, <2>6, <2>7 DEF IInv
<1> QED BY <1>5, <1>6

LEMMA RelayReleasesKeeps ==
    ASSUME IInv, NEW c \in Phones, RelayReleases(c)
    PROVE  IInv'
<1>1. /\ link[c] \in {"open", "closing"}
      /\ link' = [link EXCEPT ![c] = "gone"]
      /\ fromPhone' = [fromPhone EXCEPT ![c] = <<>>]
      /\ toPhone' = IF link[c] = "open" THEN [toPhone EXCEPT ![c] = Append(@, EndFrame)] ELSE toPhone
      /\ UNCHANGED <<hostEnd, toRelay, peer, registered, nextChannel, data, phone, heard, said>>
      /\ Breaks(phone[c] = "closed" \/ link[c] = "closing")
  BY DEF RelayReleases, EndFrame
<1> USE DEF hostEnd
<1>2. Typed /\ WiresAreNow /\ Owned /\ Addressed /\ Matched /\ Told
  BY DEF IInv
<1>3. /\ fromPhone' \in [Phones -> Seq({"data"})]
      /\ link' \in [Phones -> {"none", "open", "closing", "gone"}]
      /\ breaks' \in Nat
  <2>1. <<>> \in Seq({"data"})
    OBVIOUS
  <2> QED BY <1>1, <1>2, <2>1 DEF Typed, TypeOK, Breaks
<1>4. WiresAreNow'
  BY <1>1, <1>2 DEF WiresAreNow
<1>5. /\ toPhone' \in [Phones -> Seq(PhoneFrames)]
      /\ link[c] = "open" => EndFrame \in Elems(toPhone'[c])
      /\ \A d \in Phones : d # c => toPhone'[d] = toPhone[d] /\ link'[d] = link[d]
      /\ \A d \in Phones : Elems(toPhone[d]) \subseteq Elems(toPhone'[d])
      /\ \A d \in Phones : \A f \in Elems(toPhone'[d]) : f \in Elems(toPhone[d]) \/ f = EndFrame
  <2>1. /\ Append(toPhone[c], EndFrame) \in Seq(PhoneFrames)
        /\ Elems(Append(toPhone[c], EndFrame)) = Elems(toPhone[c]) \cup {EndFrame}
    BY <1>2, PhoneGets, FrameShape
  <2>2. toPhone \in [Phones -> Seq(PhoneFrames)] /\ link \in [Phones -> {"none", "open", "closing", "gone"}]
    BY <1>2 DEF Typed, TypeOK
  <2>3. /\ toPhone' \in [Phones -> Seq(PhoneFrames)]
        /\ toPhone'[c] = IF link[c] = "open" THEN Append(toPhone[c], EndFrame) ELSE toPhone[c]
        /\ \A d \in Phones : d # c => toPhone'[d] = toPhone[d] /\ link'[d] = link[d]
    BY <1>1, <2>1, <2>2
  <2> QED BY <2>1, <2>3
<1>6. \A d \in Phones : d # c /\ Routed(d) => Routed(d)'
  <2>1. \A d \in Phones : d # c => [channel |-> data[d].channel, phone |-> d]
                                    # [channel |-> data[c].channel, phone |-> c]
    OBVIOUS
  <2>2. clients' = clients \/ clients' = clients \ {[channel |-> data[c].channel, phone |-> c]}
    BY DEF RelayReleases
  <2> QED BY <1>1, <2>1, <2>2 DEF Routed
<1>7. Told'
  <2>1. \A d \in Phones : link[d] = "open" /\ Routed(d) =>
           (link'[d] = "open" /\ Routed(d)') \/ EndFrame \in Elems(toPhone'[d])
    BY <1>5, <1>6
  <2> QED BY <1>1, <1>2, <1>5, <2>1, ToldKept
<1>8. ASSUME registered # 0, Routed(c)
      PROVE  IInv'
  <2>1. /\ clients' = clients \ {[channel |-> data[c].channel, phone |-> c]}
        /\ ToHost(registered, Close(data[c].channel))
        /\ data[c].channel \in Chs /\ data[c].channel \in RelayHas
        /\ registered \in Conns /\ peer[registered] = "authed"
        /\ \A p \in Places : socket[p] = registered => owner[registered] = p
    BY <1>8, RoutedIs, HostIs DEF RelayReleases
  <2>2. PICK k \in Conns, ch \in Chs, f \in HostFrames :
           /\ k = registered /\ ch = data[c].channel /\ f = Close(ch) /\ f.t = "close" /\ f.channel = ch
    BY <2>1, FrameShape
  <2>3. /\ toHost' \in [Conns -> Seq(HostFrames)]
        /\ \A j \in Conns : j # k => toHost'[j] = toHost[j]
        /\ socket[owner[k]] = k => toHost'[k] = Append(toHost[k], f)
        /\ \A j \in Conns : \A g \in Elems(toHost'[j]) : g \in Elems(toHost[j]) \/ (j = k /\ g = f)
    BY <1>2, <2>1, <2>2, Sent
  <2>4. Typed'
    <3>1. clients' \in SUBSET [channel : Nat \ {0}, phone : Phones]
      BY <1>2, <2>1 DEF Typed, TypeOK
    <3> QED BY <1>1, <1>2, <1>3, <1>5, <2>3, <3>1 DEF Typed, TypeOK
  <2>5. Owned'
    BY <1>1, <1>2, <2>1, <2>2, <2>3, OwnedKept
  <2>6. Addressed'
    <3>1. Meant(k, f)
      BY <2>2 DEF Meant
    <3> QED BY <1>1, <1>2, <1>5, <2>1, <2>3, <3>1, FrameShape, AddressedKept
  <2>7. Matched'
    <3>1. \A d, e \in clients' : d.channel = e.channel => d = e
      BY <1>2, <2>1 DEF Matched
    <3>2. \A e \in clients' : e.channel < nextChannel'
      BY <1>1, <1>2, <2>1 DEF Matched
    <3>3. RelayHas' = RelayHas \ {ch}
      <4>1. [channel |-> ch, phone |-> c] \in clients
        BY <1>8, <2>2 DEF Routed
      <4>2. [channel |-> ch, phone |-> c].channel = ch
        OBVIOUS
      <4>3. \A e \in clients : e.channel = ch => e = [channel |-> ch, phone |-> c]
        BY <1>2, <4>1, <4>2 DEF Matched
      <4>4. ASSUME NEW x
            PROVE  x \in RelayHas' <=> x \in RelayHas /\ x # ch
        <5>1. x \in RelayHas' <=> \E e \in clients' : e.channel = x
          BY DEF RelayHas
        <5>2. x \in RelayHas <=> \E e \in clients : e.channel = x
          BY DEF RelayHas
        <5> QED BY <2>1, <2>2, <4>2, <4>3, <5>1, <5>2
      <4> QED BY <4>4
    <3>4. ASSUME NEW p \in Places, socket[p] = registered
          PROVE  Fit(p)'
      <4>1. Ordered(toHost[k]) /\ Fits(Opens(toHost[k]), Closes(toHost[k]), HostHas(p), Closes(toRelay[k]),
                                       RelayHas, nextChannel)
        BY <1>2, <1>8, <2>2, <3>4 DEF Matched, Fit
      <4>2. toHost'[k] = Append(toHost[k], f) /\ toHost[k] \in Seq(HostFrames)
        BY <1>2, <2>1, <2>2, <2>3, <3>4 DEF Typed
      <4>3. Opens(toHost'[k]) = Opens(toHost[k])
        <5>1. {x \in Chs : Open(x) = f} = {}
          BY <2>2, FrameShape
        <5>2. Opens(Append(toHost[k], f)) = Opens(toHost[k]) \cup {x \in Chs : Open(x) = f}
          BY <4>2, OpensAppend
        <5> QED BY <4>2, <5>1, <5>2
      <4>4. Closes(toHost'[k]) = Closes(toHost[k]) \cup {ch}
        <5>1. \A x \in Chs : Close(x) = f <=> x = ch
          BY <2>2, FrameShape
        <5> QED BY <4>2, <5>1, OpensAppend
      <4>5. Fits(Opens(toHost[k]), Closes(toHost[k]) \cup {ch}, HostHas(p), Closes(toRelay[k]), RelayHas \ {ch},
                 nextChannel)
        BY <2>1, <2>2, <4>1, FitsReleased
      <4>6. Ordered(toHost'[k])
        BY <2>2, <4>1, <4>2, OrderedAppend
      <4>7. HostHas(p)' = HostHas(p) /\ registered' = k /\ toRelay' = toRelay /\ nextChannel' = nextChannel
        BY <1>1, <2>2 DEF HostHas
      <4> QED BY <3>3, <4>3, <4>4, <4>5, <4>6, <4>7 DEF Fit
    <3>5. \A p \in Places : registered' # 0 /\ socket'[p] = registered' => Fit(p)'
      BY <1>1, <3>4
    <3> QED BY <3>1, <3>2, <3>5 DEF Matched
  <2> QED BY <1>4, <1>7, <2>4, <2>5, <2>6, <2>7 DEF IInv
<1>9. ASSUME ~(registered # 0 /\ Routed(c))
      PROVE  IInv'
  <2>1. UNCHANGED <<clients, toHost>>
    BY <1>9 DEF RelayReleases
  <2>2. Typed'
    BY <1>1, <1>2, <1>3, <1>5, <2>1 DEF Typed, TypeOK
  <2>3. Owned'
    BY <1>1, <1>2, <2>1, OwnedKept
  <2>4. Addressed'
    BY <1>1, <1>2, <1>5, <2>1, FrameShape, AddressedKept
  <2>5. Matched'
    BY <1>1, <1>2, <2>1, MatchedKept
  <2> QED BY <1>4, <1>7, <2>2, <2>3, <2>4, <2>5 DEF IInv
<1> QED BY <1>8, <1>9
------------------------------------------------------------------------------
(* The relay's steps for the host.                                         *)

LEMMA AdmitsKeeps ==
    ASSUME IInv, NEW k \in Conns, Admits(k)
    PROVE  IInv'
<1>1. /\ peer[k] = "verifying" /\ Next2(k, "auth") /\ Read(k)
      /\ peer' = [j \in Conns |-> IF j = k THEN "authed" ELSE IF j = registered THEN "gone" ELSE peer[j]]
      /\ IF registered = 0 THEN UNCHANGED toHost ELSE ToHost(registered, GoneFrame)
      /\ Hangs(InEntry)
      /\ registered' = k /\ clients' = {} /\ nextChannel' = 1
      /\ UNCHANGED <<hostEnd, fromPhone, data, phone, heard, said, breaks>>
  BY DEF Admits, GoneFrame
<1> USE DEF hostEnd
<1>2. Typed /\ WiresAreNow /\ Owned /\ Addressed /\ Matched /\ Told
  BY DEF IInv
<1>3. /\ toHost[k] = <<>> /\ toRelay[k] = <<AuthFrame>> /\ \A p \in Places : socket[p] = k => channels[p] = {}
      /\ registered # k
  BY <1>1, <1>2, ConnsAre DEF Owned
<1>4. /\ toRelay' \in [Conns -> Seq(RelayFrames)]
      /\ \A j \in Conns : j # k => toRelay'[j] = toRelay[j]
      /\ toRelay'[k] = <<>>
      /\ \A j \in Conns : Elems(toRelay'[j]) \subseteq Elems(toRelay[j])
  <2>1. Tail(<<AuthFrame>>) = <<>>
    OBVIOUS
  <2> QED BY <1>1, <1>2, <1>3, <2>1, RelayReads
<1>5. /\ toHost' \in [Conns -> Seq(HostFrames)]
      /\ \A j \in Conns : j # registered => toHost'[j] = toHost[j]
      /\ \A j \in Conns : \A g \in Elems(toHost'[j]) : g \in Elems(toHost[j]) \/ g = GoneFrame
  <2>1. CASE registered = 0
    BY <1>1, <1>2, <2>1 DEF Typed
  <2>2. CASE registered # 0
    BY <1>1, <1>2, <2>2, HostIs, FrameShape, Sent
  <2> QED BY <2>1, <2>2
<1>6. /\ link' \in [Phones -> {"none", "open", "closing", "gone"}]
      /\ toPhone' \in [Phones -> Seq(PhoneFrames)]
      /\ \A d \in Phones : \A f \in Elems(toPhone'[d]) : f \in Elems(toPhone[d]) \/ f = EndFrame
  BY <1>1, <1>2, Hung
<1>7. \A j \in Conns : peer'[j] = IF j = k THEN "authed" ELSE IF j = registered THEN "gone" ELSE peer[j]
  BY <1>1
<1>8. Typed'
  <2>1. peer' \in [Conns -> {"none", "verifying", "authed", "gone"}]
    BY <1>1, <1>2 DEF Typed, TypeOK
  <2>2. registered' \in 0 .. MaxConns /\ nextChannel' \in Nat \ {0}
    BY <1>1, RelayAssumption DEF Conns
  <2>3. clients' \in SUBSET [channel : Nat \ {0}, phone : Phones]
    BY <1>1
  <2> QED BY <1>1, <1>2, <1>4, <1>5, <1>6, <2>1, <2>2, <2>3 DEF Typed, TypeOK
<1>9. WiresAreNow'
  BY <1>1, <1>2 DEF WiresAreNow
<1>10. Owned'
  <2>1. \A p \in Places : socket'[p] # 0 => socket'[p] <= Len(owner') /\ owner'[socket'[p]] = p
    BY <1>1, <1>2 DEF Owned
  <2>2. \A j \in Conns : peer'[j] = "none" <=> j > Len(owner')
    <3>1. registered # 0 => peer[registered] = "authed"
      BY <1>2 DEF Owned
    <3> TAKE j \in Conns
    <3>2. peer'[j] = "none" <=> peer[j] = "none"
      BY <1>1, <1>7, <3>1, ConnsAre
    <3> QED BY <1>1, <1>2, <3>2 DEF Owned
  <2>3. \A j \in Conns : peer'[j] \in {"none", "verifying"} => j # k /\ j # registered /\ peer[j] = peer'[j]
    BY <1>7
  <2>4. \A j \in Conns : peer'[j] \in {"none", "verifying"} =>
           toHost'[j] = <<>> /\ \A p \in Places : socket'[p] = j => channels'[p] = {}
    BY <1>1, <1>2, <1>5, <2>3 DEF Owned
  <2>5. \A j \in Conns : peer'[j] = "verifying" => toRelay'[j] = <<AuthFrame>>
    BY <1>2, <1>4, <2>3 DEF Owned
  <2>6. registered' # 0 => peer'[registered'] = "authed"
    BY <1>1, <1>7
  <2> QED BY <2>1, <2>2, <2>4, <2>5, <2>6 DEF Owned
<1>11. Addressed'
  <2>1. \A j \in Conns : \A f \in Elems(toHost'[j]) : f \in Elems(toHost[j]) \/ Meant(j, f)
    BY <1>5, FrameShape DEF Meant
  <2>2. \A d \in Phones : \A f \in Elems(toPhone'[d]) : f \in Elems(toPhone[d]) \/ (f.t = "data" => data[d] = f.wire)
    BY <1>6, FrameShape
  <2> QED BY <1>1, <1>2, <1>4, <2>1, <2>2, AddressedKept
<1>12. Matched'
  <2>1. RelayHas' = {}
    BY <1>1 DEF RelayHas
  <2>2. ASSUME NEW p \in Places, socket[p] = k
        PROVE  Fit(p)'
    <3>1. HostHas(p)' = {}
      BY <1>1, <1>3, <2>2 DEF HostHas
    <3>2. toHost'[k] = <<>>
      BY <1>3, <1>5
    <3> QED BY <1>1, <1>4, <2>1, <3>1, <3>2, ElemsNone, FitsNone DEF Fit
  <2> QED BY <1>1, <2>2 DEF Matched
<1>13. Told'
  <2>1. \A c \in Phones : Routed(c) => c \in InEntry
    <3> TAKE c \in Phones
    <3>1. [channel |-> data[c].channel, phone |-> c].phone = c
      OBVIOUS
    <3> QED BY <3>1 DEF Routed, InEntry
  <2> QED BY <1>1, <2>1, ToldHung
<1> QED BY <1>8, <1>9, <1>10, <1>11, <1>12, <1>13 DEF IInv

LEMMA RelayDeliversKeeps ==
    ASSUME IInv, NEW k \in Conns, RelayDelivers(k)
    PROVE  IInv'
<1>0. PICK f, to : f = Head(toRelay[k]) /\ to = {e.phone : e \in {e \in clients : e.channel = f.channel}}
  OBVIOUS
<1>1. /\ peer[k] = "authed" /\ Next2(k, "data") /\ Read(k)
      /\ toPhone' = [c \in Phones |-> IF registered = k /\ c \in to /\ link[c] = "open"
                                      THEN Append(toPhone[c], f) ELSE toPhone[c]]
      /\ UNCHANGED <<hostEnd, toHost, fromPhone, relayEnd, phone, heard, said, breaks>>
  BY <1>0 DEF RelayDelivers
<1> USE DEF hostEnd, relayEnd
<1>2. Typed /\ WiresAreNow /\ Owned /\ Addressed /\ Matched /\ Told
  BY DEF IInv
<1>3. /\ f \in RelayFrames /\ f \in Elems(toRelay[k]) /\ f.t = "data"
      /\ toRelay[k] \in Seq(RelayFrames) /\ toRelay[k] # <<>> /\ f = Head(toRelay[k])
      /\ toRelay' \in [Conns -> Seq(RelayFrames)]
      /\ \A j \in Conns : j # k => toRelay'[j] = toRelay[j]
      /\ toRelay'[k] = Tail(toRelay[k])
      /\ \A j \in Conns : Elems(toRelay'[j]) \subseteq Elems(toRelay[j])
  BY <1>0, <1>1, <1>2, RelayReads
<1>4. f \in PhoneFrames /\ f.wire = [conn |-> k, channel |-> f.channel]
  BY <1>2, <1>3, FrameKinds, FrameShape DEF Addressed, Meant
<1>5. \A c \in Phones : /\ Append(toPhone[c], f) \in Seq(PhoneFrames)
                        /\ Elems(Append(toPhone[c], f)) = Elems(toPhone[c]) \cup {f}
  BY <1>2, <1>4, PhoneGets
<1>6. /\ toPhone' \in [Phones -> Seq(PhoneFrames)]
      /\ \A c \in Phones : Elems(toPhone[c]) \subseteq Elems(toPhone'[c])
      /\ \A c \in Phones : \A g \in Elems(toPhone'[c]) :
            g \in Elems(toPhone[c]) \/ (registered = k /\ c \in to /\ g = f)
  BY <1>1, <1>2, <1>5 DEF Typed
<1>7. \A c \in Phones : registered = k /\ c \in to => data[c] = f.wire
  <2> TAKE c \in Phones
  <2>1. c \in to => \E e \in clients : e.channel = f.channel /\ e.phone = c
    BY <1>0
  <2> QED BY <1>2, <1>4, <2>1 DEF Addressed
<1>8. Typed'
  BY <1>1, <1>2, <1>3, <1>6 DEF Typed, TypeOK
<1>9. WiresAreNow'
  BY <1>1, <1>2 DEF WiresAreNow
<1>10. Owned'
  BY <1>1, <1>2, <1>3, OwnedKept
<1>11. Addressed'
  BY <1>1, <1>2, <1>3, <1>6, <1>7, AddressedKept
<1>12. Matched'
  <2>1. Closes(toRelay'[k]) = Closes(toRelay[k])
    BY <1>3, OpensTail, FrameShape DEF Closes
  <2>2. registered # 0 => registered \in Conns
    BY HostIs
  <2> QED BY <1>1, <1>2, <1>3, <2>1, <2>2, MatchedKept
<1>13. Told'
  BY <1>1, <1>2, <1>6, ToldKept DEF Routed
<1> QED BY <1>8, <1>9, <1>10, <1>11, <1>12, <1>13 DEF IInv

LEMMA RelayClosesKeeps ==
    ASSUME IInv, NEW k \in Conns, RelayCloses(k)
    PROVE  IInv'
<1>0. PICK f, gone, cs : /\ f = Head(toRelay[k])
                         /\ gone = {e \in clients : registered = k /\ e.channel = f.channel}
                         /\ cs = {e.phone : e \in gone}
  OBVIOUS
<1>1. /\ peer[k] = "authed" /\ Next2(k, "close") /\ Read(k)
      /\ clients' = clients \ gone /\ Hangs(cs)
      /\ UNCHANGED <<hostEnd, toHost, fromPhone, peer, registered, nextChannel, data, phone, heard, said, breaks>>
  BY <1>0 DEF RelayCloses
<1> USE DEF hostEnd
<1>2. Typed /\ WiresAreNow /\ Owned /\ Addressed /\ Matched /\ Told
  BY DEF IInv
<1>3. /\ f \in RelayFrames /\ f \in Elems(toRelay[k]) /\ f.t = "close"
      /\ toRelay[k] \in Seq(RelayFrames) /\ toRelay[k] # <<>> /\ f = Head(toRelay[k])
      /\ toRelay' \in [Conns -> Seq(RelayFrames)]
      /\ \A j \in Conns : j # k => toRelay'[j] = toRelay[j]
      /\ toRelay'[k] = Tail(toRelay[k])
      /\ \A j \in Conns : Elems(toRelay'[j]) \subseteq Elems(toRelay[j])
  BY <1>0, <1>1, <1>2, RelayReads
<1>4. PICK ch \in Chs : ch = f.channel /\ f = Close(ch)
  BY <1>3, FrameKinds
<1>5. /\ link' \in [Phones -> {"none", "open", "closing", "gone"}]
      /\ toPhone' \in [Phones -> Seq(PhoneFrames)]
      /\ \A d \in Phones : \A g \in Elems(toPhone'[d]) : g \in Elems(toPhone[d]) \/ g = EndFrame
  BY <1>1, <1>2, Hung
<1>6. Typed'
  <2>1. clients' \in SUBSET [channel : Nat \ {0}, phone : Phones]
    BY <1>1, <1>2 DEF Typed, TypeOK
  <2> QED BY <1>1, <1>2, <1>3, <1>5, <2>1 DEF Typed, TypeOK
<1>7. WiresAreNow'
  BY <1>1, <1>2 DEF WiresAreNow
<1>8. Owned'
  BY <1>1, <1>2, <1>3, OwnedKept
<1>9. Addressed'
  BY <1>1, <1>2, <1>3, <1>5, FrameShape, AddressedKept
<1>10. Matched'
  <2>1. (\A d, e \in clients' : d.channel = e.channel => d = e) /\ \A e \in clients' : e.channel < nextChannel'
    BY <1>1, <1>2 DEF Matched
  <2>2. ASSUME NEW p \in Places, registered # 0, socket[p] = registered
        PROVE  Fit(p)'
    <3>1. Fit(p) /\ registered \in Conns
      BY <1>2, <2>2, HostIs DEF Matched
    <3>2. CASE registered = k
      <4>1. Ordered(toHost[k]) /\ Fits(Opens(toHost[k]), Closes(toHost[k]), HostHas(p), Closes(toRelay[k]),
                                       RelayHas, nextChannel)
        BY <3>1, <3>2 DEF Fit
      <4>2. ch \in Closes(toRelay[k])
        BY <1>3, <1>4 DEF Closes
      <4>3. Closes(toRelay[k]) \ {ch} \subseteq Closes(toRelay'[k]) /\ Closes(toRelay'[k]) \subseteq Closes(toRelay[k])
        BY <1>3, <1>4, OpensTail, FrameShape DEF Closes
      <4>4. RelayHas' = RelayHas \ {ch}
        <5>1. \A e : e \in clients' <=> e \in clients /\ e.channel # ch
          BY <1>0, <1>1, <1>4, <3>2
        <5>2. ASSUME NEW x
              PROVE  x \in RelayHas' <=> x \in RelayHas /\ x # ch
          <6>1. x \in RelayHas' <=> \E e \in clients' : e.channel = x
            BY DEF RelayHas
          <6>2. x \in RelayHas <=> \E e \in clients : e.channel = x
            BY DEF RelayHas
          <6> QED BY <5>1, <6>1, <6>2
        <5> QED BY <5>2
      <4>5. Fits(Opens(toHost[k]), Closes(toHost[k]), HostHas(p), Closes(toRelay'[k]), RelayHas \ {ch}, nextChannel)
        BY <4>1, <4>2, <4>3, FitsCut
      <4>6. HostHas(p)' = HostHas(p)
        BY <1>1 DEF HostHas
      <4> QED BY <1>1, <3>2, <4>1, <4>4, <4>5, <4>6 DEF Fit
    <3>3. CASE registered # k
      <4>1. gone = {}
        BY <1>0, <3>3
      <4>2. RelayHas' = RelayHas /\ HostHas(p)' = HostHas(p) /\ toRelay'[registered] = toRelay[registered]
        BY <1>1, <1>3, <3>1, <3>3, <4>1 DEF RelayHas, HostHas
      <4> QED BY <1>1, <3>1, <4>2 DEF Fit
    <3> QED BY <3>2, <3>3
  <2>3. \A p \in Places : registered' # 0 /\ socket'[p] = registered' => Fit(p)'
    BY <1>1, <2>2
  <2> QED BY <2>1, <2>3 DEF Matched
<1>11. Told'
  <2>1. \A c \in Phones : Routed(c) => Routed(c)' \/ c \in cs
    <3> TAKE c \in Phones
    <3>1. PICK e : e = [channel |-> data[c].channel, phone |-> c]
      OBVIOUS
    <3>2. e.phone = c /\ (Routed(c) <=> e \in clients) /\ (Routed(c)' <=> e \in clients')
      BY <1>1, <3>1 DEF Routed
    <3>3. e \in gone => c \in cs
      BY <1>0, <3>2
    <3> QED BY <1>1, <3>2, <3>3
  <2> QED BY <1>1, <2>1, ToldHung
<1> QED BY <1>6, <1>7, <1>8, <1>9, <1>10, <1>11 DEF IInv

LEMMA RelayLosesKeeps ==
    ASSUME IInv, NEW k \in Conns, RelayLoses(k)
    PROVE  IInv'
<1>1. /\ peer[k] \in {"verifying", "authed"}
      /\ peer' = [peer EXCEPT ![k] = "gone"]
      /\ toRelay' = [toRelay EXCEPT ![k] = <<>>]
      /\ IF registered = k
         THEN registered' = 0 /\ clients' = {} /\ Hangs(InEntry)
         ELSE UNCHANGED <<registered, clients, link, toPhone>>
      /\ UNCHANGED <<hostEnd, toHost, fromPhone, nextChannel, data, phone, heard, said>>
      /\ Breaks(socket[owner[k]] # k)
  BY DEF RelayLoses
<1> USE DEF hostEnd
<1>2. Typed /\ WiresAreNow /\ Owned /\ Addressed /\ Matched /\ Told
  BY DEF IInv
<1>3. /\ toRelay' \in [Conns -> Seq(RelayFrames)]
      /\ \A j \in Conns : j # k => toRelay'[j] = toRelay[j] /\ peer'[j] = peer[j]
      /\ toRelay'[k] = <<>> /\ peer'[k] = "gone"
      /\ peer' \in [Conns -> {"none", "verifying", "authed", "gone"}]
      /\ breaks' \in Nat
  <2>1. <<>> \in Seq(RelayFrames)
    OBVIOUS
  <2> QED BY <1>1, <1>2, <2>1 DEF Typed, TypeOK, Breaks
<1>4. /\ link' \in [Phones -> {"none", "open", "closing", "gone"}]
      /\ toPhone' \in [Phones -> Seq(PhoneFrames)]
      /\ \A d \in Phones : \A g \in Elems(toPhone'[d]) : g \in Elems(toPhone[d]) \/ g = EndFrame
  <2>1. CASE registered = k
    BY <1>1, <1>2, <2>1, Hung
  <2>2. CASE registered # k
    BY <1>1, <1>2, <2>2 DEF Typed, TypeOK
  <2> QED BY <2>1, <2>2
<1>5. (registered = k /\ registered' = 0 /\ clients' = {})
      \/ (registered # k /\ registered' = registered /\ clients' = clients)
  BY <1>1
<1>6. Typed'
  <2>1. registered' \in 0 .. MaxConns /\ clients' \in SUBSET [channel : Nat \ {0}, phone : Phones]
    BY <1>2, <1>5, RelayAssumption DEF Typed, TypeOK
  <2> QED BY <1>1, <1>2, <1>3, <1>4, <2>1 DEF Typed, TypeOK
<1>7. WiresAreNow'
  BY <1>1, <1>2 DEF WiresAreNow
<1>8. Owned'
  <2>1. \A p \in Places : socket'[p] # 0 => socket'[p] <= Len(owner') /\ owner'[socket'[p]] = p
    BY <1>1, <1>2 DEF Owned
  <2>2. \A j \in Conns : peer'[j] = "none" <=> j > Len(owner')
    <3>1. \A j \in Conns : peer'[j] = "none" <=> peer[j] = "none"
      BY <1>1, <1>3
    <3> QED BY <1>1, <1>2, <3>1 DEF Owned
  <2>3. \A j \in Conns : peer'[j] \in {"none", "verifying"} => j # k /\ peer[j] = peer'[j]
    BY <1>3
  <2>4. \A j \in Conns : peer'[j] \in {"none", "verifying"} =>
           toHost'[j] = <<>> /\ \A p \in Places : socket'[p] = j => channels'[p] = {}
    BY <1>1, <1>2, <2>3 DEF Owned
  <2>5. \A j \in Conns : peer'[j] = "verifying" => toRelay'[j] = <<AuthFrame>>
    BY <1>2, <1>3, <2>3 DEF Owned
  <2>6. registered' # 0 => peer'[registered'] = "authed"
    <3>1. registered' # 0 => registered # 0 /\ registered' = registered /\ registered # k
      BY <1>5, ConnsAre
    <3> QED BY <1>3, <3>1, HostIs
  <2> QED BY <2>1, <2>2, <2>4, <2>5, <2>6 DEF Owned
<1>9. Addressed'
  <2>1. \A j \in Conns : \A g \in Elems(toRelay'[j]) : g \in Elems(toRelay[j])
    BY <1>3, ElemsNone
  <2>2. \A d \in Phones : \A g \in Elems(toPhone'[d]) : g \in Elems(toPhone[d]) \/ (g.t = "data" => data[d] = g.wire)
    BY <1>4, FrameShape
  <2> QED BY <1>1, <1>2, <1>5, <2>1, <2>2, AddressedKept
<1>10. Matched'
  <2>1. CASE registered = k
    BY <1>5, <2>1, ConnsAre DEF Matched
  <2>2. CASE registered # k
    <3>1. UNCHANGED <<registered, nextChannel, clients>>
      BY <1>1, <2>2
    <3>2. registered # 0 => toRelay'[registered] = toRelay[registered]
      BY <1>3, <2>2, HostIs
    <3> QED BY <1>1, <1>2, <3>1, <3>2, MatchedKept
  <2> QED BY <2>1, <2>2
<1>11. Told'
  <2>1. CASE registered = k
    <3>1. \A c \in Phones : Routed(c) => c \in InEntry
      <4> TAKE c \in Phones
      <4>1. [channel |-> data[c].channel, phone |-> c].phone = c
        OBVIOUS
      <4> QED BY <4>1 DEF Routed, InEntry
    <3> QED BY <1>1, <2>1, <3>1, ToldHung
  <2>2. CASE registered # k
    BY <1>1, <1>2, <2>2, ToldKept DEF Routed
  <2> QED BY <2>1, <2>2
<1> QED BY <1>6, <1>7, <1>8, <1>9, <1>10, <1>11 DEF IInv
------------------------------------------------------------------------------
LEMMA Steps ==
    ASSUME IInv, [Next]_vars
    PROVE  IInv'
<1>1. ASSUME NEW p \in Places, Hosted(p)
      PROVE  IInv'
  <2>1. breaks \in Nat
    BY DEF IInv, Typed, TypeOK
  <2>2. ASSUME HostGone(p)
        PROVE  IInv'
    BY <2>1, <2>2, LostKeeps DEF HostGone
  <2>3. ASSUME HostLoses(p)
        PROVE  IInv'
    <3>1. breaks' \in Nat
      BY <2>1, <2>3 DEF HostLoses, Breaks
    <3> QED BY <2>3, <3>1, LostKeeps DEF HostLoses
  <2>4. ASSUME stop(p)
        PROVE  IInv'
    <3>1. breaks' \in Nat
      BY <2>1, <2>4 DEF stop, Breaks
    <3> QED BY <2>4, <3>1, LostKeeps DEF stop
  <2> QED BY <1>1, <2>2, <2>3, <2>4, ConnectKeeps, HostOpensKeeps, HostClosesKeeps, HostHearsKeeps, WireSendsKeeps,
             WireClosesKeeps DEF Hosted
<1>2. ASSUME NEW c \in Phones, Phoned(c)
      PROVE  IInv'
  BY <1>2, PhoneHearsKeeps, PhoneSendsKeeps, PhoneClosesKeeps, RelayOpensKeeps, RelayForwardsKeeps,
     RelayReleasesKeeps DEF Phoned
<1>3. ASSUME NEW k \in Conns, Relayed(k)
      PROVE  IInv'
  BY <1>3, AdmitsKeeps, RelayDeliversKeeps, RelayClosesKeeps, RelayLosesKeeps DEF Relayed
<1> QED BY <1>1, <1>2, <1>3, Stays DEF Next

\* The invariant holds throughout.
LEMMA Invariant == Spec => []IInv
<1>1. Init => IInv
  BY Starts
<1>2. IInv /\ [Next]_vars => IInv'
  BY Steps
<1> QED BY <1>1, <1>2, PTL DEF Spec

\* The relay's variables and its ends' keep their types, whatever connects,
\* breaks, is replaced or leaves (relay.ts, connect.ts).
THEOREM RelayTypes == Spec => []TypeOK
<1>1. IInv => TypeOK
  BY Says
<1> QED BY <1>1, Invariant, PTL

\* A frame reaches the wire it was sent for, or the phone that wire was opened
\* for, though every connection counts its channels from 1 and a late close or
\* a late frame can name a number that was given again (the message handlers of
\* startRelay in relay.ts and of startRelayHost in connect.ts).
THEOREM FramesReachTheirWire == Spec => []RightWire
<1>1. IInv => RightWire
  BY Says
<1> QED BY <1>1, Invariant, PTL

\* The host keeps no wire of a connection it lost, and with nothing on its way
\* the two ends keep the same channels, through every close and every
\* replacement (dropHost in relay.ts, closeChannels in connect.ts).
THEOREM EndsAgree == Spec => []WiresAgree
<1>1. IInv => WiresAgree
  BY Says
<1> QED BY <1>1, Invariant, PTL

\* A phone that was told "ready", with nothing on its way to it, is on a channel
\* of the host: none talks to a connection that was replaced or lost (relay.ts).
THEOREM NobodyTalksToNobody == Spec => []PhonesAgree
<1>1. IInv => PhonesAgree
  BY Says
<1> QED BY <1>1, Invariant, PTL
===============================================================================
