---------------------------- MODULE BrowserProofs ----------------------------
(***************************************************************************)
(* No Chromium is replaced under a page call, every Chromium is its        *)
(* session's and every reserved project somebody's, and a held run will be *)
(* woken: proved for any number of ids, projects, runs, previews, viewers  *)
(* and sessions, however calls, reveals, holds and closes interleave and   *)
(* whichever of them fail.                                                 *)
(***************************************************************************)
EXTENDS BrowserDriver, FiniteSetTheorems, TLAPS

(***************************************************************************)
(* The inductive invariant.  A session counts its page calls, so a reveal  *)
(* that began when it counted none met none; and the run a session would   *)
(* wake is held by that session, so that closing one never takes a call    *)
(* out of another's count.                                                 *)
(***************************************************************************)
Counts == \A s \in DOMAIN made : made[s].inflight = Cardinality(Awaiting(s, "call"))

Spares == \A s \in DOMAIN made : made[s].reveal # "no" => made[s].inflight = 0

Wakes == \A s \in DOMAIN made :
            made[s].wake # Nobody =>
                callers[made[s].wake].pc = "held" /\ callers[made[s].wake].on = s

Held == \A c \in Callers : callers[c].pc = "call" => callers[c].on \in DOMAIN made

\* A call that opens, joins or runs knows its session's id.
Fit(c, x) ==
    /\ \/ x.pc \in {"launching", "binding", "joining", "between", "looping", "held", "revealing",
                    "leaving", "ended"}
       \/ c \in Runs /\ x.pc \in {"waiting", "call"}
       => x.id \in Ids
    /\ x.pc \in {"launching", "binding"} => x.project \in Projects

Fits == \A c \in Callers : Fit(c, callers[c])

IInv == TypeOK /\ Counts /\ Spares /\ Wakes /\ Held /\ Fits

------------------------------------------------------------------------------
(* What the operators of the model return.                                 *)

\* The calls that wait for a session at one point are finitely many.
LEMMA AwaitingIsFinite ==
    ASSUME NEW s, NEW pc
    PROVE  IsFiniteSet(Awaiting(s, pc)) /\ Cardinality(Awaiting(s, pc)) \in Nat
<1>1. IsFiniteSet(Callers)
  BY BrowserAssumption DEF Callers, Runs
<1>2. Awaiting(s, pc) \in SUBSET Callers
  BY DEF Awaiting
<1> QED BY <1>1, <1>2, FS_Subset, FS_CardinalityType

\* Writing one session leaves the others, and how many there are.
LEMMA Writing ==
    ASSUME NEW q \in Seq(Session), NEW s \in DOMAIN q, NEW m \in Session
    PROVE  LET r == [q EXCEPT ![s] = m]
           IN /\ r \in Seq(Session) /\ Len(r) = Len(q) /\ DOMAIN r = DOMAIN q
              /\ r[s] = m
              /\ \A t \in DOMAIN q : t # s => r[t] = q[t]
<1> QED OBVIOUS

LEMMA Rows ==
    ASSUME TypeOK, NEW s \in DOMAIN made
    PROVE  /\ made[s] \in Session /\ s \in 1 .. Len(made) /\ s # 0
           /\ made[s].wake # Nobody => made[s].wake \in Runs /\ made[s].wake \in Callers
<1>1. made[s] \in Session /\ s \in 1 .. Len(made)
  BY DEF TypeOK
<1> QED BY <1>1 DEF Session, Callers

\* maybeReveal may begin a reveal only of a session without calls in flight.
LEMMA MaybeRevealIs ==
    ASSUME NEW m \in Session, NEW live \in BOOLEAN
    PROVE  LET r == MaybeReveal(m, live)
           IN /\ r \in Session
              /\ r.inflight = m.inflight /\ r.wake = m.wake
              /\ r.reveal # "no" => m.reveal # "no" \/ m.inflight = 0
<1>1. CASE ~Reveals(m)
  BY <1>1 DEF MaybeReveal, Reveals
<1>2. CASE Reveals(m) /\ (m.headed \/ ~live)
  BY <1>2 DEF MaybeReveal, Reveals, Session
<1>3. CASE Reveals(m) /\ ~(m.headed \/ ~live)
  <2>1. Closing(m.context) \in {"on", "closing", "off"}
    BY DEF Closing, Session
  <2> QED BY <1>3, <2>1 DEF MaybeReveal, Reveals, Session
<1> QED BY <1>1, <1>2, <1>3

LEMMA BoundaryIs ==
    ASSUME NEW m \in Session
    PROVE  LET r == Boundary(m)
           IN /\ r \in Session
              /\ r.inflight = m.inflight /\ r.wake = m.wake
              /\ r.reveal # "no" => m.reveal # "no" \/ m.inflight = 0
<1>1. [m EXCEPT !.forced = TRUE] \in Session
  BY DEF Session
<1>2. [m EXCEPT !.forced = TRUE].inflight = m.inflight /\ [m EXCEPT !.forced = TRUE].wake = m.wake
      /\ [m EXCEPT !.forced = TRUE].reveal = m.reveal
  BY DEF Session
<1> QED BY <1>1, <1>2, MaybeRevealIs DEF Boundary

LEMMA DroppedIs ==
    ASSUME NEW m \in Session
    PROVE  LET r == Dropped(m)
           IN /\ r \in Session
              /\ r.inflight = m.inflight /\ r.wake = Nobody /\ r.reveal = m.reveal
<1> QED BY DEF Dropped, Closing, Session

LEMMA OverIs ==
    ASSUME NEW c \in Callers, TypeOK
    PROVE  /\ Over(c) \in Call /\ Over(c).on = 0 /\ Over(c).pc \in {"between", "off"}
           /\ c \in Runs => Over(c).pc = "between" /\ Over(c).id = callers[c].id
           /\ c \notin Runs => Over(c).pc = "off"
<1>1. callers[c] \in Call
  BY DEF TypeOK
<1>2. 0 \in 0 .. MaxSteps
  BY BrowserAssumption
<1>3. CASE c \in Runs
  BY <1>1, <1>2, <1>3 DEF Over, Call
<1>4. CASE c \notin Runs
  BY <1>1, <1>2, <1>4 DEF Over, Idle, Call
<1> QED BY <1>3, <1>4

\* Waking touches only the run that is held.
LEMMA WokenIs ==
    ASSUME TypeOK, Wakes, Fits, NEW s \in DOMAIN made, NEW going \in BOOLEAN
    PROVE  LET w == Woken(s, going)
           IN /\ w \in [Callers -> Call]
              /\ \A c \in Callers : w[c].on <= Len(made) /\ Fit(c, w[c])
              /\ \A c \in Callers : w[c] = callers[c]
                                    \/ /\ callers[c].pc = "held" /\ callers[c].on = s
                                       /\ w[c].pc # "call"
<1> SUFFICES ASSUME NEW c \in Callers
             PROVE  LET w == Woken(s, going)
                    IN /\ w[c] \in Call
                       /\ w[c].on <= Len(made) /\ Fit(c, w[c])
                       /\ w[c] = callers[c] \/ /\ callers[c].pc = "held" /\ callers[c].on = s
                                               /\ w[c].pc # "call"
  BY DEF Woken
<1>1. CASE c # made[s].wake
  BY <1>1 DEF Woken, TypeOK, Fits
<1>2. CASE c = made[s].wake
  <2>1. c # Nobody
    BY BrowserAssumption DEF Callers, Runs, Nobody
  <2>2. callers[c].pc = "held" /\ callers[c].on = s
    BY <1>2, <2>1 DEF Wakes
  <2>3. /\ Over(c) \in Call /\ Over(c).on = 0 /\ Over(c).pc = "between" /\ Over(c).id \in Ids
    <3>1. c \in Runs
      BY <1>2, <2>1, Rows
    <3>2. callers[c].id \in Ids
      BY <2>2 DEF Fits, Fit
    <3> QED BY <3>1, <3>2, OverIs
  <2>4. 0 \in 0 .. MaxSteps /\ Len(made) \in Nat
    BY BrowserAssumption DEF TypeOK
  <2>5. [Over(c) EXCEPT !.left = 0] \in Call /\ [Over(c) EXCEPT !.pc = "looping"] \in Call
    BY <2>3, <2>4 DEF Call
  <2>6. Woken(s, going)[c] = IF going THEN [Over(c) EXCEPT !.left = 0]
                             ELSE [Over(c) EXCEPT !.pc = "looping"]
    BY <1>2 DEF Woken
  <2>7. /\ [Over(c) EXCEPT !.left = 0].pc = "between" /\ [Over(c) EXCEPT !.left = 0].on = 0
        /\ [Over(c) EXCEPT !.left = 0].id \in Ids
        /\ [Over(c) EXCEPT !.pc = "looping"].pc = "looping"
        /\ [Over(c) EXCEPT !.pc = "looping"].on = 0
        /\ [Over(c) EXCEPT !.pc = "looping"].id \in Ids
    BY <2>3 DEF Call
  <2> QED BY <2>2, <2>4, <2>5, <2>6, <2>7 DEF Fit
<1> QED BY <1>1, <1>2

------------------------------------------------------------------------------
(* A step that begins and ends no page call keeps the counts, as long as   *)
(* it changes no count and begins a reveal only where there is none.       *)

LEMMA Aside ==
    ASSUME TypeOK, TypeOK', Counts, Spares, Held,
           DOMAIN made \subseteq DOMAIN made',
           \A s \in DOMAIN made :
               /\ made'[s].inflight = made[s].inflight
               /\ made'[s].reveal # "no" => made[s].reveal # "no" \/ made[s].inflight = 0,
           \A s \in DOMAIN made' \ DOMAIN made : made'[s].inflight = 0,
           \A c \in Callers : callers[c].pc = "call" <=> callers'[c].pc = "call",
           \A c \in Callers : callers[c].pc = "call" => callers'[c].on = callers[c].on
    PROVE  Counts' /\ Spares' /\ Held'
<1>1. ASSUME NEW s PROVE Awaiting(s, "call")' = Awaiting(s, "call")
  BY DEF Awaiting
<1>2. ASSUME NEW s \in DOMAIN made' \ DOMAIN made PROVE Awaiting(s, "call") = {}
  <2>1. s > Len(made)
    BY <1>2 DEF TypeOK
  <2> QED BY <2>1 DEF Awaiting, TypeOK, Call
<1>3. ASSUME NEW s \in DOMAIN made' PROVE made'[s].inflight = Cardinality(Awaiting(s, "call")')
  <2>1. CASE s \in DOMAIN made
    BY <1>1, <2>1 DEF Counts
  <2>2. CASE s \notin DOMAIN made
    BY <1>1, <1>2, <2>2, FS_EmptySet
  <2> QED BY <2>1, <2>2
<1>4. Counts'
  BY <1>3 DEF Counts
<1>5. Spares'
  BY DEF Spares
<1>6. Held'
  BY DEF Held
<1> QED BY <1>4, <1>5, <1>6

\* What a session would wake stays held.
LEMMA StillHeld ==
    ASSUME TypeOK, Wakes,
           \A s \in DOMAIN made' :
               made'[s].wake # Nobody =>
                   /\ s \in DOMAIN made /\ made'[s].wake = made[s].wake
                   /\ callers'[made[s].wake].pc = callers[made[s].wake].pc
                   /\ callers'[made[s].wake].on = callers[made[s].wake].on
    PROVE  Wakes'
<1> QED BY DEF Wakes

------------------------------------------------------------------------------
(* The actions.  Each keeps the types, and then what the lemmas above ask. *)

\* A step that writes one call, of one that holds no page and no run, and no
\* session: launches, joins and ends.
LEMMA CallMoves ==
    ASSUME IInv, NEW c \in Callers, NEW x \in Call,
           callers[c].pc \notin {"held", "call"}, x.pc # "call", x.on <= Len(made), Fit(c, x),
           callers' = [callers EXCEPT ![c] = x], UNCHANGED made,
           sessions' \in [Ids -> 0 .. Len(made)],
           projects' \in [Projects -> Ids \cup {Nobody}]
    PROVE  IInv'
<1>1. \A d \in Callers : callers'[d] = IF d = c THEN x ELSE callers[d]
  BY DEF IInv, TypeOK
<1>2. TypeOK'
  BY <1>1 DEF IInv, TypeOK
<1>3. Counts' /\ Spares' /\ Held'
  BY <1>1, <1>2, Aside DEF IInv
<1>4. ASSUME NEW s \in DOMAIN made, made[s].wake # Nobody
      PROVE  made[s].wake \in Callers /\ made[s].wake # c
  <2>1. callers[made[s].wake].pc = "held"
    BY <1>4 DEF IInv, Wakes
  <2> QED BY <1>4, <2>1, Rows DEF IInv
<1>5. Wakes'
  BY <1>1, <1>4, StillHeld DEF IInv
<1>6. Fits'
  BY <1>1 DEF Fits, IInv, Fit
<1> QED BY <1>2, <1>3, <1>5, <1>6 DEF IInv

\* The same with one session written, whose count and held run stay.
LEMMA SessionMoves ==
    ASSUME IInv, NEW c \in Callers, NEW x \in Call, NEW s \in DOMAIN made, NEW m \in Session,
           callers[c].pc \notin {"held", "call"}, x.pc # "call", x.on <= Len(made), Fit(c, x),
           callers' = [callers EXCEPT ![c] = x], made' = [made EXCEPT ![s] = m],
           m.inflight = made[s].inflight,
           m.reveal # "no" => made[s].reveal # "no" \/ made[s].inflight = 0,
           m.wake = made[s].wake \/ (m.wake = c /\ x.pc = "held" /\ x.on = s),
           UNCHANGED <<sessions, projects>>
    PROVE  IInv'
<1>1. \A d \in Callers : callers'[d] = IF d = c THEN x ELSE callers[d]
  BY DEF IInv, TypeOK
<1>2. /\ made' \in Seq(Session) /\ Len(made') = Len(made) /\ DOMAIN made' = DOMAIN made
      /\ made'[s] = m /\ \A t \in DOMAIN made : t # s => made'[t] = made[t]
  BY Writing DEF IInv, TypeOK
<1>3. TypeOK'
  BY <1>1, <1>2 DEF IInv, TypeOK
<1>4. Counts' /\ Spares' /\ Held'
  <2>1. \A t \in DOMAIN made :
            /\ made'[t].inflight = made[t].inflight
            /\ made'[t].reveal # "no" => made[t].reveal # "no" \/ made[t].inflight = 0
    BY <1>2
  <2> QED BY <1>1, <1>2, <1>3, <2>1, Aside DEF IInv
<1>5. ASSUME NEW t \in DOMAIN made, made[t].wake # Nobody
      PROVE  made[t].wake \in Callers /\ made[t].wake # c
  <2>1. callers[made[t].wake].pc = "held"
    BY <1>5 DEF IInv, Wakes
  <2> QED BY <1>5, <2>1, Rows DEF IInv
<1>6. Wakes'
  <2> SUFFICES ASSUME NEW t \in DOMAIN made, made'[t].wake # Nobody
               PROVE  callers'[made'[t].wake].pc = "held" /\ callers'[made'[t].wake].on = t
    BY <1>2 DEF Wakes
  <2>1. CASE made'[t].wake = made[t].wake
    <3>1. made[t].wake \in Callers /\ made[t].wake # c
      BY <1>5, <2>1
    <3>2. callers[made[t].wake].pc = "held" /\ callers[made[t].wake].on = t
      BY <2>1 DEF IInv, Wakes
    <3> QED BY <1>1, <2>1, <3>1, <3>2
  <2>2. CASE made'[t].wake # made[t].wake
    <3>1. t = s /\ m.wake = c /\ x.pc = "held" /\ x.on = s
      BY <1>2, <2>2
    <3> QED BY <1>1, <1>2, <3>1
  <2> QED BY <2>1, <2>2
<1>7. Fits'
  BY <1>1 DEF Fits, IInv, Fit
<1> QED BY <1>3, <1>4, <1>6, <1>7 DEF IInv

\* One session written and no call, but for a run that is woken or the calls
\* that waited for a reveal and fail with it.
LEMMA SessionEnds ==
    ASSUME IInv, NEW s \in DOMAIN made, NEW m \in Session, made' = [made EXCEPT ![s] = m],
           m.inflight = made[s].inflight,
           m.reveal # "no" => made[s].reveal # "no" \/ made[s].inflight = 0,
           callers' \in [Callers -> Call],
           \A c \in Callers : callers'[c].on <= Len(made) /\ Fit(c, callers'[c]),
           \A c \in Callers :
               \/ callers'[c] = callers[c]
               \/ /\ callers[c].pc # "call" /\ callers'[c].pc # "call"
                  /\ callers[c].pc = "held" => callers[c].on = s /\ m.wake = Nobody,
           m.wake \in {made[s].wake, Nobody},
           sessions' \in [Ids -> 0 .. Len(made)],
           projects' \in [Projects -> Ids \cup {Nobody}]
    PROVE  IInv'
<1>2. /\ made' \in Seq(Session) /\ Len(made') = Len(made) /\ DOMAIN made' = DOMAIN made
      /\ made'[s] = m /\ \A t \in DOMAIN made : t # s => made'[t] = made[t]
  BY Writing DEF IInv, TypeOK
<1>3. TypeOK'
  BY <1>2 DEF IInv, TypeOK
<1>4. Counts' /\ Spares' /\ Held'
  <2>1. \A t \in DOMAIN made :
            /\ made'[t].inflight = made[t].inflight
            /\ made'[t].reveal # "no" => made[t].reveal # "no" \/ made[t].inflight = 0
    BY <1>2
  <2> QED BY <1>2, <1>3, <2>1, Aside DEF IInv
<1>5. Wakes'
  <2> SUFFICES ASSUME NEW t \in DOMAIN made', made'[t].wake # Nobody
               PROVE  /\ t \in DOMAIN made /\ made'[t].wake = made[t].wake
                      /\ callers'[made[t].wake].pc = callers[made[t].wake].pc
                      /\ callers'[made[t].wake].on = callers[made[t].wake].on
    BY StillHeld DEF IInv
  <2>1. t \in DOMAIN made /\ made'[t].wake = made[t].wake /\ (t = s => m.wake # Nobody)
    BY <1>2
  <2>2. callers[made[t].wake].pc = "held" /\ callers[made[t].wake].on = t
    BY <2>1 DEF IInv, Wakes
  <2>3. made[t].wake \in Callers
    BY <2>1, Rows DEF IInv
  <2> QED BY <2>1, <2>2, <2>3
<1>6. Fits'
  BY DEF Fits, Fit
<1> QED BY <1>3, <1>4, <1>5, <1>6 DEF IInv

Begun(r, pc, s, l) == [r EXCEPT !.pc = pc, !.on = s, !.left = l]

LEMMA BegunIs ==
    ASSUME NEW r \in Call, NEW pc \in {"waiting", "call"}, NEW s \in Nat, NEW l \in 0 .. MaxSteps
    PROVE  /\ Begun(r, pc, s, l) \in Call
           /\ Begun(r, pc, s, l).pc = pc /\ Begun(r, pc, s, l).on = s
           /\ Begun(r, pc, s, l).id = r.id
<1> QED BY DEF Begun, Call

\* A page call begins: it counts, unless it waits for a reveal.
LEMMA PageCallKeeps ==
    ASSUME IInv, NEW c \in Callers, NEW s \in DOMAIN made, NEW m \in Session,
           callers[c].pc \notin {"held", "call"},
           c \in Runs => callers[c].left > 0 /\ callers[c].id \in Ids,
           m.inflight = made[s].inflight, m.wake = made[s].wake,
           m.reveal # "no" => made[s].reveal # "no" \/ made[s].inflight = 0,
           PageCall(c, s, m), UNCHANGED <<sessions, projects>>
    PROVE  IInv'
<1> DEFINE x(pc) == [callers[c] EXCEPT !.pc = pc, !.on = s,
                                       !.left = IF c \in Runs THEN @ - 1 ELSE @]
<1>1. callers[c] \in Call /\ MaxSteps \in Nat /\ s \in 1 .. Len(made) /\ Len(made) \in Nat
  BY BrowserAssumption DEF IInv, TypeOK
<1>2. ASSUME NEW pc \in {"waiting", "call"}
      PROVE  x(pc) \in Call /\ x(pc).pc = pc /\ x(pc).on = s /\ Fit(c, x(pc))
  <2> DEFINE left == IF c \in Runs THEN callers[c].left - 1 ELSE callers[c].left
  <2>1. left \in 0 .. MaxSteps
    BY <1>1 DEF Call
  <2>2. x(pc) = Begun(callers[c], pc, s, left)
    BY <1>1 DEF Call, Begun
  <2>3. callers[c] \in Call /\ s \in Nat
    BY <1>1
  <2> HIDE DEF left, x
  <2>4. /\ Begun(callers[c], pc, s, left) \in Call
        /\ Begun(callers[c], pc, s, left).pc = pc /\ Begun(callers[c], pc, s, left).on = s
        /\ Begun(callers[c], pc, s, left).id = callers[c].id
    BY <2>1, <2>3, BegunIs
  <2> QED BY <2>2, <2>4 DEF Fit
<1>3. CASE m.reveal # "no"
  <2>1. callers' = [callers EXCEPT ![c] = x("waiting")] /\ made' = [made EXCEPT ![s] = m]
    BY <1>3 DEF PageCall, IInv, TypeOK
  <2>2. x("waiting") \in Call /\ x("waiting").pc = "waiting" /\ x("waiting").on <= Len(made)
        /\ Fit(c, x("waiting"))
    BY <1>1, <1>2
  <2> HIDE DEF x
  <2> QED BY <2>1, <2>2, SessionMoves
<1>4. CASE m.reveal = "no"
  <2> DEFINE n == [m EXCEPT !.inflight = @ + 1]
  <2>1. callers' = [callers EXCEPT ![c] = x("call")] /\ made' = [made EXCEPT ![s] = n]
    BY <1>4 DEF PageCall, IInv, TypeOK
  <2>2. n \in Session /\ n.inflight = made[s].inflight + 1 /\ n.wake = made[s].wake /\ n.reveal = "no"
    BY <1>4 DEF Session
  <2> HIDE DEF n
  <2>3. /\ made' \in Seq(Session) /\ Len(made') = Len(made) /\ DOMAIN made' = DOMAIN made
        /\ made'[s] = n /\ \A t \in DOMAIN made : t # s => made'[t] = made[t]
    BY <2>1, <2>2, Writing DEF IInv, TypeOK
  <2>4. \A d \in Callers : callers'[d] = IF d = c THEN x("call") ELSE callers[d]
    BY <2>1 DEF IInv, TypeOK
  <2>5. TypeOK'
    BY <1>1, <1>2, <2>1, <2>3, <2>4 DEF IInv, TypeOK
  <2>6. /\ Awaiting(s, "call")' = Awaiting(s, "call") \cup {c} /\ c \notin Awaiting(s, "call")
        /\ \A t \in DOMAIN made : t # s => Awaiting(t, "call")' = Awaiting(t, "call")
    <3>1. x("call").pc = "call" /\ x("call").on = s
      BY <1>2
    <3> HIDE DEF x
    <3> QED BY <2>4, <3>1 DEF Awaiting
  <2>7. Counts'
    <3>1. Cardinality(Awaiting(s, "call")') = Cardinality(Awaiting(s, "call")) + 1
      BY <2>6, AwaitingIsFinite, FS_AddElement
    <3> QED BY <2>2, <2>3, <2>6, <3>1 DEF Counts, IInv
  <2>8. Spares'
    BY <2>2, <2>3 DEF Spares, IInv
  <2>9. Wakes'
    <3>1. ASSUME NEW t \in DOMAIN made, made[t].wake # Nobody
          PROVE  made[t].wake \in Callers /\ made[t].wake # c
      <4>1. callers[made[t].wake].pc = "held"
        BY <3>1 DEF IInv, Wakes
      <4> QED BY <3>1, <4>1, Rows DEF IInv
    <3>2. \A t \in DOMAIN made : made'[t].wake = made[t].wake
      BY <2>2, <2>3
    <3> QED BY <2>3, <2>4, <3>1, <3>2, StillHeld DEF IInv
  <2>10. Held'
    BY <1>2, <2>3, <2>4 DEF Held, IInv
  <2>11. Fits'
    BY <1>2, <2>4 DEF Fits, Fit, IInv
  <2> QED BY <2>5, <2>7, <2>8, <2>9, <2>10, <2>11 DEF IInv
<1> QED BY <1>3, <1>4

\* A page call ends: it leaves the count, and the window it kept back may open
\* when it was the last.
LEMMA CallEndsKeeps ==
    ASSUME IInv, NEW c \in Callers, CallEnds(c)
    PROVE  IInv'
<1>0. PICK s \in DOMAIN made : s = callers[c].on
  BY DEF CallEnds, IInv, Held
<1> DEFINE n == [made[s] EXCEPT !.inflight = @ - 1]
           m == MaybeReveal(n, Live(s))
<1>1. callers[c].pc = "call" /\ callers' = [callers EXCEPT ![c] = Over(c)]
      /\ made' = [made EXCEPT ![s] = m] /\ UNCHANGED <<sessions, projects>>
  BY <1>0 DEF CallEnds
<1>2. c \in Awaiting(s, "call") /\ Cardinality(Awaiting(s, "call")) \in Nat
      /\ IsFiniteSet(Awaiting(s, "call"))
  <2>1. c \in Awaiting(s, "call")
    BY <1>0, <1>1 DEF Awaiting
  <2> QED BY <2>1, AwaitingIsFinite
<1>4. made[s].inflight = Cardinality(Awaiting(s, "call")) /\ made[s].inflight > 0
      /\ made[s].reveal = "no"
  <2>1. made[s].inflight = Cardinality(Awaiting(s, "call"))
    BY DEF IInv, Counts
  <2>2. made[s].inflight # 0
    BY <1>2, <2>1, FS_EmptySet
  <2>3. made[s].reveal = "no"
    BY <2>2 DEF IInv, Spares
  <2> QED BY <1>2, <2>1, <2>2, <2>3
<1>5. made[s] \in Session
  BY Rows DEF IInv
<1>6. n \in Session /\ n.inflight = made[s].inflight - 1 /\ n.wake = made[s].wake /\ n.reveal = "no"
  BY <1>4, <1>5 DEF Session
<1>7. m \in Session /\ m.inflight = made[s].inflight - 1 /\ m.wake = made[s].wake
      /\ (m.reveal # "no" => m.inflight = 0)
  <2> Live(s) \in BOOLEAN
    BY DEF Live
  <2> HIDE DEF n
  <2> QED BY <1>6, MaybeRevealIs
<1> HIDE DEF m
<1>8. /\ made' \in Seq(Session) /\ Len(made') = Len(made) /\ DOMAIN made' = DOMAIN made
      /\ made'[s] = m /\ \A t \in DOMAIN made : t # s => made'[t] = made[t]
  BY <1>1, <1>7, Writing DEF IInv, TypeOK
<1>9. Over(c) \in Call /\ Over(c).on = 0 /\ Over(c).pc \in {"between", "off"}
  BY OverIs DEF IInv
<1>10. \A d \in Callers : callers'[d] = IF d = c THEN Over(c) ELSE callers[d]
  BY <1>1 DEF IInv, TypeOK
<1>11. TypeOK'
  BY <1>1, <1>8, <1>9, <1>10 DEF IInv, TypeOK
<1>12. /\ Awaiting(s, "call")' = Awaiting(s, "call") \ {c}
       /\ \A t \in DOMAIN made : t # s => Awaiting(t, "call")' = Awaiting(t, "call")
  BY <1>0, <1>1, <1>9, <1>10 DEF Awaiting
<1>13. Counts'
  <2>1. Cardinality(Awaiting(s, "call")') = Cardinality(Awaiting(s, "call")) - 1
    BY <1>2, <1>12, FS_RemoveElement
  <2> QED BY <1>4, <1>7, <1>8, <1>12, <2>1 DEF Counts, IInv
<1>14. Spares'
  BY <1>7, <1>8 DEF Spares, IInv
<1>15. Wakes'
  <2>1. ASSUME NEW t \in DOMAIN made, made[t].wake # Nobody
        PROVE  made[t].wake \in Callers /\ made[t].wake # c
    <3>1. callers[made[t].wake].pc = "held"
      BY <2>1 DEF IInv, Wakes
    <3> QED BY <1>1, <2>1, <3>1, Rows DEF IInv
  <2>2. \A t \in DOMAIN made : made'[t].wake = made[t].wake
    BY <1>7, <1>8
  <2> QED BY <1>8, <1>10, <2>1, <2>2, StillHeld DEF IInv
<1>16. Held'
  BY <1>8, <1>9, <1>10 DEF Held, IInv
<1>17. Fits'
  <2>1. Fit(c, Over(c))
    <3>1. c \in Runs => callers[c].id \in Ids
      BY <1>1 DEF IInv, Fits, Fit
    <3> QED BY <3>1, OverIs DEF Fit, IInv
  <2> QED BY <1>10, <2>1 DEF Fits, Fit, IInv
<1> QED BY <1>11, <1>13, <1>14, <1>15, <1>16, <1>17 DEF IInv

------------------------------------------------------------------------------
(* The steps of a call.                                                    *)

\* A call that goes on keeps its type wherever it goes.
Moved(r, pc, on) == [r EXCEPT !.pc = pc, !.on = on]

LEMMA MovedIs ==
    ASSUME NEW r \in Call, NEW on \in Nat,
           NEW pc \in {"ended", "held", "revealing", "leaving"}
    PROVE  /\ Moved(r, pc, on) \in Call
           /\ Moved(r, pc, on).pc = pc /\ Moved(r, pc, on).on = on /\ Moved(r, pc, on).id = r.id
<1> QED BY DEF Moved, Call

LEMMA LoopingIs ==
    ASSUME NEW r \in Call
    PROVE  LET x == Moved(r, "looping", 0)
           IN /\ x \in Call /\ x.pc = "looping" /\ x.on = 0 /\ x.id = r.id
<1>1. 0 \in Nat
  OBVIOUS
<1> QED BY <1>1 DEF Moved, Call

LEMMA EndedIs ==
    ASSUME NEW r \in Call
    PROVE  LET x == Moved(r, "ended", 0)
           IN x \in Call /\ x.pc = "ended" /\ x.on = 0 /\ x.id = r.id
<1> 0 \in Nat
  OBVIOUS
<1> QED BY DEF Moved, Call

Between(r, l) == [r EXCEPT !.pc = "between", !.left = l]

LEMMA BetweenIs ==
    ASSUME NEW r \in Call, NEW l \in 0 .. MaxSteps
    PROVE  /\ Between(r, l) \in Call
           /\ Between(r, l).pc = "between" /\ Between(r, l).on = r.on /\ Between(r, l).id = r.id
<1> QED BY DEF Between, Call

LEMMA IdleIs ==
    /\ Idle \in Call /\ Idle.pc = "off" /\ Idle.on = 0
    /\ Done \in Call /\ Done.pc = "done" /\ Done.on = 0
    /\ \A i \in Ids : [Idle EXCEPT !.pc = "joining", !.id = i] \in Call
    /\ \A i \in Ids : [Idle EXCEPT !.pc = "ended", !.id = i] \in Call
    /\ \A i \in Ids, p \in Projects, h \in BOOLEAN :
          [Idle EXCEPT !.pc = "launching", !.id = i, !.project = p, !.headed = h] \in Call
<1> 0 \in 0 .. MaxSteps /\ 0 \in Nat
  BY BrowserAssumption
<1> QED BY DEF Idle, Done, Call

LEMMA OpenKeeps ==
    ASSUME IInv, NEW c \in Callers, NEW i \in Ids, NEW p \in Projects, NEW h \in BOOLEAN,
           Open(c, i, p, h)
    PROVE  IInv'
<1> DEFINE x == [Idle EXCEPT !.pc = "joining", !.id = i]
           y == [Idle EXCEPT !.pc = "launching", !.id = i, !.project = p, !.headed = h]
<1>1. callers[c].pc = "off" /\ UNCHANGED <<sessions, made>>
      /\ \/ callers' = [callers EXCEPT ![c] = x] /\ UNCHANGED projects
         \/ callers' = [callers EXCEPT ![c] = y] /\ projects' = [projects EXCEPT ![p] = i]
  BY DEF Open
<1>2. /\ x \in Call /\ x.pc = "joining" /\ x.on = 0 /\ Fit(c, x)
      /\ y \in Call /\ y.pc = "launching" /\ y.on = 0 /\ Fit(c, y)
  BY IdleIs DEF Idle, Fit
<1>3. /\ sessions' \in [Ids -> 0 .. Len(made)] /\ projects' \in [Projects -> Ids \cup {Nobody}]
      /\ 0 <= Len(made)
  BY <1>1 DEF IInv, TypeOK
<1> HIDE DEF x, y
<1> QED BY <1>1, <1>2, <1>3, CallMoves

\* What open leaves of a call that failed.
LEMMA FailedIs ==
    ASSUME TypeOK, NEW c \in Callers, callers[c].id \in Ids
    PROVE  Failed(c) \in Call /\ Failed(c).pc \in {"ended", "done", "off"} /\ Failed(c).on = 0
           /\ Fit(c, Failed(c))
<1>1. [Idle EXCEPT !.pc = "ended", !.id = callers[c].id] \in Call
      /\ [Idle EXCEPT !.pc = "ended", !.id = callers[c].id].pc = "ended"
      /\ [Idle EXCEPT !.pc = "ended", !.id = callers[c].id].on = 0
      /\ [Idle EXCEPT !.pc = "ended", !.id = callers[c].id].id \in Ids
  BY IdleIs DEF Idle
<1> QED BY <1>1, IdleIs DEF Failed, Fit

LEMMA LaunchEndsKeeps ==
    ASSUME IInv, NEW c \in Callers, LaunchEnds(c)
    PROVE  IInv'
<1> DEFINE x == [callers[c] EXCEPT !.pc = "binding"]
           y == Failed(c)
<1>1. /\ callers[c].pc = "launching" /\ UNCHANGED <<sessions, made>>
      /\ \/ callers' = [callers EXCEPT ![c] = x] /\ UNCHANGED projects
         \/ /\ callers' = [callers EXCEPT ![c] = y]
            /\ projects' = [projects EXCEPT ![callers[c].project] = Nobody]
  BY DEF LaunchEnds, At
<1>2. callers[c] \in Call /\ callers[c].on <= Len(made)
      /\ callers[c].id \in Ids /\ callers[c].project \in Projects
  BY <1>1 DEF IInv, TypeOK, Fits, Fit
<1>3. x \in Call /\ x.pc = "binding" /\ x.on <= Len(made) /\ Fit(c, x)
  BY <1>2 DEF Call, Fit
<1>4. y \in Call /\ y.pc \in {"ended", "done", "off"} /\ y.on = 0 /\ Fit(c, y)
  BY <1>2, FailedIs DEF IInv
<1>5. /\ sessions' \in [Ids -> 0 .. Len(made)] /\ projects' \in [Projects -> Ids \cup {Nobody}]
      /\ 0 <= Len(made)
  BY <1>1 DEF IInv, TypeOK
<1> HIDE DEF x, y
<1> QED BY <1>1, <1>3, <1>4, <1>5, CallMoves

\* A new session counts nothing and wakes nobody, and nobody is on it yet.
LEMMA BindEndsKeeps ==
    ASSUME IInv, NEW c \in Callers, BindEnds(c)
    PROVE  IInv'
<1> DEFINE x == [Idle EXCEPT !.pc = "joining", !.id = callers[c].id]
           y == Failed(c)
           n == NewSession(c)
<1>1. callers[c].pc = "binding" /\ made' = Append(made, n) /\ UNCHANGED projects
  BY DEF BindEnds
<1>2. callers[c] \in Call /\ callers[c].id \in Ids /\ callers[c].project \in Projects
  BY <1>1 DEF IInv, TypeOK, Fits, Fit
<1>3. n \in Session /\ n.inflight = 0 /\ n.reveal = "no" /\ n.wake = Nobody
  BY <1>2 DEF NewSession, Session, Call
<1>4. x \in Call /\ x.pc = "joining" /\ x.on = 0 /\ Fit(c, x)
  BY <1>2, IdleIs DEF Idle, Fit
<1>5. y \in Call /\ y.pc \in {"ended", "done", "off"} /\ y.on = 0 /\ Fit(c, y)
  BY <1>2, FailedIs DEF IInv
<1>6. PICK z \in {x, y} : callers' = [callers EXCEPT ![c] = z]
  BY DEF BindEnds
<1>7. z \in Call /\ z.pc \in {"joining", "ended", "done", "off"} /\ z.on = 0 /\ Fit(c, z)
  BY <1>4, <1>5, <1>6
<1>8. /\ made' \in Seq(Session) /\ Len(made') = Len(made) + 1 /\ Len(made) \in Nat
      /\ made'[Len(made) + 1] = n /\ DOMAIN made' = DOMAIN made \cup {Len(made) + 1}
      /\ Len(made) + 1 \notin DOMAIN made
      /\ \A s \in DOMAIN made : made'[s] = made[s]
  <2> HIDE DEF n
  <2> QED BY <1>1, <1>3 DEF IInv, TypeOK
<1>9. sessions' \in [Ids -> 0 .. Len(made')]
  BY <1>2, <1>8 DEF BindEnds, IInv, TypeOK
<1> HIDE DEF n, x, y
<1>10. \A d \in Callers : callers'[d] = IF d = c THEN z ELSE callers[d]
  BY <1>6 DEF IInv, TypeOK
<1>11. TypeOK'
  <2>1. callers' \in [Callers -> Call]
    BY <1>6, <1>7 DEF IInv, TypeOK
  <2>2. \A d \in Callers : callers'[d].on <= Len(made')
    <3>1. \A d \in Callers : callers[d].on <= Len(made) /\ callers[d].on \in Nat
      BY DEF IInv, TypeOK, Call
    <3> QED BY <1>7, <1>8, <1>10, <3>1
  <2> QED BY <1>1, <1>8, <1>9, <2>1, <2>2 DEF IInv, TypeOK
<1>12. Counts' /\ Spares' /\ Held'
  <2>1. \A s \in DOMAIN made : made'[s].inflight = made[s].inflight
            /\ (made'[s].reveal # "no" => made[s].reveal # "no" \/ made[s].inflight = 0)
    BY <1>8
  <2>2. \A s \in DOMAIN made' \ DOMAIN made : made'[s].inflight = 0 /\ made'[s].reveal = "no"
    BY <1>3, <1>8
  <2> QED BY <1>1, <1>7, <1>8, <1>10, <1>11, <2>1, <2>2, Aside DEF IInv
<1>13. Wakes'
  <2>1. ASSUME NEW s \in DOMAIN made, made[s].wake # Nobody
        PROVE  made[s].wake \in Callers /\ made[s].wake # c
    <3>1. callers[made[s].wake].pc = "held"
      BY <2>1 DEF IInv, Wakes
    <3> QED BY <1>1, <2>1, <3>1, Rows DEF IInv
  <2> QED BY <1>3, <1>8, <1>10, <2>1, StillHeld DEF IInv
<1>14. Fits'
  BY <1>7, <1>10 DEF Fits, Fit, IInv
<1> QED BY <1>11, <1>12, <1>13, <1>14 DEF IInv

\* The session a call finds under its id.
LEMMA Found ==
    ASSUME TypeOK, NEW i \in Ids, sessions[i] # 0
    PROVE  sessions[i] \in DOMAIN made
<1> QED BY DEF TypeOK

LEMMA JoinedKeeps ==
    ASSUME IInv, NEW c \in Callers, Joined(c)
    PROVE  IInv'
<1> DEFINE s == sessions[callers[c].id]
           x == Between(callers[c], MaxSteps)
           m == [made[s] EXCEPT !.runActive = @ + 1]
<1>1. /\ callers[c].pc = "joining" /\ UNCHANGED <<sessions, projects>>
      /\ \/ /\ callers' = [callers EXCEPT ![c] = x]
            /\ made' = IF s = 0 THEN made ELSE [made EXCEPT ![s] = m]
         \/ callers' = [callers EXCEPT ![c] = Idle] /\ UNCHANGED made
  BY DEF Joined, IInv, TypeOK, Between
<1>2. callers[c] \in Call /\ callers[c].on <= Len(made) /\ callers[c].id \in Ids /\ MaxSteps \in Nat
      /\ Len(made) \in Nat
  BY <1>1, BrowserAssumption DEF IInv, TypeOK, Fits, Fit
<1>3. x \in Call /\ x.pc = "between" /\ x.on <= Len(made) /\ Fit(c, x)
  <2>1. x \in Call /\ x.pc = "between" /\ x.on = callers[c].on /\ x.id = callers[c].id
    <3>1. MaxSteps \in 0 .. MaxSteps
      BY <1>2
    <3> QED BY <1>2, <3>1, BetweenIs
  <2> HIDE DEF x
  <2> QED BY <1>2, <2>1 DEF Fit
<1>4. Idle \in Call /\ Idle.pc = "off" /\ Idle.on <= Len(made) /\ Fit(c, Idle)
  <2>1. Fit(c, Idle)
    BY IdleIs DEF Fit
  <2>2. 0 <= Len(made)
    BY <1>2
  <2> QED BY <2>1, <2>2, IdleIs
<1>5. /\ sessions' \in [Ids -> 0 .. Len(made)] /\ projects' \in [Projects -> Ids \cup {Nobody}]
  BY <1>1 DEF IInv, TypeOK
<1>6. CASE UNCHANGED made
  <2> HIDE DEF x
  <2> QED BY <1>1, <1>3, <1>4, <1>5, <1>6, CallMoves
<1>7. CASE s # 0 /\ made' = [made EXCEPT ![s] = m] /\ callers' = [callers EXCEPT ![c] = x]
  <2>1. s \in DOMAIN made /\ made[s] \in Session
    BY <1>2, <1>7, Found, Rows DEF IInv
  <2>2. m \in Session /\ m.inflight = made[s].inflight /\ m.wake = made[s].wake
        /\ m.reveal = made[s].reveal
    BY <2>1 DEF Session
  <2> HIDE DEF x, m, s
  <2> QED BY <1>1, <1>3, <1>7, <2>1, <2>2, SessionMoves
<1> QED BY <1>1, <1>6, <1>7

LEMMA ViewKeeps ==
    ASSUME IInv, NEW c \in Callers, NEW i \in Ids, View(c, i)
    PROVE  IInv'
<1> DEFINE s == sessions[i]
<1>1. /\ c \in Viewers /\ callers[c].pc = "off" /\ s # 0
      /\ PageCall(c, s, made[s]) /\ UNCHANGED <<sessions, projects>>
  BY DEF View
<1>2. s \in DOMAIN made /\ made[s] \in Session
  BY <1>1, Found, Rows DEF IInv
<1>3. c \notin Runs
  BY <1>1, BrowserAssumption DEF Runs
<1> HIDE DEF s
<1> QED BY <1>1, <1>2, <1>3, PageCallKeeps

\* A page call of a run whose session is gone.
LEMMA NoSessionKeeps ==
    ASSUME IInv, NEW c \in Callers, NoSession(c), UNCHANGED <<sessions, projects>>,
           callers[c].pc \in {"between", "looping"}, callers[c].left > 0
    PROVE  IInv'
<1> DEFINE x == Between(callers[c], callers[c].left - 1)
<1>1. callers' = [callers EXCEPT ![c] = x] /\ UNCHANGED made
  BY DEF NoSession, IInv, TypeOK, Between
<1>2. callers[c] \in Call /\ callers[c].on <= Len(made) /\ callers[c].id \in Ids /\ MaxSteps \in Nat
  BY BrowserAssumption DEF IInv, TypeOK, Fits, Fit
<1>3. x \in Call /\ x.pc = "between" /\ x.on = callers[c].on /\ x.id = callers[c].id
  <2>1. callers[c].left \in 0 .. MaxSteps
    BY <1>2 DEF Call
  <2>2. callers[c].left - 1 \in 0 .. MaxSteps
    BY <1>2, <2>1
  <2> QED BY <1>2, <2>2, BetweenIs
<1>4. sessions' \in [Ids -> 0 .. Len(made)] /\ projects' \in [Projects -> Ids \cup {Nobody}]
  BY DEF IInv, TypeOK
<1> HIDE DEF x
<1>5. Fit(c, x)
  BY <1>2, <1>3 DEF Fit
<1> QED BY <1>1, <1>2, <1>3, <1>4, <1>5, CallMoves

LEMMA CaptureKeeps ==
    ASSUME IInv, NEW c \in Callers, Capture(c)
    PROVE  IInv'
<1> DEFINE s == sessions[callers[c].id]
<1>1. /\ callers[c].pc = "between" /\ callers[c].left > 0 /\ UNCHANGED <<sessions, projects>>
      /\ NoSession(c) \/ (s # 0 /\ PageCall(c, s, made[s]))
  BY DEF Capture
<1>2. callers[c].id \in Ids
  BY <1>1 DEF IInv, Fits, Fit
<1>3. CASE NoSession(c)
  BY <1>1, <1>3, NoSessionKeeps
<1>4. CASE s # 0 /\ PageCall(c, s, made[s])
  <2>1. s \in DOMAIN made /\ made[s] \in Session
    BY <1>2, <1>4, Found, Rows DEF IInv
  <2> HIDE DEF s
  <2> QED BY <1>1, <1>2, <1>4, <2>1, PageCallKeeps
<1> QED BY <1>1, <1>3, <1>4

LEMMA StepKeeps ==
    ASSUME IInv, NEW c \in Callers, Step(c)
    PROVE  IInv'
<1> DEFINE s == sessions[callers[c].id]
           m == Boundary(made[s])
           x == Moved(callers[c], "revealing", s)
           y == Moved(callers[c], "held", s)
           n == [m EXCEPT !.wake = c]
<1>1. /\ c \in Recipes /\ callers[c].pc \in {"between", "looping"} /\ callers[c].left > 0
      /\ UNCHANGED <<sessions, projects>>
  BY DEF Step
<1>2. \/ NoSession(c)
      \/ /\ s # 0
         /\ callers' = [callers EXCEPT ![c] = x] /\ made' = [made EXCEPT ![s] = m]
      \/ /\ s # 0
         /\ callers' = [callers EXCEPT ![c] = y] /\ made' = [made EXCEPT ![s] = n]
      \/ s # 0 /\ PageCall(c, s, m)
  BY DEF Step, IInv, TypeOK, Moved
<1>3. callers[c] \in Call /\ callers[c].id \in Ids /\ c \in Runs
  BY <1>1 DEF IInv, TypeOK, Fits, Fit, Runs
<1>4. CASE NoSession(c)
  BY <1>1, <1>4, NoSessionKeeps
<1>5. CASE s # 0
  <2>1. /\ s \in DOMAIN made /\ made[s] \in Session /\ s \in 1 .. Len(made) /\ Len(made) \in Nat
        /\ s \in Nat /\ s <= Len(made)
    <3>1. s \in DOMAIN made /\ made[s] \in Session /\ s \in 1 .. Len(made) /\ Len(made) \in Nat
      BY <1>3, <1>5, Found, Rows DEF IInv, TypeOK
    <3> HIDE DEF s
    <3> QED BY <3>1
  <2>2. /\ m \in Session /\ m.inflight = made[s].inflight /\ m.wake = made[s].wake
        /\ m.reveal # "no" => made[s].reveal # "no" \/ made[s].inflight = 0
    BY <2>1, BoundaryIs
  <2>3. /\ x \in Call /\ x.pc = "revealing" /\ x.on = s /\ x.id = callers[c].id
        /\ y \in Call /\ y.pc = "held" /\ y.on = s /\ y.id = callers[c].id
    <3> HIDE DEF s
    <3> QED BY <1>3, <2>1, MovedIs
  <2>4. /\ n \in Session /\ n.inflight = m.inflight /\ n.wake = c /\ n.reveal = m.reveal
    <3> HIDE DEF m
    <3> QED BY <1>3, <2>2 DEF Session
  <2> HIDE DEF m, n, x, y, s
  <2>5. Fit(c, x) /\ Fit(c, y)
    BY <1>3, <2>3 DEF Fit
  <2>6. CASE callers' = [callers EXCEPT ![c] = x] /\ made' = [made EXCEPT ![s] = m]
    BY <1>1, <2>1, <2>2, <2>3, <2>5, <2>6, SessionMoves
  <2>7. CASE callers' = [callers EXCEPT ![c] = y] /\ made' = [made EXCEPT ![s] = n]
    BY <1>1, <2>1, <2>2, <2>3, <2>4, <2>5, <2>7, SessionMoves
  <2>8. CASE PageCall(c, s, m)
    BY <1>1, <1>3, <2>1, <2>2, <2>8, PageCallKeeps
  <2> QED BY <1>2, <1>4, <2>6, <2>7, <2>8
<1> QED BY <1>2, <1>4, <1>5

\* endRun takes a run off its session, and may open the window it kept back.
LEMMA EndKeeps ==
    ASSUME IInv, NEW c \in Callers, End(c)
    PROVE  IInv'
<1> DEFINE s == sessions[callers[c].id]
           k == IF made[s].runActive = 0 THEN 0 ELSE made[s].runActive - 1
           m == [made[s] EXCEPT !.runActive = k]
           r == IF k = 0 THEN MaybeReveal(m, TRUE) ELSE m
           x == [callers[c] EXCEPT !.pc = "ended"]
           u == Moved(callers[c], "leaving", s)
           v == Moved(callers[c], "ended", 0)
<1>1. callers[c].pc = "between" /\ UNCHANGED <<sessions, projects>>
  BY DEF End
<1>2. \/ callers' = [callers EXCEPT ![c] = x] /\ UNCHANGED made
      \/ /\ s # 0 /\ made' = [made EXCEPT ![s] = r]
         /\ \/ callers' = [callers EXCEPT ![c] = u]
            \/ callers' = [callers EXCEPT ![c] = v]
  BY DEF End, At, IInv, TypeOK, Moved
<1>3. callers[c] \in Call /\ callers[c].id \in Ids /\ callers[c].on <= Len(made) /\ Len(made) \in Nat
  BY <1>1 DEF IInv, TypeOK, Fits, Fit
<1>4. CASE callers' = [callers EXCEPT ![c] = x] /\ UNCHANGED made
  <2>1. x \in Call /\ x.pc = "ended" /\ x.on = callers[c].on /\ x.id = callers[c].id
    BY <1>3 DEF Call
  <2>2. sessions' \in [Ids -> 0 .. Len(made)] /\ projects' \in [Projects -> Ids \cup {Nobody}]
    BY <1>1 DEF IInv, TypeOK
  <2> HIDE DEF x
  <2>3. Fit(c, x)
    BY <1>3, <2>1 DEF Fit
  <2> QED BY <1>1, <1>3, <1>4, <2>1, <2>2, <2>3, CallMoves
<1>5. CASE s # 0 /\ made' = [made EXCEPT ![s] = r]
  <2>1. /\ s \in DOMAIN made /\ made[s] \in Session /\ s \in 0 .. Len(made) /\ 0 \in 0 .. Len(made)
        /\ s <= Len(made) /\ 0 <= Len(made)
    <3>1. s \in DOMAIN made /\ made[s] \in Session /\ s \in 1 .. Len(made)
      BY <1>3, <1>5, Found, Rows DEF IInv
    <3> HIDE DEF s
    <3> QED BY <1>3, <3>1
  <2>2. k \in Nat
    BY <2>1 DEF Session
  <2>3. /\ m \in Session /\ m.inflight = made[s].inflight /\ m.wake = made[s].wake
        /\ m.reveal = made[s].reveal
    <3> HIDE DEF k, s
    <3> QED BY <2>1, <2>2 DEF Session
  <2>4. /\ r \in Session /\ r.inflight = made[s].inflight /\ r.wake = made[s].wake
        /\ r.reveal # "no" => made[s].reveal # "no" \/ made[s].inflight = 0
    <3> HIDE DEF m, k
    <3> QED BY <2>3, MaybeRevealIs
  <2>5. /\ u \in Call /\ u.pc = "leaving" /\ u.on = s /\ u.id = callers[c].id
        /\ v \in Call /\ v.pc = "ended" /\ v.on = 0 /\ v.id = callers[c].id
    <3>1. s \in Nat
      BY <1>3, <2>1
    <3> HIDE DEF s
    <3>2. u \in Call /\ u.pc = "leaving" /\ u.on = s /\ u.id = callers[c].id
      BY <1>3, <3>1, MovedIs
    <3>3. v \in Call /\ v.pc = "ended" /\ v.on = 0 /\ v.id = callers[c].id
      BY <1>3, EndedIs
    <3> QED BY <3>2, <3>3
  <2> HIDE DEF r, u, v, s
  <2>6. Fit(c, u) /\ Fit(c, v)
    BY <1>3, <2>1, <2>5 DEF Fit
  <2>7. CASE callers' = [callers EXCEPT ![c] = u]
    BY <1>1, <1>3, <1>5, <2>1, <2>4, <2>5, <2>6, <2>7, SessionMoves
  <2>8. CASE callers' = [callers EXCEPT ![c] = v]
    BY <1>1, <1>3, <1>5, <2>1, <2>4, <2>5, <2>6, <2>8, SessionMoves
  <2> QED BY <1>2, <1>4, <2>7, <2>8
<1> QED BY <1>2, <1>4, <1>5

LEMMA GoneIs ==
    ASSUME TypeOK, NEW s \in DOMAIN made, Gone(s)
    PROVE  sessions' \in [Ids -> 0 .. Len(made)] /\ projects' \in [Projects -> Ids \cup {Nobody}]
<1>1. 0 \in 0 .. Len(made)
  BY DEF TypeOK
<1> QED BY <1>1 DEF Gone, TypeOK

LEMMA LeaveKeeps ==
    ASSUME IInv, NEW c \in Callers, Leave(c)
    PROVE  IInv'
<1> DEFINE s == sessions[callers[c].id]
           m == Dropped(made[s])
           w == Woken(s, TRUE)
<1>1. callers[c].pc = "ended"
      /\ \/ /\ s # 0 /\ Gone(s) /\ made' = [made EXCEPT ![s] = m]
            /\ callers' = [w EXCEPT ![c] = Done]
         \/ callers' = [callers EXCEPT ![c] = Done] /\ UNCHANGED <<sessions, projects, made>>
  BY DEF Leave
<1>2. callers[c].id \in Ids /\ Len(made) \in Nat /\ 0 <= Len(made)
  BY <1>1 DEF IInv, TypeOK, Fits, Fit
<1>3. Done \in Call /\ Done.pc = "done" /\ Done.on = 0 /\ Fit(c, Done)
  <2>1. Fit(c, Done)
    BY IdleIs DEF Fit
  <2> QED BY <2>1, IdleIs
<1>4. CASE callers' = [callers EXCEPT ![c] = Done] /\ UNCHANGED <<sessions, projects, made>>
  <2>1. sessions' \in [Ids -> 0 .. Len(made)] /\ projects' \in [Projects -> Ids \cup {Nobody}]
    BY <1>4 DEF IInv, TypeOK
  <2> QED BY <1>1, <1>2, <1>3, <1>4, <2>1, CallMoves
<1>5. CASE s # 0 /\ Gone(s) /\ made' = [made EXCEPT ![s] = m] /\ callers' = [w EXCEPT ![c] = Done]
  <2>1. s \in DOMAIN made /\ made[s] \in Session
    BY <1>2, <1>5, Found, Rows DEF IInv
  <2>2. m \in Session /\ m.inflight = made[s].inflight /\ m.wake = Nobody /\ m.reveal = made[s].reveal
    BY <2>1, DroppedIs
  <2>3. /\ w \in [Callers -> Call]
        /\ \A d \in Callers : w[d].on <= Len(made) /\ Fit(d, w[d])
        /\ \A d \in Callers : w[d] = callers[d] \/ /\ callers[d].pc = "held" /\ callers[d].on = s
                                                   /\ w[d].pc # "call"
    BY <2>1, WokenIs DEF IInv
  <2>4. sessions' \in [Ids -> 0 .. Len(made)] /\ projects' \in [Projects -> Ids \cup {Nobody}]
    BY <1>5, <2>1, GoneIs DEF IInv
  <2> HIDE DEF w, m, s
  <2>5. \A d \in Callers : callers'[d] = IF d = c THEN Done ELSE w[d]
    BY <1>5, <2>3
  <2>6. callers' \in [Callers -> Call]
    BY <1>3, <1>5, <2>3
  <2>7. \A d \in Callers : callers'[d].on <= Len(made) /\ Fit(d, callers'[d])
    BY <1>2, <1>3, <2>3, <2>5
  <2>8. \A d \in Callers :
            \/ callers'[d] = callers[d]
            \/ /\ callers[d].pc # "call" /\ callers'[d].pc # "call"
               /\ callers[d].pc = "held" => callers[d].on = s /\ m.wake = Nobody
    BY <1>1, <1>3, <2>2, <2>3, <2>5
  <2> QED BY <1>5, <2>1, <2>2, <2>4, <2>6, <2>7, <2>8, SessionEnds
<1> QED BY <1>1, <1>4, <1>5

------------------------------------------------------------------------------
(* What happens to a session.                                              *)

\* A step that writes a session and no call.
LEMMA Alone ==
    ASSUME IInv, NEW s \in DOMAIN made, NEW m \in Session, made' = [made EXCEPT ![s] = m],
           m.inflight = made[s].inflight,
           m.reveal # "no" => made[s].reveal # "no" \/ made[s].inflight = 0,
           m.wake \in {made[s].wake, Nobody},
           UNCHANGED <<sessions, projects, callers>>
    PROVE  IInv'
<1>1. /\ callers' \in [Callers -> Call]
      /\ \A c \in Callers : callers'[c].on <= Len(made) /\ Fit(c, callers'[c])
      /\ sessions' \in [Ids -> 0 .. Len(made)] /\ projects' \in [Projects -> Ids \cup {Nobody}]
  BY DEF IInv, TypeOK, Fits
<1>2. \A c \in Callers : callers'[c] = callers[c]
  OBVIOUS
<1> QED BY <1>1, <1>2, SessionEnds

LEMMA CloseKeeps ==
    ASSUME IInv, NEW s \in DOMAIN made, Close(s)
    PROVE  IInv'
<1> DEFINE m == Dropped(made[s])
<1>1. Gone(s) /\ made' = [made EXCEPT ![s] = m] /\ callers' = Woken(s, TRUE)
  BY DEF Close
<1>2. m \in Session /\ m.inflight = made[s].inflight /\ m.wake = Nobody /\ m.reveal = made[s].reveal
  BY Rows, DroppedIs DEF IInv
<1>3. sessions' \in [Ids -> 0 .. Len(made)] /\ projects' \in [Projects -> Ids \cup {Nobody}]
  BY <1>1, GoneIs DEF IInv
<1>4. /\ callers' \in [Callers -> Call]
      /\ \A c \in Callers : callers'[c].on <= Len(made) /\ Fit(c, callers'[c])
      /\ \A c \in Callers : callers'[c] = callers[c] \/ /\ callers[c].pc = "held" /\ callers[c].on = s
                                                        /\ callers'[c].pc # "call"
  BY <1>1, WokenIs DEF IInv
<1> HIDE DEF m
<1> QED BY <1>1, <1>2, <1>3, <1>4, SessionEnds

LEMMA ResumeKeeps ==
    ASSUME IInv, NEW s \in DOMAIN made, Resume(s)
    PROVE  IInv'
<1> DEFINE m == [made[s] EXCEPT !.paused = FALSE, !.wanted = FALSE, !.forced = FALSE, !.wake = Nobody]
<1>1. made' = [made EXCEPT ![s] = m] /\ callers' = Woken(s, FALSE) /\ UNCHANGED <<sessions, projects>>
  BY DEF Resume
<1>2. made[s] \in Session
  BY Rows DEF IInv
<1>3. m \in Session /\ m.inflight = made[s].inflight /\ m.wake = Nobody /\ m.reveal = made[s].reveal
  BY <1>2 DEF Session
<1>4. sessions' \in [Ids -> 0 .. Len(made)] /\ projects' \in [Projects -> Ids \cup {Nobody}]
  BY <1>1 DEF IInv, TypeOK
<1>5. /\ callers' \in [Callers -> Call]
      /\ \A c \in Callers : callers'[c].on <= Len(made) /\ Fit(c, callers'[c])
      /\ \A c \in Callers : callers'[c] = callers[c] \/ /\ callers[c].pc = "held" /\ callers[c].on = s
                                                        /\ callers'[c].pc # "call"
  BY <1>1, WokenIs DEF IInv
<1> HIDE DEF m
<1> QED BY <1>1, <1>3, <1>4, <1>5, SessionEnds

LEMMA PauseKeeps ==
    ASSUME IInv, NEW s \in DOMAIN made, Pause(s)
    PROVE  IInv'
<1> DEFINE m == [made[s] EXCEPT !.paused = TRUE]
<1>1. made[s] \in Session
  BY Rows DEF IInv
<1>2. m \in Session /\ m.inflight = made[s].inflight /\ m.wake = made[s].wake /\ m.reveal = made[s].reveal
  BY <1>1 DEF Session
<1>3. made' = [made EXCEPT ![s] = m] /\ UNCHANGED <<sessions, projects, callers>>
  BY DEF Pause
<1> HIDE DEF m
<1> QED BY <1>2, <1>3, Alone

LEMMA TakeOverKeeps ==
    ASSUME IInv, NEW s \in DOMAIN made, TakeOver(s)
    PROVE  IInv'
<1> DEFINE n == [made[s] EXCEPT !.paused = TRUE, !.wanted = TRUE]
           m == MaybeReveal(n, TRUE)
<1>1. made[s] \in Session
  BY Rows DEF IInv
<1>2. n \in Session /\ n.inflight = made[s].inflight /\ n.wake = made[s].wake /\ n.reveal = made[s].reveal
  BY <1>1 DEF Session
<1>3. made' = [made EXCEPT ![s] = m] /\ UNCHANGED <<sessions, projects, callers>>
  BY DEF TakeOver
<1> HIDE DEF n
<1>4. /\ m \in Session /\ m.inflight = made[s].inflight /\ m.wake = made[s].wake
      /\ m.reveal # "no" => made[s].reveal # "no" \/ made[s].inflight = 0
  BY <1>2, MaybeRevealIs
<1> HIDE DEF m
<1> QED BY <1>3, <1>4, Alone

\* Calls that fail with the reveal they waited for.
LEMMA NotShownIs ==
    ASSUME TypeOK, Fits, NEW s \in DOMAIN made
    PROVE  LET w == NotShown(s)
           IN /\ w \in [Callers -> Call]
              /\ \A c \in Callers : w[c].on <= Len(made) /\ Fit(c, w[c])
              /\ \A c \in Callers :
                    \/ w[c] = callers[c]
                    \/ callers[c].pc \notin {"call", "held"} /\ w[c].pc # "call"
<1> SUFFICES ASSUME NEW c \in Callers
             PROVE  LET w == NotShown(s)
                    IN /\ w[c] \in Call
                       /\ w[c].on <= Len(made) /\ Fit(c, w[c])
                       /\ \/ w[c] = callers[c]
                          \/ callers[c].pc \notin {"call", "held"} /\ w[c].pc # "call"
  BY DEF NotShown
<1>1. callers[c] \in Call /\ callers[c].on <= Len(made) /\ Fit(c, callers[c]) /\ Len(made) \in Nat
      /\ 0 <= Len(made)
  BY DEF TypeOK, Fits
<1>2. CASE callers[c].on = s /\ callers[c].pc \in {"waiting", "revealing"}
  <2>1. NotShown(s)[c] = Over(c)
    BY <1>2 DEF NotShown
  <2>2. /\ Over(c) \in Call /\ Over(c).on = 0 /\ Over(c).pc \in {"between", "off"}
        /\ c \in Runs => Over(c).pc = "between" /\ Over(c).id = callers[c].id
        /\ c \notin Runs => Over(c).pc = "off"
    BY OverIs
  <2>3. Fit(c, Over(c))
    BY <1>1, <1>2, <2>2 DEF Fit
  <2> QED BY <1>1, <1>2, <2>1, <2>2, <2>3
<1>3. CASE callers[c].on = s /\ callers[c].pc = "leaving"
  <2>1. NotShown(s)[c] = Moved(callers[c], "ended", 0)
    BY <1>3 DEF NotShown, Moved
  <2>2. LET x == Moved(callers[c], "ended", 0)
        IN x \in Call /\ x.pc = "ended" /\ x.on = 0 /\ x.id = callers[c].id
    BY <1>1, EndedIs
  <2>3. Fit(c, Moved(callers[c], "ended", 0))
    BY <1>1, <1>3, <2>2 DEF Fit
  <2> QED BY <1>1, <1>3, <2>1, <2>2, <2>3
<1>4. CASE callers[c].on # s \/ callers[c].pc \notin {"waiting", "revealing", "leaving"}
  BY <1>1, <1>4 DEF NotShown
<1> QED BY <1>2, <1>3, <1>4

LEMMA GiveUpKeeps ==
    ASSUME IInv, NEW s \in DOMAIN made, GiveUp(s)
    PROVE  IInv'
<1> DEFINE m == [made[s] EXCEPT !.reveal = "no", !.window = "off"]
           n == Dropped(m)
           w == Woken(s, TRUE)
           v == NotShown(s)
<1>1. made[s] \in Session
  BY Rows DEF IInv
<1>2. m \in Session /\ m.inflight = made[s].inflight /\ m.wake = made[s].wake /\ m.reveal = "no"
  BY <1>1 DEF Session
<1>3. \/ /\ Gone(s) /\ made' = [made EXCEPT ![s] = n]
         /\ callers' = [c \in Callers |-> IF c = made[s].wake THEN w[c] ELSE v[c]]
      \/ made' = [made EXCEPT ![s] = m] /\ callers' = v /\ UNCHANGED <<sessions, projects>>
  BY DEF GiveUp
<1>4. /\ w \in [Callers -> Call]
      /\ \A d \in Callers : w[d].on <= Len(made) /\ Fit(d, w[d])
      /\ \A d \in Callers : w[d] = callers[d] \/ /\ callers[d].pc = "held" /\ callers[d].on = s
                                                 /\ w[d].pc # "call"
  BY WokenIs DEF IInv
<1>5. /\ v \in [Callers -> Call]
      /\ \A c \in Callers : v[c].on <= Len(made) /\ Fit(c, v[c])
      /\ \A c \in Callers : \/ v[c] = callers[c]
                            \/ callers[c].pc \notin {"call", "held"} /\ v[c].pc # "call"
  BY NotShownIs DEF IInv
<1> HIDE DEF m, w, v
<1>6. n \in Session /\ n.inflight = made[s].inflight /\ n.wake = Nobody /\ n.reveal = "no"
  BY <1>2, DroppedIs
<1> HIDE DEF n
<1>7. CASE /\ Gone(s) /\ made' = [made EXCEPT ![s] = n]
           /\ callers' = [c \in Callers |-> IF c = made[s].wake THEN w[c] ELSE v[c]]
  <2>1. /\ callers' \in [Callers -> Call]
        /\ \A c \in Callers : callers'[c].on <= Len(made) /\ Fit(c, callers'[c])
        /\ \A c \in Callers :
              \/ callers'[c] = callers[c]
              \/ /\ callers[c].pc # "call" /\ callers'[c].pc # "call"
                 /\ callers[c].pc = "held" => callers[c].on = s /\ n.wake = Nobody
    BY <1>4, <1>5, <1>6, <1>7
  <2>2. sessions' \in [Ids -> 0 .. Len(made)] /\ projects' \in [Projects -> Ids \cup {Nobody}]
    BY <1>7, GoneIs DEF IInv
  <2> QED BY <1>6, <1>7, <2>1, <2>2, SessionEnds
<1>8. CASE made' = [made EXCEPT ![s] = m] /\ callers' = v /\ UNCHANGED <<sessions, projects>>
  <2>1. /\ callers' \in [Callers -> Call]
        /\ \A c \in Callers : callers'[c].on <= Len(made) /\ Fit(c, callers'[c])
        /\ \A c \in Callers :
              \/ callers'[c] = callers[c]
              \/ /\ callers[c].pc # "call" /\ callers'[c].pc # "call"
                 /\ callers[c].pc = "held" => callers[c].on = s /\ m.wake = Nobody
    BY <1>5, <1>8
  <2>2. sessions' \in [Ids -> 0 .. Len(made)] /\ projects' \in [Projects -> Ids \cup {Nobody}]
    BY <1>8 DEF IInv, TypeOK
  <2> QED BY <1>2, <1>8, <2>1, <2>2, SessionEnds
<1> QED BY <1>3, <1>7, <1>8

LEMMA ContextClosesKeeps ==
    ASSUME IInv, NEW s \in DOMAIN made, ContextCloses(s)
    PROVE  IInv'
<1> DEFINE r == IF made[s].reveal = "closing" THEN "launching" ELSE made[s].reveal
           m == [made[s] EXCEPT !.context = "off", !.reveal = r]
<1>1. made[s] \in Session
  BY Rows DEF IInv
<1>2. made' = [made EXCEPT ![s] = m] /\ UNCHANGED <<sessions, projects, callers>>
  BY DEF ContextCloses, IInv, TypeOK
<1>3. r \in {"no", "closing", "launching", "binding", "front", "stray", "failed"}
      /\ (r # "no" => made[s].reveal # "no")
  BY <1>1 DEF Session
<1> HIDE DEF r
<1>4. m \in Session /\ m.inflight = made[s].inflight /\ m.wake = made[s].wake /\ m.reveal = r
  BY <1>1, <1>3 DEF Session
<1> HIDE DEF m
<1> QED BY <1>2, <1>3, <1>4, Alone

LEMMA RelaunchesKeeps ==
    ASSUME IInv, NEW s \in DOMAIN made, Relaunches(s)
    PROVE  IInv'
<1> DEFINE m == [made[s] EXCEPT !.reveal = "binding", !.window = "on"]
<1>1. made[s] \in Session
  BY Rows DEF IInv
<1>2. m \in Session /\ m.inflight = made[s].inflight /\ m.wake = made[s].wake
  BY <1>1 DEF Session
<1>3. CASE made' = [made EXCEPT ![s] = m] /\ UNCHANGED <<sessions, projects, callers>>
           /\ made[s].reveal = "launching"
  <2> HIDE DEF m
  <2> QED BY <1>2, <1>3, Alone
<1>4. CASE GiveUp(s)
  BY <1>4, GiveUpKeeps
<1> QED BY <1>3, <1>4 DEF Relaunches, IInv, TypeOK

LEMMA BindsKeeps ==
    ASSUME IInv, NEW s \in DOMAIN made, Binds(s)
    PROVE  IInv'
<1> DEFINE m == Publish(s)
           n == [made[s] EXCEPT !.reveal = "failed", !.window = "closing"]
<1>1. made[s] \in Session /\ made[s].reveal = "binding"
  BY Rows DEF IInv, Binds
<1>2. m \in Session /\ m.inflight = made[s].inflight /\ m.wake = made[s].wake
  BY <1>1 DEF Session, Publish
<1>3. n \in Session /\ n.inflight = made[s].inflight /\ n.wake = made[s].wake
  BY <1>1 DEF Session
<1>4. /\ made' = [made EXCEPT ![s] = m] \/ made' = [made EXCEPT ![s] = n]
      /\ UNCHANGED <<sessions, projects, callers>>
  BY DEF Binds, IInv, TypeOK
<1> HIDE DEF m, n
<1> QED BY <1>1, <1>2, <1>3, <1>4, Alone

Cleared(n, k) ==
    [n EXCEPT !.reveal = "no", !.wanted = FALSE, !.forced = FALSE, !.inflight = k]

LEMMA ClearedIs ==
    ASSUME NEW n \in Session, NEW k \in Nat
    PROVE  LET m == Cleared(n, k)
           IN m \in Session /\ m.inflight = k /\ m.wake = n.wake /\ m.reveal = "no"
<1> QED BY DEF Cleared, Session

\* A reveal that is over had met no page call, and those that waited for it
\* are all that count now.
LEMMA ShownKeeps ==
    ASSUME IInv, NEW s \in DOMAIN made, NEW n \in Session, made[s].reveal # "no",
           n.inflight = made[s].inflight, n.wake = made[s].wake,
           made' = [made EXCEPT ![s] = Finished(s, n)], callers' = Shown(s),
           UNCHANGED <<sessions, projects>>
    PROVE  IInv'
<1> DEFINE k == Cardinality(Awaiting(s, "waiting"))
           m == Finished(s, n)
<1>1. k \in Nat
  BY AwaitingIsFinite
<1>2. made[s].inflight = 0 /\ Awaiting(s, "call") = {}
  <2>1. made[s].inflight = 0 /\ made[s].inflight = Cardinality(Awaiting(s, "call"))
    BY DEF IInv, Spares, Counts
  <2>2. IsFiniteSet(Awaiting(s, "call"))
    BY AwaitingIsFinite
  <2> QED BY <2>1, <2>2, FS_EmptySet
<1>3. m \in Session /\ m.inflight = k /\ m.wake = made[s].wake /\ m.reveal = "no"
  <2> HIDE DEF k
  <2>1. n.inflight + k = k
    BY <1>1, <1>2
  <2>2. m = Cleared(n, n.inflight + k)
    BY DEF Finished, Cleared, k
  <2>3. m = Cleared(n, k)
    BY <2>1, <2>2
  <2> HIDE DEF m
  <2> QED BY <1>1, <2>3, ClearedIs
<1> HIDE DEF m, k
<1>4. /\ made' \in Seq(Session) /\ Len(made') = Len(made) /\ DOMAIN made' = DOMAIN made
      /\ made'[s] = m /\ \A t \in DOMAIN made : t # s => made'[t] = made[t]
  BY <1>3, Writing DEF IInv, TypeOK, m
<1>5. ASSUME NEW c \in Callers
      PROVE  /\ callers'[c] \in Call /\ callers'[c].on <= Len(made) /\ Fit(c, callers'[c])
             /\ callers[c].on # s \/ callers[c].pc \in {"call", "held"} => callers'[c] = callers[c]
             /\ callers[c].on = s => (callers'[c].pc = "call" /\ callers'[c].on = s
                                      <=> callers[c].pc \in {"call", "waiting"})
             /\ callers[c].on = s => callers'[c].on \in {s, 0}
             /\ callers[c].on = s /\ callers'[c].pc = "call" => callers'[c].on = s
  <2>1. callers[c] \in Call /\ callers[c].on <= Len(made) /\ Fit(c, callers[c]) /\ Len(made) \in Nat
        /\ 0 <= Len(made)
    BY DEF IInv, TypeOK, Fits
  <2>2. CASE callers[c].on = s /\ callers[c].pc = "waiting"
    <3>1. callers'[c] = [callers[c] EXCEPT !.pc = "call"]
      BY <2>2 DEF Shown
    <3>2. /\ callers'[c] \in Call /\ callers'[c].pc = "call" /\ callers'[c].on = s
          /\ callers'[c].id = callers[c].id
      BY <2>1, <2>2, <3>1 DEF Call
    <3>3. Fit(c, callers'[c])
      BY <2>1, <2>2, <3>2 DEF Fit
    <3> QED BY <2>1, <2>2, <3>2, <3>3
  <2>3. CASE callers[c].on = s /\ callers[c].pc = "revealing"
    <3>1. callers'[c] = Moved(callers[c], "looping", 0)
      BY <2>3 DEF Shown, Moved
    <3>2. /\ callers'[c] \in Call /\ callers'[c].pc = "looping" /\ callers'[c].on = 0
          /\ callers'[c].id = callers[c].id
      BY <2>1, <3>1, LoopingIs
    <3>3. Fit(c, callers'[c])
      BY <2>1, <2>3, <3>2 DEF Fit
    <3> QED BY <2>1, <2>3, <3>2, <3>3
  <2>4. CASE callers[c].on = s /\ callers[c].pc = "leaving"
    <3>1. callers'[c] = Moved(callers[c], "ended", 0)
      BY <2>4 DEF Shown, Moved
    <3>2. /\ callers'[c] \in Call /\ callers'[c].pc = "ended" /\ callers'[c].on = 0
          /\ callers'[c].id = callers[c].id
      BY <2>1, <3>1, EndedIs
    <3>3. Fit(c, callers'[c])
      BY <2>1, <2>4, <3>2 DEF Fit
    <3> QED BY <2>1, <2>4, <3>2, <3>3
  <2>5. CASE callers[c].on # s \/ callers[c].pc \notin {"waiting", "revealing", "leaving"}
    <3>1. callers'[c] = callers[c]
      BY <2>5 DEF Shown
    <3> QED BY <2>1, <2>5, <3>1
  <2> QED BY <2>2, <2>3, <2>4, <2>5
<1>6. TypeOK'
  <2>1. callers' \in [Callers -> Call]
    BY <1>5 DEF Shown
  <2> QED BY <1>4, <1>5, <2>1 DEF IInv, TypeOK
<1>7. Awaiting(s, "call")' = Awaiting(s, "waiting")
  <2>1. \A c \in Callers : callers[c].on = s => callers[c].pc # "call"
    BY <1>2 DEF Awaiting
  <2>2. s # 0
    BY Rows DEF IInv
  <2> QED BY <1>5, <2>1, <2>2 DEF Awaiting
<1>8. ASSUME NEW t \in DOMAIN made, t # s
      PROVE  Awaiting(t, "call")' = Awaiting(t, "call")
  <2>1. t # 0
    BY Rows DEF IInv
  <2> QED BY <1>5, <1>8, <2>1 DEF Awaiting
<1>9. Counts'
  BY <1>3, <1>4, <1>7, <1>8 DEF Counts, IInv, k
<1>10. Spares'
  BY <1>3, <1>4 DEF Spares, IInv
<1>11. Wakes'
  <2>1. ASSUME NEW t \in DOMAIN made, made[t].wake # Nobody
        PROVE  callers'[made[t].wake] = callers[made[t].wake]
    <3>1. callers[made[t].wake].pc = "held"
      BY <2>1 DEF IInv, Wakes
    <3>2. made[t].wake \in Callers
      BY <2>1, Rows DEF IInv
    <3> QED BY <1>5, <3>1, <3>2
  <2>2. \A t \in DOMAIN made : made'[t].wake = made[t].wake
    BY <1>3, <1>4
  <2> QED BY <1>4, <2>1, <2>2, StillHeld DEF IInv
<1>12. Held'
  <2> SUFFICES ASSUME NEW c \in Callers, callers'[c].pc = "call"
               PROVE  callers'[c].on \in DOMAIN made
    BY <1>4 DEF Held
  <2>1. CASE callers[c].on = s
    BY <1>5, <2>1
  <2>2. CASE callers[c].on # s
    <3>1. callers'[c] = callers[c]
      BY <1>5, <2>2
    <3> QED BY <3>1 DEF Held, IInv
  <2> QED BY <2>1, <2>2
<1>13. Fits'
  BY <1>5 DEF Fits, Fit
<1> QED BY <1>6, <1>9, <1>10, <1>11, <1>12, <1>13 DEF IInv

LEMMA WindowClosesKeeps ==
    ASSUME IInv, NEW s \in DOMAIN made, WindowCloses(s)
    PROVE  IInv'
<1> DEFINE n == [made[s] EXCEPT !.window = "off"]
<1>1. made[s] \in Session
  BY Rows DEF IInv
<1>2. n \in Session /\ n.inflight = made[s].inflight /\ n.wake = made[s].wake
  BY <1>1 DEF Session
<1>3. CASE /\ made[s].reveal = "stray" /\ made' = [made EXCEPT ![s] = Finished(s, n)]
           /\ callers' = Shown(s) /\ UNCHANGED <<sessions, projects>>
  <2> HIDE DEF n
  <2> QED BY <1>2, <1>3, ShownKeeps
<1>4. CASE GiveUp(s)
  BY <1>4, GiveUpKeeps
<1> QED BY <1>3, <1>4 DEF WindowCloses

LEMMA InFrontKeeps ==
    ASSUME IInv, NEW s \in DOMAIN made, InFront(s)
    PROVE  IInv'
<1>1. made[s] \in Session /\ made[s].reveal # "no"
  BY Rows DEF IInv, InFront
<1> QED BY <1>1, ShownKeeps DEF InFront

------------------------------------------------------------------------------
(* The theorem.                                                            *)

LEMMA InitHolds == Init => IInv
<1> SUFFICES ASSUME Init PROVE IInv
  OBVIOUS
<1>1. made = <<>> /\ DOMAIN made = {} /\ Len(made) = 0 /\ made \in Seq(Session)
  BY DEF Init
<1>2. \A c \in Callers : callers[c] = Idle
  BY DEF Init
<1>3. TypeOK
  <2>1. sessions \in [Ids -> 0 .. Len(made)]
    BY <1>1 DEF Init
  <2>2. projects \in [Projects -> Ids \cup {Nobody}]
    BY DEF Init
  <2>3. callers \in [Callers -> Call]
    BY IdleIs DEF Init
  <2>4. \A c \in Callers : callers[c].on <= Len(made)
    <3>1. \A c \in Callers : callers[c].on = 0
      BY <1>2, IdleIs
    <3>2. 0 <= Len(made)
      BY <1>1
    <3> QED BY <3>1, <3>2
  <2> QED BY <1>1, <2>1, <2>2, <2>3, <2>4 DEF TypeOK
<1>4. Held /\ Fits
  BY <1>2, IdleIs DEF Held, Fits, Fit
<1>5. Counts /\ Spares /\ Wakes
  BY <1>1 DEF Counts, Spares, Wakes
<1> QED BY <1>3, <1>4, <1>5 DEF IInv

LEMMA Keeps == IInv /\ [Next]_vars => IInv'
<1> SUFFICES ASSUME IInv, [Next]_vars PROVE IInv'
  OBVIOUS
<1>1. CASE UNCHANGED vars
  <2>1. UNCHANGED <<sessions, projects, made, callers>>
    BY <1>1 DEF vars
  <2> QED BY <2>1 DEF IInv, TypeOK, Counts, Spares, Wakes, Held, Fits, Fit, Awaiting
<1>2. ASSUME NEW c \in Callers, GoOn(c) PROVE IInv'
  BY <1>2, LaunchEndsKeeps, BindEndsKeeps, JoinedKeeps, StepKeeps, CaptureKeeps, CallEndsKeeps,
     EndKeeps, LeaveKeeps DEF GoOn
<1>3. ASSUME NEW c \in Callers, NEW i \in Ids,
             View(c, i) \/ \E p \in Projects, h \in BOOLEAN : Open(c, i, p, h)
      PROVE  IInv'
  BY <1>3, ViewKeeps, OpenKeeps
<1>4. ASSUME NEW s \in DOMAIN made, Reveal(s) PROVE IInv'
  BY <1>4, ContextClosesKeeps, RelaunchesKeeps, BindsKeeps, WindowClosesKeeps, InFrontKeeps DEF Reveal
<1>5. ASSUME NEW s \in DOMAIN made,
             Close(s) \/ Pause(s) \/ TakeOver(s) \/ Resume(s) \/ IdleOut(s)
      PROVE  IInv'
  BY <1>5, CloseKeeps, PauseKeeps, TakeOverKeeps, ResumeKeeps DEF IdleOut
<1> QED BY <1>1, <1>2, <1>3, <1>4, <1>5 DEF Next

\* Whatever is opened, revealed, held, closed or fails, sessions and calls
\* keep their types.
THEOREM BrowserTypes == Spec => []TypeOK
<1>1. IInv => TypeOK
  BY DEF IInv
<1> QED BY <1>1, InitHolds, Keeps, PTL DEF Spec

\* No Chromium is closed and reopened with a window while a page call is in
\* flight on it (maybeReveal and pageOp in browser.ts): not by a take over
\* between steps, not by the boundary that forces it, not by the last call or
\* the last run that ends, and not while calls queue behind another reveal.
THEOREM CallsAreSafe == Spec => []CallsAreSpared
<1>1. IInv => CallsAreSpared
  <2> SUFFICES ASSUME IInv, NEW s \in DOMAIN made, made[s].reveal # "no"
               PROVE  Awaiting(s, "call") = {}
    BY DEF CallsAreSpared
  <2>1. Cardinality(Awaiting(s, "call")) = 0
    BY DEF IInv, Counts, Spares
  <2> QED BY <2>1, AwaitingIsFinite, FS_EmptySet
<1> QED BY <1>1, InitHolds, Keeps, PTL DEF Spec
------------------------------------------------------------------------------
(* Whose a browser is.  A project is reserved for the id that is being     *)
(* opened for it or that has a session of it, a session that is registered *)
(* has its Chromium but while a reveal replaces it, and a run is held by   *)
(* the session of its id.  All of it takes that no id is being opened for  *)
(* two projects at once: open looks an id up before it launches and        *)
(* registers it after, and reserves only the project in between.           *)

Opening(c) == callers[c].pc \in {"launching", "binding"}

\* No id is being opened for two projects at once.
OneProjectAnId ==
    \A c, d \in Callers :
        Opening(c) /\ Opening(d) /\ callers[c].id = callers[d].id
        => callers[c].project = callers[d].project

\* Every session is its id's, every browser on its way has its project and an
\* id without a session, and a project has one browser on its way at most.
Owned ==
    /\ \A i \in Ids : sessions[i] # 0 => made[sessions[i]].id = i
    /\ \A c \in Callers :
          Opening(c) => projects[callers[c].project] = callers[c].id /\ sessions[callers[c].id] = 0
    /\ \A c, d \in Callers : Opening(c) /\ Opening(d) /\ callers[c].project = callers[d].project => c = d
    /\ \A s \in DOMAIN made : Live(s) => projects[made[s].project] = made[s].id

\* What a session's Chromiums are, as long as its id is its own and after.
Good(m, live) ==
    /\ m.window = "on" => m.reveal = "binding"
    /\ live => (m.context = "on" <=> m.reveal \in {"no", "front"}) /\ m.reveal # "stray"
    /\ ~live => m.context # "on"

\* A reserved project is somebody's.
Accounted(p) ==
    projects[p] # Nobody =>
        \/ \E s \in DOMAIN made : Live(s) /\ made[s].project = p
        \/ \E c \in Callers : Opening(c) /\ callers[c].project = p /\ callers[c].id = projects[p]

Matched == (\A p \in Projects : Accounted(p)) /\ (\A s \in DOMAIN made : Good(made[s], Live(s)))

RunIds == \A r, q \in Runs : callers[r].id = callers[q].id /\ callers[r].id # Nobody => r = q

HeldWell(c) ==
    callers[c].pc = "held" =>
        /\ c \in Runs /\ callers[c].id \in Ids /\ callers[c].on # 0
        /\ sessions[callers[c].id] = callers[c].on
        /\ made[callers[c].on].paused /\ made[callers[c].on].wake = c

Holds == RunIds /\ \A c \in Callers : HeldWell(c)

BInv == IInv /\ Owned /\ (~PageFails => Matched) /\ (~Shared => Holds)

------------------------------------------------------------------------------
(* What a step leaves of it.                                               *)

\* A session written in place stays the same session, its Chromiums in order.
Same(m, n) == n.id = m.id /\ n.project = m.project
Stays(m, n, live) == Same(m, n) /\ (Good(m, live) => Good(n, live))

\* A call goes on, opening what it was opening if it does.
SameCall(c) ==
    /\ Opening(c)' <=> Opening(c)
    /\ Opening(c) => callers'[c].id = callers[c].id /\ callers'[c].project = callers[c].project
    /\ c \in Runs => callers'[c].id \in {callers[c].id, Nobody}

LEMMA OpeningIs ==
    ASSUME IInv, NEW c \in Callers, Opening(c)
    PROVE  callers[c].id \in Ids /\ callers[c].project \in Projects /\ callers[c].id # Nobody
BY BrowserAssumption DEF IInv, Fits, Fit, Opening, Nobody

LEMMA LiveIs ==
    ASSUME TypeOK, NEW s \in DOMAIN made
    PROVE  made[s].id \in Ids /\ made[s].project \in Projects /\ s # 0 /\ made[s].id # Nobody
BY Rows, BrowserAssumption DEF Session, Nobody

LEMMA RunIdsStay ==
    ASSUME RunIds, \A c \in Callers : SameCall(c)
    PROVE  RunIds'
<1> SUFFICES ASSUME NEW r \in Runs, NEW q \in Runs, callers'[r].id = callers'[q].id, callers'[r].id # Nobody
             PROVE  r = q
  BY DEF RunIds
<1>1. r \in Callers /\ q \in Callers
  BY DEF Callers
<1>2. callers'[r].id = callers[r].id /\ callers'[q].id = callers[q].id
  BY <1>1 DEF SameCall
<1> QED BY <1>2 DEF RunIds

\* A step that neither registers a session, nor closes or opens one.
LEMMA SitsStill ==
    ASSUME BInv, IInv', UNCHANGED <<sessions, projects>>, DOMAIN made' = DOMAIN made,
           \A t \in DOMAIN made : Stays(made[t], made'[t], Live(t)),
           \A c \in Callers : SameCall(c),
           ~Shared => \A c \in Callers : HeldWell(c)'
    PROVE  BInv'
<1>1. \A t \in DOMAIN made : (Live(t)' <=> Live(t)) /\ made'[t].id = made[t].id
                             /\ made'[t].project = made[t].project
  BY DEF Live, Stays, Same
<1>2. Owned'
  <2>1. ASSUME NEW i \in Ids, sessions[i] # 0 PROVE made'[sessions[i]].id = i
    <3>1. sessions[i] \in DOMAIN made
      BY <2>1, Found DEF BInv, IInv
    <3> QED BY <1>1, <2>1, <3>1 DEF BInv, Owned
  <2>2. ASSUME NEW c \in Callers, Opening(c)'
        PROVE  projects[callers'[c].project] = callers'[c].id /\ sessions[callers'[c].id] = 0
    BY <2>2 DEF BInv, Owned, SameCall
  <2>3. ASSUME NEW c \in Callers, NEW d \in Callers, Opening(c)', Opening(d)',
               callers'[c].project = callers'[d].project
        PROVE  c = d
    BY <2>3 DEF BInv, Owned, SameCall
  <2>4. ASSUME NEW s \in DOMAIN made, Live(s)' PROVE projects[made'[s].project] = made'[s].id
    BY <1>1, <2>4 DEF BInv, Owned
  <2> QED BY <2>1, <2>2, <2>3, <2>4 DEF Owned
<1>3. ASSUME ~PageFails PROVE Matched'
  <2>1. ASSUME NEW s \in DOMAIN made PROVE Good(made'[s], Live(s)')
    <3>1. Good(made[s], Live(s)) /\ Stays(made[s], made'[s], Live(s))
      BY <1>3 DEF BInv, Matched
    <3>2. Live(s)' = Live(s)
      BY <1>1 DEF Live
    <3> QED BY <3>1, <3>2 DEF Stays
  <2>2. ASSUME NEW p \in Projects PROVE Accounted(p)'
    <3>1. Accounted(p)
      BY <1>3 DEF BInv, Matched
    <3>2. CASE \E s \in DOMAIN made : Live(s) /\ made[s].project = p
      BY <1>1, <3>2 DEF Accounted
    <3>3. CASE \E c \in Callers : Opening(c) /\ callers[c].project = p /\ callers[c].id = projects[p]
      BY <3>3 DEF Accounted, SameCall
    <3> QED BY <3>1, <3>2, <3>3 DEF Accounted
  <2> QED BY <2>1, <2>2 DEF Matched
<1>4. ASSUME ~Shared PROVE Holds'
  <2>1. RunIds'
    BY <1>4, RunIdsStay DEF BInv, Holds
  <2> QED BY <1>4, <2>1 DEF Holds
<1> QED BY <1>2, <1>3, <1>4 DEF BInv

\* A session that closes gives back the project it had reserved, and only it.
LEMMA GivesBack ==
    ASSUME BInv, IInv', NEW s \in DOMAIN made, Live(s), Gone(s), DOMAIN made' = DOMAIN made,
           \A t \in DOMAIN made : Same(made[t], made'[t]),
           \A t \in DOMAIN made : t # s => made'[t] = made[t],
           Good(made[s], TRUE) => Good(made'[s], FALSE),
           \A c \in Callers : SameCall(c),
           ~Shared => \A c \in Callers : HeldWell(c)'
    PROVE  BInv'
<1> DEFINE i == made[s].id
           p == made[s].project
<1>1. /\ i \in Ids /\ p \in Projects /\ s # 0 /\ sessions[i] = s /\ projects[p] = i /\ i # Nobody
  BY LiveIs DEF BInv, IInv, Live, Owned
<1>2. /\ \A j \in Ids : sessions'[j] = IF j = i THEN 0 ELSE sessions[j]
      /\ \A q \in Projects : projects'[q] = IF q = p THEN Nobody ELSE projects[q]
  BY <1>1 DEF Gone, BInv, IInv, TypeOK
<1>3. \A t \in DOMAIN made : /\ made'[t].id = made[t].id /\ made'[t].project = made[t].project
                             /\ made[t].id \in Ids /\ made[t].project \in Projects /\ t # 0
  BY LiveIs DEF Same, BInv, IInv
<1> HIDE DEF i, p
<1>4. ASSUME NEW t \in DOMAIN made PROVE Live(t)' <=> Live(t) /\ t # s
  <2>1. Live(t)' <=> sessions'[made[t].id] = t
    BY <1>3 DEF Live
  <2>2. CASE made[t].id = i
    BY <1>1, <1>2, <1>3, <2>1, <2>2 DEF Live
  <2>3. CASE made[t].id # i
    BY <1>2, <1>3, <2>1, <2>3 DEF Live, i
  <2> QED BY <2>2, <2>3
<1>5. ASSUME NEW t \in DOMAIN made, Live(t), t # s PROVE made[t].project # p
  <2>1. made[t].project = p => made[t].id = i
    BY <1>1, <1>5 DEF BInv, Owned
  <2>2. made[t].id # i
    BY <1>1, <1>5 DEF Live
  <2> QED BY <2>1, <2>2
<1>6. ASSUME NEW c \in Callers, Opening(c)
      PROVE  callers[c].project # p /\ callers[c].project \in Projects /\ callers[c].id \in Ids
  <2>1. callers[c].project \in Projects /\ callers[c].id \in Ids
    BY <1>6, OpeningIs DEF BInv
  <2>2. projects[callers[c].project] = callers[c].id /\ sessions[callers[c].id] = 0
    BY <1>6 DEF BInv, Owned
  <2> QED BY <1>1, <2>1, <2>2
<1>7. Owned'
  <2>1. ASSUME NEW j \in Ids, sessions'[j] # 0 PROVE made'[sessions'[j]].id = j
    <3>1. sessions'[j] = sessions[j] /\ sessions[j] \in DOMAIN made
      BY <1>2, <2>1, Found DEF BInv, IInv
    <3> QED BY <1>3, <2>1, <3>1 DEF BInv, Owned
  <2>2. ASSUME NEW c \in Callers, Opening(c)'
        PROVE  projects'[callers'[c].project] = callers'[c].id /\ sessions'[callers'[c].id] = 0
    <3>1. Opening(c) /\ callers'[c].id = callers[c].id /\ callers'[c].project = callers[c].project
      BY <2>2 DEF SameCall
    <3>2. projects[callers[c].project] = callers[c].id /\ sessions[callers[c].id] = 0
      BY <3>1 DEF BInv, Owned
    <3> QED BY <1>2, <1>6, <3>1, <3>2
  <2>3. ASSUME NEW c \in Callers, NEW d \in Callers, Opening(c)', Opening(d)',
               callers'[c].project = callers'[d].project
        PROVE  c = d
    BY <2>3 DEF BInv, Owned, SameCall
  <2>4. ASSUME NEW t \in DOMAIN made, Live(t)' PROVE projects'[made'[t].project] = made'[t].id
    <3>1. Live(t) /\ t # s /\ made[t].project # p
      BY <1>4, <1>5, <2>4
    <3>2. projects[made[t].project] = made[t].id
      BY <3>1 DEF BInv, Owned
    <3> QED BY <1>2, <1>3, <3>1, <3>2
  <2> QED BY <2>1, <2>2, <2>3, <2>4 DEF Owned
<1>8. ASSUME ~PageFails PROVE Matched'
  <2>1. ASSUME NEW t \in DOMAIN made PROVE Good(made'[t], Live(t)')
    <3>1. Good(made[t], Live(t))
      BY <1>8 DEF BInv, Matched
    <3>2. CASE t = s
      <4>1. Live(t) = TRUE /\ Live(t)' = FALSE
        BY <1>4, <3>2 DEF Live
      <4> QED BY <3>1, <3>2, <4>1
    <3>3. CASE t # s
      <4>1. Live(t)' = Live(t)
        BY <1>4, <3>3 DEF Live
      <4> QED BY <3>1, <3>3, <4>1
    <3> QED BY <3>2, <3>3
  <2>2. ASSUME NEW q \in Projects PROVE Accounted(q)'
    <3>1. SUFFICES ASSUME projects'[q] # Nobody
                   PROVE  \/ \E t \in DOMAIN made' : Live(t)' /\ made'[t].project = q
                          \/ \E c \in Callers : /\ Opening(c)' /\ callers'[c].project = q
                                                /\ callers'[c].id = projects'[q]
      BY DEF Accounted
    <3>2. q # p /\ projects'[q] = projects[q] /\ projects[q] # Nobody
      BY <1>2, <3>1
    <3>3. Accounted(q)
      BY <1>8 DEF BInv, Matched
    <3>4. CASE \E t \in DOMAIN made : Live(t) /\ made[t].project = q
      <4>1. PICK t \in DOMAIN made : Live(t) /\ made[t].project = q
        BY <3>4
      <4>2. t # s
        BY <3>2, <4>1 DEF p
      <4> QED BY <1>3, <1>4, <4>1, <4>2
    <3>5. CASE \E c \in Callers : Opening(c) /\ callers[c].project = q /\ callers[c].id = projects[q]
      BY <3>2, <3>5 DEF SameCall
    <3> QED BY <3>2, <3>3, <3>4, <3>5 DEF Accounted
  <2> QED BY <2>1, <2>2 DEF Matched
<1>9. ASSUME ~Shared PROVE Holds'
  <2>1. RunIds'
    BY <1>9, RunIdsStay DEF BInv, Holds
  <2> QED BY <1>9, <2>1 DEF Holds
<1> QED BY <1>7, <1>8, <1>9 DEF BInv

\* A run that stays held, by a session that stays paused.
LEMMA StaysHeld ==
    ASSUME TypeOK, NEW c \in Callers, HeldWell(c), callers'[c].pc = "held" => callers'[c] = callers[c],
           callers[c].pc = "held" =>
               /\ sessions'[callers[c].id] = sessions[callers[c].id]
               /\ made'[callers[c].on].wake = made[callers[c].on].wake
               /\ made[callers[c].on].paused => made'[callers[c].on].paused
    PROVE  HeldWell(c)'
BY DEF HeldWell

\* Whom a held run is held by.
LEMMA HeldIs ==
    ASSUME TypeOK, NEW c \in Callers, HeldWell(c), callers[c].pc = "held"
    PROVE  callers[c].on \in DOMAIN made /\ callers[c].on # 0 /\ callers[c].id \in Ids /\ c \in Runs
BY Found DEF HeldWell

LEMMA StaysSame ==
    ASSUME NEW m, NEW live
    PROVE  Stays(m, m, live)
BY DEF Stays, Same

LEMMA OneRow ==
    ASSUME TypeOK, NEW s \in DOMAIN made, NEW m \in Session, Stays(made[s], m, Live(s)),
           made' = [made EXCEPT ![s] = m]
    PROVE  /\ DOMAIN made' = DOMAIN made /\ made'[s] = m
           /\ \A t \in DOMAIN made : t # s => made'[t] = made[t]
           /\ \A t \in DOMAIN made : Stays(made[t], made'[t], Live(t))
<1>1. /\ DOMAIN made' = DOMAIN made /\ made'[s] = m
      /\ \A t \in DOMAIN made : t # s => made'[t] = made[t]
  BY Writing DEF TypeOK
<1> QED BY <1>1, StaysSame

\* A call that goes on without a browser to open or a hold to wait for, and
\* sessions that hold whom they held.
LEMMA Going ==
    ASSUME BInv, IInv', NEW c \in Callers, NEW x, callers' = [callers EXCEPT ![c] = x],
           callers[c].pc \notin {"launching", "binding", "held"},
           x.pc \notin {"launching", "binding", "held"},
           c \in Runs => x.id \in {callers[c].id, Nobody},
           UNCHANGED <<sessions, projects>>, DOMAIN made' = DOMAIN made,
           \A t \in DOMAIN made :
               /\ Stays(made[t], made'[t], Live(t))
               /\ made'[t].wake = made[t].wake /\ (made[t].paused => made'[t].paused)
    PROVE  BInv'
<1>1. \A d \in Callers : callers'[d] = IF d = c THEN x ELSE callers[d]
  BY DEF BInv, IInv, TypeOK
<1>2. \A d \in Callers : SameCall(d)
  BY <1>1 DEF SameCall, Opening
<1>3. ASSUME ~Shared, NEW d \in Callers PROVE HeldWell(d)'
  <2>1. TypeOK /\ HeldWell(d)
    BY <1>3 DEF BInv, IInv, Holds
  <2>2. callers[d].pc = "held" => callers[d].on \in DOMAIN made
    BY <2>1, HeldIs
  <2> QED BY <1>1, <2>1, <2>2, StaysHeld
<1> QED BY <1>2, <1>3, SitsStill

LEMMA GoingAlone ==
    ASSUME BInv, IInv', NEW c \in Callers, NEW x, callers' = [callers EXCEPT ![c] = x],
           callers[c].pc \notin {"launching", "binding", "held"},
           x.pc \notin {"launching", "binding", "held"},
           c \in Runs => x.id \in {callers[c].id, Nobody},
           UNCHANGED <<sessions, projects, made>>
    PROVE  BInv'
<1>1. \A t \in DOMAIN made : Stays(made[t], made'[t], Live(t))
  BY StaysSame
<1> QED BY <1>1, Going

\* A session that is written where no run is let go.
LEMMA Rewritten ==
    ASSUME BInv, IInv', NEW s \in DOMAIN made, NEW m \in Session, Stays(made[s], m, Live(s)),
           m.wake = made[s].wake, made[s].paused => m.paused,
           made' = [made EXCEPT ![s] = m], UNCHANGED <<sessions, projects>>,
           \A c \in Callers : SameCall(c) /\ (callers'[c].pc = "held" => callers'[c] = callers[c])
    PROVE  BInv'
<1>1. /\ DOMAIN made' = DOMAIN made /\ made'[s] = m
      /\ \A t \in DOMAIN made : t # s => made'[t] = made[t]
      /\ \A t \in DOMAIN made : Stays(made[t], made'[t], Live(t))
  BY OneRow DEF BInv, IInv
<1>2. ASSUME ~Shared, NEW d \in Callers PROVE HeldWell(d)'
  <2>1. TypeOK /\ HeldWell(d)
    BY <1>2 DEF BInv, IInv, Holds
  <2>2. callers[d].pc = "held" => callers[d].on \in DOMAIN made
    BY <2>1, HeldIs
  <2> QED BY <1>1, <2>1, <2>2, StaysHeld
<1> QED BY <1>1, <1>2, SitsStill

LEMMA SameCalls ==
    ASSUME UNCHANGED callers, NEW c \in Callers
    PROVE  SameCall(c) /\ (callers'[c].pc = "held" => callers'[c] = callers[c])
BY DEF SameCall, Opening

LEMMA Rewrites ==
    ASSUME BInv, IInv', NEW c \in Callers, NEW x, callers' = [callers EXCEPT ![c] = x],
           callers[c].pc \notin {"launching", "binding", "held"},
           x.pc \notin {"launching", "binding", "held"},
           c \in Runs => x.id \in {callers[c].id, Nobody},
           NEW s \in DOMAIN made, NEW m \in Session, Stays(made[s], m, Live(s)),
           m.wake = made[s].wake, made[s].paused => m.paused,
           made' = [made EXCEPT ![s] = m], UNCHANGED <<sessions, projects>>
    PROVE  BInv'
<1>1. /\ DOMAIN made' = DOMAIN made /\ made'[s] = m
      /\ \A t \in DOMAIN made : t # s => made'[t] = made[t]
      /\ \A t \in DOMAIN made : Stays(made[t], made'[t], Live(t))
  BY OneRow DEF BInv, IInv
<1>2. \A t \in DOMAIN made : made'[t].wake = made[t].wake /\ (made[t].paused => made'[t].paused)
  BY <1>1
<1> QED BY <1>1, <1>2, Going

------------------------------------------------------------------------------
(* The operators again, for what a session's Chromiums are.                *)

LEMMA MaybeRevealStays ==
    ASSUME NEW m \in Session, NEW live \in BOOLEAN
    PROVE  LET r == MaybeReveal(m, live)
           IN Stays(m, r, live) /\ r.paused = m.paused /\ r.wake = m.wake
<1>1. CASE ~Reveals(m)
  BY <1>1, StaysSame DEF MaybeReveal
<1>2. CASE Reveals(m) /\ (m.headed \/ ~live)
  BY <1>2 DEF MaybeReveal, Stays, Same, Good, Session
<1>3. CASE Reveals(m) /\ ~(m.headed \/ ~live)
  <2> DEFINE r == [m EXCEPT !.reveal = "closing", !.context = Closing(m.context)]
  <2>1. MaybeReveal(m, live) = r
    BY <1>3 DEF MaybeReveal, Session
  <2>2. /\ r.id = m.id /\ r.project = m.project /\ r.paused = m.paused /\ r.wake = m.wake
        /\ r.window = m.window /\ r.reveal = "closing" /\ r.context = Closing(m.context)
    BY DEF Session
  <2>3. Closing(m.context) # "on" /\ m.reveal = "no"
    BY <1>3 DEF Closing, Reveals
  <2> HIDE DEF r
  <2> QED BY <2>1, <2>2, <2>3 DEF Stays, Same, Good
<1> QED BY <1>1, <1>2, <1>3

LEMMA BoundaryStays ==
    ASSUME NEW m \in Session
    PROVE  LET r == Boundary(m)
           IN Stays(m, r, TRUE) /\ r.paused = m.paused /\ r.wake = m.wake
<1> DEFINE f == [m EXCEPT !.forced = TRUE]
<1>1. f \in Session /\ f.id = m.id /\ f.project = m.project /\ f.paused = m.paused /\ f.wake = m.wake
      /\ f.window = m.window /\ f.reveal = m.reveal /\ f.context = m.context
  BY DEF Session
<1>2. Boundary(m) = IF m.wanted THEN MaybeReveal(f, TRUE) ELSE m
  BY DEF Boundary
<1> HIDE DEF f
<1>3. CASE m.wanted
  <2>1. Stays(f, MaybeReveal(f, TRUE), TRUE) /\ MaybeReveal(f, TRUE).paused = f.paused
        /\ MaybeReveal(f, TRUE).wake = f.wake
    BY <1>1, MaybeRevealStays
  <2> QED BY <1>1, <1>2, <1>3, <2>1 DEF Stays, Same, Good
<1>4. CASE ~m.wanted
  BY <1>2, <1>4, StaysSame
<1> QED BY <1>3, <1>4

LEMMA DroppedStays ==
    ASSUME NEW m \in Session
    PROVE  LET r == Dropped(m)
           IN Same(m, r) /\ r.wake = Nobody /\ ~r.paused /\ (Good(m, TRUE) => Good(r, FALSE))
<1> DEFINE r == [m EXCEPT !.paused = FALSE, !.wake = Nobody, !.context = Closing(m.context)]
<1>1. Dropped(m) = r
  BY DEF Dropped, Session
<1>2. /\ r.id = m.id /\ r.project = m.project /\ r.paused = FALSE /\ r.wake = Nobody
      /\ r.window = m.window /\ r.reveal = m.reveal /\ r.context = Closing(m.context)
  BY DEF Session
<1>3. Closing(m.context) # "on"
  BY DEF Closing
<1> HIDE DEF r
<1> QED BY <1>1, <1>2, <1>3 DEF Same, Good

LEMMA Alike ==
    ASSUME NEW m, NEW n, NEW live, n.id = m.id, n.project = m.project, n.window = m.window,
           n.reveal = m.reveal, n.context = m.context
    PROVE  Stays(m, n, live)
BY DEF Stays, Same, Good

LEMMA StaysOn ==
    ASSUME NEW m, NEW n, NEW k, NEW live, Stays(m, n, live), Stays(n, k, live)
    PROVE  Stays(m, k, live)
BY DEF Stays, Same

\* The session a call finds under its id is its id's.
LEMMA FoundLive ==
    ASSUME BInv, NEW i \in Ids, sessions[i] # 0
    PROVE  LET s == sessions[i]
           IN s \in DOMAIN made /\ made[s] \in Session /\ Live(s) /\ made[s].id = i
<1>1. sessions[i] \in DOMAIN made /\ made[sessions[i]].id = i
  BY Found DEF BInv, IInv, Owned
<1>2. made[sessions[i]] \in Session
  BY <1>1, Rows DEF BInv, IInv
<1> QED BY <1>1, <1>2 DEF Live

------------------------------------------------------------------------------
(* The steps of a call again.                                              *)

\* A run that opens has an id no other run has, where sessions are not shared.
LEMMA RunIdsOpen ==
    ASSUME RunIds, TypeOK, NEW c \in Callers, NEW i \in Ids, NEW x, x.id = i,
           callers' = [callers EXCEPT ![c] = x],
           c \in Runs => \A r \in Runs : callers[r].id # i
    PROVE  RunIds'
<1>1. \A d \in Callers : callers'[d] = IF d = c THEN x ELSE callers[d]
  BY DEF TypeOK
<1> QED BY <1>1 DEF RunIds, Callers

LEMMA OpenOwns ==
    ASSUME BInv, IInv', NEW c \in Callers, NEW i \in Ids, NEW p \in Projects, NEW h \in BOOLEAN,
           Open(c, i, p, h)
    PROVE  BInv'
<1> DEFINE x == [Idle EXCEPT !.pc = "joining", !.id = i]
           y == [Idle EXCEPT !.pc = "launching", !.id = i, !.project = p, !.headed = h]
<1>1. /\ callers[c].pc = "off" /\ UNCHANGED <<sessions, made>>
      /\ c \in Runs /\ ~Shared => \A r \in Runs : callers[r].id # i
      /\ \/ callers' = [callers EXCEPT ![c] = x] /\ UNCHANGED projects
         \/ /\ callers' = [callers EXCEPT ![c] = y] /\ projects' = [projects EXCEPT ![p] = i]
            /\ sessions[i] = 0 /\ projects[p] = Nobody
  BY DEF Open
<1>2. /\ x.pc = "joining" /\ x.id = i
      /\ y.pc = "launching" /\ y.id = i /\ y.project = p
  BY DEF Idle
<1> HIDE DEF x, y
<1>3. PICK z \in {x, y} :
         /\ callers' = [callers EXCEPT ![c] = z]
         /\ \/ z = x /\ UNCHANGED projects
            \/ z = y /\ projects' = [projects EXCEPT ![p] = i] /\ sessions[i] = 0 /\ projects[p] = Nobody
  BY <1>1
<1>4. \A d \in Callers : callers'[d] = IF d = c THEN z ELSE callers[d]
  BY <1>3 DEF BInv, IInv, TypeOK
<1>5. ASSUME ~Shared PROVE Holds'
  <2>1. RunIds'
    <3>1. z.id = i
      BY <1>2, <1>3
    <3> QED BY <1>1, <1>3, <1>5, <3>1, RunIdsOpen DEF BInv, IInv, Holds
  <2>2. ASSUME NEW d \in Callers PROVE HeldWell(d)'
    <3>1. HeldWell(d) /\ (callers'[d].pc = "held" => callers'[d] = callers[d])
      BY <1>2, <1>3, <1>4, <1>5 DEF BInv, Holds
    <3> QED BY <1>1, <3>1, StaysHeld DEF BInv, IInv
  <2> QED BY <2>1, <2>2 DEF Holds
<1>6. \A s \in DOMAIN made : Live(s)' = Live(s)
  BY <1>1 DEF Live
<1>7. CASE z = x /\ UNCHANGED projects
  <2>1. \A d \in Callers : Opening(d)' <=> Opening(d)
    BY <1>1, <1>2, <1>4, <1>7 DEF Opening
  <2>2. \A d \in Callers : Opening(d) => callers'[d] = callers[d]
    BY <1>1, <1>4 DEF Opening
  <2>3. Owned'
    BY <1>1, <1>3, <1>6, <1>7, <2>1, <2>2 DEF Owned, BInv
  <2>4. ASSUME ~PageFails PROVE Matched'
    BY <1>1, <1>3, <1>6, <1>7, <2>1, <2>2, <2>4 DEF Matched, Accounted, BInv
  <2> QED BY <1>5, <2>3, <2>4 DEF BInv
<1>8. CASE z = y /\ projects' = [projects EXCEPT ![p] = i] /\ sessions[i] = 0 /\ projects[p] = Nobody
  <2>0. \A d \in Callers : callers'[d] = IF d = c THEN y ELSE callers[d]
    BY <1>4, <1>8
  <2>1. \A q \in Projects : projects'[q] = IF q = p THEN i ELSE projects[q]
    BY <1>8 DEF BInv, IInv, TypeOK
  <2>2. ASSUME NEW d \in Callers, Opening(d)
        PROVE  /\ d # c /\ callers[d].project # p /\ callers[d].project \in Projects
               /\ callers'[d] = callers[d]
    <3>1. d # c /\ callers[d].project \in Projects /\ callers[d].id # Nobody
      BY <1>1, <2>2, OpeningIs DEF BInv, Opening
    <3>2. projects[callers[d].project] = callers[d].id
      BY <2>2 DEF BInv, Owned
    <3> QED BY <1>8, <2>0, <3>1, <3>2
  <2>3. \A d \in Callers : Opening(d)' <=> Opening(d) \/ d = c
    BY <1>2, <2>0 DEF Opening
  <2>4. ASSUME NEW s \in DOMAIN made, Live(s)
        PROVE  made[s].project # p /\ made[s].project \in Projects
    <3>1. made[s].id # Nobody /\ made[s].project \in Projects
      BY LiveIs DEF BInv, IInv
    <3>2. projects[made[s].project] = made[s].id
      BY <2>4 DEF BInv, Owned
    <3> QED BY <1>8, <3>1, <3>2
  <2>5. callers'[c] = y
    BY <2>0
  <2>6. Owned'
    <3>1. ASSUME NEW d \in Callers, Opening(d)'
          PROVE  projects'[callers'[d].project] = callers'[d].id /\ sessions'[callers'[d].id] = 0
      <4>1. CASE d = c
        BY <1>1, <1>2, <1>8, <2>1, <2>5, <4>1
      <4>2. CASE d # c
        <5>1. Opening(d) /\ projects[callers[d].project] = callers[d].id /\ sessions[callers[d].id] = 0
          BY <2>3, <3>1, <4>2 DEF BInv, Owned
        <5> QED BY <1>1, <2>1, <2>2, <5>1
      <4> QED BY <4>1, <4>2
    <3>2. ASSUME NEW d \in Callers, NEW e \in Callers, Opening(d)', Opening(e)',
                 callers'[d].project = callers'[e].project
          PROVE  d = e
      BY <1>2, <2>2, <2>3, <2>5, <3>2 DEF BInv, Owned
    <3>3. ASSUME NEW s \in DOMAIN made', Live(s)' PROVE projects'[made'[s].project] = made'[s].id
      <4>1. s \in DOMAIN made /\ Live(s) /\ made' = made
        BY <1>1, <1>6, <3>3
      <4>2. projects[made[s].project] = made[s].id
        BY <4>1 DEF BInv, Owned
      <4> QED BY <2>1, <2>4, <4>1, <4>2
    <3>4. \A j \in Ids : sessions'[j] # 0 => made'[sessions'[j]].id = j
      BY <1>1 DEF BInv, Owned
    <3> QED BY <3>1, <3>2, <3>3, <3>4 DEF Owned
  <2>7. ASSUME ~PageFails PROVE Matched'
    <3>1. ASSUME NEW q \in Projects PROVE Accounted(q)'
      <4>1. CASE q = p
        BY <1>2, <2>1, <2>3, <2>5, <4>1 DEF Accounted
      <4>2. CASE q # p
        <5>1. Accounted(q)
          BY <2>7 DEF BInv, Matched
        <5>2. projects'[q] = projects[q]
          BY <2>1, <4>2
        <5>3. CASE \E s \in DOMAIN made : Live(s) /\ made[s].project = q
          BY <1>1, <1>6, <5>3 DEF Accounted
        <5>4. CASE \E d \in Callers : Opening(d) /\ callers[d].project = q /\ callers[d].id = projects[q]
          BY <2>2, <2>3, <5>2, <5>4 DEF Accounted
        <5> QED BY <5>1, <5>2, <5>3, <5>4 DEF Accounted
      <4> QED BY <4>1, <4>2
    <3>2. \A s \in DOMAIN made' : Good(made'[s], Live(s)')
      BY <1>1, <1>6, <2>7 DEF BInv, Matched
    <3> QED BY <3>1, <3>2 DEF Matched
  <2> QED BY <1>5, <2>6, <2>7 DEF BInv
<1> QED BY <1>3, <1>7, <1>8

\* A browser on its way has its project to itself.
LEMMA HasItsProject ==
    ASSUME BInv, NEW c \in Callers, Opening(c)
    PROVE  /\ \A d \in Callers : Opening(d) /\ d # c => callers[d].project # callers[c].project
           /\ \A s \in DOMAIN made : Live(s) => made[s].project # callers[c].project
<1>1. /\ projects[callers[c].project] = callers[c].id /\ sessions[callers[c].id] = 0
      /\ callers[c].id \in Ids
  BY OpeningIs DEF BInv, Owned
<1>2. ASSUME NEW s \in DOMAIN made, Live(s), made[s].project = callers[c].project PROVE FALSE
  <2>1. projects[made[s].project] = made[s].id
    BY <1>2 DEF BInv, Owned
  <2> QED BY <1>1, <1>2, <2>1, LiveIs DEF Live, BInv, IInv
<1> QED BY <1>2 DEF BInv, Owned

LEMMA FailedSame ==
    ASSUME NEW c \in Callers
    PROVE  Failed(c).pc \in {"ended", "done", "off"} /\ Failed(c).id \in {callers[c].id, Nobody}
BY DEF Failed, Idle, Done

LEMMA LaunchEndsOwns ==
    ASSUME BInv, IInv', NEW c \in Callers, LaunchEnds(c)
    PROVE  BInv'
<1> DEFINE x == [callers[c] EXCEPT !.pc = "binding"]
           y == Failed(c)
           p == callers[c].project
<1>1. /\ callers[c].pc = "launching" /\ UNCHANGED <<sessions, made>>
      /\ \/ callers' = [callers EXCEPT ![c] = x] /\ UNCHANGED projects
         \/ callers' = [callers EXCEPT ![c] = y] /\ projects' = [projects EXCEPT ![p] = Nobody]
  BY DEF LaunchEnds, At
<1>2. callers[c] \in Call
  BY DEF BInv, IInv, TypeOK
<1>3. x.pc = "binding" /\ x.id = callers[c].id /\ x.project = p
  BY <1>2 DEF Call
<1>4. y.pc \in {"ended", "done", "off"} /\ y.id \in {callers[c].id, Nobody}
  BY FailedSame
<1>5. PICK z \in {x, y} :
         /\ callers' = [callers EXCEPT ![c] = z]
         /\ \/ z = x /\ UNCHANGED projects
            \/ z = y /\ projects' = [projects EXCEPT ![p] = Nobody]
  BY <1>1
<1> HIDE DEF x, y
<1>6. \A d \in Callers : callers'[d] = IF d = c THEN z ELSE callers[d]
  BY <1>5 DEF BInv, IInv, TypeOK
<1>7. ASSUME ~Shared, NEW d \in Callers PROVE HeldWell(d)'
  <2>1. HeldWell(d) /\ (callers'[d].pc = "held" => callers'[d] = callers[d])
    BY <1>3, <1>4, <1>5, <1>6, <1>7 DEF BInv, Holds
  <2> QED BY <1>1, <2>1, StaysHeld DEF BInv, IInv
<1>8. CASE z = x /\ UNCHANGED projects
  <2>1. \A d \in Callers : SameCall(d)
    BY <1>1, <1>3, <1>6, <1>8 DEF SameCall, Opening
  <2>2. \A t \in DOMAIN made : Stays(made[t], made'[t], Live(t))
    BY <1>1, StaysSame
  <2> QED BY <1>1, <1>7, <1>8, <2>1, <2>2, SitsStill
<1>9. CASE z = y /\ projects' = [projects EXCEPT ![p] = Nobody]
  <2>1. Opening(c) /\ p \in Projects
    BY <1>1, OpeningIs DEF Opening, BInv
  <2>2. \A q \in Projects : projects'[q] = IF q = p THEN Nobody ELSE projects[q]
    BY <1>9 DEF BInv, IInv, TypeOK
  <2>3. ASSUME NEW d \in Callers
        PROVE  /\ Opening(d)' <=> Opening(d) /\ d # c
               /\ Opening(d)' => /\ callers'[d] = callers[d] /\ callers[d].project # p
                                 /\ callers[d].project \in Projects
    <3>1. Opening(d)' <=> Opening(d) /\ d # c
      BY <1>4, <1>6, <1>9 DEF Opening
    <3> QED BY <1>6, <2>1, <3>1, HasItsProject, OpeningIs DEF BInv
  <2>4. ASSUME NEW s \in DOMAIN made
        PROVE  Live(s)' = Live(s) /\ (Live(s) => made[s].project # p /\ made[s].project \in Projects)
    <3>1. Live(s)' = Live(s)
      BY <1>1 DEF Live
    <3> QED BY <2>1, <3>1, HasItsProject, LiveIs DEF BInv, IInv
  <2> HIDE DEF p
  <2>5. Owned'
    <3>1. ASSUME NEW d \in Callers, Opening(d)'
          PROVE  projects'[callers'[d].project] = callers'[d].id /\ sessions'[callers'[d].id] = 0
      <4>1. projects[callers[d].project] = callers[d].id /\ sessions[callers[d].id] = 0
        BY <2>3, <3>1 DEF BInv, Owned
      <4> QED BY <1>1, <2>2, <2>3, <3>1, <4>1
    <3>2. ASSUME NEW d \in Callers, NEW e \in Callers, Opening(d)', Opening(e)',
                 callers'[d].project = callers'[e].project
          PROVE  d = e
      BY <2>3, <3>2 DEF BInv, Owned
    <3>3. ASSUME NEW s \in DOMAIN made', Live(s)' PROVE projects'[made'[s].project] = made'[s].id
      <4>1. s \in DOMAIN made /\ Live(s) /\ made' = made /\ made[s].project # p
            /\ made[s].project \in Projects
        BY <1>1, <2>4, <3>3
      <4>2. projects[made[s].project] = made[s].id
        BY <4>1 DEF BInv, Owned
      <4> QED BY <2>2, <4>1, <4>2
    <3>4. \A j \in Ids : sessions'[j] # 0 => made'[sessions'[j]].id = j
      BY <1>1 DEF BInv, Owned
    <3> QED BY <3>1, <3>2, <3>3, <3>4 DEF Owned
  <2>6. ASSUME ~PageFails PROVE Matched'
    <3>1. ASSUME NEW q \in Projects PROVE Accounted(q)'
      <4>1. SUFFICES ASSUME projects'[q] # Nobody PROVE Accounted(q)'
        BY DEF Accounted
      <4>2. q # p /\ projects'[q] = projects[q]
        BY <2>2, <4>1
      <4>3. Accounted(q)
        BY <2>6 DEF BInv, Matched
      <4>4. CASE \E s \in DOMAIN made : Live(s) /\ made[s].project = q
        BY <1>1, <2>4, <4>4 DEF Accounted
      <4>5. CASE \E d \in Callers : Opening(d) /\ callers[d].project = q /\ callers[d].id = projects[q]
        <5>1. PICK d \in Callers : Opening(d) /\ callers[d].project = q /\ callers[d].id = projects[q]
          BY <4>5
        <5>2. d # c
          BY <4>2, <5>1 DEF p
        <5>3. Opening(d)' /\ callers'[d] = callers[d]
          BY <2>3, <5>1, <5>2
        <5> QED BY <4>2, <5>1, <5>3 DEF Accounted
      <4> QED BY <4>1, <4>2, <4>3, <4>4, <4>5 DEF Accounted
    <3>2. \A s \in DOMAIN made' : Good(made'[s], Live(s)')
      BY <1>1, <2>4, <2>6 DEF BInv, Matched
    <3> QED BY <3>1, <3>2 DEF Matched
  <2>7. ASSUME ~Shared PROVE Holds'
    <3>1. RunIds'
      <4>1. \A d \in Callers : callers'[d].id \in {callers[d].id, Nobody}
        BY <1>4, <1>6, <1>9
      <4> QED BY <2>7, <4>1 DEF RunIds, Callers, BInv, Holds
    <3> QED BY <1>7, <2>7, <3>1 DEF Holds
  <2> QED BY <2>5, <2>6, <2>7 DEF BInv
<1> QED BY <1>5, <1>8, <1>9

\* The session of the browser that was on its way is its id's first since, and
\* takes the project over from it.
LEMMA BindEndsOwns ==
    ASSUME BInv, IInv', OneProjectAnId, NEW c \in Callers, BindEnds(c)
    PROVE  BInv'
<1> DEFINE n == Len(made) + 1
           i == callers[c].id
           p == callers[c].project
           x == [Idle EXCEPT !.pc = "joining", !.id = i]
           y == Failed(c)
           new == NewSession(c)
<1>1. /\ callers[c].pc = "binding" /\ made' = Append(made, new) /\ UNCHANGED projects
      /\ \/ sessions' = [sessions EXCEPT ![i] = n] /\ callers' = [callers EXCEPT ![c] = x]
         \/ PageFails /\ callers' = [callers EXCEPT ![c] = y] /\ UNCHANGED sessions
  BY DEF BindEnds
<1>2. /\ Opening(c) /\ i \in Ids /\ p \in Projects /\ projects[p] = i /\ sessions[i] = 0
  BY <1>1, OpeningIs DEF Opening, BInv, Owned
<1>3. /\ new.id = i /\ new.project = p /\ new.reveal = "no" /\ new.window = "off"
      /\ new.context = "on"
  BY DEF NewSession
<1>4. /\ Len(made) \in Nat /\ DOMAIN made' = DOMAIN made \cup {n} /\ n \notin DOMAIN made
      /\ made'[n] = new /\ \A t \in DOMAIN made : made'[t] = made[t]
  <2> HIDE DEF new
  <2> QED BY <1>1 DEF BInv, IInv, TypeOK
<1>5. x.pc = "joining" /\ x.id = i
  BY DEF Idle
<1>6. y.pc \in {"ended", "done", "off"} /\ y.id \in {i, Nobody}
  BY FailedSame
<1> HIDE DEF new, x, y
<1>7. PICK z \in {x, y} :
         /\ callers' = [callers EXCEPT ![c] = z]
         /\ \/ z = x /\ sessions' = [sessions EXCEPT ![i] = n]
            \/ z = y /\ PageFails /\ UNCHANGED sessions
  BY <1>1
<1>8. \A d \in Callers : callers'[d] = IF d = c THEN z ELSE callers[d]
  BY <1>7 DEF BInv, IInv, TypeOK
<1>9. z.pc \notin {"launching", "binding", "held"} /\ z.id \in {i, Nobody}
  BY <1>5, <1>6, <1>7
<1>10. /\ \A j \in Ids : sessions'[j] \in {sessions[j], n} /\ (j # i => sessions'[j] = sessions[j])
       /\ \A j \in Ids : sessions[j] # n /\ sessions[j] \in Nat
  <2>1. \A j \in Ids : sessions[j] # n /\ sessions[j] \in Nat
    BY <1>4 DEF BInv, IInv, TypeOK
  <2>2. \A j \in Ids : [sessions EXCEPT ![i] = n][j] = IF j = i THEN n ELSE sessions[j]
    BY DEF BInv, IInv, TypeOK
  <2> QED BY <1>7, <2>1, <2>2
<1> HIDE DEF n, i, p
<1>11. ASSUME NEW d \in Callers
       PROVE  /\ Opening(d)' <=> Opening(d) /\ d # c
              /\ Opening(d)' => callers'[d] = callers[d] /\ callers[d].id # i /\ callers[d].id \in Ids
  <2>1. Opening(d)' <=> Opening(d) /\ d # c
    BY <1>8, <1>9 DEF Opening
  <2>2. ASSUME Opening(d), d # c PROVE callers[d].id # i
    <3>1. callers[d].project # callers[c].project
      BY <1>2, <2>2, HasItsProject
    <3> QED BY <1>2, <2>2, <3>1 DEF OneProjectAnId, i
  <2> QED BY <1>8, <2>1, <2>2, OpeningIs DEF BInv
<1>12. ASSUME NEW s \in DOMAIN made PROVE Live(s)' = Live(s) /\ (Live(s) => made[s].id # i)
  <2>1. made[s].id \in Ids /\ s # 0 /\ s # n
    BY <1>4, LiveIs DEF BInv, IInv
  <2>2. Live(s) => made[s].id # i
    BY <1>2, <2>1 DEF Live
  <2>3. made'[s].id = made[s].id
    BY <1>4
  <2>4. sessions'[made[s].id] = s <=> sessions[made[s].id] = s
    BY <1>2, <1>10, <2>1
  <2> QED BY <2>2, <2>3, <2>4 DEF Live
<1>13. Owned'
  <2>1. ASSUME NEW j \in Ids, sessions'[j] # 0 PROVE made'[sessions'[j]].id = j
    <3>1. CASE sessions'[j] = n
      <4>1. j = i
        BY <1>10, <3>1
      <4> QED BY <1>3, <1>4, <3>1, <4>1
    <3>2. CASE sessions'[j] = sessions[j]
      <4>1. sessions[j] \in DOMAIN made /\ made[sessions[j]].id = j
        BY <2>1, <3>2, FoundLive
      <4> QED BY <1>4, <3>2, <4>1
    <3> QED BY <1>10, <3>1, <3>2
  <2>2. ASSUME NEW d \in Callers, Opening(d)'
        PROVE  projects'[callers'[d].project] = callers'[d].id /\ sessions'[callers'[d].id] = 0
    <3>1. projects[callers[d].project] = callers[d].id /\ sessions[callers[d].id] = 0
      BY <1>11, <2>2 DEF BInv, Owned
    <3> QED BY <1>1, <1>10, <1>11, <2>2, <3>1
  <2>3. ASSUME NEW d \in Callers, NEW e \in Callers, Opening(d)', Opening(e)',
               callers'[d].project = callers'[e].project
        PROVE  d = e
    BY <1>11, <2>3 DEF BInv, Owned
  <2>4. ASSUME NEW s \in DOMAIN made', Live(s)' PROVE projects'[made'[s].project] = made'[s].id
    <3>1. CASE s = n
      BY <1>1, <1>2, <1>3, <1>4, <3>1
    <3>2. CASE s \in DOMAIN made
      BY <1>1, <1>4, <1>12, <2>4, <3>2 DEF BInv, Owned
    <3> QED BY <1>4, <3>1, <3>2
  <2> QED BY <2>1, <2>2, <2>3, <2>4 DEF Owned
<1>14. ASSUME ~PageFails PROVE Matched'
  <2>1. n \in DOMAIN made' /\ sessions'[made'[n].id] = n /\ made'[n] = new
    <3>1. sessions' = [sessions EXCEPT ![i] = n]
      BY <1>7, <1>14
    <3>2. sessions'[i] = n
      BY <1>2, <3>1 DEF BInv, IInv, TypeOK
    <3> QED BY <1>3, <1>4, <3>2
  <2>2. ASSUME NEW s \in DOMAIN made' PROVE Good(made'[s], Live(s)')
    <3>1. CASE s = n
      <4>1. Live(s)' = TRUE
        BY <2>1, <3>1 DEF Live
      <4> QED BY <1>3, <1>4, <3>1, <4>1 DEF Good
    <3>2. CASE s \in DOMAIN made
      BY <1>4, <1>12, <1>14, <3>2 DEF BInv, Matched
    <3> QED BY <1>4, <3>1, <3>2
  <2>3. ASSUME NEW q \in Projects PROVE Accounted(q)'
    <3>1. CASE q = p
      <4>1. \E s \in DOMAIN made' : sessions'[made'[s].id] = s /\ made'[s].project = q
        BY <1>3, <2>1, <3>1
      <4> QED BY <4>1 DEF Accounted, Live
    <3>2. CASE q # p
      <4>1. Accounted(q)
        BY <1>14 DEF BInv, Matched
      <4>2. CASE \E s \in DOMAIN made : Live(s) /\ made[s].project = q
        BY <1>4, <1>12, <4>2 DEF Accounted
      <4>3. CASE \E d \in Callers : Opening(d) /\ callers[d].project = q /\ callers[d].id = projects[q]
        <5>1. PICK d \in Callers : Opening(d) /\ callers[d].project = q /\ callers[d].id = projects[q]
          BY <4>3
        <5>2. d # c
          BY <3>2, <5>1 DEF p
        <5> QED BY <1>1, <1>11, <5>1, <5>2 DEF Accounted
      <4> QED BY <1>1, <4>1, <4>2, <4>3 DEF Accounted
    <3> QED BY <3>1, <3>2
  <2> QED BY <2>2, <2>3 DEF Matched
<1>15. ASSUME ~Shared PROVE Holds'
  <2>1. RunIds'
    <3>1. \A d \in Callers : callers'[d].id \in {callers[d].id, Nobody}
      BY <1>8, <1>9 DEF i
    <3> QED BY <1>15, <3>1 DEF RunIds, Callers, BInv, Holds
  <2>2. ASSUME NEW d \in Callers PROVE HeldWell(d)'
    <3>1. HeldWell(d) /\ (callers'[d].pc = "held" => callers'[d] = callers[d])
      BY <1>8, <1>9, <1>15 DEF BInv, Holds
    <3>2. callers[d].pc = "held" =>
             /\ sessions'[callers[d].id] = sessions[callers[d].id]
             /\ made'[callers[d].on] = made[callers[d].on]
      <4>1. SUFFICES ASSUME callers[d].pc = "held"
                     PROVE  /\ sessions'[callers[d].id] = sessions[callers[d].id]
                            /\ made'[callers[d].on] = made[callers[d].on]
        OBVIOUS
      <4>2. callers[d].on \in DOMAIN made /\ callers[d].on # 0 /\ callers[d].id \in Ids
        BY <3>1, <4>1, HeldIs DEF BInv, IInv
      <4>3. sessions[callers[d].id] # 0
        BY <3>1, <4>1, <4>2 DEF HeldWell
      <4> QED BY <1>2, <1>4, <1>10, <4>2, <4>3
    <3> QED BY <3>1, <3>2, StaysHeld DEF BInv, IInv
  <2> QED BY <2>1, <2>2 DEF Holds
<1> QED BY <1>13, <1>14, <1>15 DEF BInv

LEMMA JoinedOwns ==
    ASSUME BInv, IInv', NEW c \in Callers, Joined(c)
    PROVE  BInv'
<1> DEFINE s == sessions[callers[c].id]
           x == Between(callers[c], MaxSteps)
           m == [made[s] EXCEPT !.runActive = @ + 1]
<1>1. /\ callers[c].pc = "joining" /\ UNCHANGED <<sessions, projects>>
      /\ \/ callers' = [callers EXCEPT ![c] = x]
            /\ \/ UNCHANGED made
               \/ s # 0 /\ made' = [made EXCEPT ![s] = m]
         \/ callers' = [callers EXCEPT ![c] = Idle] /\ UNCHANGED made
  BY DEF Joined, BInv, IInv, TypeOK, Between
<1>2. callers[c] \in Call /\ callers[c].id \in Ids
  BY <1>1 DEF BInv, IInv, TypeOK, Fits, Fit
<1>3. x.pc = "between" /\ x.id = callers[c].id
  BY <1>2 DEF Call, Between
<1>4. Idle.pc = "off" /\ Idle.id = Nobody
  BY DEF Idle
<1> HIDE DEF x
<1>5. CASE UNCHANGED made
  BY <1>1, <1>3, <1>4, <1>5, GoingAlone
<1>6. CASE s # 0 /\ made' = [made EXCEPT ![s] = m] /\ callers' = [callers EXCEPT ![c] = x]
  <2>1. s \in DOMAIN made /\ made[s] \in Session
    BY <1>2, <1>6, FoundLive
  <2> HIDE DEF s
  <2>2. /\ m \in Session /\ m.id = made[s].id /\ m.project = made[s].project
        /\ m.window = made[s].window /\ m.reveal = made[s].reveal /\ m.context = made[s].context
        /\ m.wake = made[s].wake /\ m.paused = made[s].paused
    BY <2>1 DEF Session
  <2> HIDE DEF m
  <2>3. Stays(made[s], m, Live(s))
    BY <2>2, Alike
  <2> QED BY <1>1, <1>3, <1>6, <2>1, <2>2, <2>3, Rewrites
<1> QED BY <1>1, <1>5, <1>6

LEMMA PageCallOwns ==
    ASSUME BInv, IInv', NEW c \in Callers, NEW s \in DOMAIN made, NEW m \in Session,
           callers[c].pc \notin {"launching", "binding", "held"},
           Stays(made[s], m, Live(s)), m.wake = made[s].wake, m.paused = made[s].paused,
           PageCall(c, s, m), UNCHANGED <<sessions, projects>>
    PROVE  BInv'
<1> DEFINE pc == IF m.reveal # "no" THEN "waiting" ELSE "call"
           x == [callers[c] EXCEPT !.pc = pc, !.on = s, !.left = IF c \in Runs THEN @ - 1 ELSE @]
           k == [m EXCEPT !.inflight = @ + 1]
           n == IF m.reveal # "no" THEN m ELSE k
<1>1. callers' = [callers EXCEPT ![c] = x] /\ made' = [made EXCEPT ![s] = n]
  BY DEF PageCall, BInv, IInv, TypeOK
<1>2. x.pc = pc /\ x.id = callers[c].id
  BY DEF BInv, IInv, TypeOK, Call
<1>3. /\ k \in Session /\ k.id = m.id /\ k.project = m.project
      /\ k.window = m.window /\ k.reveal = m.reveal /\ k.context = m.context
      /\ k.wake = m.wake /\ k.paused = m.paused
  BY DEF Session
<1> HIDE DEF k, x
<1>4. n \in Session /\ Stays(made[s], n, Live(s)) /\ n.wake = made[s].wake /\ n.paused = made[s].paused
  BY <1>3, Alike, StaysOn
<1> HIDE DEF n
<1> QED BY <1>1, <1>2, <1>4, Rewrites

LEMMA ViewOwns ==
    ASSUME BInv, IInv', NEW c \in Callers, NEW i \in Ids, View(c, i)
    PROVE  BInv'
<1> DEFINE s == sessions[i]
<1>1. callers[c].pc = "off" /\ s # 0 /\ PageCall(c, s, made[s]) /\ UNCHANGED <<sessions, projects>>
  BY DEF View
<1>2. s \in DOMAIN made /\ made[s] \in Session
  BY <1>1, FoundLive
<1> HIDE DEF s
<1> QED BY <1>1, <1>2, StaysSame, PageCallOwns

LEMMA NoSessionOwns ==
    ASSUME BInv, IInv', NEW c \in Callers, NoSession(c), UNCHANGED <<sessions, projects>>,
           callers[c].pc \in {"between", "looping"}
    PROVE  BInv'
<1> DEFINE x == Between(callers[c], callers[c].left - 1)
<1>1. callers' = [callers EXCEPT ![c] = x] /\ UNCHANGED made
  BY DEF NoSession, BInv, IInv, TypeOK, Between
<1>2. x.pc = "between" /\ x.id = callers[c].id
  BY DEF BInv, IInv, TypeOK, Call, Between
<1> HIDE DEF x
<1> QED BY <1>1, <1>2, GoingAlone

LEMMA CaptureOwns ==
    ASSUME BInv, IInv', NEW c \in Callers, Capture(c)
    PROVE  BInv'
<1> DEFINE s == sessions[callers[c].id]
<1>1. /\ callers[c].pc = "between" /\ UNCHANGED <<sessions, projects>>
      /\ NoSession(c) \/ (s # 0 /\ PageCall(c, s, made[s]))
  BY DEF Capture
<1>2. callers[c].id \in Ids
  BY <1>1 DEF BInv, IInv, Fits, Fit
<1>3. CASE s # 0 /\ PageCall(c, s, made[s])
  <2>1. s \in DOMAIN made /\ made[s] \in Session
    BY <1>2, <1>3, FoundLive
  <2> HIDE DEF s
  <2> QED BY <1>1, <1>3, <2>1, StaysSame, PageCallOwns
<1> QED BY <1>1, <1>3, NoSessionOwns

\* A run that is held is its session's only one: any other that it held would
\* have the same id.
LEMMA StepHolds ==
    ASSUME BInv, IInv', ~Shared, NEW c \in Callers, NEW m \in Session, NEW x,
           c \in Runs, callers[c].id \in Ids, callers[c].pc # "held", sessions[callers[c].id] # 0,
           callers' = [callers EXCEPT ![c] = x],
           x.pc = "held", x.on = sessions[callers[c].id], x.id = callers[c].id,
           m.paused, m.wake = c, UNCHANGED sessions,
           made' = [made EXCEPT ![sessions[callers[c].id]] = m],
           NEW d \in Callers
    PROVE  HeldWell(d)'
<1> DEFINE s == sessions[callers[c].id]
<1>1. s \in DOMAIN made
  BY FoundLive
<1>2. callers'[d] = IF d = c THEN x ELSE callers[d]
  BY DEF BInv, IInv, TypeOK
<1>3. made'[s] = m /\ \A t \in DOMAIN made : t # s => made'[t] = made[t]
  BY <1>1, Writing DEF BInv, IInv, TypeOK
<1>4. CASE d = c
  BY <1>2, <1>3, <1>4 DEF HeldWell
<1>5. CASE d # c
  <2>1. HeldWell(d) /\ TypeOK /\ RunIds
    BY DEF BInv, IInv, Holds
  <2>2. callers[d].pc = "held" => callers[d].on # s
    <3>1. SUFFICES ASSUME callers[d].pc = "held", callers[d].on = s PROVE FALSE
      OBVIOUS
    <3>2. callers[d].id \in Ids /\ d \in Runs /\ sessions[callers[d].id] = s /\ s # 0
      BY <2>1, <3>1 DEF HeldWell
    <3>3. callers[d].id = callers[c].id
      BY <3>2, FoundLive
    <3>4. callers[d].id # Nobody
      BY <3>2, BrowserAssumption DEF Nobody
    <3> QED BY <1>5, <2>1, <3>2, <3>3, <3>4 DEF RunIds
  <2>3. callers[d].pc = "held" => callers[d].on \in DOMAIN made
    BY <2>1, HeldIs
  <2> QED BY <1>2, <1>3, <1>5, <2>1, <2>2, <2>3, StaysHeld
<1> QED BY <1>4, <1>5

LEMMA StepOwns ==
    ASSUME BInv, IInv', NEW c \in Callers, Step(c)
    PROVE  BInv'
<1> DEFINE s == sessions[callers[c].id]
           m == Boundary(made[s])
           x == Moved(callers[c], "revealing", s)
           y == Moved(callers[c], "held", s)
           n == [m EXCEPT !.wake = c]
<1>1. /\ c \in Recipes /\ callers[c].pc \in {"between", "looping"}
      /\ UNCHANGED <<sessions, projects>>
  BY DEF Step
<1>2. \/ NoSession(c)
      \/ /\ s # 0
         /\ callers' = [callers EXCEPT ![c] = x] /\ made' = [made EXCEPT ![s] = m]
      \/ /\ s # 0 /\ m.paused
         /\ callers' = [callers EXCEPT ![c] = y] /\ made' = [made EXCEPT ![s] = n]
      \/ s # 0 /\ PageCall(c, s, m)
  BY DEF Step, BInv, IInv, TypeOK, Moved
<1>3. callers[c] \in Call /\ callers[c].id \in Ids /\ c \in Runs
  BY <1>1 DEF BInv, IInv, TypeOK, Fits, Fit, Runs
<1>4. CASE NoSession(c)
  BY <1>1, <1>4, NoSessionOwns
<1>5. CASE s # 0
  <2>1. s \in DOMAIN made /\ made[s] \in Session /\ Live(s) = TRUE
    <3>1. s \in DOMAIN made /\ made[s] \in Session /\ Live(s)
      BY <1>3, <1>5, FoundLive
    <3> QED BY <3>1 DEF Live
  <2>2. m \in Session /\ Stays(made[s], m, Live(s)) /\ m.paused = made[s].paused /\ m.wake = made[s].wake
    BY <2>1, BoundaryIs, BoundaryStays
  <2>3. x.pc = "revealing" /\ x.id = callers[c].id
        /\ y.pc = "held" /\ y.on = s /\ y.id = callers[c].id
    <3> HIDE DEF s
    <3> QED BY <1>3 DEF Moved, Call
  <2>4. /\ n \in Session /\ n.id = m.id /\ n.project = m.project /\ n.window = m.window
        /\ n.reveal = m.reveal /\ n.context = m.context /\ n.paused = m.paused /\ n.wake = c
    <3> HIDE DEF m
    <3> QED BY <1>3, <2>2 DEF Session
  <2> HIDE DEF m, n, x, y
  <2>5. Stays(made[s], n, Live(s))
    BY <2>2, <2>4, Alike, StaysOn
  <2>6. CASE callers' = [callers EXCEPT ![c] = x] /\ made' = [made EXCEPT ![s] = m]
    <3> HIDE DEF s
    <3> QED BY <1>1, <2>1, <2>2, <2>3, <2>6, Rewrites
  <2>7. CASE m.paused /\ callers' = [callers EXCEPT ![c] = y] /\ made' = [made EXCEPT ![s] = n]
    <3>1. /\ DOMAIN made' = DOMAIN made
          /\ \A t \in DOMAIN made : Stays(made[t], made'[t], Live(t))
      <4> HIDE DEF s
      <4> QED BY <2>1, <2>4, <2>5, <2>7, OneRow DEF BInv, IInv
    <3>2. ASSUME NEW d \in Callers PROVE SameCall(d)
      <4>1. callers'[d] = IF d = c THEN y ELSE callers[d]
        BY <2>7 DEF BInv, IInv, TypeOK
      <4> QED BY <1>1, <2>3, <4>1 DEF SameCall, Opening
    <3>3. ~Shared => \A d \in Callers : HeldWell(d)'
      BY <1>1, <1>3, <1>5, <2>3, <2>4, <2>7, StepHolds
    <3> QED BY <1>1, <3>1, <3>2, <3>3, SitsStill
  <2>8. CASE PageCall(c, s, m)
    <3> HIDE DEF s
    <3> QED BY <1>1, <2>1, <2>2, <2>8, PageCallOwns
  <2> QED BY <1>2, <1>4, <2>6, <2>7, <2>8
<1> QED BY <1>2, <1>4, <1>5

LEMMA OverSame ==
    ASSUME TypeOK, NEW c \in Callers
    PROVE  Over(c).pc \in {"between", "off"} /\ (c \in Runs => Over(c).id = callers[c].id)
BY OverIs

LEMMA CallEndsOwns ==
    ASSUME BInv, IInv', NEW c \in Callers, CallEnds(c)
    PROVE  BInv'
<1>0. PICK s \in DOMAIN made : s = callers[c].on
  BY DEF CallEnds, BInv, IInv, Held
<1> DEFINE n == [made[s] EXCEPT !.inflight = @ - 1]
           m == MaybeReveal(n, Live(s))
<1>1. callers[c].pc = "call" /\ callers' = [callers EXCEPT ![c] = Over(c)]
      /\ made' = [made EXCEPT ![s] = m] /\ UNCHANGED <<sessions, projects>>
  BY <1>0 DEF CallEnds
<1>2. made[s] \in Session /\ made[s].inflight > 0
  <2>1. c \in Awaiting(s, "call") /\ IsFiniteSet(Awaiting(s, "call"))
        /\ Cardinality(Awaiting(s, "call")) \in Nat
    <3>1. c \in Awaiting(s, "call")
      BY <1>0, <1>1 DEF Awaiting
    <3> QED BY <3>1, AwaitingIsFinite
  <2>2. Cardinality(Awaiting(s, "call")) # 0
    BY <2>1, FS_EmptySet
  <2> QED BY <2>1, <2>2, Rows DEF BInv, IInv, Counts
<1>3. /\ n \in Session /\ n.id = made[s].id /\ n.project = made[s].project
      /\ n.window = made[s].window /\ n.reveal = made[s].reveal /\ n.context = made[s].context
      /\ n.wake = made[s].wake /\ n.paused = made[s].paused
  BY <1>2 DEF Session
<1> HIDE DEF n
<1>4. Live(s) \in BOOLEAN
  BY DEF Live
<1>5. m \in Session /\ Stays(made[s], m, Live(s)) /\ m.wake = made[s].wake /\ m.paused = made[s].paused
  BY <1>3, <1>4, Alike, StaysOn, MaybeRevealIs, MaybeRevealStays
<1> HIDE DEF m
<1>6. Over(c).pc \in {"between", "off"} /\ (c \in Runs => Over(c).id = callers[c].id)
  BY OverSame DEF BInv, IInv
<1> QED BY <1>1, <1>5, <1>6, Rewrites

LEMMA EndOwns ==
    ASSUME BInv, IInv', NEW c \in Callers, End(c)
    PROVE  BInv'
<1> DEFINE s == sessions[callers[c].id]
           k == IF made[s].runActive = 0 THEN 0 ELSE made[s].runActive - 1
           m == [made[s] EXCEPT !.runActive = k]
           r == IF k = 0 THEN MaybeReveal(m, TRUE) ELSE m
           x == [callers[c] EXCEPT !.pc = "ended"]
           u == Moved(callers[c], "leaving", s)
           v == Moved(callers[c], "ended", 0)
<1>1. callers[c].pc = "between" /\ UNCHANGED <<sessions, projects>>
  BY DEF End
<1>2. \/ callers' = [callers EXCEPT ![c] = x] /\ UNCHANGED made
      \/ /\ s # 0 /\ made' = [made EXCEPT ![s] = r]
         /\ \/ callers' = [callers EXCEPT ![c] = u]
            \/ callers' = [callers EXCEPT ![c] = v]
  BY DEF End, At, BInv, IInv, TypeOK, Moved
<1>3. callers[c] \in Call /\ callers[c].id \in Ids
  BY <1>1 DEF BInv, IInv, TypeOK, Fits, Fit
<1>4. x.pc = "ended" /\ x.id = callers[c].id
  BY <1>3 DEF Call
<1>5. u.pc = "leaving" /\ u.id = callers[c].id /\ v.pc = "ended" /\ v.id = callers[c].id
  <2> HIDE DEF s
  <2> QED BY <1>3 DEF Call, Moved
<1> HIDE DEF x, u, v
<1>6. CASE callers' = [callers EXCEPT ![c] = x] /\ UNCHANGED made
  BY <1>1, <1>4, <1>6, GoingAlone
<1>7. CASE s # 0 /\ made' = [made EXCEPT ![s] = r]
  <2>1. s \in DOMAIN made /\ made[s] \in Session /\ Live(s) = TRUE
    <3>1. s \in DOMAIN made /\ made[s] \in Session /\ Live(s)
      BY <1>3, <1>7, FoundLive
    <3> QED BY <3>1 DEF Live
  <2>2. k \in Nat
    BY <2>1 DEF Session
  <2>3. /\ m \in Session /\ m.id = made[s].id /\ m.project = made[s].project
        /\ m.window = made[s].window /\ m.reveal = made[s].reveal /\ m.context = made[s].context
        /\ m.wake = made[s].wake /\ m.paused = made[s].paused
    <3> HIDE DEF k, s
    <3> QED BY <2>1, <2>2 DEF Session
  <2>4. r \in Session /\ Stays(made[s], r, Live(s)) /\ r.wake = made[s].wake /\ r.paused = made[s].paused
    <3> HIDE DEF m, k
    <3>1. Stays(made[s], m, TRUE)
      BY <2>3, Alike
    <3>2. /\ MaybeReveal(m, TRUE) \in Session /\ Stays(m, MaybeReveal(m, TRUE), TRUE)
          /\ MaybeReveal(m, TRUE).wake = m.wake /\ MaybeReveal(m, TRUE).paused = m.paused
      BY <2>3, MaybeRevealIs, MaybeRevealStays
    <3>3. Stays(made[s], MaybeReveal(m, TRUE), TRUE)
      BY <3>1, <3>2, StaysOn
    <3> QED BY <2>1, <2>3, <3>1, <3>2, <3>3
  <2> HIDE DEF r, s
  <2> QED BY <1>1, <1>2, <1>4, <1>5, <1>7, <2>1, <2>4, <1>6, Rewrites
<1> QED BY <1>2, <1>6, <1>7

------------------------------------------------------------------------------
(* The sessions that close, and what else happens to one.                  *)

LEMMA WokenSame ==
    ASSUME IInv, NEW s \in DOMAIN made, NEW going \in BOOLEAN, NEW c \in Callers
    PROVE  LET w == Woken(s, going)[c]
           IN /\ w.pc \in {"launching", "binding"} <=> Opening(c)
              /\ Opening(c) => w = callers[c]
              /\ c \in Runs => w.id = callers[c].id
              /\ w.pc = "held" => w = callers[c] /\ c # made[s].wake
<1>1. CASE c # made[s].wake
  BY <1>1 DEF Woken, Opening
<1>2. CASE c = made[s].wake
  <2>1. c # Nobody
    BY BrowserAssumption DEF Callers, Runs, Nobody
  <2>2. callers[c].pc = "held" /\ c \in Runs
    BY <1>2, <2>1, Rows DEF IInv, Wakes
  <2>3. /\ Over(c) \in Call /\ Over(c).pc = "between" /\ Over(c).id = callers[c].id
    BY <2>2, OverIs DEF IInv
  <2>4. Woken(s, going)[c] = IF going THEN [Over(c) EXCEPT !.left = 0]
                             ELSE [Over(c) EXCEPT !.pc = "looping"]
    BY <1>2 DEF Woken
  <2>5. /\ [Over(c) EXCEPT !.left = 0].pc = "between"
        /\ [Over(c) EXCEPT !.left = 0].id = callers[c].id
        /\ [Over(c) EXCEPT !.pc = "looping"].pc = "looping"
        /\ [Over(c) EXCEPT !.pc = "looping"].id = callers[c].id
    BY <2>3 DEF Call
  <2> QED BY <2>2, <2>4, <2>5 DEF Opening
<1> QED BY <1>1, <1>2

LEMMA NotShownSame ==
    ASSUME IInv, NEW s \in DOMAIN made, NEW c \in Callers
    PROVE  LET w == NotShown(s)[c]
           IN /\ w.pc \in {"launching", "binding"} <=> Opening(c)
              /\ Opening(c) => w = callers[c]
              /\ c \in Runs => w.id = callers[c].id
              /\ w.pc = "held" => w = callers[c]
<1>1. callers[c] \in Call
  BY DEF IInv, TypeOK
<1>2. CASE callers[c].on = s /\ callers[c].pc \in {"waiting", "revealing"}
  <2>1. NotShown(s)[c] = Over(c)
    BY <1>2 DEF NotShown
  <2> QED BY <1>2, <2>1, OverSame DEF Opening, IInv
<1>3. CASE callers[c].on = s /\ callers[c].pc = "leaving"
  <2>1. NotShown(s)[c] = Moved(callers[c], "ended", 0)
    BY <1>3 DEF NotShown, Moved
  <2>2. Moved(callers[c], "ended", 0).pc = "ended" /\ Moved(callers[c], "ended", 0).id = callers[c].id
    BY <1>1, EndedIs
  <2> QED BY <1>3, <2>1, <2>2 DEF Opening
<1>4. CASE callers[c].on # s \/ callers[c].pc \notin {"waiting", "revealing", "leaving"}
  BY <1>1, <1>4 DEF NotShown, Opening
<1> QED BY <1>2, <1>3, <1>4

LEMMA ShownSame ==
    ASSUME IInv, NEW s \in DOMAIN made, NEW c \in Callers
    PROVE  LET w == Shown(s)[c]
           IN /\ w.pc \in {"launching", "binding"} <=> Opening(c)
              /\ Opening(c) => w = callers[c]
              /\ c \in Runs => w.id = callers[c].id
              /\ w.pc = "held" => w = callers[c]
<1>1. callers[c] \in Call
  BY DEF IInv, TypeOK
<1>2. CASE callers[c].on = s /\ callers[c].pc = "waiting"
  <2>1. Shown(s)[c] = [callers[c] EXCEPT !.pc = "call"]
    BY <1>2 DEF Shown
  <2>2. [callers[c] EXCEPT !.pc = "call"].pc = "call" /\ [callers[c] EXCEPT !.pc = "call"].id = callers[c].id
    BY <1>1 DEF Call
  <2> QED BY <1>2, <2>1, <2>2 DEF Opening
<1>3. CASE callers[c].on = s /\ callers[c].pc = "revealing"
  <2>1. Shown(s)[c] = Moved(callers[c], "looping", 0)
    BY <1>3 DEF Shown, Moved
  <2>2. Moved(callers[c], "looping", 0).pc = "looping"
        /\ Moved(callers[c], "looping", 0).id = callers[c].id
    BY <1>1, LoopingIs
  <2> QED BY <1>3, <2>1, <2>2 DEF Opening
<1>4. CASE callers[c].on = s /\ callers[c].pc = "leaving"
  <2>1. Shown(s)[c] = Moved(callers[c], "ended", 0)
    BY <1>4 DEF Shown, Moved
  <2>2. Moved(callers[c], "ended", 0).pc = "ended" /\ Moved(callers[c], "ended", 0).id = callers[c].id
    BY <1>1, EndedIs
  <2> QED BY <1>4, <2>1, <2>2 DEF Opening
<1>5. CASE callers[c].on # s \/ callers[c].pc \notin {"waiting", "revealing", "leaving"}
  BY <1>1, <1>5 DEF Shown, Opening
<1> QED BY <1>2, <1>3, <1>4, <1>5

\* The runs that other sessions hold stay held when one closes.
LEMMA ClosesHolding ==
    ASSUME BInv, ~Shared, NEW s \in DOMAIN made, Live(s), Gone(s),
           \A t \in DOMAIN made : t # s => made'[t] = made[t],
           NEW d \in Callers,
           callers'[d].pc = "held" => callers'[d] = callers[d] /\ d # made[s].wake
    PROVE  HeldWell(d)'
<1> SUFFICES ASSUME callers'[d].pc = "held" PROVE HeldWell(d)'
  BY DEF HeldWell
<1>1. HeldWell(d) /\ callers'[d] = callers[d] /\ d # made[s].wake /\ TypeOK
  BY DEF BInv, IInv, Holds
<1>2. /\ callers[d].on \in DOMAIN made /\ callers[d].id \in Ids /\ callers[d].on # s
      /\ sessions[callers[d].id] = callers[d].on
  BY <1>1, HeldIs DEF HeldWell
<1>3. callers[d].id # made[s].id
  BY <1>2 DEF Live
<1>4. sessions'[callers[d].id] = sessions[callers[d].id]
  BY <1>1, <1>2, <1>3 DEF Gone, TypeOK
<1> QED BY <1>1, <1>2, <1>4, StaysHeld

LEMMA Closing1 ==
    ASSUME BInv, IInv', NEW s \in DOMAIN made, NEW m \in Session, Live(s), Gone(s),
           Same(made[s], m), Good(made[s], TRUE) => Good(m, FALSE),
           made' = [made EXCEPT ![s] = m],
           \A c \in Callers : SameCall(c),
           \A c \in Callers : callers'[c].pc = "held" => callers'[c] = callers[c] /\ c # made[s].wake
    PROVE  BInv'
<1>1. /\ DOMAIN made' = DOMAIN made /\ made'[s] = m
      /\ \A t \in DOMAIN made : t # s => made'[t] = made[t]
  BY Writing DEF BInv, IInv, TypeOK
<1>2. \A t \in DOMAIN made : Same(made[t], made'[t])
  BY <1>1 DEF Same
<1>3. ~Shared => \A c \in Callers : HeldWell(c)'
  BY <1>1, ClosesHolding
<1> QED BY <1>1, <1>2, <1>3, GivesBack

LEMMA CloseOwns ==
    ASSUME BInv, IInv', NEW s \in DOMAIN made, Close(s)
    PROVE  BInv'
<1>1. Live(s) /\ Gone(s) /\ made' = [made EXCEPT ![s] = Dropped(made[s])] /\ callers' = Woken(s, TRUE)
  BY DEF Close
<1>2. /\ Dropped(made[s]) \in Session /\ Same(made[s], Dropped(made[s]))
      /\ Good(made[s], TRUE) => Good(Dropped(made[s]), FALSE)
  BY Rows, DroppedIs, DroppedStays DEF BInv, IInv
<1>3. ASSUME NEW c \in Callers
      PROVE  SameCall(c) /\ (callers'[c].pc = "held" => callers'[c] = callers[c] /\ c # made[s].wake)
  BY <1>1, WokenSame DEF SameCall, Opening, BInv
<1> QED BY <1>1, <1>2, <1>3, Closing1

LEMMA LeaveOwns ==
    ASSUME BInv, IInv', NEW c \in Callers, Leave(c)
    PROVE  BInv'
<1> DEFINE s == sessions[callers[c].id]
           m == Dropped(made[s])
           w == Woken(s, TRUE)
<1>1. callers[c].pc = "ended"
      /\ \/ /\ s # 0 /\ Gone(s) /\ made' = [made EXCEPT ![s] = m]
            /\ callers' = [w EXCEPT ![c] = Done]
         \/ callers' = [callers EXCEPT ![c] = Done] /\ UNCHANGED <<sessions, projects, made>>
  BY DEF Leave
<1>2. callers[c].id \in Ids
  BY <1>1 DEF BInv, IInv, Fits, Fit
<1>3. Done.pc = "done" /\ Done.id = Nobody
  BY DEF Done, Idle
<1>4. CASE callers' = [callers EXCEPT ![c] = Done] /\ UNCHANGED <<sessions, projects, made>>
  BY <1>1, <1>3, <1>4, GoingAlone
<1>5. CASE s # 0 /\ Gone(s) /\ made' = [made EXCEPT ![s] = m] /\ callers' = [w EXCEPT ![c] = Done]
  <2>1. s \in DOMAIN made /\ made[s] \in Session /\ Live(s)
    BY <1>2, <1>5, FoundLive
  <2>2. m \in Session /\ Same(made[s], m) /\ (Good(made[s], TRUE) => Good(m, FALSE))
    BY <2>1, DroppedIs, DroppedStays
  <2>3. \A d \in Callers : callers'[d] = IF d = c THEN Done ELSE w[d]
    BY <1>5 DEF Woken
  <2>4. ASSUME NEW d \in Callers
        PROVE  SameCall(d) /\ (callers'[d].pc = "held" => callers'[d] = callers[d] /\ d # made[s].wake)
    <3>1. CASE d = c
      BY <1>1, <1>3, <2>3, <3>1 DEF SameCall, Opening
    <3>2. CASE d # c
      <4>1. /\ w[d].pc \in {"launching", "binding"} <=> Opening(d)
            /\ Opening(d) => w[d] = callers[d]
            /\ d \in Runs => w[d].id = callers[d].id
            /\ w[d].pc = "held" => w[d] = callers[d] /\ d # made[s].wake
        BY <2>1, WokenSame DEF BInv
      <4>2. callers'[d] = w[d]
        BY <2>3, <3>2
      <4> HIDE DEF w, s
      <4> QED BY <4>1, <4>2 DEF SameCall, Opening
    <3> QED BY <3>1, <3>2
  <2> HIDE DEF s, m
  <2> QED BY <1>5, <2>1, <2>2, <2>4, Closing1
<1> QED BY <1>1, <1>4, <1>5

LEMMA ResumeOwns ==
    ASSUME BInv, IInv', NEW s \in DOMAIN made, Resume(s)
    PROVE  BInv'
<1> DEFINE m == [made[s] EXCEPT !.paused = FALSE, !.wanted = FALSE, !.forced = FALSE, !.wake = Nobody]
<1>1. made' = [made EXCEPT ![s] = m] /\ callers' = Woken(s, FALSE) /\ UNCHANGED <<sessions, projects>>
  BY DEF Resume
<1>2. made[s] \in Session
  BY Rows DEF BInv, IInv
<1>3. /\ m \in Session /\ m.id = made[s].id /\ m.project = made[s].project
      /\ m.window = made[s].window /\ m.reveal = made[s].reveal /\ m.context = made[s].context
  BY <1>2 DEF Session
<1> HIDE DEF m
<1>4. /\ DOMAIN made' = DOMAIN made /\ made'[s] = m
      /\ \A t \in DOMAIN made : t # s => made'[t] = made[t]
      /\ \A t \in DOMAIN made : Stays(made[t], made'[t], Live(t))
  BY <1>1, <1>3, Alike, OneRow DEF BInv, IInv
<1>5. ASSUME NEW c \in Callers
      PROVE  SameCall(c) /\ (callers'[c].pc = "held" => callers'[c] = callers[c] /\ c # made[s].wake)
  BY <1>1, WokenSame DEF SameCall, Opening, BInv
<1>6. ASSUME ~Shared, NEW d \in Callers PROVE HeldWell(d)'
  <2> SUFFICES ASSUME callers'[d].pc = "held" PROVE HeldWell(d)'
    BY DEF HeldWell
  <2>1. HeldWell(d) /\ callers'[d] = callers[d] /\ d # made[s].wake /\ TypeOK
    BY <1>5, <1>6 DEF BInv, IInv, Holds
  <2>2. callers[d].on \in DOMAIN made /\ callers[d].on # s
    BY <2>1, HeldIs DEF HeldWell
  <2> QED BY <1>1, <1>4, <2>1, <2>2, StaysHeld
<1> QED BY <1>1, <1>4, <1>5, <1>6, SitsStill

LEMMA PauseOwns ==
    ASSUME BInv, IInv', NEW s \in DOMAIN made, Pause(s)
    PROVE  BInv'
<1> DEFINE m == [made[s] EXCEPT !.paused = TRUE]
<1>1. made[s] \in Session
  BY Rows DEF BInv, IInv
<1>2. /\ m \in Session /\ m.id = made[s].id /\ m.project = made[s].project
      /\ m.window = made[s].window /\ m.reveal = made[s].reveal /\ m.context = made[s].context
      /\ m.wake = made[s].wake /\ m.paused
  BY <1>1 DEF Session
<1>3. made' = [made EXCEPT ![s] = m] /\ UNCHANGED <<sessions, projects>> /\ UNCHANGED callers
  BY DEF Pause
<1> HIDE DEF m
<1> QED BY <1>2, <1>3, Alike, SameCalls, Rewritten

LEMMA TakeOverOwns ==
    ASSUME BInv, IInv', NEW s \in DOMAIN made, TakeOver(s)
    PROVE  BInv'
<1> DEFINE n == [made[s] EXCEPT !.paused = TRUE, !.wanted = TRUE]
           m == MaybeReveal(n, TRUE)
<1>1. made[s] \in Session
  BY Rows DEF BInv, IInv
<1>2. /\ n \in Session /\ n.id = made[s].id /\ n.project = made[s].project
      /\ n.window = made[s].window /\ n.reveal = made[s].reveal /\ n.context = made[s].context
      /\ n.wake = made[s].wake /\ n.paused = TRUE
  BY <1>1 DEF Session
<1>3. /\ made' = [made EXCEPT ![s] = m] /\ UNCHANGED <<sessions, projects>> /\ UNCHANGED callers
      /\ Live(s) = TRUE
  BY DEF TakeOver, Live
<1> HIDE DEF n
<1>4. m \in Session /\ Stays(n, m, TRUE) /\ m.wake = made[s].wake /\ m.paused
  BY <1>2, MaybeRevealIs, MaybeRevealStays
<1>5. Stays(made[s], n, TRUE)
  BY <1>2, Alike
<1>6. Stays(made[s], m, Live(s))
  BY <1>3, <1>4, <1>5, StaysOn
<1> HIDE DEF m
<1> QED BY <1>3, <1>4, <1>6, SameCalls, Rewritten

LEMMA GiveUpOwns ==
    ASSUME BInv, IInv', NEW s \in DOMAIN made, made[s].reveal # "no", GiveUp(s)
    PROVE  BInv'
<1> DEFINE m == [made[s] EXCEPT !.reveal = "no", !.window = "off"]
           n == Dropped(m)
           w == Woken(s, TRUE)
           v == NotShown(s)
<1>1. made[s] \in Session
  BY Rows DEF BInv, IInv
<1>2. /\ m \in Session /\ m.id = made[s].id /\ m.project = made[s].project /\ m.reveal = "no"
      /\ m.window = "off" /\ m.context = made[s].context /\ m.wake = made[s].wake
      /\ m.paused = made[s].paused
  BY <1>1 DEF Session
<1>3. \/ /\ Live(s) /\ Gone(s) /\ made' = [made EXCEPT ![s] = n]
         /\ callers' = [c \in Callers |-> IF c = made[s].wake THEN w[c] ELSE v[c]]
      \/ ~Live(s) /\ made' = [made EXCEPT ![s] = m] /\ callers' = v /\ UNCHANGED <<sessions, projects>>
  BY DEF GiveUp
<1>4. \A c \in Callers :
         /\ w[c].pc \in {"launching", "binding"} <=> Opening(c)
         /\ Opening(c) => w[c] = callers[c]
         /\ c \in Runs => w[c].id = callers[c].id
         /\ w[c].pc = "held" => w[c] = callers[c] /\ c # made[s].wake
  BY WokenSame DEF BInv
<1>5. \A c \in Callers :
         /\ v[c].pc \in {"launching", "binding"} <=> Opening(c)
         /\ Opening(c) => v[c] = callers[c]
         /\ c \in Runs => v[c].id = callers[c].id
         /\ v[c].pc = "held" => v[c] = callers[c]
  BY NotShownSame DEF BInv
<1> HIDE DEF m, w, v
<1>6. n \in Session /\ Same(made[s], n) /\ Good(n, FALSE)
  <2>1. n \in Session /\ Same(m, n)
    BY <1>2, DroppedIs, DroppedStays
  <2>2. n.context = Closing(m.context) /\ n.reveal = m.reveal /\ n.window = m.window
    BY <1>2 DEF Dropped, Session
  <2>3. Closing(m.context) # "on"
    BY DEF Closing
  <2> QED BY <1>2, <2>1, <2>2, <2>3 DEF Same, Good
<1> HIDE DEF n
<1>7. CASE /\ Live(s) /\ Gone(s) /\ made' = [made EXCEPT ![s] = n]
           /\ callers' = [c \in Callers |-> IF c = made[s].wake THEN w[c] ELSE v[c]]
  <2>1. ASSUME NEW c \in Callers
        PROVE  SameCall(c) /\ (callers'[c].pc = "held" => callers'[c] = callers[c] /\ c # made[s].wake)
    BY <1>4, <1>5, <1>7 DEF SameCall, Opening
  <2> QED BY <1>6, <1>7, <2>1, Closing1
<1>8. CASE ~Live(s) /\ made' = [made EXCEPT ![s] = m] /\ callers' = v /\ UNCHANGED <<sessions, projects>>
  <2>1. ASSUME NEW c \in Callers
        PROVE  SameCall(c) /\ (callers'[c].pc = "held" => callers'[c] = callers[c])
    BY <1>5, <1>8 DEF SameCall, Opening
  <2>2. Stays(made[s], m, Live(s))
    BY <1>2, <1>8 DEF Stays, Same, Good
  <2> QED BY <1>2, <1>8, <2>1, <2>2, Rewritten
<1> QED BY <1>3, <1>7, <1>8

LEMMA ContextClosesOwns ==
    ASSUME BInv, IInv', NEW s \in DOMAIN made, ContextCloses(s)
    PROVE  BInv'
<1> DEFINE r == IF made[s].reveal = "closing" THEN "launching" ELSE made[s].reveal
           m == [made[s] EXCEPT !.context = "off", !.reveal = r]
<1>1. made[s] \in Session /\ made[s].context = "closing"
  BY Rows DEF BInv, IInv, ContextCloses
<1>2. made' = [made EXCEPT ![s] = m] /\ UNCHANGED <<sessions, projects>> /\ UNCHANGED callers
  BY DEF ContextCloses, BInv, IInv, TypeOK
<1>3. r \in {"no", "closing", "launching", "binding", "front", "stray", "failed"}
  BY <1>1 DEF Session
<1>4. r \in {"no", "front"} => made[s].reveal \in {"no", "front"}
  OBVIOUS
<1> HIDE DEF r
<1>5. /\ m \in Session /\ m.id = made[s].id /\ m.project = made[s].project /\ m.reveal = r
      /\ m.window = made[s].window /\ m.context = "off" /\ m.wake = made[s].wake
      /\ m.paused = made[s].paused
  BY <1>1, <1>3 DEF Session
<1>6. made[s].reveal = "binding" => r = "binding"
  BY DEF r
<1>7. r = "stray" => made[s].reveal = "stray"
  BY DEF r
<1> HIDE DEF m
<1>8. Stays(made[s], m, Live(s))
  BY <1>1, <1>4, <1>5, <1>6, <1>7 DEF Stays, Same, Good
<1> QED BY <1>2, <1>5, <1>8, SameCalls, Rewritten

LEMMA RelaunchesOwns ==
    ASSUME BInv, IInv', NEW s \in DOMAIN made, Relaunches(s)
    PROVE  BInv'
<1> DEFINE m == [made[s] EXCEPT !.reveal = "binding", !.window = "on"]
<1>1. made[s] \in Session /\ made[s].reveal = "launching"
  BY Rows DEF BInv, IInv, Relaunches
<1>2. /\ m \in Session /\ m.id = made[s].id /\ m.project = made[s].project /\ m.reveal = "binding"
      /\ m.window = "on" /\ m.context = made[s].context /\ m.wake = made[s].wake
      /\ m.paused = made[s].paused
  BY <1>1 DEF Session
<1>3. CASE made' = [made EXCEPT ![s] = m] /\ UNCHANGED <<sessions, projects, callers>>
  <2> HIDE DEF m
  <2>1. Stays(made[s], m, Live(s))
    BY <1>1, <1>2 DEF Stays, Same, Good
  <2> QED BY <1>2, <1>3, <2>1, SameCalls, Rewritten
<1>4. CASE GiveUp(s)
  BY <1>1, <1>4, GiveUpOwns
<1> QED BY <1>3, <1>4 DEF Relaunches, BInv, IInv, TypeOK

LEMMA BindsOwns ==
    ASSUME BInv, IInv', NEW s \in DOMAIN made, Binds(s)
    PROVE  BInv'
<1> DEFINE m == Publish(s)
           n == [made[s] EXCEPT !.reveal = "failed", !.window = "closing"]
<1>1. made[s] \in Session /\ made[s].reveal = "binding"
  BY Rows DEF BInv, IInv, Binds
<1>2. /\ n \in Session /\ n.id = made[s].id /\ n.project = made[s].project /\ n.reveal = "failed"
      /\ n.window = "closing" /\ n.context = made[s].context /\ n.wake = made[s].wake
      /\ n.paused = made[s].paused
  BY <1>1 DEF Session
<1>3. /\ m \in Session /\ m.id = made[s].id /\ m.project = made[s].project
      /\ m.wake = made[s].wake /\ m.paused = made[s].paused
      /\ Live(s) => m.reveal = "front" /\ m.window = "off" /\ m.context = "on"
      /\ ~Live(s) => m.reveal = "stray" /\ m.window = "closing" /\ m.context = made[s].context
  BY <1>1 DEF Session, Publish
<1>4. /\ made' = [made EXCEPT ![s] = m] \/ made' = [made EXCEPT ![s] = n]
      /\ UNCHANGED <<sessions, projects>> /\ UNCHANGED callers
  BY DEF Binds, BInv, IInv, TypeOK
<1> HIDE DEF m, n
<1>5. Stays(made[s], m, Live(s))
  BY <1>1, <1>3 DEF Stays, Same, Good
<1>6. Stays(made[s], n, Live(s))
  BY <1>1, <1>2 DEF Stays, Same, Good
<1> QED BY <1>2, <1>3, <1>4, <1>5, <1>6, SameCalls, Rewritten

LEMMA FinishedOwns ==
    ASSUME BInv, IInv', NEW s \in DOMAIN made, NEW n \in Session, Same(made[s], n),
           n.wake = made[s].wake, n.paused = made[s].paused,
           Good(made[s], Live(s)) => /\ n.window # "on"
                                     /\ Live(s) <=> n.context = "on",
           made' = [made EXCEPT ![s] = Finished(s, n)], callers' = Shown(s),
           UNCHANGED <<sessions, projects>>
    PROVE  BInv'
<1> DEFINE k == Cardinality(Awaiting(s, "waiting"))
           m == Finished(s, n)
<1>1. k \in Nat
  BY AwaitingIsFinite
<1>2. m = [n EXCEPT !.reveal = "no", !.wanted = FALSE, !.forced = FALSE, !.inflight = n.inflight + k]
  BY DEF Finished
<1> HIDE DEF k
<1>3. n.inflight + k \in Nat
  BY <1>1 DEF Session
<1> HIDE DEF m
<1>4. /\ m \in Session /\ m.id = n.id /\ m.project = n.project /\ m.reveal = "no"
      /\ m.window = n.window /\ m.context = n.context /\ m.wake = n.wake /\ m.paused = n.paused
  BY <1>2, <1>3 DEF Session
<1>5. Stays(made[s], m, Live(s))
  BY <1>4 DEF Stays, Same, Good
<1>6. ASSUME NEW c \in Callers
      PROVE  SameCall(c) /\ (callers'[c].pc = "held" => callers'[c] = callers[c])
  BY ShownSame DEF SameCall, Opening, BInv
<1>7. made' = [made EXCEPT ![s] = m]
  BY DEF m
<1>8. m \in Session /\ m.wake = made[s].wake /\ (made[s].paused => m.paused)
  BY <1>4
<1> QED BY <1>5, <1>6, <1>7, <1>8, Rewritten

LEMMA WindowClosesOwns ==
    ASSUME BInv, IInv', NEW s \in DOMAIN made, WindowCloses(s)
    PROVE  BInv'
<1> DEFINE n == [made[s] EXCEPT !.window = "off"]
<1>1. made[s] \in Session
  BY Rows DEF BInv, IInv
<1>2. /\ n \in Session /\ n.id = made[s].id /\ n.project = made[s].project /\ n.window = "off"
      /\ n.context = made[s].context /\ n.wake = made[s].wake /\ n.paused = made[s].paused
  BY <1>1 DEF Session
<1>3. CASE /\ made[s].reveal = "stray" /\ made' = [made EXCEPT ![s] = Finished(s, n)]
           /\ callers' = Shown(s) /\ UNCHANGED <<sessions, projects>>
  <2> HIDE DEF n
  <2>1. Same(made[s], n)
    BY <1>2 DEF Same
  <2>2. Good(made[s], Live(s)) => n.window # "on" /\ (Live(s) <=> n.context = "on")
    BY <1>2, <1>3 DEF Good
  <2> QED BY <1>2, <1>3, <2>1, <2>2, FinishedOwns
<1>4. CASE made[s].reveal = "failed" /\ GiveUp(s)
  BY <1>4, GiveUpOwns
<1> QED BY <1>3, <1>4 DEF WindowCloses

LEMMA InFrontOwns ==
    ASSUME BInv, IInv', NEW s \in DOMAIN made, InFront(s)
    PROVE  BInv'
<1>1. made[s] \in Session /\ made[s].reveal = "front"
  BY Rows DEF BInv, IInv, InFront
<1>2. Same(made[s], made[s])
  BY DEF Same
<1>3. Good(made[s], Live(s)) => made[s].window # "on" /\ (Live(s) <=> made[s].context = "on")
  BY <1>1 DEF Good
<1> QED BY <1>1, <1>2, <1>3, FinishedOwns DEF InFront

------------------------------------------------------------------------------
(* The theorems.                                                           *)

LEMMA InitOwns == Init => BInv
<1> SUFFICES ASSUME Init PROVE BInv
  OBVIOUS
<1>1. IInv /\ made = <<>> /\ DOMAIN made = {}
  BY InitHolds DEF Init
<1>2. \A c \in Callers : callers[c] = Idle /\ Idle.pc = "off" /\ Idle.id = Nobody
  BY DEF Init, Idle
<1>3. Owned
  BY <1>1, <1>2 DEF Init, Owned, Opening
<1>4. Matched
  BY <1>1 DEF Init, Matched, Accounted
<1>5. Holds
  BY <1>2 DEF Holds, RunIds, HeldWell, Callers
<1> QED BY <1>1, <1>3, <1>4, <1>5 DEF BInv

LEMMA KeepsOwner == BInv /\ OneProjectAnId /\ [Next]_vars => BInv'
<1> SUFFICES ASSUME BInv, OneProjectAnId, [Next]_vars PROVE BInv'
  OBVIOUS
<1>0. IInv'
  BY Keeps DEF BInv
<1>1. CASE UNCHANGED vars
  <2>1. UNCHANGED <<sessions, projects, made>> /\ UNCHANGED callers
    BY <1>1 DEF vars
  <2>2. \A t \in DOMAIN made : Stays(made[t], made'[t], Live(t))
    BY <2>1, StaysSame
  <2>3. \A c \in Callers : SameCall(c) /\ (callers'[c].pc = "held" => callers'[c] = callers[c])
    BY <2>1, SameCalls
  <2>4. ~Shared => \A c \in Callers : HeldWell(c)'
    BY <2>1 DEF BInv, Holds, HeldWell
  <2> QED BY <1>0, <2>1, <2>2, <2>3, <2>4, SitsStill
<1>2. ASSUME NEW c \in Callers, GoOn(c) PROVE BInv'
  BY <1>0, <1>2, LaunchEndsOwns, BindEndsOwns, JoinedOwns, StepOwns, CaptureOwns, CallEndsOwns,
     EndOwns, LeaveOwns DEF GoOn
<1>3. ASSUME NEW c \in Callers, NEW i \in Ids,
             View(c, i) \/ \E p \in Projects, h \in BOOLEAN : Open(c, i, p, h)
      PROVE  BInv'
  BY <1>0, <1>3, ViewOwns, OpenOwns
<1>4. ASSUME NEW s \in DOMAIN made, Reveal(s) PROVE BInv'
  BY <1>0, <1>4, ContextClosesOwns, RelaunchesOwns, BindsOwns, WindowClosesOwns, InFrontOwns DEF Reveal
<1>5. ASSUME NEW s \in DOMAIN made,
             Close(s) \/ Pause(s) \/ TakeOver(s) \/ Resume(s) \/ IdleOut(s)
      PROVE  BInv'
  BY <1>0, <1>5, CloseOwns, PauseOwns, TakeOverOwns, ResumeOwns DEF IdleOut
<1> QED BY <1>1, <1>2, <1>3, <1>4, <1>5 DEF Next

\* Where no launched Chromium refuses its first page, and no id is being opened
\* for two projects at once, a project is reserved exactly while a session of it
\* is registered or being opened, and for that one's id (open, closeSession and
\* revealHeaded in browser.ts): never two browsers on one profile, never a
\* project that stays busy with nothing to close.
THEOREM ReservationsHold ==
    ASSUME ~PageFails PROVE Spec /\ []OneProjectAnId => []ReservationsMatch
<1>1. BInv => ReservationsMatch
  <2> SUFFICES ASSUME BInv PROVE ReservationsMatch
    OBVIOUS
  <2>1. ASSUME NEW p \in Projects, projects[p] # Nobody
        PROVE  \/ \E s \in DOMAIN made : Live(s) /\ made[s].project = p
               \/ \E c \in Callers : /\ callers[c].pc \in {"launching", "binding"}
                                     /\ callers[c].project = p /\ callers[c].id = projects[p]
    BY <2>1 DEF BInv, Matched, Accounted, Opening
  <2>2. \A s \in DOMAIN made : Live(s) => projects[made[s].project] = made[s].id
    BY DEF BInv, Owned
  <2> QED BY <2>1, <2>2 DEF ReservationsMatch
<1> QED BY <1>1, InitOwns, KeepsOwner, PTL DEF Spec

\* Under the same two conditions no Chromium runs that no session would close,
\* and none that could be used is left with a dead one: a reveal whose session
\* went meanwhile closes its window instead of publishing it, and one that fails
\* closes its session (revealHeaded in browser.ts).
THEOREM BrowsersAreOwned ==
    ASSUME ~PageFails PROVE Spec /\ []OneProjectAnId => []BrowsersMatchSessions
<1>1. BInv => BrowsersMatchSessions
  BY DEF BInv, Matched, Good, BrowsersMatchSessions
<1> QED BY <1>1, InitOwns, KeepsOwner, PTL DEF Spec

\* Where runs do not share a session, and no id is being opened for two projects
\* at once, a run that is held is held by an open, paused session that will wake
\* it, whatever of launches, reveals and first pages fails (waitIfPaused, resume,
\* abort and closeSession in browser.ts): no resume and no abort is swallowed.
THEOREM HeldRunsAreHeard ==
    ASSUME ~Shared PROVE Spec /\ []OneProjectAnId => []HeldRunsAreWoken
<1>1. BInv => HeldRunsAreWoken
  <2> SUFFICES ASSUME BInv, NEW c \in Callers, callers[c].pc = "held"
               PROVE  LET s == callers[c].on IN Live(s) /\ made[s].paused /\ made[s].wake = c
    BY DEF HeldRunsAreWoken
  <2>1. HeldWell(c)
    BY DEF BInv, Holds
  <2>2. made[callers[c].on].id = callers[c].id
    BY <2>1, FoundLive DEF HeldWell
  <2> QED BY <2>1, <2>2 DEF HeldWell, Live
<1> QED BY <1>1, InitOwns, KeepsOwner, PTL DEF Spec
=============================================================================
