--------------------------- MODULE EventStreamProofs ---------------------------
(***************************************************************************)
(* What EventStream promises, proved for every number of readers, every    *)
(* size of the log and every ceiling of the catch-up.                      *)
(***************************************************************************)
EXTENDS EventStream, SequenceTheorems, TLAPS

(***************************************************************************)
(* The inductive invariant.  A live stream stands at the end of the log    *)
(* (it subscribes in the turn that catches it up), a gap can only be the   *)
(* first thing said on a connection, and only a live connection has        *)
(* anything queued; with those, nothing a stream has passed is lost.       *)
(***************************************************************************)
\* Somebody has written something within the week, once anybody has.
NeverEmpty == oldest <= newest + 1 /\ (newest > 0 => oldest <= newest)

Stands(r) ==
    /\ conn[r] = "live" => cursor[r] = newest
    /\ conn[r] # "live" => sock[r] = <<>>
    /\ pos[r] <= newest

Ascends(r) ==
    /\ \A i, j \in 1 .. Len(sock[r]) : i < j => sock[r][i].id < sock[r][j].id
    /\ \A i \in 1 .. Len(sock[r]) :
          /\ pos[r] < sock[r][i].id
          /\ sock[r][i].id <= cursor[r]
          /\ sock[r][i].kind = "gap" => i = 1

Covers(r, i, s) == sock[r][i].id = s \/ (sock[r][i].kind = "gap" /\ s < sock[r][i].id)

Covered(r) ==
    /\ conn[r] = "live" =>
          \A s \in 1 .. cursor[r] : s \in told[r] \/ \E i \in 1 .. Len(sock[r]) : Covers(r, i, s)
    /\ \A s \in 1 .. pos[r] : s \in told[r]

Follows(r) == Stands(r) /\ Ascends(r) /\ Covered(r)

IInv == TypeOK /\ NeverEmpty /\ \A r \in Readers : Follows(r)
------------------------------------------------------------------------------
(* What the log's readings are worth.                                      *)

\* A frame is a frame, with the id it was made for.
LEMMA FrameType ==
    ASSUME NEW r \in Readers, NEW s \in Nat, NEW hidden
    PROVE  /\ Frame(r, s, hidden) \in Frames
           /\ Frame(r, s, hidden).id = s
           /\ Frame(r, s, hidden).kind # "gap"
BY DEF Frame, Frames

\* The first event a catch-up from a sequence can hold.
First(after) == IF oldest > after THEN oldest ELSE after + 1

\* A catch-up holds the events from the oldest stored one past the reader's
\* sequence up to where CaughtUpTo says it ends, in order and none left out.
LEMMA CatchUp ==
    ASSUME TypeOK, NEW r \in Readers, NEW after \in Nat
    PROVE  /\ CaughtUpTo(after) \in Nat
           /\ Missed(r, after) \in Seq(Frames)
           /\ First(after) > newest => CaughtUpTo(after) = after /\ Len(Missed(r, after)) = 0
           /\ First(after) <= newest =>
                 /\ First(after) <= CaughtUpTo(after) /\ CaughtUpTo(after) <= newest
                 /\ Len(Missed(r, after)) = CaughtUpTo(after) - First(after) + 1
                 /\ \A i \in 1 .. Len(Missed(r, after)) :
                       Missed(r, after)[i].id = First(after) + i - 1 /\ Missed(r, after)[i].kind # "gap"
<1> DEFINE n == CaughtUpTo(after) - First(after) + 1
<1> USE StreamAssumption
<1>1. newest \in Nat /\ oldest \in Nat /\ First(after) \in Nat /\ First(after) >= 1
  BY DEF TypeOK, First
<1>2. CASE First(after) > newest
  <2>1. CaughtUpTo(after) = after /\ Missed(r, after) = <<>>
    BY <1>2 DEF CaughtUpTo, First, Missed
  <2> QED BY <1>1, <1>2, <2>1
<1>3. CASE ~(First(after) > newest)
  <2>1. First(after) <= CaughtUpTo(after) /\ CaughtUpTo(after) <= newest /\ CaughtUpTo(after) \in Nat
    <3>1. CaughtUpTo(after) = IF newest - First(after) >= MaxPending THEN First(after) + MaxPending - 1 ELSE newest
      BY <1>1, <1>3 DEF CaughtUpTo, First
    <3> QED BY <1>1, <1>3, <3>1
  <2>2. n \in Nat
    BY <1>1, <2>1
  <2>3. Missed(r, after) = [i \in 1 .. n |-> Frame(r, First(after) + i - 1, withheld)]
    BY <1>3 DEF Missed, First
  <2>4. \A i \in 1 .. n : First(after) + i - 1 \in Nat
    BY <1>1, <2>2
  <2>5. \A i \in 1 .. n : Frame(r, First(after) + i - 1, withheld) \in Frames
    BY <2>4, FrameType
  <2>6. Missed(r, after) \in Seq(Frames) /\ Len(Missed(r, after)) = n
    BY <2>2, <2>3, <2>5
  <2>7. \A i \in 1 .. n : Missed(r, after)[i].id = First(after) + i - 1 /\ Missed(r, after)[i].kind # "gap"
    BY <2>3, <2>4, FrameType
  <2> HIDE DEF n
  <2> QED BY <1>1, <1>3, <2>1, <2>6, <2>7 DEF n
<1> QED BY <1>1, <1>2, <1>3

------------------------------------------------------------------------------

\* Every variable keeps its type: sequence numbers stay natural, the log's
\* oldest entry stays past zero and what is queued stays a queue of frames.
THEOREM Types == Spec => []TypeOK
<1> USE StreamAssumption
<1>1. Init => TypeOK
  BY DEF Init, TypeOK
<1>2. TypeOK /\ [Next]_vars => TypeOK'
  <2> SUFFICES ASSUME TypeOK, [Next]_vars PROVE TypeOK'
    OBVIOUS
  <2>1. ASSUME NEW hide \in BOOLEAN, append(hide) PROVE TypeOK'
    <3> DEFINE hid == IF hide THEN withheld \cup {newest + 1} ELSE withheld
               due == {r \in Readers : conn[r] = "live" /\ newest + 1 > cursor[r]}
    <3>1. newest + 1 \in Nat /\ hid \in SUBSET Nat
      BY DEF TypeOK
    <3>2. newest' = newest + 1 /\ withheld' = hid
      BY <2>1 DEF append
    <3>3. cursor' \in [Readers -> Nat]
      <4>1. cursor' = [r \in Readers |-> IF r \in due THEN newest + 1 ELSE cursor[r]]
        BY <2>1 DEF append
      <4> QED BY <3>1, <4>1 DEF TypeOK
    <3>4. sock' \in [Readers -> Seq(Frames)]
      <4>1. sock' = [r \in Readers |-> IF r \in due THEN Append(sock[r], Frame(r, newest + 1, hid))
                                                   ELSE sock[r]]
        BY <2>1 DEF append
      <4>2. ASSUME NEW r \in Readers PROVE Append(sock[r], Frame(r, newest + 1, hid)) \in Seq(Frames)
        BY <3>1, FrameType DEF TypeOK
      <4> QED BY <4>1, <4>2 DEF TypeOK
    <3> QED BY <2>1, <3>1, <3>2, <3>3, <3>4 DEF append, TypeOK
  <2>2. ASSUME NEW aged \in oldest .. newest + 1, pruneEvents(aged) PROVE TypeOK'
    BY <2>2 DEF pruneEvents, client, TypeOK
  <2>3. ASSUME NEW r \in Readers, ReadLists(r) PROVE TypeOK'
    BY <2>3 DEF ReadLists, log, TypeOK
  <2>4. ASSUME NEW r \in Readers, OpenFresh(r) PROVE TypeOK'
    BY <2>4 DEF OpenFresh, log, TypeOK, lastSeq
  <2>5. ASSUME NEW r \in Readers, OpenAfter(r) PROVE TypeOK'
    <3>1. lastSeq \in Nat /\ <<[id |-> lastSeq, kind |-> "gap"]>> \in Seq(Frames)
      BY DEF TypeOK, lastSeq, Frames
    <3>2. pos[r] \in Nat
      BY DEF TypeOK
    <3>3. CaughtUpTo(pos[r]) \in Nat /\ Missed(r, pos[r]) \in Seq(Frames)
      BY <3>2, CatchUp
    <3>4. cursor' \in [Readers -> Nat] /\ sock' \in [Readers -> Seq(Frames)]
      <4>1. CASE HasGap(pos[r])
        BY <2>5, <3>1, <4>1 DEF OpenAfter, TypeOK
      <4>2. CASE ~HasGap(pos[r])
        BY <2>5, <3>3, <4>2 DEF OpenAfter, TypeOK
      <4> QED BY <4>1, <4>2
    <3> QED BY <2>5, <3>4 DEF OpenAfter, log, TypeOK
  <2>6. ASSUME NEW r \in Readers, Receive(r) PROVE TypeOK'
    <3>1. sock[r] \in Seq(Frames) /\ sock[r] # <<>>
      BY <2>6 DEF Receive, TypeOK
    <3>2. Head(sock[r]) \in Frames /\ Tail(sock[r]) \in Seq(Frames)
      BY <3>1
    <3>3. Head(sock[r]).id \in Nat
      BY <3>2 DEF Frames
    <3>4. /\ sock' \in [Readers -> Seq(Frames)]
          /\ pos' \in [Readers -> Nat]
          /\ told' \in [Readers -> SUBSET Nat]
      BY <2>6, <3>2, <3>3 DEF Receive, TypeOK
    <3> QED BY <2>6, <3>4 DEF Receive, log, TypeOK
  <2>7. ASSUME NEW r \in Readers, Drop(r) PROVE TypeOK'
    BY <2>7 DEF Drop, log, TypeOK
  <2>8. CASE UNCHANGED vars
    BY <2>8 DEF vars, TypeOK
  <2> QED BY <2>1, <2>2, <2>3, <2>4, <2>5, <2>6, <2>7, <2>8 DEF Next, Connect
<1> QED BY <1>1, <1>2, PTL DEF Spec
------------------------------------------------------------------------------
(* The inductive invariant, step by step.                                  *)

\* A reader no step has touched follows its stream as before.
LEMMA Untouched ==
    ASSUME NEW q \in Readers, Follows(q), newest' = newest,
           conn'[q] = conn[q], cursor'[q] = cursor[q], sock'[q] = sock[q],
           pos'[q] = pos[q], told'[q] = told[q]
    PROVE  Follows(q)'
BY DEF Follows, Stands, Ascends, Covered, Covers

\* The log ends at its newest event for as long as it never empties.
LEMMA LogEnds == TypeOK /\ NeverEmpty => lastSeq = newest
BY DEF TypeOK, NeverEmpty, lastSeq, Empty

\* An event appended reaches every live stream, behind all it has queued.
LEMMA AppendFollows ==
    ASSUME IInv, NEW hide \in BOOLEAN, append(hide), NEW q \in Readers
    PROVE  Follows(q)'
<1> DEFINE s == newest + 1
           hid == IF hide THEN withheld \cup {s} ELSE withheld
           f == Frame(q, s, hid)
<1>1. /\ newest \in Nat /\ cursor[q] \in Nat /\ pos[q] \in Nat /\ sock[q] \in Seq(Frames)
      /\ Follows(q)
      /\ newest' = s /\ conn' = conn /\ pos' = pos /\ told' = told
  BY DEF IInv, TypeOK, append
<1>2. CASE conn[q] = "live"
  <2>1. cursor[q] = newest
    BY <1>1, <1>2 DEF Follows, Stands
  <2>2. cursor'[q] = s /\ sock'[q] = Append(sock[q], f)
    BY <1>1, <1>2, <2>1 DEF append
  <2>3. f \in Frames /\ f.id = s /\ f.kind # "gap"
    BY <1>1, FrameType
  <2> HIDE DEF f, hid
  <2>4. /\ Len(sock[q]) \in Nat /\ Len(sock'[q]) = Len(sock[q]) + 1
        /\ \A i \in 1 .. Len(sock[q]) : sock'[q][i] = sock[q][i] /\ sock[q][i] \in Frames
        /\ sock'[q][Len(sock[q]) + 1] = f
    BY <1>1, <2>2, <2>3
  <2>5. \A i \in 1 .. Len(sock[q]) : sock[q][i].id \in Nat
    BY <2>4 DEF Frames
  <2>6. Stands(q)'
    BY <1>1, <1>2, <2>2 DEF Follows, Stands
  <2>7. Ascends(q)'
    <3>1. ASSUME NEW i \in 1 .. Len(sock'[q]), NEW j \in 1 .. Len(sock'[q]), i < j
          PROVE  sock'[q][i].id < sock'[q][j].id
      <4>1. i \in 1 .. Len(sock[q]) /\ sock'[q][i].id <= newest
        BY <1>1, <2>1, <2>4, <3>1 DEF Follows, Ascends
      <4>2. CASE j \in 1 .. Len(sock[q])
        BY <1>1, <2>4, <3>1, <4>1, <4>2 DEF Follows, Ascends
      <4>3. CASE j = Len(sock[q]) + 1
        BY <1>1, <2>3, <2>4, <2>5, <4>1, <4>3
      <4> QED BY <2>4, <4>2, <4>3
    <3>2. ASSUME NEW i \in 1 .. Len(sock'[q])
          PROVE  pos[q] < sock'[q][i].id /\ sock'[q][i].id <= s /\ (sock'[q][i].kind = "gap" => i = 1)
      <4>1. CASE i \in 1 .. Len(sock[q])
        <5>1. /\ pos[q] < sock[q][i].id /\ sock[q][i].id <= cursor[q]
              /\ sock[q][i].kind = "gap" => i = 1
          BY <1>1, <4>1 DEF Follows, Ascends
        <5>2. sock[q][i].id <= s
          BY <1>1, <2>1, <2>5, <4>1, <5>1
        <5> QED BY <2>4, <4>1, <5>1, <5>2
      <4>2. CASE i = Len(sock[q]) + 1
        BY <1>1, <2>3, <2>4, <4>2 DEF Follows, Stands
      <4> QED BY <2>4, <4>1, <4>2
    <3> QED BY <1>1, <2>2, <3>1, <3>2 DEF Ascends
  <2>8. Covered(q)'
    <3>1. ASSUME NEW e \in 1 .. s, e \notin told[q]
          PROVE  \E i \in 1 .. Len(sock'[q]) : Covers(q, i, e)'
      <4>1. CASE e = s
        BY <1>1, <2>3, <2>4, <4>1 DEF Covers
      <4>2. CASE e # s
        <5>1. PICK i \in 1 .. Len(sock[q]) : Covers(q, i, e)
          BY <1>1, <1>2, <2>1, <3>1, <4>2 DEF Follows, Covered
        <5> QED BY <2>4, <5>1 DEF Covers
      <4> QED BY <4>1, <4>2
    <3> QED BY <1>1, <2>2, <3>1 DEF Follows, Covered
  <2> QED BY <2>6, <2>7, <2>8 DEF Follows
<1>3. CASE conn[q] # "live"
  <2>1. cursor'[q] = cursor[q] /\ sock'[q] = sock[q]
    BY <1>1, <1>3 DEF append, IInv, TypeOK
  <2> QED BY <1>1, <1>3, <2>1 DEF Follows, Stands, Ascends, Covered, Covers
<1> QED BY <1>2, <1>3

\* A stream opened where the log ends has nothing behind it to lose.
LEMMA OpenFreshFollows ==
    ASSUME IInv, NEW r \in Readers, OpenFresh(r), NEW q \in Readers
    PROVE  Follows(q)'
<1>1. lastSeq = newest /\ newest \in Nat /\ pos[q] \in Nat /\ Follows(q)
  BY LogEnds DEF IInv, TypeOK
<1>2. CASE q = r
  <2>1. /\ newest' = newest /\ conn'[q] = "live" /\ cursor'[q] = newest /\ sock'[q] = <<>>
        /\ pos' = pos /\ told'[q] = 1 .. newest
    BY <1>1, <1>2 DEF OpenFresh, IInv, TypeOK, log
  <2>2. Len(sock'[q]) = 0
    BY <2>1
  <2> QED BY <1>1, <2>1, <2>2 DEF Follows, Stands, Ascends, Covered, Covers
<1>3. CASE q # r
  BY <1>1, <1>3, Untouched DEF OpenFresh, log, IInv, TypeOK
<1> QED BY <1>2, <1>3

\* A reader that resumes is told of the gap that swallows all it missed, or
\* has every event it missed queued.
LEMMA OpenAfterFollows ==
    ASSUME IInv, NEW r \in Readers, OpenAfter(r), NEW q \in Readers
    PROVE  Follows(q)'
<1> USE StreamAssumption
<1>1. /\ lastSeq = newest /\ newest \in Nat /\ oldest \in Nat \ {0} /\ Follows(q)
      /\ pos[q] \in Nat /\ pos[q] <= newest
  BY LogEnds DEF IInv, TypeOK, Follows, Stands
<1>2. CASE q = r
  <2>1. newest' = newest /\ conn'[q] = "live" /\ pos' = pos /\ told' = told /\ pos[q] > 0
    BY <1>2 DEF OpenAfter, IInv, TypeOK, log
  <2>2. oldest <= newest /\ firstSeq = oldest
    BY <1>1, <2>1 DEF IInv, NeverEmpty, firstSeq, Empty
  <2>3. CASE HasGap(pos[q])
    <3>1. cursor'[q] = newest /\ sock'[q] = <<[id |-> newest, kind |-> "gap"]>>
      BY <1>1, <1>2, <2>3 DEF OpenAfter, IInv, TypeOK
    <3>2. Len(sock'[q]) = 1 /\ sock'[q][1].id = newest /\ sock'[q][1].kind = "gap"
      BY <3>1
    <3>3. pos[q] < newest
      BY <1>1, <2>3 DEF HasGap
    <3>4. Stands(q)' /\ Ascends(q)'
      BY <1>1, <2>1, <3>1, <3>2, <3>3 DEF Stands, Ascends
    <3>5. Covered(q)'
      BY <1>1, <2>1, <3>1, <3>2 DEF Follows, Covered, Covers
    <3> QED BY <3>4, <3>5 DEF Follows
  <2>4. CASE ~HasGap(pos[q])
    <3>1. cursor'[q] = CaughtUpTo(pos[q]) /\ sock'[q] = Missed(q, pos[q])
      BY <1>2, <2>4 DEF OpenAfter, IInv, TypeOK
    <3>2. newest <= pos[q] + MaxPending /\ (pos[q] < newest => oldest <= pos[q] + 1)
      BY <1>1, <2>2, <2>4 DEF HasGap
    <3>3. CASE pos[q] < newest
      <4> DEFINE n == newest - pos[q]
      <4>n. n \in Nat \ {0} /\ pos[q] + n = newest
        BY <1>1, <3>3
      <4>1. CaughtUpTo(pos[q]) = newest
        BY <1>1, <3>2, <3>3 DEF CaughtUpTo
      <4>2. First(pos[q]) = pos[q] + 1
        BY <1>1, <3>2, <3>3 DEF First
      <4>3. /\ Len(sock'[q]) = n
            /\ \A i \in 1 .. n : sock'[q][i].id = pos[q] + i /\ sock'[q][i].kind # "gap"
        <5>1. /\ Len(Missed(q, pos[q])) = CaughtUpTo(pos[q]) - (pos[q] + 1) + 1
              /\ \A i \in 1 .. Len(Missed(q, pos[q])) :
                    /\ Missed(q, pos[q])[i].id = pos[q] + 1 + i - 1
                    /\ Missed(q, pos[q])[i].kind # "gap"
          <6>1. pos[q] + 1 <= newest
            BY <1>1, <3>3
          <6>2. TypeOK
            BY DEF IInv
          <6>3. First(pos[q]) <= newest =>
                   /\ Len(Missed(q, pos[q])) = CaughtUpTo(pos[q]) - First(pos[q]) + 1
                   /\ \A i \in 1 .. Len(Missed(q, pos[q])) :
                        /\ Missed(q, pos[q])[i].id = First(pos[q]) + i - 1
                        /\ Missed(q, pos[q])[i].kind # "gap"
            BY <1>1, <6>2, CatchUp
          <6> QED BY <1>1, <4>2, <6>1, <6>3
        <5>2. Len(sock'[q]) = n
          BY <1>1, <3>1, <4>1, <5>1
        <5>3. ASSUME NEW i \in 1 .. n
              PROVE  sock'[q][i].id = pos[q] + i /\ sock'[q][i].kind # "gap"
          <6>1. sock'[q] = Missed(q, pos[q]) /\ i \in 1 .. Len(Missed(q, pos[q]))
            BY <3>1, <5>2, <5>3
          <6>2. sock'[q][i].id = pos[q] + 1 + i - 1 /\ sock'[q][i].kind # "gap"
            BY <5>1, <6>1
          <6>3. i \in Nat /\ pos[q] + 1 + i - 1 = pos[q] + i
            BY <1>1, <5>3
          <6> QED BY <6>2, <6>3
        <5> QED BY <5>2, <5>3
      <4>4. Stands(q)'
        BY <1>1, <2>1, <3>1, <4>1 DEF Stands
      <4> HIDE DEF n
      <4>5. Ascends(q)'
        <5>1. ASSUME NEW i \in 1 .. n, NEW j \in 1 .. n, i < j
              PROVE  sock'[q][i].id < sock'[q][j].id
          BY <1>1, <4>3, <4>n, <5>1
        <5>2. ASSUME NEW i \in 1 .. n
              PROVE  pos'[q] < sock'[q][i].id /\ sock'[q][i].id <= cursor'[q]
          BY <1>1, <2>1, <3>1, <4>1, <4>3, <4>n, <5>2
        <5> QED BY <4>3, <5>1, <5>2 DEF Ascends
      <4>6. Covered(q)'
        <5>1. ASSUME NEW e \in 1 .. newest, e \notin told[q]
              PROVE  \E i \in 1 .. Len(sock'[q]) : Covers(q, i, e)'
          <6>1. e > pos[q]
            BY <1>1, <5>1 DEF Follows, Covered
          <6>2. e - pos[q] \in 1 .. n /\ sock'[q][e - pos[q]].id = e
            BY <1>1, <4>3, <4>n, <6>1
          <6> QED BY <4>3, <6>2 DEF Covers
        <5> QED BY <1>1, <2>1, <3>1, <4>1, <5>1 DEF Follows, Covered
      <4> QED BY <4>4, <4>5, <4>6 DEF Follows
    <3>4. CASE pos[q] = newest
      <4>1. cursor'[q] = newest /\ Len(sock'[q]) = 0
        BY <1>1, <2>2, <3>1, <3>4, CatchUp DEF IInv, First
      <4> QED BY <1>1, <2>1, <3>4, <4>1 DEF Follows, Stands, Ascends, Covered, Covers
    <3> QED BY <1>1, <3>3, <3>4
  <2> QED BY <2>3, <2>4
<1>3. CASE q # r
  BY <1>1, <1>3, Untouched DEF OpenAfter, log, IInv, TypeOK
<1> QED BY <1>2, <1>3

\* What a reader takes off its connection is the next it had not seen.
LEMMA ReceiveFollows ==
    ASSUME IInv, NEW r \in Readers, Receive(r), NEW q \in Readers
    PROVE  Follows(q)'
<1>1. /\ newest \in Nat /\ Follows(q) /\ pos[q] \in Nat /\ cursor[q] \in Nat
      /\ sock[q] \in Seq(Frames) /\ told[q] \in SUBSET Nat
  BY DEF IInv, TypeOK
<1>2. CASE q = r
  <2> DEFINE f == Head(sock[q])
  <2>1. /\ conn[q] = "live" /\ newest' = newest /\ conn' = conn /\ cursor' = cursor
        /\ sock[q] # <<>> /\ sock'[q] = Tail(sock[q])
        /\ pos'[q] = (IF f.kind = "withheld" THEN pos[q] ELSE f.id)
        /\ told'[q] = told[q] \cup (IF f.kind = "gap" THEN 1 .. f.id ELSE {f.id})
    BY <1>2 DEF Receive, IInv, TypeOK, log
  <2>2. /\ Len(sock[q]) \in Nat \ {0} /\ f = sock[q][1]
        /\ Len(sock'[q]) = Len(sock[q]) - 1
        /\ \A i \in 1 .. Len(sock'[q]) : sock'[q][i] = sock[q][i + 1]
        /\ \A i \in 1 .. Len(sock[q]) : sock[q][i] \in Frames
    BY <1>1, <2>1
  <2>3. \A i \in 1 .. Len(sock[q]) : sock[q][i].id \in Nat
    BY <2>2 DEF Frames
  <2> HIDE DEF f
  <2>4. f.id \in Nat /\ pos[q] < f.id /\ f.id <= cursor[q] /\ cursor[q] = newest
    BY <1>1, <2>1, <2>2, <2>3 DEF Follows, Stands, Ascends
  <2>5. \A i \in 1 .. Len(sock'[q]) : f.id < sock[q][i + 1].id /\ sock[q][i + 1].kind # "gap"
    <3>1. ASSUME NEW i \in 1 .. Len(sock'[q])
          PROVE  f.id < sock[q][i + 1].id /\ sock[q][i + 1].kind # "gap"
      <4>1. i + 1 \in 1 .. Len(sock[q]) /\ 1 \in 1 .. Len(sock[q]) /\ 1 < i + 1
        BY <2>2
      <4> QED BY <1>1, <2>2, <4>1 DEF Follows, Ascends
    <3> QED BY <3>1
  <2>6. Stands(q)'
    BY <1>1, <2>1, <2>4 DEF Follows, Stands
  <2>7. Ascends(q)'
    <3>1. ASSUME NEW i \in 1 .. Len(sock'[q]), NEW j \in 1 .. Len(sock'[q]), i < j
          PROVE  sock'[q][i].id < sock'[q][j].id
      <4>1. i + 1 \in 1 .. Len(sock[q]) /\ j + 1 \in 1 .. Len(sock[q]) /\ i + 1 < j + 1
        BY <2>2, <3>1
      <4> QED BY <1>1, <2>2, <4>1 DEF Follows, Ascends
    <3>2. ASSUME NEW i \in 1 .. Len(sock'[q])
          PROVE  pos'[q] < sock'[q][i].id /\ sock'[q][i].id <= cursor'[q] /\ sock'[q][i].kind # "gap"
      <4>1. i + 1 \in 1 .. Len(sock[q])
        BY <2>2
      <4>2. pos[q] < sock[q][i + 1].id /\ sock[q][i + 1].id <= cursor[q]
        BY <1>1, <4>1 DEF Follows, Ascends
      <4> QED BY <2>1, <2>2, <2>5, <4>2
    <3> QED BY <3>1, <3>2 DEF Ascends
  <2>8. ASSUME NEW e \in 1 .. cursor[q], e \notin told'[q]
        PROVE  \E i \in 1 .. Len(sock'[q]) : Covers(q, i, e)'
    <3>1. PICK i \in 1 .. Len(sock[q]) : Covers(q, i, e)
      BY <1>1, <2>1, <2>8 DEF Follows, Covered
    <3>2. i # 1
      BY <2>1, <2>2, <2>4, <2>8, <3>1 DEF Covers
    <3>3. i - 1 \in 1 .. Len(sock'[q]) /\ sock'[q][i - 1] = sock[q][i]
      BY <2>2, <3>2
    <3> QED BY <3>1, <3>3 DEF Covers
  <2>9. ASSUME NEW e \in 1 .. f.id PROVE e \in told'[q]
    <3>1. CASE f.kind = "gap" \/ e = f.id \/ e \in told[q]
      BY <2>1, <2>9, <3>1
    <3>2. CASE f.kind # "gap" /\ e < f.id /\ e \notin told[q]
      <4>1. e \in 1 .. cursor[q] /\ e \notin told'[q]
        BY <1>1, <2>1, <2>4, <3>2
      <4>2. PICK i \in 1 .. Len(sock'[q]) : Covers(q, i, e)'
        BY <2>8, <4>1
      <4>3. f.id < sock'[q][i].id /\ sock'[q][i].kind # "gap" /\ sock'[q][i].id \in Nat
        BY <2>2, <2>3, <2>5
      <4> QED BY <2>4, <3>2, <4>2, <4>3 DEF Covers
    <3> QED BY <2>4, <2>9, <3>1, <3>2
  <2>10. Covered(q)'
    <3>1. \A e \in 1 .. pos[q] : e \in told'[q]
      BY <1>1, <2>1 DEF Follows, Covered
    <3> QED BY <2>1, <2>8, <2>9, <3>1 DEF Covered
  <2> QED BY <2>6, <2>7, <2>10 DEF Follows
<1>3. CASE q # r
  BY <1>1, <1>3, Untouched DEF Receive, log, IInv, TypeOK
<1> QED BY <1>2, <1>3

\* A lost connection takes its queue with it and leaves what was told.
LEMMA DropFollows ==
    ASSUME IInv, NEW r \in Readers, Drop(r), NEW q \in Readers
    PROVE  Follows(q)'
<1>1. newest \in Nat /\ Follows(q) /\ pos[q] \in Nat
  BY DEF IInv, TypeOK
<1>2. CASE q = r
  <2>1. /\ newest' = newest /\ conn'[q] = "off" /\ cursor' = cursor /\ told' = told
        /\ sock'[q] = <<>> /\ pos'[q] \in {0, pos[q]}
    BY <1>2 DEF Drop, IInv, TypeOK, log
  <2>2. Len(sock'[q]) = 0
    BY <2>1
  <2> QED BY <1>1, <2>1, <2>2 DEF Follows, Stands, Ascends, Covered, Covers
<1>3. CASE q # r
  BY <1>1, <1>3, Untouched DEF Drop, log, IInv, TypeOK
<1> QED BY <1>2, <1>3

\* With events of the last week always in the log, each step keeps all of it.
LEMMA Step == ASSUME ~QuietWeeks PROVE IInv /\ TypeOK' /\ [Next]_vars => IInv'
<1> USE StreamAssumption
<1> SUFFICES ASSUME IInv, TypeOK', [Next]_vars PROVE NeverEmpty' /\ \A q \in Readers : Follows(q)'
  BY DEF IInv
<1>1. ASSUME NEW hide \in BOOLEAN, append(hide)
      PROVE  NeverEmpty' /\ \A q \in Readers : Follows(q)'
  <2>1. NeverEmpty'
    BY <1>1 DEF append, IInv, TypeOK, NeverEmpty
  <2> QED BY <1>1, <2>1, AppendFollows
<1>2. ASSUME NEW aged \in oldest .. newest + 1, pruneEvents(aged)
      PROVE  NeverEmpty' /\ \A q \in Readers : Follows(q)'
  <2>1. NeverEmpty'
    BY <1>2 DEF pruneEvents, IInv, TypeOK, NeverEmpty, Empty
  <2>2. \A q \in Readers : Follows(q)'
    BY <1>2, Untouched DEF pruneEvents, client, IInv
  <2> QED BY <2>1, <2>2
<1>3. ASSUME NEW r \in Readers, ReadLists(r)
      PROVE  NeverEmpty' /\ \A q \in Readers : Follows(q)'
  <2>1. NeverEmpty'
    BY <1>3 DEF ReadLists, log, IInv, NeverEmpty
  <2>2. ASSUME NEW q \in Readers PROVE Follows(q)'
    <3>1. CASE q = r
      <4>1. /\ newest' = newest /\ conn[q] = "off" /\ conn'[q] = "listed" /\ cursor' = cursor
            /\ sock' = sock /\ pos' = pos /\ told' = told /\ Follows(q)
        BY <1>3, <3>1 DEF ReadLists, log, IInv, TypeOK
      <4> QED BY <4>1 DEF Follows, Stands, Ascends, Covered
    <3>2. CASE q # r
      BY <1>3, <3>2, Untouched DEF ReadLists, log, IInv, TypeOK
    <3> QED BY <3>1, <3>2
  <2> QED BY <2>1, <2>2
<1>4. ASSUME NEW r \in Readers, OpenFresh(r)
      PROVE  NeverEmpty' /\ \A q \in Readers : Follows(q)'
  <2>1. NeverEmpty'
    BY <1>4 DEF OpenFresh, log, IInv, NeverEmpty
  <2> QED BY <1>4, <2>1, OpenFreshFollows
<1>5. ASSUME NEW r \in Readers, OpenAfter(r)
      PROVE  NeverEmpty' /\ \A q \in Readers : Follows(q)'
  <2>1. NeverEmpty'
    BY <1>5 DEF OpenAfter, log, IInv, NeverEmpty
  <2> QED BY <1>5, <2>1, OpenAfterFollows
<1>6. ASSUME NEW r \in Readers, Receive(r)
      PROVE  NeverEmpty' /\ \A q \in Readers : Follows(q)'
  <2>1. NeverEmpty'
    BY <1>6 DEF Receive, log, IInv, NeverEmpty
  <2> QED BY <1>6, <2>1, ReceiveFollows
<1>7. ASSUME NEW r \in Readers, Drop(r)
      PROVE  NeverEmpty' /\ \A q \in Readers : Follows(q)'
  <2>1. NeverEmpty'
    BY <1>7 DEF Drop, log, IInv, NeverEmpty
  <2> QED BY <1>7, <2>1, DropFollows
<1>8. CASE UNCHANGED vars
  <2>1. NeverEmpty'
    BY <1>8 DEF vars, IInv, NeverEmpty
  <2> QED BY <1>8, <2>1, Untouched DEF vars, IInv
<1> QED BY <1>1, <1>2, <1>3, <1>4, <1>5, <1>6, <1>7, <1>8 DEF Next, Connect

\* The invariant holds of a log that has never been written.
LEMMA Start == Init => IInv
<1> SUFFICES ASSUME Init PROVE IInv
  OBVIOUS
<1>1. TypeOK
  BY StreamAssumption DEF Init, TypeOK
<1>2. NeverEmpty
  BY DEF Init, NeverEmpty
<1>3. ASSUME NEW q \in Readers PROVE Follows(q)
  BY DEF Init, Follows, Stands, Ascends, Covered, Covers
<1> QED BY <1>1, <1>2, <1>3 DEF IInv

\* With it, the order is kept, no gap is silent, and a resume claims no more
\* than was told.
LEMMA Promises == IInv => InOrder /\ NoSilentGap /\ ResumesFromWhatItSaw
<1> SUFFICES ASSUME IInv PROVE InOrder /\ NoSilentGap /\ ResumesFromWhatItSaw
  OBVIOUS
<1>1. \A r \in Readers : sock[r] \in Seq(Frames) /\ DOMAIN sock[r] = 1 .. Len(sock[r])
  BY DEF IInv, TypeOK
<1>2. InOrder
  BY <1>1 DEF IInv, Follows, Ascends, InOrder
<1>3. NoSilentGap
  BY <1>1 DEF IInv, Follows, Covered, Covers, NoSilentGap, Queued
<1>4. ResumesFromWhatItSaw
  BY DEF IInv, Follows, Covered, ResumesFromWhatItSaw
<1> QED BY <1>2, <1>3, <1>4

------------------------------------------------------------------------------

\* While the log keeps an event younger than a week, a reader never loses one
\* without being told: every event its stream has passed was sent to it, is
\* queued for it, or lies in a gap it is told of (eventStream in stream.ts,
\* pruneEvents in repository.ts), whatever is pruned and however often it
\* reconnects.  What is queued arrives once and in order, and the id it would
\* resume from claims nothing it did not see.
THEOREM NothingIsLost ==
    ASSUME ~QuietWeeks
    PROVE  Spec => [](InOrder /\ NoSilentGap /\ ResumesFromWhatItSaw)
<1>1. Init => IInv
  BY Start
<1>2. IInv /\ TypeOK' /\ [Next]_vars => IInv'
  BY Step
<1>3. IInv => InOrder /\ NoSilentGap /\ ResumesFromWhatItSaw
  BY Promises
<1>4. Spec => []TypeOK
  BY Types
<1> QED BY <1>1, <1>2, <1>3, <1>4, PTL DEF Spec
------------------------------------------------------------------------------
(* The order alone needs none of that: it holds even of a log that a quiet *)
(* week has emptied, where a stream may stand short of the newest event.   *)

Ordered(r) ==
    /\ conn[r] # "live" => sock[r] = <<>>
    /\ cursor[r] <= newest /\ pos[r] <= newest
    /\ \A i, j \in 1 .. Len(sock[r]) : i < j => sock[r][i].id < sock[r][j].id
    /\ \A i \in 1 .. Len(sock[r]) : pos[r] < sock[r][i].id /\ sock[r][i].id <= cursor[r]

\* What the proof looks at of one reader.
LEMMA ReaderTypes ==
    ASSUME TypeOK, NEW q \in Readers
    PROVE  /\ newest \in Nat /\ cursor[q] \in Nat /\ pos[q] \in Nat
           /\ sock[q] \in Seq(Frames) /\ Len(sock[q]) \in Nat
           /\ \A i \in 1 .. Len(sock[q]) : sock[q][i] \in Frames /\ sock[q][i].id \in Nat
<1>1. newest \in Nat /\ cursor[q] \in Nat /\ pos[q] \in Nat /\ sock[q] \in Seq(Frames)
  BY DEF TypeOK
<1>2. Len(sock[q]) \in Nat /\ \A i \in 1 .. Len(sock[q]) : sock[q][i] \in Frames
  BY <1>1
<1> QED BY <1>1, <1>2 DEF Frames

\* A reader no step has touched has its queue in the order it had, whatever
\* was written meanwhile.
LEMMA OrderUntouched ==
    ASSUME TypeOK, NEW q \in Readers, Ordered(q), newest' \in Nat, newest <= newest',
           conn'[q] = conn[q] \/ conn'[q] = "live" \/ sock[q] = <<>>,
           cursor'[q] = cursor[q], sock'[q] = sock[q], pos'[q] = pos[q]
    PROVE  Ordered(q)'
<1>1. cursor[q] <= newest' /\ pos[q] <= newest'
  BY ReaderTypes DEF Ordered
<1> QED BY <1>1 DEF Ordered

\* An event appended goes behind all a stream has queued.
LEMMA AppendOrdered ==
    ASSUME TypeOK, NEW hide \in BOOLEAN, append(hide), NEW q \in Readers, Ordered(q)
    PROVE  Ordered(q)'
<1> DEFINE s == newest + 1
           hid == IF hide THEN withheld \cup {s} ELSE withheld
           f == Frame(q, s, hid)
<1>1. newest' = s /\ conn' = conn /\ pos' = pos
  BY DEF append
<1>2. CASE conn[q] = "live" /\ s > cursor[q]
  <2>1. cursor'[q] = s /\ sock'[q] = Append(sock[q], f)
    BY <1>2 DEF append
  <2>2. f \in Frames /\ f.id = s
    BY ReaderTypes, FrameType
  <2> HIDE DEF f, hid
  <2>3. /\ Len(sock'[q]) = Len(sock[q]) + 1
        /\ \A i \in 1 .. Len(sock[q]) : sock'[q][i] = sock[q][i]
        /\ sock'[q][Len(sock[q]) + 1] = f
    BY <2>1, <2>2, ReaderTypes
  <2>4. ASSUME NEW i \in 1 .. Len(sock[q])
        PROVE  pos[q] < sock'[q][i].id /\ sock'[q][i].id < s
    BY <2>3, <2>4, ReaderTypes DEF Ordered
  <2>5. ASSUME NEW i \in 1 .. Len(sock'[q]) PROVE i \in 1 .. Len(sock[q]) \/ i = Len(sock[q]) + 1
    BY <2>3, <2>5, ReaderTypes
  <2>6. ASSUME NEW i \in 1 .. Len(sock'[q]), NEW j \in 1 .. Len(sock'[q]), i < j
        PROVE  sock'[q][i].id < sock'[q][j].id
    <3>1. i \in 1 .. Len(sock[q])
      BY <2>3, <2>6, ReaderTypes
    <3>2. CASE j \in 1 .. Len(sock[q])
      BY <2>3, <2>6, <3>1, <3>2 DEF Ordered
    <3>3. CASE j = Len(sock[q]) + 1
      BY <2>2, <2>3, <2>4, <3>1, <3>3
    <3> QED BY <2>5, <3>2, <3>3
  <2>7. ASSUME NEW i \in 1 .. Len(sock'[q])
        PROVE  pos[q] < sock'[q][i].id /\ sock'[q][i].id <= s
    <3>1. CASE i \in 1 .. Len(sock[q])
      <4>1. sock'[q][i].id \in Nat
        BY <2>3, <3>1, ReaderTypes
      <4> QED BY <2>4, <3>1, <4>1, ReaderTypes
    <3>2. CASE i = Len(sock[q]) + 1
      BY <2>2, <2>3, <3>2, ReaderTypes DEF Ordered
    <3> QED BY <2>5, <3>1, <3>2
  <2>8. s <= s /\ pos[q] <= s
    BY ReaderTypes DEF Ordered
  <2> HIDE DEF s
  <2> QED BY <1>1, <1>2, <2>1, <2>6, <2>7, <2>8 DEF Ordered
<1>3. CASE ~(conn[q] = "live" /\ s > cursor[q])
  <2>1. cursor'[q] = cursor[q] /\ sock'[q] = sock[q]
    BY <1>3 DEF append
  <2>2. newest' \in Nat /\ newest <= newest'
    BY <1>1, ReaderTypes
  <2> QED BY <1>1, <2>1, <2>2, OrderUntouched
<1> QED BY <1>2, <1>3

\* A reader that resumes has queued the gap alone, past what it saw, or what
\* the log holds past what it saw.
LEMMA OpenAfterOrdered ==
    ASSUME TypeOK, NEW r \in Readers, OpenAfter(r), Ordered(r)
    PROVE  Ordered(r)'
<1>1. newest' = newest /\ conn'[r] = "live" /\ pos' = pos
  BY DEF OpenAfter, TypeOK, log
<1>2. CASE HasGap(pos[r])
  <2>1. cursor'[r] = lastSeq /\ sock'[r] = <<[id |-> lastSeq, kind |-> "gap"]>>
    BY <1>2 DEF OpenAfter, TypeOK
  <2>2. Len(sock'[r]) = 1 /\ sock'[r][1].id = lastSeq
    BY <2>1
  <2>3. lastSeq \in Nat /\ lastSeq <= newest
    BY ReaderTypes DEF lastSeq
  <2>4. pos[r] < lastSeq
    BY <1>2, <2>3, ReaderTypes, StreamAssumption DEF HasGap
  <2> QED BY <1>1, <2>1, <2>2, <2>3, <2>4 DEF Ordered
<1>3. CASE ~HasGap(pos[r])
  <2> DEFINE c == CaughtUpTo(pos[r])
             m == Missed(r, pos[r])
             b == First(pos[r])
  <2>1. cursor'[r] = c /\ sock'[r] = m
    BY <1>3 DEF OpenAfter, TypeOK
  <2>2. c \in Nat /\ Len(m) \in Nat
        /\ (b > newest => c = pos[r] /\ Len(m) = 0)
        /\ (b <= newest =>
               /\ b <= c /\ c <= newest /\ Len(m) = c - b + 1
               /\ \A i \in 1 .. Len(m) : m[i].id = b + i - 1)
    <3>1. pos[r] \in Nat /\ m \in Seq(Frames)
      BY CatchUp, ReaderTypes
    <3>2. Len(m) \in Nat
      BY <3>1
    <3> QED BY <3>1, <3>2, CatchUp
  <2>3. b \in Nat /\ pos[r] < b
    BY ReaderTypes DEF First, TypeOK
  <2> HIDE DEF c, m, b
  <2>4. c <= newest
    BY <2>2, <2>3, ReaderTypes DEF Ordered
  <2>5. ASSUME NEW i \in 1 .. Len(m) PROVE pos[r] < m[i].id /\ m[i].id <= c
    BY <2>2, <2>3, <2>5, ReaderTypes
  <2>6. ASSUME NEW i \in 1 .. Len(m), NEW j \in 1 .. Len(m), i < j PROVE m[i].id < m[j].id
    BY <2>2, <2>3, <2>6, ReaderTypes
  <2> QED BY <1>1, <2>1, <2>4, <2>5, <2>6 DEF Ordered
<1> QED BY <1>2, <1>3

\* What a reader takes off its connection lies before all it leaves there.
LEMMA ReceiveOrdered ==
    ASSUME TypeOK, NEW r \in Readers, Receive(r), Ordered(r)
    PROVE  Ordered(r)'
<1> DEFINE f == Head(sock[r])
<1>1. /\ conn[r] = "live" /\ newest' = newest /\ conn' = conn /\ cursor' = cursor
      /\ sock[r] # <<>> /\ sock'[r] = Tail(sock[r])
      /\ pos'[r] = (IF f.kind = "withheld" THEN pos[r] ELSE f.id)
  BY DEF Receive, TypeOK, log
<1>2. /\ Len(sock[r]) \in Nat \ {0} /\ f = sock[r][1]
      /\ Len(sock'[r]) = Len(sock[r]) - 1
      /\ \A i \in 1 .. Len(sock'[r]) : sock'[r][i] = sock[r][i + 1]
  BY <1>1, ReaderTypes
<1> HIDE DEF f
<1>3. f.id \in Nat /\ pos[r] < f.id /\ f.id <= cursor[r]
  BY <1>2, ReaderTypes DEF Ordered
<1>4. pos'[r] \in Nat /\ pos'[r] <= f.id /\ pos'[r] <= newest
  BY <1>1, <1>3, ReaderTypes DEF Ordered
<1>5. ASSUME NEW i \in 1 .. Len(sock'[r]), NEW j \in 1 .. Len(sock'[r]), i < j
      PROVE  sock'[r][i].id < sock'[r][j].id
  <2>1. i + 1 \in 1 .. Len(sock[r]) /\ j + 1 \in 1 .. Len(sock[r]) /\ i + 1 < j + 1
    BY <1>2, <1>5
  <2> QED BY <1>2, <2>1 DEF Ordered
<1>6. ASSUME NEW i \in 1 .. Len(sock'[r])
      PROVE  pos'[r] < sock'[r][i].id /\ sock'[r][i].id <= cursor[r]
  <2>1. i + 1 \in 1 .. Len(sock[r]) /\ 1 \in 1 .. Len(sock[r]) /\ 1 < i + 1
    BY <1>2
  <2>2. f.id < sock[r][i + 1].id /\ sock[r][i + 1].id <= cursor[r] /\ sock[r][i + 1].id \in Nat
    BY <1>2, <2>1, ReaderTypes DEF Ordered
  <2>3. sock'[r][i] = sock[r][i + 1]
    BY <1>2
  <2>4. pos'[r] < sock[r][i + 1].id
    BY <1>3, <1>4, <2>2
  <2> QED BY <2>2, <2>3, <2>4
<1> QED BY <1>1, <1>4, <1>5, <1>6 DEF Ordered

\* Each step leaves every queue in order.
LEMMA OrderStep ==
    TypeOK /\ (\A q \in Readers : Ordered(q)) /\ [Next]_vars => \A q \in Readers : Ordered(q)'
<1> SUFFICES ASSUME TypeOK, \A q \in Readers : Ordered(q), [Next]_vars, NEW q \in Readers
             PROVE  Ordered(q)'
  OBVIOUS
<1>0. newest \in Nat /\ newest <= newest /\ lastSeq \in Nat /\ lastSeq <= newest
  BY ReaderTypes DEF lastSeq
<1>1. ASSUME NEW hide \in BOOLEAN, append(hide) PROVE Ordered(q)'
  BY <1>1, AppendOrdered
<1>2. ASSUME NEW aged \in oldest .. newest + 1, pruneEvents(aged) PROVE Ordered(q)'
  BY <1>0, <1>2, OrderUntouched DEF pruneEvents, client
<1>3. ASSUME NEW r \in Readers, ReadLists(r) PROVE Ordered(q)'
  <2>1. conn'[q] = conn[q] \/ sock[q] = <<>>
    BY <1>3 DEF ReadLists, Ordered, TypeOK
  <2> QED BY <1>0, <1>3, <2>1, OrderUntouched DEF ReadLists, log
<1>4. ASSUME NEW r \in Readers, OpenFresh(r) PROVE Ordered(q)'
  <2>1. CASE q = r
    <3>1. /\ newest' = newest /\ conn'[q] = "live" /\ cursor'[q] = lastSeq /\ sock'[q] = <<>>
          /\ pos' = pos
      BY <1>4, <2>1 DEF OpenFresh, TypeOK, log
    <3>2. Len(sock'[q]) = 0
      BY <3>1
    <3> QED BY <1>0, <3>1, <3>2 DEF Ordered
  <2>2. CASE q # r
    BY <1>0, <1>4, <2>2, OrderUntouched DEF OpenFresh, log, TypeOK
  <2> QED BY <2>1, <2>2
<1>5. ASSUME NEW r \in Readers, OpenAfter(r) PROVE Ordered(q)'
  <2>1. CASE q # r
    BY <1>0, <1>5, <2>1, OrderUntouched DEF OpenAfter, log, TypeOK
  <2> QED BY <1>5, <2>1, OpenAfterOrdered
<1>6. ASSUME NEW r \in Readers, Receive(r) PROVE Ordered(q)'
  <2>1. CASE q # r
    BY <1>0, <1>6, <2>1, OrderUntouched DEF Receive, log, TypeOK
  <2> QED BY <1>6, <2>1, ReceiveOrdered
<1>7. ASSUME NEW r \in Readers, Drop(r) PROVE Ordered(q)'
  <2>1. CASE q = r
    <3>1. /\ newest' = newest /\ cursor' = cursor /\ sock'[q] = <<>> /\ pos'[q] \in {0, pos[q]}
      BY <1>7, <2>1 DEF Drop, TypeOK, log
    <3>2. Len(sock'[q]) = 0
      BY <3>1
    <3> QED BY <1>0, <3>1, <3>2 DEF Ordered
  <2>2. CASE q # r
    BY <1>0, <1>7, <2>2, OrderUntouched DEF Drop, log, TypeOK
  <2> QED BY <2>1, <2>2
<1>8. CASE UNCHANGED vars
  BY <1>0, <1>8, OrderUntouched DEF vars
<1> QED BY <1>1, <1>2, <1>3, <1>4, <1>5, <1>6, <1>7, <1>8 DEF Next, Connect

\* A reader sees each event at most once and in the order it was written: what
\* is queued for it ascends, lies past what it has seen and ends at the stream's
\* cursor (the catch-up and the sequence check of eventStream, stream.ts), for
\* every log, pruned or emptied, and however often the connection is lost.
THEOREM StreamsAreInOrder == Spec => []InOrder
<1> DEFINE Inv == \A q \in Readers : Ordered(q)
<1>1. Init => Inv
  <2> SUFFICES ASSUME Init, NEW q \in Readers PROVE Ordered(q)
    OBVIOUS
  <2>1. sock[q] = <<>> /\ Len(sock[q]) = 0 /\ cursor[q] = 0 /\ pos[q] = 0 /\ newest = 0
    BY DEF Init
  <2> QED BY <2>1 DEF Ordered
<1>2. TypeOK /\ Inv /\ [Next]_vars => Inv'
  BY OrderStep
<1>3. TypeOK /\ Inv => InOrder
  <2> SUFFICES ASSUME TypeOK, Inv PROVE InOrder
    OBVIOUS
  <2>1. \A q \in Readers : DOMAIN sock[q] = 1 .. Len(sock[q])
    BY ReaderTypes
  <2> QED BY <2>1 DEF Ordered, InOrder
<1>4. Spec => []TypeOK
  BY Types
<1> HIDE DEF Inv
<1> QED BY <1>1, <1>2, <1>3, <1>4, PTL DEF Spec

\* While the log keeps an event younger than a week, the id a reader would send
\* back claims nothing it was not told of: all up to it was sent, or lay in a gap
\* it was told of, or came before its first stream (Last-Event-ID, stream.ts).
THEOREM ResumesAreHonest == ASSUME ~QuietWeeks PROVE Spec => []ResumesFromWhatItSaw
<1>1. Init => IInv
  BY Start
<1>2. IInv /\ TypeOK' /\ [Next]_vars => IInv'
  BY Step
<1>3. IInv => ResumesFromWhatItSaw
  BY Promises
<1>4. Spec => []TypeOK
  BY Types
<1> QED BY <1>1, <1>2, <1>3, <1>4, PTL DEF Spec
==============================================================================
