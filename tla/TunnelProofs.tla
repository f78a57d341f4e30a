----------------------------- MODULE TunnelProofs -----------------------------
(***************************************************************************)
(* What the tunnel promises, proved for every set of requests and sockets, *)
(* every window, step and chunk, and every size of what is sent: the host  *)
(* is never a chunk over the window past what the reader took, an answer   *)
(* that ended is whole, and two sides with nothing between them agree on   *)
(* what is open.                                                           *)
(***************************************************************************)
EXTENDS Tunnel, TLAPS

------------------------------------------------------------------------------
(* What a queue holds.                                                     *)

Openers == {"reqHead", "wsOpen"}
Enders  == {"abort", "wsClose"}
Ends    == {"resEnd", "resNull"}
Closers == Ends \cup Enders

\* A frame of some types, of a stream.
Has(q, T, s) == \E i \in 1 .. Len(q) : q[i].stream = s /\ q[i].type \in T

\* Nothing of a stream is before its opening, and its body has one end.
Leads(q, s) ==
    \A i, j \in 1 .. Len(q) : i < j /\ q[j].stream = s /\ q[j].type \in Openers => q[i].stream # s
OneEnd(q, s) ==
    \A i, j \in 1 .. Len(q) : /\ q[i].stream = s /\ q[i].type = "reqEnd"
                              /\ q[j].stream = s /\ q[j].type = "reqEnd"
                              => i = j

\* The bytes a stream's frames of a type carry bring a count from lo to hi, and
\* none are left past a frame of the types in E.
Weight(f, type, s) == IF f.stream = s /\ f.type = type THEN f.bytes ELSE 0
Counts(acc, q, type, E, s, lo, hi) ==
    /\ acc[0] = lo /\ acc[Len(q)] = hi
    /\ \A i \in 0 .. Len(q) : acc[i] <= hi
    /\ \A i \in 1 .. Len(q) : /\ acc[i] = acc[i - 1] + Weight(q[i], type, s)
                              /\ q[i].stream = s /\ q[i].type \in E => acc[i] = hi
Flows(q, type, E, s, lo, hi) == \E acc \in [0 .. Len(q) -> Nat] : Counts(acc, q, type, E, s, lo, hi)

LEMMA WeightIs ==
    ASSUME NEW f \in Frames, NEW type, NEW s
    PROVE  Weight(f, type, s) \in Nat
BY DEF Weight, Frames

LEMMA Nothing ==
    ASSUME NEW s
    PROVE  /\ \A T : ~Has(<<>>, T, s)
           /\ Leads(<<>>, s) /\ OneEnd(<<>>, s)
BY DEF Has, Leads, OneEnd

\* A place in a queue behind a queue is in the one or in the other.
LEMMA Cut ==
    ASSUME NEW m \in Nat, NEW n \in Nat
    PROVE  \A i \in 1 .. m + n : i \in 1 .. m \/ \E j \in 1 .. n : i = m + j
<1> TAKE i \in 1 .. m + n
<1>1. CASE i <= m
  BY <1>1
<1>2. CASE ~(i <= m)
  <2>1. i - m \in 1 .. n /\ i = m + (i - m)
    BY <1>2
  <2> QED BY <2>1
<1> QED BY <1>1, <1>2

\* Frames of no weight count for nothing.
LEMMA FlowsNone ==
    ASSUME NEW q \in Seq(Frames), NEW type, NEW E, NEW s, NEW n \in Nat, ~Has(q, {type}, s)
    PROVE  Flows(q, type, E, s, n, n)
<1> DEFINE acc == [i \in 0 .. Len(q) |-> n]
<1>1. Len(q) \in Nat /\ acc \in [0 .. Len(q) -> Nat] /\ \A i \in 0 .. Len(q) : acc[i] = n
  OBVIOUS
<1>2. \A i \in 1 .. Len(q) : Weight(q[i], type, s) = 0 /\ i \in 0 .. Len(q) /\ i - 1 \in 0 .. Len(q)
  BY DEF Has, Weight
<1>3. 0 \in 0 .. Len(q) /\ Len(q) \in 0 .. Len(q)
  BY <1>1
<1>4. Counts(acc, q, type, E, s, n, n)
  <2> HIDE DEF acc
  <2> QED BY <1>1, <1>2, <1>3 DEF Counts
<1> QED BY <1>1, <1>4 DEF Flows

\* One frame.
LEMMA FlowsOne ==
    ASSUME NEW f \in Frames, NEW type, NEW E, NEW s, NEW n \in Nat
    PROVE  Flows(<<f>>, type, E, s, n, n + Weight(f, type, s))
<1> DEFINE w == Weight(f, type, s)
           acc == [i \in 0 .. 1 |-> IF i = 0 THEN n ELSE n + w]
<1>1. w \in Nat /\ Len(<<f>>) = 1 /\ <<f>>[1] = f
  BY WeightIs
<1> HIDE DEF w
<1>2. acc \in [0 .. Len(<<f>>) -> Nat] /\ acc[0] = n /\ acc[1] = n + w
  BY <1>1
<1>3. 0 .. 1 = {0, 1} /\ 1 .. 1 = {1} /\ 1 - 1 = 0
  OBVIOUS
<1> HIDE DEF acc
<1>4. Counts(acc, <<f>>, type, E, s, n, n + w)
  BY <1>1, <1>2, <1>3 DEF Counts, w
<1> QED BY <1>2, <1>4 DEF Flows, w

LEMMA FlowsTypes ==
    ASSUME NEW q \in Seq(Frames), NEW type, NEW E, NEW s, NEW lo, NEW hi, Flows(q, type, E, s, lo, hi)
    PROVE  lo \in Nat /\ hi \in Nat /\ lo <= hi
<1>1. PICK acc \in [0 .. Len(q) -> Nat] : Counts(acc, q, type, E, s, lo, hi)
  BY DEF Flows
<1>2. 0 \in 0 .. Len(q) /\ Len(q) \in 0 .. Len(q)
  OBVIOUS
<1> QED BY <1>1, <1>2 DEF Counts

\* Frames behind frames.
LEMMA FlowsOn ==
    ASSUME NEW q \in Seq(Frames), NEW r \in Seq(Frames), NEW type, NEW E, NEW s, NEW lo, NEW mid, NEW hi,
           Flows(q, type, E, s, lo, mid), Flows(r, type, E, s, mid, hi), mid = hi \/ ~Has(q, E, s)
    PROVE  Flows(q \o r, type, E, s, lo, hi)
<1>1. PICK a \in [0 .. Len(q) -> Nat] : Counts(a, q, type, E, s, lo, mid)
  BY DEF Flows
<1>2. PICK b \in [0 .. Len(r) -> Nat] : Counts(b, r, type, E, s, mid, hi)
  BY DEF Flows
<1>3. PICK m \in Nat, n \in Nat, l \in Nat : m = Len(q) /\ n = Len(r) /\ l = Len(q \o r) /\ l = m + n
  OBVIOUS
<1>4. /\ \A i \in 1 .. m : (q \o r)[i] = q[i]
      /\ \A i \in 1 .. n : (q \o r)[m + i] = r[i]
  BY <1>3
<1>5. lo \in Nat /\ mid \in Nat /\ hi \in Nat /\ mid <= hi
  BY FlowsTypes
<1> DEFINE acc == [i \in 0 .. l |-> IF i <= m THEN a[i] ELSE b[i - m]]
<1>6. acc \in [0 .. Len(q \o r) -> Nat]
  <2>1. \A i \in 0 .. l : (i <= m => i \in 0 .. m) /\ (~(i <= m) => i - m \in 0 .. n)
    BY <1>3
  <2> QED BY <1>3, <2>1
<1>7. /\ \A i \in 0 .. m : acc[i] = a[i]
      /\ \A i \in 0 .. n : acc[m + i] = b[i]
  <2>1. \A i \in 0 .. m : i \in 0 .. l /\ i <= m
    BY <1>3
  <2>2. \A i \in 0 .. n : m + i \in 0 .. l /\ (m + i <= m => i = 0) /\ (m + i) - m = i
    BY <1>3
  <2>3. a[m] = mid /\ b[0] = mid /\ m + 0 = m
    BY <1>1, <1>2, <1>3 DEF Counts
  <2> QED BY <2>1, <2>2, <2>3
<1> HIDE DEF acc
<1>8. \A i \in 0 .. l : i \in 0 .. m \/ \E j \in 1 .. n : i = m + j
  <2> TAKE i \in 0 .. l
  <2>1. CASE i <= m
    BY <1>3, <2>1
  <2>2. CASE ~(i <= m)
    <3>1. i - m \in 1 .. n /\ i = m + (i - m)
      BY <1>3, <2>2
    <3> QED BY <3>1
  <2> QED BY <2>1, <2>2
<1>9. acc[0] = lo /\ acc[l] = hi
  <2>1. 0 \in 0 .. m /\ n \in 0 .. n
    BY <1>3
  <2> QED BY <2>1, <1>1, <1>2, <1>3, <1>7 DEF Counts
<1>10. \A i \in 0 .. l : acc[i] <= hi
  <2> TAKE i \in 0 .. l
  <2>1. CASE i \in 0 .. m
    <3>1. acc[i] = a[i] /\ a[i] <= mid /\ a[i] \in Nat
      BY <1>1, <1>3, <1>7, <2>1 DEF Counts
    <3> QED BY <1>5, <3>1
  <2>2. ASSUME NEW j \in 1 .. n, i = m + j
        PROVE  acc[i] <= hi
    <3>1. j \in 0 .. n
      OBVIOUS
    <3> QED BY <1>2, <1>3, <1>7, <2>2, <3>1 DEF Counts
  <2> QED BY <1>8, <2>1, <2>2
<1>11. ASSUME NEW i \in 1 .. l
       PROVE  /\ acc[i] = acc[i - 1] + Weight((q \o r)[i], type, s)
              /\ (q \o r)[i].stream = s /\ (q \o r)[i].type \in E => acc[i] = hi
  <2>1. CASE i \in 1 .. m
    <3>1. i \in 0 .. m /\ i - 1 \in 0 .. m
      BY <2>1
    <3>2. acc[i] = acc[i - 1] + Weight(q[i], type, s)
      BY <1>1, <1>3, <1>7, <2>1, <3>1 DEF Counts
    <3>3. q[i].stream = s /\ q[i].type \in E => acc[i] = hi
      BY <1>1, <1>3, <1>7, <2>1, <3>1 DEF Counts, Has
    <3> QED BY <1>4, <2>1, <3>2, <3>3
  <2>2. ASSUME NEW j \in 1 .. n, i = m + j
        PROVE  /\ acc[i] = acc[i - 1] + Weight(r[j], type, s)
               /\ r[j].stream = s /\ r[j].type \in E => acc[i] = hi
    <3>1. j \in 0 .. n /\ j - 1 \in 0 .. n /\ i - 1 = m + (j - 1)
      BY <2>2
    <3>2. b[j] = b[j - 1] + Weight(r[j], type, s) /\ (r[j].stream = s /\ r[j].type \in E => b[j] = hi)
      BY <1>2, <1>3 DEF Counts
    <3>3. acc[i] = b[j] /\ acc[i - 1] = b[j - 1]
      BY <1>7, <2>2, <3>1
    <3> QED BY <3>2, <3>3
  <2>3. i \in 1 .. m \/ \E j \in 1 .. n : i = m + j
    <3>1. i \in 1 .. m + n
      BY <1>3
    <3>2. \A k \in 1 .. m + n : k \in 1 .. m \/ \E j \in 1 .. n : k = m + j
      BY Cut
    <3> QED BY <3>1, <3>2
  <2>4. CASE \E j \in 1 .. n : i = m + j
    <3>1. PICK j \in 1 .. n : i = m + j
      BY <2>4
    <3>2. (q \o r)[i] = r[j]
      BY <1>4, <3>1
    <3> QED BY <2>2, <3>1, <3>2
  <2> QED BY <2>1, <2>3, <2>4
<1>12. Counts(acc, q \o r, type, E, s, lo, hi)
  BY <1>3, <1>9, <1>10, <1>11 DEF Counts
<1> QED BY <1>6, <1>12 DEF Flows

\* The first frame is taken off.
LEMMA FlowsTail ==
    ASSUME NEW q \in Seq(Frames), q # <<>>, NEW type, NEW E, NEW s, NEW lo, NEW hi, Flows(q, type, E, s, lo, hi)
    PROVE  /\ Flows(Tail(q), type, E, s, lo + Weight(Head(q), type, s), hi)
           /\ Head(q).stream = s /\ Head(q).type \in E => lo + Weight(Head(q), type, s) = hi
<1>1. PICK a \in [0 .. Len(q) -> Nat] : Counts(a, q, type, E, s, lo, hi)
  BY DEF Flows
<1>2. PICK m \in Nat : m = Len(q) /\ m > 0 /\ Len(Tail(q)) = m - 1 /\ Head(q) = q[1]
                       /\ \A i \in 1 .. m - 1 : Tail(q)[i] = q[i + 1]
  OBVIOUS
<1>3. /\ a[1] = lo + Weight(Head(q), type, s)
      /\ Head(q).stream = s /\ Head(q).type \in E => a[1] = hi
  <2>1. 1 \in 1 .. m /\ 1 - 1 = 0
    BY <1>2
  <2> QED BY <1>1, <1>2, <2>1 DEF Counts
<1> DEFINE acc == [i \in 0 .. m - 1 |-> a[i + 1]]
<1>4. \A i \in 0 .. m - 1 : i + 1 \in 0 .. m /\ i + 1 \in 1 .. m
  BY <1>2
<1>5. acc \in [0 .. Len(Tail(q)) -> Nat] /\ \A i \in 0 .. m - 1 : acc[i] = a[i + 1]
  BY <1>2, <1>4
<1> HIDE DEF acc
<1>6. 0 \in 0 .. m - 1 /\ m - 1 \in 0 .. m - 1 /\ (m - 1) + 1 = m /\ 0 + 1 = 1
  BY <1>2
<1>7. acc[0] = a[1] /\ acc[m - 1] = hi
  BY <1>1, <1>2, <1>5, <1>6 DEF Counts
<1>8. \A i \in 0 .. m - 1 : acc[i] <= hi
  BY <1>1, <1>2, <1>4, <1>5 DEF Counts
<1>9. ASSUME NEW i \in 1 .. m - 1
      PROVE  /\ acc[i] = acc[i - 1] + Weight(Tail(q)[i], type, s)
             /\ Tail(q)[i].stream = s /\ Tail(q)[i].type \in E => acc[i] = hi
  <2>1. i \in 0 .. m - 1 /\ i - 1 \in 0 .. m - 1 /\ (i - 1) + 1 = i /\ (i + 1) - 1 = i /\ i + 1 \in 1 .. m
    BY <1>2
  <2>2. a[i + 1] = a[i] + Weight(q[i + 1], type, s) /\ (q[i + 1].stream = s /\ q[i + 1].type \in E => a[i + 1] = hi)
    BY <1>1, <1>2, <2>1 DEF Counts
  <2>3. acc[i] = a[i + 1] /\ acc[i - 1] = a[i]
    BY <1>5, <2>1
  <2> QED BY <1>2, <2>2, <2>3
<1>10. Counts(acc, Tail(q), type, E, s, a[1], hi)
  BY <1>2, <1>7, <1>8, <1>9 DEF Counts
<1> QED BY <1>3, <1>5, <1>10 DEF Flows

LEMMA HasOn ==
    ASSUME NEW q \in Seq(Frames), NEW r \in Seq(Frames), NEW s
    PROVE  /\ q \o r \in Seq(Frames)
           /\ \A T : Has(q \o r, T, s) <=> Has(q, T, s) \/ Has(r, T, s)
<1>1. PICK m \in Nat, n \in Nat : m = Len(q) /\ n = Len(r) /\ Len(q \o r) = m + n
  OBVIOUS
<1>2. /\ \A i \in 1 .. m : (q \o r)[i] = q[i] /\ i \in 1 .. m + n
      /\ \A i \in 1 .. n : (q \o r)[m + i] = r[i] /\ m + i \in 1 .. m + n
  BY <1>1
<1>3. \A i \in 1 .. m + n : i \in 1 .. m \/ \E j \in 1 .. n : i = m + j
  BY Cut
<1>4. ASSUME NEW T
      PROVE  Has(q \o r, T, s) <=> Has(q, T, s) \/ Has(r, T, s)
  <2>1. ASSUME Has(q, T, s) \/ Has(r, T, s)
        PROVE  Has(q \o r, T, s)
    <3>1. CASE Has(q, T, s)
      <4>1. PICK i \in 1 .. m : q[i].stream = s /\ q[i].type \in T
        BY <1>1, <3>1 DEF Has
      <4>2. i \in 1 .. m + n /\ (q \o r)[i] = q[i]
        BY <1>2
      <4> QED BY <1>1, <4>1, <4>2 DEF Has
    <3>2. CASE Has(r, T, s)
      <4>1. PICK i \in 1 .. n : r[i].stream = s /\ r[i].type \in T
        BY <1>1, <3>2 DEF Has
      <4>2. m + i \in 1 .. m + n /\ (q \o r)[m + i] = r[i]
        BY <1>2
      <4> QED BY <1>1, <4>1, <4>2 DEF Has
    <3> QED BY <2>1, <3>1, <3>2
  <2>2. ASSUME Has(q \o r, T, s)
        PROVE  Has(q, T, s) \/ Has(r, T, s)
    <3>1. PICK i \in 1 .. m + n : (q \o r)[i].stream = s /\ (q \o r)[i].type \in T
      BY <1>1, <2>2 DEF Has
    <3>2. CASE i \in 1 .. m
      BY <1>1, <1>2, <3>1, <3>2 DEF Has
    <3>3. ASSUME NEW j \in 1 .. n, i = m + j
          PROVE  Has(r, T, s)
      BY <1>1, <1>2, <3>1, <3>3 DEF Has
    <3> QED BY <1>3, <3>2, <3>3
  <2> QED BY <2>1, <2>2
<1>5. q \o r \in Seq(Frames)
  OBVIOUS
<1> QED BY <1>4, <1>5

LEMMA LeadsOn ==
    ASSUME NEW q \in Seq(Frames), NEW r \in Seq(Frames), NEW s
    PROVE  /\ Leads(q, s) /\ Leads(r, s) /\ (Has(q, Types, s) => ~Has(r, Openers, s)) => Leads(q \o r, s)
           /\ OneEnd(q, s) /\ OneEnd(r, s) /\ ~(Has(q, {"reqEnd"}, s) /\ Has(r, {"reqEnd"}, s)) => OneEnd(q \o r, s)
<1>1. PICK m \in Nat, n \in Nat : m = Len(q) /\ n = Len(r) /\ Len(q \o r) = m + n
  OBVIOUS
<1>2. /\ \A i \in 1 .. m : (q \o r)[i] = q[i] /\ q[i] \in Frames
      /\ \A i \in 1 .. n : (q \o r)[m + i] = r[i]
  BY <1>1
<1>3. \A i \in 1 .. m + n : i \in 1 .. m \/ \E j \in 1 .. n : i = m + j
  BY Cut
<1>4. \A i \in 1 .. m : q[i].type \in Types
  BY <1>2 DEF Frames
<1>5. ASSUME Leads(q, s), Leads(r, s), Has(q, Types, s) => ~Has(r, Openers, s)
      PROVE  Leads(q \o r, s)
  <2> SUFFICES ASSUME NEW i \in 1 .. m + n, NEW j \in 1 .. m + n, i < j, (q \o r)[j].stream = s,
                      (q \o r)[j].type \in Openers
               PROVE  (q \o r)[i].stream # s
    BY <1>1 DEF Leads
  <2>1. CASE j \in 1 .. m
    <3>1. i \in 1 .. m
      BY <2>1, <1>1
    <3> QED BY <1>1, <1>2, <1>5, <2>1, <3>1 DEF Leads
  <2>2. ASSUME NEW l \in 1 .. n, j = m + l
        PROVE  (q \o r)[i].stream # s
    <3>1. r[l].stream = s /\ r[l].type \in Openers /\ Has(r, Openers, s)
      BY <1>1, <1>2, <2>2 DEF Has
    <3>2. CASE i \in 1 .. m
      BY <1>1, <1>2, <1>4, <1>5, <3>1, <3>2 DEF Has
    <3>3. ASSUME NEW k \in 1 .. n, i = m + k
          PROVE  (q \o r)[i].stream # s
      <4>1. k < l
        BY <2>2, <3>3, <1>1
      <4> QED BY <1>1, <1>2, <1>5, <3>1, <3>3, <4>1 DEF Leads
    <3> QED BY <1>3, <3>2, <3>3
  <2> QED BY <1>3, <2>1, <2>2
<1>6. ASSUME OneEnd(q, s), OneEnd(r, s), ~(Has(q, {"reqEnd"}, s) /\ Has(r, {"reqEnd"}, s))
      PROVE  OneEnd(q \o r, s)
  <2> SUFFICES ASSUME NEW i \in 1 .. m + n, NEW j \in 1 .. m + n,
                      (q \o r)[i].stream = s, (q \o r)[i].type = "reqEnd",
                      (q \o r)[j].stream = s, (q \o r)[j].type = "reqEnd"
               PROVE  i = j
    BY <1>1 DEF OneEnd
  <2>1. \A k \in 1 .. m : q[k].stream = s /\ q[k].type = "reqEnd" => Has(q, {"reqEnd"}, s)
    BY <1>1 DEF Has
  <2>2. \A k \in 1 .. n : r[k].stream = s /\ r[k].type = "reqEnd" => Has(r, {"reqEnd"}, s)
    BY <1>1 DEF Has
  <2>3. CASE i \in 1 .. m /\ j \in 1 .. m
    BY <1>1, <1>2, <1>6, <2>3 DEF OneEnd
  <2>4. ASSUME NEW k \in 1 .. n, i = m + k, NEW l \in 1 .. n, j = m + l
        PROVE  i = j
    BY <1>1, <1>2, <1>6, <2>4 DEF OneEnd
  <2> QED BY <1>2, <1>3, <1>6, <2>1, <2>2, <2>3, <2>4
<1> QED BY <1>5, <1>6

LEMMA HasTail ==
    ASSUME NEW q \in Seq(Frames), q # <<>>, NEW s
    PROVE  /\ Head(q) \in Frames /\ Tail(q) \in Seq(Frames)
           /\ \A T : Has(q, T, s) <=> Has(Tail(q), T, s) \/ (Head(q).stream = s /\ Head(q).type \in T)
<1>1. PICK m \in Nat : m = Len(q) /\ m > 0 /\ Len(Tail(q)) = m - 1 /\ Head(q) = q[1]
                       /\ \A i \in 1 .. m - 1 : Tail(q)[i] = q[i + 1]
  OBVIOUS
<1>2. Head(q) \in Frames /\ Tail(q) \in Seq(Frames)
  OBVIOUS
<1>3. \A i \in 1 .. m : i = 1 \/ \E j \in 1 .. m - 1 : i = j + 1
  <2> TAKE i \in 1 .. m
  <2>1. i = 1 \/ (i - 1 \in 1 .. m - 1 /\ i = (i - 1) + 1)
    BY <1>1
  <2> QED BY <2>1
<1>4. 1 \in 1 .. m /\ \A i \in 1 .. m - 1 : i + 1 \in 1 .. m
  BY <1>1
<1>5. ASSUME NEW T
      PROVE  Has(q, T, s) <=> Has(Tail(q), T, s) \/ (Head(q).stream = s /\ Head(q).type \in T)
  BY <1>1, <1>3, <1>4 DEF Has
<1> QED BY <1>2, <1>5

LEMMA LeadsTail ==
    ASSUME NEW q \in Seq(Frames), q # <<>>, NEW s
    PROVE  /\ Leads(q, s) => Leads(Tail(q), s) /\ (Head(q).stream = s => ~Has(Tail(q), Openers, s))
           /\ OneEnd(q, s) => /\ OneEnd(Tail(q), s)
                              /\ Head(q).stream = s /\ Head(q).type = "reqEnd" => ~Has(Tail(q), {"reqEnd"}, s)
<1>1. PICK m \in Nat : m = Len(q) /\ m > 0 /\ Len(Tail(q)) = m - 1 /\ Head(q) = q[1]
                       /\ \A i \in 1 .. m - 1 : Tail(q)[i] = q[i + 1]
  OBVIOUS
<1>2. 1 \in 1 .. m /\ \A i \in 1 .. m - 1 : i + 1 \in 1 .. m /\ 1 < i + 1 /\ 1 # i + 1
  BY <1>1
<1>3. \A i, j \in 1 .. m - 1 : (i < j <=> i + 1 < j + 1) /\ (i = j <=> i + 1 = j + 1)
  BY <1>1
<1>4. ASSUME Leads(q, s)
      PROVE  Leads(Tail(q), s) /\ (Head(q).stream = s => ~Has(Tail(q), Openers, s))
  BY <1>1, <1>2, <1>3, <1>4 DEF Leads, Has
<1>5. ASSUME OneEnd(q, s)
      PROVE  /\ OneEnd(Tail(q), s)
             /\ Head(q).stream = s /\ Head(q).type = "reqEnd" => ~Has(Tail(q), {"reqEnd"}, s)
  BY <1>1, <1>2, <1>3, <1>5 DEF OneEnd, Has
<1> QED BY <1>4, <1>5

LEMMA HasMore ==
    ASSUME NEW q \in Seq(Frames), NEW s
    PROVE  /\ \A T, U : T \subseteq U /\ Has(q, T, s) => Has(q, U, s)
           /\ \A T : Has(q, T, s) => Has(q, Types, s)
<1>1. \A i \in 1 .. Len(q) : q[i] \in Frames
  OBVIOUS
<1>2. \A i \in 1 .. Len(q) : q[i].type \in Types
  BY <1>1 DEF Frames
<1> QED BY <1>2 DEF Has

\* What one queue holds of a stream, another does.
Same(q, r, t) ==
    /\ \A T : Has(r, T, t) <=> Has(q, T, t)
    /\ Leads(q, t) => Leads(r, t)
    /\ OneEnd(q, t) => OneEnd(r, t)
    /\ \A type, E, lo, hi : Flows(q, type, E, t, lo, hi) => Flows(r, type, E, t, lo, hi)

LEMMA SameSelf ==
    ASSUME NEW q, NEW t
    PROVE  Same(q, q, t)
BY DEF Same

LEMMA SameOn ==
    ASSUME NEW q \in Seq(Frames), NEW r \in Seq(Frames), NEW t, ~Has(r, Types, t)
    PROVE  Same(q, q \o r, t)
<1>1. \A T : ~Has(r, T, t)
  <2>0. \A i \in 1 .. Len(r) : r[i] \in Frames
    OBVIOUS
  <2>1. \A i \in 1 .. Len(r) : r[i].type \in Types
    BY <2>0 DEF Frames
  <2> QED BY <2>1 DEF Has
<1>2. Leads(r, t) /\ OneEnd(r, t)
  BY <1>1 DEF Leads, OneEnd, Has
<1>3. ASSUME NEW type, NEW E, NEW lo, NEW hi, Flows(q, type, E, t, lo, hi)
      PROVE  Flows(q \o r, type, E, t, lo, hi)
  <2>1. hi \in Nat
    BY <1>3, FlowsTypes
  <2>2. Flows(r, type, E, t, hi, hi)
    BY <1>1, <2>1, FlowsNone
  <2> QED BY <1>3, <2>2, FlowsOn
<1>4. \A T : Has(q \o r, T, t) <=> Has(q, T, t)
  BY <1>1, HasOn
<1>5. (Leads(q, t) => Leads(q \o r, t)) /\ (OneEnd(q, t) => OneEnd(q \o r, t))
  BY <1>1, <1>2, LeadsOn
<1> QED BY <1>3, <1>4, <1>5 DEF Same

LEMMA SameTail ==
    ASSUME NEW q \in Seq(Frames), q # <<>>, NEW t, Head(q).stream # t
    PROVE  Same(q, Tail(q), t)
<1>1. ASSUME NEW type, NEW E, NEW lo, NEW hi, Flows(q, type, E, t, lo, hi)
      PROVE  Flows(Tail(q), type, E, t, lo, hi)
  <2>1. lo \in Nat
    BY <1>1, FlowsTypes
  <2>2. Weight(Head(q), type, t) = 0 /\ lo + 0 = lo
    BY <2>1 DEF Weight
  <2>3. Flows(Tail(q), type, E, t, lo + Weight(Head(q), type, t), hi)
    BY <1>1, FlowsTail
  <2> QED BY <2>2, <2>3
<1>2. \A T : Has(Tail(q), T, t) <=> Has(q, T, t)
  BY HasTail
<1>3. (Leads(q, t) => Leads(Tail(q), t)) /\ (OneEnd(q, t) => OneEnd(Tail(q), t))
  BY LeadsTail
<1> QED BY <1>1, <1>2, <1>3 DEF Same

\* One frame is a queue.
LEMMA FrameIs ==
    ASSUME NEW type \in Types, NEW s \in Streams, NEW n \in Nat
    PROVE  /\ Frame(type, s, n) \in Frames /\ <<Frame(type, s, n)>> \in Seq(Frames)
           /\ Frame(type, s, n).type = type /\ Frame(type, s, n).stream = s /\ Frame(type, s, n).bytes = n
           /\ \A T, t : Has(<<Frame(type, s, n)>>, T, t) <=> t = s /\ type \in T
           /\ \A t : Leads(<<Frame(type, s, n)>>, t) /\ OneEnd(<<Frame(type, s, n)>>, t)
<1>1. PICK f : f = Frame(type, s, n)
  OBVIOUS
<1>2. f \in Frames /\ f.type = type /\ f.stream = s /\ f.bytes = n
  BY <1>1 DEF Frame, Frames
<1>3. <<f>> \in Seq(Frames) /\ Len(<<f>>) = 1 /\ <<f>>[1] = f /\ 1 .. 1 = {1}
  BY <1>2
<1>4. \A T, t : Has(<<f>>, T, t) <=> t = s /\ type \in T
  BY <1>2, <1>3 DEF Has
<1>5. \A t : Leads(<<f>>, t) /\ OneEnd(<<f>>, t)
  BY <1>3 DEF Leads, OneEnd
<1> QED BY <1>1, <1>2, <1>3, <1>4, <1>5
------------------------------------------------------------------------------
(* The inductive invariant.                                                *)

Kept == requests \cup sockets

\* Nothing was done yet for what was not sent.
Unsent(s) ==
    phase[s] \in {"new", "reading"} =>
        /\ s \notin streams /\ s \notin Kept /\ ~Has(toHost, Types, s) /\ ~Has(toPhone, Types, s)
        /\ s \in Sockets => engine[s] = "none"

\* A stream's opening comes first, and once.
Opened(s) == (Has(toHost, Openers, s) => s \notin Kept) /\ Leads(toHost, s)

\* Who ends a stream keeps it no more.
Ended(s) ==
    /\ Has(toHost, Enders, s) => s \notin streams
    /\ s \in Sockets /\ Has(toPhone, Closers, s) => s \notin sockets /\ ~Has(toHost, Openers, s)

\* What one side keeps the other keeps, or is about to open or to end.
Over(s) == s \in Requests /\ run[s] = "over"
Paired(s) ==
    closed = {} =>
        /\ s \in streams => s \in Kept \/ Has(toHost, Openers, s) \/ Has(toPhone, Closers, s)
        /\ s \notin streams /\ (s \in Kept \/ Has(toHost, Openers, s)) => Has(toHost, Enders, s) \/ Over(s)

Str(s) == Unsent(s) /\ Opened(s) /\ Ended(s) /\ Paired(s)

\* The host takes a request through its steps once.
Running(s) ==
    /\ phase[s] \in {"new", "reading"} => run[s] = "none" /\ received[s] = 0
    /\ Has(toHost, {"reqHead"}, s) => run[s] = "none"
    /\ run[s] = "none" => s \notin requests
    /\ run[s] \in {"none", "receiving", "fetching"} => sent[s] = 0
    /\ s \in whole => run[s] = "over"
    /\ "host" \in closed => s \notin requests

Asked(s) == (Has(toHost, {"reqEnd"}, s) => run[s] \in {"none", "receiving"}) /\ OneEnd(toHost, s)

\* What ends an answer is sent last, and a request the host forgot before that
\* is one the phone gave up.
Answered(s) ==
    /\ Has(toPhone, Closers, s) => run[s] = "over"
    /\ run[s] \in {"receiving", "fetching", "sending"} /\ s \notin requests /\ "host" \notin closed
       => s \notin streams

\* An answer the phone still reads is what it received and what is on its way,
\* and is whole if its end is on its way too.
Flowing(s) ==
    s \in streams => /\ Flows(toPhone, "resBody", Ends, s, received[s], sent[s])
                     /\ Has(toPhone, Ends, s) => s \in whole
Wholly(s) == phase[s] = "ended" => s \in whole /\ received[s] = sent[s] /\ s \notin streams

\* What the host may send, it was given: the window, and what the phone's reader
\* took and credited, less what of that is on its way.
Owed(s) ==
    /\ credited[s] <= taken[s]
    /\ \E a, b \in Nat : /\ Flows(toHost, "credit", {}, s, a, b)
                         /\ b <= credited[s]
                         /\ s \in requests => window[s] + sent[s] <= Window + a
    /\ sent[s] - taken[s] < Window + Chunk

Req(s) == Running(s) /\ Asked(s) /\ Answered(s) /\ Flowing(s) /\ Wholly(s) /\ Owed(s)

IInv == TypeOK /\ (\A s \in Streams : Str(s)) /\ \A s \in Requests : Req(s)

\* What the properties ask is part of it.
LEMMA Says ==
    ASSUME IInv
    PROVE  TypeOK /\ WindowHolds /\ WholeOrFailed /\ BothSidesAgree
<1>1. WindowHolds
  BY DEF IInv, Req, Owed, WindowHolds
<1>2. WholeOrFailed
  BY DEF IInv, Req, Wholly, WholeOrFailed
<1>3. BothSidesAgree
  <2> SUFFICES ASSUME closed = {}, NEW s \in Streams, ~InFlight(s), ~Coming(s)
               PROVE  \/ s \in streams <=> s \in requests \cup sockets
                      \/ s \in Requests /\ run[s] = "over" /\ s \in requests /\ s \notin streams
    BY DEF BothSidesAgree
  <2>1. (\A T : ~Has(toHost, T, s)) /\ (\A T : ~Has(toPhone, T, s))
    <3>1. toHost \in Seq(Frames) /\ toPhone \in Seq(Frames)
      BY DEF IInv, TypeOK
    <3>2. DOMAIN toHost = 1 .. Len(toHost) /\ DOMAIN toPhone = 1 .. Len(toPhone)
      BY <3>1
    <3> QED BY <3>2 DEF InFlight, Coming, Has
  <2>2. s \in streams => s \in Kept
    BY <2>1 DEF IInv, Str, Paired
  <2>3. s \notin streams /\ s \in Kept => s \in Requests /\ run[s] = "over"
    BY <2>1 DEF IInv, Str, Paired, Over
  <2>4. s \in Requests => s \notin sockets
    BY TunnelAssumption DEF IInv, TypeOK
  <2> QED BY <2>2, <2>3, <2>4 DEF Kept
<1> QED BY <1>1, <1>2, <1>3 DEF IInv

LEMMA Starts ==
    ASSUME Init
    PROVE  IInv
<1>1. TypeOK
  BY DEF Init, TypeOK, Streams
<1>2. ASSUME NEW s \in Streams
      PROVE  Str(s)
  BY Nothing DEF Init, Str, Unsent, Opened, Ended, Paired, Kept
<1>3. ASSUME NEW s \in Requests
      PROVE  Req(s)
  <2>1. s \in Streams /\ phase[s] = "new" /\ run[s] = "none" /\ sent[s] = 0 /\ received[s] = 0 /\ taken[s] = 0
        /\ credited[s] = 0 /\ toHost = <<>> /\ toPhone = <<>> /\ whole = {} /\ requests = {} /\ streams = {}
    BY DEF Init, Streams
  <2>2. Running(s) /\ Asked(s) /\ Answered(s) /\ Flowing(s) /\ Wholly(s)
    BY <2>1, Nothing DEF Running, Asked, Answered, Flowing, Wholly
  <2>3. Owed(s)
    <3>1. Flows(<<>>, "credit", {}, s, 0, 0)
      <4>1. <<>> \in Seq(Frames)
        OBVIOUS
      <4> QED BY <4>1, Nothing, FlowsNone
    <3>2. 0 - 0 < Window + Chunk
      BY TunnelAssumption
    <3> QED BY <2>1, <3>1, <3>2 DEF Owed
  <2> QED BY <2>2, <2>3 DEF Req
<1> QED BY <1>1, <1>2, <1>3 DEF IInv

\* A step about other streams leaves one as it was.
StrAsIs(t) ==
    /\ phase'[t] = phase[t]
    /\ t \in streams' <=> t \in streams
    /\ t \in requests' <=> t \in requests
    /\ t \in sockets' <=> t \in sockets
    /\ t \in Sockets => engine'[t] = engine[t]
ReqAsIs(t) ==
    /\ run'[t] = run[t] /\ sent'[t] = sent[t] /\ window'[t] = window[t]
    /\ received'[t] = received[t] /\ taken'[t] = taken[t] /\ credited'[t] = credited[t]
    /\ t \in whole' <=> t \in whole

LEMMA StrKept ==
    ASSUME NEW t \in Streams, Str(t), closed' = closed, StrAsIs(t), t \in Requests => run'[t] = run[t],
           Same(toHost, toHost', t), Same(toPhone, toPhone', t)
    PROVE  Str(t)'
<1>1. t \in Kept' <=> t \in Kept
  BY DEF StrAsIs, Kept
<1>2. (\A T : Has(toHost', T, t) <=> Has(toHost, T, t)) /\ (\A T : Has(toPhone', T, t) <=> Has(toPhone, T, t))
  BY DEF Same
<1>3. Unsent(t)'
  BY <1>1, <1>2 DEF Str, Unsent, StrAsIs
<1>4. Opened(t)'
  BY <1>1, <1>2 DEF Str, Opened, Same
<1>5. Ended(t)'
  BY <1>2 DEF Str, Ended, StrAsIs
<1>6. Paired(t)'
  BY <1>1, <1>2 DEF Str, Paired, StrAsIs, Over
<1> QED BY <1>3, <1>4, <1>5, <1>6 DEF Str

LEMMA ReqKept ==
    ASSUME NEW t \in Requests, Req(t), closed' = closed, StrAsIs(t), ReqAsIs(t),
           Same(toHost, toHost', t), Same(toPhone, toPhone', t)
    PROVE  Req(t)'
<1>1. (\A T : Has(toHost', T, t) <=> Has(toHost, T, t)) /\ (\A T : Has(toPhone', T, t) <=> Has(toPhone, T, t))
  BY DEF Same
<1>2. Running(t)'
  BY <1>1 DEF Req, Running, StrAsIs, ReqAsIs
<1>3. Asked(t)'
  BY <1>1 DEF Req, Asked, ReqAsIs, Same
<1>4. Answered(t)'
  BY <1>1 DEF Req, Answered, StrAsIs, ReqAsIs
<1>5. Flowing(t)'
  <2>1. t \in streams => Flows(toPhone', "resBody", Ends, t, received[t], sent[t])
    BY DEF Req, Flowing, Same
  <2> QED BY <1>1, <2>1 DEF Req, Flowing, StrAsIs, ReqAsIs
<1>6. Wholly(t)'
  BY DEF Req, Wholly, StrAsIs, ReqAsIs
<1>7. Owed(t)'
  <2>1. PICK a \in Nat, b \in Nat : /\ Flows(toHost, "credit", {}, t, a, b)
                                    /\ b <= credited[t]
                                    /\ t \in requests => window[t] + sent[t] <= Window + a
    BY DEF Req, Owed
  <2>2. Flows(toHost', "credit", {}, t, a, b)
    BY <2>1 DEF Same
  <2> QED BY <2>1, <2>2 DEF Req, Owed, StrAsIs, ReqAsIs
<1> QED BY <1>2, <1>3, <1>4, <1>5, <1>6, <1>7 DEF Req

\* The invariant after a step about one stream.
LEMMA OneStream ==
    ASSUME IInv, TypeOK', closed' = closed, NEW s \in Streams,
           \A t \in Streams : t # s => /\ StrAsIs(t) /\ (t \in Requests => ReqAsIs(t))
                                       /\ Same(toHost, toHost', t) /\ Same(toPhone, toPhone', t),
           Str(s)', s \in Requests => Req(s)'
    PROVE  IInv'
<1>1. ASSUME NEW t \in Streams
      PROVE  Str(t)'
  <2>1. CASE t # s
    <3>1. t \in Requests => run'[t] = run[t]
      BY <2>1 DEF ReqAsIs
    <3> QED BY <2>1, <3>1, StrKept DEF IInv
  <2> QED BY <2>1
<1>2. ASSUME NEW t \in Requests
      PROVE  Req(t)'
  <2>1. CASE t # s
    BY <2>1, ReqKept DEF IInv, Streams
  <2> QED BY <2>1
<1> QED BY <1>1, <1>2 DEF IInv
------------------------------------------------------------------------------
(* What a step does to the queues.                                         *)

\* Frames of stream s joined q, or were not sent: r says which.
Joined(q, q2, r, s) ==
    /\ q2 \in Seq(Frames)
    /\ \A t : t # s => Same(q, q2, t)
    /\ \A T : Has(q, T, s) => Has(q2, T, s)
    /\ \A T : Has(q2, T, s) => Has(q, T, s) \/ Has(r, T, s)
    /\ Leads(q, s) /\ Leads(r, s) /\ (~Has(q, Types, s) \/ ~Has(r, Openers, s)) => Leads(q2, s)
    /\ OneEnd(q, s) /\ OneEnd(r, s) /\ (~Has(q, {"reqEnd"}, s) \/ ~Has(r, {"reqEnd"}, s)) => OneEnd(q2, s)
    /\ \A type, E, lo, hi : ~Has(r, {type}, s) /\ Flows(q, type, E, s, lo, hi) => Flows(q2, type, E, s, lo, hi)

LEMMA Joins ==
    ASSUME NEW q \in Seq(Frames), NEW r \in Seq(Frames), NEW s, \A t : t # s => ~Has(r, Types, t),
           NEW q2, q2 = q \/ q2 = q \o r
    PROVE  Joined(q, q2, r, s)
<1>1. \A T : Has(q \o r, T, s) <=> Has(q, T, s) \/ Has(r, T, s)
  BY HasOn
<1>2. q \o r \in Seq(Frames) /\ \A t : t # s => Same(q, q \o r, t) /\ Same(q, q, t)
  BY HasOn, SameOn, SameSelf
<1>3. /\ Leads(q, s) /\ Leads(r, s) /\ (~Has(q, Types, s) \/ ~Has(r, Openers, s)) => Leads(q \o r, s)
      /\ OneEnd(q, s) /\ OneEnd(r, s) /\ (~Has(q, {"reqEnd"}, s) \/ ~Has(r, {"reqEnd"}, s)) => OneEnd(q \o r, s)
  BY LeadsOn
<1>4. ASSUME NEW type, NEW E, NEW lo, NEW hi, ~Has(r, {type}, s), Flows(q, type, E, s, lo, hi)
      PROVE  Flows(q \o r, type, E, s, lo, hi)
  <2>1. hi \in Nat
    BY <1>4, FlowsTypes
  <2>2. Flows(r, type, E, s, hi, hi)
    BY <1>4, <2>1, FlowsNone
  <2> QED BY <1>4, <2>2, FlowsOn
<1> QED BY <1>1, <1>2, <1>3, <1>4 DEF Joined

\* One frame of a type joined q, or was not sent.
Grown(q, q2, type, s) ==
    /\ q2 \in Seq(Frames)
    /\ \A t : t # s => Same(q, q2, t)
    /\ \A T : Has(q, T, s) => Has(q2, T, s)
    /\ \A T : Has(q2, T, s) => Has(q, T, s) \/ type \in T
    /\ Leads(q, s) /\ (type \in Openers => ~Has(q, Types, s)) => Leads(q2, s)
    /\ OneEnd(q, s) /\ type # "reqEnd" => OneEnd(q2, s)
    /\ \A ty, E, lo, hi : ty # type /\ Flows(q, ty, E, s, lo, hi) => Flows(q2, ty, E, s, lo, hi)

LEMMA JoinsOne ==
    ASSUME NEW q \in Seq(Frames), NEW type \in Types, NEW s \in Streams, NEW n \in Nat,
           NEW q2, q2 = q \/ q2 = q \o <<Frame(type, s, n)>>
    PROVE  /\ Grown(q, q2, type, s)
           /\ q2 = q \o <<Frame(type, s, n)>> => \A T : type \in T => Has(q2, T, s)
<1> DEFINE r == <<Frame(type, s, n)>>
<1>1. r \in Seq(Frames)
  BY FrameIs
<1>2. \A T, t : Has(r, T, t) <=> t = s /\ type \in T
  BY FrameIs
<1>3. Leads(r, s) /\ OneEnd(r, s)
  BY FrameIs
<1>4. q2 = q \/ q2 = q \o r
  OBVIOUS
<1> HIDE DEF r
<1>5. \A T : Has(q \o r, T, s) <=> Has(q, T, s) \/ Has(r, T, s)
  BY <1>1, HasOn
<1>6. Joined(q, q2, r, s)
  <2>1. \A t : t # s => ~Has(r, Types, t)
    BY <1>2
  <2> QED BY <1>1, <1>4, <2>1, Joins
<1>7. q2 \in Seq(Frames) /\ \A t : t # s => Same(q, q2, t)
  BY <1>6 DEF Joined
<1>8. \A T : (Has(q, T, s) => Has(q2, T, s)) /\ (Has(q2, T, s) => Has(q, T, s) \/ type \in T)
  BY <1>2, <1>6 DEF Joined
<1>9. Leads(q, s) /\ (type \in Openers => ~Has(q, Types, s)) => Leads(q2, s)
  BY <1>2, <1>3, <1>6 DEF Joined
<1>10. OneEnd(q, s) /\ type # "reqEnd" => OneEnd(q2, s)
  BY <1>2, <1>3, <1>6 DEF Joined
<1>11. \A ty, E, lo, hi : ty # type /\ Flows(q, ty, E, s, lo, hi) => Flows(q2, ty, E, s, lo, hi)
  <2> SUFFICES ASSUME NEW ty, NEW E, NEW lo, NEW hi, ty # type, Flows(q, ty, E, s, lo, hi)
               PROVE  Flows(q2, ty, E, s, lo, hi)
    OBVIOUS
  <2>1. ~Has(r, {ty}, s)
    BY <1>2
  <2>2. \A x, F, m, n2 : ~Has(r, {x}, s) /\ Flows(q, x, F, s, m, n2) => Flows(q2, x, F, s, m, n2)
    BY <1>6 DEF Joined
  <2> QED BY <2>1, <2>2
<1>12. q2 = q \o r => \A T : type \in T => Has(q2, T, s)
  BY <1>2, <1>5
<1>13. Grown(q, q2, type, s)
  BY <1>7, <1>8, <1>9, <1>10, <1>11 DEF Grown
<1> QED BY <1>12, <1>13 DEF r

\* One frame goes to the host, or nowhere.
LEMMA HostIsSent ==
    ASSUME TypeOK, NEW type \in Types, NEW s \in Streams, NEW n \in Nat, ToHost(<<Frame(type, s, n)>>)
    PROVE  /\ Grown(toHost, toHost', type, s)
           /\ "phone" \notin closed => \A T : type \in T => Has(toHost', T, s)
<1>1. toHost \in Seq(Frames)
  BY DEF TypeOK
<1>2. PICK q2 : q2 = toHost'
  OBVIOUS
<1>3. /\ q2 = toHost \/ q2 = toHost \o <<Frame(type, s, n)>>
      /\ "phone" \notin closed => q2 = toHost \o <<Frame(type, s, n)>>
  BY <1>2 DEF ToHost
<1>4. /\ Grown(toHost, q2, type, s)
      /\ q2 = toHost \o <<Frame(type, s, n)>> => \A T : type \in T => Has(q2, T, s)
  BY <1>1, <1>3, JoinsOne
<1> QED BY <1>2, <1>3, <1>4

\* One frame goes to the phone, or nowhere.
LEMMA PhoneIsSent ==
    ASSUME TypeOK, NEW type \in Types, NEW s \in Streams, NEW n \in Nat, ToPhone(<<Frame(type, s, n)>>)
    PROVE  /\ Grown(toPhone, toPhone', type, s)
           /\ "host" \notin closed => \A T : type \in T => Has(toPhone', T, s)
           /\ "host" \in closed => toPhone' = toPhone
<1>1. toPhone \in Seq(Frames)
  BY DEF TypeOK
<1>2. PICK q2 : q2 = toPhone'
  OBVIOUS
<1>3. /\ q2 = toPhone \/ q2 = toPhone \o <<Frame(type, s, n)>>
      /\ "host" \notin closed => q2 = toPhone \o <<Frame(type, s, n)>>
      /\ "host" \in closed => q2 = toPhone
  BY <1>2 DEF ToPhone
<1>4. /\ Grown(toPhone, q2, type, s)
      /\ q2 = toPhone \o <<Frame(type, s, n)>> => \A T : type \in T => Has(q2, T, s)
  BY <1>1, <1>3, JoinsOne
<1> QED BY <1>2, <1>3, <1>4

\* The first frame of a queue, of stream s, was taken off.
Left(q, q2, type, s) ==
    /\ q2 \in Seq(Frames) /\ Head(q).bytes \in Nat
    /\ \A t : t # s => Same(q, q2, t)
    /\ \A T : Has(q, T, s) <=> Has(q2, T, s) \/ type \in T
    /\ Leads(q, s) => Leads(q2, s) /\ ~Has(q2, Openers, s)
    /\ OneEnd(q, s) => OneEnd(q2, s) /\ (type = "reqEnd" => ~Has(q2, {"reqEnd"}, s))
    /\ \A ty, E, lo, hi : ty # type /\ Flows(q, ty, E, s, lo, hi) =>
          Flows(q2, ty, E, s, lo, hi) /\ (type \in E => lo = hi)
    /\ \A E, lo, hi : Flows(q, type, E, s, lo, hi) => Flows(q2, type, E, s, lo + Head(q).bytes, hi)

LEMMA Leaves ==
    ASSUME NEW q \in Seq(Frames), q # <<>>, NEW type, NEW s, Head(q).stream = s, Head(q).type = type
    PROVE  Left(q, Tail(q), type, s)
<1>1. /\ Tail(q) \in Seq(Frames) /\ Head(q) \in Frames
      /\ \A T : Has(q, T, s) <=> Has(Tail(q), T, s) \/ type \in T
  BY HasTail
<1>2. Head(q).bytes \in Nat
  BY <1>1 DEF Frames
<1>3. \A t : t # s => Same(q, Tail(q), t)
  BY SameTail
<1>4. /\ Leads(q, s) => Leads(Tail(q), s) /\ ~Has(Tail(q), Openers, s)
      /\ OneEnd(q, s) => OneEnd(Tail(q), s) /\ (type = "reqEnd" => ~Has(Tail(q), {"reqEnd"}, s))
  BY LeadsTail
<1>5. ASSUME NEW ty, NEW E, NEW lo, NEW hi, Flows(q, ty, E, s, lo, hi)
      PROVE  /\ ty # type => Flows(Tail(q), ty, E, s, lo, hi) /\ (type \in E => lo = hi)
             /\ ty = type => Flows(Tail(q), type, E, s, lo + Head(q).bytes, hi)
  <2>1. /\ Flows(Tail(q), ty, E, s, lo + Weight(Head(q), ty, s), hi)
        /\ type \in E => lo + Weight(Head(q), ty, s) = hi
    BY <1>5, FlowsTail
  <2>2. lo \in Nat /\ lo + 0 = lo
    BY <1>5, FlowsTypes
  <2>3. Weight(Head(q), ty, s) = IF ty = type THEN Head(q).bytes ELSE 0
    BY DEF Weight
  <2> QED BY <2>1, <2>2, <2>3
<1> QED BY <1>1, <1>2, <1>3, <1>4, <1>5 DEF Left

LEMMA HostHasGot ==
    ASSUME TypeOK, NEW type, NEW s, HostGets(type, s)
    PROVE  "host" \notin closed /\ Left(toHost, toHost', type, s)
<1>1. /\ "host" \notin closed /\ toHost \in Seq(Frames) /\ toHost # <<>> /\ toHost' = Tail(toHost)
      /\ Head(toHost).type = type /\ Head(toHost).stream = s
  BY DEF TypeOK, HostGets
<1>2. Left(toHost, Tail(toHost), type, s)
  BY <1>1, Leaves
<1> QED BY <1>1, <1>2

LEMMA PhoneHasGot ==
    ASSUME TypeOK, NEW type, NEW s, PhoneGets(type, s)
    PROVE  "phone" \notin closed /\ Left(toPhone, toPhone', type, s)
<1>1. /\ "phone" \notin closed /\ toPhone \in Seq(Frames) /\ toPhone # <<>> /\ toPhone' = Tail(toPhone)
      /\ Head(toPhone).type = type /\ Head(toPhone).stream = s
  BY DEF TypeOK, PhoneGets
<1>2. Left(toPhone, Tail(toPhone), type, s)
  BY <1>1, Leaves
<1> QED BY <1>1, <1>2
------------------------------------------------------------------------------
(* Types.                                                                  *)

\* Frames sent are frames, and so is what is left of frames.
LEMMA Sent ==
    ASSUME TypeOK, NEW frames \in Seq(Frames)
    PROVE  /\ ToHost(frames) => toHost' \in Seq(Frames)
           /\ ToPhone(frames) => toPhone' \in Seq(Frames)
<1>1. toHost \in Seq(Frames) /\ toPhone \in Seq(Frames)
  BY DEF TypeOK
<1>2. \A q \in Seq(Frames) : q \o frames \in Seq(Frames)
  OBVIOUS
<1> QED BY <1>1, <1>2 DEF ToHost, ToPhone

LEMMA PlainIs ==
    ASSUME NEW type \in Types, NEW s \in Streams
    PROVE  Plain(type, s) \in Seq(Frames) /\ Plain(type, s) = <<Frame(type, s, 0)>>
BY FrameIs DEF Plain

\* A request as it is sent.
Whole(s, n) == Plain("reqHead", s) \o [i \in 1 .. n |-> Frame("reqBody", s, 1)] \o Plain("reqEnd", s)

LEMMA PiecesAre ==
    ASSUME NEW s \in Streams, NEW n \in Nat
    PROVE  /\ [i \in 1 .. n |-> Frame("reqBody", s, 1)] \in Seq(Frames)
           /\ Len([i \in 1 .. n |-> Frame("reqBody", s, 1)]) = n
           /\ \A i \in 1 .. n : [j \in 1 .. n |-> Frame("reqBody", s, 1)][i] = Frame("reqBody", s, 1)
<1>1. PICK f : f = Frame("reqBody", s, 1)
  OBVIOUS
<1>2. f \in Frames
  BY <1>1, FrameIs DEF Types
<1>3. [i \in 1 .. n |-> f] \in Seq(Frames) /\ Len([i \in 1 .. n |-> f]) = n
  BY <1>2
<1>4. \A i \in 1 .. n : [j \in 1 .. n |-> f][i] = f
  OBVIOUS
<1> QED BY <1>1, <1>3, <1>4

LEMMA WholeIs ==
    ASSUME NEW s \in Streams, NEW n \in Nat
    PROVE  /\ Whole(s, n) \in Seq(Frames)
           /\ \A T, t : Has(Whole(s, n), T, t) => t = s
           /\ \A T : Has(Whole(s, n), T, s) => "reqHead" \in T \/ "reqBody" \in T \/ "reqEnd" \in T
           /\ \A T : "reqHead" \in T => Has(Whole(s, n), T, s)
           /\ Leads(Whole(s, n), s) /\ OneEnd(Whole(s, n), s)
<1> DEFINE h == Plain("reqHead", s)
           b == [i \in 1 .. n |-> Frame("reqBody", s, 1)]
           e == Plain("reqEnd", s)
<1>1. /\ h \in Seq(Frames) /\ e \in Seq(Frames)
      /\ \A T, t : Has(h, T, t) <=> t = s /\ "reqHead" \in T
      /\ \A T, t : Has(e, T, t) <=> t = s /\ "reqEnd" \in T
      /\ Leads(h, s) /\ OneEnd(h, s) /\ Leads(e, s) /\ OneEnd(e, s)
  BY FrameIs, PlainIs DEF Types
<1>2. b \in Seq(Frames) /\ Len(b) = n /\ \A i \in 1 .. n : b[i].stream = s /\ b[i].type = "reqBody"
  <2>1. Frame("reqBody", s, 1).type = "reqBody" /\ Frame("reqBody", s, 1).stream = s
    BY DEF Frame
  <2> QED BY <2>1, PiecesAre
<1>3. Whole(s, n) = (h \o b) \o e
  BY DEF Whole
<1> HIDE DEF h, b, e
<1>4. \A T, t : Has(b, T, t) => t = s /\ "reqBody" \in T
  BY <1>2 DEF Has
<1>5. Leads(b, s) /\ OneEnd(b, s)
  BY <1>2 DEF Leads, OneEnd, Openers
<1>6. h \o b \in Seq(Frames) /\ \A T, t : Has(h \o b, T, t) <=> Has(h, T, t) \/ Has(b, T, t)
  BY <1>1, <1>2, HasOn
<1>7. Leads(h \o b, s) /\ OneEnd(h \o b, s)
  <2>1. ~Has(b, Openers, s) /\ ~Has(b, {"reqEnd"}, s)
    BY <1>4 DEF Openers
  <2> QED BY <1>1, <1>2, <1>5, <2>1, LeadsOn
<1>8. (h \o b) \o e \in Seq(Frames) /\ \A T, t : Has((h \o b) \o e, T, t) <=> Has(h \o b, T, t) \/ Has(e, T, t)
  BY <1>1, <1>6, HasOn
<1>9. Leads((h \o b) \o e, s) /\ OneEnd((h \o b) \o e, s)
  <2>1. ~Has(e, Openers, s) /\ ~Has(h \o b, {"reqEnd"}, s)
    BY <1>1, <1>4, <1>6 DEF Openers
  <2> QED BY <1>1, <1>6, <1>7, <2>1, LeadsOn
<1>10. PICK w : w = Whole(s, n) /\ w = (h \o b) \o e
  BY <1>3
<1>11. /\ w \in Seq(Frames) /\ Leads(w, s) /\ OneEnd(w, s)
       /\ \A T, t : Has(w, T, t) <=> Has(h, T, t) \/ Has(b, T, t) \/ Has(e, T, t)
  BY <1>6, <1>8, <1>9, <1>10
<1>12. /\ \A T, t : Has(w, T, t) => t = s
       /\ \A T : Has(w, T, s) => "reqHead" \in T \/ "reqBody" \in T \/ "reqEnd" \in T
       /\ \A T : "reqHead" \in T => Has(w, T, s)
  BY <1>1, <1>4, <1>11
<1> QED BY <1>10, <1>11, <1>12

\* The answer to a request that is too large.
TooLarge(s) == Plain("resHead", s) \o <<Frame("resBody", s, 1)>> \o Plain("resEnd", s)

LEMMA TooLargeIs ==
    ASSUME NEW s \in Streams
    PROVE  /\ TooLarge(s) \in Seq(Frames)
           /\ \A T, t : Has(TooLarge(s), T, t) <=> t = s /\ ("resHead" \in T \/ "resBody" \in T \/ "resEnd" \in T)
           /\ Flows(TooLarge(s), "resBody", Ends, s, 0, 1)
<1> DEFINE f == Frame("resBody", s, 1)
           h == Plain("resHead", s)
           b == <<f>>
           e == Plain("resEnd", s)
<1>1. /\ h \in Seq(Frames) /\ b \in Seq(Frames) /\ e \in Seq(Frames)
      /\ \A T, t : Has(h, T, t) <=> t = s /\ "resHead" \in T
      /\ \A T, t : Has(b, T, t) <=> t = s /\ "resBody" \in T
      /\ \A T, t : Has(e, T, t) <=> t = s /\ "resEnd" \in T
  BY FrameIs, PlainIs DEF Types
<1>2. f \in Frames /\ Weight(f, "resBody", s) = 1
  <2>0. "resBody" \in Types /\ 1 \in Nat
    BY DEF Types
  <2>1. f \in Frames /\ f.type = "resBody" /\ f.stream = s /\ f.bytes = 1
    <3>1. \A n \in Nat : /\ Frame("resBody", s, n) \in Frames /\ Frame("resBody", s, n).type = "resBody"
                        /\ Frame("resBody", s, n).stream = s /\ Frame("resBody", s, n).bytes = n
      BY <2>0 DEF Frame, Frames
    <3> QED BY <3>1
  <2> QED BY <2>1 DEF Weight
<1>3. TooLarge(s) = (h \o b) \o e
  BY DEF TooLarge
<1>4. Flows(b, "resBody", Ends, s, 0, 1)
  <2>1. Flows(<<f>>, "resBody", Ends, s, 0, 0 + Weight(f, "resBody", s))
    BY <1>2, FlowsOne
  <2> QED BY <1>2, <2>1
<1> HIDE DEF f, h, b, e
<1>5. h \o b \in Seq(Frames) /\ \A T, t : Has(h \o b, T, t) <=> Has(h, T, t) \/ Has(b, T, t)
  BY <1>1, HasOn
<1>6. (h \o b) \o e \in Seq(Frames) /\ \A T, t : Has((h \o b) \o e, T, t) <=> Has(h \o b, T, t) \/ Has(e, T, t)
  BY <1>1, <1>5, HasOn
<1>7. Flows(h, "resBody", Ends, s, 0, 0) /\ Flows(e, "resBody", Ends, s, 1, 1)
  <2>1. ~Has(h, {"resBody"}, s) /\ ~Has(e, {"resBody"}, s)
    BY <1>1
  <2> QED BY <1>1, <2>1, FlowsNone
<1>8. Flows(h \o b, "resBody", Ends, s, 0, 1)
  <2>1. ~Has(h, Ends, s)
    BY <1>1 DEF Ends
  <2> QED BY <1>1, <1>4, <1>7, <2>1, FlowsOn
<1>9. Flows((h \o b) \o e, "resBody", Ends, s, 0, 1)
  BY <1>1, <1>5, <1>7, <1>8, FlowsOn
<1>10. PICK w : w = TooLarge(s) /\ w = (h \o b) \o e
  BY <1>3
<1>11. /\ w \in Seq(Frames) /\ Flows(w, "resBody", Ends, s, 0, 1)
       /\ \A T, t : Has(w, T, t) <=> Has(h, T, t) \/ Has(b, T, t) \/ Has(e, T, t)
  BY <1>5, <1>6, <1>9, <1>10
<1> QED BY <1>1, <1>10, <1>11

LEMMA Phones ==
    ASSUME TypeOK, NEW s \in Requests, Phoned(s)
    PROVE  TypeOK'
<1>0. s \in Streams
  BY DEF Streams
<1>1. CASE fetch(s)
  <2>1. PICK n \in Uploads : /\ upload' = [upload EXCEPT ![s] = n]
                             /\ \/ phase' = [phase EXCEPT ![s] = "failed"] /\ UNCHANGED <<streams, toHost>>
                                \/ phase' = [phase EXCEPT ![s] = "reading"] /\ UNCHANGED <<streams, toHost>>
                                \/ Sends(s, 0)
    BY <1>1 DEF fetch
  <2>2. n \in Nat
    BY TunnelAssumption
  <2>3. Sends(s, 0) => toHost' \in Seq(Frames) /\ streams' = streams \cup {s}
                       /\ phase' = [phase EXCEPT ![s] = "waiting"]
    BY <1>0, WholeIs, Sent DEF Sends, Whole
  <2> HIDE DEF Sends
  <2>4. UNCHANGED <<toPhone, closed, received, taken, credited, host, wires>>
    BY <1>1 DEF fetch
  <2> QED BY <1>0, <2>1, <2>2, <2>3, <2>4 DEF TypeOK, host, wires
<1>2. CASE BodyRead(s)
  <2>1. toHost' \in Seq(Frames) /\ streams' = streams \cup {s} /\ phase' = [phase EXCEPT ![s] = "waiting"]
    <3>1. upload[s] \in Nat
      BY DEF TypeOK
    <3> QED BY <1>0, <1>2, <3>1, WholeIs, Sent DEF Sends, Whole, BodyRead
  <2>2. UNCHANGED <<toPhone, closed, upload, received, taken, credited, host, wires>>
    BY <1>2 DEF BodyRead
  <2> QED BY <1>0, <2>1, <2>2 DEF TypeOK, host, wires
<1>3. CASE Aborts(s)
  <2>1. toHost' \in Seq(Frames)
    BY <1>0, <1>3, PlainIs, Sent DEF Aborts, Types
  <2> QED BY <1>0, <1>3, <2>1 DEF Aborts, TypeOK, host, wires
<1>4. CASE resHead(s)
  BY <1>0, <1>4, PhoneHasGot DEF resHead, TypeOK, host, wires, Left
<1>5. CASE resBody(s)
  <2>1. toPhone' \in Seq(Frames) /\ Head(toPhone).bytes \in Nat
    BY <1>5, PhoneHasGot DEF resBody, Left
  <2>2. received' = [received EXCEPT ![s] = @ + Head(toPhone).bytes]
        /\ UNCHANGED <<toHost, closed, streams, phase, upload, taken, credited, host, wires>>
    BY <1>5 DEF resBody
  <2>3. received' \in [Requests -> Nat]
    BY <2>1, <2>2 DEF TypeOK
  <2> QED BY <2>1, <2>2, <2>3 DEF TypeOK, host, wires
<1>6. CASE resEnd(s)
  BY <1>0, <1>6, PhoneHasGot DEF resEnd, TypeOK, host, wires, Left
<1>7. CASE resAbort(s)
  BY <1>0, <1>7, PhoneHasGot DEF resAbort, TypeOK, host, wires, Left
<1>8. CASE Take(s)
  <2>1. PICK n \in 1 .. Chunk : /\ taken' = [taken EXCEPT ![s] = @ + n]
                                /\ \/ /\ taken[s] + n - credited[s] >= Step
                                      /\ credited' = [credited EXCEPT ![s] = @ + (taken[s] + n - credited[s])]
                                      /\ ToHost(<<Frame("credit", s, taken[s] + n - credited[s])>>)
                                   \/ UNCHANGED <<credited, toHost>>
    BY <1>8 DEF Take
  <2>2. n \in Nat /\ taken[s] \in Nat /\ credited[s] \in Nat /\ Step \in Nat
    BY TunnelAssumption DEF TypeOK
  <2>3. taken[s] + n - credited[s] >= Step => taken[s] + n - credited[s] \in Nat
    BY <2>2
  <2>4. taken' \in [Requests -> Nat] /\ credited' \in [Requests -> Nat]
    <3>1. taken \in [Requests -> Nat] /\ credited \in [Requests -> Nat]
      BY DEF TypeOK
    <3>2. taken[s] + n \in Nat /\ (taken[s] + n - credited[s] >= Step => credited[s] + (taken[s] + n - credited[s]) \in Nat)
      BY <2>2, <2>3
    <3> QED BY <2>1, <3>1, <3>2
  <2>5. toHost' \in Seq(Frames)
    <3>1. ASSUME NEW m \in Nat, ToHost(<<Frame("credit", s, m)>>)
          PROVE  toHost' \in Seq(Frames)
      BY <1>0, <3>1, FrameIs, Sent DEF Types
    <3>2. toHost \in Seq(Frames)
      BY DEF TypeOK
    <3> QED BY <2>1, <2>3, <3>1, <3>2
  <2>6. UNCHANGED <<toPhone, closed, streams, phase, upload, received, host, wires>>
    BY <1>8 DEF Take
  <2> QED BY <2>4, <2>5, <2>6 DEF TypeOK, host, wires
<1> QED BY <1>1, <1>2, <1>3, <1>4, <1>5, <1>6, <1>7, <1>8 DEF Phoned

LEMMA Serves ==
    ASSUME TypeOK, NEW s \in Requests, Served(s)
    PROVE  TypeOK'
<1>0. s \in Streams
  BY DEF Streams
<1>1. CASE reqHead(s)
  <2>1. Window \in Int
    BY TunnelAssumption
  <2> QED BY <1>1, <2>1, HostHasGot DEF reqHead, TypeOK, phone, wires, Left
<1>2. CASE reqBody(s)
  <2>1. toHost' \in Seq(Frames)
    BY <1>2, HostHasGot DEF reqBody, Left
  <2>2. size' \in [Requests -> Nat]
    BY <1>2 DEF reqBody, TypeOK
  <2> QED BY <1>2, <2>1, <2>2 DEF reqBody, TypeOK, phone, wires
<1>3. CASE reqEnd(s)
  <2>1. toHost' \in Seq(Frames)
    BY <1>3, HostHasGot DEF reqEnd, Left
  <2>2. ToPhone(TooLarge(s)) => toPhone' \in Seq(Frames)
    BY <1>0, TooLargeIs, Sent
  <2>3. \/ UNCHANGED <<toPhone, requests, run, sent, whole>>
        \/ /\ requests' = requests \ {s}
           /\ run' = [run EXCEPT ![s] = "over"]
           /\ toPhone' \in Seq(Frames)
           /\ sent' = [sent EXCEPT ![s] = 1]
           /\ whole' = whole \cup {s}
        \/ run' = [run EXCEPT ![s] = "fetching"] /\ UNCHANGED <<toPhone, requests, sent, whole>>
    BY <1>3, <2>2 DEF reqEnd, TooLarge
  <2>4. UNCHANGED <<closed, size, window, phone, wires>>
    BY <1>3 DEF reqEnd
  <2>5. toPhone' \in Seq(Frames) /\ requests' \in SUBSET Requests /\ whole' \in SUBSET Requests
        /\ run' \in [Requests -> {"none", "receiving", "fetching", "sending", "over"}] /\ sent' \in [Requests -> Nat]
    <3>1. /\ toPhone \in Seq(Frames) /\ requests \in SUBSET Requests /\ whole \in SUBSET Requests
          /\ run \in [Requests -> {"none", "receiving", "fetching", "sending", "over"}] /\ sent \in [Requests -> Nat]
      BY DEF TypeOK
    <3>2. [sent EXCEPT ![s] = 1] \in [Requests -> Nat] /\ whole \cup {s} \in SUBSET Requests
      BY <3>1
    <3>3. \A x \in {"over", "fetching"} : [run EXCEPT ![s] = x] \in [Requests -> {"none", "receiving", "fetching", "sending", "over"}]
      BY <3>1
    <3> QED BY <2>3, <3>1, <3>2, <3>3
  <2> QED BY <2>1, <2>4, <2>5 DEF TypeOK, phone, wires
<1>4. CASE NoRoute(s)
  <2>1. toHost' \in Seq(Frames) /\ toPhone' \in Seq(Frames)
    BY <1>0, <1>4, HostHasGot, PlainIs, Sent DEF NoRoute, Left, Types
  <2> QED BY <1>4, <2>1 DEF NoRoute, TypeOK, phone, wires
<1>5. CASE Answers(s)
  <2>1. toPhone' \in Seq(Frames)
    BY <1>0, <1>5, PlainIs, Sent DEF Answers, Types
  <2> QED BY <1>5, <2>1 DEF Answers, TypeOK, phone, wires
<1>6. CASE Rejects(s)
  <2>1. toPhone' \in Seq(Frames)
    BY <1>0, <1>6, PlainIs, Sent DEF Rejects, Types, TypeOK
  <2> QED BY <1>6, <2>1 DEF Rejects, TypeOK, phone, wires
<1>7. CASE sendBody(s)
  <2>1. PICK n \in 1 .. Chunk : /\ sent' = [sent EXCEPT ![s] = @ + n]
                                /\ window' = [window EXCEPT ![s] = @ - n]
                                /\ ToPhone(<<Frame("resBody", s, n)>>)
    BY <1>7 DEF sendBody
  <2>2. n \in Nat
    OBVIOUS
  <2>3. toPhone' \in Seq(Frames)
    BY <1>0, <2>1, <2>2, FrameIs, Sent DEF Types
  <2>4. sent' \in [Requests -> Nat] /\ window' \in [Requests -> Int]
    BY <2>1, <2>2 DEF TypeOK
  <2> QED BY <1>7, <2>3, <2>4 DEF sendBody, TypeOK, phone, wires
<1>8. CASE BodyEnds(s)
  <2>1. toPhone' \in Seq(Frames)
    BY <1>0, <1>8, PlainIs, Sent DEF BodyEnds, Types
  <2> QED BY <1>8, <2>1 DEF BodyEnds, TypeOK, phone, wires
<1>9. CASE Cancels(s)
  BY <1>9 DEF Cancels, TypeOK, phone, wires
<1>10. CASE credit(s)
  <2>1. toHost' \in Seq(Frames) /\ Head(toHost).bytes \in Nat
    BY <1>10, HostHasGot DEF credit, Left
  <2>2. window' \in [Requests -> Int]
    BY <1>10, <2>1 DEF credit, TypeOK
  <2> QED BY <1>10, <2>1, <2>2 DEF credit, TypeOK, phone, wires
<1>11. CASE forget(s)
  BY <1>11, HostHasGot DEF forget, TypeOK, phone, wires, Left
<1> QED BY <1>1, <1>2, <1>3, <1>4, <1>5, <1>6, <1>7, <1>8, <1>9, <1>10, <1>11 DEF Served

LEMMA Speaks ==
    ASSUME TypeOK, NEW s \in Sockets, Spoken(s)
    PROVE  TypeOK'
<1>0. s \in Streams
  BY DEF Streams
<1>1. CASE socket(s)
  <2>1. toHost' \in Seq(Frames)
    BY <1>0, <1>1, PlainIs, Sent DEF socket, Types, TypeOK
  <2> QED BY <1>0, <1>1, <2>1 DEF socket, TypeOK, host, wires
<1>2. CASE SocketSends(s)
  <2>1. toHost' \in Seq(Frames)
    BY <1>0, <1>2, PlainIs, Sent DEF SocketSends, Types
  <2>2. told' \in [Sockets -> Nat]
    BY <1>2 DEF SocketSends, TypeOK
  <2> QED BY <1>2, <2>1, <2>2 DEF SocketSends, TypeOK, phone, host
<1>3. CASE SocketCloses(s)
  <2>1. toHost' \in Seq(Frames)
    BY <1>0, <1>3, PlainIs, Sent DEF SocketCloses, Types
  <2> QED BY <1>0, <1>3, <2>1 DEF SocketCloses, TypeOK, host, wires
<1>4. CASE SocketHears(s)
  BY <1>0, <1>4, PhoneHasGot DEF SocketHears, TypeOK, host, wires, Left
<1>5. CASE openSocket(s)
  <2>1. toHost' \in Seq(Frames) /\ toPhone' \in Seq(Frames)
    BY <1>0, <1>5, HostHasGot, PlainIs, Sent DEF openSocket, Left, Types, TypeOK
  <2> QED BY <1>5, <2>1 DEF openSocket, TypeOK, phone, host
<1>6. CASE EngineOpens(s)
  <2>1. toPhone' \in Seq(Frames)
    BY <1>0, <1>6, PlainIs, Sent DEF EngineOpens, Types
  <2> QED BY <1>6, <2>1 DEF EngineOpens, TypeOK, phone, host
<1>7. CASE EngineTells(s)
  <2>1. toPhone' \in Seq(Frames)
    BY <1>0, <1>7, PlainIs, Sent DEF EngineTells, Types
  <2>2. told' \in [Sockets -> Nat]
    BY <1>7 DEF EngineTells, TypeOK
  <2> QED BY <1>7, <2>1, <2>2 DEF EngineTells, TypeOK, phone, host
<1>8. CASE EngineCloses(s)
  <2>1. toPhone' \in Seq(Frames)
    BY <1>0, <1>8, PlainIs, Sent DEF EngineCloses, Types, TypeOK
  <2> QED BY <1>8, <2>1 DEF EngineCloses, TypeOK, phone, host
<1>9. CASE HostSocketHears(s)
  BY <1>9, HostHasGot DEF HostSocketHears, TypeOK, phone, host, Left
<1> QED BY <1>1, <1>2, <1>3, <1>4, <1>5, <1>6, <1>7, <1>8, <1>9 DEF Spoken
------------------------------------------------------------------------------
(* The phone's steps with a request.                                       *)

LEMMA Apart ==
    ASSUME NEW s
    PROVE  /\ s \in Requests => s \in Streams /\ s \notin Sockets
           /\ s \in Sockets => s \in Streams /\ s \notin Requests
BY TunnelAssumption DEF Streams

\* What was not sent is nowhere.
LEMMA Fresh ==
    ASSUME IInv, NEW s \in Streams, phase[s] \in {"new", "reading"}
    PROVE  /\ s \notin streams /\ s \notin Kept /\ s \notin requests /\ s \notin sockets
           /\ \A T : ~Has(toHost, T, s) /\ ~Has(toPhone, T, s)
<1>1. toHost \in Seq(Frames) /\ toPhone \in Seq(Frames)
  BY DEF IInv, TypeOK
<1>2. Unsent(s)
  BY DEF IInv, Str
<1> QED BY <1>1, <1>2, HasMore DEF Unsent, Kept

\* What the host was given and what it took of it stand as they stood.
LEMMA OwedStands ==
    ASSUME NEW s \in Requests, Req(s),
           \A E, lo, hi : Flows(toHost, "credit", E, s, lo, hi) => Flows(toHost', "credit", E, s, lo, hi),
           credited'[s] = credited[s], taken'[s] = taken[s], sent'[s] = sent[s], window'[s] = window[s],
           s \in requests' => s \in requests
    PROVE  Owed(s)'
<1>1. PICK a \in Nat, b \in Nat : /\ Flows(toHost, "credit", {}, s, a, b)
                                  /\ b <= credited[s]
                                  /\ s \in requests => window[s] + sent[s] <= Window + a
  BY DEF Req, Owed
<1>2. Flows(toHost', "credit", {}, s, a, b)
  BY <1>1
<1> QED BY <1>1, <1>2 DEF Req, Owed

LEMMA Sending ==
    ASSUME IInv, TypeOK', NEW s \in Requests, phase[s] \in {"new", "reading"}, NEW n \in Nat, Sends(s, n),
           UNCHANGED <<toPhone, closed, received, taken, credited, host, wires>>
    PROVE  IInv'
<1>0. s \in Streams /\ s \notin Sockets /\ TypeOK /\ toHost \in Seq(Frames)
  BY Apart DEF IInv, TypeOK
<1>1. Str(s) /\ Req(s)
  BY <1>0 DEF IInv
<1>2. PICK q2, w : q2 = toHost' /\ w = Whole(s, n) /\ q2 = (IF "phone" \in closed THEN toHost ELSE toHost \o w)
  BY DEF Sends, ToHost, Whole
<1>3. /\ w \in Seq(Frames)
      /\ \A T, t : Has(w, T, t) => t = s
      /\ \A T : Has(w, T, s) => "reqHead" \in T \/ "reqBody" \in T \/ "reqEnd" \in T
      /\ \A T : "reqHead" \in T => Has(w, T, s)
      /\ Leads(w, s) /\ OneEnd(w, s)
  BY <1>0, <1>2, WholeIs
<1>4. Joined(toHost, q2, w, s)
  <2>1. \A t : t # s => ~Has(w, Types, t)
    BY <1>3
  <2>2. q2 = toHost \/ q2 = toHost \o w
    BY <1>2
  <2> QED BY <1>0, <1>3, <2>1, <2>2, Joins
<1>5. "phone" \notin closed => \A T : Has(w, T, s) => Has(q2, T, s)
  <2>1. \A T : Has(toHost \o w, T, s) <=> Has(toHost, T, s) \/ Has(w, T, s)
    BY <1>0, <1>3, HasOn
  <2> QED BY <1>2, <2>1
<1>6. /\ phase' = [phase EXCEPT ![s] = "waiting"] /\ streams' = streams \cup {s}
      /\ phase'[s] = "waiting" /\ s \in streams'
  BY <1>0 DEF Sends, TypeOK
<1>7. /\ toPhone' = toPhone /\ closed' = closed /\ received' = received /\ taken' = taken /\ credited' = credited
      /\ requests' = requests /\ run' = run /\ window' = window /\ sent' = sent /\ whole' = whole
      /\ sockets' = sockets /\ engine' = engine /\ Kept' = Kept
  BY DEF host, wires, Kept
<1>8. /\ s \notin streams /\ s \notin Kept /\ s \notin requests /\ s \notin sockets
      /\ \A T : ~Has(toHost, T, s) /\ ~Has(toPhone, T, s)
  BY <1>0, Fresh
<1>9. \A T : Has(toHost', T, s) => "reqHead" \in T \/ "reqBody" \in T \/ "reqEnd" \in T
  BY <1>2, <1>3, <1>4, <1>8 DEF Joined
<1>10. Leads(toHost', s) /\ OneEnd(toHost', s)
  BY <1>1, <1>2, <1>3, <1>4, <1>8 DEF Joined, Str, Opened, Req, Asked
<1>11. run[s] = "none" /\ received[s] = 0 /\ sent[s] = 0
  BY <1>1 DEF Req, Running
<1>12. Str(s)'
  <2>1. Unsent(s)'
    BY <1>6 DEF Unsent
  <2>2. Opened(s)'
    BY <1>7, <1>8, <1>10 DEF Opened
  <2>3. Ended(s)'
    <3>1. ~Has(toHost', Enders, s)
      BY <1>9 DEF Enders
    <3> QED BY <1>0, <3>1 DEF Ended
  <2>4. Paired(s)'
    <3>1. closed = {} => Has(toHost', Openers, s)
      BY <1>2, <1>3, <1>5 DEF Openers
    <3> QED BY <1>6, <1>7, <3>1 DEF Paired
  <2> QED BY <2>1, <2>2, <2>3, <2>4 DEF Str
<1>13. Req(s)'
  <2>1. Running(s)'
    BY <1>1, <1>6, <1>7, <1>11 DEF Req, Running
  <2>2. Asked(s)'
    BY <1>7, <1>10, <1>11 DEF Asked
  <2>3. Answered(s)'
    BY <1>7, <1>8, <1>11 DEF Answered
  <2>4. Flowing(s)'
    <3>1. Flows(toPhone, "resBody", Ends, s, 0, 0)
      BY <1>0, <1>8, FlowsNone DEF TypeOK
    <3> QED BY <1>7, <1>8, <1>11, <3>1 DEF Flowing
  <2>5. Wholly(s)'
    BY <1>6 DEF Wholly
  <2>6. Owed(s)'
    <3>1. ~Has(w, {"credit"}, s)
      BY <1>3
    <3>2. \A E, lo, hi : Flows(toHost, "credit", E, s, lo, hi) => Flows(toHost', "credit", E, s, lo, hi)
      BY <1>2, <1>4, <3>1 DEF Joined
    <3> QED BY <1>1, <1>7, <3>2, OwedStands
  <2> QED BY <2>1, <2>2, <2>3, <2>4, <2>5, <2>6 DEF Req
<1>14. ASSUME NEW t \in Streams, t # s
       PROVE  /\ StrAsIs(t) /\ (t \in Requests => ReqAsIs(t))
              /\ Same(toHost, toHost', t) /\ Same(toPhone, toPhone', t)
  <2>1. Same(toHost, toHost', t)
    BY <1>2, <1>4, <1>14 DEF Joined
  <2>2. Same(toPhone, toPhone', t)
    BY <1>7, SameSelf
  <2>3. StrAsIs(t) /\ ReqAsIs(t)
    BY <1>6, <1>7, <1>14 DEF StrAsIs, ReqAsIs
  <2> QED BY <2>1, <2>2, <2>3
<1> QED BY <1>0, <1>7, <1>12, <1>13, <1>14, OneStream

\* A stream the phone does not send, and may give up before it is sent.
LEMMA Fetches ==
    ASSUME IInv, TypeOK', NEW s \in Requests, fetch(s)
    PROVE  IInv'
<1>0. s \in Streams /\ s \notin Sockets /\ TypeOK
  BY Apart DEF IInv
<1>1. Str(s) /\ Req(s)
  BY <1>0 DEF IInv
<1>2. /\ phase[s] = "new"
      /\ UNCHANGED <<toPhone, closed, received, taken, credited, host, wires>>
  BY DEF fetch
<1>3. CASE Sends(s, 0)
  BY <1>2, <1>3, Sending
<1>4. CASE ~Sends(s, 0)
  <2>1. PICK p \in {"failed", "reading"} : /\ phase' = [phase EXCEPT ![s] = p] /\ UNCHANGED <<streams, toHost>>
                                           /\ p = "failed" => "phone" \in closed
    BY <1>4 DEF fetch
  <2>2. phase'[s] = p
    BY <1>0, <2>1 DEF TypeOK
  <2>3. /\ toPhone' = toPhone /\ toHost' = toHost /\ streams' = streams
        /\ closed' = closed /\ received' = received /\ taken' = taken /\ credited' = credited
        /\ requests' = requests /\ run' = run /\ window' = window /\ sent' = sent /\ whole' = whole
        /\ sockets' = sockets /\ engine' = engine /\ Kept' = Kept
    BY <1>2, <2>1 DEF host, wires, Kept
  <2>4. Str(s)'
    <3>1. Unsent(s)'
      BY <1>0, <1>1, <1>2, <2>3 DEF Str, Unsent
    <3>2. Opened(s)' /\ Ended(s)'
      BY <1>1, <2>3 DEF Str, Opened, Ended
    <3>3. Paired(s)'
      BY <1>1, <2>3 DEF Str, Paired, Over
    <3> QED BY <3>1, <3>2, <3>3 DEF Str
  <2>5. Req(s)'
    <3>1. Running(s)'
      BY <1>1, <1>2, <2>2, <2>3 DEF Req, Running
    <3>2. Asked(s)' /\ Answered(s)' /\ Flowing(s)'
      BY <1>1, <2>3 DEF Req, Asked, Answered, Flowing
    <3>3. Wholly(s)'
      BY <2>2 DEF Wholly
    <3>4. Owed(s)'
      BY <1>1, <2>3 DEF Req, Owed
    <3> QED BY <3>1, <3>2, <3>3, <3>4 DEF Req
  <2>6. ASSUME NEW t \in Streams, t # s
        PROVE  /\ StrAsIs(t) /\ (t \in Requests => ReqAsIs(t))
               /\ Same(toHost, toHost', t) /\ Same(toPhone, toPhone', t)
    <3>1. Same(toHost, toHost', t) /\ Same(toPhone, toPhone', t)
      BY <2>3, SameSelf
    <3>2. StrAsIs(t) /\ ReqAsIs(t)
      BY <2>1, <2>3, <2>6 DEF StrAsIs, ReqAsIs
    <3> QED BY <3>1, <3>2
  <2> QED BY <1>0, <2>3, <2>4, <2>5, <2>6, OneStream
<1> QED BY <1>3, <1>4

LEMMA ReadsItsBody ==
    ASSUME IInv, TypeOK', NEW s \in Requests, BodyRead(s)
    PROVE  IInv'
<1>1. phase[s] = "reading" /\ Sends(s, upload[s]) /\ UNCHANGED <<toPhone, closed, received, taken, credited, host, wires>>
  BY DEF BodyRead
<1>2. upload[s] \in Nat
  BY DEF IInv, TypeOK
<1> QED BY <1>1, <1>2, Sending

LEMMA Aborting ==
    ASSUME IInv, TypeOK', NEW s \in Requests, Aborts(s)
    PROVE  IInv'
<1>0. s \in Streams /\ s \notin Sockets /\ TypeOK
  BY Apart DEF IInv
<1>1. Str(s) /\ Req(s)
  BY <1>0 DEF IInv
<1>2. /\ Grown(toHost, toHost', "abort", s)
      /\ "phone" \notin closed => \A T : "abort" \in T => Has(toHost', T, s)
  <2>1. ToHost(<<Frame("abort", s, 0)>>)
    BY DEF Aborts, Plain
  <2> QED BY <1>0, <2>1, HostIsSent DEF Types
<1>3. /\ s \in streams /\ streams' = streams \ {s} /\ phase' = [phase EXCEPT ![s] = "failed"] /\ phase'[s] = "failed"
      /\ phase[s] \in {"waiting", "body"}
  BY <1>0 DEF Aborts, TypeOK
<1>4. /\ toPhone' = toPhone
      /\ closed' = closed /\ received' = received /\ taken' = taken /\ credited' = credited
      /\ requests' = requests /\ run' = run /\ window' = window /\ sent' = sent /\ whole' = whole
      /\ sockets' = sockets /\ engine' = engine /\ Kept' = Kept
  BY DEF Aborts, host, wires, Kept
<1>5. Str(s)'
  <2>1. Unsent(s)'
    BY <1>3 DEF Unsent
  <2>2. Opened(s)'
    BY <1>1, <1>2, <1>4 DEF Str, Opened, Grown, Openers
  <2>3. Ended(s)'
    BY <1>0, <1>3 DEF Ended
  <2>4. Paired(s)'
    BY <1>2, <1>3, <1>4 DEF Paired, Enders
  <2> QED BY <2>1, <2>2, <2>3, <2>4 DEF Str
<1>6. Req(s)'
  <2>1. Running(s)'
    BY <1>1, <1>2, <1>3, <1>4 DEF Req, Running, Grown
  <2>2. Asked(s)'
    BY <1>1, <1>2, <1>4 DEF Req, Asked, Grown
  <2>3. Answered(s)'
    BY <1>1, <1>3, <1>4 DEF Req, Answered
  <2>4. Flowing(s)' /\ Wholly(s)'
    BY <1>3 DEF Flowing, Wholly
  <2>5. Owed(s)'
    <3>1. \A E, lo, hi : Flows(toHost, "credit", E, s, lo, hi) => Flows(toHost', "credit", E, s, lo, hi)
      BY <1>2 DEF Grown
    <3> QED BY <1>1, <1>4, <3>1, OwedStands
  <2> QED BY <2>1, <2>2, <2>3, <2>4, <2>5 DEF Req
<1>7. ASSUME NEW t \in Streams, t # s
      PROVE  /\ StrAsIs(t) /\ (t \in Requests => ReqAsIs(t))
             /\ Same(toHost, toHost', t) /\ Same(toPhone, toPhone', t)
  <2>1. Same(toHost, toHost', t) /\ Same(toPhone, toPhone', t)
    BY <1>2, <1>4, <1>7, SameSelf DEF Grown
  <2>2. StrAsIs(t) /\ ReqAsIs(t)
    BY <1>3, <1>4, <1>7 DEF StrAsIs, ReqAsIs
  <2> QED BY <2>1, <2>2
<1> QED BY <1>0, <1>4, <1>5, <1>6, <1>7, OneStream

\* The answer's head.
LEMMA HearsHead ==
    ASSUME IInv, TypeOK', NEW s \in Requests, s \in streams, PhoneGets("resHead", s),
           phase' = [phase EXCEPT ![s] = "body"], streams' = streams,
           UNCHANGED <<toHost, closed, received, taken, credited, host, wires>>
    PROVE  IInv'
<1>0. s \in Streams /\ s \notin Sockets /\ TypeOK
  BY Apart DEF IInv
<1>1. Str(s) /\ Req(s)
  BY <1>0 DEF IInv
<1>2. Left(toPhone, toPhone', "resHead", s)
  BY <1>0, PhoneHasGot
<1>3. /\ phase'[s] = "body"
      /\ toHost' = toHost
      /\ closed' = closed /\ received' = received /\ taken' = taken /\ credited' = credited
      /\ requests' = requests /\ run' = run /\ window' = window /\ sent' = sent /\ whole' = whole
      /\ sockets' = sockets /\ engine' = engine /\ Kept' = Kept
  BY <1>0 DEF host, wires, Kept, TypeOK
<1>4. Str(s)'
  <2>1. Unsent(s)'
    BY <1>3 DEF Unsent
  <2>2. Opened(s)' /\ Ended(s)'
    BY <1>0, <1>1, <1>3 DEF Str, Opened, Ended
  <2>3. Paired(s)'
    <3>1. Has(toPhone, Closers, s) => Has(toPhone', Closers, s)
      BY <1>2 DEF Left, Closers, Ends, Enders
    <3> QED BY <1>1, <1>3, <3>1 DEF Str, Paired, Over
  <2> QED BY <2>1, <2>2, <2>3 DEF Str
<1>5. Req(s)'
  <2>1. Running(s)'
    BY <1>1, <1>3 DEF Req, Running
  <2>2. Asked(s)'
    BY <1>1, <1>3 DEF Req, Asked
  <2>3. Answered(s)'
    BY <1>1, <1>2, <1>3 DEF Req, Answered, Left
  <2>4. Flowing(s)'
    <3>1. Flows(toPhone', "resBody", Ends, s, received[s], sent[s])
      BY <1>1, <1>2 DEF Req, Flowing, Left
    <3> QED BY <1>1, <1>2, <1>3, <3>1 DEF Req, Flowing, Left
  <2>5. Wholly(s)'
    BY <1>3 DEF Wholly
  <2>6. Owed(s)'
    BY <1>1, <1>3, OwedStands
  <2> QED BY <2>1, <2>2, <2>3, <2>4, <2>5, <2>6 DEF Req
<1>6. ASSUME NEW t \in Streams, t # s
      PROVE  /\ StrAsIs(t) /\ (t \in Requests => ReqAsIs(t))
             /\ Same(toHost, toHost', t) /\ Same(toPhone, toPhone', t)
  <2>1. Same(toHost, toHost', t) /\ Same(toPhone, toPhone', t)
    BY <1>2, <1>3, <1>6, SameSelf DEF Left
  <2>2. StrAsIs(t) /\ ReqAsIs(t)
    BY <1>3, <1>6 DEF StrAsIs, ReqAsIs
  <2> QED BY <2>1, <2>2
<1> QED BY <1>0, <1>3, <1>4, <1>5, <1>6, OneStream

\* The answer's end, whichever it is.
LEMMA HearsEnd ==
    ASSUME IInv, TypeOK', NEW s \in Requests, s \in streams, NEW type \in Closers, PhoneGets(type, s),
           NEW p \in {"ended", "failed"}, p = "ended" => type \in Ends,
           phase' = [phase EXCEPT ![s] = p], streams' = streams \ {s},
           UNCHANGED <<toHost, closed, received, taken, credited, host, wires>>
    PROVE  IInv'
<1>0. s \in Streams /\ s \notin Sockets /\ TypeOK
  BY Apart DEF IInv
<1>1. Str(s) /\ Req(s)
  BY <1>0 DEF IInv
<1>2. Left(toPhone, toPhone', type, s)
  BY <1>0, PhoneHasGot
<1>3. /\ phase'[s] = p /\ s \notin streams'
      /\ toHost' = toHost
      /\ closed' = closed /\ received' = received /\ taken' = taken /\ credited' = credited
      /\ requests' = requests /\ run' = run /\ window' = window /\ sent' = sent /\ whole' = whole
      /\ sockets' = sockets /\ engine' = engine /\ Kept' = Kept
  BY <1>0 DEF host, wires, Kept, TypeOK
<1>4. run[s] = "over"
  <2>1. Has(toPhone, Closers, s)
    BY <1>2 DEF Left
  <2> QED BY <1>1, <2>1 DEF Req, Answered
<1>5. p = "ended" => s \in whole /\ received[s] = sent[s]
  <2> SUFFICES ASSUME type \in Ends
               PROVE  s \in whole /\ received[s] = sent[s]
    OBVIOUS
  <2>1. Has(toPhone, Ends, s)
    BY <1>2 DEF Left
  <2>2. "resBody" # type
    BY DEF Ends
  <2>3. Flows(toPhone, "resBody", Ends, s, received[s], sent[s]) /\ s \in whole
    BY <1>1, <2>1 DEF Req, Flowing
  <2> QED BY <1>2, <2>2, <2>3 DEF Left
<1>6. Str(s)'
  <2>1. Unsent(s)'
    BY <1>3 DEF Unsent
  <2>2. Opened(s)'
    BY <1>1, <1>3 DEF Str, Opened
  <2>3. Ended(s)'
    BY <1>0, <1>3 DEF Ended
  <2>4. Paired(s)'
    BY <1>3, <1>4 DEF Paired, Over
  <2> QED BY <2>1, <2>2, <2>3, <2>4 DEF Str
<1>7. Req(s)'
  <2>1. Running(s)'
    BY <1>1, <1>3 DEF Req, Running
  <2>2. Asked(s)'
    BY <1>1, <1>3 DEF Req, Asked
  <2>3. Answered(s)'
    BY <1>3, <1>4 DEF Answered
  <2>4. Flowing(s)' /\ Wholly(s)'
    BY <1>3, <1>5 DEF Flowing, Wholly
  <2>5. Owed(s)'
    BY <1>1, <1>3, OwedStands
  <2> QED BY <2>1, <2>2, <2>3, <2>4, <2>5 DEF Req
<1>8. ASSUME NEW t \in Streams, t # s
      PROVE  /\ StrAsIs(t) /\ (t \in Requests => ReqAsIs(t))
             /\ Same(toHost, toHost', t) /\ Same(toPhone, toPhone', t)
  <2>1. Same(toHost, toHost', t) /\ Same(toPhone, toPhone', t)
    BY <1>2, <1>3, <1>8, SameSelf DEF Left
  <2>2. StrAsIs(t) /\ ReqAsIs(t)
    BY <1>3, <1>8 DEF StrAsIs, ReqAsIs
  <2> QED BY <2>1, <2>2
<1> QED BY <1>0, <1>3, <1>6, <1>7, <1>8, OneStream

LEMMA Heads ==
    ASSUME IInv, TypeOK', NEW s \in Requests, resHead(s)
    PROVE  IInv'
<1>1. s \in streams /\ UNCHANGED <<toHost, closed, received, taken, credited, host, wires>>
  BY DEF resHead
<1>2. CASE PhoneGets("resHead", s) /\ phase' = [phase EXCEPT ![s] = "body"] /\ UNCHANGED streams
  BY <1>1, <1>2, HearsHead
<1>3. CASE PhoneGets("resNull", s) /\ phase' = [phase EXCEPT ![s] = "ended"] /\ streams' = streams \ {s}
  <2>1. "resNull" \in Closers /\ "resNull" \in Ends
    BY DEF Closers, Ends
  <2> QED BY <1>1, <1>3, <2>1, HearsEnd
<1> QED BY <1>2, <1>3 DEF resHead

LEMMA Ending ==
    ASSUME IInv, TypeOK', NEW s \in Requests, resEnd(s) \/ resAbort(s)
    PROVE  IInv'
<1>1. s \in streams /\ UNCHANGED <<toHost, closed, received, taken, credited, host, wires>> /\ streams' = streams \ {s}
  BY DEF resEnd, resAbort
<1>2. CASE resEnd(s)
  <2>1. "resEnd" \in Closers /\ "resEnd" \in Ends
    BY DEF Closers, Ends
  <2>2. PhoneGets("resEnd", s) /\ phase' = [phase EXCEPT ![s] = "ended"]
    BY <1>2 DEF resEnd
  <2> QED BY <1>1, <2>1, <2>2, HearsEnd
<1>3. CASE resAbort(s)
  <2>1. "abort" \in Closers
    BY DEF Closers, Enders
  <2>2. PhoneGets("abort", s) /\ phase' = [phase EXCEPT ![s] = "failed"]
    BY <1>3 DEF resAbort
  <2> QED BY <1>1, <2>1, <2>2, HearsEnd
<1> QED BY <1>2, <1>3

\* A piece of the answer.
LEMMA HearsBody ==
    ASSUME IInv, TypeOK', NEW s \in Requests, resBody(s)
    PROVE  IInv'
<1>0. s \in Streams /\ s \notin Sockets /\ TypeOK
  BY Apart DEF IInv
<1>1. Str(s) /\ Req(s)
  BY <1>0 DEF IInv
<1>2. Left(toPhone, toPhone', "resBody", s)
  BY <1>0, PhoneHasGot DEF resBody
<1>3. /\ s \in streams /\ received' = [received EXCEPT ![s] = @ + Head(toPhone).bytes]
      /\ received'[s] = received[s] + Head(toPhone).bytes
      /\ streams' = streams /\ phase' = phase
      /\ toHost' = toHost
      /\ closed' = closed /\ taken' = taken /\ credited' = credited
      /\ requests' = requests /\ run' = run /\ window' = window /\ sent' = sent /\ whole' = whole
      /\ sockets' = sockets /\ engine' = engine /\ Kept' = Kept
  BY DEF resBody, host, wires, Kept, TypeOK, IInv
<1>4. phase[s] \notin {"new", "reading"}
  BY <1>0, <1>3, Fresh
<1>5. Str(s)'
  <2>1. Unsent(s)'
    BY <1>3, <1>4 DEF Unsent
  <2>2. Opened(s)' /\ Ended(s)'
    BY <1>0, <1>1, <1>3 DEF Str, Opened, Ended
  <2>3. Paired(s)'
    <3>1. Has(toPhone, Closers, s) => Has(toPhone', Closers, s)
      BY <1>2 DEF Left, Closers, Ends, Enders
    <3> QED BY <1>1, <1>3, <3>1 DEF Str, Paired, Over
  <2> QED BY <2>1, <2>2, <2>3 DEF Str
<1>6. Req(s)'
  <2>1. Running(s)'
    BY <1>1, <1>3, <1>4 DEF Req, Running
  <2>2. Asked(s)'
    BY <1>1, <1>3 DEF Req, Asked
  <2>3. Answered(s)'
    BY <1>1, <1>2, <1>3 DEF Req, Answered, Left
  <2>4. Flowing(s)'
    <3>1. Flows(toPhone', "resBody", Ends, s, received[s] + Head(toPhone).bytes, sent[s])
      BY <1>1, <1>2, <1>3 DEF Req, Flowing, Left
    <3> QED BY <1>1, <1>2, <1>3, <3>1 DEF Req, Flowing, Left
  <2>5. Wholly(s)'
    BY <1>1, <1>3 DEF Req, Wholly
  <2>6. Owed(s)'
    BY <1>1, <1>3, OwedStands
  <2> QED BY <2>1, <2>2, <2>3, <2>4, <2>5, <2>6 DEF Req
<1>7. ASSUME NEW t \in Streams, t # s
      PROVE  /\ StrAsIs(t) /\ (t \in Requests => ReqAsIs(t))
             /\ Same(toHost, toHost', t) /\ Same(toPhone, toPhone', t)
  <2>1. Same(toHost, toHost', t) /\ Same(toPhone, toPhone', t)
    BY <1>2, <1>3, <1>7, SameSelf DEF Left
  <2>2. StrAsIs(t) /\ ReqAsIs(t)
    BY <1>3, <1>7 DEF StrAsIs, ReqAsIs
  <2> QED BY <2>1, <2>2
<1> QED BY <1>0, <1>3, <1>5, <1>6, <1>7, OneStream

\* The reader takes some of it: what it took and was not credited is on its way
\* to the host, or is still to be told.
LEMMA Taking ==
    ASSUME IInv, TypeOK', NEW s \in Requests, Take(s)
    PROVE  IInv'
<1>0. s \in Streams /\ s \notin Sockets /\ TypeOK /\ toHost \in Seq(Frames)
  BY Apart DEF IInv, TypeOK
<1>1. Str(s) /\ Req(s)
  BY <1>0 DEF IInv
<1>2. PICK n \in 1 .. Chunk : /\ taken' = [taken EXCEPT ![s] = @ + n]
                              /\ \/ /\ taken[s] + n - credited[s] >= Step
                                    /\ credited' = [credited EXCEPT ![s] = @ + (taken[s] + n - credited[s])]
                                    /\ ToHost(<<Frame("credit", s, taken[s] + n - credited[s])>>)
                                 \/ UNCHANGED <<credited, toHost>>
  BY DEF Take
<1>3. n \in Nat /\ taken[s] \in Nat /\ credited[s] \in Nat /\ Step \in Nat /\ sent[s] \in Nat
      /\ taken'[s] = taken[s] + n /\ Window \in Nat /\ Chunk \in Nat
  BY <1>0, <1>2, TunnelAssumption DEF TypeOK
<1>4. /\ phase[s] \in {"body", "ended"}
      /\ phase' = phase /\ streams' = streams /\ toPhone' = toPhone
      /\ closed' = closed /\ received' = received
      /\ requests' = requests /\ run' = run /\ window' = window /\ sent' = sent /\ whole' = whole
      /\ sockets' = sockets /\ engine' = engine /\ Kept' = Kept
  BY DEF Take, host, wires, Kept
<1>5. \E w \in Nat : /\ credited'[s] = credited[s] + w /\ credited[s] + w <= taken[s] + n
                     /\ \A t \in Requests : t # s => credited'[t] = credited[t]
                     /\ toHost' = toHost \/ toHost' = toHost \o <<Frame("credit", s, w)>>
  <2>1. CASE UNCHANGED <<credited, toHost>>
    <3>1. credited[s] <= taken[s]
      BY <1>1 DEF Req, Owed
    <3>2. credited[s] + 0 = credited[s] /\ 0 \in Nat
      BY <1>3
    <3>3. credited[s] + 0 <= taken[s] + n
      BY <1>3, <3>1
    <3> QED BY <2>1, <3>2, <3>3
  <2>2. ASSUME taken[s] + n - credited[s] >= Step,
               credited' = [credited EXCEPT ![s] = @ + (taken[s] + n - credited[s])],
               ToHost(<<Frame("credit", s, taken[s] + n - credited[s])>>)
        PROVE  \E w \in Nat : /\ credited'[s] = credited[s] + w /\ credited[s] + w <= taken[s] + n
                              /\ \A t \in Requests : t # s => credited'[t] = credited[t]
                              /\ toHost' = toHost \/ toHost' = toHost \o <<Frame("credit", s, w)>>
    <3>1. PICK w \in Nat : w = taken[s] + n - credited[s]
      BY <1>3, <2>2
    <3>2. credited[s] + w <= taken[s] + n
      BY <1>3, <3>1
    <3>3. credited' = [credited EXCEPT ![s] = @ + w] /\ ToHost(<<Frame("credit", s, w)>>)
      BY <2>2, <3>1
    <3>4. credited'[s] = credited[s] + w /\ \A t \in Requests : t # s => credited'[t] = credited[t]
      BY <1>0, <3>3 DEF TypeOK
    <3> QED BY <3>2, <3>3, <3>4 DEF ToHost
  <2> QED BY <1>2, <2>1, <2>2
<1>6. PICK w \in Nat : /\ credited'[s] = credited[s] + w /\ credited[s] + w <= taken[s] + n
                       /\ \A t \in Requests : t # s => credited'[t] = credited[t]
                       /\ toHost' = toHost \/ toHost' = toHost \o <<Frame("credit", s, w)>>
  BY <1>5
<1>7. PICK q2 : q2 = toHost'
  OBVIOUS
<1>8. Grown(toHost, q2, "credit", s)
  <2>1. "credit" \in Types
    BY DEF Types
  <2> QED BY <1>0, <1>6, <1>7, <2>1, JoinsOne
<1>9. Str(s)'
  <2>1. Unsent(s)'
    BY <1>4 DEF Unsent
  <2>2. Opened(s)'
    BY <1>1, <1>4, <1>7, <1>8 DEF Str, Opened, Grown, Openers
  <2>3. Ended(s)'
    BY <1>0, <1>1, <1>4, <1>7, <1>8 DEF Str, Ended, Grown, Enders
  <2>4. Paired(s)'
    BY <1>1, <1>4, <1>7, <1>8 DEF Str, Paired, Grown, Over, Openers
  <2> QED BY <2>1, <2>2, <2>3, <2>4 DEF Str
<1>10. Owed(s)'
  <2>1. PICK a \in Nat, b \in Nat : /\ Flows(toHost, "credit", {}, s, a, b)
                                    /\ b <= credited[s]
                                    /\ s \in requests => window[s] + sent[s] <= Window + a
    BY <1>1 DEF Req, Owed
  <2>2. sent[s] - taken[s] < Window + Chunk
    BY <1>1 DEF Req, Owed
  <2>3. sent[s] - (taken[s] + n) < Window + Chunk
    BY <1>3, <2>2
  <2>4. credited'[s] <= taken'[s]
    BY <1>3, <1>6
  <2>5. CASE q2 = toHost
    <3>1. Flows(toHost', "credit", {}, s, a, b)
      BY <1>7, <2>1, <2>5
    <3>2. b <= credited'[s]
      BY <1>3, <1>6, <2>1
    <3> QED BY <1>3, <1>4, <2>1, <2>3, <2>4, <3>1, <3>2 DEF Owed
  <2>6. CASE q2 = toHost \o <<Frame("credit", s, w)>>
    <3>1. PICK f : f = Frame("credit", s, w)
      OBVIOUS
    <3>2. f \in Frames /\ f.stream = s /\ f.type = "credit" /\ f.bytes = w
      BY <1>0, <3>1 DEF Frame, Frames, Types
    <3>3. Weight(f, "credit", s) = w /\ <<f>> \in Seq(Frames)
      BY <3>2 DEF Weight
    <3>4. Flows(<<f>>, "credit", {}, s, b, b + w)
      BY <3>2, <3>3, FlowsOne
    <3>5. ~Has(toHost, {}, s)
      BY DEF Has
    <3>6. Flows(toHost \o <<f>>, "credit", {}, s, a, b + w)
      BY <1>0, <2>1, <3>3, <3>4, <3>5, FlowsOn
    <3>7. Flows(toHost', "credit", {}, s, a, b + w) /\ b + w \in Nat
      BY <1>7, <2>6, <3>1, <3>6
    <3>8. b + w <= credited'[s]
      BY <1>3, <1>6, <2>1
    <3> QED BY <1>3, <1>4, <2>1, <2>3, <2>4, <3>7, <3>8 DEF Owed
  <2> QED BY <1>6, <1>7, <2>5, <2>6
<1>11. Req(s)'
  <2>1. Running(s)'
    BY <1>1, <1>4, <1>7, <1>8 DEF Req, Running, Grown
  <2>2. Asked(s)'
    BY <1>1, <1>4, <1>7, <1>8 DEF Req, Asked, Grown
  <2>3. Answered(s)' /\ Flowing(s)' /\ Wholly(s)'
    BY <1>1, <1>4 DEF Req, Answered, Flowing, Wholly
  <2> QED BY <1>10, <2>1, <2>2, <2>3 DEF Req
<1>12. ASSUME NEW t \in Streams, t # s
       PROVE  /\ StrAsIs(t) /\ (t \in Requests => ReqAsIs(t))
              /\ Same(toHost, toHost', t) /\ Same(toPhone, toPhone', t)
  <2>1. Same(toHost, toHost', t) /\ Same(toPhone, toPhone', t)
    BY <1>4, <1>7, <1>8, <1>12, SameSelf DEF Grown
  <2>2. StrAsIs(t) /\ (t \in Requests => ReqAsIs(t))
    BY <1>2, <1>4, <1>6, <1>12 DEF StrAsIs, ReqAsIs
  <2> QED BY <2>1, <2>2
<1> QED BY <1>0, <1>4, <1>9, <1>11, <1>12, OneStream

------------------------------------------------------------------------------
(* The host's steps with a request.                                        *)

\* A request's head.
LEMMA Opening ==
    ASSUME IInv, TypeOK', NEW s \in Requests, reqHead(s)
    PROVE  IInv'
<1>0. s \in Streams /\ s \notin Sockets /\ TypeOK /\ s \notin sockets
  BY Apart DEF IInv, TypeOK
<1>1. Str(s) /\ Req(s)
  BY <1>0 DEF IInv
<1>2. Left(toHost, toHost', "reqHead", s) /\ "host" \notin closed
  BY <1>0, HostHasGot DEF reqHead
<1>3. /\ requests' = requests \cup {s} /\ run' = [run EXCEPT ![s] = "receiving"]
      /\ window' = [window EXCEPT ![s] = Window]
      /\ s \in requests' /\ run'[s] = "receiving" /\ window'[s] = Window
      /\ toPhone' = toPhone /\ closed' = closed /\ sent' = sent /\ whole' = whole
      /\ streams' = streams /\ phase' = phase /\ received' = received /\ taken' = taken /\ credited' = credited
      /\ sockets' = sockets /\ engine' = engine
  BY DEF reqHead, phone, wires, IInv, TypeOK
<1>4. /\ \A T : "reqHead" \in T => Has(toHost, T, s)
      /\ phase[s] \notin {"new", "reading"}
  <2>1. \A T : "reqHead" \in T => Has(toHost, T, s)
    BY <1>2 DEF Left
  <2> QED BY <1>0, <2>1, Fresh
<1>5. run[s] = "none" /\ s \notin Kept /\ sent[s] = 0 /\ s \notin whole
  BY <1>1, <1>4 DEF Req, Running, Str, Opened, Openers
<1>6. ~Has(toHost', Openers, s) /\ ~Has(toHost', {"reqHead"}, s) /\ Leads(toHost', s) /\ OneEnd(toHost', s)
  <2>1. ~Has(toHost', Openers, s) /\ Leads(toHost', s) /\ OneEnd(toHost', s) /\ toHost' \in Seq(Frames)
    BY <1>1, <1>2 DEF Left, Str, Opened, Req, Asked
  <2>2. {"reqHead"} \subseteq Openers
    BY DEF Openers
  <2> QED BY <2>1, <2>2, HasMore
<1>7. Str(s)'
  <2>1. Unsent(s)'
    BY <1>3, <1>4 DEF Unsent
  <2>2. Opened(s)'
    BY <1>6 DEF Opened
  <2>3. Ended(s)'
    BY <1>0, <1>1, <1>2, <1>3 DEF Str, Ended, Left
  <2>4. Paired(s)'
    <3>1. Has(toHost, Enders, s) => Has(toHost', Enders, s)
      BY <1>2 DEF Left, Enders
    <3>2. Has(toHost, Openers, s)
      BY <1>4 DEF Openers
    <3>3. closed = {} /\ s \notin streams => Has(toHost, Enders, s)
      BY <1>1, <1>5, <3>2 DEF Str, Paired, Over
    <3> QED BY <1>3, <3>1, <3>3 DEF Paired, Kept
  <2> QED BY <2>1, <2>2, <2>3, <2>4 DEF Str
<1>8. Req(s)'
  <2>1. Running(s)'
    BY <1>2, <1>3, <1>4, <1>5, <1>6 DEF Running
  <2>2. Asked(s)'
    BY <1>3, <1>6 DEF Asked
  <2>3. Answered(s)'
    BY <1>1, <1>3, <1>5 DEF Req, Answered
  <2>4. Flowing(s)' /\ Wholly(s)'
    BY <1>1, <1>3 DEF Req, Flowing, Wholly
  <2>5. Owed(s)'
    <3>1. PICK a \in Nat, b \in Nat : Flows(toHost, "credit", {}, s, a, b) /\ b <= credited[s]
      BY <1>1 DEF Req, Owed
    <3>2. Flows(toHost', "credit", {}, s, a, b)
      BY <1>2, <3>1 DEF Left
    <3>3. window'[s] + sent'[s] <= Window + a
      BY <1>3, <1>5, TunnelAssumption
    <3> QED BY <1>1, <1>3, <3>1, <3>2, <3>3 DEF Req, Owed
  <2> QED BY <2>1, <2>2, <2>3, <2>4, <2>5 DEF Req
<1>9. ASSUME NEW t \in Streams, t # s
      PROVE  /\ StrAsIs(t) /\ (t \in Requests => ReqAsIs(t))
             /\ Same(toHost, toHost', t) /\ Same(toPhone, toPhone', t)
  <2>1. Same(toHost, toHost', t) /\ Same(toPhone, toPhone', t)
    BY <1>2, <1>3, <1>9, SameSelf DEF Left
  <2>2. StrAsIs(t) /\ (t \in Requests => ReqAsIs(t))
    BY <1>0, <1>3, <1>9 DEF StrAsIs, ReqAsIs, TypeOK
  <2> QED BY <2>1, <2>2
<1> QED BY <1>0, <1>3, <1>7, <1>8, <1>9, OneStream

\* A piece of its body.
LEMMA Uploading ==
    ASSUME IInv, TypeOK', NEW s \in Requests, reqBody(s)
    PROVE  IInv'
<1>0. s \in Streams /\ s \notin Sockets /\ TypeOK
  BY Apart DEF IInv
<1>1. Str(s) /\ Req(s)
  BY <1>0 DEF IInv
<1>2. Left(toHost, toHost', "reqBody", s) /\ "host" \notin closed
  BY <1>0, HostHasGot DEF reqBody
<1>3. /\ toPhone' = toPhone /\ closed' = closed /\ sent' = sent /\ whole' = whole
      /\ requests' = requests /\ run' = run /\ window' = window /\ Kept' = Kept
      /\ streams' = streams /\ phase' = phase /\ received' = received /\ taken' = taken /\ credited' = credited
      /\ sockets' = sockets /\ engine' = engine
  BY DEF reqBody, phone, wires, Kept
<1>4. phase[s] \notin {"new", "reading"}
  <2>1. Has(toHost, {"reqBody"}, s)
    BY <1>2 DEF Left
  <2> QED BY <1>0, <2>1, Fresh
<1>5. Leads(toHost', s) /\ OneEnd(toHost', s)
  BY <1>1, <1>2 DEF Left, Str, Opened, Req, Asked
<1>6. Str(s)'
  <2>1. Unsent(s)'
    BY <1>3, <1>4 DEF Unsent
  <2>2. Opened(s)'
    BY <1>1, <1>2, <1>3, <1>5 DEF Str, Opened, Left
  <2>3. Ended(s)'
    BY <1>0, <1>1, <1>2, <1>3 DEF Str, Ended, Left
  <2>4. Paired(s)'
    BY <1>1, <1>2, <1>3 DEF Str, Paired, Over, Left, Openers, Enders
  <2> QED BY <2>1, <2>2, <2>3, <2>4 DEF Str
<1>7. Req(s)'
  <2>1. Running(s)'
    BY <1>1, <1>2, <1>3 DEF Req, Running, Left
  <2>2. Asked(s)'
    BY <1>1, <1>2, <1>3, <1>5 DEF Req, Asked, Left
  <2>3. Answered(s)' /\ Flowing(s)' /\ Wholly(s)'
    BY <1>1, <1>3 DEF Req, Answered, Flowing, Wholly
  <2>4. Owed(s)'
    <3>1. \A E, lo, hi : Flows(toHost, "credit", E, s, lo, hi) => Flows(toHost', "credit", E, s, lo, hi)
      BY <1>2 DEF Left
    <3> QED BY <1>1, <1>3, <3>1, OwedStands
  <2> QED BY <2>1, <2>2, <2>3, <2>4 DEF Req
<1>8. ASSUME NEW t \in Streams, t # s
      PROVE  /\ StrAsIs(t) /\ (t \in Requests => ReqAsIs(t))
             /\ Same(toHost, toHost', t) /\ Same(toPhone, toPhone', t)
  <2>1. Same(toHost, toHost', t) /\ Same(toPhone, toPhone', t)
    BY <1>2, <1>3, <1>8, SameSelf DEF Left
  <2>2. StrAsIs(t) /\ ReqAsIs(t)
    BY <1>3 DEF StrAsIs, ReqAsIs
  <2> QED BY <2>1, <2>2
<1> QED BY <1>0, <1>3, <1>6, <1>7, <1>8, OneStream

\* What the host keeps of a request, and tells, once it has all of it.
Heard(s, q2) ==
    /\ run'[s] \in {"over", "fetching"} /\ (run'[s] = "fetching" => s \in requests')
    /\ s \notin requests' => run'[s] = "over" /\ Has(q2, Closers, s)
    /\ s \in whole' => run'[s] = "over"
    /\ s \in requests' => sent'[s] = sent[s]
    /\ run'[s] # "over" => sent'[s] = 0 /\ ~Has(q2, Closers, s)
    /\ s \in streams => Flows(q2, "resBody", Ends, s, received[s], sent'[s]) /\ (Has(q2, Ends, s) => s \in whole')
    /\ sent'[s] \in {0, 1}
    /\ \A t : t # s => Same(toPhone, q2, t)

\* The request's end, whatever becomes of it.
LEMMA Received ==
    ASSUME IInv, TypeOK', NEW s \in Requests, HostGets("reqEnd", s), s \in requests,
           UNCHANGED <<closed, window, phone, wires>>,
           NEW q2, toPhone' = q2,
           \/ /\ requests' = requests \ {s} /\ run' = [run EXCEPT ![s] = "over"]
              /\ sent' = [sent EXCEPT ![s] = 1] /\ whole' = whole \cup {s}
              /\ q2 = toPhone \o TooLarge(s)
           \/ /\ requests' = requests /\ run' = [run EXCEPT ![s] = "fetching"]
              /\ sent' = sent /\ whole' = whole /\ q2 = toPhone
           \/ /\ requests' = requests /\ run' = [run EXCEPT ![s] = "over"]
              /\ sent' = sent /\ whole' = whole /\ q2 = toPhone \o <<Frame("abort", s, 0)>>
    PROVE  IInv'
<1>0. s \in Streams /\ s \notin Sockets /\ TypeOK /\ toPhone \in Seq(Frames) /\ s \notin sockets
  BY Apart DEF IInv, TypeOK
<1>1. Str(s) /\ Req(s)
  BY <1>0 DEF IInv
<1>2. Left(toHost, toHost', "reqEnd", s) /\ "host" \notin closed
  BY <1>0, HostHasGot
<1>3. /\ toPhone' = q2 /\ closed' = closed /\ window' = window
      /\ streams' = streams /\ phase' = phase /\ received' = received /\ taken' = taken /\ credited' = credited
      /\ sockets' = sockets /\ engine' = engine
  BY DEF phone, wires
<1>4. phase[s] \notin {"new", "reading"} /\ run[s] = "receiving" /\ sent[s] = 0 /\ s \notin whole
      /\ ~Has(toPhone, Closers, s) /\ ~Has(toPhone, Ends, s) /\ ~Has(toHost', {"reqEnd"}, s)
      /\ ~Has(toHost', {"reqHead"}, s) /\ phase[s] # "ended"
  <2>1. Has(toHost, {"reqEnd"}, s)
    BY <1>2 DEF Left
  <2>2. phase[s] \notin {"new", "reading"}
    BY <1>0, <2>1, Fresh
  <2>3. run[s] = "receiving"
    BY <1>1, <2>1 DEF Req, Asked, Running
  <2>4. sent[s] = 0 /\ s \notin whole /\ ~Has(toHost, {"reqHead"}, s)
    BY <1>1, <2>3 DEF Req, Running
  <2>5. ~Has(toPhone, Closers, s)
    BY <1>1, <2>3 DEF Req, Answered
  <2>6. Ends \subseteq Closers
    BY DEF Closers
  <2>7. ~Has(toPhone, Ends, s)
    BY <1>0, <2>5, <2>6, HasMore
  <2>8. ~Has(toHost', {"reqEnd"}, s) /\ ~Has(toHost', {"reqHead"}, s)
    BY <1>1, <1>2, <2>4 DEF Req, Asked, Left
  <2>9. phase[s] # "ended"
    BY <1>1, <2>4 DEF Req, Wholly
  <2> QED BY <2>2, <2>3, <2>4, <2>5, <2>7, <2>8, <2>9
<1>5. /\ Leads(toHost', s) /\ OneEnd(toHost', s) /\ ~Has(toHost', Openers, s)
      /\ \A E, lo, hi : Flows(toHost, "credit", E, s, lo, hi) => Flows(toHost', "credit", E, s, lo, hi)
  BY <1>1, <1>2 DEF Left, Str, Opened, Req, Asked
<1>6. Heard(s, q2)
  <2>1. ASSUME requests' = requests \ {s}, run' = [run EXCEPT ![s] = "over"],
               sent' = [sent EXCEPT ![s] = 1], whole' = whole \cup {s}, q2 = toPhone \o TooLarge(s)
        PROVE  Heard(s, q2)
    <3>1. run'[s] = "over" /\ sent'[s] = 1 /\ s \notin requests' /\ s \in whole'
      BY <2>1 DEF TypeOK, IInv
    <3>2. PICK w : w = TooLarge(s)
      OBVIOUS
    <3>3. /\ w \in Seq(Frames) /\ Flows(w, "resBody", Ends, s, 0, 1)
          /\ \A T, t : Has(w, T, t) <=> t = s /\ ("resHead" \in T \/ "resBody" \in T \/ "resEnd" \in T)
      BY <1>0, <3>2, TooLargeIs
    <3>4. Has(toPhone \o w, Closers, s)
      <4>1. Has(w, Closers, s)
        BY <3>3 DEF Closers, Ends
      <4> QED BY <1>0, <3>3, <4>1, HasOn
    <3>5. s \in streams => Flows(toPhone \o w, "resBody", Ends, s, received[s], 1)
      <4>1. s \in streams => Flows(toPhone, "resBody", Ends, s, received[s], 0)
        BY <1>1, <1>4 DEF Req, Flowing
      <4> QED BY <1>0, <1>4, <3>3, <4>1, FlowsOn
    <3>6. \A t : t # s => Same(toPhone, toPhone \o w, t)
      BY <1>0, <3>3, SameOn
    <3> QED BY <2>1, <3>1, <3>2, <3>4, <3>5, <3>6 DEF Heard
  <2>2. ASSUME requests' = requests, run' = [run EXCEPT ![s] = "fetching"],
               sent' = sent, whole' = whole, q2 = toPhone
        PROVE  Heard(s, q2)
    <3>1. run'[s] = "fetching" /\ s \in requests'
      BY <2>2 DEF TypeOK, IInv
    <3>2. \A t : Same(toPhone, toPhone, t)
      BY SameSelf
    <3> QED BY <1>1, <1>4, <2>2, <3>1, <3>2 DEF Req, Flowing, Heard
  <2>3. ASSUME requests' = requests, run' = [run EXCEPT ![s] = "over"],
               sent' = sent, whole' = whole, q2 = toPhone \o <<Frame("abort", s, 0)>>
        PROVE  Heard(s, q2)
    <3>1. run'[s] = "over" /\ s \in requests'
      BY <2>3 DEF TypeOK, IInv
    <3>2. Grown(toPhone, q2, "abort", s)
      <4>1. "abort" \in Types /\ 0 \in Nat
        BY DEF Types
      <4> QED BY <1>0, <2>3, <4>1, JoinsOne
    <3>3. s \in streams => Flows(q2, "resBody", Ends, s, received[s], sent[s])
      BY <1>1, <3>2 DEF Req, Flowing, Grown
    <3>4. ~Has(q2, Ends, s)
      BY <1>4, <3>2 DEF Grown, Ends
    <3>5. \A t : t # s => Same(toPhone, q2, t)
      BY <3>2 DEF Grown
    <3> QED BY <1>4, <2>3, <3>1, <3>3, <3>4, <3>5 DEF Heard
  <2> QED BY <2>1, <2>2, <2>3
<1>7. Str(s)'
  <2>1. Unsent(s)'
    BY <1>3, <1>4 DEF Unsent
  <2>2. Opened(s)'
    BY <1>5 DEF Opened
  <2>3. Ended(s)'
    BY <1>0, <1>1, <1>2, <1>3 DEF Str, Ended, Left
  <2>4. Paired(s)'
    <3>1. Has(toHost, Enders, s) => Has(toHost', Enders, s)
      BY <1>2 DEF Left, Enders
    <3>2. closed = {} /\ s \notin streams => Has(toHost, Enders, s)
      BY <1>1, <1>4 DEF Str, Paired, Over, Kept
    <3> QED BY <1>3, <1>6, <3>1, <3>2 DEF Paired, Kept, Heard
  <2> QED BY <2>1, <2>2, <2>3, <2>4 DEF Str
<1>8. Req(s)'
  <2>1. Running(s)'
    BY <1>2, <1>3, <1>4, <1>6 DEF Running, Heard
  <2>2. Asked(s)'
    BY <1>4, <1>5 DEF Asked
  <2>3. Answered(s)'
    BY <1>3, <1>6 DEF Answered, Heard
  <2>4. Flowing(s)' /\ Wholly(s)'
    BY <1>3, <1>4, <1>6 DEF Flowing, Wholly, Heard
  <2>5. Owed(s)'
    <3>1. PICK a \in Nat, b \in Nat : /\ Flows(toHost, "credit", {}, s, a, b) /\ b <= credited[s]
                                      /\ window[s] + sent[s] <= Window + a
      BY <1>1 DEF Req, Owed
    <3>2. Flows(toHost', "credit", {}, s, a, b)
      BY <1>5, <3>1
    <3>3. sent'[s] - taken[s] < Window + Chunk
      <4>1. taken[s] \in Nat /\ Window \in Nat /\ Chunk \in Nat /\ Window >= 1 /\ Chunk >= 1
        BY <1>0, TunnelAssumption DEF TypeOK
      <4> QED BY <1>6, <4>1 DEF Heard
    <3> QED BY <1>1, <1>3, <1>6, <3>1, <3>2, <3>3 DEF Req, Owed, Heard
  <2> QED BY <2>1, <2>2, <2>3, <2>4, <2>5 DEF Req
<1>9. ASSUME NEW t \in Streams, t # s
      PROVE  /\ StrAsIs(t) /\ (t \in Requests => ReqAsIs(t))
             /\ Same(toHost, toHost', t) /\ Same(toPhone, toPhone', t)
  <2>1. Same(toHost, toHost', t) /\ Same(toPhone, toPhone', t)
    BY <1>2, <1>3, <1>6, <1>9 DEF Left, Heard
  <2>2. /\ t \in requests' <=> t \in requests
        /\ t \in whole' <=> t \in whole
        /\ t \in Requests => run'[t] = run[t] /\ sent'[t] = sent[t]
    BY <1>0, <1>9 DEF TypeOK
  <2>3. StrAsIs(t) /\ (t \in Requests => ReqAsIs(t))
    BY <1>3, <2>2 DEF StrAsIs, ReqAsIs
  <2> QED BY <2>1, <2>3
<1> QED BY <1>0, <1>3, <1>7, <1>8, <1>9, OneStream

LEMMA EndReceived ==
    ASSUME IInv, TypeOK', NEW s \in Requests, reqEnd(s) \/ NoRoute(s)
    PROVE  IInv'
<1>0. s \in Streams /\ s \notin Sockets /\ TypeOK
  BY Apart DEF IInv
<1>1. Str(s) /\ Req(s)
  BY <1>0 DEF IInv
<1>2. /\ HostGets("reqEnd", s) /\ UNCHANGED <<closed, size, window, phone, wires>>
      /\ "host" \notin closed /\ Left(toHost, toHost', "reqEnd", s)
  BY <1>0, HostHasGot DEF reqEnd, NoRoute
<1>3. CASE s \in requests
  <2>1. PICK q2 : q2 = toPhone'
    OBVIOUS
  <2>2. \/ /\ requests' = requests \ {s} /\ run' = [run EXCEPT ![s] = "over"]
           /\ sent' = [sent EXCEPT ![s] = 1] /\ whole' = whole \cup {s}
           /\ q2 = toPhone \o TooLarge(s)
        \/ /\ requests' = requests /\ run' = [run EXCEPT ![s] = "fetching"]
           /\ sent' = sent /\ whole' = whole /\ q2 = toPhone
        \/ /\ requests' = requests /\ run' = [run EXCEPT ![s] = "over"]
           /\ sent' = sent /\ whole' = whole /\ q2 = toPhone \o <<Frame("abort", s, 0)>>
    BY <1>2, <1>3, <2>1 DEF reqEnd, NoRoute, ToPhone, TooLarge, Plain
  <2> QED BY <1>2, <1>3, <2>1, <2>2, Received
<1>4. CASE s \notin requests
  <2>1. /\ toPhone' = toPhone /\ closed' = closed /\ sent' = sent /\ whole' = whole
        /\ requests' = requests /\ run' = run /\ window' = window /\ Kept' = Kept
        /\ streams' = streams /\ phase' = phase /\ received' = received /\ taken' = taken /\ credited' = credited
        /\ sockets' = sockets /\ engine' = engine
    BY <1>2, <1>4 DEF reqEnd, NoRoute, phone, wires, Kept
  <2>2. phase[s] \notin {"new", "reading"}
    <3>1. Has(toHost, {"reqEnd"}, s)
      BY <1>2 DEF Left
    <3> QED BY <1>0, <3>1, Fresh
  <2>3. Str(s)'
    <3>1. Unsent(s)'
      BY <2>1, <2>2 DEF Unsent
    <3>2. Opened(s)'
      BY <1>1, <1>2, <2>1 DEF Str, Opened, Left
    <3>3. Ended(s)'
      BY <1>0, <1>1, <1>2, <2>1 DEF Str, Ended, Left
    <3>4. Paired(s)'
      BY <1>1, <1>2, <2>1 DEF Str, Paired, Over, Left, Openers, Enders
    <3> QED BY <3>1, <3>2, <3>3, <3>4 DEF Str
  <2>4. Req(s)'
    <3>1. Running(s)'
      BY <1>1, <1>2, <2>1 DEF Req, Running, Left
    <3>2. Asked(s)'
      BY <1>1, <1>2, <2>1 DEF Req, Asked, Left
    <3>3. Answered(s)' /\ Flowing(s)' /\ Wholly(s)'
      BY <1>1, <2>1 DEF Req, Answered, Flowing, Wholly
    <3>4. Owed(s)'
      <4>1. \A E, lo, hi : Flows(toHost, "credit", E, s, lo, hi) => Flows(toHost', "credit", E, s, lo, hi)
        BY <1>2 DEF Left
      <4> QED BY <1>1, <2>1, <4>1, OwedStands
    <3> QED BY <3>1, <3>2, <3>3, <3>4 DEF Req
  <2>5. ASSUME NEW t \in Streams, t # s
        PROVE  /\ StrAsIs(t) /\ (t \in Requests => ReqAsIs(t))
               /\ Same(toHost, toHost', t) /\ Same(toPhone, toPhone', t)
    <3>1. Same(toHost, toHost', t) /\ Same(toPhone, toPhone', t)
      BY <1>2, <2>1, <2>5, SameSelf DEF Left
    <3>2. StrAsIs(t) /\ ReqAsIs(t)
      BY <2>1 DEF StrAsIs, ReqAsIs
    <3> QED BY <3>1, <3>2
  <2> QED BY <1>0, <2>1, <2>3, <2>4, <2>5, OneStream
<1> QED BY <1>3, <1>4

\* What the host may do next with a request it fetches: go on with it or be done
\* with it, and be done with it only if the phone is told or does not ask.
Proceeds(s, q2) ==
    /\ run'[s] \in {"sending", "over"}
    /\ \A t \in Requests : t # s => run'[t] = run[t] /\ sent'[t] = sent[t] /\ window'[t] = window[t]
    /\ \A t : t # s => /\ Same(toPhone, q2, t)
                       /\ t \in requests' <=> t \in requests
                       /\ t \in whole' <=> t \in whole
    /\ s \in requests' => s \in requests
    /\ run'[s] = "sending" => /\ s \in requests' <=> s \in requests
                              /\ s \in whole' <=> s \in whole
                              /\ Has(q2, Closers, s) => Has(toPhone, Closers, s)
    /\ closed = {} /\ s \in requests /\ s \notin requests' => Has(q2, Closers, s)
    /\ s \in streams => /\ Flows(q2, "resBody", Ends, s, received[s], sent'[s])
                        /\ Has(q2, Ends, s) => s \in whole'

\* What holds of a request the host fetches.
LEMMA Fetched ==
    ASSUME IInv, NEW s \in Requests, run[s] \in {"fetching", "sending"}
    PROVE  /\ s \in Streams /\ s \notin Sockets /\ TypeOK /\ toPhone \in Seq(Frames) /\ s \notin sockets
           /\ Str(s) /\ Req(s)
           /\ phase[s] \notin {"new", "reading"} /\ phase[s] # "ended" /\ s \notin whole
           /\ ~Has(toPhone, Closers, s) /\ ~Has(toPhone, Ends, s)
           /\ ~Has(toHost, {"reqHead"}, s) /\ ~Has(toHost, {"reqEnd"}, s)
           /\ s \notin requests => "host" \in closed \/ s \notin streams
<1>0. s \in Streams /\ s \notin Sockets /\ TypeOK /\ toPhone \in Seq(Frames) /\ s \notin sockets
  BY Apart DEF IInv, TypeOK
<1>1. Str(s) /\ Req(s)
  BY <1>0 DEF IInv
<1>2. phase[s] \notin {"new", "reading"} /\ s \notin whole /\ ~Has(toHost, {"reqHead"}, s)
  BY <1>1 DEF Req, Running
<1>3. phase[s] # "ended" /\ ~Has(toHost, {"reqEnd"}, s)
  BY <1>1, <1>2 DEF Req, Wholly, Asked
<1>4. ~Has(toPhone, Closers, s) /\ (s \notin requests => "host" \in closed \/ s \notin streams)
  BY <1>1 DEF Req, Answered
<1>5. ~Has(toPhone, Ends, s)
  <2>1. Ends \subseteq Closers
    BY DEF Closers
  <2> QED BY <1>0, <1>4, <2>1, HasMore
<1> QED BY <1>0, <1>1, <1>2, <1>3, <1>4, <1>5

LEMMA Proceeding ==
    ASSUME IInv, TypeOK', NEW s \in Requests, run[s] \in {"fetching", "sending"},
           UNCHANGED <<toHost, closed, phone, wires>>, NEW q2, toPhone' = q2, Proceeds(s, q2), Owed(s)'
    PROVE  IInv'
<1>1. /\ s \in Streams /\ s \notin Sockets /\ TypeOK /\ toPhone \in Seq(Frames) /\ s \notin sockets
      /\ Str(s) /\ Req(s)
      /\ phase[s] \notin {"new", "reading"} /\ phase[s] # "ended" /\ s \notin whole
      /\ ~Has(toPhone, Closers, s) /\ ~Has(toPhone, Ends, s)
      /\ ~Has(toHost, {"reqHead"}, s) /\ ~Has(toHost, {"reqEnd"}, s)
      /\ s \notin requests => "host" \in closed \/ s \notin streams
  BY Fetched
<1>2. /\ toHost' = toHost /\ toPhone' = q2 /\ closed' = closed
      /\ streams' = streams /\ phase' = phase /\ received' = received /\ taken' = taken /\ credited' = credited
      /\ sockets' = sockets /\ engine' = engine
  BY DEF phone, wires
<1>3. Str(s)'
  <2>1. Unsent(s)'
    BY <1>1, <1>2 DEF Unsent
  <2>2. Opened(s)'
    BY <1>1, <1>2 DEF Str, Opened, Kept, Proceeds
  <2>3. Ended(s)'
    BY <1>1, <1>2 DEF Str, Ended
  <2>4. Paired(s)'
    BY <1>1, <1>2 DEF Str, Paired, Kept, Over, Proceeds
  <2> QED BY <2>1, <2>2, <2>3, <2>4 DEF Str
<1>4. Req(s)'
  <2>1. Running(s)'
    BY <1>1, <1>2 DEF Req, Running, Proceeds
  <2>2. Asked(s)'
    BY <1>1, <1>2 DEF Req, Asked
  <2>3. Answered(s)'
    BY <1>1, <1>2 DEF Answered, Proceeds
  <2>4. Flowing(s)' /\ Wholly(s)'
    BY <1>1, <1>2 DEF Flowing, Wholly, Proceeds
  <2> QED BY <2>1, <2>2, <2>3, <2>4 DEF Req
<1>5. ASSUME NEW t \in Streams, t # s
      PROVE  /\ StrAsIs(t) /\ (t \in Requests => ReqAsIs(t))
             /\ Same(toHost, toHost', t) /\ Same(toPhone, toPhone', t)
  <2>1. Same(toHost, toHost', t) /\ Same(toPhone, toPhone', t)
    BY <1>2, <1>5, SameSelf DEF Proceeds
  <2>2. StrAsIs(t) /\ (t \in Requests => ReqAsIs(t))
    BY <1>2, <1>5 DEF StrAsIs, ReqAsIs, Proceeds
  <2> QED BY <2>1, <2>2
<1> QED BY <1>1, <1>2, <1>3, <1>4, <1>5, OneStream

\* The host says a thing of a request to the phone, or nothing.
LEMMA Telling ==
    ASSUME IInv, TypeOK', NEW s \in Requests, run[s] \in {"fetching", "sending"},
           UNCHANGED <<toHost, closed, window, sent, phone, wires>>, NEW q2, toPhone' = q2,
           NEW type \in {"resHead", "resNull", "abort", "resEnd"},
           q2 = toPhone \/ q2 = toPhone \o <<Frame(type, s, 0)>>,
           NEW r \in {"sending", "over"}, run' = [run EXCEPT ![s] = r],
           requests' = requests \/ requests' = requests \ {s},
           whole' = whole \/ whole' = whole \cup {s},
           r = "sending" => type = "resHead" /\ requests' = requests /\ whole' = whole,
           closed = {} /\ s \in requests /\ s \notin requests' => type \in Closers /\ q2 = toPhone \o <<Frame(type, s, 0)>>,
           s \in streams /\ type \in Ends => q2 = toPhone \/ s \in whole'
    PROVE  IInv'
<1>1. /\ s \in Streams /\ TypeOK /\ toPhone \in Seq(Frames) /\ Req(s)
      /\ ~Has(toPhone, Closers, s) /\ ~Has(toPhone, Ends, s)
  BY Fetched
<1>2. run'[s] = r /\ \A t \in Requests : t # s => run'[t] = run[t]
  BY <1>1 DEF TypeOK
<1>3. /\ Grown(toPhone, q2, type, s)
      /\ q2 = toPhone \o <<Frame(type, s, 0)>> => \A T : type \in T => Has(q2, T, s)
  <2>1. type \in Types /\ 0 \in Nat
    BY DEF Types
  <2> QED BY <1>1, <2>1, JoinsOne
<1>4. Flows(q2, "resBody", Ends, s, received[s], sent[s]) \/ s \notin streams
  BY <1>1, <1>3 DEF Req, Flowing, Grown
<1>5. Has(q2, Ends, s) => type \in Ends /\ q2 # toPhone
  BY <1>1, <1>3 DEF Grown
<1>6. "resHead" \notin Closers
  BY DEF Closers, Ends, Enders
<1>7. Proceeds(s, q2)
  <2>1. r = "sending" => (Has(q2, Closers, s) => Has(toPhone, Closers, s))
    BY <1>3, <1>6 DEF Grown
  <2>2. \A t : t # s => Same(toPhone, q2, t)
    BY <1>3 DEF Grown
  <2> QED BY <1>2, <1>3, <1>4, <1>5, <2>1, <2>2 DEF Proceeds
<1>8. Owed(s)'
  <2>1. credited' = credited /\ taken' = taken
    BY DEF phone
  <2> QED BY <1>1, <2>1, OwedStands
<1> QED BY <1>7, <1>8, Proceeding

LEMMA Responding ==
    ASSUME IInv, TypeOK', NEW s \in Requests, Answers(s)
    PROVE  IInv'
<1>1. run[s] = "fetching" /\ UNCHANGED <<toHost, closed, window, sent, phone, wires>>
  BY DEF Answers
<1>2. PICK q2 : q2 = toPhone'
  OBVIOUS
<1>3. CASE run' = [run EXCEPT ![s] = "sending"] /\ ToPhone(Plain("resHead", s)) /\ UNCHANGED <<requests, whole>>
  <2>1. q2 = toPhone \/ q2 = toPhone \o <<Frame("resHead", s, 0)>>
    BY <1>2, <1>3 DEF ToPhone, Plain
  <2>2. "resHead" \notin Ends
    BY DEF Ends
  <2>3. closed = {} /\ s \in requests => s \in requests'
    BY <1>3
  <2> QED BY <1>1, <1>2, <1>3, <2>1, <2>2, <2>3, Telling
<1>4. CASE /\ run' = [run EXCEPT ![s] = "over"] /\ requests' = requests \ {s} /\ whole' = whole \cup {s}
           /\ ToPhone(Plain("resNull", s))
  <2>1. /\ q2 = toPhone \/ q2 = toPhone \o <<Frame("resNull", s, 0)>>
        /\ closed = {} => q2 = toPhone \o <<Frame("resNull", s, 0)>>
    BY <1>2, <1>4 DEF ToPhone, Plain
  <2>2. "resNull" \in Closers /\ s \in whole'
    BY <1>4 DEF Closers, Ends
  <2> QED BY <1>1, <1>2, <1>4, <2>1, <2>2, Telling
<1> QED BY <1>3, <1>4 DEF Answers

LEMMA Rejecting ==
    ASSUME IInv, TypeOK', NEW s \in Requests, Rejects(s)
    PROVE  IInv'
<1>1. /\ run[s] \in {"fetching", "sending"} /\ UNCHANGED <<toHost, closed, window, sent, phone, wires>>
      /\ run' = [run EXCEPT ![s] = "over"] /\ requests' = requests \ {s} /\ whole' = whole
  BY DEF Rejects
<1>2. PICK q2 : q2 = toPhone'
  OBVIOUS
<1>3. /\ q2 = toPhone \/ q2 = toPhone \o <<Frame("abort", s, 0)>>
      /\ closed = {} /\ s \in requests => q2 = toPhone \o <<Frame("abort", s, 0)>>
  BY <1>2 DEF Rejects, ToPhone, Plain
<1>4. "abort" \in Closers /\ "abort" \notin Ends
  BY DEF Closers, Enders, Ends
<1> QED BY <1>1, <1>2, <1>3, <1>4, Telling

LEMMA BodyEnding ==
    ASSUME IInv, TypeOK', NEW s \in Requests, BodyEnds(s)
    PROVE  IInv'
<1>1. /\ run[s] = "sending" /\ UNCHANGED <<toHost, closed, window, sent, phone, wires>>
      /\ run' = [run EXCEPT ![s] = "over"] /\ requests' = requests \ {s}
      /\ whole' = IF s \in requests THEN whole \cup {s} ELSE whole
  BY DEF BodyEnds
<1>2. PICK q2 : q2 = toPhone'
  OBVIOUS
<1>3. /\ q2 = toPhone \/ q2 = toPhone \o <<Frame("resEnd", s, 0)>>
      /\ closed = {} => q2 = toPhone \o <<Frame("resEnd", s, 0)>>
      /\ "host" \in closed => q2 = toPhone
  BY <1>2 DEF BodyEnds, ToPhone, Plain
<1>4. "resEnd" \in Closers
  BY DEF Closers, Ends
<1>5. s \in streams => q2 = toPhone \/ s \in whole'
  BY <1>1, <1>3, Fetched
<1> QED BY <1>1, <1>2, <1>3, <1>4, <1>5, Telling

LEMMA Cancelling ==
    ASSUME IInv, TypeOK', NEW s \in Requests, Cancels(s)
    PROVE  IInv'
<1>1. /\ run[s] = "sending" /\ UNCHANGED <<toHost, closed, window, sent, phone, wires>>
      /\ run' = [run EXCEPT ![s] = "over"] /\ requests' = requests /\ whole' = whole
      /\ s \notin requests /\ toPhone' = toPhone
  BY DEF Cancels
<1>2. PICK q2 : q2 = toPhone'
  OBVIOUS
<1> QED BY <1>1, <1>2, Telling

\* A piece of the answer is sent while there is window left.
LEMMA SendsBody ==
    ASSUME IInv, TypeOK', NEW s \in Requests, sendBody(s)
    PROVE  IInv'
<1>1. /\ s \in Streams /\ TypeOK /\ toPhone \in Seq(Frames) /\ Req(s)
      /\ ~Has(toPhone, Closers, s) /\ ~Has(toPhone, Ends, s) /\ run[s] = "sending" /\ s \in requests
  BY Fetched DEF sendBody
<1>2. PICK n \in 1 .. Chunk : /\ sent' = [sent EXCEPT ![s] = @ + n]
                              /\ window' = [window EXCEPT ![s] = @ - n]
                              /\ ToPhone(<<Frame("resBody", s, n)>>)
  BY DEF sendBody
<1>3. /\ n \in Nat /\ n <= Chunk /\ sent'[s] = sent[s] + n /\ window'[s] = window[s] - n /\ window[s] > 0
      /\ sent[s] \in Nat /\ window[s] \in Int /\ taken[s] \in Nat /\ credited[s] \in Nat /\ Chunk \in Nat
      /\ Window \in Nat
      /\ \A t \in Requests : t # s => sent'[t] = sent[t] /\ window'[t] = window[t]
  BY <1>1, <1>2, TunnelAssumption DEF TypeOK, sendBody
<1>4. UNCHANGED <<toHost, closed, requests, run, whole, phone, wires>>
  BY DEF sendBody
<1>5. PICK q2, f : q2 = toPhone' /\ f = Frame("resBody", s, n)
  OBVIOUS
<1>6. f \in Frames /\ f.type = "resBody" /\ f.stream = s /\ f.bytes = n
  BY <1>1, <1>3, <1>5 DEF Frame, Frames, Types
<1>7. /\ "host" \notin closed /\ q2 = toPhone \o <<f>> /\ <<f>> \in Seq(Frames)
      /\ Grown(toPhone, q2, "resBody", s)
  <2>1. "host" \notin closed
    BY <1>1 DEF Req, Running
  <2>2. q2 = toPhone \o <<Frame("resBody", s, n)>>
    BY <1>2, <1>5, <2>1 DEF ToPhone
  <2>3. "resBody" \in Types
    BY DEF Types
  <2>4. Grown(toPhone, q2, "resBody", s)
    BY <1>1, <1>3, <2>2, <2>3, JoinsOne
  <2>5. q2 = toPhone \o <<f>> /\ <<f>> \in Seq(Frames)
    BY <1>5, <1>6, <2>2
  <2> QED BY <2>1, <2>4, <2>5
<1>8. s \in streams => Flows(q2, "resBody", Ends, s, received[s], sent'[s])
  <2> SUFFICES ASSUME s \in streams
               PROVE  Flows(q2, "resBody", Ends, s, received[s], sent'[s])
    OBVIOUS
  <2>1. Weight(f, "resBody", s) = n
    BY <1>6 DEF Weight
  <2>2. Flows(<<f>>, "resBody", Ends, s, sent[s], sent[s] + n)
    BY <1>3, <1>6, <2>1, FlowsOne
  <2>3. Flows(toPhone, "resBody", Ends, s, received[s], sent[s])
    BY <1>1 DEF Req, Flowing
  <2>4. Flows(toPhone \o <<f>>, "resBody", Ends, s, received[s], sent[s] + n)
    BY <1>1, <1>7, <2>2, <2>3, FlowsOn
  <2> QED BY <1>3, <1>7, <2>4
<1>9. Proceeds(s, q2)
  <2>1. ~Has(q2, Closers, s) /\ ~Has(q2, Ends, s)
    BY <1>1, <1>7 DEF Grown, Closers, Ends, Enders
  <2>2. \A t : t # s => Same(toPhone, q2, t)
    BY <1>7 DEF Grown
  <2> QED BY <1>1, <1>3, <1>4, <1>8, <2>1, <2>2 DEF Proceeds
<1>10. Owed(s)'
  <2>1. PICK a \in Nat, b \in Nat : /\ Flows(toHost, "credit", {}, s, a, b)
                                    /\ b <= credited[s]
                                    /\ window[s] + sent[s] <= Window + a
    BY <1>1 DEF Req, Owed
  <2>2. a <= b /\ credited[s] <= taken[s]
    BY <1>1, <2>1, FlowsTypes DEF Req, Owed, TypeOK
  <2>3. (sent[s] + n) - taken[s] < Window + Chunk /\ (window[s] - n) + (sent[s] + n) <= Window + a
    BY <1>3, <2>1, <2>2
  <2>4. toHost' = toHost /\ credited' = credited /\ taken' = taken
    BY <1>4 DEF phone
  <2> QED BY <1>3, <2>1, <2>2, <2>3, <2>4 DEF Owed
<1> QED BY <1>1, <1>4, <1>5, <1>9, <1>10, Proceeding

\* What the phone credits is more to send.
LEMMA Crediting ==
    ASSUME IInv, TypeOK', NEW s \in Requests, credit(s)
    PROVE  IInv'
<1>0. s \in Streams /\ s \notin Sockets /\ TypeOK
  BY Apart DEF IInv
<1>1. Str(s) /\ Req(s)
  BY <1>0 DEF IInv
<1>2. Left(toHost, toHost', "credit", s) /\ "host" \notin closed
  BY <1>0, HostHasGot DEF credit
<1>3. /\ toPhone' = toPhone /\ closed' = closed /\ sent' = sent /\ whole' = whole
      /\ requests' = requests /\ run' = run /\ Kept' = Kept
      /\ streams' = streams /\ phase' = phase /\ received' = received /\ taken' = taken /\ credited' = credited
      /\ sockets' = sockets /\ engine' = engine
      /\ s \in requests => window'[s] = window[s] + Head(toHost).bytes
      /\ \A t \in Requests : t # s => window'[t] = window[t]
  BY <1>0 DEF credit, phone, wires, Kept, TypeOK
<1>4. phase[s] \notin {"new", "reading"}
  <2>1. Has(toHost, {"credit"}, s)
    BY <1>2 DEF Left
  <2> QED BY <1>0, <2>1, Fresh
<1>5. Str(s)'
  <2>1. Unsent(s)'
    BY <1>3, <1>4 DEF Unsent
  <2>2. Opened(s)'
    BY <1>1, <1>2, <1>3 DEF Str, Opened, Left
  <2>3. Ended(s)'
    BY <1>0, <1>1, <1>2, <1>3 DEF Str, Ended, Left
  <2>4. Paired(s)'
    BY <1>1, <1>2, <1>3 DEF Str, Paired, Over, Left, Openers, Enders
  <2> QED BY <2>1, <2>2, <2>3, <2>4 DEF Str
<1>6. Owed(s)'
  <2>1. PICK a \in Nat, b \in Nat : /\ Flows(toHost, "credit", {}, s, a, b)
                                    /\ b <= credited[s]
                                    /\ s \in requests => window[s] + sent[s] <= Window + a
    BY <1>1 DEF Req, Owed
  <2>2. PICK w \in Nat : w = Head(toHost).bytes
    BY <1>2 DEF Left
  <2>3. Flows(toHost', "credit", {}, s, a + w, b) /\ a + w \in Nat
    BY <1>2, <2>1, <2>2 DEF Left
  <2>4. window[s] \in Int /\ sent[s] \in Nat /\ Window \in Nat
    BY <1>0, TunnelAssumption DEF TypeOK
  <2>5. s \in requests => window'[s] + sent[s] <= Window + (a + w)
    BY <1>3, <2>1, <2>2, <2>4
  <2> QED BY <1>1, <1>3, <2>1, <2>3, <2>5 DEF Req, Owed
<1>7. Req(s)'
  <2>1. Running(s)'
    BY <1>1, <1>2, <1>3 DEF Req, Running, Left
  <2>2. Asked(s)'
    BY <1>1, <1>2, <1>3 DEF Req, Asked, Left
  <2>3. Answered(s)' /\ Flowing(s)' /\ Wholly(s)'
    BY <1>1, <1>3 DEF Req, Answered, Flowing, Wholly
  <2> QED BY <1>6, <2>1, <2>2, <2>3 DEF Req
<1>8. ASSUME NEW t \in Streams, t # s
      PROVE  /\ StrAsIs(t) /\ (t \in Requests => ReqAsIs(t))
             /\ Same(toHost, toHost', t) /\ Same(toPhone, toPhone', t)
  <2>1. Same(toHost, toHost', t) /\ Same(toPhone, toPhone', t)
    BY <1>2, <1>3, <1>8, SameSelf DEF Left
  <2>2. StrAsIs(t) /\ (t \in Requests => ReqAsIs(t))
    BY <1>3, <1>8 DEF StrAsIs, ReqAsIs
  <2> QED BY <2>1, <2>2
<1> QED BY <1>0, <1>3, <1>5, <1>7, <1>8, OneStream

\* The phone gave a request up.
LEMMA Forgetting ==
    ASSUME IInv, TypeOK', NEW s \in Requests, forget(s)
    PROVE  IInv'
<1>0. s \in Streams /\ s \notin Sockets /\ TypeOK /\ s \notin sockets
  BY Apart DEF IInv, TypeOK
<1>1. Str(s) /\ Req(s)
  BY <1>0 DEF IInv
<1>2. Left(toHost, toHost', "abort", s) /\ "host" \notin closed
  BY <1>0, HostHasGot DEF forget
<1>3. /\ toPhone' = toPhone /\ closed' = closed /\ sent' = sent /\ whole' = whole
      /\ requests' = requests \ {s} /\ run' = run /\ window' = window
      /\ streams' = streams /\ phase' = phase /\ received' = received /\ taken' = taken /\ credited' = credited
      /\ sockets' = sockets /\ engine' = engine
  BY DEF forget, phone, wires
<1>4. phase[s] \notin {"new", "reading"} /\ s \notin streams
  <2>1. Has(toHost, Enders, s)
    BY <1>2 DEF Left, Enders
  <2> QED BY <1>0, <1>1, <2>1, Fresh DEF Str, Ended
<1>5. ~Has(toHost', Openers, s) /\ Leads(toHost', s) /\ OneEnd(toHost', s)
  BY <1>1, <1>2 DEF Left, Str, Opened, Req, Asked
<1>6. Str(s)'
  <2>1. Unsent(s)'
    BY <1>3, <1>4 DEF Unsent
  <2>2. Opened(s)'
    BY <1>5 DEF Opened
  <2>3. Ended(s)'
    BY <1>0, <1>3, <1>4 DEF Ended
  <2>4. Paired(s)'
    BY <1>0, <1>3, <1>4, <1>5 DEF Paired, Kept
  <2> QED BY <2>1, <2>2, <2>3, <2>4 DEF Str
<1>7. Req(s)'
  <2>1. Running(s)'
    BY <1>1, <1>2, <1>3 DEF Req, Running, Left
  <2>2. Asked(s)'
    BY <1>1, <1>2, <1>3, <1>5 DEF Req, Asked, Left
  <2>3. Answered(s)' /\ Flowing(s)' /\ Wholly(s)'
    BY <1>1, <1>3, <1>4 DEF Req, Answered, Flowing, Wholly
  <2>4. Owed(s)'
    <3>1. \A E, lo, hi : Flows(toHost, "credit", E, s, lo, hi) => Flows(toHost', "credit", E, s, lo, hi)
      BY <1>2 DEF Left
    <3> QED BY <1>1, <1>3, <3>1, OwedStands
  <2> QED BY <2>1, <2>2, <2>3, <2>4 DEF Req
<1>8. ASSUME NEW t \in Streams, t # s
      PROVE  /\ StrAsIs(t) /\ (t \in Requests => ReqAsIs(t))
             /\ Same(toHost, toHost', t) /\ Same(toPhone, toPhone', t)
  <2>1. Same(toHost, toHost', t) /\ Same(toPhone, toPhone', t)
    BY <1>2, <1>3, <1>8, SameSelf DEF Left
  <2>2. StrAsIs(t) /\ (t \in Requests => ReqAsIs(t))
    BY <1>3, <1>8 DEF StrAsIs, ReqAsIs
  <2> QED BY <2>1, <2>2
<1> QED BY <1>0, <1>3, <1>6, <1>7, <1>8, OneStream
------------------------------------------------------------------------------
(* Sockets.                                                                *)

\* A step about a socket touches no request.
NoRequest == UNCHANGED <<closed, received, taken, credited, host>>

LEMMA OneSocket ==
    ASSUME IInv, TypeOK', NEW s \in Sockets, NoRequest, Str(s)',
           \A t : t # s => Same(toHost, toHost', t) /\ Same(toPhone, toPhone', t),
           phase' = phase \/ \E p : phase' = [phase EXCEPT ![s] = p],
           engine' = engine \/ \E e : engine' = [engine EXCEPT ![s] = e],
           streams' = streams \/ streams' = streams \cup {s} \/ streams' = streams \ {s},
           sockets' = sockets \/ sockets' = sockets \cup {s} \/ sockets' = sockets \ {s}
    PROVE  IInv'
<1>0. s \in Streams /\ s \notin Requests
  BY Apart
<1>1. /\ closed' = closed /\ received' = received /\ taken' = taken /\ credited' = credited
      /\ requests' = requests /\ run' = run /\ window' = window /\ sent' = sent /\ whole' = whole
  BY DEF NoRequest, host
<1>2. ASSUME NEW t \in Streams, t # s
      PROVE  /\ StrAsIs(t) /\ (t \in Requests => ReqAsIs(t))
             /\ Same(toHost, toHost', t) /\ Same(toPhone, toPhone', t)
  <2>1. phase'[t] = phase[t]
    BY <1>2 DEF IInv, TypeOK
  <2>2. t \in Sockets => engine'[t] = engine[t]
    BY <1>2 DEF IInv, TypeOK
  <2>3. StrAsIs(t) /\ ReqAsIs(t)
    BY <1>1, <1>2, <2>1, <2>2 DEF StrAsIs, ReqAsIs
  <2> QED BY <1>2, <2>3
<1> QED BY <1>0, <1>1, <1>2, OneStream

LEMMA Dialling ==
    ASSUME IInv, TypeOK', NEW s \in Sockets, socket(s)
    PROVE  IInv'
<1>0. s \in Streams /\ s \notin Requests /\ TypeOK /\ Str(s)
  BY Apart DEF IInv
<1>1. /\ phase[s] = "new" /\ NoRequest
      /\ toPhone' = toPhone /\ closed' = closed /\ sockets' = sockets /\ engine' = engine /\ Kept' = Kept
  BY DEF socket, NoRequest, host, wires, Kept
<1>2. /\ s \notin streams /\ s \notin Kept /\ s \notin requests /\ s \notin sockets
      /\ \A T : ~Has(toHost, T, s) /\ ~Has(toPhone, T, s)
  BY <1>0, <1>1, Fresh
<1>3. \A t : Same(toPhone, toPhone', t)
  BY <1>1, SameSelf
<1>4. CASE "phone" \in closed /\ phase' = [phase EXCEPT ![s] = "closed"] /\ UNCHANGED <<streams, toHost>>
  <2>1. phase'[s] = "closed"
    BY <1>0, <1>4 DEF TypeOK
  <2>2. Str(s)'
    BY <1>0, <1>1, <1>4, <2>1 DEF Str, Unsent, Opened, Ended, Paired
  <2>3. \A t : Same(toHost, toHost', t)
    BY <1>4, SameSelf
  <2> QED BY <1>1, <1>3, <1>4, <2>2, <2>3, OneSocket
<1>5. CASE /\ "phone" \notin closed /\ phase' = [phase EXCEPT ![s] = "connecting"]
           /\ streams' = streams \cup {s} /\ ToHost(Plain("wsOpen", s))
  <2>1. phase'[s] = "connecting"
    BY <1>0, <1>5 DEF TypeOK
  <2>2. Grown(toHost, toHost', "wsOpen", s) /\ \A T : "wsOpen" \in T => Has(toHost', T, s)
    <3>1. ToHost(<<Frame("wsOpen", s, 0)>>)
      BY <1>5 DEF Plain
    <3> QED BY <1>0, <1>5, <3>1, HostIsSent DEF Types
  <2>3. Leads(toHost', s)
    BY <1>0, <1>2, <2>2 DEF Str, Opened, Grown
  <2>4. ~Has(toHost', Enders, s)
    BY <1>2, <2>2 DEF Grown, Enders
  <2>5. Has(toHost', Openers, s)
    BY <2>2 DEF Openers
  <2>6. Str(s)'
    BY <1>1, <1>2, <1>5, <2>1, <2>3, <2>4, <2>5 DEF Str, Unsent, Opened, Ended, Paired
  <2>7. \A t : t # s => Same(toHost, toHost', t)
    BY <2>2 DEF Grown
  <2> QED BY <1>1, <1>3, <1>5, <2>6, <2>7, OneSocket
<1> QED BY <1>4, <1>5 DEF socket

LEMMA Speaking ==
    ASSUME IInv, TypeOK', NEW s \in Sockets, SocketSends(s) \/ SocketCloses(s)
    PROVE  IInv'
<1>0. s \in Streams /\ s \notin Requests /\ TypeOK /\ Str(s)
  BY Apart DEF IInv
<1>1. /\ phase[s] \in {"connecting", "open"} /\ NoRequest
      /\ toPhone' = toPhone /\ closed' = closed /\ sockets' = sockets /\ engine' = engine /\ Kept' = Kept
  BY DEF SocketSends, SocketCloses, NoRequest, phone, host, wires, Kept
<1>2. \A t : Same(toPhone, toPhone', t)
  BY <1>1, SameSelf
<1>3. CASE SocketSends(s)
  <2>1. streams' = streams /\ phase' = phase
    BY <1>3 DEF SocketSends, phone
  <2>2. Grown(toHost, toHost', "wsText", s)
    <3>1. ToHost(<<Frame("wsText", s, 0)>>)
      BY <1>3 DEF SocketSends, Plain
    <3> QED BY <1>0, <3>1, HostIsSent DEF Types
  <2>3. Leads(toHost', s) /\ (Has(toHost', Openers, s) <=> Has(toHost, Openers, s))
        /\ (Has(toHost', Enders, s) <=> Has(toHost, Enders, s))
    BY <1>0, <2>2 DEF Str, Opened, Grown, Openers, Enders
  <2>4. Str(s)'
    BY <1>0, <1>1, <2>1, <2>3 DEF Str, Unsent, Opened, Ended, Paired, Over
  <2>5. \A t : t # s => Same(toHost, toHost', t)
    BY <2>2 DEF Grown
  <2> QED BY <1>1, <1>2, <2>1, <2>4, <2>5, OneSocket
<1>4. CASE SocketCloses(s)
  <2>1. streams' = streams \ {s} /\ phase' = [phase EXCEPT ![s] = "closed"] /\ phase'[s] = "closed"
    BY <1>0, <1>4 DEF SocketCloses, TypeOK
  <2>2. Grown(toHost, toHost', "wsClose", s) /\ ("phone" \notin closed => \A T : "wsClose" \in T => Has(toHost', T, s))
    <3>1. ToHost(<<Frame("wsClose", s, 0)>>)
      BY <1>4 DEF SocketCloses, Plain
    <3> QED BY <1>0, <3>1, HostIsSent DEF Types
  <2>3. Leads(toHost', s) /\ (Has(toHost', Openers, s) => Has(toHost, Openers, s))
        /\ (closed = {} => Has(toHost', Enders, s))
    BY <1>0, <2>2 DEF Str, Opened, Grown, Openers, Enders
  <2>4. Str(s)'
    BY <1>0, <1>1, <2>1, <2>3 DEF Str, Unsent, Opened, Ended, Paired
  <2>5. \A t : t # s => Same(toHost, toHost', t)
    BY <2>2 DEF Grown
  <2> QED BY <1>1, <1>2, <2>1, <2>4, <2>5, OneSocket
<1> QED BY <1>3, <1>4

LEMMA Hearing ==
    ASSUME IInv, TypeOK', NEW s \in Sockets, SocketHears(s)
    PROVE  IInv'
<1>0. s \in Streams /\ s \notin Requests /\ TypeOK /\ Str(s) /\ s \notin requests
  BY Apart DEF IInv, TypeOK
<1>1. /\ s \in streams /\ NoRequest
      /\ toHost' = toHost /\ closed' = closed /\ sockets' = sockets /\ engine' = engine /\ Kept' = Kept
  BY DEF SocketHears, NoRequest, host, wires, Kept
<1>2. phase[s] \notin {"new", "reading"}
  BY <1>0, <1>1, Fresh
<1>3. \A t : Same(toHost, toHost', t)
  BY <1>1, SameSelf
<1>4. ASSUME NEW type \in {"wsOpened", "wsText"}, PhoneGets(type, s), streams' = streams,
             phase' = phase \/ phase' = [phase EXCEPT ![s] = "open"]
      PROVE  IInv'
  <2>1. Left(toPhone, toPhone', type, s)
    BY <1>0, <1>4, PhoneHasGot
  <2>2. phase'[s] \notin {"new", "reading"}
    BY <1>0, <1>2, <1>4 DEF TypeOK
  <2>3. Has(toPhone', Closers, s) <=> Has(toPhone, Closers, s)
    BY <2>1 DEF Left, Closers, Ends, Enders
  <2>4. Str(s)'
    BY <1>0, <1>1, <1>4, <2>2, <2>3 DEF Str, Unsent, Opened, Ended, Paired, Over
  <2>5. \A t : t # s => Same(toPhone, toPhone', t)
    BY <2>1 DEF Left
  <2> QED BY <1>1, <1>3, <1>4, <2>4, <2>5, OneSocket
<1>5. CASE PhoneGets("wsClose", s) /\ phase' = [phase EXCEPT ![s] = "closed"] /\ streams' = streams \ {s}
  <2>1. Left(toPhone, toPhone', "wsClose", s)
    BY <1>0, <1>5, PhoneHasGot
  <2>2. phase'[s] = "closed"
    BY <1>0, <1>5 DEF TypeOK
  <2>3. s \notin sockets /\ ~Has(toHost, Openers, s)
    <3>1. Has(toPhone, Closers, s)
      BY <2>1 DEF Left, Closers, Enders
    <3> QED BY <1>0, <3>1 DEF Str, Ended
  <2>4. Str(s)'
    BY <1>0, <1>1, <1>5, <2>2, <2>3 DEF Str, Unsent, Opened, Ended, Paired, Kept
  <2>5. \A t : t # s => Same(toPhone, toPhone', t)
    BY <2>1 DEF Left
  <2> QED BY <1>1, <1>3, <1>5, <2>4, <2>5, OneSocket
<1> QED BY <1>4, <1>5 DEF SocketHears

LEMMA OpeningSocket ==
    ASSUME IInv, TypeOK', NEW s \in Sockets, openSocket(s)
    PROVE  IInv'
<1>0. s \in Streams /\ s \notin Requests /\ TypeOK /\ Str(s) /\ s \notin requests
  BY Apart DEF IInv, TypeOK
<1>1. /\ NoRequest /\ closed' = closed /\ streams' = streams /\ phase' = phase /\ requests' = requests
  BY DEF openSocket, NoRequest, phone, host
<1>2. Left(toHost, toHost', "wsOpen", s) /\ "host" \notin closed
  BY <1>0, HostHasGot DEF openSocket
<1>3. Has(toHost, Openers, s) /\ phase[s] \notin {"new", "reading"} /\ s \notin Kept
  <2>1. Has(toHost, Openers, s)
    BY <1>2 DEF Left, Openers
  <2> QED BY <1>0, <2>1, Fresh DEF Str, Opened
<1>4. /\ Leads(toHost', s) /\ ~Has(toHost', Openers, s)
      /\ Has(toHost', Enders, s) <=> Has(toHost, Enders, s)
      /\ \A t : t # s => Same(toHost, toHost', t)
  BY <1>0, <1>2 DEF Left, Str, Opened, Enders
<1>5. CASE ToPhone(Plain("wsClose", s)) /\ UNCHANGED <<sockets, engine>>
  <2>1. Grown(toPhone, toPhone', "wsClose", s) /\ \A T : "wsClose" \in T => Has(toPhone', T, s)
    <3>1. ToPhone(<<Frame("wsClose", s, 0)>>)
      BY <1>5 DEF Plain
    <3> QED BY <1>0, <1>2, <3>1, PhoneIsSent DEF Types
  <2>2. Has(toPhone', Closers, s)
    BY <2>1 DEF Closers, Enders
  <2>3. s \notin Kept' /\ s \notin sockets'
    BY <1>1, <1>3, <1>5 DEF Kept
  <2>4. Str(s)'
    BY <1>0, <1>1, <1>3, <1>4, <2>2, <2>3 DEF Str, Unsent, Opened, Ended, Paired
  <2>5. \A t : t # s => Same(toPhone, toPhone', t)
    BY <2>1 DEF Grown
  <2> QED BY <1>1, <1>4, <1>5, <2>4, <2>5, OneSocket
<1>6. CASE sockets' = sockets \cup {s} /\ engine' = [engine EXCEPT ![s] = "connecting"] /\ UNCHANGED toPhone
  <2>1. s \in Kept'
    BY <1>6 DEF Kept
  <2>2. ~Has(toPhone, Closers, s) /\ (closed = {} /\ s \notin streams => Has(toHost, Enders, s))
    BY <1>0, <1>3 DEF Str, Ended, Paired, Over
  <2>3. Str(s)'
    BY <1>0, <1>1, <1>3, <1>4, <1>6, <2>1, <2>2 DEF Str, Unsent, Opened, Ended, Paired
  <2>4. \A t : Same(toPhone, toPhone', t)
    BY <1>6, SameSelf
  <2> QED BY <1>1, <1>4, <1>6, <2>3, <2>4, OneSocket
<1> QED BY <1>5, <1>6 DEF openSocket

LEMMA EngineSpeaks ==
    ASSUME IInv, TypeOK', NEW s \in Sockets, EngineOpens(s) \/ EngineTells(s) \/ EngineCloses(s)
    PROVE  IInv'
<1>0. s \in Streams /\ s \notin Requests /\ TypeOK /\ Str(s) /\ s \notin requests
  BY Apart DEF IInv, TypeOK
<1>1. /\ NoRequest /\ toHost' = toHost /\ closed' = closed /\ streams' = streams /\ phase' = phase
      /\ requests' = requests
      /\ engine' = engine \/ \E e : engine' = [engine EXCEPT ![s] = e]
  BY DEF EngineOpens, EngineTells, EngineCloses, NoRequest, phone, host
<1>2. phase[s] \notin {"new", "reading"}
  <2>1. engine[s] # "none"
    BY DEF EngineOpens, EngineTells, EngineCloses
  <2> QED BY <1>0, <2>1 DEF Str, Unsent
<1>3. \A t : Same(toHost, toHost', t)
  BY <1>1, SameSelf
<1>4. ASSUME NEW type \in {"wsOpened", "wsText"}, ToPhone(Plain(type, s)) \/ UNCHANGED toPhone, sockets' = sockets
      PROVE  IInv'
  <2>1. /\ Has(toPhone', Closers, s) <=> Has(toPhone, Closers, s)
        /\ \A t : t # s => Same(toPhone, toPhone', t)
    <3>1. CASE ToPhone(Plain(type, s))
      <4>1. Grown(toPhone, toPhone', type, s)
        <5>1. ToPhone(<<Frame(type, s, 0)>>)
          BY <3>1 DEF Plain
        <5> QED BY <1>0, <5>1, PhoneIsSent DEF Types
      <4> QED BY <4>1 DEF Grown, Closers, Ends, Enders
    <3>2. CASE UNCHANGED toPhone
      BY <3>2, SameSelf
    <3> QED BY <1>4, <3>1, <3>2
  <2>2. Kept' = Kept
    BY <1>1, <1>4 DEF Kept
  <2>3. Str(s)'
    BY <1>0, <1>1, <1>2, <1>4, <2>1, <2>2 DEF Str, Unsent, Opened, Ended, Paired, Over
  <2> QED BY <1>1, <1>3, <1>4, <2>1, <2>3, OneSocket
<1>5. CASE EngineCloses(s)
  <2>1. sockets' = sockets \ {s} /\ s \notin sockets' /\ s \notin Kept'
    BY <1>0, <1>1, <1>5 DEF EngineCloses, Kept
  <2>2. CASE s \in sockets
    <3>1. Grown(toPhone, toPhone', "wsClose", s) /\ ("host" \notin closed => \A T : "wsClose" \in T => Has(toPhone', T, s))
      <4>1. ToPhone(<<Frame("wsClose", s, 0)>>)
        BY <1>5, <2>2 DEF EngineCloses, Plain
      <4> QED BY <1>0, <4>1, PhoneIsSent DEF Types
    <3>2. closed = {} => Has(toPhone', Closers, s)
      BY <3>1 DEF Closers, Enders
    <3>3. ~Has(toHost, Openers, s)
      BY <1>0, <2>2 DEF Str, Opened, Kept
    <3>4. Str(s)'
      BY <1>0, <1>1, <1>2, <2>1, <3>2, <3>3 DEF Str, Unsent, Opened, Ended, Paired
    <3>5. \A t : t # s => Same(toPhone, toPhone', t)
      BY <3>1 DEF Grown
    <3> QED BY <1>1, <1>3, <2>1, <3>4, <3>5, OneSocket
  <2>3. CASE s \notin sockets
    <3>1. toPhone' = toPhone /\ s \notin Kept
      BY <1>0, <1>5, <2>3 DEF EngineCloses, Kept
    <3>2. Str(s)'
      BY <1>0, <1>1, <1>2, <2>1, <3>1 DEF Str, Unsent, Opened, Ended, Paired, Over
    <3>3. \A t : Same(toPhone, toPhone', t)
      BY <3>1, SameSelf
    <3> QED BY <1>1, <1>3, <2>1, <3>2, <3>3, OneSocket
  <2> QED BY <2>2, <2>3
<1>6. CASE EngineOpens(s)
  BY <1>4, <1>6 DEF EngineOpens
<1>7. CASE EngineTells(s)
  BY <1>4, <1>7 DEF EngineTells
<1> QED BY <1>5, <1>6, <1>7

LEMMA HostHears ==
    ASSUME IInv, TypeOK', NEW s \in Sockets, HostSocketHears(s)
    PROVE  IInv'
<1>0. s \in Streams /\ s \notin Requests /\ TypeOK /\ Str(s) /\ s \notin requests
  BY Apart DEF IInv, TypeOK
<1>1. /\ NoRequest /\ toPhone' = toPhone /\ closed' = closed /\ streams' = streams /\ phase' = phase
      /\ requests' = requests /\ engine' = engine
  BY DEF HostSocketHears, NoRequest, phone, host
<1>2. \A t : Same(toPhone, toPhone', t)
  BY <1>1, SameSelf
<1>3. CASE HostGets("wsText", s) /\ UNCHANGED sockets
  <2>1. Left(toHost, toHost', "wsText", s)
    BY <1>0, <1>3, HostHasGot
  <2>2. phase[s] \notin {"new", "reading"}
    <3>1. Has(toHost, {"wsText"}, s)
      BY <2>1 DEF Left
    <3> QED BY <1>0, <3>1, Fresh
  <2>3. /\ Leads(toHost', s) /\ (Has(toHost', Openers, s) <=> Has(toHost, Openers, s))
        /\ Has(toHost', Enders, s) <=> Has(toHost, Enders, s)
        /\ \A t : t # s => Same(toHost, toHost', t)
    BY <1>0, <2>1 DEF Left, Str, Opened, Openers, Enders
  <2>4. Kept' = Kept
    BY <1>1, <1>3 DEF Kept
  <2>5. Str(s)'
    BY <1>0, <1>1, <1>3, <2>2, <2>3, <2>4 DEF Str, Unsent, Opened, Ended, Paired, Over
  <2> QED BY <1>1, <1>2, <1>3, <2>3, <2>5, OneSocket
<1>4. CASE HostGets("wsClose", s) /\ sockets' = sockets \ {s}
  <2>1. Left(toHost, toHost', "wsClose", s)
    BY <1>0, <1>4, HostHasGot
  <2>2. phase[s] \notin {"new", "reading"} /\ s \notin streams
    <3>1. Has(toHost, Enders, s)
      BY <2>1 DEF Left, Enders
    <3> QED BY <1>0, <3>1, Fresh DEF Str, Ended
  <2>3. /\ Leads(toHost', s) /\ ~Has(toHost', Openers, s)
        /\ \A t : t # s => Same(toHost, toHost', t)
    BY <1>0, <2>1 DEF Left, Str, Opened
  <2>4. s \notin Kept' /\ s \notin sockets'
    BY <1>0, <1>1, <1>4 DEF Kept
  <2>5. Str(s)'
    BY <1>0, <1>1, <2>2, <2>3, <2>4 DEF Str, Unsent, Opened, Ended, Paired
  <2> QED BY <1>1, <1>2, <1>4, <2>3, <2>5, OneSocket
<1> QED BY <1>3, <1>4 DEF HostSocketHears
------------------------------------------------------------------------------
(* Frames of no stream, and the end of the channel.                        *)

LEMMA Ignoring ==
    ASSUME IInv, TypeOK', PhoneIgnores
    PROVE  IInv'
<1>1. PICK type \in Types, s \in Streams : s \notin streams /\ PhoneGets(type, s)
  BY DEF PhoneIgnores
<1>2. TypeOK /\ Str(s) /\ (s \in Requests => Req(s))
  BY DEF IInv
<1>3. Left(toPhone, toPhone', type, s)
  BY <1>1, <1>2, PhoneHasGot
<1>4. /\ toHost' = toHost /\ closed' = closed /\ received' = received /\ taken' = taken /\ credited' = credited
      /\ streams' = streams /\ phase' = phase
      /\ requests' = requests /\ run' = run /\ window' = window /\ sent' = sent /\ whole' = whole
      /\ sockets' = sockets /\ engine' = engine /\ Kept' = Kept
  BY DEF PhoneIgnores, phone, host, wires, Kept
<1>5. \A T : Has(toPhone', T, s) => Has(toPhone, T, s)
  BY <1>3 DEF Left
<1>6. Str(s)'
  BY <1>1, <1>2, <1>4, <1>5 DEF Str, Unsent, Opened, Ended, Paired, Over
<1>7. ASSUME s \in Requests
      PROVE  Req(s)'
  <2>1. Running(s)' /\ Asked(s)' /\ Answered(s)' /\ Flowing(s)' /\ Wholly(s)'
    BY <1>1, <1>2, <1>4, <1>5, <1>7 DEF Req, Running, Asked, Answered, Flowing, Wholly
  <2>2. Owed(s)'
    BY <1>2, <1>4, <1>7, OwedStands
  <2> QED BY <2>1, <2>2 DEF Req
<1>8. ASSUME NEW t \in Streams, t # s
      PROVE  /\ StrAsIs(t) /\ (t \in Requests => ReqAsIs(t))
             /\ Same(toHost, toHost', t) /\ Same(toPhone, toPhone', t)
  <2>1. Same(toHost, toHost', t) /\ Same(toPhone, toPhone', t)
    BY <1>3, <1>4, <1>8, SameSelf DEF Left
  <2>2. StrAsIs(t) /\ ReqAsIs(t)
    BY <1>4 DEF StrAsIs, ReqAsIs
  <2> QED BY <2>1, <2>2
<1> QED BY <1>4, <1>6, <1>7, <1>8, OneStream

LEMMA PhoneClosing ==
    ASSUME IInv, PhoneCloses
    PROVE  IInv'
<1>1. /\ toHost' = toHost /\ received' = received /\ taken' = taken /\ credited' = credited
      /\ requests' = requests /\ run' = run /\ window' = window /\ sent' = sent /\ whole' = whole
      /\ sockets' = sockets /\ engine' = engine /\ Kept' = Kept
      /\ toPhone' = <<>> /\ streams' = {} /\ closed' = closed \cup {"phone"}
  BY DEF PhoneCloses, host, wires, Kept
<1>2. ASSUME NEW t \in Streams
      PROVE  phase'[t] = phase[t] \/ phase'[t] \in {"failed", "closed"}
  BY DEF PhoneCloses
<1>3. TypeOK'
  <2>1. phase' \in [Streams -> {"new", "reading", "waiting", "body", "ended", "failed", "connecting", "open", "closed"}]
    BY DEF PhoneCloses, IInv, TypeOK
  <2> QED BY <1>1, <2>1 DEF PhoneCloses, IInv, TypeOK, host, wires
<1>4. ASSUME NEW t \in Streams
      PROVE  Str(t)'
  BY <1>1, <1>2, Nothing DEF IInv, Str, Unsent, Opened, Ended, Paired
<1>5. ASSUME NEW t \in Requests
      PROVE  Req(t)'
  <2>1. t \in Streams /\ Req(t)
    BY Apart DEF IInv
  <2>2. phase'[t] = phase[t] \/ phase'[t] \in {"failed", "closed"}
    BY <1>2, <2>1
  <2>3. Running(t)'
    BY <1>1, <2>1, <2>2 DEF Req, Running
  <2>4. Asked(t)' /\ Answered(t)' /\ Flowing(t)'
    BY <1>1, <2>1, Nothing DEF Req, Asked, Answered, Flowing
  <2>5. Wholly(t)'
    BY <1>1, <2>1, <2>2 DEF Req, Wholly
  <2>6. Owed(t)'
    BY <1>1, <2>1, OwedStands
  <2> QED BY <2>3, <2>4, <2>5, <2>6 DEF Req
<1> QED BY <1>3, <1>4, <1>5 DEF IInv

LEMMA HostClosing ==
    ASSUME IInv, HostCloses
    PROVE  IInv'
<1>1. /\ toPhone' = toPhone /\ received' = received /\ taken' = taken /\ credited' = credited
      /\ streams' = streams /\ phase' = phase
      /\ requests' = {} /\ run' = run /\ window' = window /\ sent' = sent /\ whole' = whole
      /\ sockets' = {} /\ engine' = engine /\ Kept' = {}
      /\ toHost' = <<>> /\ closed' = closed \cup {"host"}
  BY DEF HostCloses, phone, Kept
<1>2. TypeOK'
  BY DEF HostCloses, IInv, TypeOK, phone
<1>3. ASSUME NEW t \in Streams
      PROVE  Str(t)'
  BY <1>1, Nothing DEF IInv, Str, Unsent, Opened, Ended, Paired
<1>4. ASSUME NEW t \in Requests
      PROVE  Req(t)'
  <2>1. t \in Streams /\ Req(t) /\ TypeOK
    BY Apart DEF IInv
  <2>2. Running(t)' /\ Asked(t)' /\ Answered(t)' /\ Flowing(t)' /\ Wholly(t)'
    BY <1>1, <2>1, Nothing DEF Req, Running, Asked, Answered, Flowing, Wholly
  <2>3. Owed(t)'
    <3>1. Flows(<<>>, "credit", {}, t, 0, 0)
      <4>1. <<>> \in Seq(Frames)
        OBVIOUS
      <4> QED BY <4>1, Nothing, FlowsNone
    <3>2. credited[t] \in Nat
      BY <2>1 DEF TypeOK
    <3> QED BY <1>1, <2>1, <3>1, <3>2 DEF Req, Owed
  <2> QED BY <2>2, <2>3 DEF Req
<1> QED BY <1>2, <1>3, <1>4 DEF IInv

LEMMA Stays ==
    ASSUME IInv, UNCHANGED vars
    PROVE  IInv'
<1>1. /\ toHost' = toHost /\ toPhone' = toPhone /\ closed' = closed
      /\ streams' = streams /\ phase' = phase /\ upload' = upload
      /\ received' = received /\ taken' = taken /\ credited' = credited
      /\ requests' = requests /\ run' = run /\ size' = size /\ window' = window /\ sent' = sent /\ whole' = whole
      /\ sockets' = sockets /\ engine' = engine /\ told' = told
  BY DEF vars, phone, host, wires
<1>2. TypeOK'
  BY <1>1 DEF IInv, TypeOK
<1>3. ASSUME NEW t \in Streams
      PROVE  Str(t)'
  BY <1>1, SameSelf, StrKept DEF IInv, StrAsIs
<1>4. ASSUME NEW t \in Requests
      PROVE  Req(t)'
  BY <1>1, SameSelf, ReqKept, Apart DEF IInv, StrAsIs, ReqAsIs
<1> QED BY <1>2, <1>3, <1>4 DEF IInv

LEMMA Steps ==
    ASSUME IInv, [Next]_vars
    PROVE  IInv'
<1>0. TypeOK
  BY DEF IInv
<1>1. ASSUME NEW s \in Requests, Phoned(s)
      PROVE  IInv'
  <2>1. TypeOK'
    BY <1>0, <1>1, Phones
  <2> QED BY <1>1, <2>1, Fetches, ReadsItsBody, Aborting, Heads, HearsBody, Ending, Taking DEF Phoned
<1>2. ASSUME NEW s \in Requests, Served(s)
      PROVE  IInv'
  <2>1. TypeOK'
    BY <1>0, <1>2, Serves
  <2> QED BY <1>2, <2>1, Opening, Uploading, EndReceived, Responding, Rejecting, SendsBody, BodyEnding, Cancelling,
             Crediting, Forgetting DEF Served
<1>3. ASSUME NEW s \in Sockets, Spoken(s)
      PROVE  IInv'
  <2>1. TypeOK'
    BY <1>0, <1>3, Speaks
  <2> QED BY <1>3, <2>1, Dialling, Speaking, Hearing, OpeningSocket, EngineSpeaks, HostHears DEF Spoken
<1>4. CASE PhoneIgnores
  <2>1. TypeOK'
    <3>1. toPhone' \in Seq(Frames)
      BY <1>0, <1>4, PhoneHasGot DEF PhoneIgnores, Left
    <3> QED BY <1>0, <1>4, <3>1 DEF PhoneIgnores, TypeOK, phone, host, wires
  <2> QED BY <1>4, <2>1, Ignoring
<1> QED BY <1>1, <1>2, <1>3, <1>4, PhoneClosing, HostClosing, Stays DEF Next

LEMMA Invariant == Spec => []IInv
<1>1. Init => IInv
  BY Starts
<1>2. IInv /\ [Next]_vars => IInv'
  BY Steps
<1> QED BY <1>1, <1>2, PTL DEF Spec

------------------------------------------------------------------------------
(* Theorems.                                                               *)

\* Every variable keeps its type, whatever the two sides and the engine do
\* (createTunnelClient and serveTunnel, tunnel.ts).
THEOREM TunnelTypes == Spec => []TypeOK
<1>1. IInv => TypeOK
  BY DEF IInv
<1> QED BY <1>1, Invariant, PTL

\* The host is never a whole chunk over the window past what the phone's reader
\* took, for every window, step, chunk and size of an answer (sendBody and the
\* credit of pull, tunnel.ts).
THEOREM WindowIsKept == Spec => []WindowHolds
<1>1. IInv => WindowHolds
  BY Says
<1> QED BY <1>1, Invariant, PTL

\* An answer that ended without an error for its reader is the whole of what the
\* host sent, and the host had sent it to its end (resEnd and resNull, tunnel.ts).
THEOREM AnswersAreWhole == Spec => []WholeOrFailed
<1>1. IInv => WholeOrFailed
  BY Says
<1> QED BY <1>1, Invariant, PTL

\* While the channel is open, a stream with no frame on its way is open on both
\* sides or on neither, but for a request that had no route (the two sides' maps
\* of streams, requests and sockets, tunnel.ts).
THEOREM SidesAgree == Spec => []BothSidesAgree
<1>1. IInv => BothSidesAgree
  BY Says
<1> QED BY <1>1, Invariant, PTL
===============================================================================
