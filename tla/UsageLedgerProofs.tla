-------------------------- MODULE UsageLedgerProofs --------------------------
(***************************************************************************)
(* The reconciler misses nothing, proved for every number of sessions,     *)
(* stamps, restarts and failed posts, and whatever the plugin delivers.    *)
(***************************************************************************)
EXTENDS UsageLedger, WellFoundedInduction, TLAPS

(***************************************************************************)
(* The inductive invariant.  Stamps only grow, and no two sessions share   *)
(* one; a session's mark answers for what its transcript held by then.  A  *)
(* pass pages downwards, so what it has listed and has since moved, and    *)
(* what moved before it could be listed, stands above all it listed: the   *)
(* new floor cannot pass it.                                               *)
(***************************************************************************)
Passes == [at : {"idle", "paging", "reading", "storing"}, active : SUBSET Sessions,
           below : 0 .. MaxClock + 1, listed : SUBSET Listing, todo : SUBSET Listing,
           reading : SUBSET Listing, got : SUBSET Fact]

Types ==
    /\ clock \in Stamps \cup {0}
    /\ updated \in [Sessions -> Stamps]
    /\ facts \subseteq Fact
    /\ marks \in [Sessions -> Stamps \cup {0}]
    /\ floor \in Stamps \cup {0}
    /\ pass \in Passes

StampsGrow ==
    /\ \A s \in Sessions : updated[s] <= clock
    /\ \A r, s \in Sessions : r # s => updated[r] # updated[s]
    /\ \A f \in facts : f.at <= updated[f.session]

MarksAnswer ==
    /\ \A s \in Sessions : marks[s] <= updated[s]
    /\ \A f \in facts : f.at <= marks[f.session] => f \in ledger

FloorHolds ==
    /\ floor <= clock
    /\ \A f \in facts \ ledger : updated[f.session] >= floor

\* A stamp past every one that was listed.
Above(stamp) == \A e \in pass.listed : e.updated < stamp

Listed(s) == \E e \in pass.listed : e.session = s

PassLists ==
    /\ \A e \in pass.listed : updated[e.session] = e.updated \/ Above(updated[e.session])
    /\ \A e, l \in pass.listed : e.session = l.session => e = l
    /\ \A e \in pass.listed : e.updated <= updated[e.session]

PassPages ==
    pass.at = "paging" =>
        /\ \A e \in pass.listed : pass.below <= e.updated
        /\ \A s \in Sessions : ~Listed(s) => updated[s] < pass.below \/ Above(updated[s])

PassReads ==
    pass.at \in {"reading", "storing"} =>
        /\ \A s \in Sessions : ~Listed(s) => updated[s] < floor \/ Above(updated[s])
        /\ pass.todo \subseteq pass.listed /\ pass.reading \subseteq pass.listed
        /\ \A e \in pass.listed :
              e.busy \/ e \in pass.todo \/ e \in pass.reading \/ e.updated <= marks[e.session]

PassStores ==
    /\ pass.at \in {"paging", "reading"} => pass.reading = {}
    /\ pass.at = "storing" =>
          /\ \E e \in Listing : pass.reading = {e}
          /\ \A e \in pass.reading : \A f \in facts :
                f.session = e.session /\ f.at <= e.updated => f \in pass.got

IInv == Types /\ StampsGrow /\ MarksAnswer /\ FloorHolds
        /\ PassLists /\ PassPages /\ PassReads /\ PassStores
------------------------------------------------------------------------------
\* Of the sessions below a stamp, one changed last: the next page holds it.
LEMMA APageIsNext ==
    ASSUME Types, NEW s \in Sessions, updated[s] < pass.below
    PROVE  \E r \in Sessions : NextPage(r) /\ updated[s] <= updated[r]
<1> DEFINE Gaps == {MaxClock - updated[r] : r \in {q \in Sessions : updated[q] < pass.below}}
<1>1. /\ MaxClock \in Nat /\ pass.below \in Nat
      /\ \A r \in Sessions : updated[r] \in Nat /\ updated[r] <= MaxClock
  BY LedgerAssumption DEF Types, Passes, Stamps
<1>2. Gaps \subseteq Nat /\ Gaps # {}
  BY <1>1
<1>3. PICK g \in Gaps : \A h \in Gaps : ~(<<h, g>> \in OpToRel(<, Nat))
  <2> HIDE DEF Gaps
  <2> QED BY <1>2, WFMin, NatLessThanWellFounded
<1>4. \A h \in Gaps : g <= h
  <2> SUFFICES ASSUME NEW h \in Gaps PROVE g <= h
    OBVIOUS
  <2> HIDE DEF Gaps
  <2>1. g \in Nat /\ h \in Nat
    BY <1>2
  <2>2. ~(h < g)
    BY <1>3, <2>1 DEF OpToRel
  <2> QED BY <2>1, <2>2
<1>5. PICK r \in Sessions : updated[r] < pass.below /\ g = MaxClock - updated[r]
  OBVIOUS
<1>6. ASSUME NEW q \in Sessions, updated[q] < pass.below
      PROVE  updated[q] <= updated[r]
  <2>1. MaxClock - updated[q] \in Gaps
    BY <1>6
  <2>2. MaxClock - updated[r] <= MaxClock - updated[q]
    BY <1>4, <1>5, <2>1
  <2> QED BY <1>1, <2>2
<1>7. updated[s] <= updated[r]
  BY <1>6
<1> QED BY <1>5, <1>6, <1>7 DEF NextPage

\* The new floor is no later than what stands above the floor and above all
\* that was listed, nor than a session listed as running.
LEMMA FloorIs ==
    ASSUME Types, NEW stamp \in Stamps \cup {0}, NewFloor(stamp)
    PROVE  /\ \A x \in Stamps : x >= floor /\ Above(x) => x >= stamp
           /\ \A e \in pass.listed : e.busy => stamp <= e.updated
           /\ stamp = floor \/ \E e \in pass.listed : stamp = e.updated
BY DEF Types, Passes, NewFloor, Newest, Above, Stamps, Listing
------------------------------------------------------------------------------
\* An idle reconciler has nothing to answer for.
PassIdle == pass.at = "idle" /\ pass.listed = {}

LEMMA IdleHolds ==
    PassIdle => PassLists /\ PassPages /\ PassReads /\ PassStores
BY DEF PassIdle, PassLists, PassPages, PassReads, PassStores

LEMMA IdleIs ==
    ASSUME NEW p, p = Idle
    PROVE  p.at = "idle" /\ p.listed = {} /\ p \in Passes
<1>1. 0 \in 0 .. MaxClock + 1
  BY LedgerAssumption
<1>2. Idle \in Passes
  BY <1>1 DEF Idle, Passes
<1> QED BY <1>2 DEF Idle

LEMMA Begins == Init => IInv
<1> SUFFICES ASSUME Init PROVE IInv
  OBVIOUS
<1>1. MaxClock \in Nat /\ MaxSessions \in Nat /\ MaxSessions <= MaxClock
  BY LedgerAssumption
<1>2. pass = Idle
  BY DEF Init
<1>3. Types
  BY <1>1, <1>2, IdleIs DEF Init, Types, Stamps, Sessions
<1>4. StampsGrow /\ MarksAnswer /\ FloorHolds
  BY <1>1 DEF Init, StampsGrow, MarksAnswer, FloorHolds, Sessions
<1>5. PassLists /\ PassPages /\ PassReads /\ PassStores
  BY <1>2, IdleIs, IdleHolds DEF PassIdle
<1> QED BY <1>3, <1>4, <1>5 DEF IInv
------------------------------------------------------------------------------
(* Steps outside the reconciler.                                           *)

\* Facts stored by anyone do no harm.
LEMMA Delivers ==
    ASSUME IInv, UNCHANGED <<clock, updated, facts, marks, floor, pass>>, ledger \subseteq ledger'
    PROVE  IInv'
BY DEF IInv, Types, StampsGrow, MarksAnswer, FloorHolds, PassLists, PassPages, PassReads, PassStores,
       Above, Listed

\* A session that moves, with a fact or without, moves above all there is.
LEMMA Moves ==
    ASSUME IInv, NEW s \in Sessions, Stamped(s),
           facts' \in {facts, facts \cup {[session |-> s, at |-> clock + 1]}},
           UNCHANGED <<ledger, marks, floor, pass>>
    PROVE  IInv'
<1> USE DEF IInv
<1>1. /\ clock \in Nat /\ clock' = clock + 1 /\ clock' \in Stamps
      /\ updated'[s] = clock' /\ \A r \in Sessions : r # s => updated'[r] = updated[r]
      /\ updated' \in [Sessions -> Stamps]
  BY LedgerAssumption DEF Stamped, Types, Stamps
<1>2. \A r \in Sessions : updated[r] \in Nat /\ updated[r] <= clock /\ updated[r] <= updated'[r]
  BY <1>1 DEF Types, StampsGrow, Stamps
<1>3. \A f \in facts' : f \in facts \/ (f \in Fact /\ f.session = s /\ f.at = clock')
  BY <1>1 DEF Fact
<1>4. /\ \A e \in pass.listed : e.session \in Sessions /\ e.updated \in Nat /\ e.updated <= clock
      /\ \A f \in facts : f.session \in Sessions /\ f.at \in Nat
      /\ \A r \in Sessions : marks[r] \in Nat
      /\ floor \in Nat /\ pass.below \in Nat
  BY <1>2 DEF Types, Passes, PassLists, Listing, Fact, Stamps
<1>5. Types'
  BY <1>1, <1>3 DEF Types
<1>6. StampsGrow'
  BY <1>1, <1>2, <1>3, <1>4 DEF StampsGrow
<1>7. MarksAnswer'
  BY <1>1, <1>2, <1>3, <1>4 DEF MarksAnswer
<1>8. FloorHolds'
  BY <1>1, <1>2, <1>3, <1>4 DEF FloorHolds
<1>9. /\ \A r \in Sessions : Above(updated[r]) => Above(updated[r])'
      /\ Above(updated[s])'
  BY <1>1, <1>2, <1>4 DEF Above
<1>10. PassLists'
  BY <1>1, <1>2, <1>4, <1>9 DEF PassLists
<1>11. PassPages'
  BY <1>1, <1>9 DEF PassPages, Listed
<1>12. PassReads'
  BY <1>1, <1>9 DEF PassReads, Listed
<1>13. PassStores'
  BY <1>1, <1>3, <1>4 DEF PassStores, PassReads
<1> QED BY <1>5, <1>6, <1>7, <1>8, <1>10, <1>11, <1>12, <1>13
------------------------------------------------------------------------------
(* The reconciler's steps.                                                 *)

\* What a pass has listed is of stamps the engine has given.
LEMMA ListedIs ==
    ASSUME IInv
    PROVE  /\ pass.below \in Nat /\ floor \in Nat /\ clock \in Nat
           /\ \A s \in Sessions : updated[s] \in Stamps /\ marks[s] \in Nat
           /\ \A e \in pass.listed : /\ e \in Listing /\ e.session \in Sessions
                                     /\ e.updated \in Stamps /\ e.updated <= clock
           /\ \A f \in facts : f \in Fact /\ f.session \in Sessions /\ f.at \in Nat
           /\ Stamps \subseteq Nat
BY LedgerAssumption DEF IInv, Types, Passes, StampsGrow, PassLists, Listing, Fact, Stamps

\* A pass that ends or is given up leaves nothing but marks and ledger.
LEMMA GivesUp ==
    ASSUME IInv, pass' = Idle, floor' \in Stamps \cup {0}, FloorHolds',
           UNCHANGED <<clock, updated, facts, ledger, marks>>
    PROVE  IInv'
<1>1. Types' /\ PassIdle'
  BY IdleIs DEF IInv, Types, PassIdle
<1>2. StampsGrow' /\ MarksAnswer'
  BY DEF IInv, StampsGrow, MarksAnswer
<1>3. (PassLists /\ PassPages /\ PassReads /\ PassStores)'
  BY <1>1 DEF PassIdle, PassLists, PassPages, PassReads, PassStores
<1> QED BY <1>1, <1>2, <1>3 DEF IInv

LEMMA PassBeginsHolds ==
    ASSUME IInv, PassBegins, busy \subseteq Sessions
    PROVE  IInv'
<1>1. /\ pass'.at = "paging" /\ pass'.listed = {} /\ pass'.below = MaxClock + 1
      /\ pass'.reading = {} /\ pass' \in Passes
      /\ UNCHANGED <<clock, updated, facts, ledger, marks, floor>>
  <2>1. MaxClock + 1 \in 0 .. MaxClock + 1
    BY LedgerAssumption
  <2> QED BY <2>1 DEF PassBegins, engineVars, Idle, Passes
<1>2. Types' /\ StampsGrow' /\ MarksAnswer' /\ FloorHolds'
  BY <1>1 DEF IInv, Types, StampsGrow, MarksAnswer, FloorHolds
<1>3. PassLists' /\ PassReads' /\ PassStores'
  BY <1>1 DEF PassLists, PassReads, PassStores
<1>4. PassPages'
  BY <1>1, ListedIs, LedgerAssumption DEF PassPages, Stamps
<1> QED BY <1>2, <1>3, <1>4 DEF IInv

LEMMA FetchesPageHolds ==
    ASSUME IInv, FetchesPage
    PROVE  IInv'
<1> USE DEF IInv
<1>1. PICK s \in Sessions :
         /\ NextPage(s)
         /\ Recent(updated[s])
         /\ pass' = [pass EXCEPT !.below = updated[s],
                                 !.listed = @ \cup {[session |-> s, updated |-> updated[s],
                                                     busy |-> s \in pass.active]}]
  BY DEF FetchesPage
<1> DEFINE new == [session |-> s, updated |-> updated[s], busy |-> s \in pass.active]
<1>2. /\ pass.at = "paging" /\ updated[s] \in Stamps /\ updated[s] < pass.below
      /\ UNCHANGED <<clock, updated, facts, ledger, marks, floor>>
  BY <1>1, ListedIs DEF FetchesPage, engineVars, NextPage
<1>3. /\ pass'.at = "paging" /\ pass'.below = updated[s] /\ pass'.listed = pass.listed \cup {new}
      /\ pass' \in Passes
  <2>1. new \in Listing
    BY <1>2 DEF Listing
  <2>2. updated[s] \in 0 .. MaxClock + 1
    BY <1>2, LedgerAssumption DEF Stamps
  <2> QED BY <1>1, <1>2, <2>1, <2>2 DEF Types, Passes
<1>9. new.session = s /\ new.updated = updated[s] /\ pass'.reading = pass.reading
  BY <1>1, <1>2 DEF Types, Passes
<1> HIDE DEF new
<1>4. \A e \in pass.listed :
         e.session \in Sessions /\ e.session # s /\ updated[s] < e.updated /\ e.updated <= updated[e.session]
  BY <1>2, ListedIs DEF PassPages, PassLists
<1>5. Types' /\ StampsGrow' /\ MarksAnswer' /\ FloorHolds'
  BY <1>2, <1>3 DEF Types, StampsGrow, MarksAnswer, FloorHolds
<1>6. PassLists'
  <2>1. \A e \in pass.listed : Above(updated[e.session]) => Above(updated[e.session])'
    BY <1>2, <1>3, <1>4, <1>9, ListedIs DEF Above
  <2>2. updated'[new.session] = new.updated
    BY <1>2, <1>9
  <2>3. ASSUME NEW e \in pass.listed
        PROVE  updated'[e.session] = e.updated \/ Above(updated[e.session])'
    BY <1>2, <2>1 DEF PassLists
  <2>4. \A e \in pass'.listed : updated'[e.session] = e.updated \/ Above(updated[e.session])'
    BY <1>3, <2>2, <2>3
  <2>5. \A e, l \in pass'.listed : e.session = l.session => e = l
    BY <1>3, <1>4, <1>9 DEF PassLists
  <2>6. \A e \in pass'.listed : e.updated <= updated'[e.session]
    <3>1. updated'[new.session] \in Nat /\ new.updated <= updated'[new.session]
      BY <1>2, <1>9, <2>2, ListedIs
    <3> QED BY <1>2, <1>3, <1>4, <3>1
  <2> QED BY <2>4, <2>5, <2>6 DEF PassLists
<1>7. PassPages'
  <2>1. \A r \in Sessions : ~Listed(r)' => r # s /\ ~Listed(r)
    BY <1>3, <1>9 DEF Listed
  <2> SUFFICES ASSUME NEW r \in Sessions, r # s, ~Listed(r)
               PROVE  updated[r] < updated[s] \/ Above(updated[r])'
    <3>1. \A e \in pass'.listed : pass'.below <= e.updated
      BY <1>2, <1>3, <1>4, <1>9, ListedIs
    <3> QED BY <1>2, <1>3, <2>1, <3>1 DEF PassPages
  <2>2. CASE updated[r] < pass.below
    BY <1>1, <1>2, <2>2, ListedIs DEF NextPage, StampsGrow
  <2>3. CASE ~(updated[r] < pass.below)
    <3>1. Above(updated[r]) /\ updated[s] < updated[r]
      BY <1>2, <2>3, ListedIs DEF PassPages
    <3> QED BY <1>2, <1>3, <1>9, <3>1 DEF Above
  <2> QED BY <2>2, <2>3
<1>8. PassReads' /\ PassStores'
  BY <1>2, <1>3, <1>9 DEF PassReads, PassStores
<1> QED BY <1>5, <1>6, <1>7, <1>8

LEMMA EndsListingHolds ==
    ASSUME IInv, EndsListing
    PROVE  IInv'
<1> USE DEF IInv
<1>1. /\ pass.at = "paging"
      /\ \A s \in Sessions : NextPage(s) => ~Recent(updated[s])
      /\ UNCHANGED <<clock, updated, facts, ledger, marks, floor>>
  BY DEF EndsListing, engineVars
<1>2. /\ pass' \in Passes /\ pass'.at = "reading" /\ pass'.listed = pass.listed
      /\ pass'.todo = {e \in pass.listed : ~e.busy /\ e.updated # marks[e.session]}
      /\ pass'.reading = pass.reading
  BY DEF EndsListing, Types, Passes
<1>3. Types' /\ StampsGrow' /\ MarksAnswer' /\ FloorHolds' /\ PassLists' /\ PassPages'
  BY <1>1, <1>2 DEF Types, StampsGrow, MarksAnswer, FloorHolds, PassLists, PassPages, Above, Listed
<1>4. PassReads'
  <2>1. ASSUME NEW s \in Sessions, ~Listed(s)
        PROVE  updated[s] < floor \/ Above(updated[s])
    <3>1. CASE updated[s] < pass.below
      <4>1. PICK r \in Sessions : NextPage(r) /\ updated[s] <= updated[r]
        BY <3>1, APageIsNext
      <4>2. updated[r] < floor
        BY <1>1, <4>1, ListedIs DEF Recent
      <4> QED BY <4>1, <4>2, ListedIs
    <3> QED BY <1>1, <2>1, <3>1 DEF PassPages
  <2>2. \A e \in pass.listed : e.busy \/ e \in pass'.todo \/ e.updated <= marks[e.session]
    BY <1>2, ListedIs
  <2>3. pass'.todo \subseteq pass'.listed /\ pass'.reading \subseteq pass'.listed
    BY <1>1, <1>2 DEF PassStores
  <2>4. \A s \in Sessions : ~Listed(s)' => updated'[s] < floor' \/ Above(updated[s])'
    BY <1>1, <1>2, <2>1 DEF Above, Listed
  <2> QED BY <1>1, <1>2, <2>2, <2>3, <2>4 DEF PassReads
<1> QED BY <1>1, <1>2, <1>3, <1>4 DEF PassStores

LEMMA ReadsSessionHolds ==
    ASSUME IInv, ReadsSession
    PROVE  IInv'
<1> USE DEF IInv
<1>1. /\ pass.at = "reading"
      /\ UNCHANGED <<clock, updated, facts, ledger, marks, floor>>
  BY DEF ReadsSession, engineVars
<1>2. PICK e \in pass.todo :
         pass' = [pass EXCEPT !.at = "storing", !.todo = @ \ {e}, !.reading = {e},
                              !.got = {f \in facts : f.session = e.session}]
  BY DEF ReadsSession
<1>3. /\ pass' \in Passes /\ pass'.at = "storing" /\ pass'.listed = pass.listed
      /\ pass'.todo = pass.todo \ {e} /\ pass'.reading = {e} /\ e \in Listing
      /\ pass'.got = {f \in facts : f.session = e.session}
  BY <1>2 DEF Types, Passes
<1>4. Types' /\ StampsGrow' /\ MarksAnswer' /\ FloorHolds' /\ PassLists' /\ PassPages'
  BY <1>1, <1>3 DEF Types, StampsGrow, MarksAnswer, FloorHolds, PassLists, PassPages, Above
<1>5. PassReads'
  <2>1. \A s \in Sessions : ~Listed(s)' => updated'[s] < floor' \/ Above(updated[s])'
    BY <1>1, <1>3 DEF PassReads, Above, Listed
  <2>2. pass'.todo \subseteq pass'.listed /\ pass'.reading \subseteq pass'.listed
    BY <1>1, <1>3 DEF PassReads
  <2>3. \A l \in pass'.listed :
           l.busy \/ l \in pass'.todo \/ l \in pass'.reading \/ l.updated <= marks'[l.session]
    BY <1>1, <1>3 DEF PassReads, PassStores
  <2> QED BY <2>1, <2>2, <2>3 DEF PassReads
<1>6. PassStores'
  BY <1>1, <1>3 DEF PassStores
<1> QED BY <1>4, <1>5, <1>6

\* What was read holds all the mark answers for: it was read after the
\* session was listed, and what came since is stamped later.
LEMMA StoresSessionHolds ==
    ASSUME IInv, StoresSession
    PROVE  IInv'
<1> USE DEF IInv
<1>1. /\ pass.at = "storing" /\ ledger' = ledger \cup pass.got
      /\ UNCHANGED <<clock, updated, facts, floor>>
  BY DEF StoresSession, engineVars
<1>2. PICK e \in pass.reading : marks' = [marks EXCEPT ![e.session] = e.updated]
  BY DEF StoresSession
<1>3. /\ pass' \in Passes /\ pass'.at = "reading" /\ pass'.listed = pass.listed
      /\ pass'.todo = pass.todo /\ pass'.reading = {}
  BY DEF StoresSession, Types, Passes
<1>4. /\ e \in pass.listed /\ pass.reading = {e} /\ e.session \in Sessions
      /\ e.updated \in Stamps /\ e.updated <= updated[e.session]
  BY <1>1, <1>2, ListedIs DEF PassReads, PassStores, PassLists
<1>5. /\ marks'[e.session] = e.updated /\ marks' \in [Sessions -> Stamps \cup {0}]
      /\ \A s \in Sessions : s # e.session => marks'[s] = marks[s]
  BY <1>2, <1>4 DEF Types
<1>6. Types' /\ StampsGrow' /\ FloorHolds' /\ PassLists' /\ PassPages'
  BY <1>1, <1>3, <1>5 DEF Types, StampsGrow, FloorHolds, PassLists, PassPages, Above
<1>7. MarksAnswer'
  <2>1. \A s \in Sessions : marks'[s] <= updated'[s]
    BY <1>1, <1>4, <1>5 DEF MarksAnswer
  <2>2. ASSUME NEW f \in facts, f.at <= marks'[f.session]
        PROVE  f \in ledger'
    <3>1. f.session \in Sessions
      BY ListedIs
    <3>2. CASE f.session = e.session
      BY <1>1, <1>4, <1>5, <2>2, <3>2 DEF PassStores
    <3>3. CASE f.session # e.session
      BY <1>1, <1>5, <2>2, <3>1, <3>3 DEF MarksAnswer
    <3> QED BY <3>2, <3>3
  <2> QED BY <1>1, <2>1, <2>2 DEF MarksAnswer
<1>8. PassReads'
  <2>1. \A s \in Sessions : ~Listed(s)' => updated'[s] < floor' \/ Above(updated[s])'
    BY <1>1, <1>3 DEF PassReads, Above, Listed
  <2>2. ASSUME NEW l \in pass.listed
        PROVE  l.busy \/ l \in pass.todo \/ l.updated <= marks'[l.session]
    <3>1. CASE l = e
      BY <1>4, <1>5, <3>1, ListedIs
    <3>2. CASE l # e
      <4>1. l.session # e.session /\ l.session \in Sessions
        BY <1>4, <3>2, ListedIs DEF PassLists
      <4> QED BY <1>1, <1>4, <1>5, <3>2, <4>1 DEF PassReads
    <3> QED BY <3>1, <3>2
  <2>3. pass'.todo \subseteq pass'.listed /\ pass'.reading \subseteq pass'.listed
    BY <1>1, <1>3 DEF PassReads
  <2> QED BY <1>3, <2>1, <2>2, <2>3 DEF PassReads
<1>9. PassStores'
  BY <1>3 DEF PassStores
<1> QED BY <1>6, <1>7, <1>8, <1>9

\* The new floor passes no session the ledger lacks a fact of.
LEMMA PassEndsHolds ==
    ASSUME IInv, PassEnds
    PROVE  IInv'
<1> USE DEF IInv
<1>1. PICK stamp \in Stamps \cup {0} : NewFloor(stamp) /\ floor' = stamp
  BY DEF PassEnds
<1>2. /\ pass.at = "reading" /\ pass.todo = {} /\ pass.reading = {} /\ pass' = Idle
      /\ UNCHANGED <<clock, updated, facts, ledger, marks>>
  BY DEF PassEnds, engineVars, PassStores
<1>3. stamp <= clock /\ stamp \in Nat
  BY <1>1, FloorIs, ListedIs DEF FloorHolds
<1>4. ASSUME NEW f \in facts, f \notin ledger
      PROVE  updated[f.session] >= stamp
  <2> DEFINE s == f.session
  <2>1. /\ s \in Sessions /\ updated[s] \in Stamps /\ updated[s] >= floor
        /\ f.at <= updated[s] /\ marks[s] < f.at
    BY <1>4, ListedIs DEF FloorHolds, StampsGrow, MarksAnswer
  <2>2. CASE Above(updated[s])
    BY <1>1, <2>1, <2>2, FloorIs
  <2>3. CASE ~Above(updated[s])
    <3>1. PICK e \in pass.listed : e.session = s
      BY <1>2, <2>1, <2>3, ListedIs DEF PassReads, Listed
    <3>2. updated[s] = e.updated
      BY <2>3, <3>1 DEF PassLists
    <3>3. e.busy
      BY <1>2, <2>1, <3>1, <3>2, ListedIs DEF PassReads
    <3> QED BY <1>1, <1>3, <3>2, <3>3, FloorIs, ListedIs
  <2> QED BY <2>2, <2>3
<1>5. FloorHolds'
  BY <1>1, <1>2, <1>3, <1>4 DEF FloorHolds
<1> QED BY <1>1, <1>2, <1>5, GivesUp
------------------------------------------------------------------------------
(* The theorem.                                                            *)

\* Turns run in sessions there are.
LEMMA TurnsRun == Spec => [](busy \subseteq Sessions)
<1>1. Init => busy \subseteq Sessions
  BY DEF Init
<1>2. busy \subseteq Sessions /\ [Next]_vars => (busy \subseteq Sessions)'
  BY DEF Next, vars, engineVars, TurnBegins, Spends, TurnEnds, EngineRestarts, Sends, Taken,
         PostFails, TriesAgain, StrayTaken, PassGoesOn, PassBegins, FetchesPage, EndsListing,
         ReadsSession, StoresSession, PassEnds, PassFails, HarnessRestarts
<1> QED BY <1>1, <1>2, PTL DEF Spec

LEMMA Keeps == IInv /\ busy \subseteq Sessions /\ [Next]_vars => IInv'
<1> SUFFICES ASSUME IInv, busy \subseteq Sessions, [Next]_vars PROVE IInv'
  OBVIOUS
<1>1. ASSUME NEW s \in Sessions, TurnBegins(s) \/ Spends(s)
      PROVE  IInv'
  <2>1. /\ Stamped(s) /\ UNCHANGED <<ledger, marks, floor, pass>>
        /\ facts' \in {facts, facts \cup {[session |-> s, at |-> clock + 1]}}
    BY <1>1 DEF TurnBegins, Spends, passVars
  <2> QED BY <2>1, Moves
<1>2. CASE \/ \E s \in Sessions : TurnEnds(s)
           \/ EngineRestarts \/ Sends \/ Taken \/ PostFails \/ TriesAgain \/ StrayTaken
           \/ UNCHANGED vars
  <2>1. UNCHANGED <<clock, updated, facts, marks, floor, pass>> /\ ledger \subseteq ledger'
    BY <1>2 DEF TurnEnds, EngineRestarts, Sends, Taken, PostFails, TriesAgain, StrayTaken,
                vars, engineVars, pluginVars, passVars
  <2> QED BY <2>1, Delivers
<1>3. CASE PassGoesOn
  BY <1>3, PassBeginsHolds, FetchesPageHolds, EndsListingHolds, ReadsSessionHolds,
     StoresSessionHolds, PassEndsHolds DEF PassGoesOn
<1>4. CASE PassFails \/ HarnessRestarts
  <2>1. /\ pass' = Idle /\ floor' \in {floor, 0}
        /\ UNCHANGED <<clock, updated, facts, ledger, marks>>
    BY <1>4 DEF PassFails, HarnessRestarts, engineVars
  <2>2. floor' \in Stamps \cup {0}
    BY <2>1 DEF IInv, Types
  <2>3. FloorHolds'
    BY <2>1, ListedIs DEF IInv, FloorHolds
  <2> QED BY <2>1, <2>2, <2>3, GivesUp
<1> QED BY <1>1, <1>2, <1>3, <1>4 DEF Next

\* A fact the ledger lacks is always of a session that changed since it was
\* last read and that the floor has not passed: whatever the plugin loses,
\* the next pass lists the session and reads it (usage-reconciler.ts).
THEOREM NothingIsMissed == Spec => []NothingSlipsPast
<1>1. IInv => NothingSlipsPast
  <2> SUFFICES ASSUME IInv, NEW f \in facts \ ledger
               PROVE  updated[f.session] >= floor /\ marks[f.session] # updated[f.session]
    BY DEF NothingSlipsPast
  <2> QED BY ListedIs DEF IInv, FloorHolds, MarksAnswer, StampsGrow
<1> QED BY <1>1, Begins, Keeps, TurnsRun, PTL DEF Spec
==============================================================================
