----------------------------- MODULE EventStream -----------------------------
(***************************************************************************)
(* The harness server's event log and the streams that follow it           *)
(* (packages/harness-server/src/stream.ts and the events section of        *)
(* repository.ts).                                                         *)
(*                                                                         *)
(* Every write to the store appends one event.  A reader opens             *)
(* /harness/events either from the sequence it last saw, and is caught up  *)
(* from the log or told it has a gap, or from no sequence at all, and is   *)
(* sent only what happens next.  The log is pruned underneath them.        *)
(*                                                                         *)
(* Sequence numbers come from an AUTOINCREMENT column and only prefixes    *)
(* are ever deleted, so the stored log is the interval oldest .. newest.   *)
(***************************************************************************)
EXTENDS Naturals, Sequences, FiniteSets

CONSTANTS
    Readers,      \* the clients of the stream
    Resuming,     \* those that send back the last id they saw (Last-Event-ID, ?after=)
    Remote,       \* those that see only remoteEvent (the "only" filter)
    Keep,         \* EVENTS_KEPT.keep
    MaxPending,   \* MAX_PENDING
    QuietWeeks,   \* whether every stored event may outlive EVENTS_KEPT.maxAgeMs
    MaxSeq,       \* bound: events ever written
    MaxDrops      \* bound: connections lost

ASSUME StreamAssumption ==
    /\ Resuming \subseteq Readers
    /\ Remote \subseteq Readers
    /\ Keep \in Nat \ {0}
    /\ MaxPending \in Nat \ {0}
    /\ QuietWeeks \in BOOLEAN
    /\ MaxSeq \in Nat
    /\ MaxDrops \in Nat

VARIABLES
    newest,    \* the last sequence number given out
    oldest,    \* the first one still stored; newest + 1 when the log is empty
    withheld,  \* events a remote reader may not be shown
    conn,      \* what each reader is doing
    cursor,    \* where the server's stream to a reader stands
    sock,      \* what was enqueued for a reader and not read by it yet
    pos,       \* the last id a reader saw, 0 when it has seen none
    told,      \* the events a reader was sent, told it missed, or began after
    listed,    \* what the lists a reader last read amounted to
    base,      \* where a stream opened without a sequence began
    drops      \* connections lost so far

log    == <<newest, oldest, withheld>>
client == <<conn, cursor, sock, pos, told, listed, base>>
vars   == <<newest, oldest, withheld, conn, cursor, sock, pos, told, listed, base, drops>>

\* One entry of a reader's queue.  An event the filter withholds has a place
\* in the order and no bytes on the wire.
Frames == [id : Nat, kind : {"event", "withheld", "gap"}]

TypeOK ==
    /\ newest \in Nat
    /\ oldest \in Nat \ {0}
    /\ withheld \in SUBSET Nat
    /\ conn \in [Readers -> {"off", "listed", "live"}]
    /\ cursor \in [Readers -> Nat]
    /\ sock \in [Readers -> Seq(Frames)]
    /\ pos \in [Readers -> Nat]
    /\ told \in [Readers -> SUBSET Nat]
    /\ listed \in [Readers -> Nat]
    /\ base \in [Readers -> Nat]
    /\ drops \in Nat

Init ==
    /\ newest = 0
    /\ oldest = 1
    /\ withheld = {}
    /\ conn = [r \in Readers |-> "off"]
    /\ cursor = [r \in Readers |-> 0]
    /\ sock = [r \in Readers |-> <<>>]
    /\ pos = [r \in Readers |-> 0]
    /\ told = [r \in Readers |-> {}]
    /\ listed = [r \in Readers |-> 0]
    /\ base = [r \in Readers |-> 0]
    /\ drops = 0

------------------------------------------------------------------------------
(* Reading the log.                                                        *)

Empty == oldest > newest

\* MAX(seq) and MIN(seq) of the stored rows, 0 when there are none.
lastSeq  == IF Empty THEN 0 ELSE newest
firstSeq == IF Empty THEN 0 ELSE oldest

Frame(r, s, hidden) ==
    [id |-> s, kind |-> IF r \in Remote /\ s \in hidden THEN "withheld" ELSE "event"]

\* listEvents(after, MAX_PENDING): the stored events past a sequence, oldest
\* first, as many as one catch-up holds.
CaughtUpTo(after) ==
    LET from == IF oldest > after THEN oldest ELSE after + 1
    IN IF from > newest THEN after
       ELSE IF newest - from >= MaxPending THEN from + MaxPending - 1 ELSE newest

\* Mutant: from the event the reader saw last, rather than past it.
Missed_inclusive(r, after) ==
    LET from == IF oldest > after THEN oldest ELSE after
        upTo == CaughtUpTo(after)
    IN IF from > newest THEN <<>>
       ELSE [i \in 1 .. (upTo - from + 1) |-> Frame(r, from + i - 1, withheld)]

Missed(r, after) ==
    LET from == IF oldest > after THEN oldest ELSE after + 1
        upTo == CaughtUpTo(after)
    IN IF from > newest THEN <<>>
       ELSE [i \in 1 .. (upTo - from + 1) |-> Frame(r, from + i - 1, withheld)]

\* Mutants: what was pruned is not looked at, or is off by one.
HasGap_unpruned(after) == lastSeq > after + MaxPending
HasGap_late(after) ==
    \/ after < lastSeq /\ firstSeq > after + 2
    \/ lastSeq > after + MaxPending

\* Whether a reader at this sequence cannot be handed all it missed.
HasGap(after) ==
    \/ after < lastSeq /\ firstSeq > after + 1
    \/ lastSeq > after + MaxPending

------------------------------------------------------------------------------
(* The server.                                                             *)

\* append: one row, then every subscribed stream in turn.  A stream skips what
\* its catch-up already sent.  send() only fails on a closed stream, so no
\* listener throws and none is dropped for being slow.
append(hide) ==
    /\ newest < MaxSeq
    /\ LET s   == newest + 1
           hid == IF hide THEN withheld \cup {s} ELSE withheld
           due == {r \in Readers : conn[r] = "live" /\ s > cursor[r]}
       IN /\ newest' = s
          /\ withheld' = hid
          /\ cursor' = [r \in Readers |-> IF r \in due THEN s ELSE cursor[r]]
          /\ sock' = [r \in Readers |->
                        IF r \in due THEN Append(sock[r], Frame(r, s, hid)) ELSE sock[r]]
    /\ UNCHANGED <<oldest, conn, pos, told, listed, base, drops>>

\* pruneEvents: all but the newest Keep, and whatever is older than a week;
\* run at startup and every hour.  "aged" is the first event young enough.
pruneEvents(aged) ==
    /\ ~Empty
    /\ aged \in oldest .. newest + 1
    /\ aged = newest + 1 => QuietWeeks
    /\ oldest' = IF newest + 1 > Keep + aged THEN newest - Keep + 1 ELSE aged
    /\ UNCHANGED <<newest, withheld, client, drops>>

------------------------------------------------------------------------------
(* The readers.                                                            *)

\* A reader with no sequence to resume from reads the lists first
\* (refreshRoutines and refreshRuns in features/runs/store.ts).
ReadLists(r) ==
    /\ conn[r] = "off"
    /\ pos[r] = 0
    /\ conn' = [conn EXCEPT ![r] = "listed"]
    /\ listed' = [listed EXCEPT ![r] = newest]
    /\ UNCHANGED <<log, cursor, sock, pos, told, base, drops>>

\* eventStream with no sequence: it starts where the log ends.
OpenFresh(r) ==
    /\ conn[r] = "listed"
    /\ conn' = [conn EXCEPT ![r] = "live"]
    /\ cursor' = [cursor EXCEPT ![r] = lastSeq]
    /\ sock' = [sock EXCEPT ![r] = <<>>]
    /\ told' = [told EXCEPT ![r] = 1 .. newest]
    /\ base' = [base EXCEPT ![r] = newest]
    /\ UNCHANGED <<log, pos, listed, drops>>

\* eventStream from a sequence: the catch-up, or the gap, and the subscription
\* in one turn of the event loop.
OpenAfter(r) ==
    /\ conn[r] = "off"
    /\ pos[r] > 0
    /\ conn' = [conn EXCEPT ![r] = "live"]
    /\ \/ /\ HasGap(pos[r])
          /\ cursor' = [cursor EXCEPT ![r] = lastSeq]
          /\ sock' = [sock EXCEPT ![r] = <<[id |-> lastSeq, kind |-> "gap"]>>]
       \/ /\ ~HasGap(pos[r])
          /\ cursor' = [cursor EXCEPT ![r] = CaughtUpTo(pos[r])]
          /\ sock' = [sock EXCEPT ![r] = Missed(r, pos[r])]
    /\ UNCHANGED <<log, pos, told, listed, base, drops>>

\* The reader takes the next entry off the connection.
Receive(r) ==
    /\ conn[r] = "live"
    /\ sock[r] # <<>>
    /\ LET f == Head(sock[r])
       IN /\ sock' = [sock EXCEPT ![r] = Tail(@)]
          /\ pos' = [pos EXCEPT ![r] = IF f.kind = "withheld" THEN @ ELSE f.id]
          /\ told' = [told EXCEPT ![r] =
                        @ \cup (IF f.kind = "gap" THEN 1 .. f.id ELSE {f.id})]
    /\ UNCHANGED <<log, conn, cursor, listed, base, drops>>

\* The connection dies, with whatever was still queued on it; a reader that
\* does not resume starts again from the lists.
Drop(r) ==
    /\ conn[r] = "live"
    /\ drops < MaxDrops
    /\ drops' = drops + 1
    /\ conn' = [conn EXCEPT ![r] = "off"]
    /\ sock' = [sock EXCEPT ![r] = <<>>]
    /\ pos' = [pos EXCEPT ![r] = IF r \in Resuming THEN @ ELSE 0]
    /\ UNCHANGED <<log, cursor, told, listed, base>>

Connect(r) == ReadLists(r) \/ OpenFresh(r) \/ OpenAfter(r)

Next ==
    \/ \E hide \in BOOLEAN : append(hide)
    \/ \E aged \in oldest .. newest + 1 : pruneEvents(aged)
    \/ \E r \in Readers : Connect(r) \/ Receive(r) \/ Drop(r)

Spec == Init /\ [][Next]_vars

\* A reader reconnects (the loops in store.ts and notifier.ts retry for ever)
\* and the bytes of a live connection arrive.
Fairness == \A r \in Readers : WF_vars(Connect(r)) /\ WF_vars(Receive(r))

FairSpec == Spec /\ Fairness

------------------------------------------------------------------------------
(* What the stream promises.                                               *)

\* A reader that follows the stream sees each event once and in order: what
\* is queued for it ascends, lies past what it has seen and ends at the
\* server's cursor ("caught by the sequence check rather than sent twice",
\* stream.ts).
InOrder ==
    \A r \in Readers :
        /\ \A i, j \in DOMAIN sock[r] : i < j => sock[r][i].id < sock[r][j].id
        /\ \A i \in DOMAIN sock[r] :
              /\ pos[r] < sock[r][i].id
              /\ sock[r][i].id <= cursor[r]

\* Nothing a reader's stream has passed is lost without a word: it was sent,
\* is queued, or is covered by a gap the reader is told of ("a client catching
\* up past what was pruned is told it has a gap", repository.ts).
Queued(r, s) ==
    \E i \in DOMAIN sock[r] :
        sock[r][i].id = s \/ (sock[r][i].kind = "gap" /\ s < sock[r][i].id)

NoSilentGap ==
    \A r \in Readers :
        conn[r] = "live" => \A s \in 1 .. cursor[r] : s \in told[r] \/ Queued(r, s)

\* The id a reader would resume from claims nothing it was not told of.
ResumesFromWhatItSaw ==
    \A r \in Readers : \A s \in 1 .. pos[r] : s \in told[r]

\* A reader that keeps reconnecting is eventually told of every event,
\* however the log is pruned meanwhile.
EveryEventIsTold ==
    \A r \in Readers : \A s \in 1 .. MaxSeq : s <= newest ~> s \in told[r]
==============================================================================
