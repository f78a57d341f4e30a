------------------------------ MODULE UsageLedger ------------------------------
(***************************************************************************)
(* What the engine's turns cost, and the two ways it reaches the ledger:   *)
(* the rows the session-metrics plugin queues and posts                    *)
(* (packages/remote/src/engine-plugins-v2.ts), and the transcripts the     *)
(* reconciler reads (packages/harness-server/src/usage-reconciler.ts).     *)
(* Both name a fact alike, and the ledger stores a name once.              *)
(*                                                                         *)
(* Engine, plugin, harness and the requests between them interleave, and   *)
(* engine and harness may restart.  The engine is external: it is taken to *)
(* keep every fact in the transcript, to stamp a session anew whenever     *)
(* anything in it changes, and to page through sessions from the last one  *)
(* it returned.  A page holds one session.  A fact is named by the stamp   *)
(* it was given.  Rows the route refuses and sessions the engine forgets   *)
(* are left out.                                                           *)
(***************************************************************************)
EXTENDS Naturals, Sequences, FiniteSets, SequencesExt

CONSTANTS
    MaxSessions,  \* bound: the engine's sessions
    Batch,        \* BATCH
    MaxQueued,    \* MAX_QUEUED
    MaxClock,     \* bound: stamps given
    MaxTroubles   \* bound: restarts, and requests that fail

ASSUME LedgerAssumption ==
    /\ MaxSessions \in Nat /\ MaxClock \in Nat /\ MaxTroubles \in Nat
    /\ MaxSessions <= MaxClock
    /\ Batch \in Nat \ {0} /\ MaxQueued \in Nat \ {0}

Sessions == 1 .. MaxSessions
Stamps   == 1 .. MaxClock
Fact     == [session : Sessions, at : Stamps]
Listing  == [session : Sessions, updated : Stamps, busy : BOOLEAN]

VARIABLES
    clock,     \* the engine's last stamp
    updated,   \* each session's time.updated
    busy,      \* the sessions a turn runs in
    facts,     \* what the transcripts hold
    ledgerOn,  \* whether the plugin found its token when the engine started
    queue,     \* the plugin's rows
    sending,   \* those of the post it waits for
    waiting,   \* whether it waits to try again
    stray,     \* posts it no longer waits for and the harness may yet take
    ledger,    \* the facts stored
    marks,     \* usage_reconciled: each session's stamp when last read, 0 for none
    floor,     \* the reconciler's floor
    pass,      \* and the pass it makes
    troubles   \* restarts and failures so far

engineVars == <<clock, updated, busy, facts>>
pluginVars == <<ledgerOn, queue, sending, waiting>>
passVars   == <<marks, floor, pass>>
vars       == <<engineVars, pluginVars, stray, ledger, passVars, troubles>>

\* at: nothing, pages being fetched below a stamp, a transcript about to be
\* read, and what was read being classified.
Idle == [at |-> "idle", active |-> {}, below |-> 0, listed |-> {}, todo |-> {},
         reading |-> {}, got |-> {}]

TypeOK ==
    /\ clock \in MaxSessions .. MaxClock
    /\ updated \in [Sessions -> Stamps]
    /\ busy \subseteq Sessions
    /\ facts \subseteq Fact
    /\ ledgerOn \in BOOLEAN
    /\ queue \in Seq(Fact)
    /\ sending \subseteq Fact
    /\ waiting \in BOOLEAN
    /\ stray \subseteq SUBSET Fact
    /\ ledger \subseteq Fact
    /\ marks \in [Sessions -> Stamps \cup {0}]
    /\ floor \in Stamps \cup {0}
    /\ pass \in [at : {"idle", "paging", "reading", "storing"}, active : SUBSET Sessions,
                 below : 0 .. MaxClock + 1, listed : SUBSET Listing, todo : SUBSET Listing,
                 reading : SUBSET Listing, got : SUBSET Fact]
    /\ troubles \in 0 .. MaxTroubles

Init ==
    /\ clock = MaxSessions
    /\ updated = [s \in Sessions |-> s]
    /\ busy = {}
    /\ facts = {}
    /\ ledgerOn \in BOOLEAN
    /\ queue = <<>>
    /\ sending = {}
    /\ waiting = FALSE
    /\ stray = {}
    /\ ledger = {}
    /\ marks = [s \in Sessions |-> 0]
    /\ floor = 0
    /\ pass = Idle
    /\ troubles = 0

Trouble == troubles < MaxTroubles /\ troubles' = troubles + 1

-----------------------------------------------------------------------------
(* The engine, and the plugin in it.                                       *)

Stamped(s) ==
    /\ clock < MaxClock
    /\ clock' = clock + 1
    /\ updated' = [updated EXCEPT ![s] = clock + 1]

TurnBegins(s) ==
    /\ s \notin busy
    /\ Stamped(s)
    /\ busy' = busy \cup {s}
    /\ UNCHANGED <<facts, pluginVars, stray, ledger, passVars, troubles>>

\* enqueue: the oldest row makes room.
Queued(row) ==
    LET rows == Append(queue, row) IN
    IF Len(rows) > MaxQueued THEN Tail(rows) ELSE rows

\* A step, a failed step or a compaction ends: a fact.
Spends(s) ==
    /\ s \in busy
    /\ Stamped(s)
    /\ LET fact == [session |-> s, at |-> clock + 1] IN
       /\ facts' = facts \cup {fact}
       /\ queue' = IF ledgerOn THEN Queued(fact) ELSE queue
    /\ UNCHANGED <<busy, ledgerOn, sending, waiting, stray, ledger, passVars, troubles>>

TurnEnds(s) ==
    /\ s \in busy
    /\ busy' = busy \ {s}
    /\ UNCHANGED <<clock, updated, facts, pluginVars, stray, ledger, passVars, troubles>>

\* It restarts: no turn runs, and the plugin begins again with nothing.
EngineRestarts ==
    /\ Trouble
    /\ busy' = {}
    /\ ledgerOn' \in BOOLEAN
    /\ queue' = <<>>
    /\ sending' = {}
    /\ waiting' = FALSE
    /\ stray' = IF sending = {} THEN stray ELSE stray \cup {sending}
    /\ UNCHANGED <<clock, updated, facts, ledger, passVars>>

-----------------------------------------------------------------------------
(* The plugin's posts.                                                     *)

Sends ==
    /\ sending = {}
    /\ ~waiting
    /\ queue # <<>>
    /\ sending' = ToSet(SubSeq(queue, 1, IF Len(queue) < Batch THEN Len(queue) ELSE Batch))
    /\ UNCHANGED <<engineVars, ledgerOn, queue, waiting, stray, ledger, passVars, troubles>>

\* The rows of the batch go.
Delivered == queue' = SelectSeq(queue, LAMBDA row : row \notin sending)

\* The harness stores the batch and its answer arrives.
Taken ==
    /\ sending # {}
    /\ ledger' = ledger \cup sending
    /\ Delivered
    /\ sending' = {}
    /\ UNCHANGED <<engineVars, ledgerOn, waiting, stray, passVars, troubles>>

\* No answer, or not a good one: whether it was taken is not known.
PostFails ==
    /\ sending # {}
    /\ Trouble
    /\ stray' = stray \cup {sending}
    /\ sending' = {}
    /\ waiting' = TRUE
    /\ UNCHANGED <<engineVars, ledgerOn, queue, ledger, passVars>>

TriesAgain ==
    /\ waiting
    /\ waiting' = FALSE
    /\ UNCHANGED <<engineVars, ledgerOn, queue, sending, stray, ledger, passVars, troubles>>

\* A post nobody waits for is stored.
StrayTaken ==
    /\ \E rows \in stray :
          /\ stray' = stray \ {rows}
          /\ ledger' = ledger \cup rows
    /\ UNCHANGED <<engineVars, pluginVars, passVars, troubles>>

-----------------------------------------------------------------------------
(* The reconciler.                                                         *)

\* Which sessions run is asked before the first page.
PassBegins ==
    /\ pass.at = "idle"
    /\ pass' = [Idle EXCEPT !.at = "paging", !.active = busy, !.below = MaxClock + 1]
    /\ UNCHANGED <<engineVars, pluginVars, stray, ledger, marks, floor, troubles>>

\* Only what changed since the floor.
Recent_after(stamp) == stamp > floor

\* What changed at the floor, too.
Recent(stamp) == stamp >= floor

\* The session the next page holds.
NextPage(s) ==
    /\ updated[s] < pass.below
    /\ \A r \in Sessions : updated[r] < pass.below => updated[r] <= updated[s]

FetchesPage ==
    /\ pass.at = "paging"
    /\ \E s \in Sessions :
          /\ NextPage(s)
          /\ Recent(updated[s])
          /\ pass' = [pass EXCEPT
                        !.below = updated[s],
                        !.listed = @ \cup {[session |-> s, updated |-> updated[s],
                                            busy |-> s \in pass.active]}]
    /\ UNCHANGED <<engineVars, pluginVars, stray, ledger, marks, floor, troubles>>

\* The last page: what it listed that is idle and not read since it changed
\* is to be read.
EndsListing ==
    /\ pass.at = "paging"
    /\ \A s \in Sessions : NextPage(s) => ~Recent(updated[s])
    /\ pass' = [pass EXCEPT !.at = "reading",
                            !.todo = {e \in pass.listed : ~e.busy /\ e.updated # marks[e.session]}]
    /\ UNCHANGED <<engineVars, pluginVars, stray, ledger, marks, floor, troubles>>

\* A transcript is read as it is by now.
ReadsSession ==
    /\ pass.at = "reading"
    /\ \E e \in pass.todo :
          pass' = [pass EXCEPT !.at = "storing", !.todo = @ \ {e}, !.reading = {e},
                               !.got = {f \in facts : f.session = e.session}]
    /\ UNCHANGED <<engineVars, pluginVars, stray, ledger, marks, floor, troubles>>

\* It is stored, and the session marked as it was when it was listed.
StoresSession ==
    /\ pass.at = "storing"
    /\ ledger' = ledger \cup pass.got
    /\ \E e \in pass.reading : marks' = [marks EXCEPT ![e.session] = e.updated]
    /\ pass' = [pass EXCEPT !.at = "reading", !.reading = {}, !.got = {}]
    /\ UNCHANGED <<engineVars, pluginVars, stray, floor, troubles>>

\* The newest change listed.
Newest(stamp) ==
    LET stamps == {floor} \cup {e.updated : e \in pass.listed} IN
    /\ stamp \in stamps
    /\ \A other \in stamps : other <= stamp

\* The newest change, whatever runs.
NewFloor_running(stamp) == Newest(stamp)

\* The newest change, and no later than that of a session that runs.
NewFloor(stamp) ==
    LET running == {e.updated : e \in {l \in pass.listed : l.busy}} IN
    IF running = {} THEN Newest(stamp)
    ELSE stamp \in running /\ \A other \in running : stamp <= other

PassEnds ==
    /\ pass.at = "reading"
    /\ pass.todo = {}
    /\ \E stamp \in Stamps \cup {0} :
          /\ NewFloor(stamp)
          /\ floor' = stamp
    /\ pass' = Idle
    /\ UNCHANGED <<engineVars, pluginVars, stray, ledger, marks, troubles>>

\* The engine does not answer: the pass is given up, what it stored kept.
PassFails ==
    /\ pass.at # "idle"
    /\ Trouble
    /\ pass' = Idle
    /\ UNCHANGED <<engineVars, pluginVars, stray, ledger, marks, floor>>

HarnessRestarts ==
    /\ Trouble
    /\ pass' = Idle
    /\ floor' = 0
    /\ UNCHANGED <<engineVars, pluginVars, stray, ledger, marks>>

-----------------------------------------------------------------------------
PassGoesOn ==
    PassBegins \/ FetchesPage \/ EndsListing \/ ReadsSession \/ StoresSession \/ PassEnds

Next ==
    \/ \E s \in Sessions : TurnBegins(s) \/ Spends(s) \/ TurnEnds(s)
    \/ EngineRestarts
    \/ Sends \/ Taken \/ PostFails \/ TriesAgain \/ StrayTaken
    \/ PassGoesOn \/ PassFails \/ HarnessRestarts

Spec == Init /\ [][Next]_vars

\* A pass runs every intervalMs and its requests are answered unless they
\* fail; turns end.  Nothing is asked of the plugin.
FairSpec ==
    /\ Spec
    /\ WF_vars(PassGoesOn)
    /\ \A s \in Sessions : WF_vars(TurnEnds(s))

-----------------------------------------------------------------------------
(* Properties.                                                             *)

\* A fact the ledger lacks is of a session the reconciler will come back to:
\* not marked as read since it changed, and not below the floor.  Sessions
\* move while they are paged through, run between being listed and being
\* read, and spend between being read and being marked.
NothingSlipsPast ==
    \A f \in facts \ ledger :
        /\ updated[f.session] >= floor
        /\ marks[f.session] # updated[f.session]

\* Once the sessions rest, the ledger holds every fact: those the plugin
\* dropped, those it never saw for want of a token, and those that were in
\* its queue when the engine restarted.
EveryFactIsStored == (facts \ ledger # {}) ~> (facts \subseteq ledger)

==============================================================================
