----------------------------- MODULE BrowserDriver -----------------------------
(***************************************************************************)
(* The browsers of web actions: the sessions createRecipeDriver keeps      *)
(* (packages/harness-server/src/browser.ts), under the recipes and         *)
(* previews that drive them (action-runner.ts), the pages' viewers and the *)
(* person who watches, holds, takes over and closes them.                  *)
(*                                                                         *)
(* A session is an object of its own: its id may be opened again while     *)
(* calls of the old one are still awaited.  Only what those calls keep a   *)
(* hold on matters: the session they took, the page call they count in,    *)
(* the reveal they wait for.  A Chromium is on, closing or off; the lock   *)
(* on its profile lets one run at a time.  abort marks a session stopped   *)
(* and closes it in the same turn, which clears the mark: no await sees    *)
(* it, so both are Close here.  Pages, secrets, tabs and screenshots are   *)
(* left out: a page call is one that begins, runs and ends.                *)
(***************************************************************************)
EXTENDS Naturals, Sequences, FiniteSets

CONSTANTS
    Ids,        \* session ids
    Projects,   \* the projects whose profiles are driven
    Recipes,    \* runs of a recipe (drive)
    Previews,   \* the editor's previews (previewDrive)
    Openers,    \* calls of the routes start and login
    Viewers,    \* page calls of the live view and of the agent's tool
    Shared,     \* whether two runs may drive one session
    OnPaused,   \* whether a paused session may be asked for its window (the
                \* panel's button is off then)
    PageFails,  \* whether a Chromium that launched may refuse its first page
    MaxOpens,   \* bound: sessions opened in all
    MaxSteps    \* bound: page calls of a run

ASSUME BrowserAssumption ==
    /\ {MaxOpens, MaxSteps} \subseteq Nat
    /\ {Shared, OnPaused, PageFails} \subseteq BOOLEAN
    /\ IsFiniteSet(Recipes \cup Previews \cup Openers \cup Viewers)
    /\ Viewers \cap (Recipes \cup Previews) = {}
    /\ "nobody" \notin Recipes \cup Previews \cup Openers \cup Viewers
    /\ "nobody" \notin Ids

Runs    == Recipes \cup Previews
Callers == Runs \cup Openers \cup Viewers
Nobody  == "nobody"

VARIABLES
    sessions,  \* each id's session, 0 for none
    projects,  \* the id each project is reserved for
    made,      \* the sessions there have been, registered or not
    callers    \* where each call is, and what it holds on to

vars == <<sessions, projects, made, callers>>

Idle == [pc |-> "off", id |-> Nobody, project |-> Nobody, headed |-> FALSE, on |-> 0, left |-> 0]
Done == [Idle EXCEPT !.pc = "done"]

\* A session as an object: who may use it, the run it holds, the calls and the
\* reveal on its page, and its Chromiums.
Session == [id : Ids, project : Projects, headed : BOOLEAN, paused : BOOLEAN,
            wake : Runs \cup {Nobody}, runActive : Nat, inflight : Nat,
            wanted : BOOLEAN, forced : BOOLEAN, context : {"on", "closing", "off"},
            reveal : {"no", "closing", "launching", "binding", "front", "stray", "failed"},
            window : {"on", "closing", "off"}]

\* A call: what it waits for, and the session it took or was given.
Call == [pc : {"off", "launching", "binding", "joining", "between", "looping", "held",
               "revealing", "waiting", "call", "leaving", "ended", "done"},
         id : Ids \cup {Nobody}, project : Projects \cup {Nobody}, headed : BOOLEAN,
         on : Nat, left : 0 .. MaxSteps]

TypeOK ==
    /\ sessions \in [Ids -> 0 .. Len(made)]
    /\ projects \in [Projects -> Ids \cup {Nobody}]
    /\ made \in Seq(Session)
    /\ callers \in [Callers -> Call]
    /\ \A c \in Callers : callers[c].on <= Len(made)

Init ==
    /\ sessions = [i \in Ids |-> 0]
    /\ projects = [p \in Projects |-> Nobody]
    /\ made = <<>>
    /\ callers = [c \in Callers |-> Idle]

Live(s) == sessions[made[s].id] = s

\* The Chromiums that hold the lock on a profile.
InUse(p) ==
    \/ \E s \in DOMAIN made :
          made[s].project = p /\ (made[s].context # "off" \/ made[s].window # "off")
    \/ \E c \in Callers : callers[c].pc = "binding" /\ callers[c].project = p

At(c, pc) == [callers EXCEPT ![c].pc = pc]

\* A call once what it asked for is over.
Over(c) == IF c \in Runs THEN [callers[c] EXCEPT !.pc = "between", !.on = 0] ELSE Idle

------------------------------------------------------------------------------
(* Opening a session.                                                      *)

Open(c, i, p, headed) ==
    /\ c \in Runs \cup Openers
    /\ callers[c].pc = "off"
    /\ c \in Runs /\ ~Shared => \A r \in Runs : callers[r].id # i
    /\ \/ /\ sessions[i] # 0 /\ made[sessions[i]].project = p
          /\ callers' = [callers EXCEPT ![c] = [Idle EXCEPT !.pc = "joining", !.id = i]]
          /\ UNCHANGED projects
       \/ /\ sessions[i] = 0 /\ projects[p] = Nobody
          /\ Len(made) + Cardinality({d \in Callers : callers[d].pc \in {"launching", "binding"}}) < MaxOpens
          /\ callers' = [callers EXCEPT ![c] =
                            [Idle EXCEPT !.pc = "launching", !.id = i, !.project = p, !.headed = headed]]
          /\ projects' = [projects EXCEPT ![p] = i]
    /\ UNCHANGED <<sessions, made>>

\* A call whose open failed: a recipe's run may close the browser on its way
\* out.
Failed(c) == IF c \in Recipes THEN [Idle EXCEPT !.pc = "ended", !.id = callers[c].id]
             ELSE IF c \in Previews THEN Done ELSE Idle

LaunchEnds(c) ==
    /\ callers[c].pc = "launching"
    /\ \/ /\ ~InUse(callers[c].project)
          /\ callers' = At(c, "binding")
          /\ UNCHANGED projects
       \/ /\ callers' = [callers EXCEPT ![c] = Failed(c)]
          /\ projects' = [projects EXCEPT ![callers[c].project] = Nobody]
    /\ UNCHANGED <<sessions, made>>

NewSession(c) ==
    [id |-> callers[c].id, project |-> callers[c].project,
     headed |-> callers[c].headed, paused |-> FALSE,
     wake |-> Nobody, runActive |-> 0, inflight |-> 0, wanted |-> FALSE, forced |-> FALSE,
     context |-> "on", reveal |-> "no", window |-> "off"]

\* The guards are bound and the session is registered; or its page or its
\* guards fail, and the Chromium that was launched is nobody's.
BindEnds(c) ==
    /\ callers[c].pc = "binding"
    /\ made' = Append(made, NewSession(c))
    /\ \/ /\ sessions' = [sessions EXCEPT ![callers[c].id] = Len(made) + 1]
          /\ callers' = [callers EXCEPT ![c] =
                            [Idle EXCEPT !.pc = "joining", !.id = callers[c].id]]
       \/ /\ PageFails
          /\ callers' = [callers EXCEPT ![c] = Failed(c)]
          /\ UNCHANGED sessions
    /\ UNCHANGED projects

\* open returns, and a run is counted on the session its id has by then.
Joined(c) ==
    /\ callers[c].pc = "joining"
    /\ IF c \in Runs
       THEN LET s == sessions[callers[c].id]
            IN /\ callers' = [callers EXCEPT ![c].pc = "between", ![c].left = MaxSteps]
               /\ made' = IF s = 0 THEN made ELSE [made EXCEPT ![s].runActive = @ + 1]
       ELSE callers' = [callers EXCEPT ![c] = Idle] /\ UNCHANGED made
    /\ UNCHANGED <<sessions, projects>>

------------------------------------------------------------------------------
(* Reveals: the headless Chromium is closed and a window opens in its      *)
(* place, on the same profile.                                             *)

\* Mutant: maybeReveal does not look at the page calls in flight.
Reveals_racing(m) ==
    /\ m.wanted /\ m.reveal = "no"
    /\ m.runActive = 0 \/ m.forced

\* Whether maybeReveal starts one.
Reveals(m) ==
    /\ m.wanted /\ m.reveal = "no" /\ m.inflight = 0
    /\ m.runActive = 0 \/ m.forced

Closing(context) == IF context = "on" THEN "closing" ELSE context

\* A session after maybeReveal: there is nothing to open for one that is gone
\* or has its window.
MaybeReveal(m, live) ==
    IF ~Reveals(m) THEN m
    ELSE IF m.headed \/ ~live THEN [m EXCEPT !.wanted = FALSE, !.forced = FALSE]
    ELSE [m EXCEPT !.reveal = "closing", !.context = Closing(@)]

\* Mutant: closing leaves the project reserved.
Gone_reserved(s) ==
    sessions' = [sessions EXCEPT ![made[s].id] = 0] /\ UNCHANGED projects

\* closeSession, for every reason a session is closed.
Gone(s) ==
    /\ sessions' = [sessions EXCEPT ![made[s].id] = 0]
    /\ projects' = IF projects[made[s].project] = made[s].id
                   THEN [projects EXCEPT ![made[s].project] = Nobody]
                   ELSE projects

Dropped(m) == [m EXCEPT !.paused = FALSE, !.wake = Nobody, !.context = Closing(@)]

\* Mutant: a session that closes wakes nobody.
Woken_resumed(s, going) ==
    [c \in Callers |-> IF c # made[s].wake \/ going THEN callers[c]
                       ELSE [Over(c) EXCEPT !.pc = "looping"]]

\* wake: the run the session holds looks again, or, when the session is going,
\* fails for good.
Woken(s, going) ==
    [c \in Callers |->
        IF c # made[s].wake THEN callers[c]
        ELSE IF going THEN [Over(c) EXCEPT !.left = 0]
        ELSE [Over(c) EXCEPT !.pc = "looping"]]

Close(s) ==
    /\ Live(s)
    /\ Gone(s)
    /\ made' = [made EXCEPT ![s] = Dropped(made[s])]
    /\ callers' = Woken(s, TRUE)

\* A context that was asked to close has closed.
ContextCloses(s) ==
    /\ made[s].context = "closing"
    /\ made' = [made EXCEPT ![s].context = "off",
                            ![s].reveal = IF @ = "closing" THEN "launching" ELSE @]
    /\ UNCHANGED <<sessions, projects, callers>>

\* What waited for a reveal goes on: a page call begins, a held run looks
\* again, a run that was ending ends; or they all fail with it.
Awaiting(s, pc) == {c \in Callers : callers[c].pc = pc /\ callers[c].on = s}

Shown(s) ==
    [c \in Callers |->
        IF callers[c].on # s THEN callers[c]
        ELSE CASE callers[c].pc = "waiting"   -> [callers[c] EXCEPT !.pc = "call"]
               [] callers[c].pc = "revealing" -> [callers[c] EXCEPT !.pc = "looping", !.on = 0]
               [] callers[c].pc = "leaving"   -> [callers[c] EXCEPT !.pc = "ended", !.on = 0]
               [] OTHER                       -> callers[c]]

NotShown(s) ==
    [c \in Callers |->
        IF callers[c].on # s THEN callers[c]
        ELSE CASE callers[c].pc \in {"waiting", "revealing"} -> Over(c)
               [] callers[c].pc = "leaving"                  -> [callers[c] EXCEPT !.pc = "ended", !.on = 0]
               [] OTHER                                      -> callers[c]]

Finished(s, m) ==
    [m EXCEPT !.reveal = "no", !.wanted = FALSE, !.forced = FALSE,
              !.inflight = @ + Cardinality(Awaiting(s, "waiting"))]

\* The relaunch fails, or the new Chromium is given up: its session, when it
\* is still the one of its id, is closed rather than left with a dead context.
GiveUp(s) ==
    LET m == [made[s] EXCEPT !.reveal = "no", !.window = "off"]
    IN IF Live(s)
       THEN /\ Gone(s)
            /\ made' = [made EXCEPT ![s] = Dropped(m)]
            /\ callers' = [c \in Callers |->
                              IF c = made[s].wake THEN Woken(s, TRUE)[c] ELSE NotShown(s)[c]]
       ELSE /\ made' = [made EXCEPT ![s] = m]
            /\ callers' = NotShown(s)
            /\ UNCHANGED <<sessions, projects>>

Relaunches(s) ==
    /\ made[s].reveal = "launching"
    /\ \/ /\ ~InUse(made[s].project)
          /\ made' = [made EXCEPT ![s].reveal = "binding", ![s].window = "on"]
          /\ UNCHANGED <<sessions, projects, callers>>
       \/ GiveUp(s)

\* Mutant: the window is published without looking at the session again.
Publish_blindly(s) ==
    [made[s] EXCEPT !.reveal = "front", !.context = "on", !.window = "off", !.headed = TRUE]

\* A reveal of a session that is gone closes its window instead of
\* publishing it.
Publish(s) ==
    IF Live(s)
    THEN [made[s] EXCEPT !.reveal = "front", !.context = "on", !.window = "off", !.headed = TRUE]
    ELSE [made[s] EXCEPT !.reveal = "stray", !.window = "closing"]

Binds(s) ==
    /\ made[s].reveal = "binding"
    /\ \/ made' = [made EXCEPT ![s] = Publish(s)]
       \/ made' = [made EXCEPT ![s].reveal = "failed", ![s].window = "closing"]
    /\ UNCHANGED <<sessions, projects, callers>>

\* The window that was given up has closed.
WindowCloses(s) ==
    \/ made[s].reveal = "failed" /\ GiveUp(s)
    \/ /\ made[s].reveal = "stray"
       /\ made' = [made EXCEPT ![s] = Finished(s, [made[s] EXCEPT !.window = "off"])]
       /\ callers' = Shown(s)
       /\ UNCHANGED <<sessions, projects>>

InFront(s) ==
    /\ made[s].reveal = "front"
    /\ made' = [made EXCEPT ![s] = Finished(s, made[s])]
    /\ callers' = Shown(s)
    /\ UNCHANGED <<sessions, projects>>

Reveal(s) == ContextCloses(s) \/ Relaunches(s) \/ Binds(s) \/ WindowCloses(s) \/ InFront(s)

------------------------------------------------------------------------------
(* Page calls, and the steps of a run.                                     *)

\* pageOp, on a session as it is by then: the call waits for a reveal that is
\* on, or counts as in flight.
PageCall(c, s, m) ==
    LET waits == m.reveal # "no"
    IN /\ callers' = [callers EXCEPT ![c].pc = IF waits THEN "waiting" ELSE "call",
                                     ![c].on = s,
                                     ![c].left = IF c \in Runs THEN @ - 1 ELSE @]
       /\ made' = [made EXCEPT ![s] = IF waits THEN m ELSE [m EXCEPT !.inflight = @ + 1]]

\* A page call of a run whose session is gone fails at once.
NoSession(c) ==
    /\ sessions[callers[c].id] = 0
    /\ callers' = [callers EXCEPT ![c].pc = "between", ![c].left = @ - 1]
    /\ UNCHANGED made

\* Mutant: the boundary does not force the reveal.
Boundary_waiting(m) == IF m.wanted THEN MaybeReveal(m, TRUE) ELSE m

\* A wanted window may open at a step's boundary, though a run is on.
Boundary(m) == IF m.wanted THEN MaybeReveal([m EXCEPT !.forced = TRUE], TRUE) ELSE m

\* A step of a recipe: waitIfPaused waits for a window that was asked for and
\* looks again, holds the run while its session is paused, or lets the step
\* begin.
Step(c) ==
    LET s == sessions[callers[c].id]
    IN /\ c \in Recipes
       /\ callers[c].pc \in {"between", "looping"}
       /\ callers[c].left > 0
       /\ \/ NoSession(c)
          \/ /\ s # 0
             /\ LET m == Boundary(made[s])
                IN IF made[s].wanted /\ m.reveal # "no"
                   THEN /\ callers' = [callers EXCEPT ![c].pc = "revealing", ![c].on = s]
                        /\ made' = [made EXCEPT ![s] = m]
                   ELSE IF m.paused
                   THEN /\ callers' = [callers EXCEPT ![c].pc = "held", ![c].on = s]
                        /\ made' = [made EXCEPT ![s] = [m EXCEPT !.wake = c]]
                   ELSE PageCall(c, s, m)
       /\ UNCHANGED <<sessions, projects>>

\* Evidence and extracts of a recipe, and every step of a preview, ask nobody.
Capture(c) ==
    LET s == sessions[callers[c].id]
    IN /\ callers[c].pc = "between"
       /\ callers[c].left > 0
       /\ NoSession(c) \/ (s # 0 /\ PageCall(c, s, made[s]))
       /\ UNCHANGED <<sessions, projects>>

\* A page call of the live view or of the agent's tool.
View(c, i) ==
    /\ c \in Viewers
    /\ callers[c].pc = "off"
    /\ sessions[i] # 0
    /\ PageCall(c, sessions[i], made[sessions[i]])
    /\ UNCHANGED <<sessions, projects>>

\* A page call ends, and the window it kept back may open now.
CallEnds(c) ==
    LET s == callers[c].on
    IN /\ callers[c].pc = "call"
       /\ callers' = [callers EXCEPT ![c] = Over(c)]
       /\ made' = [made EXCEPT ![s] = MaybeReveal([made[s] EXCEPT !.inflight = @ - 1], Live(s))]
       /\ UNCHANGED <<sessions, projects>>

\* endRun, on whichever session the id has by now: the last run of a session
\* waits for the window it kept back.
End(c) ==
    LET s == sessions[callers[c].id]
    IN /\ c \in Runs
       /\ callers[c].pc = "between"
       /\ IF s = 0 THEN callers' = At(c, "ended") /\ UNCHANGED made
          ELSE LET n == IF made[s].runActive = 0 THEN 0 ELSE made[s].runActive - 1
                   m == [made[s] EXCEPT !.runActive = n]
                   r == IF n = 0 THEN MaybeReveal(m, TRUE) ELSE m
                   waits == n = 0 /\ r.wanted /\ r.reveal # "no"
               IN /\ made' = [made EXCEPT ![s] = r]
                  /\ callers' = [callers EXCEPT
                        ![c].pc = IF waits THEN "leaving" ELSE "ended",
                        ![c].on = IF waits THEN s ELSE 0]
       /\ UNCHANGED <<sessions, projects>>

\* A preview closes its browser; a recipe does when nobody will use it again
\* (closeOnFinish).
Leave(c) ==
    LET s == sessions[callers[c].id]
    IN /\ callers[c].pc = "ended"
       /\ \/ /\ s # 0
             /\ Gone(s)
             /\ made' = [made EXCEPT ![s] = Dropped(made[s])]
             /\ callers' = [Woken(s, TRUE) EXCEPT ![c] = Done]
          \/ /\ s = 0 \/ c \in Recipes
             /\ callers' = [callers EXCEPT ![c] = Done]
             /\ UNCHANGED <<sessions, projects, made>>

------------------------------------------------------------------------------
(* What the person and the clock do to a session.                          *)

\* pause, and takeOver: the agent is held, and the window opens now or at the
\* next moment that allows it.
Pause(s) ==
    /\ Live(s)
    /\ made' = [made EXCEPT ![s].paused = TRUE]
    /\ UNCHANGED <<sessions, projects, callers>>

TakeOver(s) ==
    /\ Live(s)
    /\ ~made[s].headed
    /\ made[s].paused => OnPaused
    /\ made' = [made EXCEPT
                   ![s] = MaybeReveal([made[s] EXCEPT !.paused = TRUE, !.wanted = TRUE], TRUE)]
    /\ UNCHANGED <<sessions, projects, callers>>

Resume(s) ==
    /\ Live(s)
    /\ made' = [made EXCEPT ![s] = [made[s] EXCEPT !.paused = FALSE, !.wanted = FALSE,
                                                   !.forced = FALSE, !.wake = Nobody]]
    /\ callers' = Woken(s, FALSE)
    /\ UNCHANGED <<sessions, projects>>

\* The idle timer goes off; a session that is being used only starts it again.
IdleOut(s) == made[s].inflight = 0 /\ made[s].reveal = "no" /\ Close(s)

------------------------------------------------------------------------------

GoOn(c) ==
    \/ LaunchEnds(c) \/ BindEnds(c) \/ Joined(c)
    \/ Step(c) \/ Capture(c) \/ CallEnds(c) \/ End(c) \/ Leave(c)

Next ==
    \/ \E c \in Callers : GoOn(c)
    \/ \E c \in Callers, i \in Ids :
          View(c, i) \/ \E p \in Projects, headed \in BOOLEAN : Open(c, i, p, headed)
    \/ \E s \in DOMAIN made :
          Reveal(s) \/ Close(s) \/ Pause(s) \/ TakeOver(s) \/ Resume(s) \/ IdleOut(s)

Spec == Init /\ [][Next]_vars

\* Page calls have time limits, a launch and a close end, and what waits for
\* them goes on; only a held run may wait for its person for ever.
Fairness ==
    /\ \A c \in Callers : WF_vars(GoOn(c))
    /\ \A s \in 1 .. MaxOpens : WF_vars(s \in DOMAIN made /\ Reveal(s))

FairSpec == Spec /\ Fairness

------------------------------------------------------------------------------
(* What people, runs and browsers may rely on.                             *)

\* No Chromium runs that no session would close, and no session that could be
\* used is left with a dead one ("the new window is then a browser nobody
\* owns, so it is closed instead of published", browser.ts).
BrowsersMatchSessions ==
    \A s \in DOMAIN made :
        /\ made[s].context = "on" => Live(s)
        /\ made[s].window = "on" => made[s].reveal = "binding"
        /\ Live(s) /\ made[s].reveal \in {"no", "front"} => made[s].context = "on"

\* A project is reserved exactly while a session of it is registered or being
\* opened, and for that one's id: never two browsers on a profile, never a
\* project busy for ever with nothing to close.
ReservationsMatch ==
    /\ \A s \in DOMAIN made : Live(s) => projects[made[s].project] = made[s].id
    /\ \A p \in Projects :
          projects[p] # Nobody =>
              \/ \E s \in DOMAIN made : Live(s) /\ made[s].project = p
              \/ \E c \in Callers :
                    /\ callers[c].pc \in {"launching", "binding"}
                    /\ callers[c].project = p /\ callers[c].id = projects[p]

\* A Chromium is not replaced under a page call ("A reveal must not race a
\* page call", browser.ts).
CallsAreSpared ==
    \A s \in DOMAIN made :
        made[s].reveal # "no" => Awaiting(s, "call") = {}

\* A run is held only by a session that is open and paused, and by one that
\* will wake it ("so a resume or an abort is not swallowed", browser.ts).
HeldRunsAreWoken ==
    \A c \in Callers :
        callers[c].pc = "held" =>
            LET s == callers[c].on IN Live(s) /\ made[s].paused /\ made[s].wake = c

\* A window that was asked for opens, unless the person lets the agent go on
\* or the session ends.
Wanted(s) == s \in DOMAIN made /\ Live(s) /\ made[s].wanted

TakeoverIsHeard == \A s \in 1 .. MaxOpens : Wanted(s) ~> ~Wanted(s)
=============================================================================
