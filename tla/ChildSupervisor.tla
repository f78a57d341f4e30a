---------------------------- MODULE ChildSupervisor ----------------------------
(***************************************************************************)
(* The engine a FlupCode host keeps alive: the supervisor                  *)
(* (packages/remote/src/supervisor.ts) under the desktop's callers of it   *)
(* (packages/harness-desktop/src/main/server.ts), over host processes that *)
(* crash and are launched again.                                           *)
(*                                                                         *)
(* A supervisor is an object of one host's life: stopping the engine drops *)
(* it and the next start makes another, while what the old one awaits goes *)
(* on.  Only the processes, the port and the pid file outlive the host.    *)
(* Processes are numbered in the order they are spawned; a command that    *)
(* cannot be spawned is a child that dies at once.  Time is left out: any  *)
(* wait that has a limit may reach it.  The exit of a process the host     *)
(* killed is taken to be heard before the next engine is started, several  *)
(* requests later.                                                         *)
(***************************************************************************)
EXTENDS Naturals, FiniteSets

CONSTANTS
    MaxRestarts,         \* maxRestarts
    MaxProcs,            \* bound: processes spawned in all
    MaxSups,             \* bound: supervisors one host makes
    MaxCrashes,          \* bound: hosts that die or quit
    ClicksWhileStopping  \* whether the banner's Restart may be used during a stop

ASSUME SupervisorAssumption ==
    /\ {MaxRestarts, MaxProcs, MaxSups, MaxCrashes} \subseteq Nat
    /\ ClicksWhileStopping \in BOOLEAN

Procs == 1 .. MaxProcs
Sups  == 1 .. MaxSups

VARIABLES
    os,       \* each process: "unused", "alive", "told" once it was signalled, "dead"
    port,     \* the process that listens on the engine's port, 0 when it is free
    pidFile,  \* the process the pid file names, 0 without one
    launch,   \* what this host awaits of each process, and for which supervisor
    sups,     \* the supervisors this host made
    engine,   \* the last of them, 0 for none
    app,      \* where the host's start or stop of the engine is
    spared,   \* the live processes reapOrphan found recorded and left alone
    streak,   \* each supervisor's spawns since it was started or a child ran steadily
    crashes   \* the hosts that are gone

vars == <<os, port, pidFile, launch, sups, engine, app, spared, streak, crashes>>

Nothing == [sup |-> 0, by |-> "start", at |-> "over", steady |-> FALSE]
Fresh   == [child |-> 0, phase |-> "stopped", stopping |-> FALSE,
            restarts |-> 0, timer |-> FALSE]

TypeOK ==
    /\ os \in [Procs -> {"unused", "alive", "told", "dead"}]
    /\ port \in Procs \cup {0}
    /\ pidFile \in Procs \cup {0}
    /\ launch \in [Procs -> [sup : Sups \cup {0}, by : {"start", "restart"},
                             at : {"racing", "watched", "over"}, steady : BOOLEAN]]
    /\ sups \in [Sups -> [child : Procs \cup {0},
                          phase : {"starting", "running", "restarting", "failed", "stopped"},
                          stopping : BOOLEAN, restarts : 0 .. MaxRestarts, timer : BOOLEAN]]
    /\ engine \in Sups \cup {0}
    /\ app \in {"down", "reap", "reaping", "check", "on", "stopping", "gone"}
    /\ spared \subseteq Procs
    /\ streak \in [Sups -> Nat]
    /\ crashes \in 0 .. MaxCrashes

Init ==
    /\ os = [p \in Procs |-> "unused"]
    /\ port = 0
    /\ pidFile = 0
    /\ launch = [p \in Procs |-> Nothing]
    /\ sups = [g \in Sups |-> Fresh]
    /\ engine = 0
    /\ app = "down"
    /\ spared = {}
    /\ streak = [g \in Sups |-> 0]
    /\ crashes = 0

Running(p) == os[p] \in {"alive", "told"}

\* A signal no process can refuse.
Killed(p) ==
    /\ os' = IF Running(p) THEN [os EXCEPT ![p] = "dead"] ELSE os
    /\ port' = IF port = p THEN 0 ELSE port

\* The next process, spawned for supervisor g, which is then s: it is the
\* child, the pid file names it, and its first answer is awaited.
Spawn(g, by, s, count) ==
    \E p \in Procs :
        /\ os[p] = "unused"
        /\ \A q \in Procs : q < p => os[q] # "unused"
        /\ os' = [os EXCEPT ![p] = "alive"]
        /\ pidFile' = p
        /\ launch' = [launch EXCEPT ![p] = [sup |-> g, by |-> by, at |-> "racing", steady |-> FALSE]]
        /\ sups' = [sups EXCEPT ![g] = [s EXCEPT !.child = p]]
        /\ streak' = [streak EXCEPT ![g] = count]
        /\ UNCHANGED port

\* start(), when no child is there.
Started(g) ==
    Spawn(g, "start", [Fresh EXCEPT !.phase = "starting"], 1)

\* A pause that is not counted (a mutant).
Again_uncounted(s, restarts) ==
    IF restarts >= MaxRestarts
    THEN [s EXCEPT !.phase = "failed"]
    ELSE [s EXCEPT !.phase = "restarting", !.restarts = restarts, !.timer = TRUE]

\* restart(): another attempt after a pause, or the end of them.
Again(s, restarts) ==
    IF restarts >= MaxRestarts
    THEN [s EXCEPT !.phase = "failed"]
    ELSE [s EXCEPT !.phase = "restarting", !.restarts = restarts + 1, !.timer = TRUE]

\* A restart that fails is not tried again (a mutant).
Failed_silent(g, by) ==
    LET s == [sups[g] EXCEPT !.child = 0] IN
    /\ pidFile' = 0
    /\ sups' = [sups EXCEPT ![g] =
                  IF by = "start" THEN [s EXCEPT !.phase = "failed"] ELSE s]

\* A launch that came to nothing leaves no child and no record, whoever the
\* child is by then; the first one gives up, a restart tries again unless
\* the supervisor was stopped.
Failed(g, by) ==
    LET s == [sups[g] EXCEPT !.child = 0] IN
    /\ pidFile' = 0
    /\ sups' = [sups EXCEPT ![g] =
                  CASE by = "start" -> [s EXCEPT !.phase = "failed"]
                    [] by = "restart" /\ ~s.stopping -> Again(s, s.restarts)
                    [] OTHER -> s]

Over(p) == launch' = [launch EXCEPT ![p].at = "over"]

-----------------------------------------------------------------------------
(* A child.                                                                *)

\* It listens, when the port is free.
Listens(p) ==
    /\ os[p] = "alive"
    /\ port = 0
    /\ port' = p
    /\ UNCHANGED <<os, pidFile, launch, sups, engine, app, spared, streak, crashes>>

\* It stops, by itself or as it was told.
Dies(p) ==
    /\ Running(p)
    /\ Killed(p)
    /\ UNCHANGED <<pidFile, launch, sups, engine, app, spared, streak, crashes>>

\* It has run for longer than the window in which restarts count.
RunsSteadily(p) ==
    /\ os[p] = "alive"
    /\ launch[p].at = "watched"
    /\ ~launch[p].steady
    /\ launch' = [launch EXCEPT ![p].steady = TRUE]
    /\ UNCHANGED <<os, port, pidFile, sups, engine, app, spared, streak, crashes>>

-----------------------------------------------------------------------------
(* The supervisor.                                                         *)

\* An engine of this host's answers where the child should: ready.
Answers == port # 0 /\ launch[port].sup # 0

\* The race of a launch ends with an answer.  Its child may have been given
\* up meanwhile: it is killed.
Ready(p) ==
    LET g == launch[p].sup IN
    /\ launch[p].at = "racing"
    /\ Answers
    /\ IF sups[g].child = p
       THEN /\ launch' = [launch EXCEPT ![p].at = "watched"]
            /\ sups' = [sups EXCEPT ![g].phase = "running"]
            /\ UNCHANGED <<os, port, pidFile>>
       ELSE /\ Failed(g, launch[p].by)
            /\ Killed(p)
            /\ Over(p)
    /\ UNCHANGED <<engine, app, spared, streak, crashes>>

\* A child that never answers is left to run (a mutant).
TimesOut_left(p) ==
    /\ launch[p].at = "racing"
    /\ Failed(launch[p].sup, launch[p].by)
    /\ Over(p)
    /\ UNCHANGED <<os, port, engine, app, spared, streak, crashes>>

\* It ends because the child never answered in time.
TimesOut(p) ==
    /\ launch[p].at = "racing"
    /\ Failed(launch[p].sup, launch[p].by)
    /\ Killed(p)
    /\ Over(p)
    /\ UNCHANGED <<engine, app, spared, streak, crashes>>

\* It ends with the child's exit.
ExitsAtOnce(p) ==
    /\ launch[p].at = "racing"
    /\ os[p] = "dead"
    /\ Failed(launch[p].sup, launch[p].by)
    /\ Over(p)
    /\ UNCHANGED <<os, port, engine, app, spared, streak, crashes>>

\* onExit: a child that had answered is gone.
Exits(p) ==
    LET g == launch[p].sup
        s == sups[g] IN
    /\ launch[p].at = "watched"
    /\ os[p] = "dead"
    /\ Over(p)
    /\ IF s.stopping \/ s.child # p
       THEN UNCHANGED <<sups, pidFile, streak>>
       ELSE /\ sups' = [sups EXCEPT ![g] =
                          Again([s EXCEPT !.child = 0],
                                IF launch[p].steady THEN 0 ELSE s.restarts)]
            /\ streak' = IF launch[p].steady THEN [streak EXCEPT ![g] = 0] ELSE streak
            /\ pidFile' = 0
    /\ UNCHANGED <<os, port, engine, app, spared, crashes>>

\* The pause before a restart is over.
Restarts(g) ==
    /\ app # "down"
    /\ sups[g].timer
    /\ IF sups[g].stopping
       THEN /\ sups' = [sups EXCEPT ![g].timer = FALSE]
            /\ UNCHANGED <<os, port, pidFile, launch, streak>>
       ELSE Spawn(g, "restart", [sups[g] EXCEPT !.timer = FALSE], streak[g] + 1)
    /\ UNCHANGED <<engine, app, spared, crashes>>

\* The synchronous part of stop(): a child that has not ended is signalled.
Stops(g) ==
    LET p == sups[g].child IN
    /\ sups' = [sups EXCEPT ![g] = [@ EXCEPT !.stopping = TRUE, !.timer = FALSE,
                                             !.child = 0, !.phase = "stopped"]]
    /\ pidFile' = 0
    /\ os' = IF p # 0 /\ os[p] = "alive" THEN [os EXCEPT ![p] = "told"] ELSE os

-----------------------------------------------------------------------------
(* The host.                                                               *)

\* It is launched.
Opens ==
    /\ app = "down"
    /\ app' = "reap"
    /\ UNCHANGED <<os, port, pidFile, launch, sups, engine, spared, streak, crashes>>

\* reapOrphan: a process the pid file names is signalled if an engine
\* answers, and left alone with no record if none does.
Reaps ==
    /\ app = "reap"
    /\ IF pidFile # 0 /\ Running(pidFile) /\ port # 0
       THEN /\ os' = [os EXCEPT ![pidFile] = "told"]
            /\ app' = "reaping"
            /\ UNCHANGED <<pidFile, spared>>
       ELSE /\ spared' = IF pidFile # 0 /\ os[pidFile] = "alive"
                         THEN spared \cup {pidFile} ELSE spared
            /\ pidFile' = 0
            /\ app' = "check"
            /\ UNCHANGED os
    /\ UNCHANGED <<port, launch, sups, engine, streak, crashes>>

\* It is gone, or it is killed after the wait.
Reaped ==
    /\ app = "reaping"
    /\ Killed(pidFile)
    /\ pidFile' = 0
    /\ app' = "check"
    /\ UNCHANGED <<launch, sups, engine, spared, streak, crashes>>

\* A port that is taken: no engine is started.
PortTaken ==
    /\ app = "check"
    /\ port # 0
    /\ app' = "gone"
    /\ UNCHANGED <<os, port, pidFile, launch, sups, engine, spared, streak, crashes>>

\* A new supervisor, started.
Begins ==
    /\ app = "check"
    /\ port = 0
    /\ \A p \in Procs : launch[p].at # "over" => os[p] # "dead"
    /\ engine < MaxSups
    /\ engine' = engine + 1
    /\ Started(engine + 1)
    /\ app' = "on"
    /\ UNCHANGED <<spared, crashes>>

\* "Restart", on the banner of an engine that was given up on.
Retries ==
    /\ engine # 0
    /\ app = "on" \/ (ClicksWhileStopping /\ app = "stopping")
    /\ sups[engine].phase = "failed"
    /\ IF sups[engine].child # 0
       THEN UNCHANGED <<os, port, pidFile, launch, sups, streak>>
       ELSE Started(engine)
    /\ UNCHANGED <<engine, app, spared, crashes>>

\* stopEngine, for work on the engine's data; ensureServer follows.
StopsEngine ==
    /\ app = "on"
    /\ engine < MaxSups
    /\ Stops(engine)
    /\ app' = "stopping"
    /\ UNCHANGED <<port, launch, engine, spared, streak, crashes>>

\* It returns when the child is gone, killed after the wait if it must be.
StopReturns ==
    /\ app = "stopping"
    /\ LET waited == {p \in Procs : launch[p].sup = engine /\ os[p] = "told"} IN
       /\ os' = [p \in Procs |-> IF p \in waited THEN "dead" ELSE os[p]]
       /\ port' = IF port \in waited THEN 0 ELSE port
    /\ app' = "reap"
    /\ UNCHANGED <<pidFile, launch, sups, engine, spared, streak, crashes>>

\* The host is gone, and all it held in memory.
Forgets ==
    /\ launch' = [p \in Procs |-> Nothing]
    /\ sups' = [g \in Sups |-> Fresh]
    /\ engine' = 0
    /\ app' = "down"
    /\ streak' = [g \in Sups |-> 0]
    /\ crashes' = crashes + 1

Crashes ==
    /\ app # "down"
    /\ crashes < MaxCrashes
    /\ Forgets
    /\ UNCHANGED <<os, port, pidFile, spared>>

\* stopServer: it quits, and waits for nothing.
Quits ==
    /\ app \in {"on", "stopping"}
    /\ crashes < MaxCrashes
    /\ LET p == sups[engine].child IN
       os' = IF p # 0 /\ os[p] = "alive" THEN [os EXCEPT ![p] = "told"] ELSE os
    /\ pidFile' = 0
    /\ Forgets
    /\ UNCHANGED <<port, spared>>

-----------------------------------------------------------------------------
LaunchEnds(p) == Ready(p) \/ TimesOut(p) \/ ExitsAtOnce(p)

Next ==
    \/ \E p \in Procs :
          Listens(p) \/ Dies(p) \/ RunsSteadily(p) \/ LaunchEnds(p) \/ Exits(p)
    \/ \E g \in Sups : Restarts(g)
    \/ Opens \/ Reaps \/ Reaped \/ PortTaken \/ Begins
    \/ Retries \/ StopsEngine \/ StopReturns \/ Crashes \/ Quits

Spec == Init /\ [][Next]_vars

\* Timers fire, awaited exits and answers come; nothing makes a person act,
\* a child fail or a host run.
FairSpec ==
    /\ Spec
    /\ \A p \in Procs : WF_vars(LaunchEnds(p)) /\ WF_vars(Exits(p))
    /\ \A g \in Sups : WF_vars(Restarts(g))

-----------------------------------------------------------------------------
(* Properties.                                                             *)

\* A child that runs and was not told to stop is the one the pid file names,
\* so that the next host finds it and no second one runs beside it: through
\* launches given up, stops in the middle of them, restarts, and hosts that
\* crash.  Only a child reapOrphan found without an answer is neither.
EveryChildIsRecorded ==
    \A p \in Procs : os[p] = "alive" /\ p \notin spared => pidFile = p

\* A child that keeps stopping before it has run steadily is started
\* maxRestarts times again and no more, whether it stops before it answers,
\* after, or some times each.
RestartsAreCounted == \A g \in Sups : streak[g] <= MaxRestarts + 1

\* A child that is awaited, paused for or gone without the supervisor's
\* knowledge: it answers, or is given up on or stopped, in the end.
Unsettled(g) ==
    LET s == sups[g] IN
    \/ s.phase \in {"starting", "restarting"}
    \/ s.phase = "running" /\ os[s.child] = "dead"

AnswersOrGivesUp ==
    \A g \in Sups : Unsettled(g) ~> (~Unsettled(g) \/ os[MaxProcs] # "unused")

==============================================================================
