--------------------------- MODULE SupervisorProofs ---------------------------
(***************************************************************************)
(* What the supervisor promises of its child, proved for every number of   *)
(* processes, supervisors, restarts and hosts that crash.                  *)
(***************************************************************************)
EXTENDS ChildSupervisor, TLAPS

Sup    == [child : Procs \cup {0}, phase : {"starting", "running", "restarting", "failed", "stopped"},
           stopping : BOOLEAN, restarts : 0 .. MaxRestarts, timer : BOOLEAN]
Launch == [sup : Sups \cup {0}, by : {"start", "restart"}, at : {"racing", "watched", "over"},
           steady : BOOLEAN]
States == {"unused", "alive", "told", "dead"}

(***************************************************************************)
(* The count of restarts bounds the spawns: one more spawn than restarts   *)
(* counted, none more while the next is paused for.                        *)
(***************************************************************************)
Counted(g) == /\ streak[g] <= sups[g].restarts + 1
              /\ sups[g].timer => streak[g] <= sups[g].restarts

\* What is awaited of a process is awaited for a supervisor.
Owned == \A p \in Procs : launch[p].at # "over" => launch[p].sup \in Sups

Counts == TypeOK /\ Owned /\ \A g \in Sups : Counted(g)
------------------------------------------------------------------------------
(* Types and counts.                                                       *)

LEMMA TypesAre ==
    ASSUME TypeOK
    PROVE  /\ os \in [Procs -> States] /\ launch \in [Procs -> Launch] /\ sups \in [Sups -> Sup]
           /\ port \in Procs \cup {0} /\ pidFile \in Procs \cup {0} /\ engine \in Sups \cup {0}
           /\ spared \subseteq Procs /\ streak \in [Sups -> Nat] /\ crashes \in 0 .. MaxCrashes
           /\ Procs \subseteq Nat \ {0} /\ Sups \subseteq Nat \ {0} /\ MaxRestarts \in Nat
           /\ MaxCrashes \in Nat
           /\ app \in {"down", "reap", "reaping", "check", "on", "stopping", "gone"}
BY SupervisorAssumption DEF TypeOK, States, Launch, Sup, Procs, Sups

LEMMA FreshIs ==
    Fresh \in Sup /\ Nothing \in Launch
<1>1. 0 \in 0 .. MaxRestarts
  BY SupervisorAssumption
<1> QED BY <1>1 DEF Fresh, Nothing, Sup, Launch

LEMMA AgainIs ==
    ASSUME NEW s \in Sup, NEW r \in 0 .. MaxRestarts
    PROVE  /\ Again(s, r) \in Sup
           /\ Again(s, r).child = s.child /\ Again(s, r).stopping = s.stopping
           /\ \/ /\ Again(s, r).phase = "failed" /\ Again(s, r).timer = s.timer
                 /\ Again(s, r).restarts = s.restarts
              \/ /\ Again(s, r).phase = "restarting" /\ Again(s, r).restarts = r + 1
                 /\ r < MaxRestarts
<1>1. CASE r >= MaxRestarts
  BY <1>1 DEF Again, Sup
<1>2. CASE ~(r >= MaxRestarts)
  <2>1. r + 1 \in 0 .. MaxRestarts /\ r < MaxRestarts
    BY <1>2, SupervisorAssumption
  <2> QED BY <1>2, <2>1 DEF Again, Sup
<1> QED BY <1>1, <1>2

\* A launch that came to nothing leaves its supervisor without a child, given
\* up, paused, or as it was when it was stopped.
LEMMA FailedIs ==
    ASSUME TypeOK, NEW g \in Sups, NEW by, Failed(g, by)
    PROVE  /\ pidFile' = 0 /\ sups' \in [Sups -> Sup]
           /\ \A h \in Sups : h # g => sups'[h] = sups[h]
           /\ sups'[g].child = 0 /\ sups'[g].stopping = sups[g].stopping
           /\ \/ /\ sups'[g].restarts = sups[g].restarts /\ sups'[g].timer = sups[g].timer
                 /\ sups'[g].phase = "failed" \/ sups[g].stopping \/ by \notin {"start", "restart"}
              \/ /\ sups'[g].restarts = sups[g].restarts + 1 /\ sups'[g].phase = "restarting"
                 /\ ~sups[g].stopping
<1> DEFINE s == [sups[g] EXCEPT !.child = 0]
<1>1. /\ s \in Sup /\ s.child = 0 /\ s.stopping = sups[g].stopping /\ s.timer = sups[g].timer
      /\ s.restarts = sups[g].restarts /\ s.restarts \in 0 .. MaxRestarts
  BY TypesAre DEF Sup
<1>2. /\ [s EXCEPT !.phase = "failed"] \in Sup /\ [s EXCEPT !.phase = "failed"].phase = "failed"
      /\ [s EXCEPT !.phase = "failed"].child = 0
      /\ [s EXCEPT !.phase = "failed"].stopping = sups[g].stopping
      /\ [s EXCEPT !.phase = "failed"].timer = sups[g].timer
      /\ [s EXCEPT !.phase = "failed"].restarts = sups[g].restarts
  BY <1>1 DEF Sup
<1>3. /\ pidFile' = 0
      /\ sups' = [sups EXCEPT ![g] =
                    CASE by = "start" -> [s EXCEPT !.phase = "failed"]
                      [] by = "restart" /\ ~s.stopping -> Again(s, s.restarts)
                      [] OTHER -> s]
  BY DEF Failed
<1> HIDE DEF s
<1>4. PICK t : /\ sups' = [sups EXCEPT ![g] = t]
               /\ \/ t = [s EXCEPT !.phase = "failed"]
                  \/ ~s.stopping /\ t = Again(s, s.restarts)
                  \/ t = s /\ (s.stopping \/ by \notin {"start", "restart"})
  BY <1>3
<1>5. /\ t \in Sup /\ t.child = 0 /\ t.stopping = sups[g].stopping
      /\ \/ /\ t.restarts = sups[g].restarts /\ t.timer = sups[g].timer
            /\ t.phase = "failed" \/ sups[g].stopping \/ by \notin {"start", "restart"}
         \/ /\ t.restarts = sups[g].restarts + 1 /\ t.phase = "restarting"
            /\ ~sups[g].stopping
  <2>1. CASE t = [s EXCEPT !.phase = "failed"]
    BY <1>1, <1>2, <2>1
  <2>2. CASE ~s.stopping /\ t = Again(s, s.restarts)
    <3>1. /\ Again(s, s.restarts) \in Sup
          /\ Again(s, s.restarts).child = s.child /\ Again(s, s.restarts).stopping = s.stopping
          /\ \/ /\ Again(s, s.restarts).phase = "failed" /\ Again(s, s.restarts).timer = s.timer
                /\ Again(s, s.restarts).restarts = s.restarts
             \/ /\ Again(s, s.restarts).phase = "restarting"
                /\ Again(s, s.restarts).restarts = s.restarts + 1
      BY <1>1, AgainIs
    <3> QED BY <1>1, <2>2, <3>1
  <2>3. CASE t = s /\ (s.stopping \/ by \notin {"start", "restart"})
    BY <1>1, <2>3
  <2> QED BY <1>4, <2>1, <2>2, <2>3
<1> QED BY <1>3, <1>4, <1>5, TypesAre

\* A process that is spawned is the child of its supervisor and on record.
LEMMA SpawnIs ==
    ASSUME TypeOK, NEW g \in Sups, NEW by \in {"start", "restart"}, NEW s \in Sup, NEW count \in Nat,
           Spawn(g, by, s, count)
    PROVE  \E p \in Procs :
              /\ os[p] = "unused" /\ os' \in [Procs -> States] /\ os'[p] = "alive"
              /\ \A q \in Procs : q # p => os'[q] = os[q]
              /\ pidFile' = p /\ port' = port
              /\ launch' \in [Procs -> Launch] /\ launch'[p].sup = g /\ launch'[p].at = "racing"
              /\ \A q \in Procs : q # p => launch'[q] = launch[q]
              /\ sups' \in [Sups -> Sup] /\ sups'[g] = [s EXCEPT !.child = p]
              /\ \A h \in Sups : h # g => sups'[h] = sups[h]
              /\ streak' \in [Sups -> Nat] /\ streak'[g] = count
              /\ \A h \in Sups : h # g => streak'[h] = streak[h]
<1>1. PICK p \in Procs :
         /\ os[p] = "unused"
         /\ os' = [os EXCEPT ![p] = "alive"]
         /\ pidFile' = p /\ port' = port
         /\ launch' = [launch EXCEPT ![p] = [sup |-> g, by |-> by, at |-> "racing", steady |-> FALSE]]
         /\ sups' = [sups EXCEPT ![g] = [s EXCEPT !.child = p]]
         /\ streak' = [streak EXCEPT ![g] = count]
  BY DEF Spawn
<1>2. [sup |-> g, by |-> by, at |-> "racing", steady |-> FALSE] \in Launch
  BY DEF Launch
<1>3. [s EXCEPT !.child = p] \in Sup
  BY DEF Sup
<1>4. os' \in [Procs -> States] /\ os'[p] = "alive" /\ \A q \in Procs : q # p => os'[q] = os[q]
  BY <1>1, TypesAre DEF States
<1>5. /\ launch' \in [Procs -> Launch] /\ launch'[p].sup = g /\ launch'[p].at = "racing"
      /\ \A q \in Procs : q # p => launch'[q] = launch[q]
  BY <1>1, <1>2, TypesAre
<1>6. /\ sups' \in [Sups -> Sup] /\ sups'[g] = [s EXCEPT !.child = p]
      /\ \A h \in Sups : h # g => sups'[h] = sups[h]
  BY <1>1, <1>3, TypesAre
<1>7. /\ streak' \in [Sups -> Nat] /\ streak'[g] = count
      /\ \A h \in Sups : h # g => streak'[h] = streak[h]
  BY <1>1, TypesAre
<1> QED BY <1>1, <1>4, <1>5, <1>6, <1>7

LEMMA KilledIs ==
    ASSUME TypeOK, NEW p \in Procs, Killed(p)
    PROVE  /\ os' \in [Procs -> States] /\ os'[p] \in {"unused", "dead"}
           /\ \A q \in Procs : q # p => os'[q] = os[q]
           /\ port' \in {port, 0}
BY TypesAre DEF Killed, Running, States

LEMMA OverIs ==
    ASSUME TypeOK, NEW p \in Procs, Over(p)
    PROVE  /\ launch' \in [Procs -> Launch] /\ launch'[p].at = "over"
           /\ \A q \in Procs : q # p => launch'[q] = launch[q]
<1>1. [launch[p] EXCEPT !.at = "over"] \in Launch
  BY TypesAre DEF Launch
<1>2. launch' = [launch EXCEPT ![p] = [launch[p] EXCEPT !.at = "over"]]
  BY DEF Over
<1>3. launch[p] \in Launch
  BY TypesAre
<1> QED BY <1>1, <1>2, <1>3, TypesAre DEF Launch

\* stop() leaves a supervisor with nothing to come.
LEMMA StopsIs ==
    ASSUME TypeOK, NEW g \in Sups, Stops(g)
    PROVE  /\ sups' \in [Sups -> Sup]
           /\ sups'[g].stopping /\ ~sups'[g].timer /\ sups'[g].child = 0
           /\ sups'[g].restarts = sups[g].restarts
           /\ \A h \in Sups : h # g => sups'[h] = sups[h]
           /\ pidFile' = 0 /\ os' \in [Procs -> States]
           /\ \A q \in Procs : os'[q] = os[q] \/ (os'[q] = "told" /\ q = sups[g].child)
           /\ \A q \in Procs : os'[q] = "alive" => q # sups[g].child
<1> DEFINE s == [sups[g] EXCEPT !.stopping = TRUE, !.timer = FALSE, !.child = 0, !.phase = "stopped"]
<1>1. /\ s \in Sup /\ s.stopping /\ ~s.timer /\ s.child = 0 /\ s.restarts = sups[g].restarts
  BY TypesAre DEF Sup
<1>2. sups' = [sups EXCEPT ![g] = s] /\ pidFile' = 0
      /\ os' = IF sups[g].child # 0 /\ os[sups[g].child] = "alive"
               THEN [os EXCEPT ![sups[g].child] = "told"] ELSE os
  BY DEF Stops
<1>3. sups[g].child \in Procs \cup {0}
  BY TypesAre DEF Sup
<1> HIDE DEF s
<1>4. sups' \in [Sups -> Sup] /\ sups'[g] = s /\ \A h \in Sups : h # g => sups'[h] = sups[h]
  BY <1>1, <1>2, TypesAre
<1>5. 0 \notin Procs
  BY TypesAre
<1>6. /\ os' \in [Procs -> States]
      /\ \A q \in Procs : os'[q] = os[q] \/ (os'[q] = "told" /\ q = sups[g].child)
      /\ \A q \in Procs : os'[q] = "alive" => q # sups[g].child
  BY <1>2, <1>3, <1>5, TypesAre DEF States
<1> QED BY <1>1, <1>2, <1>4, <1>6
------------------------------------------------------------------------------
(* The proof that restarts are counted, step by step.                      *)

\* What a step does to one supervisor, for the count to stand.
LEMMA CountHolds ==
    ASSUME Counts, TypeOK', Owned',
           \A g \in Sups :
              \/ streak'[g] \in {0, streak[g]} /\ sups'[g].restarts = sups[g].restarts
                 /\ (sups'[g].timer => sups[g].timer)
              \/ streak'[g] \in {0, streak[g]} /\ sups'[g].restarts = sups[g].restarts + 1
              \/ streak'[g] = 0
              \/ streak'[g] = 1 /\ ~sups'[g].timer
              \/ /\ streak'[g] = streak[g] + 1 /\ sups'[g].restarts = sups[g].restarts
                 /\ sups[g].timer /\ ~sups'[g].timer
    PROVE  Counts'
<1> SUFFICES ASSUME NEW g \in Sups PROVE Counted(g)'
  BY DEF Counts
<1>1. /\ streak[g] \in Nat /\ sups[g].restarts \in Nat /\ sups'[g].restarts \in Nat
      /\ sups[g].timer \in BOOLEAN /\ sups'[g].timer \in BOOLEAN
  BY TypesAre, SupervisorAssumption DEF Counts, TypeOK, Sup
<1>2. Counted(g)
  BY DEF Counts
<1> QED BY <1>1, <1>2 DEF Counted

LEMMA TypesBack ==
    ASSUME os' \in [Procs -> States], launch' \in [Procs -> Launch], sups' \in [Sups -> Sup],
           port' \in Procs \cup {0}, pidFile' \in Procs \cup {0}, engine' \in Sups \cup {0},
           app' \in {"down", "reap", "reaping", "check", "on", "stopping", "gone"},
           spared' \subseteq Procs, streak' \in [Sups -> Nat], crashes' \in 0 .. MaxCrashes
    PROVE  TypeOK'
BY DEF TypeOK, States, Launch, Sup

\* A new spawn for a supervisor that starts over.
LEMMA StartedIs ==
    ASSUME TypeOK, NEW g \in Sups, Started(g)
    PROVE  \E p \in Procs :
              /\ os[p] = "unused" /\ os' \in [Procs -> States] /\ os'[p] = "alive"
              /\ \A q \in Procs : q # p => os'[q] = os[q]
              /\ pidFile' = p /\ port' = port
              /\ launch' \in [Procs -> Launch] /\ launch'[p].sup = g /\ launch'[p].at = "racing"
              /\ \A q \in Procs : q # p => launch'[q] = launch[q]
              /\ sups' \in [Sups -> Sup] /\ sups'[g].child = p /\ sups'[g].phase = "starting"
              /\ ~sups'[g].stopping /\ ~sups'[g].timer
              /\ \A h \in Sups : h # g => sups'[h] = sups[h]
              /\ streak' \in [Sups -> Nat] /\ streak'[g] = 1
              /\ \A h \in Sups : h # g => streak'[h] = streak[h]
<1> DEFINE s == [Fresh EXCEPT !.phase = "starting"]
<1>1. s \in Sup /\ s.phase = "starting" /\ ~s.stopping /\ ~s.timer
  BY FreshIs DEF Fresh, Sup
<1>2. Spawn(g, "start", s, 1)
  BY DEF Started
<1> HIDE DEF s
<1>3. PICK p \in Procs :
         /\ os[p] = "unused" /\ os' \in [Procs -> States] /\ os'[p] = "alive"
         /\ \A q \in Procs : q # p => os'[q] = os[q]
         /\ pidFile' = p /\ port' = port
         /\ launch' \in [Procs -> Launch] /\ launch'[p].sup = g /\ launch'[p].at = "racing"
         /\ \A q \in Procs : q # p => launch'[q] = launch[q]
         /\ sups' \in [Sups -> Sup] /\ sups'[g] = [s EXCEPT !.child = p]
         /\ \A h \in Sups : h # g => sups'[h] = sups[h]
         /\ streak' \in [Sups -> Nat] /\ streak'[g] = 1
         /\ \A h \in Sups : h # g => streak'[h] = streak[h]
  BY <1>1, <1>2, SpawnIs
<1>4. /\ sups'[g].child = p /\ sups'[g].phase = "starting"
      /\ ~sups'[g].stopping /\ ~sups'[g].timer
  BY <1>1, <1>3 DEF Sup
<1> QED BY <1>3, <1>4

\* An engine that is on has a supervisor.
Present == app \in {"on", "stopping"} => engine # 0

LEMMA Presence ==
    /\ Init => Present
    /\ TypeOK /\ Present /\ [Next]_vars => Present'
<1>1. Init => Present
  BY DEF Init, Present
<1>2. ASSUME TypeOK, Present, [Next]_vars
      PROVE  Present'
  <2>1. \/ UNCHANGED <<app, engine>>
        \/ app' \in {"reap", "reaping", "check", "gone", "down"}
        \/ app' = "on" /\ engine' = engine + 1
        \/ app' = "stopping" /\ app = "on" /\ engine' = engine
    BY <1>2 DEF Next, Listens, Dies, RunsSteadily, LaunchEnds, Ready, TimesOut, ExitsAtOnce, Exits,
                Restarts, Opens, Reaps, Reaped, PortTaken, Begins, Retries, StopsEngine, StopReturns,
                Crashes, Quits, Forgets, vars
  <2>2. engine \in Nat
    BY <1>2, TypesAre
  <2> QED BY <1>2, <2>1, <2>2 DEF Present
<1> QED BY <1>1, <1>2

LEMMA CountedAtFirst ==
    Init => Counts
<1> SUFFICES ASSUME Init PROVE Counts
  OBVIOUS
<1>1. Fresh \in Sup /\ Nothing \in Launch /\ 0 \in 0 .. MaxCrashes
  BY FreshIs, SupervisorAssumption
<1>2. TypeOK
  BY <1>1 DEF Init, TypeOK, Sup, Launch
<1>3. \A g \in Sups : Counted(g)
  BY DEF Init, Counted, Fresh
<1>4. Owned
  BY DEF Init, Owned, Nothing
<1> QED BY <1>2, <1>3, <1>4 DEF Counts

LEMMA ChildSteps ==
    ASSUME Counts, NEW p \in Procs, Listens(p) \/ Dies(p) \/ RunsSteadily(p)
    PROVE  Counts'
<1>0. TypeOK
  BY DEF Counts
<1>1. TypeOK'
  <2>1. CASE Listens(p)
    BY <1>0, <2>1, TypesAre, TypesBack DEF Listens
  <2>2. CASE Dies(p)
    BY <1>0, <2>2, TypesAre, KilledIs, TypesBack DEF Dies
  <2>3. CASE RunsSteadily(p)
    <3>0. launch[p] \in Launch
      BY <1>0, TypesAre
    <3>1. [launch[p] EXCEPT !.steady = TRUE] \in Launch
      BY <3>0 DEF Launch
    <3>2. launch' = [launch EXCEPT ![p] = [launch[p] EXCEPT !.steady = TRUE]]
      BY <2>3 DEF RunsSteadily
    <3>3. launch' \in [Procs -> Launch]
      BY <1>0, <3>1, <3>2, TypesAre
    <3> QED BY <1>0, <2>3, <3>3, TypesAre, TypesBack DEF RunsSteadily
  <2> QED BY <2>1, <2>2, <2>3
<1>2. streak' = streak /\ sups' = sups
  BY DEF Listens, Dies, RunsSteadily
<1>3. launch' = launch \/ launch' = [launch EXCEPT ![p].steady = TRUE]
  BY DEF Listens, Dies, RunsSteadily
<1>4. \A q \in Procs : launch'[q].at = launch[q].at /\ launch'[q].sup = launch[q].sup
  BY <1>0, <1>3, TypesAre DEF Launch
<1>5. Owned'
  BY <1>4 DEF Counts, Owned
<1> QED BY <1>1, <1>2, <1>5, CountHolds

\* A launch of supervisor g that comes to nothing is counted or is not tried
\* again.
LEMMA FailureCounts ==
    ASSUME Counts, NEW g \in Sups, NEW by, Failed(g, by), streak' = streak, TypeOK', Owned'
    PROVE  Counts'
<1>0. TypeOK
  BY DEF Counts
<1>1. /\ \A h \in Sups : h # g => sups'[h] = sups[h]
      /\ \/ sups'[g].restarts = sups[g].restarts /\ sups'[g].timer = sups[g].timer
         \/ sups'[g].restarts = sups[g].restarts + 1
  BY <1>0, FailedIs
<1> QED BY <1>1, CountHolds

LEMMA LaunchSteps ==
    ASSUME Counts, NEW p \in Procs, LaunchEnds(p)
    PROVE  Counts'
<1> DEFINE g == launch[p].sup
<1>0. TypeOK
  BY DEF Counts
<1>1. /\ streak' = streak
      /\ UNCHANGED <<engine, app, spared, crashes>>
  BY DEF LaunchEnds, Ready, TimesOut, ExitsAtOnce
<1>a. g \in Sups
  BY DEF LaunchEnds, Ready, TimesOut, ExitsAtOnce, Counts, Owned
<1>2. CASE Failed(g, launch[p].by) /\ Over(p) /\ (Killed(p) \/ UNCHANGED <<os, port>>)
  <2>1. sups' \in [Sups -> Sup] /\ pidFile' = 0
    BY <1>0, <1>a, <1>2, FailedIs
  <2>2. launch' \in [Procs -> Launch] /\ Owned'
    BY <1>0, <1>2, OverIs DEF Counts, Owned
  <2>3. os' \in [Procs -> States] /\ port' \in Procs \cup {0}
    BY <1>0, <1>2, KilledIs, TypesAre
  <2>4. TypeOK'
    BY <1>0, <1>1, <2>1, <2>2, <2>3, TypesAre, TypesBack
  <2> QED BY <1>1, <1>a, <1>2, <2>2, <2>4, FailureCounts
<1>3. CASE /\ launch' = [launch EXCEPT ![p].at = "watched"]
           /\ sups' = [sups EXCEPT ![g].phase = "running"]
           /\ UNCHANGED <<os, port, pidFile>>
  <2>1. launch[p] \in Launch /\ sups[g] \in Sup
    BY <1>0, <1>a, TypesAre
  <2>2. /\ [launch[p] EXCEPT !.at = "watched"] \in Launch
        /\ [launch[p] EXCEPT !.at = "watched"].sup = g
    BY <2>1 DEF Launch
  <2>3. /\ [sups[g] EXCEPT !.phase = "running"] \in Sup
        /\ [sups[g] EXCEPT !.phase = "running"].restarts = sups[g].restarts
        /\ [sups[g] EXCEPT !.phase = "running"].timer = sups[g].timer
    BY <2>1 DEF Sup
  <2>4. /\ launch' = [launch EXCEPT ![p] = [launch[p] EXCEPT !.at = "watched"]]
        /\ sups' = [sups EXCEPT ![g] = [sups[g] EXCEPT !.phase = "running"]]
    BY <1>3
  <2>5. launch' \in [Procs -> Launch] /\ sups' \in [Sups -> Sup] /\ Owned'
    BY <1>0, <1>a, <2>2, <2>3, <2>4, TypesAre DEF Counts, Owned
  <2>6. \A h \in Sups : sups'[h].restarts = sups[h].restarts /\ sups'[h].timer = sups[h].timer
    BY <1>0, <2>3, <2>4, TypesAre
  <2>7. TypeOK'
    BY <1>0, <1>1, <1>3, <2>5, TypesAre, TypesBack
  <2> QED BY <1>1, <2>5, <2>6, <2>7, CountHolds
<1>4. \/ Failed(g, launch[p].by) /\ Over(p) /\ (Killed(p) \/ UNCHANGED <<os, port>>)
      \/ /\ launch' = [launch EXCEPT ![p].at = "watched"]
         /\ sups' = [sups EXCEPT ![g].phase = "running"]
         /\ UNCHANGED <<os, port, pidFile>>
  BY DEF LaunchEnds, Ready, TimesOut, ExitsAtOnce
<1> QED BY <1>2, <1>3, <1>4

LEMMA ExitSteps ==
    ASSUME Counts, NEW p \in Procs, Exits(p)
    PROVE  Counts'
<1> DEFINE g == launch[p].sup
           s == [sups[g] EXCEPT !.child = 0]
           r == IF launch[p].steady THEN 0 ELSE sups[g].restarts
<1>0. TypeOK
  BY DEF Counts
<1>1. /\ UNCHANGED <<os, port, engine, app, spared, crashes>>
      /\ launch' \in [Procs -> Launch] /\ Owned' /\ g \in Sups
  BY <1>0, OverIs DEF Exits, Counts, Owned
<1>2. CASE UNCHANGED <<sups, pidFile, streak>>
  <2>1. TypeOK'
    BY <1>0, <1>1, <1>2, TypesAre, TypesBack
  <2> QED BY <1>1, <1>2, <2>1, CountHolds
<1>3. CASE /\ sups' = [sups EXCEPT ![g] = Again(s, r)]
           /\ streak' = IF launch[p].steady THEN [streak EXCEPT ![g] = 0] ELSE streak
           /\ pidFile' = 0
  <2>1. sups[g] \in Sup /\ 0 \in 0 .. MaxRestarts
    BY <1>0, <1>1, TypesAre
  <2>2. /\ s \in Sup /\ r \in 0 .. MaxRestarts /\ s.restarts = sups[g].restarts
        /\ s.timer = sups[g].timer
    BY <2>1 DEF Sup
  <2>3. /\ sups' = [sups EXCEPT ![g] = Again(s, r)]
        /\ \A h \in Sups : streak'[h] \in {0, streak[h]}
        /\ streak' \in [Sups -> Nat]
        /\ launch[p].steady => streak'[g] = 0
        /\ ~launch[p].steady => r = sups[g].restarts
    BY <1>0, <1>1, <1>3, TypesAre
  <2> HIDE DEF s, r
  <2>4. /\ Again(s, r) \in Sup
        /\ \/ Again(s, r).timer = s.timer /\ Again(s, r).restarts = s.restarts
           \/ Again(s, r).restarts = r + 1
    BY <2>2, AgainIs
  <2>5. sups' \in [Sups -> Sup] /\ sups'[g] = Again(s, r) /\ \A h \in Sups : h # g => sups'[h] = sups[h]
    BY <1>0, <1>1, <2>3, <2>4, TypesAre
  <2>6. TypeOK'
    BY <1>0, <1>1, <1>3, <2>3, <2>5, TypesAre, TypesBack
  <2> QED BY <1>1, <2>2, <2>3, <2>4, <2>5, <2>6, CountHolds
<1>4. \/ UNCHANGED <<sups, pidFile, streak>>
      \/ /\ sups' = [sups EXCEPT ![g] = Again(s, r)]
         /\ streak' = IF launch[p].steady THEN [streak EXCEPT ![g] = 0] ELSE streak
         /\ pidFile' = 0
  BY DEF Exits
<1> QED BY <1>2, <1>3, <1>4

LEMMA RestartSteps ==
    ASSUME Counts, NEW g \in Sups, Restarts(g)
    PROVE  Counts'
<1> DEFINE s == [sups[g] EXCEPT !.timer = FALSE]
<1>0. TypeOK
  BY DEF Counts
<1>1. UNCHANGED <<engine, app, spared, crashes>> /\ sups[g].timer
  BY DEF Restarts
<1>2. sups[g] \in Sup /\ streak[g] \in Nat
  BY <1>0, TypesAre
<1>3. s \in Sup /\ ~s.timer /\ s.restarts = sups[g].restarts
  BY <1>2 DEF Sup
<1>4. CASE sups' = [sups EXCEPT ![g] = s] /\ UNCHANGED <<os, port, pidFile, launch, streak>>
  <2>1. sups' \in [Sups -> Sup] /\ sups'[g] = s /\ \A h \in Sups : h # g => sups'[h] = sups[h]
    BY <1>0, <1>3, <1>4, TypesAre
  <2>2. TypeOK'
    BY <1>0, <1>1, <1>4, <2>1, TypesAre, TypesBack
  <2>3. Owned'
    BY <1>4 DEF Counts, Owned
  <2> QED BY <1>3, <1>4, <2>1, <2>2, <2>3, CountHolds
<1>5. CASE Spawn(g, "restart", s, streak[g] + 1)
  <2> DEFINE count == streak[g] + 1
  <2>1. count \in Nat /\ Spawn(g, "restart", s, count)
    BY <1>2, <1>5
  <2> HIDE DEF s, count
  <2>2. PICK p \in Procs :
           /\ os[p] = "unused" /\ os' \in [Procs -> States] /\ os'[p] = "alive"
           /\ \A q \in Procs : q # p => os'[q] = os[q]
           /\ pidFile' = p /\ port' = port
           /\ launch' \in [Procs -> Launch] /\ launch'[p].sup = g /\ launch'[p].at = "racing"
           /\ \A q \in Procs : q # p => launch'[q] = launch[q]
           /\ sups' \in [Sups -> Sup] /\ sups'[g] = [s EXCEPT !.child = p]
           /\ \A h \in Sups : h # g => sups'[h] = sups[h]
           /\ streak' \in [Sups -> Nat] /\ streak'[g] = count
           /\ \A h \in Sups : h # g => streak'[h] = streak[h]
    BY <1>0, <1>3, <2>1, SpawnIs
  <2>3. ~sups'[g].timer /\ sups'[g].restarts = sups[g].restarts
    BY <1>3, <2>2 DEF Sup
  <2>4. TypeOK'
    BY <1>0, <1>1, <2>2, TypesAre, TypesBack
  <2>5. Owned'
    BY <2>2 DEF Counts, Owned
  <2>6. sups'[g] \in Sup /\ streak'[g] = streak[g] + 1
    BY <2>2 DEF count
  <2> QED BY <1>1, <2>2, <2>3, <2>4, <2>5, <2>6, CountHolds
<1>6. \/ sups' = [sups EXCEPT ![g] = s] /\ UNCHANGED <<os, port, pidFile, launch, streak>>
      \/ Spawn(g, "restart", s, streak[g] + 1)
  <2>1. [sups EXCEPT ![g].timer = FALSE] = [sups EXCEPT ![g] = s]
    OBVIOUS
  <2> QED BY <2>1 DEF Restarts
<1> QED BY <1>4, <1>5, <1>6

LEMMA BeginSteps ==
    ASSUME Counts, NEW g \in Sups, Started(g), UNCHANGED <<spared, crashes>>,
           engine' \in Sups, app' \in {"on", "stopping"}
    PROVE  Counts'
<1>0. TypeOK
  BY DEF Counts
<1>1. PICK p \in Procs :
         /\ os' \in [Procs -> States]
         /\ pidFile' = p /\ port' = port
         /\ launch' \in [Procs -> Launch] /\ launch'[p].sup = g
         /\ \A q \in Procs : q # p => launch'[q] = launch[q]
         /\ sups' \in [Sups -> Sup] /\ ~sups'[g].timer
         /\ \A h \in Sups : h # g => sups'[h] = sups[h]
         /\ streak' \in [Sups -> Nat] /\ streak'[g] = 1
         /\ \A h \in Sups : h # g => streak'[h] = streak[h]
  BY <1>0, StartedIs
<1>2. TypeOK'
  BY <1>0, <1>1, TypesAre, TypesBack
<1>3. Owned'
  BY <1>1 DEF Counts, Owned
<1> QED BY <1>1, <1>2, <1>3, CountHolds

LEMMA HostSteps ==
    ASSUME Counts, Opens \/ Reaps \/ Reaped \/ PortTaken \/ StopReturns
    PROVE  Counts'
<1>0. TypeOK
  BY DEF Counts
<1>1. UNCHANGED <<launch, sups, engine, streak, crashes>>
  BY DEF Opens, Reaps, Reaped, PortTaken, StopReturns
<1>2. /\ os' \in [Procs -> States] /\ port' \in Procs \cup {0} /\ pidFile' \in Procs \cup {0}
      /\ spared' \subseteq Procs
      /\ app' \in {"down", "reap", "reaping", "check", "on", "stopping", "gone"}
  <2>1. CASE Opens \/ PortTaken
    BY <1>0, <2>1, TypesAre DEF Opens, PortTaken
  <2>2. CASE Reaps
    BY <1>0, <2>2, TypesAre DEF Reaps, Running, States
  <2>3. CASE Reaped
    BY <1>0, <2>3, TypesAre DEF Reaped, Killed, Running, States
  <2>4. CASE StopReturns
    BY <1>0, <2>4, TypesAre DEF StopReturns, States
  <2> QED BY <2>1, <2>2, <2>3, <2>4
<1>3. TypeOK'
  BY <1>0, <1>1, <1>2, TypesAre, TypesBack
<1>4. Owned'
  BY <1>1 DEF Counts, Owned
<1> QED BY <1>1, <1>3, <1>4, CountHolds

LEMMA StopSteps ==
    ASSUME Counts, StopsEngine, engine # 0
    PROVE  Counts'
<1>0. TypeOK /\ engine \in Sups
  BY TypesAre DEF Counts
<1>1. /\ sups' \in [Sups -> Sup] /\ ~sups'[engine].timer
      /\ sups'[engine].restarts = sups[engine].restarts
      /\ \A h \in Sups : h # engine => sups'[h] = sups[h]
      /\ pidFile' = 0 /\ os' \in [Procs -> States]
      /\ app' = "stopping" /\ UNCHANGED <<port, launch, engine, spared, streak, crashes>>
  BY <1>0, StopsIs DEF StopsEngine
<1>2. TypeOK'
  BY <1>0, <1>1, TypesAre, TypesBack
<1>3. Owned'
  BY <1>1 DEF Counts, Owned
<1> QED BY <1>1, <1>2, <1>3, CountHolds

LEMMA EndSteps ==
    ASSUME Counts, Crashes \/ Quits
    PROVE  Counts'
<1>0. TypeOK
  BY DEF Counts
<1>1. Forgets /\ UNCHANGED <<port, spared>> /\ crashes < MaxCrashes /\ pidFile' \in {pidFile, 0}
  BY DEF Crashes, Quits
<1>2. os' \in [Procs -> States]
  BY <1>0, TypesAre DEF Crashes, Quits, States
<1>3. /\ launch' \in [Procs -> Launch] /\ sups' \in [Sups -> Sup] /\ streak' \in [Sups -> Nat]
      /\ engine' = 0 /\ app' = "down" /\ \A g \in Sups : streak'[g] = 0
  BY <1>1, FreshIs DEF Forgets
<1>4. crashes' \in 0 .. MaxCrashes
  BY <1>0, <1>1, TypesAre DEF Forgets
<1>5. TypeOK'
  BY <1>0, <1>1, <1>2, <1>3, <1>4, TypesAre, TypesBack
<1>6. Owned'
  BY <1>1 DEF Forgets, Nothing, Owned
<1> QED BY <1>3, <1>5, <1>6, CountHolds

LEMMA Counting ==
    Counts /\ Present /\ [Next]_vars => Counts'
<1> SUFFICES ASSUME Counts, Present, [Next]_vars PROVE Counts'
  OBVIOUS
<1>0. TypeOK
  BY DEF Counts
<1>1. CASE UNCHANGED vars
  BY <1>1 DEF Counts, Counted, Owned, TypeOK, vars
<1>2. ASSUME NEW p \in Procs,
             Listens(p) \/ Dies(p) \/ RunsSteadily(p) \/ LaunchEnds(p) \/ Exits(p)
      PROVE  Counts'
  BY <1>2, ChildSteps, LaunchSteps, ExitSteps
<1>3. ASSUME NEW g \in Sups, Restarts(g)
      PROVE  Counts'
  BY <1>3, RestartSteps
<1>4. CASE Opens \/ Reaps \/ Reaped \/ PortTaken \/ StopReturns
  BY <1>4, HostSteps
<1>5. CASE Begins
  <2>1. engine + 1 \in Sups
    BY <1>0, <1>5, TypesAre, SupervisorAssumption DEF Begins, Sups
  <2> QED BY <1>5, <2>1, BeginSteps DEF Begins
<1>6. CASE Retries
  <2>1. engine \in Sups
    BY <1>0, <1>6, TypesAre DEF Retries
  <2>2. CASE Started(engine)
    BY <1>6, <2>1, <2>2, BeginSteps DEF Retries
  <2>3. CASE UNCHANGED vars
    BY <1>1, <2>3
  <2> QED BY <1>6, <2>2, <2>3 DEF Retries, vars
<1>7. CASE StopsEngine
  BY <1>7, StopSteps DEF StopsEngine, Present
<1>8. CASE Crashes \/ Quits
  BY <1>8, EndSteps
<1> QED BY <1>1, <1>2, <1>3, <1>4, <1>5, <1>6, <1>7, <1>8 DEF Next

LEMMA CountingIs ==
    Counts => RestartsAreCounted
<1> SUFFICES ASSUME Counts, NEW g \in Sups PROVE streak[g] <= MaxRestarts + 1
  BY DEF RestartsAreCounted
<1>1. streak[g] \in Nat /\ sups[g].restarts \in 0 .. MaxRestarts /\ MaxRestarts \in Nat
  BY TypesAre DEF Counts, Sup
<1> QED BY <1>1 DEF Counts, Counted

\* The inductive invariant of the counts: types, owners and the counts.
Tallied == Counts /\ Present

\* A child that keeps stopping is started maxRestarts times again and no more.
THEOREM RestartsEnd == Spec => []RestartsAreCounted
<1>1. Init => Tallied
  BY CountedAtFirst, Presence DEF Tallied
<1>2. Tallied /\ [Next]_vars => Tallied'
  BY Counting, Presence DEF Tallied, Counts
<1>3. Tallied => RestartsAreCounted
  BY CountingIs DEF Tallied
<1> QED BY <1>1, <1>2, <1>3, PTL DEF Spec

\* Each variable keeps its type.
THEOREM SupervisorTypes == Spec => []TypeOK
<1>1. Init => Tallied
  BY CountedAtFirst, Presence DEF Tallied
<1>2. Tallied /\ [Next]_vars => Tallied'
  BY Counting, Presence DEF Tallied, Counts
<1>3. Tallied => TypeOK
  BY DEF Tallied, Counts
<1> QED BY <1>1, <1>2, <1>3, PTL DEF Spec
------------------------------------------------------------------------------
(* Every child is recorded.  While the engine is on, what is awaited is    *)
(* its child, and what runs is awaited; while it is off, nothing runs that *)
(* was not told to stop, but what an earlier host left and recorded.       *)

Loose(p)   == os[p] = "alive" /\ p \notin spared
Awaited(p) == launch[p].at # "over"
NoneLoose  == \A p \in Procs : ~Loose(p)

On ==
    /\ ~sups[engine].stopping
    /\ \A p \in Procs :
          /\ Awaited(p) => /\ launch[p].sup = engine /\ sups[engine].child = p
                           /\ ~sups[engine].timer
          /\ Loose(p) => Awaited(p)

Off ==
    /\ \A p \in Procs :
          Awaited(p) => /\ sups[launch[p].sup].stopping
                        /\ os[p] \in {"told", "dead"}
                        /\ IF app = "stopping" THEN launch[p].sup = engine ELSE os[p] = "dead"
    /\ engine # 0 \/ app \notin {"down", "reap"} => NoneLoose

Kept ==
    /\ \A p \in Procs : Loose(p) => pidFile = p
    /\ \A p \in Procs : Awaited(p) => os[p] # "unused" /\ engine # 0
    /\ \A g \in Sups : sups[g].timer => app = "on" /\ g = engine
    /\ app = "on" => On
    /\ app # "on" => Off

LEMMA KeptAtFirst ==
    Init => Kept
BY DEF Init, Kept, Loose, Awaited, On, Off, NoneLoose, Nothing, Fresh

LEMMA KeptByChildren ==
    ASSUME Tallied, Kept, NEW p \in Procs, Listens(p) \/ Dies(p) \/ RunsSteadily(p)
    PROVE  Kept'
<1>0. TypeOK
  BY DEF Tallied, Counts
<1>1. UNCHANGED <<pidFile, sups, engine, app, spared>>
  BY DEF Listens, Dies, RunsSteadily
<1>2. \A q \in Procs : launch'[q].at = launch[q].at /\ launch'[q].sup = launch[q].sup
  <2>1. launch' = launch \/ launch' = [launch EXCEPT ![p].steady = TRUE]
    BY DEF Listens, Dies, RunsSteadily
  <2> QED BY <1>0, <2>1, TypesAre DEF Launch
<1>3. \A q \in Procs : os'[q] = os[q] \/ (os[q] # "unused" /\ os'[q] = "dead")
  BY <1>0, TypesAre DEF Listens, Dies, RunsSteadily, Killed, Running
<1> QED BY <1>1, <1>2, <1>3 DEF Kept, Loose, Awaited, On, Off, NoneLoose

\* While the engine is on, its child is all that is awaited, and once it no
\* longer runs nothing does.
LEMMA ChildGone ==
    ASSUME Tallied, Kept, app = "on", NEW p \in Procs, Awaited(p), Over(p), os'[p] # "alive",
           \A q \in Procs : q # p => os'[q] = os[q],
           UNCHANGED <<engine, app, spared>>,
           \A h \in Sups : h # engine => sups'[h] = sups[h], ~sups'[engine].stopping
    PROVE  Kept'
<1>0. TypeOK
  BY DEF Tallied, Counts
<1>1. launch'[p].at = "over" /\ \A q \in Procs : q # p => launch'[q] = launch[q]
  BY <1>0, OverIs
<1>2. \A q \in Procs : q # p => ~Awaited(q) /\ ~Loose(q)
  BY DEF Kept, On
<1>3. \A q \in Procs : ~Awaited(q)' /\ ~Loose(q)'
  BY <1>1, <1>2 DEF Awaited, Loose
<1> QED BY <1>3 DEF Kept, On

LEMMA KeptByLaunches ==
    ASSUME Tallied, Kept, NEW p \in Procs, LaunchEnds(p)
    PROVE  Kept'
<1> DEFINE g == launch[p].sup
           by == launch[p].by
<1>0. TypeOK
  BY DEF Tallied, Counts
<1>1. Awaited(p) /\ UNCHANGED <<engine, app, spared>>
  BY DEF LaunchEnds, Ready, TimesOut, ExitsAtOnce, Awaited
<1>2. g \in Sups /\ by \in {"start", "restart"}
  BY <1>0, <1>1, TypesAre DEF Tallied, Counts, Owned, Awaited, Launch
<1>3. CASE /\ launch' = [launch EXCEPT ![p].at = "watched"]
           /\ sups' = [sups EXCEPT ![g].phase = "running"]
           /\ UNCHANGED <<os, port, pidFile>>
  <2>1. \A h \in Sups : /\ sups'[h].child = sups[h].child /\ sups'[h].timer = sups[h].timer
                         /\ sups'[h].stopping = sups[h].stopping
    BY <1>0, <1>2, <1>3, TypesAre DEF Sup
  <2>2. \A q \in Procs : launch'[q].sup = launch[q].sup /\ Awaited(q)' = Awaited(q)
    BY <1>0, <1>1, <1>3, TypesAre DEF Launch, Awaited
  <2>3. \A q \in Procs : Loose(q)' = Loose(q)
    BY <1>1, <1>3 DEF Loose
  <2>4. app = "on" => engine \in Sups
    BY <1>0, TypesAre DEF Tallied, Present
  <2>5. \A q \in Procs : Awaited(q) => launch[q].sup \in Sups
    BY DEF Tallied, Counts, Owned, Awaited
  <2>6. app = "on" => On'
    BY <1>1, <2>1, <2>2, <2>3, <2>4 DEF Kept, On
  <2>7. app # "on" => Off'
    BY <1>1, <1>3, <2>1, <2>2, <2>3, <2>5 DEF Kept, Off, NoneLoose
  <2> QED BY <1>1, <1>3, <2>1, <2>2, <2>3, <2>6, <2>7 DEF Kept
<1>4. CASE Failed(g, by) /\ Over(p) /\ (Killed(p) \/ (os[p] = "dead" /\ UNCHANGED <<os, port>>))
  <2>1. /\ pidFile' = 0 /\ \A h \in Sups : h # g => sups'[h] = sups[h]
        /\ sups'[g].stopping = sups[g].stopping
        /\ sups'[g].timer = sups[g].timer \/ ~sups[g].stopping
    BY <1>0, <1>2, <1>4, FailedIs
  <2>2. /\ os'[p] \in {"unused", "dead"} /\ \A q \in Procs : q # p => os'[q] = os[q]
    BY <1>0, <1>4, KilledIs
  <2>3. CASE app = "on"
    <3>1. g = engine /\ ~sups'[engine].stopping
      BY <1>1, <2>1, <2>3 DEF Kept, On
    <3> QED BY <1>1, <1>4, <2>1, <2>2, <2>3, <3>1, ChildGone
  <2>4. CASE app # "on"
    <3>1. sups[g].stopping /\ engine # 0
      BY <1>1, <2>4 DEF Kept, Off
    <3>2. \A h \in Sups : sups'[h].timer = sups[h].timer /\ sups'[h].stopping = sups[h].stopping
      BY <2>1, <3>1
    <3>3. NoneLoose'
      BY <1>1, <2>2, <2>4, <3>1 DEF Kept, Off, NoneLoose, Loose
    <3>4. launch'[p].at = "over" /\ \A q \in Procs : q # p => launch'[q] = launch[q]
      BY <1>0, <1>4, OverIs
    <3>5. \A q \in Procs : Awaited(q)' => q # p /\ Awaited(q) /\ launch'[q] = launch[q] /\ os'[q] = os[q]
      BY <2>2, <3>4 DEF Awaited
    <3>6. \A q \in Procs : Awaited(q) => launch[q].sup \in Sups
      BY DEF Tallied, Counts, Owned, Awaited
    <3>7. Off'
      BY <1>1, <2>4, <3>2, <3>3, <3>5, <3>6 DEF Kept, Off
    <3> QED BY <1>1, <2>4, <3>2, <3>3, <3>5, <3>7 DEF Kept, NoneLoose
  <2> QED BY <2>3, <2>4
<1> QED BY <1>3, <1>4 DEF LaunchEnds, Ready, TimesOut, ExitsAtOnce

LEMMA KeptByExits ==
    ASSUME Tallied, Kept, NEW p \in Procs, Exits(p)
    PROVE  Kept'
<1> DEFINE g == launch[p].sup
           s == [sups[g] EXCEPT !.child = 0]
           r == IF launch[p].steady THEN 0 ELSE sups[g].restarts
<1>0. TypeOK
  BY DEF Tallied, Counts
<1>1. /\ Awaited(p) /\ Over(p) /\ os[p] = "dead"
      /\ UNCHANGED <<os, port, engine, app, spared, crashes>>
  BY DEF Exits, Awaited
<1>2. g \in Sups
  BY <1>1 DEF Tallied, Counts, Owned, Awaited
<1>3. CASE app = "on"
  <2>1. g = engine /\ ~sups[g].stopping /\ sups[g].child = p
    BY <1>1, <1>3 DEF Kept, On
  <2>2. sups' = [sups EXCEPT ![g] = Again(s, r)]
    BY <2>1 DEF Exits
  <2>3. s \in Sup /\ r \in 0 .. MaxRestarts /\ s.stopping = sups[g].stopping
    <3>1. sups[g] \in Sup /\ 0 \in 0 .. MaxRestarts
      BY <1>0, <1>2, TypesAre
    <3> QED BY <3>1 DEF Sup
  <2> HIDE DEF s, r
  <2>4. Again(s, r).stopping = s.stopping
    BY <2>3, AgainIs
  <2>5. sups'[engine].stopping = sups[g].stopping /\ \A h \in Sups : h # engine => sups'[h] = sups[h]
    BY <1>0, <1>2, <2>1, <2>2, <2>3, <2>4, TypesAre
  <2> QED BY <1>1, <1>3, <2>1, <2>5, ChildGone
<1>4. CASE app # "on"
  <2>1. sups[g].stopping
    BY <1>1, <1>4 DEF Kept, Off
  <2>2. UNCHANGED <<sups, pidFile>>
    BY <2>1 DEF Exits
  <2>3. launch'[p].at = "over" /\ \A q \in Procs : q # p => launch'[q] = launch[q]
    BY <1>0, <1>1, OverIs
  <2>4. /\ \A q \in Procs : Loose(q)' => Loose(q)
        /\ \A q \in Procs : Awaited(q)' => Awaited(q) /\ launch'[q] = launch[q]
    BY <1>1, <2>3 DEF Loose, Awaited
  <2> HIDE DEF g, s, r
  <2>5. app' = app /\ engine' = engine /\ os' = os /\ sups' = sups /\ pidFile' = pidFile
    BY <1>1, <2>2
  <2>6. Off'
    BY <1>4, <2>4, <2>5 DEF Kept, Off, NoneLoose
  <2> QED BY <1>4, <2>4, <2>5, <2>6 DEF Kept
<1> QED BY <1>3, <1>4

\* When nothing is awaited and nothing runs, a new child is all there is.
LEMMA FirstChild ==
    ASSUME Tallied, Kept, NEW g \in Sups, NEW p \in Procs,
           \A q \in Procs : ~Awaited(q) /\ ~Loose(q),
           os'[p] = "alive", \A q \in Procs : q # p => os'[q] = os[q],
           pidFile' = p, spared' = spared, engine' = g, app' = "on",
           launch'[p].sup = g, \A q \in Procs : q # p => launch'[q] = launch[q],
           launch'[p].at = "racing",
           sups'[g].child = p, ~sups'[g].stopping, ~sups'[g].timer,
           \A h \in Sups : h # g => ~sups'[h].timer
    PROVE  Kept'
<1>0. TypeOK /\ g # 0
  BY SupervisorAssumption DEF Tallied, Counts, Sups
<1>1. \A q \in Procs : q # p => ~Awaited(q)' /\ ~Loose(q)'
  BY DEF Awaited, Loose
<1>2. Awaited(p)'
  BY DEF Awaited
<1>3. On'
  BY <1>1, <1>2 DEF On
<1> QED BY <1>0, <1>1, <1>3 DEF Kept

LEMMA KeptByRestarts ==
    ASSUME Tallied, Kept, NEW g \in Sups, Restarts(g)
    PROVE  Kept'
<1> DEFINE s == [sups[g] EXCEPT !.timer = FALSE]
           count == streak[g] + 1
<1>0. TypeOK
  BY DEF Tallied, Counts
<1>1. /\ sups[g].timer /\ app = "on" /\ g = engine /\ ~sups[g].stopping
      /\ UNCHANGED <<engine, app, spared, crashes>>
  BY DEF Restarts, Kept, On
<1>2. sups[g] \in Sup /\ count \in Nat
  BY <1>0, TypesAre
<1>3. s \in Sup /\ ~s.timer /\ s.stopping = sups[g].stopping
  BY <1>2 DEF Sup
<1>4. Spawn(g, "restart", s, count)
  BY <1>1 DEF Restarts
<1> HIDE DEF s, count
<1>5. PICK p \in Procs :
         /\ os[p] = "unused" /\ os' \in [Procs -> States] /\ os'[p] = "alive"
         /\ \A q \in Procs : q # p => os'[q] = os[q]
         /\ pidFile' = p /\ port' = port
         /\ launch' \in [Procs -> Launch] /\ launch'[p].sup = g /\ launch'[p].at = "racing"
         /\ \A q \in Procs : q # p => launch'[q] = launch[q]
         /\ sups' \in [Sups -> Sup] /\ sups'[g] = [s EXCEPT !.child = p]
         /\ \A h \in Sups : h # g => sups'[h] = sups[h]
         /\ streak' \in [Sups -> Nat] /\ streak'[g] = count
         /\ \A h \in Sups : h # g => streak'[h] = streak[h]
  BY <1>0, <1>2, <1>3, <1>4, SpawnIs
<1>6. sups'[g].child = p /\ ~sups'[g].stopping /\ ~sups'[g].timer
  BY <1>1, <1>3, <1>5 DEF Sup
<1>7. \A q \in Procs : ~Awaited(q) /\ ~Loose(q)
  BY <1>1 DEF Kept, On
<1>8. \A h \in Sups : h # g => ~sups'[h].timer
  BY <1>1, <1>5 DEF Kept
<1>9. engine' = g /\ app' = "on" /\ spared' = spared
  BY <1>1
<1> QED BY <1>5, <1>6, <1>7, <1>8, <1>9, FirstChild

LEMMA KeptByStarts ==
    ASSUME Tallied, Kept, NEW g \in Sups, Started(g), spared' = spared, engine' = g, app' = "on",
           \A q \in Procs : ~Awaited(q) /\ ~Loose(q),
           \A h \in Sups : h # g => ~sups[h].timer
    PROVE  Kept'
<1>0. TypeOK
  BY DEF Tallied, Counts
<1>1. PICK p \in Procs :
         /\ os[p] = "unused" /\ os' \in [Procs -> States] /\ os'[p] = "alive"
         /\ \A q \in Procs : q # p => os'[q] = os[q]
         /\ pidFile' = p /\ port' = port
         /\ launch' \in [Procs -> Launch] /\ launch'[p].sup = g /\ launch'[p].at = "racing"
         /\ \A q \in Procs : q # p => launch'[q] = launch[q]
         /\ sups' \in [Sups -> Sup] /\ sups'[g].child = p /\ sups'[g].phase = "starting"
         /\ ~sups'[g].stopping /\ ~sups'[g].timer
         /\ \A h \in Sups : h # g => sups'[h] = sups[h]
         /\ streak' \in [Sups -> Nat] /\ streak'[g] = 1
         /\ \A h \in Sups : h # g => streak'[h] = streak[h]
  BY <1>0, StartedIs
<1>2. \A h \in Sups : h # g => ~sups'[h].timer
  BY <1>1
<1> QED BY <1>1, <1>2, FirstChild

LEMMA KeptByBegins ==
    ASSUME Tallied, Kept, Begins
    PROVE  Kept'
<1>0. TypeOK
  BY DEF Tallied, Counts
<1>1. /\ app = "check" /\ engine < MaxSups /\ engine' = engine + 1 /\ app' = "on"
      /\ Started(engine + 1) /\ spared' = spared
  BY DEF Begins
<1>2. engine + 1 \in Sups
  BY <1>0, <1>1, TypesAre, SupervisorAssumption DEF Sups
<1>3. \A q \in Procs : ~Awaited(q) /\ ~Loose(q)
  BY <1>1 DEF Kept, Off, NoneLoose, Awaited, Begins
<1>4. \A h \in Sups : ~sups[h].timer
  BY <1>1 DEF Kept
<1> QED BY <1>1, <1>2, <1>3, <1>4, KeptByStarts

LEMMA KeptByRetries ==
    ASSUME Tallied, Kept, Retries, ~ClicksWhileStopping
    PROVE  Kept'
<1>0. TypeOK
  BY DEF Tallied, Counts
<1>1. /\ app = "on" /\ engine' = engine /\ app' = app /\ spared' = spared
      /\ engine \in Sups
  BY <1>0, TypesAre DEF Retries
<1>2. CASE sups[engine].child # 0
  BY <1>1, <1>2 DEF Retries, Kept, On, Awaited, Loose
<1>3. CASE sups[engine].child = 0
  <2>1. Started(engine)
    BY <1>3 DEF Retries
  <2>2. 0 \notin Procs
    BY SupervisorAssumption DEF Procs
  <2>3. \A q \in Procs : ~Awaited(q) /\ ~Loose(q)
    BY <1>1, <1>3, <2>2 DEF Kept, On
  <2>4. \A h \in Sups : h # engine => ~sups[h].timer
    BY DEF Kept
  <2> QED BY <1>1, <2>1, <2>3, <2>4, KeptByStarts
<1> QED BY <1>2, <1>3

LEMMA KeptByHosts ==
    ASSUME Tallied, Kept, Opens \/ Reaps \/ Reaped \/ PortTaken
    PROVE  Kept'
<1>0. TypeOK
  BY DEF Tallied, Counts
<1>1. UNCHANGED <<launch, sups, engine>> /\ app \notin {"on", "stopping"} /\ app' \notin {"on", "stopping"}
  BY DEF Opens, Reaps, Reaped, PortTaken
<1>2. \A q \in Procs : Awaited(q)' => Awaited(q) /\ os[q] = "dead" /\ os'[q] = "dead"
  BY <1>0, <1>1, TypesAre
     DEF Kept, Off, Awaited, Opens, Reaps, Reaped, PortTaken, Killed, Running
<1>3. \A q \in Procs : Loose(q)' => Loose(q) /\ pidFile' = q
  <2>1. CASE Opens \/ PortTaken
    BY <2>1 DEF Opens, PortTaken, Kept, Loose
  <2>2. CASE Reaps
    BY <1>0, <2>2, TypesAre DEF Reaps, Kept, Loose, Running
  <2>3. CASE Reaped
    BY <1>0, <2>3, TypesAre DEF Reaped, Killed, Running, Kept, Off, NoneLoose, Loose
  <2> QED BY <2>1, <2>2, <2>3
<1>4. engine' # 0 \/ app' \notin {"down", "reap"} => NoneLoose'
  <2>1. CASE Opens \/ PortTaken \/ Reaped
    BY <1>1, <1>3, <2>1 DEF Opens, PortTaken, Reaped, Kept, Off, NoneLoose
  <2>2. CASE Reaps
    BY <1>0, <2>2, TypesAre DEF Reaps, Kept, NoneLoose, Loose, Running
  <2> QED BY <2>1, <2>2
<1>5. Off'
  BY <1>1, <1>2, <1>4 DEF Kept, Off, Awaited
<1>6. \A q \in Procs : Awaited(q)' => os'[q] # "unused" /\ engine' # 0
  BY <1>1, <1>2 DEF Kept
<1>7. \A g \in Sups : ~sups'[g].timer
  BY <1>1 DEF Kept
<1> QED BY <1>1, <1>3, <1>5, <1>6, <1>7 DEF Kept

LEMMA KeptByStops ==
    ASSUME Tallied, Kept, StopsEngine
    PROVE  Kept'
<1>0. TypeOK /\ engine \in Sups
  BY TypesAre DEF Tallied, Counts, Present, StopsEngine
<1>1. /\ sups'[engine].stopping /\ ~sups'[engine].timer
      /\ \A h \in Sups : h # engine => sups'[h] = sups[h]
      /\ os' \in [Procs -> States]
      /\ \A q \in Procs : os'[q] = os[q] \/ (os'[q] = "told" /\ q = sups[engine].child)
      /\ \A q \in Procs : os'[q] = "alive" => q # sups[engine].child
      /\ app = "on" /\ app' = "stopping" /\ UNCHANGED <<launch, engine, spared>>
  BY <1>0, StopsIs DEF StopsEngine
<1>2. \A q \in Procs : Awaited(q)' => /\ Awaited(q) /\ launch'[q].sup = engine
                                      /\ q = sups[engine].child /\ os[q] # "unused"
  BY <1>1 DEF Kept, On, Awaited
<1>3. \A q \in Procs : Awaited(q)' => os'[q] \in {"told", "dead"}
  BY <1>1, <1>2 DEF States
<1>4. NoneLoose'
  BY <1>1 DEF Kept, On, NoneLoose, Loose
<1>5. \A g \in Sups : ~sups'[g].timer
  BY <1>1 DEF Kept
<1>6. Off'
  BY <1>1, <1>2, <1>3, <1>4 DEF Off
<1>7. \A q \in Procs : Awaited(q)' => os'[q] # "unused" /\ engine' # 0
  BY <1>0, <1>1, <1>3, SupervisorAssumption DEF Sups
<1> QED BY <1>1, <1>4, <1>5, <1>6, <1>7 DEF Kept, NoneLoose

LEMMA KeptByReturns ==
    ASSUME Tallied, Kept, StopReturns
    PROVE  Kept'
<1>0. TypeOK
  BY DEF Tallied, Counts
<1>1. /\ app = "stopping" /\ app' = "reap" /\ UNCHANGED <<pidFile, launch, sups, engine, spared>>
      /\ \A q \in Procs : os'[q] = IF launch[q].sup = engine /\ os[q] = "told" THEN "dead" ELSE os[q]
  BY DEF StopReturns
<1>2. \A q \in Procs : Awaited(q)' => Awaited(q) /\ os'[q] = "dead"
  BY <1>1 DEF Kept, Off, Awaited
<1>3. NoneLoose'
  BY <1>1 DEF Kept, Off, NoneLoose, Loose
<1>4. Off'
  BY <1>1, <1>2, <1>3 DEF Kept, Off
<1>5. \A q \in Procs : Awaited(q)' => os'[q] # "unused" /\ engine' # 0
  BY <1>1, <1>2 DEF Kept
<1>6. \A g \in Sups : ~sups'[g].timer
  BY <1>1 DEF Kept
<1> QED BY <1>1, <1>3, <1>4, <1>5, <1>6 DEF Kept, NoneLoose

LEMMA KeptByEnds ==
    ASSUME Tallied, Kept, Crashes \/ Quits
    PROVE  Kept'
<1>0. TypeOK
  BY DEF Tallied, Counts
<1>1. /\ \A q \in Procs : ~Awaited(q)'
      /\ \A g \in Sups : ~sups'[g].timer
      /\ engine' = 0 /\ app' = "down" /\ spared' = spared
  BY DEF Crashes, Quits, Forgets, Awaited, Nothing, Fresh
<1>2. \A q \in Procs : Loose(q)' => pidFile' = q
  <2>1. CASE Crashes
    BY <2>1 DEF Crashes, Kept, Loose
  <2>2. CASE Quits
    <3>1. \A q \in Procs : os'[q] = "alive" => os[q] = "alive" /\ q # sups[engine].child
      <4>1. 0 \notin Procs
        BY SupervisorAssumption DEF Procs
      <4> QED BY <1>0, <2>2, <4>1, TypesAre DEF Quits
    <3>2. \A q \in Procs : Loose(q)' => Loose(q) /\ q # sups[engine].child
      BY <1>1, <3>1 DEF Loose
    <3>3. CASE app = "on"
      BY <3>2, <3>3 DEF Kept, On
    <3>4. CASE app = "stopping"
      BY <3>2, <3>4 DEF Kept, Off, NoneLoose
    <3> QED BY <2>2, <3>3, <3>4 DEF Quits
  <2> QED BY <2>1, <2>2
<1> QED BY <1>1, <1>2 DEF Kept, Off

LEMMA Keeping ==
    ASSUME ~ClicksWhileStopping, Tallied, Kept, [Next]_vars
    PROVE  Kept'
<1>1. CASE UNCHANGED vars
  BY <1>1 DEF Kept, On, Off, NoneLoose, Loose, Awaited, vars
<1>2. ASSUME NEW p \in Procs,
             Listens(p) \/ Dies(p) \/ RunsSteadily(p) \/ LaunchEnds(p) \/ Exits(p)
      PROVE  Kept'
  BY <1>2, KeptByChildren, KeptByLaunches, KeptByExits
<1>3. ASSUME NEW g \in Sups, Restarts(g)
      PROVE  Kept'
  BY <1>3, KeptByRestarts
<1>4. CASE Opens \/ Reaps \/ Reaped \/ PortTaken
  BY <1>4, KeptByHosts
<1>5. CASE Begins
  BY <1>5, KeptByBegins
<1>6. CASE Retries
  BY <1>6, KeptByRetries
<1>7. CASE StopsEngine
  BY <1>7, KeptByStops
<1>8. CASE StopReturns
  BY <1>8, KeptByReturns
<1>9. CASE Crashes \/ Quits
  BY <1>9, KeptByEnds
<1> QED BY <1>1, <1>2, <1>3, <1>4, <1>5, <1>6, <1>7, <1>8, <1>9 DEF Next

\* A child that runs is the one the pid file names, or one that was spared,
\* through failed launches, stops, restarts and hosts that crash, as long as
\* nobody presses Restart during a stop.
THEOREM ChildrenAreRecorded ==
    ASSUME ~ClicksWhileStopping
    PROVE  Spec => []EveryChildIsRecorded
<1>1. Init => Tallied /\ Kept
  BY CountedAtFirst, Presence, KeptAtFirst DEF Tallied
<1>2. Tallied /\ Kept /\ [Next]_vars => (Tallied /\ Kept)'
  BY Counting, Presence, Keeping DEF Tallied, Counts
<1>3. Tallied /\ Kept => EveryChildIsRecorded
  BY DEF Kept, Loose, EveryChildIsRecorded
<1> QED BY <1>1, <1>2, <1>3, PTL DEF Spec
==============================================================================
