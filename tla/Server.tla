-------------------------------- MODULE Server --------------------------------
(***************************************************************************)
(* The server around its tables: every request is let in by RequireSession *)
(* and may seat its user, log out, start and stop the training or change   *)
(* the settings of the AI players; the cleanup loop and the training run   *)
(* beside them; and a restart keeps nothing but the two files.             *)
(***************************************************************************)
EXTENDS Sessions, Training, RuntimeSettings

CONSTANTS Ops,         \* kinds of requests
          MaxRestarts  \* bound: restarts

VARIABLE restarts

vars == <<sessionVars, trainingVars, settingsVars, restarts>>

Init == SessionsInit /\ TrainingInit /\ SettingsInit /\ restarts = 0

-----------------------------------------------------------------------------
StartBenchmark(c) ==
  /\ Ready(c, "start") /\ Finish(c) /\ Start
  /\ UNCHANGED <<session, lastActive, members, expired, overlapped, requests>>

StopBenchmark(c) ==
  /\ Ready(c, "stop") /\ Finish(c) /\ Stop
  /\ UNCHANGED <<session, lastActive, members, expired, overlapped, requests>>

SavingSettings(w) == work[w].at = "saving"

UpdateSettings(c) ==
  /\ Ready(c, "settings")
  /\ \E s \in Setting :
       \/ Refused(s) /\ Finish(c) /\ UNCHANGED settingsVars
       \/ /\ Update(s, \E d \in Conn \ {c} : SavingSettings(d))
          /\ work' = [work EXCEPT ![c] = [at |-> "saving", user |-> @.user, value |-> s]]
  /\ UNCHANGED <<session, lastActive, members, expired, overlapped, requests>>

WriteSettings(c) ==
  /\ SavingSettings(c) /\ Write(work[c].value) /\ Finish(c)
  /\ UNCHANGED <<session, lastActive, members, expired, overlapped, requests>>

\* What a crash leaves of a file that is being written: the old contents, the
\* new ones, or something that does not parse and gives way to the defaults.
AfterCrash(file, writing, default) == {file} \cup writing \cup (IF writing = {} THEN {} ELSE {default})

\* NewMemoryStore on the files of the process before it.
Restart ==
  /\ restarts < MaxRestarts /\ restarts' = restarts + 1
  /\ session'    = [u \in User |-> IF session[u] = "none" THEN "none" ELSE "gone"]
  /\ lastActive' = [u \in User |-> "none"]
  /\ members' = {} /\ work' = [w \in Worker |-> Idle] /\ expired' = {}
  /\ cancel' = NoLoop /\ running' = FALSE
  /\ loops' = [l \in LoopId |-> [loops[l] EXCEPT !.at = "ended"]]
  /\ strategy' \in AfterCrash(strategy, {loops[l].best : l \in {k \in Live : loops[k].at = "save"}}, Default)
  /\ current' = strategy' /\ strategyOff' = FALSE
  /\ saved' \in AfterCrash(saved, {work[c].value : c \in {d \in Conn : SavingSettings(d)}}, Defaults)
  /\ settings' = Load(saved') /\ settingsOff' = FALSE
  /\ UNCHANGED <<overlapped, requests, starts>>

-----------------------------------------------------------------------------
SessionStep ==
  \/ \E u \in User : CreateSession(u) \/ HourPasses(u) \/ DayPasses(u)
  \/ \E c \in Conn, u \in User, op \in Ops : Admit(c, u, op)
  \/ \E c \in Conn : Touch(c) \/ Visit(c) \/ Leave(c) \/ Logout(c)
  \/ \E w \in Worker : RemovalStep(w)
  \/ CleanerWakes \/ CleanerTakes

ServiceStep(c) ==
  \/ (StartBenchmark(c) \/ StopBenchmark(c)) /\ UNCHANGED <<settingsVars, restarts>>
  \/ (UpdateSettings(c) \/ WriteSettings(c)) /\ UNCHANGED <<trainingVars, restarts>>

Next ==
  \/ SessionStep /\ UNCHANGED <<trainingVars, settingsVars, restarts>>
  \/ \E c \in Conn : ServiceStep(c)
  \/ \E l \in LoopId : LoopStep(l) /\ UNCHANGED <<sessionVars, settingsVars, restarts>>
  \/ Restart

\* A handler that has begun goes on.
Spec ==
  /\ Init /\ [][Next]_vars /\ SessionsFairness /\ TrainingFairness
  /\ \A c \in Conn : WF_vars(ServiceStep(c))

-----------------------------------------------------------------------------
\* A restart changes neither the strategy the AI players play by nor the model
\* they ask, though memory is written before the file and without its lock:
\* unless it hits while a file is being written, the last write failed, or two
\* writers were at work at the same time, of which the slower may have had the
\* older value.
RestartKeepsSettings ==
  [][Restart =>
       /\ ~Saving /\ ~strategyOff => current' = current
       /\ (\A c \in Conn : ~SavingSettings(c)) /\ ~settingsOff =>
            ModelUsed(settings') = ModelUsed(settings) /\ UsesModel(settings') = UsesModel(settings)
    ]_vars
=============================================================================
