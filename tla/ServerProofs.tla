----------------------------- MODULE ServerProofs -----------------------------
(***************************************************************************)
(* Theorem of Server: a restart changes neither the strategy nor the model *)
(* the AI players use, for any number of requests, training loops, wins    *)
(* and restarts.                                                           *)
(*                                                                         *)
(* Memory and file are written one after the other, so they differ while a *)
(* write is on its way.  The invariant says what is on its way: unless the *)
(* history variable tells of a failed or overtaken write, whoever is       *)
(* writing writes what memory holds, and if nobody is, the file holds what *)
(* memory does, up to what loading it makes of an empty name.              *)
(***************************************************************************)
EXTENDS Server, TLAPS

\* The fields of a training loop.
LoopFields == {"at", "cancelled", "best"}

\* The loops that were never started stay ended, and the file of the strategy
\* follows the strategy in use.
TrainingKept ==
  /\ starts \in Nat
  /\ DOMAIN loops = LoopId /\ \A l \in LoopId : DOMAIN loops[l] = LoopFields
  /\ \A l \in LoopId : l > starts => loops[l].at = "ended"
  /\ ~strategyOff =>
       /\ \A l \in LoopId : loops[l].at = "save" => loops[l].best = current
       /\ (\A l \in LoopId : loops[l].at # "save") => strategy = current

Settings == [llm : BOOLEAN, model : Model \cup {NoModel}]

\* The same model is asked under both settings, or none.
Alike(s, t) == ModelUsed(s) = ModelUsed(t) /\ UsesModel(s) = UsesModel(t)

\* The requests, of which some are writing settings.
WorkOK ==
  /\ DOMAIN work = Worker /\ \A w \in Worker : "at" \in DOMAIN work[w]
  /\ \A c \in Conn : SavingSettings(c) => work[c].value \in Setting

\* The file of the settings follows the settings in use.
SettingsKept ==
  /\ settings \in Settings /\ saved \in Settings
  /\ ~settingsOff =>
       /\ \A c \in Conn : SavingSettings(c) => work[c].value = settings
       /\ (\A c \in Conn : ~SavingSettings(c)) => Alike(Load(saved), settings)

FilesKept == TrainingKept /\ WorkOK /\ SettingsKept

-----------------------------------------------------------------------------
(* Settings. *)

\* What a file is loaded as.
LEMMA LoadFacts ==
  ASSUME NEW s \in Settings
  PROVE  Load(s) \in Settings /\ Alike(Load(s), s) /\ Load(Load(s)) = Load(s)
<1>1. BaseModel \in Model \cup {NoModel}
  BY SettingAssumption
<1>2. s.model \in Model \cup {NoModel} /\ s.llm \in BOOLEAN /\ s = [llm |-> s.llm, model |-> s.model]
  BY DEF Settings
<1>3. Load(s) = [llm |-> s.llm, model |-> IF s.model = NoModel THEN BaseModel ELSE s.model]
  BY <1>2 DEF Load, Defaults
<1>4. Load(s) \in Settings
  BY <1>1, <1>2, <1>3 DEF Settings
<1>5. ModelUsed(Load(s)) = ModelUsed(s) /\ Load(s).llm = s.llm
  BY <1>3 DEF ModelUsed
<1>6. Alike(Load(s), s)
  BY <1>5 DEF Alike, UsesModel
<1>7. Load(Load(s)) = Load(s)
  BY <1>3 DEF Load, Defaults
<1> QED BY <1>4, <1>6, <1>7

\* A request that is writing settings is left alone, and none begins to.
Untouched ==
  \A c \in Conn : (SavingSettings(c)' <=> SavingSettings(c)) /\ (SavingSettings(c) => work'[c] = work[c])

\* One request or removal goes on, which was not and is not writing settings.
LEMMA OneGoesOn ==
  ASSUME WorkOK, NEW w \in Worker, work[w].at # "saving",
         NEW x, "at" \in DOMAIN x, x.at # "saving", work' = [work EXCEPT ![w] = x]
  PROVE  WorkOK' /\ Untouched
<1>1. DOMAIN work' = Worker /\ \A d \in Worker : work'[d] = IF d = w THEN x ELSE work[d]
  BY DEF WorkOK
<1>2. Untouched
  BY <1>1 DEF Untouched, SavingSettings, Worker
<1> QED BY <1>1, <1>2 DEF WorkOK, Untouched, SavingSettings, Worker

\* Sessions, logins, removals and time leave the writers of settings alone.
LEMMA SessionsKeep ==
  ASSUME WorkOK, SessionStep
  PROVE  WorkOK' /\ Untouched
<1>1. ASSUME work' = work PROVE WorkOK' /\ Untouched
  BY <1>1 DEF WorkOK, Untouched, SavingSettings
<1>2. ASSUME NEW u, CreateSession(u) \/ HourPasses(u) \/ DayPasses(u) PROVE work' = work
  BY <1>2 DEF CreateSession, HourPasses, DayPasses
<1>3. ASSUME NEW c \in Conn, NEW u, NEW op, Admit(c, u, op) PROVE WorkOK' /\ Untouched
  <2>1. work[c] = Idle /\ work' = [work EXCEPT ![c] = [at |-> "known", user |-> u, op |-> op]]
    BY <1>3 DEF Admit
  <2> DEFINE x == [at |-> "known", user |-> u, op |-> op]
  <2>2. "at" \in DOMAIN x /\ x.at # "saving" /\ work[c].at # "saving" /\ c \in Worker
    BY <2>1 DEF Idle, Worker
  <2> QED BY <2>1, <2>2, OneGoesOn
<1>4. ASSUME NEW c \in Conn, Touch(c) PROVE WorkOK' /\ Untouched
  <2>1. work[c].at = "known" /\ work' = [work EXCEPT ![c] = [work[c] EXCEPT !.at = "touched"]]
    BY <1>4 DEF Touch
  <2> DEFINE x == [work[c] EXCEPT !.at = "touched"]
  <2>2. "at" \in DOMAIN x /\ x.at # "saving" /\ work[c].at # "saving" /\ c \in Worker
    BY <2>1 DEF WorkOK, Worker
  <2> HIDE DEF x
  <2>3. work' = [work EXCEPT ![c] = x]
    BY <2>1 DEF x
  <2> QED BY <2>2, <2>3, OneGoesOn
<1>5. ASSUME NEW c \in Conn, Visit(c) \/ Leave(c) PROVE WorkOK' /\ Untouched
  <2>1. work[c].at = "touched" /\ work' = [work EXCEPT ![c] = Idle]
    BY <1>5 DEF Visit, Leave, Ready, Finish
  <2>2. "at" \in DOMAIN Idle /\ Idle.at # "saving" /\ work[c].at # "saving" /\ c \in Worker
    BY <2>1 DEF Idle, Worker
  <2> QED BY <2>1, <2>2, OneGoesOn
<1>6. ASSUME NEW w \in Worker, NEW u, work[w].at # "saving", BeginRemoval(w, u)
      PROVE  WorkOK' /\ Untouched
  <2> DEFINE x == [at |-> "leaving", user |-> u, todo |-> RoomsToLeave(u)]
  <2>1. work' = [work EXCEPT ![w] = x] /\ "at" \in DOMAIN x /\ x.at # "saving"
    BY <1>6 DEF BeginRemoval
  <2> QED BY <1>6, <2>1, OneGoesOn
<1>7. ASSUME NEW c \in Conn, Logout(c) PROVE WorkOK' /\ Untouched
  <2>1. work[c].at = "touched" /\ BeginRemoval(c, work[c].user) /\ c \in Worker
    BY <1>7 DEF Logout, Ready, Worker
  <2> QED BY <1>6, <2>1
<1>8. ASSUME NEW w \in Worker, LeaveOne(w) PROVE WorkOK' /\ Untouched
  <2>1. /\ work[w].at = "leaving"
        /\ \E r \in work[w].todo : work' = [work EXCEPT ![w] = [work[w] EXCEPT !.todo = @ \ {r}]]
    BY <1>8 DEF LeaveOne
  <2>2. PICK r : work' = [work EXCEPT ![w] = [work[w] EXCEPT !.todo = @ \ {r}]]
    BY <2>1
  <2> DEFINE x == [work[w] EXCEPT !.todo = @ \ {r}]
  <2>3. "at" \in DOMAIN x /\ x.at # "saving"
    BY <2>1 DEF WorkOK
  <2> HIDE DEF x
  <2>4. work' = [work EXCEPT ![w] = x]
    BY <2>2 DEF x
  <2> QED BY <2>1, <2>3, <2>4, OneGoesOn
<1>9. ASSUME NEW w \in Worker, Forget(w) PROVE WorkOK' /\ Untouched
  <2>1. work[w].at = "leaving" /\ work' = [work EXCEPT ![w] = Idle]
    BY <1>9 DEF Forget
  <2>2. "at" \in DOMAIN Idle /\ Idle.at # "saving"
    BY DEF Idle
  <2> QED BY <2>1, <2>2, OneGoesOn
<1>10. ASSUME CleanerWakes PROVE work' = work
  BY <1>10 DEF CleanerWakes
<1>11. ASSUME CleanerTakes PROVE WorkOK' /\ Untouched
  <2>1. work[Cleaner] = Idle /\ \E u : BeginRemoval(Cleaner, u)
    BY <1>11 DEF CleanerTakes
  <2>2. Cleaner \in Worker /\ work[Cleaner].at # "saving"
    BY <2>1 DEF Worker, Idle
  <2> QED BY <1>6, <2>1, <2>2
<1> QED
  BY <1>1, <1>2, <1>3, <1>4, <1>5, <1>7, <1>8, <1>9, <1>10, <1>11 DEF SessionStep, RemovalStep

\* As long as the writers are left alone, so are the settings.
LEMMA SettingsUnmoved ==
  ASSUME SettingsKept, Untouched, UNCHANGED settingsVars
  PROVE  SettingsKept'
BY DEF SettingsKept, Untouched, settingsVars

\* A request that is done is idle.
LEMMA RequestDone ==
  ASSUME WorkOK, NEW c \in Conn, Finish(c)
  PROVE  /\ WorkOK' /\ ~SavingSettings(c)'
         /\ \A d \in Conn \ {c} : work'[d] = work[d] /\ (SavingSettings(d)' <=> SavingSettings(d))
         /\ ~SavingSettings(c) => Untouched
<1>1. /\ c \in Worker /\ DOMAIN work' = Worker
      /\ \A d \in Worker : work'[d] = IF d = c THEN Idle ELSE work[d]
  BY DEF Finish, WorkOK, Worker
<1>2. "at" \in DOMAIN Idle /\ Idle.at # "saving"
  BY DEF Idle
<1>3. ~SavingSettings(c)'
  BY <1>1, <1>2 DEF SavingSettings
<1>4. \A d \in Conn \ {c} : work'[d] = work[d] /\ (SavingSettings(d)' <=> SavingSettings(d))
  BY <1>1 DEF SavingSettings, Worker
<1>5. WorkOK'
  BY <1>1, <1>2, <1>3, <1>4 DEF WorkOK
<1>6. ~SavingSettings(c) => Untouched
  BY <1>3, <1>4 DEF Untouched
<1> QED BY <1>3, <1>4, <1>5, <1>6

\* UpdateAIRuntimeSettings, up to the end of its critical section.
LEMMA UpdateKeeps ==
  ASSUME WorkOK, SettingsKept, NEW c \in Conn, UpdateSettings(c)
  PROVE  WorkOK' /\ SettingsKept'
<1>1. work[c].at = "touched" /\ ~SavingSettings(c) /\ c \in Worker
  BY DEF UpdateSettings, Ready, SavingSettings, Worker
<1>2. CASE Finish(c) /\ UNCHANGED settingsVars
  BY <1>1, <1>2, RequestDone, SettingsUnmoved
<1>3. ASSUME NEW s \in Setting, Update(s, \E d \in Conn \ {c} : SavingSettings(d)),
             work' = [work EXCEPT ![c] = [at |-> "saving", user |-> work[c].user, value |-> s]]
      PROVE  WorkOK' /\ SettingsKept'
  <2> DEFINE x == [at |-> "saving", user |-> work[c].user, value |-> s]
  <2>1. "at" \in DOMAIN x /\ x.at = "saving" /\ x.value = s
    OBVIOUS
  <2> HIDE DEF x
  <2>2. DOMAIN work' = Worker /\ \A d \in Worker : work'[d] = IF d = c THEN x ELSE work[d]
    BY <1>3 DEF WorkOK, x
  <2>3. SavingSettings(c)' /\ work'[c].value = s
    BY <1>1, <2>1, <2>2 DEF SavingSettings
  <2>4. \A d \in Conn \ {c} : work'[d] = work[d] /\ (SavingSettings(d)' <=> SavingSettings(d))
    BY <2>2 DEF SavingSettings, Worker
  <2>5. WorkOK'
    BY <2>1, <2>2, <2>3, <2>4 DEF WorkOK
  <2>6. /\ settings' = s /\ saved' = saved
        /\ settingsOff' = (\E d \in Conn \ {c} : SavingSettings(d))
    BY <1>3 DEF Update
  <2>7. settings' \in Settings
    BY <2>6, SettingAssumption DEF Settings
  <2>8. ASSUME ~settingsOff' PROVE \A d \in Conn : SavingSettings(d)' => work'[d].value = settings'
    BY <2>3, <2>4, <2>6, <2>8
  <2> QED BY <2>3, <2>5, <2>6, <2>7, <2>8 DEF SettingsKept
<1> QED BY <1>2, <1>3 DEF UpdateSettings

\* The write after it.
LEMMA WriteKeeps ==
  ASSUME WorkOK, SettingsKept, NEW c \in Conn, WriteSettings(c)
  PROVE  WorkOK' /\ SettingsKept'
<1>1. SavingSettings(c) /\ Write(work[c].value) /\ Finish(c)
  BY DEF WriteSettings
<1>2. /\ WorkOK' /\ ~SavingSettings(c)'
      /\ \A d \in Conn \ {c} : work'[d] = work[d] /\ (SavingSettings(d)' <=> SavingSettings(d))
  BY <1>1, RequestDone
<1>3. work[c].value \in Setting /\ work[c].value \in Settings
  BY <1>1, SettingAssumption DEF WorkOK, Settings
<1>4. CASE saved' = work[c].value /\ UNCHANGED <<settings, settingsOff>>
  <2>1. ASSUME ~settingsOff' PROVE saved' = settings'
    BY <1>1, <1>4, <2>1 DEF SettingsKept
  <2>2. ASSUME ~settingsOff' PROVE Alike(Load(saved'), settings')
    <3>1. settings \in Settings /\ settings' = settings
      BY <1>4 DEF SettingsKept
    <3> QED BY <2>1, <2>2, <3>1, LoadFacts
  <2>3. \A d \in Conn : SavingSettings(d)' => work'[d].value = work[d].value /\ SavingSettings(d)
    BY <1>2
  <2>4. ASSUME ~settingsOff', NEW d \in Conn, SavingSettings(d)' PROVE work'[d].value = settings'
    BY <1>4, <2>3, <2>4 DEF SettingsKept
  <2>5. settings' \in Settings /\ saved' \in Settings
    BY <1>3, <1>4 DEF SettingsKept
  <2> QED BY <1>2, <2>2, <2>4, <2>5 DEF SettingsKept
<1>5. CASE settingsOff' = TRUE /\ UNCHANGED <<settings, saved>>
  BY <1>2, <1>5 DEF SettingsKept
<1> QED BY <1>1, <1>4, <1>5 DEF Write

-----------------------------------------------------------------------------
(* Training. *)

\* A loop goes from one place to another.
LEMMA LoopMoves ==
  ASSUME TrainingKept, NEW l \in LoopId, NEW where, GoTo(l, where)
  PROVE  /\ DOMAIN loops' = LoopId /\ \A k \in LoopId : DOMAIN loops'[k] = LoopFields
         /\ \A k \in LoopId : /\ loops'[k].at = IF k = l THEN where ELSE loops[k].at
                              /\ loops'[k].best = loops[k].best
BY DEF GoTo, TrainingKept, LoopFields

\* Every step of a loop.
LEMMA LoopStepKeeps ==
  ASSUME TrainingKept, NEW l \in LoopId, LoopStep(l)
  PROVE  TrainingKept'
<1>1. /\ starts \in Nat /\ DOMAIN loops = LoopId /\ LoopId \subseteq Nat
      /\ \A k \in LoopId : k > starts => loops[k].at = "ended"
  BY DEF TrainingKept, LoopId
<1>2. starts' = starts /\ loops[l].at # "ended" /\ ~(l > starts)
  BY <1>1 DEF LoopStep, Round, WindUp, Install, Save, Report
<1>3. ASSUME NEW where, GoTo(l, where), loops[l].at # "save", where # "save",
             UNCHANGED <<current, strategy, strategyOff>>
      PROVE  TrainingKept'
  BY <1>1, <1>2, <1>3, LoopMoves DEF TrainingKept
<1>4. CASE Round(l)
  <2>1. loops[l].at = "select" /\ UNCHANGED <<current, strategy, strategyOff>>
    BY <1>4 DEF Round
  <2>2. CASE \E where \in {"windUp", "report"} : GoTo(l, where)
    BY <1>3, <2>1, <2>2
  <2>3. CASE \E n : loops' = [loops EXCEPT ![l].at = "install", ![l].best = n]
    <3>1. /\ DOMAIN loops' = LoopId /\ \A k \in LoopId : DOMAIN loops'[k] = LoopFields
          /\ loops'[l].at = "install" /\ \A k \in LoopId \ {l} : loops'[k] = loops[k]
      BY <2>3 DEF TrainingKept, LoopFields
    <3> QED BY <1>1, <1>2, <2>1, <3>1 DEF TrainingKept
  <2> QED BY <1>4, <2>2, <2>3 DEF Round
<1>5. CASE WindUp(l)
  BY <1>3, <1>5 DEF WindUp
<1>6. CASE Report(l)
  BY <1>3, <1>6 DEF Report
<1>7. CASE Install(l)
  <2>1. /\ loops[l].at = "install" /\ GoTo(l, "save") /\ current' = loops[l].best
        /\ strategyOff' = (\E k \in Live \ {l} : loops[k].at = "save")
    BY <1>7 DEF Install
  <2>2. /\ DOMAIN loops' = LoopId /\ \A k \in LoopId : DOMAIN loops'[k] = LoopFields
        /\ \A k \in LoopId : /\ loops'[k].at = IF k = l THEN "save" ELSE loops[k].at
                             /\ loops'[k].best = loops[k].best
    BY <2>1, LoopMoves
  <2>3. ASSUME ~strategyOff', NEW k \in LoopId, loops'[k].at = "save" PROVE loops'[k].best = current'
    <3>1. k = l
      BY <1>1, <2>1, <2>2, <2>3 DEF Live
    <3> QED BY <2>1, <2>2, <3>1
  <2> QED BY <1>1, <1>2, <2>2, <2>3 DEF TrainingKept
<1>8. CASE Save(l)
  <2>1. /\ loops[l].at = "save" /\ GoTo(l, "report") /\ current' = current
        /\ \/ strategy' = loops[l].best /\ strategyOff' = strategyOff
           \/ strategyOff' = TRUE
    BY <1>8 DEF Save
  <2>2. /\ DOMAIN loops' = LoopId /\ \A k \in LoopId : DOMAIN loops'[k] = LoopFields
        /\ \A k \in LoopId : /\ loops'[k].at = IF k = l THEN "report" ELSE loops[k].at
                             /\ loops'[k].best = loops[k].best
    BY <2>1, LoopMoves
  <2>3. ASSUME ~strategyOff'
        PROVE  /\ strategy' = current' /\ \A k \in LoopId : loops[k].at = "save" => loops[k].best = current'
    BY <2>1, <2>3 DEF TrainingKept
  <2> QED BY <1>1, <1>2, <2>2, <2>3 DEF TrainingKept
<1> QED BY <1>4, <1>5, <1>6, <1>7, <1>8 DEF LoopStep

\* Start and Stop.
LEMMA StartStopKeeps ==
  ASSUME TrainingKept, Start \/ Stop
  PROVE  TrainingKept'
<1>1. /\ starts \in Nat /\ DOMAIN loops = LoopId /\ LoopId \subseteq Nat
      /\ \A k \in LoopId : DOMAIN loops[k] = LoopFields
      /\ \A k \in LoopId : k > starts => loops[k].at = "ended"
  BY DEF TrainingKept, LoopId
<1>2. CASE UNCHANGED trainingVars
  BY <1>2 DEF TrainingKept, trainingVars
<1>3. CASE /\ starts' = starts + 1 /\ UNCHANGED <<current, strategy, strategyOff>>
           /\ loops' = [loops EXCEPT ![starts + 1] =
                          [at |-> "select", cancelled |-> FALSE, best |-> current]]
  <2>1. /\ DOMAIN loops' = LoopId
        /\ \A k \in LoopId : IF k = starts + 1
                             THEN loops'[k] = [at |-> "select", cancelled |-> FALSE, best |-> current]
                             ELSE loops'[k] = loops[k]
    BY <1>1, <1>3
  <2>2. \A k \in LoopId : DOMAIN loops'[k] = LoopFields /\ (k = starts + 1 => loops'[k].at = "select")
    BY <1>1, <2>1 DEF LoopFields
  <2>3. \A k \in LoopId : k > starts' => loops'[k].at = "ended"
    BY <1>1, <1>3, <2>1
  <2>4. \A k \in LoopId : (loops'[k].at = "save" <=> loops[k].at = "save")
                          /\ (loops[k].at = "save" => loops'[k].best = loops[k].best)
    BY <1>1, <2>1, <2>2
  <2>5. starts' \in Nat
    BY <1>1, <1>3
  <2> QED BY <1>3, <2>1, <2>2, <2>3, <2>4, <2>5 DEF TrainingKept
<1>4. CASE /\ loops' = [loops EXCEPT ![cancel].cancelled = TRUE]
           /\ UNCHANGED <<starts, current, strategy, strategyOff>>
  <2>1. /\ DOMAIN loops' = LoopId
        /\ \A k \in LoopId : /\ DOMAIN loops'[k] = LoopFields
                             /\ loops'[k].at = loops[k].at /\ loops'[k].best = loops[k].best
    BY <1>1, <1>4 DEF LoopFields
  <2> QED BY <1>1, <1>4, <2>1 DEF TrainingKept
<1> QED BY <1>2, <1>3, <1>4 DEF Start, Stop

-----------------------------------------------------------------------------
(* Restarts, and the whole. *)

\* The files a restart finds when nobody was writing them.
LEMMA QuietFiles ==
  ASSUME FilesKept, Restart
  PROVE  /\ ~Saving /\ ~strategyOff => current' = current
         /\ (\A c \in Conn : ~SavingSettings(c)) /\ ~settingsOff => Alike(settings', settings)
<1>1. ASSUME ~Saving, ~strategyOff PROVE current' = current
  <2>1. \A l \in LoopId : loops[l].at # "save"
    BY <1>1 DEF Saving, Live, FilesKept, TrainingKept
  <2>2. {loops[l].best : l \in {k \in Live : loops[k].at = "save"}} = {}
    BY <2>1 DEF Live, FilesKept, TrainingKept
  <2>3. current' \in AfterCrash(strategy, {}, Default)
    BY <2>2 DEF Restart
  <2> QED BY <1>1, <2>1, <2>3 DEF AfterCrash, FilesKept, TrainingKept
<1>2. ASSUME \A c \in Conn : ~SavingSettings(c), ~settingsOff PROVE Alike(settings', settings)
  <2>1. {work[c].value : c \in {d \in Conn : SavingSettings(d)}} = {}
    BY <1>2
  <2>2. saved' \in AfterCrash(saved, {}, Defaults) /\ settings' = Load(saved')
    BY <2>1 DEF Restart
  <2>3. settings' = Load(saved)
    BY <2>2 DEF AfterCrash
  <2> QED BY <1>2, <2>3 DEF FilesKept, SettingsKept
<1> QED BY <1>1, <1>2

\* A restart reads both files.
LEMMA RestartKeeps ==
  ASSUME FilesKept, Restart
  PROVE  FilesKept'
<1>1. /\ work' = [w \in Worker |-> Idle] /\ starts' = starts
      /\ loops' = [l \in LoopId |-> [loops[l] EXCEPT !.at = "ended"]]
      /\ current' = strategy' /\ strategyOff' = FALSE
      /\ saved' \in AfterCrash(saved, {work[c].value : c \in {d \in Conn : SavingSettings(d)}}, Defaults)
      /\ settings' = Load(saved') /\ settingsOff' = FALSE
  BY DEF Restart
<1>2. TrainingKept'
  <2>1. \A l \in LoopId : DOMAIN loops'[l] = LoopFields /\ loops'[l].at = "ended"
    BY <1>1 DEF FilesKept, TrainingKept, LoopFields
  <2> QED BY <1>1, <2>1 DEF FilesKept, TrainingKept
<1>3. "at" \in DOMAIN Idle /\ Idle.at # "saving"
  BY DEF Idle
<1>4. WorkOK' /\ \A c \in Conn : ~SavingSettings(c)'
  BY <1>1, <1>3 DEF WorkOK, SavingSettings, Worker
<1>5. saved' \in Settings
  <2>1. \A c \in Conn : SavingSettings(c) => work[c].value \in Settings
    BY SettingAssumption DEF FilesKept, WorkOK, Settings
  <2>2. Defaults \in Settings
    BY SettingAssumption DEF Defaults, Settings
  <2> QED BY <1>1, <2>1, <2>2 DEF AfterCrash, FilesKept, SettingsKept
<1>6. settings' \in Settings /\ Alike(Load(saved'), settings')
  BY <1>1, <1>5, LoadFacts DEF Alike
<1>7. SettingsKept'
  BY <1>4, <1>5, <1>6 DEF SettingsKept
<1> QED BY <1>2, <1>4, <1>7 DEF FilesKept

\* The files and memory at the start.
LEMMA InitKept ==
  ASSUME Init
  PROVE  FilesKept
<1>1. /\ loops = [l \in LoopId |-> [at |-> "ended", cancelled |-> TRUE, best |-> Default]]
      /\ starts = 0 /\ current = Default /\ strategy = Default
      /\ settings = Defaults /\ saved = Defaults /\ work = [w \in Worker |-> Idle]
  BY DEF Init, TrainingInit, SettingsInit, SessionsInit
<1>2. TrainingKept
  <2>1. \A l \in LoopId : DOMAIN loops[l] = LoopFields /\ loops[l].at = "ended"
    BY <1>1 DEF LoopFields
  <2> QED BY <1>1, <2>1 DEF TrainingKept
<1>3. "at" \in DOMAIN Idle /\ Idle.at # "saving"
  BY DEF Idle
<1>4. WorkOK /\ \A c \in Conn : ~SavingSettings(c)
  BY <1>1, <1>3 DEF WorkOK, SavingSettings, Worker
<1>5. Defaults \in Settings
  BY SettingAssumption DEF Defaults, Settings
<1>6. SettingsKept
  BY <1>1, <1>4, <1>5, LoadFacts DEF SettingsKept
<1> QED BY <1>2, <1>4, <1>6 DEF FilesKept

\* Every step keeps them together.
LEMMA NextKept ==
  ASSUME FilesKept, [Next]_vars
  PROVE  FilesKept'
<1>1. TrainingKept /\ WorkOK /\ SettingsKept
  BY DEF FilesKept
<1>2. ASSUME UNCHANGED trainingVars PROVE TrainingKept'
  BY <1>1, <1>2 DEF TrainingKept, trainingVars
<1>3. CASE UNCHANGED vars
  <2>1. work' = work /\ UNCHANGED trainingVars /\ UNCHANGED settingsVars
    BY <1>3 DEF vars, sessionVars
  <2>2. WorkOK' /\ Untouched
    BY <1>1, <2>1 DEF WorkOK, Untouched, SavingSettings
  <2> QED BY <1>1, <1>2, <2>1, <2>2, SettingsUnmoved DEF FilesKept
<1>4. CASE SessionStep /\ UNCHANGED <<trainingVars, settingsVars, restarts>>
  <2>1. UNCHANGED trainingVars /\ UNCHANGED settingsVars
    BY <1>4
  <2> QED BY <1>1, <1>2, <1>4, <2>1, SessionsKeep, SettingsUnmoved DEF FilesKept
<1>5. ASSUME NEW c \in Conn, StartBenchmark(c) \/ StopBenchmark(c),
             UNCHANGED <<settingsVars, restarts>>
      PROVE  FilesKept'
  <2>1. Finish(c) /\ ~SavingSettings(c) /\ (Start \/ Stop) /\ UNCHANGED settingsVars
    BY <1>5 DEF StartBenchmark, StopBenchmark, Ready, SavingSettings
  <2> QED BY <1>1, <2>1, RequestDone, SettingsUnmoved, StartStopKeeps DEF FilesKept
<1>6. ASSUME NEW c \in Conn, UpdateSettings(c) \/ WriteSettings(c),
             UNCHANGED <<trainingVars, restarts>>
      PROVE  FilesKept'
  <2>1. UNCHANGED trainingVars
    BY <1>6
  <2> QED BY <1>1, <1>2, <1>6, <2>1, UpdateKeeps, WriteKeeps DEF FilesKept
<1>7. ASSUME NEW l \in LoopId, LoopStep(l), UNCHANGED <<sessionVars, settingsVars, restarts>>
      PROVE  FilesKept'
  <2>1. work' = work /\ UNCHANGED settingsVars
    BY <1>7 DEF sessionVars
  <2>2. WorkOK' /\ Untouched
    BY <1>1, <2>1 DEF WorkOK, Untouched, SavingSettings
  <2> QED BY <1>1, <1>7, <2>1, <2>2, LoopStepKeeps, SettingsUnmoved DEF FilesKept
<1> QED
  BY <1>3, <1>4, <1>5, <1>6, <1>7, RestartKeeps DEF Next, ServiceStep

\* A restart changes neither the strategy nor the model that is asked, unless it
\* hits a write, the last write failed, or two writers were at work at once.
THEOREM RestartAlwaysKeepsSettings == Spec => RestartKeepsSettings
<1>1. Init => FilesKept
  BY InitKept
<1>2. FilesKept /\ [Next]_vars => FilesKept'
  BY NextKept
<1>3. ASSUME FilesKept, Restart
      PROVE  /\ ~Saving /\ ~strategyOff => current' = current
             /\ (\A c \in Conn : ~SavingSettings(c)) /\ ~settingsOff =>
                  ModelUsed(settings') = ModelUsed(settings) /\ UsesModel(settings') = UsesModel(settings)
  BY <1>3, QuietFiles DEF Alike
<1>4. FilesKept /\ [Next]_vars =>
        [Restart =>
           /\ ~Saving /\ ~strategyOff => current' = current
           /\ (\A c \in Conn : ~SavingSettings(c)) /\ ~settingsOff =>
                ModelUsed(settings') = ModelUsed(settings) /\ UsesModel(settings') = UsesModel(settings)
        ]_vars
  BY <1>3
<1> QED BY <1>1, <1>2, <1>4, PTL DEF Spec, RestartKeepsSettings
=============================================================================
