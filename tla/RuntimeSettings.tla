---------------------------- MODULE RuntimeSettings ----------------------------
(***************************************************************************)
(* Whether the AI players ask a language model, and which: kept in memory  *)
(* under aiStateMu, and written to a file after the mutex is released.     *)
(***************************************************************************)
CONSTANTS Model,      \* names of models
          NoModel,    \* the empty name
          BaseModel,  \* the model of the environment, or NoModel
          Setting     \* bound: the settings asked for

ASSUME SettingAssumption ==
  /\ NoModel \notin Model /\ BaseModel \in Model \cup {NoModel}
  /\ Setting \subseteq [llm : BOOLEAN, model : Model \cup {NoModel}]

VARIABLES settings,    \* aiRuntimeSettings
          saved,       \* the settings file
          settingsOff  \* why the file may differ from memory (history)

settingsVars == <<settings, saved, settingsOff>>

\* defaultAIRuntimeSettings: the model of the environment, if there is one.
Defaults == [llm |-> BaseModel # NoModel, model |-> BaseModel]

ModelUsed(s) == IF s.model = NoModel THEN BaseModel ELSE s.model
UsesModel(s) == s.llm /\ ModelUsed(s) # NoModel

Refused(s) == s.llm /\ s.model = NoModel /\ BaseModel = NoModel

SettingsInit == settings = Defaults /\ saved = Defaults /\ settingsOff = FALSE

\* UpdateAIRuntimeSettings, while it holds the mutex and after it.
Update(s, othersSaving) ==
  /\ ~Refused(s)
  /\ settings' = s /\ settingsOff' = othersSaving
  /\ UNCHANGED saved

Write(s) ==
  \/ saved' = s /\ UNCHANGED <<settings, settingsOff>>
  \/ settingsOff' = TRUE /\ UNCHANGED <<settings, saved>>

\* Mutant: a file that switches the language model off counts for nothing.
LoadIfOn(f) == IF f.llm THEN f ELSE Defaults

\* loadAIRuntimeSettingsFromFile
Load(f) == [f EXCEPT !.model = IF @ = NoModel THEN Defaults.model ELSE @]
=============================================================================
