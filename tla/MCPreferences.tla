---------------------------- MODULE MCPreferences ---------------------------
(* Preferences with the path of the log file, the language, a switch and a   *)
(* path of another version, in the order in which a file holds them.         *)
EXTENDS Preferences

CONSTANTS logPath, openLogWindow, old, english, french, Off

MCKnown == <<logPath, openLogWindow, language>>
MCUnknown == <<old>>
MCStartup == <<logPath, openLogWindow>>
MCDefault == [p \in {logPath, openLogWindow, language} |->
  IF p = openLogWindow THEN Off ELSE english]
=============================================================================
