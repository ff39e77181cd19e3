---------------------------- MODULE Preferences -----------------------------
(***************************************************************************)
(* The preferences: values at paths, their defaults, the file they are     *)
(* kept in, the callback that applies the language, and the window that    *)
(* edits them.  A value that begins with "$" refers to another preference  *)
(* (or to the default) and is expanded when it is read.  The file is read  *)
(* by getInstance, again and again until it has been read to its end.      *)
(***************************************************************************)
EXTENDS Naturals, Sequences, SequencesExt

CONSTANTS
  Known,          \* the paths of the program, in the order of their names
  Unknown,        \* paths of another version: in a file at most, after the known ones
  language,       \* the path whose callback sets the locale
  Startup,        \* the paths that are looked up while the program starts
  Texts, Switches, Number,   \* strings, booleans, and a value no preference has the type of
  DefaultValue,   \* of every known path
  DEFAULT,        \* the value "$DEFAULT"; any other "$" value is the path it refers to
  On,             \* the switch that is on
  NoValue, Unreadable,       \* no entry in the file; an entry that stops the reading
  Missing, Torn, Stopped, Crashed, Closed,
  MaxEdits, MaxSets          \* bounds: edits of the file by hand; changes in the program

Sorted == Known \o Unknown
Tracked == ToSet(Known)
Paths  == ToSet(Sorted)
Values == Texts \union Switches \union {Number, DEFAULT} \union Paths
Contents == [Paths -> Values \union {NoValue, Unreadable}]
Sections == [Paths -> Values \union {NoValue}]
Instances == [m_sections : Sections, m_initialized : BOOLEAN, m_dirty : BOOLEAN, locale : Values]

\* A value has one type, the language is a text, and what stands for no value, no file and
\* no instance is none.
ASSUME PreferencesAssumption ==
  /\ Known \in Seq(Tracked) /\ Unknown \in Seq(Paths) /\ Startup \in Seq(Tracked)
  /\ DefaultValue \in [Tracked -> Texts \union Switches]
  /\ language \in Tracked /\ DefaultValue[language] \in Texts
  /\ \E off \in Switches : off # On /\ Switches = {On, off}
  /\ (Switches \union {Number}) \intersect (Texts \union {DEFAULT} \union Paths) = {}
  /\ Number \notin Switches
  /\ NoValue \notin Values /\ Unreadable \notin Values \union {NoValue}
  /\ Crashed \notin Values \union {NoValue} \union Instances /\ Stopped \notin Instances
  /\ Missing \notin Contents /\ Torn \notin Contents
  /\ MaxEdits \in Nat /\ MaxSets \in Nat

VARIABLES
  prefs,    \* the one instance of Preferences, and the locale
  entries,  \* what the editor window shows at every path, or Closed
  file,     \* the file, on the disk
  edits, sets,
  saved,    \* history: what the file holds since it was written to its end, untouched (by
            \* a program that had read all of its own, or holds values of the right types)
  whole,    \* history: the file could be read to its end when the program started
  asked,    \* history: the paths the last step was asked to change
  failed    \* history: the last start ended before there was a window

preferenceVars == <<prefs, entries, file, edits, sets, saved, whole, asked, failed>>

Running == prefs \notin {Stopped, Crashed}

-----------------------------------------------------------------------------
(* Values, types and references.                                           *)

IsReference(v) == v \in Paths \union {DEFAULT}
SameType(v, w) == \/ v \in Switches /\ w \in Switches
                  \/ v \notin Switches \union {Number} /\ w \notin Switches \union {Number}

\* Where the reference at a path leads, or the path itself.
Follow(sections, q) == IF sections[q] \in Paths THEN sections[q] ELSE q

\* Where the references lead from a path: the path they end at, after at most one
\* step per path, or Crashed if they run in a circle (the code calls itself until
\* the stack is full).
EndOfReferences(sections, p) ==
  LET walk[n \in 0..Len(Sorted)] == IF n = 0 THEN p ELSE Follow(sections, walk[n - 1])
      end == walk[Len(Sorted)]
  IN  IF sections[end] \in Paths THEN Crashed ELSE end

\* getPreferenceValue: NoValue unless what it finds has the type that is asked for.
\* "$DEFAULT" is the default of the path it stands at, not of the one that is read.
Expanded(sections, p, type) ==
  LET end == EndOfReferences(sections, p)
      found == IF end = Crashed THEN Crashed
               ELSE IF sections[end] # DEFAULT THEN sections[end]
               ELSE IF end \in Tracked THEN DefaultValue[end] ELSE NoValue
  IN  IF found = Crashed \/ (found # NoValue /\ SameType(found, type)) THEN found ELSE NoValue

\* The sections have a value at the path.
HasValue(sections, p) == sections[p] # NoValue

Circular(sections, p) == EndOfReferences(sections, p) = Crashed

-----------------------------------------------------------------------------
(* Reading and writing the file.                                           *)

\* The callback of the language takes the new value for a string.
Callback(P, new) ==
  IF new \in Switches \union {Number} THEN Crashed ELSE [P EXCEPT !.locale = new]

\* What is in the file before the first entry that stops the reading, and the entry
\* itself: of an unknown path it leaves the number 0.
FirstStop(f) == CHOOSE n \in 1..Len(Sorted) + 1 :
  /\ n \in 1..Len(Sorted) => f[Sorted[n]] = Unreadable
  /\ \A i \in 1..n - 1 : f[Sorted[i]] # Unreadable
Overlaid(f, sections) == [p \in Paths |->
  LET n == CHOOSE i \in 1..Len(Sorted) : Sorted[i] = p IN
    IF n < FirstStop(f) /\ f[p] # NoValue THEN f[p]
    ELSE IF n = FirstStop(f) /\ sections[p] = NoValue THEN Number
    ELSE sections[p]]

\* Mutant of Initialized: "$" values are expanded when they are loaded.
InitializedExpanded(P, f) ==
  LET seen == Overlaid(f, P.m_sections)
      loaded == [P EXCEPT !.m_sections = [p \in Paths |->
                   IF IsReference(seen[p]) /\ Expanded(seen, p, seen[p]) \in Values
                   THEN Expanded(seen, p, seen[p]) ELSE seen[p]]]
  IN  IF f = Torn THEN Crashed
      ELSE [loaded EXCEPT !.m_initialized = TRUE, !.m_dirty = FALSE, !.locale = loaded.m_sections[language]]

\* Mutant of Initialized: m_initialized is not set.
InitializedAgain(P, f) ==
  LET loaded == [P EXCEPT !.m_sections = Overlaid(f, @)]
      called == Callback(loaded, loaded.m_sections[language])
  IN  IF f = Torn THEN Crashed ELSE IF called = Crashed THEN Crashed ELSE [called EXCEPT !.m_dirty = FALSE]

\* initialize.  The parser throws on a file that is cut off, and nothing catches it.
Initialized(P, f) ==
  LET loaded == [P EXCEPT !.m_sections = Overlaid(f, @)]
      called == IF Overlaid(f, [p \in Paths |-> NoValue])[language] = NoValue
                THEN loaded ELSE Callback(loaded, loaded.m_sections[language])
  IN  IF f = Torn THEN Crashed
      ELSE IF called = Crashed \/ FirstStop(f) <= Len(Sorted) THEN called
      ELSE [called EXCEPT !.m_initialized = TRUE, !.m_dirty = FALSE]

\* getInstance.
GetInstance(P, f) ==
  IF P = Crashed \/ f = Missing THEN P ELSE IF P.m_initialized THEN P ELSE Initialized(P, f)

\* validateLoadedPreferenceTypes: references are not checked.
Validated(P) == \A p \in Tracked :
  IsReference(P.m_sections[p]) \/ SameType(P.m_sections[p], DefaultValue[p])

\* resetToDefaults.
Defaults(P) ==
  [P EXCEPT !.m_sections = [p \in Paths |-> IF p \in Tracked THEN DefaultValue[p] ELSE NoValue],
            !.m_dirty = FALSE, !.locale = DefaultValue[language]]

\* writeToFile: every value of every section, as it is (writeToJson), "$" values and
\* unknown paths included.
Written(P) == P.m_sections

\* setPreferenceValue: a value of another type than the default is refused.
SetValue(P, p, v) ==
  IF P = Crashed \/ p \notin Tracked THEN P
  ELSE IF ~SameType(v, DefaultValue[p]) \/ ~HasValue(P.m_sections, p) THEN P
  ELSE LET called == IF p = language THEN Callback(P, v) ELSE P
       IN  [called EXCEPT !.m_sections[p] = v, !.m_dirty = TRUE]

-----------------------------------------------------------------------------
(* The program starts (main, initializePreferences).                       *)

NewInstance ==
  Defaults([m_sections |-> [p \in Paths |-> NoValue], m_initialized |-> FALSE,
            m_dirty |-> FALSE, locale |-> DEFAULT])

PreferencesInit ==
  /\ prefs = Stopped /\ entries = Closed /\ file = Missing
  /\ edits = 0 /\ sets = 0
  /\ saved = NoValue /\ whole = FALSE /\ asked = {} /\ failed = FALSE

\* The path of the log file, and what the main window looks up.
LooksUp(P) == \A i \in 1..Len(Startup) : ~Circular(P.m_sections, Startup[i])

Starts(P) ==
  /\ prefs' = IF P # Crashed /\ LooksUp(P) THEN P ELSE Stopped
  /\ failed' = (P = Crashed \/ ~LooksUp(P))

\* There is no file: the defaults are written to one, which the next getInstance reads.
StartWithoutFile ==
  /\ prefs = Stopped /\ file = Missing
  /\ file' = Written(NewInstance)
  /\ Starts(GetInstance(NewInstance, file'))
  /\ saved' = file' /\ whole' = TRUE /\ asked' = Paths
  /\ UNCHANGED <<entries, edits, sets>>

StartKilled ==
  /\ prefs = Stopped /\ file = Missing
  /\ file' = Torn
  /\ saved' = NoValue /\ failed' = FALSE
  /\ UNCHANGED <<prefs, entries, edits, sets, whole, asked>>

StartWithFile ==
  /\ prefs = Stopped /\ file # Missing
  /\ LET P == GetInstance(NewInstance, file)
     IN  Starts(IF P = Crashed THEN P ELSE IF Validated(P) THEN GetInstance(P, file) ELSE Crashed)
  /\ whole' = (file # Torn /\ FirstStop(file) > Len(Sorted))
  /\ asked' = Paths
  /\ UNCHANGED <<entries, file, edits, sets, saved>>

-----------------------------------------------------------------------------
(* The window that edits them (ConfigEditorWindow).                        *)

\* After a step in the window: the program goes on with the instance and the entries
\* of st, or has crashed.
Becomes(st) ==
  /\ prefs' = IF st.P = Crashed THEN Stopped ELSE st.P
  /\ entries' = IF st.P = Crashed THEN Closed ELSE st.shown
  /\ failed' = FALSE

\* The entry of a preference: the value it has, expanded, or another if there is none.
\* A check button that has been off emits "toggled" when it is switched on.
Refresh(st, p, otherwise) ==
  LET P == GetInstance(st.P, file)
      read == IF P = Crashed THEN Crashed ELSE Expanded(P.m_sections, p, DefaultValue[p])
      new == IF read = NoValue THEN otherwise ELSE read
  IN  IF read = Crashed THEN [st EXCEPT !.P = Crashed]
      ELSE [P |-> IF DefaultValue[p] \in Switches /\ new # st.shown[p]
                  THEN SetValue(GetInstance(P, file), p, new) ELSE P,
            shown |-> [st.shown EXCEPT ![p] = new]]

\* The entries are refreshed in the order of their paths.
RefreshAll(st, otherwise) ==
  LET after[n \in 0..Len(Known)] ==
        IF n = 0 THEN st ELSE Refresh(after[n - 1], Known[n], otherwise[Known[n]])
  IN  after[Len(Known)]

\* Every check button is off until its value is known (the texts are set to it).
NewEntries == [p \in Tracked |->
  IF DefaultValue[p] \in Switches THEN CHOOSE s \in Switches : s # On ELSE DefaultValue[p]]

OpenEditor ==
  /\ Running /\ entries = Closed
  /\ Becomes(RefreshAll([P |-> prefs, shown |-> NewEntries], DefaultValue))
  /\ asked' = {}
  /\ UNCHANGED <<file, edits, sets, saved, whole>>

\* A text entry is left, or Enter is pressed, with a text that was typed or was there.
CommitEntry(p, v) ==
  /\ Running /\ entries # Closed /\ sets < MaxSets
  /\ DefaultValue[p] \in Texts
  /\ v \in Texts \union {DEFAULT} \union Paths \union {entries[p]}
  /\ Becomes([P |-> SetValue(GetInstance(prefs, file), p, v), shown |-> [entries EXCEPT ![p] = v]])
  /\ asked' = {p} /\ sets' = sets + 1
  /\ UNCHANGED <<file, edits, saved, whole>>

ToggleEntry(p) ==
  /\ Running /\ entries # Closed /\ sets < MaxSets
  /\ DefaultValue[p] \in Switches
  /\ \E v \in Switches \ {entries[p]} :
       Becomes([P |-> SetValue(GetInstance(prefs, file), p, v), shown |-> [entries EXCEPT ![p] = v]])
  /\ asked' = {p} /\ sets' = sets + 1
  /\ UNCHANGED <<file, edits, saved, whole>>

\* Mutant of ResetEntries: the entries are not updated.
ResetNoEntries(P) == [P |-> P, shown |-> entries]

\* Every updater runs, after the reset.
ResetEntries(P) == RefreshAll([P |-> P, shown |-> entries], entries)

ResetButton ==
  /\ Running /\ entries # Closed
  /\ LET P == GetInstance(prefs, file)
     IN  Becomes(IF P = Crashed THEN [P |-> P, shown |-> entries] ELSE ResetEntries(Defaults(P)))
  /\ asked' = Paths
  /\ UNCHANGED <<file, edits, sets, saved, whole>>

\* The file is truncated and written: its end, a failure to open it, or the end of
\* the program before that of the file.
SaveButton ==
  /\ Running /\ entries # Closed
  /\ LET P == GetInstance(prefs, file) IN
       \/ /\ P = Crashed
          /\ Becomes([P |-> P, shown |-> entries])
          /\ UNCHANGED <<file, saved>>
       \/ /\ P # Crashed
          /\ Becomes([P |-> P, shown |-> entries])
          /\ \/ /\ file' = Written(P)
                /\ saved' = IF whole \/ Validated(P) THEN P.m_sections ELSE NoValue
             \/ UNCHANGED <<file, saved>>
       \/ /\ P # Crashed
          /\ Becomes([P |-> Crashed, shown |-> entries])
          /\ file' = Torn /\ saved' = NoValue
  /\ asked' = {}
  /\ UNCHANGED <<edits, sets, whole>>

EndSession ==
  /\ Running
  /\ prefs' = Stopped /\ entries' = Closed
  /\ asked' = {} /\ failed' = FALSE
  /\ UNCHANGED <<file, edits, sets, saved, whole>>

\* The user edits the file by hand, or removes it.
EditFile(p, v) ==
  /\ file \notin {Missing, Torn} /\ edits < MaxEdits
  /\ file' = [file EXCEPT ![p] = v]
  /\ edits' = edits + 1 /\ saved' = NoValue /\ asked' = {} /\ failed' = FALSE
  /\ UNCHANGED <<prefs, entries, sets, whole>>

RemoveFile ==
  /\ file # Missing /\ edits < MaxEdits
  /\ file' = Missing
  /\ edits' = edits + 1 /\ saved' = NoValue /\ asked' = {} /\ failed' = FALSE
  /\ UNCHANGED <<prefs, entries, sets, whole>>

PreferencesNext ==
  \/ StartWithoutFile \/ StartKilled \/ StartWithFile \/ EndSession
  \/ OpenEditor \/ ResetButton \/ SaveButton \/ RemoveFile
  \/ \E p \in Tracked : ToggleEntry(p) \/ \E v \in Values : CommitEntry(p, v)
  \/ \E p \in Paths, v \in Values \union {NoValue, Unreadable} : EditFile(p, v)

PreferencesSpec == PreferencesInit /\ [][PreferencesNext]_preferenceVars

-----------------------------------------------------------------------------
(* Properties.                                                             *)

\* A preference with a plain value changes only when the user changes it or resets
\* all, if the file could be read at the start: it is not read again behind his back.
ValuesStick ==
  [][ Running /\ prefs' # Stopped /\ whole =>
        \A p \in Paths \ asked' :
          prefs'.m_sections[p] # prefs.m_sections[p] => IsReference(prefs.m_sections[p]) ]_preferenceVars

\* A file that the program wrote to its end, and nobody touched, is loaded by the next
\* start exactly as it was saved, "$" values included; only references in a circle can
\* make that start fail.
SavedIsLoaded ==
  [][ prefs = Stopped /\ saved # NoValue /\ saved' = saved =>
        /\ prefs' # Stopped => prefs'.m_sections = saved
        /\ failed' => failed \/ \E i \in 1..Len(Startup) : Circular(saved, Startup[i]) ]_preferenceVars

\* The locale of the program is the language of its preferences, whichever way the
\* language came to be what it is: start, load, set, reset or a file read again; and what
\* the window shows is what the program uses, but for references, which it shows expanded,
\* and unless the file is being read again and again.
CopiesFollow ==
  /\ Running => prefs.locale = prefs.m_sections[language]
  /\ entries # Closed /\ whole =>
       \A p \in Tracked : IsReference(prefs.m_sections[p]) \/ entries[p] = prefs.m_sections[p]
=============================================================================
