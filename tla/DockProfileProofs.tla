------------------------- MODULE DockProfileProofs -------------------------
(***************************************************************************)
(* Agreement of the four copies of the settings, for any profiles, texts,  *)
(* latencies, links and bitrates.                                          *)
(***************************************************************************)
EXTENDS DockProfile, TLAPS

(* The inductive invariant: the copies agree, and have their types. *)
DInv == TypeOK /\ LinksAreScoped /\ RunsItsProfile /\ ControlsAgree

-----------------------------------------------------------------------------
(* The query of a cleaned URL. *)
LEMMA NoQueryType == NoQuery \in Query
BY ProfileAssumption DEF NoQuery, Query

(* A null pointer is not an object. *)
LEMMA NothingIsNone ==
  /\ \A s \in Settings : s # Nothing
  /\ \A c \in Config : c # Nothing
BY ProfileAssumption

(* saveProfile writes a profile. *)
LEMMA SavedType ==
  ASSUME NEW p \in Profile, NEW d \in Dock
  PROVE  Saved(p, d) \in Profile
<1>1. NoQuery \in Query
  BY NoQueryType
<1>2. LatencyOf(d) \in Latencies
  BY DEF Dock, LatencyOf, Query
<1> QED
  BY <1>1, <1>2 DEF Profile, Dock, Saved

(* loadProfile fills the dock from any profile. *)
LEMMA LoadedType ==
  ASSUME NEW p \in Profile, NEW old \in Dock, NEW built \in BOOLEAN
  PROVE  Loaded(p, old, built) \in Dock
BY ProfileAssumption DEF Profile, Dock, Loaded, StreamOf, PassOf, TextOf,
   Query, NoQuery, SelectedOf, SecretErrorAfter, LoadedMax, Undecipherable

(* The migration of a profile gives a profile with the same links. *)
LEMMA MigratedType ==
  ASSUME NEW p \in Profile, NEW d \in Dock
  PROVE  Migrated(p, d) \in Profile /\ Migrated(p, d).links = p.links
<1>1. Saved(p, d) \in Profile /\ Saved(p, d).links = p.links
  BY SavedType DEF Saved, Profile
<1>2. /\ [p EXCEPT !.query = NoQuery] \in Profile
      /\ [p EXCEPT !.query = NoQuery].links = p.links
  BY ProfileAssumption DEF Profile, Query, NoQuery
<1> QED
  BY <1>1, <1>2 DEF Migrated

(* A new dock, and settings that were just created. *)
LEMMA EmptyTypes == Empty \in Dock /\ Blank \in Settings
<1>1. Empty \in Dock
  BY ProfileAssumption DEF Empty, Dock, NoQuery, Query
<1>2. Blank \in Settings
  BY ProfileAssumption DEF Blank, Settings, NoQuery, Query
<1> QED
  BY <1>1, <1>2

(* What a dock that loads profile p shows, and what it leaves stored. *)
LEMMA LoadTypes ==
  ASSUME TypeOK, NEW p \in Profiles, NEW old \in Dock, NEW built \in BOOLEAN,
         LoadProfile(p, old, built)
  PROVE  /\ store' \in [Profiles -> Profile] /\ current' \in Profiles
         /\ dock' \in Dock /\ LinksAreScoped'
<1> DEFINE d == Loaded(store[p], old, built)
<1>1. store \in [Profiles -> Profile] /\ store[p] \in Profile
  BY DEF TypeOK
<1>2. d \in Dock /\ d.selected = store[p].links
  BY <1>1, LoadedType DEF Loaded, SelectedOf
<1>3. /\ Migrated(store[p], d) \in Profile
      /\ Migrated(store[p], d).links = store[p].links
  BY <1>1, <1>2, MigratedType
<1>4. /\ current' = p /\ dock' = d
      /\ store' = [store EXCEPT ![p] = Migrated(store[p], d)]
  BY DEF LoadProfile
<1> HIDE DEF d
<1>5. store'[current'].links = dock'.selected
  BY <1>1, <1>2, <1>3, <1>4
<1> QED
  BY <1>1, <1>2, <1>3, <1>4, <1>5 DEF LinksAreScoped

(* Normalising keeps the type of the settings. *)
LEMMA NormalizedType ==
  ASSUME NEW s \in Settings
  PROVE  Split(s) \in Settings /\ Normalized(s) \in Settings
<1>1. ASSUME NEW r \in Settings PROVE Split(r) \in Settings
  <2>1. NoQuery \in Query
    BY NoQueryType
  <2>2. /\ IF r.query.stream # Absent THEN r.query.stream \in Texts ELSE r.stream \in Texts
        /\ IF r.query.pass # Absent THEN r.query.pass \in Texts ELSE r.plain \in Texts
        /\ r.query.latency \in Latencies
    BY DEF Settings, Query
  <2> QED
    BY <2>1, <2>2 DEF Settings, Split
<1>2. ASSUME NEW r \in Settings PROVE NormalizePassphrase(r) \in Settings
  BY ProfileAssumption DEF Settings, NormalizePassphrase, Query
<1> QED
  BY <1>1, <1>2 DEF Normalized

(* The settings that a start hands to the output, which finds in them what  *)
(* the dock shows: they carry no query and no plain passphrase.             *)
LEMMA AssembledSettings ==
  ASSUME dock \in Dock
  PROVE  LET s == Normalized(Assembled) c == Configured(s) IN
         /\ Assembled \in Settings /\ s \in Settings /\ c \in Config
         /\ s.auto = dock.auto /\ s.manual = dock.manual /\ s.max = dock.max
         /\ c.stream = dock.stream /\ c.pass = dock.pass
         /\ c.latency = LatencyOf(dock)
         /\ c.auto = dock.auto /\ c.manual = dock.manual /\ c.max = dock.max
<1> DEFINE s == Normalized(Assembled)
           c == Configured(s)
<1>1. Assembled \in Settings
  BY ProfileAssumption DEF Assembled, Settings, Dock, LatencyOf, Query, NoQuery
<1>2. /\ Split(Assembled).stream = dock.stream /\ Split(Assembled).plain = NoText
      /\ Split(Assembled).secret = dock.pass
      /\ Split(Assembled).latency = LatencyOf(dock)
      /\ Split(Assembled).auto = dock.auto /\ Split(Assembled).manual = dock.manual
      /\ Split(Assembled).max = dock.max
  BY DEF Split, Assembled, NoQuery
<1>3. s \in Settings
  BY <1>1, NormalizedType
<1>4. /\ s.stream = dock.stream /\ s.plain = NoText /\ s.secret = dock.pass
      /\ s.latency = LatencyOf(dock)
      /\ s.auto = dock.auto /\ s.manual = dock.manual /\ s.max = dock.max
  <2>1. Split(Assembled) \in Settings
    BY <1>1, NormalizedType
  <2> QED
    BY <1>2, <2>1 DEF Normalized, NormalizePassphrase, Settings
<1> HIDE DEF s
<1>5. /\ c.stream = s.stream /\ c.pass = dock.pass /\ c.latency = s.latency
      /\ c.auto = s.auto /\ c.manual = s.manual /\ c.max = s.max
  BY <1>4 DEF Configured, PassphraseFrom
<1>6. c \in Config
  <2>1. /\ s.stream \in Texts /\ s.latency \in Latencies /\ s.auto \in BOOLEAN
        /\ CredentialError(s) \in BOOLEAN
    BY <1>3 DEF Settings, CredentialError
  <2>2. PassphraseFrom(s) \in Texts
    BY <1>3 DEF Settings, PassphraseFrom
  <2>3. s.manual \in Rates /\ s.max \in Rates
    BY <1>4 DEF Dock
  <2> QED
    BY <2>1, <2>2, <2>3 DEF Configured, Config
<1> QED
  BY <1>1, <1>3, <1>4, <1>5, <1>6 DEF s

(* The latency of a URL is one, and can be shown. *)
LEMMA LatencyTaken ==
  ASSUME NEW d \in Dock
  PROVE  /\ [d EXCEPT !.latency = LatencyOf(d)] \in Dock
         /\ [d EXCEPT !.latency = LatencyOf(d)].selected = d.selected
         /\ [d EXCEPT !.latency = LatencyOf(d)].auto = d.auto
         /\ [d EXCEPT !.latency = LatencyOf(d)].manual = d.manual
         /\ [d EXCEPT !.latency = LatencyOf(d)].max = d.max
<1>1. LatencyOf(d) \in Latencies
  BY DEF Dock, Query, LatencyOf
<1> QED
  BY <1>1 DEF Dock

(* Edits are counted. *)
LEMMA EditCounted ==
  ASSUME TypeOK, Edit
  PROVE  edits' \in Nat
<1>1. edits \in Nat
  BY DEF TypeOK
<1> QED
  BY <1>1 DEF Edit

(* After saveProfile the selected profile holds what the dock shows. *)
LEMMA SavedProfile ==
  ASSUME TypeOK, LinksAreScoped, ProfileSaved
  PROVE  /\ store' \in [Profiles -> Profile] /\ current' \in Profiles
         /\ dock' \in Dock /\ edits' \in Nat /\ LinksAreScoped'
         /\ store'[current'].stream = dock.stream
         /\ store'[current'].secret = dock.pass
         /\ store'[current'].latency = LatencyOf(dock)
         /\ store'[current'].query = NoQuery
         /\ dock'.auto = dock.auto /\ dock'.manual = dock.manual
         /\ dock'.max = dock.max
<1> DEFINE p == Saved(store[current], dock)
<1>1. /\ store \in [Profiles -> Profile] /\ current \in Profiles /\ dock \in Dock
      /\ store[current] \in Profile /\ edits \in Nat
  BY DEF TypeOK
<1>2. /\ p \in Profile /\ p.stream = dock.stream /\ p.secret = dock.pass
      /\ p.latency = LatencyOf(dock) /\ p.query = NoQuery
      /\ p.links = store[current].links
  BY <1>1, SavedType DEF Saved, Profile
<1>3. /\ store' = [store EXCEPT ![current] = p] /\ current' = current
      /\ dock' = [dock EXCEPT !.latency = LatencyOf(dock)] /\ edits' = edits
  BY DEF ProfileSaved
<1>4. /\ dock' \in Dock /\ dock'.selected = dock.selected
      /\ dock'.auto = dock.auto /\ dock'.manual = dock.manual
      /\ dock'.max = dock.max
  BY <1>1, <1>3, LatencyTaken
<1> HIDE DEF p
<1>5. store' \in [Profiles -> Profile] /\ store'[current'] = p
  BY <1>1, <1>2, <1>3
<1> QED
  BY <1>1, <1>2, <1>3, <1>4, <1>5 DEF LinksAreScoped

(* A start configures the output from the dock. *)
LEMMA StartedOutput ==
  ASSUME TypeOK, NEW started \in BOOLEAN, StartOutput(started)
  PROVE  /\ settings' \in Settings /\ output' \in Config
         /\ settings'.auto = dock.auto /\ settings'.manual = dock.manual
         /\ settings'.max = dock.max /\ output'.max = dock.max
         /\ output'.stream = dock.stream /\ output'.pass = dock.pass
         /\ output'.latency = LatencyOf(dock)
         /\ output'.auto = (dock.auto /\ (started => dynamic'))
         /\ running' = started
<1> DEFINE c == Configured(Normalized(Assembled))
           auto == dock.auto /\ (started => dynamic')
<1>1. dock \in Dock
  BY DEF TypeOK
<1>2. /\ settings' \in Settings /\ c \in Config
      /\ settings'.auto = dock.auto /\ settings'.manual = dock.manual
      /\ settings'.max = dock.max
      /\ c.stream = dock.stream /\ c.pass = dock.pass
      /\ c.latency = LatencyOf(dock) /\ c.auto = dock.auto /\ c.max = dock.max
  BY <1>1, AssembledSettings DEF StartOutput
<1>3. /\ output' = [c EXCEPT !.auto = c.auto /\ (started => dynamic')]
      /\ running' = started
  BY DEF StartOutput
<1> HIDE DEF c
<1>4. output' = [c EXCEPT !.auto = auto] /\ auto \in BOOLEAN
  BY <1>2, <1>3
<1> HIDE DEF auto
<1>5. /\ output' \in Config /\ output'.max = c.max /\ output'.stream = c.stream
      /\ output'.pass = c.pass /\ output'.latency = c.latency
      /\ output'.auto = auto
  BY <1>2, <1>4 DEF Config
<1> QED
  BY <1>2, <1>3, <1>5 DEF auto

(* A check box changes the links of dock and profile in the same way. *)
LEMMA LinkChange ==
  ASSUME TypeOK, NEW l \in Links, ToggleLink(l)
  PROVE  \E on \in SUBSET Links :
           /\ dock' = [dock EXCEPT !.selected = on]
           /\ store' = [store EXCEPT ![current].links = on]
<1> DEFINE on == IF l \in dock.selected THEN dock.selected \ {l}
                                        ELSE dock.selected \union {l}
<1>1. dock.selected \in SUBSET Links
  BY DEF TypeOK, Dock
<1>2. on \in SUBSET Links
  BY <1>1
<1>3. /\ dock' = [dock EXCEPT !.selected = on]
      /\ store' = [store EXCEPT ![current].links = on]
  BY DEF ToggleLink
<1> HIDE DEF on
<1> QED
  BY <1>2, <1>3

-----------------------------------------------------------------------------
(* What a change of the bitrate controls leaves as it is. *)
BitratesOnly ==
  /\ UNCHANGED <<store, current, running>>
  /\ edits' \in Nat /\ dock' \in Dock /\ dock'.selected = dock.selected
  /\ settings' \in Settings \union {Nothing}
  /\ settings # Nothing => settings' # Nothing
  /\ output' \in Config \union {Nothing}
  /\ output' = Nothing <=> output = Nothing
  /\ output # Nothing => /\ output'.stream = output.stream
                         /\ output'.pass = output.pass
                         /\ output'.latency = output.latency

(* The mode and the manual bitrate are changed together. *)
LEMMA ControlChange ==
  ASSUME TypeOK, ControlsAgree, NEW auto \in BOOLEAN, NEW r \in Rates,
         Edit, TRUE \in Answers,
         UNCHANGED <<store, current, running, dynamic>>,
         dock' \in Dock, dock'.selected = dock.selected, dock'.auto = auto,
         dock'.manual = r, dock'.max = dock.max,
         settings' = Changed([settings EXCEPT !.auto = auto, !.manual = r]),
         output' = IF running THEN [output EXCEPT !.auto = auto, !.manual = r]
                              ELSE output
  PROVE  BitratesOnly /\ ControlsAgree'
<1>1. edits' \in Nat
  BY EditCounted
<1>2. /\ settings \in Settings \union {Nothing}
      /\ output \in Config \union {Nothing}
      /\ running => output # Nothing /\ settings # Nothing
  BY DEF TypeOK
<1>3. settings # Nothing =>
        /\ settings' \in Settings /\ settings' # Nothing
        /\ settings'.auto = auto /\ settings'.manual = r
        /\ settings'.max = settings.max
  <2> SUFFICES ASSUME settings # Nothing
               PROVE  /\ settings' \in Settings /\ settings' # Nothing
                      /\ settings'.auto = auto /\ settings'.manual = r
                      /\ settings'.max = settings.max
    OBVIOUS
  <2>1. settings \in Settings
    BY <1>2
  <2>2. settings' = [settings EXCEPT !.auto = auto, !.manual = r]
    BY DEF Changed
  <2>3. settings' \in Settings
    BY <2>1, <2>2 DEF Settings
  <2> QED
    BY <2>1, <2>2, <2>3, NothingIsNone DEF Settings
<1>4. settings = Nothing => settings' = Nothing
  BY DEF Changed
<1>5. running =>
        /\ output' \in Config /\ output' # Nothing
        /\ output'.stream = output.stream /\ output'.pass = output.pass
        /\ output'.latency = output.latency
        /\ output'.auto = auto /\ output'.max = output.max
  <2> SUFFICES ASSUME running
               PROVE  /\ output' \in Config /\ output' # Nothing
                      /\ output'.stream = output.stream
                      /\ output'.pass = output.pass
                      /\ output'.latency = output.latency
                      /\ output'.auto = auto /\ output'.max = output.max
    OBVIOUS
  <2>1. output \in Config
    BY <1>2
  <2>2. output' = [output EXCEPT !.auto = auto, !.manual = r]
    OBVIOUS
  <2>3. output' \in Config
    BY <2>1, <2>2 DEF Config
  <2> QED
    BY <2>1, <2>2, <2>3, NothingIsNone DEF Config
<1>6. ~running => output' = output
  OBVIOUS
<1>7. BitratesOnly
  BY <1>1, <1>2, <1>3, <1>4, <1>5, <1>6 DEF BitratesOnly
<1>8. ControlsAgree'
  <2>1. running => dynamic
    BY DEF Answers
  <2>2. running =>
          /\ dock'.auto = settings'.auto
          /\ output'.auto = (dock'.auto /\ dynamic)
    BY <1>2, <1>3, <1>5, <2>1, Zenon
  <2>3. running =>
          /\ dock'.max = settings'.max /\ settings'.max = output'.max
          /\ dock'.manual = settings'.manual
    BY <1>2, <1>3, <1>5 DEF ControlsAgree
  <2>4. running' = running /\ dynamic' = dynamic
    OBVIOUS
  <2> QED
    BY <2>2, <2>3, <2>4 DEF ControlsAgree
<1> QED
  BY <1>7, <1>8

(* The maximum is changed. *)
LEMMA MaxChange ==
  ASSUME TypeOK, ControlsAgree, NEW r \in Rates, Edit,
         UNCHANGED <<store, current, running, dynamic>>,
         dock' \in Dock, dock'.selected = dock.selected, dock'.auto = dock.auto,
         dock'.manual = dock.manual, dock'.max = r,
         settings' = Changed([settings EXCEPT !.max = r]),
         output' = IF running THEN [output EXCEPT !.max = r] ELSE output
  PROVE  BitratesOnly /\ ControlsAgree'
<1>1. edits' \in Nat
  BY EditCounted
<1>2. /\ settings \in Settings \union {Nothing}
      /\ output \in Config \union {Nothing}
      /\ running => output # Nothing /\ settings # Nothing
  BY DEF TypeOK
<1>3. ASSUME settings # Nothing
      PROVE  /\ settings' \in Settings /\ settings' # Nothing
             /\ settings'.auto = settings.auto /\ settings'.max = r
             /\ settings'.manual = settings.manual
  <2>1. settings \in Settings
    BY <1>2, <1>3
  <2>2. settings' = [settings EXCEPT !.max = r]
    BY <1>3 DEF Changed
  <2>3. settings' \in Settings
    BY <2>1, <2>2 DEF Settings
  <2> QED
    BY <2>1, <2>2, <2>3, NothingIsNone DEF Settings
<1>4. settings = Nothing => settings' = Nothing
  BY DEF Changed
<1>5. ASSUME running
      PROVE  /\ output' \in Config /\ output' # Nothing
             /\ output'.stream = output.stream /\ output'.pass = output.pass
             /\ output'.latency = output.latency
             /\ output'.auto = output.auto /\ output'.max = r
  <2>1. output \in Config
    BY <1>2, <1>5
  <2>2. output' = [output EXCEPT !.max = r]
    BY <1>5
  <2>3. output' \in Config
    BY <2>1, <2>2 DEF Config
  <2> QED
    BY <2>1, <2>2, <2>3, NothingIsNone DEF Config
<1>6. ~running => output' = output
  OBVIOUS
<1>7. BitratesOnly
  BY <1>1, <1>2, <1>3, <1>4, <1>5, <1>6 DEF BitratesOnly
<1>8. ControlsAgree'
  <2>1. running' = running /\ dynamic' = dynamic
    OBVIOUS
  <2> QED
    BY <1>2, <1>3, <1>5, <2>1 DEF ControlsAgree
<1> QED
  BY <1>7, <1>8

(* The manual bitrate is changed; the encoder may refuse it. *)
LEMMA ManualChange ==
  ASSUME TypeOK, ControlsAgree, NEW r \in Rates, NEW taken, EditManual(r, taken)
  PROVE  BitratesOnly /\ ControlsAgree'
<1> USE DEF profileVars
<1>1. edits' \in Nat
  BY EditCounted DEF EditManual
<1>2. /\ settings \in Settings \union {Nothing} /\ dock \in Dock
      /\ output \in Config \union {Nothing}
      /\ running => output # Nothing /\ settings # Nothing
  BY DEF TypeOK
<1>3. UNCHANGED <<store, current, running, dynamic>>
  BY DEF EditManual
<1>4. /\ dock' \in Dock /\ dock'.selected = dock.selected
      /\ dock'.auto = dock.auto /\ dock'.max = dock.max /\ dock'.manual = r
  <2>1. dock' = [dock EXCEPT !.manual = r]
    BY DEF EditManual
  <2> QED
    BY <1>2, <2>1 DEF Dock
<1>5. ASSUME settings # Nothing
      PROVE  /\ settings' \in Settings /\ settings' # Nothing
             /\ settings'.auto = settings.auto /\ settings'.max = settings.max
             /\ settings'.manual = r
  <2>1. settings \in Settings
    BY <1>2, <1>5
  <2>2. settings' = [settings EXCEPT !.manual = r]
    BY <1>5 DEF EditManual, Changed
  <2>3. settings' \in Settings
    BY <2>1, <2>2 DEF Settings
  <2> QED
    BY <2>1, <2>2, <2>3, NothingIsNone DEF Settings
<1>6. settings = Nothing => settings' = Nothing
  BY DEF EditManual, Changed
<1>7. ASSUME running
      PROVE  /\ output' \in Config /\ output' # Nothing
             /\ output'.stream = output.stream /\ output'.pass = output.pass
             /\ output'.latency = output.latency
             /\ output'.auto = output.auto /\ output'.max = output.max
  <2>1. output \in Config
    BY <1>2, <1>7
  <2>2. output' = [output EXCEPT !.manual = r] \/ output' = output
    BY <1>7 DEF EditManual
  <2>3. output' \in Config
    BY <2>1, <2>2 DEF Config
  <2> QED
    BY <2>1, <2>2, <2>3, NothingIsNone DEF Config
<1>8. ~running => output' = output
  BY DEF EditManual
<1>9. BitratesOnly
  BY <1>1, <1>2, <1>3, <1>4, <1>5, <1>6, <1>7, <1>8 DEF BitratesOnly
<1>10. ControlsAgree'
  <2>1. running' = running /\ dynamic' = dynamic
    BY <1>3
  <2> QED
    BY <1>2, <1>4, <1>5, <1>7, <2>1 DEF ControlsAgree
<1> QED
  BY <1>9, <1>10

(* Every handler and request that changes a bitrate control. *)
LEMMA BitratesStep ==
  ASSUME TypeOK, ControlsAgree, Bitrates
  PROVE  BitratesOnly /\ ControlsAgree'
<1> USE DEF profileVars
<1>1. /\ dock \in Dock /\ dock.auto \in BOOLEAN
      /\ dock.manual \in Rates /\ dock.max \in Rates
  BY DEF TypeOK, Dock
<1>2. CASE EditAuto
  <2> DEFINE auto == ~dock.auto
  <2>1. /\ dock' = [dock EXCEPT !.auto = auto] /\ auto \in BOOLEAN
        /\ settings' = Changed([settings EXCEPT !.auto = auto,
                                               !.manual = dock.manual])
        /\ output' = IF running
                       THEN [output EXCEPT !.auto = auto, !.manual = dock.manual]
                       ELSE output
        /\ Edit /\ TRUE \in Answers
        /\ UNCHANGED <<store, current, running, dynamic>>
    BY <1>1, <1>2 DEF EditAuto
  <2>2. /\ dock' \in Dock /\ dock'.selected = dock.selected
        /\ dock'.auto = auto /\ dock'.manual = dock.manual
        /\ dock'.max = dock.max
    BY <1>1, <2>1 DEF Dock
  <2> HIDE DEF auto
  <2> QED
    BY <1>1, <2>1, <2>2, ControlChange
<1>3. CASE \E r \in Rates, taken \in Answers : EditManual(r, taken)
  BY <1>3, ManualChange
<1>4. CASE \E r \in Rates, taken \in MaxAnswers : EditMax(r, taken)
  <2>1. PICK r \in Rates, taken \in MaxAnswers : EditMax(r, taken)
    BY <1>4
  <2>2. Edit /\ UNCHANGED <<store, current, running, dynamic>>
    BY <2>1 DEF EditMax
  <2>3. CASE taken
    <3>1. /\ dock' = [dock EXCEPT !.max = r]
          /\ settings' = Changed([settings EXCEPT !.max = r])
          /\ output' = IF running THEN [output EXCEPT !.max = r] ELSE output
      BY <2>1, <2>3 DEF EditMax, ShownMax
    <3>2. /\ dock' \in Dock /\ dock'.selected = dock.selected
          /\ dock'.auto = dock.auto /\ dock'.manual = dock.manual
          /\ dock'.max = r
      BY <1>1, <3>1 DEF Dock
    <3> QED
      BY <2>2, <3>1, <3>2, MaxChange
  <2>4. CASE ~taken
    <3>1. running
      BY <2>1, <2>4 DEF MaxAnswers
    <3>2. dock' = [dock EXCEPT !.max = dock.max]
      BY <2>1, <2>4, <3>1 DEF EditMax, ShownMax, ControlsAgree
    <3>3. /\ dock' \in Dock /\ dock'.selected = dock.selected
          /\ dock'.auto = dock.auto /\ dock'.manual = dock.manual
          /\ dock'.max = dock.max
      BY <1>1, <3>2 DEF Dock
    <3>4. settings' = settings /\ output' = output
      BY <2>1, <2>4 DEF EditMax
    <3>5. edits' \in Nat
      BY <2>2, EditCounted
    <3>6. BitratesOnly
      BY <2>2, <3>3, <3>4, <3>5 DEF BitratesOnly, TypeOK
    <3>7. running' = running /\ dynamic' = dynamic
      BY <2>2
    <3>8. ControlsAgree'
      BY <3>3, <3>4, <3>7 DEF ControlsAgree
    <3> QED
      BY <3>6, <3>8
  <2> QED
    BY <2>3, <2>4
<1>5. CASE \E auto \in BOOLEAN, r \in Requested : RequestBitrateControl(auto, r)
  <2>1. PICK auto \in BOOLEAN, r \in Requested : RequestBitrateControl(auto, r)
    BY <1>5
  <2>2. /\ r \in Rates /\ Edit /\ TRUE \in Answers
        /\ dock' = [dock EXCEPT !.auto = auto, !.manual = r]
        /\ settings' = Changed([settings EXCEPT !.auto = auto, !.manual = r])
        /\ output' = IF running THEN [output EXCEPT !.auto = auto, !.manual = r]
                                ELSE output
        /\ UNCHANGED <<store, current, running, dynamic>>
    BY <2>1 DEF RequestBitrateControl, SetBitrateControl
  <2>3. /\ dock' \in Dock /\ dock'.selected = dock.selected
        /\ dock'.auto = auto /\ dock'.manual = r /\ dock'.max = dock.max
    BY <1>1, <2>2 DEF Dock
  <2> QED
    BY <2>2, <2>3, ControlChange
<1>6. CASE \E r \in Requested : RequestMaxBitrate(r)
  <2>1. PICK r \in Requested : RequestMaxBitrate(r)
    BY <1>6
  <2>2. /\ r \in Rates /\ Edit
        /\ dock' = [dock EXCEPT !.max = r]
        /\ settings' = Changed([settings EXCEPT !.max = r])
        /\ output' = IF running THEN [output EXCEPT !.max = r] ELSE output
        /\ UNCHANGED <<store, current, running, dynamic>>
    BY <2>1 DEF RequestMaxBitrate, SetMaxBitrate
  <2>3. /\ dock' \in Dock /\ dock'.selected = dock.selected
        /\ dock'.auto = dock.auto /\ dock'.manual = dock.manual
        /\ dock'.max = r
    BY <1>1, <2>2 DEF Dock
  <2> QED
    BY <2>2, <2>3, MaxChange
<1> QED
  BY <1>2, <1>3, <1>4, <1>5, <1>6 DEF Bitrates

(* The flags stay Boolean. *)
LEMMA FlagStep ==
  ASSUME TypeOK, LinksAreScoped, RunsItsProfile, ControlsAgree, Next
  PROVE  FlagTypes'
<1> USE DEF profileVars, TypeOK
<1>1. CASE StartRefused
  BY <1>1, Zenon DEF StartRefused, FlagTypes
<1>2. CASE SaveRefused
  BY <1>2, Zenon DEF SaveRefused, FlagTypes
<1>3. CASE CreateFails
  BY <1>3, Zenon DEF CreateFails, ProfileSaved, FlagTypes
<1>4. CASE \E started \in BOOLEAN : StartOutput(started)
  BY <1>4, Zenon DEF StartOutput, ProfileSaved, FlagTypes
<1>5. CASE StopOutput
  BY <1>5, Zenon DEF StopOutput, OutputReleased, FlagTypes
<1>6. CASE \E p \in Profiles : ReloadProfile(p)
  BY <1>6, Zenon DEF ReloadProfile, OutputReleased, LoadProfile, FlagTypes
<1>7. CASE Restart
  BY <1>7, Zenon DEF Restart, LoadProfile, FlagTypes
<1>8. CASE \E t \in Texts : EditPassphrase(t)
  BY <1>8, Zenon DEF EditPassphrase, Edit, FlagTypes
<1>9. CASE \E t \in Texts : EditStreamId(t)
  BY <1>9, Zenon DEF EditStreamId, Edit, FlagTypes
<1>10. CASE \E q \in {p.query : p \in Found} : PasteUrl(q)
  BY <1>10, Zenon DEF PasteUrl, Edit, FlagTypes
<1>11. CASE \E l \in Links : ToggleLink(l)
  BY <1>11, Zenon DEF ToggleLink, Edit, FlagTypes
<1>12. CASE Bitrates
  <2>1. running' = running /\ dynamic' = dynamic /\ typed' = typed
    BY <1>12, Zenon DEF Bitrates, EditAuto, EditManual, EditMax, RequestBitrateControl,
       RequestMaxBitrate
  <2> QED
    BY <2>1, Zenon DEF FlagTypes
<1> QED
  BY <1>1, <1>2, <1>3, <1>4, <1>5, <1>6, <1>7, <1>8, <1>9, <1>10, <1>11, <1>12
     DEF Next, OutputActive

(* Every copy keeps its type. *)
LEMMA TypeStep ==
  ASSUME TypeOK, LinksAreScoped, RunsItsProfile, ControlsAgree, Next
  PROVE  TypeOK'
<1> USE DEF profileVars
<1>0. FlagTypes'
  BY FlagStep
<1>1. CASE StartRefused
  BY <1>1, <1>0, EmptyTypes DEF StartRefused, TypeOK
<1>2. CASE SaveRefused
  <2>1. dock' \in Dock
    BY <1>2, LatencyTaken DEF SaveRefused, TypeOK
  <2> QED
    BY <1>2, <1>0, <2>1, EmptyTypes DEF SaveRefused, TypeOK
<1>3. CASE CreateFails
  <2>1. /\ store' \in [Profiles -> Profile] /\ current' \in Profiles
        /\ dock' \in Dock /\ edits' \in Nat
    BY <1>3, SavedProfile DEF CreateFails
  <2>2. settings' \in Settings
    BY <1>3, AssembledSettings DEF CreateFails, TypeOK
  <2>3. ~running' /\ output' = output
    BY <1>3 DEF CreateFails, ProfileSaved
  <2> QED
    BY <1>0, <2>1, <2>2, <2>3 DEF TypeOK
<1>4. CASE \E started \in BOOLEAN : StartOutput(started)
  <2>1. PICK started \in BOOLEAN : StartOutput(started)
    BY <1>4
  <2>2. /\ store' \in [Profiles -> Profile] /\ current' \in Profiles
        /\ dock' \in Dock /\ edits' \in Nat
    BY <2>1, SavedProfile DEF StartOutput
  <2>3. settings' \in Settings /\ output' \in Config
    BY <2>1, StartedOutput
  <2> QED
    BY <1>0, <2>2, <2>3, NothingIsNone DEF TypeOK
<1>5. CASE StopOutput
  BY <1>5, <1>0 DEF StopOutput, OutputReleased, TypeOK
<1>6. CASE \E p \in Profiles : ReloadProfile(p)
  <2>1. PICK p \in Profiles : ReloadProfile(p)
    BY <1>6
  <2>2. /\ store' \in [Profiles -> Profile] /\ current' \in Profiles
        /\ dock' \in Dock
    BY <2>1, LoadTypes DEF ReloadProfile, TypeOK
  <2> QED
    BY <1>0, <2>1, <2>2 DEF ReloadProfile, OutputReleased, TypeOK
<1>7. CASE Restart
  <2>1. /\ store' \in [Profiles -> Profile] /\ current' \in Profiles
        /\ dock' \in Dock
    BY <1>7, EmptyTypes, LoadTypes DEF Restart, TypeOK
  <2> QED
    BY <1>7, <1>0, <2>1 DEF Restart, TypeOK
<1>8. CASE \E t \in Texts : EditPassphrase(t)
  <2>1. PICK t \in Texts : EditPassphrase(t)
    BY <1>8
  <2>2. dock' \in Dock
    <3>1. dock \in Dock /\ dock' = [dock EXCEPT !.pass = t, !.secretError = FALSE]
      BY <2>1 DEF EditPassphrase, TypeOK
    <3> QED
      BY <3>1 DEF Dock
  <2>3. edits' \in Nat
    BY <2>1, EditCounted DEF EditPassphrase
  <2> QED
    BY <1>0, <2>1, <2>2, <2>3 DEF EditPassphrase, TypeOK
<1>9. CASE \E t \in Texts : EditStreamId(t)
  <2>1. PICK t \in Texts : EditStreamId(t)
    BY <1>9
  <2>2. dock' \in Dock
    <3>1. dock \in Dock /\ dock' = [dock EXCEPT !.stream = t]
      BY <2>1 DEF EditStreamId, TypeOK
    <3> QED
      BY <3>1 DEF Dock
  <2>3. edits' \in Nat
    BY <2>1, EditCounted DEF EditStreamId
  <2> QED
    BY <1>0, <2>1, <2>2, <2>3 DEF EditStreamId, TypeOK
<1>10. CASE \E q \in {p.query : p \in Found} : PasteUrl(q)
  <2>1. PICK q \in {p.query : p \in Found} : PasteUrl(q)
    BY <1>10
  <2>0. q \in Query
    BY ProfileAssumption DEF Profile
  <2>2. dock' \in Dock
    <3>1. dock \in Dock /\ dock' = [dock EXCEPT !.query = q]
      BY <2>1 DEF PasteUrl, TypeOK
    <3> QED
      BY <2>0, <3>1 DEF Dock
  <2>3. edits' \in Nat
    BY <2>1, EditCounted DEF PasteUrl
  <2> QED
    BY <1>0, <2>1, <2>2, <2>3 DEF PasteUrl, TypeOK
<1>11. CASE \E l \in Links : ToggleLink(l)
  <2>1. PICK l \in Links : ToggleLink(l)
    BY <1>11
  <2>2. PICK on \in SUBSET Links :
          /\ dock' = [dock EXCEPT !.selected = on]
          /\ store' = [store EXCEPT ![current].links = on]
    BY <2>1, LinkChange
  <2>3. /\ dock \in Dock /\ store \in [Profiles -> Profile]
        /\ current \in Profiles /\ store[current] \in Profile
    BY DEF TypeOK
  <2>4. dock' \in Dock
    BY <2>2, <2>3 DEF Dock
  <2>5. [store[current] EXCEPT !.links = on] \in Profile
    BY <2>3 DEF Profile
  <2>6. store' \in [Profiles -> Profile]
    BY <2>2, <2>3, <2>5
  <2>7. edits' \in Nat
    BY <2>1, EditCounted DEF ToggleLink
  <2> QED
    BY <1>0, <2>1, <2>4, <2>6, <2>7 DEF ToggleLink, TypeOK
<1>12. CASE Bitrates
  BY <1>12, <1>0, BitratesStep DEF BitratesOnly, TypeOK
<1> QED
  BY <1>1, <1>2, <1>3, <1>4, <1>5, <1>6, <1>7, <1>8, <1>9, <1>10, <1>11, <1>12
     DEF Next, OutputActive

(* The check boxes stay those of the profile. *)
LEMMA LinksStep ==
  ASSUME TypeOK, LinksAreScoped, RunsItsProfile, ControlsAgree, Next
  PROVE  LinksAreScoped'
<1> USE DEF profileVars
<1>1. CASE StartRefused
  BY <1>1 DEF StartRefused, LinksAreScoped
<1>2. CASE SaveRefused
  BY <1>2 DEF SaveRefused, LinksAreScoped
<1>3. CASE CreateFails
  BY <1>3, SavedProfile DEF CreateFails
<1>4. CASE \E started \in BOOLEAN : StartOutput(started)
  BY <1>4, SavedProfile DEF StartOutput
<1>5. CASE StopOutput
  BY <1>5 DEF StopOutput, OutputReleased, LinksAreScoped
<1>6. CASE \E p \in Profiles : ReloadProfile(p)
  BY <1>6, LoadTypes DEF ReloadProfile, TypeOK
<1>7. CASE Restart
  BY <1>7, LoadTypes, EmptyTypes DEF Restart, TypeOK
<1>8. CASE \E t \in Texts : EditPassphrase(t)
  BY <1>8 DEF EditPassphrase, Edit, LinksAreScoped
<1>9. CASE \E t \in Texts : EditStreamId(t)
  BY <1>9 DEF EditStreamId, Edit, LinksAreScoped
<1>10. CASE \E q \in {p.query : p \in Found} : PasteUrl(q)
  BY <1>10 DEF PasteUrl, Edit, LinksAreScoped
<1>11. CASE \E l \in Links : ToggleLink(l)
  <2>1. PICK l \in Links : ToggleLink(l)
    BY <1>11
  <2>2. PICK on \in SUBSET Links :
          /\ dock' = [dock EXCEPT !.selected = on]
          /\ store' = [store EXCEPT ![current].links = on]
    BY <2>1, LinkChange
  <2>3. /\ dock \in Dock /\ store \in [Profiles -> Profile]
        /\ current \in Profiles /\ store[current] \in Profile
        /\ current' = current
    BY <2>1 DEF TypeOK, ToggleLink
  <2>4. store'[current] = [store[current] EXCEPT !.links = on]
    BY <2>2, <2>3
  <2>5. store'[current].links = on
    BY <2>3, <2>4 DEF Profile
  <2>6. dock'.selected = on
    BY <2>2, <2>3 DEF Dock
  <2> QED
    BY <2>3, <2>5, <2>6 DEF LinksAreScoped
<1>12. CASE Bitrates
  BY <1>12, BitratesStep DEF BitratesOnly, LinksAreScoped
<1> QED
  BY <1>1, <1>2, <1>3, <1>4, <1>5, <1>6, <1>7, <1>8, <1>9, <1>10, <1>11, <1>12
     DEF Next, OutputActive

(* An output keeps to the selected profile. *)
LEMMA ProfileStep ==
  ASSUME TypeOK, LinksAreScoped, RunsItsProfile, ControlsAgree, Next
  PROVE  RunsItsProfile'
<1> USE DEF profileVars
<1>1. CASE StartRefused
  BY <1>1 DEF StartRefused, RunsItsProfile
<1>2. CASE SaveRefused
  BY <1>2 DEF SaveRefused, RunsItsProfile
<1>3. CASE CreateFails
  BY <1>3 DEF CreateFails, ProfileSaved, RunsItsProfile
<1>4. CASE \E started \in BOOLEAN : StartOutput(started)
  <2>1. PICK started \in BOOLEAN : StartOutput(started)
    BY <1>4
  <2>2. /\ store'[current'].stream = dock.stream
        /\ store'[current'].secret = dock.pass
        /\ store'[current'].latency = LatencyOf(dock)
        /\ store'[current'].query = NoQuery
    BY <2>1, SavedProfile DEF StartOutput
  <2>3. /\ output'.stream = dock.stream /\ output'.pass = dock.pass
        /\ output'.latency = LatencyOf(dock)
    BY <2>1, StartedOutput
  <2> QED
    BY <2>2, <2>3 DEF RunsItsProfile
<1>5. CASE StopOutput
  BY <1>5 DEF StopOutput, OutputReleased, RunsItsProfile
<1>6. CASE \E p \in Profiles : ReloadProfile(p)
  BY <1>6 DEF ReloadProfile, OutputReleased, LoadProfile, RunsItsProfile
<1>7. CASE Restart
  BY <1>7 DEF Restart, LoadProfile, RunsItsProfile
<1>8. CASE \E t \in Texts : EditPassphrase(t)
  BY <1>8 DEF EditPassphrase, Edit, RunsItsProfile
<1>9. CASE \E t \in Texts : EditStreamId(t)
  BY <1>9 DEF EditStreamId, Edit, RunsItsProfile
<1>10. CASE \E q \in {p.query : p \in Found} : PasteUrl(q)
  BY <1>10 DEF PasteUrl, Edit, RunsItsProfile
<1>11. CASE \E l \in Links : ToggleLink(l)
  <2>1. PICK l \in Links : ToggleLink(l)
    BY <1>11
  <2>2. PICK on \in SUBSET Links :
          store' = [store EXCEPT ![current].links = on]
    BY <2>1, LinkChange
  <2>3. /\ store \in [Profiles -> Profile] /\ current \in Profiles
        /\ store[current] \in Profile /\ current' = current /\ output' = output
    BY <2>1 DEF TypeOK, ToggleLink
  <2>4. store'[current] = [store[current] EXCEPT !.links = on]
    BY <2>2, <2>3
  <2>5. /\ store'[current].stream = store[current].stream
        /\ store'[current].secret = store[current].secret
        /\ store'[current].latency = store[current].latency
        /\ store'[current].query = store[current].query
    BY <2>3, <2>4 DEF Profile
  <2> QED
    BY <2>3, <2>5 DEF RunsItsProfile
<1>12. CASE Bitrates
  BY <1>12, BitratesStep DEF BitratesOnly, RunsItsProfile
<1> QED
  BY <1>1, <1>2, <1>3, <1>4, <1>5, <1>6, <1>7, <1>8, <1>9, <1>10, <1>11, <1>12
     DEF Next, OutputActive

(* Widgets, settings and output go on agreeing. *)
LEMMA ControlsStep ==
  ASSUME TypeOK, LinksAreScoped, RunsItsProfile, ControlsAgree, Next
  PROVE  ControlsAgree'
<1> USE DEF profileVars
<1>1. CASE StartRefused
  BY <1>1 DEF StartRefused, ControlsAgree
<1>2. CASE SaveRefused
  BY <1>2 DEF SaveRefused, ControlsAgree
<1>3. CASE CreateFails
  BY <1>3 DEF CreateFails, ProfileSaved, ControlsAgree
<1>4. CASE \E started \in BOOLEAN : StartOutput(started)
  <2>1. PICK started \in BOOLEAN : StartOutput(started)
    BY <1>4
  <2>2. /\ dock'.auto = dock.auto /\ dock'.manual = dock.manual
        /\ dock'.max = dock.max
    BY <2>1, SavedProfile DEF StartOutput
  <2>3. /\ settings'.auto = dock.auto /\ settings'.manual = dock.manual
        /\ settings'.max = dock.max /\ output'.max = dock.max
        /\ output'.auto = (dock.auto /\ (started => dynamic'))
        /\ running' = started
    BY <2>1, StartedOutput
  <2> QED
    BY <2>2, <2>3 DEF ControlsAgree
<1>5. CASE StopOutput
  BY <1>5 DEF StopOutput, OutputReleased, ControlsAgree
<1>6. CASE \E p \in Profiles : ReloadProfile(p)
  BY <1>6 DEF ReloadProfile, OutputReleased, LoadProfile, ControlsAgree
<1>7. CASE Restart
  BY <1>7 DEF Restart, LoadProfile, ControlsAgree
<1>8. CASE \E t \in Texts : EditPassphrase(t)
  BY <1>8 DEF EditPassphrase, Edit, ControlsAgree
<1>9. CASE \E t \in Texts : EditStreamId(t)
  BY <1>9 DEF EditStreamId, Edit, ControlsAgree
<1>10. CASE \E q \in {p.query : p \in Found} : PasteUrl(q)
  BY <1>10 DEF PasteUrl, Edit, ControlsAgree
<1>11. CASE \E l \in Links : ToggleLink(l)
  BY <1>11 DEF ToggleLink, Edit, ControlsAgree
<1>12. CASE Bitrates
  BY <1>12, BitratesStep
<1> QED
  BY <1>1, <1>2, <1>3, <1>4, <1>5, <1>6, <1>7, <1>8, <1>9, <1>10, <1>11, <1>12
     DEF Next, OutputActive

-----------------------------------------------------------------------------
LEMMA InitDInv == Init => DInv
<1> SUFFICES ASSUME Init PROVE DInv
  OBVIOUS
<1>1. PICK first \in [Profiles -> Found], p \in Profiles :
        LET d == Loaded(first[p], Empty, FALSE) IN
        /\ store = [first EXCEPT ![p] = Migrated(first[p], d)]
        /\ current = p /\ dock = d
        /\ settings = Nothing /\ output = Nothing
        /\ running = FALSE /\ dynamic = FALSE
        /\ typed = FALSE /\ edits = 0
  BY DEF Init
<1> DEFINE d == Loaded(first[p], Empty, FALSE)
<1>2. first \in [Profiles -> Profile] /\ first[p] \in Profile
  BY ProfileAssumption
<1>3. d \in Dock /\ d.selected = first[p].links
  BY <1>2, EmptyTypes, LoadedType DEF Loaded, SelectedOf
<1>4. /\ Migrated(first[p], d) \in Profile
      /\ Migrated(first[p], d).links = first[p].links
  BY <1>2, <1>3, MigratedType
<1>5. /\ store = [first EXCEPT ![p] = Migrated(first[p], d)]
      /\ current = p /\ dock = d
  BY <1>1
<1> HIDE DEF d
<1>6. /\ store \in [Profiles -> Profile] /\ current \in Profiles /\ dock \in Dock
      /\ dock.selected = store[current].links
  BY <1>2, <1>3, <1>4, <1>5
<1>7. FlagTypes /\ ~running
  BY <1>1, Zenon DEF FlagTypes
<1>8. settings = Nothing /\ output = Nothing /\ edits \in Nat
  BY <1>1
<1> QED
  BY <1>6, <1>7, <1>8 DEF DInv, TypeOK, LinksAreScoped, RunsItsProfile,
     ControlsAgree

LEMMA NextDInv == DInv /\ [Next]_vars => DInv'
<1> SUFFICES ASSUME DInv, [Next]_vars PROVE DInv'
  OBVIOUS
<1>1. TypeOK /\ LinksAreScoped /\ RunsItsProfile /\ ControlsAgree
  BY DEF DInv
<1>2. CASE Next
  <2>1. TypeOK'
    BY <1>1, <1>2, TypeStep
  <2>2. LinksAreScoped'
    BY <1>1, <1>2, LinksStep
  <2>3. RunsItsProfile'
    BY <1>1, <1>2, ProfileStep
  <2>4. ControlsAgree'
    BY <1>1, <1>2, ControlsStep
  <2> QED
    BY <2>1, <2>2, <2>3, <2>4 DEF DInv
<1>3. CASE UNCHANGED vars
  <2>1. FlagTypes'
    BY <1>1, <1>3, Zenon DEF TypeOK, FlagTypes, vars
  <2>2. TypeOK'
    BY <1>1, <1>3, <2>1 DEF TypeOK, vars
  <2>3. LinksAreScoped' /\ RunsItsProfile' /\ ControlsAgree'
    BY <1>1, <1>3 DEF LinksAreScoped, RunsItsProfile, ControlsAgree, vars
  <2> QED
    BY <2>2, <2>3 DEF DInv
<1> QED
  BY <1>2, <1>3

LEMMA DInvInvariant == Spec => []DInv
BY InitDInv, NextDInv, PTL DEF Spec

(* Profiles, dock, settings_ and output have their types, and an output     *)
(* that runs exists.                                                        *)
THEOREM ProfileTypeCorrect == Spec => []TypeOK
<1>1. DInv => TypeOK
  BY DEF DInv
<1> QED
  BY <1>1, DInvInvariant, PTL

(* The check boxes are those of the selected profile: no adapter enabled in *)
(* one profile is enabled in another.                                       *)
THEOREM LinksCorrect == Spec => []LinksAreScoped
<1>1. DInv => LinksAreScoped
  BY DEF DInv
<1> QED
  BY <1>1, DInvInvariant, PTL

(* An output uses stream id, passphrase and latency of the profile that is  *)
(* selected, after any edits, requests, failed starts and profile changes.  *)
THEOREM RunsItsProfileCorrect == Spec => []RunsItsProfile
<1>1. DInv => RunsItsProfile
  BY DEF DInv
<1> QED
  BY <1>1, DInvInvariant, PTL

(* Widgets, settings_ and a running output agree on mode and maximum, even  *)
(* if the encoder refuses a change.                                         *)
THEOREM ControlsCorrect == Spec => []ControlsAgree
<1>1. DInv => ControlsAgree
  BY DEF DInv
<1> QED
  BY <1>1, DInvInvariant, PTL

-----------------------------------------------------------------------------
(* Settings are determined by their fields. *)
LEMMA SameSettings ==
  ASSUME NEW r \in Settings, NEW s \in Settings,
         r.query = s.query, r.stream = s.stream, r.plain = s.plain,
         r.secret = s.secret, r.dpapi = s.dpapi, r.latency = s.latency,
         r.auto = s.auto, r.manual = s.manual, r.max = s.max
  PROVE  r = s
BY DEF Settings

(* What normalising does to each field that matters to a passphrase. *)
LEMMA NormalizedFields ==
  ASSUME NEW s \in Settings
  PROVE  LET n == Normalized(s)
             plain == IF s.query.pass # Absent THEN s.query.pass ELSE s.plain
         IN /\ n.query = NoQuery /\ n.plain = NoText
            /\ n.secret = IF plain # NoText THEN plain ELSE s.secret
            /\ n.dpapi = (s.dpapi /\ plain = NoText /\ s.secret = NoText)
            /\ n.stream = IF s.query.stream # Absent THEN s.query.stream
                                                      ELSE s.stream
            /\ n.latency = IF s.query.latency # 0 THEN s.query.latency
                                                  ELSE s.latency
            /\ n.auto = s.auto /\ n.manual = s.manual /\ n.max = s.max
<1> DEFINE r == Split(s)
           plain == IF s.query.pass # Absent THEN s.query.pass ELSE s.plain
<1>1. r \in Settings
  BY NormalizedType
<1>2. /\ r.query = NoQuery /\ r.plain = plain /\ r.secret = s.secret
      /\ r.dpapi = s.dpapi /\ r.auto = s.auto
      /\ r.manual = s.manual /\ r.max = s.max
      /\ r.stream = IF s.query.stream # Absent THEN s.query.stream ELSE s.stream
      /\ r.latency = IF s.query.latency # 0 THEN s.query.latency ELSE s.latency
  BY DEF Split, Settings
<1> HIDE DEF r
<1>3. LET n == NormalizePassphrase(r) IN
      /\ n.query = r.query /\ n.plain = NoText
      /\ n.secret = IF r.plain # NoText THEN r.plain ELSE r.secret
      /\ n.dpapi = (r.dpapi /\ r.plain = NoText /\ r.secret = NoText)
      /\ n.stream = r.stream /\ n.latency = r.latency
      /\ n.auto = r.auto /\ n.manual = r.manual /\ n.max = r.max
  BY <1>1 DEF NormalizePassphrase, Settings
<1>4. Normalized(s) = NormalizePassphrase(r)
  BY DEF Normalized, r
<1> QED
  BY <1>2, <1>3, <1>4

(* Normalising twice is normalising once. *)
LEMMA NormalizedTwice ==
  ASSUME NEW s \in Settings
  PROVE  Normalized(Normalized(s)) = Normalized(s)
<1> DEFINE n == Normalized(s)
           m == Normalized(n)
<1>1. n \in Settings /\ m \in Settings
  BY NormalizedType
<1>2. /\ n.query = NoQuery /\ n.plain = NoText
      /\ n.dpapi \in BOOLEAN /\ (n.dpapi => n.secret = NoText)
  BY <1>1, NormalizedFields DEF Settings
<1>3. NoQuery.pass = Absent /\ NoQuery.stream = Absent /\ NoQuery.latency = 0
  BY DEF NoQuery
<1> HIDE DEF n
<1>4. /\ m.query = n.query /\ m.plain = n.plain /\ m.secret = n.secret
      /\ m.stream = n.stream /\ m.latency = n.latency /\ m.auto = n.auto
      /\ m.manual = n.manual /\ m.max = n.max
  BY <1>1, <1>2, <1>3, NormalizedFields
<1>5. m.dpapi = (n.dpapi /\ n.plain = NoText /\ n.secret = NoText)
  BY <1>1, <1>2, <1>3, NormalizedFields
<1>6. m.dpapi = n.dpapi
  BY <1>2, <1>5
<1> HIDE DEF m
<1>7. m = n
  BY <1>1, <1>4, <1>6, SameSettings
<1> QED
  BY <1>7 DEF m, n

(* Normalising uses the passphrase of the URL, else the plain one, else the *)
(* stored one, keeps a value of DPAPI only if there is none, and is         *)
(* idempotent, for settings with anything in these fields.                  *)
THEOREM SecretsCorrect == Spec => []NormalizingKeepsSecrets
<1>1. DInv => NormalizingKeepsSecrets
  <2> SUFFICES ASSUME DInv, settings # Nothing,
                      NEW url \in Texts \union {Absent},
                      NEW plain \in Texts, NEW secret \in Texts,
                      NEW dpapi \in BOOLEAN
               PROVE  LET n == Normalized(RawSettings(url, plain, secret, dpapi))
                          first == IF url # Absent THEN url ELSE plain
                          given == IF first # NoText THEN first ELSE secret
                      IN /\ n.query = NoQuery /\ n.plain = NoText
                         /\ PassphraseFrom(n) = given
                         /\ CredentialError(n) <=> dpapi /\ given = NoText
                         /\ Normalized(n) = n
    BY DEF NormalizingKeepsSecrets
  <2> DEFINE s == RawSettings(url, plain, secret, dpapi)
             n == Normalized(s)
             first == IF url # Absent THEN url ELSE plain
  <2>1. settings \in Settings
    BY DEF DInv, TypeOK
  <2>2. /\ s \in Settings /\ s.query.pass = url /\ s.plain = plain
        /\ s.secret = secret /\ s.dpapi = dpapi
    <3> DEFINE q == [settings.query EXCEPT !.pass = url]
    <3>1. q \in Query /\ q.pass = url
      BY <2>1 DEF Settings, Query
    <3>2. s = [settings EXCEPT !.query = q, !.plain = plain, !.secret = secret,
                               !.dpapi = dpapi]
      BY DEF RawSettings
    <3> HIDE DEF q, s
    <3> QED
      BY <2>1, <3>1, <3>2 DEF Settings
  <2> HIDE DEF s
  <2>3. /\ n.query = NoQuery /\ n.plain = NoText
        /\ n.secret = IF first # NoText THEN first ELSE secret
        /\ n.dpapi = (dpapi /\ first = NoText /\ secret = NoText)
    BY <2>2, NormalizedFields
  <2>4. Normalized(n) = n
    BY <2>2, NormalizedTwice
  <2> HIDE DEF n
  <2>5. PassphraseFrom(n) = IF first # NoText THEN first ELSE secret
    BY <2>3 DEF PassphraseFrom
  <2>6. CredentialError(n) <=> dpapi /\ first = NoText /\ secret = NoText
    BY <2>3 DEF CredentialError
  <2> QED
    BY <2>3, <2>4, <2>5, <2>6 DEF n, s
<1> QED
  BY <1>1, DInvInvariant, PTL

-----------------------------------------------------------------------------
(* A profile that is not the selected one is written only when it becomes   *)
(* the selected one.                                                        *)
LEMMA OthersUntouched ==
  ASSUME TypeOK, Next, NEW p \in Profiles, p # current
  PROVE  store'[p] = store[p] \/ ReloadProfile(p)
<1> USE DEF profileVars
<1>1. store \in [Profiles -> Profile] /\ current \in Profiles
  BY DEF TypeOK
<1>2. CASE OutputActive
  <2>1. store' = store \/ ProfileSaved
    BY <1>2 DEF OutputActive, StartRefused, SaveRefused, CreateFails, StartOutput,
       StopOutput
  <2> QED
    BY <1>1, <2>1 DEF ProfileSaved
<1>3. CASE \E q \in Profiles : ReloadProfile(q)
  <2>1. PICK q \in Profiles : ReloadProfile(q)
    BY <1>3
  <2>2. PICK new : store' = [store EXCEPT ![q] = new]
    BY <2>1 DEF ReloadProfile, LoadProfile
  <2> QED
    BY <1>1, <2>1, <2>2
<1>4. CASE Restart
  <2>1. PICK new : store' = [store EXCEPT ![current] = new]
    BY <1>4 DEF Restart, LoadProfile
  <2> QED
    BY <1>1, <2>1
<1>5. CASE \E t \in Texts : EditPassphrase(t) \/ EditStreamId(t)
  BY <1>5 DEF EditPassphrase, EditStreamId
<1>6. CASE \E q \in {r.query : r \in Found} : PasteUrl(q)
  BY <1>6 DEF PasteUrl
<1>7. CASE \E l \in Links : ToggleLink(l)
  <2>1. PICK new : store' = [store EXCEPT ![current].links = new]
    BY <1>7 DEF ToggleLink
  <2> QED
    BY <1>1, <2>1
<1>8. CASE Bitrates
  BY <1>8 DEF Bitrates, EditAuto, EditManual, EditMax, RequestBitrateControl,
     RequestMaxBitrate
<1> QED
  BY <1>2, <1>3, <1>4, <1>5, <1>6, <1>7, <1>8 DEF Next

(* Changing to a profile that removes the query from its URL has put what   *)
(* it carried into the profile's fields, in the same step - unless its only *)
(* passphrase is a value of DPAPI, when loadProfile drops them there.       *)
THEOREM MigrationCorrect == Spec => MigrationKeepsFields
<1> DEFINE Kept ==
      \A p \in Profiles :
        /\ ~Undecipherable(store[p]) /\ store[p].query # NoQuery
        /\ store'[p].query = NoQuery
        /\ p # current
        => /\ store'[p].stream = StreamOf(store[p])
           /\ store'[p].secret = PassOf(store[p])
           /\ store[p].query.latency # 0 =>
                store'[p].latency = store[p].query.latency
<1>1. DInv /\ [Next]_vars => [Kept]_vars
  <2> SUFFICES ASSUME DInv, [Next]_vars, vars' # vars, NEW p \in Profiles,
                      ~Undecipherable(store[p]), store[p].query # NoQuery,
                      store'[p].query = NoQuery, p # current
               PROVE  /\ store'[p].stream = StreamOf(store[p])
                      /\ store'[p].secret = PassOf(store[p])
                      /\ store[p].query.latency # 0 =>
                           store'[p].latency = store[p].query.latency
    OBVIOUS
  <2>1. TypeOK /\ Next
    BY DEF DInv
  <2>2. ReloadProfile(p)
    BY <2>1, OthersUntouched
  <2> DEFINE d == Loaded(store[p], dock, TRUE)
  <2>3. store \in [Profiles -> Profile] /\ store[p] \in Profile
    BY <2>1 DEF TypeOK
  <2>4. store' = [store EXCEPT ![p] = Migrated(store[p], d)]
    BY <2>2 DEF ReloadProfile, LoadProfile
  <2>5. store'[p] = Migrated(store[p], d)
    BY <2>3, <2>4
  <2>6. /\ d.stream = StreamOf(store[p]) /\ d.pass = PassOf(store[p])
        /\ d.query = NoQuery /\ ~d.secretError
        /\ store[p].query.latency # 0 => d.latency = store[p].query.latency
    BY DEF Loaded, SecretErrorAfter, Undecipherable
  <2> HIDE DEF d
  <2>7. store'[p] = Saved(store[p], d)
    BY <2>5, <2>6 DEF Migrated
  <2>8. LatencyOf(d) = d.latency
    BY <2>6 DEF LatencyOf, NoQuery
  <2>9. /\ store'[p].stream = d.stream /\ store'[p].secret = d.pass
        /\ store'[p].latency = d.latency
    BY <2>3, <2>7, <2>8 DEF Saved, Profile
  <2> QED
    BY <2>6, <2>9
<1> QED
  BY <1>1, DInvInvariant, PTL DEF Spec, MigrationKeepsFields
=============================================================================
