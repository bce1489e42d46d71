---------------------------- MODULE DockProfile ----------------------------
(***************************************************************************)
(* The settings of the plugin, which exist in four copies:                 *)
(*                                                                         *)
(*   store      section SrtlaOutput of the OBS profiles   config_set_*     *)
(*   dock       the widgets and members of SrtlaDock      srtla-dock.cpp   *)
(*   settings   settings_, an obs_data_t                  srtla-dock.cpp   *)
(*   output     the fields of SrtlaOutput                 srtla-output.cpp *)
(*                                                                         *)
(* Everything happens on the UI thread: the user edits a widget, a request *)
(* of obs-websocket is queued to the dock, OBS changes the profile, OBS is *)
(* restarted.  Latency and key length take the same way and are one field; *)
(* the host and the choice of encoders are left out.                       *)
(***************************************************************************)
EXTENDS Naturals

CONSTANTS
  Profiles,      \* OBS profiles
  Texts,         \* passphrases and stream ids
  NoText,        \* the empty one
  Absent,        \* in place of a text: the URL has no such parameter
  Unusable,      \* passphrases shorter than 10 or longer than 79 bytes
  Latencies,     \* latencies that the plugin accepts, from 120 to 60000 ms,
                 \* and 0 for one that is not given
  Links,         \* network adapters
  DefaultMax,    \* 6000 kb/s
  LegacyMax,     \* 100000 kb/s, "unlimited" in old profiles
  Rates,         \* bitrates that the spin boxes accept
  Requested,     \* bitrates that a request may carry
  Found,         \* what the profiles hold when the plugin first sees them
  Nothing,       \* a null pointer
  MaxEdits       \* bound: edits and requests

(* A query of the stored URL, as parse_legacy_url reads it. *)
Query == [stream: Texts \union {Absent}, pass: Texts \union {Absent},
          latency: Latencies]
NoQuery == [stream |-> Absent, pass |-> Absent, latency |-> 0]

(* Section SrtlaOutput of a profile: Url (its query), StreamId,             *)
(* PassphraseSecret, PassphraseDpapi (set or not), LatencyMs, EnabledLinks, *)
(* AutoBitrate, Bitrate and MaxBitrate.                                     *)
Profile == [query: Query, stream: Texts, secret: Texts, dpapi: BOOLEAN,
            latency: Latencies, links: SUBSET Links,
            auto: BOOLEAN, manual: Rates, max: Rates \union {LegacyMax}]

(* The widgets, and the members latency_ms_, secret_error_ and selected_. *)
Dock == [query: Query, stream: Texts, pass: Texts, latency: Latencies,
         selected: SUBSET Links, secretError: BOOLEAN,
         auto: BOOLEAN, manual: Rates, max: Rates]

(* The obs_data_t of an output: url (its query), stream_id, passphrase,     *)
(* passphrase_secret, passphrase_dpapi (set or not), latency_ms and the     *)
(* bitrates.                                                                *)
Settings == [query: Query, stream: Texts, plain: Texts, secret: Texts,
             dpapi: BOOLEAN, latency: Latencies,
             auto: BOOLEAN, manual: Rates \union {0}, max: Rates \union {0}]

(* obs_data_create(): strings are empty, numbers 0. *)
Blank == [query |-> NoQuery, stream |-> NoText, plain |-> NoText,
          secret |-> NoText, dpapi |-> FALSE, latency |-> 0,
          auto |-> FALSE, manual |-> 0, max |-> 0]

(* What an output takes from them. *)
Config == [stream: Texts, pass: Texts, error: BOOLEAN, latency: Latencies,
           auto: BOOLEAN, manual: Rates, max: Rates]

ASSUME ProfileAssumption ==
  /\ NoText \in Texts /\ Absent \notin Texts /\ Unusable \subseteq Texts \ {NoText}
  /\ Latencies \subseteq Nat /\ 0 \in Latencies
  /\ Rates \subseteq Nat \ {0} /\ DefaultMax \in Rates
  /\ LegacyMax \in Nat \ Rates /\ Requested \subseteq Nat
  /\ Found \subseteq Profile /\ MaxEdits \in Nat
  /\ Nothing \notin Settings \union Config

VARIABLES
  store, current,   \* the profiles, and the one that is selected
  dock,
  settings,         \* settings_, or Nothing for nullptr
  output,           \* the output's fields, or Nothing for output_ = nullptr
  running,          \* running_
  dynamic,          \* the encoder has OBS_ENCODER_CAP_DYN_BITRATE
  typed,            \* history: a passphrase was typed since the last load
  edits

profileVars == <<store, current>>
vars == <<store, current, dock, settings, output, running, dynamic, typed,
          edits>>

FlagTypes == running \in BOOLEAN /\ dynamic \in BOOLEAN /\ typed \in BOOLEAN

TypeOK ==
  /\ FlagTypes
  /\ store \in [Profiles -> Profile] /\ current \in Profiles
  /\ dock \in Dock
  /\ settings \in Settings \union {Nothing}
  /\ output \in Config \union {Nothing}
  /\ running => output # Nothing /\ settings # Nothing
  /\ edits \in Nat

-----------------------------------------------------------------------------
(* Loading and saving. *)

(* saveProfile refuses a passphrase that libsrt would refuse. *)
CanSave(d) == d.pass \notin Unusable

(* A latency in a URL that the user pasted overrides the one of the dock. *)
LatencyOf(d) == IF d.query.latency # 0 THEN d.query.latency ELSE d.latency

(* The profile as saveProfile leaves it; EnabledLinks is not its business. *)
Saved(p, d) ==
  [p EXCEPT !.query = NoQuery, !.stream = d.stream, !.secret = d.pass,
            !.dpapi = FALSE, !.latency = LatencyOf(d),
            !.auto = d.auto, !.manual = d.manual, !.max = d.max]

(* To loadProfile an empty parameter is as good as none. *)
TextOf(t) == IF t = Absent THEN NoText ELSE t

(* The stream id of a stored profile: the field, or else the URL. *)
StreamOf(p) == IF p.stream # NoText THEN p.stream ELSE TextOf(p.query.stream)

(* A value of DPAPI that no plain passphrase has replaced. *)
Undecipherable(p) == p.dpapi /\ p.secret = NoText

PassOf(p) ==
  IF p.secret # NoText THEN p.secret
  ELSE IF p.dpapi THEN NoText ELSE TextOf(p.query.pass)

(* Mutant: selected_ is not cleared before EnabledLinks is read. *)
SelectedToo(p, old) == p.links \union old.selected

(* selected_ after loadProfile. *)
SelectedOf(p, old) == p.links

(* passphrase_->setText in loadProfile: once the dock is built, a change of *)
(* the text runs the textChanged handler, which resets secret_error_.       *)
SecretErrorAfter(p, old, built) ==
  Undecipherable(p) /\ ~(built /\ old.pass # PassOf(p))

(* Mutant: the old value for "unlimited" is taken as it is. *)
AsStored(max) == max

(* The maximum that loadProfile shows for a stored one. *)
LoadedMax(max) == IF max = LegacyMax THEN DefaultMax ELSE max

(* The dock after loadProfile has filled it. *)
Loaded(p, old, built) ==
  [query |-> NoQuery, stream |-> StreamOf(p), pass |-> PassOf(p),
   latency |-> IF p.query.latency # 0 THEN p.query.latency ELSE p.latency,
   selected |-> SelectedOf(p, old),
   secretError |-> SecretErrorAfter(p, old, built),
   auto |-> p.auto, manual |-> p.manual,
   max |-> LoadedMax(p.max)]

(* Mutant: the URL is cleaned, its fields are saved with the next start. *)
OnlyCleaned(p, d) == [p EXCEPT !.query = NoQuery]

(* The end of loadProfile: a URL with a query is migrated.  A failure of    *)
(* saveProfile is ignored.                                                  *)
Migrated(p, d) ==
  IF p.query = NoQuery THEN p
  ELSE IF d.secretError THEN [p EXCEPT !.query = NoQuery]
  ELSE IF CanSave(d) THEN Saved(p, d) ELSE p

LoadProfile(p, old, built) ==
  LET d == Loaded(store[p], old, built) IN
  /\ current' = p
  /\ dock' = d
  /\ store' = [store EXCEPT ![p] = Migrated(store[p], d)]
  /\ typed' = FALSE

(* The widgets of a new dock. *)
Empty == [query |-> NoQuery, stream |-> NoText, pass |-> NoText,
          latency |-> 0, selected |-> {}, secretError |-> FALSE,
          auto |-> TRUE, manual |-> DefaultMax, max |-> DefaultMax]

Init ==
  \E first \in [Profiles -> Found], p \in Profiles :
    LET d == Loaded(first[p], Empty, FALSE) IN
    /\ store = [first EXCEPT ![p] = Migrated(first[p], d)]
    /\ current = p /\ dock = d
    /\ settings = Nothing /\ output = Nothing
    /\ running = FALSE /\ dynamic = FALSE
    /\ typed = FALSE /\ edits = 0

-----------------------------------------------------------------------------
(* Starting and stopping. *)

(* The settings that toggleOutput assembles. *)
Assembled ==
  [query |-> NoQuery, stream |-> dock.stream, plain |-> NoText,
   secret |-> dock.pass, dpapi |-> FALSE, latency |-> LatencyOf(dock),
   auto |-> dock.auto, manual |-> dock.manual, max |-> dock.max]

(* split_url_query_into_settings: what the URL carries goes to the fields,  *)
(* an empty value too.                                                      *)
Split(s) ==
  [s EXCEPT !.query = NoQuery,
     !.stream = IF s.query.stream # Absent THEN s.query.stream ELSE @,
     !.plain = IF s.query.pass # Absent THEN s.query.pass ELSE @,
     !.latency = IF s.query.latency # 0 THEN s.query.latency ELSE @]

(* Mutant: the value of DPAPI is dropped in any case. *)
WithoutDpapi(s) ==
  [s EXCEPT !.secret = IF s.plain # NoText THEN s.plain ELSE @,
            !.plain = NoText, !.dpapi = FALSE]

(* normalize_passphrase_setting: a plain passphrase becomes the stored one; *)
(* a value of DPAPI goes only when there is a passphrase.                   *)
NormalizePassphrase(s) ==
  [s EXCEPT !.secret = IF s.plain # NoText THEN s.plain ELSE @,
            !.plain = NoText,
            !.dpapi = @ /\ s.plain = NoText /\ s.secret = NoText]

(* What the callbacks create and update leave in the settings. *)
Normalized(s) == NormalizePassphrase(Split(s))

(* passphrase_from_settings *)
PassphraseFrom(s) == IF s.secret # NoText THEN s.secret ELSE s.plain
CredentialError(s) == s.dpapi /\ s.secret = NoText /\ s.plain = NoText

(* The fields of the output after create or update.  The code clamps the    *)
(* latency to 120..60000 and makes 16 of any other key length; Latencies    *)
(* holds only what that leaves alone.                                       *)
Configured(s) ==
  [stream |-> s.stream, pass |-> PassphraseFrom(s),
   error |-> CredentialError(s), latency |-> s.latency,
   auto |-> s.auto, manual |-> s.manual, max |-> s.max]

(* toggleOutput gives up before it saves: no usable encoder, or a           *)
(* passphrase that could not be loaded.  settings_ exists by then.          *)
StartRefused ==
  /\ ~running /\ settings = Nothing
  /\ settings' = Blank
  /\ UNCHANGED <<profileVars, dock, output, running, dynamic, typed, edits>>

(* saveProfile refuses: a latency in the URL has been taken by then. *)
SaveRefused ==
  /\ ~running /\ ~dock.secretError /\ ~CanSave(dock)
  /\ settings' = IF settings = Nothing THEN Blank ELSE settings
  /\ dock' = [dock EXCEPT !.latency = LatencyOf(dock)]
  /\ UNCHANGED <<profileVars, output, running, dynamic, typed, edits>>

(* toggleOutput saves the profile; a latency in the URL has been taken. *)
ProfileSaved ==
  /\ ~running /\ ~dock.secretError /\ CanSave(dock)
  /\ store' = [store EXCEPT ![current] = Saved(@, dock)]
  /\ dock' = [dock EXCEPT !.latency = LatencyOf(dock)]
  /\ UNCHANGED <<current, typed, edits>>

(* OBS cannot create the output. *)
CreateFails ==
  /\ ProfileSaved /\ output = Nothing
  /\ settings' = Assembled
  /\ UNCHANGED <<output, running, dynamic>>

(* toggleOutput creates or updates the output and starts it; the start may  *)
(* fail, which leaves the output where it is.  An encoder that cannot       *)
(* change its bitrate is run in fixed mode.                                 *)
StartOutput(started) ==
  /\ ProfileSaved
  /\ settings' = Normalized(Assembled)
  /\ dynamic' \in BOOLEAN
  /\ output' = [Configured(Normalized(Assembled)) EXCEPT
                  !.auto = @ /\ (started => dynamic')]
  /\ started => ~output'.error
  /\ running' = started

(* Mutant: the output survives. *)
OutputKept == UNCHANGED <<settings, output>> /\ running' = FALSE

(* stopOutput releases output_ and settings_. *)
OutputReleased ==
  /\ settings' = Nothing /\ output' = Nothing /\ running' = FALSE

StopOutput ==
  /\ running
  /\ OutputReleased
  /\ UNCHANGED <<profileVars, dock, dynamic, typed, edits>>

(* PROFILE_CHANGING and PROFILE_CHANGED: stopOutput, OBS changes the        *)
(* profile, reloadProfile.                                                  *)
ReloadProfile(p) ==
  /\ p # current
  /\ OutputReleased
  /\ LoadProfile(p, dock, TRUE)
  /\ UNCHANGED <<dynamic, edits>>

(* OBS ends or crashes, and is started again with the same profile. *)
Restart ==
  /\ settings' = Nothing /\ output' = Nothing /\ running' = FALSE
  /\ LoadProfile(current, Empty, FALSE)
  /\ UNCHANGED <<dynamic, edits>>

-----------------------------------------------------------------------------
(* Edits. *)

Edit == edits < MaxEdits /\ edits' = edits + 1

(* The user types a passphrase: textChanged resets secret_error_. *)
EditPassphrase(t) ==
  /\ Edit /\ t # dock.pass
  /\ dock' = [dock EXCEPT !.pass = t, !.secretError = FALSE]
  /\ typed' = TRUE
  /\ UNCHANGED <<profileVars, settings, output, running, dynamic>>

EditStreamId(t) ==
  /\ Edit /\ t # dock.stream
  /\ dock' = [dock EXCEPT !.stream = t]
  /\ UNCHANGED <<profileVars, settings, output, running, dynamic, typed>>

(* The user pastes a URL with a query. *)
PasteUrl(q) ==
  /\ Edit /\ q # dock.query
  /\ dock' = [dock EXCEPT !.query = q]
  /\ UNCHANGED <<profileVars, settings, output, running, dynamic, typed>>

(* A check box that the engine does not refuse: saveSelectedLinks. *)
ToggleLink(l) ==
  LET on == IF l \in dock.selected THEN dock.selected \ {l}
                                   ELSE dock.selected \union {l}
  IN
  /\ Edit
  /\ dock' = [dock EXCEPT !.selected = on]
  /\ store' = [store EXCEPT ![current].links = on]
  /\ UNCHANGED <<current, settings, output, running, dynamic, typed>>

(* settings_ after a change: only if it exists. *)
Changed(s) == IF settings = Nothing THEN Nothing ELSE s

(* Whether srtla_output_set_bitrate_control and, in automatic mode,         *)
(* srtla_output_set_max_bitrate can make a running encoder take a change.   *)
Answers ==
  IF ~running THEN {TRUE} ELSE IF dynamic THEN BOOLEAN ELSE {FALSE}

MaxAnswers == IF running /\ output.auto THEN BOOLEAN ELSE {TRUE}

(* The check box "automatic".  If the output refuses, the handler puts      *)
(* everything back.                                                         *)
EditAuto ==
  LET auto == ~dock.auto IN
  /\ Edit /\ TRUE \in Answers
  /\ dock' = [dock EXCEPT !.auto = auto]
  /\ settings' = Changed([settings EXCEPT !.auto = auto, !.manual = dock.manual])
  /\ output' = IF running
                 THEN [output EXCEPT !.auto = auto, !.manual = dock.manual]
                 ELSE output
  /\ UNCHANGED <<profileVars, running, dynamic, typed>>

(* The manual bitrate, disabled in automatic mode: settings and widget keep *)
(* a value that the encoder refuses.                                        *)
EditManual(r, taken) ==
  /\ Edit /\ r # dock.manual /\ ~dock.auto
  /\ dock' = [dock EXCEPT !.manual = r]
  /\ settings' = Changed([settings EXCEPT !.manual = r])
  /\ output' = IF running /\ taken
                 THEN [output EXCEPT !.manual = r] ELSE output
  /\ UNCHANGED <<profileVars, running, dynamic, typed>>

(* Mutant: the spin box keeps a maximum that the output refused. *)
KeptMax(r, taken) == r

(* What the spin box shows after a change to r: the maximum in settings_ if *)
(* the output refused.                                                      *)
ShownMax(r, taken) == IF taken THEN r ELSE settings.max

EditMax(r, taken) ==
  /\ Edit /\ r # dock.max
  /\ dock' = [dock EXCEPT !.max = ShownMax(r, taken)]
  /\ settings' = IF taken THEN Changed([settings EXCEPT !.max = r]) ELSE settings
  /\ output' = IF running /\ taken
                 THEN [output EXCEPT !.max = r] ELSE output
  /\ UNCHANGED <<profileVars, running, dynamic, typed>>

(* websocketSetBitrateControl: in range, the output first, then both        *)
(* widgets with their signals blocked, then settings_.                      *)
SetBitrateControl(auto, r) ==
  /\ r \in Rates /\ TRUE \in Answers
  /\ dock' = [dock EXCEPT !.auto = auto, !.manual = r]
  /\ settings' = Changed([settings EXCEPT !.auto = auto, !.manual = r])
  /\ output' = IF running
                 THEN [output EXCEPT !.auto = auto, !.manual = r] ELSE output

(* websocketSetMaxBitrate, in the same order. *)
SetMaxBitrate(r) ==
  /\ r \in Rates /\ TRUE \in MaxAnswers
  /\ dock' = [dock EXCEPT !.max = r]
  /\ settings' = Changed([settings EXCEPT !.max = r])
  /\ output' = IF running THEN [output EXCEPT !.max = r] ELSE output

(* The vendor requests SetBitrateControl and SetMaxBitrate, run on the      *)
(* dock's thread.  A request that is refused changes nothing.               *)
RequestBitrateControl(auto, r) ==
  /\ Edit /\ SetBitrateControl(auto, r)
  /\ UNCHANGED <<profileVars, running, dynamic, typed>>

RequestMaxBitrate(r) ==
  /\ Edit /\ SetMaxBitrate(r)
  /\ UNCHANGED <<profileVars, running, dynamic, typed>>

-----------------------------------------------------------------------------
(* Start and Stop: the button, or the vendor request SetOutputActive.       *)
OutputActive ==
  \/ StartRefused
  \/ SaveRefused
  \/ CreateFails
  \/ \E started \in BOOLEAN : StartOutput(started)
  \/ StopOutput

Bitrates ==
  \/ EditAuto
  \/ \E r \in Rates, taken \in Answers : EditManual(r, taken)
  \/ \E r \in Rates, taken \in MaxAnswers : EditMax(r, taken)
  \/ \E auto \in BOOLEAN, r \in Requested : RequestBitrateControl(auto, r)
  \/ \E r \in Requested : RequestMaxBitrate(r)

Next ==
  \/ OutputActive
  \/ \E p \in Profiles : ReloadProfile(p)
  \/ Restart
  \/ \E t \in Texts : EditPassphrase(t) \/ EditStreamId(t)
  \/ \E q \in {p.query : p \in Found} : PasteUrl(q)
  \/ \E l \in Links : ToggleLink(l)
  \/ Bitrates

Spec == Init /\ [][Next]_vars

-----------------------------------------------------------------------------
(* An output that exists was configured from the profile that is selected   *)
(* now: it uses the stream id, the passphrase and the latency stored there, *)
(* and that profile's URL carries no query any more (toggleOutput, which    *)
(* saves before it updates the output; stopOutput and reloadProfile, which  *)
(* must leave nothing of the old profile behind).                           *)
RunsItsProfile ==
  output # Nothing =>
    /\ output.stream = store[current].stream
    /\ output.pass = store[current].secret
    /\ output.latency = store[current].latency
    /\ store[current].query = NoQuery

(* The check boxes are those of the selected profile: EnabledLinks is       *)
(* written with every click and read back after a change of profile or a    *)
(* restart, and no adapter enabled in one profile is enabled in another     *)
(* (loadProfile, saveSelectedLinks).                                        *)
LinksAreScoped == dock.selected = store[current].links

(* While the output runs, the widgets, settings_ and the output agree on    *)
(* the mode (if the encoder can change its bitrate) and on the maximum,     *)
(* whichever handler made a change and whether or not the encoder took it   *)
(* (the handlers of autoBitrate_ and maxBitrate_, and the requests).  The   *)
(* manual bitrate is not put back after a refusal: only widget and          *)
(* settings_ agree on it.                                                   *)
ControlsAgree ==
  running => /\ dock.auto = settings.auto
             /\ output.auto = (dock.auto /\ dynamic)
             /\ dock.max = settings.max /\ settings.max = output.max
             /\ dock.manual = settings.manual

(* settings_ with anything in the fields that an older version or another   *)
(* user of the output may have filled.                                      *)
RawSettings(url, plain, secret, dpapi) ==
  [settings EXCEPT !.query = [@ EXCEPT !.pass = url], !.plain = plain,
                   !.secret = secret, !.dpapi = dpapi]

(* Normalising settings leaves no passphrase in the URL or in the plain     *)
(* field, uses the passphrase of the URL, else the plain one, else the      *)
(* stored one (an empty one in the URL hides the plain one), refuses to     *)
(* start if there is only a value of DPAPI, and changes nothing when it is  *)
(* repeated, as create followed by update does                              *)
(* (split_url_query_into_settings, normalize_passphrase_setting,            *)
(* passphrase_from_settings).  Edits make no difference and are left out.   *)
NormalizingKeepsSecrets ==
  settings # Nothing /\ edits = 0 =>
    \A url \in Texts \union {Absent}, plain, secret \in Texts, dpapi \in BOOLEAN :
      LET n == Normalized(RawSettings(url, plain, secret, dpapi))
          first == IF url # Absent THEN url ELSE plain
          given == IF first # NoText THEN first ELSE secret
      IN /\ n.query = NoQuery /\ n.plain = NoText
         /\ PassphraseFrom(n) = given
         /\ CredentialError(n) <=> dpapi /\ given = NoText
         /\ Normalized(n) = n

(* When changing to a profile removes the query from its URL, the stream    *)
(* id, the passphrase and the latency that it carried are in its fields     *)
(* afterwards: a crash right after the migration loses nothing.  Excepted   *)
(* are profiles whose only passphrase is a value of DPAPI: loadProfile      *)
(* drops their query from the profile and leaves stream id and latency in   *)
(* the widgets, until the next start saves them (lines 1083-1087).          *)
MigrationKeepsFields ==
  [][\A p \in Profiles :
       /\ ~Undecipherable(store[p]) /\ store[p].query # NoQuery
       /\ store'[p].query = NoQuery
       /\ p # current
       => /\ store'[p].stream = StreamOf(store[p])
          /\ store'[p].secret = PassOf(store[p])
          /\ store[p].query.latency # 0 =>
               store'[p].latency = store[p].query.latency]_vars

(* Stated by the comments at srtla-output.cpp:262 and srtla-dock.cpp:1080:  *)
(* a passphrase stored with DPAPI is not discarded unless the user has      *)
(* entered another one.                                                     *)
DpapiIsPreserved ==
  [][\A p \in Profiles : Undecipherable(store[p]) =>
       Undecipherable(store'[p]) \/ typed]_vars
=============================================================================
