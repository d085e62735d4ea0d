----------------------------- MODULE DeafWatch -----------------------------
(***************************************************************************)
(* The detector of a deaf download (deafwatch.go): a packet-up session     *)
(* whose POSTs get their 200 while no byte comes down logs one warning per *)
(* silence.  Three goroutines share its atomics: the reader of the         *)
(* download, the POST goroutines and the watchdog's ticker.                *)
(*                                                                         *)
(* A time stamp is kept as its age in seconds, up to the age from which on *)
(* the code no longer tells ages apart.  The steps of the goroutines take  *)
(* no time.                                                                *)
(***************************************************************************)
EXTENDS Integers

CONSTANTS SilenceThreshold,   \* deafSilenceThreshold
          UplinkWindow,       \* deafUplinkActiveWindow
          Period              \* deafWatchTick

ASSUME TimeAssumption ==
  /\ SilenceThreshold \in Nat /\ UplinkWindow \in Nat
  /\ Period \in Nat \ {0}

OldDown == SilenceThreshold + Period + 1
OldUp == UplinkWindow + Period + 1

VARIABLES
  downAge,        \* the age of lastDownlinkNano
  upAge,          \* the age of lastUploadProgressNano; OldUp when it is 0
  episodeLogged,
  phase,          \* seconds since the last tick of the ticker
  watch,          \* the watchdog: wait, silence, cas (inside check), done
  note,           \* the reader: idle, reset (inside noteDownlink)
  logs,           \* history: the warnings about the current silence
  late            \* history: a warning came after the end of its silence

deafVars == <<downAge, upAge, episodeLogged, phase, watch, note, logs, late>>

\* newDeafWatch: the silence is counted from the start of the session.
DeafInit ==
  /\ downAge = 0 /\ upAge = OldUp
  /\ episodeLogged = FALSE
  /\ phase = 0
  /\ watch = "wait" /\ note = "idle"
  /\ logs = 0 /\ late = FALSE

Older(age, limit) == IF age < limit THEN age + 1 ELSE age

\* A second passes; no goroutine is in the middle of its steps, and the
\* ticker's tick is not due.
Pass ==
  /\ watch \in {"wait", "done"} /\ note = "idle"
  /\ phase < Period \/ watch = "done"
  /\ downAge' = Older(downAge, OldDown)
  /\ upAge' = Older(upAge, OldUp)
  /\ phase' = Older(phase, Period)
  /\ UNCHANGED <<episodeLogged, watch, note, logs, late>>

\* deafReader.Read got bytes; noteDownlink stores the time stamp...
noteDownlink ==
  /\ note = "idle"
  /\ downAge' = 0
  /\ logs' = 0
  /\ note' = "reset"
  /\ UNCHANGED <<upAge, episodeLogged, phase, watch, late>>

\* ...and ends the episode.
noteDownlinkResets ==
  /\ note = "reset"
  /\ episodeLogged' = FALSE
  /\ late' = FALSE
  /\ note' = "idle"
  /\ UNCHANGED <<downAge, upAge, phase, watch, logs>>

\* A POST got its 200.
noteUploadProgress ==
  /\ upAge' = 0
  /\ UNCHANGED <<downAge, episodeLogged, phase, watch, note, logs, late>>

\* The ticker fires and check looks at the uplink.
checkUplink ==
  /\ watch = "wait" /\ phase = Period
  /\ phase' = 0
  /\ watch' = IF upAge > UplinkWindow THEN "wait" ELSE "silence"
  /\ UNCHANGED <<downAge, upAge, episodeLogged, note, logs, late>>

checkSilence ==
  /\ watch = "silence"
  /\ watch' = IF downAge <= SilenceThreshold THEN "wait" ELSE "cas"
  /\ UNCHANGED <<downAge, upAge, episodeLogged, phase, note, logs, late>>

\* A warning is about the current silence unless a byte came down since
\* checkSilence.
Warn ==
  IF downAge > SilenceThreshold
    THEN logs' = logs + 1 /\ UNCHANGED late
    ELSE late' = TRUE /\ UNCHANGED logs

checkStores ==
  /\ watch = "cas"
  /\ episodeLogged' = TRUE
  /\ Warn
  /\ watch' = "wait"
  /\ UNCHANGED <<downAge, upAge, phase, note>>

\* The CompareAndSwap and, when it succeeds, the counter and the warning.
checkLogs ==
  /\ watch = "cas"
  /\ episodeLogged' = TRUE
  /\ IF episodeLogged THEN UNCHANGED <<logs, late>> ELSE Warn
  /\ watch' = "wait"
  /\ UNCHANGED <<downAge, upAge, phase, note>>

\* uploadCtx is cancelled; a check that has begun is finished first.
runEnds ==
  /\ watch = "wait"
  /\ watch' = "done"
  /\ UNCHANGED <<downAge, upAge, episodeLogged, phase, note, logs, late>>

DeafNext ==
  \/ Pass \/ noteDownlink \/ noteDownlinkResets \/ noteUploadProgress
  \/ checkUplink \/ checkSilence \/ checkLogs \/ runEnds

DeafSpec == DeafInit /\ [][DeafNext]_deafVars

-----------------------------------------------------------------------------
DeafTypeOK ==
  /\ downAge \in 0..OldDown /\ upAge \in 0..OldUp
  /\ episodeLogged \in BOOLEAN
  /\ phase \in 0..Period
  /\ watch \in {"wait", "silence", "cas", "done"}
  /\ note \in {"idle", "reset"}
  /\ logs \in Nat /\ late \in BOOLEAN

\* The last tick found the download silent for longer than the threshold
\* while the uplink was in use.
DeafAtTick ==
  /\ downAge - phase > SilenceThreshold
  /\ upAge > phase /\ upAge - phase <= UplinkWindow

\* A silence that a tick finds deaf has exactly one warning after that tick:
\* with a tick of 5 s it comes within 52 to 57 s of silence, never twice
\* however long the silence lasts, and again for every later silence of the
\* session.  The one exception is a check that began in the silence before
\* and set episodeLogged after the byte that ended it.
OneWarningPerSilence ==
  /\ logs <= 1
  /\ watch = "wait" /\ DeafAtTick => logs = 1 \/ late
=============================================================================
