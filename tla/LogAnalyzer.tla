---------------------------- MODULE LogAnalyzer -----------------------------
(***************************************************************************)
(* log_analyzer/log_analyzer.py: the process that reads the engine's log   *)
(* and appends the progress of the start to progress.jsonl.  It first      *)
(* catches up with what the log holds already, with the error patterns     *)
(* switched off, and then follows it until the start has completed or      *)
(* failed.                                                                 *)
(*                                                                         *)
(* A line of the log is what the patterns make of it: whether an accel or  *)
(* an error pattern matches, and the phase and progress of the first       *)
(* progress pattern that does.  Of progress.jsonl the last line matters,   *)
(* as its reader looks at no other.  The 600 s it waits for the log file   *)
(* are left out: the script that starts it creates the file at once.       *)
(***************************************************************************)
EXTENDS Naturals, Sequences

CONSTANTS
  MaxSilence   (* _max_total_timeout / timeout_seconds                     *)

ASSUME SilenceAssumption == MaxSilence \in Nat \ {0}

VARIABLES
  log,         (* engine.log                                               *)
  pos,         (* the lines read                                           *)
  stage,       (* "off", "boot" (Python starts), "catchup", "live" or      *)
               (* "stopped"                                                *)
  phase,       (* current_phase                                            *)
  progress,    (* current_progress                                         *)
  silence,     (* elapsed_time / timeout_seconds                           *)
  record,      (* the last line of progress.jsonl                          *)
  extra        (* lines of the analyzer follow the JSON document in its    *)
               (* accel file                                               *)

analyzerVars == <<log, pos, stage, phase, progress, silence, record, extra>>

NoPhase  == "none"
NoHit    == [phase |-> NoPhase, progress |-> 0]
NoRecord == [phase |-> NoPhase, status |-> "none", progress |-> 0]

Line(a, e, h) == [accel |-> a, error |-> e, hit |-> h]

Phases   == {NoPhase, "init", "model_loading", "server_checking", "ready",
             "error", "timeout", "script_error", "engine_crash"}
Statuses == {"none", "running", "warning", "completed", "failed"}
Stages   == {"off", "boot", "catchup", "live", "stopped"}

AnalyzerTypeOK ==
  /\ log \in Seq([accel : BOOLEAN, error : BOOLEAN,
                  hit : [phase : Phases, progress : 0 .. 100]])
  /\ pos \in 0 .. Len(log)
  /\ stage \in Stages
  /\ phase \in Phases
  /\ progress \in 0 .. 100
  /\ silence \in 0 .. MaxSilence
  /\ record \in [phase : Phases, status : Statuses, progress : 0 .. 100]
  /\ extra \in BOOLEAN

AnalyzerInit ==
  /\ log = <<>>
  /\ pos = 0
  /\ stage = "off"
  /\ phase = NoPhase
  /\ progress = 0
  /\ silence = 0
  /\ record = NoRecord
  /\ extra = FALSE

Writes(p, s, n) == record' = [phase |-> p, status |-> s, progress |-> n]

Larger(x, y) == IF x < y THEN y ELSE x

(* LogAnalyzer.__init__: its first line of progress.                       *)
Boots ==
  /\ stage = "boot"
  /\ stage' = "catchup"
  /\ Writes("init", "running", 5)
  /\ UNCHANGED <<log, pos, phase, progress, silence, extra>>

-----------------------------------------------------------------------------
(* _parse_log_line.                                                        *)

(* _parse_accel_log: a line of its own for each match.                     *)
NotesAccel(l) == extra' = (extra \/ l.accel)

(* _check_error_patterns, which the catching up skips.                     *)
Matches(l) == l.error /\ stage = "live"

FailsOn(l) ==
  /\ Matches(l)
  /\ stage' = "stopped"
  /\ Writes(IF phase = NoPhase THEN "error" ELSE phase, "failed", progress)
  /\ UNCHANGED <<phase, progress>>

(* _check_progress_patterns: the phase is that of the line, the progress   *)
(* never goes back.  "ready" completes the start, and ends the following   *)
(* of the log but not the catching up, which goes on to the end.           *)
AdvancesOn(l) ==
  /\ ~Matches(l)
  /\ l.hit # NoHit
  /\ phase' = l.hit.phase
  /\ progress' = Larger(l.hit.progress, progress)
  /\ IF l.hit.phase = "ready"
     THEN /\ Writes("ready", "completed", 100)
          /\ stage' = IF stage = "live" THEN "stopped" ELSE stage
     ELSE /\ Writes(l.hit.phase, "running", progress')
          /\ UNCHANGED stage

Ignores(l) ==
  /\ ~Matches(l)
  /\ l.hit = NoHit
  /\ UNCHANGED <<stage, phase, progress, record>>

ReadsLine ==
  /\ stage \in {"catchup", "live"}
  /\ pos < Len(log)
  /\ pos' = pos + 1
  /\ LET l == log[pos + 1] IN
       /\ NotesAccel(l)
       /\ FailsOn(l) \/ AdvancesOn(l) \/ Ignores(l)
  /\ silence' = IF stage = "live" THEN 0 ELSE silence
  /\ UNCHANGED log

(* The end of _read_existing_content: _monitor_new_content follows, unless *)
(* the start has completed among the lines there were.                     *)
CaughtUp ==
  /\ stage = "catchup"
  /\ pos = Len(log)
  /\ stage' = IF \E i \in 1 .. pos : log[i].hit.phase = "ready"
              THEN "stopped" ELSE "live"
  /\ UNCHANGED <<log, pos, phase, progress, silence, record, extra>>

-----------------------------------------------------------------------------
(* Mutant: the engine is asked only once its start-up is known to be over. *)
ConfirmedLate(answer) == phase = "ready" /\ answer

(* _check_timeout and _handle_timeout, after timeout_seconds without a     *)
(* line; answer: the probe got 200 from the engine.                        *)
Confirmed(answer) == phase = "server_checking" /\ progress >= 99 /\ answer

TimesOut(answer) ==
  /\ stage = "live"
  /\ pos = Len(log)
  /\ silence' = silence + 1
  /\ \/ /\ Confirmed(answer)
        /\ stage' = "stopped"
        /\ Writes("ready", "completed", 100)
     \/ /\ ~Confirmed(answer)
        /\ LET given == silence' >= MaxSilence IN
             /\ stage' = IF given THEN "stopped" ELSE stage
             /\ Writes(IF phase = NoPhase THEN "timeout" ELSE phase,
                       IF given THEN "failed" ELSE "warning", progress)
  /\ UNCHANGED <<log, pos, phase, progress, extra>>
=============================================================================
