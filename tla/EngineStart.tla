----------------------------- MODULE EngineStart ----------------------------
(***************************************************************************)
(* start_command.sh, the script that core/wings_entry.py writes for the    *)
(* engine container, with the log analyzer it starts beside the engine.    *)
(* It is the first process of its container: when it ends, all end.        *)
(*                                                                         *)
(* LOG_ANALYZER_PID is the subshell of `cd ... && python3 ... &', so that  *)
(* killing it, as the script does before it ends, leaves the analyzer      *)
(* itself running until the container ends.                                *)
(***************************************************************************)
EXTENDS LogAnalyzer

CONSTANTS
  Plans,       (* the launches considered, see Plan                        *)
  MaxLog,      (* bound: lines of the log the model keeps                  *)
  Lives        (* bound: starts of the container                           *)

VARIABLES
  plan,        (* what the script was generated for                        *)
  flags,       (* advanced_features.json                                   *)
  pc,          (* where the script is                                      *)
  todo,        (* the installations it has still to try                    *)
  bad,         (* the features whose patch this run could not install      *)
  engine,      (* the two engines a run of the script may start            *)
  chatty,      (* the engine that runs writes lines which no pattern       *)
               (* matches, more often than every timeout_seconds           *)
  termed,      (* the container was told to end                            *)
  life         (* starts of the container so far                           *)

scriptVars == <<plan, flags, pc, todo, bad, engine, chatty, termed, life>>
vars == <<analyzerVars, scriptVars>>

(* advanced_features.json without rag_acc, which nothing here changes.     *)
Features == {"speculative_decode", "sparse_kv", "kv_offload"}

(* accel: "off", "auto" (patches by feature) or "override" (those of the   *)
(* user); installer: the accel volume holds install.py; reached: the       *)
(* address that the analyzer probes (BACKEND_HOST, else 127.0.0.1) is one  *)
(* the engine listens on (the Pod IP), and it answers there within 5 s.    *)
Plan == [wanted    : SUBSET Features,
         accel     : {"off", "auto", "override"},
         installer : BOOLEAN,
         analyzed  : BOOLEAN,
         reached   : BOOLEAN]

ASSUME PlansAssumption == Plans \subseteq Plan
ASSUME BoundsAssumption == MaxLog \in Nat /\ Lives \in Nat \ {0}

AllOff == [f \in Features |-> FALSE]

(* _resolve_engine_and_features, _write_advanced_features_json: by the     *)
(* launcher, when it writes the script.                                    *)
Advertised(p) == [f \in Features |-> f \in p.wanted]

(* _has_advanced_features.                                                 *)
HasAdvanced == plan.wanted # {}

IfWanted(f) == IF f \in plan.wanted THEN <<f>> ELSE <<>>

(* _collect_required_patch_features: EARS for speculative decoding and     *)
(* IndexCache for sparse KV, each named by its status key.                 *)
Patches == IfWanted("speculative_decode") \o IfWanted("sparse_kv")

(* _build_accel_preamble: runtime dependencies, LMCache, then the patches  *)
(* together.                                                               *)
Try(kind, fs) == [kind |-> kind, features |-> fs]
Dependencies == IfWanted("speculative_decode") \o IfWanted("kv_offload")
Singles(kind, fs) == [i \in 1 .. Len(fs) |-> Try(kind, <<fs[i]>>)]
Of(t) == {t.features[i] : i \in 1 .. Len(t.features)}
Preamble ==
  CASE plan.accel = "off"      -> <<>>
    [] plan.accel = "auto"     ->
         Singles("dependency", Dependencies)
           \o (IF Patches = <<>> THEN <<>> ELSE <<Try("batch", Patches)>>)
    [] plan.accel = "override" ->
         Singles("dependency", Dependencies) \o <<Try("override", Patches)>>

Places == {"begin", "overrides", "installs", "update", "abort", "start",
           "wait", "recover", "restart", "wait2", "report", "exit", "down"}
Alive == {"loading", "checked", "serving"}

TypeOK ==
  /\ AnalyzerTypeOK
  /\ plan \in Plans
  /\ flags \in [Features -> BOOLEAN]
  /\ pc \in Places
  /\ todo \in Seq([kind : {"dependency", "batch", "single", "override"},
                   features : Seq(Features)])
  /\ bad \subseteq Features
  /\ engine \in [1 .. 2 -> Alive \cup {"none", "ended", "crashed"}]
  /\ chatty \in BOOLEAN
  /\ termed \in BOOLEAN
  /\ life \in 1 .. Lives

Init ==
  /\ AnalyzerInit
  /\ plan \in Plans
  /\ flags = Advertised(plan)
  /\ pc = "begin"
  /\ todo = <<>>
  /\ bad = {}
  /\ engine = [i \in 1 .. 2 |-> "none"]
  /\ chatty = FALSE
  /\ termed = FALSE
  /\ life = 1

Runs(i)   == engine[i] \in Alive
Serving   == \E i \in 1 .. 2 : engine[i] = "serving"
GoesTo(p) == pc' = p

Echoes(l) == log' = Append(log, l)
AccelLine == Line(TRUE, FALSE, NoHit)

-----------------------------------------------------------------------------
(* Mutant: the log of the earlier run is kept.                             *)
BeginsOnOldLog ==
  /\ pc = "begin"
  /\ GoesTo("overrides")
  /\ IF plan.analyzed
     THEN record' = NoRecord /\ stage' = "boot"
     ELSE UNCHANGED <<record, stage>>
  /\ UNCHANGED <<log, pos, phase, progress, silence, extra, plan, flags, todo,
                 bad, engine, chatty, termed, life>>

(* _build_analyzer_preamble: the files of an earlier run are removed and   *)
(* the analyzer is started; neither on a worker nor with MindIE.           *)
Begins ==
  /\ pc = "begin"
  /\ GoesTo("overrides")
  /\ IF plan.analyzed
     THEN /\ log' = <<>>
          /\ record' = NoRecord
          /\ stage' = "boot"
     ELSE UNCHANGED <<log, record, stage>>
  /\ UNCHANGED <<pos, phase, progress, silence, extra, plan, flags, todo, bad,
                 engine, chatty, termed, life>>

(* _build_env_overrides_preamble: a file that fails ends the script.       *)
Sources ==
  /\ pc = "overrides"
  /\ \/ GoesTo("installs") /\ todo' = Preamble
     \/ GoesTo("abort") /\ UNCHANGED todo
  /\ UNCHANGED <<analyzerVars, plan, flags, bad, engine, chatty, termed, life>>

(* One run of install.py.  A batch that fails is tried patch by patch      *)
(* (_build_per_feature_fallback_code); a patch or a dependency that fails  *)
(* has its flag cleared.  The lines of patches, and that of a missing      *)
(* installer, are those the analyzer's accel patterns match.               *)
Tries ==
  /\ pc = "installs"
  /\ todo # <<>>
  /\ LET t == Head(todo) IN
       \/ /\ ~plan.installer
          /\ Echoes(AccelLine)
          /\ todo' = Tail(todo)
          /\ bad' = bad \cup Of(t)
          /\ UNCHANGED pc
       \/ /\ plan.installer
          /\ IF t.kind \in {"batch", "single"}
             THEN Echoes(AccelLine) ELSE UNCHANGED log
          /\ \/ todo' = Tail(todo) /\ UNCHANGED <<pc, bad>>
             \/ /\ t.kind = "batch"
                /\ todo' = Singles("single", t.features)
                /\ UNCHANGED <<pc, bad>>
             \/ /\ t.kind \in {"dependency", "single"}
                /\ bad' = bad \cup Of(t)
                /\ GoesTo("update")
                /\ UNCHANGED todo
             \/ /\ t.kind = "override"
                /\ todo' = Tail(todo)
                /\ bad' = bad \cup Of(t)
                /\ UNCHANGED pc
  /\ UNCHANGED <<pos, stage, phase, progress, silence, record, extra, plan,
                 flags, engine, chatty, termed, life>>

(* _shell_update_feature_json reads the file as one JSON document: with    *)
(* other lines behind it the update fails, and set -e ends the script.     *)
Updates ==
  /\ pc = "update"
  /\ IF extra
     THEN GoesTo("abort") /\ UNCHANGED <<flags, todo>>
     ELSE /\ flags' = [f \in Features |-> flags[f] /\ f \notin Of(Head(todo))]
          /\ todo' = Tail(todo)
          /\ GoesTo("installs")
  /\ UNCHANGED <<analyzerVars, plan, bad, engine, chatty, termed, life>>

Installed ==
  /\ pc = "installs"
  /\ todo = <<>>
  /\ GoesTo("start")
  /\ UNCHANGED <<analyzerVars, plan, flags, todo, bad, engine, chatty, termed, life>>

(* Mutant: the failure is not recorded.                                    *)
AbortsSilently ==
  /\ pc = "abort"
  /\ GoesTo("exit")
  /\ UNCHANGED <<analyzerVars, plan, flags, todo, bad, engine, chatty, termed, life>>

(* cleanup_analyzer on EXIT, no engine started yet.                        *)
Aborts ==
  /\ pc = "abort"
  /\ IF plan.analyzed THEN Writes("script_error", "failed", 0)
                      ELSE UNCHANGED record
  /\ GoesTo("exit")
  /\ UNCHANGED <<log, pos, stage, phase, progress, silence, extra, plan,
                 flags, todo, bad, engine, chatty, termed, life>>

-----------------------------------------------------------------------------
(* _build_pid_tracked_script: the engine in the background, after commands *)
(* of its start-up (ray start) that may fail.                              *)
Starts ==
  /\ pc = "start"
  /\ \/ GoesTo("abort") /\ UNCHANGED engine
     \/ GoesTo("wait") /\ engine' = [engine EXCEPT ![1] = "loading"]
  /\ UNCHANGED <<analyzerVars, plan, flags, todo, bad, chatty, termed, life>>

(* Mutant: any end of the engine is taken for a crash.                     *)
WaitsForAnyEnd ==
  /\ \/ pc = "wait" /\ engine[1] \in {"ended", "crashed"} /\ GoesTo("recover")
     \/ pc = "wait2" /\ engine[2] \in {"ended", "crashed"} /\ GoesTo("report")
  /\ UNCHANGED <<analyzerVars, plan, flags, todo, bad, engine, chatty, termed, life>>

(* _build_monitor_script: an engine that ends well ends the script, one    *)
(* that crashes is started once more.                                      *)
Waits ==
  /\ \/ pc = "wait" /\ engine[1] = "ended" /\ GoesTo("exit")
     \/ pc = "wait" /\ engine[1] = "crashed" /\ GoesTo("recover")
     \/ pc = "wait2" /\ engine[2] = "ended" /\ GoesTo("exit")
     \/ pc = "wait2" /\ engine[2] = "crashed" /\ GoesTo("report")
  /\ UNCHANGED <<analyzerVars, plan, flags, todo, bad, engine, chatty, termed, life>>

(* Mutant: the flags are left as they were.                                *)
RecoversQuietly ==
  /\ pc = "recover"
  /\ GoesTo("restart")
  /\ UNCHANGED <<analyzerVars, plan, flags, todo, bad, engine, chatty, termed, life>>

(* With advanced features the file is written anew, all of them off.       *)
Recovers ==
  /\ pc = "recover"
  /\ IF HasAdvanced
     THEN flags' = AllOff /\ extra' = FALSE
     ELSE UNCHANGED <<flags, extra>>
  /\ GoesTo("restart")
  /\ UNCHANGED <<log, pos, stage, phase, progress, silence, record, plan,
                 todo, bad, engine, chatty, termed, life>>

(* The second start; where its own commands fail, cleanup_analyzer finds   *)
(* ENGINE_PID set and records nothing.                                     *)
Restarts ==
  /\ pc = "restart"
  /\ \/ GoesTo("exit") /\ UNCHANGED engine
     \/ GoesTo("wait2") /\ engine' = [engine EXCEPT ![2] = "loading"]
  /\ UNCHANGED <<analyzerVars, plan, flags, todo, bad, chatty, termed, life>>

Reports ==
  /\ pc = "report"
  /\ Writes("engine_crash", "failed", 0)
  /\ GoesTo("exit")
  /\ UNCHANGED <<log, pos, stage, phase, progress, silence, extra, plan,
                 flags, todo, bad, engine, chatty, termed, life>>

Ends ==
  /\ stage' = "off"
  /\ pos' = 0 /\ silence' = 0 /\ progress' = 0 /\ phase' = NoPhase
  /\ engine' = [i \in 1 .. 2 |-> "none"] /\ chatty' = FALSE
  /\ bad' = {} /\ todo' = <<>>
  /\ GoesTo("down")
  /\ UNCHANGED <<log, record, extra, plan, flags, termed, life>>

Exits == pc = "exit" /\ Ends

ScriptStep == Begins \/ Sources \/ Tries \/ Updates \/ Installed \/ Aborts
                \/ Starts \/ Waits \/ Recovers \/ Restarts \/ Reports \/ Exits

-----------------------------------------------------------------------------
(* SIGTERM: cleanup_analyzer runs and the script goes on.  Before the      *)
(* engine it may take the status of the last command for a failure; a      *)
(* wait that it interrupts fails, as if the engine had crashed.            *)
Terminates ==
  /\ plan.analyzed
  /\ ~termed
  /\ pc \notin {"begin", "exit", "down"}
  /\ termed' = TRUE
  /\ pc' = CASE pc = "wait" -> "recover" [] pc = "wait2" -> "report"
             [] OTHER -> pc
  /\ \/ UNCHANGED record
     \/ /\ pc \in {"overrides", "installs", "update", "start"}
        /\ Writes("script_error", "failed", 0)
  /\ UNCHANGED <<log, pos, stage, phase, progress, silence, extra, plan,
                 flags, todo, bad, engine, chatty, life>>

Killed == termed /\ pc # "down" /\ Ends

(* The container is started again: same script, same files.                *)
Returns ==
  /\ pc = "down"
  /\ life < Lives
  /\ life' = life + 1
  /\ GoesTo("begin")
  /\ termed' = FALSE
  /\ UNCHANGED <<analyzerVars, plan, flags, todo, bad, engine, chatty>>

-----------------------------------------------------------------------------
(* The engine: it loads, logs that it is ready to be checked, serves, and  *)
(* announces so; it may log an error at any time, fatal or not.            *)
Loading  == Line(FALSE, FALSE, [phase |-> "model_loading", progress |-> 60])
Checking == Line(FALSE, FALSE, [phase |-> "server_checking", progress |-> 99])
Ready    == Line(FALSE, FALSE, [phase |-> "ready", progress |-> 100])
Error    == Line(FALSE, TRUE, NoHit)

Logs(i, l, s) ==
  /\ Len(log) < MaxLog
  /\ Echoes(l)
  /\ engine' = [engine EXCEPT ![i] = s]

EngineLogs(i) ==
  /\ \/ engine[i] = "loading" /\ Logs(i, Loading, "loading")
     \/ engine[i] = "loading" /\ Logs(i, Checking, "checked")
     \/ engine[i] \in {"checked", "serving"} /\ Logs(i, Ready, engine[i])
     \/ Runs(i) /\ Logs(i, Error, engine[i])
  /\ UNCHANGED <<pos, stage, phase, progress, silence, record, extra, plan,
                 flags, pc, todo, bad, chatty, termed, life>>

Serves(i) ==
  /\ engine[i] = "checked"
  /\ engine' = [engine EXCEPT ![i] = "serving"]
  /\ UNCHANGED <<analyzerVars, plan, flags, pc, todo, bad, chatty, termed, life>>

(* It begins or ceases to write other lines, and with each of them the     *)
(* analyzer, once it follows the log, counts its silence from 0 again      *)
(* (_monitor_new_content).  These lines tell it nothing and are not kept.  *)
Talks(i) ==
  /\ Runs(i)
  /\ stage = "live"
  /\ chatty' = ~chatty
  /\ silence' = 0
  /\ UNCHANGED <<log, pos, stage, phase, progress, record, extra, plan, flags,
                 pc, todo, bad, engine, termed, life>>

Leaves(i) ==
  /\ Runs(i)
  /\ \E s \in {"ended", "crashed"} : engine' = [engine EXCEPT ![i] = s]
  /\ chatty' = FALSE
  /\ UNCHANGED <<analyzerVars, plan, flags, pc, todo, bad, termed, life>>

(* What _probe_backend_health may find: an engine that serves at another   *)
(* address, or does not answer in time, need not be found.                 *)
Answers ==
  CASE ~Serving                 -> {FALSE}
    [] Serving /\ plan.reached  -> {TRUE}
    [] Serving /\ ~plan.reached -> BOOLEAN

Analyzes ==
  /\ \/ Boots \/ ReadsLine \/ CaughtUp
     \/ ~chatty /\ \E answer \in Answers : TimesOut(answer)
  /\ UNCHANGED scriptVars

Next ==
  \/ ScriptStep \/ Terminates \/ Killed \/ Returns
  \/ \E i \in 1 .. 2 : EngineLogs(i) \/ Serves(i) \/ Talks(i) \/ Leaves(i)
  \/ Analyzes

(* Processes that run take their steps; the engine and the outside need    *)
(* not.                                                                    *)
Spec == Init /\ [][Next]_vars
             /\ WF_vars(ScriptStep)
             /\ WF_vars(Analyzes)

-----------------------------------------------------------------------------
(* Safety.                                                                 *)

(* While a container runs, "completed" speaks of an engine of this start   *)
(* of it that got as far as being checked: a log, a progress file or an    *)
(* analyzer of an earlier start never makes a new one look ready.          *)
CompletedMeansStarted ==
  record.status = "completed" /\ pc \notin {"begin", "down"}
    => \E i \in 1 .. 2 : engine[i] \in {"checked", "serving", "ended", "crashed"}

(* advanced_features.json never credits the engine that runs with a        *)
(* feature whose patch this start failed to install, nor the fallback      *)
(* engine with any (an override by the user and a missing installer, after *)
(* which nothing is written, apart).                                       *)
FlagsNeverOverclaim ==
  plan.accel # "override" /\ plan.installer
    => \A f \in Features : flags[f] =>
         /\ pc \in {"start", "wait"} => f \in plan.wanted \ bad
         /\ engine[2] = "none"

(* Unless it was told to end, the script starts the engine again only      *)
(* after a crash of the first, and never beside it.                        *)
RestartsOnlyAfterCrash ==
  ~termed /\ engine[2] # "none" => engine[1] = "crashed"

(* Type invariant, and one engine at a time.                               *)
EnginesTakeTurns == TypeOK /\ RestartsOnlyAfterCrash

(* _build_accel_preamble promises that the engine is started whatever      *)
(* comes of the installations: a script given up has none left to try.     *)
AlwaysStartsEngine == pc = "abort" => todo = <<>>

-----------------------------------------------------------------------------
(* Action and temporal properties.                                         *)

GaveUp ==
  /\ stage = "live" /\ stage' = "stopped"
  /\ pos' = pos
  /\ record'.status = "failed"

(* The analyzer's verdict is fair.  Silence of the log is not held against *)
(* an engine that serves and that the probe reaches: it is asked first     *)
(* (_handle_timeout), unless a second one was started beside it after      *)
(* SIGTERM.  And once the analyzer follows the log it never takes back     *)
(* that the start has completed: only the script does, for a crash or a    *)
(* signal, and the next start.                                             *)
ServingTimesOut    == GaveUp /\ Serving /\ plan.reached /\ ~termed
CompletedTakenBack ==
  /\ record.status = "completed" /\ record'.status # "completed"
  /\ pc \notin {"begin", "report"} /\ stage # "catchup" /\ ~termed'
VerdictIsFair == [][~ServingTimesOut /\ ~CompletedTakenBack]_vars

(* "避免误报“启动超时”" (_probe_backend_health): no engine that serves is      *)
(* reported as failed for its silence.                                     *)
SilenceIsForgiven == [][~(GaveUp /\ Serving /\ ~termed)]_vars

(* A script that gives up, before the first start of the engine or after a *)
(* second crash, says so in the progress file.  (A second start that fails *)
(* is not recorded, and a late analyzer may write over what is: see        *)
(* FailureStays.)                                                          *)
GivesUp == (plan.analyzed /\ pc = "abort") \/ pc = "report"
EveryFailureReported == GivesUp ~> (record.status = "failed" \/ termed)

(* The log has a ready line with lines of a start-up behind it: an engine  *)
(* was ready before another.                                               *)
Overtaken ==
  \E j, k \in 1 .. Len(log) :
    /\ j < k
    /\ log[j].hit.phase = "ready"
    /\ log[k].hit # NoHit /\ log[k].hit.phase # "ready"

(* An engine that keeps serving and falls silent is reported in the end    *)
(* and for good, as completed or, after an error line or where the probe   *)
(* does not reach it, as failed: the analyzer waits neither for ever nor   *)
(* in vain.  (An engine that is never silent for long and whose ready line *)
(* no pattern matches is not: see ChattyIsReported.)                       *)
Reported == record.status \in {"completed", "failed"}
ServingIsReported ==
  <>[](plan.analyzed /\ Serving /\ ~chatty /\ ~Overtaken) => <>[]Reported

(* Either way the reader of the progress file learns how the start ended.  *)
OutcomeIsReported == EveryFailureReported /\ ServingIsReported

(* The same of any engine that keeps serving, whatever else it logs.       *)
ChattyIsReported == <>[](plan.analyzed /\ Serving /\ ~Overtaken) => <>[]Reported

(* A failure stays recorded until the next start of the container.         *)
FailureStays ==
  [][record.status = "failed" /\ record'.status # "failed" => pc = "begin"]_vars
=============================================================================
