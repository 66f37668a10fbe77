------------------------------- MODULE Rollout ------------------------------
(***************************************************************************)
(* The start of a distributed engine: the master's launcher writes its own *)
(* script and starts its API (wings_control.py, _run_master_mode), a       *)
(* thread of it waits until all workers have registered and sends each its *)
(* start command (_wait_and_distribute_to_workers), the worker writes the  *)
(* script (worker.py, start_engine_api), and the engine container of each  *)
(* pod waits for the script and runs it.                                   *)
(*                                                                         *)
(* Calls fail, time out while the worker still works on them, and lose     *)
(* their answer; a worker's container restarts, with its volume kept; the  *)
(* master's API crashes.  When a worker registers, gives up or is removed  *)
(* is left open here: that is module Registry.  Not modelled: two names    *)
(* for one node, a pod that is replaced with its volume, and POSTs by a    *)
(* user to the master's own /api/start_engine.                             *)
(***************************************************************************)
EXTENDS Integers, FiniteSets, SequencesExt

CONSTANTS
  Master, Workers,   (* the pods                                           *)
  Topologies,        (* the values of node_ips considered                  *)
  MaxPolls,          (* the polls of _wait_for_worker_registration         *)
  MaxProbes,         (* max_attempts of _wait_for_worker_api_ready         *)
  MaxTries,          (* DispatchOptions.max_retries                        *)
  MaxApiRestarts,    (* max_restarts of _run_master_api                    *)
  Restarts           (* bound: the restarts of workers                     *)

ASSUME RolloutAssumption ==
  /\ Master \notin Workers
  /\ \A s \in Topologies : /\ s # <<>> /\ s[1] = Master
                           /\ \A i \in 2 .. Len(s) : s[i] \in Workers
  /\ {MaxPolls, MaxProbes, MaxTries} \subseteq Nat \ {0}
  /\ {MaxApiRestarts, Restarts} \subseteq Nat

Pods     == Workers \cup {Master}
NoScript == -2
Torn     == -1   (* the file has been truncated and not yet filled      *)

VARIABLES
  nodeIps,     (* launch_args.node_ips                                     *)
  phase,       (* of the master: "script" (rank 0's), "wait", "probe",     *)
               (* "post", "answer" (requests.post waits), "finished",      *)
               (* "gaveup" (the thread without dispatching) or "failed"    *)
  polls,       (* polls of /api/nodes made                                 *)
  idx,         (* the worker the thread is at, by its rank                 *)
  tries,       (* probes or posts made for it                              *)
  reply,       (* "ok" or "error" when an answer has arrived, else "none"  *)
  failed,      (* failed_count                                             *)
  apiUp, apiCrashes,
  known,       (* the workers /api/nodes lists                             *)
  met,         (* history: the workers that have registered                *)
  worker,      (* worker[w]: "registering", "serving" or "aborted"         *)
  restarts,
  requests,    (* requests[w]: the ranks of the start commands w has       *)
               (* received and not finished, in their order                *)
  writing,     (* writing[w]: the first of them has truncated the file     *)
  file,        (* file[p]: start_command.sh on the volume of p: NoScript,  *)
               (* Torn or the rank it is for                               *)
  ran          (* ran[p]: what p's engine container has run                *)

threadVars == <<phase, polls, idx, tries, reply, failed>>
apiVars    == <<apiUp, apiCrashes, known, met>>
workerVars == <<worker, restarts, requests, writing>>
vars       == <<nodeIps, threadVars, apiVars, workerVars, file, ran>>

(* "保序去重"                                                               *)
Unique(s) ==
  FoldLeft(LAMBDA seen, ip : IF Contains(seen, ip) THEN seen ELSE Append(seen, ip),
           <<>>, s)

(* For the proofs, which cannot look into the fold.                        *)
ASSUME UniqueAssumption ==
  \A s \in Topologies : /\ Unique(Tail(s)) \in Seq(Workers)
                        /\ IsInjective(Unique(Tail(s)))

WorkerIps == Unique(Tail(nodeIps))
ToStart   == ToSet(WorkerIps)

(* Mutant: enumerate() without start=1.                                    *)
RankFromZero(i) == i - 1

(* The rank of the i-th worker.                                            *)
Rank(i) == i

Scripts == {NoScript, Torn} \cup Nat

TypeOK ==
  /\ nodeIps \in Topologies
  /\ phase \in {"script", "wait", "probe", "post", "answer",
                "finished", "gaveup", "failed"}
  /\ polls \in 0 .. MaxPolls
  /\ idx \in 1 .. (IF WorkerIps = <<>> THEN 1 ELSE Len(WorkerIps))
  /\ tries \in 0 .. (IF phase = "probe" THEN MaxProbes ELSE MaxTries) - 1
  /\ reply \in {"none", "ok", "error"}
  /\ failed \in 0 .. Len(WorkerIps)
  /\ apiUp \in BOOLEAN
  /\ apiCrashes \in 0 .. MaxApiRestarts
  /\ known \subseteq Workers
  /\ met \subseteq Workers
  /\ worker \in [Workers -> {"registering", "serving", "aborted"}]
  /\ restarts \in 0 .. Restarts
  /\ requests \in [Workers -> Seq(Nat)]
  /\ writing \in [Workers -> BOOLEAN]
  /\ file \in [Pods -> Scripts]
  /\ ran \in [Pods -> Scripts]

Init ==
  /\ nodeIps \in Topologies
  /\ phase = "script"
  /\ polls = 0 /\ idx = 1 /\ tries = 0 /\ failed = 0
  /\ reply = "none"
  /\ apiUp = FALSE /\ apiCrashes = 0
  /\ known = {} /\ met = {}
  /\ worker = [w \in Workers |-> "registering"]
  /\ restarts = 0
  /\ requests = [w \in Workers |-> <<>>]
  /\ writing = [w \in Workers |-> FALSE]
  /\ file = [p \in Pods |-> NoScript]
  /\ ran = [p \in Pods |-> NoScript]

-----------------------------------------------------------------------------
(* The master's launcher and its thread.                                   *)

(* _generate_rank0_script, which writes atomically or raises, and what     *)
(* _run_master_mode does after it.  _start_master_api_thread waits for the *)
(* API, but not for ever.                                                  *)
LaunchMaster ==
  /\ phase = "script"
  /\ \/ /\ file' = [file EXCEPT ![Master] = 0]
        /\ phase' = IF WorkerIps = <<>> THEN "finished" ELSE "wait"
        /\ apiUp' \in BOOLEAN
     \/ /\ phase' = "failed"
        /\ UNCHANGED <<file, apiUp>>
  /\ UNCHANGED <<nodeIps, polls, idx, tries, reply, failed,
                 apiCrashes, known, met, workerVars, ran>>

(* Mutant: one worker is enough.                                           *)
AnyRegistered == \E w \in ToStart : w \in known

AllRegistered == ToStart \subseteq known

(* _check_once: a poll that gets no answer counts like one that finds a    *)
(* worker missing.                                                         *)
Poll ==
  /\ phase = "wait"
  /\ \/ /\ apiUp /\ AllRegistered
        /\ phase' = "probe"
        /\ UNCHANGED polls
     \/ /\ polls' = polls + 1
        /\ phase' = IF polls' = MaxPolls THEN "gaveup" ELSE "wait"
  /\ UNCHANGED <<nodeIps, idx, tries, reply, failed, apiVars, workerVars, file, ran>>

Current == WorkerIps[idx]

(* On to the next worker, with or without success.                         *)
NextWorker(failures) ==
  /\ failed' = failed + failures
  /\ tries' = 0
  /\ IF idx < Len(WorkerIps)
     THEN idx' = idx + 1 /\ phase' = "probe"
     ELSE phase' = "finished" /\ UNCHANGED idx

(* Mutant: the attempts are not counted.                                   *)
TryAgainUncounted(max, again) ==
  /\ phase' = again
  /\ UNCHANGED <<failed, idx, tries>>

(* Another attempt, after a pause, or the worker counts as failed.         *)
TryAgain(max, again) ==
  IF tries + 1 < max
  THEN tries' = tries + 1 /\ phase' = again /\ UNCHANGED <<failed, idx>>
  ELSE NextWorker(1)

(* _wait_for_worker_api_ready: one GET of /api/node_info.                  *)
Probe ==
  /\ phase = "probe"
  /\ \/ /\ worker[Current] = "serving"
        /\ phase' = "post"
        /\ tries' = 0
        /\ UNCHANGED <<idx, failed>>
     \/ TryAgain(MaxProbes, "probe")
  /\ UNCHANGED <<nodeIps, polls, reply, apiVars, workerVars, file, ran>>

(* _try_dispatch_to_worker: the POST arrives at the worker, or fails.      *)
Post ==
  /\ phase = "post"
  /\ \/ /\ worker[Current] = "serving"
        /\ requests' = [requests EXCEPT ![Current] = Append(@, Rank(idx))]
        /\ phase' = "answer"
        /\ reply' = "none"
        /\ UNCHANGED <<idx, tries, failed>>
     \/ /\ TryAgain(MaxTries, "post")
        /\ UNCHANGED <<requests, reply>>
  /\ UNCHANGED <<nodeIps, polls, apiVars, worker, restarts, writing, file, ran>>

(* Mutant: the status of the answer is not looked at.                      *)
AnswerUnchecked ==
  /\ phase = "answer"
  /\ IF reply # "none" THEN NextWorker(0) ELSE TryAgain(MaxTries, "post")
  /\ reply' = "none"
  /\ UNCHANGED <<nodeIps, polls, apiVars, workerVars, file, ran>>

(* The answer, or the timeout.                                             *)
Answer ==
  /\ phase = "answer"
  /\ \/ reply = "ok" /\ NextWorker(0)
     \/ TryAgain(MaxTries, "post")
  /\ reply' = "none"
  /\ UNCHANGED <<nodeIps, polls, apiVars, workerVars, file, ran>>

-----------------------------------------------------------------------------
(* The master's API thread, and the registry behind it.                    *)

ApiCrashes ==
  /\ apiUp
  /\ apiCrashes < MaxApiRestarts
  /\ apiUp' = FALSE
  /\ apiCrashes' = apiCrashes + 1
  /\ UNCHANGED <<nodeIps, threadVars, known, met, workerVars, file, ran>>

ApiStarts ==
  /\ phase \notin {"script", "failed"}
  /\ ~apiUp
  /\ apiCrashes < MaxApiRestarts
  /\ apiUp' = TRUE
  /\ UNCHANGED <<nodeIps, threadVars, apiCrashes, known, met, workerVars, file, ran>>

(* A registration, whose answer may be lost: then the worker tries again   *)
(* and serves nothing yet.                                                 *)
Registers(w) ==
  /\ worker[w] = "registering"
  /\ apiUp
  /\ known' = known \cup {w}
  /\ met' = met \cup {w}
  /\ worker' \in {worker, [worker EXCEPT ![w] = "serving"]}
  /\ UNCHANGED <<nodeIps, threadVars, apiUp, apiCrashes,
                 restarts, requests, writing, file, ran>>

Aborts(w) ==
  /\ worker[w] = "registering"
  /\ worker' = [worker EXCEPT ![w] = "aborted"]
  /\ UNCHANGED <<nodeIps, threadVars, apiVars, restarts, requests, writing, file, ran>>

IsRemoved(w) ==
  /\ w \in known
  /\ known' = known \ {w}
  /\ UNCHANGED <<nodeIps, threadVars, apiUp, apiCrashes, met, workerVars, file, ran>>

-----------------------------------------------------------------------------
(* start_engine_api: the handler never suspends, so the worker serves one  *)
(* request after the other.                                                *)

(* The request the master waits for is the last one it sent.               *)
Awaited(w) == phase = "answer" /\ Current = w /\ Len(requests[w]) = 1

Finish(w, result) ==
  /\ requests' = [requests EXCEPT ![w] = Tail(@)]
  /\ reply' = IF Awaited(w) THEN result ELSE reply

(* build_launcher_plan raises, or the file cannot be opened.               *)
BuildFails(w) ==
  /\ requests[w] # <<>> /\ ~writing[w]
  /\ Finish(w, "error")
  /\ UNCHANGED <<nodeIps, phase, polls, idx, tries, failed, apiVars,
                 worker, restarts, writing, file, ran>>

(* safe_write_file without atomic: os.open with O_TRUNC ...                *)
OpenScript(w) ==
  /\ requests[w] # <<>> /\ ~writing[w]
  /\ writing' = [writing EXCEPT ![w] = TRUE]
  /\ file' = [file EXCEPT ![w] = Torn]
  /\ UNCHANGED <<nodeIps, threadVars, apiVars, worker, restarts, requests, ran>>

(* ... then the content, or an error that leaves the file as it is.        *)
WriteScript(w) ==
  /\ writing[w]
  /\ writing' = [writing EXCEPT ![w] = FALSE]
  /\ \/ /\ file' = [file EXCEPT ![w] = requests[w][1]]
        /\ Finish(w, "ok")
     \/ /\ UNCHANGED file
        /\ Finish(w, "error")
  /\ UNCHANGED <<nodeIps, phase, polls, idx, tries, failed, apiVars,
                 worker, restarts, ran>>

(* A request whose client has hung up before the handler was called.       *)
DropAbandoned(w) ==
  /\ requests[w] # <<>> /\ ~writing[w] /\ ~Awaited(w)
  /\ requests' = [requests EXCEPT ![w] = Tail(@)]
  /\ UNCHANGED <<nodeIps, threadVars, apiVars, worker, restarts, writing, file, ran>>

(* The container of the worker's launcher starts anew.                     *)
WorkerRestarts(w) ==
  /\ restarts < Restarts
  /\ restarts' = restarts + 1
  /\ worker' = [worker EXCEPT ![w] = "registering"]
  /\ requests' = [requests EXCEPT ![w] = <<>>]
  /\ writing' = [writing EXCEPT ![w] = FALSE]
  /\ UNCHANGED <<nodeIps, threadVars, apiVars, file, ran>>

(* The engine container has seen the file and runs it.                     *)
EngineRuns(p) ==
  /\ file[p] # NoScript
  /\ ran[p] = NoScript
  /\ ran' = [ran EXCEPT ![p] = file[p]]
  /\ UNCHANGED <<nodeIps, threadVars, apiVars, workerVars, file>>

-----------------------------------------------------------------------------
MasterThread == LaunchMaster \/ Poll \/ Probe \/ Post \/ Answer

Next ==
  \/ MasterThread
  \/ ApiCrashes \/ ApiStarts
  \/ \E w \in Workers :
       \/ Registers(w) \/ Aborts(w) \/ IsRemoved(w)
       \/ BuildFails(w) \/ OpenScript(w) \/ WriteScript(w)
       \/ DropAbandoned(w) \/ WorkerRestarts(w)
  \/ \E p \in Pods : EngineRuns(p)

Spec == Init /\ [][Next]_vars

(* The thread runs, and each of its calls has a timeout.                   *)
FairSpec == Spec /\ WF_vars(MasterThread)

-----------------------------------------------------------------------------
(* Properties.                                                             *)

(* Whatever is retried, answered late or started over, a script on a       *)
(* volume and the script an engine ran are for one rank per pod, and no    *)
(* two pods have the same.                                                 *)
RanksOn(p) == {file[p], ran[p]} \ {NoScript, Torn}

RanksDiffer ==
  /\ \A p \in Pods : Cardinality(RanksOn(p)) <= 1
  /\ \A p, r \in Pods : p # r => RanksOn(p) \cap RanksOn(r) = {}

(* Type invariant, and one rank for each pod.                              *)
OneRankPerPod == TypeOK /\ RanksDiffer

(* No worker is told to start before all of them have registered: the      *)
(* engines wait for each other.                                            *)
NoneBeforeAllMet ==
  (\E w \in Workers : requests[w] # <<>> \/ file[w] # NoScript)
    => ToStart \subseteq met

(* When the master reports no failure, every worker has its whole script,  *)
(* and no request it timed out on is left that could truncate it again.    *)
FinishedMeansStarted ==
  phase = "finished" /\ failed = 0
    => \A w \in ToStart : file[w] \in Nat /\ requests[w] = <<>>

(* The thread comes to an end, whatever the workers and the API do.        *)
RolloutEnds == <>(phase \in {"finished", "gaveup", "failed"})

(* "防止 engine 读到截断的脚本": no engine runs a script that was only partly *)
(* there.                                                                  *)
ScriptRunWhole == \A p \in Pods : ran[p] # Torn
=============================================================================
