-------------------------------- MODULE Launch --------------------------------
(***************************************************************************)
(* The launcher's plan of one node (build_launcher_plan in                 *)
(* core/wings_entry.py): the parameters are merged once, the switches of   *)
(* the advanced features are written for the engine container, and then    *)
(* the adapter builds two commands from the same parameters, first the one *)
(* that replaces a crashed engine and then the main one.  Building a       *)
(* command writes to the parameters it reads, so the first command can     *)
(* reach into the second and into the patches chosen after both.           *)
(***************************************************************************)
EXTENDS LaunchCommand

CONSTANTS Models,      \* the models, and below what else a launch is made of:
          Hosts,       \* the hardware, with the engine asked for on it
          Topologies,  \* one node or several
          Requests     \* the arguments, the files and the environment

Launches ==
  {Over(Over(Over(t, h), r), [model |-> m]) :
     m \in Models, h \in Hosts, t \in Topologies, r \in Requests}

(* Where a parameter may be written down before it is merged               *)
Layers(l) == {ModelDefaults(l), l.parser, l.file, l.given, l.raw}
Sizes == {"tensor_parallel_size", "data_parallel_size", "pipeline_parallel_size"}

(* Numbers of cards and nodes are integers, and a parallel size that       *)
(* someone wrote down is a positive one                                    *)
ASSUME LaunchAssumption ==
  \A l \in Launches :
    /\ l.count \in Int /\ l.asked \in Int /\ l.nnodes \in Nat \ {0}
    /\ \A c \in Layers(l), size \in Sizes : size \in DOMAIN c => c[size] \in Nat \ {0}

VARIABLES launch,    \* what was asked, on which hardware
          pc,        \* how far the plan is
          params,    \* the merged parameters, shared by all that follows
          flags,     \* the advanced features written to advanced_features.json
          commands,  \* the commands built so far, by their use
          patches    \* the patches the script installs before the engine
vars == <<launch, pc, params, flags, commands, patches>>

NoParams == [speculative |-> FALSE, sparse |-> FALSE, suppressed |-> FALSE,
             config |-> Empty]

Init ==
  /\ launch \in Launches
  /\ pc = "merging"
  /\ params = NoParams
  /\ flags = {}
  /\ commands = Empty
  /\ patches = {}

Refuses ==
  /\ pc = "merging" /\ Refused(launch)
  /\ pc' = "failed"
  /\ UNCHANGED <<launch, params, flags, commands, patches>>

Merges ==
  /\ pc = "merging" /\ ~Refused(launch)
  /\ pc' = "merged"
  /\ params' = Merged(launch)
  /\ UNCHANGED <<launch, flags, commands, patches>>

WritesFlags ==
  /\ pc = "merged"
  /\ pc' = "first"
  /\ flags' = AdvancedFeatures(launch, params)
  /\ UNCHANGED <<launch, params, commands, patches>>

(* Mutant: the fallback is built from the parameters themselves *)
BuildsFallbackInPlace ==
  /\ pc = "first" /\ flags # {}
  /\ \E fallback \in {Command(launch, WithoutFeatures(launch, params))} :
       /\ ~fallback.refused
       /\ commands' = With(commands, "fallback", fallback.command)
       /\ params' = fallback.left
  /\ pc' = "main"
  /\ UNCHANGED <<launch, flags, patches>>

(* With advanced features on, the spare command is the fallback without    *)
(* them, built from a copy that may share the engine_config                *)
BuildsFallback ==
  /\ pc = "first" /\ flags # {}
  /\ \E fallback \in {Command(launch, WithoutFeatures(launch, params))} :
       /\ ~fallback.refused
       /\ commands' = With(commands, "fallback", fallback.command)
       /\ params' = IF SharesConfig(launch, params)
                    THEN [params EXCEPT !.config = fallback.left.config]
                    ELSE params
  /\ pc' = "main"
  /\ UNCHANGED <<launch, flags, patches>>

(* Without, it is the same command once more *)
BuildsRetry ==
  /\ pc = "first" /\ flags = {}
  /\ \E retry \in {Command(launch, params)} :
       /\ ~retry.refused
       /\ commands' = With(commands, "retry", retry.command)
       /\ params' = retry.left
  /\ pc' = "main"
  /\ UNCHANGED <<launch, flags, patches>>

BuildsMain ==
  /\ pc = "main"
  /\ \E main \in {Command(launch, params)} :
       /\ ~main.refused
       /\ commands' = With(commands, "main", main.command)
       /\ params' = main.left
  /\ pc' = "built"
  /\ UNCHANGED <<launch, flags, patches>>

(* No topology for a command: the launcher ends, its flags stay written *)
CannotBuild ==
  /\ pc \in {"first", "main"}
  /\ Command(launch, IF pc = "first" /\ flags # {}
                     THEN WithoutFeatures(launch, params) ELSE params).refused
  /\ pc' = "failed"
  /\ UNCHANGED <<launch, params, flags, commands, patches>>

Assembles ==
  /\ pc = "built"
  /\ pc' = "done"
  /\ patches' = PatchFeatures(launch, params) \union
                If(InstallsLmCache(launch), {"lmcache"}, {})
  /\ UNCHANGED <<launch, params, flags, commands>>

Next ==
  \/ Refuses \/ Merges \/ WritesFlags \/ BuildsFallback \/ BuildsRetry
  \/ BuildsMain \/ CannotBuild \/ Assembles

Spec == Init /\ [][Next]_vars

----------------------------------------------------------------------------
(***************************************************************************)
(* Properties.                                                             *)
(***************************************************************************)
Built(use) == use \in DOMAIN commands
Main == commands["main"]
IsVllm == Engine(launch) \in VllmEngines
Many == launch.distributed /\ launch.nnodes > 1

(* Type invariant: parallel sizes of every command are positive.           *)
TypeOK ==
  /\ pc \in {"merging", "merged", "first", "main", "built", "done", "failed"}
  /\ {params.speculative, params.sparse, params.suppressed} \subseteq BOOLEAN
  /\ flags \subseteq {"speculative_decode", "sparse_kv", "kv_offload"}
  /\ DOMAIN commands \subseteq {"fallback", "retry", "main"}
  /\ \A use \in DOMAIN commands :
       \A size \in Sizes :
         LET c == commands[use].config IN size \in DOMAIN c => c[size] \in Nat \ {0}
  /\ patches \subseteq {"ears", "indexcache", "lmcache"}

(* The spare command is built first from the same parameters and writes to *)
(* them, and still the main command is the one the merged parameters ask   *)
(* for; so is the retry, which is the main command once more.              *)
MainIsAsMerged ==
  \A use \in {"main", "retry"} :
    Built(use) => commands[use] = Command(launch, Merged(launch)).command

(* Type invariant, and two commands from one set of parameters.            *)
CommandsIndependent == TypeOK /\ MainIsAsMerged

(* Models that bring a feature of their own, whatever was asked, and the   *)
(* features that a layer of the configuration switches on by itself        *)
OwnFeatures(l) ==
  \/ V4(l.model) \/ Glm47W8a8(l) \/ ForcedSparse(l)
  \/ \E c \in Layers(l) : Carried(c) # {}

(* The command that replaces a crashed engine has none of the advanced     *)
(* features, neither switched on nor left over in the shared engine_config.*)
FallbackIsPlain ==
  Built("fallback") /\ ~OwnFeatures(launch) => Carries(commands["fallback"]) = {}

(* Whoever gives a connector of its own is not the launcher's business     *)
OwnConnector ==
  \/ \E c \in Layers(launch) : "kv_transfer_config" \in DOMAIN c
  \/ launch.file # Empty /\ "CONFIG_FORCE" \in launch.env

(* The container is told of these, and the main command may be without     *)
(* them: the connector of GLM-5.1, that the guards strip from vLLM's; the  *)
(* native offload of a V4 Flash, that the script of several nodes leaves   *)
(* out; and sparse KV on Ascend.                                           *)
DroppedFeatures ==
  If(\/ Engine(launch) = "vllm"
        /\ (Glm51(launch.model) \/ (V4Flash(launch.model) /\ Many))
     \/ OwnConnector, {"kv_offload"}, {})
  \union If(Ascend(launch), {"sparse_kv"}, {})

(* Every other feature the container is told is in the main command.       *)
FlagsAreCarried ==
  Built("main") /\ IsVllm => flags \ DroppedFeatures \subseteq Carries(Main)

(* The LMCache patch is installed exactly for the engines started with its *)
(* connector: the merge, the adapter and the script decide it separately.  *)
PatchMatchesConnector ==
  pc = "done" /\ IsVllm /\ ~OwnConnector =>
    (("lmcache" \in patches) <=>
       /\ "kv_transfer_config" \in DOMAIN Main.config
       /\ "LMCache" \in Main.config["kv_transfer_config"].kind)

(* What the container is told, what it installs and what is started agree, *)
(* but for the dropped features.                                           *)
FeaturesAgree == FlagsAreCarried /\ PatchMatchesConnector

(* Sizes that some layer holds, and the two models whose sizes are         *)
(* constants of the adapter, for the machines they are meant for           *)
FixedTopology ==
  \/ \E c \in Layers(launch) : DOMAIN c \intersect Sizes # {}
  \/ Glm47W8a8(launch) \/ (Ascend(launch) /\ V4Flash(launch.model))

(* A DeepSeek FP8 model on Ascend gets TP 4 and DP 4, however many cards    *)
(* there are, and only the ranks of a group are computed from the cards    *)
Fp8Overcommits ==
  /\ DeepseekFp8(launch)
  /\ IF Many /\ Backend(launch) = "dp_deployment"
     THEN ~DpDeployment(launch) /\ Cards(launch) < 4
     ELSE Cards(launch) * Nodes(launch) < 16 \/ DpDeployment(launch)

MainFits ==
  LET c == Main.config
      Size(key) == IF key \in DOMAIN c THEN c[key] ELSE 1
      replicas  == IF Many /\ Backend(launch) = "dp_deployment"
                   THEN RanksOf(launch, c, 0).size ELSE Size("data_parallel_size")
  IN  Size("tensor_parallel_size") * Size("pipeline_parallel_size") * replicas
        <= Cards(launch) * Nodes(launch)

(* The parallel sizes the launcher computes fit the cards there are, but   *)
(* for the DeepSeek FP8 models above.                                      *)
TopologyFits ==
  Built("main") /\ IsVllm /\ ~FixedTopology /\ ~Fp8Overcommits => MainFits

(* The nodes of a data parallel group share its ranks out: no rank twice,  *)
(* none missing, and on each node no more than its cards can hold.         *)
RanksPartition ==
  Built("main") /\ IsVllm /\ Many /\ Backend(launch) = "dp_deployment" =>
    LET Ranks(r) == RanksOf(launch, params.config, r)
        Of(r) == Ranks(r).start .. (Ranks(r).start + Ranks(r).local - 1)
        nodes == 0 .. (launch.nnodes - 1)
    IN  /\ UNION {Of(r) : r \in nodes} = 0 .. (Ranks(0).size - 1)
        /\ \A r, q \in nodes : r # q => Of(r) \intersect Of(q) = {}
        /\ DpDeployment(launch) =>
             Ranks(0).local * DpTp(launch, params.config) <= Cards(launch)

(* The adapter gives a V4 Flash and the GLM-5 models a prefix cache        *)
OwnPrefixCache ==
  (Ascend(launch) /\ V4Flash(launch.model)) \/ Glm5Dp(launch)

(* What an engine cannot run with is in no layer's and no later setter's   *)
(* power to bring back, in the parameters and in every command: no KV      *)
(* connector for GLM-5.1 with vLLM on nvidia, no chunked prefill and no    *)
(* prefix cache for a pooling model.                                       *)
GuardsHold ==
  pc \notin {"merging", "failed"} /\ IsVllm =>
    LET built == {commands[use].config : use \in DOMAIN commands}
    IN  /\ Pooling(launch.model) =>
             \A c \in {params.config} \union If(OwnPrefixCache, {}, built) :
               DOMAIN c \intersect {"enable_chunked_prefill", "enable_prefix_caching"} = {}
        /\ launch.device = "nvidia" /\ Engine(launch) = "vllm" /\ Glm51(launch.model) =>
             \A c \in {params.config} \union built : "kv_transfer_config" \notin DOMAIN c

(* A value that was given and that the merge keeps reaches the engine.     *)
GivenReachesTheEngine ==
  Built("main") /\ IsVllm /\ launch.raw = Empty =>
    \A k \in Explicit(launch) \intersect DOMAIN Merged(launch).config :
      \/ k \in DOMAIN Main.config /\ Main.config[k] = launch.given[k]
      \/ k = "enable_expert_parallel" /\ launch.model.arch \in
           {"GlmMoeDsaForCausalLM", "KimiK25ForConditionalGeneration"}
      \/ k = "tensor_parallel_size" /\ Many /\ launch.model.arch \in RayPipeline
      \/ k = "kv_cache_dtype" /\ "sparse" \in launch.want

(***************************************************************************)
(* What the code does not keep: TLC refutes each of these.                 *)
(***************************************************************************)
(* advanced_features.json says what the engine was started with            *)
(* (core/wings_entry.py:948-975), without the exceptions above.            *)
FlagsAreTrue == Built("main") /\ IsVllm => flags \subseteq Carries(Main)

(* "Resolve recommended DeepSeek FP8 TP/DP values from device_count"       *)
(* (core/config_loader.py:611): all computed sizes fit.                    *)
ComputedSizesFit == Built("main") /\ IsVllm /\ ~FixedTopology => MainFits

(* The pooling guard for every model that --model-type calls an embedding. *)
PoolingReachesTheEngine ==
  Built("main") /\ IsVllm /\ Pooling(launch.model) =>
    "enable_prefix_caching" \notin DOMAIN Main.config

(* What its docstring promises of the fallback: "generates the fallback    *)
(* command with all advanced features disabled" (core/wings_entry.py:1285, *)
(* in Chinese), whatever the model.                                        *)
FallbackDropsFeatures == Built("fallback") => Carries(commands["fallback"]) = {}

(* "GLM-5.1 ascend: expert parallelism is forced off", on one node and on  *)
(* two (docstring of _force_glm51_ascend_ep_off, in Chinese).              *)
Glm51WithoutExpertParallel ==
  Built("main") /\ Ascend(launch) /\ Glm51(launch.model) =>
    ~Has(Main.config, "enable_expert_parallel", "on")
=============================================================================
