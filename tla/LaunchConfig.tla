---------------------------- MODULE LaunchConfig ----------------------------
(***************************************************************************)
(* How a launch gets its engine and its engine_config: the choice of the   *)
(* engine and of the distributed backend, and the merge of the model's     *)
(* defaults, the config file, the given arguments and a sent engine_config *)
(* (core/config_loader.py).                                                *)
(*                                                                         *)
(* A launch l is a record: the hardware (device, d310, mig, count), what   *)
(* was asked (engine or "auto", asked cards, want, draft, given arguments  *)
(* by their launcher names, defaults of the parser, the config file and a  *)
(* sent engine_config), the environment (env, pd), the topology            *)
(* (distributed, nnodes, backend, roce, a3) and the model, a record of     *)
(* what the code reads from its name and config.json.  An engine_config is *)
(* a function from parameter names to values, switches being "on" or "off". *)
(***************************************************************************)
EXTENDS Integers

VllmEngines == {"vllm", "vllm_ascend"}
Engines == VllmEngines \union {"sglang", "mindie"}

Empty == <<>>
Over(c, d) == [k \in DOMAIN c \union DOMAIN d |-> IF k \in DOMAIN d THEN d[k] ELSE c[k]]
With(c, key, value) == [k \in DOMAIN c \union {key} |-> IF k = key THEN value ELSE c[k]]
Without(c, keys) == [k \in DOMAIN c \ keys |-> c[k]]
If(holds, c, d) == IF holds THEN c ELSE d
Has(c, key, value) == key \in DOMAIN c /\ c[key] = value

----------------------------------------------------------------------------
(***************************************************************************)
(* What a model is.                                                        *)
(***************************************************************************)
Pooling(m) == m.type \in {"embedding", "rerank"}
V4(m) == m.arch = "DeepseekV4ForCausalLM"
GlmDsa(m) == m.arch = "GlmMoeDsaForCausalLM"
Glm51(m) == GlmDsa(m) /\ "glm51" \in m.marks
V4Flash(m) == V4(m) /\ {"v4", "flash"} \subseteq m.marks
(* The merge knows the Pro by its name only *)
V4Named(m) == V4(m) /\ "v4" \in m.marks /\ m.marks \intersect {"flash", "pro"} # {}
OfficialV3(l) == l.device = "ascend" /\ {"v3", "modelslim"} \subseteq l.model.marks
DsFp8(m) == /\ m.arch \in {"DeepseekV3ForCausalLM", "DeepseekV32ForCausalLM"}
            /\ {"deepseek", "fp8"} \subseteq m.marks
QwenFp8(m) == {"qwen3", "fp8"} \subseteq m.marks
DeepseekFp8(l) ==
  l.device = "ascend" /\ ~OfficialV3(l) /\ ~QwenFp8(l.model) /\ DsFp8(l.model)
DpArchitectures == {"DeepseekV3ForCausalLM", "DeepseekV32ForCausalLM",
                    "DeepseekV4ForCausalLM", "GlmMoeDsaForCausalLM",
                    "KimiK25ForConditionalGeneration"}
AscendOnlyArchitectures ==
  {"DeepseekV32ForCausalLM", "Qwen3NextForCausalLM", "DeepseekV4ForCausalLM",
   "Glm4MoeForCausalLM", "GlmMoeDsaForCausalLM", "Qwen3_5ForConditionalGeneration",
   "Qwen3_5MoeForConditionalGeneration", "MiniMaxM2ForCausalLM",
   "KimiK25ForConditionalGeneration"}

LmCache(l) == "LMCACHE_OFFLOAD" \in l.env

----------------------------------------------------------------------------
(***************************************************************************)
(* The engine, the cards and the backend.                                  *)
(***************************************************************************)
SelectsNvidia(l) ==
  IF \/ l.pd # "" \/ "ROUTER" \in l.env \/ l.mig
     \/ Pooling(l.model) \/ ~l.model.tested
  THEN "vllm" ELSE "sglang"

SelectsAscend(l) ==
  IF l.d310 \/ ~( \/ Pooling(l.model) \/ ~l.model.tested
                  \/ l.env \intersect {"ATB", "ROUTER", "SOFT_FP8"} # {}
                  \/ l.model.arch \in AscendOnlyArchitectures)
  THEN "mindie" ELSE "vllm_ascend"

(* An explicit engine is taken as it is *)
Engine(l) ==
  CASE l.engine # "auto" -> l.engine
    [] l.engine = "auto" /\ l.device = "nvidia" ->
         If(l.want \intersect {"sparse", "speculative"} # {}, "vllm", SelectsNvidia(l))
    [] OTHER -> SelectsAscend(l)

Refused(l) ==
  \/ l.engine \notin Engines \union {"auto"}
  \/ l.engine = "auto" /\ l.device = "ascend" /\ l.d310 /\ Pooling(l.model)
  \/ If(l.mig, l.asked, l.count) <= 0

Ascend(l) == Engine(l) = "vllm_ascend"
Cards(l) == If(l.mig, l.asked, l.count)
Nodes(l) == If(l.distributed, l.nnodes, 1)

(* The backend that was asked stands where the launch is not distributed, *)
(* and with a P or D role on Ascend                                        *)
Backend(l) ==
  CASE \/ ~l.distributed \/ Engine(l) \notin VllmEngines
       \/ Ascend(l) /\ l.pd # ""                            -> l.backend
    [] ~Ascend(l) /\ l.distributed /\ Engine(l) = "vllm"    ->
         If(l.pd # "", "dp_deployment", "ray")
    [] Ascend(l) /\ l.distributed /\ l.pd = ""              ->
         If(l.model.arch \in DpArchitectures, "dp_deployment", "ray")

(* The switches that only the vLLM engines know are turned off for others *)
Switch(l, feature) == feature \in l.want /\ Engine(l) \in VllmEngines

SingleGlm52(l) ==
  /\ Ascend(l) /\ l.nnodes = 1 /\ Cards(l) % 2 = 0
  /\ l.a3 /\ "glm52" \in l.model.marks

----------------------------------------------------------------------------
(***************************************************************************)
(* Names: the launcher's, and those of the engines.  sglang's switch for   *)
(* prefix caching has the opposite sense.                                  *)
(***************************************************************************)
CommonKeys == {"gpu_memory_utilization", "max_num_seqs", "quantization",
               "input_length", "output_length", "kv_cache_dtype",
               "enable_chunked_prefill", "enable_prefix_caching",
               "enable_expert_parallel"}
VllmKeys == {"no_enable_prefix_caching", "enforce_eager",
             "data_parallel_size", "tensor_parallel_size"}

Named(engine) ==
  CASE engine = "sglang" ->
         [gpu_memory_utilization |-> "mem_fraction_static",
          max_num_seqs           |-> "max_running_requests",
          quantization           |-> "quantization",
          kv_cache_dtype         |-> "kv_cache_dtype",
          enable_expert_parallel |-> "enable_ep_moe",
          enable_prefix_caching  |-> "disable_chunked_prefix_cache"]
    [] engine = "mindie" ->
         [gpu_memory_utilization |-> "npu_memory_fraction",
          input_length           |-> "maxInputTokenLen",
          output_length          |-> "maxIterTimes",
          enable_expert_parallel |-> "enable_ep_moe"]
    [] OTHER ->
         [k \in CommonKeys \ {"input_length", "output_length"} |-> k]

Explicit(l) ==
  DOMAIN l.given \intersect
    (CommonKeys \union If(Engine(l) \in VllmEngines, VllmKeys, {}))

Flipped(value) == If(value = "on", "off", "on")

(* The arguments `args` under the engine's names *)
Native(engine, args) ==
  LET name == Named(engine)
      Of(t) == CHOOSE k \in DOMAIN args \intersect DOMAIN name : name[k] = t
  IN  [t \in {name[k] : k \in DOMAIN args \intersect DOMAIN name} |->
         If(t = "disable_chunked_prefix_cache", Flipped(args[Of(t)]), args[Of(t)])]

(* Given arguments win over the model's defaults, and those over the       *)
(* parser's; mindie keeps the memory fraction of its own environment       *)
CommonParams(l, c) ==
  LET given == [k \in Explicit(l) |-> l.given[k]]
      spare == Without(l.parser, If(Engine(l) = "mindie", {"gpu_memory_utilization"}, {}))
  IN  Over(Over(Native(Engine(l), spare), c), Native(Engine(l), given))

(* The keys of a config file are translated, their values are not *)
Translated(engine, file) ==
  LET name == IF engine \in VllmEngines THEN Empty
              ELSE With(Named(engine), "max_model_len",
                        If(engine = "sglang", "context_length", "maxInputTokenLen"))
      Name(k) == IF k \in DOMAIN name THEN name[k] ELSE k
  IN  [t \in {Name(k) : k \in DOMAIN file} |->
         file[CHOOSE k \in DOMAIN file : Name(k) = t]]

Length(l, key) ==
  IF key \in DOMAIN l.given THEN l.given[key]
  ELSE IF key \in DOMAIN l.parser THEN l.parser[key] ELSE 0
TotalLength(l) == Length(l, "input_length") + Length(l, "output_length")

----------------------------------------------------------------------------
(***************************************************************************)
(* The setters of a vLLM engine_config, in their order.                    *)
(***************************************************************************)
(* Tool calls need the model's parser *)
FunctionCall(l, c) ==
  IF ~("tools" \in l.want \/ Has(c, "enable_auto_tool_choice", "on"))
  THEN Without(c, {"tool_call_parser", "enable_auto_tool_choice"})
  ELSE If("tool_call_parser" \in DOMAIN c,
          With(c, "enable_auto_tool_choice", "on"),
          Without(c, {"enable_auto_tool_choice"}))

ReasoningParser(l, c) == If("think" \in l.want, c, Without(c, {"reasoning_parser"}))

ThinkingDefault(l, c) ==
  IF l.model.thinking = "hybrid"
  THEN With(c, "default_chat_template_kwargs", If("think" \in l.want, "on", "off"))
  ELSE Without(c, {"default_chat_template_kwargs"})

SequenceLength(l, c) ==
  LET length == If(Pooling(l.model), Length(l, "input_length"), TotalLength(l))
  IN  If(Explicit(l) \intersect {"input_length", "output_length"} # {} /\ length > 0,
         With(c, "max_model_len", length), c)

(* The rule for the 300I A2 card never applies: the call that would detect *)
(* it returns three values where two are expected, and the error is caught *)
AdjustedTp(l, c, key) ==
  If(key \in DOMAIN c, c,
     With(c, key, Cards(l) * If(l.pd # "", 1, Nodes(l))))

(* Mutant: TP over all the cards also where GLM-5.2 runs twice *)
ParallelismForAll(l, c) ==
  If(Ascend(l) /\ Backend(l) = "dp_deployment",
     c, AdjustedTp(l, c, "tensor_parallel_size"))

Parallelism(l, c) ==
  If((Ascend(l) /\ Backend(l) = "dp_deployment") \/ SingleGlm52(l),
     c, AdjustedTp(l, c, "tensor_parallel_size"))

PdConnector(l) == If(l.device = "ascend", "Mooncake", "Nixl")

(* The CPU memory for V4's blocks; it counts per card for a Flash only *)
OffloadSize(l, flash) ==
  IF l.cpusize = 0 THEN 200 ELSE l.cpusize * If(flash, Cards(l), 1)

(* Mutant: LMCache also for a V4 Flash of nvidia *)
KvConnectorForAll(l) ==
  [kind |-> If(LmCache(l), {"LMCache"}, {}) \union If(l.pd # "", {PdConnector(l)}, {}),
   size |-> 0]

(* What carries the KV cache: a connector of the engine, several, or none *)
KvConnector(l) ==
  LET offload == LmCache(l) /\ ~( /\ l.device = "nvidia" /\ Engine(l) = "vllm"
                                  /\ Glm51(l.model) )
  IN  CASE LmCache(l) /\ Ascend(l) /\ V4Named(l.model) ->
             [kind |-> {"CPUOffloading"},
              size |-> OffloadSize(l, "flash" \in l.model.marks)]
        [] LmCache(l) /\ Engine(l) = "vllm" /\ V4Flash(l.model) ->
             [kind |-> {}, size |-> 0]
        [] OTHER ->
             [kind |-> If(offload, {"LMCache"}, {})
                       \union If(l.pd # "", {PdConnector(l)}, {}),
              size |-> 0]

KvCache(l, c) ==
  If(KvConnector(l).kind = {}, c, With(c, "kv_transfer_config", KvConnector(l)))

(* With a P or D role: no hybrid KV cache, and the head size that some     *)
(* models leave to be computed                                             *)
PdGuards(l, c) ==
  IF l.pd = "" THEN c
  ELSE Over(Without(c, {"no_disable_hybrid_kv_cache_manager"}),
            If("heads" \in l.model.marks /\ "head_dim" \notin l.model.marks,
               [hf_overrides |-> "head_dim"], Empty))

Router(l, c) == If("ROUTER" \in l.env, With(c, "kv_events_config", "nats"), c)

Atb(l, c) ==
  If("ATB" \in l.env /\ l.device = "ascend", With(c, "use_kunlun_atb", "on"), c)

(* The recommended values for keys that were not given *)
Recommended(l, values) == Without(values, Explicit(l))

(* The number of cards is no key of an engine_config: TP and DP are 4 each *)
SoftFp8(l, c) ==
  CASE OfficialV3(l) -> Over(c, Recommended(l, [quantization |-> "ascend"]))
    [] ~OfficialV3(l) /\ l.device = "ascend" /\ QwenFp8(l.model) ->
         Over(c, Recommended(l, Over([quantization |-> "ascend"],
                   If(l.model.arch = "Qwen3MoeForCausalLM",
                      [enable_expert_parallel |-> "off"], Empty))))
    [] DeepseekFp8(l) ->
         With(Over(c, Recommended(l, Over(
                [quantization |-> "ascend", enforce_eager |-> "on",
                 enable_expert_parallel |-> "on", async_scheduling |-> "on",
                 tensor_parallel_size |-> 4, data_parallel_size |-> 4],
                If("enable_prefix_caching" \in Explicit(l), Empty,
                   [no_enable_prefix_caching |-> "on"])))),
              "use_kunlun_atb", "off")
    [] OTHER -> c

SoftFp4(l, c) ==
  If(l.device = "ascend" /\ "fp4" \in l.model.marks,
     Over(c, Recommended(l, [quantization |-> "ascend"])), c)

Task(l, c) ==
  IF ~Pooling(l.model) THEN c
  ELSE Over(With(c, "task", If(l.model.type = "embedding", "embedding", "score")),
            If(l.device = "ascend",
               [enforce_eager |-> "on", use_kunlun_atb |-> "off"], Empty))

PoolingGuard(l, c) ==
  If(Pooling(l.model),
     Without(c, {"enable_chunked_prefill", "enable_prefix_caching"}), c)

VllmParams(l, defaults) ==
  LET args     == CommonParams(l, defaults)
      chat     == ThinkingDefault(l, ReasoningParser(l, FunctionCall(l, args)))
      sized    == Parallelism(l, SequenceLength(l, chat))
      attached == Router(l, PdGuards(l, KvCache(l, sized)))
      quant    == SoftFp4(l, SoftFp8(l, Atb(l, attached)))
  IN  PoolingGuard(l, Task(l, quant))

----------------------------------------------------------------------------
(***************************************************************************)
(* The merges for the other engines.                                       *)
(***************************************************************************)
(* DeepSeek with long contexts on 16 cards: context and tensor parallelism *)
LongContext(l) ==
  /\ l.model.arch \in {"DeepseekV3ForCausalLM", "DeepseekV32ForCausalLM"}
  /\ TotalLength(l) > 8192
  /\ <<Nodes(l), Cards(l)>> \in {<<1, 16>>, <<2, 8>>}

MindieLengths(l, c) ==
  If(Length(l, "input_length") > 0 /\ Length(l, "output_length") > 0,
     Over(c, [maxSeqLen |-> TotalLength(l),
              maxPrefillTokens |-> If(Length(l, "input_length") > 8192,
                                      Length(l, "input_length"), 8192)]), c)

MindieStrategy(l, c) ==
  LET len == TotalLength(l)
  IN  If(LongContext(l),
         Over(c, [dp |-> 1, cp |-> 2, tp |-> 8, sp |-> 8, maxSeqLen |-> len,
                  maxInputTokenLen |-> len, maxPrefillTokens |-> len]), c)

MindieRanks(l, c) ==
  With(IF l.distributed
       THEN Over(c, [worldSize |-> Cards(l) * l.nnodes,
                     multiNodesInferEnabled |-> If(l.nnodes > 1, "on", "off")])
       ELSE If("worldSize" \in DOMAIN c, c, With(c, "worldSize", Cards(l))),
       "npuDeviceIds", Cards(l))

MindieParams(l, defaults) ==
  LET c == MindieRanks(l, MindieStrategy(l, MindieLengths(l, CommonParams(l, defaults))))
  IN  If("tools" \in l.want, c, Without(c, {"mindie_tool_call_parser"}))

SglangParams(l, defaults) ==
  LET c    == CommonParams(l, defaults)
      both == Length(l, "input_length") > 0 /\ Length(l, "output_length") > 0
      seq  == If(both, With(c, "context_length", TotalLength(l)), c)
      tp   == AdjustedTp(l, seq, "tp_size")
      ep   == If(Has(tp, "enable_ep_moe", "on"),
                 With(tp, "ep_size", tp["tp_size"]), tp)
  IN  Without(ep, {"enable_ep_moe"} \union
                  If("tools" \in l.want, {}, {"tool_call_parser"}))

----------------------------------------------------------------------------
(***************************************************************************)
(* The model's defaults: of its name, of its architecture, or of its type; *)
(* a name that is not listed may still be told a V4 Pro by its weights.    *)
(***************************************************************************)
V4ByWeights(m) == V4(m) /\ "w4a8" \in m.marks
DeployKey(l) == <<Engine(l), l.distributed>>

ModelDefaults(l) ==
  LET m      == l.model
      table  == If(V4ByWeights(m) /\ m.deploy.named = Empty,
                   m.deploy.weights, m.deploy.named)
      named  == If(DeployKey(l) \in DOMAIN table, table[DeployKey(l)], Empty)
      chosen == IF named # Empty THEN named
                ELSE If(DeployKey(l) \in DOMAIN m.deploy.others,
                        m.deploy.others[DeployKey(l)], Empty)
  IN  CASE Engine(l) \in VllmEngines /\ m.parser = "none" ->
             Without(chosen, {"reasoning_parser"})
        [] Engine(l) \in VllmEngines /\ m.parser \notin {"none", "unlisted"} ->
             With(chosen, "reasoning_parser", m.parser)
        [] OTHER -> chosen

EngineParams(l) ==
  CASE Engine(l) \in VllmEngines -> VllmParams(l, ModelDefaults(l))
    [] Engine(l) = "mindie"      -> MindieParams(l, ModelDefaults(l))
    [] Engine(l) = "sglang"      -> SglangParams(l, ModelDefaults(l))

----------------------------------------------------------------------------
(***************************************************************************)
(* The layers: defaults, config file, given arguments, sent engine_config, *)
(* and the guards that come after all of them.                             *)
(***************************************************************************)
FileMerged(l) ==
  LET file == Translated(Engine(l), l.file)
  IN  IF file # Empty /\ "CONFIG_FORCE" \in l.env THEN file
      ELSE Over(EngineParams(l), file)

(* Only keys that are there, under the very name that was given *)
CliOverrides(l, c) ==
  [k \in DOMAIN c |-> IF k \in Explicit(l) THEN l.given[k] ELSE c[k]]

(* GLM-5.1 has no KV offload with vLLM on nvidia, whoever asked for it *)
Glm51Guard(l, c) ==
  If(l.device = "nvidia" /\ Engine(l) = "vllm" /\ Glm51(l.model),
     Without(c, {"kv_transfer_config"}), c)

(* Mutant: the guards before the sent engine_config is merged *)
EngineConfigUnguarded(l) ==
  Over(Glm51Guard(l, PoolingGuard(l, CliOverrides(l, FileMerged(l)))), l.raw)

EngineConfig(l) ==
  Glm51Guard(l, PoolingGuard(l, Over(CliOverrides(l, FileMerged(l)), l.raw)))
=============================================================================
