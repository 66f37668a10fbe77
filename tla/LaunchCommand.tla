---------------------------- MODULE LaunchCommand ---------------------------
(***************************************************************************)
(* From the merged parameters of a launch to the command that starts a     *)
(* vLLM engine: what engines/vllm_adapter.py adds to and takes from the    *)
(* engine_config, the features the command carries, the ranks of a data    *)
(* parallel group (engines/vllm_distributed.py), and the patches that      *)
(* core/wings_entry.py installs for it.                                    *)
(*                                                                         *)
(* The parameters p are a record: the two feature switches, whether the    *)
(* offload is suppressed, and the engine_config, the parts of the merged   *)
(* dict that building a command may itself change.                         *)
(***************************************************************************)
EXTENDS LaunchConfig

DpDeployment(l) ==
  Ascend(l) /\ Backend(l) = "dp_deployment" /\ l.model.arch \in DpArchitectures
(* The adapter also tells a V4 Pro by its weights *)
V4Pro(m) == V4(m) /\ "flash" \notin m.marks /\ m.marks \intersect {"pro", "w4a8"} # {}
V4Offload(l) == Ascend(l) /\ (V4Flash(l.model) \/ V4Pro(l.model))
Glm47W8a8(l) ==
  Engine(l) \in VllmEngines /\ l.model.arch = "Glm4MoeForCausalLM" /\ "w8a8" \in l.model.marks

Merged(l) == [speculative |-> Switch(l, "speculative"), sparse |-> Switch(l, "sparse"),
              suppressed |-> FALSE, config |-> EngineConfig(l)]

----------------------------------------------------------------------------
(***************************************************************************)
(* What the adapter sets: never over a given key, only where nothing is,   *)
(* or over whatever the merge left.                                        *)
(***************************************************************************)
(* Mutant: over a given key, too *)
ForceSetOverGiven(l, c, values) == Over(c, values)

ForceSet(l, c, values) == Over(c, Recommended(l, values))
SetIfEmpty(l, c, values) == Over(Recommended(l, values), c)

StripInternal(l, c) ==
  Without(c, {"use_kunlun_atb"} \union
             If(Engine(l) = "vllm" /\ Glm51(l.model), {"kv_transfer_config"}, {}))

FlashTp(l) == If(l.a3, 4, 8)
AtLeastOne(n) == If(n < 1, 1, n)
FlashDp(l, c) ==
  LET tp == If("tensor_parallel_size" \in DOMAIN c, c["tensor_parallel_size"], FlashTp(l))
  IN  AtLeastOne((Cards(l) * Nodes(l)) \div tp)

FlashDefaults(l, c) ==
  IF ~(Ascend(l) /\ V4Flash(l.model)) THEN c
  ELSE LET tp == ForceSet(l, c, [tensor_parallel_size |-> FlashTp(l)])
           dp == ForceSet(l, tp, [data_parallel_size |-> FlashDp(l, tp)])
       IN  SetIfEmpty(l,
             ForceSet(l, dp, [enable_expert_parallel |-> "on", enable_prefix_caching |-> "on",
                              enable_chunked_prefill |-> "on", enable_auto_tool_choice |-> "on"]),
             [quantization |-> "ascend", async_scheduling |-> "on",
              tool_call_parser |-> "deepseek_v4"])

CpuOffload(l, c) ==
  If(V4Offload(l) /\ LmCache(l),
     With(c, "kv_transfer_config",
          [kind |-> {"CPUOffloading"}, size |-> OffloadSize(l, V4Flash(l.model))]), c)

(* GLM-5.2 on one node runs twice *)
TwoHalves(l) ==
  [tensor_parallel_size |-> Cards(l) \div 2, data_parallel_size |-> 2]

Glm5Defaults(l, c) ==
  IF ~(Ascend(l) /\ GlmDsa(l.model)) THEN c
  ELSE IF "glm52" \in l.model.marks
       THEN SetIfEmpty(l, c, Over(
              [async_scheduling |-> "on", enable_expert_parallel |-> "on"],
              If(SingleGlm52(l), TwoHalves(l), Empty)))
       ELSE If(Glm51(l.model), With(c, "enable_expert_parallel", "off"), c)

(* 0 stands for no default *)
DefaultDpTp(l) ==
  CASE l.model.arch = "DeepseekV3ForCausalLM" -> If(Cards(l) >= 4, 4, Cards(l))
    [] l.model.arch \in {"KimiK25ForConditionalGeneration", "DeepseekV32ForCausalLM",
                         "GlmMoeDsaForCausalLM"} /\ Cards(l) \in {8, 16} -> Cards(l)
    [] OTHER -> 0

PrefixGiven(l) ==
  Explicit(l) \intersect {"enable_prefix_caching", "no_enable_prefix_caching"} # {}

DpDefaults(l, c) ==
  IF ~DpDeployment(l) \/ V4Pro(l.model) \/ V4Flash(l.model) THEN c
  ELSE LET tp == IF SingleGlm52(l) THEN ForceSet(l, c, TwoHalves(l))
                 ELSE If(DefaultDpTp(l) = 0, c,
                         ForceSet(l, c, [tensor_parallel_size |-> DefaultDpTp(l)]))
           prefix == IF PrefixGiven(l) THEN tp
                     ELSE With(Without(tp, {"enable_prefix_caching"}),
                               "no_enable_prefix_caching", "on")
           ep == ForceSet(l, prefix, [enable_expert_parallel |-> "on"])
       IN  If(l.model.arch = "KimiK25ForConditionalGeneration" /\ l.distributed,
              Without(ep, {"enable_expert_parallel"}), ep)

Glm5Dp(l) == DpDeployment(l) /\ GlmDsa(l.model)

Glm5Fixups(l, c) ==
  IF ~Glm5Dp(l) \/ PrefixGiven(l) THEN c
  ELSE With(Without(c, {"no_enable_prefix_caching"}), "enable_prefix_caching", "on")

RoceFixups(l, p, c) ==
  IF ~(Glm5Dp(l) /\ l.roce) THEN c
  ELSE Over(Without(c, {"async_scheduling", "enable_expert_parallel"}),
            If(p.speculative, [speculative_config |-> "deepseek_mtp"], Empty))

(* A V4 Flash on A3 always speculates unless its cache is offloaded *)
Speculates(l, p) ==
  p.speculative \/ (Ascend(l) /\ V4Flash(l.model) /\ l.a3 /\ ~LmCache(l))

(* The engine_config of one command, and the parameters it leaves behind *)
Prepared(l, p) ==
  LET c  == CpuOffload(l, FlashDefaults(l, StripInternal(l, p.config)))
      q  == [p EXCEPT !.speculative = Speculates(l, p)]
      dp == Glm5Fixups(l, DpDefaults(l, Glm5Defaults(l, c)))
  IN  [config |-> Without(RoceFixups(l, q, dp), {"task"}), left |-> q]

WrittenBack == {"tensor_parallel_size", "data_parallel_size", "speculative_config"}
WriteBack(p, c) ==
  [p EXCEPT !.config = Over(p.config, [k \in DOMAIN c \intersect WrittenBack |-> c[k]])]

----------------------------------------------------------------------------
(***************************************************************************)
(* The features of a command.                                              *)
(***************************************************************************)
(* GLM-4.7 W8A8 always speculates and has a topology of its own *)
Glm47Defaults(l, p) ==
  IF ~Glm47W8a8(l) THEN p
  ELSE [p EXCEPT !.speculative = TRUE,
                 !.config = ForceSet(l, p.config,
                    [data_parallel_size |-> 2, tensor_parallel_size |-> 8,
                     enable_expert_parallel |-> "on", quantization |-> "ascend"])]

MtpArchitectures == {"DeepseekV3ForCausalLM", "DeepseekV32ForCausalLM",
  "DeepseekV4ForCausalLM", "GlmMoeDsaForCausalLM", "Qwen3NextForCausalLM",
  "Glm4MoeForCausalLM", "Qwen3_5ForConditionalGeneration",
  "Qwen3_5MoeForConditionalGeneration"}

(* MTP gives way to suffix decoding where LMCache is really used *)
Strategy(l) ==
  LET caches == LmCache(l) /\ ~( \/ Engine(l) = "vllm" /\ (Glm51(l.model) \/ V4Flash(l.model))
                                 \/ V4Offload(l) )
  IN  CASE l.draft -> "draft"
        [] ~l.draft /\ l.model.arch = "Qwen3NextForCausalLM" /\ Ascend(l) -> "suffix"
        [] OTHER -> If(l.model.arch \in MtpArchitectures /\ ~caches, "mtp", "suffix")

IndexCacheArchitectures == {"GlmMoeDsaForCausalLM", "DeepseekV32ForCausalLM"}
ForcedSparse(l) ==
  (Ascend(l) /\ Glm51(l.model)) \/ (Engine(l) = "vllm" /\ V4Flash(l.model))

(* Sparse KV: an index for some models, a smaller cache type for others *)
SparseIndex(l, p) ==
  /\ p.sparse \/ ForcedSparse(l)
  /\ \/ ForcedSparse(l)
     \/ Engine(l) = "vllm" /\ l.model.arch \in IndexCacheArchitectures

SparseType(l, p) ==
  If(p.sparse /\ Engine(l) = "vllm" /\ ~SparseIndex(l, p),
     [p EXCEPT !.config = Over(p.config, [kv_cache_dtype |-> "fp8"])], p)

NativeOffload(l, p) ==
  Engine(l) = "vllm" /\ V4Flash(l.model) /\ ~p.suppressed /\ LmCache(l)

(***************************************************************************)
(* The ranks of node r: how many, how many here, and the first of these;   *)
(* elsewhere than for DeepSeek on Ascend a node has one rank.              *)
(***************************************************************************)
DpTp(l, c) ==
  IF "tensor_parallel_size" \in DOMAIN c THEN c["tensor_parallel_size"] ELSE DefaultDpTp(l)

(* Mutant: a node starts at its number, though it holds several ranks *)
RanksByNode(l, c, r) ==
  LET here == If(DpDeployment(l), Cards(l) \div DpTp(l, c), 1)
  IN  [size |-> here * l.nnodes, local |-> here, start |-> r]

RanksOf(l, c, r) ==
  LET here == IF DpDeployment(l) THEN Cards(l) \div DpTp(l, c) ELSE 1
  IN  [size |-> here * l.nnodes, local |-> here, start |-> r * here]

(* No tensor parallel size that divides the cards: no command at all *)
RanksRefused(l, c) ==
  /\ DpDeployment(l) /\ l.nnodes > 1
  /\ DpTp(l, c) = 0 \/ Cards(l) % AtLeastOne(DpTp(l, c)) # 0

RayPipeline == {"Qwen3MoeForCausalLM", "Qwen3_5MoeForConditionalGeneration",
                "MiniMaxM2ForCausalLM"}
(* Ray: one pipeline stage per node for some models *)
RayParallel(l, c) ==
  If(l.model.arch \in RayPipeline,
     Over(c, [pipeline_parallel_size |-> l.nnodes, tensor_parallel_size |-> Cards(l)]), c)

(* One command, and the parameters its building leaves behind *)
Build(l, p) ==
  LET sparse   == SparseType(l, p)
      own      == Glm47Defaults(l, sparse)
      prepared == Prepared(l, own)
      left     == WriteBack(prepared.left, prepared.config)
      many     == l.distributed /\ l.nnodes > 1
      auto     == left.speculative /\ "speculative_config" \notin DOMAIN left.config
  IN  [left    |-> left,
       refused |-> many /\ RanksRefused(l, prepared.config),
       command |-> [config  |-> If(many /\ Backend(l) = "ray",
                                   RayParallel(l, prepared.config), prepared.config),
                    method  |-> If(auto, Strategy(l), "none"),
                    index   |-> SparseIndex(l, p),
                    offload |-> ~many /\ NativeOffload(l, p)]]

(* The other engines take their engine_config as it is *)
Command(l, p) ==
  IF Engine(l) \in VllmEngines THEN Build(l, p)
  ELSE [left |-> p, refused |-> FALSE,
        command |-> [config |-> p.config, method |-> "none",
                     index |-> FALSE, offload |-> FALSE]]

----------------------------------------------------------------------------
(***************************************************************************)
(* core/wings_entry.py                                                     *)
(***************************************************************************)
AdvancedFeatures(l, p) ==
  If(p.speculative, {"speculative_decode"}, {}) \union
  If(p.sparse, {"sparse_kv"}, {}) \union If(LmCache(l), {"kv_offload"}, {})

(* Mutant: only the switches are turned off *)
WithoutSwitches(l, p) ==
  [speculative |-> FALSE, sparse |-> FALSE, suppressed |-> LmCache(l), config |-> p.config]

(* The parameters of the fallback: the engine_config is shared with those  *)
(* of the launch, and copied only to take the KV connector out of it       *)
WithoutFeatures(l, p) ==
  [speculative |-> FALSE, sparse |-> FALSE, suppressed |-> LmCache(l),
   config |-> If(LmCache(l), Without(p.config, {"kv_transfer_config"}), p.config)]
SharesConfig(l, p) == ~(LmCache(l) /\ "kv_transfer_config" \in DOMAIN p.config)

(* The LMCache patch goes to the engines that will use its connector *)
InstallsLmCache(l) ==
  /\ LmCache(l) /\ Engine(l) \in VllmEngines /\ ~V4Offload(l)
  /\ ~(Engine(l) = "vllm" /\ (V4Flash(l.model) \/ Glm51(l.model)))

(* The patches of the features, for nvidia only *)
PatchFeatures(l, p) ==
  If(Engine(l) = "vllm" /\ p.speculative /\ ~l.draft, {"ears"}, {}) \union
  If(Engine(l) = "vllm" /\ p.sparse /\ l.model.arch \in IndexCacheArchitectures,
     {"indexcache"}, {})

(* The advanced features that an engine_config switches on, and a command *)
Offloads(c) ==
  /\ "kv_transfer_config" \in DOMAIN c
  /\ c["kv_transfer_config"].kind \intersect {"LMCache", "CPUOffloading"} # {}
Carried(c) ==
  If("speculative_config" \in DOMAIN c, {"speculative_decode"}, {}) \union
  If(Has(c, "kv_cache_dtype", "fp8"), {"sparse_kv"}, {}) \union
  If(Offloads(c), {"kv_offload"}, {})
Carries(command) ==
  Carried(command.config) \union
  If(command.method # "none", {"speculative_decode"}, {}) \union
  If(command.index, {"sparse_kv"}, {}) \union
  If(command.offload, {"kv_offload"}, {})
=============================================================================
