------------------------------ MODULE MC_Launch ------------------------------
(* The launches of the runs of Launch: one model of every kind the code    *)
(* tells apart, with the defaults of config/defaults for it (the keys the  *)
(* properties see), on the hardware it is run on; every switch with every  *)
(* environment, and every layer of parameters with every other.            *)
EXTENDS Launch, TLC

Model(arch, marks, thinking, parser) ==
  [arch |-> arch, type |-> "llm", tested |-> TRUE, marks |-> marks,
   thinking |-> thinking, parser |-> parser,
   deploy |-> [named |-> Empty, weights |-> Empty, others |-> Empty]]
For(engine, values) == (<<engine, FALSE>> :> values) @@ (<<engine, TRUE>> :> values)

FlashTable == For("vllm_ascend",
  [tensor_parallel_size |-> 8, data_parallel_size |-> 1, enable_prefix_caching |-> "on",
   quantization |-> "ascend", tool_call_parser |-> "deepseek_v4"])
ProTable == (<<"vllm_ascend", TRUE>> :>
  [tensor_parallel_size |-> 16, data_parallel_size |-> 2, quantization |-> "ascend"])
Glm5Table == For("vllm_ascend", [quantization |-> "ascend", tool_call_parser |-> "glm47"])

Plain == {
  Model("Qwen3ForCausalLM", {"qwen3", "heads", "fp4"}, "hybrid", "qwen3"),
  Model("Qwen3MoeForCausalLM", {"qwen3", "fp8"}, "always", "qwen3"),
  Model("DeepseekV3ForCausalLM", {"v3", "modelslim", "deepseek"}, "none", "none"),
  Model("DeepseekV32ForCausalLM", {"deepseek", "fp8"}, "hybrid", "unlisted"),
  Model("Qwen3NextForCausalLM", {"qwen3"}, "none", "none"),
  Model("KimiK25ForConditionalGeneration", {}, "hybrid", "kimi_k2"),
  [Model("BertModel", {}, "none", "none") EXCEPT !.type = "embedding"],
  [Model("BertModel", {}, "none", "none") EXCEPT !.type = "rerank", !.tested = FALSE]}
Special == {
  [Model("DeepseekV4ForCausalLM", {"v4", "flash"}, "hybrid", "deepseek_v4")
     EXCEPT !.deploy.named = FlashTable],
  [Model("DeepseekV4ForCausalLM", {"v4", "pro"}, "hybrid", "deepseek_v4")
     EXCEPT !.deploy.named = ProTable],
  [Model("DeepseekV4ForCausalLM", {"w4a8"}, "hybrid", "deepseek_v4")
     EXCEPT !.deploy.weights = ProTable],
  [Model("GlmMoeDsaForCausalLM", {"glm51"}, "hybrid", "glm45")
     EXCEPT !.deploy.others = Glm5Table],
  [Model("GlmMoeDsaForCausalLM", {"glm52"}, "hybrid", "glm45")
     EXCEPT !.deploy.named = Glm5Table],
  (* --model-type makes an embedding of anything *)
  [Model("GlmMoeDsaForCausalLM", {"glm52"}, "none", "none") EXCEPT !.type = "embedding"],
  Model("Glm4MoeForCausalLM", {"w8a8"}, "hybrid", "glm45")}

Host(device, count, a3, engine) ==
  [device |-> device, count |-> count, a3 |-> a3, engine |-> engine,
   d310 |-> FALSE, mig |-> FALSE, asked |-> 1]
MCHosts ==
  {Host("nvidia", 8, FALSE, e) : e \in {"auto", "vllm", "sglang", "lmdeploy"}} \union
  {Host("ascend", 8, FALSE, e) : e \in {"auto", "vllm_ascend", "mindie"}} \union
  {Host("ascend", 4, FALSE, "auto"), Host("ascend", 16, TRUE, "auto"),
   Host("ascend", 16, TRUE, "mindie"), Host("nvidia", 0, FALSE, "auto"),
   [Host("nvidia", 8, FALSE, "auto") EXCEPT !.mig = TRUE],
   [Host("ascend", 4, FALSE, "auto") EXCEPT !.d310 = TRUE]}

Topology(distributed, nnodes, roce) ==
  [distributed |-> distributed, nnodes |-> nnodes, roce |-> roce, backend |-> "ray"]
MCTopologies ==
  {Topology(FALSE, 1, FALSE), Topology(TRUE, 2, FALSE), Topology(TRUE, 2, TRUE)}

Plainly == [want |-> {}, draft |-> FALSE, given |-> Empty,
            parser |-> [gpu_memory_utilization |-> 9, kv_cache_dtype |-> "auto",
                        enable_prefix_caching |-> "off",
                        input_length |-> 4096, output_length |-> 1024],
            file |-> Empty, raw |-> Empty, env |-> {}, cpusize |-> 10, pd |-> ""]
Connector == [kv_transfer_config |-> [kind |-> {"custom"}, size |-> 1]]

(* The switches of the features, with the environments they depend on *)
Switches == {[Plainly EXCEPT !.want = w, !.env = e, !.pd = pd, !.draft = d] :
  w \in {{}, {"speculative"}, {"sparse"}, {"speculative", "sparse"}},
  e \in {{}, {"LMCACHE_OFFLOAD"}}, pd \in {"", "P"}, d \in BOOLEAN}
(* The layers a parameter may come from *)
Layered == {[Plainly EXCEPT !.given = g, !.file = f, !.raw = r, !.env = e] :
  g \in {Empty, [tensor_parallel_size |-> 2], [enable_expert_parallel |-> "on"],
         [enable_expert_parallel |-> "off"],
         [enable_prefix_caching |-> "on", enable_chunked_prefill |-> "on"],
         [input_length |-> 8000, output_length |-> 2000]},
  f \in {Empty, Connector, [max_num_seqs |-> 7, enable_prefix_caching |-> "on"]},
  r \in {Empty, Connector, [enable_prefix_caching |-> "on"]},
  e \in {{}, {"LMCACHE_OFFLOAD"}}}
(* What else the merge depends on *)
Others == {[Plainly EXCEPT !.want = w, !.env = e, !.cpusize = 0] :
  w \in {{}, {"tools"}, {"think", "tools"}},
  e \in {{"ROUTER"}, {"ATB"}, {"SOFT_FP8", "LMCACHE_OFFLOAD"}, {"CONFIG_FORCE"}}}

(* An explicit type of the KV cache beside the switch that sets one *)
CacheTypes == {[Plainly EXCEPT !.want = w, !.given = [kv_cache_dtype |-> d]] :
  w \in {{}, {"sparse"}, {"speculative"}}, d \in {"auto", "fp8"}}

MCModels == Plain \union Special
MCRequests == Switches \union Layered \union Others \union CacheTypes
=============================================================================
