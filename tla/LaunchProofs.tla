----------------------------- MODULE LaunchProofs -----------------------------
(***************************************************************************)
(* Proofs about Launch, for every set of models, hosts, topologies and     *)
(* requests, in these steps:                                               *)
(*                                                                         *)
(*   - the guards of the merge come last, and what the building of a       *)
(*     command adds is a fixed set of keys that no guard is about;         *)
(*   - where a merged value comes from: a layer wrote it, or one of the    *)
(*     computations of the launcher did (Written, Computed, Traced);       *)
(*   - the setters of the adapter, one by one: which keys they leave       *)
(*     alone, and that their chain, applied to what it left behind,        *)
(*     changes nothing more;                                               *)
(*   - so a command in closed form is a function of the launch, whatever   *)
(*     was built before it, and that is the invariant of the plan          *)
(*     (PlanInv);                                                          *)
(*   - the properties, as facts about the main command and the fallback.   *)
(***************************************************************************)
EXTENDS Launch, TLAPS

PoolingKeys == {"enable_chunked_prefill", "enable_prefix_caching"}
Fields == {"speculative", "sparse", "suppressed", "config"}
BuiltKeys == {"tensor_parallel_size", "data_parallel_size", "speculative_config",
              "kv_cache_dtype", "enable_expert_parallel", "quantization"}

Guarded(l, c) ==
  /\ Pooling(l.model) => DOMAIN c \intersect PoolingKeys = {}
  /\ l.device = "nvidia" /\ Engine(l) = "vllm" /\ Glm51(l.model) =>
       "kv_transfer_config" \notin DOMAIN c

IInv ==
  /\ DOMAIN params = Fields
  /\ Guarded(launch, params.config)

----------------------------------------------------------------------------
LEMMA OverDomain ==
  ASSUME NEW c, NEW d
  PROVE  DOMAIN Over(c, d) = DOMAIN c \union DOMAIN d
  BY DEF Over

LEMMA WithoutDomain ==
  ASSUME NEW c, NEW keys
  PROVE  DOMAIN Without(c, keys) = DOMAIN c \ keys
  BY DEF Without

LEMMA PoolingGuardDomain ==
  ASSUME NEW l, NEW c
  PROVE  /\ DOMAIN PoolingGuard(l, c) \subseteq DOMAIN c
         /\ Pooling(l.model) => DOMAIN PoolingGuard(l, c) \intersect PoolingKeys = {}
  <1>1. CASE Pooling(l.model)
    <2>1. PoolingGuard(l, c) = Without(c, PoolingKeys)
      BY <1>1 DEF PoolingGuard, If, PoolingKeys
    <2>2. DOMAIN PoolingGuard(l, c) = DOMAIN c \ PoolingKeys
      BY <2>1 DEF Without
    <2> QED  BY <2>2
  <1>2. CASE ~Pooling(l.model)
    <2>1. PoolingGuard(l, c) = c
      BY <1>2 DEF PoolingGuard, If
    <2> QED  BY <1>2, <2>1
  <1> QED  BY <1>1, <1>2

LEMMA Glm51GuardDomain ==
  ASSUME NEW l, NEW c
  PROVE  /\ DOMAIN Glm51Guard(l, c) \subseteq DOMAIN c
         /\ l.device = "nvidia" /\ Engine(l) = "vllm" /\ Glm51(l.model) =>
              "kv_transfer_config" \notin DOMAIN Glm51Guard(l, c)
  <1> DEFINE Applies == l.device = "nvidia" /\ Engine(l) = "vllm" /\ Glm51(l.model)
  <1>1. CASE Applies
    <2>1. Glm51Guard(l, c) = Without(c, {"kv_transfer_config"})
      BY <1>1 DEF Glm51Guard, If
    <2>2. DOMAIN Glm51Guard(l, c) = DOMAIN c \ {"kv_transfer_config"}
      BY <2>1 DEF Without
    <2> QED  BY <2>2
  <1>2. CASE ~Applies
    <2>1. Glm51Guard(l, c) = c
      BY <1>2 DEF Glm51Guard, If
    <2> QED  BY <1>2, <2>1
  <1> QED  BY <1>1, <1>2

----------------------------------------------------------------------------
(***************************************************************************)
(* Two engine_configs at one key.                                          *)
(***************************************************************************)
Same(c, d, k) ==
  /\ k \in DOMAIN c <=> k \in DOMAIN d
  /\ k \in DOMAIN c => c[k] = d[k]
Fn(c) == c = [k \in DOMAIN c |-> c[k]]

LEMMA SameReflexive == \A c, k : Same(c, c, k)
  BY DEF Same

LEMMA SameSymmetric ==
  ASSUME NEW c, NEW d, NEW k, Same(c, d, k)
  PROVE  Same(d, c, k)
  BY DEF Same

LEMMA SameTransitive ==
  ASSUME NEW c, NEW d, NEW e, NEW k, Same(c, d, k), Same(d, e, k)
  PROVE  Same(c, e, k)
  BY DEF Same

LEMMA SameEverywhere ==
  ASSUME NEW c, NEW d, Fn(c), Fn(d), \A k : Same(c, d, k)
  PROVE  c = d
  <1>1. DOMAIN c = DOMAIN d
    BY DEF Same
  <1>2. \A k \in DOMAIN c : c[k] = d[k]
    BY DEF Same
  <1>3. [k \in DOMAIN c |-> c[k]] = [k \in DOMAIN d |-> d[k]]
    BY <1>1, <1>2
  <1> QED  BY <1>3 DEF Fn

LEMMA OverSame ==
  ASSUME NEW c, NEW d, NEW x, NEW y, NEW k, Same(c, d, k), Same(x, y, k)
  PROVE  Same(Over(c, x), Over(d, y), k)
  BY DEF Same, Over

LEMMA OverKeeps ==
  ASSUME NEW c, NEW x, NEW k, k \notin DOMAIN x
  PROVE  Same(Over(c, x), c, k)
  BY DEF Same, Over

LEMMA OverSets ==
  ASSUME NEW c, NEW x, NEW k, k \in DOMAIN x
  PROVE  Same(Over(c, x), x, k)
  BY DEF Same, Over

LEMMA WithKeeps ==
  ASSUME NEW c, NEW key, NEW v, NEW k, k # key
  PROVE  Same(With(c, key, v), c, k)
  BY DEF Same, With

LEMMA WithSets ==
  ASSUME NEW c, NEW key, NEW v
  PROVE  key \in DOMAIN With(c, key, v) /\ With(c, key, v)[key] = v
  BY DEF With

LEMMA WithSame ==
  ASSUME NEW c, NEW d, NEW key, NEW v, NEW k, Same(c, d, k)
  PROVE  Same(With(c, key, v), With(d, key, v), k)
  BY DEF Same, With

LEMMA WithoutKeeps ==
  ASSUME NEW c, NEW keys, NEW k, k \notin keys
  PROVE  Same(Without(c, keys), c, k)
  BY DEF Same, Without

LEMMA WithoutSame ==
  ASSUME NEW c, NEW d, NEW keys, NEW k, Same(c, d, k)
  PROVE  Same(Without(c, keys), Without(d, keys), k)
  BY DEF Same, Without

LEMMA AreFunctions ==
  /\ \A c, d : Fn(Over(c, d))
  /\ \A c, k, v : Fn(With(c, k, v))
  /\ \A c, keys : Fn(Without(c, keys))
  BY DEF Fn, Over, With, Without

----------------------------------------------------------------------------
(***************************************************************************)
(* The guards of the merge.                                                *)
(***************************************************************************)
(* Whatever the four layers hold, the merged engine_config is guarded *)
LEMMA MergeIsGuarded ==
  ASSUME NEW l
  PROVE  Guarded(l, EngineConfig(l))
  <1> DEFINE layers == Over(CliOverrides(l, FileMerged(l)), l.raw)
             pooled == PoolingGuard(l, layers)
  <1>1. EngineConfig(l) = Glm51Guard(l, pooled)
    BY DEF EngineConfig
  <1> HIDE DEF pooled
  <1>2. /\ DOMAIN EngineConfig(l) \subseteq DOMAIN pooled
        /\ l.device = "nvidia" /\ Engine(l) = "vllm" /\ Glm51(l.model) =>
             "kv_transfer_config" \notin DOMAIN EngineConfig(l)
    BY <1>1, Glm51GuardDomain
  <1>3. Pooling(l.model) => DOMAIN pooled \intersect PoolingKeys = {}
    BY PoolingGuardDomain DEF pooled
  <1> QED  BY <1>2, <1>3 DEF Guarded

(* More keys that no guard is about leave a guarded engine_config guarded *)
LEMMA BuiltKeysAreHarmless ==
  ASSUME NEW l, NEW c, NEW d, Guarded(l, c),
         DOMAIN d \subseteq DOMAIN c \union BuiltKeys
  PROVE  Guarded(l, d)
  BY DEF Guarded, BuiltKeys, PoolingKeys

----------------------------------------------------------------------------
(***************************************************************************)
(* What the merge does to the keys that the properties are about: where a  *)
(* value of the engine_config comes from.                                  *)
(***************************************************************************)
Watched == Sizes \union {"speculative_config", "kv_cache_dtype", "kv_transfer_config"}

(* Setters that leave every watched key alone *)
LEMMA ChatSettersKeep ==
  ASSUME NEW l, NEW c, NEW k \in Watched
  PROVE  /\ Same(FunctionCall(l, c), c, k)
         /\ Same(ReasoningParser(l, c), c, k)
         /\ Same(ThinkingDefault(l, c), c, k)
         /\ Same(SequenceLength(l, c), c, k)
  <1>1. Same(FunctionCall(l, c), c, k)
    BY DEF FunctionCall, If, With, Without, Same, Watched, Sizes
  <1>2. Same(ReasoningParser(l, c), c, k)
    BY DEF ReasoningParser, If, Without, Same, Watched, Sizes
  <1>3. Same(ThinkingDefault(l, c), c, k)
    BY DEF ThinkingDefault, If, With, Without, Same, Watched, Sizes
  <1>4. Same(SequenceLength(l, c), c, k)
    BY DEF SequenceLength, If, With, Same, Watched, Sizes
  <1> QED  BY <1>1, <1>2, <1>3, <1>4

LEMMA RecommendedKeeps ==
  ASSUME NEW l, NEW c, NEW values, NEW k, k \notin DOMAIN values
  PROVE  Same(Over(c, Recommended(l, values)), c, k)
  <1>1. k \notin DOMAIN Recommended(l, values)
    BY DEF Recommended, Without
  <1> QED  BY <1>1, OverKeeps

LEMMA EnvironmentSettersKeep ==
  ASSUME NEW l, NEW c, NEW k \in Watched
  PROVE  /\ Same(PdGuards(l, c), c, k)
         /\ Same(Router(l, c), c, k)
         /\ Same(Atb(l, c), c, k)
         /\ Same(SoftFp4(l, c), c, k)
         /\ Same(Task(l, c), c, k)
         /\ Same(PoolingGuard(l, c), c, k)
  <1>0. k \notin {"hf_overrides", "no_disable_hybrid_kv_cache_manager", "kv_events_config",
                  "use_kunlun_atb", "task", "enforce_eager", "quantization",
                  "enable_chunked_prefill", "enable_prefix_caching"}
    BY DEF Watched, Sizes
  <1>1. Same(PdGuards(l, c), c, k)
    <2> DEFINE d == Without(c, {"no_disable_hybrid_kv_cache_manager"})
               x == If("heads" \in l.model.marks /\ "head_dim" \notin l.model.marks,
                       [hf_overrides |-> "head_dim"], Empty)
    <2>1. DOMAIN x \subseteq {"hf_overrides"}
      BY DEF If, Empty
    <2>2. Same(d, c, k)
      BY <1>0, WithoutKeeps
    <2> HIDE DEF x, d
    <2>3. Same(Over(d, x), d, k)
      BY <1>0, <2>1, OverKeeps
    <2>4. PdGuards(l, c) = c \/ PdGuards(l, c) = Over(d, x)
      BY DEF PdGuards, d, x
    <2> QED  BY <2>2, <2>3, <2>4, SameReflexive, SameTransitive
  <1>2. Same(Router(l, c), c, k)
    BY <1>0 DEF Router, If, With, Same
  <1>3. Same(Atb(l, c), c, k)
    BY <1>0 DEF Atb, If, With, Same
  <1>4. Same(SoftFp4(l, c), c, k)
    <2> DEFINE values == [quantization |-> "ascend"]
    <2>1. Same(Over(c, Recommended(l, values)), c, k)
      BY <1>0, RecommendedKeeps
    <2> QED  BY <2>1, SameReflexive DEF SoftFp4, If
  <1>5. Same(Task(l, c), c, k)
    <2> DEFINE d == With(c, "task", If(l.model.type = "embedding", "embedding", "score"))
               x == If(l.device = "ascend",
                       [enforce_eager |-> "on", use_kunlun_atb |-> "off"], Empty)
    <2>1. DOMAIN x \subseteq {"enforce_eager", "use_kunlun_atb"}
      BY DEF If, Empty
    <2>2. Same(d, c, k)
      BY <1>0, WithKeeps
    <2> HIDE DEF x, d
    <2>3. Same(Over(d, x), d, k)
      BY <1>0, <2>1, OverKeeps
    <2>4. Task(l, c) = c \/ Task(l, c) = Over(d, x)
      BY DEF Task, d, x
    <2> QED  BY <2>2, <2>3, <2>4, SameReflexive, SameTransitive
  <1>6. Same(PoolingGuard(l, c), c, k)
    BY <1>0, WithoutKeeps, SameReflexive DEF PoolingGuard, If
  <1> QED  BY <1>1, <1>2, <1>3, <1>4, <1>5, <1>6

(* The recommendation for FP8 sets sizes for DeepSeek models only *)
LEMMA SoftFp8At ==
  ASSUME NEW l, NEW c, NEW k \in Watched
  PROVE  \/ Same(SoftFp8(l, c), c, k)
         \/ /\ DeepseekFp8(l) /\ k \in {"tensor_parallel_size", "data_parallel_size"}
            /\ SoftFp8(l, c)[k] = 4
  <1> DEFINE v3 == [quantization |-> "ascend"]
             moe == If(l.model.arch = "Qwen3MoeForCausalLM",
                       [enable_expert_parallel |-> "off"], Empty)
             qwen == Over(v3, moe)
             own == [quantization |-> "ascend", enforce_eager |-> "on",
                     enable_expert_parallel |-> "on", async_scheduling |-> "on",
                     tensor_parallel_size |-> 4, data_parallel_size |-> 4]
             prefix == If("enable_prefix_caching" \in Explicit(l), Empty,
                          [no_enable_prefix_caching |-> "on"])
             ds == Over(own, prefix)
             x == Over(c, Recommended(l, ds))
  <1>0. k \notin {"quantization", "enable_expert_parallel", "enforce_eager",
                  "async_scheduling", "no_enable_prefix_caching", "use_kunlun_atb"}
    BY DEF Watched, Sizes
  <1>1. \/ SoftFp8(l, c) = c
        \/ SoftFp8(l, c) = Over(c, Recommended(l, v3))
        \/ SoftFp8(l, c) = Over(c, Recommended(l, qwen))
        \/ DeepseekFp8(l) /\ SoftFp8(l, c) = With(x, "use_kunlun_atb", "off")
    BY DEF SoftFp8
  <1>2. CASE SoftFp8(l, c) = c
    BY <1>2, SameReflexive
  <1>3. CASE SoftFp8(l, c) = Over(c, Recommended(l, v3))
    <2>1. k \notin DOMAIN v3
      BY <1>0
    <2> QED  BY <1>3, <2>1, RecommendedKeeps
  <1>4. CASE SoftFp8(l, c) = Over(c, Recommended(l, qwen))
    <2>1. DOMAIN moe \subseteq {"enable_expert_parallel"}
      BY DEF If, Empty
    <2>2. DOMAIN v3 = {"quantization"}
      OBVIOUS
    <2> HIDE DEF v3, moe
    <2>3. DOMAIN qwen = DOMAIN v3 \union DOMAIN moe
      BY OverDomain
    <2>4. k \notin DOMAIN qwen
      BY <1>0, <2>1, <2>2, <2>3
    <2> HIDE DEF qwen
    <2> QED  BY <1>4, <2>4, RecommendedKeeps
  <1>5. CASE DeepseekFp8(l) /\ SoftFp8(l, c) = With(x, "use_kunlun_atb", "off")
    <2>1. DOMAIN prefix \subseteq {"no_enable_prefix_caching"}
      BY DEF If, Empty
    <2> HIDE DEF prefix
    <2>2. Same(ds, own, k)
      BY <1>0, <2>1, OverKeeps
    <2> HIDE DEF ds
    <2>3. Same(SoftFp8(l, c), x, k)
      BY <1>0, <1>5, WithKeeps
    <2>4. CASE k \in DOMAIN ds \ Explicit(l)
      <3>1. k \in {"tensor_parallel_size", "data_parallel_size"} /\ ds[k] = 4
        BY <1>0, <2>2, <2>4 DEF Same
      <3>2. k \in DOMAIN x /\ x[k] = 4
        BY <2>4, <3>1 DEF Over, Recommended, Without
      <3> QED  BY <1>5, <2>3, <3>1, <3>2 DEF Same
    <2>5. CASE k \notin DOMAIN ds \ Explicit(l)
      <3>1. k \notin DOMAIN Recommended(l, ds)
        BY <2>5 DEF Recommended, Without
      <3> QED  BY <2>3, <3>1, OverKeeps, SameTransitive
    <2> QED  BY <2>4, <2>5
  <1> QED  BY <1>1, <1>2, <1>3, <1>4, <1>5

LEMMA SoftFp8Sets ==
  ASSUME NEW l, NEW c, DeepseekFp8(l),
         NEW k \in {"tensor_parallel_size", "data_parallel_size"}, k \notin Explicit(l)
  PROVE  k \in DOMAIN SoftFp8(l, c) /\ SoftFp8(l, c)[k] = 4
  <1> DEFINE own == [quantization |-> "ascend", enforce_eager |-> "on",
                     enable_expert_parallel |-> "on", async_scheduling |-> "on",
                     tensor_parallel_size |-> 4, data_parallel_size |-> 4]
             prefix == If("enable_prefix_caching" \in Explicit(l), Empty,
                          [no_enable_prefix_caching |-> "on"])
             ds == Over(own, prefix)
             x == Over(c, Recommended(l, ds))
  <1>1. SoftFp8(l, c) = With(x, "use_kunlun_atb", "off")
    BY DEF SoftFp8, DeepseekFp8
  <1>2. DOMAIN prefix \subseteq {"no_enable_prefix_caching"}
    BY DEF If, Empty
  <1> HIDE DEF prefix
  <1>3. Same(ds, own, k)
    BY <1>2, OverKeeps
  <1>4. k \in DOMAIN own /\ own[k] = 4
    OBVIOUS
  <1> HIDE DEF own, ds
  <1>5. k \in DOMAIN ds \ Explicit(l) /\ ds[k] = 4
    BY <1>3, <1>4 DEF Same
  <1>6. k \in DOMAIN x /\ x[k] = 4
    BY <1>5 DEF Over, Recommended, Without
  <1> HIDE DEF x
  <1> QED  BY <1>1, <1>6, WithKeeps DEF Same

LEMMA ParallelismAt ==
  ASSUME NEW l, NEW c, NEW k
  PROVE  \/ Same(Parallelism(l, c), c, k)
         \/ /\ k = "tensor_parallel_size" /\ ~SingleGlm52(l)
            /\ ~(Ascend(l) /\ Backend(l) = "dp_deployment")
            /\ Parallelism(l, c)[k] = Cards(l) * If(l.pd # "", 1, Nodes(l))
  BY DEF Parallelism, AdjustedTp, If, With, Same

LEMMA KvCacheAt ==
  ASSUME NEW l, NEW c, NEW k
  PROVE  \/ Same(KvCache(l, c), c, k)
         \/ /\ k = "kv_transfer_config" /\ KvConnector(l).kind # {}
            /\ KvCache(l, c)[k] = KvConnector(l)
  <1> DEFINE connector == KvConnector(l)
  <1> HIDE DEF connector
  <1>1. KvCache(l, c) = If(connector.kind = {}, c, With(c, "kv_transfer_config", connector))
    BY DEF KvCache, connector
  <1>2. \/ Same(KvCache(l, c), c, k)
        \/ /\ k = "kv_transfer_config" /\ connector.kind # {}
           /\ KvCache(l, c)[k] = connector
    BY <1>1 DEF If, With, Same
  <1> QED  BY <1>2 DEF connector

(* Under the engine's name a watched key is still the argument of that name *)
LEMMA NativeAt ==
  ASSUME NEW engine, NEW args, NEW k \in Watched, k \in DOMAIN Native(engine, args)
  PROVE  k \in DOMAIN args /\ Native(engine, args)[k] = args[k]
  <1> DEFINE name == Named(engine)
             keys == DOMAIN args \intersect DOMAIN name
             Of(t) == CHOOSE i \in keys : name[i] = t
  <1>1. PICK i \in keys : name[i] = k
    BY DEF Native
  <1>2. \A j \in DOMAIN name : name[j] = k => j = k
    <2>1. CASE engine = "sglang"
      BY <2>1 DEF Named, Watched, Sizes
    <2>2. CASE engine = "mindie"
      BY <2>2 DEF Named, Watched, Sizes
    <2>3. CASE engine \notin {"sglang", "mindie"}
      BY <2>3 DEF Named
    <2> QED  BY <2>1, <2>2, <2>3
  <1>3. Of(k) \in keys /\ name[Of(k)] = k
    BY <1>1
  <1>4. Of(k) = k
    BY <1>2, <1>3
  <1>5. k # "disable_chunked_prefix_cache"
    BY DEF Watched, Sizes
  <1>6. Native(engine, args)[k] = args[Of(k)]
    BY <1>5 DEF Native, If
  <1> QED  BY <1>3, <1>4, <1>6

LEMMA TranslatedSame ==
  ASSUME NEW engine, NEW file, NEW k \in Watched
  PROVE  Same(Translated(engine, file), file, k)
  <1> DEFINE length == If(engine = "sglang", "context_length", "maxInputTokenLen")
             name == IF engine \in VllmEngines THEN Empty
                     ELSE With(Named(engine), "max_model_len", length)
             Name(i) == IF i \in DOMAIN name THEN name[i] ELSE i
  <1>1. \A i : Name(i) = k <=> i = k
    <2>1. CASE engine \in VllmEngines
      BY <2>1 DEF Empty
    <2>2. CASE engine \notin VllmEngines
      <3>1. name = With(Named(engine), "max_model_len", length)
        BY <2>2
      <3>2. length \in {"context_length", "maxInputTokenLen"}
        BY DEF If
      <3>3. k \notin {"context_length", "maxInputTokenLen", "max_model_len"}
        BY DEF Watched, Sizes
      <3>4. \A i \in DOMAIN Named(engine) : Named(engine)[i] = k <=> i = k
        <4>1. CASE engine = "sglang"
          BY <4>1 DEF Named, Watched, Sizes
        <4>2. CASE engine = "mindie"
          BY <4>2 DEF Named, Watched, Sizes
        <4>3. CASE engine \notin {"sglang", "mindie"}
          BY <4>3 DEF Named
        <4> QED  BY <4>1, <4>2, <4>3
      <3> HIDE DEF length, name
      <3>5. \A i : i \in DOMAIN name <=> i \in DOMAIN Named(engine) \/ i = "max_model_len"
        BY <3>1 DEF With
      <3>6. \A i \in DOMAIN name : name[i] = IF i = "max_model_len" THEN length
                                             ELSE Named(engine)[i]
        BY <3>1 DEF With
      <3> QED  BY <3>2, <3>3, <3>4, <3>5, <3>6
    <2> QED  BY <2>1, <2>2
  <1>2. Translated(engine, file) = [t \in {Name(i) : i \in DOMAIN file} |->
                                      file[CHOOSE i \in DOMAIN file : Name(i) = t]]
    BY DEF Translated
  <1> HIDE DEF Name
  <1>3. k \in DOMAIN Translated(engine, file) <=> k \in DOMAIN file
    BY <1>1, <1>2
  <1>4. ASSUME k \in DOMAIN file
        PROVE  Translated(engine, file)[k] = file[k]
    <2>1. (CHOOSE i \in DOMAIN file : Name(i) = k) = k
      BY <1>1, <1>4
    <2> QED  BY <1>2, <1>3, <1>4, <2>1
  <1> QED  BY <1>3, <1>4 DEF Same

(* The value v of a watched key is one that some layer holds, or the size, *)
(* the recommendation or the connector that the merge computes             *)
Written(l, k, v) == \E w \in Layers(l) : k \in DOMAIN w /\ w[k] = v
Computed(l, k, v) ==
  /\ Engine(l) \in VllmEngines
  /\ \/ /\ k = "tensor_parallel_size" /\ ~SingleGlm52(l)
        /\ ~(Ascend(l) /\ Backend(l) = "dp_deployment")
        /\ v = Cards(l) * If(l.pd # "", 1, Nodes(l))
     \/ /\ k \in {"tensor_parallel_size", "data_parallel_size"}
        /\ DeepseekFp8(l) /\ v = 4
     \/ /\ k = "kv_transfer_config"
        /\ KvConnector(l).kind # {} /\ v = KvConnector(l)
Traced(l, c, k) == k \in DOMAIN c => Written(l, k, c[k]) \/ Computed(l, k, c[k])

LEMMA TracedSame ==
  ASSUME NEW l, NEW c, NEW d, NEW k, Traced(l, c, k), Same(d, c, k)
  PROVE  Traced(l, d, k)
  BY DEF Traced, Same

LEMMA TracedOver ==
  ASSUME NEW l, NEW c, NEW d, NEW k, Traced(l, c, k), Traced(l, d, k)
  PROVE  Traced(l, Over(c, d), k)
  BY DEF Traced, Over

LEMMA LayersTraced ==
  ASSUME NEW l, NEW k
  PROVE  /\ Traced(l, ModelDefaults(l), k)
         /\ Traced(l, l.parser, k)
         /\ Traced(l, l.file, k)
         /\ Traced(l, l.given, k)
         /\ Traced(l, l.raw, k)
  BY DEF Traced, Written, Layers

LEMMA CommonParamsTraced ==
  ASSUME NEW l, NEW k \in Watched
  PROVE  Traced(l, CommonParams(l, ModelDefaults(l)), k)
  <1> DEFINE given == [i \in Explicit(l) |-> l.given[i]]
             mindie == If(Engine(l) = "mindie", {"gpu_memory_utilization"}, {})
             spare == Without(l.parser, mindie)
             a == Native(Engine(l), spare)
             b == Native(Engine(l), given)
  <1>1. Traced(l, a, k)
    <2>1. Traced(l, spare, k)
      BY LayersTraced DEF Traced, Without
    <2> HIDE DEF spare
    <2> QED  BY <2>1, NativeAt DEF Traced
  <1>2. Traced(l, b, k)
    <2>1. Traced(l, given, k)
      <3>1. Explicit(l) \subseteq DOMAIN l.given
        BY DEF Explicit
      <3> QED  BY <3>1, LayersTraced DEF Traced
    <2> HIDE DEF given
    <2> QED  BY <2>1, NativeAt DEF Traced
  <1> HIDE DEF a, b
  <1>3. Traced(l, Over(Over(a, ModelDefaults(l)), b), k)
    BY <1>1, <1>2, LayersTraced, TracedOver
  <1> QED  BY <1>3 DEF CommonParams, a, b

LEMMA ParallelismTraced ==
  ASSUME NEW l, NEW c, NEW k \in Watched, Engine(l) \in VllmEngines, Traced(l, c, k)
  PROVE  Traced(l, Parallelism(l, c), k)
  <1>1. CASE Same(Parallelism(l, c), c, k)
    BY <1>1, TracedSame
  <1>2. CASE ~Same(Parallelism(l, c), c, k)
    <2>1. Computed(l, k, Parallelism(l, c)[k])
      BY <1>2, ParallelismAt DEF Computed
    <2> QED  BY <2>1 DEF Traced
  <1> QED  BY <1>1, <1>2

LEMMA KvCacheTraced ==
  ASSUME NEW l, NEW c, NEW k \in Watched, Engine(l) \in VllmEngines, Traced(l, c, k)
  PROVE  Traced(l, KvCache(l, c), k)
  <1>1. CASE Same(KvCache(l, c), c, k)
    BY <1>1, TracedSame
  <1>2. CASE ~Same(KvCache(l, c), c, k)
    <2>1. Computed(l, k, KvCache(l, c)[k])
      BY <1>2, KvCacheAt DEF Computed
    <2> QED  BY <2>1 DEF Traced
  <1> QED  BY <1>1, <1>2

LEMMA SoftFp8Traced ==
  ASSUME NEW l, NEW c, NEW k \in Watched, Engine(l) \in VllmEngines, Traced(l, c, k)
  PROVE  Traced(l, SoftFp8(l, c), k)
  <1>1. CASE Same(SoftFp8(l, c), c, k)
    BY <1>1, TracedSame
  <1>2. CASE ~Same(SoftFp8(l, c), c, k)
    <2>1. Computed(l, k, SoftFp8(l, c)[k])
      BY <1>2, SoftFp8At DEF Computed
    <2> QED  BY <2>1 DEF Traced
  <1> QED  BY <1>1, <1>2

LEMMA VllmParamsTraced ==
  ASSUME NEW l, NEW k \in Watched, Engine(l) \in VllmEngines
  PROVE  Traced(l, VllmParams(l, ModelDefaults(l)), k)
  <1> DEFINE args     == CommonParams(l, ModelDefaults(l))
             called   == FunctionCall(l, args)
             reasoned == ReasoningParser(l, called)
             chat     == ThinkingDefault(l, reasoned)
             long     == SequenceLength(l, chat)
             sized    == Parallelism(l, long)
             cached   == KvCache(l, sized)
             roles    == PdGuards(l, cached)
             attached == Router(l, roles)
             atb      == Atb(l, attached)
             fp8      == SoftFp8(l, atb)
             quant    == SoftFp4(l, fp8)
             task     == Task(l, quant)
             result   == PoolingGuard(l, task)
  <1>0. VllmParams(l, ModelDefaults(l)) = result
    BY DEF VllmParams
  <1>1. Traced(l, args, k)
    BY CommonParamsTraced
  <1> HIDE DEF args
  <1>2. Traced(l, called, k)
    BY <1>1, ChatSettersKeep, TracedSame
  <1> HIDE DEF called
  <1>3. Traced(l, reasoned, k)
    BY <1>2, ChatSettersKeep, TracedSame
  <1> HIDE DEF reasoned
  <1>4. Traced(l, chat, k)
    BY <1>3, ChatSettersKeep, TracedSame
  <1> HIDE DEF chat
  <1>5. Traced(l, long, k)
    BY <1>4, ChatSettersKeep, TracedSame
  <1> HIDE DEF long
  <1>6. Traced(l, sized, k)
    BY <1>5, ParallelismTraced
  <1> HIDE DEF sized
  <1>7. Traced(l, cached, k)
    BY <1>6, KvCacheTraced
  <1> HIDE DEF cached
  <1>8. Traced(l, roles, k)
    BY <1>7, EnvironmentSettersKeep, TracedSame
  <1> HIDE DEF roles
  <1>9. Traced(l, attached, k)
    BY <1>8, EnvironmentSettersKeep, TracedSame
  <1> HIDE DEF attached
  <1>10. Traced(l, atb, k)
    BY <1>9, EnvironmentSettersKeep, TracedSame
  <1> HIDE DEF atb
  <1>11. Traced(l, fp8, k)
    BY <1>10, SoftFp8Traced
  <1> HIDE DEF fp8
  <1>12. Traced(l, quant, k)
    BY <1>11, EnvironmentSettersKeep, TracedSame
  <1> HIDE DEF quant
  <1>13. Traced(l, task, k)
    BY <1>12, EnvironmentSettersKeep, TracedSame
  <1> HIDE DEF task
  <1>14. Traced(l, result, k)
    BY <1>13, EnvironmentSettersKeep, TracedSame
  <1> QED  BY <1>0, <1>14

LEMMA MindieSettersKeep ==
  ASSUME NEW l, NEW c, NEW k \in Watched
  PROVE  /\ Same(MindieLengths(l, c), c, k)
         /\ Same(MindieStrategy(l, c), c, k)
         /\ Same(MindieRanks(l, c), c, k)
  <1>0. k \notin {"maxSeqLen", "maxPrefillTokens", "dp", "cp", "tp", "sp", "worldSize",
                  "maxInputTokenLen", "multiNodesInferEnabled", "npuDeviceIds"}
    BY DEF Watched, Sizes
  <1>1. Same(MindieLengths(l, c), c, k)
    <2> DEFINE lens == [maxSeqLen |-> TotalLength(l),
                        maxPrefillTokens |-> If(Length(l, "input_length") > 8192,
                                                Length(l, "input_length"), 8192)]
    <2>1. k \notin DOMAIN lens
      BY <1>0
    <2>2. MindieLengths(l, c) =
            If(Length(l, "input_length") > 0 /\ Length(l, "output_length") > 0, Over(c, lens), c)
      BY DEF MindieLengths
    <2> HIDE DEF lens
    <2> QED  BY <2>1, <2>2, OverKeeps, SameReflexive DEF If
  <1>2. Same(MindieStrategy(l, c), c, k)
    <2> DEFINE len == TotalLength(l)
               sizes == [dp |-> 1, cp |-> 2, tp |-> 8, sp |-> 8, maxSeqLen |-> len,
                         maxInputTokenLen |-> len, maxPrefillTokens |-> len]
    <2>1. k \notin DOMAIN sizes
      BY <1>0
    <2>2. MindieStrategy(l, c) = If(LongContext(l), Over(c, sizes), c)
      BY DEF MindieStrategy
    <2> HIDE DEF sizes
    <2> QED  BY <2>1, <2>2, OverKeeps, SameReflexive DEF If
  <1>3. Same(MindieRanks(l, c), c, k)
    <2> DEFINE several == If(l.nnodes > 1, "on", "off")
               nodes == [worldSize |-> Cards(l) * l.nnodes,
                         multiNodesInferEnabled |-> several]
               one == With(c, "worldSize", Cards(l))
               ranks == IF l.distributed THEN Over(c, nodes)
                        ELSE If("worldSize" \in DOMAIN c, c, one)
    <2>1. k \notin DOMAIN nodes
      BY <1>0
    <2>2. MindieRanks(l, c) = With(ranks, "npuDeviceIds", Cards(l))
      BY DEF MindieRanks
    <2> HIDE DEF nodes
    <2>3. Same(one, c, k)
      BY <1>0, WithKeeps
    <2>4. Same(ranks, c, k)
      BY <2>1, <2>3, OverKeeps, SameReflexive DEF If
    <2> HIDE DEF ranks
    <2>5. Same(With(ranks, "npuDeviceIds", Cards(l)), ranks, k)
      BY <1>0, WithKeeps
    <2> QED  BY <2>2, <2>4, <2>5, SameTransitive
  <1> QED  BY <1>1, <1>2, <1>3

LEMMA MindieParamsTraced ==
  ASSUME NEW l, NEW k \in Watched
  PROVE  Traced(l, MindieParams(l, ModelDefaults(l)), k)
  <1> DEFINE c == CommonParams(l, ModelDefaults(l))
             seq == MindieLengths(l, c)
             long == MindieStrategy(l, seq)
             all == MindieRanks(l, long)
             parsed == Without(all, {"mindie_tool_call_parser"})
  <1>1. MindieParams(l, ModelDefaults(l)) = If("tools" \in l.want, all, parsed)
    BY DEF MindieParams
  <1>2. Traced(l, c, k)
    BY CommonParamsTraced
  <1>3. Same(seq, c, k) /\ Same(long, seq, k) /\ Same(all, long, k)
    BY MindieSettersKeep
  <1> HIDE DEF c, seq, long, all
  <1>4. Same(parsed, all, k)
    <2>1. k # "mindie_tool_call_parser"
      BY DEF Watched, Sizes
    <2> QED  BY <2>1, WithoutKeeps
  <1>5. Traced(l, all, k)
    BY <1>2, <1>3, TracedSame
  <1> HIDE DEF parsed
  <1>6. Traced(l, parsed, k)
    BY <1>4, <1>5, TracedSame
  <1> QED  BY <1>1, <1>5, <1>6 DEF If

LEMMA SglangParamsTraced ==
  ASSUME NEW l, NEW k \in Watched
  PROVE  Traced(l, SglangParams(l, ModelDefaults(l)), k)
  <1> DEFINE c == CommonParams(l, ModelDefaults(l))
             both == Length(l, "input_length") > 0 /\ Length(l, "output_length") > 0
             seq == If(both, With(c, "context_length", TotalLength(l)), c)
             tp == AdjustedTp(l, seq, "tp_size")
             ep == If(Has(tp, "enable_ep_moe", "on"), With(tp, "ep_size", tp["tp_size"]), tp)
             out == {"enable_ep_moe"} \union If("tools" \in l.want, {}, {"tool_call_parser"})
  <1>0. k \notin {"context_length", "tp_size", "ep_size", "enable_ep_moe", "tool_call_parser"}
    BY DEF Watched, Sizes
  <1>1. SglangParams(l, ModelDefaults(l)) = Without(ep, out)
    BY DEF SglangParams
  <1>2. Traced(l, c, k)
    BY CommonParamsTraced
  <1>3. k \notin out
    BY <1>0 DEF If
  <1> HIDE DEF c, out
  <1>4. Same(seq, c, k)
    BY <1>0, WithKeeps, SameReflexive DEF If
  <1> HIDE DEF seq
  <1>5. Same(tp, seq, k)
    BY <1>0, WithKeeps, SameReflexive DEF AdjustedTp, If
  <1> HIDE DEF tp
  <1>6. Same(ep, tp, k)
    BY <1>0, WithKeeps, SameReflexive DEF If
  <1> HIDE DEF ep
  <1>7. Same(Without(ep, out), ep, k)
    BY <1>3, WithoutKeeps
  <1> QED  BY <1>1, <1>2, <1>4, <1>5, <1>6, <1>7, TracedSame

(* Every watched value of the merged engine_config has such an origin *)
LEMMA MergeTraced ==
  ASSUME NEW l, NEW k \in Watched, Engine(l) \in Engines
  PROVE  Traced(l, EngineConfig(l), k)
  <1> DEFINE file == Translated(Engine(l), l.file)
             merged == FileMerged(l)
             given == CliOverrides(l, merged)
             sent == Over(given, l.raw)
             pooled == PoolingGuard(l, sent)
  <1>0. EngineConfig(l) = Glm51Guard(l, pooled)
    BY DEF EngineConfig
  <1>1. Traced(l, EngineParams(l), k)
    <2>1. CASE Engine(l) \in VllmEngines
      BY <2>1, VllmParamsTraced DEF EngineParams, VllmEngines
    <2>2. CASE Engine(l) = "mindie"
      BY <2>2, MindieParamsTraced DEF EngineParams, VllmEngines
    <2>3. CASE Engine(l) = "sglang"
      BY <2>3, SglangParamsTraced DEF EngineParams, VllmEngines
    <2> QED  BY <2>1, <2>2, <2>3 DEF Engines
  <1>2. Traced(l, file, k)
    BY TranslatedSame, LayersTraced, TracedSame
  <1>3. Traced(l, merged, k)
    BY <1>1, <1>2, TracedOver DEF FileMerged
  <1> HIDE DEF merged
  <1>4. Traced(l, given, k)
    <2>1. Explicit(l) \subseteq DOMAIN l.given
      BY DEF Explicit
    <2>2. Traced(l, l.given, k)
      BY LayersTraced
    <2> QED  BY <1>3, <2>1, <2>2 DEF Traced, CliOverrides
  <1> HIDE DEF given
  <1>5. Traced(l, sent, k)
    BY <1>4, LayersTraced, TracedOver
  <1> HIDE DEF sent
  <1>6. Traced(l, pooled, k)
    BY <1>5, EnvironmentSettersKeep, TracedSame
  <1> HIDE DEF pooled
  <1>7. Traced(l, Without(pooled, {"kv_transfer_config"}), k)
    BY <1>6 DEF Traced, Without
  <1> QED  BY <1>0, <1>6, <1>7 DEF Glm51Guard, If

LEMMA MergeIsFunction == \A l : Fn(EngineConfig(l))
  BY AreFunctions DEF EngineConfig, Glm51Guard, PoolingGuard, If

(* The connector the launcher chose is merged unless a guard takes it out, *)
(* or the file replaces all the launcher computed                          *)
LEMMA ConnectorIsMerged ==
  ASSUME NEW l, Engine(l) \in VllmEngines, KvConnector(l).kind # {},
         ~(l.device = "nvidia" /\ Engine(l) = "vllm" /\ Glm51(l.model)),
         ~(l.file # Empty /\ "CONFIG_FORCE" \in l.env)
  PROVE  "kv_transfer_config" \in DOMAIN EngineConfig(l)
  <1> DEFINE kv       == "kv_transfer_config"
             chat     == ThinkingDefault(l, ReasoningParser(l,
                           FunctionCall(l, CommonParams(l, ModelDefaults(l)))))
             sized    == Parallelism(l, SequenceLength(l, chat))
             cached   == KvCache(l, sized)
             roles    == PdGuards(l, cached)
             attached == Router(l, roles)
             atb      == Atb(l, attached)
             fp8      == SoftFp8(l, atb)
             quant    == SoftFp4(l, fp8)
             task     == Task(l, quant)
             vllm     == PoolingGuard(l, task)
             file     == Translated(Engine(l), l.file)
             sent     == Over(CliOverrides(l, FileMerged(l)), l.raw)
  <1>0. kv \in Watched /\ kv \notin {"tensor_parallel_size", "data_parallel_size"}
    BY DEF Watched
  <1>1. kv \in DOMAIN cached
    <2> HIDE DEF sized
    <2>1. cached = With(sized, kv, KvConnector(l))
      BY DEF KvCache, If
    <2> QED  BY <2>1, WithSets
  <1> HIDE DEF cached
  <1>2. kv \in DOMAIN attached
    <2>1. kv \in DOMAIN roles
      BY <1>0, <1>1, EnvironmentSettersKeep DEF Same
    <2> HIDE DEF roles
    <2> QED  BY <1>0, <2>1, EnvironmentSettersKeep DEF Same
  <1> HIDE DEF attached
  <1>3. kv \in DOMAIN fp8
    <2>1. kv \in DOMAIN atb
      BY <1>0, <1>2, EnvironmentSettersKeep DEF Same
    <2> HIDE DEF atb
    <2> QED  BY <1>0, <2>1, SoftFp8At DEF Same
  <1> HIDE DEF fp8
  <1>4. kv \in DOMAIN task
    <2>1. kv \in DOMAIN quant
      BY <1>0, <1>3, EnvironmentSettersKeep DEF Same
    <2> HIDE DEF quant
    <2> QED  BY <1>0, <2>1, EnvironmentSettersKeep DEF Same
  <1> HIDE DEF task
  <1>5. kv \in DOMAIN vllm
    BY <1>0, <1>4, EnvironmentSettersKeep DEF Same
  <1>6. EngineParams(l) = vllm
    <2>1. EngineParams(l) = VllmParams(l, ModelDefaults(l))
      BY DEF EngineParams, VllmEngines
    <2>2. VllmParams(l, ModelDefaults(l)) = vllm
      BY DEF VllmParams, task, quant, fp8, atb, attached, roles, cached
    <2> QED  BY <2>1, <2>2
  <1> HIDE DEF vllm, file
  <1>7. kv \in DOMAIN FileMerged(l)
    <2>1. kv \in DOMAIN EngineParams(l)
      BY <1>5, <1>6
    <2>2. kv \in DOMAIN Over(EngineParams(l), file)
      BY <2>1 DEF Over
    <2>3. CASE l.file = Empty
      <3>1. DOMAIN l.file = {}
        BY <2>3 DEF Empty
      <3>2. file = Empty
        BY <3>1 DEF file, Translated, Empty
      <3>3. FileMerged(l) = Over(EngineParams(l), file)
        BY <3>2 DEF FileMerged, file
      <3> QED  BY <2>2, <3>3
    <2>4. CASE "CONFIG_FORCE" \notin l.env
      <3>1. FileMerged(l) = Over(EngineParams(l), file)
        BY <2>4 DEF FileMerged, file
      <3> QED  BY <2>2, <3>1
    <2> QED  BY <2>3, <2>4
  <1>8. kv \in DOMAIN sent
    <2>1. kv \in DOMAIN CliOverrides(l, FileMerged(l))
      BY <1>7 DEF CliOverrides
    <2> QED  BY <2>1, OverDomain
  <1> HIDE DEF sent
  <1>9. kv \in DOMAIN PoolingGuard(l, sent)
    BY <1>0, <1>8, EnvironmentSettersKeep DEF Same
  <1>10. EngineConfig(l) = Glm51Guard(l, PoolingGuard(l, sent))
    BY DEF EngineConfig, sent
  <1> QED  BY <1>9, <1>10 DEF Glm51Guard, If

(* Where no engine_config is sent, a given argument that is merged keeps   *)
(* its value                                                               *)
LEMMA GivenIsMerged ==
  ASSUME NEW l, l.raw = Empty, NEW k \in Explicit(l), k \in DOMAIN EngineConfig(l)
  PROVE  EngineConfig(l)[k] = l.given[k]
  <1> DEFINE given == CliOverrides(l, FileMerged(l))
             sent == Over(given, l.raw)
             pooled == PoolingGuard(l, sent)
  <1>0. EngineConfig(l) = Glm51Guard(l, pooled)
    BY DEF EngineConfig
  <1>1. k \in DOMAIN given => given[k] = l.given[k]
    BY DEF CliOverrides
  <1> HIDE DEF given
  <1>2. DOMAIN l.raw = {}
    BY DEF Empty
  <1>3. k \in DOMAIN sent => sent[k] = l.given[k]
    BY <1>1, <1>2 DEF Over
  <1> HIDE DEF sent
  <1>4. k \in DOMAIN pooled => pooled[k] = l.given[k]
    BY <1>3 DEF PoolingGuard, If, Without
  <1> HIDE DEF pooled
  <1> QED  BY <1>0, <1>4 DEF Glm51Guard, If, Without

(* What a launch that is not refused runs on *)
LEMMA LaunchableHardware ==
  ASSUME NEW l \in Launches, ~Refused(l)
  PROVE  /\ Engine(l) \in Engines
         /\ Cards(l) \in Nat \ {0}
         /\ Nodes(l) \in Nat \ {0}
         /\ l.nnodes \in Nat \ {0}
  <1>1. l.count \in Int /\ l.asked \in Int /\ l.nnodes \in Nat \ {0}
    BY LaunchAssumption
  <1>2. Cards(l) \in Nat \ {0}
    BY <1>1 DEF Refused, Cards, If
  <1>3. Nodes(l) \in Nat \ {0}
    BY <1>1 DEF Nodes, If
  <1>4. Engine(l) \in Engines
    <2>1. SelectsNvidia(l) \in Engines
      BY DEF SelectsNvidia, Engines, VllmEngines
    <2>2. SelectsAscend(l) \in Engines
      BY DEF SelectsAscend, Engines, VllmEngines
    <2>3. CASE l.engine # "auto"
      BY <2>3 DEF Engine, Refused
    <2>4. CASE l.engine = "auto"
      BY <2>1, <2>2, <2>4 DEF Engine, If, Engines, VllmEngines
    <2> QED  BY <2>3, <2>4
  <1> QED  BY <1>1, <1>2, <1>3, <1>4

Positive(c) == \A size \in Sizes : size \in DOMAIN c => c[size] \in Nat \ {0}

LEMMA OriginIsPositive ==
  ASSUME NEW l \in Launches, ~Refused(l), NEW size \in Sizes, NEW v,
         Written(l, size, v) \/ Computed(l, size, v)
  PROVE  v \in Nat \ {0}
  <1>1. CASE Written(l, size, v)
    <2>1. PICK w \in Layers(l) : size \in DOMAIN w /\ w[size] = v
      BY <1>1 DEF Written
    <2>2. w[size] \in Nat \ {0}
      BY <2>1, LaunchAssumption
    <2> QED  BY <2>1, <2>2
  <1>2. CASE Computed(l, size, v)
    <2> DEFINE n == If(l.pd # "", 1, Nodes(l))
    <2>1. v = 4 \/ v = Cards(l) * n
      BY <1>2 DEF Computed, Sizes
    <2>2. Cards(l) \in Nat \ {0} /\ Nodes(l) \in Nat \ {0}
      BY LaunchableHardware
    <2>3. n = 1 \/ n = Nodes(l)
      BY DEF If
    <2> HIDE DEF n
    <2>4. n \in Nat \ {0} /\ Cards(l) * n \in Nat \ {0}
      BY <2>2, <2>3
    <2> QED  BY <2>1, <2>4
  <1> QED  BY <1>1, <1>2

LEMMA MergeIsPositive ==
  ASSUME NEW l \in Launches, ~Refused(l)
  PROVE  Positive(EngineConfig(l))
  <1>1. Engine(l) \in Engines
    BY LaunchableHardware
  <1>2. \A size \in Sizes : Traced(l, EngineConfig(l), size)
    BY <1>1, MergeTraced DEF Watched
  <1> QED  BY <1>2, OriginIsPositive DEF Positive, Traced

----------------------------------------------------------------------------
(***************************************************************************)
(* What the adapter does to an engine_config, setter by setter: which keys *)
(* it leaves alone, and that a setter other than of the sizes treats one   *)
(* key the same whatever the others are.                                   *)
(***************************************************************************)
ParallelKeys == {"tensor_parallel_size", "data_parallel_size"}
Stays(l, k) ==
  \/ k \in {"pipeline_parallel_size", "speculative_config", "kv_cache_dtype"}
  \/ /\ k \in Explicit(l)
     /\ ~(k = "enable_expert_parallel" /\ l.model.arch \in
            {"GlmMoeDsaForCausalLM", "KimiK25ForConditionalGeneration"})

LEMMA ForceSetAt ==
  ASSUME NEW l, NEW c, NEW values, NEW k
  PROVE  /\ k \in DOMAIN values /\ k \notin Explicit(l) =>
              k \in DOMAIN ForceSet(l, c, values) /\ ForceSet(l, c, values)[k] = values[k]
         /\ ~(k \in DOMAIN values /\ k \notin Explicit(l)) =>
              Same(ForceSet(l, c, values), c, k)
  BY DEF ForceSet, Recommended, Over, Without, Same

LEMMA SetIfEmptyAt ==
  ASSUME NEW l, NEW c, NEW values, NEW k
  PROVE  /\ k \in DOMAIN values /\ k \notin Explicit(l) /\ k \notin DOMAIN c =>
              k \in DOMAIN SetIfEmpty(l, c, values) /\ SetIfEmpty(l, c, values)[k] = values[k]
         /\ ~(k \in DOMAIN values /\ k \notin Explicit(l) /\ k \notin DOMAIN c) =>
              Same(SetIfEmpty(l, c, values), c, k)
  BY DEF SetIfEmpty, Recommended, Over, Without, Same

LEMMA SettersSame ==
  ASSUME NEW l, NEW c, NEW d, NEW values, NEW k, Same(c, d, k)
  PROVE  /\ Same(ForceSet(l, c, values), ForceSet(l, d, values), k)
         /\ Same(SetIfEmpty(l, c, values), SetIfEmpty(l, d, values), k)
  BY DEF ForceSet, SetIfEmpty, Recommended, Over, Without, Same

Keeps(l, k) == Stays(l, k) \/ k = "kv_transfer_config"

(* Keys that are no explicit argument's and stay for no other reason *)
LEMMA ExplicitKeys ==
  ASSUME NEW l, NEW k
  PROVE  /\ Keeps(l, k) =>
              k \notin {"use_kunlun_atb", "async_scheduling", "tool_call_parser",
                        "enable_auto_tool_choice", "task"}
         /\ Stays(l, k) => k # "kv_transfer_config" /\ Keeps(l, k)
  BY DEF Keeps, Stays, Explicit, CommonKeys, VllmKeys, If

LEMMA StripInternalAt ==
  ASSUME NEW l, NEW c, NEW k
  PROVE  /\ \A d : Same(c, d, k) => Same(StripInternal(l, c), StripInternal(l, d), k)
         /\ Stays(l, k) \/ k \in ParallelKeys => Same(StripInternal(l, c), c, k)
  <1> DEFINE kv == If(Engine(l) = "vllm" /\ Glm51(l.model), {"kv_transfer_config"}, {})
             keys == {"use_kunlun_atb"} \union kv
  <1>1. \A d : StripInternal(l, d) = Without(d, keys)
    BY DEF StripInternal
  <1>2. keys \subseteq {"use_kunlun_atb", "kv_transfer_config"}
    BY DEF If
  <1> HIDE DEF keys
  <1>3. \A d : Same(c, d, k) => Same(StripInternal(l, c), StripInternal(l, d), k)
    BY <1>1, WithoutSame
  <1>4. ASSUME Stays(l, k) \/ k \in ParallelKeys
        PROVE  Same(StripInternal(l, c), c, k)
    <2>1. k \notin {"use_kunlun_atb", "kv_transfer_config"}
      BY <1>4, ExplicitKeys DEF ParallelKeys
    <2> QED  BY <1>1, <1>2, <2>1, WithoutKeeps
  <1> QED  BY <1>3, <1>4

LEMMA CpuOffloadAt ==
  ASSUME NEW l, NEW c, NEW k
  PROVE  /\ \A d : Same(c, d, k) => Same(CpuOffload(l, c), CpuOffload(l, d), k)
         /\ Stays(l, k) \/ k \in ParallelKeys => Same(CpuOffload(l, c), c, k)
  <1> DEFINE v == [kind |-> {"CPUOffloading"}, size |-> OffloadSize(l, V4Flash(l.model))]
  <1>1. \A d : CpuOffload(l, d) = If(V4Offload(l) /\ LmCache(l),
                                     With(d, "kv_transfer_config", v), d)
    BY DEF CpuOffload
  <1> HIDE DEF v
  <1>2. \A d : Same(c, d, k) => Same(CpuOffload(l, c), CpuOffload(l, d), k)
    BY <1>1, WithSame DEF If
  <1>3. ASSUME Stays(l, k) \/ k \in ParallelKeys
        PROVE  Same(CpuOffload(l, c), c, k)
    <2>1. k # "kv_transfer_config"
      BY <1>3, ExplicitKeys DEF ParallelKeys
    <2> QED  BY <1>1, <2>1, WithKeeps, SameReflexive DEF If
  <1> QED  BY <1>2, <1>3

LEMMA Glm5FixupsAt ==
  ASSUME NEW l, NEW c, NEW k
  PROVE  /\ \A d : Same(c, d, k) => Same(Glm5Fixups(l, c), Glm5Fixups(l, d), k)
         /\ Keeps(l, k) \/ k \in ParallelKeys => Same(Glm5Fixups(l, c), c, k)
  <1>1. CASE ~Glm5Dp(l) \/ PrefixGiven(l)
    BY <1>1, SameReflexive DEF Glm5Fixups
  <1>2. CASE ~(~Glm5Dp(l) \/ PrefixGiven(l))
    <2> DEFINE G(d) == With(Without(d, {"no_enable_prefix_caching"}),
                            "enable_prefix_caching", "on")
    <2>1. \A d : Glm5Fixups(l, d) = G(d)
      BY <1>2 DEF Glm5Fixups
    <2>2. \A d : Same(c, d, k) => Same(G(c), G(d), k)
      BY WithoutSame, WithSame
    <2>3. ASSUME Keeps(l, k) \/ k \in ParallelKeys
          PROVE  k \notin {"no_enable_prefix_caching", "enable_prefix_caching"}
      BY <1>2, <2>3 DEF PrefixGiven, Keeps, Stays, ParallelKeys
    <2>4. ASSUME Keeps(l, k) \/ k \in ParallelKeys
          PROVE  Same(G(c), c, k)
      BY <2>3, <2>4 DEF Same, With, Without
    <2> QED  BY <2>1, <2>2, <2>4
  <1> QED  BY <1>1, <1>2

LEMMA FlashDpSame ==
  ASSUME NEW l, NEW c, NEW d, Same(c, d, "tensor_parallel_size")
  PROVE  FlashDp(l, c) = FlashDp(l, d)
  BY DEF FlashDp, Same, If

Flash(l) == Ascend(l) /\ V4Flash(l.model)

(* A V4 Flash has sizes of its own wherever none is given *)
LEMMA FlashDefaultsAt ==
  ASSUME NEW l, NEW c, NEW k
  PROVE  /\ ~Flash(l) => FlashDefaults(l, c) = c
         /\ k \notin ParallelKeys =>
              \A d : Same(c, d, k) => Same(FlashDefaults(l, c), FlashDefaults(l, d), k)
         /\ Keeps(l, k) => Same(FlashDefaults(l, c), c, k)
         /\ Flash(l) /\ k \in ParallelKeys \ Explicit(l) =>
              /\ k \in DOMAIN FlashDefaults(l, c)
              /\ FlashDefaults(l, c)[k] = IF k = "tensor_parallel_size" THEN FlashTp(l)
                                          ELSE FlashDp(l, FlashDefaults(l, c))
  <1>1. CASE ~Flash(l)
    BY <1>1, SameReflexive DEF FlashDefaults, Flash
  <1>2. CASE Flash(l)
    <2> DEFINE tpv    == [tensor_parallel_size |-> FlashTp(l)]
               T(d)   == ForceSet(l, d, tpv)
               dpv(d) == [data_parallel_size |-> FlashDp(l, T(d))]
               D(d)   == ForceSet(l, T(d), dpv(d))
               on     == [enable_expert_parallel |-> "on", enable_prefix_caching |-> "on",
                          enable_chunked_prefill |-> "on", enable_auto_tool_choice |-> "on"]
               O(d)   == ForceSet(l, D(d), on)
               soft   == [quantization |-> "ascend", async_scheduling |-> "on",
                          tool_call_parser |-> "deepseek_v4"]
               E(d)   == SetIfEmpty(l, O(d), soft)
    <2>0. \A d : FlashDefaults(l, d) = E(d)
      BY <1>2 DEF FlashDefaults, Flash
    <2>1. /\ DOMAIN tpv = {"tensor_parallel_size"}
          /\ tpv["tensor_parallel_size"] = FlashTp(l)
      OBVIOUS
    <2>2. \A d : /\ DOMAIN dpv(d) = {"data_parallel_size"}
                 /\ dpv(d)["data_parallel_size"] = FlashDp(l, T(d))
      OBVIOUS
    <2>3. DOMAIN on = {"enable_expert_parallel", "enable_prefix_caching",
                       "enable_chunked_prefill", "enable_auto_tool_choice"}
      OBVIOUS
    <2>4. DOMAIN soft = {"quantization", "async_scheduling", "tool_call_parser"}
      OBVIOUS
    <2> HIDE DEF tpv, dpv, on, soft
    <2>5. ASSUME NEW d, Same(c, d, k), k \notin ParallelKeys
          PROVE  Same(E(c), E(d), k)
      <3>1. Same(T(c), T(d), k)
        BY <2>5, SettersSame
      <3> HIDE DEF T
      <3>2. Same(D(c), T(c), k) /\ Same(D(d), T(d), k)
        BY <2>2, <2>5, ForceSetAt DEF ParallelKeys
      <3> HIDE DEF D
      <3>3. Same(D(c), D(d), k)
        BY <3>1, <3>2, SameSymmetric, SameTransitive
      <3>4. Same(O(c), O(d), k)
        BY <3>3, SettersSame
      <3> HIDE DEF O
      <3> QED  BY <3>4, SettersSame
    <2>6. ASSUME k \in ParallelKeys
          PROVE  Same(E(c), D(c), k)
      <3> HIDE DEF D
      <3>1. Same(O(c), D(c), k)
        BY <2>3, <2>6, ForceSetAt DEF ParallelKeys
      <3> HIDE DEF O
      <3>2. Same(E(c), O(c), k)
        BY <2>4, <2>6, SetIfEmptyAt DEF ParallelKeys
      <3> HIDE DEF E
      <3> QED  BY <3>1, <3>2, SameTransitive
    <2>7. ASSUME Keeps(l, k)
          PROVE  Same(E(c), c, k)
      <3>0. k \notin {"async_scheduling", "tool_call_parser", "enable_auto_tool_choice"}
        BY <2>7, ExplicitKeys
      <3>1. k \in Explicit(l) \/ k \notin {"tensor_parallel_size", "data_parallel_size",
              "enable_expert_parallel", "enable_prefix_caching", "enable_chunked_prefill",
              "quantization"}
        BY <2>7 DEF Keeps, Stays
      <3>2. Same(T(c), c, k)
        BY <2>1, <3>1, ForceSetAt
      <3> HIDE DEF T
      <3>3. Same(D(c), T(c), k)
        BY <2>2, <3>1, ForceSetAt
      <3> HIDE DEF D
      <3>4. Same(O(c), D(c), k)
        BY <2>3, <3>0, <3>1, ForceSetAt
      <3> HIDE DEF O
      <3>5. Same(E(c), O(c), k)
        BY <2>4, <3>0, <3>1, SetIfEmptyAt
      <3> HIDE DEF E
      <3> QED  BY <3>2, <3>3, <3>4, <3>5, SameTransitive
    <2>8. ASSUME k = "tensor_parallel_size"
          PROVE  /\ Same(E(c), T(c), k)
                 /\ k \notin Explicit(l) => k \in DOMAIN E(c) /\ E(c)[k] = FlashTp(l)
      <3>1. k \notin Explicit(l) => k \in DOMAIN T(c) /\ T(c)[k] = FlashTp(l)
        BY <2>1, <2>8, ForceSetAt
      <3> HIDE DEF T
      <3>2. Same(D(c), T(c), k)
        BY <2>2, <2>8, ForceSetAt
      <3>3. Same(E(c), D(c), k)
        BY <2>6, <2>8 DEF ParallelKeys
      <3> HIDE DEF D, E
      <3> QED  BY <3>1, <3>2, <3>3, SameTransitive DEF Same
    <2>9. ASSUME k = "data_parallel_size", k \notin Explicit(l)
          PROVE  k \in DOMAIN E(c) /\ E(c)[k] = FlashDp(l, E(c))
      <3>1. k \in DOMAIN D(c) /\ D(c)[k] = FlashDp(l, T(c))
        BY <2>2, <2>9, ForceSetAt
      <3>2. Same(E(c), D(c), k)
        BY <2>6, <2>9 DEF ParallelKeys
      <3>3. Same(E(c), T(c), "tensor_parallel_size")
        <4> DEFINE tp == "tensor_parallel_size"
        <4>1. Same(D(c), T(c), tp)
          <5> HIDE DEF T
          <5> QED  BY <2>2, ForceSetAt
        <4> HIDE DEF D
        <4>2. Same(O(c), D(c), tp)
          BY <2>3, ForceSetAt
        <4> HIDE DEF O, T
        <4>3. Same(E(c), O(c), tp)
          BY <2>4, SetIfEmptyAt
        <4> HIDE DEF E
        <4> QED  BY <4>1, <4>2, <4>3, SameTransitive
      <3> HIDE DEF E, D, T
      <3>4. FlashDp(l, E(c)) = FlashDp(l, T(c))
        BY <3>3, FlashDpSame
      <3> QED  BY <3>1, <3>2, <3>4 DEF Same
    <2> HIDE DEF E
    <2> QED  BY <1>2, <2>0, <2>5, <2>7, <2>8, <2>9 DEF ParallelKeys
  <1> QED  BY <1>1, <1>2

(* The sizes GLM-5.2 fills in, and those a deployment in data parallel forces *)
Filled(l) == If(GlmDsa(l.model) /\ SingleGlm52(l), TwoHalves(l), Empty)
Forced(l) ==
  CASE ~DpDeployment(l) \/ V4Pro(l.model) \/ V4Flash(l.model) -> Empty
    [] OTHER -> IF SingleGlm52(l) THEN TwoHalves(l)
                ELSE If(DefaultDpTp(l) = 0, Empty,
                        [tensor_parallel_size |-> DefaultDpTp(l)])

LEMMA Glm5DefaultsAt ==
  ASSUME NEW l, NEW c, NEW k
  PROVE  /\ \A d : Same(c, d, k) => Same(Glm5Defaults(l, c), Glm5Defaults(l, d), k)
         /\ Keeps(l, k) => Same(Glm5Defaults(l, c), c, k)
         /\ k \in ParallelKeys =>
              Same(Glm5Defaults(l, c), SetIfEmpty(l, c, Filled(l)), k)
  <1>0. ASSUME DOMAIN Filled(l) = {}
        PROVE  Same(c, SetIfEmpty(l, c, Filled(l)), k)
    BY <1>0, SetIfEmptyAt, SameSymmetric
  <1>1. CASE ~(Ascend(l) /\ GlmDsa(l.model))
    <2>1. \A d : Glm5Defaults(l, d) = d
      BY <1>1 DEF Glm5Defaults
    <2>2. DOMAIN Filled(l) = {}
      BY <1>1 DEF Filled, If, Empty, SingleGlm52
    <2> QED  BY <1>0, <2>1, <2>2, SameReflexive
  <1>2. CASE Ascend(l) /\ GlmDsa(l.model) /\ "glm52" \in l.model.marks
    <2> DEFINE soft   == [async_scheduling |-> "on", enable_expert_parallel |-> "on"]
               halves == If(SingleGlm52(l), TwoHalves(l), Empty)
               values == Over(soft, halves)
    <2>1. \A d : Glm5Defaults(l, d) = SetIfEmpty(l, d, values)
      BY <1>2 DEF Glm5Defaults
    <2>2. Filled(l) = halves
      BY <1>2 DEF Filled, If
    <2>3. DOMAIN halves \subseteq ParallelKeys
      BY DEF If, TwoHalves, Empty, ParallelKeys
    <2>4. DOMAIN soft = {"async_scheduling", "enable_expert_parallel"}
      OBVIOUS
    <2> HIDE DEF soft, halves
    <2>5. DOMAIN values = DOMAIN soft \union DOMAIN halves
      BY OverDomain
    <2>6. \A i \in ParallelKeys : i \in DOMAIN values => values[i] = halves[i]
      BY <2>4 DEF Over, ParallelKeys
    <2> HIDE DEF values
    <2>7. \A d : Same(c, d, k) => Same(SetIfEmpty(l, c, values), SetIfEmpty(l, d, values), k)
      BY SettersSame
    <2>8. ASSUME Keeps(l, k)
          PROVE  Same(SetIfEmpty(l, c, values), c, k)
      <3>1. k \in Explicit(l) \/ k \notin ParallelKeys \union {"enable_expert_parallel"}
        BY <2>8 DEF Keeps, Stays, ParallelKeys
      <3>2. k # "async_scheduling"
        BY <2>8, ExplicitKeys
      <3> QED  BY <2>3, <2>4, <2>5, <3>1, <3>2, SetIfEmptyAt
    <2>9. ASSUME k \in ParallelKeys
          PROVE  Same(SetIfEmpty(l, c, values), SetIfEmpty(l, c, halves), k)
      <3>1. k \in DOMAIN values <=> k \in DOMAIN halves
        BY <2>4, <2>5, <2>9 DEF ParallelKeys
      <3> QED  BY <2>6, <2>9, <3>1 DEF SetIfEmpty, Recommended, Over, Without, Same
    <2> QED  BY <2>1, <2>2, <2>7, <2>8, <2>9
  <1>3. CASE Ascend(l) /\ GlmDsa(l.model) /\ "glm52" \notin l.model.marks
    <2> DEFINE G(d) == With(d, "enable_expert_parallel", "off")
    <2>1. \/ \A d : Glm5Defaults(l, d) = d
          \/ \A d : Glm5Defaults(l, d) = G(d)
      BY <1>3 DEF Glm5Defaults, If
    <2>2. DOMAIN Filled(l) = {}
      BY <1>3 DEF Filled, If, Empty, SingleGlm52
    <2>3. \A d : Same(c, d, k) => Same(G(c), G(d), k)
      BY WithSame
    <2>4. k \in ParallelKeys => Same(G(c), c, k)
      BY WithKeeps DEF ParallelKeys
    <2>5. Keeps(l, k) => Same(G(c), c, k)
      BY <1>3, WithKeeps DEF Keeps, Stays, GlmDsa
    <2> HIDE DEF G
    <2> QED  BY <1>0, <2>1, <2>2, <2>3, <2>4, <2>5, SameReflexive, SameTransitive
  <1> QED  BY <1>1, <1>2, <1>3

LEMMA DpDefaultsAt ==
  ASSUME NEW l, NEW c, NEW k
  PROVE  /\ \A d : Same(c, d, k) => Same(DpDefaults(l, c), DpDefaults(l, d), k)
         /\ Keeps(l, k) => Same(DpDefaults(l, c), c, k)
         /\ k \in ParallelKeys => Same(DpDefaults(l, c), ForceSet(l, c, Forced(l)), k)
  <1>1. CASE ~DpDeployment(l) \/ V4Pro(l.model) \/ V4Flash(l.model)
    <2>1. \A d : DpDefaults(l, d) = d
      BY <1>1 DEF DpDefaults
    <2>2. DOMAIN Forced(l) = {}
      BY <1>1 DEF Forced, Empty
    <2>3. Same(c, ForceSet(l, c, Forced(l)), k)
      BY <2>2, ForceSetAt, SameSymmetric
    <2> QED  BY <2>1, <2>3, SameReflexive
  <1>2. CASE ~(~DpDeployment(l) \/ V4Pro(l.model) \/ V4Flash(l.model))
    <2> DEFINE T(d) == IF SingleGlm52(l) THEN ForceSet(l, d, TwoHalves(l))
                       ELSE If(DefaultDpTp(l) = 0, d,
                               ForceSet(l, d, [tensor_parallel_size |-> DefaultDpTp(l)]))
               P(d) == IF PrefixGiven(l) THEN T(d)
                       ELSE With(Without(T(d), {"enable_prefix_caching"}),
                                 "no_enable_prefix_caching", "on")
               ep   == [enable_expert_parallel |-> "on"]
               E(d) == ForceSet(l, P(d), ep)
               kimi == l.model.arch = "KimiK25ForConditionalGeneration" /\ l.distributed
               K(d) == If(kimi, Without(E(d), {"enable_expert_parallel"}), E(d))
    <2>1. \A d : DpDefaults(l, d) = K(d)
      BY <1>2 DEF DpDefaults
    <2>2. DOMAIN Forced(l) \subseteq ParallelKeys
      BY DEF Forced, If, TwoHalves, Empty, ParallelKeys
    <2>3. \A d : Same(T(d), ForceSet(l, d, Forced(l)), k)
      <3>1. CASE SingleGlm52(l)
        BY <1>2, <3>1, SameReflexive DEF Forced
      <3>2. CASE ~SingleGlm52(l) /\ DefaultDpTp(l) # 0
        BY <1>2, <3>2, SameReflexive DEF Forced, If
      <3>3. CASE ~SingleGlm52(l) /\ DefaultDpTp(l) = 0
        <4>1. \A d : T(d) = d
          BY <3>3 DEF If
        <4>2. DOMAIN Forced(l) = {}
          BY <1>2, <3>3 DEF Forced, If, Empty
        <4> QED  BY <4>1, <4>2, ForceSetAt, SameSymmetric
      <3> QED  BY <3>1, <3>2, <3>3
    <2>4. DOMAIN ep = {"enable_expert_parallel"}
      OBVIOUS
    <2> HIDE DEF T, ep
    <2>5. ASSUME NEW d, Same(c, d, k)
          PROVE  Same(K(c), K(d), k)
      <3>1. Same(T(c), T(d), k)
        BY <2>3, <2>5, SettersSame, SameSymmetric, SameTransitive
      <3>2. Same(P(c), P(d), k)
        BY <3>1, WithoutSame, WithSame
      <3> HIDE DEF P
      <3>3. Same(E(c), E(d), k)
        BY <3>2, SettersSame
      <3> HIDE DEF E
      <3> QED  BY <3>3, WithoutSame DEF If
    <2>6. ASSUME k \in ParallelKeys \/ Keeps(l, k)
          PROVE  Same(K(c), T(c), k)
      <3>1. PrefixGiven(l) \/ k \notin {"enable_prefix_caching", "no_enable_prefix_caching"}
        BY <2>6 DEF PrefixGiven, Keeps, Stays, ParallelKeys
      <3>2. Same(P(c), T(c), k)
        BY <3>1, SameReflexive DEF Same, With, Without
      <3> HIDE DEF P
      <3>3. k \in Explicit(l) \/ k # "enable_expert_parallel"
        BY <2>6 DEF Keeps, Stays, ParallelKeys
      <3>4. Same(E(c), P(c), k)
        BY <2>4, <3>3, ForceSetAt
      <3> HIDE DEF E
      <3>5. ~kimi \/ k # "enable_expert_parallel"
        BY <2>6 DEF Keeps, Stays, ParallelKeys
      <3>6. Same(K(c), E(c), k)
        BY <3>5, WithoutKeeps, SameReflexive DEF If
      <3> HIDE DEF K
      <3> QED  BY <3>2, <3>4, <3>6, SameTransitive
    <2> HIDE DEF K
    <2>7. ASSUME Keeps(l, k)
          PROVE  Same(K(c), c, k)
      <3>1. ~(k \in DOMAIN Forced(l) /\ k \notin Explicit(l))
        BY <2>2, <2>7 DEF Keeps, Stays, ParallelKeys
      <3>2. Same(ForceSet(l, c, Forced(l)), c, k)
        BY <3>1, ForceSetAt
      <3> QED  BY <2>3, <2>6, <2>7, <3>2, SameTransitive
    <2> QED  BY <2>1, <2>3, <2>5, <2>6, <2>7, SameTransitive
  <1> QED  BY <1>1, <1>2

----------------------------------------------------------------------------
(***************************************************************************)
(* All the setters of the adapter in their order, and what they make of    *)
(* the parallel sizes: applied to what they left behind they change        *)
(* nothing more, which is why a command can be built twice.                *)
(***************************************************************************)
Chain(l, c) ==
  Glm5Fixups(l, DpDefaults(l, Glm5Defaults(l,
    CpuOffload(l, FlashDefaults(l, StripInternal(l, c))))))

LEMMA ChainSame ==
  ASSUME NEW l, NEW c, NEW d, NEW k, k \notin ParallelKeys, Same(c, d, k)
  PROVE  Same(Chain(l, c), Chain(l, d), k)
  <1> DEFINE c1 == StripInternal(l, c)  d1 == StripInternal(l, d)
             c2 == FlashDefaults(l, c1) d2 == FlashDefaults(l, d1)
             c3 == CpuOffload(l, c2)    d3 == CpuOffload(l, d2)
             c4 == Glm5Defaults(l, c3)  d4 == Glm5Defaults(l, d3)
             c5 == DpDefaults(l, c4)    d5 == DpDefaults(l, d4)
  <1>1. Same(c1, d1, k)
    BY StripInternalAt
  <1>2. Same(c2, d2, k)
    <2> HIDE DEF c1, d1
    <2> QED  BY <1>1, FlashDefaultsAt
  <1>3. Same(c3, d3, k)
    <2> HIDE DEF c2, d2
    <2> QED  BY <1>2, CpuOffloadAt
  <1>4. Same(c4, d4, k)
    <2> HIDE DEF c3, d3
    <2> QED  BY <1>3, Glm5DefaultsAt
  <1>5. Same(c5, d5, k)
    <2> HIDE DEF c4, d4
    <2> QED  BY <1>4, DpDefaultsAt
  <1>6. Chain(l, c) = Glm5Fixups(l, c5) /\ Chain(l, d) = Glm5Fixups(l, d5)
    BY DEF Chain
  <1> HIDE DEF c5, d5
  <1> QED  BY <1>5, <1>6, Glm5FixupsAt

LEMMA ChainStays ==
  ASSUME NEW l, NEW c, NEW k, Stays(l, k)
  PROVE  Same(Chain(l, c), c, k)
  <1> DEFINE c1 == StripInternal(l, c)
             c2 == FlashDefaults(l, c1)
             c3 == CpuOffload(l, c2)
             c4 == Glm5Defaults(l, c3)
             c5 == DpDefaults(l, c4)
  <1>0. Keeps(l, k)
    BY ExplicitKeys
  <1>1. Same(c1, c, k)
    BY StripInternalAt
  <1> HIDE DEF c1
  <1>2. Same(c2, c1, k)
    BY <1>0, FlashDefaultsAt
  <1> HIDE DEF c2
  <1>3. Same(c3, c2, k)
    BY CpuOffloadAt
  <1> HIDE DEF c3
  <1>4. Same(c4, c3, k)
    BY <1>0, Glm5DefaultsAt
  <1> HIDE DEF c4
  <1>5. Same(c5, c4, k)
    BY <1>0, DpDefaultsAt
  <1> HIDE DEF c5
  <1>6. Same(Glm5Fixups(l, c5), c5, k)
    BY <1>0, Glm5FixupsAt
  <1>7. Chain(l, c) = Glm5Fixups(l, c5)
    BY DEF Chain, c1, c2, c3, c4, c5
  <1> QED  BY <1>1, <1>2, <1>3, <1>4, <1>5, <1>6, <1>7, SameTransitive

(* The KV connector: stripped first, and then the CPU offload's            *)
LEMMA ChainAtConnector ==
  ASSUME NEW l, NEW c, NEW k, k = "kv_transfer_config"
  PROVE  Same(Chain(l, c), CpuOffload(l, StripInternal(l, c)), k)
  <1> DEFINE c1 == StripInternal(l, c)
             c2 == FlashDefaults(l, c1)
             c3 == CpuOffload(l, c2)
             c4 == Glm5Defaults(l, c3)
             c5 == DpDefaults(l, c4)
  <1>0. Keeps(l, k)
    BY DEF Keeps
  <1>1. Chain(l, c) = Glm5Fixups(l, c5)
    BY DEF Chain
  <1> HIDE DEF c1
  <1>2. Same(c2, c1, k)
    BY <1>0, FlashDefaultsAt
  <1> HIDE DEF c2
  <1>3. Same(c3, CpuOffload(l, c1), k)
    BY <1>2, CpuOffloadAt
  <1> HIDE DEF c3
  <1>4. Same(c4, c3, k)
    BY <1>0, Glm5DefaultsAt
  <1> HIDE DEF c4
  <1>5. Same(c5, c4, k)
    BY <1>0, DpDefaultsAt
  <1> HIDE DEF c5
  <1>6. Same(Glm5Fixups(l, c5), c5, k)
    BY <1>0, Glm5FixupsAt
  <1>7. Same(Glm5Fixups(l, c5), CpuOffload(l, c1), k)
    BY <1>3, <1>4, <1>5, <1>6, SameTransitive
  <1> QED  BY <1>1, <1>7 DEF c1

LEMMA ChainAtSizes ==
  ASSUME NEW l, NEW c, NEW k \in ParallelKeys
  PROVE  /\ ~Flash(l) =>
              Same(Chain(l, c), ForceSet(l, SetIfEmpty(l, c, Filled(l)), Forced(l)), k)
         /\ Flash(l) =>
              Same(Chain(l, c), FlashDefaults(l, StripInternal(l, c)), k)
  <1> DEFINE c1 == StripInternal(l, c)
             c2 == FlashDefaults(l, c1)
             c3 == CpuOffload(l, c2)
             c4 == Glm5Defaults(l, c3)
             c5 == DpDefaults(l, c4)
             F(d) == SetIfEmpty(l, d, Filled(l))
             S(d) == ForceSet(l, d, Forced(l))
  <1>1. Same(c1, c, k)
    BY StripInternalAt
  <1> HIDE DEF c1
  <1>2. Same(c3, c2, k)
    BY CpuOffloadAt
  <1> HIDE DEF c2
  <1>3. Same(c4, F(c3), k)
    BY Glm5DefaultsAt
  <1> HIDE DEF c3
  <1>4. Same(c5, S(c4), k)
    BY DpDefaultsAt
  <1> HIDE DEF c4
  <1>5. Same(Glm5Fixups(l, c5), c5, k)
    BY Glm5FixupsAt
  <1> HIDE DEF c5
  <1>6. Chain(l, c) = Glm5Fixups(l, c5)
    BY DEF Chain, c1, c2, c3, c4, c5
  <1>7. Same(F(c3), F(c2), k)
    BY <1>2, SettersSame
  <1>8. Same(c4, F(c2), k)
    BY <1>3, <1>7, SameTransitive
  <1>9. Same(S(c4), S(F(c2)), k)
    BY <1>8, SettersSame
  <1>10. Same(Chain(l, c), S(F(c2)), k)
    BY <1>4, <1>5, <1>6, <1>9, SameTransitive
  <1>11. CASE ~Flash(l)
    <2>1. Same(c2, c, k)
      BY <1>1, <1>11, FlashDefaultsAt DEF c2
    <2>2. Same(F(c2), F(c), k)
      BY <2>1, SettersSame
    <2>3. Same(S(F(c2)), S(F(c)), k)
      BY <2>2, SettersSame
    <2> QED  BY <1>10, <1>11, <2>3, SameTransitive
  <1>12. CASE Flash(l)
    <2>1. DOMAIN Filled(l) = {}
      BY <1>12 DEF Flash, V4Flash, V4, Filled, GlmDsa, If, Empty
    <2>2. DOMAIN Forced(l) = {}
      BY <1>12 DEF Flash, Forced, Empty
    <2>3. Same(F(c2), c2, k)
      BY <2>1, SetIfEmptyAt
    <2> HIDE DEF F
    <2>4. Same(S(F(c2)), F(c2), k)
      BY <2>2, ForceSetAt
    <2> QED  BY <1>10, <1>12, <2>3, <2>4, SameTransitive DEF c1, c2
  <1> QED  BY <1>11, <1>12

(* The sizes of a V4 Flash on Ascend, and those of all others *)
LEMMA ChainOfFlash ==
  ASSUME NEW l, NEW c, NEW k \in ParallelKeys \ Explicit(l), Flash(l)
  PROVE  /\ k \in DOMAIN Chain(l, c)
         /\ Chain(l, c)[k] = IF k = "tensor_parallel_size" THEN FlashTp(l)
                             ELSE FlashDp(l, Chain(l, c))
  <1> DEFINE d == FlashDefaults(l, StripInternal(l, c))
  <1>1. /\ k \in DOMAIN d
        /\ d[k] = IF k = "tensor_parallel_size" THEN FlashTp(l) ELSE FlashDp(l, d)
    BY FlashDefaultsAt
  <1>2. Same(Chain(l, c), d, k) /\ Same(Chain(l, c), d, "tensor_parallel_size")
    BY ChainAtSizes DEF ParallelKeys
  <1> HIDE DEF d
  <1>3. FlashDp(l, Chain(l, c)) = FlashDp(l, d)
    BY <1>2, FlashDpSame
  <1> QED  BY <1>1, <1>2, <1>3 DEF Same

LEMMA ChainOfOthers ==
  ASSUME NEW l, NEW c, NEW k \in ParallelKeys, ~Flash(l)
  PROVE  /\ k \in DOMAIN Forced(l) \ Explicit(l) =>
              k \in DOMAIN Chain(l, c) /\ Chain(l, c)[k] = Forced(l)[k]
         /\ k \notin DOMAIN Forced(l) \ Explicit(l) =>
              /\ k \in DOMAIN Filled(l) \ Explicit(l) /\ k \notin DOMAIN c =>
                   k \in DOMAIN Chain(l, c) /\ Chain(l, c)[k] = Filled(l)[k]
              /\ ~(k \in DOMAIN Filled(l) \ Explicit(l) /\ k \notin DOMAIN c) =>
                   Same(Chain(l, c), c, k)
  <1> DEFINE f == SetIfEmpty(l, c, Filled(l))
             d == ForceSet(l, f, Forced(l))
  <1>1. Same(Chain(l, c), d, k)
    BY ChainAtSizes
  <1>2. /\ k \in DOMAIN Filled(l) \ Explicit(l) /\ k \notin DOMAIN c =>
             k \in DOMAIN f /\ f[k] = Filled(l)[k]
        /\ ~(k \in DOMAIN Filled(l) \ Explicit(l) /\ k \notin DOMAIN c) => Same(f, c, k)
    BY SetIfEmptyAt
  <1> HIDE DEF f
  <1>3. /\ k \in DOMAIN Forced(l) \ Explicit(l) => k \in DOMAIN d /\ d[k] = Forced(l)[k]
        /\ k \notin DOMAIN Forced(l) \ Explicit(l) => Same(d, f, k)
    BY ForceSetAt
  <1> HIDE DEF d
  <1> QED  BY <1>1, <1>2, <1>3 DEF Same

LEMMA ChainKeepsSizes ==
  ASSUME NEW l, NEW c, NEW k \in ParallelKeys, k \in DOMAIN c
  PROVE  k \in DOMAIN Chain(l, c)
  <1>1. CASE k \in Explicit(l)
    <2>1. Stays(l, k)
      BY <1>1 DEF Stays, ParallelKeys
    <2> QED  BY <2>1, ChainStays DEF Same
  <1>2. CASE k \notin Explicit(l) /\ Flash(l)
    BY <1>2, ChainOfFlash
  <1>3. CASE k \notin Explicit(l) /\ ~Flash(l)
    BY <1>3, ChainOfOthers DEF Same
  <1> QED  BY <1>1, <1>2, <1>3

(* The sizes after the adapter are those it would choose again *)
LEMMA ChainAgain ==
  ASSUME NEW l, NEW c, NEW d, NEW e,
         \A i \in ParallelKeys : Same(d, Chain(l, c), i) /\ Same(e, c, i)
  PROVE  \A k \in ParallelKeys : Same(Chain(l, d), Chain(l, e), k)
  <1>1. ASSUME NEW k \in ParallelKeys, k \in Explicit(l)
        PROVE  Same(Chain(l, d), Chain(l, e), k)
    <2>1. Stays(l, k)
      BY <1>1 DEF Stays, ParallelKeys
    <2>2. Same(Chain(l, d), d, k) /\ Same(Chain(l, e), e, k) /\ Same(Chain(l, c), c, k)
      BY <2>1, ChainStays
    <2> QED  BY <2>2, SameSymmetric, SameTransitive
  <1>2. CASE Flash(l)
    <2>1. ASSUME "tensor_parallel_size" \notin Explicit(l)
          PROVE  Same(Chain(l, d), Chain(l, e), "tensor_parallel_size")
      BY <1>2, <2>1, ChainOfFlash DEF Same, ParallelKeys
    <2>2. Same(Chain(l, d), Chain(l, e), "tensor_parallel_size")
      BY <1>1, <2>1 DEF ParallelKeys
    <2>3. FlashDp(l, Chain(l, d)) = FlashDp(l, Chain(l, e))
      BY <2>2, FlashDpSame
    <2>4. ASSUME "data_parallel_size" \notin Explicit(l)
          PROVE  Same(Chain(l, d), Chain(l, e), "data_parallel_size")
      BY <1>2, <2>3, <2>4, ChainOfFlash DEF Same, ParallelKeys
    <2> QED  BY <1>1, <2>2, <2>4 DEF ParallelKeys
  <1>3. CASE ~Flash(l)
    <2>1. ASSUME NEW k \in ParallelKeys, k \notin Explicit(l)
          PROVE  Same(Chain(l, d), Chain(l, e), k)
      <3>1. CASE k \in DOMAIN Forced(l)
        BY <1>3, <2>1, <3>1, ChainOfOthers DEF Same
      <3>2. CASE k \notin DOMAIN Forced(l) /\ k \in DOMAIN Filled(l) /\ k \notin DOMAIN c
        BY <1>3, <2>1, <3>2, ChainOfOthers DEF Same
      <3>3. CASE k \notin DOMAIN Forced(l) /\ ~(k \in DOMAIN Filled(l) /\ k \notin DOMAIN c)
        <4>1. Same(Chain(l, c), c, k)
          BY <1>3, <2>1, <3>3, ChainOfOthers
        <4>2. Same(d, c, k) /\ Same(e, c, k)
          BY <4>1, <2>1, SameTransitive
        <4>3. ~(k \in DOMAIN Filled(l) /\ k \notin DOMAIN d)
              /\ ~(k \in DOMAIN Filled(l) /\ k \notin DOMAIN e)
          BY <3>3, <4>2 DEF Same
        <4>4. Same(Chain(l, d), d, k) /\ Same(Chain(l, e), e, k)
          BY <1>3, <2>1, <3>3, <4>3, ChainOfOthers
        <4> QED  BY <4>2, <4>4, SameSymmetric, SameTransitive
      <3> QED  BY <3>1, <3>2, <3>3
    <2> QED  BY <1>1, <2>1
  <1> QED  BY <1>2, <1>3

LEMMA ComputedSizes ==
  ASSUME NEW l \in Launches, ~Refused(l)
  PROVE  /\ Positive(Filled(l)) /\ Positive(Forced(l))
         /\ FlashTp(l) \in Nat \ {0}
         /\ \A c : Positive(c) => FlashDp(l, c) \in Nat \ {0}
  <1>1. Cards(l) \in Nat \ {0} /\ Nodes(l) \in Nat \ {0}
    BY LaunchableHardware
  <1>2. SingleGlm52(l) => Positive(TwoHalves(l))
    <2>1. SingleGlm52(l) => Cards(l) \div 2 \in Nat \ {0}
      BY <1>1 DEF SingleGlm52
    <2> QED  BY <2>1 DEF Positive, TwoHalves, Sizes
  <1>3. Positive(Empty)
    BY DEF Positive, Empty
  <1>4. Positive(Filled(l))
    BY <1>2, <1>3 DEF Filled, If
  <1>5. DefaultDpTp(l) # 0 => DefaultDpTp(l) \in Nat \ {0}
    BY <1>1 DEF DefaultDpTp, If
  <1>6. Positive(Forced(l))
    <2> DEFINE one == [tensor_parallel_size |-> DefaultDpTp(l)]
    <2>1. DefaultDpTp(l) # 0 => Positive(one)
      BY <1>5 DEF Positive, Sizes
    <2> HIDE DEF one
    <2>2. Forced(l) \in {Empty, TwoHalves(l), one}
      BY DEF Forced, If, one
    <2>3. Forced(l) = TwoHalves(l) /\ Forced(l) # Empty => SingleGlm52(l) \/ Forced(l) = one
      BY DEF Forced, If, one
    <2>4. Forced(l) = one /\ Forced(l) # Empty => DefaultDpTp(l) # 0 \/ Forced(l) = TwoHalves(l)
      BY DEF Forced, If, one
    <2> QED  BY <1>2, <1>3, <2>1, <2>2, <2>3, <2>4 DEF Forced, If, one
  <1>7. FlashTp(l) \in Nat \ {0}
    BY DEF FlashTp, If
  <1>8. ASSUME NEW c, Positive(c)
        PROVE  FlashDp(l, c) \in Nat \ {0}
    <2> DEFINE tp == If("tensor_parallel_size" \in DOMAIN c, c["tensor_parallel_size"],
                        FlashTp(l))
    <2>1. tp \in Nat \ {0}
      BY <1>7, <1>8 DEF Positive, Sizes, If
    <2>2. FlashDp(l, c) = AtLeastOne((Cards(l) * Nodes(l)) \div tp)
      BY DEF FlashDp
    <2> HIDE DEF tp
    <2>3. Cards(l) * Nodes(l) \in Nat
      BY <1>1
    <2>4. (Cards(l) * Nodes(l)) \div tp \in Int
      BY <2>1, <2>3
    <2> QED  BY <2>2, <2>4 DEF AtLeastOne, If
  <1> QED  BY <1>4, <1>6, <1>7, <1>8

LEMMA ChainIsPositive ==
  ASSUME NEW l \in Launches, ~Refused(l), NEW c, Positive(c)
  PROVE  Positive(Chain(l, c))
  <1> DEFINE d == Chain(l, c)
             tp == "tensor_parallel_size"
             dp == "data_parallel_size"
             Fine(k) == k \in DOMAIN d => d[k] \in Nat \ {0}
  <1>1. ASSUME NEW k \in Sizes, Stays(l, k)
        PROVE  Fine(k)
    BY <1>1, ChainStays DEF Positive, Same
  <1>2. Fine("pipeline_parallel_size")
    BY <1>1 DEF Stays, Sizes
  <1>3. CASE Flash(l)
    <2>1. Fine(tp)
      <3>1. tp \notin Explicit(l) => d[tp] = FlashTp(l)
        BY <1>3, ChainOfFlash DEF ParallelKeys
      <3>2. tp \in Explicit(l) => Fine(tp)
        BY <1>1 DEF Stays, Sizes
      <3> QED  BY <3>1, <3>2, ComputedSizes
    <2>2. Fine(dp)
      <3> DEFINE only == [i \in {tp} \intersect DOMAIN d |-> d[i]]
      <3>1. dp \notin Explicit(l) => d[dp] = FlashDp(l, d)
        BY <1>3, ChainOfFlash DEF ParallelKeys
      <3>2. dp \in Explicit(l) => Fine(dp)
        BY <1>1 DEF Stays, Sizes
      <3> HIDE DEF d
      <3>3. Positive(only)
        BY <2>1 DEF Positive
      <3>4. Same(d, only, tp)
        BY DEF Same
      <3>5. FlashDp(l, d) = FlashDp(l, only)
        BY <3>4, FlashDpSame
      <3> HIDE DEF only
      <3>6. FlashDp(l, d) \in Nat \ {0}
        BY <3>3, <3>5, ComputedSizes
      <3> QED  BY <3>1, <3>2, <3>6
    <2> QED  BY <1>2, <2>1, <2>2 DEF Positive, Sizes
  <1>4. CASE ~Flash(l)
    <2>1. ASSUME NEW k \in ParallelKeys
          PROVE  Fine(k)
      <3>0. k \in Sizes
        BY DEF Sizes, ParallelKeys
      <3>1. Positive(Filled(l)) /\ Positive(Forced(l))
        BY ComputedSizes
      <3> QED  BY <1>4, <3>0, <3>1, ChainOfOthers DEF Positive, Same
    <2> QED  BY <1>2, <2>1 DEF Positive, Sizes, ParallelKeys
  <1> QED  BY <1>3, <1>4

----------------------------------------------------------------------------
(***************************************************************************)
(* One command in closed form: the model's own additions, the setters in   *)
(* their chain, and what comes after them.                                 *)
(***************************************************************************)
Typed(l, p) == p.sparse /\ Engine(l) = "vllm" /\ ~SparseIndex(l, p)
OwnValues == [data_parallel_size |-> 2, tensor_parallel_size |-> 8,
              enable_expert_parallel |-> "on", quantization |-> "ascend"]
TypedConfig(typed, c) == If(typed, Over(c, [kv_cache_dtype |-> "fp8"]), c)
OwnConfig(l, typed, c) ==
  If(Glm47W8a8(l), ForceSet(l, TypedConfig(typed, c), OwnValues), TypedConfig(typed, c))
OwnSpeculates(l, p) ==
  p.speculative \/ Glm47W8a8(l) \/ (Flash(l) /\ l.a3 /\ ~LmCache(l))
Finished(l, speculates, c) ==
  Without(IF ~(Glm5Dp(l) /\ l.roce) THEN c
          ELSE Over(Without(c, {"async_scheduling", "enable_expert_parallel"}),
                    If(speculates, [speculative_config |-> "deepseek_mtp"], Empty)),
          {"task"})
Ready(l, p) ==
  Finished(l, OwnSpeculates(l, p), Chain(l, OwnConfig(l, Typed(l, p), p.config)))
LeftConfig(l, p) ==
  Over(OwnConfig(l, Typed(l, p), p.config),
       [k \in DOMAIN Ready(l, p) \intersect WrittenBack |-> Ready(l, p)[k]])
ManyNodes(l) == l.distributed /\ l.nnodes > 1
Pipelined(l) ==
  ManyNodes(l) /\ Backend(l) = "ray" /\ l.model.arch \in RayPipeline

Left(l, p) ==
  LET prepared == Prepared(l, Glm47Defaults(l, SparseType(l, p)))
  IN  WriteBack(prepared.left, prepared.config)

LEMMA PreparedInClosedForm ==
  ASSUME NEW l, NEW p, DOMAIN p = Fields
  PROVE  /\ Prepared(l, Glm47Defaults(l, SparseType(l, p))).config = Ready(l, p)
         /\ DOMAIN Left(l, p) = Fields
         /\ Left(l, p).config = LeftConfig(l, p)
         /\ Left(l, p).speculative = OwnSpeculates(l, p)
         /\ Left(l, p).sparse = p.sparse
         /\ Left(l, p).suppressed = p.suppressed
  <1> DEFINE typed == SparseType(l, p)
             own   == Glm47Defaults(l, typed)
             q     == [own EXCEPT !.speculative = Speculates(l, own)]
             prepared == Prepared(l, own)
  <1>1. /\ DOMAIN typed = Fields
        /\ typed.config = TypedConfig(Typed(l, p), p.config)
        /\ typed.speculative = p.speculative
        /\ typed.sparse = p.sparse
        /\ typed.suppressed = p.suppressed
    BY DEF SparseType, TypedConfig, Typed, If, Fields
  <1> HIDE DEF typed
  <1>2. /\ DOMAIN own = Fields
        /\ own.config = OwnConfig(l, Typed(l, p), p.config)
        /\ own.sparse = p.sparse
        /\ own.suppressed = p.suppressed
    BY <1>1 DEF Glm47Defaults, OwnConfig, OwnValues, If, Fields
  <1>3. own.speculative = IF Glm47W8a8(l) THEN TRUE ELSE p.speculative
    BY <1>1 DEF Glm47Defaults, Fields
  <1> HIDE DEF own
  <1>4. Speculates(l, own) = OwnSpeculates(l, p)
    BY <1>3 DEF Speculates, OwnSpeculates, Flash
  <1>5. /\ DOMAIN q = Fields
        /\ q.config = own.config
        /\ q.speculative = OwnSpeculates(l, p)
        /\ q.sparse = p.sparse
        /\ q.suppressed = p.suppressed
    BY <1>2, <1>4 DEF Fields
  <1>6. prepared.left = q
    BY DEF Prepared
  <1>7. prepared.config = Without(RoceFixups(l, q, Chain(l, own.config)), {"task"})
    BY DEF Prepared, Chain
  <1> HIDE DEF q
  <1>8. prepared.config = Ready(l, p)
    BY <1>2, <1>5, <1>7 DEF Ready, Finished, RoceFixups
  <1> HIDE DEF prepared
  <1>9. Left(l, p) = WriteBack(prepared.left, prepared.config)
    BY DEF Left, prepared, own, typed
  <1>10. /\ DOMAIN Left(l, p) = Fields
         /\ Left(l, p).config = LeftConfig(l, p)
         /\ Left(l, p).speculative = OwnSpeculates(l, p)
         /\ Left(l, p).sparse = p.sparse
         /\ Left(l, p).suppressed = p.suppressed
    BY <1>2, <1>5, <1>6, <1>8, <1>9 DEF WriteBack, LeftConfig, Fields
  <1> QED  BY <1>8, <1>10 DEF prepared, own, typed

LEMMA LeftFields ==
  ASSUME NEW l, NEW p, DOMAIN p = Fields, Engine(l) \in VllmEngines
  PROVE  /\ DOMAIN Command(l, p).left = Fields
         /\ Command(l, p).left.config = LeftConfig(l, p)
         /\ Command(l, p).left.speculative = OwnSpeculates(l, p)
         /\ Command(l, p).left.sparse = p.sparse
         /\ Command(l, p).left.suppressed = p.suppressed
  <1>1. Command(l, p).left = Left(l, p)
    BY DEF Command, Build, Left
  <1> QED  BY <1>1, PreparedInClosedForm

LEMMA CommandRefused ==
  ASSUME NEW l, NEW p, DOMAIN p = Fields, Engine(l) \in VllmEngines
  PROVE  Command(l, p).refused = (ManyNodes(l) /\ RanksRefused(l, Ready(l, p)))
  <1> DEFINE prepared == Prepared(l, Glm47Defaults(l, SparseType(l, p)))
  <1>1. prepared.config = Ready(l, p)
    BY PreparedInClosedForm
  <1>2. Command(l, p).refused = (ManyNodes(l) /\ RanksRefused(l, prepared.config))
    BY DEF Command, Build, ManyNodes
  <1> QED  BY <1>1, <1>2

LEMMA CommandFields ==
  ASSUME NEW l, NEW p, DOMAIN p = Fields, Engine(l) \in VllmEngines
  PROVE  /\ Command(l, p).command =
              [config  |-> Command(l, p).command.config,
               method  |-> Command(l, p).command.method,
               index   |-> Command(l, p).command.index,
               offload |-> Command(l, p).command.offload]
         /\ Command(l, p).command.config =
              If(ManyNodes(l) /\ Backend(l) = "ray", RayParallel(l, Ready(l, p)), Ready(l, p))
         /\ Command(l, p).command.method =
              If(/\ OwnSpeculates(l, p)
                 /\ "speculative_config" \notin DOMAIN LeftConfig(l, p), Strategy(l), "none")
         /\ Command(l, p).command.index = SparseIndex(l, p)
         /\ Command(l, p).command.offload = (~ManyNodes(l) /\ NativeOffload(l, p))
  <1> DEFINE prepared == Prepared(l, Glm47Defaults(l, SparseType(l, p)))
             config(c) == If(ManyNodes(l) /\ Backend(l) = "ray", RayParallel(l, c), c)
             method(left) == If(left.speculative /\ "speculative_config" \notin DOMAIN left.config,
                                Strategy(l), "none")
             index == SparseIndex(l, p)
             offload == ~ManyNodes(l) /\ NativeOffload(l, p)
  <1>1. Command(l, p).command = [config  |-> config(prepared.config),
                                 method  |-> method(Left(l, p)),
                                 index   |-> index,
                                 offload |-> offload]
    BY DEF Command, Build, Left, ManyNodes
  <1>2. prepared.config = Ready(l, p)
    BY PreparedInClosedForm
  <1>3. /\ Left(l, p).speculative = OwnSpeculates(l, p)
        /\ Left(l, p).config = LeftConfig(l, p)
    BY PreparedInClosedForm
  <1> HIDE DEF prepared, config, method, index, offload
  <1>4. Command(l, p).command = [config  |-> config(Ready(l, p)),
                                 method  |-> method(Left(l, p)),
                                 index   |-> index,
                                 offload |-> offload]
    BY <1>1, <1>2
  <1>5. /\ Command(l, p).command.config = config(Ready(l, p))
        /\ Command(l, p).command.method = method(Left(l, p))
        /\ Command(l, p).command.index = index
        /\ Command(l, p).command.offload = offload
    BY <1>4
  <1>6. method(Left(l, p)) =
          If(/\ OwnSpeculates(l, p)
             /\ "speculative_config" \notin DOMAIN LeftConfig(l, p), Strategy(l), "none")
    BY <1>3 DEF method
  <1> QED  BY <1>4, <1>5, <1>6 DEF config, index, offload

LEMMA FinishedAt ==
  ASSUME NEW l, NEW speculates, NEW c, NEW k
  PROVE  /\ \A d : Same(c, d, k) =>
                Same(Finished(l, speculates, c), Finished(l, speculates, d), k)
         /\ \/ Stays(l, k) /\ k # "speculative_config"
            \/ k \in ParallelKeys \union {"kv_transfer_config"}
            => Same(Finished(l, speculates, c), c, k)
         /\ k = "speculative_config" =>
              /\ k \in DOMAIN c => k \in DOMAIN Finished(l, speculates, c)
              /\ ~(speculates /\ Glm5Dp(l) /\ l.roce) => Same(Finished(l, speculates, c), c, k)
  <1> DEFINE out == {"async_scheduling", "enable_expert_parallel"}
             x == If(speculates, [speculative_config |-> "deepseek_mtp"], Empty)
             R(d) == Over(Without(d, out), x)
             F(d) == Finished(l, speculates, d)
  <1>1. CASE ~(Glm5Dp(l) /\ l.roce)
    <2>1. \A d : F(d) = Without(d, {"task"})
      BY <1>1 DEF Finished
    <2>2. k = "task" => ~Stays(l, k) /\ k \notin ParallelKeys \union {"kv_transfer_config"}
      BY ExplicitKeys DEF ParallelKeys
    <2>3. k # "task" => Same(F(c), c, k)
      BY <2>1, WithoutKeeps
    <2> HIDE DEF F
    <2>4. \A d : Same(c, d, k) => Same(F(c), F(d), k)
      BY <2>1, WithoutSame
    <2> QED  BY <2>2, <2>3, <2>4 DEF F, Same
  <1>2. CASE Glm5Dp(l) /\ l.roce
    <2>1. \A d : F(d) = Without(R(d), {"task"})
      BY <1>2 DEF Finished
    <2>2. /\ DOMAIN x \subseteq {"speculative_config"}
          /\ ~speculates => DOMAIN x = {}
      BY DEF If, Empty
    <2> HIDE DEF x
    <2>3. \A d : Same(c, d, k) => Same(F(c), F(d), k)
      <3> HIDE DEF F
      <3> QED  BY <2>1, WithoutSame, OverSame, SameReflexive
    <2>4. l.model.arch = "GlmMoeDsaForCausalLM"
      BY <1>2 DEF Glm5Dp, GlmDsa
    <2>5. ASSUME \/ Stays(l, k) /\ k # "speculative_config"
                 \/ k \in ParallelKeys \union {"kv_transfer_config"}
          PROVE  k \notin out \union {"task", "speculative_config"}
      <3>1. CASE k \in ParallelKeys \union {"kv_transfer_config"}
        BY <3>1 DEF ParallelKeys
      <3>2. CASE Stays(l, k) /\ k # "speculative_config"
        <4>1. k \notin {"async_scheduling", "task"}
          BY <3>2, ExplicitKeys
        <4>2. k # "enable_expert_parallel"
          BY <2>4, <3>2 DEF Stays
        <4> QED  BY <3>2, <4>1, <4>2
      <3> QED  BY <2>5, <3>1, <3>2
    <2>6. ASSUME k \notin out \union {"task"}, k \notin DOMAIN x
          PROVE  Same(F(c), c, k)
      <3>1. Same(F(c), R(c), k)
        BY <2>1, <2>6, WithoutKeeps
      <3>2. Same(R(c), Without(c, out), k)
        BY <2>6, OverKeeps
      <3>3. Same(Without(c, out), c, k)
        BY <2>6, WithoutKeeps
      <3> HIDE DEF F, R
      <3> QED  BY <3>1, <3>2, <3>3, SameTransitive
    <2>7. ASSUME k = "speculative_config", k \in DOMAIN c
          PROVE  k \in DOMAIN F(c)
      <3>1. k \in DOMAIN Without(c, out)
        BY <2>7, WithoutDomain
      <3>2. k \in DOMAIN R(c)
        BY <3>1, OverDomain
      <3> HIDE DEF R
      <3>3. k \in DOMAIN Without(R(c), {"task"})
        BY <2>7, <3>2, WithoutDomain
      <3> QED  BY <2>1, <3>3
    <2>8. \/ Stays(l, k) /\ k # "speculative_config"
          \/ k \in ParallelKeys \union {"kv_transfer_config"}
          => Same(F(c), c, k)
      BY <2>2, <2>5, <2>6
    <2>9. ASSUME k = "speculative_config", ~speculates
          PROVE  Same(F(c), c, k)
      BY <2>2, <2>6, <2>9
    <2> HIDE DEF F
    <2>10. /\ \A d : Same(c, d, k) => Same(F(c), F(d), k)
           /\ \/ Stays(l, k) /\ k # "speculative_config"
              \/ k \in ParallelKeys \union {"kv_transfer_config"}
              => Same(F(c), c, k)
           /\ k = "speculative_config" =>
                /\ k \in DOMAIN c => k \in DOMAIN F(c)
                /\ ~(speculates /\ Glm5Dp(l) /\ l.roce) => Same(F(c), c, k)
      BY <1>2, <2>3, <2>7, <2>8, <2>9
    <2> QED  BY <2>10 DEF F
  <1> QED  BY <1>1, <1>2

(* The additions of the model itself, made twice or once *)
LEMMA OwnConfigAt ==
  ASSUME NEW l, NEW typed, NEW c, NEW k
  PROVE  /\ \A d : Same(c, d, k) => Same(OwnConfig(l, typed, c), OwnConfig(l, typed, d), k)
         /\ \A d : Same(d, OwnConfig(l, FALSE, c), k) =>
                Same(OwnConfig(l, typed, d), OwnConfig(l, typed, c), k)
         /\ ~typed \/ k # "kv_cache_dtype" => Same(TypedConfig(typed, c), c, k)
         /\ \/ ~Glm47W8a8(l) \/ k \in Explicit(l)
            \/ k \in Watched \ ParallelKeys
            => Same(OwnConfig(l, typed, c), TypedConfig(typed, c), k)
         /\ Glm47W8a8(l) /\ k \in ParallelKeys \ Explicit(l) =>
              /\ k \in DOMAIN OwnConfig(l, typed, c)
              /\ OwnConfig(l, typed, c)[k] = OwnValues[k]
  <1> DEFINE v    == [kv_cache_dtype |-> "fp8"]
             T(d) == TypedConfig(typed, d)
             O(d) == OwnConfig(l, typed, d)
             sets == k \in DOMAIN OwnValues /\ k \notin Explicit(l)
  <1>1. DOMAIN v = {"kv_cache_dtype"}
    OBVIOUS
  <1>2. DOMAIN OwnValues = ParallelKeys \union {"enable_expert_parallel", "quantization"}
    BY DEF OwnValues, ParallelKeys
  <1>3. \A d : T(d) = If(typed, Over(d, v), d)
    BY DEF TypedConfig
  <1> HIDE DEF v
  <1>4. \A d : Same(c, d, k) => Same(T(c), T(d), k)
    <2> HIDE DEF T
    <2> QED  BY <1>3, OverSame, SameReflexive DEF If
  <1>5. \A d : ~typed \/ k # "kv_cache_dtype" => Same(T(d), d, k)
    <2> HIDE DEF T
    <2> QED  BY <1>1, <1>3, OverKeeps, SameReflexive DEF If
  <1>6. \A d : typed /\ k = "kv_cache_dtype" => Same(T(c), T(d), k)
    <2> HIDE DEF T
    <2> QED  BY <1>1, <1>3 DEF If, Over, Same
  <1>7. TypedConfig(FALSE, c) = c
    BY DEF TypedConfig, If
  <1>8. CASE ~Glm47W8a8(l)
    <2>1. \A d : O(d) = T(d)
      BY <1>8 DEF OwnConfig, If
    <2>2. OwnConfig(l, FALSE, c) = c
      BY <1>7, <1>8 DEF OwnConfig, If
    <2> HIDE DEF O, T
    <2>3. \A d : Same(d, c, k) => Same(O(d), O(c), k)
      BY <1>4, <2>1, SameSymmetric
    <2>4. \A d : Same(c, d, k) => Same(O(c), O(d), k)
      BY <1>4, <2>1
    <2>5. Same(O(c), T(c), k)
      BY <2>1, SameReflexive
    <2> QED  BY <1>5, <1>8, <2>2, <2>3, <2>4, <2>5 DEF O, T
  <1>9. CASE Glm47W8a8(l)
    <2>1. \A d : O(d) = ForceSet(l, T(d), OwnValues)
      BY <1>9 DEF OwnConfig, If
    <2>2. OwnConfig(l, FALSE, c) = ForceSet(l, c, OwnValues)
      BY <1>7, <1>9 DEF OwnConfig, If
    <2> HIDE DEF O, T
    <2>3. \A d : sets => k \in DOMAIN O(d) /\ O(d)[k] = OwnValues[k]
      BY <2>1, ForceSetAt
    <2>4. \A d : ~sets => Same(O(d), T(d), k)
      BY <2>1, ForceSetAt
    <2>5. \A d : Same(c, d, k) => Same(O(c), O(d), k)
      BY <1>4, <2>1, SettersSame
    <2>6. ASSUME NEW d, Same(d, OwnConfig(l, FALSE, c), k)
          PROVE  Same(O(d), O(c), k)
      <3>1. CASE sets
        BY <2>3, <3>1 DEF Same
      <3>2. CASE ~sets
        <4>1. Same(OwnConfig(l, FALSE, c), c, k)
          BY <2>2, <3>2, ForceSetAt
        <4>2. Same(c, d, k)
          BY <2>6, <4>1, SameSymmetric, SameTransitive
        <4> QED  BY <2>5, <4>2, SameSymmetric
      <3> QED  BY <3>1, <3>2
    <2>7. k \in Explicit(l) \/ k \in Watched \ ParallelKeys => ~sets
      BY <1>2 DEF Watched, Sizes
    <2> QED  BY <1>2, <1>5, <1>9, <2>3, <2>4, <2>5, <2>6, <2>7 DEF O, T
  <1> QED  BY <1>8, <1>9

(* GLM-4.7's own sizes are nobody else's business *)
LEMMA Glm47ChainSizes ==
  ASSUME NEW l, NEW c, NEW k \in ParallelKeys, Glm47W8a8(l)
  PROVE  Same(Chain(l, c), c, k)
  <1>1. /\ ~Flash(l) /\ ~GlmDsa(l.model) /\ ~DpDeployment(l)
    BY DEF Glm47W8a8, Flash, V4Flash, V4, GlmDsa, DpDeployment, DpArchitectures
  <1>2. DOMAIN Filled(l) = {} /\ DOMAIN Forced(l) = {}
    BY <1>1 DEF Filled, Forced, If, Empty
  <1> QED  BY <1>1, <1>2, ChainOfOthers

LEMMA ReadyAtSizes ==
  ASSUME NEW l, NEW p, NEW k \in ParallelKeys
  PROVE  /\ Same(Ready(l, p), Chain(l, OwnConfig(l, Typed(l, p), p.config)), k)
         /\ Same(LeftConfig(l, p), Ready(l, p), k)
  <1> DEFINE own == OwnConfig(l, Typed(l, p), p.config)
             ready == Ready(l, p)
             written == [i \in DOMAIN ready \intersect WrittenBack |-> ready[i]]
  <1>1. Same(ready, Chain(l, own), k)
    BY FinishedAt DEF Ready
  <1>2. k \in DOMAIN own => k \in DOMAIN ready
    <2> HIDE DEF own, ready
    <2> QED  BY <1>1, ChainKeepsSizes DEF Same
  <1>3. LeftConfig(l, p) = Over(own, written)
    BY DEF LeftConfig
  <1> HIDE DEF own, ready
  <1>4. k \in DOMAIN ready => k \in DOMAIN written /\ written[k] = ready[k]
    BY DEF WrittenBack, ParallelKeys
  <1>5. k \notin DOMAIN ready => k \notin DOMAIN written
    OBVIOUS
  <1>6. Same(Over(own, written), ready, k)
    <2> HIDE DEF written
    <2> QED  BY <1>2, <1>4, <1>5 DEF Over, Same
  <1> QED  BY <1>1, <1>3, <1>6 DEF own, ready

LEMMA LeftElsewhere ==
  ASSUME NEW l, NEW p, NEW k, k \notin ParallelKeys,
         \/ k # "speculative_config"
         \/ ~(OwnSpeculates(l, p) /\ Glm5Dp(l) /\ l.roce)
  PROVE  Same(LeftConfig(l, p), OwnConfig(l, Typed(l, p), p.config), k)
  <1> DEFINE own == OwnConfig(l, Typed(l, p), p.config)
             ready == Ready(l, p)
             written == [i \in DOMAIN ready \intersect WrittenBack |-> ready[i]]
  <1>0. LeftConfig(l, p) = Over(own, written)
    BY DEF LeftConfig
  <1>1. CASE k = "speculative_config"
    <2>1. Same(ready, Chain(l, own), k)
      BY <1>1, FinishedAt DEF Ready
    <2> HIDE DEF own, ready
    <2>2. Same(Chain(l, own), own, k)
      BY <1>1, ChainStays DEF Stays
    <2>3. Same(ready, own, k)
      BY <2>1, <2>2, SameTransitive
    <2>4. Same(Over(own, written), own, k)
      BY <1>1, <2>3 DEF Over, Same
    <2> QED  BY <1>0, <2>4 DEF own
  <1>2. CASE k # "speculative_config"
    <2>1. k \notin DOMAIN written
      BY <1>2 DEF WrittenBack, ParallelKeys
    <2> HIDE DEF own, written
    <2>2. Same(Over(own, written), own, k)
      BY <2>1, OverKeeps
    <2> QED  BY <1>0, <2>2 DEF own
  <1> QED  BY <1>1, <1>2

(* The parameters q are p after the building of a first command from g,    *)
(* which has p's engine_config and no feature switched on                  *)
Rebuilds(l, p, q, g) ==
  /\ DOMAIN p = Fields /\ DOMAIN q = Fields
  /\ g.config = p.config /\ g.speculative = FALSE /\ g.sparse = FALSE
  /\ q.config = LeftConfig(l, g)
  /\ q.sparse = p.sparse /\ q.suppressed = p.suppressed
  /\ OwnSpeculates(l, q) = OwnSpeculates(l, p)

(* The next command is then the one that p alone would give                *)
LEMMA ReadyAgain ==
  ASSUME NEW l, NEW p, NEW q, NEW g,
         g.config = p.config, g.speculative = FALSE, g.sparse = FALSE,
         q.config = LeftConfig(l, g), q.sparse = p.sparse,
         OwnSpeculates(l, q) = OwnSpeculates(l, p)
  PROVE  /\ Ready(l, q) = Ready(l, p)
         /\ "speculative_config" \in DOMAIN LeftConfig(l, q) <=>
              "speculative_config" \in DOMAIN LeftConfig(l, p)
  <1> DEFINE t    == Typed(l, p)
             c    == p.config
             y    == LeftConfig(l, g)
             first == OwnConfig(l, FALSE, c)
             ownP == OwnConfig(l, t, c)
             ownQ == OwnConfig(l, t, y)
             said == OwnSpeculates(l, p)
             F(d) == Finished(l, said, d)
  <1>1. Typed(l, q) = t
    BY DEF Typed, SparseIndex
  <1>2. Typed(l, g) = FALSE
    BY DEF Typed
  <1>3. /\ Ready(l, p) = F(Chain(l, ownP))
        /\ Ready(l, q) = F(Chain(l, ownQ))
    BY <1>1 DEF Ready
  <1>4. OwnConfig(l, Typed(l, g), g.config) = first
    BY <1>2
  <1>5. ~(OwnSpeculates(l, g) /\ Glm5Dp(l) /\ l.roce)
    BY DEF OwnSpeculates, Glm47W8a8, Flash, V4Flash, V4, Glm5Dp, GlmDsa
  <1>6. \A k : k \notin ParallelKeys => Same(y, first, k)
    BY <1>4, <1>5, LeftElsewhere
  <1>7. \A k \in ParallelKeys : Same(y, Chain(l, first), k)
    BY <1>4, ReadyAtSizes, SameTransitive
  <1> HIDE DEF y
  <1>8. \A k : k \notin ParallelKeys => Same(ownQ, ownP, k)
    BY <1>6, OwnConfigAt
  <1>9. \A k : k \notin ParallelKeys => Same(Chain(l, ownQ), Chain(l, ownP), k)
    <2> HIDE DEF ownQ, ownP
    <2> QED  BY <1>8, ChainSame
  <1>10. \A k \in ParallelKeys : Same(Chain(l, ownQ), Chain(l, ownP), k)
    <2>1. CASE Glm47W8a8(l)
      <3>1. ASSUME NEW k \in ParallelKeys
            PROVE  Same(Chain(l, ownQ), Chain(l, ownP), k)
        <4>1. Same(y, first, k)
          <5> HIDE DEF first
          <5>1. Same(y, Chain(l, first), k) /\ Same(Chain(l, first), first, k)
            BY <1>7, <2>1, <3>1, Glm47ChainSizes
          <5> QED  BY <5>1, SameTransitive
        <4>2. Same(ownQ, ownP, k)
          BY <4>1, OwnConfigAt
        <4> HIDE DEF ownQ, ownP
        <4>3. Same(Chain(l, ownQ), ownQ, k) /\ Same(Chain(l, ownP), ownP, k)
          BY <2>1, Glm47ChainSizes
        <4> QED  BY <4>2, <4>3, SameSymmetric, SameTransitive
      <3> QED  BY <3>1
    <2>2. CASE ~Glm47W8a8(l)
      <3>1. first = c
        BY <2>2 DEF OwnConfig, TypedConfig, If
      <3>2. \A k \in ParallelKeys : Same(ownQ, y, k) /\ Same(ownP, c, k)
        <4>1. \A k \in ParallelKeys : k # "kv_cache_dtype"
          BY DEF ParallelKeys
        <4>2. \A k \in ParallelKeys :
                Same(TypedConfig(t, y), y, k) /\ Same(ownQ, TypedConfig(t, y), k)
          BY <2>2, <4>1, OwnConfigAt
        <4>3. \A k \in ParallelKeys :
                Same(TypedConfig(t, c), c, k) /\ Same(ownP, TypedConfig(t, c), k)
          BY <2>2, <4>1, OwnConfigAt
        <4> HIDE DEF ownQ, ownP
        <4> QED  BY <4>2, <4>3, SameTransitive
      <3> HIDE DEF ownQ, ownP, first
      <3>3. \A k \in ParallelKeys : Same(ownQ, Chain(l, c), k)
        BY <1>7, <3>1, <3>2, SameTransitive
      <3> QED  BY <3>2, <3>3, ChainAgain
    <2> QED  BY <2>1, <2>2
  <1>11. \A k : Same(Chain(l, ownQ), Chain(l, ownP), k)
    BY <1>9, <1>10
  <1>12. \A k : Same(F(Chain(l, ownQ)), F(Chain(l, ownP)), k)
    <2> HIDE DEF ownQ, ownP
    <2> QED  BY <1>11, FinishedAt
  <1>13. Fn(F(Chain(l, ownQ))) /\ Fn(F(Chain(l, ownP)))
    BY AreFunctions DEF Finished
  <1>14. Ready(l, q) = Ready(l, p)
    <2> HIDE DEF F
    <2> QED  BY <1>3, <1>12, <1>13, SameEverywhere
  <1>15. Same(ownQ, ownP, "speculative_config")
    BY <1>8 DEF ParallelKeys
  <1> DEFINE written(r) == [k \in DOMAIN r \intersect WrittenBack |-> r[k]]
  <1>16. /\ LeftConfig(l, q) = Over(ownQ, written(Ready(l, q)))
         /\ LeftConfig(l, p) = Over(ownP, written(Ready(l, p)))
    BY <1>1 DEF LeftConfig, y
  <1>17. written(Ready(l, q)) = written(Ready(l, p))
    BY <1>14
  <1> HIDE DEF ownQ, ownP, written
  <1>18. /\ DOMAIN LeftConfig(l, q) = DOMAIN ownQ \union DOMAIN written(Ready(l, p))
         /\ DOMAIN LeftConfig(l, p) = DOMAIN ownP \union DOMAIN written(Ready(l, p))
    BY <1>16, <1>17, OverDomain
  <1>19. "speculative_config" \in DOMAIN LeftConfig(l, q) <=>
           "speculative_config" \in DOMAIN LeftConfig(l, p)
    BY <1>15, <1>18 DEF Same
  <1> QED  BY <1>14, <1>19

LEMMA CommandAgain ==
  ASSUME NEW l, NEW p, NEW q, NEW g, Engine(l) \in VllmEngines, Rebuilds(l, p, q, g)
  PROVE  /\ Command(l, q).command = Command(l, p).command
         /\ Command(l, q).refused = Command(l, p).refused
  <1>0. /\ DOMAIN p = Fields /\ DOMAIN q = Fields
        /\ q.sparse = p.sparse /\ q.suppressed = p.suppressed
        /\ OwnSpeculates(l, q) = OwnSpeculates(l, p)
    BY DEF Rebuilds
  <1>1. /\ Ready(l, q) = Ready(l, p)
        /\ "speculative_config" \in DOMAIN LeftConfig(l, q) <=>
             "speculative_config" \in DOMAIN LeftConfig(l, p)
    BY ReadyAgain DEF Rebuilds
  <1>2. SparseIndex(l, q) = SparseIndex(l, p) /\ NativeOffload(l, q) = NativeOffload(l, p)
    BY <1>0 DEF SparseIndex, NativeOffload
  <1>3. Command(l, q).refused = Command(l, p).refused
    <2>1. /\ Command(l, q).refused = (ManyNodes(l) /\ RanksRefused(l, Ready(l, q)))
          /\ Command(l, p).refused = (ManyNodes(l) /\ RanksRefused(l, Ready(l, p)))
      BY <1>0, CommandRefused
    <2> QED  BY <1>1, <2>1
  <1> DEFINE method(r) == If(/\ OwnSpeculates(l, r)
                             /\ "speculative_config" \notin DOMAIN LeftConfig(l, r),
                             Strategy(l), "none")
             config(r) == If(ManyNodes(l) /\ Backend(l) = "ray",
                             RayParallel(l, Ready(l, r)), Ready(l, r))
  <1>4. method(q) = method(p) /\ config(q) = config(p)
    BY <1>0, <1>1
  <1>5. /\ Command(l, q).command.method = method(q)
        /\ Command(l, p).command.method = method(p)
        /\ Command(l, q).command.config = config(q)
        /\ Command(l, p).command.config = config(p)
    BY <1>0, CommandFields
  <1> HIDE DEF method, config
  <1>6. Command(l, q).command.index = Command(l, p).command.index
    <2>1. /\ Command(l, q).command.index = SparseIndex(l, q)
          /\ Command(l, p).command.index = SparseIndex(l, p)
      BY <1>0, CommandFields
    <2> QED  BY <1>2, <2>1
  <1>7. Command(l, q).command.offload = Command(l, p).command.offload
    <2>1. /\ Command(l, q).command.offload = (~ManyNodes(l) /\ NativeOffload(l, q))
          /\ Command(l, p).command.offload = (~ManyNodes(l) /\ NativeOffload(l, p))
      BY <1>0, CommandFields
    <2> QED  BY <1>2, <2>1
  <1> DEFINE whole(r) == [config  |-> r.config, method |-> r.method,
                          index |-> r.index, offload |-> r.offload]
  <1>8. /\ Command(l, q).command = whole(Command(l, q).command)
        /\ Command(l, p).command = whole(Command(l, p).command)
    BY <1>0, CommandFields
  <1>9. whole(Command(l, q).command) = whole(Command(l, p).command)
    BY <1>4, <1>5, <1>6, <1>7
  <1> HIDE DEF whole
  <1>10. Command(l, q).command = Command(l, p).command
    BY <1>8, <1>9
  <1> QED  BY <1>3, <1>10

(* The sizes of what a command is started with, and of what it leaves *)
LEMMA OwnConfigIsPositive ==
  ASSUME NEW l, NEW typed, NEW c, Positive(c)
  PROVE  Positive(OwnConfig(l, typed, c))
  <1> SUFFICES ASSUME NEW k \in Sizes, k \in DOMAIN OwnConfig(l, typed, c)
               PROVE  OwnConfig(l, typed, c)[k] \in Nat \ {0}
    BY DEF Positive
  <1>1. Same(TypedConfig(typed, c), c, k)
    BY OwnConfigAt DEF Sizes
  <1>2. CASE Glm47W8a8(l) /\ k \in ParallelKeys \ Explicit(l)
    <2>1. OwnConfig(l, typed, c)[k] = OwnValues[k]
      BY <1>2, OwnConfigAt
    <2> QED  BY <1>2, <2>1 DEF OwnValues, ParallelKeys
  <1>3. CASE ~(Glm47W8a8(l) /\ k \in ParallelKeys \ Explicit(l))
    <2>1. \/ ~Glm47W8a8(l) \/ k \in Explicit(l) \/ k \in Watched \ ParallelKeys
      BY <1>3 DEF Watched
    <2>2. Same(OwnConfig(l, typed, c), TypedConfig(typed, c), k)
      BY <2>1, OwnConfigAt
    <2>3. Same(OwnConfig(l, typed, c), c, k)
      BY <1>1, <2>2, SameTransitive
    <2> QED  BY <2>3 DEF Same, Positive
  <1> QED  BY <1>2, <1>3

LEMMA ReadyIsPositive ==
  ASSUME NEW l \in Launches, ~Refused(l), NEW p, Positive(p.config)
  PROVE  Positive(Ready(l, p)) /\ Positive(LeftConfig(l, p))
  <1> DEFINE own == OwnConfig(l, Typed(l, p), p.config)
             pp  == "pipeline_parallel_size"
  <1>0. Sizes = ParallelKeys \union {pp} /\ pp \notin ParallelKeys
    BY DEF Sizes, ParallelKeys
  <1>1. Positive(own)
    BY OwnConfigIsPositive
  <1>2. \A k \in ParallelKeys : /\ Same(Ready(l, p), Chain(l, own), k)
                                /\ Same(LeftConfig(l, p), Ready(l, p), k)
    BY ReadyAtSizes
  <1>3. Same(LeftConfig(l, p), own, pp)
    BY <1>0, LeftElsewhere
  <1>4. Same(Ready(l, p), Chain(l, own), pp)
    BY FinishedAt DEF Ready, Stays
  <1> HIDE DEF own
  <1>5. Positive(Chain(l, own))
    BY <1>1, ChainIsPositive
  <1>6. Positive(Ready(l, p))
    BY <1>0, <1>2, <1>4, <1>5 DEF Positive, Same
  <1>7. Positive(LeftConfig(l, p))
    BY <1>0, <1>1, <1>2, <1>3, <1>6 DEF Positive, Same
  <1> QED  BY <1>6, <1>7

LEMMA CommandIsPositive ==
  ASSUME NEW l \in Launches, ~Refused(l), NEW p, DOMAIN p = Fields, Positive(p.config)
  PROVE  Positive(Command(l, p).command.config)
  <1>1. CASE Engine(l) \notin VllmEngines
    <2>1. Command(l, p).command.config = p.config
      BY <1>1 DEF Command
    <2> QED  BY <2>1
  <1>2. CASE Engine(l) \in VllmEngines
    <2> DEFINE c == Ready(l, p)
               ray == [pipeline_parallel_size |-> l.nnodes, tensor_parallel_size |-> Cards(l)]
    <2>1. Positive(c)
      BY ReadyIsPositive
    <2>2. Command(l, p).command.config = If(ManyNodes(l) /\ Backend(l) = "ray",
                                            RayParallel(l, c), c)
      BY <1>2, CommandFields
    <2>3. Positive(ray)
      BY LaunchableHardware DEF Positive
    <2> HIDE DEF c, ray
    <2>4. Positive(Over(c, ray))
      BY <2>1, <2>3 DEF Positive, Over
    <2>5. RayParallel(l, c) \in {c, Over(c, ray)}
      BY DEF RayParallel, If, ray
    <2> QED  BY <2>1, <2>2, <2>4, <2>5 DEF If
  <1> QED  BY <1>1, <1>2

----------------------------------------------------------------------------
(***************************************************************************)
(* What building one command adds to the parameters.                       *)
(***************************************************************************)
Kept(p, q) ==
  /\ DOMAIN q = Fields
  /\ DOMAIN q.config \subseteq DOMAIN p.config \union BuiltKeys

LEMMA SparseTypeKeeps ==
  ASSUME NEW l, NEW p, DOMAIN p = Fields
  PROVE  Kept(p, SparseType(l, p))
  <1> DEFINE d == [kv_cache_dtype |-> "fp8"]
             q == [p EXCEPT !.config = Over(p.config, d)]
  <1>1. DOMAIN Over(p.config, d) = DOMAIN p.config \union {"kv_cache_dtype"}
    BY OverDomain
  <1>2. DOMAIN q = Fields /\ q.config = Over(p.config, d)
    BY DEF Fields
  <1>3. Kept(p, q)
    BY <1>1, <1>2 DEF Kept, BuiltKeys
  <1>4. Kept(p, p)
    BY DEF Kept
  <1>5. SparseType(l, p) = q \/ SparseType(l, p) = p
    BY DEF SparseType, If
  <1> QED  BY <1>3, <1>4, <1>5

LEMMA Glm47Keeps ==
  ASSUME NEW l, NEW p, DOMAIN p = Fields
  PROVE  Kept(p, Glm47Defaults(l, p))
  <1> DEFINE values == [data_parallel_size |-> 2, tensor_parallel_size |-> 8,
                        enable_expert_parallel |-> "on", quantization |-> "ascend"]
             c == ForceSet(l, p.config, values)
             q == [p EXCEPT !.speculative = TRUE, !.config = c]
  <1>1. DOMAIN Recommended(l, values) \subseteq BuiltKeys
    <2>1. DOMAIN values \subseteq BuiltKeys
      BY DEF BuiltKeys
    <2> HIDE DEF values
    <2>2. DOMAIN Recommended(l, values) = DOMAIN values \ Explicit(l)
      BY WithoutDomain DEF Recommended
    <2> QED  BY <2>1, <2>2
  <1>2. DOMAIN c \subseteq DOMAIN p.config \union BuiltKeys
    BY <1>1, OverDomain DEF ForceSet
  <1> HIDE DEF c
  <1>3. DOMAIN q = Fields /\ q.config = c
    BY DEF Fields
  <1>4. Kept(p, q)
    BY <1>2, <1>3 DEF Kept
  <1>5. Kept(p, p)
    BY DEF Kept
  <1>6. Glm47Defaults(l, p) = q \/ Glm47Defaults(l, p) = p
    BY DEF Glm47Defaults, c
  <1> QED  BY <1>4, <1>5, <1>6

LEMMA WriteBackKeeps ==
  ASSUME NEW p, NEW c, DOMAIN p = Fields
  PROVE  Kept(p, WriteBack(p, c))
  <1> DEFINE d == [k \in DOMAIN c \intersect WrittenBack |-> c[k]]
  <1>1. DOMAIN Over(p.config, d) = DOMAIN p.config \union (DOMAIN c \intersect WrittenBack)
    BY OverDomain
  <1>2. WrittenBack \subseteq BuiltKeys
    BY DEF WrittenBack, BuiltKeys
  <1>3. /\ DOMAIN WriteBack(p, c) = Fields
        /\ WriteBack(p, c).config = Over(p.config, d)
    BY DEF WriteBack, Fields
  <1> QED  BY <1>1, <1>2, <1>3 DEF Kept

LEMMA KeptIsTransitive ==
  ASSUME NEW p, NEW q, NEW r, Kept(p, q), Kept(q, r)
  PROVE  Kept(p, r)
  BY DEF Kept

(* The parameters that one command's building leaves to the next *)
LEMMA CommandKeeps ==
  ASSUME NEW l, NEW p, DOMAIN p = Fields
  PROVE  Kept(p, Command(l, p).left)
  <1> DEFINE sparse   == SparseType(l, p)
             own      == Glm47Defaults(l, sparse)
             prepared == Prepared(l, own)
  <1>1. CASE Engine(l) \notin VllmEngines
    BY <1>1 DEF Command, Kept
  <1>2. CASE Engine(l) \in VllmEngines
    <2>1. Kept(p, sparse)
      BY SparseTypeKeeps
    <2>2. Kept(sparse, own)
      BY <2>1, Glm47Keeps DEF Kept
    <2>3. prepared.left = [own EXCEPT !.speculative = Speculates(l, own)]
      BY DEF Prepared
    <2>4. DOMAIN own = Fields
      BY <2>2 DEF Kept
    <2>5. Kept(own, prepared.left)
      BY <2>3, <2>4 DEF Kept, Fields
    <2>6. Kept(prepared.left, WriteBack(prepared.left, prepared.config))
      BY <2>5, WriteBackKeeps DEF Kept
    <2>7. Command(l, p).left = WriteBack(prepared.left, prepared.config)
      BY <1>2 DEF Command, Build
    <2> QED  BY <2>1, <2>2, <2>5, <2>6, <2>7, KeptIsTransitive
  <1> QED  BY <1>1, <1>2

LEMMA FallbackParameters ==
  ASSUME NEW l, NEW p, DOMAIN p = Fields
  PROVE  /\ DOMAIN WithoutFeatures(l, p) = Fields
         /\ DOMAIN WithoutFeatures(l, p).config \subseteq DOMAIN p.config
  <1>1. DOMAIN WithoutFeatures(l, p) = Fields
    BY DEF WithoutFeatures, Fields
  <1>2. \/ WithoutFeatures(l, p).config = Without(p.config, {"kv_transfer_config"})
        \/ WithoutFeatures(l, p).config = p.config
    BY DEF WithoutFeatures, If
  <1>3. CASE WithoutFeatures(l, p).config = Without(p.config, {"kv_transfer_config"})
    <2>1. DOMAIN WithoutFeatures(l, p).config = DOMAIN p.config \ {"kv_transfer_config"}
      BY <1>3 DEF Without
    <2> QED  BY <1>1, <2>1
  <1> QED  BY <1>1, <1>2, <1>3

----------------------------------------------------------------------------
(* In particular for the parameters of this launch *)
LEMMA CommandStaysGuarded ==
  ASSUME NEW l, NEW p, DOMAIN p = Fields, Guarded(l, p.config)
  PROVE  /\ DOMAIN Command(l, p).left = Fields
         /\ Guarded(l, Command(l, p).left.config)
  BY CommandKeeps, BuiltKeysAreHarmless DEF Kept

LEMMA FallbackStaysGuarded ==
  ASSUME NEW l, NEW p, DOMAIN p = Fields, Guarded(l, p.config)
  PROVE  Guarded(l, Command(l, WithoutFeatures(l, p)).left.config)
  <1> DEFINE fallback == WithoutFeatures(l, p)
  <1>1. DOMAIN fallback = Fields /\ DOMAIN fallback.config \subseteq DOMAIN p.config
    BY FallbackParameters
  <1>2. Guarded(l, fallback.config)
    BY <1>1, BuiltKeysAreHarmless
  <1> HIDE DEF fallback
  <1>3. Guarded(l, Command(l, fallback).left.config)
    BY <1>1, <1>2, CommandStaysGuarded
  <1> QED  BY <1>3 DEF fallback

LEMMA InitGuarded == Init => IInv
  <1> SUFFICES ASSUME Init PROVE IInv
    OBVIOUS
  <1>1. params = NoParams
    BY DEF Init
  <1>2. DOMAIN params = Fields /\ DOMAIN params.config = {}
    BY <1>1 DEF NoParams, Fields, Empty
  <1> QED  BY <1>2 DEF IInv, Guarded

LEMMA NextGuarded == IInv /\ [Next]_vars => IInv'
  <1> SUFFICES ASSUME IInv, [Next]_vars PROVE IInv'
    OBVIOUS
  <1>0. DOMAIN params = Fields /\ Guarded(launch, params.config)
    BY DEF IInv
  <1>1. launch' = launch
    BY DEF Next, Refuses, Merges, WritesFlags, BuildsFallback, BuildsRetry,
           BuildsMain, CannotBuild, Assembles, vars
  <1>2. SUFFICES DOMAIN params' = Fields /\ Guarded(launch, params'.config)
    BY <1>1 DEF IInv, Guarded
  <1>3. CASE Merges
    <2>1. params' = Merged(launch)
      BY <1>3 DEF Merges
    <2>2. DOMAIN params' = Fields /\ params'.config = EngineConfig(launch)
      BY <2>1 DEF Merged, Fields
    <2> QED  BY <2>2, MergeIsGuarded
  <1>4. CASE BuildsFallback
    <2> DEFINE left == Command(launch, WithoutFeatures(launch, params)).left
    <2>1. Guarded(launch, left.config)
      BY <1>0, FallbackStaysGuarded
    <2>2. params' = [params EXCEPT !.config = left.config] \/ params' = params
      BY <1>4 DEF BuildsFallback
    <2> HIDE DEF left
    <2>3. CASE params' = [params EXCEPT !.config = left.config]
      <3>1. DOMAIN params' = Fields /\ params'.config = left.config
        BY <1>0, <2>3 DEF Fields
      <3> QED  BY <2>1, <3>1
    <2> QED  BY <1>0, <2>2, <2>3
  <1>5. CASE BuildsRetry \/ BuildsMain
    <2>1. params' = Command(launch, params).left
      BY <1>5 DEF BuildsRetry, BuildsMain
    <2> QED  BY <1>0, <2>1, CommandStaysGuarded
  <1>6. CASE \/ Refuses \/ WritesFlags \/ CannotBuild \/ Assembles
             \/ UNCHANGED vars
    BY <1>0, <1>6 DEF Refuses, WritesFlags, CannotBuild, Assembles, vars
  <1> QED  BY <1>3, <1>4, <1>5, <1>6 DEF Next

----------------------------------------------------------------------------
(***************************************************************************)
(* The plan as a whole: what the first command leaves in the parameters is *)
(* nothing the main command would tell from the merged ones.               *)
(***************************************************************************)
Settled(p) ==
  /\ DOMAIN p = Fields
  /\ p.speculative \in BOOLEAN /\ p.sparse \in BOOLEAN /\ p.suppressed \in BOOLEAN
  /\ Positive(p.config)
AsMerged(l, p) ==
  /\ Command(l, p).command = Command(l, Merged(l)).command
  /\ Command(l, p).refused = Command(l, Merged(l)).refused
Fallback(l) == WithoutFeatures(l, Merged(l))

LEMMA MergedFields ==
  ASSUME NEW l
  PROVE  /\ DOMAIN Merged(l) = Fields
         /\ Merged(l).config = EngineConfig(l)
         /\ Merged(l).speculative = Switch(l, "speculative")
         /\ Merged(l).sparse = Switch(l, "sparse")
         /\ Merged(l).suppressed = FALSE
  BY DEF Merged, Fields

LEMMA FallbackFields ==
  ASSUME NEW l
  PROVE  /\ DOMAIN Fallback(l) = Fields
         /\ Fallback(l).config = If(LmCache(l), Without(EngineConfig(l), {"kv_transfer_config"}),
                                    EngineConfig(l))
         /\ Fallback(l).speculative = FALSE
         /\ Fallback(l).sparse = FALSE
         /\ Fallback(l).suppressed = LmCache(l)
  BY MergedFields DEF Fallback, WithoutFeatures, Fields

LEMMA MergedIsSettled ==
  ASSUME NEW l \in Launches, ~Refused(l)
  PROVE  Settled(Merged(l)) /\ Settled(Fallback(l))
  <1>1. Positive(EngineConfig(l))
    BY MergeIsPositive
  <1>2. Settled(Merged(l))
    BY <1>1, MergedFields DEF Settled, Switch
  <1>3. Positive(Without(EngineConfig(l), {"kv_transfer_config"}))
    BY <1>1 DEF Positive, Without
  <1>4. Positive(Fallback(l).config)
    BY <1>1, <1>3, FallbackFields DEF If
  <1>5. Settled(Fallback(l))
    <2>1. LmCache(l) \in BOOLEAN /\ FALSE \in BOOLEAN
      BY DEF LmCache
    <2> HIDE DEF Fallback
    <2> QED  BY <1>4, <2>1, FallbackFields DEF Settled
  <1> QED  BY <1>2, <1>5

LEMMA CommandSettles ==
  ASSUME NEW l \in Launches, ~Refused(l), NEW p, Settled(p)
  PROVE  Settled(Command(l, p).left)
  <1>1. CASE Engine(l) \notin VllmEngines
    BY <1>1 DEF Command
  <1>2. CASE Engine(l) \in VllmEngines
    <2>1. Positive(LeftConfig(l, p))
      BY ReadyIsPositive DEF Settled
    <2>2. OwnSpeculates(l, p) \in BOOLEAN
      BY DEF OwnSpeculates
    <2> QED  BY <1>2, <2>1, <2>2, LeftFields DEF Settled
  <1> QED  BY <1>1, <1>2

LEMMA SharedConfig ==
  ASSUME NEW l, SharesConfig(l, Merged(l))
  PROVE  Fallback(l).config = Merged(l).config
  <1> DEFINE c == EngineConfig(l)
             d == Without(c, {"kv_transfer_config"})
  <1>1. CASE ~LmCache(l)
    BY <1>1, FallbackFields, MergedFields DEF If
  <1>2. CASE "kv_transfer_config" \notin DOMAIN c
    <2>1. \A k : Same(d, c, k)
      BY <1>2 DEF Same, Without
    <2>2. Fn(c) /\ Fn(d)
      BY MergeIsFunction, AreFunctions
    <2> HIDE DEF c, d
    <2>3. d = c
      BY <2>1, <2>2, SameEverywhere
    <2> QED  BY <2>3, FallbackFields, MergedFields DEF If, c, d
  <1> QED  BY <1>1, <1>2, MergedFields DEF SharesConfig

(* The main command after the fallback that shares its engine_config *)
LEMMA AfterFallback ==
  ASSUME NEW l \in Launches, ~Refused(l), SharesConfig(l, Merged(l)), NEW q,
         q = [Merged(l) EXCEPT !.config = Command(l, Fallback(l)).left.config]
  PROVE  Settled(q) /\ AsMerged(l, q)
  <1>1. /\ DOMAIN q = Fields
        /\ q.config = Command(l, Fallback(l)).left.config
        /\ q.speculative = Merged(l).speculative
        /\ q.sparse = Merged(l).sparse
        /\ q.suppressed = Merged(l).suppressed
    BY MergedFields DEF Fields
  <1>2. Settled(q)
    BY <1>1, MergedIsSettled, CommandSettles DEF Settled
  <1>3. AsMerged(l, q)
    <2>1. CASE Engine(l) \notin VllmEngines
      <3>1. q.config = Merged(l).config
        BY <1>1, <2>1, SharedConfig DEF Command
      <3> QED  BY <2>1, <3>1 DEF AsMerged, Command
    <2>2. CASE Engine(l) \in VllmEngines
      <3>1. q.config = LeftConfig(l, Fallback(l))
        BY <1>1, <2>2, FallbackFields, LeftFields
      <3>2. OwnSpeculates(l, q) = OwnSpeculates(l, Merged(l))
        BY <1>1 DEF OwnSpeculates
      <3> DEFINE p == Merged(l)  g == Fallback(l)
      <3>3. /\ DOMAIN p = Fields /\ DOMAIN q = Fields
            /\ g.config = p.config /\ g.speculative = FALSE /\ g.sparse = FALSE
            /\ q.config = LeftConfig(l, g)
            /\ q.sparse = p.sparse /\ q.suppressed = p.suppressed
            /\ OwnSpeculates(l, q) = OwnSpeculates(l, p)
        BY <1>1, <3>1, <3>2, SharedConfig, FallbackFields, MergedFields
      <3> HIDE DEF p, g
      <3>4. Rebuilds(l, p, q, g)
        BY <3>3 DEF Rebuilds
      <3>5. /\ Command(l, q).command = Command(l, p).command
            /\ Command(l, q).refused = Command(l, p).refused
        BY <2>2, <3>4, CommandAgain
      <3> QED  BY <3>5 DEF AsMerged, p
    <2> QED  BY <2>1, <2>2
  <1> QED  BY <1>2, <1>3

(* And after the retry *)
LEMMA AfterRetry ==
  ASSUME NEW l \in Launches, ~Refused(l), AdvancedFeatures(l, Merged(l)) = {}, NEW q,
         q = Command(l, Merged(l)).left
  PROVE  Settled(q) /\ AsMerged(l, q)
  <1>1. Settled(q)
    BY MergedIsSettled, CommandSettles
  <1>2. ~Merged(l).speculative /\ ~Merged(l).sparse
    BY DEF AdvancedFeatures, If
  <1>3. Merged(l).speculative = FALSE /\ Merged(l).sparse = FALSE
    BY <1>2, MergedIsSettled DEF Settled
  <1>4. AsMerged(l, q)
    <2>1. CASE Engine(l) \notin VllmEngines
      BY <2>1 DEF AsMerged, Command
    <2>2. CASE Engine(l) \in VllmEngines
      <3>1. /\ DOMAIN q = Fields
            /\ q.config = LeftConfig(l, Merged(l))
            /\ q.speculative = OwnSpeculates(l, Merged(l))
            /\ q.sparse = Merged(l).sparse
            /\ q.suppressed = Merged(l).suppressed
        <4>1. DOMAIN Merged(l) = Fields
          BY MergedFields
        <4> QED  BY <2>2, <4>1, LeftFields
      <3>2. OwnSpeculates(l, q) = OwnSpeculates(l, Merged(l))
        BY <3>1 DEF OwnSpeculates
      <3> DEFINE p == Merged(l)
      <3>3. /\ DOMAIN p = Fields /\ DOMAIN q = Fields
            /\ p.speculative = FALSE /\ p.sparse = FALSE
            /\ q.config = LeftConfig(l, p)
            /\ q.sparse = p.sparse /\ q.suppressed = p.suppressed
            /\ OwnSpeculates(l, q) = OwnSpeculates(l, p)
        BY <1>3, <3>1, <3>2, MergedFields
      <3> HIDE DEF p
      <3>4. Rebuilds(l, p, q, p)
        BY <3>3 DEF Rebuilds
      <3>5. /\ Command(l, q).command = Command(l, p).command
            /\ Command(l, q).refused = Command(l, p).refused
        BY <2>2, <3>4, CommandAgain
      <3> QED  BY <3>5 DEF AsMerged, p
    <2> QED  BY <2>1, <2>2
  <1> QED  BY <1>1, <1>4

----------------------------------------------------------------------------
(***************************************************************************)
(* The invariant of the plan.                                              *)
(***************************************************************************)
RanksFit(l, c) ==
  DpDeployment(l) /\ ManyNodes(l) =>
    DpTp(l, c) # 0 /\ Cards(l) % AtLeastOne(DpTp(l, c)) = 0

TypeInv ==
  /\ launch \in Launches
  /\ pc \in {"merging", "merged", "first", "main", "built", "done", "failed"}
  /\ Settled(params)
  /\ flags \subseteq {"speculative_decode", "sparse_kv", "kv_offload"}
  /\ DOMAIN commands \subseteq {"fallback", "retry", "main"}
  /\ patches \subseteq {"ears", "indexcache", "lmcache"}

(* How far the plan is, and what that says of the rest of the state *)
StageInv ==
  /\ pc \in {"merging", "merged", "first"} => commands = Empty
  /\ pc \notin {"merging", "failed"} \/ DOMAIN commands # {} => ~Refused(launch)
  /\ pc \in {"merged", "first"} => params = Merged(launch)
  /\ pc \in {"first", "main", "built", "done"} =>
       flags = AdvancedFeatures(launch, Merged(launch))
  /\ pc = "main" => AsMerged(launch, params)
  /\ Built("main") <=> pc \in {"built", "done"}
  /\ pc \in {"built", "done"} =>
       ~Command(launch, Merged(launch)).refused /\ RanksFit(launch, params.config)
  /\ pc = "done" => ("lmcache" \in patches <=> InstallsLmCache(launch))

(* Every command is a function of the launch alone *)
CommandsInv ==
  /\ \A use \in {"retry", "main"} :
       Built(use) => commands[use] = Command(launch, Merged(launch)).command
  /\ Built("fallback") => commands["fallback"] = Command(launch, Fallback(launch)).command

PlanInv == TypeInv /\ StageInv /\ CommandsInv

LEMMA NotRefusedFits ==
  ASSUME NEW l, NEW p, DOMAIN p = Fields, ~Command(l, p).refused
  PROVE  RanksFit(l, Command(l, p).left.config)
  <1>1. CASE Engine(l) \notin VllmEngines
    BY <1>1 DEF RanksFit, DpDeployment, Ascend, VllmEngines
  <1>2. CASE Engine(l) \in VllmEngines
    <2> DEFINE c == Ready(l, p)  d == LeftConfig(l, p)
    <2>1. ~(ManyNodes(l) /\ RanksRefused(l, c))
      BY <1>2, CommandRefused
    <2>2. Same(d, c, "tensor_parallel_size")
      BY ReadyAtSizes DEF ParallelKeys
    <2>3. Command(l, p).left.config = d
      BY <1>2, LeftFields
    <2> HIDE DEF c, d
    <2>4. DpTp(l, d) = DpTp(l, c)
      BY <2>2 DEF DpTp, Same
    <2> QED  BY <2>1, <2>3, <2>4 DEF RanksFit, RanksRefused, ManyNodes
  <1> QED  BY <1>1, <1>2

LEMMA FeatureFlags ==
  ASSUME NEW l, NEW p
  PROVE  /\ AdvancedFeatures(l, p) \subseteq {"speculative_decode", "sparse_kv", "kv_offload"}
         /\ "speculative_decode" \in AdvancedFeatures(l, p) <=> p.speculative
         /\ "sparse_kv" \in AdvancedFeatures(l, p) <=> p.sparse
         /\ PatchFeatures(l, p) \subseteq {"ears", "indexcache"}
  BY DEF AdvancedFeatures, PatchFeatures, If

LEMMA WithOne ==
  ASSUME NEW use, NEW v
  PROVE  DOMAIN With(Empty, use, v) = {use} /\ With(Empty, use, v)[use] = v
  BY DEF With, Empty

LEMMA InitPlan == Init => PlanInv
  <1> SUFFICES ASSUME Init PROVE PlanInv
    OBVIOUS
  <1>1. /\ launch \in Launches /\ pc = "merging" /\ params = NoParams
        /\ flags = {} /\ commands = Empty /\ patches = {}
    BY DEF Init
  <1>2. DOMAIN commands = {}
    BY <1>1 DEF Empty
  <1>3. Settled(params)
    BY <1>1 DEF NoParams, Settled, Fields, Positive, Empty
  <1>4. TypeInv
    BY <1>1, <1>2, <1>3 DEF TypeInv
  <1>5. StageInv
    BY <1>1, <1>2 DEF StageInv, Built
  <1>6. CommandsInv
    BY <1>2 DEF CommandsInv, Built
  <1> QED  BY <1>4, <1>5, <1>6 DEF PlanInv

LEMMA NextPlan == PlanInv /\ [Next]_vars => PlanInv'
  <1> SUFFICES ASSUME PlanInv, [Next]_vars PROVE PlanInv'
    OBVIOUS
  <1>0. TypeInv /\ StageInv /\ CommandsInv
    BY DEF PlanInv
  <1>1. CASE Refuses
    <2>1. /\ pc = "merging" /\ pc' = "failed"
          /\ UNCHANGED <<launch, params, flags, commands, patches>>
      BY <1>1 DEF Refuses
    <2>2. commands = Empty /\ DOMAIN commands = {}
      BY <1>0, <2>1 DEF StageInv, Empty
    <2>3. TypeInv'
      BY <1>0, <2>1 DEF TypeInv
    <2>4. StageInv'
      BY <2>1, <2>2 DEF StageInv, Built
    <2>5. CommandsInv'
      BY <2>1, <2>2 DEF CommandsInv, Built
    <2> QED  BY <2>3, <2>4, <2>5 DEF PlanInv
  <1>2. CASE Merges
    <2>1. /\ pc = "merging" /\ pc' = "merged" /\ ~Refused(launch)
          /\ params' = Merged(launch)
          /\ UNCHANGED <<launch, flags, commands, patches>>
      BY <1>2 DEF Merges
    <2>2. commands = Empty /\ DOMAIN commands = {}
      BY <1>0, <2>1 DEF StageInv, Empty
    <2>3. Settled(params')
      BY <1>0, <2>1, MergedIsSettled DEF TypeInv
    <2>4. TypeInv'
      BY <1>0, <2>1, <2>3 DEF TypeInv
    <2>5. StageInv'
      BY <2>1, <2>2 DEF StageInv, Built
    <2>6. CommandsInv'
      BY <2>1, <2>2 DEF CommandsInv, Built
    <2> QED  BY <2>4, <2>5, <2>6 DEF PlanInv
  <1>3. CASE WritesFlags
    <2>1. /\ pc = "merged" /\ pc' = "first"
          /\ flags' = AdvancedFeatures(launch, params)
          /\ UNCHANGED <<launch, params, commands, patches>>
      BY <1>3 DEF WritesFlags
    <2>2. /\ commands = Empty /\ DOMAIN commands = {}
          /\ params = Merged(launch) /\ ~Refused(launch)
      BY <1>0, <2>1 DEF StageInv, Empty
    <2>3. TypeInv'
      BY <1>0, <2>1, FeatureFlags DEF TypeInv
    <2>4. StageInv'
      BY <2>1, <2>2 DEF StageInv, Built
    <2>5. CommandsInv'
      BY <2>1, <2>2 DEF CommandsInv, Built
    <2> QED  BY <2>3, <2>4, <2>5 DEF PlanInv
  <1>4. CASE BuildsFallback
    <2> DEFINE f == Command(launch, Fallback(launch))
               m == Merged(launch)
    <2>1. /\ commands = Empty /\ params = m /\ ~Refused(launch) /\ launch \in Launches
          /\ flags = AdvancedFeatures(launch, m)
      BY <1>0, <1>4 DEF BuildsFallback, StageInv, TypeInv
    <2>2. /\ pc = "first" /\ pc' = "main"
          /\ commands' = With(commands, "fallback", f.command)
          /\ params' = IF SharesConfig(launch, m)
                       THEN [m EXCEPT !.config = f.left.config] ELSE m
          /\ UNCHANGED <<launch, flags, patches>>
      BY <1>4, <2>1 DEF BuildsFallback, Fallback
    <2>3. Settled(params') /\ AsMerged(launch, params')
      <3>1. CASE SharesConfig(launch, m)
        <4>1. params' = [m EXCEPT !.config = f.left.config]
          BY <2>2, <3>1
        <4> QED  BY <2>1, <3>1, <4>1, AfterFallback
      <3>2. CASE ~SharesConfig(launch, m)
        <4>1. params' = m
          BY <2>2, <3>2
        <4> QED  BY <2>1, <4>1, MergedIsSettled DEF AsMerged
      <3> QED  BY <3>1, <3>2
    <2> HIDE DEF f, m
    <2>4. DOMAIN commands' = {"fallback"} /\ commands'["fallback"] = f.command
      BY <2>1, <2>2, WithOne
    <2>5. TypeInv'
      BY <1>0, <2>2, <2>3, <2>4 DEF TypeInv
    <2>6. StageInv'
      BY <2>1, <2>2, <2>3, <2>4 DEF StageInv, Built, m
    <2>7. CommandsInv'
      BY <2>2, <2>4 DEF CommandsInv, Built, f
    <2> QED  BY <2>5, <2>6, <2>7 DEF PlanInv
  <1>5. CASE BuildsRetry
    <2> DEFINE m == Merged(launch)
               r == Command(launch, m)
    <2>1. /\ commands = Empty /\ params = m /\ ~Refused(launch) /\ launch \in Launches
          /\ flags = AdvancedFeatures(launch, m)
      BY <1>0, <1>5 DEF BuildsRetry, StageInv, TypeInv
    <2>2. /\ pc = "first" /\ pc' = "main" /\ flags = {}
          /\ commands' = With(commands, "retry", r.command)
          /\ params' = r.left
          /\ UNCHANGED <<launch, flags, patches>>
      BY <1>5, <2>1 DEF BuildsRetry
    <2>3. Settled(params') /\ AsMerged(launch, params')
      BY <2>1, <2>2, AfterRetry
    <2> HIDE DEF r, m
    <2>4. DOMAIN commands' = {"retry"} /\ commands'["retry"] = r.command
      BY <2>1, <2>2, WithOne
    <2>5. TypeInv'
      BY <1>0, <2>2, <2>3, <2>4 DEF TypeInv
    <2>6. StageInv'
      BY <2>1, <2>2, <2>3, <2>4 DEF StageInv, Built, m
    <2>7. CommandsInv'
      BY <2>2, <2>4 DEF CommandsInv, Built, r, m
    <2> QED  BY <2>5, <2>6, <2>7 DEF PlanInv
  <1>6. CASE BuildsMain
    <2> DEFINE c == Command(launch, params)
               m == Command(launch, Merged(launch))
    <2>1. /\ ~Refused(launch) /\ launch \in Launches /\ Settled(params)
          /\ c.command = m.command /\ c.refused = m.refused
          /\ flags = AdvancedFeatures(launch, Merged(launch))
          /\ "main" \notin DOMAIN commands
      BY <1>0, <1>6 DEF BuildsMain, StageInv, TypeInv, AsMerged, Built
    <2>2. /\ pc = "main" /\ pc' = "built" /\ ~c.refused
          /\ commands' = With(commands, "main", c.command)
          /\ params' = c.left
          /\ UNCHANGED <<launch, flags, patches>>
      BY <1>6 DEF BuildsMain
    <2>3. Settled(params')
      BY <2>1, <2>2, CommandSettles
    <2>4. RanksFit(launch, params'.config)
      BY <2>1, <2>2, NotRefusedFits DEF Settled
    <2> HIDE DEF c, m
    <2>5. /\ DOMAIN commands' = DOMAIN commands \union {"main"}
          /\ commands'["main"] = m.command
          /\ \A use \in DOMAIN commands : use # "main" => commands'[use] = commands[use]
      BY <2>1, <2>2 DEF With
    <2>6. TypeInv'
      BY <1>0, <2>2, <2>3, <2>5 DEF TypeInv
    <2>7. StageInv'
      BY <2>1, <2>2, <2>4, <2>5 DEF StageInv, Built, m
    <2>8. CommandsInv'
      BY <1>0, <2>2, <2>5 DEF CommandsInv, Built, m
    <2> QED  BY <2>6, <2>7, <2>8 DEF PlanInv
  <1>7. CASE CannotBuild
    <2>1. /\ pc \in {"first", "main"} /\ pc' = "failed"
          /\ UNCHANGED <<launch, params, flags, commands, patches>>
      BY <1>7 DEF CannotBuild
    <2>2. TypeInv'
      BY <1>0, <2>1 DEF TypeInv
    <2>3. "main" \notin DOMAIN commands
      BY <1>0, <2>1 DEF StageInv, Built
    <2>4. StageInv'
      BY <1>0, <2>1, <2>3 DEF StageInv, Built
    <2>5. CommandsInv'
      BY <1>0, <2>1 DEF CommandsInv, Built
    <2> QED  BY <2>2, <2>4, <2>5 DEF PlanInv
  <1>8. CASE Assembles
    <2>1. /\ pc = "built" /\ pc' = "done"
          /\ patches' = PatchFeatures(launch, params) \union
                        If(InstallsLmCache(launch), {"lmcache"}, {})
          /\ UNCHANGED <<launch, params, flags, commands>>
      BY <1>8 DEF Assembles
    <2>2. /\ patches' \subseteq {"ears", "indexcache", "lmcache"}
          /\ "lmcache" \in patches' <=> InstallsLmCache(launch)
      BY <2>1, FeatureFlags DEF If
    <2>3. TypeInv'
      BY <1>0, <2>1, <2>2 DEF TypeInv
    <2>4. StageInv'
      BY <1>0, <2>1, <2>2 DEF StageInv, Built
    <2>5. CommandsInv'
      BY <1>0, <2>1 DEF CommandsInv, Built
    <2> QED  BY <2>3, <2>4, <2>5 DEF PlanInv
  <1>9. CASE UNCHANGED vars
    <2>1. TypeInv' /\ StageInv' /\ CommandsInv'
      BY <1>0, <1>9 DEF TypeInv, StageInv, CommandsInv, Built, vars
    <2> QED  BY <2>1 DEF PlanInv
  <1> QED  BY <1>1, <1>2, <1>3, <1>4, <1>5, <1>6, <1>7, <1>8, <1>9 DEF Next

LEMMA PlanIsInvariant == Spec => []PlanInv
  BY InitPlan, NextPlan, PTL DEF Spec

(* The command that is built first, from parameters it shares with the     *)
(* main one, changes nothing in the main one: whatever was written to the  *)
(* engine_config in between, the main command is the one that the merged   *)
(* parameters ask for, and so is the retry (core/wings_entry.py:1335-1375);*)
(* and the parallel sizes of every command are positive integers.          *)
THEOREM CommandsAlwaysIndependent == Spec => []CommandsIndependent
  <1>1. PlanInv => CommandsIndependent
    <2> SUFFICES ASSUME PlanInv PROVE TypeOK /\ MainIsAsMerged
      BY DEF CommandsIndependent
    <2>0. TypeInv /\ StageInv /\ CommandsInv
      BY DEF PlanInv
    <2>1. MainIsAsMerged
      BY <2>0 DEF CommandsInv, MainIsAsMerged
    <2>2. ASSUME NEW use \in DOMAIN commands
          PROVE  Positive(commands[use].config)
      <3>1. use \in {"fallback", "retry", "main"} /\ launch \in Launches /\ ~Refused(launch)
        BY <2>0, <2>2 DEF TypeInv, StageInv
      <3>2. Settled(Merged(launch)) /\ Settled(Fallback(launch))
        BY <3>1, MergedIsSettled
      <3>3. /\ Positive(Command(launch, Merged(launch)).command.config)
            /\ Positive(Command(launch, Fallback(launch)).command.config)
        BY <3>1, <3>2, CommandIsPositive DEF Settled
      <3> QED  BY <2>0, <2>2, <3>1, <3>3 DEF CommandsInv, Built
    <2>3. \A use \in DOMAIN commands, size \in Sizes :
            size \in DOMAIN commands[use].config => commands[use].config[size] \in Nat \ {0}
      BY <2>2 DEF Positive
    <2>4. {params.speculative, params.sparse, params.suppressed} \subseteq BOOLEAN
      BY <2>0 DEF TypeInv, Settled
    <2>5. TypeOK
      BY <2>0, <2>3, <2>4 DEF TypeInv, TypeOK
    <2> QED  BY <2>1, <2>5
  <1> QED  BY <1>1, PlanIsInvariant, PTL

----------------------------------------------------------------------------
(***************************************************************************)
(* The engine_config of a command, key by key: what it has of the          *)
(* parameters it was built from.                                           *)
(***************************************************************************)
LEMMA ReadyAt ==
  ASSUME NEW l, NEW p, NEW k
  PROVE  /\ Stays(l, k) /\ k # "speculative_config" =>
              Same(Ready(l, p), OwnConfig(l, Typed(l, p), p.config), k)
         /\ k = "speculative_config" =>
              /\ k \in DOMAIN OwnConfig(l, Typed(l, p), p.config) => k \in DOMAIN Ready(l, p)
              /\ ~(OwnSpeculates(l, p) /\ Glm5Dp(l) /\ l.roce) =>
                   Same(Ready(l, p), OwnConfig(l, Typed(l, p), p.config), k)
         /\ k = "kv_transfer_config" =>
              Same(Ready(l, p),
                   CpuOffload(l, StripInternal(l, OwnConfig(l, Typed(l, p), p.config))), k)
  <1> DEFINE own == OwnConfig(l, Typed(l, p), p.config)
             chain == Chain(l, own)
             says == OwnSpeculates(l, p)
             ready == Finished(l, says, chain)
             stripped == CpuOffload(l, StripInternal(l, own))
  <1>0. Ready(l, p) = ready
    BY DEF Ready
  <1> HIDE DEF own
  <1>1. Stays(l, k) => Same(chain, own, k)
    BY ChainStays
  <1>2. k = "kv_transfer_config" => Same(chain, stripped, k)
    BY ChainAtConnector
  <1>3. k = "speculative_config" => Stays(l, k)
    BY DEF Stays
  <1> HIDE DEF chain, says, stripped
  <1>4. /\ \/ Stays(l, k) /\ k # "speculative_config"
           \/ k \in ParallelKeys \union {"kv_transfer_config"}
           => Same(ready, chain, k)
        /\ k = "speculative_config" =>
             /\ k \in DOMAIN chain => k \in DOMAIN ready
             /\ ~(says /\ Glm5Dp(l) /\ l.roce) => Same(ready, chain, k)
    BY FinishedAt
  <1> HIDE DEF ready
  <1>5. Stays(l, k) /\ k # "speculative_config" => Same(ready, own, k)
    BY <1>1, <1>4, SameTransitive
  <1>6. k = "speculative_config" =>
          /\ k \in DOMAIN own => k \in DOMAIN ready
          /\ ~(says /\ Glm5Dp(l) /\ l.roce) => Same(ready, own, k)
    BY <1>1, <1>3, <1>4, SameTransitive DEF Same
  <1>7. k = "kv_transfer_config" => Same(ready, stripped, k)
    BY <1>2, <1>4, SameTransitive
  <1> QED  BY <1>0, <1>5, <1>6, <1>7 DEF own, says, stripped

LEMMA CommandAt ==
  ASSUME NEW l, NEW p, DOMAIN p = Fields, Engine(l) \in VllmEngines, NEW k
  PROVE  /\ \/ ~Pipelined(l)
            \/ k \notin {"pipeline_parallel_size", "tensor_parallel_size"}
            => Same(Command(l, p).command.config, Ready(l, p), k)
         /\ Pipelined(l) =>
              /\ k = "pipeline_parallel_size" =>
                   /\ k \in DOMAIN Command(l, p).command.config
                   /\ Command(l, p).command.config[k] = l.nnodes
              /\ k = "tensor_parallel_size" =>
                   /\ k \in DOMAIN Command(l, p).command.config
                   /\ Command(l, p).command.config[k] = Cards(l)
  <1> DEFINE c == Ready(l, p)
             d == Command(l, p).command.config
             x == [pipeline_parallel_size |-> l.nnodes, tensor_parallel_size |-> Cards(l)]
  <1>1. d = If(ManyNodes(l) /\ Backend(l) = "ray", RayParallel(l, c), c)
    BY CommandFields
  <1> HIDE DEF c, d
  <1>2. d = IF Pipelined(l) THEN Over(c, x) ELSE c
    BY <1>1 DEF If, RayParallel, Pipelined
  <1>3. /\ DOMAIN x = {"pipeline_parallel_size", "tensor_parallel_size"}
        /\ x["pipeline_parallel_size"] = l.nnodes
        /\ x["tensor_parallel_size"] = Cards(l)
    OBVIOUS
  <1> HIDE DEF x
  <1>4. CASE ~Pipelined(l)
    BY <1>2, <1>4, SameReflexive DEF c, d
  <1>5. CASE Pipelined(l)
    <2>1. k \notin DOMAIN x => Same(d, c, k)
      BY <1>2, <1>5, OverKeeps
    <2>2. k \in DOMAIN x => Same(d, x, k)
      BY <1>2, <1>5, OverSets
    <2> QED  BY <1>3, <1>5, <2>1, <2>2 DEF Same, c, d
  <1> QED  BY <1>4, <1>5

----------------------------------------------------------------------------
(***************************************************************************)
(* The guards, in the parameters and in the commands.                      *)
(***************************************************************************)
AdapterKeys == BuiltKeys \union
  {"pipeline_parallel_size", "kv_transfer_config", "async_scheduling",
   "no_enable_prefix_caching"}
HasOwnPrefixCache(l) == Flash(l) \/ Glm5Dp(l)

LEMMA SettersAdd ==
  ASSUME NEW l, NEW c, NEW values
  PROVE  /\ DOMAIN ForceSet(l, c, values) \subseteq DOMAIN c \union DOMAIN values
         /\ DOMAIN SetIfEmpty(l, c, values) \subseteq DOMAIN c \union DOMAIN values
  BY DEF ForceSet, SetIfEmpty, Recommended, Over, Without

LEMMA Glm5DefaultsAdds ==
  ASSUME NEW l, NEW c
  PROVE  DOMAIN Glm5Defaults(l, c) \subseteq DOMAIN c \union AdapterKeys
  <1> DEFINE soft   == [async_scheduling |-> "on", enable_expert_parallel |-> "on"]
             halves == If(SingleGlm52(l), TwoHalves(l), Empty)
             values == Over(soft, halves)
  <1>1. DOMAIN values \subseteq AdapterKeys
    <2>1. DOMAIN soft = {"async_scheduling", "enable_expert_parallel"}
      OBVIOUS
    <2>2. DOMAIN halves \subseteq ParallelKeys
      BY DEF If, TwoHalves, Empty, ParallelKeys
    <2> HIDE DEF soft, halves
    <2>3. DOMAIN values = DOMAIN soft \union DOMAIN halves
      BY OverDomain
    <2> QED  BY <2>1, <2>2, <2>3 DEF AdapterKeys, BuiltKeys, ParallelKeys
  <1>2. \/ Glm5Defaults(l, c) = c
        \/ Glm5Defaults(l, c) = SetIfEmpty(l, c, values)
        \/ Glm5Defaults(l, c) = With(c, "enable_expert_parallel", "off")
    BY DEF Glm5Defaults, If
  <1> HIDE DEF values
  <1>3. DOMAIN SetIfEmpty(l, c, values) \subseteq DOMAIN c \union AdapterKeys
    BY <1>1, SettersAdd
  <1>4. DOMAIN With(c, "enable_expert_parallel", "off") \subseteq DOMAIN c \union AdapterKeys
    BY DEF With, AdapterKeys, BuiltKeys
  <1> QED  BY <1>2, <1>3, <1>4

LEMMA DpDefaultsAdds ==
  ASSUME NEW l, NEW c
  PROVE  DOMAIN DpDefaults(l, c) \subseteq DOMAIN c \union AdapterKeys
  <1> DEFINE one == [tensor_parallel_size |-> DefaultDpTp(l)]
             tp == IF SingleGlm52(l) THEN ForceSet(l, c, TwoHalves(l))
                   ELSE If(DefaultDpTp(l) = 0, c, ForceSet(l, c, one))
             prefix == IF PrefixGiven(l) THEN tp
                       ELSE With(Without(tp, {"enable_prefix_caching"}),
                                 "no_enable_prefix_caching", "on")
             on == [enable_expert_parallel |-> "on"]
             ep == ForceSet(l, prefix, on)
  <1>1. DOMAIN tp \subseteq DOMAIN c \union AdapterKeys
    <2>1. DOMAIN one \subseteq AdapterKeys /\ DOMAIN TwoHalves(l) \subseteq AdapterKeys
      BY DEF TwoHalves, AdapterKeys, BuiltKeys
    <2> HIDE DEF one
    <2>2. /\ DOMAIN ForceSet(l, c, one) \subseteq DOMAIN c \union AdapterKeys
          /\ DOMAIN ForceSet(l, c, TwoHalves(l)) \subseteq DOMAIN c \union AdapterKeys
      BY <2>1, SettersAdd
    <2> QED  BY <2>2 DEF If
  <1> HIDE DEF tp
  <1>2. DOMAIN prefix \subseteq DOMAIN tp \union AdapterKeys
    BY DEF With, Without, AdapterKeys
  <1>3. DOMAIN on \subseteq AdapterKeys
    BY DEF AdapterKeys, BuiltKeys
  <1> HIDE DEF prefix, on
  <1>4. DOMAIN ep \subseteq DOMAIN c \union AdapterKeys
    BY <1>1, <1>2, <1>3, SettersAdd
  <1>5. DOMAIN Without(ep, {"enable_expert_parallel"}) \subseteq DOMAIN ep
    BY DEF Without
  <1>6. \/ DpDefaults(l, c) = c
        \/ DpDefaults(l, c) = ep
        \/ DpDefaults(l, c) = Without(ep, {"enable_expert_parallel"})
    BY DEF DpDefaults, If, ep, prefix, tp, on, one
  <1> HIDE DEF ep
  <1> QED  BY <1>4, <1>5, <1>6

(* Where the adapter has no prefix cache of its own it adds no key that    *)
(* the pooling guard is about                                              *)
LEMMA ChainAdds ==
  ASSUME NEW l, NEW c, ~HasOwnPrefixCache(l)
  PROVE  DOMAIN Chain(l, c) \subseteq DOMAIN c \union AdapterKeys
  <1> DEFINE c1 == StripInternal(l, c)
             c2 == FlashDefaults(l, c1)
             c3 == CpuOffload(l, c2)
             c4 == Glm5Defaults(l, c3)
             c5 == DpDefaults(l, c4)
  <1>1. DOMAIN c1 \subseteq DOMAIN c
    BY DEF StripInternal, Without
  <1> HIDE DEF c1
  <1>2. c2 = c1
    BY FlashDefaultsAt DEF HasOwnPrefixCache
  <1> HIDE DEF c2
  <1>3. DOMAIN c3 \subseteq DOMAIN c2 \union AdapterKeys
    BY DEF CpuOffload, If, With, AdapterKeys
  <1> HIDE DEF c3
  <1>4. DOMAIN c4 \subseteq DOMAIN c3 \union AdapterKeys
    BY Glm5DefaultsAdds
  <1> HIDE DEF c4
  <1>5. DOMAIN c5 \subseteq DOMAIN c4 \union AdapterKeys
    BY DpDefaultsAdds
  <1> HIDE DEF c5
  <1>6. Glm5Fixups(l, c5) = c5
    BY DEF Glm5Fixups, HasOwnPrefixCache
  <1>7. Chain(l, c) = Glm5Fixups(l, c5)
    BY DEF Chain, c1, c2, c3, c4, c5
  <1> QED  BY <1>1, <1>2, <1>3, <1>4, <1>5, <1>6, <1>7

LEMMA CommandAdds ==
  ASSUME NEW l, NEW p, DOMAIN p = Fields, Engine(l) \in VllmEngines, ~HasOwnPrefixCache(l)
  PROVE  DOMAIN Command(l, p).command.config \subseteq DOMAIN p.config \union AdapterKeys
  <1> DEFINE own == OwnConfig(l, Typed(l, p), p.config)
             chain == Chain(l, own)
             says == OwnSpeculates(l, p)
             ready == Finished(l, says, chain)
             ray == [pipeline_parallel_size |-> l.nnodes, tensor_parallel_size |-> Cards(l)]
             config == Command(l, p).command.config
  <1>1. DOMAIN own \subseteq DOMAIN p.config \union AdapterKeys
    <2> DEFINE fp8 == Over(p.config, [kv_cache_dtype |-> "fp8"])
               typed == TypedConfig(Typed(l, p), p.config)
    <2>1. DOMAIN fp8 \subseteq DOMAIN p.config \union AdapterKeys
      BY DEF Over, AdapterKeys, BuiltKeys
    <2> HIDE DEF fp8
    <2>2. DOMAIN typed \subseteq DOMAIN p.config \union AdapterKeys
      BY <2>1 DEF TypedConfig, If, fp8
    <2> HIDE DEF typed
    <2>3. DOMAIN ForceSet(l, typed, OwnValues) \subseteq DOMAIN typed \union DOMAIN OwnValues
      BY SettersAdd
    <2>4. DOMAIN OwnValues \subseteq AdapterKeys
      BY DEF OwnValues, AdapterKeys, BuiltKeys
    <2>5. own = ForceSet(l, typed, OwnValues) \/ own = typed
      BY DEF OwnConfig, If, typed
    <2> QED  BY <2>2, <2>3, <2>4, <2>5
  <1> HIDE DEF own
  <1>2. DOMAIN chain \subseteq DOMAIN own \union AdapterKeys
    BY ChainAdds
  <1> HIDE DEF chain, says
  <1>3. DOMAIN ready \subseteq DOMAIN chain \union AdapterKeys
    <2> DEFINE x == If(says, [speculative_config |-> "deepseek_mtp"], Empty)
               d == Without(chain, {"async_scheduling", "enable_expert_parallel"})
    <2>1. DOMAIN x \subseteq AdapterKeys
      BY DEF If, Empty, AdapterKeys, BuiltKeys
    <2>2. DOMAIN d \subseteq DOMAIN chain
      BY DEF Without
    <2> HIDE DEF x, d
    <2>3. DOMAIN Over(d, x) = DOMAIN d \union DOMAIN x
      BY OverDomain
    <2>4. \/ ready = Without(chain, {"task"})
          \/ ready = Without(Over(d, x), {"task"})
      BY DEF Finished, d, x
    <2>5. \A e : DOMAIN Without(e, {"task"}) \subseteq DOMAIN e
      BY DEF Without
    <2> HIDE DEF ready
    <2> QED  BY <2>1, <2>2, <2>3, <2>4, <2>5
  <1>4. Ready(l, p) = ready
    BY DEF Ready, ready, chain, says, own
  <1> HIDE DEF ready
  <1>5. config = ready \/ config = Over(ready, ray)
    <2>1. config = If(ManyNodes(l) /\ Backend(l) = "ray", RayParallel(l, ready), ready)
      BY <1>4, CommandFields
    <2> HIDE DEF config
    <2> QED  BY <2>1 DEF RayParallel, If
  <1>6. DOMAIN ray \subseteq AdapterKeys
    BY DEF AdapterKeys, BuiltKeys
  <1> HIDE DEF config, ray
  <1>7. DOMAIN Over(ready, ray) = DOMAIN ready \union DOMAIN ray
    BY OverDomain
  <1>8. DOMAIN config \subseteq DOMAIN p.config \union AdapterKeys
    BY <1>1, <1>2, <1>3, <1>5, <1>6, <1>7
  <1> QED  BY <1>8 DEF config

(* vLLM's command for GLM-5.1 has no connector, whatever it was built from *)
LEMMA Glm51Disconnected ==
  ASSUME NEW l, NEW p, DOMAIN p = Fields, Engine(l) = "vllm", Glm51(l.model)
  PROVE  "kv_transfer_config" \notin DOMAIN Command(l, p).command.config
  <1> DEFINE kv == "kv_transfer_config"
             own == OwnConfig(l, Typed(l, p), p.config)
             stripped == StripInternal(l, own)
             main == Command(l, p).command.config
  <1>1. kv \notin DOMAIN stripped
    <2> HIDE DEF own
    <2> QED  BY DEF StripInternal, Without, If
  <1>2. CpuOffload(l, stripped) = stripped
    <2> HIDE DEF stripped
    <2> QED  BY DEF CpuOffload, V4Offload, Ascend, If
  <1>3. Same(Ready(l, p), stripped, kv)
    <2>1. Same(Ready(l, p), CpuOffload(l, stripped), kv)
      BY ReadyAt
    <2> HIDE DEF stripped
    <2> QED  BY <1>2, <2>1
  <1>4. Same(main, Ready(l, p), kv)
    <2>1. Engine(l) \in VllmEngines
      BY DEF VllmEngines
    <2> QED  BY <2>1, CommandAt
  <1> HIDE DEF main, stripped
  <1>5. kv \notin DOMAIN main
    BY <1>1, <1>3, <1>4 DEF Same
  <1> QED  BY <1>5 DEF main

LEMMA CommandIsGuarded ==
  ASSUME NEW l, NEW p, DOMAIN p = Fields, Engine(l) \in VllmEngines, Guarded(l, p.config)
  PROVE  /\ Pooling(l.model) /\ ~HasOwnPrefixCache(l) =>
              DOMAIN Command(l, p).command.config \intersect PoolingKeys = {}
         /\ Engine(l) = "vllm" /\ Glm51(l.model) =>
              "kv_transfer_config" \notin DOMAIN Command(l, p).command.config
  <1> DEFINE config == Command(l, p).command.config
  <1>1. ASSUME Pooling(l.model), ~HasOwnPrefixCache(l)
        PROVE  DOMAIN config \intersect PoolingKeys = {}
    <2>1. DOMAIN config \subseteq DOMAIN p.config \union AdapterKeys
      BY <1>1, CommandAdds
    <2> HIDE DEF config
    <2>2. AdapterKeys \intersect PoolingKeys = {}
      BY DEF AdapterKeys, BuiltKeys, PoolingKeys
    <2> QED  BY <1>1, <2>1, <2>2 DEF Guarded
  <1> QED  BY <1>1, Glm51Disconnected

(* Of a launch that was not refused: no layer of the configuration and no  *)
(* setter of the adapter brings back what the last guards of the merge     *)
(* took out for the good of the engine (core/config_loader.py:2762-2774),  *)
(* neither in the parameters nor in any command that was built from them.  *)
(* The exception is in the statement: the prefix cache that the adapter    *)
(* itself gives to a V4 Flash and to the GLM-5 models.                     *)
THEOREM GuardsAlwaysHold == Spec => []GuardsHold
  <1>1. IInv /\ PlanInv => GuardsHold
    <2> SUFFICES ASSUME IInv, PlanInv, pc \notin {"merging", "failed"}, IsVllm
                 PROVE  GuardsHold
      BY DEF GuardsHold
    <2> DEFINE built == {commands[use].config : use \in DOMAIN commands}
    <2>1. Guarded(launch, params.config)
      BY DEF IInv
    <2>2. HasOwnPrefixCache(launch) <=> OwnPrefixCache
      BY DEF HasOwnPrefixCache, OwnPrefixCache, Flash
    <2>3. ASSUME NEW c \in built
          PROVE  /\ Pooling(launch.model) /\ ~OwnPrefixCache => DOMAIN c \intersect PoolingKeys = {}
                 /\ Engine(launch) = "vllm" /\ Glm51(launch.model) =>
                      "kv_transfer_config" \notin DOMAIN c
      <3>1. PICK p \in {Merged(launch), Fallback(launch)} :
              c = Command(launch, p).command.config
        <4>1. PICK use \in DOMAIN commands : c = commands[use].config
          BY <2>3
        <4>2. use \in {"fallback", "retry", "main"} /\ Built(use)
          BY <4>1 DEF PlanInv, TypeInv, Built
        <4>3. \/ commands[use] = Command(launch, Merged(launch)).command
              \/ commands[use] = Command(launch, Fallback(launch)).command
          BY <4>2 DEF PlanInv, CommandsInv
        <4> QED  BY <4>1, <4>3
      <3>2. DOMAIN p = Fields /\ Guarded(launch, p.config)
        <4>1. /\ DOMAIN Merged(launch) = Fields
              /\ Guarded(launch, Merged(launch).config)
          BY MergedFields, MergeIsGuarded
        <4>2. /\ DOMAIN Fallback(launch) = Fields
              /\ DOMAIN Fallback(launch).config \subseteq DOMAIN Merged(launch).config
          BY <4>1, FallbackParameters DEF Fallback
        <4>3. Guarded(launch, Fallback(launch).config)
          BY <4>1, <4>2, BuiltKeysAreHarmless
        <4> QED  BY <4>1, <4>2, <4>3
      <3> QED  BY <2>2, <3>1, <3>2, CommandIsGuarded DEF IsVllm
    <2>4. /\ Pooling(launch.model) =>
               \A c \in {params.config} \union If(OwnPrefixCache, {}, built) :
                 DOMAIN c \intersect PoolingKeys = {}
          /\ launch.device = "nvidia" /\ Engine(launch) = "vllm" /\ Glm51(launch.model) =>
               \A c \in {params.config} \union built : "kv_transfer_config" \notin DOMAIN c
      <3> HIDE DEF built
      <3> QED  BY <2>1, <2>3 DEF Guarded, If
    <2> QED  BY <2>4 DEF GuardsHold, PoolingKeys
  <1>2. Spec => []IInv
    BY InitGuarded, NextGuarded, PTL DEF Spec
  <1> QED  BY <1>1, <1>2, PlanIsInvariant, PTL

----------------------------------------------------------------------------
(***************************************************************************)
(* The fallback: nothing of a feature is in the merge but what a layer     *)
(* wrote or an offload put there, and the building adds nothing that the   *)
(* switches or the model do not ask for.                                   *)
(***************************************************************************)
FeatureKeys == {"speculative_config", "kv_cache_dtype", "kv_transfer_config"}

LEMMA NothingCarried ==
  ASSUME NEW c
  PROVE  Carried(c) = {} <=> /\ "speculative_config" \notin DOMAIN c
                             /\ ~Has(c, "kv_cache_dtype", "fp8")
                             /\ ~Offloads(c)
  <1> DEFINE a == "speculative_config" \in DOMAIN c
             b == Has(c, "kv_cache_dtype", "fp8")
             o == Offloads(c)
  <1>1. Carried(c) = If(a, {"speculative_decode"}, {}) \union If(b, {"sparse_kv"}, {})
                       \union If(o, {"kv_offload"}, {})
    BY DEF Carried
  <1> HIDE DEF a, b, o
  <1>2. Carried(c) = {} <=> ~a /\ ~b /\ ~o
    BY <1>1 DEF If
  <1> QED  BY <1>2 DEF a, b, o

LEMMA StillNothing ==
  ASSUME NEW c, NEW d, Carried(c) = {},
         \A k \in FeatureKeys : Same(d, c, k) \/ k \notin DOMAIN d
  PROVE  Carried(d) = {}
  <1>1. /\ "speculative_config" \notin DOMAIN c
        /\ ~Has(c, "kv_cache_dtype", "fp8")
        /\ ~Offloads(c)
    BY NothingCarried
  <1>2. "speculative_config" \notin DOMAIN d
    BY <1>1 DEF FeatureKeys, Same
  <1>3. ~Has(d, "kv_cache_dtype", "fp8")
    BY <1>1 DEF FeatureKeys, Same, Has
  <1>4. ~Offloads(d)
    BY <1>1 DEF FeatureKeys, Same, Offloads
  <1> QED  BY <1>2, <1>3, <1>4, NothingCarried

LEMMA PlainCommand ==
  ASSUME NEW command, Carried(command.config) = {}, command.method = "none",
         command.index = FALSE, command.offload = FALSE
  PROVE  Carries(command) = {}
  <1>1. Carries(command) = Carried(command.config) \union
                           If(FALSE, {"speculative_decode"}, {}) \union
                           If(FALSE, {"sparse_kv"}, {}) \union If(FALSE, {"kv_offload"}, {})
    <2>1. (command.method # "none") = FALSE
      OBVIOUS
    <2> QED  BY <2>1, Zenon DEF Carries
  <1> QED  BY <1>1 DEF If

(* The merge switches no feature on: where no layer does, only LMCACHE     *)
(* brings a connector that offloads                                        *)
LEMMA NothingMerged ==
  ASSUME NEW l \in Launches, ~Refused(l), ~OwnFeatures(l)
  PROVE  Carried(Fallback(l).config) = {}
  <1> DEFINE c == EngineConfig(l)
             f == Fallback(l).config
             kv == "kv_transfer_config"
  <1>0. Engine(l) \in Engines
    BY LaunchableHardware
  <1>1. \A w \in Layers(l) : /\ "speculative_config" \notin DOMAIN w
                             /\ ~Has(w, "kv_cache_dtype", "fp8")
                             /\ ~Offloads(w)
    BY NothingCarried DEF OwnFeatures
  <1>2. \A k \in FeatureKeys : Traced(l, c, k)
    BY <1>0, MergeTraced DEF FeatureKeys, Watched
  <1>3. f = If(LmCache(l), Without(c, {kv}), c)
    BY FallbackFields
  <1> HIDE DEF c, f
  <1>4. "speculative_config" \notin DOMAIN c
    BY <1>1, <1>2 DEF FeatureKeys, Traced, Written, Computed
  <1>5. ~Has(c, "kv_cache_dtype", "fp8")
    BY <1>1, <1>2 DEF FeatureKeys, Traced, Written, Computed, Has
  <1>6. ASSUME ~LmCache(l) PROVE ~Offloads(c)
    <2> SUFFICES ASSUME kv \in DOMAIN c
                 PROVE  c[kv].kind \intersect {"LMCache", "CPUOffloading"} = {}
      BY DEF Offloads
    <2>1. Written(l, kv, c[kv]) \/ Computed(l, kv, c[kv])
      BY <1>2 DEF FeatureKeys, Traced
    <2>2. CASE Written(l, kv, c[kv])
      BY <1>1, <2>2 DEF Written, Offloads
    <2>3. CASE Computed(l, kv, c[kv])
      <3>1. c[kv] = KvConnector(l)
        BY <2>3 DEF Computed
      <3>2. KvConnector(l).kind = {} \union If(l.pd # "", {PdConnector(l)}, {})
        BY <1>6 DEF KvConnector, If
      <3>3. PdConnector(l) \in {"Mooncake", "Nixl"}
        BY DEF PdConnector, If
      <3> QED  BY <3>1, <3>2, <3>3 DEF If
    <2> QED  BY <2>1, <2>2, <2>3
  <1>7. CASE LmCache(l)
    <2>1. f = Without(c, {kv})
      BY <1>3, <1>7 DEF If
    <2>2. kv \notin DOMAIN f /\ \A k \in FeatureKeys \ {kv} : Same(f, c, k)
      BY <2>1, WithoutKeeps DEF Without
    <2> QED
      <3>1. "speculative_config" \notin DOMAIN f
        BY <1>4, <2>2 DEF FeatureKeys, Same
      <3>2. ~Has(f, "kv_cache_dtype", "fp8")
        BY <1>5, <2>2 DEF FeatureKeys, Same, Has
      <3>3. ~Offloads(f)
        BY <2>2 DEF Offloads
      <3> QED  BY <3>1, <3>2, <3>3, NothingCarried DEF f
  <1>8. CASE ~LmCache(l)
    <2>1. f = c
      BY <1>3, <1>8 DEF If
    <2> QED  BY <1>4, <1>5, <1>6, <1>8, <2>1, NothingCarried DEF f
  <1> QED  BY <1>7, <1>8

LEMMA FallbackCarriesNothing ==
  ASSUME NEW l \in Launches, ~Refused(l), ~OwnFeatures(l)
  PROVE  Carries(Command(l, Fallback(l)).command) = {}
  <1> DEFINE p == Fallback(l)
             command == Command(l, p).command
             kv == "kv_transfer_config"
  <1>1. /\ DOMAIN p = Fields
        /\ p.speculative = FALSE /\ p.sparse = FALSE
        /\ Carried(p.config) = {}
    BY NothingMerged, FallbackFields
  <1>2. /\ ~V4(l.model) /\ ~Glm47W8a8(l) /\ ~ForcedSparse(l)
    BY DEF OwnFeatures
  <1> HIDE DEF p
  <1>3. CASE Engine(l) \notin VllmEngines
    <2>1. /\ command.config = p.config /\ command.method = "none"
          /\ command.index = FALSE /\ command.offload = FALSE
      BY <1>3 DEF Command
    <2> HIDE DEF command
    <2>2. Carried(command.config) = {}
      BY <1>1, <2>1
    <2>3. Carries(command) = {}
      BY <2>1, <2>2, PlainCommand, Zenon
    <2> QED  BY <2>3 DEF command, p
  <1>4. CASE Engine(l) \in VllmEngines
    <2>1. ~V4Flash(l.model) /\ ~V4Offload(l) /\ ~Flash(l)
      BY <1>2 DEF V4Flash, V4Pro, V4Offload, Flash
    <2>2. OwnSpeculates(l, p) = FALSE /\ Typed(l, p) = FALSE
      BY <1>1, <1>2, <2>1 DEF OwnSpeculates, Typed
    <2>3. OwnConfig(l, Typed(l, p), p.config) = p.config
      BY <1>2, <2>2 DEF OwnConfig, TypedConfig, If
    <2>4. CpuOffload(l, StripInternal(l, p.config)) = StripInternal(l, p.config)
      BY <2>1 DEF CpuOffload, If
    <2>5. Same(StripInternal(l, p.config), p.config, kv) \/ kv \notin DOMAIN StripInternal(l, p.config)
      BY DEF StripInternal, Without, Same
    <2>6. Same(Ready(l, p), p.config, kv) \/ kv \notin DOMAIN Ready(l, p)
      <3>1. Same(Ready(l, p), StripInternal(l, p.config), kv)
        BY <2>3, <2>4, ReadyAt
      <3> QED  BY <2>5, <3>1, SameTransitive DEF Same
    <2>7. \A k \in FeatureKeys \ {kv} : Same(Ready(l, p), p.config, k)
      <3>1. Same(Ready(l, p), p.config, "speculative_config")
        BY <2>2, <2>3, ReadyAt
      <3>2. Stays(l, "kv_cache_dtype") /\ "kv_cache_dtype" # "speculative_config"
        BY DEF Stays
      <3>3. Same(Ready(l, p), p.config, "kv_cache_dtype")
        BY <2>3, <3>2, ReadyAt
      <3> QED  BY <3>1, <3>3 DEF FeatureKeys
    <2>8. Carried(Ready(l, p)) = {}
      <3>1. \A k \in FeatureKeys : Same(Ready(l, p), p.config, k) \/ k \notin DOMAIN Ready(l, p)
        BY <2>6, <2>7
      <3> QED  BY <1>1, <3>1, StillNothing
    <2>9. Carried(command.config) = {}
      <3>1. \A k \in FeatureKeys : Same(command.config, Ready(l, p), k)
        BY <1>1, <1>4, CommandAt DEF FeatureKeys
      <3> HIDE DEF command
      <3> QED  BY <2>8, <3>1, StillNothing
    <2>10. /\ command.method = "none"
           /\ command.index = FALSE
           /\ command.offload = FALSE
      <3>1. command.method = "none"
        BY <1>1, <1>4, <2>2, CommandFields DEF If
      <3>2. command.index = SparseIndex(l, p) /\ ~SparseIndex(l, p)
        BY <1>1, <1>2, <1>4, CommandFields DEF SparseIndex
      <3>3. command.offload = (~ManyNodes(l) /\ NativeOffload(l, p)) /\ ~NativeOffload(l, p)
        BY <1>1, <1>4, <2>1, CommandFields DEF NativeOffload
      <3> QED  BY <3>1, <3>2, <3>3 DEF SparseIndex
    <2> HIDE DEF command
    <2>11. Carries(command) = {}
      BY <2>9, <2>10, PlainCommand, Zenon
    <2> QED  BY <2>11 DEF command, p
  <1> QED  BY <1>3, <1>4

(* The command that replaces a crashed engine has none of the advanced     *)
(* features, whatever the launch: neither its switches nor what the merge  *)
(* or the building left in the engine_config it shares with the main       *)
(* command (core/wings_entry.py:1285-1333); unless the model brings a      *)
(* feature of its own or someone wrote one down.                           *)
THEOREM FallbackAlwaysPlain == Spec => []FallbackIsPlain
  <1>1. PlanInv => FallbackIsPlain
    <2> SUFFICES ASSUME PlanInv, Built("fallback"), ~OwnFeatures(launch)
                 PROVE  Carries(commands["fallback"]) = {}
      BY DEF FallbackIsPlain
    <2>1. TypeInv /\ StageInv /\ CommandsInv
      BY DEF PlanInv
    <2>2. launch \in Launches /\ ~Refused(launch)
      BY <2>1 DEF TypeInv, StageInv, Built
    <2>3. commands["fallback"] = Command(launch, Fallback(launch)).command
      BY <2>1 DEF CommandsInv
    <2> QED  BY <2>2, <2>3, FallbackCarriesNothing
  <1> QED  BY <1>1, PlanIsInvariant, PTL

----------------------------------------------------------------------------
(***************************************************************************)
(* What is told, what is installed and what is started.                    *)
(***************************************************************************)
LEMMA CarriedFeatures ==
  ASSUME NEW command
  PROVE  /\ \/ "speculative_config" \in DOMAIN command.config
            \/ command.method # "none"
            => "speculative_decode" \in Carries(command)
         /\ \/ Has(command.config, "kv_cache_dtype", "fp8")
            \/ command.index
            => "sparse_kv" \in Carries(command)
         /\ Offloads(command.config) \/ command.offload => "kv_offload" \in Carries(command)
  <1>1. /\ "speculative_config" \in DOMAIN command.config =>
             "speculative_decode" \in Carries(command)
        /\ Has(command.config, "kv_cache_dtype", "fp8") => "sparse_kv" \in Carries(command)
        /\ Offloads(command.config) => "kv_offload" \in Carries(command)
    BY DEF Carries, Carried, If
  <1>2. /\ command.method # "none" => "speculative_decode" \in Carries(command)
        /\ command.index => "sparse_kv" \in Carries(command)
        /\ command.offload => "kv_offload" \in Carries(command)
    BY DEF Carries, If
  <1> QED  BY <1>1, <1>2

(* A switch is in the main command: as a key of the engine_config, or as   *)
(* what the command says besides; the one for sparse KV in that of vLLM    *)
LEMMA SwitchesCarried ==
  ASSUME NEW l, Engine(l) \in VllmEngines
  PROVE  LET told == AdvancedFeatures(l, Merged(l))
             carried == Carries(Command(l, Merged(l)).command)
         IN  /\ "speculative_decode" \in told => "speculative_decode" \in carried
             /\ "sparse_kv" \in told /\ Engine(l) = "vllm" => "sparse_kv" \in carried
  <1> DEFINE p == Merged(l)
             command == Command(l, p).command
             own == OwnConfig(l, Typed(l, p), p.config)
             sc == "speculative_config"
             type == "kv_cache_dtype"
  <1>0. DOMAIN p = Fields
    BY MergedFields
  <1>1. /\ "speculative_decode" \in AdvancedFeatures(l, p) => p.speculative
        /\ "sparse_kv" \in AdvancedFeatures(l, p) => p.sparse
    BY FeatureFlags
  <1> HIDE DEF p
  <1>2. ASSUME p.speculative PROVE "speculative_decode" \in Carries(command)
    <2>1. CASE sc \notin DOMAIN LeftConfig(l, p)
      <3>1. OwnSpeculates(l, p)
        BY <1>2 DEF OwnSpeculates
      <3>2. command.method = Strategy(l)
        BY <1>0, <2>1, <3>1, CommandFields DEF If
      <3>3. Strategy(l) \in {"draft", "suffix", "mtp"}
        BY DEF Strategy, If
      <3> HIDE DEF command
      <3> QED  BY <3>2, <3>3, CarriedFeatures
    <2>2. CASE sc \in DOMAIN LeftConfig(l, p)
      <3>1. sc \in DOMAIN own => sc \in DOMAIN Ready(l, p)
        BY ReadyAt
      <3>2. sc \in DOMAIN Ready(l, p)
        BY <2>2, <3>1 DEF LeftConfig, Over
      <3>3. Same(command.config, Ready(l, p), sc)
        BY <1>0, CommandAt
      <3> HIDE DEF command
      <3>4. sc \in DOMAIN command.config
        BY <3>2, <3>3 DEF Same
      <3> QED  BY <3>4, CarriedFeatures
    <2> QED  BY <2>1, <2>2
  <1>3. ASSUME p.sparse, Engine(l) = "vllm" PROVE "sparse_kv" \in Carries(command)
    <2>1. CASE SparseIndex(l, p)
      <3>1. command.index
        BY <1>0, <2>1, CommandFields
      <3> HIDE DEF command
      <3> QED  BY <3>1, CarriedFeatures
    <2>2. CASE ~SparseIndex(l, p)
      <3>1. Typed(l, p)
        BY <1>3, <2>2 DEF Typed
      <3> DEFINE typed == Typed(l, p)
                 c == TypedConfig(typed, p.config)
      <3>2. type \in DOMAIN c /\ c[type] = "fp8"
        BY <3>1 DEF TypedConfig, If, Over
      <3>3. Same(own, c, type)
        BY OwnConfigAt DEF Watched, ParallelKeys, Sizes
      <3>4. Same(Ready(l, p), own, type)
        <4>1. Stays(l, type) /\ type # "speculative_config"
          BY DEF Stays
        <4> QED  BY <4>1, ReadyAt
      <3>5. Same(command.config, Ready(l, p), type)
        BY <1>0, CommandAt
      <3> HIDE DEF command, own, c
      <3>6. Same(command.config, c, type)
        BY <3>3, <3>4, <3>5, SameTransitive
      <3>7. Has(command.config, type, "fp8")
        BY <3>2, <3>6 DEF Has, Same
      <3> QED  BY <3>7, CarriedFeatures
    <2> QED  BY <2>1, <2>2
  <1> HIDE DEF command
  <1>4. /\ "speculative_decode" \in AdvancedFeatures(l, p) => "speculative_decode" \in Carries(command)
        /\ "sparse_kv" \in AdvancedFeatures(l, p) /\ Engine(l) = "vllm" =>
             "sparse_kv" \in Carries(command)
    BY <1>1, <1>2, <1>3
  <1> QED  BY <1>4 DEF command, p

(* The connector of the main command, where nobody else brings one, is the *)
(* one the merge chose, but for what the adapter strips and replaces       *)
LEMMA ConnectorAgrees ==
  ASSUME NEW l \in Launches, ~Refused(l), Engine(l) \in VllmEngines,
         \A w \in Layers(l) : "kv_transfer_config" \notin DOMAIN w,
         ~(l.file # Empty /\ "CONFIG_FORCE" \in l.env)
  PROVE  InstallsLmCache(l) <=>
           /\ "kv_transfer_config" \in DOMAIN Command(l, Merged(l)).command.config
           /\ "LMCache" \in Command(l, Merged(l)).command.config["kv_transfer_config"].kind
  <1> DEFINE p == Merged(l)
             main == Command(l, p).command.config
             c == EngineConfig(l)
             own == OwnConfig(l, Typed(l, p), p.config)
             stripped == StripInternal(l, own)
             ready == CpuOffload(l, stripped)
             kv == "kv_transfer_config"
             Caches(d) == kv \in DOMAIN d /\ "LMCache" \in d[kv].kind
  <1>1. p.config = c /\ DOMAIN p = Fields
    BY MergedFields
  <1>2. Same(own, c, kv)
    <2>1. Same(own, TypedConfig(Typed(l, p), p.config), kv)
      BY OwnConfigAt DEF Watched, ParallelKeys, Sizes
    <2>2. Same(TypedConfig(Typed(l, p), p.config), p.config, kv)
      BY OwnConfigAt
    <2> QED  BY <1>1, <2>1, <2>2, SameTransitive
  <1>3. Same(main, ready, kv)
    <2>1. Same(main, Ready(l, p), kv)
      BY <1>1, CommandAt
    <2>2. Same(Ready(l, p), ready, kv)
      BY ReadyAt
    <2> HIDE DEF main, ready
    <2> QED  BY <2>1, <2>2, SameTransitive
  <1>4. Traced(l, c, kv)
    <2>1. Engine(l) \in Engines
      BY LaunchableHardware
    <2> QED  BY <2>1, MergeTraced DEF Watched
  <1>5. kv \in DOMAIN c => KvConnector(l).kind # {} /\ c[kv] = KvConnector(l)
    BY <1>4 DEF Traced, Written, Computed
  <1>6. /\ KvConnector(l).kind # {}
        /\ ~(l.device = "nvidia" /\ Engine(l) = "vllm" /\ Glm51(l.model))
        => kv \in DOMAIN c
    BY ConnectorIsMerged
  <1>7. InstallsLmCache(l) <=> Caches(main)
    <2> HIDE DEF main, c, own, ready, p
    <2>1. Caches(main) <=> Caches(ready)
      BY <1>3 DEF Same
    <2>2. CASE V4Offload(l) /\ LmCache(l)
      <3>1. kv \in DOMAIN ready /\ ready[kv].kind = {"CPUOffloading"}
        BY <2>2, WithSets DEF ready, CpuOffload, If
      <3> QED  BY <2>1, <2>2, <3>1 DEF InstallsLmCache
    <2>3. CASE ~(V4Offload(l) /\ LmCache(l))
      <3>1. ready = stripped
        BY <2>3 DEF ready, CpuOffload, If
      <3>2. CASE Engine(l) = "vllm" /\ Glm51(l.model)
        <4>1. kv \notin DOMAIN stripped
          BY <3>2 DEF StripInternal, Without, If
        <4> QED  BY <2>1, <3>1, <3>2, <4>1 DEF InstallsLmCache
      <3>3. CASE ~(Engine(l) = "vllm" /\ Glm51(l.model))
        <4>1. stripped = Without(own, {"use_kunlun_atb"} \union {})
          BY <3>3 DEF StripInternal, If
        <4>2. Same(stripped, own, kv)
          BY <4>1, WithoutKeeps
        <4>3. Caches(main) <=> Caches(c)
          BY <1>2, <2>1, <3>1, <4>2 DEF Same
        <4>4. CASE ~LmCache(l)
          <5>1. KvConnector(l).kind = {} \union If(l.pd # "", {PdConnector(l)}, {})
            BY <4>4 DEF KvConnector, If
          <5>2. "LMCache" \notin KvConnector(l).kind
            BY <5>1 DEF PdConnector, If
          <5> QED  BY <1>5, <4>3, <4>4, <5>2 DEF InstallsLmCache
        <4>5. CASE LmCache(l) /\ Engine(l) = "vllm" /\ V4Flash(l.model)
          <5>1. KvConnector(l).kind = {}
            BY <4>5 DEF KvConnector, Ascend
          <5> QED  BY <1>5, <4>3, <4>5, <5>1 DEF InstallsLmCache
        <4>6. CASE LmCache(l) /\ ~(Engine(l) = "vllm" /\ V4Flash(l.model))
          <5>1. ~V4Offload(l)
            BY <2>3, <4>6
          <5>2. ~(Ascend(l) /\ V4Named(l.model))
            BY <5>1 DEF V4Offload, V4Named, V4Flash, V4Pro
          <5>3. "LMCache" \in KvConnector(l).kind
            BY <3>3, <4>6, <5>2 DEF KvConnector, If
          <5>4. kv \in DOMAIN c /\ c[kv] = KvConnector(l)
            BY <1>5, <1>6, <3>3, <5>3
          <5>5. InstallsLmCache(l)
            BY <3>3, <4>6, <5>1 DEF InstallsLmCache
          <5> QED  BY <4>3, <5>3, <5>4, <5>5
        <4> QED  BY <4>4, <4>5, <4>6
      <3> QED  BY <3>2, <3>3
    <2> QED  BY <2>2, <2>3
  <1> QED  BY <1>7

(* The offload that was asked for is in the main command: as the connector *)
(* of the merge, as the CPU offload of the adapter, or as the native one   *)
LEMMA OffloadCarried ==
  ASSUME NEW l \in Launches, ~Refused(l), Engine(l) \in VllmEngines, LmCache(l),
         \A w \in Layers(l) : "kv_transfer_config" \notin DOMAIN w,
         ~(l.file # Empty /\ "CONFIG_FORCE" \in l.env),
         ~(Engine(l) = "vllm" /\ (Glm51(l.model) \/ (V4Flash(l.model) /\ ManyNodes(l))))
  PROVE  "kv_offload" \in Carries(Command(l, Merged(l)).command)
  <1> DEFINE p == Merged(l)
             command == Command(l, p).command
             kv == "kv_transfer_config"
             own == OwnConfig(l, Typed(l, p), p.config)
             stripped == StripInternal(l, own)
             ready == CpuOffload(l, stripped)
  <1>0. DOMAIN p = Fields /\ p.suppressed = FALSE
    BY MergedFields
  <1> SUFFICES Offloads(command.config) \/ command.offload
    <2> HIDE DEF command
    <2>1. Offloads(command.config) \/ command.offload => "kv_offload" \in Carries(command)
      BY CarriedFeatures
    <2> QED  BY <2>1 DEF command, p
  <1>1. CASE V4Offload(l)
    <2>1. Same(command.config, Ready(l, p), kv) /\ Same(Ready(l, p), ready, kv)
      <3> HIDE DEF p
      <3> QED  BY <1>0, CommandAt, ReadyAt
    <2>2. kv \in DOMAIN ready /\ ready[kv].kind = {"CPUOffloading"}
      <3> HIDE DEF stripped
      <3> QED  BY <1>1, WithSets DEF CpuOffload, If
    <2> HIDE DEF command, ready
    <2>3. kv \in DOMAIN command.config /\ command.config[kv].kind = {"CPUOffloading"}
      BY <2>1, <2>2 DEF Same
    <2> QED  BY <2>3 DEF Offloads
  <1>2. CASE Engine(l) = "vllm" /\ V4Flash(l.model)
    <2>1. NativeOffload(l, p) /\ ~ManyNodes(l)
      BY <1>0, <1>2 DEF NativeOffload
    <2> HIDE DEF p
    <2>2. command.offload
      BY <1>0, <2>1, CommandFields
    <2> QED  BY <2>2
  <1>3. CASE ~V4Offload(l) /\ ~(Engine(l) = "vllm" /\ V4Flash(l.model))
    <2>1. InstallsLmCache(l)
      BY <1>3 DEF InstallsLmCache
    <2>2. kv \in DOMAIN command.config /\ "LMCache" \in command.config[kv].kind
      BY <2>1, ConnectorAgrees
    <2> HIDE DEF command
    <2> QED  BY <2>2 DEF Offloads
  <1> QED  BY <1>1, <1>2, <1>3

(* What the engine container is told is what is started: a feature that    *)
(* advanced_features.json switches on is in the main command, the KV       *)
(* offload with the others, and the LMCache patch is installed exactly     *)
(* where the main command has its connector, though the merge, the adapter *)
(* and the script decide it each for itself.  The features that the code   *)
(* does drop are named in the statement (DroppedFeatures).                 *)
THEOREM FeaturesAlwaysAgree == Spec => []FeaturesAgree
  <1>1. PlanInv => FeaturesAgree
    <2> SUFFICES ASSUME PlanInv PROVE FlagsAreCarried /\ PatchMatchesConnector
      BY DEF FeaturesAgree
    <2>0. TypeInv /\ StageInv /\ CommandsInv
      BY DEF PlanInv
    <2>1. ASSUME Built("main")
          PROVE  /\ Main = Command(launch, Merged(launch)).command
                 /\ launch \in Launches /\ ~Refused(launch)
                 /\ flags = AdvancedFeatures(launch, Merged(launch))
      BY <2>0, <2>1 DEF TypeInv, StageInv, CommandsInv, Main
    <2>2. FlagsAreCarried
      <3> SUFFICES ASSUME Built("main"), IsVllm, NEW feature \in flags \ DroppedFeatures
                   PROVE  feature \in Carries(Main)
        BY DEF FlagsAreCarried
      <3>1. /\ feature \in AdvancedFeatures(launch, Merged(launch))
            /\ Engine(launch) \in VllmEngines
            /\ Ascend(launch) \/ Engine(launch) = "vllm"
        BY <2>1 DEF IsVllm, VllmEngines, Ascend
      <3>2. feature \in {"speculative_decode", "sparse_kv", "kv_offload"}
        BY <3>1, FeatureFlags
      <3> HIDE DEF Main
      <3>3. CASE feature = "speculative_decode"
        BY <2>1, <3>1, <3>3, SwitchesCarried
      <3>4. CASE feature = "sparse_kv"
        <4>1. ~Ascend(launch)
          BY <3>4 DEF DroppedFeatures, If
        <4> QED  BY <2>1, <3>1, <3>4, <4>1, SwitchesCarried
      <3>5. CASE feature = "kv_offload"
        <4>1. /\ ~(Engine(launch) = "vllm" /\ (\/ Glm51(launch.model)
                                                \/ (V4Flash(launch.model) /\ ManyNodes(launch))))
              /\ ~OwnConnector
          <5> DEFINE dropped ==
                       \/ (Engine(launch) = "vllm"
                           /\ (Glm51(launch.model) \/ (V4Flash(launch.model) /\ Many)))
                       \/ OwnConnector
          <5>1. "kv_offload" \notin If(dropped, {"kv_offload"}, {})
            BY <3>5 DEF DroppedFeatures
          <5>2. ~dropped
            <6> HIDE DEF dropped
            <6> QED  BY <5>1 DEF If
          <5> QED  BY <5>2 DEF Many, ManyNodes
        <4>2. LmCache(launch)
          BY <3>1, <3>5 DEF AdvancedFeatures, If
        <4>3. /\ \A w \in Layers(launch) : "kv_transfer_config" \notin DOMAIN w
              /\ ~(launch.file # Empty /\ "CONFIG_FORCE" \in launch.env)
          BY <4>1 DEF OwnConnector
        <4>4. "kv_offload" \in Carries(Command(launch, Merged(launch)).command)
          BY <2>1, <3>1, <4>1, <4>2, <4>3, OffloadCarried
        <4> QED  BY <2>1, <3>5, <4>4
      <3> QED  BY <3>2, <3>3, <3>4, <3>5
    <2>3. PatchMatchesConnector
      <3> SUFFICES ASSUME pc = "done", IsVllm, ~OwnConnector
                   PROVE  ("lmcache" \in patches) <=>
                            /\ "kv_transfer_config" \in DOMAIN Main.config
                            /\ "LMCache" \in Main.config["kv_transfer_config"].kind
        BY DEF PatchMatchesConnector
      <3>1. Built("main") /\ ("lmcache" \in patches <=> InstallsLmCache(launch))
        BY <2>0 DEF StageInv
      <3>2. /\ Engine(launch) \in VllmEngines
            /\ \A w \in Layers(launch) : "kv_transfer_config" \notin DOMAIN w
            /\ ~(launch.file # Empty /\ "CONFIG_FORCE" \in launch.env)
        BY DEF IsVllm, OwnConnector
      <3> HIDE DEF Main
      <3> QED  BY <2>1, <3>1, <3>2, ConnectorAgrees
    <2> QED  BY <2>2, <2>3
  <1> QED  BY <1>1, PlanIsInvariant, PTL

----------------------------------------------------------------------------
(***************************************************************************)
(* What was given.                                                         *)
(***************************************************************************)
LEMMA GivenReaches ==
  ASSUME NEW l, Engine(l) \in VllmEngines, l.raw = Empty,
         NEW k \in Explicit(l), k \in DOMAIN Merged(l).config,
         ~(k = "enable_expert_parallel" /\ l.model.arch \in
             {"GlmMoeDsaForCausalLM", "KimiK25ForConditionalGeneration"}),
         ~(k = "tensor_parallel_size" /\ ManyNodes(l) /\ l.model.arch \in RayPipeline),
         ~(k = "kv_cache_dtype" /\ "sparse" \in l.want)
  PROVE  /\ k \in DOMAIN Command(l, Merged(l)).command.config
         /\ Command(l, Merged(l)).command.config[k] = l.given[k]
  <1> DEFINE p == Merged(l)
             c == EngineConfig(l)
             main == Command(l, p).command.config
             typed == Typed(l, p)
             own == OwnConfig(l, typed, c)
             file == TypedConfig(typed, c)
             ready == Ready(l, p)
  <1>1. /\ DOMAIN p = Fields /\ p.config = c
        /\ p.sparse = Switch(l, "sparse")
    BY MergedFields
  <1>2. k \in DOMAIN c /\ c[k] = l.given[k]
    BY <1>1, GivenIsMerged
  <1>3. Stays(l, k) /\ k \notin {"speculative_config", "pipeline_parallel_size"}
    BY DEF Stays, Explicit, CommonKeys, VllmKeys, If
  <1>4. ~typed \/ k # "kv_cache_dtype"
    BY <1>1 DEF Typed, Switch
  <1>5. ~Pipelined(l) \/ k \notin {"pipeline_parallel_size", "tensor_parallel_size"}
    BY <1>3 DEF Pipelined
  <1>6. Same(main, ready, k)
    BY <1>1, <1>5, CommandAt
  <1>7. Same(ready, own, k)
    BY <1>1, <1>3, ReadyAt
  <1> HIDE DEF p, c, typed, main, ready
  <1>8. Same(own, file, k) /\ Same(file, c, k)
    BY <1>4, OwnConfigAt
  <1> HIDE DEF own, file
  <1>9. Same(main, c, k)
    BY <1>6, <1>7, <1>8, SameTransitive
  <1> QED  BY <1>2, <1>9 DEF Same, main, p

(* A value that was given, and that the merge keeps, is a value of the     *)
(* main command: no default of the adapter goes over it, but for the       *)
(* parameters that the models of the property have decided for them.       *)
THEOREM GivenAlwaysReaches == Spec => []GivenReachesTheEngine
  <1>1. PlanInv => GivenReachesTheEngine
    <2> SUFFICES ASSUME PlanInv, Built("main"), IsVllm, launch.raw = Empty,
                        NEW k \in Explicit(launch) \intersect DOMAIN Merged(launch).config,
                        ~(k = "enable_expert_parallel" /\ launch.model.arch \in
                            {"GlmMoeDsaForCausalLM", "KimiK25ForConditionalGeneration"}),
                        ~(k = "tensor_parallel_size" /\ Many /\ launch.model.arch \in RayPipeline),
                        ~(k = "kv_cache_dtype" /\ "sparse" \in launch.want)
                 PROVE  k \in DOMAIN Main.config /\ Main.config[k] = launch.given[k]
      BY DEF GivenReachesTheEngine
    <2>1. Main = Command(launch, Merged(launch)).command
      BY DEF PlanInv, CommandsInv, Main
    <2> HIDE DEF Main
    <2>2. Engine(launch) \in VllmEngines /\ (Many <=> ManyNodes(launch))
      BY DEF IsVllm, Many, ManyNodes
    <2> QED  BY <2>1, <2>2, GivenReaches
  <1> QED  BY <1>1, PlanIsInvariant, PTL

----------------------------------------------------------------------------
(***************************************************************************)
(* Cards, parallel sizes and ranks.                                        *)
(***************************************************************************)
LEMMA TimesGrows ==
  ASSUME NEW a \in Int, NEW b \in Int, NEW h \in Nat, a <= b
  PROVE  a * h <= b * h
  <1>1. PICK d \in Nat : b = a + d
    BY SMT
  <1>2. b * h = a * h + d * h
    BY <1>1, SMT
  <1>3. d * h >= 0
    BY SMT
  <1> QED  BY <1>2, <1>3, SMT

LEMMA Quotient ==
  ASSUME NEW x \in Nat, NEW h \in Nat \ {0}
  PROVE  /\ x \div h \in Nat
         /\ (x \div h) * h <= x
         /\ x < (x \div h) * h + h
         /\ x % h = 0 => x = (x \div h) * h
  BY SMT

LEMMA RanksAreShared ==
  ASSUME NEW n \in Nat \ {0}, NEW h \in Nat \ {0}
  PROVE  LET Of(r) == r * h .. (r * h + h - 1)
             nodes == 0 .. (n - 1)
         IN  /\ UNION {Of(r) : r \in nodes} = 0 .. (h * n - 1)
             /\ \A r, q \in nodes : r # q => Of(r) \intersect Of(q) = {}
  <1> DEFINE Of(r) == r * h .. (r * h + h - 1)
             nodes == 0 .. (n - 1)
  <1>1. ASSUME NEW r \in nodes, NEW x \in Of(r)
        PROVE  x \in 0 .. (h * n - 1)
    <2>1. r + 1 <= n /\ r \in Nat
      BY SMT
    <2>2. (r + 1) * h <= n * h /\ 0 * h <= r * h
      BY <2>1, TimesGrows
    <2>3. (r + 1) * h = r * h + h /\ n * h = h * n
      BY <2>1, SMT
    <2>4. r * h \in Int /\ h * n \in Int
      BY <2>1, SMT
    <2> QED  BY <2>2, <2>3, <2>4, SMT
  <1>2. ASSUME NEW x \in 0 .. (h * n - 1)
        PROVE  \E r \in nodes : x \in Of(r)
    <2> DEFINE r == x \div h
    <2>1. x \in Nat /\ h * n \in Int /\ x <= h * n - 1
      BY SMT
    <2>2. r \in Nat /\ r * h <= x /\ x < r * h + h
      BY <2>1, Quotient
    <2> HIDE DEF r
    <2>3. r < n
      <3>1. SUFFICES ASSUME n <= r PROVE FALSE
        BY <2>2, SMT
      <3>2. n * h <= r * h
        BY <2>2, <3>1, TimesGrows
      <3> QED  BY <2>1, <2>2, <3>2, SMT
    <2>4. r \in nodes /\ x \in Of(r)
      BY <2>1, <2>2, <2>3, SMT
    <2> QED  BY <2>4
  <1>3. ASSUME NEW r \in nodes, NEW q \in nodes, r < q
        PROVE  Of(r) \intersect Of(q) = {}
    <2>1. r \in Nat /\ q \in Nat /\ r + 1 <= q
      BY <1>3, SMT
    <2>2. (r + 1) * h <= q * h
      BY <2>1, TimesGrows
    <2>3. (r + 1) * h = r * h + h /\ r * h \in Int /\ q * h \in Int
      BY <2>1, SMT
    <2> QED  BY <2>2, <2>3, SMT
  <1>4. UNION {Of(r) : r \in nodes} = 0 .. (h * n - 1)
    <2> HIDE DEF Of, nodes
    <2> QED  BY <1>1, <1>2
  <1>5. \A r, q \in nodes : r # q => Of(r) \intersect Of(q) = {}
    <2> SUFFICES ASSUME NEW r \in nodes, NEW q \in nodes, r # q
                 PROVE  Of(r) \intersect Of(q) = {}
      OBVIOUS
    <2>1. r < q \/ q < r
      BY SMT
    <2> HIDE DEF Of, nodes
    <2> QED  BY <1>3, <2>1
  <1> QED  BY <1>4, <1>5

(* The ranks on one node: at least one, and no more than its cards hold *)
LEMMA RanksOfOneNode ==
  ASSUME NEW l \in Launches, ~Refused(l), ManyNodes(l), NEW c, Positive(c), RanksFit(l, c)
  PROVE  /\ RanksOf(l, c, 0).local \in Nat \ {0}
         /\ \A r : /\ RanksOf(l, c, r).local = RanksOf(l, c, 0).local
                   /\ RanksOf(l, c, r).size = RanksOf(l, c, 0).local * l.nnodes
                   /\ RanksOf(l, c, r).start = r * RanksOf(l, c, 0).local
         /\ DpDeployment(l) =>
              /\ DpTp(l, c) \in Nat \ {0}
              /\ RanksOf(l, c, 0).local * DpTp(l, c) <= Cards(l)
         /\ ~DpDeployment(l) => RanksOf(l, c, 0).local = 1
  <1> DEFINE tp == DpTp(l, c)
             h == IF DpDeployment(l) THEN Cards(l) \div tp ELSE 1
  <1>1. \A r : RanksOf(l, c, r) = [size |-> h * l.nnodes, local |-> h, start |-> r * h]
    BY DEF RanksOf
  <1>2. Cards(l) \in Nat \ {0}
    BY LaunchableHardware
  <1>3. CASE DpDeployment(l)
    <2>1. tp # 0 /\ Cards(l) % AtLeastOne(tp) = 0
      BY <1>3 DEF RanksFit
    <2>2. tp \in Nat
      <3>1. CASE "tensor_parallel_size" \in DOMAIN c
        BY <3>1 DEF DpTp, Positive, Sizes
      <3>2. CASE "tensor_parallel_size" \notin DOMAIN c
        <4>1. DefaultDpTp(l) \in Nat
          BY <1>2 DEF DefaultDpTp, If
        <4> QED  BY <3>2, <4>1 DEF DpTp
      <3> QED  BY <3>1, <3>2
    <2> HIDE DEF tp
    <2>3. tp \in Nat \ {0} /\ Cards(l) % tp = 0
      BY <2>1, <2>2 DEF AtLeastOne, If
    <2>4. h = Cards(l) \div tp
      BY <1>3
    <2>5. h \in Nat /\ Cards(l) = h * tp
      BY <1>2, <2>3, <2>4, Quotient
    <2>6. h # 0
      BY <1>2, <2>3, <2>5, SMT
    <2> HIDE DEF h
    <2> QED  BY <1>1, <1>2, <1>3, <2>3, <2>5, <2>6 DEF tp
  <1>4. CASE ~DpDeployment(l)
    BY <1>1, <1>4
  <1> QED  BY <1>3, <1>4

(* The nodes of a data parallel group share its ranks out, and each node   *)
(* has as many as its cards hold (engines/vllm_distributed.py:278-361): a  *)
(* size that does not divide the cards ends the launch before a command is *)
(* there.                                                                  *)
THEOREM RanksAlwaysPartition == Spec => []RanksPartition
  <1>1. PlanInv => RanksPartition
    <2> SUFFICES ASSUME PlanInv, Built("main"), Many
                 PROVE  LET Ranks(r) == RanksOf(launch, params.config, r)
                            Of(r) == Ranks(r).start .. (Ranks(r).start + Ranks(r).local - 1)
                            nodes == 0 .. (launch.nnodes - 1)
                        IN  /\ UNION {Of(r) : r \in nodes} = 0 .. (Ranks(0).size - 1)
                            /\ \A r, q \in nodes : r # q => Of(r) \intersect Of(q) = {}
                            /\ DpDeployment(launch) =>
                                 Ranks(0).local * DpTp(launch, params.config) <= Cards(launch)
      BY DEF RanksPartition
    <2> DEFINE c == params.config
               n == launch.nnodes
               h == RanksOf(launch, c, 0).local
               Of(r) == RanksOf(launch, c, r).start ..
                        (RanksOf(launch, c, r).start + RanksOf(launch, c, r).local - 1)
               nodes == 0 .. (n - 1)
    <2>1. /\ launch \in Launches /\ ~Refused(launch) /\ ManyNodes(launch)
          /\ Positive(c) /\ RanksFit(launch, c)
      BY DEF PlanInv, TypeInv, StageInv, Settled, Many, ManyNodes
    <2>2. /\ h \in Nat \ {0}
          /\ \A r : /\ RanksOf(launch, c, r).local = h
                    /\ RanksOf(launch, c, r).size = h * n
                    /\ RanksOf(launch, c, r).start = r * h
          /\ DpDeployment(launch) => h * DpTp(launch, c) <= Cards(launch)
      BY <2>1, RanksOfOneNode
    <2>3. n \in Nat \ {0}
      BY <2>1, LaunchableHardware
    <2>4. \A r : Of(r) = r * h .. (r * h + h - 1)
      BY <2>2
    <2>5. /\ UNION {r * h .. (r * h + h - 1) : r \in nodes} = 0 .. (h * n - 1)
          /\ \A r, q \in nodes : r # q =>
               (r * h .. (r * h + h - 1)) \intersect (q * h .. (q * h + h - 1)) = {}
      <3> HIDE DEF h, n
      <3> QED  BY <2>2, <2>3, RanksAreShared
    <2>6. /\ UNION {Of(r) : r \in nodes} = 0 .. (RanksOf(launch, c, 0).size - 1)
          /\ \A r, q \in nodes : r # q => Of(r) \intersect Of(q) = {}
      <3>1. RanksOf(launch, c, 0).size = h * n
        BY <2>2
      <3> HIDE DEF h, n, Of, nodes
      <3> QED  BY <2>4, <2>5, <3>1
    <2> QED  BY <2>2, <2>6
  <1> QED  BY <1>1, PlanIsInvariant, PTL

(* The sizes of the main command where nobody wrote one down *)
Free(l) ==
  /\ l \in Launches /\ ~Refused(l) /\ Engine(l) \in VllmEngines
  /\ \A w \in Layers(l) : DOMAIN w \intersect Sizes = {}
  /\ ~Flash(l) /\ ~Glm47W8a8(l)
SizeOf(c, key) == IF key \in DOMAIN c THEN c[key] ELSE 1
MainConfig(l) == Command(l, Merged(l)).command.config

LEMMA MergedSizes ==
  ASSUME NEW l, Free(l), NEW k \in Sizes
  PROVE  /\ k \notin Explicit(l)
         /\ k = "pipeline_parallel_size" => k \notin DOMAIN EngineConfig(l)
         /\ ~DeepseekFp8(l) /\ k \in DOMAIN EngineConfig(l) =>
              /\ k = "tensor_parallel_size" /\ ~SingleGlm52(l)
              /\ ~(Ascend(l) /\ Backend(l) = "dp_deployment")
              /\ EngineConfig(l)[k] = Cards(l) * If(l.pd # "", 1, Nodes(l))
  <1>1. Engine(l) \in Engines /\ k \in Watched
    BY DEF Free, Engines, Watched
  <1>2. Traced(l, EngineConfig(l), k)
    BY <1>1, MergeTraced
  <1>3. \A v : ~Written(l, k, v)
    BY DEF Free, Written
  <1>4. k \notin Explicit(l)
    BY DEF Free, Layers, Explicit
  <1> QED  BY <1>2, <1>3, <1>4 DEF Traced, Computed, Free, Sizes

(* Over the merge, what the adapter fills in and what it forces *)
LEMMA ReadySizes ==
  ASSUME NEW l, Free(l)
  PROVE  /\ \A k \in ParallelKeys :
              /\ k \in DOMAIN Forced(l) =>
                   k \in DOMAIN Ready(l, Merged(l)) /\ Ready(l, Merged(l))[k] = Forced(l)[k]
              /\ k \notin DOMAIN Forced(l) =>
                   /\ k \in DOMAIN Filled(l) /\ k \notin DOMAIN EngineConfig(l) =>
                        k \in DOMAIN Ready(l, Merged(l)) /\ Ready(l, Merged(l))[k] = Filled(l)[k]
                   /\ ~(k \in DOMAIN Filled(l) /\ k \notin DOMAIN EngineConfig(l)) =>
                        Same(Ready(l, Merged(l)), EngineConfig(l), k)
         /\ "pipeline_parallel_size" \notin DOMAIN Ready(l, Merged(l))
  <1> DEFINE p == Merged(l)
             c == EngineConfig(l)
             own == OwnConfig(l, Typed(l, p), c)
             chain == Chain(l, own)
             ready == Ready(l, p)
             pp == "pipeline_parallel_size"
  <1>1. p.config = c
    BY MergedFields
  <1>2. \A k \in Sizes : Same(own, c, k)
    <2> SUFFICES ASSUME NEW k \in Sizes PROVE Same(own, c, k)
      OBVIOUS
    <2>1. Same(own, TypedConfig(Typed(l, p), c), k)
      BY OwnConfigAt DEF Free
    <2>2. Same(TypedConfig(Typed(l, p), c), c, k)
      BY OwnConfigAt DEF Sizes
    <2> QED  BY <2>1, <2>2, SameTransitive
  <1>3. \A k \in ParallelKeys : Same(ready, chain, k)
    BY <1>1, ReadyAtSizes
  <1>4. Same(ready, own, pp)
    <2>1. Stays(l, pp) /\ pp # "speculative_config"
      BY DEF Stays
    <2> QED  BY <1>1, <2>1, ReadyAt
  <1>5. \A k \in Sizes : k \notin Explicit(l)
    BY MergedSizes
  <1>6. ~Flash(l)
    BY DEF Free
  <1> HIDE DEF p, c, own, ready
  <1>7. ASSUME NEW k \in ParallelKeys
        PROVE  /\ k \in DOMAIN Forced(l) \ Explicit(l) =>
                    k \in DOMAIN chain /\ chain[k] = Forced(l)[k]
               /\ k \notin DOMAIN Forced(l) \ Explicit(l) =>
                    /\ k \in DOMAIN Filled(l) \ Explicit(l) /\ k \notin DOMAIN own =>
                         k \in DOMAIN chain /\ chain[k] = Filled(l)[k]
                    /\ ~(k \in DOMAIN Filled(l) \ Explicit(l) /\ k \notin DOMAIN own) =>
                         Same(chain, own, k)
    BY <1>6, <1>7, ChainOfOthers
  <1> HIDE DEF chain
  <1>8. ASSUME NEW k \in ParallelKeys
        PROVE  /\ k \in DOMAIN Forced(l) => k \in DOMAIN ready /\ ready[k] = Forced(l)[k]
               /\ k \notin DOMAIN Forced(l) =>
                    /\ k \in DOMAIN Filled(l) /\ k \notin DOMAIN c =>
                         k \in DOMAIN ready /\ ready[k] = Filled(l)[k]
                    /\ ~(k \in DOMAIN Filled(l) /\ k \notin DOMAIN c) => Same(ready, c, k)
    <2>1. k \in Sizes /\ k \notin Explicit(l) /\ Same(own, c, k) /\ Same(ready, chain, k)
      BY <1>2, <1>3, <1>5, <1>8 DEF ParallelKeys, Sizes
    <2>2. k \notin DOMAIN own <=> k \notin DOMAIN c
      BY <2>1 DEF Same
    <2> QED  BY <1>7, <2>1, <2>2 DEF Same
  <1>9. pp \notin DOMAIN ready
    <2>1. pp \notin DOMAIN c
      BY MergedSizes DEF Sizes, c
    <2> QED  BY <1>2, <1>4, <2>1 DEF Same, Sizes
  <1> QED  BY <1>8, <1>9 DEF ready, p, c

Replicas(l) ==
  IF ManyNodes(l) /\ Backend(l) = "dp_deployment"
  THEN RanksOf(l, MainConfig(l), 0).size
  ELSE SizeOf(MainConfig(l), "data_parallel_size")
Product(l) ==
  SizeOf(MainConfig(l), "tensor_parallel_size")
    * SizeOf(MainConfig(l), "pipeline_parallel_size") * Replicas(l)

LEMMA MainSizes ==
  ASSUME NEW l, Free(l)
  PROVE  /\ ~Pipelined(l) => /\ \A k : Same(MainConfig(l), Ready(l, Merged(l)), k)
                             /\ SizeOf(MainConfig(l), "pipeline_parallel_size") = 1
         /\ Pipelined(l) =>
              /\ SizeOf(MainConfig(l), "tensor_parallel_size") = Cards(l)
              /\ SizeOf(MainConfig(l), "pipeline_parallel_size") = l.nnodes
         /\ Same(MainConfig(l), Ready(l, Merged(l)), "data_parallel_size")
  <1> DEFINE p == Merged(l)
             d == Command(l, p).command.config
  <1>1. DOMAIN p = Fields /\ Engine(l) \in VllmEngines
    BY MergedFields DEF Free
  <1>2. "pipeline_parallel_size" \notin DOMAIN Ready(l, p)
    BY ReadySizes
  <1> HIDE DEF p
  <1>3. ~Pipelined(l) => \A k : Same(d, Ready(l, p), k)
    BY <1>1, CommandAt
  <1>4. Same(d, Ready(l, p), "data_parallel_size")
    BY <1>1, CommandAt
  <1>5. Pipelined(l) => /\ "pipeline_parallel_size" \in DOMAIN d
                        /\ d["pipeline_parallel_size"] = l.nnodes
                        /\ "tensor_parallel_size" \in DOMAIN d
                        /\ d["tensor_parallel_size"] = Cards(l)
    BY <1>1, CommandAt
  <1> HIDE DEF d
  <1>6. ~Pipelined(l) => SizeOf(d, "pipeline_parallel_size") = 1
    BY <1>2, <1>3 DEF SizeOf, Same
  <1>7. Pipelined(l) => /\ SizeOf(d, "tensor_parallel_size") = Cards(l)
                        /\ SizeOf(d, "pipeline_parallel_size") = l.nnodes
    BY <1>5 DEF SizeOf
  <1> QED  BY <1>3, <1>4, <1>6, <1>7 DEF MainConfig, d, p

(* The ranks of a group that a command was built for *)
LEMMA GroupFits ==
  ASSUME NEW l, Free(l), ManyNodes(l), ~Command(l, Merged(l)).refused
  PROVE  /\ Positive(MainConfig(l)) /\ RanksFit(l, MainConfig(l))
         /\ RanksOf(l, MainConfig(l), 0).size = RanksOf(l, MainConfig(l), 0).local * l.nnodes
  <1> DEFINE main == MainConfig(l)
  <1>1. /\ l \in Launches /\ ~Refused(l) /\ Engine(l) \in VllmEngines
        /\ DOMAIN Merged(l) = Fields /\ Positive(Merged(l).config)
    BY MergedIsSettled DEF Free, Settled
  <1>2. Positive(main)
    BY <1>1, CommandIsPositive DEF MainConfig
  <1>3. ~RanksRefused(l, Ready(l, Merged(l)))
    BY <1>1, CommandRefused
  <1>4. RanksFit(l, main)
    <2>1. CASE ~DpDeployment(l)
      BY <2>1 DEF RanksFit
    <2>2. CASE DpDeployment(l)
      <3>1. ~Pipelined(l)
        BY <2>2 DEF DpDeployment, Pipelined
      <3>2. Same(main, Ready(l, Merged(l)), "tensor_parallel_size")
        BY <3>1, MainSizes
      <3> HIDE DEF main
      <3>3. DpTp(l, main) = DpTp(l, Ready(l, Merged(l)))
        BY <3>2 DEF DpTp, Same
      <3> QED  BY <1>3, <2>2, <3>3 DEF RanksFit, RanksRefused, ManyNodes
    <2> QED  BY <2>1, <2>2
  <1> HIDE DEF main
  <1>5. RanksOf(l, main, 0).size = RanksOf(l, main, 0).local * l.nnodes
    BY <1>1, <1>2, <1>4, RanksOfOneNode
  <1> QED  BY <1>2, <1>4, <1>5 DEF main

(* Two halves of the cards of one node, each of them a replica *)
LEMMA HalvesFit ==
  ASSUME NEW l, Free(l), ~DeepseekFp8(l), SingleGlm52(l)
  PROVE  Product(l) <= Cards(l) * Nodes(l)
  <1> DEFINE tp == "tensor_parallel_size"
             dp == "data_parallel_size"
             n == Cards(l)
             ready == Ready(l, Merged(l))
             main == MainConfig(l)
  <1>1. n \in Nat \ {0} /\ Nodes(l) = 1 /\ ~ManyNodes(l)
    BY LaunchableHardware DEF Free, SingleGlm52, Nodes, ManyNodes, If
  <1>2. \A k : Same(main, ready, k)
    BY <1>1, MainSizes DEF Pipelined
  <1>3. tp \notin DOMAIN EngineConfig(l) /\ dp \notin DOMAIN EngineConfig(l)
    BY MergedSizes DEF Sizes
  <1>4. /\ DOMAIN TwoHalves(l) = {tp, dp}
        /\ TwoHalves(l)[tp] = n \div 2 /\ TwoHalves(l)[dp] = 2
    BY DEF TwoHalves
  <1>5. \/ DOMAIN Forced(l) = {}
        \/ Forced(l) = TwoHalves(l)
    BY DEF Forced, Empty
  <1>6. \/ DOMAIN Filled(l) = {}
        \/ Filled(l) = TwoHalves(l)
    BY DEF Filled, Empty, If
  <1> HIDE DEF ready, main
  <1>7. \/ tp \notin DOMAIN ready /\ dp \notin DOMAIN ready
        \/ /\ tp \in DOMAIN ready /\ ready[tp] = n \div 2
           /\ dp \in DOMAIN ready /\ ready[dp] = 2
    BY <1>3, <1>4, <1>5, <1>6, ReadySizes DEF ParallelKeys, Same, ready
  <1>8. \/ SizeOf(main, tp) = 1 /\ SizeOf(main, dp) = 1
        \/ SizeOf(main, tp) = n \div 2 /\ SizeOf(main, dp) = 2
    BY <1>2, <1>7 DEF SizeOf, Same
  <1>9. /\ SizeOf(main, "pipeline_parallel_size") = 1
        /\ Replicas(l) = SizeOf(main, dp)
    BY <1>1, MainSizes DEF Pipelined, Replicas, main
  <1>10. Product(l) = SizeOf(main, tp) * 1 * SizeOf(main, dp)
    BY <1>9 DEF Product, main
  <1>11. Product(l) = 1 \/ Product(l) = (n \div 2) * 2
    BY <1>1, <1>8, <1>10, SMT
  <1>12. (n \div 2) * 2 <= n /\ 1 <= n
    BY <1>1, Quotient
  <1> QED  BY <1>1, <1>11, <1>12, SMT

(* Elsewhere nothing computes a data parallel size for one engine *)
LEMMA OtherSizes ==
  ASSUME NEW l, Free(l), ~DeepseekFp8(l), ~SingleGlm52(l)
  PROVE  /\ SizeOf(MainConfig(l), "data_parallel_size") = 1
         /\ ~Pipelined(l) /\ DpDeployment(l) =>
              /\ SizeOf(MainConfig(l), "tensor_parallel_size") =
                   IF DefaultDpTp(l) = 0 THEN 1 ELSE DefaultDpTp(l)
              /\ DpTp(l, MainConfig(l)) = DefaultDpTp(l)
         /\ ~Pipelined(l) /\ ~DpDeployment(l) =>
              \/ SizeOf(MainConfig(l), "tensor_parallel_size") = 1
              \/ /\ ~(Ascend(l) /\ Backend(l) = "dp_deployment")
                 /\ SizeOf(MainConfig(l), "tensor_parallel_size") =
                      Cards(l) * If(l.pd # "", 1, Nodes(l))
  <1> DEFINE tp == "tensor_parallel_size"
             dp == "data_parallel_size"
             c == EngineConfig(l)
             ready == Ready(l, Merged(l))
             main == MainConfig(l)
             computed == Cards(l) * If(l.pd # "", 1, Nodes(l))
  <1>1. dp \notin DOMAIN c
    BY MergedSizes DEF Sizes
  <1>2. tp \in DOMAIN c => /\ ~(Ascend(l) /\ Backend(l) = "dp_deployment")
                           /\ c[tp] = computed
    BY MergedSizes DEF Sizes
  <1>3. DOMAIN Filled(l) = {}
    BY DEF Filled, Empty, If
  <1>4. V4Pro(l.model) \/ V4Flash(l.model) => DefaultDpTp(l) = 0
    BY DEF V4Pro, V4Flash, V4, DefaultDpTp
  <1>5. /\ ~DpDeployment(l) \/ DefaultDpTp(l) = 0 => DOMAIN Forced(l) = {}
        /\ DpDeployment(l) /\ DefaultDpTp(l) # 0 =>
             DOMAIN Forced(l) = {tp} /\ Forced(l)[tp] = DefaultDpTp(l)
    BY <1>4 DEF Forced, Empty, If
  <1>6. dp \notin DOMAIN Forced(l)
    BY <1>5
  <1> HIDE DEF c, ready, main, computed
  <1>7. dp \notin DOMAIN ready
    BY <1>1, <1>3, <1>6, ReadySizes DEF ParallelKeys, Same, ready, c
  <1>8. /\ tp \in DOMAIN Forced(l) => tp \in DOMAIN ready /\ ready[tp] = Forced(l)[tp]
        /\ tp \notin DOMAIN Forced(l) => Same(ready, c, tp)
    BY <1>3, ReadySizes DEF ParallelKeys, ready, c
  <1>9. SizeOf(main, dp) = 1
    BY <1>7, MainSizes DEF SizeOf, Same, main, ready
  <1>10. ~Pipelined(l) => Same(main, ready, tp)
    BY MainSizes DEF main, ready
  <1>11. ASSUME ~Pipelined(l), DpDeployment(l)
         PROVE  /\ SizeOf(main, tp) = IF DefaultDpTp(l) = 0 THEN 1 ELSE DefaultDpTp(l)
                /\ DpTp(l, main) = DefaultDpTp(l)
    <2>1. tp \notin DOMAIN c
      BY <1>2, <1>11 DEF DpDeployment
    <2>2. CASE DefaultDpTp(l) = 0
      <3>1. tp \notin DOMAIN main
        BY <1>5, <1>8, <1>10, <1>11, <2>1, <2>2 DEF Same
      <3> QED  BY <2>2, <3>1 DEF SizeOf, DpTp
    <2>3. CASE DefaultDpTp(l) # 0
      <3>1. tp \in DOMAIN main /\ main[tp] = DefaultDpTp(l)
        BY <1>5, <1>8, <1>10, <1>11, <2>3 DEF Same
      <3> QED  BY <2>3, <3>1 DEF SizeOf, DpTp
    <2> QED  BY <2>2, <2>3
  <1>12. ASSUME ~Pipelined(l), ~DpDeployment(l)
         PROVE  \/ SizeOf(main, tp) = 1
                \/ /\ ~(Ascend(l) /\ Backend(l) = "dp_deployment")
                   /\ SizeOf(main, tp) = computed
    BY <1>2, <1>5, <1>8, <1>10, <1>12 DEF Same, SizeOf
  <1> QED  BY <1>9, <1>11, <1>12 DEF main, computed

LEMMA OthersFit ==
  ASSUME NEW l, Free(l), ~DeepseekFp8(l), ~SingleGlm52(l), ~Command(l, Merged(l)).refused
  PROVE  Product(l) <= Cards(l) * Nodes(l)
  <1> DEFINE n == Cards(l)
             m == Nodes(l)
             main == MainConfig(l)
             size == SizeOf(main, "tensor_parallel_size")
             many == ManyNodes(l) /\ Backend(l) = "dp_deployment"
  <1> SUFFICES Product(l) <= n * m
    OBVIOUS
  <1>1. /\ l \in Launches /\ ~Refused(l) /\ Engine(l) \in VllmEngines
        /\ n \in Nat \ {0} /\ m \in Nat \ {0} /\ l.nnodes \in Nat \ {0}
        /\ ManyNodes(l) => m = l.nnodes
    BY LaunchableHardware DEF Free, ManyNodes, Nodes, If
  <1>2. n * 1 <= n * m /\ 1 * m <= n * m
    <2>1. 1 * n <= m * n /\ 1 * m <= n * m
      BY <1>1, TimesGrows
    <2> QED  BY <1>1, <2>1, SMT
  <1>3. SizeOf(main, "data_parallel_size") = 1
    BY OtherSizes
  <1>4. ~many => Replicas(l) = 1
    BY <1>3 DEF Replicas
  <1>5. ASSUME ManyNodes(l)
        PROVE  /\ Positive(main) /\ RanksFit(l, main)
               /\ Replicas(l) = IF many THEN RanksOf(l, main, 0).local * l.nnodes ELSE 1
    BY <1>4, <1>5, GroupFits DEF Replicas
  <1>6. CASE Pipelined(l)
    <2>1. size = n /\ SizeOf(main, "pipeline_parallel_size") = l.nnodes
      BY <1>6, MainSizes
    <2>2. Replicas(l) = 1 /\ m = l.nnodes
      BY <1>1, <1>4, <1>6 DEF Pipelined
    <2>3. Product(l) = n * l.nnodes * 1
      BY <2>1, <2>2 DEF Product
    <2> QED  BY <1>1, <2>2, <2>3, SMT
  <1>7. ASSUME ~Pipelined(l) PROVE Product(l) = size * 1 * Replicas(l)
    BY <1>7, MainSizes DEF Product
  <1>8. CASE ~Pipelined(l) /\ DpDeployment(l)
    <2>1. /\ size = IF DefaultDpTp(l) = 0 THEN 1 ELSE DefaultDpTp(l)
          /\ DpTp(l, main) = DefaultDpTp(l)
      BY <1>8, OtherSizes
    <2>2. DefaultDpTp(l) \in Nat /\ DefaultDpTp(l) <= n
      BY <1>1 DEF DefaultDpTp, If
    <2>3. CASE ManyNodes(l)
      <3> DEFINE h == RanksOf(l, main, 0).local
                 tp == DpTp(l, main)
      <3>1. h \in Nat \ {0} /\ tp \in Nat \ {0} /\ h * tp <= n
        <4> HIDE DEF main
        <4> QED  BY <1>1, <1>5, <1>8, <2>3, RanksOfOneNode
      <3>2. many
        BY <1>8, <2>3 DEF DpDeployment
      <3>3. Replicas(l) = h * l.nnodes /\ m = l.nnodes
        BY <1>1, <1>5, <2>3, <3>2
      <3>4. size = tp
        BY <2>1, <3>1
      <3> HIDE DEF h, tp, size, n, m
      <3>5. Product(l) = tp * 1 * (h * m)
        BY <1>7, <1>8, <3>3, <3>4
      <3>6. tp * 1 * (h * m) = (h * tp) * m
        BY <1>1, <3>1, SMT
      <3>7. (h * tp) * m <= n * m
        <4>1. h * tp \in Int
          BY <3>1, SMT
        <4> QED  BY <1>1, <3>1, <4>1, TimesGrows
      <3> QED  BY <3>5, <3>6, <3>7
    <2>4. CASE ~ManyNodes(l)
      <3>1. Replicas(l) = 1 /\ size \in Nat /\ size <= n
        BY <1>1, <1>4, <2>1, <2>2, <2>4
      <3> HIDE DEF size, n, m
      <3>2. Product(l) = size
        BY <1>7, <1>8, <3>1, SMT
      <3> QED  BY <1>1, <1>2, <3>1, <3>2, SMT
    <2> QED  BY <2>3, <2>4
  <1>9. CASE ~Pipelined(l) /\ ~DpDeployment(l)
    <2>1. \/ size = 1
          \/ /\ ~(Ascend(l) /\ Backend(l) = "dp_deployment")
             /\ size = n * If(l.pd # "", 1, m)
      BY <1>9, OtherSizes
    <2>2. \/ size = 1
          \/ /\ ~(Ascend(l) /\ Backend(l) = "dp_deployment")
             /\ l.pd # "" /\ size = n
          \/ /\ ~(Ascend(l) /\ Backend(l) = "dp_deployment")
             /\ l.pd = "" /\ size = n * m
      <3>1. \/ l.pd # "" /\ If(l.pd # "", 1, m) = 1
            \/ l.pd = "" /\ If(l.pd # "", 1, m) = m
        BY DEF If
      <3> HIDE DEF size, n, m
      <3>2. n * 1 = n
        BY <1>1, SMT
      <3> QED  BY <2>1, <3>1, <3>2
    <2>3. CASE many
      <3>1. ~Ascend(l) => l.pd # ""
        BY <1>1, <2>3 DEF Backend, Ascend, VllmEngines, ManyNodes, If
      <3>2. size = 1 \/ size = n
        BY <2>2, <2>3, <3>1
      <3>3. RanksOf(l, main, 0).local = 1
        <4> HIDE DEF main
        <4> QED  BY <1>1, <1>5, <1>9, <2>3, RanksOfOneNode
      <3>4. Replicas(l) = 1 * l.nnodes /\ m = l.nnodes
        BY <1>1, <1>5, <2>3, <3>3
      <3> HIDE DEF size, n, m, many
      <3>5. Product(l) = 1 * 1 * (1 * m) \/ Product(l) = n * 1 * (1 * m)
        BY <1>7, <1>9, <3>2, <3>4
      <3> QED  BY <1>1, <1>2, <3>5, SMT
    <2>4. CASE ~many
      <3>1. Replicas(l) = 1
        BY <1>4, <2>4
      <3> HIDE DEF size, n, m, many
      <3>2. Product(l) = 1 * 1 * 1 \/ Product(l) = n * 1 * 1 \/ Product(l) = (n * m) * 1 * 1
        BY <1>7, <1>9, <2>2, <3>1
      <3>3. 1 <= n * 1
        BY <1>1, SMT
      <3>4. n * m \in Int
        BY <1>1, SMT
      <3> QED  BY <1>1, <1>2, <3>2, <3>3, <3>4, SMT
    <2> QED  BY <2>3, <2>4
  <1> QED  BY <1>6, <1>8, <1>9

(* A DeepSeek FP8 model: 4 of each, unless a forced file drops them *)
LEMMA Fp8Params ==
  ASSUME NEW l, Engine(l) \in VllmEngines, DeepseekFp8(l),
         NEW k \in ParallelKeys, k \notin Explicit(l)
  PROVE  /\ k \in DOMAIN EngineParams(l)
         /\ EngineParams(l)[k] = 4
  <1> DEFINE args     == CommonParams(l, ModelDefaults(l))
             chat     == ThinkingDefault(l, ReasoningParser(l, FunctionCall(l, args)))
             sized    == Parallelism(l, SequenceLength(l, chat))
             attached == Router(l, PdGuards(l, KvCache(l, sized)))
             atb      == Atb(l, attached)
             fp8      == SoftFp8(l, atb)
             quant    == SoftFp4(l, fp8)
             task     == Task(l, quant)
             result   == PoolingGuard(l, task)
  <1>1. EngineParams(l) = result
    BY DEF EngineParams, VllmParams, VllmEngines
  <1>2. k \in Watched
    BY DEF ParallelKeys, Watched, Sizes
  <1> HIDE DEF atb
  <1>3. k \in DOMAIN fp8 /\ fp8[k] = 4
    BY SoftFp8Sets DEF ParallelKeys
  <1> HIDE DEF fp8
  <1>4. Same(quant, fp8, k)
    BY <1>2, EnvironmentSettersKeep
  <1> HIDE DEF quant
  <1>5. Same(task, quant, k)
    BY <1>2, EnvironmentSettersKeep
  <1> HIDE DEF task
  <1>6. Same(result, task, k)
    BY <1>2, EnvironmentSettersKeep
  <1> HIDE DEF result
  <1> QED  BY <1>1, <1>3, <1>4, <1>5, <1>6 DEF Same

LEMMA Fp8Merged ==
  ASSUME NEW l, Free(l), DeepseekFp8(l), NEW k \in ParallelKeys, k \in DOMAIN EngineConfig(l)
  PROVE  EngineConfig(l)[k] = 4
  <1> DEFINE file == Translated(Engine(l), l.file)
             own == EngineParams(l)
             merged == FileMerged(l)
             given == CliOverrides(l, merged)
             sent == Over(given, l.raw)
             pooled == PoolingGuard(l, sent)
             result == Glm51Guard(l, pooled)
  <1>1. /\ k \in Watched /\ k \in Sizes /\ k # "kv_transfer_config"
        /\ Engine(l) \in VllmEngines
    BY DEF ParallelKeys, Watched, Sizes, Free
  <1>2. k \notin Explicit(l) /\ k \notin DOMAIN l.raw /\ k \notin DOMAIN l.file
    BY <1>1, MergedSizes DEF Free, Layers
  <1>3. k \notin DOMAIN file
    BY <1>1, <1>2, TranslatedSame DEF Same
  <1>4. k \in DOMAIN own /\ own[k] = 4
    BY <1>1, <1>2, Fp8Params
  <1>5. merged = file \/ merged = Over(own, file)
    BY DEF FileMerged
  <1> HIDE DEF file, own, merged
  <1>6. k \in DOMAIN merged => merged[k] = 4
    BY <1>3, <1>4, <1>5, OverKeeps DEF Same
  <1>7. Same(given, merged, k)
    BY <1>2 DEF CliOverrides, Same
  <1> HIDE DEF given
  <1>8. Same(sent, given, k)
    BY <1>2, OverKeeps
  <1> HIDE DEF sent
  <1>9. Same(pooled, sent, k)
    BY <1>1, EnvironmentSettersKeep
  <1> HIDE DEF pooled
  <1>10. Same(result, pooled, k)
    BY <1>1, WithoutKeeps, SameReflexive DEF Glm51Guard, If
  <1>11. EngineConfig(l) = result
    BY DEF EngineConfig, result, pooled, sent, given, merged
  <1> HIDE DEF result
  <1> QED  BY <1>6, <1>7, <1>8, <1>9, <1>10, <1>11 DEF Same

LEMMA Fp8Sizes ==
  ASSUME NEW l, Free(l), DeepseekFp8(l)
  PROVE  /\ ~Pipelined(l)
         /\ SizeOf(MainConfig(l), "pipeline_parallel_size") = 1
         /\ ~DpDeployment(l) => \A k \in ParallelKeys : SizeOf(MainConfig(l), k) \in {1, 4}
  <1> DEFINE ready == Ready(l, Merged(l))
             main == MainConfig(l)
  <1>1. l.model.arch \in {"DeepseekV3ForCausalLM", "DeepseekV32ForCausalLM"}
    BY DEF DeepseekFp8, DsFp8
  <1>2. ~Pipelined(l)
    BY <1>1 DEF Pipelined, RayPipeline
  <1>3. \A k : Same(main, ready, k)
    BY <1>2, MainSizes
  <1>4. DOMAIN Filled(l) = {}
    BY <1>1 DEF Filled, GlmDsa, Empty, If
  <1>5. ~DpDeployment(l) => DOMAIN Forced(l) = {}
    BY DEF Forced, Empty
  <1> HIDE DEF ready, main
  <1>6. ASSUME ~DpDeployment(l), NEW k \in ParallelKeys
        PROVE  SizeOf(main, k) \in {1, 4}
    <2>1. Same(ready, EngineConfig(l), k)
      BY <1>4, <1>5, <1>6, ReadySizes DEF ready
    <2>2. Same(main, EngineConfig(l), k)
      BY <1>3, <2>1, SameTransitive
    <2> QED  BY <1>6, <2>2, Fp8Merged DEF Same, SizeOf
  <1> QED  BY <1>2, <1>6, MainSizes DEF main

(* More than the cards hold: 4 of each *)
Overcommits(l) ==
  IF ManyNodes(l) /\ Backend(l) = "dp_deployment"
  THEN ~DpDeployment(l) /\ Cards(l) < 4
  ELSE Cards(l) * Nodes(l) < 16 \/ DpDeployment(l)

LEMMA Fp8Fits ==
  ASSUME NEW l, Free(l), DeepseekFp8(l), ~Overcommits(l), ~Command(l, Merged(l)).refused
  PROVE  Product(l) <= Cards(l) * Nodes(l)
  <1> DEFINE n == Cards(l)
             m == Nodes(l)
             main == MainConfig(l)
             s == SizeOf(main, "tensor_parallel_size")
             d == SizeOf(main, "data_parallel_size")
             h == RanksOf(l, main, 0).local
             many == ManyNodes(l) /\ Backend(l) = "dp_deployment"
  <1> SUFFICES Product(l) <= n * m
    OBVIOUS
  <1>1. /\ l \in Launches /\ ~Refused(l)
        /\ n \in Nat \ {0} /\ m \in Nat \ {0}
        /\ many => m = l.nnodes
    BY LaunchableHardware DEF Free, ManyNodes, Nodes, If
  <1>2. Product(l) = s * 1 * Replicas(l)
    BY Fp8Sizes DEF Product
  <1>3. Replicas(l) = IF many THEN RanksOf(l, main, 0).size ELSE d
    BY DEF Replicas
  <1>4. many => /\ Positive(main) /\ RanksFit(l, main)
                /\ RanksOf(l, main, 0).size = h * m
    BY <1>1, GroupFits
  <1>5. ~DpDeployment(l) => s \in {1, 4} /\ d \in {1, 4}
    BY Fp8Sizes DEF ParallelKeys
  <1>6. CASE many /\ DpDeployment(l)
    <2> DEFINE tp == DpTp(l, main)
    <2> HIDE DEF main
    <2>1. h \in Nat \ {0} /\ tp \in Nat \ {0} /\ h * tp <= n
      BY <1>1, <1>4, <1>6, RanksOfOneNode
    <2>2. s \in Nat /\ s <= tp
      <3>1. CASE "tensor_parallel_size" \in DOMAIN main
        <4>1. s = tp
          BY <3>1 DEF SizeOf, DpTp
        <4> QED  BY <2>1, <4>1
      <3>2. CASE "tensor_parallel_size" \notin DOMAIN main
        <4>1. s = 1
          BY <3>2 DEF SizeOf
        <4> QED  BY <2>1, <4>1
      <3> QED  BY <3>1, <3>2
    <2>3. Product(l) = s * 1 * (h * m)
      BY <1>2, <1>3, <1>4, <1>6
    <2> HIDE DEF s, h, n, m, tp
    <2>4. s * 1 * (h * m) = s * (h * m) /\ h * m \in Nat
      BY <1>1, <2>1, <2>2, SMT
    <2>5. s * (h * m) <= tp * (h * m)
      <3> DEFINE x == h * m
      <3>1. x \in Nat
        BY <2>4
      <3> HIDE DEF x
      <3>2. s * x <= tp * x
        BY <2>1, <2>2, <3>1, TimesGrows
      <3> QED  BY <3>2 DEF x
    <2>6. tp * (h * m) = (h * tp) * m /\ h * tp \in Int
      BY <1>1, <2>1, SMT
    <2>7. (h * tp) * m <= n * m
      BY <1>1, <2>1, <2>6, TimesGrows
    <2>8. /\ s * (h * m) \in Int /\ tp * (h * m) \in Int
          /\ (h * tp) * m \in Int /\ n * m \in Int
      BY <1>1, <2>1, <2>2, <2>4, <2>6, SMT
    <2>9. s * (h * m) <= (h * tp) * m
      BY <2>5, <2>6
    <2>10. s * (h * m) <= n * m
      BY <2>7, <2>8, <2>9, SMT
    <2> QED  BY <2>3, <2>4, <2>10
  <1>7. CASE many /\ ~DpDeployment(l)
    <2>1. 4 <= n
      BY <1>1, <1>7 DEF Overcommits
    <2>2. h = 1
      <3> HIDE DEF main
      <3> QED  BY <1>1, <1>4, <1>7, RanksOfOneNode
    <2>3. Product(l) = s * 1 * (1 * m) /\ s \in {1, 4}
      BY <1>2, <1>3, <1>4, <1>5, <1>7, <2>2
    <2> HIDE DEF s, n, m
    <2>4. s <= n /\ s \in Nat /\ s * 1 * (1 * m) = s * m
      BY <1>1, <2>1, <2>3, SMT
    <2>5. s * m <= n * m
      BY <1>1, <2>4, TimesGrows
    <2> QED  BY <2>3, <2>4, <2>5
  <1>8. CASE ~many
    <2>1. ~(n * m < 16) /\ ~DpDeployment(l)
      BY <1>8 DEF Overcommits
    <2>2. Product(l) = s * 1 * d /\ s \in {1, 4} /\ d \in {1, 4}
      BY <1>2, <1>3, <1>5, <1>8, <2>1
    <2> HIDE DEF s, d, n, m
    <2>3. s * 1 * d <= 16
      BY <2>2, SMT
    <2>4. n * m \in Int
      BY <1>1, SMT
    <2>5. s * 1 * d \in Int
      BY <2>2, SMT
    <2> QED  BY <2>1, <2>2, <2>3, <2>4, <2>5
  <1> QED  BY <1>6, <1>7, <1>8

(* The parallel sizes that the launcher computes, in the merge, in the     *)
(* adapter and for the nodes of a group, multiply up to no more than the   *)
(* cards there are, where nobody wrote one down; a DeepSeek FP8 model,     *)
(* whose 4 and 4 are computed without the cards                            *)
(* (core/config_loader.py:610-619), wherever 16 cards, or 4 of one node,   *)
(* make room for it.                                                       *)
THEOREM TopologyAlwaysFits == Spec => []TopologyFits
  <1>1. PlanInv => TopologyFits
    <2> SUFFICES ASSUME PlanInv, Built("main"), IsVllm, ~FixedTopology, ~Fp8Overcommits
                 PROVE  MainFits
      BY DEF TopologyFits
    <2>1. /\ Main = Command(launch, Merged(launch)).command
          /\ launch \in Launches /\ ~Refused(launch)
          /\ ~Command(launch, Merged(launch)).refused
      BY DEF PlanInv, TypeInv, StageInv, CommandsInv, Main
    <2>2. Free(launch)
      BY <2>1 DEF Free, FixedTopology, IsVllm, Flash
    <2>3. DeepseekFp8(launch) => ~Overcommits(launch)
      BY DEF Fp8Overcommits, Overcommits, Many, ManyNodes
    <2>4. Product(launch) <= Cards(launch) * Nodes(launch)
      BY <2>1, <2>2, <2>3, HalvesFit, OthersFit, Fp8Fits
    <2>5. Main.config = MainConfig(launch) /\ (Many <=> ManyNodes(launch))
      BY <2>1 DEF MainConfig, Many, ManyNodes
    <2> HIDE DEF Main
    <2> QED  BY <2>4, <2>5 DEF MainFits, Product, Replicas, SizeOf
  <1> QED  BY <1>1, PlanIsInvariant, PTL
=============================================================================
