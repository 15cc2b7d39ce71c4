# TLA+ models of the XNNPACK GEMM partitioner configs

Source: `src/backends/xnnpack/partition/config/gemm_configs.py` (577 lines).

## 1. The system

The XNNPACK partitioner asks one config object per operator family whether
a GEMM-like node of an exported `torch.fx` graph can be delegated, and if so,
which neighbouring nodes go with it. The configs in this file are
`LinearConfig`, `ConvolutionConfig`, `AddmmConfig` and `MMConfig`. All four
inherit `GEMMConfig`.

### Components, their state and operations

| Component | Code | State kept | Operations |
|---|---|---|---|
| OperatorProfile registry | config `__init__`s (60-65, 304-311, 347-354, 427-436, 553-557) | `weight_idx`, `bias_idx`, `act_idx`, `fused_acts`, constant per object | none |
| Precision detector / override | `_detect_precision` 87-97, `_overwrite_precision` 99-114 | none (reads the graph and `enabled_precision_types`) | classify FP32 / STATIC_QUANT / DYNAMIC_QUANT; force FP32 when only FP32 is enabled |
| Dependency resolvers | `_get_weight_deps` 147-191 (+ overrides 316-334, 438-449, 559-570), `_get_bias_deps` 234-254, `_get_act_deps` 256-298, `_get_output_deps` 193-232 | none | return `(valid, deps)` for one argument role |
| Orchestrator | `get_deps` 116-145, `check_constraints` 67-73, `get_node_and_deps` 75-82 | writes the implicit-q/dq tag into node meta | the two entry points the driver calls |
| Convolution constraints | `ConvolutionConfig.check_constraints` 356-409 | none | reject 3-D, dynamic non-2-D/depthwise, transposed with output padding, transposed per-channel with groups or the wrong axis |
| Source-partition adapter | `AddmmConfig.get_deps` 451-478, `get_deps_from_src_partition` 480-540 | `src_partitions`, a cache built lazily and kept for the object's lifetime; the addmm node's `args`/`users` while the call runs | trace addmm args back to the linear partition's boundary, fake a linear call, restore, then union (or, under the force flag, intersect) with the partition |

Outside `src/`, and modelled from their documented behaviour: the
partitioning driver; the `torch.fx` node accessors and the `Node.args`
setter; the quantization predicates; and `get_source_partitions`.

### Interactions

- The driver calls `check_constraints(node)` and then, if it accepts,
  `get_node_and_deps(node)`. Both run `get_deps`.
- `get_deps` detects the precision, applies the override, and runs the four
  resolvers with that precision. It tags the q/dq deps as implicit, and it
  tags them even when the result is invalid.
- The resolvers call each other through virtual dispatch.
  `LinearConfig._get_weight_deps` calls `_overwrite_precision` again.
- `AddmmConfig.get_deps` works in four steps:
  1. It builds the partition index once per config object.
  2. It finds the node's linear partition.
  3. It temporarily rewrites the node's `args`. This goes through the fx
     setter, which also edits the `users` of the old and new input nodes.
  4. It temporarily rewrites the node's `users`, calls `GEMMConfig.get_deps`
     recursively on the faked node, and then restores both.
- The same config objects, and so the same cache, serve every program the
  partitioner is given.

### What is hard

There are no threads. The hard behaviours are about order and state that
outlives a call:
- the swap-and-restore of the graph. It has no `finally`, and the swapped
  `users` is an alias, not a copy.
- a lazily built cache that is never invalidated.
- virtual dispatch that applies the precision override in only one subclass.
- Python truthiness of index 0.
- a flag meant for FP32 that also changes quantized results.
- tags written before validity is known.

### What makes each component correct

- Resolvers and orchestrator: an accepted cluster is self-contained. Every
  parameter it reads is claimed, unless weights are forced non-static. A
  static-quant cluster is sealed: data enters only through dq members and
  leaves only through q members. Only enabled precisions are accepted.
- Adapter: the graph is restored exactly. A decomposed linear is judged like
  the linear it came from. The faked arguments lie where the partition says.
- Cache: it reflects the program that is being partitioned.
- Convolution: only shapes XNNPACK supports are accepted.

## 2. Modules

| Module | Models |
|---|---|
| `GemmGraph.tla` | The exported program. `MkGraph(p, s)` builds a program's fx graph from a shape record `s`. The record gives the family; the weight kind (param, computed, dequantize per tensor/channel/group, channel-wise with literal scales, dequantize of a computed tensor); the activation kind (plain, static q/dq, dynamic q/dq with choose_qparams and getitems, the same with getitem2 reading a second choose_qparams, dq without q); the bias kind (none, param, computed, or `act`: the activation itself, as in `addmm(x, x, w)`); the output pattern (graph output, relu, q, relu→q, relu with two users, two users); the linear source partition for addmm/mm (none, plain, with 3-D views, with a second output); and the conv attributes. Nodes of program `p` are `<<p, role>>`. `MkPair(p, s)` joins two such programs into one exported program with two GEMM calls, `<<<<p,1>>, role>>` and `<<<<p,2>>, role>>`. `share` (`Shares`) says which nodes the second call takes from the first (`Renamed`):
  - `act`: the activation chain (`ActChain`: x, its q/dq, choose_qparams and getitems).
  - `weight`: the weight chain (`WeightChain`), as when one `nn.Linear` is applied twice.
  - `chain`: the first call's result, so the pair is two layers of an MLP. The second call's float input is `FloatTail`, its activation quantize is the first call's output quantize, and the first result is no longer a graph output (`Kept`). `ChainWellFormed` pairs a quantized result only with a static-quant consumer.

  Users are recomputed from args (`UsersFrom`). `Program(p, s)` builds either kind of program. |
| `GemmConfig.tla` | The pure resolvers as operators over a graph record and a config `[enabled, force]`: `DetectPrecision`, `OverwritePrecision`, `LinearProfile`/`ConvProfile`/`AddmmProfile`/`MMProfile` (constructor indices), `BaseWeightDeps`, the overrides `LinearWeightDeps`/`AddmmWeightDeps`/`MMWeightDeps` and their dispatch `WeightDeps`, `BiasDeps`, `ActDeps`, `OutputDeps`, `BaseGetDeps`, `ConvConstraintsOK`, and the adapter: `FindPartitionArg` (RECURSIVE), `FakeArgs`, `SourcePartitionValid`, `SetArgs` (fx setter), `SetUsers`, `AdapterGetDeps`. The adapter's result includes the graph as it is after the call and the tags it wrote. |
| `GemmPartitioner.tla` | The state machine, with variables `cfg`, `prog`, `shape`, `graph`, `cache` (src_partitions of the addmm and mm objects), `tagged`, and `decided` (the driver's verdict per GEMM node, with ghost precision and route). There is one action per entry point: `CheckConstraints(n, r)` and `GetNodeAndDeps(n, r)`, where `r` is the result of the `GetDeps(n)` call the entry point makes. `GetDeps(n)` is `ResolveNode(graph, cache, cfg, n)`, which is `AddmmConfig.get_deps` as a pure function of the graph, the index and the config. `FreshIndex` is the unbuilt index of a new config object. Each action is the whole call, with cache build, adapter swap/restore and tagging included. `LoadProgram` hands the same configs the next program. `Driver` is one call of the driver on some node. The properties are stated here, and so is the refinement mapping `Verdict` to `GemmContract`: a node that check_constraints accepted but that get_node_and_deps has not yet clustered is still pending for the contract. |
| `GemmContract.tla` | The abstract specification, written from `spec.md` sections 4.2-4.10 rather than from the resolvers. Its only state per program is a `verdict` per GEMM node: pending, rejected, or clustered together with a closure. `Decide` settles one node at once with the declarative closure of the design: the static weight chain (with the channel scale and zero point), the bias, the activation's q/dq chain with every accessor's choose_qparams, and the fused activation and output quantize. For addmm/mm in a linear source partition, the closure is that of the linear call, merged with the partition. `SafetySpec` is `Init /\ [][Next]_cvars`; the contract is a safety specification only. |
| `MC_Gemm.tla` | Shape and config sets for TLC. |

The variables map to the code as follows:
- `graph.args` and `graph.users` are `node.args` and `node.users`.
- `cache[f]` is `self.src_partitions` of the config object for family `f`.
- `tagged` is the set of nodes with the implicit-q/dq meta tag.

Abstractions:
- Deps are sets, not lists. Callers only test membership, union, intersect
  and tag them.
- Users are sets, not dicts. The code reads a user only when there is
  exactly one.
- Literal arguments (scales, strides) are the model value `Lit`.
- Conv strides and paddings are reduced to a length and an all-zero flag.
- `check_common_constraints` is assumed to pass.

## 3. Runs

| Run | Expect | Checks | Bounds |
|---|---|---|---|
| `core` | pass | `TypeOK`, `ProgramUnchanged`, `ClusterSelfContained`, `StaticClusterSealed`, `DynamicClusterSealed` | all 3276 well-formed shapes (8 conv variants), all 7 non-empty enabled sets, force off, 1 program: 96,816 states |
| `reuse` | pass | `ForcedWeightsNotClaimed` | 120 linear/addmm/mm shapes, all 14 configs (force on and off), 2 programs per partitioner: 115,480 states; fires `LoadProgram` |
| `enabled_precision` | violation | `OnlyEnabledPrecisions` | as `core` |
| `adapter_bias` | violation | `AdapterBiasInPartition` | as `core` |
| `stale_index` | violation | `PartitionIndexCurrent` | as `reuse`, force off |
| `linear_equiv` | violation | `AddmmAgreesWithLinear` | as `core` |
| `force_static` | violation | `StaticClusterSealed` | as `core`, force on and off |
| `two_qparams` | violation | `DynamicClusterSealed` | dynamic activations with one or two choose_qparams behind the getitems, every family, force off |
| `stray_tags` | violation | `ImplicitTagsInsideClusters` | as `core` |
| `contract` | pass | `ProgramUnchanged`, `IndependentVerdicts`, `Refinement` (`GemmContract!SafetySpec` under `Verdict`) | all 3276 one-GEMM shapes; two-GEMM programs of every family with param or channel-wise weights, plain, static or dynamic activations shared or not, or one weight shared by two calls, source partitions bare, linear or with views; two-layer MLPs of linear, conv and addmm layers (FP32, static, dynamic; relu or output quantize; bare or with views); all precisions enabled, force on and off: 82,076 states |
| `same_bias` | violation | `BiasIsStaticParam` | linear and addmm called directly, param or channel-wise weight, plain or static activation, bias a parameter or the activation itself; every precision enabled, force on and off |

Why the bounds are enough:
- One GEMM node per program suffices. The resolution of one node reads only
  that node's neighbourhood and the state that outlives calls (graph
  mutation, cache, tags), and all of that state is in the model.
- The shapes reach every early return of every resolver and every
  convolution check.
- Two programs are enough to expose anything the cache carries over.
- Two GEMM calls in one program are enough for the state one call leaves
  for another within a program: the partition index built on the first
  addmm/mm call, the adapter's args/users swap, the tags, and a shared
  activation chain. The driver's choice of node gives both visiting orders.
  Each call keeps its own graph output, which abstracts one output node.
  In an MLP pair the first call's result feeds the second instead.
- Two layers are enough for a chain: each resolution reads one node's
  inputs and users, so a third layer sees what the second sees.

All runs set `CHECK_DEADLOCK FALSE`: partitioning ends when every node has
been decided and no program is left.

### Refinement

`Refinement` checks that the implementation satisfies the contract, which
is a safety specification. No liveness is claimed: the only thing that
could fail to happen is a driver step, and the driver is outside `src/`, so
a fairness assumption about it would say nothing about this code. The
`find_partition_args` walk terminates because fx graphs are acyclic. The
adapter binds its swapped graph and inner result through one-element sets,
so that TLC evaluates them once per step.

The contract run enables every precision, so it checks neither the
enabled-precision gate nor the FP32-only override. On the other enabled
sets the code and the contract are known to disagree:
- the gate accepts disabled precisions (finding 1);
- with only FP32 enabled, a quantized addmm/mm is rejected (finding 4);
- with only FP32 enabled, a quantized linear still claims its bias
  parameter, because the guard at line 238 tests only the force flag,
  while in the contract (spec 4.3) an overridden node's bias is not static;
- with only FP32 enabled, a quantized convolution is rejected: its
  dequantized weight is re-checked as an FP32 parameter, while the contract
  accepts it as FP32 with the weight left outside.

Only the first two have runs of their own.

### Findings (the violation runs)

1. **Disabled precisions are accepted** (line 127). The gate checks
   `supported_precision_types()`, which contains all three precisions, not
   the enabled ones. With only STATIC_QUANT enabled, an FP32 convolution is
   delegated.
2. **The adapter's bias check is dead** (line 511). For addmm `bias_idx` is
   0, which is falsy. If the check did run, it would reject every linear
   with a bias, because the bias is a partition input, not a partition node.
3. **The partition index is stale** (line 461). The index built for the
   first program is reused. Addmm/mm nodes of a second program are then
   resolved without their partition and rejected.
4. **The override is honoured only by LinearConfig** (lines 316-334 and
   438-449). With only FP32 enabled, a quantized linear is accepted as
   `linear` but rejected as `addmm`/`mm`.
5. **The force flag rewrites quantized addmm clusters** (line 534). The
   intersection strips the q/dq nodes, so the cluster is no longer sealed.
6. **Only getitem1's choose_qparams is claimed** (line 293). A dynamic
   quantize may take its zero point from a getitem of a second
   choose_qparams. `is_dynamic_qdq` accepts this, and the cluster is
   accepted without that choose_qparams. The cluster then reads a tensor
   computed outside it.
7. **Tags outlive rejected nodes** (line 141). `get_deps` tags q/dq deps
   before it knows the result is valid. Take a static-quant convolution
   whose activation has no dequantize: it is rejected, but its weight
   dequantize and output quantize stay tagged as implicit and lie in no
   cluster. The spec calls tagged nodes partition-internal and does not say
   what happens to the tags of a rejected node.
8. **A bias that is the activation is never checked** (line 246).
   `_get_bias_deps` decides whether there is a bias from
   `len(node.all_input_nodes) > 2`, which counts distinct nodes. In
   `addmm(x, x, w)` or `linear(x, w, x)` the bias is the activation, the
   count is 2, and the node is delegated with a bias that is not a static
   parameter and is not in its cluster. The comment at line 250 and spec
   section 7 (MissingStaticParameter) say the bias must be a static
   parameter, and the same call with any other computed bias is rejected.
   Run `same_bias`.

Two calls that read one dynamically quantized activation, or one weight,
both claim the shared choose_qparams or weight. This is by design: spec
sections 4.4 and 4.6 put these nodes in each call's closure, and the driver
takes the union of the node lists. The contract run includes such pairs.

### Order independence (`contract`)

`IndependentVerdicts` compares each verdict with the verdict that the node
gets alone, on the pristine program, with a fresh index (spec section 5:
decisions do not depend on the order nodes are visited). It holds. The
index is built from the whole graph on the first addmm/mm call, and the
adapter restores args and users before it returns.

## 4. Not modelled

- Logging and `why` reasons.
- `get_original_aten`.
- The dtype checks of `XNNPartitionerConfig`.
- Stitching of partitions by the driver.
- Exceptions inside the faked `get_deps` (no `finally`, line 526). On
  graphs the code accepts, nothing there can raise. Every faked argument is
  a node, and every lookup is guarded. So the model's resolvers are total.
- A node in two linear source partitions (line 468, where the last match
  would win). `get_source_partitions` keys each node by its last
  `source_fn_stack` entry, so it lies in at most one partition, and the
  case cannot arise.
- Graphs where a quantize and its dequantize use different getitems.
- Liveness. Every call decides its node, so "every node is eventually
  decided" would hold by the shape of the driver, not because of the code.

## 5. Plan

1. (done) `GemmConfig`: the resolvers, the orchestrator, the convolution
   checks and the adapter. `GemmPartitioner`: the driver-level state
   machine, with the cache and graph mutation.
2. (done) The safety properties and findings 1-5.
3. (done) Per-family weight overrides and profiles as separate operators.
   `DynamicClusterSealed` and finding 6. `ImplicitTagsInsideClusters` and
   finding 7. `GemmContract` and
   `Refinement`.
4. (done) Programs with two GEMM nodes that may share an activation, with
   the driver resolving them in either order: `IndependentVerdicts`.
5. (done) Two-layer MLPs in the contract run. They pass every property,
   including restoration and order independence across the adapter's swap
   of the second layer's args. Calls that share one weight or one dynamic
   activation.
6. (done) A bias that is the activation itself: `BiasIsStaticParam` and
   finding 8.
7. Next: a contract run over the other enabled sets, once the known
   disagreements above are settled.
