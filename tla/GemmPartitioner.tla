-------------------------- MODULE GemmPartitioner --------------------------
(***************************************************************************)
(* The GEMM configs of one XNNPACK partitioner as the partitioning driver  *)
(* uses them: for each GEMM node of the program it calls check_constraints *)
(* and, if that accepts, get_node_and_deps; the same config objects are    *)
(* then handed the next exported program.  The state is what survives     *)
(* between these calls:                                                    *)
(*   graph   the fx graph of the current program (args/users are mutable   *)
(*           by the addmm source-partition adapter),                       *)
(*   cache   AddmmConfig.src_partitions of the addmm and mm config objects,*)
(*   tagged  the nodes carrying the implicit q/dq tag,                     *)
(*   decided the driver's record of each GEMM node (ghost: the precision   *)
(*           and route the resolver took).                                 *)
(***************************************************************************)
EXTENDS GemmConfig

CONSTANTS
    Shapes,         \* program shapes the exporter can hand over
    Configs,        \* partitioner configurations [enabled, force]
    MaxPrograms     \* how many programs one partitioner instance sees

ASSUME /\ \A s \in Shapes : ProgramShape(s)
       /\ Configs \subseteq [enabled : SUBSET Precisions \ {{}}, force : BOOLEAN]
       /\ MaxPrograms \in Nat \ {0}

VARIABLES cfg, prog, shape, graph, cache, tagged, decided
vars == <<cfg, prog, shape, graph, cache, tagged, decided>>

CachedFams == {"addmm", "mm"}
Statuses   == {"pending", "accepted", "rejected", "clustered"}
Routes     == {"direct", "partition"}

Gemms(gr)  == {n \in DOMAIN gr.target : gr.target[n] \in Range(FamTarget)}
FamOf(n)   == CHOOSE f \in Families : FamTarget[f] = graph.target[n]
Pristine   == Program(prog, shape)
Fresh(gr)  == [n \in Gemms(gr) |->
                 [status |-> "pending", prec |-> "FP32", route |-> "direct",
                  cluster |-> {}]]

(* A resolver result r of GEMMConfig.get_deps on the unchanged graph gr. *)
Plain(gr, r, idx) == [valid |-> r.valid, deps |-> r.deps, prec |-> r.prec,
                      graph |-> gr, tags |-> ImplicitQDQ(gr, r.deps),
                      route |-> "direct", cache |-> idx]

(* No config object has built its source-partition index yet. *)
FreshIndex == [f \in CachedFams |-> [built |-> FALSE, parts |-> {}]]

(* Mutant: the index keeps only the partitions of the first node looked up. *)
ResolveNodeCacheMine(gr, idx, c, n) ==
  LET fam   == FamOf(n)
      parts == IF idx[fam].built THEN idx[fam].parts ELSE gr.srcParts
      mine  == {P \in parts : n \in P.nodes}
      built == [idx EXCEPT ![fam] = [built |-> TRUE, parts |-> mine]]
  IN CASE fam \in CachedFams /\ mine # {} ->
            AdapterGetDeps(gr, n, fam, OnlyElem(mine), c)
              @@ [route |-> "partition", cache |-> built]
       [] fam \in CachedFams -> Plain(gr, BaseGetDeps(gr, n, fam, c), built)
       [] OTHER              -> Plain(gr, BaseGetDeps(gr, n, fam, c), idx)

(* get_deps of the config object for node n's family, on graph gr with    *)
(* the index state idx and configuration c.  AddmmConfig.get_deps builds  *)
(* the source-partition index on first use, looks the node up in it (the  *)
(* last partition containing it wins) and either fakes the linear call or *)
(* falls back to GEMMConfig.get_deps.  ConvolutionConfig and LinearConfig *)
(* use GEMMConfig.get_deps directly.                                       *)
ResolveNode(gr, idx, c, n) ==
  LET fam   == FamOf(n)
      parts == IF idx[fam].built THEN idx[fam].parts ELSE gr.srcParts
      mine  == {P \in parts : n \in P.nodes}
      built == [idx EXCEPT ![fam] = [built |-> TRUE, parts |-> parts]]
  IN CASE fam \in CachedFams /\ mine # {} ->
            AdapterGetDeps(gr, n, fam, OnlyElem(mine), c)
              @@ [route |-> "partition", cache |-> built]
       [] fam \in CachedFams -> Plain(gr, BaseGetDeps(gr, n, fam, c), built)
       [] OTHER              -> Plain(gr, BaseGetDeps(gr, n, fam, c), idx)

(* The get_deps call the driver's next call on node n makes. *)
GetDeps(n) == ResolveNode(graph, cache, cfg, n)

Init ==
  /\ cfg \in Configs
  /\ prog = 1
  /\ shape \in Shapes
  /\ graph = Program(1, shape)
  /\ cache = FreshIndex
  /\ tagged = {}
  /\ decided = Fresh(graph)

(* check_constraints (GEMMConfig, and ConvolutionConfig's override) on     *)
(* node n, whose get_deps call returns r.                                  *)
CheckConstraints(n, r) ==
  /\ decided[n].status = "pending"
  /\ LET ok == r.valid /\ (FamOf(n) = "conv" => ConvConstraintsOK(r.graph, n))
     IN decided' = [decided EXCEPT ![n] =
                      [status |-> IF ok THEN "accepted" ELSE "rejected",
                       prec |-> r.prec, route |-> r.route, cluster |-> {}]]
  /\ graph' = r.graph
  /\ cache' = r.cache
  /\ tagged' = tagged \cup r.tags
  /\ UNCHANGED <<cfg, prog, shape>>

(* get_node_and_deps, called by the driver on an accepted node n, whose   *)
(* get_deps call returns r.                                                *)
GetNodeAndDeps(n, r) ==
  /\ decided[n].status = "accepted"
  /\ decided' = [decided EXCEPT ![n].status = "clustered",
                                ![n].cluster = {n} \cup r.deps]
  /\ graph' = r.graph
  /\ cache' = r.cache
  /\ tagged' = tagged \cup r.tags
  /\ UNCHANGED <<cfg, prog, shape>>

(* The same partitioner (and its config objects) is handed the next        *)
(* exported program once every GEMM node of this one is decided.           *)
LoadProgram ==
  /\ prog < MaxPrograms
  /\ \A n \in DOMAIN decided : decided[n].status \in {"rejected", "clustered"}
  /\ \E s \in Shapes :
       /\ prog' = prog + 1
       /\ shape' = s
       /\ graph' = Program(prog + 1, s)
       /\ decided' = Fresh(Program(prog + 1, s))
  /\ tagged' = {}
  /\ UNCHANGED <<cfg, cache>>

(* One call of the driver on some GEMM node of the program. *)
Driver ==
  \E n \in DOMAIN decided : \E r \in {GetDeps(n)} :
    CheckConstraints(n, r) \/ GetNodeAndDeps(n, r)

Next == Driver \/ LoadProgram

Spec == Init /\ [][Next]_vars

-----------------------------------------------------------------------------
TypeOK ==
  /\ cfg \in Configs
  /\ prog \in 1..MaxPrograms
  /\ shape \in Shapes
  /\ DOMAIN graph.args = DOMAIN Pristine.args
  /\ \A f \in CachedFams : cache[f].built \in BOOLEAN
  /\ tagged \subseteq {m \in DOMAIN graph.target : IsQuant(graph, m) \/ IsDequant(graph, m)}
  /\ DOMAIN decided = Gemms(Pristine)
  /\ \A n \in DOMAIN decided :
       /\ decided[n].status \in Statuses
       /\ decided[n].prec \in Precisions
       /\ decided[n].route \in Routes
       /\ decided[n].cluster \subseteq DOMAIN graph.target

Inputs(gr, m)   == ToSet(AllInputNodes(gr, m))
Decided(n)      == decided[n].status # "pending"
Accepted(n)     == decided[n].status \in {"accepted", "clustered"}
Clustered(n)    == decided[n].status = "clustered"

(* Restoration.  Whatever GEMM node the driver resolves, every node's      *)
(* args and users afterwards are those of the exported program: the addmm *)
(* adapter's swap of args (which fx propagates into other nodes' users)   *)
(* and of users is fully undone (gemm_configs.py lines 500-530).           *)
ProgramUnchanged == graph = Pristine

(* Self-contained static data.  Every lifted parameter that a member of an *)
(* accepted cluster reads (weight, bias, per-channel scale and zero point) *)
(* is itself in the cluster, unless force_non_static_weights_for_f32_linear *)
(* asks for the weights of an FP32 gemm to stay outside.                   *)
ClusterSelfContained ==
  \A n \in DOMAIN decided :
    Clustered(n) /\ ~(cfg.force /\ decided[n].prec = "FP32") =>
      \A m \in decided[n].cluster : \A a \in Inputs(Pristine, m) :
        IsParamNode(Pristine, a) => a \in decided[n].cluster

(* Sealed static-quant clusters.  A statically quantized gemm is taken     *)
(* together with its q/dq wrappers so that data enters the cluster only    *)
(* through a dequantize member and leaves it only through a quantize       *)
(* member ("every static-quantized gemm must be followed by quantize,      *)
(* optionally through one fused activation", _get_output_deps / _get_act_deps). *)
StaticClusterSealed ==
  \A n \in DOMAIN decided :
    Clustered(n) /\ decided[n].prec = "STATIC_QUANT" =>
      \A m \in decided[n].cluster :
        /\ Pristine.users[m] \ decided[n].cluster # {} => IsQuant(Pristine, m)
        /\ Inputs(Pristine, m) \ decided[n].cluster # {} => IsDequant(Pristine, m)

(* External inputs of a cluster: the nodes outside it that members read. *)
ExternalInputs(C) == UNION {Inputs(Pristine, m) \ C : m \in C}

(* Sealed dynamic-quant clusters.  A dynamically quantized gemm is taken  *)
(* with its whole runtime-calibration chain (dequantize, quantize, both   *)
(* getitems, choose_qparams: _get_act_deps) and its weight chain, so the  *)
(* delegate reads exactly one tensor from outside: the float activation   *)
(* that both the quantize and choose_qparams consume.                     *)
DynamicClusterSealed ==
  \A n \in DOMAIN decided :
    Clustered(n) /\ decided[n].prec = "DYNAMIC_QUANT" =>
      Cardinality(ExternalInputs(decided[n].cluster)) = 1

(* Forced non-static weights.  With force_non_static_weights_for_f32_linear *)
(* an FP32 linear, addmm or mm cluster claims no parameter: weight and bias *)
(* stay inputs of the delegate (the overrides of _get_weight_deps and the   *)
(* first branch of _get_bias_deps).                                        *)
ForcedWeightsNotClaimed ==
  \A n \in DOMAIN decided :
    Clustered(n) /\ cfg.force /\ decided[n].prec = "FP32" /\ FamOf(n) # "conv" =>
      decided[n].cluster \cap Pristine.params = {}

(* Static bias.  "Expected bias to be a static param" (_get_bias_deps,   *)
(* lines 246-251; spec sections 4.5 and 7, MissingStaticParameter): a     *)
(* delegated GEMM node whose bias argument is a node reads it as a lifted *)
(* parameter inside its cluster, unless force_non_static_weights_for_f32_ *)
(* linear keeps the parameters of an FP32 gemm outside.                    *)
BiasIsStaticParam ==
  \A n \in DOMAIN decided :
    Clustered(n) /\ ~(cfg.force /\ decided[n].prec = "FP32") =>
      LET b == Arg(Pristine, n, Profile(FamOf(n)).bias)
      IN IsNode(Pristine, b) => IsParamNode(Pristine, b) /\ b \in decided[n].cluster

(* Enabled precisions.  "detected precision but it is either disabled or   *)
(* not supported" (get_deps, line 128): a node is accepted only at a       *)
(* precision the partitioner has enabled.                                  *)
OnlyEnabledPrecisions ==
  \A n \in DOMAIN decided : Accepted(n) => decided[n].prec \in cfg.enabled

(* Bias of a faked linear call.  "bias must be in source partition"        *)
(* (get_deps_from_src_partition, line 510): an addmm accepted through its  *)
(* source partition has its bias argument traced to a partition node.      *)
AdapterBiasInPartition ==
  \A n \in DOMAIN decided :
    Accepted(n) /\ decided[n].route = "partition" /\ FamOf(n) = "addmm" =>
      \A P \in Pristine.srcParts :
        FindPartitionArg(Pristine, P, Pristine.args[n][1]) \in P.nodes

(* Current source-partition index.  An addmm/mm node that lies in a linear *)
(* source partition of the program being partitioned is resolved through  *)
(* that partition (AddmmConfig.get_deps).                                  *)
PartitionIndexCurrent ==
  \A n \in DOMAIN decided :
    Decided(n) /\ FamOf(n) \in CachedFams
      /\ (\E P \in Pristine.srcParts : n \in P.nodes) =>
      decided[n].route = "partition"

(* Decomposed linear = native linear.  An addmm/mm that is a decomposed    *)
(* single-output linear call is accepted exactly when LinearConfig would   *)
(* accept the linear call it came from.                                    *)
LinearAccepts ==
  LET lg == MkGraph(prog, [shape EXCEPT !.fam = "linear", !.part = "bare"])
  IN BaseGetDeps(lg, <<prog, "g">>, "linear", cfg).valid
AddmmAgreesWithLinear ==
  \A n \in DOMAIN decided :
    Decided(n) /\ decided[n].route = "partition" /\ shape.part # "linear_2out" =>
      (Accepted(n) <=> LinearAccepts)
(* Implicit q/dq nodes are partition-internal.  Once the driver has       *)
(* settled every GEMM node, each q/dq node that get_deps tagged as         *)
(* implicit lies inside the cluster of a delegated GEMM node (tagging in   *)
(* GEMMConfig.get_deps, line 141, against the verdicts of                  *)
(* check_constraints and get_node_and_deps).                               *)
ImplicitTagsInsideClusters ==
  (\A n \in DOMAIN decided : decided[n].status \in {"rejected", "clustered"})
    => tagged \subseteq UNION {decided[n].cluster : n \in DOMAIN decided}
(* The verdict a driver would reach on node n alone: taken with its deps  *)
(* when r, its get_deps result, is valid (and a convolution passes its    *)
(* checks).                                                                *)
SoloVerdict(n, r) ==
  IF r.valid /\ (FamOf(n) = "conv" => ConvConstraintsOK(r.graph, n))
  THEN [status |-> "clustered", cluster |-> {n} \cup r.deps]
  ELSE [status |-> "rejected", cluster |-> {}]

(* Independent resolution.  "Resolution for one node must not observe or  *)
(* depend on resolution results for another node within the same pass"   *)
(* (spec section 5): whichever GEMM node the driver visits first, and     *)
(* although check_constraints and get_node_and_deps each re-run get_deps  *)
(* on a graph the adapter swaps and restores and with an index the first  *)
(* addmm/mm lookup builds, every settled node has the verdict it would    *)
(* have on the exported program with no index built.                      *)
IndependentVerdicts ==
  \A n \in DOMAIN decided :
    decided[n].status \in {"rejected", "clustered"} =>
      [status |-> decided[n].status, cluster |-> decided[n].cluster]
        = SoloVerdict(n, ResolveNode(Pristine, FreshIndex, cfg, n))

-----------------------------------------------------------------------------
(* Refinement of GemmContract: a node the driver has accepted but not yet *)
(* clustered is still undecided for the contract.                          *)
Verdict == [n \in DOMAIN decided |->
              IF decided[n].status \in {"pending", "accepted"}
              THEN [status |-> "pending", cluster |-> {}]
              ELSE [status |-> decided[n].status, cluster |-> decided[n].cluster]]

Contract == INSTANCE GemmContract WITH verdict <- Verdict

(* The configs keep the design's promise: a node is decided at most once, *)
(* and it is taken exactly when the design's closure is valid (and, for a  *)
(* convolution, supported), together with exactly that closure (get_deps,  *)
(* get_node_and_deps, check_constraints, and the source-partition adapter  *)
(* for addmm/mm).                                                          *)
Refinement == Contract!SafetySpec
=============================================================================
