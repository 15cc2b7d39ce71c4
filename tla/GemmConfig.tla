----------------------------- MODULE GemmConfig -----------------------------
(***************************************************************************)
(* The resolvers of gemm_configs.py as operators over a graph record gr    *)
(* (module GemmGraph) and a partitioner configuration cfg =                *)
(* [enabled : SUBSET Precisions, force : BOOLEAN], where force is          *)
(* force_non_static_weights_for_f32_linear.  Each resolver returns the     *)
(* pair (valid, deps) of the code as a record; deps is a set, because the  *)
(* callers only test membership, union, intersect and tag it.             *)
(*                                                                         *)
(* Argument indices are the code's 0-based Python indices; NoIdx stands    *)
(* for bias_idx = None.                                                    *)
(***************************************************************************)
EXTENDS GemmGraph

Precisions == {"FP32", "STATIC_QUANT", "DYNAMIC_QUANT"}
NoIdx      == -1
FusedActs  == {"relu", "hardtanh"}

Ok(d)  == [valid |-> TRUE, deps |-> d]
Fail   == [valid |-> FALSE, deps |-> {}]

(* Python truthiness of an index: None and 0 are both false. *)
Truthy(i) == i \notin {NoIdx, 0}

(***************************************************************************)
(* Graph accessors and predicates of xnnpack/utils (outside this file).    *)
(***************************************************************************)
IsNode(gr, a)    == a \in DOMAIN gr.target
Arg(gr, n, i)    == IF IsNode(gr, n) /\ i >= 0 /\ i < Len(gr.args[n])
                    THEN gr.args[n][i + 1] ELSE NoneArg
RECURSIVE DedupSeq(_)
DedupSeq(s) == IF s = <<>> THEN <<>>
               ELSE <<Head(s)>> \o DedupSeq(SelectSeq(Tail(s), LAMBDA e : e # Head(s)))
AllInputNodes(gr, n) == DedupSeq(SelectSeq(gr.args[n], LAMBDA a : IsNode(gr, a)))
HasTarget(gr, a, t)  == IsNode(gr, a) /\ gr.target[a] = t
IsDequant(gr, a)     == HasTarget(gr, a, "dequantize")
IsQuant(gr, a)       == HasTarget(gr, a, "quantize")
IsGetitem(gr, a)     == HasTarget(gr, a, "getitem")
IsQparam(gr, a)      == HasTarget(gr, a, "choose_qparams")
IsParamNode(gr, a)   == a \in gr.params
IsPerTensor(gr, a)   == gr.gran[a] = "tensor"
IsPerChannelOrGroup(gr, a) == gr.gran[a] \in {"channel", "group"}
IsFusedAct(gr, a)    == IsNode(gr, a) /\ gr.target[a] \in FusedActs
(* is_dynamic_qdq: a q/dq whose scale and zero point are getitems of a     *)
(* choose_qparams node.                                                    *)
IsDynamicQDQ(gr, a) ==
  /\ IsDequant(gr, a) \/ IsQuant(gr, a)
  /\ \A i \in {1, 2} : IsGetitem(gr, Arg(gr, a, i))
                       /\ IsQparam(gr, Arg(gr, Arg(gr, a, i), 0))
OnlyElem(S) == CHOOSE e \in S : TRUE

(***************************************************************************)
(* OperatorProfile: the constructor arguments of LinearConfig,            *)
(* ConvolutionConfig, AddmmConfig and MMConfig.                            *)
(***************************************************************************)
LinearProfile == [weight |-> 1, bias |-> 2, act |-> 0]
ConvProfile   == [weight |-> 1, bias |-> 2, act |-> 0]
AddmmProfile  == [weight |-> 2, bias |-> 0, act |-> 1]
(* MMConfig runs AddmmConfig.__init__ and then overwrites the indices. *)
MMProfile     == [AddmmProfile EXCEPT !.bias = NoIdx, !.weight = 1, !.act = 0]

(* GEMMConfig.__init__ stores the profile of the config's family. *)
Profile(fam) ==
  CASE fam = "linear" -> LinearProfile
    [] fam = "conv"   -> ConvProfile
    [] fam = "addmm"  -> AddmmProfile
    [] fam = "mm"     -> MMProfile

SupportedPrecisionTypes(fam) == Precisions

(* GEMMConfig._detect_precision *)
DetectPrecision(gr, n, fam) ==
  CASE ~IsDequant(gr, Arg(gr, n, Profile(fam).weight))          -> "FP32"
    [] IsDynamicQDQ(gr, Arg(gr, n, Profile(fam).act))           -> "DYNAMIC_QUANT"
    [] OTHER                                                    -> "STATIC_QUANT"

(* GEMMConfig._overwrite_precision: (overwritten, precision) *)
OverwritePrecision(gr, n, fam, cfg) ==
  LET p == DetectPrecision(gr, n, fam)
  IN IF /\ p \notin cfg.enabled
        /\ cfg.enabled = {"FP32"}
        /\ p \in {"STATIC_QUANT", "DYNAMIC_QUANT"}
     THEN [over |-> TRUE,  prec |-> "FP32"]
     ELSE [over |-> FALSE, prec |-> p]

(* Mutant: the scale/zero-point slice starts one too late ([2:3]). *)
BaseWeightDepsSliceOff(gr, n, fam, prec) ==
  LET w  == Arg(gr, n, Profile(fam).weight)
      wt == Arg(gr, w, 0)
      qp == AllInputNodes(gr, w)
  IN CASE prec = "FP32" /\ IsParamNode(gr, w)                -> Ok({w})
       [] prec = "FP32"                                      -> Fail
       [] ~IsDequant(gr, w) \/ ~IsParamNode(gr, wt)          -> Fail
       [] IsPerTensor(gr, w) /\ prec = "DYNAMIC_QUANT"       -> Fail
       [] IsPerChannelOrGroup(gr, w) /\ Len(qp) < 2          -> Fail
       [] IsPerChannelOrGroup(gr, w) ->
            Ok({w, wt} \cup ToSet(SubSeq(qp, 3, IF Len(qp) < 3 THEN Len(qp) ELSE 3)))
       [] OTHER                                              -> Ok({w, wt})

(* GEMMConfig._get_weight_deps *)
BaseWeightDeps(gr, n, fam, prec) ==
  LET w  == Arg(gr, n, Profile(fam).weight)
      wt == Arg(gr, w, 0)
      qp == AllInputNodes(gr, w)
  IN CASE prec = "FP32" /\ IsParamNode(gr, w)                -> Ok({w})
       [] prec = "FP32"                                      -> Fail
       [] ~IsDequant(gr, w) \/ ~IsParamNode(gr, wt)          -> Fail
       [] IsPerTensor(gr, w) /\ prec = "DYNAMIC_QUANT"       -> Fail
       [] IsPerChannelOrGroup(gr, w) /\ Len(qp) < 2          -> Fail
       [] IsPerChannelOrGroup(gr, w) ->
            Ok({w, wt} \cup ToSet(SubSeq(qp, 2, IF Len(qp) < 3 THEN Len(qp) ELSE 3)))
       [] OTHER                                              -> Ok({w, wt})

(* LinearConfig._get_weight_deps *)
LinearWeightDeps(gr, n, fam, prec, cfg) ==
  CASE prec = "FP32" /\ cfg.force                                     -> Ok({})
    [] OverwritePrecision(gr, n, fam, cfg).over
         /\ OverwritePrecision(gr, n, fam, cfg).prec = "FP32"          -> Ok({})
    [] OTHER -> BaseWeightDeps(gr, n, fam, prec)

(* Mutant: AddmmConfig forgets the force_non_static_weights guard. *)
AddmmWeightDepsNoForce(gr, n, fam, prec, cfg) == BaseWeightDeps(gr, n, fam, prec)

(* AddmmConfig._get_weight_deps *)
AddmmWeightDeps(gr, n, fam, prec, cfg) ==
  IF prec = "FP32" /\ cfg.force THEN Ok({}) ELSE BaseWeightDeps(gr, n, fam, prec)

(* MMConfig._get_weight_deps: the same guard, then AddmmConfig's. *)
MMWeightDeps(gr, n, fam, prec, cfg) ==
  IF prec = "FP32" /\ cfg.force THEN Ok({}) ELSE AddmmWeightDeps(gr, n, fam, prec, cfg)

(* self._get_weight_deps in get_deps: dispatch on the config's class;      *)
(* ConvolutionConfig inherits GEMMConfig's.                                *)
WeightDeps(gr, n, fam, prec, cfg) ==
  CASE fam = "linear" -> LinearWeightDeps(gr, n, fam, prec, cfg)
    [] fam = "addmm"  -> AddmmWeightDeps(gr, n, fam, prec, cfg)
    [] fam = "mm"     -> MMWeightDeps(gr, n, fam, prec, cfg)
    [] fam = "conv"   -> BaseWeightDeps(gr, n, fam, prec)

(* GEMMConfig._get_bias_deps *)
(* Mutant: the force flag does not keep the bias out of the FP32 cluster. *)
BiasDepsNoForce(gr, n, fam, prec, cfg) ==
  LET b       == Arg(gr, n, Profile(fam).bias)
      hasBias == /\ Len(AllInputNodes(gr, n)) > 2
                 /\ Profile(fam).bias # NoIdx
                 /\ IsNode(gr, b)
  IN CASE hasBias /\ ~IsParamNode(gr, b)       -> Fail
       [] hasBias                              -> Ok({b})
       [] OTHER                                -> Ok({})

BiasDeps(gr, n, fam, prec, cfg) ==
  LET b       == Arg(gr, n, Profile(fam).bias)
      hasBias == /\ Len(AllInputNodes(gr, n)) > 2
                 /\ Profile(fam).bias # NoIdx
                 /\ IsNode(gr, b)
  IN CASE prec = "FP32" /\ cfg.force           -> Ok({})
       [] hasBias /\ ~IsParamNode(gr, b)       -> Fail
       [] hasBias                              -> Ok({b})
       [] OTHER                                -> Ok({})

(* Mutant: the static path forgets to append dq_input. *)
ActDepsNoDq(gr, n, fam, prec) ==
  LET dq == Arg(gr, n, Profile(fam).act)
      q  == Arg(gr, dq, 0)
      g1 == Arg(gr, q, 1)
      g2 == Arg(gr, q, 2)
      cq == Arg(gr, g1, 0)
  IN CASE prec = "FP32"                              -> Ok({})
       [] ~IsDequant(gr, dq)                         -> Fail
       [] prec = "STATIC_QUANT"                      -> Ok({})
       [] ~IsQuant(gr, q)                            -> Fail
       [] ~(IsNode(gr, g1) /\ IsNode(gr, g2))        -> Fail
       [] ~(IsGetitem(gr, g1) /\ IsGetitem(gr, g2))  -> Fail
       [] ~IsQparam(gr, cq)                          -> Fail
       [] OTHER                                      -> Ok({dq, q, g1, g2, cq})

(* Mutant: the dynamic path forgets to append choose_qparam. *)
ActDepsNoQparam(gr, n, fam, prec) ==
  LET dq == Arg(gr, n, Profile(fam).act)
      q  == Arg(gr, dq, 0)
      g1 == Arg(gr, q, 1)
      g2 == Arg(gr, q, 2)
      cq == Arg(gr, g1, 0)
  IN CASE prec = "FP32"                              -> Ok({})
       [] ~IsDequant(gr, dq)                         -> Fail
       [] prec = "STATIC_QUANT"                      -> Ok({dq})
       [] ~IsQuant(gr, q)                            -> Fail
       [] ~(IsNode(gr, g1) /\ IsNode(gr, g2))        -> Fail
       [] ~(IsGetitem(gr, g1) /\ IsGetitem(gr, g2))  -> Fail
       [] ~IsQparam(gr, cq)                          -> Fail
       [] OTHER                                      -> Ok({dq, q, g1, g2})

(* GEMMConfig._get_act_deps; q_input.args and the affine extraction both  *)
(* yield (input, scale, zero_point) at positions 0..2.                     *)
ActDeps(gr, n, fam, prec) ==
  LET dq == Arg(gr, n, Profile(fam).act)
      q  == Arg(gr, dq, 0)
      g1 == Arg(gr, q, 1)
      g2 == Arg(gr, q, 2)
      cq == Arg(gr, g1, 0)
  IN CASE prec = "FP32"                              -> Ok({})
       [] ~IsDequant(gr, dq)                         -> Fail
       [] prec = "STATIC_QUANT"                      -> Ok({dq})
       [] ~IsQuant(gr, q)                            -> Fail
       [] ~(IsNode(gr, g1) /\ IsNode(gr, g2))        -> Fail
       [] ~(IsGetitem(gr, g1) /\ IsGetitem(gr, g2))  -> Fail
       [] ~IsQparam(gr, cq)                          -> Fail
       [] OTHER                                      -> Ok({dq, q, g1, g2, cq})

(* GEMMConfig._get_output_deps *)
OutputDeps(gr, n, prec) ==
  LET us    == gr.users[n]
      o     == OnlyElem(us)
      fused == IsFusedAct(gr, o)
      tail  == IF fused /\ Cardinality(gr.users[o]) = 1 THEN OnlyElem(gr.users[o]) ELSE o
  IN CASE prec = "STATIC_QUANT" /\ Cardinality(us) # 1     -> Fail
       [] prec = "STATIC_QUANT" /\ ~IsQuant(gr, tail)      -> Fail
       [] prec = "STATIC_QUANT" -> Ok((IF fused THEN {o} ELSE {}) \cup {tail})
       [] prec = "FP32" /\ Cardinality(us) = 1 /\ fused     -> Ok({o})
       [] OTHER                                            -> Ok({})

(* Mutant: every dep is tagged, q/dq or not. *)
ImplicitQDQAll(gr, deps) == deps

(* The q/dq nodes get_deps tags with tag_as_implicit_q_dq. *)
ImplicitQDQ(gr, deps) == {d \in deps : IsDequant(gr, d) \/ IsQuant(gr, d)}

(* GEMMConfig.get_deps: [valid, deps, prec], prec the precision resolved. *)
(* p0 is the detected precision, p the one after _overwrite_precision.     *)
ResolveDeps(gr, n, fam, cfg, p0, p) ==
  LET rs == <<BiasDeps(gr, n, fam, p, cfg), WeightDeps(gr, n, fam, p, cfg),
              ActDeps(gr, n, fam, p), OutputDeps(gr, n, p)>>
  IN IF p0 \notin SupportedPrecisionTypes(fam)
     THEN [valid |-> FALSE, deps |-> {}, prec |-> p0]
     ELSE [valid |-> \A i \in 1..4 : rs[i].valid,
           deps  |-> UNION {rs[i].deps : i \in 1..4},
           prec  |-> p]
BaseGetDeps(gr, n, fam, cfg) ==
  ResolveDeps(gr, n, fam, cfg, DetectPrecision(gr, n, fam),
              OverwritePrecision(gr, n, fam, cfg).prec)

(* ConvolutionConfig.check_constraints, the checks after get_deps.  The    *)
(* kernel's QuantParams are per-channel for a channel/group dequantize.    *)
ConvConstraintsOK(gr, n) ==
  LET c       == gr.conv
      kernel  == Arg(gr, n, 1)
      perChan == IsDequant(gr, kernel) /\ IsPerChannelOrGroup(gr, kernel)
  IN /\ c.stride <= 2
     /\ ~(DetectPrecision(gr, n, "conv") = "DYNAMIC_QUANT"
          /\ (c.stride # 2 \/ c.depthwise))
     /\ ~(c.transposed /\ ~c.outPadZero)
     /\ ~(c.transposed /\ perChan /\ (c.groups > 1 \/ c.axis # 1))

(***************************************************************************)
(* AddmmConfig.get_deps_from_src_partition.  The node's args and users are *)
(* rewritten through torch.fx's Node.args setter, which also moves the     *)
(* node between the users sets of its old and new input nodes.             *)
(***************************************************************************)
SetArgs(gr, n, new) ==
  LET old == {a \in ToSet(gr.args[n]) : IsNode(gr, a)}
      nw  == {a \in ToSet(new) : IsNode(gr, a)}
  IN [gr EXCEPT !.args[n] = new,
                !.users   = [m \in DOMAIN gr.users |->
                               IF m \in nw THEN gr.users[m] \cup {n}
                               ELSE IF m \in old THEN gr.users[m] \ {n}
                               ELSE gr.users[m]]]
SetUsers(gr, n, us) == [gr EXCEPT !.users[n] = us]

(* find_partition_args: follow first inputs back to a partition input. *)
RECURSIVE FindPartitionArg(_, _, _)
FindPartitionArg(gr, part, a) ==
  IF AllInputNodes(gr, a) = <<>> \/ a \in part.inputs THEN a
  ELSE FindPartitionArg(gr, part, Head(AllInputNodes(gr, a)))

FakeArgs(gr, n, part) ==
  [i \in 1..Len(gr.args[n]) |-> FindPartitionArg(gr, part, gr.args[n][i])]

(* The validation of the faked linear call (lines 509-521). *)
SourcePartitionValid(gr, n, fam, part) ==
  LET fa == FakeArgs(gr, n, part)
      F(i) == fa[i + 1]
  IN ~ \/ Truthy(Profile(fam).bias) /\ F(Profile(fam).bias) \notin part.nodes
       \/ F(Profile(fam).act) \notin part.inputs
       \/ F(Profile(fam).weight) \notin part.nodes \cup part.inputs
       \/ Cardinality(part.outputs) # 1

(* The faked linear call installed on n: args traced to the partition    *)
(* boundary, users those of the partition's single output.               *)
FakedCall(gr, n, part) ==
  LET installed == SetArgs(gr, n, FakeArgs(gr, n, part))
  IN SetUsers(installed, n, installed.users[OnlyElem(part.outputs)])

(* The result of a valid faked call: r is GEMMConfig.get_deps on the      *)
(* swapped node, then args and users are put back and the deps merged     *)
(* with the partition (intersected under the force flag).                 *)
AdapterResult(gr, n, part, cfg, swapped, r) ==
  [valid |-> r.valid,
   deps  |-> IF cfg.force THEN r.deps \cap part.nodes ELSE r.deps \cup part.nodes,
   prec  |-> r.prec,
   graph |-> SetUsers(SetArgs(swapped, n, gr.args[n]), n, gr.users[n]),
   tags  |-> ImplicitQDQ(swapped, r.deps)]

(* Mutant: the node's users are not put back after the faked call. *)
AdapterGetDepsKeepUsers(gr, n, fam, part, cfg) ==
  IF ~SourcePartitionValid(gr, n, fam, part)
  THEN [valid |-> FALSE, deps |-> {}, prec |-> DetectPrecision(gr, n, fam),
        graph |-> gr, tags |-> {}]
  ELSE LET swapped == FakedCall(gr, n, part)
       IN [AdapterResult(gr, n, part, cfg, swapped, BaseGetDeps(swapped, n, fam, cfg))
             EXCEPT !.graph = SetArgs(swapped, n, gr.args[n])]

(* Result [valid, deps, prec, graph, tags]: graph is the graph after the   *)
(* call returns, tags the nodes tagged implicit during the call.  The      *)
(* swapped graph and the inner get_deps result are bound once each.        *)
AdapterGetDeps(gr, n, fam, part, cfg) ==
  IF ~SourcePartitionValid(gr, n, fam, part)
  THEN [valid |-> FALSE, deps |-> {}, prec |-> DetectPrecision(gr, n, fam),
        graph |-> gr, tags |-> {}]
  ELSE OnlyElem(UNION {{AdapterResult(gr, n, part, cfg, swapped, r) :
                          r \in {BaseGetDeps(swapped, n, fam, cfg)}} :
                         swapped \in {FakedCall(gr, n, part)}})
=============================================================================
