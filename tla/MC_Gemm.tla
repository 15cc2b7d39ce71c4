------------------------------- MODULE MC_Gemm -------------------------------
(* Model-checking instance of GemmPartitioner: the program shapes and      *)
(* partitioner configurations the runs enumerate.                          *)
EXTENDS GemmPartitioner

(* A standard 2-D convolution, used for every non-convolution shape. *)
Conv2D == [stride |-> 2, transposed |-> FALSE, outPadZero |-> TRUE,
           groups |-> 1, depthwise |-> FALSE, axis |-> 0]
(* The convolution variants whose checks ConvolutionConfig makes. *)
ConvVariants ==
  {Conv2D,
   [Conv2D EXCEPT !.stride = 1],
   [Conv2D EXCEPT !.stride = 3],
   [Conv2D EXCEPT !.groups = 2, !.depthwise = TRUE],
   [Conv2D EXCEPT !.transposed = TRUE, !.axis = 1],
   [Conv2D EXCEPT !.transposed = TRUE, !.axis = 1, !.outPadZero = FALSE],
   [Conv2D EXCEPT !.transposed = TRUE, !.axis = 1, !.groups = 2],
   [Conv2D EXCEPT !.transposed = TRUE]}

ShapesOf(fams, ws, as, bs, os, parts, convs) ==
  {s \in [fam : fams, w : ws, a : as, b : bs, o : os, part : parts, conv : convs] :
     WellFormed(s) /\ (s.fam # "conv" => s.conv = Conv2D)}

(* Activations whose dynamic pattern has one choose_qparams feeding both  *)
(* getitems.                                                              *)
QuantizerActs == ActKinds \ {"dyn_2qp"}
(* Biases passed as a node of their own (or not at all). *)
OwnBiasKinds == BiasKinds \ {"act"}
AllShapes == ShapesOf(Families, WeightKinds, QuantizerActs, OwnBiasKinds, OutKinds,
                      PartKinds, ConvVariants)
(* Dynamic activations, with one or two choose_qparams behind the getitems. *)
TwoQparamShapes == ShapesOf(Families, {"dq_channel"}, {"dynamic", "dyn_2qp"},
                          OwnBiasKinds, OutKinds, PartKinds, {Conv2D})
AllConfigs == [enabled : SUBSET Precisions \ {{}}, force : BOOLEAN]
(* Programs of the decomposed-linear families and of linear itself, for   *)
(* one partitioner instance that is handed two programs in a row.         *)
ReuseShapes == ShapesOf({"linear", "addmm", "mm"}, {"param", "dq_channel"},
                        {"plain", "static"}, OwnBiasKinds, {"relu", "relu_q"},
                        PartKinds, {Conv2D})
(* Programs with two GEMM calls joined by the given ways of sharing.     *)
PairsOf(singles, shares) ==
  {s \in [one : singles, two : singles, share : shares] : PairWellFormed(s)}
(* Every family, in and out of a linear source partition, FP32 or static   *)
(* activations: two addmm/mm nodes each in its own partition share the    *)
(* index their config object builds on first use.                         *)
StaticPairs == PairsOf(ShapesOf(Families, {"param", "dq_channel"}, {"plain", "static"},
                                {"none", "param"}, {"q"}, {"bare", "linear", "linear_view"},
                                {Conv2D}), {"none", "act"})
(* Linear and addmm calls on dynamically quantized activations. *)
DynamicPairs == PairsOf(ShapesOf({"linear", "addmm"}, {"dq_channel"}, {"dynamic"},
                                 {"param"}, {"relu"}, {"bare", "linear"}, {Conv2D}), {"act"})
(* Two layers of an MLP: linear, conv and addmm (mm takes the same        *)
(* adapter path without a bias), FP32, static and dynamic layers, with or *)
(* without a fused relu, in and out of a linear source partition.         *)
ChainPairs == PairsOf(ShapesOf(Families \ {"mm"}, {"param", "dq_channel"}, {"plain", "static", "dynamic"},
                               {"param"}, {"relu", "q"}, {"bare", "linear_view"},
                               {Conv2D}), {"chain"})
(* One weight read by two calls, FP32 or quantized. *)
WeightPairs == PairsOf(ShapesOf({"linear", "addmm"}, {"param", "dq_channel"}, {"plain", "static"},
                                {"param"}, {"q"}, {"bare", "linear"}, {Conv2D}), {"weight"})
(* One-GEMM programs, two-GEMM programs sharing an activation or a       *)
(* weight, and two-layer MLPs.                                            *)
ContractShapes == AllShapes \cup StaticPairs \cup DynamicPairs \cup WeightPairs \cup ChainPairs
(* Direct linear and addmm calls whose bias is a parameter or the         *)
(* activation itself (addmm(x, x, w)), FP32 or statically quantized.     *)
SameBiasShapes == ShapesOf({"linear", "addmm"}, {"param", "dq_channel"}, {"plain", "static"},
                           {"param", "act"}, {"graph_out", "q"}, {"bare"}, {Conv2D})
UnforcedConfigs == {c \in AllConfigs : ~c.force}
(* Every precision enabled, so no precision is disabled or overridden. *)
FullConfigs == {c \in AllConfigs : c.enabled = Precisions}
=============================================================================
