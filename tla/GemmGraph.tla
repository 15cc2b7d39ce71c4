----------------------------- MODULE GemmGraph -----------------------------
(***************************************************************************)
(* The torch.fx graph of an ExportedProgram as the GEMM partitioner        *)
(* configs of backends/xnnpack/partition/config/gemm_configs.py see it:    *)
(* nodes with a target, an ordered argument list and a users set, the      *)
(* lifted parameters of the program, the quantization granularity of each *)
(* dequantize node, the convolution attributes, and the linear source      *)
(* partitions recorded in the nodes' source_fn_stack metadata.             *)
(*                                                                         *)
(* A program holds one GEMM node "g" and its neighbourhood; the shape      *)
(* record chooses which weight, activation, bias, output and source-       *)
(* partition pattern surrounds it.  Nodes of program p are <<p, role>>, so *)
(* nodes of two programs are never equal (fx compares nodes by identity).  *)
(***************************************************************************)
EXTENDS Naturals, Sequences, FiniteSets, SequencesExt

CONSTANTS
    NoneArg,    \* an argument that is Python None (absent bias)
    Lit         \* a literal argument (float scale, int zero point, int list)

Families    == {"linear", "conv", "addmm", "mm"}
FamTarget   == [f \in Families |->
                  CASE f = "linear" -> "linear" [] f = "conv" -> "convolution"
                    [] f = "addmm"  -> "addmm"  [] f = "mm"   -> "mm"]
WeightKinds == {"param", "computed", "dq_tensor", "dq_channel", "dq_group",
                "dq_channel_lit", "dq_computed"}
ActKinds    == {"plain", "static", "dynamic", "dyn_noq", "dyn_2qp"}
\* "act": the bias argument is the activation itself, addmm(x, x, w) = x + x @ w
BiasKinds   == {"none", "param", "computed", "act"}
OutKinds    == {"graph_out", "relu", "q", "relu_q", "relu_fanout", "fanout"}
PartKinds   == {"bare", "linear", "linear_view", "linear_2out"}
ConvShapes  == [stride : 1..3, transposed : BOOLEAN, outPadZero : BOOLEAN,
                groups : {1, 2}, depthwise : BOOLEAN, axis : {0, 1}]
ShapeRecs   == [fam : Families, w : WeightKinds, a : ActKinds, b : BiasKinds,
                o : OutKinds, part : PartKinds, conv : ConvShapes]

(* The role sets that a shape places in the graph. *)
WRoles(k) == CASE k \in {"param", "computed"}        -> {"w"}
               [] k \in {"dq_channel", "dq_group"}   -> {"w", "ws", "wz", "wdq"}
               [] OTHER                              -> {"w", "wdq"}
ARoles(k) == CASE k = "plain"   -> {}
               [] k = "static"  -> {"xq", "xdq"}
               [] k = "dynamic" -> {"cqp", "gi1", "gi2", "xq", "xdq"}
               [] k = "dyn_noq" -> {"cqp", "gi1", "gi2", "xdq"}
               \* getitem2 reads the tuple of a second choose_qparams of the same input
               [] k = "dyn_2qp" -> {"cqp", "gi1", "gi2", "xq", "xdq", "cqp2"}
ORoles(k) == CASE k = "graph_out"   -> {}
               [] k = "relu"        -> {"relu"}
               [] k = "q"           -> {"oq"}
               [] k = "relu_q"      -> {"relu", "oq"}
               [] k = "relu_fanout" -> {"relu", "oq", "o2"}
               [] k = "fanout"      -> {"oq", "o2"}
PRoles(k) == CASE k = "bare"        -> {}
               [] k = "linear"      -> {"t"}
               [] k = "linear_view" -> {"t", "vin", "vout"}
               [] k = "linear_2out" -> {"t", "tu"}
RolesOf(s) == {"x", "g", "out"} \cup WRoles(s.w) \cup ARoles(s.a) \cup ORoles(s.o)
              \cup PRoles(s.part) \cup (IF s.b \in {"none", "act"} THEN {} ELSE {"b"})

(* The graph of program p with shape s. *)
MkGraph(p, s) ==
  LET N(r)  == <<p, r>>
      Has(r) == r \in RolesOf(s)
      W    == N(IF Has("wdq") THEN "wdq" ELSE "w")       \* gemm weight operand
      A    == N(IF Has("xdq") THEN "xdq" ELSE "x")       \* gemm activation operand
      B    == CASE Has("b") -> N("b") [] s.b = "act" -> A [] OTHER -> NoneArg
      Wg   == IF Has("t") THEN N("t") ELSE W             \* addmm/mm see permute(W)
      Ag   == IF Has("vin") THEN N("vin") ELSE A
      O    == N(IF Has("vout") THEN "vout" ELSE "g")     \* what the user code consumes
      Fin  == N(IF Has("relu") THEN "relu" ELSE
                IF Has("vout") THEN "vout" ELSE "g")
      QP   == IF s.a = "static" THEN <<Lit, Lit>> ELSE <<N("gi1"), N("gi2")>>
      Outs == (IF Has("oq") THEN <<N("oq")>> ELSE <<Fin>>)
              \o (IF Has("o2") THEN <<N("o2")>> ELSE <<>>)
              \o (IF Has("tu") THEN <<N("tu")>> ELSE <<>>)
      Args(r) ==
        CASE r \in {"ws", "wz"} \/ (r = "x")
                 \/ (r = "w" /\ s.w \notin {"computed", "dq_computed"})
                 \/ (r = "b" /\ s.b = "param")             -> <<>>
          [] r \in {"w", "b", "cqp", "cqp2"}                 -> <<N("x")>>
          [] r = "gi2" /\ Has("cqp2")                        -> <<N("cqp2"), Lit>>
          [] r = "xq"   -> <<N("x")>> \o QP
          [] r = "xdq"  -> <<N(IF Has("xq") THEN "xq" ELSE "x")>> \o QP
          [] r = "gi1" \/ (r = "gi2" /\ ~Has("cqp2")) -> <<N("cqp"), Lit>>
          [] r = "wdq"  -> IF Has("ws") THEN <<N("w"), N("ws"), N("wz")>>
                                        ELSE <<N("w"), Lit, Lit>>
          [] r = "t"    -> <<W>>
          [] r = "vin"  -> <<A>>
          [] r = "vout" -> <<N("g")>>
          [] r = "relu" -> <<O>>
          [] r = "oq"   -> <<IF Has("relu") THEN N("relu") ELSE O, Lit, Lit>>
          [] r = "o2"   -> <<IF Has("relu") THEN N("relu") ELSE O>>
          [] r = "tu"   -> <<N("t")>>
          [] r = "out"  -> Outs
          [] r = "g"    ->
               CASE s.fam = "linear" -> IF s.b # "none" THEN <<A, W, B>> ELSE <<A, W>>
                 [] s.fam = "conv"   -> <<A, W, B, Lit, Lit, Lit, Lit, Lit, Lit>>
                 [] s.fam = "addmm"  -> <<B, Ag, Wg>>
                 [] s.fam = "mm"     -> <<Ag, Wg>>
      Params == {N(r) : r \in {r2 \in RolesOf(s) :
                   \/ r2 \in {"ws", "wz"}
                   \/ r2 = "w" /\ s.w \notin {"computed", "dq_computed"}
                   \/ r2 = "b" /\ s.b = "param"}}
      Target(r) ==
        CASE r \in {"x", "ws", "wz"}              -> "placeholder"
          [] r \in {"w", "b"}                     -> IF N(r) \in Params THEN "placeholder" ELSE "op"
          [] r \in {"xq", "oq"}                   -> "quantize"
          [] r \in {"xdq", "wdq"}                 -> "dequantize"
          [] r \in {"cqp", "cqp2"}                -> "choose_qparams"
          [] r \in {"gi1", "gi2"}                 -> "getitem"
          [] r = "t"                              -> "permute"
          [] r \in {"vin", "vout"}                -> "view"
          [] r \in {"o2", "tu"}                   -> "op"
          [] r = "relu"                           -> "relu"
          [] r = "out"                            -> "output"
          [] r = "g"                              -> FamTarget[s.fam]
      Nodes == {N(r) : r \in RolesOf(s)}
      ArgsF == [n \in Nodes |-> Args(n[2])]
      Part  == [nodes   |-> ({N(r) : r \in PRoles(s.part)} \ {N("tu")}) \cup {N("g")},
                inputs  |-> {A, W} \cup (IF Has("b") THEN {B} ELSE {}),
                outputs |-> {O} \cup (IF Has("tu") THEN {N("t")} ELSE {})]
  IN [target  |-> [n \in Nodes |-> Target(n[2])],
      args    |-> ArgsF,
      users   |-> [n \in Nodes |-> {m \in Nodes : n \in ToSet(ArgsF[m])}],
      params  |-> Params,
      gran    |-> [n \in Nodes |->
                     CASE n[2] = "wdq" /\ s.w = "dq_group"                      -> "group"
                       [] n[2] = "wdq" /\ s.w \in {"dq_channel", "dq_channel_lit"} -> "channel"
                       [] n[2] \in {"wdq", "xdq", "xq", "oq"}                 -> "tensor"
                       [] OTHER                                               -> "none"],
      conv    |-> s.conv,
      srcParts |-> IF s.part = "bare" THEN {} ELSE {Part}]

(* Two GEMM calls in one program, shape [one, two, share].  The second   *)
(* call has the nodes of its own single-call graph, except those that     *)
(* share names as nodes of the first call:                                *)
(*   "act"    one activation and its q/dq chain feeds both calls, as the   *)
(*            parallel projections of one input do;                       *)
(*   "weight" one weight and its dequantize feed both calls, as when one   *)
(*            nn.Linear is applied to two inputs;                         *)
(*   "chain"  the second call reads the first call's result, as the       *)
(*            layers of an MLP do: its float input is what the first      *)
(*            call's output quantize reads, its activation quantize is    *)
(*            that output quantize, and the first result is no longer a   *)
(*            graph output.                                                *)
(* Its source partition, if any, is kept with the renamed nodes.          *)
Shares      == {"none", "act", "weight", "chain"}
ActChain    == {"x", "xq", "xdq", "cqp", "cqp2", "gi1", "gi2"}
WeightChain == {"w", "ws", "wz", "wdq"}
(* The float result of the first call of pair p. *)
FloatTail(G1, p) ==
  LET t == G1.args[<<<<p, 1>>, "out">>][1]
  IN IF G1.target[t] = "quantize" THEN G1.args[t][1] ELSE t
(* Node a of the second call's graph G2, as the pair program names it. *)
Renamed(G1, G2, p, share, a) ==
  IF a \notin DOMAIN G2.target THEN a
  ELSE CASE share = "act"    /\ a[2] \in ActChain    -> <<<<p, 1>>, a[2]>>
         [] share = "weight" /\ a[2] \in WeightChain -> <<<<p, 1>>, a[2]>>
         [] share = "chain"  /\ a[2] = "xq"          -> <<<<p, 1>>, "oq">>
         [] share = "chain"  /\ a[2] = "x"           -> FloatTail(G1, p)
         [] OTHER                                    -> a
UsersFrom(args) == [n \in DOMAIN args |-> {m \in DOMAIN args : n \in ToSet(args[m])}]
(* The first call's nodes that stay in the pair program. *)
Kept(G1, p, share) ==
  DOMAIN G1.args \ (IF share = "chain" THEN {<<<<p, 1>>, "out">>} ELSE {})
JoinArgs(G1, G2, p, share) ==
  Restrict(G1.args, Kept(G1, p, share)) @@
    [m \in {m2 \in DOMAIN G2.target : Renamed(G1, G2, p, share, m2) = m2} |->
       [i \in DOMAIN G2.args[m] |-> Renamed(G1, G2, p, share, G2.args[m][i])]]
Join(G1, G2, p, share, args) ==
  LET Ren(S) == {Renamed(G1, G2, p, share, m) : m \in S}
      Both(f, g) == [m \in DOMAIN args |-> IF m \in DOMAIN f THEN f[m] ELSE g[m]]
  IN [target   |-> Both(G1.target, G2.target),
      args     |-> args,
      users    |-> UsersFrom(args),
      params   |-> (G1.params \cup G2.params) \cap DOMAIN args,
      gran     |-> Both(G1.gran, G2.gran),
      conv     |-> G1.conv,
      srcParts |-> G1.srcParts \cup
                   {[nodes |-> Ren(P.nodes), inputs |-> Ren(P.inputs),
                     outputs |-> Ren(P.outputs)] : P \in G2.srcParts}]
JoinGraphs(G1, G2, p, share) == Join(G1, G2, p, share, JoinArgs(G1, G2, p, share))
MkPair(p, s) == JoinGraphs(MkGraph(<<p, 1>>, s.one), MkGraph(<<p, 2>>, s.two), p, s.share)

(* The shapes a program of each family can have: mm carries no bias, addmm *)
(* always does, and only addmm/mm come out of a decomposed linear call.    *)
(* A bias that is the activation itself is written as a direct call.       *)
WellFormed(s) ==
  /\ s.fam = "mm"    => s.b = "none"
  /\ s.fam = "addmm" => s.b # "none"
  /\ s.b = "act" => s.fam \in {"linear", "addmm"} /\ s.part = "bare"
  /\ s.fam \in {"linear", "conv"} => s.part = "bare"

(* A result feeds the next layer as exported: a quantized result only a   *)
(* statically quantized layer reads (through a dequantize), a float one    *)
(* the others; it is the first call's only use.                            *)
ChainWellFormed(one, two) ==
  /\ one.o \in {"graph_out", "relu", "q", "relu_q"}
  /\ two.a \in {"plain", "static", "dynamic"}
  /\ (two.a = "static") = (one.o \in {"q", "relu_q"})

(* Two calls share an activation or a weight only when it has the same    *)
(* kind for both; the convolution attributes are kept once per program.   *)
PairWellFormed(s) ==
  /\ WellFormed(s.one) /\ WellFormed(s.two)
  /\ s.share = "act"    => s.one.a = s.two.a
  /\ s.share = "weight" => s.one.w = s.two.w
  /\ s.share = "chain"  => ChainWellFormed(s.one, s.two)
  /\ s.one.conv = s.two.conv

IsPair(s)         == "share" \in DOMAIN s
Program(p, s)     == IF IsPair(s) THEN MkPair(p, s) ELSE MkGraph(p, s)
ProgramShape(s)   == IF IsPair(s) THEN /\ s.one \in ShapeRecs /\ s.two \in ShapeRecs
                                       /\ s.share \in Shares
                                       /\ PairWellFormed(s)
                     ELSE s \in ShapeRecs /\ WellFormed(s)
=============================================================================
