---------------------------- MODULE GemmContract ----------------------------
(***************************************************************************)
(* What the GEMM configs promise the partitioning driver for any well-   *)
(* formed program, stated from the                                        *)
(* design (sections 4.2-4.10 and 6) rather than from the resolvers: every  *)
(* GEMM node of a program is eventually decided once, and a node that is   *)
(* taken is taken together with exactly the closure the design describes:  *)
(* its static weight chain, its bias, its activation's quantization chain, *)
(* its fused activation and output quantize, and, for a decomposed linear, *)
(* the closure of the linear call it came from merged with the source      *)
(* partition.  A closure is a record [ok, nodes].                          *)
(***************************************************************************)
EXTENDS GemmConfig

CONSTANTS Configs, MaxPrograms

VARIABLES cfg, prog, shape, verdict
cvars == <<cfg, prog, shape, verdict>>

Yes(S) == [ok |-> TRUE, nodes |-> S]
No     == [ok |-> FALSE, nodes |-> {}]

(* 4.2: quantized iff the weight operand is a dequantize; dynamic iff the  *)
(* activation operand is a dynamic q/dq pattern.                           *)
DetectedPrecision(gr, n, fam) ==
  IF ~IsDequant(gr, Arg(gr, n, Profile(fam).weight)) THEN "FP32"
  ELSE IF IsDynamicQDQ(gr, Arg(gr, n, Profile(fam).act)) THEN "DYNAMIC_QUANT"
  ELSE "STATIC_QUANT"

(* 4.3: a quantized variant that is not enabled, when only FP32 is, is     *)
(* partitioned as FP32 and its weight and bias are not static parameters.  *)
Overridden(p, c) == p \notin c.enabled /\ c.enabled = {"FP32"} /\ p # "FP32"

(* 4.4; nonStatic: the weight stays a delegate input. *)
WeightClosure(gr, n, fam, p, nonStatic) ==
  LET w  == Arg(gr, n, Profile(fam).weight)
      qp == {Arg(gr, w, 1), Arg(gr, w, 2)}
      ch == IsPerChannelOrGroup(gr, w)
  IN CASE nonStatic                       -> Yes({})
       [] p = "FP32" /\ IsParamNode(gr, w) -> Yes({w})
       [] p = "FP32"                       -> No
       [] /\ IsDequant(gr, w) /\ IsParamNode(gr, Arg(gr, w, 0))
          /\ ~(IsPerTensor(gr, w) /\ p = "DYNAMIC_QUANT")
          /\ (ch => qp \subseteq DOMAIN gr.target) ->
            Yes({w, Arg(gr, w, 0)} \cup (IF ch THEN qp ELSE {}))
       [] OTHER                            -> No

(* 4.5 *)
BiasClosure(gr, n, fam, nonStatic) ==
  LET b == Arg(gr, n, Profile(fam).bias)
  IN CASE nonStatic \/ ~IsNode(gr, b) -> Yes({})
       [] IsParamNode(gr, b)          -> Yes({b})
       [] OTHER                       -> No

(* 4.6: every accessor's source must be a choose_qparams, and is taken. *)
ActClosure(gr, n, fam, p) ==
  LET dq == Arg(gr, n, Profile(fam).act)
      q  == Arg(gr, dq, 0)
      gs == {Arg(gr, q, 1), Arg(gr, q, 2)}
  IN CASE p = "FP32"          -> Yes({})
       [] ~IsDequant(gr, dq)  -> No
       [] p = "STATIC_QUANT"  -> Yes({dq})
       [] IsQuant(gr, q) /\ \A g \in gs : IsGetitem(gr, g) /\ IsQparam(gr, Arg(gr, g, 0)) ->
            Yes({dq, q} \cup gs \cup {Arg(gr, g, 0) : g \in gs})
       [] OTHER               -> No

(* 4.7: the consumer o, and the consumer t of a fused o. *)
OutputClosure(gr, n, p) ==
  LET o     == OnlyElem(gr.users[n])
      single == Cardinality(gr.users[n]) = 1
      fused == single /\ IsFusedAct(gr, o)
      t     == IF fused /\ Cardinality(gr.users[o]) = 1 THEN OnlyElem(gr.users[o]) ELSE o
  IN CASE p = "STATIC_QUANT" /\ single /\ IsQuant(gr, t) ->
            Yes({t} \cup (IF fused THEN {o} ELSE {}))
       [] p = "STATIC_QUANT" -> No
       [] p = "FP32"         -> Yes(IF fused THEN {o} ELSE {})
       [] OTHER              -> Yes({})

(* 4.8, given the detected precision p and the configuration c. *)
Closure4(rs) == [ok |-> \A i \in 1..4 : rs[i].ok, nodes |-> UNION {rs[i].nodes : i \in 1..4}]
GenericClosureAt(gr, n, fam, c, p, over) ==
  LET e == IF over THEN "FP32" ELSE p
  IN Closure4(<<WeightClosure(gr, n, fam, e,
                   e = "FP32" /\ (over \/ (c.force /\ fam # "conv"))),
                BiasClosure(gr, n, fam, e = "FP32" /\ (over \/ c.force)),
                ActClosure(gr, n, fam, e), OutputClosure(gr, n, e)>>)
GenericClosure(gr, n, fam, c) ==
  GenericClosureAt(gr, n, fam, c, DetectedPrecision(gr, n, fam),
                   Overridden(DetectedPrecision(gr, n, fam), c))

(* 4.9 *)
ConvSupported(gr, n) ==
  LET k == Arg(gr, n, 1)
  IN /\ gr.conv.stride <= 2
     /\ DetectedPrecision(gr, n, "conv") = "DYNAMIC_QUANT"
          => gr.conv.stride = 2 /\ ~gr.conv.depthwise
     /\ gr.conv.transposed => gr.conv.outPadZero
     /\ gr.conv.transposed /\ IsDequant(gr, k) /\ IsPerChannelOrGroup(gr, k)
          => gr.conv.groups = 1 /\ gr.conv.axis = 1

(* 4.10: the node seen as the linear call of partition P (its arguments    *)
(* walked back to P's boundary, its consumers those of P's output).  The   *)
(* bias clause of the validation is dead code (finding adapter_bias) and   *)
(* is left out.                                                            *)
AsLinearCall(gr, n, P) ==
  [gr EXCEPT !.args[n]  = FakeArgs(gr, n, P),
             !.users[n] = gr.users[OnlyElem(P.outputs)]]
Merged(r, P, c) ==
  [ok |-> r.ok, nodes |-> IF c.force THEN r.nodes \cap P.nodes ELSE r.nodes \cup P.nodes]
PartitionClosure(gr, n, fam, P, c) ==
  LET lin == AsLinearCall(gr, n, P)
      F(i) == lin.args[n][i + 1]
  IN IF /\ F(Profile(fam).act) \in P.inputs
        /\ F(Profile(fam).weight) \in P.nodes \cup P.inputs
        /\ Cardinality(P.outputs) = 1
     THEN Merged(GenericClosure(lin, n, fam, c), P, c)
     ELSE No

(* What the driver may take for node n: the closure, and whether n is taken. *)
Promised(gr, n, fam, c) ==
  LET mine == {P \in gr.srcParts : n \in P.nodes}
  IN CASE fam \in {"addmm", "mm"} /\ mine # {} -> PartitionClosure(gr, n, fam, OnlyElem(mine), c)
       [] fam = "conv" -> [GenericClosure(gr, n, fam, c) EXCEPT !.ok = @ /\ ConvSupported(gr, n)]
       [] OTHER        -> GenericClosure(gr, n, fam, c)

-----------------------------------------------------------------------------
ThisProgram     == Program(prog, shape)
GemmNodes(gr)   == {n \in DOMAIN gr.target : gr.target[n] \in Range(FamTarget)}
FamilyOf(gr, n) == CHOOSE f \in Families : FamTarget[f] = gr.target[n]
Undecided(gr)   == [n \in GemmNodes(gr) |-> [status |-> "pending", cluster |-> {}]]

Init ==
  /\ cfg \in Configs
  /\ prog = 1
  /\ ProgramShape(shape)
  /\ verdict = Undecided(Program(1, shape))

(* The driver settles node n at once: taken with its closure, or left. *)
Decide(n, r) ==
  /\ verdict[n].status = "pending"
  /\ verdict' = [verdict EXCEPT ![n] =
                   IF r.ok THEN [status |-> "clustered", cluster |-> {n} \cup r.nodes]
                   ELSE [status |-> "rejected", cluster |-> {}]]
  /\ UNCHANGED <<cfg, prog, shape>>

NextProgram ==
  /\ prog < MaxPrograms
  /\ \A n \in DOMAIN verdict : verdict[n].status # "pending"
  /\ prog' = prog + 1
  /\ ProgramShape(shape')
  /\ verdict' = Undecided(Program(prog + 1, shape'))
  /\ UNCHANGED cfg

DecideSome ==
  \E n \in DOMAIN verdict : Decide(n, Promised(ThisProgram, n, FamilyOf(ThisProgram, n), cfg))

Next == DecideSome \/ NextProgram

SafetySpec == Init /\ [][Next]_cvars
=============================================================================
