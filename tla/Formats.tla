------------------------------ MODULE Formats -------------------------------
(***************************************************************************)
(* Which ggml type each tensor of a model is stored in, and how many bytes *)
(* that takes: the rules of formats.py and the planning loop of            *)
(* `quantize_model`.                                                       *)
(*                                                                         *)
(* A tensor is a record: its GGUF name, the role that name gives it and    *)
(* its layer (-1: none), its shape in ggml order (contiguous dimension     *)
(* first) and how many elements that makes, its source type, and where its *)
(* bytes are.                                                              *)
(***************************************************************************)
EXTENDS Integers, Sequences

BLOCK == 32
QK_K == 256

\* Elements per block and bytes per block of each ggml type.
BlockSize == [F32 |-> 1, F16 |-> 1, BF16 |-> 1, Q8_0 |-> 32, Q4_K |-> 256, Q6_K |-> 256]
BlockBytes == [F32 |-> 4, F16 |-> 2, BF16 |-> 2, Q8_0 |-> 34, Q4_K |-> 144, Q6_K |-> 210]

\* Source types that can be read by the row, and their bytes per element.
ITEMSIZE == [F32 |-> 4, F16 |-> 2, BF16 |-> 2]

\* Elements of a shape.
Elements(shape) ==
    LET upTo[i \in 0 .. Len(shape)] == IF i = 0 THEN 1 ELSE upTo[i - 1] * shape[i]
    IN  upTo[Len(shape)]

Rows(t) == t.elements \div t.shape[1]
SourceBytes(t) == t.end - t.start

\* Mutant: the last dimension of the shape is taken for the contiguous one.
QuantizableByRows(t, blk) ==
    /\ Len(t.shape) >= 2
    /\ t.type \in DOMAIN ITEMSIZE
    /\ t.shape[Len(t.shape)] % blk = 0

Quantizable(t, blk) ==
    /\ Len(t.shape) >= 2
    /\ t.type \in DOMAIN ITEMSIZE
    /\ t.shape[1] % blk = 0

\* Layers whose attn_v and ffn_down get more bits.
UseMoreBits(i, n) ==
    \/ i < n \div 8
    \/ i >= (7 * n) \div 8
    \/ (i - n \div 8) % 3 = 2

Q80Rule(t) == IF Quantizable(t, BLOCK) THEN "Q8_0" ELSE t.type

MoreBits(t, layers) ==
    \/ t.role = "output"
    \/ /\ t.role \in {"attn_v", "ffn_down"}
       /\ t.layer >= 0 /\ layers > 0
       /\ UseMoreBits(t.layer, layers)

Q4KMRule(t, layers) ==
    IF ~Quantizable(t, QK_K) THEN t.type
    ELSE IF MoreBits(t, layers) THEN "Q6_K" ELSE "Q4_K"

OutputFormats == {"q8_0", "q4_k_m"}
NeedsGgml(fmt) == fmt = "q4_k_m"

FormatRule(fmt, t, layers) == IF fmt = "q8_0" THEN Q80Rule(t) ELSE Q4KMRule(t, layers)

\* Mutant: one-dimensional tensors keep the type of the shard.
KeepShardType(kind, fmt, t, layers) == FormatRule(fmt, t, layers)

\* One-dimensional tensors that come from shards are widened to F32.
TargetType(kind, fmt, t, layers) ==
    LET tt == FormatRule(fmt, t, layers)
    IN  IF kind = "shards" /\ tt = t.type /\ Len(t.shape) = 1 THEN "F32" ELSE tt

PackedBytes(n, type) == (n \div BlockSize[type]) * BlockBytes[type]

PlannedBytes(t, tt) == IF tt = t.type THEN SourceBytes(t) ELSE PackedBytes(t.elements, tt)

\* The plan: for each tensor the type and the bytes it is stored in.
PlanOf(kind, fmt, layers, tensors) ==
    [i \in DOMAIN tensors |->
        LET tt == TargetType(kind, fmt, tensors[i], layers)
        IN  [tensor |-> tensors[i], type |-> tt, bytes |-> PlannedBytes(tensors[i], tt)]]
=============================================================================
