------------------------------- MODULE Layout -------------------------------
(***************************************************************************)
(* Where the bytes of a quantized file go.                                 *)
(*                                                                         *)
(* featherquant plans the whole output before it moves any data: the       *)
(* header occupies the first HeaderLen bytes, tensor data begins at the    *)
(* next ALIGN boundary, and every tensor starts at the first boundary      *)
(* after the previous one (engine.py:252-258).  Two pieces of code must    *)
(* agree on that rule: `_align`, which computes the offsets the manifest   *)
(* records, and `begin_tensor`, which pads the file as it is written.      *)
(*                                                                         *)
(* A plan is an element of Plans, and its tables are constants: HeaderLen  *)
(* and Nbytes are what the source and the format decide, Offset is what    *)
(* the loop over the plan computes from them.                              *)
(***************************************************************************)
EXTENDS Integers, Sequences

CONSTANTS
    ALIGN,      \* alignment of tensor data (32 in the source)
    Plans,      \* the plans a run may compute
    HeaderLen,  \* HeaderLen[L]: bytes of header, KV data and tensor infos
    Nbytes,     \* Nbytes[L][i]: packed bytes of the i-th tensor
    Offset      \* Offset[L][i]: its absolute offset in the output file; one
                \* entry more than there are tensors, where a next one would go

\* `_align` of engine.py.
Align(n) == ((n + ALIGN - 1) \div ALIGN) * ALIGN

\* Mutant: a whole block of padding where none is needed.
PadAlways(n) == ALIGN - (n % ALIGN)

\* The padding `begin_tensor` writes when the file is at position n.
Pad(n) == (-n) % ALIGN

Count(L) == Len(Nbytes[L])
Tensors(L) == 1..Count(L)
HeaderEnd(L) == Align(HeaderLen[L])

\* The first position after tensor i, and after the whole file: the last
\* tensor is not padded.
End(L, i) == Offset[L][i] + Nbytes[L][i]
Size(L) == End(L, Count(L))

Span(L, i) == Offset[L][i] .. End(L, i) - 1

ASSUME AlignAssumption == ALIGN \in Nat \ {0}

\* A model has a header and at least one tensor.  Empty tensors, which occupy no
\* span, are left to Streaming and Sources.
ASSUME SizesAssumption ==
    \A L \in Plans : /\ HeaderLen[L] \in Nat \ {0}
                     /\ Nbytes[L] \in Seq(Nat \ {0})
                     /\ Count(L) > 0

\* The loop of engine.py:254-258.
ASSUME OffsetAssumption ==
    \A L \in Plans :
        /\ Offset[L] \in [1 .. Count(L) + 1 -> Nat]
        /\ Offset[L][1] = HeaderEnd(L)
        /\ \A i \in Tensors(L) : Offset[L][i + 1] = Align(End(L, i))
=============================================================================
