----------------------------- MODULE MCSources ------------------------------
(***************************************************************************)
(* Small models: a GGUF file with tensors of every kind, one of 28 layers, *)
(* one whose source states an alignment of its own, a sharded BF16         *)
(* checkpoint, a single file with rows no block divides, and checkpoints   *)
(* with something wrong: an index that lists more than the shards hold, a  *)
(* tensor in two shards, a truncated shard, a missing one, a type and a    *)
(* name nobody knows, empty tensors, another architecture, no vocab GGUF.  *)
(***************************************************************************)
EXTENDS Sources, TLC

MCShardOrder == <<"model.gguf", "model.safetensors", "s1", "s2">>
MCGgufFile == "model.gguf"

Layers == 0 .. 27
ValueName == [i \in Layers |-> "blk." \o ToString(i) \o ".attn_v.weight"]

MCNameMap ==
    [q |-> "blk.0.attn_q.weight", v |-> ValueName[1], norm |-> "output_norm.weight",
     emb |-> "token_embd.weight", head |-> "output.weight"]
MCRoleOf ==
    [n \in Range(MCNameMap) \cup Range(ValueName) |->
        IF n \in Range(ValueName)
        THEN [role |-> "attn_v", layer |-> CHOOSE i \in Layers : ValueName[i] = n]
        ELSE IF n = MCNameMap.head THEN [role |-> "output", layer |-> -1]
        ELSE [role |-> "other", layer |-> IF n = MCNameMap.q THEN 0 ELSE -1]]
MCArchs == {"qwen3"}

Keys == {"general.architecture", "tokenizer.tokens"}

Entry(name, type, shape, start, end) ==
    [name |-> name, type |-> type, shape |-> shape, start |-> start, end |-> end]
File(entries, len) == [entries |-> entries, len |-> len]

Gguf(file, keys, align) ==
    [gguf |-> TRUE, arch |-> "llama", weightMap |-> NoIndex, layers |-> 0, keys |-> keys,
     align |-> align, headerLen |-> 90, shards |-> [s \in {MCGgufFile} |-> file]]
Checkpoint(weightMap, shards) ==
    [gguf |-> FALSE, arch |-> "qwen3", weightMap |-> weightMap, layers |-> 2, keys |-> Keys,
     align |-> 32, headerLen |-> 90, shards |-> shards]

Q == Entry("q", "BF16", <<3, 256>>, 0, 1536)
V == Entry("v", "BF16", <<2, 256>>, 0, 1024)
Norm == Entry("norm", "BF16", <<64>>, 1536, 1664)
Map == [q |-> "s1", norm |-> "s1", v |-> "s2"]

GgufModel ==
    Gguf(File(<<Entry(MCNameMap.q, "F16", <<64, 3>>, 0, 384),
                Entry(MCNameMap.v, "F32", <<48, 2>>, 384, 768),
                Entry(MCNameMap.head, "Q6_K", <<256, 2>>, 768, 1188),
                Entry(MCNameMap.emb, "F16", <<16, 32>>, 1188, 2212)>>, 2212), Keys, 32)
DeepModel ==
    [Gguf(File([i \in 1 .. 28 |-> Entry(ValueName[i - 1], "F16", <<256, 1>>, 512 * (i - 1), 512 * i)],
               28 * 512), Keys, 32) EXCEPT !.layers = 28]
AlignedModel ==
    Gguf(File(<<Entry(MCNameMap.q, "F32", <<32, 2>>, 0, 256)>>, 256), Keys \cup {"general.alignment"}, 64)
ShardedModel == Checkpoint(Map, [s1 |-> File(<<Q, Norm>>, 1664), s2 |-> File(<<V>>, 1024)])
SingleModel ==
    Checkpoint(NoIndex, [s \in {"model.safetensors"} |->
        File(<<Entry("emb", "F16", <<2, 48>>, 0, 192), Entry("head", "F32", <<1, 256>>, 192, 1216)>>,
             1216)])
PartialModel == Checkpoint([q |-> "s1", norm |-> "s1", v |-> "s2", emb |-> "s2"],
                           [s1 |-> File(<<Q, Norm>>, 1664), s2 |-> File(<<V>>, 1024)])
TwiceModel == Checkpoint(Map, [s1 |-> File(<<Q>>, 1536), s2 |-> File(<<Q>>, 1536)])
TruncatedModel == Checkpoint(Map, [s1 |-> File(<<Q, Norm>>, 1200), s2 |-> File(<<V>>, 1024)])
MissingModel == Checkpoint(Map, [s1 |-> File(<<Q, Norm>>, 1664)])
StrangeModel == Checkpoint(Map, [s1 |-> File(<<Entry("x", "BF16", <<64>>, 0, 128)>>, 128),
                                 s2 |-> File(<<V>>, 1024)])
TypedModel == Checkpoint(Map, [s1 |-> File(<<Entry("q", "F64", <<2, 32>>, 0, 512)>>, 512),
                               s2 |-> File(<<V>>, 1024)])
EmptyModel ==
    Checkpoint(NoIndex, [s \in {"model.safetensors"} |->
        File(<<Entry("emb", "F16", <<0, 48>>, 0, 0), Entry("head", "F32", <<0, 64>>, 0, 0),
               Entry("norm", "F32", <<0>>, 0, 0), Entry("q", "BF16", <<2, 0>>, 0, 0)>>, 0)])

ForeignModel == [ShardedModel EXCEPT !.arch = "llama"]
BareModel == [ShardedModel EXCEPT !.arch = NoVocab]

MCModels == {GgufModel, DeepModel, AlignedModel, ShardedModel, SingleModel, PartialModel, TwiceModel,
             TruncatedModel, MissingModel, StrangeModel, TypedModel, EmptyModel, ForeignModel, BareModel}
=============================================================================
