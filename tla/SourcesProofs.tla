---------------------------- MODULE SourcesProofs ----------------------------
(***************************************************************************)
(* What holds of opening, planning and streaming for any models, shards    *)
(* and names: every entry of a model becomes a tensor of the plan, the     *)
(* plan can be packed, and the reads hand on every byte of every tensor    *)
(* once and in order.                                                      *)
(***************************************************************************)
EXTENDS Sources, Numbers

(* Shapes.                                                                 *)

\* The elements of a shape: the first dimension and the last one divide them.
LEMMA ElementsOf ==
    ASSUME NEW shape \in Seq(Nat)
    PROVE  /\ Elements(shape) \in Nat
           /\ Len(shape) >= 1 => /\ Divides(shape[1], Elements(shape))
                                 /\ Divides(shape[Len(shape)], Elements(shape))
           /\ Len(shape) = 1 => Elements(shape) = shape[1]
<1> DEFINE n == Len(shape)
<1>1. n \in Nat /\ shape \in [1 .. n -> Nat]
    OBVIOUS
<1> HIDE DEF n
<1>2. \E g : IsProducts(g, shape, n)
    BY <1>1, Products
<1>3. \E g : IsProducts(g, shape, n) /\ Elements(shape) = g[n]
    <2> DEFINE h == CHOOSE g : IsProducts(g, shape, n)
    <2>1. IsProducts(h, shape, n)
        BY <1>2, Zenon
    <2>2. Elements(shape) = h[n]
        BY Zenon DEF Elements, IsProducts, n
    <2> QED
        BY <2>1, <2>2
<1>4. PICK f : IsProducts(f, shape, n) /\ Elements(shape) = f[n]
    BY <1>3
<1>5. /\ f \in [0 .. n -> Nat] /\ f[0] = 1
      /\ \A i \in 1 .. n : f[i] = f[i - 1] * shape[i]
      /\ \A i \in 1 .. n : Divides(shape[1], f[i])
    BY <1>1, <1>4, ProductsOf
<1>6. f[n] \in Nat
    BY <1>1, <1>5
<1>7. ASSUME n >= 1 PROVE Divides(shape[1], f[n]) /\ Divides(shape[n], f[n])
    <2>1. n \in 1 .. n /\ n - 1 \in 0 .. n /\ shape[n] \in Nat
        BY <1>1, <1>7
    <2>2. f[n - 1] \in Nat /\ f[n] = f[n - 1] * shape[n]
        BY <2>1, <1>5
    <2>3. f[n] = shape[n] * f[n - 1]
        BY <2>1, <2>2
    <2> QED
        BY <2>1, <2>2, <2>3, <1>5 DEF Divides
<1>8. ASSUME n = 1 PROVE f[n] = shape[1]
    <2>1. f[1] = f[0] * shape[1] /\ shape[1] \in Nat
        BY <1>1, <1>5, <1>8
    <2> QED
        BY <2>1, <1>5, <1>8
<1> QED
    BY <1>4, <1>6, <1>7, <1>8 DEF n

\* A shape may be read from either end.
LEMMA ReverseOf ==
    ASSUME NEW shape \in Seq(Nat)
    PROVE  /\ Reverse(shape) \in Seq(Nat)
           /\ Len(Reverse(shape)) = Len(shape)
           /\ Len(shape) >= 1 => Reverse(shape)[1] = shape[Len(shape)]
<1>1. /\ Len(shape) \in Nat /\ \A i \in 1 .. Len(shape) : shape[i] \in Nat
    OBVIOUS
<1>2. \A i \in 1 .. Len(shape) : (Len(shape) - i) + 1 \in 1 .. Len(shape)
    BY <1>1
<1>3. Reverse(shape) \in [1 .. Len(shape) -> Nat]
    BY <1>1, <1>2 DEF Reverse
<1>4. Reverse(shape) \in Seq(Nat) /\ Len(Reverse(shape)) = Len(shape)
    BY <1>1, <1>3
<1>5. ASSUME Len(shape) >= 1 PROVE Reverse(shape)[1] = shape[Len(shape)]
    <2>1. 1 \in 1 .. Len(shape) /\ (Len(shape) - 1) + 1 = Len(shape)
        BY <1>1, <1>5
    <2> QED
        BY <2>1 DEF Reverse
<1> QED
    BY <1>4, <1>5
-----------------------------------------------------------------------------
(* The inductive invariant.                                                *)

\* What the headers of the shards opened so far can become.
Candidates ==
    UNION {{TensorOf(e, s) : e \in {x \in Range(model.shards[s].entries) :
                                      Mapped(x) /\ Supported(x)}} : s \in DOMAIN opened}

\* Every entry of the shards opened so far has become a tensor, or was counted
\* among those without a mapping.
Complete ==
    \A s \in DOMAIN opened : \A k \in DOMAIN model.shards[s].entries :
        LET e == model.shards[s].entries[k]
        IN  /\ Mapped(e) => \E i \in DOMAIN tensors : tensors[i] = TensorOf(e, s)
            /\ ~unmapped => Mapped(e)

Made == PlanOf(Kind, fmt, model.layers, tensors)

\* Opening and planning.
OpenInv ==
    /\ pc \in {"idle", "open", "plan", "metadata", "release"} \cup Streaming
    /\ code \in {"none", "running", "ok", "exit", "refused", "duplicate", "empty", "short read"}
    /\ model \in Models /\ fmt \in OutputFormats /\ lib \in BOOLEAN
    /\ current \in [Range(ShardOrder) -> {1, 2}]
    /\ unmapped \in BOOLEAN
    /\ DOMAIN opened \subseteq Shards \cap DOMAIN model.shards
    /\ \A s \in DOMAIN opened : opened[s] \in {1, 2}
    /\ tensors \in Seq(Candidates)
    /\ Complete
    /\ pc # "idle" => ~Exits(model, fmt, lib)
    /\ pc \notin {"idle", "open"} => Unopened = {} /\ ~unmapped
    /\ plan = <<>> \/ plan = Made
    /\ pc \in {"open", "plan"} => plan = <<>>
    /\ pc \in {"metadata", "release"} \cup Streaming => plan = Made

\* The metadata, and the names.
HeaderInv ==
    /\ fields \subseteq model.keys /\ header \subseteq model.keys \cup OwnKeys
    /\ pc \in {"open", "plan", "metadata"} => fields = model.keys
    /\ pc \in {"release"} \cup Streaming => model.keys \subseteq header
    /\ pc \in Streaming =>
         \A i, j \in DOMAIN plan : i # j => plan[i].tensor.name # plan[j].tensor.name

\* The last range handed on ends n bytes into the tensor that is streamed.
At(n) ==
    IF n = 0
    THEN out # <<>> => out[Len(out)].tensor < index /\ Ends(Len(out))
    ELSE /\ out # <<>>
         /\ out[Len(out)].tensor = index
         /\ out[Len(out)].bytes.to = T.start + n

\* Reading, and the buffer.
StreamInv ==
    /\ index \in 1 .. Len(plan) + 1
    /\ out \in Seq([tensor : Nat, bytes : Extents])
    /\ BytesInOrder
    /\ pc \in {"open", "plan", "metadata", "release"} => index = 1 /\ out = <<>>
    /\ pc \in {"read", "pack", "done"} =>
         index \in DOMAIN plan /\ (Quantizing => T.elements # 0)
    /\ pc = "tensor" => At(0)
    /\ pc = "read" => pos \in 0 .. Goal - 1 /\ At(pos)
    /\ pc = "pack" =>
         /\ pos \in 1 .. Goal
         /\ buf \in Extents /\ buf.shard = T.shard /\ buf.file = opened[T.shard]
         /\ T.start <= buf.from /\ buf.from < buf.to /\ buf.to = T.start + pos
         /\ buf.to <= model.shards[T.shard].len
         /\ At(buf.from - T.start)
    /\ pc = "done" => pos = Goal /\ At(pos)
-----------------------------------------------------------------------------
(* What a header entry becomes.                                            *)

\* A tensor whose numbers fit together.
WellFormed(t) ==
    /\ t.shape \in Seq(Nat) /\ t.elements \in Nat
    /\ Len(t.shape) >= 1 => Divides(t.shape[1], t.elements)
    /\ Len(t.shape) = 1 => t.elements = t.shape[1]
    /\ t.start \in Nat /\ t.end \in Nat /\ t.start <= t.end
    /\ t.type \in DOMAIN ITEMSIZE => t.end - t.start = t.elements * ITEMSIZE[t.type]
    /\ ~model.gguf => t.type \in DOMAIN ITEMSIZE
    /\ t.shard \in DOMAIN opened
    /\ t.layer \in Int

\* What a model promises, for the model of the run.
LEMMA ModelFacts ==
    ASSUME model \in Models
    PROVE  /\ model.gguf \in BOOLEAN
           /\ DOMAIN model.shards \subseteq Range(ShardOrder)
           /\ Shards \subseteq Range(ShardOrder)
           /\ \A s \in DOMAIN model.shards :
                /\ model.shards[s].len \in Nat
                /\ model.shards[s].entries \in Seq(Range(model.shards[s].entries))
                /\ \A e \in Range(model.shards[s].entries) :
                     EntryOK(e) /\ (Mapped(e) => NameOf(model, e) \in DOMAIN RoleOf)
BY ModelsAssumption, Zenon DEF Shards, Mapped

\* An entry the source keeps becomes a tensor whose numbers fit together.
LEMMA TensorOfWellFormed ==
    ASSUME model \in Models, DOMAIN opened \subseteq DOMAIN model.shards,
           NEW t \in Candidates
    PROVE  WellFormed(t)
<1>1. PICK s \in DOMAIN opened :
        t \in {TensorOf(e, s) : e \in {x \in Range(model.shards[s].entries) :
                                         Mapped(x) /\ Supported(x)}}
    BY Zenon DEF Candidates
<1>2. PICK e \in Range(model.shards[s].entries) :
        Mapped(e) /\ Supported(e) /\ t = TensorOf(e, s)
    BY <1>1, Zenon
<1>3. EntryOK(e) /\ NameOf(model, e) \in DOMAIN RoleOf /\ model.gguf \in BOOLEAN
    BY <1>2, ModelFacts, Zenon
<1>4. /\ t.shape = IF model.gguf THEN e.shape ELSE Reverse(e.shape)
      /\ t.elements = Elements(e.shape)
      /\ t.type = e.type /\ t.start = e.start /\ t.end = e.end /\ t.shard = s
      /\ t.layer = RoleOf[NameOf(model, e)].layer
    BY <1>2, Zenon DEF TensorOf
<1>5. /\ t.layer \in Int /\ t.shard \in DOMAIN opened
      /\ ~model.gguf => t.type \in DOMAIN ITEMSIZE
    BY <1>2, <1>3, <1>4, RoleAssumption, Zenon DEF Supported
<1>6. /\ t.start \in Nat /\ t.end \in Nat /\ t.start <= t.end
      /\ t.type \in DOMAIN ITEMSIZE => t.end - t.start = t.elements * ITEMSIZE[t.type]
    BY <1>3, <1>4, Zenon DEF EntryOK
<1>7. e.shape \in Seq(Nat)
    BY <1>3, Zenon DEF EntryOK
<1> DEFINE shape == e.shape
<1> HIDE DEF shape
<1>8. shape \in Seq(Nat)
    BY <1>7 DEF shape
<1>9. /\ Elements(shape) \in Nat
      /\ Len(shape) >= 1 => Divides(shape[1], Elements(shape))
                            /\ Divides(shape[Len(shape)], Elements(shape))
      /\ Len(shape) = 1 => Elements(shape) = shape[1]
    BY <1>8, ElementsOf
<1>10. /\ Reverse(shape) \in Seq(Nat)
       /\ Len(Reverse(shape)) = Len(shape)
       /\ Len(shape) >= 1 => Reverse(shape)[1] = shape[Len(shape)]
    BY <1>8, ReverseOf
<1>11. t.elements = Elements(shape) /\ t.shape = IF model.gguf THEN shape ELSE Reverse(shape)
    BY <1>4 DEF shape
<1>12. /\ t.shape \in Seq(Nat) /\ t.elements \in Nat
       /\ Len(t.shape) >= 1 => Divides(t.shape[1], t.elements)
       /\ Len(t.shape) = 1 => t.elements = t.shape[1]
    <2>1. CASE model.gguf
        BY <2>1, <1>8, <1>9, <1>11
    <2>2. CASE ~model.gguf
        <3>1. t.shape = Reverse(shape)
            BY <2>2, <1>11
        <3>2. Len(shape) = 1 => Len(shape) >= 1
            BY <1>8
        <3> QED
            BY <3>1, <3>2, <1>9, <1>10, <1>11
    <2> QED
        BY <2>1, <2>2
<1> QED
    BY <1>5, <1>6, <1>12, Zenon DEF WellFormed

\* While a shard is left, the next one is among them.
LEMMA NextShardLeft ==
    ASSUME model \in Models, Unopened # {}
    PROVE  NextShard \in Unopened
<1> DEFINE S == {i \in DOMAIN ShardOrder : ShardOrder[i] \in Unopened}
<1>1. DOMAIN ShardOrder \subseteq Nat /\ Len(ShardOrder) \in Nat
      /\ DOMAIN ShardOrder = 1 .. Len(ShardOrder)
    BY OrderAssumption
<1>2. S # {}
    BY ModelFacts, Zenon DEF Unopened, Range
<1>3. PICK i \in S : \A j \in S : i <= j
    BY <1>1, <1>2, LeastElement
<1>4. \A j \in 1 .. i - 1 : ShardOrder[j] \notin Unopened
    <2> SUFFICES ASSUME NEW j \in 1 .. i - 1, ShardOrder[j] \in Unopened PROVE FALSE
        OBVIOUS
    <2>1. j \in DOMAIN ShardOrder /\ ~(i <= j)
        BY <1>1
    <2> QED
        BY <1>3, <2>1
<1> QED
    BY <1>3, <1>4, Zenon DEF NextShard

\* The loop over the entries of a shard, from tensors in V: those before stay
\* where they are, and every entry with a mapping becomes one.
LEMMA FoundOf ==
    ASSUME NEW V, tensors \in Seq(V), NEW s,
           model.shards[s].entries \in Seq(Range(model.shards[s].entries)),
           \A k \in DOMAIN model.shards[s].entries :
              Mapped(model.shards[s].entries[k]) => TensorOf(model.shards[s].entries[k], s) \in V
    PROVE  /\ Found(s) \in Seq(V)
           /\ \A i \in DOMAIN tensors : i \in DOMAIN Found(s) /\ Found(s)[i] = tensors[i]
           /\ \A k \in DOMAIN model.shards[s].entries :
                 Mapped(model.shards[s].entries[k]) =>
                    \E i \in DOMAIN Found(s) : Found(s)[i] = TensorOf(model.shards[s].entries[k], s)
<1> DEFINE entries == model.shards[s].entries
           n == Len(entries)
           Keep(k) == Mapped(entries[k])
           New(k) == TensorOf(entries[k], s)
           step == [p \in Nat \X Seq(V) |->
                      IF p[1] + 1 \in 1 .. n /\ Keep(p[1] + 1) THEN Append(p[2], New(p[1] + 1))
                      ELSE p[2]]
<1>1. n \in Nat /\ DOMAIN entries = 1 .. n
    BY SMT
<1>2. \A k \in 1 .. n : Keep(k) => New(k) \in V
    BY <1>1
<1> HIDE DEF n, Keep, New
<1>3. step \in [Nat \X Seq(V) -> Seq(V)]
    <2> DEFINE To(p) == IF p[1] + 1 \in 1 .. n /\ Keep(p[1] + 1) THEN Append(p[2], New(p[1] + 1))
                        ELSE p[2]
    <2>1. ASSUME NEW p \in Nat \X Seq(V) PROVE To(p) \in Seq(V)
        <3>1. p[1] \in Nat /\ p[2] \in Seq(V)
            OBVIOUS
        <3>2. CASE p[1] + 1 \in 1 .. n /\ Keep(p[1] + 1)
            <4>1. New(p[1] + 1) \in V
                BY <3>2, <1>2
            <4> QED
                BY <3>1, <3>2, <4>1
        <3> QED
            BY <3>1, <3>2
    <2> HIDE DEF To
    <2>2. [p \in Nat \X Seq(V) |-> To(p)] \in [Nat \X Seq(V) -> Seq(V)]
        BY <2>1
    <2> QED
        BY <2>2 DEF To
<1>4. ASSUME NEW i \in 1 .. n, NEW q \in Seq(V)
      PROVE  step[<<i - 1, q>>] = IF Keep(i) THEN Append(q, New(i)) ELSE q
    <2>1. i - 1 \in Nat /\ (i - 1) + 1 = i
        BY <1>1
    <2>2. step[<<i - 1, q>>] =
            IF (i - 1) + 1 \in 1 .. n /\ Keep((i - 1) + 1) THEN Append(q, New((i - 1) + 1)) ELSE q
        BY <2>1
    <2> QED
        BY <2>1, <2>2
<1> HIDE DEF step
<1> DEFINE IsFound(f) ==
             f = [k \in 0 .. n |-> IF k = 0 THEN tensors
                                   ELSE IF Keep(k) THEN Append(f[k - 1], New(k))
                                   ELSE f[k - 1]]
<1>5. \E f \in [0 .. n -> Seq(V)] : IsFound(f)
    <2>1. PICK f \in Solutions(Seq(V), tensors, step, n) : TRUE
        BY <1>1, <1>3, RecursiveFunction
    <2>2. f \in [0 .. n -> Seq(V)]
        BY <2>1, Zenon DEF Solutions
    <2>3. f = [k \in 0 .. n |-> IF k = 0 THEN tensors ELSE step[<<k - 1, f[k - 1]>>]]
        BY <2>1, Zenon DEF Solutions
    <2>4. ASSUME NEW k \in 0 .. n
          PROVE  f[k] = IF k = 0 THEN tensors
                        ELSE IF Keep(k) THEN Append(f[k - 1], New(k)) ELSE f[k - 1]
        <3>1. f[k] = IF k = 0 THEN tensors ELSE step[<<k - 1, f[k - 1]>>]
            BY <2>2, <2>3
        <3>2. k # 0 => k \in 1 .. n /\ f[k - 1] \in Seq(V)
            BY <1>1, <2>2
        <3> QED
            BY <3>1, <3>2, <1>4
    <2>5. f = [k \in 0 .. n |-> f[k]]
        BY <2>2
    <2>6. IsFound(f)
        BY <2>4, <2>5, Zenon
    <2> QED
        BY <2>2, <2>6
<1> DEFINE g == CHOOSE f : IsFound(f)
<1>6. IsFound(g)
    BY <1>5, Zenon
<1>7. Found(s) = g[n]
    BY Zenon DEF Found, Keep, New, n
<1> HIDE DEF g
<1>8. \A k \in 0 .. n : g[k] = IF k = 0 THEN tensors
                               ELSE IF Keep(k) THEN Append(g[k - 1], New(k)) ELSE g[k - 1]
    BY <1>6, Zenon
<1> HIDE DEF IsFound
<1> DEFINE Good(k) ==
             /\ g[k] \in Seq(V)
             /\ \A i \in DOMAIN tensors : i \in DOMAIN g[k] /\ g[k][i] = tensors[i]
             /\ \A j \in 1 .. k : Keep(j) => \E i \in DOMAIN g[k] : g[k][i] = New(j)
           S == {k \in Nat : k <= n => Good(k)}
<1>9. 0 \in S
    <2>1. g[0] = tensors
        BY <1>1, <1>8
    <2> QED
        BY <2>1
<1>10. ASSUME NEW k \in Nat, k \in S PROVE k + 1 \in S
    <2> SUFFICES ASSUME k + 1 <= n PROVE Good(k + 1)
        OBVIOUS
    <2>1. k + 1 \in 0 .. n /\ k + 1 # 0 /\ (k + 1) - 1 = k /\ k + 1 \in 1 .. n
        BY <1>1
    <2>2. Good(k)
        BY <1>1, <1>10
    <2>3. g[k + 1] = IF Keep(k + 1) THEN Append(g[k], New(k + 1)) ELSE g[k]
        BY <2>1, <1>8
    <2>4. \A j \in 1 .. k + 1 : j = k + 1 \/ j \in 1 .. k
        OBVIOUS
    <2>5. CASE ~Keep(k + 1)
        BY <2>2, <2>3, <2>4, <2>5
    <2>6. CASE Keep(k + 1)
        <3> DEFINE q == g[k]
                   x == New(k + 1)
        <3>1. q \in Seq(V) /\ x \in V
            BY <2>1, <2>2, <2>6, <1>2
        <3>2. g[k + 1] = Append(q, x)
            BY <2>3, <2>6
        <3> HIDE DEF q, x
        <3>3. /\ Append(q, x) \in Seq(V) /\ Len(q) \in Nat
              /\ \A i \in DOMAIN q : i \in DOMAIN Append(q, x) /\ Append(q, x)[i] = q[i]
              /\ Len(q) + 1 \in DOMAIN Append(q, x) /\ Append(q, x)[Len(q) + 1] = x
            BY <3>1
        <3>4. \A i \in DOMAIN tensors : i \in DOMAIN q /\ q[i] = tensors[i]
            BY <2>2 DEF q
        <3>5. ASSUME NEW j \in 1 .. k + 1, Keep(j)
              PROVE  \E i \in DOMAIN Append(q, x) : Append(q, x)[i] = New(j)
            <4>1. CASE j = k + 1
                <5>1. New(j) = x
                    BY <4>1 DEF x
                <5> QED
                    BY <5>1, <3>3
            <4>2. CASE j \in 1 .. k
                <5>1. \E i \in DOMAIN q : q[i] = New(j)
                    BY <2>2, <3>5, <4>2 DEF q
                <5> QED
                    BY <5>1, <3>3
            <4> QED
                BY <4>1, <4>2, <2>4
        <3> QED
            BY <3>2, <3>3, <3>4, <3>5
    <2> QED
        BY <2>5, <2>6
<1> HIDE DEF S
<1>11. Nat \subseteq S
    BY <1>9, <1>10, SetInduction
<1>12. Good(n)
    BY <1>1, <1>11 DEF S
<1> QED
    BY <1>1, <1>7, <1>12, Zenon DEF Keep, New
-----------------------------------------------------------------------------
(* Opening the shards, and the plan.                                       *)

\* What depends on the model, the shards opened and the tensors found only.
LEMMA SameSource ==
    ASSUME UNCHANGED <<model, fmt, lib, opened, tensors, unmapped>>
    PROVE  /\ Candidates' = Candidates /\ (Complete' <=> Complete)
           /\ Made' = Made /\ Shards' = Shards /\ Unopened' = Unopened
<1>1. /\ model' = model /\ fmt' = fmt /\ opened' = opened /\ tensors' = tensors
      /\ unmapped' = unmapped
    OBVIOUS
<1>2. Shards' = Shards /\ Unopened' = Unopened
    BY <1>1, Zenon DEF Shards, Unopened
<1>3. Made' = Made
    BY <1>1, Zenon DEF Made, Kind
<1>4. /\ \A e : Mapped(e)' <=> Mapped(e)
      /\ \A e : Supported(e)' <=> Supported(e)
      /\ \A e, s : TensorOf(e, s)' = TensorOf(e, s)
    BY <1>1, Zenon DEF Mapped, Supported, TensorOf
<1>5. Candidates' = Candidates
    BY <1>1, SMT DEF Candidates, Mapped, Supported, TensorOf, NameOf
<1>6. Complete' <=> Complete
    BY <1>1, SMT DEF Complete, Mapped, TensorOf, NameOf
<1> QED
    BY <1>2, <1>3, <1>5, <1>6

\* A plan has an entry for every tensor.
LEMMA PlanEntries ==
    ASSUME tensors \in Seq(Candidates), plan = Made
    PROVE  /\ Len(plan) = Len(tensors) /\ Len(plan) \in Nat
           /\ DOMAIN plan = 1 .. Len(plan) /\ DOMAIN plan = DOMAIN tensors
           /\ \A i \in DOMAIN plan :
                /\ plan[i].tensor = tensors[i]
                /\ plan[i].tensor \in Candidates
                /\ plan[i].type = TargetType(Kind, fmt, tensors[i], model.layers)
                /\ plan[i].bytes = PlannedBytes(tensors[i], plan[i].type)
<1>1. /\ DOMAIN tensors = 1 .. Len(tensors) /\ Len(tensors) \in Nat
      /\ \A i \in DOMAIN tensors : tensors[i] \in Candidates
    OBVIOUS
<1>2. /\ DOMAIN plan = DOMAIN tensors
      /\ \A i \in DOMAIN tensors :
           plan[i] = [tensor |-> tensors[i],
                      type |-> TargetType(Kind, fmt, tensors[i], model.layers),
                      bytes |-> PlannedBytes(tensors[i],
                                             TargetType(Kind, fmt, tensors[i], model.layers))]
    BY Zenon DEF Made, PlanOf
<1>3. \A i \in DOMAIN plan :
        /\ plan[i].tensor = tensors[i]
        /\ plan[i].tensor \in Candidates
        /\ plan[i].type = TargetType(Kind, fmt, tensors[i], model.layers)
        /\ plan[i].bytes = PlannedBytes(tensors[i], plan[i].type)
    <2> SUFFICES ASSUME NEW i \in DOMAIN plan
                 PROVE  /\ plan[i].tensor = tensors[i]
                        /\ plan[i].tensor \in Candidates
                        /\ plan[i].type = TargetType(Kind, fmt, tensors[i], model.layers)
                        /\ plan[i].bytes = PlannedBytes(tensors[i], plan[i].type)
        OBVIOUS
    <2>1. i \in DOMAIN tensors
        BY <1>2, Zenon
    <2>2. /\ plan[i].tensor = tensors[i]
          /\ plan[i].type = TargetType(Kind, fmt, tensors[i], model.layers)
          /\ plan[i].bytes = PlannedBytes(tensors[i],
                                TargetType(Kind, fmt, tensors[i], model.layers))
        BY <1>2, <2>1, SMT
    <2> QED
        BY <1>1, <2>1, <2>2, Zenon
<1>4. Len(plan) = Len(tensors)
    <2>1. plan = [i \in 1 .. Len(tensors) |-> plan[i]]
        BY <1>1, <1>2, Zenon DEF Made, PlanOf
    <2> QED
        BY <1>1, <2>1
<1> QED
    BY <1>1, <1>2, <1>3, <1>4, Zenon

\* Init establishes the invariant.
LEMMA OpenInit == Init => OpenInv
<1> SUFFICES ASSUME Init PROVE OpenInv
    OBVIOUS
<1>1. /\ pc = "idle" /\ code = "none" /\ model \in Models /\ fmt \in OutputFormats
      /\ lib \in BOOLEAN /\ DOMAIN opened = {} /\ tensors = <<>> /\ unmapped = FALSE
      /\ plan = <<>> /\ current = [s \in Range(ShardOrder) |-> 1]
    BY Zenon DEF Init
<1>2. current \in [Range(ShardOrder) -> {1, 2}] /\ tensors \in Seq(Candidates)
    BY <1>1, SMT
<1>3. unmapped \in BOOLEAN /\ Complete
    BY <1>1, Zenon DEF Complete
<1> QED
    BY <1>1, <1>2, <1>3, Zenon DEF OpenInv, Streaming

\* A run that starts has opened nothing.
LEMMA OpenStart ==
    ASSUME OpenInv, NEW m \in Models, NEW f \in OutputFormats, NEW l \in BOOLEAN, Start(m, f, l)
    PROVE  OpenInv'
<1>1. /\ model' = m /\ fmt' = f /\ lib' = l /\ current' = current
      /\ DOMAIN opened' = {} /\ tensors' = <<>> /\ unmapped' = FALSE /\ plan' = <<>>
    BY Zenon DEF Start
<1>2. \/ pc' = "idle" /\ code' \in {"exit", "refused"}
      \/ pc' = "open" /\ code' = "running" /\ ~Exits(m, f, l)
    BY Zenon DEF Start, End
<1>3. tensors' \in Seq(Candidates') /\ unmapped' \in BOOLEAN
    <2>1. tensors' \in Seq(Candidates')
        BY <1>1, SMT
    <2> QED
        BY <1>1, <2>1
<1>4. Complete'
    BY <1>1, Zenon DEF Complete
<1>5. /\ pc' # "idle" => ~Exits(model', fmt', lib')
      /\ current' \in [Range(ShardOrder) -> {1, 2}]
    BY <1>1, <1>2, Zenon DEF OpenInv
<1> QED
    BY <1>1, <1>2, <1>3, <1>4, <1>5, Zenon DEF OpenInv, Streaming

\* A shard is opened, or refuses the model.
LEMMA OpenOpenShard == OpenInv /\ OpenShard => OpenInv'
<1> SUFFICES ASSUME OpenInv, OpenShard PROVE OpenInv'
    OBVIOUS
<1> DEFINE s == NextShard
           entries == model.shards[s].entries
<1>1. /\ pc = "open" /\ Unopened # {}
      /\ UNCHANGED <<given, current, plan>>
      /\ model \in Models /\ fmt \in OutputFormats /\ lib \in BOOLEAN /\ ~Exits(model, fmt, lib)
      /\ plan = <<>> \/ plan = Made
    BY Zenon DEF OpenShard, OpenInv, stream
<1>2. CASE s \notin DOMAIN model.shards \/ \E k \in DOMAIN entries : ~Supported(entries[k])
    <2>1. pc' = "idle" /\ code' = "refused" /\ UNCHANGED <<opened, tensors, unmapped>>
        BY <1>2, Zenon DEF OpenShard, End, source
    <2>2. /\ UNCHANGED <<model, fmt, lib, opened, tensors, unmapped, current, plan>>
        BY <1>1, <2>1, Zenon DEF given
    <2>3. /\ Candidates' = Candidates /\ (Complete' <=> Complete)
          /\ Made' = Made /\ Shards' = Shards /\ Unopened' = Unopened
        BY <2>2, SameSource
    <2> QED
        BY <1>1, <2>1, <2>2, <2>3, Zenon DEF OpenInv, Streaming
<1>3. CASE ~(s \notin DOMAIN model.shards \/ \E k \in DOMAIN entries : ~Supported(entries[k]))
    <2>1. /\ opened' = [x \in DOMAIN opened \cup {s} |-> IF x = s THEN current[s] ELSE opened[x]]
          /\ tensors' = Found(s)
          /\ unmapped' = (unmapped \/ \E k \in DOMAIN entries : ~Mapped(entries[k]))
          /\ UNCHANGED <<pc, code>>
        BY <1>3, Zenon DEF OpenShard
    <2>2. s \in Unopened /\ s \in Shards /\ s \in Range(ShardOrder)
        <3>1. s \in Unopened
            BY <1>1, NextShardLeft
        <3> QED
            BY <3>1, <1>1, ModelFacts, Zenon DEF Unopened
    <2>3. /\ s \in DOMAIN model.shards
          /\ \A k \in DOMAIN entries : Supported(entries[k])
          /\ entries \in Seq(Range(entries))
        BY <1>1, <1>3, ModelFacts, Zenon
    <2>4. UNCHANGED <<model, fmt, lib, current, plan>>
        BY <1>1, Zenon DEF given
    <2>5. DOMAIN opened' = DOMAIN opened \cup {s}
        BY <2>1, Zenon
    <2>6. \A x \in DOMAIN opened' : opened'[x] \in {1, 2}
        <3>1. current[s] \in {1, 2} /\ \A x \in DOMAIN opened : opened[x] \in {1, 2}
            BY <2>2, Zenon DEF OpenInv
        <3> QED
            BY <2>1, <2>5, <3>1, Zenon
    <2>7. /\ \A e : Mapped(e)' <=> Mapped(e)
          /\ \A e : Supported(e)' <=> Supported(e)
          /\ \A e, x : TensorOf(e, x)' = TensorOf(e, x)
        BY <2>4, Zenon DEF Mapped, Supported, TensorOf
    <2> DEFINE Of(x) == {TensorOf(e, x) : e \in {y \in Range(model.shards[x].entries) :
                                                  Mapped(y) /\ Supported(y)}}
    <2>8. Candidates = UNION {Of(x) : x \in DOMAIN opened}
        BY Zenon DEF Candidates
    <2>9. Candidates' = UNION {Of(x) : x \in DOMAIN opened'}
        BY <2>4, SMT DEF Candidates, Mapped, Supported, TensorOf, NameOf
    <2> HIDE DEF Of
    <2>10. Candidates \subseteq Candidates'
        BY <2>5, <2>8, <2>9, SMT
    <2>11. \A k \in DOMAIN entries : Mapped(entries[k]) => TensorOf(entries[k], s) \in Candidates'
        <3> SUFFICES ASSUME NEW k \in DOMAIN entries, Mapped(entries[k])
                     PROVE  TensorOf(entries[k], s) \in Candidates'
            OBVIOUS
        <3>1. entries[k] \in Range(entries) /\ Supported(entries[k])
            BY <2>3, Zenon DEF Range
        <3>2. TensorOf(entries[k], s) \in Of(s)
            BY <3>1, Zenon DEF Of
        <3> QED
            BY <2>5, <2>9, <3>2, Zenon
    <2>12. tensors \in Seq(Candidates')
        <3>1. tensors \in Seq(Candidates)
            BY Zenon DEF OpenInv
        <3> DEFINE A == Candidates
                   B == Candidates'
        <3>2. A \subseteq B /\ tensors \in Seq(A)
            BY <2>10, <3>1
        <3> HIDE DEF A, B
        <3>3. tensors \in Seq(B)
            BY <3>2, SMT
        <3> QED
            BY <3>3 DEF B
    <2>13. /\ Found(s) \in Seq(Candidates')
           /\ \A i \in DOMAIN tensors : i \in DOMAIN Found(s) /\ Found(s)[i] = tensors[i]
           /\ \A k \in DOMAIN entries :
                 Mapped(entries[k]) =>
                    \E i \in DOMAIN Found(s) : Found(s)[i] = TensorOf(entries[k], s)
        BY <2>3, <2>11, <2>12, FoundOf
    <2>14. Complete'
        <3> SUFFICES ASSUME NEW x \in DOMAIN opened', NEW k \in DOMAIN model.shards[x].entries
                     PROVE  LET e == model.shards[x].entries[k]
                            IN  /\ Mapped(e) => \E i \in DOMAIN tensors' : tensors'[i] = TensorOf(e, x)
                                /\ ~unmapped' => Mapped(e)
            BY <2>4, SMT DEF Complete, Mapped, TensorOf, NameOf
        <3>1. CASE x = s
            BY <2>1, <2>13, <3>1, Zenon
        <3>2. CASE x # s
            <4>1. x \in DOMAIN opened
                BY <2>5, <3>2, Zenon
            <4>2. /\ Mapped(model.shards[x].entries[k]) =>
                       \E i \in DOMAIN tensors : tensors[i] = TensorOf(model.shards[x].entries[k], x)
                  /\ ~unmapped => Mapped(model.shards[x].entries[k])
                BY <4>1, Zenon DEF OpenInv, Complete
            <4> QED
                BY <2>1, <2>13, <4>2, Zenon
        <3> QED
            BY <3>1, <3>2
    <2>15. Shards' = Shards /\ DOMAIN opened' \subseteq Shards' \cap DOMAIN model'.shards
        <3>1. Shards' = Shards
            BY <2>4, Zenon DEF Shards
        <3>2. DOMAIN opened \subseteq Shards \cap DOMAIN model.shards
            BY Zenon DEF OpenInv
        <3> QED
            BY <2>2, <2>3, <2>4, <2>5, <3>1, <3>2, Zenon
    <2>16. unmapped' \in BOOLEAN
        BY <2>1, Zenon DEF OpenInv
    <2>17. plan' = <<>>
        BY <1>1, <2>4, Zenon DEF OpenInv
    <2>18. /\ pc' = "open" /\ model' \in Models /\ fmt' \in OutputFormats /\ lib' \in BOOLEAN
           /\ ~Exits(model', fmt', lib')
           /\ code' \in {"none", "running", "ok", "exit", "refused", "duplicate", "empty", "short read"}
           /\ current' \in [Range(ShardOrder) -> {1, 2}]
           /\ tensors' \in Seq(Candidates')
        BY <1>1, <2>1, <2>4, <2>13, Zenon DEF OpenInv
    <2> QED
        BY <2>6, <2>14, <2>15, <2>16, <2>17, <2>18, Zenon DEF OpenInv, Streaming
<1> QED
    BY <1>2, <1>3

\* Every step keeps it.
LEMMA OpenNext == OpenInv /\ [Next]_vars => OpenInv'
<1> SUFFICES ASSUME OpenInv, [Next]_vars PROVE OpenInv'
    OBVIOUS
<1>1. ASSUME UNCHANGED <<model, fmt, lib, opened, tensors, unmapped>>,
             current' \in [Range(ShardOrder) -> {1, 2}],
             plan' = plan \/ plan' = Made,
             code' \in {"none", "running", "ok", "exit", "refused", "duplicate", "empty", "short read"},
             \/ pc' = "idle"
             \/ pc' = "plan" /\ pc = "open" /\ Unopened = {} /\ ~unmapped /\ plan' = plan
             \/ pc' \in {"metadata", "release"} \cup Streaming /\ pc \notin {"idle", "open"} /\ plan' = Made
             \/ pc' = pc /\ plan' = plan
      PROVE  OpenInv'
    <2>1. /\ Candidates' = Candidates /\ (Complete' <=> Complete)
          /\ Made' = Made /\ Shards' = Shards /\ Unopened' = Unopened
        BY <1>1, SameSource
    <2> QED
        BY <1>1, <2>1, Zenon DEF OpenInv, Streaming
<1>2. ASSUME NEW m \in Models, NEW f \in OutputFormats, NEW l \in BOOLEAN, Start(m, f, l)
      PROVE  OpenInv'
    BY <1>2, OpenStart
<1>3. CASE OpenShard
    BY <1>3, OpenOpenShard
<1>4. /\ plan = Made \/ pc \notin {"metadata", "release"} \cup Streaming
      /\ current \in [Range(ShardOrder) -> {1, 2}]
      /\ code \in {"none", "running", "ok", "exit", "refused", "duplicate", "empty", "short read"}
    BY Zenon DEF OpenInv
<1>5. CASE Opened
    <2>1. /\ UNCHANGED <<model, fmt, lib, opened, tensors, unmapped, current, plan>>
          /\ pc = "open" /\ Unopened = {}
          /\ \/ pc' = "idle" /\ code' = "refused"
             \/ pc' = "plan" /\ ~unmapped /\ code' = code
        BY <1>5, Zenon DEF Opened, End, given, source
    <2> QED
        BY <1>1, <1>4, <2>1
<1>6. CASE MakePlan
    <2>1. /\ UNCHANGED <<model, fmt, lib, opened, tensors, unmapped, current, code>>
          /\ pc = "plan" /\ pc' = "metadata" /\ plan' = Made
        BY <1>6, Zenon DEF MakePlan, Made, given, source
    <2> QED
        BY <1>1, <1>4, <2>1
<1>7. CASE \/ CopyMetadata \/ ReleaseAndDeclare \/ BeginTensor
           \/ (\E n \in ReadSizes : Read(n)) \/ Pack \/ NextTensor \/ Finish
    <2>1. /\ UNCHANGED <<model, fmt, lib, opened, tensors, unmapped, current, plan>>
          /\ pc \in {"metadata", "release"} \cup Streaming
          /\ pc' \in {"idle", "release"} \cup Streaming
          /\ code' \in {code, "duplicate", "empty", "short read", "ok"}
        BY <1>7, Zenon DEF CopyMetadata, ReleaseAndDeclare, BeginTensor, Read, Pack, NextTensor, Finish,
               End, given, source, stream, Streaming
    <2>2. pc \notin {"idle", "open"}
        BY <2>1, Zenon DEF Streaming
    <2> QED
        BY <1>1, <1>4, <2>1, <2>2
<1>8. ASSUME NEW s \in DOMAIN model.shards, Replace(s) PROVE OpenInv'
    <2>1. /\ UNCHANGED <<model, fmt, lib, opened, tensors, unmapped, plan, pc, code>>
          /\ current' = [current EXCEPT ![s] = 3 - @]
        BY <1>8, Zenon DEF Replace, given, source
    <2>2. current' \in [Range(ShardOrder) -> {1, 2}]
        <3>1. 3 - 1 = 2 /\ 3 - 2 = 1
            OBVIOUS
        <3>2. 3 - current[s] \in {1, 2}
            <4>1. model \in Models
                BY Zenon DEF OpenInv
            <4>2. s \in Range(ShardOrder)
                BY <4>1, ModelFacts, Zenon
            <4> QED
                BY <1>4, <3>1, <4>2, Zenon
        <3> QED
            BY <1>4, <2>1, <3>2, Zenon
    <2> QED
        BY <1>1, <1>4, <2>1, <2>2
<1>9. CASE UNCHANGED vars
    BY <1>9, <1>1, <1>4 DEF vars, given, source
<1> QED
    BY <1>2, <1>3, <1>5, <1>6, <1>7, <1>8, <1>9, Zenon DEF Next
-----------------------------------------------------------------------------
(* The header, and that nothing of the model is lost.                      *)

\* Init establishes it.
LEMMA HeaderInit == Init => HeaderInv
BY Zenon DEF Init, HeaderInv, Streaming

\* Every step keeps it.
LEMMA HeaderNext == OpenInv /\ HeaderInv /\ [Next]_vars => HeaderInv'
<1> SUFFICES ASSUME OpenInv, HeaderInv, [Next]_vars PROVE HeaderInv'
    OBVIOUS
<1>1. ASSUME NEW m \in Models, NEW f \in OutputFormats, NEW l \in BOOLEAN, Start(m, f, l)
      PROVE  HeaderInv'
    <2>1. /\ model' = m /\ fields' = m.keys /\ header' = {} /\ pc' \in {"idle", "open"}
        BY <1>1, Zenon DEF Start, End
    <2> QED
        BY <2>1, Zenon DEF HeaderInv, Streaming
<1>2. CASE CopyMetadata
    <2>1. /\ pc = "metadata" /\ pc' = "release" /\ header' = fields \cup OwnKeys
          /\ model' = model /\ fields' = fields /\ fields = model.keys
        BY <1>2, Zenon DEF CopyMetadata, HeaderInv, given
    <2> QED
        BY <2>1, Zenon DEF HeaderInv, Streaming
<1>3. CASE ReleaseAndDeclare
    <2>1. /\ pc = "release" /\ fields' = {} /\ header' = header /\ model' = model /\ plan' = plan
          /\ \/ pc' = "idle"
             \/ /\ pc' = "tensor"
                /\ \A i, j \in DOMAIN plan : i # j => plan[i].tensor.name # plan[j].tensor.name
        BY <1>3, Zenon DEF ReleaseAndDeclare, End, given
    <2> QED
        BY <2>1, Zenon DEF HeaderInv, Streaming
<1>4. CASE MakePlan
    <2>1. /\ pc = "plan" /\ pc' = "metadata" /\ fields' = fields /\ header' = header /\ model' = model
        BY <1>4, Zenon DEF MakePlan, given
    <2> QED
        BY <2>1, Zenon DEF HeaderInv, Streaming
<1>5. ASSUME UNCHANGED <<model, fields, header, plan>>,
             \/ pc' = "idle" \/ pc' = pc
             \/ pc = "open" /\ pc' = "plan"
             \/ pc \in Streaming /\ pc' \in Streaming
      PROVE  HeaderInv'
    BY <1>5, Zenon DEF HeaderInv, Streaming
<1>6. OpenShard \/ Opened => UNCHANGED <<model, fields, header, plan>>
                             /\ (pc' = "idle" \/ pc' = pc \/ (pc = "open" /\ pc' = "plan"))
    BY Zenon DEF OpenShard, Opened, End, given, stream
<1>7. BeginTensor \/ (\E n \in ReadSizes : Read(n)) \/ Pack \/ NextTensor \/ Finish
        => UNCHANGED <<model, fields, header, plan>>
           /\ (pc' = "idle" \/ (pc \in Streaming /\ pc' \in Streaming))
    BY Zenon DEF BeginTensor, Read, Pack, NextTensor, Finish, End, given, stream, Streaming
<1>8. (\E s \in DOMAIN model.shards : Replace(s)) \/ UNCHANGED vars
        => UNCHANGED <<model, fields, header, plan, pc>>
    BY SMT DEF Replace, given, stream, vars
<1> QED
    BY <1>1, <1>2, <1>3, <1>4, <1>5, <1>6, <1>7, <1>8, Zenon DEF Next

\* For any models: what is streamed is the whole model, every entry of every
\* shard of it, under a name of its own, and its metadata reached the header
\* before it was released (st_source.py:183-187, engine.py:225-233).
THEOREM NothingIsLost == Spec => []ModelIsWhole
<1>1. OpenInv /\ HeaderInv => ModelIsWhole
    <2> SUFFICES ASSUME OpenInv, HeaderInv, pc \in Streaming PROVE ModelIsWhole
        BY Zenon DEF ModelIsWhole
    <2>1. pc \notin {"idle", "open"}
        BY SMT DEF Streaming
    <2>2. Unopened = {} /\ ~unmapped /\ plan = Made /\ tensors \in Seq(Candidates) /\ Complete
        BY <2>1, Zenon DEF OpenInv
    <2>3. DOMAIN plan = DOMAIN tensors /\ \A i \in DOMAIN plan : plan[i].tensor = tensors[i]
        BY <2>2, PlanEntries
    <2>4. ASSUME NEW s \in Shards, NEW k \in DOMAIN model.shards[s].entries
          PROVE  LET e == model.shards[s].entries[k]
                 IN  Mapped(e) /\ \E i \in DOMAIN plan : plan[i].tensor = TensorOf(e, s)
        <3>1. s \in DOMAIN opened
            BY <2>2, Zenon DEF Unopened
        <3> QED
            BY <2>2, <2>3, <3>1, Zenon DEF Complete
    <2>5. /\ model.keys \subseteq header
          /\ \A i, j \in DOMAIN plan : i # j => plan[i].tensor.name # plan[j].tensor.name
        BY Zenon DEF HeaderInv
    <2>6. IsInjective([i \in DOMAIN plan |-> plan[i].tensor.name])
        BY <2>5, Zenon DEF IsInjective
    <2> QED
        BY <2>4, <2>5, <2>6, Zenon DEF ModelIsWhole
<1> QED
    BY <1>1, OpenInit, OpenNext, HeaderInit, HeaderNext, PTL DEF Spec
-----------------------------------------------------------------------------
(* The types tensors are stored in.                                        *)

\* A type other than the tensor's own is one its rows can be packed in.
LEMMA PackedTypes ==
    ASSUME NEW kind, NEW f \in OutputFormats, NEW t, NEW layers,
           TargetType(kind, f, t, layers) # t.type
    PROVE  LET tt == TargetType(kind, f, t, layers)
           IN  \/ tt = "Q8_0" /\ f = "q8_0" /\ Quantizable(t, BLOCK)
               \/ tt \in {"Q4_K", "Q6_K"} /\ f = "q4_k_m" /\ Quantizable(t, QK_K)
               \/ tt = "F32" /\ kind = "shards" /\ Len(t.shape) = 1
BY Zenon DEF TargetType, FormatRule, Q80Rule, Q4KMRule, OutputFormats

\* n elements in blocks of blk elements and bytes bytes.
InBlocks(n, blk, bytes) == (n \div blk) * bytes

\* Packing the rows of a tensor one after the other gives the planned size.
LEMMA RowsPack ==
    ASSUME NEW elements \in Nat, NEW row \in Nat \ {0}, NEW blk \in Nat \ {0}, NEW bytes \in Nat,
           Divides(row, elements), row % blk = 0
    PROVE  /\ elements \div row \in Nat /\ (elements \div row) * row = elements
           /\ InBlocks(elements, blk, bytes) = (elements \div row) * InBlocks(row, blk, bytes)
<1>1. PICK r \in Nat : elements = row * r
    BY DEF Divides
<1> DEFINE q == row \div blk
<1>2. q \in Nat /\ row = blk * q
    <2>1. q \in Int /\ row = blk * q + (row % blk)
        BY Division
    <2>2. row = blk * q
        BY <2>1
    <2> HIDE DEF q
    <2>3. q >= 0
        <3> SUFFICES ASSUME q <= -1 PROVE FALSE
            BY <2>1
        <3>1. blk * q <= blk * (-1)
            BY <2>1, TimesMonotone
        <3> QED
            BY <2>2, <3>1
    <2> QED
        BY <2>1, <2>2, <2>3
<1> HIDE DEF q
<1>3. elements \div row = r
    <2>1. elements = row * r + 0 /\ 0 \in 0 .. row - 1
        BY <1>1
    <2> QED
        BY <2>1, DivisionUnique
<1>4. elements \div blk = q * r
    <2>1. elements = blk * (q * r) /\ q * r \in Nat
        BY <1>1, <1>2, Associate
    <2>2. elements = blk * (q * r) + 0 /\ 0 \in 0 .. blk - 1
        BY <2>1
    <2> QED
        BY <2>1, <2>2, DivisionUnique
<1>5. (q * r) * bytes = r * (q * bytes)
    <2>1. q * r = r * q
        BY <1>2
    <2> QED
        BY <1>2, <2>1, Associate
<1>6. r * row = elements
    BY <1>1
<1> QED
    BY <1>3, <1>4, <1>5, <1>6 DEF q, InBlocks

\* Blocks and bytes of the types.
LEMMA TypeSizes ==
    /\ BlockSize["Q8_0"] = 32 /\ BlockSize["Q4_K"] = 256 /\ BlockSize["Q6_K"] = 256
    /\ BlockSize["F32"] = 1 /\ BlockBytes["F32"] = 4
    /\ BlockBytes["Q8_0"] \in Nat /\ BlockBytes["Q4_K"] \in Nat /\ BlockBytes["Q6_K"] \in Nat
    /\ DOMAIN ITEMSIZE = {"F32", "F16", "BF16"}
    /\ \A type \in DOMAIN ITEMSIZE : ITEMSIZE[type] \in Nat \ {0}
    /\ ITEMSIZE["F32"] = 4
BY SMT DEF BlockSize, BlockBytes, ITEMSIZE

\* While data is streamed, an entry of the plan.
LEMMA EntryFacts ==
    ASSUME OpenInv, plan = Made, NEW i \in DOMAIN plan
    PROVE  /\ WellFormed(plan[i].tensor) /\ plan[i].tensor = tensors[i]
           /\ plan[i].type = TargetType(Kind, fmt, plan[i].tensor, model.layers)
           /\ plan[i].bytes = PlannedBytes(plan[i].tensor, plan[i].type)
<1>1. /\ model \in Models /\ DOMAIN opened \subseteq DOMAIN model.shards
      /\ tensors \in Seq(Candidates)
    BY Zenon DEF OpenInv
<1>2. /\ plan[i].tensor = tensors[i] /\ plan[i].tensor \in Candidates
      /\ plan[i].type = TargetType(Kind, fmt, tensors[i], model.layers)
      /\ plan[i].bytes = PlannedBytes(tensors[i], plan[i].type)
    BY <1>1, PlanEntries
<1>3. WellFormed(plan[i].tensor)
    BY <1>1, <1>2, TensorOfWellFormed
<1> QED
    BY <1>2, <1>3, Zenon

\* A shape that is not empty has a first dimension.
LEMMA FirstDimension ==
    ASSUME NEW shape \in Seq(Nat), Len(shape) >= 2 \/ Len(shape) = 1
    PROVE  Len(shape) >= 1 /\ shape[1] \in Nat
<1>1. Len(shape) >= 1
    OBVIOUS
<1> QED
    BY <1>1

\* 0 divides nothing else.
LEMMA ZeroDivides ==
    ASSUME NEW n \in Nat, n # 0
    PROVE  ~Divides(0, n)
<1>1. \A k \in Nat : 0 * k = 0
    OBVIOUS
<1> QED
    BY <1>1, Zenon DEF Divides

\* A shape of two dimensions is none of one.
LEMMA TwoDimensions ==
    ASSUME NEW shape \in Seq(Nat), Len(shape) >= 2
    PROVE  Len(shape) # 1
<1>1. Len(shape) \in Nat
    OBVIOUS
<1>2. \A n \in Nat : n >= 2 => n # 1
    OBVIOUS
<1> QED
    BY <1>1, <1>2, Zenon

\* A tensor packed row by row takes the bytes planned for it.
LEMMA PlannedByRows ==
    ASSUME NEW t, NEW tt, tt # t.type, t.elements \in Nat, t.shape[1] \in Nat \ {0},
           BlockSize[tt] \in Nat \ {0}, BlockBytes[tt] \in Nat,
           Divides(t.shape[1], t.elements), t.shape[1] % BlockSize[tt] = 0
    PROVE  PlannedBytes(t, tt) = Rows(t) * PackedBytes(t.shape[1], tt)
<1> DEFINE row == t.shape[1]
           blk == BlockSize[tt]
           bytes == BlockBytes[tt]
           elements == t.elements
<1>1. /\ elements \in Nat /\ row \in Nat \ {0} /\ blk \in Nat \ {0} /\ bytes \in Nat
      /\ Divides(row, elements) /\ row % blk = 0
    OBVIOUS
<1> HIDE DEF row, blk, bytes, elements
<1>2. InBlocks(elements, blk, bytes) = (elements \div row) * InBlocks(row, blk, bytes)
    BY <1>1, RowsPack
<1> QED
    BY <1>2, Zenon DEF PlannedBytes, Rows, PackedBytes, InBlocks, row, blk, bytes, elements

\* What a tensor that changes its type has: rows that can be read, and blocks
\* that fill them.
LEMMA Packable ==
    ASSUME OpenInv, plan = Made, NEW i \in DOMAIN plan, plan[i].type # plan[i].tensor.type,
           plan[i].tensor.elements # 0
    PROVE  LET t == plan[i].tensor
               tt == plan[i].type
           IN  /\ Len(t.shape) >= 1 /\ t.shape[1] \in Nat \ {0} /\ Divides(t.shape[1], t.elements)
               /\ t.type \in DOMAIN ITEMSIZE
               /\ tt \in {"Q8_0", "Q4_K", "Q6_K", "F32"}
               /\ tt \in {"Q4_K", "Q6_K"} => fmt = "q4_k_m"
               /\ t.shape[1] % BlockSize[tt] = 0
<1> DEFINE t == plan[i].tensor
           tt == plan[i].type
<1>1. WellFormed(t) /\ tt = TargetType(Kind, fmt, t, model.layers) /\ fmt \in OutputFormats
    BY EntryFacts, Zenon DEF OpenInv
<1> HIDE DEF t, tt
<1>2. tt # t.type /\ t.elements # 0
    BY DEF t, tt
<1>3. \/ tt = "Q8_0" /\ fmt = "q8_0" /\ Quantizable(t, BLOCK)
      \/ tt \in {"Q4_K", "Q6_K"} /\ fmt = "q4_k_m" /\ Quantizable(t, QK_K)
      \/ tt = "F32" /\ Kind = "shards" /\ Len(t.shape) = 1
    BY <1>1, <1>2, PackedTypes
<1>4. /\ t.shape \in Seq(Nat) /\ t.elements \in Nat
      /\ Len(t.shape) >= 1 => Divides(t.shape[1], t.elements)
      /\ Kind = "shards" => t.type \in DOMAIN ITEMSIZE
    BY <1>1, Zenon DEF WellFormed, Kind
<1>5. Len(t.shape) >= 2 \/ Len(t.shape) = 1
    BY <1>3, Zenon DEF Quantizable
<1>6. Len(t.shape) >= 1 /\ t.shape[1] \in Nat \ {0}
    <2>1. Len(t.shape) >= 1 /\ t.shape[1] \in Nat
        BY <1>4, <1>5, FirstDimension, Zenon
    <2>2. Divides(t.shape[1], t.elements)
        BY <1>4, <2>1, Zenon
    <2>3. t.shape[1] # 0
        BY <1>2, <1>4, <2>1, <2>2, ZeroDivides, Zenon
    <2> QED
        BY <2>1, <2>3
<1>7. t.type \in DOMAIN ITEMSIZE
    BY <1>3, <1>4, Zenon DEF Quantizable
<1>8. t.shape[1] % BlockSize[tt] = 0
    <2>1. CASE tt = "F32"
        BY <2>1, <1>6, TypeSizes
    <2>2. CASE tt = "Q8_0"
        BY <2>2, <1>3, TypeSizes DEF Quantizable, BLOCK
    <2>3. CASE tt \in {"Q4_K", "Q6_K"}
        BY <2>3, <1>3, TypeSizes DEF Quantizable, QK_K
    <2> QED
        BY <1>3, <2>1, <2>2, <2>3
<1>9. tt \in {"Q8_0", "Q4_K", "Q6_K", "F32"} /\ (tt \in {"Q4_K", "Q6_K"} => fmt = "q4_k_m")
    BY <1>3
<1> QED
    BY <1>4, <1>6, <1>7, <1>8, <1>9, Zenon DEF t, tt

\* For any models and both formats: whatever is to be packed and not empty can
\* be, in whole blocks and to the planned size, and the library it takes is there
\* (engine.py:181-186, engine.py:378).
THEOREM PlanIsFeasible == Spec => []PlanCanBeStreamed
<1>1. OpenInv => PlanCanBeStreamed
    <2> SUFFICES ASSUME OpenInv, pc \in Streaming, NEW i \in DOMAIN plan,
                        plan[i].type # plan[i].tensor.type, plan[i].tensor.elements # 0
                 PROVE  LET t == plan[i].tensor
                            tt == plan[i].type
                        IN  /\ t.type \in DOMAIN ITEMSIZE
                            /\ t.shape[1] % BlockSize[tt] = 0
                            /\ plan[i].bytes = Rows(t) * PackedBytes(t.shape[1], tt)
                            /\ tt \notin {"Q8_0", "F32"} => lib
        BY Zenon DEF PlanCanBeStreamed
    <2> DEFINE t == plan[i].tensor
               tt == plan[i].type
    <2>1. plan = Made /\ ~Exits(model, fmt, lib)
        <3>1. pc # "idle"
            BY SMT DEF Streaming
        <3> QED
            BY <3>1, Zenon DEF OpenInv
    <2>2. /\ t.shape[1] \in Nat \ {0} /\ Divides(t.shape[1], t.elements)
          /\ t.type \in DOMAIN ITEMSIZE
          /\ tt \in {"Q8_0", "Q4_K", "Q6_K", "F32"}
          /\ tt \in {"Q4_K", "Q6_K"} => fmt = "q4_k_m"
          /\ t.shape[1] % BlockSize[tt] = 0
        BY <2>1, Packable
    <2>3. WellFormed(t) /\ plan[i].bytes = PlannedBytes(t, tt)
        BY <2>1, EntryFacts
    <2>4. t.elements \in Nat
        BY <2>3, Zenon DEF WellFormed
    <2>5. BlockSize[tt] \in Nat \ {0} /\ BlockBytes[tt] \in Nat
        BY <2>2, TypeSizes
    <2>6. plan[i].bytes = Rows(t) * PackedBytes(t.shape[1], tt)
        BY <2>2, <2>3, <2>4, <2>5, PlannedByRows, Zenon
    <2>7. tt \notin {"Q8_0", "F32"} => lib
        BY <2>1, <2>2, Zenon DEF Exits, NeedsGgml
    <2> QED
        BY <2>2, <2>6, <2>7, Zenon
<1> QED
    BY <1>1, OpenInit, OpenNext, PTL DEF Spec
-----------------------------------------------------------------------------
(* The reference tools.                                                    *)

\* A candidate has all the fields of a tensor.
LEMMA TensorFields ==
    ASSUME NEW t \in Candidates
    PROVE  t = [name |-> t.name, role |-> t.role, layer |-> t.layer, shape |-> t.shape,
                elements |-> t.elements, type |-> t.type, start |-> t.start, end |-> t.end,
                shard |-> t.shard]
<1>1. PICK s \in DOMAIN opened :
        t \in {TensorOf(e, s) : e \in {x \in Range(model.shards[s].entries) :
                                         Mapped(x) /\ Supported(x)}}
    BY Zenon DEF Candidates
<1>2. PICK e \in Range(model.shards[s].entries) : t = TensorOf(e, s)
    BY <1>1, Zenon
<1> DEFINE n == NameOf(model, e)
           role == RoleOf[n].role
           layer == RoleOf[n].layer
           shape == IF model.gguf THEN e.shape ELSE Reverse(e.shape)
           elements == Elements(e.shape)
<1>3. t = [name |-> n, role |-> role, layer |-> layer, shape |-> shape,
           elements |-> elements, type |-> e.type, start |-> e.start, end |-> e.end, shard |-> s]
    BY <1>2, Zenon DEF TensorOf
<1> HIDE DEF n, role, layer, shape, elements
<1> QED
    BY <1>3

\* What the first step of the reference tools makes of a tensor.
LEMMA ConvertedOf ==
    ASSUME NEW t,
           t = [name |-> t.name, role |-> t.role, layer |-> t.layer, shape |-> t.shape,
                elements |-> t.elements, type |-> t.type, start |-> t.start, end |-> t.end,
                shard |-> t.shard]
    PROVE  /\ Len(t.shape) = 1 =>
                /\ Converted(t).type = "F32" /\ Converted(t).shape = t.shape
                /\ Converted(t).start = 0 /\ Converted(t).end = 4 * t.elements
           /\ Len(t.shape) # 1 /\ t.type = "BF16" => Converted(t) = t
<1>1. ASSUME Len(t.shape) = 1
      PROVE  /\ Converted(t).type = "F32" /\ Converted(t).shape = t.shape
             /\ Converted(t).start = 0 /\ Converted(t).end = 4 * t.elements
    <2>1. Converted(t) = [t EXCEPT !.type = "F32", !.start = 0, !.end = 4 * t.elements]
        BY <1>1, Zenon DEF Converted
    <2> QED
        BY <2>1
<1>2. ASSUME Len(t.shape) # 1, t.type = "BF16" PROVE Converted(t) = t
    <2>1. Converted(t) = [t EXCEPT !.type = "BF16"]
        BY <1>2, Zenon DEF Converted
    <2> QED
        BY <1>2, <2>1
<1> QED
    BY <1>1, <1>2

\* The two steps of the reference tools plan a tensor as the one step does.
LEMMA TwoSteps ==
    ASSUME NEW t, NEW f, NEW layers, t.elements \in Nat,
           t = [name |-> t.name, role |-> t.role, layer |-> t.layer, shape |-> t.shape,
                elements |-> t.elements, type |-> t.type, start |-> t.start, end |-> t.end,
                shard |-> t.shard],
           t.type = "F32" => t.end - t.start = t.elements * 4,
           Len(t.shape) # 1 => t.type = "BF16"
    PROVE  LET one == TargetType("shards", f, t, layers)
               two == TargetType("gguf", f, Converted(t), layers)
           IN  one = two /\ PlannedBytes(t, one) = PlannedBytes(Converted(t), two)
<1> DEFINE c == Converted(t)
<1>1. CASE Len(t.shape) = 1
    <2>1. /\ c.type = "F32" /\ c.shape = t.shape /\ c.start = 0 /\ c.end = 4 * t.elements
        BY <1>1, ConvertedOf
    <2> HIDE DEF c
    <2>2. ~(Len(t.shape) >= 2)
        BY <1>1
    <2>3. /\ \A blk : ~Quantizable(t, blk) /\ ~Quantizable(c, blk)
        BY <2>1, <2>2, Zenon DEF Quantizable
    <2>4. FormatRule(f, t, layers) = t.type /\ FormatRule(f, c, layers) = c.type
        BY <2>3, Zenon DEF FormatRule, Q80Rule, Q4KMRule
    <2>5. TargetType("shards", f, t, layers) = "F32" /\ TargetType("gguf", f, c, layers) = "F32"
        <3>1. "gguf" # "shards"
            OBVIOUS
        <3> QED
            BY <3>1, <1>1, <2>1, <2>4, Zenon DEF TargetType
    <2>6. PlannedBytes(c, "F32") = 4 * t.elements - 0
        BY <2>1, Zenon DEF PlannedBytes, SourceBytes
    <2>7. PlannedBytes(t, "F32") = 4 * t.elements - 0
        <3>1. CASE t.type = "F32"
            <4>1. PlannedBytes(t, "F32") = t.end - t.start
                BY <3>1, Zenon DEF PlannedBytes, SourceBytes
            <4> QED
                BY <3>1, <4>1
        <3>2. CASE t.type # "F32"
            <4>1. PlannedBytes(t, "F32") = (t.elements \div 1) * 4
                BY <3>2, TypeSizes, Zenon DEF PlannedBytes, PackedBytes
            <4> QED
                BY <4>1
        <3> QED
            BY <3>1, <3>2
    <2> QED
        BY <2>5, <2>6, <2>7, Zenon DEF c
<1>2. CASE Len(t.shape) # 1
    <2>1. c = t
        BY <1>2, ConvertedOf
    <2>2. TargetType("shards", f, t, layers) = TargetType("gguf", f, t, layers)
        BY <1>2, Zenon DEF TargetType
    <2> QED
        BY <2>1, <2>2, Zenon
<1> QED
    BY <1>1, <1>2

\* The layers of a model of 28 that get more bits.
LEMMA MoreBitsOf28 ==
    ASSUME NEW i \in Int, i < 28
    PROVE  i >= 0 /\ UseMoreBits(i, 28) <=> i \in ReferenceLayers
<1>1. 28 \div 8 = 3 /\ (7 * 28) \div 8 = 24
    OBVIOUS
<1>2. UseMoreBits(i, 28) <=> i < 3 \/ i >= 24 \/ (i - 3) % 3 = 2
    BY <1>1, Zenon DEF UseMoreBits
<1> QED
    BY <1>2, SMT DEF ReferenceLayers

\* For any models: the plan of a BF16 model's shards is the plan of the GGUF
\* file the reference tools convert them to, and of 28 layers those get more
\* bits that do in the reference dump (engine.py:180, formats.py:77-94).
THEOREM PlanOfTheReference == Spec => []PlanIsReference
<1>1. OpenInv => PlanIsReference
    <2> SUFFICES ASSUME OpenInv, pc \in Streaming PROVE PlanIsReference
        BY Zenon DEF PlanIsReference
    <2>1. plan = Made /\ tensors \in Seq(Candidates) /\ model \in Models
        BY Zenon DEF OpenInv
    <2>2. /\ DOMAIN plan = DOMAIN tensors
          /\ \A i \in DOMAIN plan :
                /\ plan[i].tensor = tensors[i] /\ tensors[i] \in Candidates
                /\ plan[i].type = TargetType(Kind, fmt, tensors[i], model.layers)
                /\ plan[i].bytes = PlannedBytes(tensors[i], plan[i].type)
                /\ WellFormed(tensors[i])
        BY <2>1, PlanEntries, EntryFacts, Zenon
    <2> DEFINE first == [i \in DOMAIN tensors |-> Converted(tensors[i])]
               twoStep == PlanOf("gguf", fmt, model.layers, first)
    <2>3. ASSUME Kind = "shards",
                 \A i \in DOMAIN tensors : Len(tensors[i].shape) # 1 => tensors[i].type = "BF16",
                 NEW i \in DOMAIN plan
          PROVE  plan[i].type = twoStep[i].type /\ plan[i].bytes = twoStep[i].bytes
        <3> DEFINE t == tensors[i]
                   tt == TargetType("gguf", fmt, Converted(t), model.layers)
        <3>1. t \in Candidates /\ WellFormed(t) /\ (Len(t.shape) # 1 => t.type = "BF16")
            BY <2>2, <2>3, Zenon
        <3>2. t.elements \in Nat /\ (t.type = "F32" => t.end - t.start = t.elements * 4)
            BY <3>1, TypeSizes, Zenon DEF WellFormed
        <3>3. twoStep[i] = [tensor |-> Converted(t), type |-> tt, bytes |-> PlannedBytes(Converted(t), tt)]
            BY <2>2, Zenon DEF PlanOf
        <3>4. twoStep[i].type = tt /\ twoStep[i].bytes = PlannedBytes(Converted(t), tt)
            <4> HIDE DEF t, tt, twoStep
            <4> QED
                BY <3>3
        <3>5. t = [name |-> t.name, role |-> t.role, layer |-> t.layer, shape |-> t.shape,
                   elements |-> t.elements, type |-> t.type, start |-> t.start, end |-> t.end,
                   shard |-> t.shard]
            BY <3>1, TensorFields
        <3>6. /\ TargetType("shards", fmt, t, model.layers) = tt
              /\ PlannedBytes(t, TargetType("shards", fmt, t, model.layers)) =
                    PlannedBytes(Converted(t), tt)
            BY <3>1, <3>2, <3>5, TwoSteps, Zenon
        <3> QED
            BY <2>2, <2>3, <3>4, <3>6, Zenon
    <2>4. ASSUME fmt = "q4_k_m", model.layers = 28, NEW i \in DOMAIN plan,
                 Quantizable(plan[i].tensor, QK_K), plan[i].tensor.layer < model.layers
          PROVE  LET t == plan[i].tensor
                 IN  plan[i].type = "Q6_K" <=>
                        \/ t.role = "output"
                        \/ t.role \in {"attn_v", "ffn_down"} /\ t.layer \in ReferenceLayers
        <3> DEFINE t == plan[i].tensor
        <3>1. /\ WellFormed(t) /\ plan[i].type = TargetType(Kind, fmt, t, 28)
              /\ Quantizable(t, QK_K) /\ t.layer < 28
            BY <2>2, <2>4, Zenon
        <3> HIDE DEF t
        <3>2. t.layer \in Int /\ t.shape \in Seq(Nat) /\ Len(t.shape) >= 2
            BY <3>1, Zenon DEF WellFormed, Quantizable
        <3>3. Len(t.shape) # 1
            BY <3>2, TwoDimensions, Zenon
        <3>4. plan[i].type = IF MoreBits(t, 28) THEN "Q6_K" ELSE "Q4_K"
            <4>1. "q4_k_m" # "q8_0"
                OBVIOUS
            <4>2. FormatRule(fmt, t, 28) = IF MoreBits(t, 28) THEN "Q6_K" ELSE "Q4_K"
                BY <2>4, <3>1, <4>1, Zenon DEF FormatRule, Q4KMRule
            <4> QED
                BY <3>1, <3>3, <4>2, Zenon DEF TargetType
        <3>5. "Q4_K" # "Q6_K" /\ 28 > 0
            OBVIOUS
        <3>6. MoreBits(t, 28) <=> \/ t.role = "output"
                                  \/ t.role \in {"attn_v", "ffn_down"} /\ t.layer \in ReferenceLayers
            <4>1. t.layer >= 0 /\ UseMoreBits(t.layer, 28) <=> t.layer \in ReferenceLayers
                BY <3>1, <3>2, MoreBitsOf28
            <4> QED
                BY <3>5, <4>1, Zenon DEF MoreBits
        <3> QED
            BY <3>4, <3>5, <3>6, Zenon DEF t
    <2> QED
        BY <2>3, <2>4, Zenon DEF PlanIsReference
<1> QED
    BY <1>1, OpenInit, OpenNext, PTL DEF Spec
-----------------------------------------------------------------------------
(* The reads.                                                              *)

\* What is to be read of the tensor that is streamed.
LEMMA GoalOf ==
    ASSUME OpenInv, plan = Made, index \in DOMAIN plan, Quantizing => T.elements # 0
    PROVE  /\ T.start \in Nat /\ T.end \in Nat /\ Goal \in Nat /\ T.start + Goal = T.end
           /\ Quantizing => RowBytes \in Nat \ {0}
           /\ T.shard \in Range(ShardOrder) /\ opened[T.shard] \in {1, 2}
           /\ model.shards[T.shard].len \in Nat
<1>1. /\ WellFormed(T) /\ Job.type = TargetType(Kind, fmt, T, model.layers)
    BY EntryFacts, Zenon DEF T, Job
<1>2. /\ T.start \in Nat /\ T.end \in Nat /\ T.start <= T.end /\ T.elements \in Nat
      /\ T.type \in DOMAIN ITEMSIZE => T.end - T.start = T.elements * ITEMSIZE[T.type]
      /\ T.shard \in DOMAIN opened
    BY <1>1, Zenon DEF WellFormed
<1>3. /\ T.shard \in Range(ShardOrder) /\ opened[T.shard] \in {1, 2}
      /\ model.shards[T.shard].len \in Nat
    <2>1. /\ model \in Models /\ T.shard \in DOMAIN model.shards /\ opened[T.shard] \in {1, 2}
        BY <1>2, Zenon DEF OpenInv
    <2> QED
        BY <2>1, ModelFacts, Zenon
<1>4. CASE ~Quantizing
    <2>1. Goal = T.end - T.start
        BY <1>4, Zenon DEF Goal, SourceBytes
    <2> QED
        BY <1>2, <1>3, <1>4, <2>1
<1>5. CASE Quantizing
    <2> DEFINE row == T.shape[1]
               item == ITEMSIZE[T.type]
               elements == T.elements
    <2>1. /\ row \in Nat \ {0} /\ Divides(row, elements) /\ T.type \in DOMAIN ITEMSIZE
        BY <1>5, Packable DEF Quantizing, Job, T
    <2>2. item \in Nat \ {0} /\ elements \in Nat
        BY <1>2, <2>1, TypeSizes
    <2>3. Goal = (elements \div row) * (row * item) /\ RowBytes = row * item
        BY <1>5, Zenon DEF Goal, Rows, RowBytes
    <2>4. T.end - T.start = elements * item
        BY <1>2, <2>1
    <2> HIDE DEF row, item, elements
    <2>5. elements \div row \in Nat /\ (elements \div row) * row = elements
        <3>1. row % row = 0 /\ 1 \in Nat
            BY <2>1
        <3> QED
            BY <2>1, <2>2, <3>1, RowsPack
    <2>6. (elements \div row) * (row * item) = elements * item
        BY <2>1, <2>2, <2>5, Associate
    <2>7. row * item \in Nat \ {0} /\ elements * item \in Nat
        BY <2>1, <2>2, SMTT(30)
    <2> QED
        BY <1>2, <1>3, <2>3, <2>4, <2>6, <2>7
<1> QED
    BY <1>4, <1>5

\* A read takes something, and stays inside the tensor.
LEMMA ReadSizesOf ==
    ASSUME OpenInv, plan = Made, index \in DOMAIN plan, Quantizing => T.elements # 0,
           pos \in 0 .. Goal - 1, NEW n \in ReadSizes
    PROVE  n \in 1 .. Goal - pos
<1>1. Goal \in Nat /\ (Quantizing => RowBytes \in Nat \ {0})
    BY GoalOf
<1>2. CASE Quantizing
    <2> DEFINE row == RowBytes
               left == Goal - pos
    <2>1. row \in Nat \ {0} /\ left \in Nat
        BY <1>1, <1>2
    <2>2. \E k \in 1 .. left \div row : n = k * row
        BY <1>2, Zenon DEF ReadSizes
    <2> HIDE DEF row, left
    <2>3. PICK k \in 1 .. left \div row : n = k * row
        BY <2>2
    <2>4. /\ left \div row \in Int /\ left % row \in 0 .. row - 1
          /\ left = row * (left \div row) + (left % row)
        BY <2>1, Division
    <2>5. k \in Nat \ {0} /\ k <= left \div row
        BY <2>4
    <2>6. row * k <= row * (left \div row) /\ row * 1 <= row * k /\ row * k \in Int
          /\ row * (left \div row) \in Int
        BY <2>1, <2>4, <2>5, TimesMonotone
    <2>7. n = row * k
        BY <2>1, <2>3, <2>5
    <2>8. n >= 1 /\ n <= left /\ n \in Int
        BY <2>1, <2>4, <2>6, <2>7
    <2> QED
        BY <2>8 DEF left
<1>3. CASE ~Quantizing
    <2>1. n = Smaller(COPY_CHUNK, Goal - pos)
        BY <1>3, Zenon DEF ReadSizes
    <2> QED
        BY <1>1, <2>1, CopyAssumption DEF Smaller
<1> QED
    BY <1>2, <1>3

\* The ranges handed on are ranges.
LEMMA OutOf ==
    ASSUME out \in Seq([tensor : Nat, bytes : Extents])
    PROVE  /\ Len(out) \in Nat /\ DOMAIN out = 1 .. Len(out)
           /\ out = <<>> <=> Len(out) = 0
           /\ \A k \in DOMAIN out :
                /\ out[k].tensor \in Nat
                /\ out[k].bytes.from \in Nat /\ out[k].bytes.to \in Nat
<1> DEFINE E == [tensor : Nat, bytes : Extents]
<1>1. /\ Len(out) \in Nat /\ DOMAIN out = 1 .. Len(out)
      /\ out = <<>> <=> Len(out) = 0
      /\ \A k \in DOMAIN out : out[k] \in E
    <2>1. out \in Seq(E)
        OBVIOUS
    <2> HIDE DEF E
    <2> QED
        BY <2>1
<1>2. \A x \in [tensor : Nat, bytes : Extents] : x.tensor \in Nat /\ x.bytes \in Extents
    OBVIOUS
<1>3. \A x \in Extents : x.from \in Nat /\ x.to \in Nat
    BY DEF Extents
<1> QED
    BY <1>1, <1>2, <1>3, Zenon

\* Init establishes it.
LEMMA StreamInit == Init => StreamInv
<1> SUFFICES ASSUME Init PROVE StreamInv
    OBVIOUS
<1>1. pc = "idle" /\ plan = <<>> /\ index = 1 /\ out = <<>>
    BY Zenon DEF Init
<1>2. Len(out) = 0 /\ Len(plan) = 0 /\ DOMAIN out = {} /\ 1 .. index - 1 = {} /\ 2 .. Len(out) = {}
      /\ index \in 1 .. Len(plan) + 1 /\ out \in Seq([tensor : Nat, bytes : Extents])
    BY <1>1
<1>3. BytesInOrder
    BY <1>1, <1>2, Zenon DEF BytesInOrder
<1> QED
    BY <1>1, <1>2, <1>3, Zenon DEF StreamInv

\* Where nothing has been handed on, everything is in order.
LEMMA NothingYet ==
    ASSUME index' = 1, out' = <<>>, pc' \notin {"tensor", "read", "pack", "done"}, Len(plan') \in Nat
    PROVE  StreamInv'
<1>1. Len(out') = 0 /\ DOMAIN out' = {} /\ 1 .. index' - 1 = {} /\ 2 .. Len(out') = {}
      /\ index' \in 1 .. Len(plan') + 1 /\ out' \in Seq([tensor : Nat, bytes : Extents])
    OBVIOUS
<1>2. BytesInOrder'
    BY <1>1, Zenon DEF BytesInOrder
<1>3. Extents' = Extents
    BY Zenon DEF Extents
<1> QED
    BY <1>1, <1>2, <1>3, Zenon DEF StreamInv

\* What the ranges handed on have to do with: the plan, the files that are
\* open, and which tensor is streamed.
LEMMA SameReads ==
    ASSUME UNCHANGED <<plan, index, out, model, opened>>
    PROVE  /\ BytesInOrder' <=> BytesInOrder
           /\ Goal' = Goal /\ T' = T /\ (Quantizing' <=> Quantizing)
           /\ \A n : At(n)' <=> At(n)
<1>1. plan' = plan /\ index' = index /\ out' = out /\ model' = model /\ opened' = opened
    OBVIOUS
<1>2. T' = T /\ Goal' = Goal /\ (Quantizing' <=> Quantizing)
    BY <1>1, Zenon DEF T, Job, Goal, Quantizing, RowBytes
<1>3. \A n : At(n)' <=> At(n)
    BY <1>1, <1>2, Zenon DEF At, Ends
<1>4. BytesInOrder' <=> BytesInOrder
    BY <1>1, SMT DEF BytesInOrder, Begins, Ends, Continues
<1> QED
    BY <1>2, <1>3, <1>4, Zenon

\* A plan is a sequence.
PlanIsSequence == Len(plan) \in Nat /\ DOMAIN plan = 1 .. Len(plan)

LEMMA PlanLength == OpenInv => PlanIsSequence
<1> SUFFICES ASSUME OpenInv PROVE Len(plan) \in Nat /\ DOMAIN plan = 1 .. Len(plan)
    BY DEF PlanIsSequence
<1>1. tensors \in Seq(Candidates) /\ (plan = <<>> \/ plan = Made)
    BY Zenon DEF OpenInv
<1>2. CASE plan = <<>>
    BY <1>2
<1>3. CASE plan = Made
    BY <1>1, <1>3, PlanEntries
<1> QED
    BY <1>1, <1>2, <1>3

\* The kernel takes the rows.
LEMMA StreamPack == OpenInv /\ StreamInv /\ Pack => StreamInv'
<1> SUFFICES ASSUME OpenInv, StreamInv, Pack PROVE StreamInv'
    OBVIOUS
<1>0. PICK n \in Nat : n = Len(out)
    <2>1. Len(out) \in Nat
        BY OutOf, Zenon DEF StreamInv
    <2> QED
        BY <2>1
<1> DEFINE r == [tensor |-> index, bytes |-> buf]
           E == [tensor : Nat, bytes : Extents]
<1>1. /\ pc = "pack" /\ out' = Append(out, r) /\ pc' = IF pos < Goal THEN "read" ELSE "done"
      /\ plan' = plan /\ index' = index /\ pos' = pos /\ model' = model /\ opened' = opened
    BY Zenon DEF Pack, given, source
<1>2. /\ index \in DOMAIN plan /\ (Quantizing => T.elements # 0)
      /\ index \in 1 .. Len(plan) + 1 /\ out \in Seq(E) /\ BytesInOrder
      /\ pos \in 1 .. Goal /\ At(buf.from - T.start)
      /\ buf \in Extents /\ buf.shard = T.shard /\ buf.file = opened[T.shard]
      /\ T.start <= buf.from /\ buf.from < buf.to /\ buf.to = T.start + pos
      /\ buf.to <= model.shards[T.shard].len
    BY <1>1, Zenon DEF StreamInv
<1>3. /\ plan = Made
    BY <1>1, Zenon DEF OpenInv, Streaming
<1>4. /\ T.start \in Nat /\ T.end \in Nat /\ Goal \in Nat /\ T.start + Goal = T.end
    BY <1>2, <1>3, GoalOf
<1>5. /\ Len(plan) \in Nat /\ DOMAIN plan = 1 .. Len(plan)
    BY PlanLength, Zenon DEF PlanIsSequence
<1>6. /\ index \in Nat /\ index <= Len(plan) /\ buf.from \in Nat /\ buf.to \in Nat
    <2>1. index \in Nat /\ index <= Len(plan)
        BY <1>2, <1>5
    <2> QED
        BY <1>2, <2>1 DEF Extents
<1>7. r \in E /\ r.tensor = index /\ r.bytes = buf
    <2> DEFINE X == Extents
    <2>1. buf \in X
        BY <1>2
    <2> HIDE DEF X
    <2> QED
        BY <1>6, <2>1 DEF X
<1> HIDE DEF E, r
<1>8. /\ n \in Nat /\ DOMAIN out = 1 .. n /\ (out = <<>> <=> n = 0)
    BY <1>0, <1>2, OutOf DEF E
<1>9. /\ out' \in Seq(E) /\ Len(out') = n + 1 /\ DOMAIN out' = 1 .. n + 1 /\ out' # <<>>
      /\ \A k \in 1 .. n : out'[k] = out[k]
      /\ out'[n + 1] = r
    BY <1>0, <1>1, <1>2, <1>7
<1>10. T' = T /\ Goal' = Goal /\ (Quantizing' <=> Quantizing)
    BY <1>1, Zenon DEF T, Job, Goal, Quantizing, RowBytes
<1>11. /\ \A k \in 1 .. n : (Begins(k)' <=> Begins(k)) /\ (Ends(k)' <=> Ends(k))
       /\ \A k \in 2 .. n : Continues(k)' <=> Continues(k)
    <2>1. \A k \in 1 .. n : (Begins(k)' <=> Begins(k)) /\ (Ends(k)' <=> Ends(k))
        BY <1>1, <1>9, Zenon DEF Begins, Ends
    <2>2. ASSUME NEW k \in 2 .. n PROVE Continues(k)' <=> Continues(k)
        <3>1. k \in 1 .. n /\ k - 1 \in 1 .. n
            BY <1>8
        <3>2. out'[k] = out[k] /\ out'[k - 1] = out[k - 1]
            BY <1>9, <3>1
        <3>3. (Begins(k)' <=> Begins(k)) /\ (Ends(k - 1)' <=> Ends(k - 1))
            BY <1>1, <3>2, Zenon DEF Begins, Ends
        <3> QED
            BY <3>2, <3>3, Zenon DEF Continues
    <2> QED
        BY <2>1, <2>2
\* The range handed on begins its tensor, or goes on.
<1>12. buf.from = T.start => Begins(n + 1)'
    <2>1. out'[n + 1].bytes = buf /\ out'[n + 1].tensor = index
        BY <1>7, <1>9, Zenon
    <2>2. plan'[index].tensor = T
        BY <1>1, Zenon DEF T, Job
    <2> QED
        BY <2>1, <2>2, Zenon DEF Begins
<1>13. \/ /\ buf.from = T.start
          /\ n # 0 => out[n].tensor < index /\ Ends(n)
       \/ /\ n # 0 /\ out[n].tensor = index /\ out[n].bytes.to = buf.from
    <2>1. CASE buf.from - T.start = 0
        <3>1. out # <<>> => out[Len(out)].tensor < index /\ Ends(Len(out))
            BY <1>2, <2>1, Zenon DEF At
        <3>2. buf.from = T.start
            BY <1>4, <1>6, <2>1
        <3> QED
            BY <1>0, <1>8, <3>1, <3>2, Zenon
    <2>2. CASE buf.from - T.start # 0
        <3>1. out # <<>> /\ out[n].tensor = index /\ out[n].bytes.to = T.start + (buf.from - T.start)
            BY <1>0, <1>2, <2>2, Zenon DEF At
        <3>2. T.start + (buf.from - T.start) = buf.from
            BY <1>4, <1>6
        <3> QED
            BY <1>8, <3>1, <3>2, Zenon
    <2> QED
        BY <2>1, <2>2
<1>14. Begins(1)'
    <2>1. CASE n = 0
        <3>1. n + 1 = 1
            BY <2>1
        <3> QED
            BY <2>1, <3>1, <1>12, <1>13, Zenon
    <2>2. CASE n # 0
        <3>1. 1 \in 1 .. n /\ out # <<>>
            BY <1>8, <2>2
        <3>2. Begins(1)
            BY <1>2, <3>1, Zenon DEF BytesInOrder
        <3> QED
            BY <1>11, <3>1, <3>2, Zenon
    <2> QED
        BY <2>1, <2>2
<1>15. ASSUME NEW k \in 2 .. n + 1 PROVE Continues(k)'
    <2>1. CASE k \in 2 .. n
        <3>1. Continues(k)
            BY <1>0, <1>2, <2>1, Zenon DEF BytesInOrder
        <3> QED
            BY <1>11, <2>1, <3>1, Zenon
    <2>2. CASE k = n + 1
        <3>1. n \in 1 .. n /\ k - 1 = n /\ n # 0
            BY <1>8, <2>2
        <3>2. out'[k] = r /\ out'[k - 1] = out[n] /\ (Ends(k - 1)' <=> Ends(n))
            BY <1>9, <1>11, <2>2, <3>1, Zenon
        <3>3. CASE buf.from = T.start /\ out[n].tensor < index /\ Ends(n)
            <4>1. Begins(k)' /\ index > out[n].tensor
                <5>1. out[n].tensor \in Nat
                    BY <1>2, <1>8, <3>1, OutOf DEF E
                <5>2. index > out[n].tensor
                    BY <1>6, <3>3, <5>1
                <5> QED
                    BY <1>12, <2>2, <3>3, <5>2, Zenon
            <4> QED
                BY <1>7, <3>2, <3>3, <4>1, Zenon DEF Continues
        <3>4. CASE out[n].tensor = index /\ out[n].bytes.to = buf.from
            BY <1>7, <3>2, <3>4, Zenon DEF Continues
        <3> QED
            BY <1>13, <3>1, <3>3, <3>4, Zenon
    <2>3. k \in 2 .. n \/ k = n + 1
        BY <1>8
    <2> QED
        BY <2>1, <2>2, <2>3
<1>16. ASSUME NEW i \in 1 .. index' - 1
       PROVE  \/ plan'[i].tensor.start = plan'[i].tensor.end
              \/ \E k \in DOMAIN out' : out'[k].tensor = i /\ Ends(k)'
    <2>1. \/ plan[i].tensor.start = plan[i].tensor.end
          \/ \E k \in 1 .. n : out[k].tensor = i /\ Ends(k)
        BY <1>1, <1>2, <1>8, Zenon DEF BytesInOrder
    <2>2. \A k \in 1 .. n : k \in DOMAIN out'
        BY <1>8, <1>9
    <2> QED
        BY <1>1, <1>9, <1>11, <2>1, <2>2, Zenon
<1>17. ASSUME NEW k \in DOMAIN out'
       PROVE  LET t == plan'[out'[k].tensor].tensor
                  b == out'[k].bytes
              IN  /\ out'[k].tensor \in 1 .. Smaller(index', Len(plan'))
                  /\ b.shard = t.shard /\ b.file = opened'[t.shard]
                  /\ t.start <= b.from /\ b.from < b.to /\ b.to <= t.end
                  /\ b.to <= model'.shards[t.shard].len
    <2>1. CASE k \in 1 .. n
        BY <1>1, <1>2, <1>8, <1>9, <2>1, Zenon DEF BytesInOrder
    <2>2. CASE k = n + 1
        <3>1. out'[k].tensor = index /\ out'[k].bytes = buf /\ plan'[index].tensor = T
            BY <1>1, <1>7, <1>9, <2>2, Zenon DEF T, Job
        <3>2. index \in 1 .. Smaller(index, Len(plan))
            BY <1>2, <1>5, <1>6 DEF Smaller
        <3>3. buf.to <= T.end
            BY <1>2, <1>4, <1>6
        <3> QED
            BY <1>1, <1>2, <3>1, <3>2, <3>3, Zenon
    <2>3. k \in 1 .. n \/ k = n + 1
        BY <1>8, <1>9
    <2> QED
        BY <2>1, <2>2, <2>3
<1>18. BytesInOrder'
    <2>1. Len(out') = n + 1
        BY <1>9
    <2> QED
        BY <1>14, <1>15, <1>16, <1>17, <2>1, Zenon DEF BytesInOrder
<1>19. At(pos)'
    <2>1. /\ pos' # 0 /\ pos # 0
        BY <1>1, <1>2, <1>4
    <2>2. out'[Len(out')].tensor = index /\ out'[Len(out')].bytes.to = T.start + pos
        BY <1>2, <1>7, <1>9, Zenon
    <2> QED
        BY <1>1, <1>9, <1>10, <2>1, <2>2, Zenon DEF At
<1>20. /\ pc' \in {"read", "done"}
       /\ pc' = "read" => pos' \in 0 .. Goal' - 1
       /\ pc' = "done" => pos' = Goal'
       /\ index' \in DOMAIN plan' /\ index' \in 1 .. Len(plan') + 1
       /\ Quantizing' => T'.elements # 0
    BY <1>1, <1>2, <1>4, <1>10
<1>21. out' \in Seq([tensor : Nat, bytes : Extents'])
    <2>1. Extents' = Extents
        BY Zenon DEF Extents
    <2> QED
        BY <1>9, <2>1, Zenon DEF E
<1> QED
    BY <1>18, <1>19, <1>20, <1>21, Zenon DEF StreamInv

\* Steps that hand nothing on and stay at the tensor.
LEMMA StreamStay ==
    ASSUME StreamInv, UNCHANGED <<plan, index, out, model, opened>>,
           \/ pc' = "idle"
           \/ pc' = pc /\ pos' = pos /\ buf' = buf
           \/ pc' = "tensor" /\ At(0)
    PROVE  StreamInv'
<1>1. /\ BytesInOrder' <=> BytesInOrder
      /\ Goal' = Goal /\ T' = T /\ (Quantizing' <=> Quantizing)
      /\ \A n : At(n)' <=> At(n)
    BY SameReads
<1>2. plan' = plan /\ index' = index /\ out' = out /\ model' = model /\ opened' = opened
    OBVIOUS
<1>3. /\ index' \in 1 .. Len(plan') + 1 /\ out' \in Seq([tensor : Nat, bytes : Extents'])
      /\ BytesInOrder'
    <2>1. Extents' = Extents
        BY Zenon DEF Extents
    <2> QED
        BY <1>1, <1>2, <2>1, Zenon DEF StreamInv
<1>4. CASE pc' = "idle"
    BY <1>3, <1>4, Zenon DEF StreamInv
<1>5. CASE pc' = "tensor" /\ At(0)
    <2>1. At(0)'
        BY <1>1, <1>5, Zenon
    <2> QED
        BY <1>3, <1>5, <2>1, Zenon DEF StreamInv
<1>6. CASE pc' = pc /\ pos' = pos /\ buf' = buf
    <2>1. At(pos)' <=> At(pos)
        BY <1>1, <1>2, <1>6, Zenon DEF At, Ends
    <2>2. At(buf.from - T.start)' <=> At(buf.from - T.start)
        BY <1>1, <1>2, <1>6, Zenon DEF At, Ends
    <2>3. At(0)' <=> At(0)
        BY <1>1, Zenon
    <2>4. Extents' = Extents
        BY Zenon DEF Extents
    <2> QED
        BY <1>1, <1>2, <1>3, <1>6, <2>1, <2>2, <2>3, <2>4, Zenon DEF StreamInv
<1> QED
    BY <1>4, <1>5, <1>6

\* A tensor is begun: it may have no bytes.
LEMMA StreamBegin == OpenInv /\ StreamInv /\ BeginTensor => StreamInv'
<1> SUFFICES ASSUME OpenInv, StreamInv, BeginTensor PROVE StreamInv'
    OBVIOUS
<1>0. UNCHANGED <<plan, index, out, model, opened>>
    BY Zenon DEF BeginTensor, given, source
<1> SUFFICES ASSUME ~(Quantizing /\ T.elements = 0) PROVE StreamInv'
    <2> SUFFICES ASSUME Quantizing /\ T.elements = 0 PROVE pc' = "idle"
        BY <1>0, StreamStay
    <2> QED
        BY Zenon DEF BeginTensor, End
<1>1. /\ pc = "tensor" /\ index \in DOMAIN plan /\ pos' = 0
      /\ pc' = IF Goal = 0 THEN "done" ELSE "read"
      /\ UNCHANGED <<plan, index, out, model, opened>>
      /\ Quantizing => T.elements # 0
    BY <1>0, Zenon DEF BeginTensor
<1>2. /\ BytesInOrder' <=> BytesInOrder
      /\ Goal' = Goal /\ T' = T /\ (Quantizing' <=> Quantizing)
      /\ \A n : At(n)' <=> At(n)
    BY <1>1, SameReads
<1>3. plan' = plan /\ index' = index /\ out' = out
    BY <1>1
<1>4. /\ index' \in 1 .. Len(plan') + 1 /\ out' \in Seq([tensor : Nat, bytes : Extents'])
      /\ BytesInOrder' /\ index' \in DOMAIN plan' /\ (Quantizing' => T'.elements # 0)
    <2>1. Extents' = Extents
        BY Zenon DEF Extents
    <2> QED
        BY <1>1, <1>2, <1>3, <2>1, Zenon DEF StreamInv
<1>5. Goal \in Nat
    <2>1. plan = Made
        BY <1>1, Zenon DEF OpenInv, Streaming
    <2> QED
        BY <1>1, <2>1, GoalOf
<1>6. At(pos)'
    <2>1. At(0)
        BY <1>1, Zenon DEF StreamInv
    <2>2. out' # <<>> => out'[Len(out')].tensor < index' /\ Ends(Len(out'))
        BY <1>3, <2>1, Zenon DEF At
    <2>3. Ends(Len(out))' <=> Ends(Len(out))
        BY <1>3, Zenon DEF Ends
    <2>4. out' # <<>> => out'[Len(out')].tensor < index' /\ Ends(Len(out))'
        BY <1>3, <2>2, <2>3, Zenon
    <2> QED
        BY <1>1, <2>4, Zenon DEF At
<1>7. /\ pc' \in {"read", "done"}
      /\ pc' = "read" => pos' \in 0 .. Goal' - 1
      /\ pc' = "done" => pos' = Goal'
    BY <1>1, <1>2, <1>5
<1> QED
    BY <1>4, <1>6, <1>7, Zenon DEF StreamInv

\* A read, that gets what it asks for or ends the run.
LEMMA StreamRead ==
    ASSUME OpenInv, StreamInv, NEW n \in ReadSizes, Read(n)
    PROVE  StreamInv'
<1> DEFINE from == T.start + pos
<1>1. /\ pc = "read" /\ UNCHANGED <<plan, index, out, model, opened>>
      /\ \/ pc' = "idle"
         \/ /\ ~(from + n > model.shards[T.shard].len)
            /\ buf' = Extent(T.shard, from, from + n)
            /\ pos' = pos + n /\ pc' = "pack"
    BY Zenon DEF Read, End, given, source
<1>2. CASE pc' = "idle"
    BY <1>1, <1>2, StreamStay
<1>3. CASE pc' # "idle"
    <2>1. /\ ~(from + n > model.shards[T.shard].len)
          /\ buf' = Extent(T.shard, from, from + n)
          /\ pos' = pos + n /\ pc' = "pack"
        BY <1>1, <1>3, Zenon
    <2>2. /\ plan = Made /\ index \in DOMAIN plan /\ (Quantizing => T.elements # 0)
          /\ pos \in 0 .. Goal - 1 /\ At(pos)
        BY <1>1, Zenon DEF OpenInv, StreamInv, Streaming
    <2>3. /\ T.start \in Nat /\ Goal \in Nat /\ T.shard \in Range(ShardOrder)
          /\ opened[T.shard] \in {1, 2} /\ model.shards[T.shard].len \in Nat
        BY <2>2, GoalOf
    <2>4. n \in 1 .. Goal - pos
        BY <2>2, ReadSizesOf
    <2> HIDE DEF from
    <2>5. /\ from \in Nat /\ from + n \in Nat /\ T.start <= from /\ from < from + n
          /\ from + n = T.start + (pos + n) /\ pos + n \in 1 .. Goal
          /\ from - T.start = pos /\ from + n <= model.shards[T.shard].len
        BY <2>1, <2>2, <2>3, <2>4 DEF from
    <2>6. /\ buf' \in Extents /\ buf'.shard = T.shard /\ buf'.file = opened[T.shard]
          /\ buf'.from = from /\ buf'.to = from + n
        <3> DEFINE shard == T.shard
                   file == opened[T.shard]
                   to == from + n
        <3>1. buf' = [shard |-> shard, file |-> file, from |-> from, to |-> to]
            BY <2>1, Zenon DEF Extent
        <3>2. shard \in Range(ShardOrder) /\ file \in {1, 2} /\ to \in Nat
            BY <2>3, <2>5
        <3> HIDE DEF shard, file, to
        <3>3. /\ buf'.shard = shard /\ buf'.file = file
              /\ buf'.from = from /\ buf'.to = to
            BY <3>1
        <3>4. buf' \in Extents
            BY <2>5, <3>1, <3>2 DEF Extents
        <3> QED
            BY <3>3, <3>4 DEF shard, file, to
    <2>7. /\ BytesInOrder' <=> BytesInOrder
          /\ Goal' = Goal /\ T' = T /\ (Quantizing' <=> Quantizing)
          /\ \A k : At(k)' <=> At(k)
        BY <1>1, SameReads
    <2>8. plan' = plan /\ index' = index /\ out' = out /\ model' = model /\ opened' = opened
        BY <1>1
    <2>9. At(buf.from - T.start)'
        <3>1. buf'.from - T'.start = pos
            BY <2>5, <2>6, <2>7
        <3>2. At(pos) /\ T' = T
            BY <2>2, <2>7
        <3> QED
            BY <2>8, <3>1, <3>2, Zenon DEF At, Ends
    <2>10. /\ index' \in 1 .. Len(plan') + 1 /\ out' \in Seq([tensor : Nat, bytes : Extents'])
           /\ BytesInOrder' /\ index' \in DOMAIN plan' /\ Extents' = Extents
           /\ Quantizing' => T'.elements # 0
        <3>1. Extents' = Extents
            BY Zenon DEF Extents
        <3> QED
            BY <2>2, <2>7, <2>8, <3>1, Zenon DEF StreamInv
    <2>11. /\ pos' \in 1 .. Goal'
           /\ buf' \in Extents' /\ buf'.shard = T'.shard /\ buf'.file = opened'[T'.shard]
           /\ T'.start <= buf'.from /\ buf'.from < buf'.to /\ buf'.to = T'.start + pos'
           /\ buf'.to <= model'.shards[T'.shard].len
        BY <2>1, <2>5, <2>6, <2>7, <2>8, <2>10, Zenon
    <2> QED
        BY <2>1, <2>9, <2>10, <2>11, Zenon DEF StreamInv
<1> QED
    BY <1>2, <1>3

\* On to the next tensor: the bytes of this one have been handed on.
LEMMA StreamNextTensor == OpenInv /\ StreamInv /\ NextTensor => StreamInv'
<1> SUFFICES ASSUME OpenInv, StreamInv, NextTensor PROVE StreamInv'
    OBVIOUS
<1>1. /\ pc = "done" /\ pc' = "tensor" /\ index' = index + 1
      /\ plan' = plan /\ out' = out /\ model' = model /\ opened' = opened
    BY Zenon DEF NextTensor, given, source
<1>2. /\ index \in DOMAIN plan /\ out \in Seq([tensor : Nat, bytes : Extents]) /\ BytesInOrder
      /\ At(Goal) /\ plan = Made /\ (Quantizing => T.elements # 0)
    BY <1>1, Zenon DEF StreamInv, OpenInv, Streaming
<1>3. Goal \in Nat /\ T.start \in Nat /\ T.start + Goal = T.end
    BY <1>2, GoalOf
<1>4. /\ Len(plan) \in Nat /\ DOMAIN plan = 1 .. Len(plan)
    BY PlanLength, Zenon DEF PlanIsSequence
<1>5. /\ index \in Nat \ {0} /\ index <= Len(plan)
    BY <1>2, <1>4
<1>6. /\ Len(out) \in Nat /\ DOMAIN out = 1 .. Len(out) /\ (out = <<>> <=> Len(out) = 0)
      /\ \A k \in DOMAIN out : out[k].tensor \in Nat
    BY <1>2, OutOf
<1>7. /\ \A k : Begins(k)' <=> Begins(k)
      /\ \A k : Ends(k)' <=> Ends(k)
      /\ \A k : Continues(k)' <=> Continues(k)
    BY <1>1, Zenon DEF Begins, Ends, Continues
\* What has been handed on of this tensor, if it has bytes at all, ends it.
<1>8. \/ T.start = T.end /\ (out # <<>> => out[Len(out)].tensor < index /\ Ends(Len(out)))
      \/ out # <<>> /\ out[Len(out)].tensor = index /\ Ends(Len(out))
    <2>1. CASE Goal = 0
        <3>1. T.start = T.end
            BY <1>3, <2>1
        <3> QED
            BY <1>2, <2>1, <3>1, Zenon DEF At
    <2>2. CASE Goal # 0
        <3>1. out # <<>> /\ out[Len(out)].tensor = index /\ out[Len(out)].bytes.to = T.end
            BY <1>2, <1>3, <2>2, Zenon DEF At
        <3> QED
            BY <3>1, Zenon DEF Ends, T, Job
    <2> QED
        BY <2>1, <2>2
<1>9. ASSUME NEW i \in 1 .. index' - 1
      PROVE  \/ plan[i].tensor.start = plan[i].tensor.end
             \/ \E k \in DOMAIN out : out[k].tensor = i /\ Ends(k)
    <2>1. i \in 1 .. index - 1 \/ i = index
        BY <1>1, <1>5
    <2>2. CASE i = index
        <3>1. CASE T.start = T.end
            BY <2>2, <3>1, Zenon DEF T, Job
        <3>2. CASE out # <<>> /\ out[Len(out)].tensor = index /\ Ends(Len(out))
            <4>1. Len(out) \in DOMAIN out
                BY <1>6, <3>2
            <4> QED
                BY <2>2, <3>2, <4>1, Zenon
        <3> QED
            BY <1>8, <3>1, <3>2, Zenon
    <2> QED
        BY <1>2, <2>1, <2>2, Zenon DEF BytesInOrder
<1>10. 1 .. Smaller(index, Len(plan)) \subseteq 1 .. Smaller(index + 1, Len(plan))
    BY <1>4, <1>5 DEF Smaller
<1>11. BytesInOrder'
    <2>1. /\ out' # <<>> => Begins(1)'
          /\ \A k \in 2 .. Len(out') : Continues(k)'
        BY <1>1, <1>2, <1>7, Zenon DEF BytesInOrder
    <2>2. \A i \in 1 .. index' - 1 :
            \/ plan'[i].tensor.start = plan'[i].tensor.end
            \/ \E k \in DOMAIN out' : out'[k].tensor = i /\ Ends(k)'
        BY <1>1, <1>7, <1>9, Zenon
    <2>3. \A k \in DOMAIN out' :
            LET t == plan'[out'[k].tensor].tensor
                b == out'[k].bytes
            IN  /\ out'[k].tensor \in 1 .. Smaller(index', Len(plan'))
                /\ b.shard = t.shard /\ b.file = opened'[t.shard]
                /\ t.start <= b.from /\ b.from < b.to /\ b.to <= t.end
                /\ b.to <= model'.shards[t.shard].len
        BY <1>1, <1>2, <1>10, Zenon DEF BytesInOrder
    <2> QED
        BY <2>1, <2>2, <2>3, Zenon DEF BytesInOrder
<1>12. At(0)'
    <2>1. out # <<>> => out[Len(out)].tensor < index + 1 /\ Ends(Len(out))
        <3> SUFFICES ASSUME out # <<>> PROVE out[Len(out)].tensor < index + 1 /\ Ends(Len(out))
            OBVIOUS
        <3>1. Ends(Len(out)) /\ (out[Len(out)].tensor < index \/ out[Len(out)].tensor = index)
            BY <1>8, Zenon
        <3>2. out[Len(out)].tensor \in Nat
            BY <1>6
        <3> QED
            BY <1>5, <3>1, <3>2
    <2> QED
        BY <1>1, <2>1, Zenon DEF At, Ends
<1>13. /\ index' \in 1 .. Len(plan') + 1 /\ out' \in Seq([tensor : Nat, bytes : Extents'])
    <2>1. Extents' = Extents
        BY Zenon DEF Extents
    <2>2. index' \in 1 .. Len(plan') + 1
        BY <1>1, <1>4, <1>5
    <2> QED
        BY <1>1, <1>2, <2>1, <2>2, Zenon
<1> QED
    BY <1>1, <1>11, <1>12, <1>13, Zenon DEF StreamInv

\* Every step keeps it.
LEMMA StreamNext == OpenInv /\ OpenInv' /\ StreamInv /\ [Next]_vars => StreamInv'
<1>0. OpenInv' => PlanIsSequence'
    BY PlanLength, PTL
<1> SUFFICES ASSUME OpenInv, OpenInv', StreamInv, [Next]_vars PROVE StreamInv'
    OBVIOUS
<1>1. Len(plan') \in Nat
    BY <1>0, Zenon DEF PlanIsSequence
<1>2. ASSUME NEW m \in Models, NEW f \in OutputFormats, NEW l \in BOOLEAN, Start(m, f, l)
      PROVE  StreamInv'
    <2>1. index' = 1 /\ out' = <<>> /\ pc' \in {"idle", "open"}
        BY <1>2, Zenon DEF Start, End
    <2> QED
        BY <1>1, <2>1, NothingYet
<1>3. CASE OpenShard \/ Opened \/ MakePlan \/ CopyMetadata
    <2>1. /\ pc \in {"open", "plan", "metadata"} /\ index' = index /\ out' = out
          /\ pc' \notin {"tensor", "read", "pack", "done"}
        BY <1>3, SMT DEF OpenShard, Opened, MakePlan, CopyMetadata, End, stream
    <2>2. index = 1 /\ out = <<>>
        BY <2>1, Zenon DEF StreamInv
    <2> QED
        BY <1>1, <2>1, <2>2, NothingYet
<1>4. CASE ReleaseAndDeclare
    <2>1. /\ pc = "release" /\ UNCHANGED <<plan, index, out, model, opened>>
          /\ pc' = "idle" \/ pc' = "tensor"
        BY <1>4, Zenon DEF ReleaseAndDeclare, End, given, source, stream
    <2>2. At(0)
        BY <2>1, Zenon DEF StreamInv, At
    <2> QED
        BY <2>1, <2>2, StreamStay
<1>5. ASSUME NEW n \in ReadSizes, Read(n) PROVE StreamInv'
    BY <1>5, StreamRead
<1>6. CASE Finish
    <2>1. UNCHANGED <<plan, index, out, model, opened>> /\ pc' = "idle"
        BY <1>6, Zenon DEF Finish, End, given, source, stream
    <2> QED
        BY <2>1, StreamStay
<1>7. CASE (\E s \in DOMAIN model.shards : Replace(s)) \/ UNCHANGED vars
    <2>1. UNCHANGED <<plan, index, out, model, opened, pc, pos, buf>>
        BY <1>7, SMT DEF Replace, vars, given, source, stream
    <2> QED
        BY <2>1, StreamStay
<1> QED
    BY <1>2, <1>3, <1>4, <1>5, <1>6, <1>7, StreamBegin, StreamPack, StreamNextTensor, Zenon DEF Next

\* For any models, however the reads are cut: the kernels get every byte of
\* every tensor once, in order, from the file that was open when its header
\* was read, and never a byte a file does not have (read_st_rows,
\* read_rows_f32, read_raw and the buffer they share).
THEOREM EveryByteOnce == Spec => []BytesInOrder
<1>1. StreamInv => BytesInOrder
    BY Zenon DEF StreamInv
<1> QED
    BY <1>1, OpenInit, OpenNext, StreamInit, StreamNext, PTL DEF Spec

\* For any models: every variable has its type, and the position is inside the
\* tensor that is streamed.
THEOREM TypeCorrect == Spec => []TypeOK
<1>1. OpenInv /\ HeaderInv /\ StreamInv => TypeOK
    <2> SUFFICES ASSUME OpenInv, HeaderInv, StreamInv PROVE TypeOK
        OBVIOUS
    <2>1. ASSUME pc \in Streaming \ {"tensor"} PROVE index <= Len(plan) /\ pos \in 0 .. Goal
        <3>1. pc \in {"read", "pack", "done"} /\ pc \in Streaming
            BY <2>1, SMT DEF Streaming
        <3>2. index \in DOMAIN plan /\ plan = Made /\ (Quantizing => T.elements # 0)
            BY <3>1, Zenon DEF StreamInv, OpenInv
        <3>3. Len(plan) \in Nat /\ DOMAIN plan = 1 .. Len(plan)
            BY PlanLength, Zenon DEF PlanIsSequence
        <3>4. Goal \in Nat
            BY <3>2, GoalOf
        <3>5. pos \in 0 .. Goal - 1 \/ pos \in 1 .. Goal \/ pos = Goal
            BY <3>1, Zenon DEF StreamInv
        <3>6. index <= Len(plan)
            BY <3>2, <3>3
        <3>7. pos \in 0 .. Goal
            BY <3>4, <3>5
        <3> QED
            BY <3>6, <3>7
    <2> QED
        BY <2>1, Zenon DEF TypeOK, OpenInv, HeaderInv, StreamInv, Streaming
<1> QED
    BY <1>1, OpenInit, OpenNext, HeaderInit, HeaderNext, StreamInit, StreamNext, PTL DEF Spec
=============================================================================
