---------------------------- MODULE CausalModel ----------------------------
(***************************************************************************)
(* ref/gpt2_float.py, ref/gpt2_quantized.py and ref/gpt2_scaled.py: GPT-2  *)
(* over a batch of one, with and without a cache of keys and values.       *)
(*                                                                         *)
(* A value is the term that computes it: an operator's name and the terms  *)
(* it is applied to.  Two values are the same when they are the same       *)
(* computation on the same data, so what a value depends on, and with      *)
(* which rows it shares a scale, is all there is to it.  The operators are *)
(* those of FixedPoint; a vector of a token is one term.                   *)
(***************************************************************************)
EXTENDS Integers, Sequences

Term(op, args) == [op |-> op, args |-> args]
Leaf(op, n) == Term(<<op, n>>, <<>>)
Named(op, layer) == <<op, layer>>
Apply(op, layer, args) == Term(Named(op, layer), args)

CausalLength(past, row) == past + row

\* The token at a position: its embedding and the position's, narrowed.
Embedded(tokens, past) ==
    [r \in 1 .. Len(tokens) |->
        Apply("embed", 0, <<Leaf("token", tokens[r]), Leaf("position", past + r - 1)>>)]

-----------------------------------------------------------------------------
(* Attention of one row, on the keys and the values there are up to n.      *)

Kinds == {"Float", "Quantized", "Scaled"}

\* The mask of the float model leaves a row its own position and what is before.
FloatAttention(layer, q, keys, values, n) ==
    Apply("context", layer,
          <<Apply("softmax", 0, <<Apply("scores", layer, <<q>> \o SubSeq(keys, 1, n))>>)>>
            \o SubSeq(values, 1, n))

\* dynamic_columns: a key has the scale of its own column, a value one over the
\* rows it is quantised with.
OwnScale(k) == Apply("dynamic", 0, <<k>>)
SharedScale(rows) == Apply("dynamic", 0, rows)
IntegerScores(name, layer, q, keys) ==
    Apply(name, layer, <<OwnScale(q)>> \o [i \in DOMAIN keys |-> OwnScale(keys[i])])

QuantizedAttention(layer, q, keys, values, n) ==
    LET p == Apply("softmax", 0, <<IntegerScores("affine scores", layer, q, SubSeq(keys, 1, n))>>)
    IN  Apply("context", layer, <<OwnScale(p), SharedScale(SubSeq(values, 1, n))>>)

\* The largest score is taken off the scores of the row.
ScaledAttention(layer, q, keys, values, n) ==
    LET p == Apply("softmax", 0, <<IntegerScores("centered scores", layer, q, SubSeq(keys, 1, n))>>)
    IN  Apply("context", layer, <<OwnScale(p), SharedScale(SubSeq(values, 1, n))>>)

Attention(kind, layer, q, keys, values, n) ==
    CASE kind = "Float" -> FloatAttention(layer, q, keys, values, n)
      [] kind = "Quantized" -> QuantizedAttention(layer, q, keys, values, n)
      [] kind = "Scaled" -> ScaledAttention(layer, q, keys, values, n)

-----------------------------------------------------------------------------
(* A layer, row by row, on the rows of this call and the cache before them. *)

\* The gain of the scaled model is corrected for the exponent of the row.
ScaledNorm(name, layer, x) == Apply(name, layer, <<x, Apply("epsilon", 0, <<x>>)>>)
Norm(kind, name, layer, x) ==
    IF kind = "Scaled" THEN ScaledNorm(name, layer, x) ELSE Apply(name, layer, <<x>>)

Queries(kind, layer, x) == [r \in DOMAIN x |-> Apply("q", layer, <<Norm(kind, "ln_1", layer, x[r])>>)]
KeysOf(kind, layer, x) == [r \in DOMAIN x |-> Apply("k", layer, <<Norm(kind, "ln_1", layer, x[r])>>)]
ValuesOf(kind, layer, x) == [r \in DOMAIN x |-> Apply("v", layer, <<Norm(kind, "ln_1", layer, x[r])>>)]

\* The projection of the scaled model smooths its input, and takes the residual
\* to choose an exponent for both.
ScaledProject(name, layer, x, residual) ==
    Apply(name, layer, <<Apply("smooth", layer, <<x>>), residual>>)
Project(kind, name, layer, x, residual) ==
    IF kind = "Scaled" THEN ScaledProject(name, layer, x, residual)
    ELSE Apply("add", 0, <<residual, Apply(name, layer, <<x>>)>>)

Mlp(kind, layer, residual) ==
    Project(kind, "mlp.c_proj", layer,
            Apply("gelu", 0, <<Apply("c_fc", layer, <<Norm(kind, "ln_2", layer, residual)>>)>>), residual)

\* The rows after a layer, and the layer's keys and values for the cache.
RunLayer(kind, layer, x, pk, pv) ==
    LET keys == pk \o KeysOf(kind, layer, x)
        values == pv \o ValuesOf(kind, layer, x)
        context(r) ==
            Attention(kind, layer, Queries(kind, layer, x)[r], keys, values, CausalLength(Len(pk), r))
    IN  [x |-> [r \in DOMAIN x |-> Mlp(kind, layer, Project(kind, "attn.c_proj", layer, context(r), x[r]))],
         cache |-> [k |-> keys, v |-> values]]

-----------------------------------------------------------------------------
(* forward and generate. *)

NoCache(layers) == [l \in 1 .. layers |-> [k |-> <<>>, v |-> <<>>]]
Past(cache) == Len(cache[1].k)

ForwardAdmits(tokens, cache, layers, vocabulary, positions) ==
    /\ tokens # <<>> /\ \A i \in DOMAIN tokens : tokens[i] \in vocabulary
    /\ Len(cache) = layers /\ \A l \in DOMAIN cache : Len(cache[l].k) = Past(cache) /\ Len(cache[l].v) = Past(cache)
    /\ Past(cache) + Len(tokens) <= positions

Stack(kind, tokens, cache) ==
    LET after[l \in 0 .. Len(cache)] ==
            IF l = 0 THEN [x |-> Embedded(tokens, Past(cache)), cache |-> <<>>]
            ELSE LET before == after[l - 1]
                     run == RunLayer(kind, l, before.x, cache[l].k, cache[l].v)
                 IN  [x |-> run.x, cache |-> Append(before.cache, run.cache)]
    IN  after[Len(cache)]

\* The logits are those of the last row unless all are asked for.
Forward(kind, tokens, cache, allLogits) ==
    LET s == Stack(kind, tokens, cache)
        row(r) == Apply("lm_head", 0, <<Norm(kind, "ln_f", 0, s.x[r])>>)
    IN  [logits |-> IF allLogits THEN [r \in DOMAIN s.x |-> row(r)] ELSE <<row(Len(s.x))>>,
         cache |-> s.cache]

\* generate: one call for the prompt, one for each token but the last.  What
\* argmax makes of a row of logits is the caller's.
Generate(kind, prompt, count, layers, argmax(_)) ==
    LET step[n \in 0 .. count - 1] ==
            IF n = 0 THEN [run |-> Forward(kind, prompt, NoCache(layers), FALSE), tokens |-> <<>>]
            ELSE LET before == step[n - 1]
                     token == argmax(before.run.logits[1])
                 IN  [run |-> Forward(kind, <<token>>, before.run.cache, FALSE),
                      tokens |-> Append(before.tokens, token)]
    IN  Append(step[count - 1].tokens, argmax(step[count - 1].run.logits[1]))
GenerateAdmits(prompt, count, positions) == count >= 1 /\ Len(prompt) + count <= positions
=============================================================================
