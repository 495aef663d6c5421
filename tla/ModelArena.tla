----------------------------- MODULE ModelArena -----------------------------
(***************************************************************************)
(* ref/m4_model_pack.py and ref/m5_arena.py: the accepted model as an      *)
(* inventory of arrays, the arena the board is given to hold it, and the   *)
(* file that fills the arena, with the check made of that file.            *)
(*                                                                         *)
(* The layout is that of the source, number by number.  A file is a        *)
(* function of its offsets, and its header and the payload of an array are *)
(* what the caller says they are, so a small inventory can be examined     *)
(* byte by byte.                                                           *)
(***************************************************************************)
EXTENDS Integers, Sequences
LOCAL INSTANCE SequencesExt
LOCAL INSTANCE FiniteSetsExt

ArenaBytes == 268435456
HeaderBytes == 65536
PageBytes == 4096
ArrayTable == 128
RegionTable == 8192
TableEntry == 32
ArenaFormat == [header |-> HeaderBytes, line |-> 64, page |-> PageBytes, chunk |-> 1048576]

AlignUp(value, alignment) == ((value + alignment - 1) \div alignment) * alignment

-----------------------------------------------------------------------------
(* The inventory: name, bytes of an element and shape, in the fixed order.  *)

Array(name, element, shape) == [name |-> name, element |-> element, shape |-> shape]
LinearArrays(name, k, n) ==
    <<Array(<<name, "tiles">>, 1, <<(n + 15) \div 16, k, 16>>), Array(<<name, "scale">>, 8, <<n>>),
      Array(<<name, "bias">>, 8, <<n>>), Array(<<name, "smooth">>, 8, <<k>>)>>
NormArrays(name) == <<Array(<<name, "gain">>, 8, <<768>>), Array(<<name, "bias">>, 8, <<768>>)>>
Layers == 12
LayerArrays(layer) ==
    LinearArrays(<<layer, "c_attn">>, 768, 2304) \o LinearArrays(<<layer, "attn.c_proj">>, 768, 768)
    \o LinearArrays(<<layer, "c_fc">>, 768, 3072) \o LinearArrays(<<layer, "mlp.c_proj">>, 3072, 768)
    \o NormArrays(<<layer, "ln_1">>) \o NormArrays(<<layer, "ln_2">>)
ArraySpecs ==
    <<Array(<<<<0, "model">>, "embedding">>, 2, <<50257, 768>>),
      Array(<<<<0, "model">>, "position">>, 2, <<1024, 768>>)>>
    \o FlattenSeq([l \in 1 .. Layers |-> LayerArrays(l - 1)])
    \o NormArrays(<<0, "ln_f">>) \o LinearArrays(<<0, "lm_head">>, 768, 50257)

ProductOf(s) == LET p[i \in 0 .. Len(s)] == IF i = 0 THEN 1 ELSE p[i - 1] * s[i] IN p[Len(s)]
ArrayBytes(a) == a.element * ProductOf(a.shape)

-----------------------------------------------------------------------------
(* The layout: arrays after the header, each on a cache line; then regions, *)
(* a guard page before each that the fabric writes.                         *)

ArrayOffsets(sizes, fmt) ==
    FoldLeft(LAMBDA placed, size :
                LET i == Len(placed)
                    cursor == IF i = 0 THEN fmt.header ELSE placed[i] + sizes[i]
                IN  Append(placed, AlignUp(cursor, fmt.line)),
             <<>>, sizes)
ModelEnd(sizes, fmt) ==
    AlignUp(ArrayOffsets(sizes, fmt)[Len(sizes)] + sizes[Len(sizes)], fmt.page)

CacheRegions ==
    <<[name |-> "k", bytes |-> 12 * 12 * 1024 * 64 * 2], [name |-> "v", bytes |-> 12 * 12 * 1024 * 64 * 2],
      [name |-> "k8", bytes |-> 12 * 12 * 1024 * 64], [name |-> "kunits", bytes |-> 12 * 12 * 1024 * 8],
      [name |-> "work", bytes |-> 4 * 1024 * 1024], [name |-> "trace", bytes |-> 8 * 1024 * 1024]>>
Guarded(r) ==
    <<[name |-> "guard", bytes |-> PageBytes, permissions |-> 0],
      [name |-> r.name, bytes |-> r.bytes, permissions |-> 3]>>
RegionsBefore(modelEnd) ==
    <<[name |-> "model", bytes |-> modelEnd, permissions |-> 1]>>
    \o FlattenSeq([i \in DOMAIN CacheRegions |-> Guarded(CacheRegions[i])])
    \o <<[name |-> "guard", bytes |-> PageBytes, permissions |-> 0]>>
SizeBefore(regions, i) ==
    LET s[j \in 0 .. Len(regions)] == IF j = 0 THEN 0 ELSE s[j - 1] + regions[j].bytes IN s[i - 1]
Placed(regions) ==
    [i \in DOMAIN regions |->
        [name |-> regions[i].name, offset |-> SizeBefore(regions, i), bytes |-> regions[i].bytes,
         permissions |-> regions[i].permissions]]
Regions(modelEnd) ==
    LET used == RegionsBefore(modelEnd)
        rest == ArenaBytes - SizeBefore(used, Len(used) + 1)
    IN  Placed(Append(used, [name |-> "unused", bytes |-> rest, permissions |-> 0]))

\* What build_layout refuses.
RegionLegal(r) == r.bytes > 0 /\ r.bytes % PageBytes = 0 /\ r.offset + r.bytes <= ArenaBytes
HeaderHolds(arrays, regions) ==
    /\ ArrayTable + arrays * TableEntry <= RegionTable
    /\ RegionTable + regions * TableEntry <= HeaderBytes

\* make_header: what a header holds where.
HeaderExtents(arrays, regions) ==
    {[what |-> <<"fields", 0>>, at |-> 0, bytes |-> 4 * 16],
     [what |-> <<"pack digest", 0>>, at |-> 64, bytes |-> 32],
     [what |-> <<"candidate digest", 0>>, at |-> 96, bytes |-> 32]}
    \cup {[what |-> <<"array", i>>, at |-> ArrayTable + i * TableEntry, bytes |-> 32] : i \in 0 .. arrays - 1}
    \cup {[what |-> <<"region", i>>, at |-> RegionTable + i * TableEntry, bytes |-> 32] : i \in 0 .. regions - 1}

-----------------------------------------------------------------------------
(* The accepted pack.  An entry is what the manifest and the file of an     *)
(* array say; the digests are right or wrong.                               *)

KindOf(a) == a.name[2]
AssetSound(e) == e.inside /\ e.digestRight /\ e.shape = e.manifestShape /\ e.dtypeRight /\ e.contiguous
ValuesSound(a, e) ==
    CASE KindOf(a) = "tiles" -> e.paddingZero
      [] KindOf(a) \in {"scale", "smooth"} -> e.finite /\ e.positive
      [] KindOf(a) \in {"bias", "gain"} -> e.finite
      [] OTHER -> TRUE
\* ModelPack: every asset as its manifest says, and as the inventory needs it.
PackAdmits(specs, pack) ==
    /\ \A i \in DOMAIN pack : AssetSound(pack[i])
    /\ \A i \in DOMAIN specs :
           pack[i].shape = specs[i].shape /\ pack[i].dtype = specs[i].element /\ ValuesSound(specs[i], pack[i])
\* build_layout: the manifest against the inventory, before anything is placed.
ManifestAdmits(specs, pack) ==
    /\ DOMAIN pack = DOMAIN specs
    /\ \A i \in DOMAIN specs :
           pack[i].manifestShape = specs[i].shape /\ pack[i].dtype = specs[i].element

\* tile_weights: sixteen columns a tile, the last one padded.
TileWeights(k, n, w) ==
    [t \in 0 .. ((n + 15) \div 16) - 1, i \in 0 .. k - 1, l \in 0 .. 15 |->
        IF 16 * t + l < n THEN w[i, 16 * t + l] ELSE 0]

-----------------------------------------------------------------------------
(* The file.  An inventory is the sizes of its arrays; a payload gives the  *)
(* bytes of each.                                                           *)

Chunks(size, chunk) ==
    [c \in 1 .. (size + chunk - 1) \div chunk |->
        [at |-> (c - 1) * chunk, bytes |-> IF c * chunk > size THEN size - (c - 1) * chunk ELSE chunk]]
Written(file, at, data, from, bytes) ==
    [o \in DOMAIN file |-> IF o \in at .. at + bytes - 1 THEN data[from + o - at] ELSE file[o]]

\* export_model: a file of zeros, the header, then the arrays chunk by chunk.
WriteArray(file, offset, data, size, chunk) ==
    FoldLeft(LAMBDA f, c : Written(f, offset + c.at, data, c.at, c.bytes), file, Chunks(size, chunk))
ExportModel(sizes, fmt, head, payload) ==
    LET empty == [o \in 0 .. ModelEnd(sizes, fmt) - 1 |-> 0]
        headed == Written(empty, 0, head, 0, fmt.header)
        offsets == ArrayOffsets(sizes, fmt)
    IN  FoldLeft(LAMBDA f, i : WriteArray(f, offsets[i], payload[i], sizes[i], fmt.chunk),
                 headed, [i \in DOMAIN sizes |-> i])
LayoutOf(sizes, fmt, head, payload) ==
    [sizes |-> sizes, model |-> ExportModel(sizes, fmt, head, payload), payload |-> payload]

\* verify_export: the layout file against the pack, then the model file range by
\* range.  A digest is what it is the digest of.
ZeroOn(file, from, upTo) == \A o \in from .. upTo - 1 : file[o] = 0
EndBefore(sizes, fmt, i) ==
    IF i = 1 THEN fmt.header ELSE ArrayOffsets(sizes, fmt)[i - 1] + sizes[i - 1]
ArrayDelivered(file, sizes, fmt, payload, layout, i) ==
    LET offset == ArrayOffsets(sizes, fmt)[i]
    IN  /\ ZeroOn(file, EndBefore(sizes, fmt, i), offset)
        /\ \A o \in 0 .. sizes[i] - 1 : file[offset + o] = payload[i][o]
        /\ layout.payload[i] = payload[i]
VerifyExport(file, layout, sizes, fmt, head, payload) ==
    LET end == ModelEnd(sizes, fmt)
    IN  /\ layout.sizes = sizes
        /\ DOMAIN file = 0 .. end - 1 /\ file = layout.model
        /\ \A o \in 0 .. fmt.header - 1 : file[o] = head[o]
        /\ \A i \in DOMAIN sizes : ArrayDelivered(file, sizes, fmt, payload, layout, i)
        /\ ZeroOn(file, EndBefore(sizes, fmt, Len(sizes) + 1), end)
=============================================================================
