-------------------------------- MODULE Texels --------------------------------
(***************************************************************************)
(* The formats of texture images and what their conversions do with one    *)
(* texel (src/src/objects/texture.c, with the readback conversions of      *)
(* src/src/context/sync.c): the request of a call and the storage it       *)
(* selects, the bytes of both, and the texel that an upload, a null        *)
(* definition, a copy, a compressed block or a mip reduction leaves.       *)
(*                                                                         *)
(* A texel is four numbers.  One is 1.0 and also UINT8_MAX; packed formats *)
(* hold the fields of their 16-bit word.  Texels of the float formats may  *)
(* lie outside 0..One; how binary16 rounds is left out, not how it         *)
(* saturates.  Texels of sRGB images are kept by the byte they decode.     *)
(***************************************************************************)
EXTENDS Integers, Sequences, FiniteSets

CONSTANTS
    None,
    NotFinite,      \* NaN and the infinities
    HalfLimit,      \* the largest binary16
    Alignment       \* UNPACK_ALIGNMENT

One == 255

ASSUME TexelAssumption ==
    /\ Alignment \in {1, 2, 4, 8}
    /\ HalfLimit \in Nat /\ HalfLimit > One
    /\ NotFinite \notin Int

Canonical == {"RGBA", "RGB", "ALPHA", "LUMINANCE", "LUMINANCE_ALPHA"}
Packed == {"RGB565", "RGBA4", "RGB5_A1"}
ColorFormats == Canonical \cup Packed
DepthFormats == {"DEPTH32F", "DEPTH24_STENCIL8"}

\* What a packed format is uploaded as, and the largest value of its fields;
\* RGB565 has no alpha field.
PackedRequest == [RGB565 |-> <<"RGB", "5_6_5">>, RGBA4 |-> <<"RGBA", "4_4_4_4">>,
                  RGB5_A1 |-> <<"RGBA", "5_5_5_1">>]
PackedType(base) == PackedRequest[base][2]
Fields == [RGB565 |-> <<31, 63, 31, 0>>, RGBA4 |-> <<15, 15, 15, 15>>,
           RGB5_A1 |-> <<31, 31, 31, 1>>]

Format(base, type, srgb, compressed) ==
    [base |-> base, type |-> type, srgb |-> srgb, compressed |-> compressed]
NoFormat == Format(None, None, FALSE, None)

IsColor(f) == f.base \in ColorFormats
IsPacked(f) == f.base \in Packed
IsFloat(f) == f.type \in {"FLOAT", "HALF"}

-----------------------------------------------------------------------------
(***************************************************************************)
(* Requests: the internal format, format and type of a call.               *)
(***************************************************************************)
ColorStorage(internal, format, type) ==
    IF internal = format /\ \E p \in Packed : PackedRequest[p] = <<format, type>>
    THEN CHOOSE p \in Packed : PackedRequest[p] = <<format, type>>
    ELSE IF internal = format /\ (\/ internal \in Canonical /\ type \in {"FLOAT", "HALF"}
                                  \/ internal \in ColorFormats /\ type = "UBYTE")
         THEN internal ELSE None

\* WEBGL_depth_texture's unsized formats select the sized storage.
DepthStorage(internal, format, type) ==
    IF /\ format = "DEPTH_COMPONENT"
       /\ \/ internal = "DEPTH_COMPONENT" /\ type \in {"USHORT", "UINT"}
          \/ internal = "DEPTH32F" /\ type = "FLOAT"
    THEN "DEPTH32F"
    ELSE IF /\ format = "DEPTH_STENCIL" /\ type = "24_8"
            /\ internal \in {"DEPTH_STENCIL", "DEPTH24_STENCIL8"}
         THEN "DEPTH24_STENCIL8" ELSE None

SrgbStorage == [SRGB |-> "RGB", SRGB_ALPHA |-> "RGBA"]

RequestedFormat(internal, format, type) ==
    LET color == ColorStorage(internal, format, type)
        depth == DepthStorage(internal, format, type)
    IN IF internal \in DOMAIN SrgbStorage
       THEN IF type = "UBYTE" /\ format = internal
            THEN Format(SrgbStorage[internal], "FLOAT", TRUE, None) ELSE NoFormat
       ELSE IF color # None THEN Format(color, type, FALSE, None)
       ELSE IF depth # None THEN Format(depth, None, FALSE, None) ELSE NoFormat

\* The format and type a defined image takes updates in.
UploadValid(f, format, type) ==
    IF f.srgb THEN format \in DOMAIN SrgbStorage /\ SrgbStorage[format] = f.base /\ type = "UBYTE"
    ELSE IF IsFloat(f) THEN f.base \in Canonical /\ format = f.base /\ type = f.type
    ELSE IF IsPacked(f) THEN PackedRequest[f.base] = <<format, type>>
    ELSE f.base \in Canonical /\ format = f.base /\ type = "UBYTE"
DepthUploadValid(f, format, type) ==
    \/ f.base = "DEPTH32F" /\ format = "DEPTH_COMPONENT" /\ type \in {"USHORT", "UINT", "FLOAT"}
    \/ f.base = "DEPTH24_STENCIL8" /\ format = "DEPTH_STENCIL" /\ type = "24_8"

-----------------------------------------------------------------------------
(***************************************************************************)
(* Bytes.                                                                  *)
(***************************************************************************)
Components == [RGBA |-> 4, SRGB_ALPHA |-> 4, RGB |-> 3, SRGB |-> 3, LUMINANCE_ALPHA |-> 2,
               ALPHA |-> 1, LUMINANCE |-> 1]

ExternalTexelBytes(format, type) ==
    CASE format = "DEPTH_COMPONENT" /\ type = "USHORT" -> 2
      [] format = "DEPTH_COMPONENT" /\ type \in {"UINT", "FLOAT"} -> 4
      [] format = "DEPTH_STENCIL" /\ type = "24_8" -> 4
      [] type \in {"FLOAT", "HALF"} /\ format # "DEPTH_COMPONENT" ->
             IF format \in Canonical
             THEN Components[format] * (IF type = "FLOAT" THEN 4 ELSE 2) ELSE 0
      [] type \in {"5_6_5", "4_4_4_4", "5_5_5_1"} -> 2
      [] OTHER -> IF format \in DOMAIN Components THEN Components[format] ELSE 4

\* Every row starts at a multiple of the alignment.
SourceRowPitch(width, format, type) ==
    ((width * ExternalTexelBytes(format, type) + Alignment - 1) \div Alignment) * Alignment

\* The last row needs no padding.
RequiredSourceBytes(width, height, format, type) ==
    IF width = 0 \/ height = 0 THEN 0
    ELSE (height - 1) * SourceRowPitch(width, format, type)
         + width * ExternalTexelBytes(format, type)

StorageTexelBytes(f) ==
    IF f.base = "DEPTH24_STENCIL8" \/ f.type = "HALF" THEN 8
    ELSE IF f.type = "FLOAT" THEN 16
    ELSE IF IsPacked(f) THEN 2 ELSE 4

-----------------------------------------------------------------------------
(***************************************************************************)
(* Texels.                                                                 *)
(***************************************************************************)
Clamped(x, low, high) == IF x <= low THEN low ELSE IF x >= high THEN high ELSE x

\* texture_write_half_component: what is not finite becomes the largest value too.
Half(x) == IF x = NotFinite THEN HalfLimit ELSE Clamped(x, -HalfLimit, HalfLimit)
FloatToUnorm8(x) == IF x = NotFinite THEN One ELSE Clamped(x, 0, One)

\* The components of an external texel of the format, spread over RGBA.
Expanded(format, given) ==
    CASE format \in {"RGBA", "SRGB_ALPHA"} -> given
      [] format \in {"RGB", "SRGB"} -> <<given[1], given[2], given[3], One>>
      [] format = "ALPHA" -> <<0, 0, 0, given[1]>>
      [] format = "LUMINANCE" -> <<given[1], given[1], given[1], One>>
      [] format = "LUMINANCE_ALPHA" -> <<given[1], given[1], given[1], given[2]>>
      [] OTHER -> given

\* The texel an upload stores: packed words are copied, depth is one number.
StoredTexel(f, format, given) ==
    CASE IsPacked(f) -> [c \in 1..4 |-> given[c] % (Fields[f.base][c] + 1)]
      [] f.base = "DEPTH32F" -> <<given[1], 0, 0, 0>>
      [] f.base = "DEPTH24_STENCIL8" -> <<given[1], given[2], 0, 0>>
      [] f.type = "HALF" -> [c \in 1..4 |-> Half(Expanded(format, given)[c])]
      [] OTHER -> Expanded(format, given)

\* Fault: a null definition is cleared to zero only.
ZeroTexel(f) == <<0, 0, 0, 0>>

\* A null definition still has the alpha its format implies.
DefaultTexel(f) ==
    IF f.base \in {"RGB", "LUMINANCE"} THEN <<0, 0, 0, One>> ELSE <<0, 0, 0, 0>>

\* One texel of the next level from four of this one.
Reduced(f, a, b, c, d) ==
    CASE f.type = "HALF" -> [k \in 1..4 |-> Half((a[k] + b[k] + c[k] + d[k]) \div 4)]
      [] f.type = "FLOAT" -> [k \in 1..4 |-> (a[k] + b[k] + c[k] + d[k]) \div 4]
      [] OTHER -> [k \in 1..4 |-> (a[k] + b[k] + c[k] + d[k] + 2) \div 4]

-----------------------------------------------------------------------------
(***************************************************************************)
(* Copies: a canonical RGBA snapshot of a color target, bytes or floats,   *)
(* is converted into the storage of the destination.                       *)
(***************************************************************************)
\* ringl_read_color_target_to_type's conversions of what the device returned.
FloatSnapshot(f) == ~f.srgb /\ IsFloat(f)
Snapshot(f, texel) ==
    IF f.srgb THEN <<texel[1], texel[2], texel[3],
                     IF f.base = "RGBA" THEN FloatToUnorm8(texel[4]) ELSE One>>
    ELSE IF IsPacked(f)
    THEN [c \in 1..4 |->
            IF f.base = "RGB565" /\ c = 4 THEN One
            ELSE (texel[c] * One + Fields[f.base][c] \div 2) \div Fields[f.base][c]]
    ELSE texel
Finite(texel) == \A c \in 1..4 : texel[c] # NotFinite

\* The components a canonical format keeps of a copied color.
CopyComponents(base, t) ==
    CASE base = "RGB" -> <<t[1], t[2], t[3], One>>
      [] base = "ALPHA" -> <<0, 0, 0, t[4]>>
      [] base = "LUMINANCE" -> <<t[1], t[1], t[1], One>>
      [] base = "LUMINANCE_ALPHA" -> <<t[1], t[1], t[1], t[4]>>
      [] OTHER -> t

Quantized(base, t) ==
    [c \in 1..4 |-> (t[c] * Fields[base][c] + One \div 2) \div One]

CopiedTexel(f, snapshot) ==
    LET kept == CopyComponents(f.base, snapshot)
        bytes == [c \in 1..4 |-> FloatToUnorm8(kept[c])]
    IN IF f.srgb THEN [bytes EXCEPT ![4] = IF f.base = "RGBA" THEN @ ELSE One]
       ELSE IF f.type = "FLOAT" THEN kept
       ELSE IF f.type = "HALF" THEN [c \in 1..4 |-> Half(kept[c])]
       ELSE IF IsPacked(f) THEN Quantized(f.base, bytes)
       ELSE CopyComponents(f.base, bytes)

-----------------------------------------------------------------------------
(***************************************************************************)
(* Compressed images: 4x4 blocks that are decoded before they are stored.  *)
(* A block is given by its two colors, the selector of the texel, for ETC1 *)
(* its modifier, and for DXT3 and DXT5 its alpha.                          *)
(***************************************************************************)
Compressed == {"ETC1", "DXT1_RGB", "DXT1_RGBA", "DXT3", "DXT5", "SRGB_DXT1", "SRGB_DXT1_ALPHA",
               "SRGB_DXT3", "SRGB_DXT5"}
CompressedBase(c) == IF c \in {"ETC1", "DXT1_RGB", "SRGB_DXT1"} THEN "RGB" ELSE "RGBA"
CompressedSrgb(c) == c \in {"SRGB_DXT1", "SRGB_DXT1_ALPHA", "SRGB_DXT3", "SRGB_DXT5"}
BlockBytes(c) == IF c \in {"DXT3", "DXT5", "SRGB_DXT3", "SRGB_DXT5"} THEN 16 ELSE 8
DecodedType(c) == IF CompressedSrgb(c) THEN "FLOAT" ELSE "UBYTE"
DecodedFormat(c) == Format(CompressedBase(c), DecodedType(c), FALSE, c)

BlockSpan(c, width, height) ==
    ((width + 3) \div 4) * ((height + 3) \div 4) * BlockBytes(c)

\* The decoded image is tightly packed: three or four components, bytes or floats.
DecodedBytes(c, width, height) ==
    width * height * Components[CompressedBase(c)] * (IF CompressedSrgb(c) THEN 4 ELSE 1)

Etc1Texel(color, modifier) == [k \in 1..3 |-> Clamped(color[k] + modifier, 0, One)]

\* The palette of a DXT block: two colors and two between them, or one and black.
PaletteColor(first, second, selector, ordered) ==
    CASE selector = 0 -> first
      [] selector = 1 -> second
      [] selector = 2 -> [k \in 1..3 |-> IF ordered THEN (2 * first[k] + second[k]) \div 3
                                         ELSE (first[k] + second[k]) \div 2]
      [] selector = 3 -> [k \in 1..3 |-> IF ordered THEN (first[k] + 2 * second[k]) \div 3 ELSE 0]

OneBitAlpha(c) == c \in {"DXT1_RGBA", "SRGB_DXT1_ALPHA"}
DecodedTexel(c, block) ==
    LET ordered == block.ordered \/ ~OneBitAlpha(c)
        color == IF c = "ETC1" THEN Etc1Texel(block.first, block.modifier)
                 ELSE PaletteColor(block.first, block.second, block.selector, ordered)
        alpha == CASE c \in {"DXT3", "DXT5", "SRGB_DXT3", "SRGB_DXT5"} -> block.alpha
                   [] OneBitAlpha(c) -> IF ~ordered /\ block.selector = 3 THEN 0 ELSE One
                   [] OTHER -> One
    IN <<color[1], color[2], color[3], alpha>>

-----------------------------------------------------------------------------
(***************************************************************************)
(* Images of the device.                                                   *)
(***************************************************************************)
RinGpuFormat(f) ==
    CASE f.type = "FLOAT" -> "RGBA32F"
      [] f.type = "HALF" -> "RGBA16F"
      [] f.base = "DEPTH32F" -> "D32"
      [] f.base = "DEPTH24_STENCIL8" -> "D32S8"
      [] OTHER -> IF IsPacked(f) THEN f.base ELSE "RGBA8"
=============================================================================
