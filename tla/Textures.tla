------------------------------- MODULE Textures -------------------------------
(***************************************************************************)
(* Texture objects (src/src/objects/texture.c): storage in CPU shadows,    *)
(* their mip levels and cube faces, the device image and the sampler that  *)
(* are built from them when a draw needs them, and every call that         *)
(* replaces, updates, copies into, reduces, binds, parameterises, samples  *)
(* or deletes.                                                             *)
(*                                                                         *)
(* A level is known by its size, the texel at its origin and the texel of  *)
(* all its other places.  A 2D texture keeps its levels as its first face. *)
(* The color target a copy reads is another image and is given by what     *)
(* reading it yields.  The context is current and not lost.                *)
(***************************************************************************)
EXTENDS Texels, FiniteSetsExt, Totals

CONSTANTS
    TextureCount,   \* texture names there are
    Units,          \* texture units
    FaceNames,      \* the faces of a cube map, in order
    MaxLevels,      \* RINGL_MAX_TEXTURE_MIP_LEVELS
    MaxSize,        \* RINGL_MAX_TEXTURE_SIZE
    MaxAnisotropy,  \* RINGL_MAX_TEXTURE_ANISOTROPY
    Budget,         \* CPU bytes that may be charged
    Calls           \* bound: calls in a behaviour

ASSUME TextureAssumption ==
    /\ TextureCount \in Nat
    /\ None \notin Int \cup Compressed \cup ColorFormats \cup DepthFormats \cup {"FLOAT", "HALF"}
    /\ FaceNames \in Seq(STRING) /\ Len(FaceNames) >= 1
    /\ \A i, j \in DOMAIN FaceNames : FaceNames[i] = FaceNames[j] => i = j
    /\ \A i \in DOMAIN FaceNames : FaceNames[i] # "2D"
    /\ MaxLevels \in Nat \ {0} /\ MaxSize \in Nat \ {0} /\ MaxAnisotropy \in Nat \ {0}
    /\ Budget \in Nat /\ Calls \in Nat

VARIABLES
    texture,    \* the texture objects
    units,      \* bound_texture_2d and bound_texture_cube of each unit
    active,     \* active_texture_unit
    charged,    \* cpu_shadow_bytes
    gates,      \* extensions that have been enabled
    callbacks,  \* optional callbacks of the device: "mip", "array"
    dirty,      \* dirty_bits holds BINDINGS
    sampled,    \* what the call, a draw, was handed by ringl_texture_realize_unit
    calls,      \* number of calls made, for the bound
    error       \* what the last call recorded

textureVars == <<texture, units, active, charged, gates, callbacks, dirty, sampled, calls, error>>

Textures == 1..TextureCount
First == FaceNames[1]
Faces == {FaceNames[i] : i \in DOMAIN FaceNames}
Levels == 0..(MaxLevels - 1)
Targets == {"2D"} \cup Faces
Bindings == {"2D", "CUBE"}

MinFilters == {"NEAREST", "LINEAR", "NEAREST_MIPMAP_NEAREST", "LINEAR_MIPMAP_NEAREST",
               "NEAREST_MIPMAP_LINEAR", "LINEAR_MIPMAP_LINEAR"}
MagFilters == {"NEAREST", "LINEAR"}
Wraps == {"REPEAT", "CLAMP", "MIRRORED"}

NoLevel == [size |-> <<0, 0>>, texel |-> None, rest |-> None, generated |-> FALSE]
NoFace == [defined |-> FALSE, format |-> NoFormat, levels |-> [l \in Levels |-> NoLevel]]
NoParameters == [min |-> None, mag |-> None, wrapS |-> None, wrapT |-> None, anisotropy |-> 0]
Defaults == [min |-> "NEAREST_MIPMAP_LINEAR", mag |-> "LINEAR", wrapS |-> "REPEAT",
             wrapT |-> "REPEAT", anisotropy |-> 1]
NoImage == [levels |-> 0]
NoTexture == [name |-> "free", target |-> None, faces |-> [f \in Faces |-> NoFace],
              parameters |-> NoParameters, renderable |-> FALSE, image |-> NoImage,
              sampler |-> None]
NoUnit == [flat |-> None, cube |-> None]
NothingSampled == [binding |-> None, texture |-> None, image |-> NoImage, sampler |-> None]

-----------------------------------------------------------------------------
(***************************************************************************)
(* Levels and faces.                                                       *)
(***************************************************************************)
Area(size) == size[1] * size[2]
Larger(a, b) == IF a >= b THEN a ELSE b
LevelSize(size, l) == <<Larger(1, size[1] \div 2^l), Larger(1, size[2] \div 2^l)>>
LevelCount(size) == 1 + Cardinality({l \in Levels \ {0} : Larger(size[1], size[2]) >= 2^l})
PowerOfTwo(n) == \E l \in 0..MaxSize : n = 2^l
IsNpot(size) == ~PowerOfTwo(size[1]) \/ ~PowerOfTwo(size[2])

Stored(face, l) == Area(face.levels[l].size) # 0
Sized(face, l) ==
    Stored(face, l) /\ (l = 0 \/ face.levels[l].size = LevelSize(face.levels[0].size, l))
BaseSize(face) == face.levels[0].size
Chain(face) == 0..(LevelCount(BaseSize(face)) - 1)

LevelBytes(face, l) == Area(face.levels[l].size) * StorageTexelBytes(face.format)
FaceBytes(face) == Total([n \in 1..MaxLevels |-> LevelBytes(face, n - 1)], MaxLevels)
OfFaces(bytes) == Total([i \in 1..Len(FaceNames) |-> bytes[FaceNames[i]]], Len(FaceNames))
ShadowBytes(x) == OfFaces([f \in Faces |-> FaceBytes(x.faces[f])])

\* The first defined face stands for a cube map as a whole.
Summary(x) ==
    IF x.target # "CUBE" THEN x.faces[First]
    ELSE IF \E i \in DOMAIN FaceNames : x.faces[FaceNames[i]].defined
         THEN x.faces[FaceNames[Min({i \in DOMAIN FaceNames : x.faces[FaceNames[i]].defined})]]
         ELSE NoFace

\* The levels up to the first one that is missing, on all the faces.
SampledMipCount(x, faces) ==
    Max({n \in 1..LevelCount(BaseSize(x.faces[First])) :
            \A f \in faces, l \in 1..(n - 1) : Sized(x.faces[f], l)})
\* An attachment needs its own level only.
HighestDefinedMipCount(x, faces) ==
    Max({0} \cup {l + 1 : l \in {k \in Levels : \E f \in faces :
            /\ Stored(x.faces[f], 0) /\ k \in Chain(x.faces[f]) /\ Sized(x.faces[f], k)}})

\* Faces of one cube map have one base size and one format.
Agree(a, b) == BaseSize(a) = BaseSize(b) /\ a.format = b.format
CubeBaseCompatible(x, face, size, format) ==
    \A f \in Faces \ {face} : x.faces[f].defined =>
        BaseSize(x.faces[f]) = size /\ x.faces[f].format = format
CubeBaseImagesComplete(x) ==
    /\ Stored(x.faces[First], 0) /\ BaseSize(x.faces[First])[1] = BaseSize(x.faces[First])[2]
    /\ \A f \in Faces : Stored(x.faces[f], 0) /\ Agree(x.faces[f], x.faces[First])

-----------------------------------------------------------------------------
(***************************************************************************)
(* Completeness and the objects of the device.                             *)
(***************************************************************************)
Mipmapped(p) == p.min \notin {"NEAREST", "LINEAR"}
FilterRefused(p, f) ==
    /\ \/ f.type = "FLOAT" /\ f.compressed = None /\ ~f.srgb /\ "float_linear" \notin gates
       \/ f.type = "HALF" /\ "half_float_linear" \notin gates
    /\ p.mag # "NEAREST" \/ p.min \notin {"NEAREST", "NEAREST_MIPMAP_NEAREST"}
Clamping(p) == p.wrapS = "CLAMP" /\ p.wrapT = "CLAMP"

\* Fault: a mipmapping filter is satisfied by the base.
Level0CompleteAlone(x) ==
    LET face == x.faces[First]
    IN /\ Stored(face, 0)
       /\ IsNpot(BaseSize(face)) => Clamping(x.parameters) /\ ~Mipmapped(x.parameters)
       /\ ~FilterRefused(x.parameters, face.format)

Level0Complete(x) ==
    LET face == x.faces[First]
    IN /\ Stored(face, 0)
       /\ IsNpot(BaseSize(face)) => Clamping(x.parameters) /\ ~Mipmapped(x.parameters)
       /\ ~FilterRefused(x.parameters, face.format)
       /\ Mipmapped(x.parameters) => \A l \in Chain(face) : Sized(face, l)

CubeLevel0Complete(x) ==
    /\ Clamping(x.parameters) /\ CubeBaseImagesComplete(x)
    /\ ~FilterRefused(x.parameters, x.faces[First].format)
    /\ Mipmapped(x.parameters) =>
          /\ PowerOfTwo(BaseSize(x.faces[First])[1])
          /\ \A f \in Faces : \A l \in Chain(x.faces[f]) : Sized(x.faces[f], l)

\* An image holds, for every face and level, the texel that was uploaded to it, and
\* the levels that have been drawn to since.
Image(x, faces, count) ==
    [size |-> BaseSize(Summary(x)), format |-> RinGpuFormat(Summary(x).format),
     target |-> x.renderable, levels |-> count,
     texels |-> [f \in Faces |-> [l \in Levels |->
                   IF f \in faces /\ l < count /\ Stored(x.faces[f], l)
                   THEN x.faces[f].levels[l].texel ELSE None]],
     drawn |-> {}]

RealizedCube(x) ==
    LET count == IF x.renderable THEN HighestDefinedMipCount(x, Faces)
                 ELSE LevelCount(BaseSize(Summary(x)))
    IN IF /\ x.renderable \/ CubeLevel0Complete(x)
          /\ count # 0 /\ IsColor(Summary(x).format) /\ "array" \in callbacks
       THEN Image(x, Faces, count) ELSE NoImage

RealizedFlat(x) ==
    LET face == x.faces[First]
        whole == x.renderable \/ face.format.base \in DepthFormats
        count == IF whole THEN HighestDefinedMipCount(x, {First}) ELSE SampledMipCount(x, {First})
    IN IF /\ IF whole THEN Stored(face, 0) ELSE Level0Complete(x)
          /\ count > 1 => "mip" \in callbacks
          /\ IsColor(face.format) \/ face.format.base \in DepthFormats
       THEN Image(x, {First}, count) ELSE NoImage

\* texture_realize_image: the image there is, or one built from the shadows.
RealizedImage(x) ==
    IF x.image # NoImage THEN x.image
    ELSE IF x.target = "CUBE" THEN RealizedCube(x) ELSE RealizedFlat(x)

SamplerFilter(value) ==
    IF value \in {"NEAREST", "NEAREST_MIPMAP_NEAREST", "NEAREST_MIPMAP_LINEAR"}
    THEN "NEAREST" ELSE "LINEAR"
SamplerMipFilter(value) ==
    CASE value \in {"NEAREST_MIPMAP_LINEAR", "LINEAR_MIPMAP_LINEAR"} -> "LINEAR"
      [] value \in {"NEAREST_MIPMAP_NEAREST", "LINEAR_MIPMAP_NEAREST"} -> "NEAREST"
      [] OTHER -> "NONE"
Sampler(p) ==
    [min |-> SamplerFilter(p.min), mag |-> SamplerFilter(p.mag), mip |-> SamplerMipFilter(p.min),
     u |-> p.wrapS, v |-> p.wrapT, anisotropy |-> p.anisotropy]

-----------------------------------------------------------------------------
(***************************************************************************)
(* Calls.  A call on a face of a cube map runs the code of 2D textures on  *)
(* that face: it drops the image first, whatever comes of the call.        *)
(***************************************************************************)
Counted == calls < Calls /\ calls' = calls + 1 /\ sampled' = NothingSampled
Refused(code) ==
    error' = code /\ UNCHANGED <<texture, units, active, charged, gates, callbacks, dirty>>
Succeeded == error' = "NO_ERROR"

IsFace(target) == target # "2D"
FaceOf(target) == IF IsFace(target) THEN target ELSE First
BindingOf(target) == IF IsFace(target) THEN "CUBE" ELSE "2D"
BoundTo(binding) == IF binding = "CUBE" THEN units[active].cube ELSE units[active].flat
Owner(target) == BoundTo(BindingOf(target))
FaceUnder(target) ==
    IF Owner(target) = None THEN NoFace ELSE texture[Owner(target)].faces[FaceOf(target)]

Discarded(texs, t) == [texs EXCEPT ![t].image = NoImage]
Prepared(target) == IF IsFace(target) THEN Discarded(texture, Owner(target)) ELSE texture

\* A call that fails after texture_cube_prepare_operation.
Abandoned(target, code) ==
    /\ error' = code /\ texture' = Prepared(target)
    /\ UNCHANGED <<units, active, charged, gates, callbacks, dirty>>

\* Fault: the image is kept when the shadow changes.
ReplaceKeepingImage(target, new) ==
    LET old == FaceUnder(target)
    IN /\ texture' = [Prepared(target) EXCEPT ![Owner(target)].faces[FaceOf(target)] = new]
       /\ charged' = charged - FaceBytes(old) + FaceBytes(new)
       /\ dirty' = TRUE /\ Succeeded
       /\ UNCHANGED <<units, active, gates, callbacks>>

\* Fault: bindings are not marked.
ReplaceUnmarked(target, new) ==
    /\ texture' = [Discarded(texture, Owner(target)) EXCEPT
                      ![Owner(target)].faces[FaceOf(target)] = new]
    /\ charged' = charged - FaceBytes(FaceUnder(target)) + FaceBytes(new)
    /\ Succeeded
    /\ UNCHANGED <<units, active, gates, callbacks, dirty>>

\* The face has new storage or new contents; the image is built again when needed.
Replace(target, new) ==
    LET old == FaceUnder(target)
    IN /\ texture' = [Discarded(texture, Owner(target)) EXCEPT
                        ![Owner(target)].faces[FaceOf(target)] = new]
       /\ charged' = charged - FaceBytes(old) + FaceBytes(new)
       /\ dirty' = TRUE /\ Succeeded
       /\ UNCHANGED <<units, active, gates, callbacks>>

\* The two checks of a call: before and after the face stands in for a texture.
Checked(target, outer, inner, done) ==
    \/ outer # "NO_ERROR" /\ Refused(outer)
    \/ outer = "NO_ERROR" /\ inner # "NO_ERROR" /\ Abandoned(target, inner)
    \/ outer = "NO_ERROR" /\ inner = "NO_ERROR" /\ done

Reserved(bytes) == charged + bytes <= Budget
SizeValid(size) == size[1] \in 0..MaxSize /\ size[2] \in 0..MaxSize

-----------------------------------------------------------------------------
(***************************************************************************)
(* Definitions.                                                            *)
(***************************************************************************)
Made(size, texel) ==
    [size |-> size, texel |-> IF Area(size) = 0 THEN None ELSE texel,
     rest |-> IF Area(size) = 0 THEN None ELSE texel, generated |-> FALSE]

\* Fault: a base image of another size leaves the levels of the old one.
WithLevelKeepingChain(face, level, size, format, texel) ==
    [face EXCEPT !.defined = TRUE, !.levels[level] = Made(size, texel),
                 !.format = IF level = 0 THEN format ELSE @]

\* A base image drops the whole chain; another level is no longer a generated one.
WithLevel(face, level, size, format, texel) ==
    IF level = 0
    THEN [defined |-> TRUE, format |-> format,
          levels |-> [NoFace.levels EXCEPT ![0] = Made(size, texel)]]
    ELSE [face EXCEPT !.levels[level] = Made(size, texel)]

\* texture_cube_tex_image_2d, before the face is entered.
CubeImageError(target, level, size, format) ==
    IF ~IsFace(target) THEN "NO_ERROR"
    ELSE IF format.base = None THEN "INVALID_ENUM"
    ELSE IF level = 0 /\ size[1] # size[2] THEN "INVALID_VALUE"
    ELSE IF Owner(target) = None THEN "INVALID_OPERATION"
    ELSE IF level = 0 /\ ~CubeBaseCompatible(texture[Owner(target)], target, size, format)
         THEN "INVALID_OPERATION"
    ELSE "NO_ERROR"

\* A level other than the base extends a stored base image of the same format.
LevelError(face, level, size, format) ==
    IF level = 0 THEN "NO_ERROR"
    ELSE IF ~Stored(face, 0) \/ face.format # format THEN "INVALID_OPERATION"
    ELSE IF level \notin Chain(face) \/ size # LevelSize(BaseSize(face), level)
         THEN "INVALID_VALUE"
    ELSE "NO_ERROR"

\* `needed`: bytes the conversion reads; `held`: temporary bytes of the caller.
ImageError(target, level, size, format, given, needed, held) ==
    LET face == FaceUnder(target)
    IN IF format.base = None THEN "INVALID_ENUM"
       ELSE IF level \notin Levels \/ ~SizeValid(size) THEN "INVALID_VALUE"
       ELSE IF Owner(target) = None THEN "INVALID_OPERATION"
       ELSE IF LevelError(face, level, size, format) # "NO_ERROR"
            THEN LevelError(face, level, size, format)
       ELSE IF given # None /\ given < needed THEN "INVALID_VALUE"
       ELSE IF ~Reserved(held + Area(size) * StorageTexelBytes(format)) THEN "OUT_OF_MEMORY"
       ELSE "NO_ERROR"

\* glTexImage2D: a null definition gives no bytes.
TexImage(target, level, size, request, given, pixel) ==
    LET format == RequestedFormat(request[1], request[2], request[3])
        outer == CubeImageError(target, level, size, format)
        inner == IF outer # "NO_ERROR" THEN outer
                 ELSE ImageError(target, level, size, format, given,
                          IF SizeValid(size)
                          THEN RequiredSourceBytes(size[1], size[2], request[2], request[3])
                          ELSE 0, 0)
    IN /\ Counted
       /\ Checked(target, outer, inner,
            Replace(target, WithLevel(FaceUnder(target), level, size, format,
                IF given = None THEN DefaultTexel(format)
                ELSE StoredTexel(format, request[2], pixel))))

-----------------------------------------------------------------------------
(***************************************************************************)
(* Updates of part of a level.                                             *)
(***************************************************************************)
Inside(region, size) ==
    \A i \in 1..2 : /\ region.offset[i] >= 0 /\ region.size[i] >= 0
                    /\ region.offset[i] + region.size[i] <= size[i]
Negative(region) == \E i \in 1..2 : region.offset[i] < 0 \/ region.size[i] < 0

\* Bound: a region covers the level, its origin, nothing, or is refused.
Told(region, size) ==
    Inside(region, size) /\ Area(region.size) # 0 =>
        region.offset = <<0, 0>> /\ region.size \in {<<1, 1>>, size}

\* An update of the base drops the levels that were generated from it.
Updated(face, level, region, texel) ==
    LET old == face.levels[level]
        new == [old EXCEPT !.texel = texel, !.generated = FALSE,
                           !.rest = IF region.size = old.size THEN texel ELSE old.rest]
    IN [face EXCEPT !.levels =
          [l \in Levels |-> IF l = level THEN new
                            ELSE IF level = 0 /\ face.levels[l].generated THEN NoLevel
                            ELSE face.levels[l]]]

CubeUpdateError(target) ==
    IF IsFace(target) /\ Owner(target) = None THEN "INVALID_OPERATION" ELSE "NO_ERROR"

SubImageError(target, level, region, format, type, compressed, given) ==
    LET face == FaceUnder(target)
        needed == RequiredSourceBytes(region.size[1], region.size[2], format, type)
    IN IF level \notin Levels \/ Negative(region) THEN "INVALID_VALUE"
       ELSE IF ~Stored(face, 0) \/ face.format.compressed # compressed THEN "INVALID_OPERATION"
       ELSE IF ~Stored(face, level) THEN "INVALID_OPERATION"
       ELSE IF ~UploadValid(face.format, format, type) /\ ~DepthUploadValid(face.format, format, type)
            THEN "INVALID_ENUM"
       ELSE IF ~Inside(region, face.levels[level].size) THEN "INVALID_VALUE"
       ELSE IF Area(region.size) # 0 /\ (given = None \/ given < needed) THEN "INVALID_VALUE"
       ELSE "NO_ERROR"

\* An empty region changes nothing more than entering the face did.
Written(target, level, region, texel) ==
    IF Area(region.size) = 0 THEN Abandoned(target, "NO_ERROR")
    ELSE Replace(target, Updated(FaceUnder(target), level, region, texel))

\* glTexSubImage2D
TexSubImage(target, level, region, format, type, given, pixel) ==
    LET face == FaceUnder(target)
        outer == CubeUpdateError(target)
        inner == IF outer # "NO_ERROR" THEN outer
                 ELSE SubImageError(target, level, region, format, type, None, given)
    IN /\ Counted /\ (level \in Levels => Told(region, face.levels[level].size))
       /\ Checked(target, outer, inner,
            Written(target, level, region, StoredTexel(face.format, format, pixel)))

-----------------------------------------------------------------------------
(***************************************************************************)
(* Copies from the color target that reads go to, from the place `at`.     *)
(* `code` is what its framebuffer reports, `reads` whether the device      *)
(* returns it.  A snapshot and, for some formats, a staging copy are held  *)
(* while it is read.                                                       *)
(***************************************************************************)
SnapshotBytes(source, size) == Area(size) * (IF FloatSnapshot(source.format) THEN 16 ELSE 4)
StagingBytes(source, size) ==
    Area(size) * (CASE IsPacked(source.format) -> 2
                    [] source.format.srgb -> 16
                    [] source.format.type = "HALF" -> 8
                    [] OTHER -> 0)
Before(source) == \E i \in 1..2 : source.at[i] < 0
SourceError(source, size) ==
    IF source.code # "NO_ERROR" THEN source.code
    ELSE IF \E i \in 1..2 : source.at[i] + size[i] > source.size[i] THEN "INVALID_VALUE"
    ELSE "NO_ERROR"
ReadError(source, size) ==
    IF ~Reserved(SnapshotBytes(source, size)) THEN "OUT_OF_MEMORY"
    ELSE IF \/ ~source.reads \/ ~Finite(source.texel)
            \/ ~Reserved(SnapshotBytes(source, size) + StagingBytes(source, size))
         THEN "INVALID_OPERATION"
    ELSE "NO_ERROR"
CopiedFrom(source, format) == CopiedTexel(format, Snapshot(source.format, source.texel))

\* The format of a copied image follows the target that was read.
CopyFormat(internal, source) ==
    LET base == IF internal \in DOMAIN SrgbStorage THEN SrgbStorage[internal] ELSE internal
    IN Format(base, IF internal \in DOMAIN SrgbStorage THEN "FLOAT"
                    ELSE IF base \in Packed THEN PackedType(base)
                    ELSE IF FloatSnapshot(source.format) THEN "FLOAT" ELSE "UBYTE",
              internal \in DOMAIN SrgbStorage, None)

CopyOuterError(target, level, internal, size, source) ==
    IF internal \notin ColorFormats \cup DOMAIN SrgbStorage THEN "INVALID_ENUM"
    ELSE IF level \notin Levels \/ Before(source) \/ ~SizeValid(size) \/ Area(size) = 0
         THEN "INVALID_VALUE"
    ELSE IF Owner(target) = None THEN "INVALID_OPERATION"
    ELSE IF IsFace(target) /\ level = 0 /\ size[1] # size[2] THEN "INVALID_VALUE"
    ELSE IF SourceError(source, size) # "NO_ERROR" THEN SourceError(source, size)
    ELSE IF IsFace(target) /\ ~CubeBaseCompatible(texture[Owner(target)], target, size,
                                                   CopyFormat(internal, source))
         THEN "INVALID_OPERATION"
    ELSE "NO_ERROR"

\* A level other than the base keeps the type of the base, whatever the source has.
CopyStored(face, level, format) == IF level = 0 THEN format ELSE face.format
Packable(f) == IsPacked(f) => f.type = PackedType(f.base)
CopyLevelError(face, level, size, format) ==
    IF level = 0 THEN "NO_ERROR"
    ELSE IF \/ ~Stored(face, 0) \/ face.format.base # format.base
            \/ face.format.srgb # format.srgb \/ face.format.compressed # None
            \/ ~Packable(face.format)
         THEN "INVALID_OPERATION"
    ELSE IF level \notin Chain(face) \/ size # LevelSize(BaseSize(face), level)
         THEN "INVALID_VALUE"
    ELSE "NO_ERROR"
CopyInnerError(target, level, size, format, source) ==
    LET face == FaceUnder(target)
    IN IF CopyLevelError(face, level, size, format) # "NO_ERROR"
       THEN CopyLevelError(face, level, size, format)
       ELSE IF ReadError(source, size) # "NO_ERROR" THEN ReadError(source, size)
       ELSE IF ~Reserved(SnapshotBytes(source, size)
                         + Area(size) * StorageTexelBytes(CopyStored(face, level, format)))
            THEN "OUT_OF_MEMORY"
       ELSE "NO_ERROR"

\* glCopyTexImage2D
CopyTexImage(target, level, internal, size, source) ==
    LET outer == CopyOuterError(target, level, internal, size, source)
        format == CopyFormat(internal, source)
        inner == IF outer # "NO_ERROR" THEN outer
                 ELSE CopyInnerError(target, level, size, format, source)
        stored == CopyStored(FaceUnder(target), level, format)
    IN /\ Counted
       /\ Checked(target, outer, inner,
            Replace(target, WithLevel(FaceUnder(target), level, size, stored,
                                      CopiedFrom(source, stored))))

CopySubError(target, level, region, source) ==
    LET face == FaceUnder(target)
    IN IF ~Stored(face, 0) \/ ~IsColor(face.format) \/ face.format.compressed # None
          \/ ~Stored(face, level)
       THEN "INVALID_OPERATION"
       ELSE IF ~Inside(region, face.levels[level].size) THEN "INVALID_VALUE"
       ELSE IF SourceError(source, region.size) # "NO_ERROR" THEN SourceError(source, region.size)
       ELSE IF Area(region.size) = 0 THEN "NO_ERROR"
       ELSE IF ReadError(source, region.size) # "NO_ERROR" THEN ReadError(source, region.size)
       ELSE IF ~Packable(face.format) THEN "INVALID_OPERATION"
       ELSE "NO_ERROR"

\* glCopyTexSubImage2D
CopyTexSubImage(target, level, region, source) ==
    LET face == FaceUnder(target)
        outer == IF level \notin Levels \/ Negative(region) \/ Before(source)
                 THEN "INVALID_VALUE" ELSE CubeUpdateError(target)
        inner == IF outer # "NO_ERROR" THEN outer
                 ELSE CopySubError(target, level, region, source)
    IN /\ Counted /\ (level \in Levels => Told(region, face.levels[level].size))
       /\ Checked(target, outer, inner,
            Written(target, level, region, CopiedFrom(source, face.format)))

-----------------------------------------------------------------------------
(***************************************************************************)
(* Compressed images are decoded to temporary storage and take the path of *)
(* ordinary ones, UNPACK_ALIGNMENT included.                               *)
(***************************************************************************)
DecodePeak(c, size) ==
    Area(size) * (CASE c = "ETC1" -> 3
                    [] CompressedSrgb(c) -> 5 * Components[CompressedBase(c)]
                    [] OTHER -> IF CompressedBase(c) = "RGB" THEN 7 ELSE 4)
DecodeError(c, size, given, block) ==
    IF given # BlockSpan(c, size[1], size[2]) THEN "INVALID_VALUE"
    ELSE IF Area(size) = 0 THEN "NO_ERROR"
    ELSE IF ~Reserved(DecodePeak(c, size)) THEN "OUT_OF_MEMORY"
    ELSE IF c = "ETC1" /\ ~block.valid THEN "INVALID_VALUE"
    ELSE "NO_ERROR"
Decoded(c, size) == IF Area(size) = 0 THEN None ELSE DecodedBytes(c, size[1], size[2])

\* glCompressedTexImage2D
CompressedTexImage(target, level, c, size, given, block) ==
    LET format == DecodedFormat(c)
        held == DecodedBytes(c, size[1], size[2])
        outer == IF level \notin Levels \/ ~SizeValid(size) THEN "INVALID_VALUE"
                 ELSE CubeImageError(target, level, size,
                        Format(CompressedBase(c), DecodedType(c), CompressedSrgb(c), c))
        inner == IF outer # "NO_ERROR" THEN outer
                 ELSE IF DecodeError(c, size, given, block) # "NO_ERROR"
                 THEN DecodeError(c, size, given, block)
                 ELSE ImageError(target, level, size, format, Decoded(c, size),
                        RequiredSourceBytes(size[1], size[2], format.base, format.type), held)
    IN /\ Counted
       /\ Checked(target, outer, inner,
            Replace(target, WithLevel(FaceUnder(target), level, size, format,
                                      DecodedTexel(c, block))))

\* Whole blocks, except at the edge of the level.
BlockAligned(region, size) ==
    \A i \in 1..2 : /\ region.offset[i] % 4 = 0
                    /\ region.size[i] % 4 = 0 \/ region.offset[i] + region.size[i] = size[i]

CompressedSubError(target, level, region, c, given, block) ==
    LET face == FaceUnder(target)
        format == DecodedFormat(c)
    IN IF ~Stored(face, 0) \/ face.format # format \/ ~Stored(face, level)
       THEN "INVALID_OPERATION"
       ELSE IF ~Inside(region, face.levels[level].size) THEN "INVALID_VALUE"
       ELSE IF ~BlockAligned(region, face.levels[level].size) THEN "INVALID_OPERATION"
       ELSE IF DecodeError(c, region.size, given, block) # "NO_ERROR"
            THEN DecodeError(c, region.size, given, block)
       ELSE SubImageError(target, level, region, format.base, format.type, c,
                          Decoded(c, region.size))

\* glCompressedTexSubImage2D
CompressedTexSubImage(target, level, region, c, given, block) ==
    LET face == FaceUnder(target)
        outer == IF level \notin Levels \/ Negative(region) THEN "INVALID_VALUE"
                 ELSE CubeUpdateError(target)
        inner == IF outer # "NO_ERROR" THEN outer
                 ELSE CompressedSubError(target, level, region, c, given, block)
    IN /\ Counted /\ (level \in Levels => Told(region, face.levels[level].size))
       /\ Checked(target, outer, inner, Written(target, level, region, DecodedTexel(c, block)))

-----------------------------------------------------------------------------
(***************************************************************************)
(* glGenerateMipmap: every level is reduced from the one above it.         *)
(***************************************************************************)
Corner(f, size, texel, rest) ==
    IF size[1] > 1 /\ size[2] > 1 THEN Reduced(f, texel, rest, rest, rest)
    ELSE Reduced(f, texel, rest, texel, rest)

\* What the levels below the base hold, in order.
Reductions(f, base) ==
    LET chain[l \in Levels] ==
            IF l = 0 THEN [texel |-> base.texel, rest |-> base.rest]
            ELSE LET above == chain[l - 1]
                     size == IF l = 1 THEN base.size ELSE LevelSize(base.size, l - 1)
                     texel == Corner(f, size, above.texel, above.rest)
                 IN [texel |-> texel,
                     rest |-> IF LevelSize(base.size, l) = <<1, 1>> THEN texel
                              ELSE Reduced(f, above.rest, above.rest, above.rest, above.rest)]
    IN chain
GeneratedLevel(face, l) ==
    LET reduced == Reductions(face.format, face.levels[0])[l]
    IN [size |-> LevelSize(BaseSize(face), l), texel |-> reduced.texel, rest |-> reduced.rest,
        generated |-> TRUE]

WithGenerated(face) ==
    [face EXCEPT !.levels = [l \in Levels |-> IF l = 0 THEN face.levels[0]
                                              ELSE IF l \in Chain(face) THEN GeneratedLevel(face, l)
                                              ELSE NoLevel]]
GeneratedBytes(face) ==
    Total([n \in 1..MaxLevels |->
             IF n - 1 \in Chain(face) \ {0}
             THEN Area(LevelSize(BaseSize(face), n - 1)) * StorageTexelBytes(face.format) ELSE 0],
          MaxLevels)

Reducible(f) == IsColor(f) /\ f.compressed = None /\ ~f.srgb
\* Of a 2D texture and of a cube map.
MipmapAllowed(x) ==
    LET face == x.faces[First]
    IN IF x.target = "CUBE"
       THEN /\ CubeBaseImagesComplete(x) /\ Reducible(Summary(x).format)
            /\ PowerOfTwo(BaseSize(face)[1]) /\ "array" \in callbacks
       ELSE /\ Stored(face, 0) /\ Reducible(face.format) /\ ~IsNpot(BaseSize(face))
            /\ LevelCount(BaseSize(face)) > 1 => "mip" \in callbacks
MipmapError(binding, bytes) ==
    IF BoundTo(binding) = None THEN "INVALID_OPERATION"
    ELSE IF ~MipmapAllowed(texture[BoundTo(binding)]) THEN "INVALID_OPERATION"
    ELSE IF ~Reserved(bytes) THEN "OUT_OF_MEMORY" ELSE "NO_ERROR"

GenerateMipmap(binding) ==
    LET t == BoundTo(binding)
        faces == IF binding = "CUBE" THEN Faces ELSE {First}
        bytes == OfFaces([f \in Faces |-> IF f \in faces THEN GeneratedBytes(texture[t].faces[f])
                                          ELSE 0])
        new == [texture[t] EXCEPT !.image = NoImage, !.faces =
                  [f \in Faces |-> IF f \in faces THEN WithGenerated(@[f]) ELSE @[f]]]
    IN /\ Counted
       /\ \/ MipmapError(binding, bytes) # "NO_ERROR" /\ Refused(MipmapError(binding, bytes))
          \/ /\ MipmapError(binding, bytes) = "NO_ERROR" /\ Succeeded
             /\ texture' = [texture EXCEPT ![t] = new]
             /\ charged' = charged - ShadowBytes(texture[t]) + ShadowBytes(new)
             /\ dirty' = TRUE
             /\ UNCHANGED <<units, active, gates, callbacks>>

-----------------------------------------------------------------------------
(***************************************************************************)
(* Parameters: the sampler is built again when one has changed.            *)
(***************************************************************************)
ParameterValues == [min |-> MinFilters, mag |-> MagFilters, wrapS |-> Wraps, wrapT |-> Wraps]

WithParameter(x, name, value) == [x EXCEPT !.parameters[name] = value, !.sampler = None]

ParameterError(binding, name, value) ==
    IF name = "anisotropy"
    THEN IF "anisotropic" \notin gates THEN "INVALID_ENUM"
         ELSE IF BoundTo(binding) = None THEN "INVALID_OPERATION"
         ELSE IF value = NotFinite \/ value < 1 THEN "INVALID_VALUE" ELSE "NO_ERROR"
    ELSE IF BoundTo(binding) = None THEN "INVALID_OPERATION"
    ELSE IF name \notin DOMAIN ParameterValues THEN "INVALID_ENUM"
    ELSE IF value \notin ParameterValues[name] THEN "INVALID_ENUM" ELSE "NO_ERROR"
ParameterStored(name, value) ==
    IF name = "anisotropy" /\ value > MaxAnisotropy THEN MaxAnisotropy ELSE value

\* glTexParameteri and glTexParameterf
TexParameter(binding, name, value) ==
    LET t == BoundTo(binding)
        new == ParameterStored(name, value)
    IN /\ Counted
       /\ \/ ParameterError(binding, name, value) # "NO_ERROR"
             /\ Refused(ParameterError(binding, name, value))
          \/ /\ ParameterError(binding, name, value) = "NO_ERROR" /\ Succeeded
             /\ \/ texture[t].parameters[name] = new /\ UNCHANGED <<texture, dirty>>
                \/ /\ texture[t].parameters[name] # new
                   /\ texture' = [texture EXCEPT ![t] = WithParameter(@, name, new)]
                   /\ dirty' = TRUE
             /\ UNCHANGED <<units, active, charged, gates, callbacks>>

\* ringl_enable_webgl_float_texture_linear and its siblings.
EnableGate(gate) ==
    /\ Counted /\ gates' = gates \cup {gate} /\ Succeeded
    /\ UNCHANGED <<texture, units, active, charged, callbacks, dirty>>

-----------------------------------------------------------------------------
(***************************************************************************)
(* Names and bindings.                                                     *)
(***************************************************************************)
GenTextures(t) ==
    /\ Counted
    /\ \/ texture[t].name = "free" /\ Succeeded
          /\ texture' = [texture EXCEPT ![t].name = "reserved"]
          /\ UNCHANGED <<units, active, charged, gates, callbacks, dirty>>
       \/ (\A u \in Textures : texture[u].name # "free") /\ Refused("OUT_OF_MEMORY")

\* The first binding of a name makes the object and fixes its target.
Promoted(x, binding) ==
    [x EXCEPT !.name = "live", !.target = binding,
              !.parameters = IF x.name = "reserved" THEN Defaults ELSE @]
BindTexture(binding, t) ==
    LET refused == t # None /\ (\/ texture[t].name = "free"
                                \/ texture[t].name = "live" /\ texture[t].target # binding)
    IN /\ Counted
       /\ \/ refused /\ Refused("INVALID_OPERATION")
          \/ /\ ~refused /\ Succeeded
             /\ texture' = IF t = None THEN texture
                           ELSE [texture EXCEPT ![t] = Promoted(@, binding)]
             /\ units' = IF binding = "CUBE" THEN [units EXCEPT ![active].cube = t]
                         ELSE [units EXCEPT ![active].flat = t]
             /\ dirty' = (dirty \/ BoundTo(binding) # t)
             /\ UNCHANGED <<active, charged, gates, callbacks>>

ActiveTexture(unit) ==
    /\ active' = unit /\ sampled' = NothingSampled /\ Succeeded
    /\ UNCHANGED <<texture, units, charged, gates, callbacks, dirty, calls>>

\* Only the storage of the object itself is released, which for a cube map is none.
ReleasedBytes(x) == IF x.target = "CUBE" THEN 0 ELSE FaceBytes(x.faces[First])

Without(us, t) ==
    [u \in Units |-> [flat |-> IF us[u].flat = t THEN None ELSE us[u].flat,
                      cube |-> IF us[u].cube = t THEN None ELSE us[u].cube]]
DeleteTexture(t) ==
    /\ Counted /\ texture[t].name # "free" /\ Succeeded
    /\ units' = Without(units, t)
    /\ charged' = charged - ReleasedBytes(texture[t])
    /\ texture' = [texture EXCEPT ![t] = NoTexture]
    /\ dirty' = TRUE
    /\ UNCHANGED <<active, gates, callbacks>>

-----------------------------------------------------------------------------
(***************************************************************************)
(* What draws need: the image and sampler of a unit, and color targets.    *)
(* The device may fail to make either.                                     *)
(***************************************************************************)
Sampleable(x) ==
    IF x.target = "CUBE" THEN CubeLevel0Complete(x) /\ IsColor(Summary(x).format)
    ELSE Level0Complete(x)

\* The unit's 2D texture is looked at before its cube map.
RealizedName(unit) == IF units[unit].flat # None THEN units[unit].flat ELSE units[unit].cube

WithSampler(x) == IF x.sampler # None THEN x ELSE [x EXCEPT !.sampler = Sampler(x.parameters)]
\* `made`: image and sampler that the device can still make.
Sampling(x, made) == IF x.image = NoImage \/ "sampler" \notin made THEN x ELSE WithSampler(x)
Realized(x, made) ==
    Sampling([x EXCEPT !.image = IF x.image = NoImage /\ "image" \notin made THEN NoImage
                                 ELSE RealizedImage(x)], made)

SampledAs(t, binding, new) ==
    /\ texture' = [texture EXCEPT ![t] = new]
    /\ \/ /\ new.image = NoImage \/ new.sampler = None
          /\ error' = "INVALID_OPERATION" /\ sampled' = NothingSampled
          /\ UNCHANGED dirty
       \/ /\ new.image # NoImage /\ new.sampler # None
          /\ sampled' = [binding |-> binding, texture |-> t, image |-> new.image,
                         sampler |-> new.sampler]
          /\ dirty' = FALSE /\ Succeeded

Sample(unit, binding, made) ==
    LET bound == IF binding = "CUBE" THEN units[unit].cube ELSE units[unit].flat
        t == RealizedName(unit)
        ready == bound # None /\ Sampleable(texture[t])
    IN /\ calls < Calls /\ calls' = calls + 1
       /\ UNCHANGED <<units, active, charged, gates, callbacks>>
       /\ \/ /\ ~ready
             /\ error' = "INVALID_OPERATION" /\ sampled' = NothingSampled
             /\ UNCHANGED <<texture, dirty>>
          \/ ready /\ SampledAs(t, binding, Realized(texture[t], made))

\* ringl_texture_require_color_target
Required(x) == IF x.renderable THEN x ELSE [x EXCEPT !.renderable = TRUE, !.image = NoImage]
\* A draw into an attached level changes the image and not the shadow.
Drawn(x, face, level) ==
    LET required == Required(x)
        image == IF Stored(x.faces[face], level) THEN RealizedImage(required) ELSE NoImage
    IN IF image = NoImage THEN required
       ELSE [required EXCEPT !.image = [image EXCEPT !.drawn = @ \cup {<<face, level>>}]]
RenderTo(t, face, level) ==
    /\ Counted /\ texture[t].name = "live" /\ Succeeded
    /\ texture[t].target = "2D" => face = First
    /\ texture' = [texture EXCEPT ![t] = Drawn(@, face, level)]
    /\ dirty' = (dirty \/ ~texture[t].renderable)
    /\ UNCHANGED <<units, active, charged, gates, callbacks>>

-----------------------------------------------------------------------------
(***************************************************************************)
(* Any calls in any order, with any arguments a caller can give.           *)
(***************************************************************************)
NothingStored ==
    /\ texture = [t \in Textures |-> NoTexture]
    /\ units = [u \in Units |-> NoUnit]
    /\ active \in Units
    /\ charged = 0 /\ gates = {}
    /\ dirty = TRUE /\ sampled = NothingSampled /\ calls = 0 /\ error = "NO_ERROR"
TexturesInit == NothingStored /\ callbacks \in SUBSET {"mip", "array"}

Bytes == 0..One
AnyTexel(type) ==
    CASE type \in {"FLOAT", "HALF"} -> [1..4 -> Int \cup {NotFinite}]
      [] type = "UBYTE" -> [1..4 -> Bytes]
      [] OTHER -> [1..4 -> Nat]
AnyFormat ==
    [base : ColorFormats \cup DepthFormats \cup {None}, srgb : BOOLEAN,
     type : {"UBYTE", "HALF", "FLOAT", "5_6_5", "4_4_4_4", "5_5_5_1", None},
     compressed : Compressed \cup {None}]
AnySource ==
    [code : {"NO_ERROR", "INVALID_OPERATION", "INVALID_FRAMEBUFFER_OPERATION"}, size : Nat \X Nat,
     at : Int \X Int, format : AnyFormat, texel : [1..4 -> Int \cup {NotFinite}], reads : BOOLEAN]
AnyRegion == [offset : Int \X Int, size : Int \X Int]
AnyBlock ==
    [first : [1..3 -> Bytes], second : [1..3 -> Bytes], selector : 0..3, modifier : Int,
     alpha : Bytes, ordered : BOOLEAN, valid : BOOLEAN]
AnyCount == Nat \cup {None}

DefineImage ==
    \E target \in Targets, level \in Int, size \in Int \X Int, given \in AnyCount :
        \/ \E request \in STRING \X STRING \X STRING : \E pixel \in AnyTexel(request[3]) :
              TexImage(target, level, size, request, given, pixel)
        \/ \E internal \in STRING, source \in AnySource :
              CopyTexImage(target, level, internal, size, source)
        \/ \E c \in Compressed, block \in AnyBlock :
              CompressedTexImage(target, level, c, size, given, block)
UpdateImage ==
    \E target \in Targets, level \in Int, region \in AnyRegion, given \in AnyCount :
        \/ \E format, type \in STRING : \E pixel \in AnyTexel(type) :
              TexSubImage(target, level, region, format, type, given, pixel)
        \/ \E source \in AnySource : CopyTexSubImage(target, level, region, source)
        \/ \E c \in Compressed, block \in AnyBlock :
              CompressedTexSubImage(target, level, region, c, given, block)
ChangeBinding ==
    \/ \E t \in Textures : GenTextures(t)
    \/ \E t \in Textures \cup {None}, binding \in Bindings : BindTexture(binding, t)
    \/ \E unit \in Units : ActiveTexture(unit)
SampleUnit ==
    \E unit \in Units, binding \in Bindings, made \in SUBSET {"image", "sampler"} :
        Sample(unit, binding, made)

\* The calls that no framebuffer takes part in.
TextureCall ==
    \/ DefineImage \/ UpdateImage \/ ChangeBinding \/ SampleUnit
    \/ \E binding \in Bindings : GenerateMipmap(binding)
    \/ \E binding \in Bindings, name \in STRING, value \in STRING \cup Int \cup {NotFinite} :
          TexParameter(binding, name, value)
    \/ \E gate \in STRING : EnableGate(gate)
TexturesNext ==
    \/ TextureCall \/ \E t \in Textures : DeleteTexture(t)
    \/ \E t \in Textures, face \in Faces, level \in Levels : RenderTo(t, face, level)
TexturesSpec == TexturesInit /\ [][TexturesNext]_textureVars

-----------------------------------------------------------------------------
(***************************************************************************)
(* Properties.                                                             *)
(***************************************************************************)
\* Rebuilding an image and a sampler now would give the ones there are: no call that
\* changes a shadow, its chain, a parameter or the use of a texture leaves them behind.
ObjectsCurrent ==
    \A t \in Textures :
        LET x == texture[t]
            rebuilt == RealizedImage([x EXCEPT !.image = NoImage])
        IN /\ x.image # NoImage /\ rebuilt # NoImage => [x.image EXCEPT !.drawn = {}] = rebuilt
           /\ x.sampler # None => x.sampler = Sampler(x.parameters)

\* The levels of every face halve from its base, and the defined faces of a cube map
\* have one size and one format, whichever calls defined them.
FacesConsistent ==
    \A t \in Textures :
        LET x == texture[t]
        IN \A f \in Faces :
              /\ \A l \in Levels \ {0} : Stored(x.faces[f], l) =>
                    Sized(x.faces[f], l) /\ l \in Chain(x.faces[f])
              /\ \A g \in Faces : x.faces[f].defined /\ x.faces[g].defined =>
                    Agree(x.faces[f], x.faces[g])

\* A level that counts as generated is what reducing the present base gives.
GeneratedCurrent ==
    \A t \in Textures, f \in Faces :
        LET face == texture[t].faces[f]
        IN \A l \in Levels : face.levels[l].generated =>
              l # 0 /\ face.levels[l] = GeneratedLevel(face, l)

\* Every stored texel has the components its format implies, in the range its storage
\* holds, however it came there: RGB and LUMINANCE have alpha one, ALPHA has no color.
ImpliedComponents(f, texel) ==
    /\ f.base \in {"RGB", "LUMINANCE"} => texel[4] = One
    /\ f.base = "ALPHA" => texel[1] = 0 /\ texel[2] = 0 /\ texel[3] = 0
    /\ f.base \in {"LUMINANCE", "LUMINANCE_ALPHA"} => texel[1] = texel[2] /\ texel[2] = texel[3]
Representable(f, texel) ==
    \A c \in 1..4 :
        /\ IsPacked(f) => texel[c] \in 0..Fields[f.base][c]
        /\ f.type = "UBYTE" \/ f.srgb => IsPacked(f) \/ texel[c] \in 0..One
        /\ f.type = "HALF" => texel[c] \in -HalfLimit..HalfLimit
TexelsImplied ==
    \A t \in Textures, f \in Faces :
        LET face == texture[t].faces[f]
        IN \A l \in Levels : Stored(face, l) /\ IsColor(face.format) =>
              \A texel \in {face.levels[l].texel, face.levels[l].rest} :
                  ImpliedComponents(face.format, texel) /\ Representable(face.format, texel)

\* The bytes charged cover the shadows of all textures, and never exceed the budget.
AllShadowBytes == Total([t \in Textures |-> ShadowBytes(texture[t])], TextureCount)
ChargeCovers == AllShadowBytes <= charged /\ charged <= Budget

\* The CPU shadows of all textures: whole chains, generated levels, their account.
ShadowsConsistent == FacesConsistent /\ GeneratedCurrent /\ ChargeCovers

\* README: deletion releases the exact owned byte count.
ChargeReturned == charged <= AllShadowBytes

\* A draw whose unit has a texture of the kind its sampler takes samples an image whose
\* every level that the sampler reads, on every face, holds what was last stored there,
\* unless it has been drawn to.
SamplesWhole ==
    sampled # NothingSampled =>
        LET x == texture[sampled.texture]
            faces == IF x.target = "CUBE" THEN Faces ELSE {First}
            size == sampled.image.size
            last == IF sampled.sampler.mip = "NONE" THEN 0 ELSE LevelCount(size) - 1
        IN x.target = sampled.binding =>
             \A f \in faces : BaseSize(x.faces[f]) = size /\ \A l \in 0..last :
                  /\ l < sampled.image.levels /\ Sized(x.faces[f], l)
                  /\ sampled.image.texels[f][l] = x.faces[f].levels[l].texel

\* Bindings that name the image of a 2D texture which no longer exists are built again
\* by the next draw: whatever drops the image marks them.
DropMarked ==
    \A t \in Textures : texture[t].target = "2D" /\ texture[t].image # NoImage
                           /\ texture'[t].image = NoImage => dirty'

=============================================================================
