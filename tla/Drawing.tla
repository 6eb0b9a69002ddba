------------------------------- MODULE Drawing -------------------------------
(***************************************************************************)
(* What a draw or a clear tells the device: how the fixed-function state   *)
(* and the target become a pipeline, a raster state and a render pass      *)
(* (src/src/translate/pipeline_cache.c, draw.c), with the default          *)
(* framebuffer of src/src/context/framebuffer.c.                           *)
(*                                                                         *)
(* One color attachment at mip level 0, one vertex buffer, a program       *)
(* without varyings.  Allocation and the device may fail at any call.      *)
(***************************************************************************)
EXTENDS FixedState, Sequences

CONSTANTS
    Surfaces,      \* descriptors the embedding gives for the default framebuffer
    UserTargets,   \* complete framebuffer objects, by what they resolve to
    Devices,       \* sets of the callbacks a device may leave out
    Modes,         \* primitive modes
    Masks,         \* sets of planes given to a clear
    Programs,      \* the stores of fragment shaders: <<component, source>>
    None

VARIABLES
    surface,       \* default_framebuffer, or None
    drawBack,      \* default_draw_buffer is BACK
    bound,         \* the framebuffer object that is bound, or None
    callbacks,     \* the optional callbacks of the device
    stores,        \* stores of the current program's fragment shader
    command        \* what the last call submitted, or None

drawingVars == <<fixedVars, surface, drawBack, bound, callbacks, stores, command>>

Optional == {"native", "native_v2", "raster", "raster_v2", "depth", "depth_stencil"}
Logical == {"RGBA", "RGB", "ALPHA", "LUMINANCE", "LUMINANCE_ALPHA"}
DepthFormats == {"D32", "D32S8", "S8"}
Floats == {"RGBA16F", "RGBA32F"}
Aspects == {"DEPTH", "STENCIL", "EXPLICIT_ASPECTS"}

(* What a surface and a framebuffer object may be, and what None is not.    *)
ASSUME TargetsAssumption ==
    /\ Devices \subseteq SUBSET Optional /\ Programs \subseteq Seq(Channels \X STRING)
    /\ Surfaces \subseteq [format : STRING, flags : SUBSET (Aspects \cup {"ALPHA", "EXPLICIT_ALPHA"}),
                           depthFormat : DepthFormats \cup {None}, width : Int, height : Int]
    /\ UserTargets \subseteq [format : STRING, logical : Logical, depth : DepthFormats \cup {None},
                              stencil : DepthFormats \cup {None}, combined : BOOLEAN,
                              writes : BOOLEAN, width : 1 .. MaxSize, height : 1 .. MaxSize]

ASSUME NoneAssumption ==
    /\ None \notin Comparisons \cup Faces \cup {"FRONT_AND_BACK"} \cup DepthFormats
    /\ None \notin Int /\ None \notin Surfaces /\ None \notin UserTargets
    /\ None \notin Color /\ None \notin [1 .. 4 -> Int] /\ None \notin Int \X Int
    /\ None \notin [1 .. 4 -> SourceFactors] \X [1 .. 2 -> AllEquations]
    /\ None \notin StencilStates
    /\ None \notin [viewport : [1 .. 4 -> Int], depthRange : [1 .. 2 -> Int],
                     offset : BOOLEAN \X Int \X Int, lineWidth : Int,
                     coverage : BOOLEAN \X Int \X BOOLEAN,
                     scissor : [1 .. 4 -> Int] \cup {None}, dither : BOOLEAN]

-----------------------------------------------------------------------------
(***************************************************************************)
(* The target of draws and clears.                                         *)
(***************************************************************************)
ValidSurface(s) ==
    /\ s.width \in 1 .. MaxSize /\ s.height \in 1 .. MaxSize
    /\ s.depthFormat \in {None, "D32", "D32S8"}
    /\ "STENCIL" \in s.flags => s.depthFormat = "D32S8"
    /\ "ALPHA" \in s.flags => "EXPLICIT_ALPHA" \in s.flags
    /\ s.depthFormat = None => s.flags \cap Aspects = {}

\* The browser shows an RGB framebuffer but the image has an alpha channel.
AlphaHidden(s) == "EXPLICIT_ALPHA" \in s.flags /\ "ALPHA" \notin s.flags

\* Fault: the aspect flags of the descriptor are ignored.
DefaultTargetWithoutAspects(s, writes) ==
    [format |-> s.format, logical |-> IF AlphaHidden(s) THEN "RGB" ELSE "RGBA",
     depth |-> s.depthFormat, stencil |-> IF s.depthFormat = "D32S8" THEN "D32S8" ELSE None,
     combined |-> TRUE, writes |-> writes, width |-> s.width, height |-> s.height]

DefaultTarget(s, writes) ==
    [format |-> s.format, logical |-> IF AlphaHidden(s) THEN "RGB" ELSE "RGBA",
     depth |-> IF s.flags = {} \/ "DEPTH" \in s.flags THEN s.depthFormat ELSE None,
     stencil |-> IF (s.flags = {} /\ s.depthFormat = "D32S8") \/ "STENCIL" \in s.flags
                 THEN s.depthFormat ELSE None,
     combined |-> TRUE, writes |-> writes, width |-> s.width, height |-> s.height]

HasTarget == bound # None \/ surface # None
Target == IF bound # None THEN bound ELSE DefaultTarget(surface, drawBack)

\* Fault: a luminance is written only where the mask names its lane.
LogicalMaskByLane(logical, requested) ==
    IF logical \in {"RGB", "LUMINANCE"} THEN requested \ {"A"}
    ELSE IF logical = "ALPHA" THEN requested \cap {"A"} ELSE requested

\* The physical channels that a write may touch.
LogicalMask(logical, requested) ==
    LET rgb == requested \cap {"R", "G", "B"}
        all == IF rgb = {} THEN {} ELSE {"R", "G", "B"}
    IN  CASE logical = "RGB" -> rgb
          [] logical = "ALPHA" -> requested \cap {"A"}
          [] logical = "LUMINANCE" -> all
          [] logical = "LUMINANCE_ALPHA" -> all \cup (requested \cap {"A"})
          [] OTHER -> requested

EffectiveMask(f, t) == IF t.writes THEN LogicalMask(t.logical, f.colorMask) ELSE {}

\* Fault: the corner is cut but the size kept.
ClippedCornerOnly(box, t) ==
    LET x0 == Within(box[1], 0, t.width)
        y0 == Within(box[2], 0, t.height)
    IN  <<x0, y0, Within(box[3], 0, t.width), Within(box[4], 0, t.height)>>

\* The scissor box cut to the target, as <<x, y, width, height>>.
Clipped(box, t) ==
    LET x0 == Within(box[1], 0, t.width)
        y0 == Within(box[2], 0, t.height)
        x1 == Within(box[1] + box[3], 0, t.width)
        y1 == Within(box[2] + box[4], 0, t.height)
    IN  <<x0, y0, IF x1 < x0 THEN 0 ELSE x1 - x0, IF y1 < y0 THEN 0 ELSE y1 - y0>>

-----------------------------------------------------------------------------
(***************************************************************************)
(* The pipeline of a draw.                                                 *)
(***************************************************************************)
DepthTested == "DEPTH_TEST" \in enabled /\ Target.depth # None
StencilTested == "STENCIL_TEST" \in enabled /\ Target.stencil # None
Separate == Target.depth # None /\ Target.stencil # None /\ ~Target.combined

PipelineDepthFormat ==
    IF ~DepthTested /\ ~StencilTested THEN None
    ELSE IF Target.depth = None THEN Target.stencil
    ELSE IF Target.stencil = None THEN Target.depth ELSE "D32S8"

\* A constant of an integer target is clamped; a luminance target has one color.
Constants(logical, format) ==
    LET c == fixed.blendColor
        red == logical \in {"LUMINANCE", "LUMINANCE_ALPHA"}
        chosen == <<c[1], IF red THEN c[1] ELSE c[2], IF red THEN c[1] ELSE c[3], c[4]>>
    IN  IF format \in Floats THEN chosen ELSE [i \in 1 .. 4 |-> Unit(chosen[i])]

Key(mode) ==
    LET f == PipelineDepthFormat
        front == fixed.stencil["FRONT"]
        back == fixed.stencil["BACK"]
    IN  [topology |-> mode, format |-> Target.format, depthFormat |-> f,
         depthCompare |-> IF DepthTested THEN fixed.depthFunc
                          ELSE IF StencilTested /\ f # "S8" THEN "ALWAYS" ELSE None,
         depthWrite |-> DepthTested /\ fixed.depthMask,
         stencil |-> IF StencilTested THEN front ELSE None,
         back |-> IF StencilTested /\ back # front THEN back ELSE None,
         blend |-> IF "BLEND" \in enabled THEN <<fixed.blendFunc, fixed.blendEquation>> ELSE None,
         constants |-> Constants(Target.logical, Target.format),
         mask |-> EffectiveMask(fixed, Target),
         cull |-> IF "CULL_FACE" \in enabled THEN fixed.cullMode ELSE None,
         front |-> fixed.frontFace]

ConstantFactors == {"CONSTANT_COLOR", "ONE_MINUS_CONSTANT_COLOR", "CONSTANT_ALPHA",
                    "ONE_MINUS_CONSTANT_ALPHA"}
UsesConstant(key) ==
    key.blend # None /\ \E i \in 1 .. 4 : key.blend[1][i] \in ConstantFactors

\* Whether the program's stores can be rewritten so that RGB all get the red one.
Rewritable == /\ \A i, j \in 1 .. Len(stores) :
                     stores[i][1] = "R" /\ stores[j][1] = "R" => i = j
              /\ \A i \in 1 .. Len(stores) : stores[i][1] \in {"G", "B"} =>
                     \E j \in 1 .. Len(stores) : stores[j][1] = "R"
Replicated ==
    LET red == stores[CHOOSE i \in 1 .. Len(stores) : stores[i][1] = "R"][2]
    IN  [i \in 1 .. Len(stores) |->
            IF stores[i][1] \in {"G", "B"} THEN <<stores[i][1], red>> ELSE stores[i]]

Luminant == Target.logical \in {"LUMINANCE", "LUMINANCE_ALPHA"}
Outputs == IF Luminant THEN Replicated ELSE stores

\* create_pipeline: which descriptor goes to the device, if one does.
NativeDescriptor(key) ==
    [key EXCEPT !.constants = IF UsesConstant(key) THEN key.constants ELSE None]
\* Fault: constants are looked for in the first form of the callback only.
CreatableWithoutV2(key) ==
    /\ Luminant => Rewritable
    /\ IF ~UsesConstant(key) /\ "native" \in callbacks
       THEN key.cull # "FRONT_AND_BACK" /\ ~(key.mask = {} /\ key.depthFormat = None)
       ELSE /\ key.depthFormat = None /\ key.stencil = None /\ key.blend = None
            /\ key.cull = None /\ key.front = "CCW" /\ key.mask = Channels
Creatable(key) ==
    /\ Luminant => Rewritable
    /\ IF (UsesConstant(key) /\ "native_v2" \in callbacks)
          \/ (~UsesConstant(key) /\ "native" \in callbacks)
       THEN key.cull # "FRONT_AND_BACK" /\ ~(key.mask = {} /\ key.depthFormat = None)
       ELSE /\ key.depthFormat = None /\ key.stencil = None /\ key.blend = None
            /\ key.cull = None /\ key.front = "CCW" /\ key.mask = Channels

-----------------------------------------------------------------------------
(***************************************************************************)
(* Draws.                                                                  *)
(***************************************************************************)
RasterCallback == {"raster", "raster_v2"} \cap callbacks # {}

\* Decided before any target is looked up.
DrawIsNoop ==
    LET untested == {"DEPTH_TEST", "STENCIL_TEST"} \cap enabled = {}
        mask == IF HasTarget THEN EffectiveMask(fixed, Target)
                ELSE IF drawBack THEN fixed.colorMask ELSE {}
    IN  \/ mask = {} /\ untested
        \/ "CULL_FACE" \in enabled /\ fixed.cullMode = "FRONT_AND_BACK" /\ untested
        \/ fixed.sized /\ (fixed.viewport[3] = 0 \/ fixed.viewport[4] = 0)

PassSupported ==
    DepthTested \/ StencilTested =>
        /\ "native" \in callbacks
        /\ IF DepthTested /\ StencilTested /\ ~Target.combined
           THEN "depth_stencil" \in callbacks ELSE "depth" \in callbacks
        /\ Separate => "depth_stencil" \in callbacks

LegacySupported ==
    /\ {"BLEND", "CULL_FACE"} \cap enabled = {} /\ fixed.frontFace = "CCW"
    /\ EffectiveMask(fixed, Target) = Channels /\ ~StencilTested

DrawStateSupported ==
    /\ PassSupported
    /\ "native" \in callbacks \/ LegacySupported
    /\ ~RasterCallback =>
          /\ "SCISSOR_TEST" \notin enabled
          /\ fixed.sized => fixed.viewport = <<0, 0, Target.width, Target.height>>
    /\ "DITHER" \in enabled \/ "raster_v2" \in callbacks

\* set_raster_state; the first form of the callback has no dither.
RasterState ==
    IF ~RasterCallback THEN None ELSE
    [viewport |-> fixed.viewport, depthRange |-> fixed.depthRange,
     offset |-> <<"POLYGON_OFFSET_FILL" \in enabled, fixed.offset[1], fixed.offset[2]>>,
     lineWidth |-> fixed.lineWidth,
     coverage |-> <<"SAMPLE_COVERAGE" \in enabled, fixed.coverage[1], fixed.coverage[2]>>,
     scissor |-> IF "SCISSOR_TEST" \in enabled THEN Clipped(fixed.scissor, Target) ELSE None,
     dither |-> IF "raster_v2" \in callbacks THEN "DITHER" \in enabled ELSE TRUE]

DrawCommand(mode) ==
    [kind |-> "DRAW", pipeline |-> NativeDescriptor(Key(mode)), outputs |-> Outputs,
     raster |-> RasterState,
     planes |-> IF ~DepthTested /\ ~StencilTested THEN {}
                ELSE {p \in {"DEPTH", "STENCIL"} :
                         (IF p = "DEPTH" THEN Target.depth ELSE Target.stencil) # None}]

Accepted(mode) == HasTarget /\ DrawStateSupported /\ Creatable(Key(mode))

Unsubmitted(code) == command' = None /\ error' = code /\ UNCHANGED dirty

DrawArrays(mode) ==
    /\ \/ mode \notin Modes /\ Unsubmitted("INVALID_ENUM")
       \/ mode \in Modes /\ DrawIsNoop /\ Unsubmitted("NO_ERROR")
       \/ mode \in Modes /\ ~DrawIsNoop /\ Unsubmitted("INVALID_OPERATION")
       \/ /\ mode \in Modes /\ ~DrawIsNoop /\ Accepted(mode)
          /\ command' = DrawCommand(mode) /\ error' = "NO_ERROR"
          /\ dirty' = dirty \ {"PIPELINE", "BINDINGS", "FRAMEBUFFER", "VIEWPORT"}
    /\ UNCHANGED <<enabled, fixed, gates, calls, surface, drawBack, bound, callbacks, stores>>

-----------------------------------------------------------------------------
(***************************************************************************)
(* Clears.                                                                 *)
(***************************************************************************)
\* Fault: the luminance of a clear is not replicated.
ClearColorsByLane(f, t) ==
    [i \in 1 .. 4 |-> IF t.format \in Floats THEN f.clearColor[i]
                      ELSE IF Finite(f.clearColor[i]) THEN Unit(f.clearColor[i]) ELSE 0]

ClearColors(f, t) ==
    LET c == f.clearColor
        chosen == CASE t.logical = "RGB" -> <<c[1], c[2], c[3], One>>
                    [] t.logical = "ALPHA" -> <<0, 0, 0, c[4]>>
                    [] t.logical = "LUMINANCE" -> <<c[1], c[1], c[1], One>>
                    [] t.logical = "LUMINANCE_ALPHA" -> <<c[1], c[1], c[1], c[4]>>
                    [] OTHER -> c
    IN  IF t.format \in Floats THEN chosen
        ELSE [i \in 1 .. 4 |-> IF Finite(chosen[i]) THEN Unit(chosen[i]) ELSE 0]

\* The render pass that clears the planes in mask of target t, from state f.
ClearCommand(f, scissored, t, mask) ==
    [kind |-> "CLEAR",
     color |-> IF "COLOR" \in mask
               THEN [channels |-> EffectiveMask(f, t), values |-> ClearColors(f, t)] ELSE None,
     depth |-> IF "DEPTH" \in mask /\ t.depth # None /\ f.depthMask
               THEN IF Finite(f.clearDepth) THEN Unit(f.clearDepth) ELSE 0 ELSE None,
     stencil |-> IF "STENCIL" \in mask /\ t.stencil # None
                 THEN <<f.clearStencil, f.stencil["FRONT"].write>> ELSE None,
     region |-> IF scissored THEN Clipped(f.scissor, t) ELSE None]

ClearPass(c, t) == IF c.depth = None /\ c.stencil = None THEN {}
                   ELSE IF t.depth # None /\ t.stencil # None /\ ~t.combined
                        THEN {"depth_stencil"} ELSE {"depth"}

Nothing(c) == c.color = None /\ c.depth = None /\ c.stencil = None

\* ringl_submit_clear, once the target is found.
SubmitClear(c, t) ==
    \/ Nothing(c) /\ Unsubmitted("NO_ERROR")
    \/ ~Nothing(c) /\ Unsubmitted("INVALID_OPERATION")
    \/ /\ ~Nothing(c)
       /\ ClearPass(c, t) \subseteq callbacks
       /\ command' = c /\ error' = "NO_ERROR" /\ dirty' = dirty \ {"FRAMEBUFFER"}

Clear(mask) ==
    /\ \/ mask = {} /\ Unsubmitted("NO_ERROR")
       \/ mask # {} /\ ~(mask \subseteq {"COLOR", "DEPTH", "STENCIL"})
          /\ Unsubmitted("INVALID_VALUE")
       \/ /\ mask # {} /\ mask \subseteq {"COLOR", "DEPTH", "STENCIL"}
          /\ \/ ~HasTarget /\ Unsubmitted("INVALID_OPERATION")
             \/ HasTarget /\ SubmitClear(
                  ClearCommand(fixed, "SCISSOR_TEST" \in enabled, Target, mask), Target)
    /\ UNCHANGED <<enabled, fixed, gates, calls, surface, drawBack, bound, callbacks, stores>>

(* Saves the state, clears the default framebuffer with initial values,     *)
(* the hidden alpha included, and restores the state, dirty bits too.       *)
EmbeddingState ==
    [fixed EXCEPT !.colorMask = Channels, !.depthMask = TRUE,
                  !.stencil["FRONT"].write = StencilMax,
                  !.clearColor = <<0, 0, 0, IF AlphaHidden(surface) THEN One ELSE 0>>,
                  !.clearDepth = One, !.clearStencil = 0]
EmbeddingTarget ==
    [DefaultTarget(surface, TRUE) EXCEPT !.logical = "RGBA"]
EmbeddingClear ==
    /\ \/ surface = None /\ command' = None /\ error' = "INVALID_OPERATION"
       \/ /\ surface # None
          /\ LET c == ClearCommand(EmbeddingState, FALSE, EmbeddingTarget,
                                   {"COLOR", "DEPTH", "STENCIL"})
             IN  \/ command' = None /\ error' = "INVALID_OPERATION"
                 \/ /\ ClearPass(c, EmbeddingTarget) \subseteq callbacks
                    /\ command' = [c EXCEPT !.kind = "EMBEDDING"] /\ error' = "NO_ERROR"
    /\ UNCHANGED <<enabled, fixed, gates, dirty, calls, surface, drawBack, bound, callbacks, stores>>

-----------------------------------------------------------------------------
(***************************************************************************)
(* Changing the target.                                                    *)
(***************************************************************************)
SetDefaultFramebuffer(s) ==
    /\ Counted /\ command' = None
    /\ \/ /\ s = None
          /\ surface' = None /\ dirty' = dirty \cup {"FRAMEBUFFER", "PIPELINE"}
          /\ error' = "NO_ERROR" /\ UNCHANGED fixed
       \/ /\ s # None /\ ~ValidSurface(s)
          /\ error' = "INVALID_VALUE" /\ UNCHANGED <<surface, dirty, fixed>>
       \/ /\ s # None /\ ValidSurface(s)
          /\ surface' = s /\ error' = "NO_ERROR"
          /\ fixed' = IF fixed.sized THEN fixed
                      ELSE [fixed EXCEPT !.viewport = <<0, 0, s.width, s.height>>, !.sized = TRUE]
          /\ LET alphas(x) == x.flags \cap {"ALPHA", "EXPLICIT_ALPHA"}
                 other == \/ surface = None
                          \/ surface.format # s.format \/ alphas(surface) # alphas(s)
             IN  dirty' = dirty \cup {"FRAMEBUFFER"} \cup (IF other THEN {"PIPELINE"} ELSE {})
                                \cup (IF fixed.sized THEN {} ELSE {"VIEWPORT"})
    /\ UNCHANGED <<enabled, gates, drawBack, bound, callbacks, stores>>

BindFramebuffer(t) ==
    /\ Counted /\ command' = None /\ error' = "NO_ERROR"
    /\ bound' = t /\ dirty' = IF t # bound THEN dirty \cup {"FRAMEBUFFER"} ELSE dirty
    /\ UNCHANGED <<enabled, fixed, gates, surface, drawBack, callbacks, stores>>

\* ringl_draw_buffers on the default framebuffer.
DrawBuffers(back) ==
    /\ Counted /\ command' = None /\ bound = None /\ error' = "NO_ERROR"
    /\ drawBack' = back
    /\ dirty' = IF back # drawBack THEN dirty \cup {"FRAMEBUFFER", "PIPELINE"} ELSE dirty
    /\ UNCHANGED <<enabled, fixed, gates, surface, bound, callbacks, stores>>

(* The embedding has set a first default framebuffer or none, and a         *)
(* framebuffer object may be bound.                                         *)
DrawingInit ==
    /\ surface \in {None} \cup {s \in Surfaces : ValidSurface(s)}
    /\ bound \in {None} \cup UserTargets /\ drawBack = TRUE
    /\ enabled = {"DITHER"} /\ gates = {} /\ dirty = Bits /\ calls = 0 /\ error = "NO_ERROR"
    /\ fixed = IF surface = None THEN InitialFixed
               ELSE [InitialFixed EXCEPT !.viewport = <<0, 0, surface.width, surface.height>>,
                                         !.sized = TRUE]
    /\ callbacks \in Devices /\ stores \in Programs /\ command = None

SetState ==
    NextFixed /\ command' = None /\ UNCHANGED <<surface, drawBack, bound, callbacks, stores>>
SetTarget ==
    \/ \E s \in Surfaces \cup {None} : SetDefaultFramebuffer(s)
    \/ \E t \in UserTargets \cup {None} : BindFramebuffer(t)
    \/ \E on \in BOOLEAN : DrawBuffers(on)
Draw == \E mode \in Modes \cup {"QUADS"} : DrawArrays(mode)
ClearPlanes == \E mask \in Masks : Clear(mask)

DrawingNext == SetState \/ SetTarget \/ Draw \/ ClearPlanes \/ EmbeddingClear

DrawingSpec == DrawingInit /\ [][DrawingNext]_drawingVars

-----------------------------------------------------------------------------
(***************************************************************************)
(* Queries.                                                                *)
(***************************************************************************)
ReportedIntegers ==
    [viewport |-> fixed.viewport, scissor |-> fixed.scissor, cullMode |-> fixed.cullMode,
     frontFace |-> fixed.frontFace, depthFunc |-> fixed.depthFunc,
     depthMask |-> fixed.depthMask, stencil |-> fixed.stencil,
     blendFunc |-> fixed.blendFunc, blendEquation |-> fixed.blendEquation,
     invert |-> fixed.coverage[2], colorMask |-> [c \in Channels |-> c \in fixed.colorMask],
     packing |-> fixed.packing, unpacking |-> fixed.unpacking,
     hint |-> IF "standard_derivatives" \in gates THEN fixed.hint ELSE None]
ReportedFloats ==
    [depthRange |-> fixed.depthRange, lineWidth |-> fixed.lineWidth,
     offset |-> fixed.offset, clearColor |-> fixed.clearColor,
     clearDepth |-> fixed.clearDepth, clearStencil |-> fixed.clearStencil,
     blendColor |-> fixed.blendColor, coverage |-> fixed.coverage[1]]

\* Bits of the planes of the default framebuffer.
DepthBits == IF surface = None THEN 0
             ELSE IF surface.depthFormat = None THEN 0
             ELSE IF surface.flags = {} \/ "DEPTH" \in surface.flags THEN 32 ELSE 0
StencilBits == IF surface = None THEN 0
               ELSE IF surface.depthFormat # "D32S8" THEN 0
               ELSE IF surface.flags = {} \/ "STENCIL" \in surface.flags THEN 8 ELSE 0
AlphaBits == IF surface = None THEN 0
             ELSE IF AlphaHidden(surface) \/ surface.format = "RGB565" THEN 0 ELSE 8

-----------------------------------------------------------------------------
(***************************************************************************)
(* What the device does with a command.                                    *)
(***************************************************************************)
IsDraw == command # None /\ command.kind = "DRAW"
IsClear == command # None /\ command.kind # "DRAW"

StoredLast(seq, c) ==
    LET at == {i \in 1 .. Len(seq) : seq[i][1] = c}
    IN  IF at = {} THEN None ELSE seq[CHOOSE i \in at : \A j \in at : j <= i][2]

DeviceDepth(p) == <<IF p.depthCompare = None THEN "ALWAYS" ELSE p.depthCompare, p.depthWrite>>
DeviceStencil(p) ==
    IF p.stencil = None THEN None
    ELSE [f \in Faces |-> IF f = "BACK" /\ p.back # None THEN p.back ELSE p.stencil]

\* A command without a raster state draws with the device's initial one.
DeviceRaster ==
    IF command.raster # None THEN command.raster
    ELSE [viewport |-> <<0, 0, Target.width, Target.height>>, depthRange |-> <<0, One>>,
          offset |-> <<FALSE, 0, 0>>, lineWidth |-> One, coverage |-> <<FALSE, One, FALSE>>,
          scissor |-> None, dither |-> TRUE]

RasterAsStated ==
    /\ DeviceRaster.depthRange = fixed.depthRange
    /\ DeviceRaster.lineWidth = fixed.lineWidth
    /\ "POLYGON_OFFSET_FILL" \in enabled =>
          DeviceRaster.offset = <<TRUE, fixed.offset[1], fixed.offset[2]>>
    /\ "POLYGON_OFFSET_FILL" \notin enabled => ~DeviceRaster.offset[1]
    /\ "SAMPLE_COVERAGE" \in enabled =>
          DeviceRaster.coverage = <<TRUE, fixed.coverage[1], fixed.coverage[2]>>
    /\ "SAMPLE_COVERAGE" \notin enabled => ~DeviceRaster.coverage[1]

Pixels(box) == {p \in (0 .. Target.width - 1) \X (0 .. Target.height - 1) :
                   /\ p[1] \in box[1] .. box[1] + box[3] - 1
                   /\ p[2] \in box[2] .. box[2] + box[4] - 1}

\* The logical channels of a target and the physical ones each is kept in.
LogicalChannels(logical) ==
    CASE logical = "RGB" -> {"R", "G", "B"} [] logical = "ALPHA" -> {"A"}
      [] logical = "LUMINANCE" -> {"R"} [] logical = "LUMINANCE_ALPHA" -> {"R", "A"}
      [] OTHER -> Channels
Lanes(c) == IF Luminant /\ c = "R" THEN {"R", "G", "B"} ELSE {c}
Requested(c) == Target.writes /\ fixed.colorMask \cap Lanes(c) # {}
Position(c) == CHOOSE i \in 1 .. 4 : <<"R", "G", "B", "A">>[i] = c
Fitted(x) == IF Target.format \in Floats THEN x ELSE Unit(x)

-----------------------------------------------------------------------------
DrawingTypeOK ==
    /\ enabled \subseteq Capabilities /\ gates \subseteq Gates /\ dirty \subseteq Bits
    /\ calls \in 0 .. Calls
    /\ fixed.cullMode \in Faces \cup {"FRONT_AND_BACK"} /\ fixed.frontFace \in {"CW", "CCW"}
    /\ fixed.depthFunc \in Comparisons /\ fixed.colorMask \subseteq Channels
    /\ \A f \in Faces : fixed.stencil[f].func \in Comparisons
                       /\ fixed.stencil[f].ref \in 0 .. StencilMax
    /\ {fixed.blendFunc[i] : i \in 1 .. 4} \subseteq Factors \cup {"SRC_ALPHA_SATURATE"}
    /\ {fixed.blendEquation[i] : i \in 1 .. 2} \subseteq Equations
    /\ surface = None \/ ValidSurface(surface)
    /\ callbacks \subseteq Optional /\ drawBack \in BOOLEAN
    /\ command = None \/ command.kind \in {"DRAW", "CLEAR", "EMBEDDING"}

(* A draw that reached the device tests, blends, masks and culls as the     *)
(* state says, whatever the planes of the target: an absent plane passes    *)
(* and keeps everything, equal faces share one stencil state, a blend that  *)
(* uses a constant gets it, and the channels a luminance target keeps three *)
(* times always agree.  Depth range, polygon offset, line width and         *)
(* coverage are those of the state on a device with a raster callback; one  *)
(* without draws with its own (DepthRangePassed).                           *)
DrawsAsStated ==
    IsDraw =>
      LET p == command.pipeline IN
        /\ DeviceDepth(p) = IF "DEPTH_TEST" \in enabled /\ Target.depth # None
                            THEN <<fixed.depthFunc, fixed.depthMask>> ELSE <<"ALWAYS", FALSE>>
        /\ DeviceStencil(p) = IF "STENCIL_TEST" \in enabled /\ Target.stencil # None
                              THEN fixed.stencil ELSE None
        /\ p.depthCompare # None \/ p.stencil # None => command.planes # {}
        /\ p.cull = IF "CULL_FACE" \in enabled THEN fixed.cullMode ELSE None
        /\ p.front = fixed.frontFace
        /\ p.mask \subseteq UNION {Lanes(c) : c \in LogicalChannels(Target.logical)}
        /\ \A c \in LogicalChannels(Target.logical) : \A lane \in Lanes(c) :
              /\ (lane \in p.mask) = Requested(c)
              /\ StoredLast(stores, lane) # None =>
                    StoredLast(command.outputs, lane) = StoredLast(stores, c)
              /\ p.constants # None =>
                    p.constants[Position(lane)] = Fitted(fixed.blendColor[Position(c)])
        /\ IF "BLEND" \notin enabled THEN p.blend = None
           ELSE /\ p.blend = <<fixed.blendFunc, fixed.blendEquation>>
                /\ (\E i \in 1 .. 4 : fixed.blendFunc[i] \in ConstantFactors) => p.constants # None
        /\ RasterCallback => RasterAsStated

(* A draw that tests depth maps it by the range that was set, on every      *)
(* device: "Draw translation passes the exact pair through RinGPU raster    *)
(* state, rather than treating every range as the default" (README.md:1095).*)
DepthRangePassed == IsDraw /\ DepthTested => DeviceRaster.depthRange = fixed.depthRange

(* A draw or a clear touches exactly the pixels of the target inside the    *)
(* scissor box, however far the box lies outside; the viewport, dithering   *)
(* and the clear of an embedding are as stated too, also on a device        *)
(* without raster callbacks.                                                *)
RegionsExact ==
    /\ IsDraw =>
         /\ (IF DeviceRaster.scissor = None THEN Pixels(<<0, 0, Target.width, Target.height>>)
             ELSE Pixels(DeviceRaster.scissor))
            = {x \in Pixels(<<0, 0, Target.width, Target.height>>) :
                  "SCISSOR_TEST" \in enabled => x \in Pixels(fixed.scissor)}
         /\ fixed.sized => DeviceRaster.viewport = fixed.viewport
         /\ DeviceRaster.dither = ("DITHER" \in enabled)
    /\ command # None /\ command.kind = "CLEAR" =>
         (IF command.region = None THEN Pixels(<<0, 0, Target.width, Target.height>>)
          ELSE Pixels(command.region))
         = {x \in Pixels(<<0, 0, Target.width, Target.height>>) :
               "SCISSOR_TEST" \in enabled => x \in Pixels(fixed.scissor)}
    /\ command # None /\ command.kind = "EMBEDDING" => command.region = None

(* A clear writes the clear values through the masks: to every physical     *)
(* channel that keeps a requested logical one and to no other, to depth     *)
(* only when depth may be written, to stencil through the front write mask; *)
(* a clear of the embedding ignores every mask and leaves an opaque image   *)
(* when the page sees no alpha.                                             *)
ClearsAsStated ==
    IsClear =>
      IF command.kind = "CLEAR"
      THEN /\ command.color # None =>
                /\ command.color.channels
                     \subseteq UNION {Lanes(c) : c \in LogicalChannels(Target.logical)}
                /\ \A c \in LogicalChannels(Target.logical) : \A lane \in Lanes(c) :
                     /\ (lane \in command.color.channels) = Requested(c)
                     /\ Finite(fixed.clearColor[Position(c)]) =>
                           command.color.values[Position(lane)]
                             = Fitted(fixed.clearColor[Position(c)])
           /\ command.depth # None =>
                /\ Target.depth # None /\ fixed.depthMask
                /\ command.depth \in 0 .. One
                /\ fixed.clearDepth \in 0 .. One => command.depth = fixed.clearDepth
           /\ command.stencil # None =>
                /\ Target.stencil # None
                /\ command.stencil = <<fixed.clearStencil, fixed.stencil["FRONT"].write>>
      ELSE /\ command.color = [channels |-> Channels,
                               values |-> <<0, 0, 0, IF AlphaHidden(surface) THEN One ELSE 0>>]
           /\ command.depth \in {None, One}
           /\ command.stencil \in {None, <<0, StencilMax>>}

(* The queries of depth, stencil and alpha bits agree with what commands do *)
(* on the default framebuffer: a plane of no bits is neither tested nor     *)
(* cleared, one with bits is attached and cleared.                          *)
PlanesReported ==
    /\ command # None /\ command.kind = "EMBEDDING" =>
         /\ (command.depth # None) = (DepthBits > 0)
         /\ (command.stencil # None) = (StencilBits > 0)
    /\ IsDraw /\ bound = None =>
         /\ DeviceStencil(command.pipeline) # None => StencilBits > 0
         /\ "DEPTH_TEST" \in enabled => (DepthBits > 0) = ("DEPTH" \in command.planes)
         /\ AlphaBits > 0 /\ "A" \in fixed.colorMask /\ drawBack => "A" \in command.pipeline.mask
         /\ "A" \in command.pipeline.mask => ~AlphaHidden(surface)

(* On a device with every callback a draw is refused only for what the      *)
(* pipeline cannot say: both faces culled while a test is on, no color and  *)
(* no plane, or a shader that stores the luminance twice.                   *)
FullDeviceDraws ==
    callbacks = Optional /\ HasTarget /\ ~DrawIsNoop =>
        \A mode \in Modes :
            \/ Accepted(mode)
            \/ "CULL_FACE" \in enabled /\ fixed.cullMode = "FRONT_AND_BACK"
            \/ EffectiveMask(fixed, Target) = {} /\ ~DepthTested /\ ~StencilTested
            \/ Luminant /\ ~Rewritable

(* Whatever a query reports, the call that sets it takes back without an    *)
(* error, the initial state included, and it changes nothing: a page that   *)
(* saves state and restores it draws as before.  The viewport is the one    *)
(* exception: restoring it pins it, so that the first default framebuffer   *)
(* no longer sizes it (state.c:229, framebuffer.c:94).                      *)
Kept == error' = "NO_ERROR" /\ UNCHANGED <<enabled, fixed>>

ReportedAccepted ==
    calls < Calls /\ command = None =>
      LET i == ReportedIntegers
          r == ReportedFloats
          Of(f) == i.stencil[f]
      IN  /\ \A c \in Capabilities :
                IF c \in enabled THEN ENABLED (Enable(c) /\ Kept) ELSE ENABLED (Disable(c) /\ Kept)
          /\ ENABLED (Viewport(i.viewport) /\ error' = "NO_ERROR"
                         /\ fixed' = [fixed EXCEPT !.sized = TRUE])
          /\ ENABLED (Scissor(i.scissor) /\ Kept)
          /\ ENABLED (CullFace(i.cullMode) /\ Kept)
          /\ ENABLED (FrontFace(i.frontFace) /\ Kept)
          /\ ENABLED (DepthFunc(i.depthFunc) /\ Kept)
          /\ ENABLED (DepthMask(i.depthMask) /\ Kept)
          /\ ENABLED (ColorMask({c \in Channels : i.colorMask[c]}) /\ Kept)
          /\ ENABLED (BlendFuncSeparate(i.blendFunc) /\ Kept)
          /\ ENABLED (BlendEquationSeparate(i.blendEquation) /\ Kept)
          /\ ENABLED (BlendColor(r.blendColor) /\ Kept)
          /\ ENABLED (DepthRange(r.depthRange[1], r.depthRange[2]) /\ Kept)
          /\ ENABLED (PolygonOffset(r.offset[1], r.offset[2]) /\ Kept)
          /\ ENABLED (LineWidth(r.lineWidth) /\ Kept)
          /\ ENABLED (SampleCoverage(r.coverage, i.invert) /\ Kept)
          /\ ENABLED (ClearColor(r.clearColor) /\ Kept)
          /\ ENABLED (ClearDepth(r.clearDepth) /\ Kept)
          /\ ENABLED (ClearStencil(r.clearStencil) /\ Kept)
          /\ ENABLED (PixelStore("PACK", i.packing) /\ Kept)
          /\ ENABLED (PixelStore("UNPACK", i.unpacking) /\ Kept)
          /\ i.hint # None => ENABLED (Hint("DERIVATIVE", i.hint) /\ Kept)
          /\ \A f \in Faces :
                /\ ENABLED (StencilFuncSeparate(f, Of(f).func, Of(f).ref, Of(f).mask) /\ Kept)
                /\ ENABLED (StencilMaskSeparate(f, Of(f).write) /\ Kept)
                /\ ENABLED (StencilOpSeparate(f, Of(f).fail, Of(f).depthFail, Of(f).pass) /\ Kept)

\* What the queries report is what draws do and what the calls take back.
ReportsTrue == PlanesReported /\ ReportedAccepted

(* A call that changes what the next draw would tell the device marks the   *)
(* state, or the target it goes through, dirty.                             *)
ChangesMarked ==
    [][HasTarget /\ HasTarget' /\ command' = None =>
          /\ {"PIPELINE", "FRAMEBUFFER"} \cap dirty' = {} =>
                \A mode \in Modes : Key(mode)' = Key(mode)
          /\ {"PIPELINE", "FRAMEBUFFER", "VIEWPORT"} \cap dirty' = {} => RasterState' = RasterState
      ]_drawingVars

=============================================================================
