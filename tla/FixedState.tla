------------------------------ MODULE FixedState ------------------------------
(***************************************************************************)
(* The fixed-function state of a context (src/src/context/state.c and the  *)
(* clear values of src/src/translate/draw.c): what every call that sets it *)
(* accepts, clamps and marks dirty, and what the queries report.           *)
(*                                                                         *)
(* A float is an integer, One of which is 1.0; NotFinite stands for NaN    *)
(* and the infinities.  The context is current and not lost.               *)
(***************************************************************************)
EXTENDS Integers, FiniteSets

CONSTANTS
    Compares,        \* comparison tokens the calls are given
    StencilOps,      \* triples <<fail, depth fail, pass>> they are given
    StencilFuncs,    \* triples <<function, reference, mask>>
    BlendFuncs,      \* <<source rgb, destination rgb, source a, destination a>>
    BlendEquations,  \* pairs <<rgb, alpha>>
    Colors,          \* <<red, green, blue, alpha>>, of numbers
    Numbers,         \* numbers given as a width, a coverage or a depth
    Pairs,           \* pairs of numbers given as a range or an offset
    Boxes,           \* <<x, y, width, height>>
    ColorMasks,      \* sets of channels
    One,             \* 1.0
    NotFinite,
    StencilMax,      \* 0xff, the largest value of the stencil plane
    MaxSize,         \* RINGL_MAX_TEXTURE_SIZE
    MaxWidth,        \* the widest line, 64.0
    Calls            \* bound: calls that set state in a behaviour

ASSUME NumbersAssumption ==
    /\ One \in Nat \ {0} /\ StencilMax \in Nat /\ MaxSize \in Nat /\ MaxWidth \in Nat
    /\ MaxWidth >= One /\ NotFinite \notin Int

VARIABLES
    enabled,     \* the capabilities that are on
    fixed,       \* all other fixed-function state
    gates,       \* extensions that have been enabled
    dirty,       \* dirty_bits
    calls,       \* number of calls made, for the bound
    error        \* what the last call recorded

fixedVars == <<enabled, fixed, gates, dirty, calls, error>>

Capabilities == {"SCISSOR_TEST", "CULL_FACE", "DITHER", "DEPTH_TEST",
                 "POLYGON_OFFSET_FILL", "SAMPLE_COVERAGE", "STENCIL_TEST", "BLEND"}
Channels == {"R", "G", "B", "A"}
Faces == {"FRONT", "BACK"}
Comparisons == {"NEVER", "LESS", "EQUAL", "LEQUAL", "GREATER", "NOTEQUAL", "GEQUAL", "ALWAYS"}
Operations == {"KEEP", "ZERO", "REPLACE", "INCR", "DECR", "INVERT", "INCR_WRAP", "DECR_WRAP"}
Factors == {"ZERO", "ONE", "SRC_COLOR", "ONE_MINUS_SRC_COLOR", "SRC_ALPHA",
            "ONE_MINUS_SRC_ALPHA", "DST_COLOR", "ONE_MINUS_DST_COLOR", "DST_ALPHA",
            "ONE_MINUS_DST_ALPHA", "CONSTANT_COLOR", "ONE_MINUS_CONSTANT_COLOR",
            "CONSTANT_ALPHA", "ONE_MINUS_CONSTANT_ALPHA"}
SourceFactors == Factors \cup {"SRC_ALPHA_SATURATE"}
AllEquations == {"FUNC_ADD", "FUNC_SUBTRACT", "FUNC_REVERSE_SUBTRACT", "MIN", "MAX"}
Equations == AllEquations \ IF "blend_minmax" \in gates THEN {} ELSE {"MIN", "MAX"}
Hints == {"DONT_CARE", "FASTEST", "NICEST"}
Gates == {"float_color_buffer", "half_float_color_buffer", "blend_minmax",
          "standard_derivatives"}
Bits == {"FRAMEBUFFER", "PIPELINE", "BINDINGS", "VIEWPORT"}

Finite(x) == x # NotFinite
Float == Int \cup {NotFinite}
Color == [1 .. 4 -> Float]
Within(x, low, high) == IF x <= low THEN low ELSE IF x >= high THEN high ELSE x
Unit(x) == Within(x, 0, One)

(* The arguments of the calls have their types, if not always their range.  *)
ASSUME ArgumentsAssumption ==
    /\ StencilOps \subseteq STRING \X STRING \X STRING
    /\ StencilFuncs \subseteq STRING \X Int \X Int
    /\ BlendFuncs \subseteq [1 .. 4 -> STRING] /\ BlendEquations \subseteq [1 .. 2 -> STRING]
    /\ Colors \subseteq Color /\ Numbers \subseteq Float /\ Pairs \subseteq Float \X Float
    /\ Boxes \subseteq [1 .. 4 -> Int] /\ ColorMasks \subseteq SUBSET Channels

\* The state of one face of the stencil test.
StencilStates == [func : Comparisons, ref : 0 .. StencilMax,
                  mask : 0 .. StencilMax, write : 0 .. StencilMax, fail : Operations,
                  depthFail : Operations, pass : Operations]
InitialStencil == [func |-> "ALWAYS", ref |-> 0, mask |-> StencilMax, write |-> StencilMax,
                   fail |-> "KEEP", depthFail |-> "KEEP", pass |-> "KEEP"]

InitialFixed ==
    [viewport |-> <<0, 0, 0, 0>>, sized |-> FALSE, scissor |-> <<0, 0, 0, 0>>,
     cullMode |-> "BACK", frontFace |-> "CCW",
     depthFunc |-> "LESS", depthMask |-> TRUE, depthRange |-> <<0, One>>,
     lineWidth |-> One, coverage |-> <<One, FALSE>>, offset |-> <<0, 0>>,
     stencil |-> [f \in Faces |-> InitialStencil],
     blendFunc |-> <<"ONE", "ZERO", "ONE", "ZERO">>,
     blendEquation |-> <<"FUNC_ADD", "FUNC_ADD">>,
     blendColor |-> <<0, 0, 0, 0>>, colorMask |-> Channels,
     clearColor |-> <<0, 0, 0, 0>>, clearDepth |-> One, clearStencil |-> 0,
     hint |-> "DONT_CARE", packing |-> 4, unpacking |-> 4]

-----------------------------------------------------------------------------
(***************************************************************************)
(* Calls that set state.                                                   *)
(***************************************************************************)
Counted == calls < Calls /\ calls' = calls + 1

\* ringl_context_mark_dirty, for a change: setting what is set already marks nothing.
Marked(changed, bit) == dirty' = IF changed THEN dirty \cup {bit} ELSE dirty

Refused(code) == error' = code /\ UNCHANGED <<enabled, fixed, gates, dirty>>

\* A call that checks its arguments and then stores and marks them.
Set(valid, code, next, bit) ==
    /\ Counted
    /\ \/ ~valid /\ Refused(code)
       \/ /\ valid
          /\ fixed' = next /\ Marked(next # fixed, bit)
          /\ error' = "NO_ERROR" /\ UNCHANGED <<enabled, gates>>

Enable(c) ==
    /\ Counted
    /\ enabled' = enabled \cup {c}
    /\ Marked(c \notin enabled, IF c = "SCISSOR_TEST" THEN "VIEWPORT" ELSE "PIPELINE")
    /\ error' = "NO_ERROR" /\ UNCHANGED <<fixed, gates>>

\* Fault: the bit of Enable is copied from the scissor test.
DisableMarkingViewport(c) ==
    /\ Counted
    /\ enabled' = enabled \ {c}
    /\ Marked(c \in enabled, "VIEWPORT")
    /\ error' = "NO_ERROR" /\ UNCHANGED <<fixed, gates>>

Disable(c) ==
    /\ Counted
    /\ enabled' = enabled \ {c}
    /\ Marked(c \in enabled, IF c = "SCISSOR_TEST" THEN "VIEWPORT" ELSE "PIPELINE")
    /\ error' = "NO_ERROR" /\ UNCHANGED <<fixed, gates>>

(* The two calls that mark their bit even when nothing changes.             *)
Viewport(box) ==
    /\ Counted
    /\ \/ /\ ~(box[3] \in 0 .. MaxSize /\ box[4] \in 0 .. MaxSize)
          /\ Refused("INVALID_VALUE")
       \/ /\ box[3] \in 0 .. MaxSize /\ box[4] \in 0 .. MaxSize
          /\ fixed' = [fixed EXCEPT !.viewport = box, !.sized = TRUE]
          /\ dirty' = dirty \cup {"VIEWPORT"}
          /\ error' = "NO_ERROR" /\ UNCHANGED <<enabled, gates>>

Scissor(box) ==
    /\ Counted
    /\ \/ ~(box[3] >= 0 /\ box[4] >= 0) /\ Refused("INVALID_VALUE")
       \/ /\ box[3] >= 0 /\ box[4] >= 0
          /\ fixed' = [fixed EXCEPT !.scissor = box]
          /\ dirty' = dirty \cup {"VIEWPORT"}
          /\ error' = "NO_ERROR" /\ UNCHANGED <<enabled, gates>>

CullFace(mode) == Set(mode \in Faces \cup {"FRONT_AND_BACK"}, "INVALID_ENUM",
                      [fixed EXCEPT !.cullMode = mode], "PIPELINE")
FrontFace(mode) == Set(mode \in {"CW", "CCW"}, "INVALID_ENUM",
                       [fixed EXCEPT !.frontFace = mode], "PIPELINE")
DepthFunc(func) == Set(func \in Comparisons, "INVALID_ENUM",
                       [fixed EXCEPT !.depthFunc = func], "PIPELINE")
DepthMask(on) == Set(TRUE, "NO_ERROR", [fixed EXCEPT !.depthMask = on], "PIPELINE")
DepthRange(near, far) ==
    Set(Finite(near) /\ Finite(far), "INVALID_VALUE",
        [fixed EXCEPT !.depthRange = <<Unit(near), Unit(far)>>], "VIEWPORT")
LineWidth(width) == Set(Finite(width) /\ width \in One .. MaxWidth, "INVALID_VALUE",
                        [fixed EXCEPT !.lineWidth = width], "PIPELINE")
SampleCoverage(value, invert) ==
    Set(Finite(value), "INVALID_VALUE",
        [fixed EXCEPT !.coverage = <<Unit(value), invert>>], "PIPELINE")
PolygonOffset(factor, units) ==
    Set(Finite(factor) /\ Finite(units), "INVALID_VALUE",
        [fixed EXCEPT !.offset = <<factor, units>>], "PIPELINE")
ColorMask(mask) == Set(TRUE, "NO_ERROR", [fixed EXCEPT !.colorMask = mask], "PIPELINE")

\* The faces a call sets: the forms without _separate set both.
Named(face) == IF face = "FRONT_AND_BACK" THEN Faces ELSE {face} \cap Faces

WithStencil(face, Update(_)) ==
    [fixed EXCEPT !.stencil = [f \in Faces |-> IF f \in Named(face) THEN Update(@[f]) ELSE @[f]]]

\* The bits of a mask that the stencil plane has.
Planes(mask) == mask % (StencilMax + 1)

StencilFuncSeparate(face, func, reference, mask) ==
    Set(Named(face) # {} /\ func \in Comparisons, "INVALID_ENUM",
        WithStencil(face, LAMBDA s : [s EXCEPT !.func = func, !.mask = Planes(mask),
                                               !.ref = Within(reference, 0, StencilMax)]),
        "PIPELINE")
StencilMaskSeparate(face, mask) ==
    Set(Named(face) # {}, "INVALID_ENUM",
        WithStencil(face, LAMBDA s : [s EXCEPT !.write = Planes(mask)]), "PIPELINE")
StencilOpSeparate(face, fail, depthFail, pass) ==
    Set(Named(face) # {} /\ {fail, depthFail, pass} \subseteq Operations, "INVALID_ENUM",
        WithStencil(face, LAMBDA s : [s EXCEPT !.fail = fail, !.depthFail = depthFail,
                                               !.pass = pass]), "PIPELINE")

BlendFuncSeparate(f) ==
    Set(/\ {f[1], f[3]} \subseteq SourceFactors
        /\ {f[2], f[4]} \subseteq Factors,
        "INVALID_ENUM", [fixed EXCEPT !.blendFunc = f], "PIPELINE")
BlendEquationSeparate(e) ==
    Set({e[1], e[2]} \subseteq Equations, "INVALID_ENUM",
        [fixed EXCEPT !.blendEquation = e], "PIPELINE")

\* Without a float color buffer the constant is clamped when it is set.
BlendColor(c) ==
    Set(\A i \in 1 .. 4 : Finite(c[i]), "INVALID_VALUE",
        [fixed EXCEPT !.blendColor =
            IF {"float_color_buffer", "half_float_color_buffer"} \cap gates = {}
            THEN [i \in 1 .. 4 |-> Unit(c[i])] ELSE c], "PIPELINE")

(* Calls that change no pipeline: they mark nothing.                        *)
Keep(valid, code, next) ==
    /\ Counted
    /\ \/ ~valid /\ Refused(code)
       \/ valid /\ fixed' = next /\ error' = "NO_ERROR" /\ UNCHANGED <<enabled, gates, dirty>>

Hint(target, mode) ==
    Keep(/\ target = "MIPMAP" \/ "standard_derivatives" \in gates
         /\ mode \in Hints, "INVALID_ENUM",
         IF target = "MIPMAP" THEN fixed ELSE [fixed EXCEPT !.hint = mode])
PixelStore(pname, param) ==
    Keep(param \in {1, 2, 4, 8}, "INVALID_VALUE",
         IF pname = "PACK" THEN [fixed EXCEPT !.packing = param]
                           ELSE [fixed EXCEPT !.unpacking = param])
ClearColor(c) == Keep(TRUE, "NO_ERROR", [fixed EXCEPT !.clearColor = c])
ClearDepth(d) == Keep(TRUE, "NO_ERROR", [fixed EXCEPT !.clearDepth = d])
ClearStencil(s) ==
    Keep(TRUE, "NO_ERROR", [fixed EXCEPT !.clearStencil = Within(s, 0, StencilMax)])

\* ringl_enable_webgl_*: an extension stays enabled.
EnableExtension(g) ==
    /\ Counted
    /\ gates' = gates \cup {g} /\ error' = "NO_ERROR"
    /\ UNCHANGED <<enabled, fixed, dirty>>

SetRaster ==
    \/ \E c \in Capabilities \ {"DEPTH_TEST", "STENCIL_TEST", "BLEND"} : Enable(c) \/ Disable(c)
    \/ \E b \in Boxes : Viewport(b) \/ Scissor(b)
    \/ \E m \in Faces \cup {"FRONT_AND_BACK", "FRONT_LEFT"} : CullFace(m)
    \/ \E m \in {"CW", "CCW", "BACK"} : FrontFace(m)
    \/ \E p \in Pairs : DepthRange(p[1], p[2]) \/ PolygonOffset(p[1], p[2])
    \/ \E t \in {"MIPMAP", "DERIVATIVE"}, m \in {"NICEST", "LINEAR"} : Hint(t, m)
    \/ \E p \in {"PACK", "UNPACK"}, n \in {3, 8} : PixelStore(p, n)
    \/ \E x \in Numbers : LineWidth(x) \/ SampleCoverage(x, TRUE)

SetTests ==
    \/ \E c \in {"DEPTH_TEST", "STENCIL_TEST"} : Enable(c) \/ Disable(c)
    \/ \E c \in Compares : DepthFunc(c)
    \/ \E on \in BOOLEAN : DepthMask(on)
    \/ \E d \in Numbers : ClearDepth(d)
    \/ \E s \in StencilFuncs : ClearStencil(s[2])
    \/ \E f \in {"FRONT", "FRONT_AND_BACK", "LEFT"} :
          \/ \E s \in StencilFuncs : StencilFuncSeparate(f, s[1], s[2], s[3])
          \/ \E s \in StencilFuncs : StencilMaskSeparate(f, s[3])
          \/ \E s \in StencilOps : StencilOpSeparate(f, s[1], s[2], s[3])

SetColors ==
    \/ Enable("BLEND") \/ Disable("BLEND")
    \/ \E g \in {"half_float_color_buffer", "blend_minmax"} : EnableExtension(g)
    \/ \E f \in BlendFuncs : BlendFuncSeparate(f)
    \/ \E e \in BlendEquations : BlendEquationSeparate(e)
    \/ \E c \in Colors : BlendColor(c) \/ ClearColor(c)
    \/ \E m \in ColorMasks : ColorMask(m)

NextFixed == SetRaster \/ SetTests \/ SetColors
=============================================================================
