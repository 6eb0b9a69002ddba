------------------------------ MODULE DrawingMC ------------------------------
(* Drawing for TLC: inputs that reach every clamp and every format; and the *)
(* cache its pipelines come from, which shares no state with it.            *)
EXTENDS Drawing, PipelineCache

MCCompares == {"LEQUAL", "INCR"}
MCStencilOps == {<<"KEEP", "INCR", "REPLACE">>, <<"KEEP", "KEEP", "LESS">>}
MCStencilFuncs == {<<"EQUAL", 9, 5>>, <<"NEVER", -1, 0>>}
MCBlendFuncs == {<<"CONSTANT_COLOR", "ZERO", "ONE", "ONE">>, <<"ONE", "SRC_ALPHA_SATURATE", "ONE", "ZERO">>}
MCBlendEquations == {<<"MIN", "FUNC_ADD">>}
MCColors == {<<3, 1, -1, 2>>}
MCNumbers == {1, 3, NotFinite}
MCPairs == {<<-1, 1>>, <<1, 3>>, <<NotFinite, 1>>}
MCBoxes == {<<-1, 1, 2, 4>>, <<0, 0, 2, 2>>, <<3, 0, 1, 0>>, <<0, 0, 9, -1>>}
MCColorMasks == {{"G"}, {"R", "G", "B"}, {"A"}, {}}

Surface(format, flags, depth) ==
    [format |-> format, flags |-> flags, depthFormat |-> depth, width |-> 2, height |-> 2]
MCSurfaces ==
    {Surface("RGBA8", {}, None), Surface("RGBA8", {}, "D32S8"),
     Surface("RGBA8", {"EXPLICIT_ALPHA", "EXPLICIT_ASPECTS", "STENCIL"}, "D32S8"),
     Surface("RGBA32F", {"EXPLICIT_ALPHA", "ALPHA", "EXPLICIT_ASPECTS", "DEPTH"}, "D32S8"),
     Surface("RGBA8", {"ALPHA"}, "D32"), Surface("RGBA8", {"STENCIL"}, "D32")}
UserTarget(format, logical, depth, stencil, writes) ==
    [format |-> format, logical |-> logical, depth |-> depth, stencil |-> stencil,
     combined |-> depth = stencil, writes |-> writes, width |-> 2, height |-> 2]
MCUserTargets ==
    {UserTarget("RGBA32F", "LUMINANCE", None, None, TRUE),
     UserTarget("RGBA16F", "LUMINANCE_ALPHA", "D32", "S8", TRUE),
     UserTarget("RGBA16F", "ALPHA", None, "S8", TRUE),
     UserTarget("RGBA8", "RGBA", "D32", None, FALSE)}
MCDevices ==
    {{}, {"native", "depth"}, {"native", "raster"},
     {"native", "native_v2", "raster", "raster_v2", "depth", "depth_stencil"}}
MCPrograms ==
    {<<<<"R", "x">>, <<"G", "y">>, <<"B", "y">>, <<"A", "z">>>>,
     <<<<"G", "x">>, <<"A", "z">>>>}
MCMasks == {{}, {"COLOR"}, {"DEPTH"}, {"STENCIL"}, {"COLOR", "DEPTH", "STENCIL"},
            {"COLOR", "OTHER"}}
MCModes == {"TRIANGLES"}

(* A behaviour sets the state of one group, on the targets and devices that *)
(* tell its values apart; a behaviour of the group "cache" draws nothing.   *)
VARIABLE group

Full == {"native", "native_v2", "raster", "raster_v2", "depth", "depth_stencil"}
Twice == <<<<"R", "x">>, <<"G", "y">>, <<"B", "y">>, <<"A", "z">>>>
GroupInit ==
    /\ (bound # None => surface = None)
    /\ \/ /\ group = "raster" /\ bound = None /\ stores = Twice
          /\ (surface # None => surface.flags = {})
       \/ /\ group = "depth" /\ callbacks \in {{"native", "depth"}, Full} /\ stores = Twice
          /\ surface # None
       \/ /\ group = "tests" /\ callbacks \in {{"native", "depth"}, Full} /\ stores = Twice
          /\ (callbacks # Full => bound = None) /\ (bound = None => surface # None)
       \/ /\ group = "colors" /\ callbacks \in {{}, Full} /\ (bound = None => surface # None)
          /\ (callbacks = {} => bound = None /\ surface.flags = {})
          /\ (stores # Twice => callbacks = Full /\ bound # None /\ bound.logical = "LUMINANCE")
       \/ /\ group = "cache" /\ surface = None /\ bound = None /\ callbacks = {} /\ stores = Twice

SetGroup ==
    \/ group = "raster" /\ calls < 2 /\ SetRaster
    \/ group = "depth" /\ (Enable("DEPTH_TEST") \/ \E p \in Pairs : DepthRange(p[1], p[2]))
    \/ group = "tests" /\ calls < 2 /\ SetTests
    \/ group = "colors" /\ SetColors
DrawNext ==
    \/ SetGroup /\ (calls = 0 \/ command = None) /\ command' = None
       /\ UNCHANGED <<surface, drawBack, bound, callbacks, stores>>
    \/ calls = 0 /\ SetTarget
    \/ Draw \/ ClearPlanes \/ EmbeddingClear

MCInit == DrawingInit /\ Init /\ GroupInit
MCNext ==
    /\ \/ group # "cache" /\ DrawNext /\ UNCHANGED vars
       \/ group = "cache" /\ Next /\ UNCHANGED drawingVars
    /\ UNCHANGED group
MCSpec == MCInit /\ [][MCNext]_<<drawingVars, vars, group>>
=============================================================================
