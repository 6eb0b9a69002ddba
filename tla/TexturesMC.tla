------------------------------ MODULE TexturesMC ------------------------------
(* Textures and framebuffers for TLC.  A behaviour stays in one scene.  Of   *)
(* textures: the chain of a 2D texture, the faces of a cube map, conversions *)
(* of one texel, names.  Of framebuffers: the color slots, the depth and     *)
(* stencil planes, reads, faces, objects.                                    *)
EXTENDS Framebuffers

MCFaceNames == <<"+X", "-X">>
MCSlotNames == <<"COLOR0", "COLOR1">>

(* Requests and what an external texel of each type can be.                  *)
Requests ==
    {<<"RGBA", "RGBA", "UBYTE">>, <<"RGB", "RGB", "UBYTE">>, <<"ALPHA", "ALPHA", "UBYTE">>,
     <<"LUMINANCE", "LUMINANCE", "UBYTE">>, <<"LUMINANCE_ALPHA", "LUMINANCE_ALPHA", "UBYTE">>,
     <<"RGB", "RGB", "5_6_5">>, <<"RGBA", "RGBA", "4_4_4_4">>, <<"RGBA", "RGBA", "5_5_5_1">>,
     <<"RGB", "RGB", "FLOAT">>, <<"RGBA", "RGBA", "HALF">>, <<"ALPHA", "ALPHA", "HALF">>,
     <<"LUMINANCE", "LUMINANCE", "FLOAT">>, <<"SRGB", "SRGB", "UBYTE">>,
     <<"SRGB_ALPHA", "SRGB_ALPHA", "UBYTE">>, <<"DEPTH_COMPONENT", "DEPTH_COMPONENT", "UINT">>,
     <<"DEPTH_STENCIL", "DEPTH_STENCIL", "24_8">>, <<"RGBA", "RGB", "UBYTE">>}
Texels4(type) ==
    CASE type \in {"5_6_5", "4_4_4_4", "5_5_5_1"} -> {<<15, 3, 7, 1>>}
      [] type = "FLOAT" -> {<<-5, 300, 9, 70>>, <<NotFinite, 1, 2, 3>>}
      [] type = "HALF" -> {<<-5, 600, 9, 70>>, <<NotFinite, 1, 2, 3>>}
      [] OTHER -> {<<9, 80, 200, 70>>}

Source(code, format, texel) ==
    [code |-> code, size |-> <<2, 2>>, at |-> <<0, 0>>, format |-> format, texel |-> texel,
     reads |-> TRUE]
Bytes4 == Source("NO_ERROR", Format("RGBA", "UBYTE", FALSE, None), <<9, 80, 200, 70>>)
Sources ==
    {Bytes4, [Bytes4 EXCEPT !.reads = FALSE], [Bytes4 EXCEPT !.at = <<1, 1>>],
     [Bytes4 EXCEPT !.at = <<-1, 0>>], Source("INVALID_OPERATION", NoFormat, <<0, 0, 0, 0>>),
     Source("NO_ERROR", Format("RGB565", "5_6_5", FALSE, None), <<31, 20, 3, 0>>),
     Source("NO_ERROR", Format("RGBA4", "4_4_4_4", FALSE, None), <<15, 2, 3, 4>>),
     Source("NO_ERROR", Format("RGBA", "FLOAT", FALSE, None), <<-5, 300, 9, 70>>),
     Source("NO_ERROR", Format("RGBA", "FLOAT", FALSE, None), <<NotFinite, 1, 2, 3>>),
     Source("NO_ERROR", Format("RGBA", "HALF", FALSE, None), <<-5, 500, 9, 70>>),
     Source("NO_ERROR", Format("RGB", "FLOAT", TRUE, None), <<9, 80, 200, 70>>)}

Blocks ==
    [first : {<<200, 9, 250>>}, second : {<<0, 80, 10>>}, selector : {1, 3}, modifier : {40},
     alpha : {70}, ordered : BOOLEAN, valid : {TRUE}]
Broken == [first |-> <<0, 0, 0>>, second |-> <<0, 0, 0>>, selector |-> 0, modifier |-> 0,
           alpha |-> 0, ordered |-> TRUE, valid |-> FALSE]

Region(offset, size) == [offset |-> offset, size |-> size]
Origin == Region(<<0, 0>>, <<1, 1>>)
Regions == {Origin, Region(<<0, 0>>, <<2, 2>>), Region(<<1, 1>>, <<4, 4>>), Region(<<0, 0>>, <<0, 1>>)}

RGBA8 == <<"RGBA", "RGBA", "UBYTE">>
RGB8 == <<"RGB", "RGB", "UBYTE">>
Both == {"image", "sampler"}

(* Scenes.                                                                   *)
VARIABLE scene

A == CHOOSE t \in Textures : TRUE
Live(binding, parameters) ==
    [NoTexture EXCEPT !.name = "live", !.target = binding, !.parameters = parameters]
Clamped2D == [Defaults EXCEPT !.wrapS = "CLAMP", !.wrapT = "CLAMP", !.min = "LINEAR"]

B == CHOOSE t \in Textures : t # A
R == CHOOSE r \in Renderbuffers : TRUE
Q == CHOOSE r \in Renderbuffers : r # R
F == CHOOSE f \in Framebuffers : TRUE

\* A texture with one level, and a renderbuffer with storage.
Filled(binding, size, request) ==
    LET format == RequestedFormat(request[1], request[2], request[3])
        face == WithLevel(NoFace, 0, size, format, DefaultTexel(format))
    IN [Live(binding, Defaults) EXCEPT !.faces =
           [f \in Faces |-> IF binding = "CUBE" \/ f = First THEN face ELSE NoFace]]
Stocked(format, size) == [NoRenderbuffer EXCEPT !.name = "live", !.format = format, !.size = size]
\* A cube map with two levels of every face.
Deep(size) ==
    LET cube == Filled("CUBE", size, RGBA8)
        smaller == <<size[1] \div 2, size[2] \div 2>>
        format == cube.faces[First].format
    IN [cube EXCEPT !.faces = [f \in Faces |->
           WithLevel(@[f], 1, smaller, format, DefaultTexel(format))]]
Flat(t, level) == Attachment("TEXTURE", t, level, First)
Buffer(r) == Attachment("RENDERBUFFER", r, 0, First)
Colored(a) == [NoFramebuffer EXCEPT !.name = "live", !.color[FirstSlot] = a]
Paired(a, b) == [Colored(a) EXCEPT !.color["COLOR1"] = b, !.drawBuffers = {"COLOR0", "COLOR1"}]

Depth32 == <<"DEPTH_COMPONENT", "DEPTH_COMPONENT", "UINT">>
Depth24 == <<"DEPTH_STENCIL", "DEPTH_STENCIL", "24_8">>
Wide == {<<"RGBA", "RGBA", "FLOAT">>, <<"RGB", "RGB", "HALF">>, <<"SRGB_ALPHA", "SRGB_ALPHA", "UBYTE">>,
         <<"RGB", "RGB", "5_6_5">>, <<"LUMINANCE", "LUMINANCE", "FLOAT">>, <<"ALPHA", "ALPHA", "HALF">>}
TextureScenes == {"levels", "cube", "convert", "names"}
FramebufferScenes == {"slots", "planes", "reads", "faces", "objects"}

ScenesOfTextures ==
    /\ framebuffer = [f \in Framebuffers |-> NoFramebuffer]
    /\ renderbuffer = [r \in Renderbuffers |-> NoRenderbuffer]
    /\ boundFramebuffer = None /\ boundRenderbuffer = None
    /\ \/ scene = "names" /\ TexturesInit
       \/ /\ scene # "names" /\ callbacks = {"mip", "array"}
          /\ active = 0 /\ gates = {} /\ charged = 0
          /\ texture = [t \in Textures |->
                IF t # A THEN NoTexture
                ELSE IF scene = "cube" THEN Live("CUBE", Clamped2D) ELSE Live("2D", Defaults)]
          /\ units = [u \in Units |->
                IF u # 0 THEN NoUnit
                ELSE IF scene = "cube" THEN [flat |-> None, cube |-> A]
                ELSE [flat |-> A, cube |-> None]]

\* What each scene starts from: two textures, two renderbuffers, the framebuffer F.
Stock ==
    CASE scene = "slots" ->
           [a |-> Required(Filled("2D", <<2, 2>>, RGBA8)), b |-> Filled("CUBE", <<2, 2>>, RGBA8),
            r |-> Stocked("RGBA8", <<2, 2>>), q |-> Stocked("RGBA8", <<2, 2>>),
            f |-> IF gates = {} THEN Colored(Flat(A, 0)) ELSE Paired(Flat(A, 0), Buffer(R))]
      [] scene = "planes" ->
           [a |-> Required(Filled("2D", <<2, 2>>, RGBA8)), b |-> Filled("2D", <<2, 2>>, Depth24),
            r |-> Stocked("DEPTH24_STENCIL8", <<2, 2>>), q |-> Stocked("RGBA4", <<2, 2>>),
            f |-> Colored(Flat(A, 0))]
      [] scene = "reads" ->
           [a |-> Filled("2D", <<2, 2>>, RGBA8), b |-> NoTexture,
            r |-> Stocked("RGBA8", <<2, 2>>), q |-> Stocked("RGB565", <<1, 2>>),
            f |-> Colored(Buffer(R))]
      [] scene = "faces" ->
           [a |-> Filled("2D", <<2, 2>>, RGBA8), b |-> Required(Deep(<<2, 2>>)),
            r |-> NoRenderbuffer, q |-> NoRenderbuffer,
            f |-> Colored(Attachment("TEXTURE", B, 0, First))]
      [] OTHER ->
           [a |-> Live("2D", Defaults), b |-> NoTexture, r |-> NoRenderbuffer,
            q |-> NoRenderbuffer, f |-> NoFramebuffer]
StockedWith(stock) ==
    /\ texture = [t \in Textures |-> IF t = A THEN stock.a ELSE stock.b]
    /\ charged = ShadowBytes(stock.a) + ShadowBytes(stock.b)
    /\ renderbuffer = [r \in Renderbuffers |-> IF r = R THEN stock.r ELSE stock.q]
    /\ framebuffer = [f \in Framebuffers |-> IF f = F THEN stock.f ELSE NoFramebuffer]
Holding(t) ==
    [flat |-> IF texture[t].target = "2D" THEN t ELSE None,
     cube |-> IF texture[t].target = "CUBE" THEN t ELSE None]
ScenesOfFramebuffers ==
    /\ gates \in {{}, {"draw_buffers"}} /\ (scene # "slots" => gates = {})
    /\ callbacks \in {AllCallbacks, {"depth", "array"}}
    /\ StockedWith(Stock)
    /\ active = 0 /\ units = [u \in Units |-> Holding(IF u = 0 THEN A ELSE B)]
    /\ boundFramebuffer = (IF scene = "objects" THEN None ELSE F)
    /\ boundRenderbuffer = (IF scene \in {"faces", "objects"} THEN None ELSE R)

MCInit ==
    /\ scene \in TextureScenes \cup FramebufferScenes
    /\ dirty = TRUE /\ sampled = NothingSampled /\ calls = 0 /\ error = "NO_ERROR"
    /\ marks = {} /\ command = None
    /\ \/ scene \in TextureScenes /\ ScenesOfTextures
       \/ scene \in FramebufferScenes /\ ScenesOfFramebuffers

LevelsNext ==
    \/ \E l \in 0..3, size \in {<<4, 2>>, <<2, 1>>, <<1, 1>>, <<3, 1>>} :
          TexImage("2D", l, size, RGBA8, 64, <<9, 80, 200, 70>>)
    \/ \E l \in 0..2 : TexImage("2D", l, <<2, 2>>, RGB8, None, <<0, 0, 0>>)
    \/ \E l \in 0..2, r \in Regions : TexSubImage("2D", l, r, "RGBA", "UBYTE", 64, <<1, 2, 3, 4>>)
    \/ \E l \in 0..1, size \in {<<2, 2>>, <<2, 1>>} : CopyTexImage("2D", l, "RGBA", size, Bytes4)
    \/ \E l \in 0..1, r \in Regions : CopyTexSubImage("2D", l, r, Bytes4)
    \/ GenerateMipmap("2D")
    \/ \E p \in {<<"min", "LINEAR">>, <<"min", "NEAREST_MIPMAP_LINEAR">>, <<"wrapS", "CLAMP">>} :
          TexParameter("2D", p[1], p[2])
    \/ \E l \in 0..2 : RenderTo(A, First, l)
    \/ Sample(0, "2D", Both) \/ DeleteTexture(A)

CubeNext ==
    \/ \E f \in Faces, l \in 0..1, size \in {<<2, 2>>, <<1, 1>>}, request \in {RGBA8, RGB8} :
          TexImage(f, l, size, request, 64, <<9, 80, 200, 70>>)
    \/ \E f \in Faces, l \in 0..1 : CopyTexImage(f, l, "RGBA", <<2, 2>>, Bytes4)
    \/ \E f \in Faces, l \in 0..1 : CopyTexSubImage(f, l, Origin, Bytes4)
    \/ \E f \in Faces, r \in Regions : TexSubImage(f, 0, r, "RGBA", "UBYTE", 64, <<1, 2, 3, 4>>)
    \/ \E f \in Faces, c \in {"DXT5", "SRGB_DXT3"} :
          CompressedTexImage(f, 0, c, <<2, 2>>, 16, CHOOSE b \in Blocks : TRUE)
    \/ GenerateMipmap("CUBE")
    \/ \E p \in {<<"min", "LINEAR_MIPMAP_LINEAR">>, <<"wrapS", "REPEAT">>} :
          TexParameter("CUBE", p[1], p[2])
    \/ \E f \in Faces, l \in 0..1 : RenderTo(A, f, l)
    \/ Sample(0, "CUBE", Both) \/ DeleteTexture(A)

ConvertNext ==
    \/ \E request \in Requests, given \in {None, 3, 64} :
          \E pixel \in Texels4(request[3]) : TexImage("2D", 0, <<1, 1>>, request, given, pixel)
    \/ \E request \in Requests : \E pixel \in Texels4(request[3]) :
          TexSubImage("2D", 0, Origin, request[2], request[3], 64, pixel)
    \/ \E internal \in ColorFormats \cup {"SRGB", "SRGB_ALPHA", "DEPTH32F"}, s \in Sources :
          CopyTexImage("2D", 0, internal, <<1, 1>>, s)
    \/ \E s \in Sources, r \in {Origin, Region(<<0, 0>>, <<2, 2>>)} : CopyTexSubImage("2D", 0, r, s)
    \/ \E c \in Compressed, b \in Blocks \cup {Broken}, size \in {<<1, 1>>, <<2, 2>>} :
          CompressedTexImage("2D", 0, c, size, BlockBytes(c), b)
    \/ \E c \in Compressed, b \in Blocks :
          CompressedTexSubImage("2D", 0, Origin, c, BlockBytes(c), b)
    \/ GenerateMipmap("2D")
    \/ EnableGate("float_linear") \/ Sample(0, "2D", Both)

NamesNext ==
    \/ \E t \in Textures : GenTextures(t) \/ DeleteTexture(t)
    \/ \E t \in Textures \cup {None}, binding \in Bindings : BindTexture(binding, t)
    \/ EnableGate("anisotropic")
    \/ \E value \in {0, 3, NotFinite} : TexParameter("2D", "anisotropy", value)
    \/ TexParameter("2D", "min", "OTHER") \/ TexParameter("2D", "min", "LINEAR")
    \/ \E target \in Targets : TexImage(target, 0, <<1, 1>>, RGBA8, 64, <<9, 80, 200, 70>>)
    \/ \E target \in {"2D", "+X"} : TexSubImage(target, 0, Origin, "RGBA", "UBYTE", 64, <<1, 2, 3, 4>>)
    \/ \E u \in Units, binding \in Bindings, made \in SUBSET Both : Sample(u, binding, made)

SlotsNext ==
    \/ \E slot \in Slots, level \in 0..1 : FramebufferTexture2D(slot, "2D", A, level)
    \/ \E slot \in Slots, f \in Faces : FramebufferTexture2D(slot, f, B, 0)
    \/ FramebufferTexture2D("COLOR1", "2D", None, 0)
    \/ \E slot \in Slots, r \in {R, None} : FramebufferRenderbuffer(slot, r)
    \/ \E format \in {"SRGB8_ALPHA8", "RGB16F", "RGB565", "DEPTH16"} :
          RenderbufferStorage(format, <<2, 2>>)
    \/ RenderbufferStorage("RGBA8", <<1, 1>>)
    \/ \E buffers \in {<<"COLOR0">>, <<"COLOR0", "COLOR1">>, <<"NONE", "COLOR1">>, <<"NONE">>,
                       <<"COLOR1">>, <<"NONE", "NONE", "NONE">>} : DrawBuffers(buffers)
    \/ \E multi \in BOOLEAN, failing \in {{}, {A}} : Draw(multi, {"RGB", "A"}, {}, failing, TRUE)
    \/ Draw(TRUE, {"RGB", "A"}, {}, {}, FALSE)
    \/ \E multi \in BOOLEAN : Clear({"COLOR"}, TRUE, multi, {"RGB", "A"}, {}, TRUE)
    \/ OnTextures(TexImage("2D", 0, <<2, 2>>, RGB8, 64, <<9, 80, 200, 70>>))
    \/ OnTextures(TexImage("2D", 1, <<1, 1>>, RGBA8, 64, <<9, 80, 200, 70>>))
    \/ OnTextures(EnableGate("draw_buffers"))
    \/ DeleteTextures(A) \/ DeleteRenderbuffers(R)

PlanesNext ==
    \/ \E point \in Planes, r \in {R, None} : FramebufferRenderbuffer(point, r)
    \/ \E point \in Planes, level \in 0..1 : FramebufferTexture2D(point, "2D", B, level)
    \/ \E point \in {"DEPTH", "OTHER"} : FramebufferTexture2D(point, "2D", None, 0)
    \/ \E level \in 0..1 : FramebufferTexture2D("COLOR0", "2D", A, level)
    \/ \E r \in {R, Q} : FramebufferRenderbuffer("COLOR0", r)
    \/ \E format \in {"DEPTH16", "DEPTH32F", "STENCIL8", "DEPTH24_STENCIL8", "RGBA8"} :
          RenderbufferStorage(format, <<2, 2>>)
    \/ RenderbufferStorage("DEPTH24_STENCIL8", <<1, 1>>) \/ RenderbufferStorage("OTHER", <<1, 1>>)
    \/ \E enabled \in {{"DEPTH"}, {"DEPTH", "STENCIL"}}, failing \in {{}, {R, B}} :
          Draw(FALSE, {"RGB", "A"}, enabled, failing, TRUE)
    \/ \E mask \in {{"DEPTH"}, {"COLOR", "STENCIL"}, {"OTHER"}, {}} :
          Clear(mask, TRUE, FALSE, {"RGB", "A"}, {}, TRUE)
    \/ OnTextures(TexImage("2D", 1, <<1, 1>>, RGBA8, 64, <<9, 80, 200, 70>>))
    \/ OnTextures(BindTexture("2D", B))
    \/ \E request \in {Depth32, Depth24} :
          OnTextures(TexImage("2D", 0, <<2, 2>>, request, None, <<0, 0, 0, 0>>))
    \/ DeleteTextures(B) \/ DeleteRenderbuffers(R)

Box(at, size) == [at |-> at, size |-> size]
Boxes == {Box(<<0, 0>>, <<2, 2>>), Box(<<-1, 0>>, <<2, 2>>), Box(<<1, 1>>, <<3, 2>>),
          Box(<<-1, -1>>, <<4, 4>>), Box(<<4, 0>>, <<1, 1>>), Box(<<0, 0>>, <<0, 1>>),
          Box(<<0, 0>>, <<-1, 1>>), Box(<<-1, 1>>, <<2, 1>>)}
ReadsNext ==
    \/ \E level \in 0..1 : FramebufferTexture2D("COLOR0", "2D", A, level)
    \/ \E r \in {R, Q} : FramebufferRenderbuffer("COLOR0", r)
    \/ \E format \in ColorStorageFormats : RenderbufferStorage(format, <<2, 2>>)
    \/ \E request \in Wide : OnTextures(TexImage("2D", 0, <<2, 2>>, request, None, <<0, 0, 0, 0>>))
    \/ OnTextures(TexImage("2D", 1, <<1, 1>>, RGBA8, None, <<0, 0, 0, 0>>))
    \/ \E box \in Boxes, type \in ReadTypes, alignment \in {1, 8}, given \in {20, 300} :
          ReadPixels(box, type, alignment, given, {}, TRUE)
    \/ \E box \in Boxes : ReadPixels(box, "FLOAT", 4, None, {}, TRUE)
    \/ ReadPixels(Box(<<0, 0>>, <<1, 1>>), "OTHER", 4, 16, {}, TRUE)
    \/ \E failing \in {{}, {R}} : ReadPixels(Box(<<0, 0>>, <<1, 1>>), "UBYTE", 4, 16, failing, FALSE)

FacesNext ==
    \/ \E f \in Faces, level \in 0..1 : FramebufferTexture2D("COLOR0", f, B, level)
    \/ FramebufferTexture2D("COLOR0", "2D", A, 0)
    \/ \E box \in {Box(<<0, 0>>, <<1, 1>>), Box(<<-1, 0>>, <<2, 2>>)}, reads \in BOOLEAN :
          ReadPixels(box, "UBYTE", 4, 20, {}, reads)
    \/ Draw(FALSE, {"RGB", "A"}, {}, {}, TRUE) \/ DeleteTextures(B)

ObjectsNext ==
    \/ \E f \in Framebuffers : GenFramebuffers(f) \/ DeleteFramebuffers(f)
    \/ \E f \in Framebuffers \cup {None} : BindFramebuffer(f)
    \/ \E r \in Renderbuffers : GenRenderbuffers(r) \/ DeleteRenderbuffers(r)
    \/ \E r \in Renderbuffers \cup {None} : BindRenderbuffer(r)
    \/ \E size \in {<<1, 1>>, <<0, 1>>} : RenderbufferStorage("RGBA8", size)
    \/ \E r \in Renderbuffers : FramebufferRenderbuffer("COLOR0", r)
    \/ FramebufferTexture2D("COLOR0", "2D", A, 0)
    \/ OnTextures(TexImage("2D", 0, <<1, 1>>, RGBA8, 64, <<9, 80, 200, 70>>))
    \/ DeleteTextures(A) \/ Draw(FALSE, {"RGB", "A"}, {}, {}, TRUE)

SceneNext ==
    /\ \/ scene = "levels" /\ LevelsNext
       \/ scene = "cube" /\ CubeNext
       \/ scene = "convert" /\ calls < 2 /\ ConvertNext
       \/ scene = "names" /\ NamesNext
       \/ \E u \in Units : (u # 0 => scene = "names") /\ ActiveTexture(u)
    /\ UNCHANGED <<framebuffer, renderbuffer, boundFramebuffer, boundRenderbuffer>>
    /\ command' = None
    /\ Marking(IF \E t \in Textures : texture'[t].renderable /\ ~texture[t].renderable
               THEN {"FRAMEBUFFER"} ELSE {})
MCNext ==
    /\ UNCHANGED scene
    /\ \/ SceneNext
       \/ scene = "slots" /\ calls < 3 /\ SlotsNext
       \/ scene = "planes" /\ calls < 4 /\ PlanesNext
       \/ scene = "reads" /\ calls < 4 /\ ReadsNext
       \/ scene = "faces" /\ FacesNext
       \/ scene = "objects" /\ ObjectsNext
MCSpec == MCInit /\ [][MCNext]_<<textureVars, targetVars, command, scene>>
=============================================================================
