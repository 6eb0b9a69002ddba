-------------------------- MODULE FramebuffersProofs --------------------------
(***************************************************************************)
(* What framebuffers that are complete give to the device fits them, they  *)
(* can be drawn to, reads deliver what they say and changes are marked,    *)
(* for any number of framebuffers, slots and renderbuffers, images of any  *)
(* size and any calls.  The textures among the attachments are those of    *)
(* TexturesInvariant (CpuBudgetProofs).                                    *)
(***************************************************************************)
EXTENDS Framebuffers, CpuBudgetProofs

-----------------------------------------------------------------------------
(***************************************************************************)
(* Framebuffers.  What is attached is a live texture, a color target when  *)
(* it is in a slot, on its first face when it has no others or is a plane; *)
(* or a live renderbuffer.  Draw buffers were chosen with their extension. *)
(***************************************************************************)
TextureHeld(texs, a) ==
    /\ a.kind = "TEXTURE" /\ a.object \in Textures /\ texs[a.object].name = "live"
    /\ a.level \in Levels /\ a.layer \in Faces
BufferHeld(rbs, a) ==
    /\ a.kind = "RENDERBUFFER" /\ a.object \in Renderbuffers /\ rbs[a.object].name = "live"
    /\ a.level = 0 /\ a.layer \in Faces
ColorHeld(texs, rbs, a) ==
    \/ a = NoAttachment \/ BufferHeld(rbs, a)
    \/ /\ TextureHeld(texs, a) /\ texs[a.object].renderable
       /\ texs[a.object].target # "CUBE" => a.layer = First
PlaneHeld(texs, rbs, a) ==
    a = NoAttachment \/ BufferHeld(rbs, a) \/ (TextureHeld(texs, a) /\ a.layer = First)

FramebufferFields == {"name", "color", "depth", "stencil", "hasStencil", "drawBuffers"}
FramebufferGood(fb, texs, rbs, gs) ==
    /\ DOMAIN fb = FramebufferFields /\ DOMAIN fb.color = Slots
    /\ \A s \in Slots : ColorHeld(texs, rbs, fb.color[s])
    /\ PlaneHeld(texs, rbs, fb.depth) /\ PlaneHeld(texs, rbs, fb.stencil)
    /\ fb.drawBuffers # None => fb.drawBuffers \subseteq Slots /\ "draw_buffers" \in gs

(* A renderbuffer has the image of its present storage, or none.            *)
StorageFormats == ColorStorageFormats \cup PlaneStorageFormats
StorageImage(r) ==
    [format |-> IF r.format \in PlaneStorageFormats THEN PlaneFormat(r.format)
                ELSE DeviceFormat(StorageFormat(r.format)), size |-> r.size]
RenderbufferGood(r) ==
    /\ DOMAIN r = {"name", "format", "size", "image"} /\ IsSize(r.size)
    /\ r.image # NoImage => r.format \in StorageFormats /\ r.image = StorageImage(r)

TargetsGood ==
    /\ DOMAIN framebuffer = Framebuffers /\ DOMAIN renderbuffer = Renderbuffers
    /\ boundFramebuffer \in Framebuffers \cup {None}
    /\ boundRenderbuffer \in Renderbuffers \cup {None}
    /\ \A f \in Framebuffers : FramebufferGood(framebuffer[f], texture, renderbuffer, gates)
    /\ \A r \in Renderbuffers : RenderbufferGood(renderbuffer[r])

-----------------------------------------------------------------------------
(* An image that a texture has is made of what it was built from.           *)
ImageFields == {"size", "format", "target", "levels", "texels", "drawn"}
LEMMA ImageHas ==
    ASSUME NEW x, Current(x), x.image # NoImage
    PROVE  /\ DOMAIN x.image = ImageFields
           /\ x.image.size = BaseSize(SummaryOf(x.target, x.faces))
           /\ x.image.format = RinGpuFormat(SummaryOf(x.target, x.faces).format)
           /\ x.image.levels = CountOf(x.target, x.faces, x.renderable)
<1> DEFINE summary == SummaryOf(x.target, x.faces)
           count == CountOf(x.target, x.faces, x.renderable)
           plain == [x.image EXCEPT !.drawn = {}]
<1>1. plain = WouldBe(x)
  BY DEF Current, ImageCurrent
<1>2. /\ DOMAIN WouldBe(x) = ImageFields /\ WouldBe(x).size = BaseSize(summary)
      /\ WouldBe(x).format = RinGpuFormat(summary.format) /\ WouldBe(x).levels = count
  <2> HIDE DEF summary, count
  <2> QED
    BY DEF WouldBe, ImageFor, ImageOf, ImageFields, summary, count
<1>3. /\ DOMAIN plain = DOMAIN x.image /\ plain.size = x.image.size
      /\ plain.format = x.image.format /\ plain.levels = x.image.levels
  OBVIOUS
<1> HIDE DEF plain
<1> QED
  BY <1>1, <1>2, <1>3

(* Drawing to an image keeps it.                                            *)
LEMMA DrawnKept ==
    ASSUME NEW x, Current(x), x.name = "live", x.image # NoImage, NEW places
    PROVE  LET y == DrawnAt(x, places)
           IN /\ Current(y) /\ SameBuild(y, x) /\ y.name = x.name
              /\ DOMAIN y.image = ImageFields
              /\ y.image.size = x.image.size /\ y.image.format = x.image.format
              /\ y.image.levels = x.image.levels
<1> DEFINE touched == [x.image EXCEPT !.drawn = @ \cup places]
           y == [x EXCEPT !.image = touched]
<1>1. CASE places = {}
  BY <1>1, ImageHas DEF DrawnAt, SameBuild
<1>2. CASE places # {}
  <2>1. DrawnAt(x, places) = y
    BY <1>2 DEF DrawnAt
  <2>2. DOMAIN x.image = ImageFields /\ [x.image EXCEPT !.drawn = {}] = WouldBe(x)
    BY ImageHas DEF Current, ImageCurrent
  <2>3. /\ DOMAIN touched = DOMAIN x.image /\ touched.size = x.image.size
        /\ touched.format = x.image.format /\ touched.levels = x.image.levels
        /\ [touched EXCEPT !.drawn = {}] = [x.image EXCEPT !.drawn = {}]
    <3> DEFINE drawn == x.image.drawn \cup places
    <3>1. touched = [x.image EXCEPT !.drawn = drawn]
      OBVIOUS
    <3> HIDE DEF drawn, touched
    <3>2. DOMAIN touched = DOMAIN x.image
      BY <3>1
    <3>3. \A k \in DOMAIN x.image : k # "drawn" => touched[k] = x.image[k]
      BY <3>1
    <3>4. touched.size = x.image.size /\ touched.format = x.image.format
          /\ touched.levels = x.image.levels
      BY <2>2, <3>3 DEF ImageFields
    <3>5. [touched EXCEPT !.drawn = {}] = [x.image EXCEPT !.drawn = {}]
      BY <3>2, <3>3
    <3> QED
      BY <3>2, <3>4, <3>5
  <2> HIDE DEF touched
  <2>4. Current(y)
    BY <2>2, <2>3, ImageGiven
  <2>5. SameBuild(y, x) /\ y.name = x.name /\ y.image = touched
    BY ImageEdited DEF Current
  <2> HIDE DEF y
  <2> QED
    BY <2>1, <2>2, <2>3, <2>4, <2>5
<1> QED
  BY <1>1, <1>2

LEMMA NotNoImage == ASSUME NEW image, DOMAIN image = ImageFields PROVE image # NoImage
<1>1. DOMAIN NoImage = {"levels"}
  BY DEF NoImage
<1> QED
  BY <1>1 DEF ImageFields

(* An image that is asked for is there, if it can be had.                   *)
LEMMA RealizedKept ==
    ASSUME NEW x, Current(x), x.name = "live"
    PROVE  LET y == [x EXCEPT !.image = RealizedImage(x)]
           IN /\ Current(y) /\ SameBuild(y, x) /\ y.name = x.name /\ y.image = RealizedImage(x)
              /\ x.image # NoImage => y.image = x.image
<1>1. RealizedImage(x) # NoImage => [RealizedImage(x) EXCEPT !.drawn = {}] = WouldBe(x)
  BY BuiltCurrent
<1>2. x.image # NoImage => RealizedImage(x) = x.image
  BY DEF RealizedImage
<1> DEFINE image == RealizedImage(x)
           y == [x EXCEPT !.image = image]
<1> HIDE DEF image
<1>3. Current(y)
  BY <1>1, ImageGiven DEF image
<1>4. SameBuild(y, x) /\ y.name = x.name /\ y.image = image
  BY ImageEdited DEF Current
<1> HIDE DEF y
<1>5. /\ Current(y) /\ SameBuild(y, x) /\ y.name = x.name /\ y.image = image
      /\ x.image # NoImage => y.image = x.image
  BY <1>2, <1>3, <1>4 DEF image
<1> QED
  BY <1>5 DEF y, image

(* Any textures may get other images, as long as they are current.          *)
LEMMA ImagesStep ==
    ASSUME TexturesInvariant, DOMAIN texture' = Textures,
           \A t \in Textures :
               /\ Current(texture'[t]) /\ texture'[t].faces = texture[t].faces
               /\ texture'[t].name = texture[t].name /\ texture'[t].target = texture[t].target,
           UNCHANGED <<units, active, charged>>, sampled' = NothingSampled
    PROVE  TexturesInvariant'
<1>1. ASSUME NEW t \in Textures
      PROVE  TextureGood(texture'[t]) /\ ShadowBytes(texture'[t]) = ShadowBytes(texture[t])
  <2>1. TextureGood(texture[t])
    BY DEF TexturesInvariant, TexturesGood
  <2> QED
    BY <2>1, SameFaces
<1>2. TexturesGood'
  BY <1>1 DEF TexturesGood
<1>3. UnitsGood'
  BY DEF TexturesInvariant, UnitsGood, BoundAs, LiveAs
<1>4. AllShadowBytes' = AllShadowBytes
  <2>1. [t \in Textures |-> ShadowBytes(texture'[t])] = [t \in Textures |-> ShadowBytes(texture[t])]
    BY <1>1
  <2> QED
    BY <2>1 DEF AllShadowBytes
<1>5. ChargeGood'
  BY <1>4 DEF TexturesInvariant, ChargeGood, ChargeCovers
<1> QED
  BY <1>2, <1>3, <1>5, NoSample DEF TexturesInvariant

-----------------------------------------------------------------------------
(* What a call on textures leaves alone: live ones stay live with their     *)
(* target and use; what changes faces or drops a 2D image marks bindings.   *)
LiveKept(x, y) ==
    x.name = "live" => y.name = "live" /\ y.target = x.target /\ y.renderable = x.renderable
Dropped(x, y) == x.target = "2D" /\ x.image # NoImage /\ y.image = NoImage
FacesKept(x, y) == x.name = "live" => y.faces = x.faces
Leaves(x, y, marked) == LiveKept(x, y) /\ (marked \/ (FacesKept(x, y) /\ ~Dropped(x, y)))

LEMMA SameLeft == ASSUME NEW x, NEW marked PROVE Leaves(x, x, marked)
  BY DEF Leaves, LiveKept, FacesKept, Dropped

LEMMA FaceCallLeaves ==
    ASSUME TexturesInvariant, NEW target \in Targets,
           \/ \E code : Refused(code) \/ Abandoned(target, code)
           \/ \E new : Replace(target, new)
    PROVE  /\ UNCHANGED <<gates, callbacks>>
           /\ \A t \in Textures : Leaves(texture[t], texture'[t], dirty')
<1>0. DOMAIN texture = Textures /\ \A t \in Textures : Current(texture[t])
  BY DEF TexturesInvariant, TexturesGood, TextureGood
<1>1. CASE \E code : Refused(code)
  BY <1>1, SameLeft DEF Refused
<1>2. CASE \E code : Abandoned(target, code)
  <2>1. UNCHANGED <<gates, callbacks>> /\ texture' = Prepared(target)
    BY <1>2 DEF Abandoned
  <2>2. CASE ~IsFace(target)
    BY <2>1, <2>2, SameLeft DEF Prepared
  <2>3. CASE IsFace(target)
    <3> DEFINE o == Owner(target)
    <3>1. texture' = [texture EXCEPT ![o].image = NoImage]
      BY <2>1, <2>3 DEF Prepared, Discarded
    <3> SUFFICES ASSUME NEW t \in Textures PROVE Leaves(texture[t], texture'[t], dirty')
      BY <2>1
    <3>2. CASE t # o
      <4>1. texture'[t] = texture[t]
        BY <1>0, <3>1, <3>2
      <4> QED
        BY <4>1, SameLeft
    <3>3. CASE t = o
      <4> DEFINE x == texture[t]
                 y == [x EXCEPT !.image = NoImage]
      <4>1. texture'[t] = y
        BY <1>0, <3>1, <3>3
      <4>2. y.name = x.name /\ SameBuild(y, x)
        BY <1>0, ImageEdited DEF Current
      <4>3. x.target = "CUBE"
        <5>1. o # None
          BY <3>3, TextureFacts
        <5>2. BoundAs(o, BindingOf(target)) /\ BindingOf(target) = "CUBE"
          BY <2>3, <5>1, OwnerFacts
        <5> QED
          BY <3>3, <5>2 DEF BoundAs, LiveAs
      <4> HIDE DEF y
      <4> QED
        BY <4>1, <4>2, <4>3 DEF Leaves, LiveKept, FacesKept, Dropped, SameBuild
    <3> QED
      BY <3>2, <3>3
  <2> QED
    BY <2>2, <2>3
<1>3. CASE \E new : Replace(target, new)
  <2> PICK new : Replace(target, new)
    BY <1>3
  <2> DEFINE o == Owner(target)
             f == FaceOf(target)
  <2>1. /\ UNCHANGED <<gates, callbacks>> /\ dirty'
        /\ texture' = [[texture EXCEPT ![o].image = NoImage] EXCEPT ![o].faces[f] = new]
    BY DEF Replace, Discarded
  <2> SUFFICES ASSUME NEW t \in Textures PROVE LiveKept(texture[t], texture'[t])
    BY <2>1 DEF Leaves
  <2> HIDE DEF o, f
  <2>2. CASE t # o
    <3>1. texture'[t] = texture[t]
      BY <1>0, <2>1, <2>2
    <3> QED
      BY <3>1 DEF LiveKept
  <2>3. CASE t = o
    <3> DEFINE x == texture[t]
    <3>1. texture'[t] = [[x EXCEPT !.image = NoImage] EXCEPT !.faces[f] = new]
      BY <1>0, <2>1, <2>3
    <3>2. DOMAIN x = TextureFields
      BY <1>0 DEF Current, TextureShaped
    <3> QED
      BY <3>1, <3>2 DEF LiveKept, TextureFields
  <2> QED
    BY <2>2, <2>3
<1> QED
  BY <1>1, <1>2, <1>3

LEMMA OneLeft ==
    ASSUME TexturesInvariant, NEW o, NEW y, texture' = [texture EXCEPT ![o] = y],
           o \in Textures => Leaves(texture[o], y, dirty')
    PROVE  \A t \in Textures : Leaves(texture[t], texture'[t], dirty')
<1>0. DOMAIN texture = Textures
  BY DEF TexturesInvariant, TexturesGood
<1> SUFFICES ASSUME NEW t \in Textures PROVE Leaves(texture[t], texture'[t], dirty')
  OBVIOUS
<1>1. CASE t = o
  <2>1. texture'[t] = y
    BY <1>0, <1>1
  <2> QED
    BY <1>1, <2>1
<1>2. CASE t # o
  <2>1. texture'[t] = texture[t]
    BY <1>0, <1>2
  <2> QED
    BY <2>1, SameLeft
<1> QED
  BY <1>1, <1>2

LEMMA ImageCallLeaves ==
    ASSUME TexturesInvariant, DefineImage \/ UpdateImage
    PROVE  /\ UNCHANGED <<gates, callbacks>>
           /\ \A t \in Textures : Leaves(texture[t], texture'[t], dirty')
<1>1. CASE DefineImage
  <2>1. PICK target \in Targets, level \in Int, size \in Int \X Int, given \in AnyCount :
           \/ \E request \in STRING \X STRING \X STRING : \E pixel \in AnyTexel(request[3]) :
                 TexImage(target, level, size, request, given, pixel)
           \/ \E internal \in STRING, source \in AnySource :
                 CopyTexImage(target, level, internal, size, source)
           \/ \E c \in Compressed, block \in AnyBlock :
                 CompressedTexImage(target, level, c, size, given, block)
    BY <1>1 DEF DefineImage
  <2>2. \/ \E code : Refused(code) \/ Abandoned(target, code)
        \/ \E new : Replace(target, new)
    BY <2>1 DEF TexImage, CopyTexImage, CompressedTexImage, Checked
  <2> QED
    BY <2>2, FaceCallLeaves
<1>2. CASE UpdateImage
  <2>1. PICK target \in Targets, level \in Int, region \in AnyRegion, given \in AnyCount :
           \/ \E format, type \in STRING : \E pixel \in AnyTexel(type) :
                 TexSubImage(target, level, region, format, type, given, pixel)
           \/ \E source \in AnySource : CopyTexSubImage(target, level, region, source)
           \/ \E c \in Compressed, block \in AnyBlock :
                 CompressedTexSubImage(target, level, region, c, given, block)
    BY <1>2 DEF UpdateImage
  <2>2. \/ \E code : Refused(code) \/ Abandoned(target, code)
        \/ \E new : Replace(target, new)
    BY <2>1 DEF TexSubImage, CopyTexSubImage, CompressedTexSubImage, Checked, Written
  <2> QED
    BY <2>2, FaceCallLeaves
<1> QED
  BY <1>1, <1>2

LEMMA NameCallLeaves ==
    ASSUME TexturesInvariant, ChangeBinding
    PROVE  /\ UNCHANGED <<gates, callbacks>>
           /\ \A t \in Textures : Leaves(texture[t], texture'[t], dirty')
<1>0. DOMAIN texture = Textures /\ \A t \in Textures : Current(texture[t])
  BY DEF TexturesInvariant, TexturesGood, TextureGood
<1>1. ASSUME NEW t \in Textures, GenTextures(t)
      PROVE  /\ UNCHANGED <<gates, callbacks>>
             /\ \A u \in Textures : Leaves(texture[u], texture'[u], dirty')
  <2> DEFINE x == texture[t]
             y == [x EXCEPT !.name = "reserved"]
  <2>1. CASE Refused("OUT_OF_MEMORY")
    BY <2>1, SameLeft DEF Refused
  <2>2. CASE /\ x.name = "free" /\ texture' = [texture EXCEPT ![t].name = "reserved"]
             /\ UNCHANGED <<gates, callbacks>>
    <3>1. texture' = [texture EXCEPT ![t] = y]
      BY <1>0, <2>2
    <3>2. y.image = x.image
      BY <1>0 DEF Current, TextureShaped, TextureFields
    <3>3. Leaves(x, y, dirty')
      BY <2>2, <3>2 DEF Leaves, LiveKept, FacesKept, Dropped
    <3> HIDE DEF y
    <3> QED
      BY <2>2, <3>1, <3>3, OneLeft
  <2> QED
    BY <1>1, <2>1, <2>2 DEF GenTextures
<1>2. ASSUME NEW t \in Textures \cup {None}, NEW binding \in Bindings, BindTexture(binding, t)
      PROVE  /\ UNCHANGED <<gates, callbacks>>
             /\ \A u \in Textures : Leaves(texture[u], texture'[u], dirty')
  <2> DEFINE x == texture[t]
             y == Promoted(x, binding)
  <2>1. CASE UNCHANGED <<texture, gates, callbacks>>
    BY <2>1, SameLeft
  <2>2. CASE /\ t # None /\ (x.name = "live" => x.target = binding)
             /\ texture' = [texture EXCEPT ![t] = Promoted(@, binding)]
             /\ UNCHANGED <<gates, callbacks>>
    <3>1. t \in Textures /\ texture' = [texture EXCEPT ![t] = y]
      BY <1>0, <2>2
    <3>2. /\ y.faces = x.faces /\ y.renderable = x.renderable /\ y.image = x.image
          /\ y.name = "live" /\ y.target = binding
      BY <1>0, <3>1, PromotedEdited DEF Current
    <3>3. x.name # "live" => x.image = NoImage
      BY <1>0, <3>1 DEF Current, LiveOnly
    <3> HIDE DEF y
    <3>4. Leaves(x, y, dirty')
      BY <2>2, <3>2, <3>3 DEF Leaves, LiveKept, FacesKept, Dropped
    <3> QED
      BY <2>2, <3>1, <3>4, OneLeft
  <2> QED
    BY <1>2, <2>1, <2>2 DEF BindTexture, Refused
<1>3. ASSUME NEW unit, ActiveTexture(unit)
      PROVE  /\ UNCHANGED <<gates, callbacks>>
             /\ \A u \in Textures : Leaves(texture[u], texture'[u], dirty')
  BY <1>3, SameLeft DEF ActiveTexture
<1> QED
  BY <1>1, <1>2, <1>3 DEF ChangeBinding

LEMMA SampleLeaves ==
    ASSUME TexturesInvariant, SampleUnit
    PROVE  /\ UNCHANGED <<gates, callbacks>>
           /\ \A t \in Textures : Leaves(texture[t], texture'[t], dirty')
<1>0. DOMAIN texture = Textures /\ \A t \in Textures : Current(texture[t])
  BY DEF TexturesInvariant, TexturesGood, TextureGood
<1>1. PICK unit \in Units, binding \in Bindings, made \in SUBSET {"image", "sampler"} :
         Sample(unit, binding, made)
  BY DEF SampleUnit
<1> DEFINE bound == IF binding = "CUBE" THEN units[unit].cube ELSE units[unit].flat
           t == RealizedName(unit)
           x == texture[t]
           y == Realized(x, made)
<1>2. UNCHANGED <<gates, callbacks>>
  BY <1>1 DEF Sample
<1>3. CASE texture' = texture
  BY <1>2, <1>3, SameLeft
<1>4. CASE bound # None /\ texture' = [texture EXCEPT ![t] = y]
  <2>1. /\ units[unit].flat # None => BoundAs(units[unit].flat, "2D")
        /\ units[unit].cube # None => BoundAs(units[unit].cube, "CUBE")
    BY DEF TexturesInvariant, UnitsGood
  <2>2. t \in Textures /\ x.name = "live"
    BY <1>4, <2>1 DEF RealizedName, LiveAs, BoundAs, Bindings
  <2>3. SameBuild(y, x) /\ y.name = x.name /\ y.image = ImageMade(x, made)
    BY <1>0, <2>2, Realizing
  <2>4. x.image # NoImage => y.image = x.image
    BY <2>3 DEF ImageMade, RealizedImage
  <2> HIDE DEF y, t
  <2>5. Leaves(x, y, dirty')
    BY <2>3, <2>4 DEF Leaves, LiveKept, FacesKept, Dropped, SameBuild
  <2> QED
    BY <1>2, <1>4, <2>2, <2>5, OneLeft
<1> QED
  BY <1>1, <1>3, <1>4 DEF Sample, SampledAs

LEMMA MipmapLeaves ==
    ASSUME TexturesInvariant, NEW binding \in Bindings, GenerateMipmap(binding)
    PROVE  /\ UNCHANGED <<gates, callbacks>>
           /\ \A t \in Textures : Leaves(texture[t], texture'[t], dirty')
<1>0. DOMAIN texture = Textures /\ \A t \in Textures : Current(texture[t])
  BY DEF TexturesInvariant, TexturesGood, TextureGood
<1> DEFINE t == BoundTo(binding)
           x == texture[t]
           faces == IF binding = "CUBE" THEN Faces ELSE {First}
           bytes == ChainBytes(x, faces)
           y == WithChains(x, faces)
<1>1. /\ UNCHANGED <<gates, callbacks>>
      /\ \/ Refused(MipmapError(binding, bytes))
         \/ dirty' /\ texture' = [texture EXCEPT ![t] = y]
  BY DEF GenerateMipmap, ChainBytes, WithChains, Refused
<1>2. CASE Refused(MipmapError(binding, bytes))
  BY <1>1, <1>2, SameLeft DEF Refused
<1>3. CASE dirty' /\ texture' = [texture EXCEPT ![t] = y]
  <2>1. ASSUME t \in Textures PROVE LiveKept(x, y)
    <3>1. DOMAIN x = TextureFields
      BY <1>0, <2>1 DEF Current, TextureShaped
    <3> HIDE DEF x
    <3> QED
      BY <3>1 DEF WithChains, TextureFields, LiveKept
  <2> HIDE DEF y, t
  <2> QED
    BY <1>1, <1>3, <2>1, OneLeft DEF Leaves
<1> QED
  BY <1>1, <1>2, <1>3

LEMMA ParameterLeaves ==
    ASSUME TexturesInvariant, NEW binding \in Bindings, NEW name, NEW value,
           TexParameter(binding, name, value)
    PROVE  /\ UNCHANGED <<gates, callbacks>>
           /\ \A t \in Textures : Leaves(texture[t], texture'[t], dirty')
<1>0. DOMAIN texture = Textures /\ \A t \in Textures : Current(texture[t])
  BY DEF TexturesInvariant, TexturesGood, TextureGood
<1> DEFINE t == BoundTo(binding)
           x == texture[t]
           y == WithParameter(x, name, ParameterStored(name, value))
<1>1. /\ UNCHANGED <<gates, callbacks>>
      /\ \/ texture' = texture
         \/ texture' = [texture EXCEPT ![t] = WithParameter(@, name, ParameterStored(name, value))]
  BY DEF TexParameter, Refused
<1>2. CASE texture' = texture
  BY <1>1, <1>2, SameLeft
<1>3. CASE texture' = [texture EXCEPT ![t] = WithParameter(@, name, ParameterStored(name, value))]
  <2>1. texture' = [texture EXCEPT ![t] = y]
    BY <1>3
  <2>2. ASSUME t \in Textures PROVE Leaves(x, y, dirty')
    <3>1. SameImage(y, x) /\ y.name = x.name
      BY <1>0, <2>2, ParameterEdited DEF Current
    <3> HIDE DEF y
    <3> QED
      BY <3>1 DEF Leaves, LiveKept, FacesKept, Dropped, SameImage, SameBuild
  <2> HIDE DEF y, t
  <2> QED
    BY <1>1, <2>1, <2>2, OneLeft
<1> QED
  BY <1>1, <1>2, <1>3

LEMMA CallLeaves ==
    ASSUME TexturesInvariant, TextureCall
    PROVE  /\ gates \subseteq gates' /\ callbacks' = callbacks
           /\ \A t \in Textures : Leaves(texture[t], texture'[t], dirty')
<1>1. CASE DefineImage \/ UpdateImage
  BY <1>1, ImageCallLeaves
<1>2. CASE ChangeBinding \/ SampleUnit
  BY <1>2, NameCallLeaves, SampleLeaves
<1>3. CASE \E binding \in Bindings : GenerateMipmap(binding)
  BY <1>3, MipmapLeaves
<1>4. CASE \E binding \in Bindings, name \in STRING, value \in STRING \cup Int \cup {NotFinite} :
              TexParameter(binding, name, value)
  BY <1>4, ParameterLeaves
<1>5. CASE \E gate \in STRING : EnableGate(gate)
  BY <1>5, SameLeft DEF EnableGate
<1> QED
  BY <1>1, <1>2, <1>3, <1>4, <1>5 DEF TextureCall

-----------------------------------------------------------------------------
(***************************************************************************)
(* Framebuffers and renderbuffers under every call.                        *)
(***************************************************************************)
StaysLive(x, y) ==
    x.name = "live" => y.name = "live" /\ y.target = x.target /\ (x.renderable => y.renderable)
BufferStays(r, q) == r.name = "live" => q.name = "live"

LEMMA HeldKept ==
    ASSUME NEW texs, NEW texs2, \A t \in Textures : StaysLive(texs[t], texs2[t]),
           NEW rbs, NEW rbs2, \A r \in Renderbuffers : BufferStays(rbs[r], rbs2[r])
    PROVE  \A a : /\ ColorHeld(texs, rbs, a) => ColorHeld(texs2, rbs2, a)
                  /\ PlaneHeld(texs, rbs, a) => PlaneHeld(texs2, rbs2, a)
<1> SUFFICES ASSUME NEW a
             PROVE  /\ ColorHeld(texs, rbs, a) => ColorHeld(texs2, rbs2, a)
                    /\ PlaneHeld(texs, rbs, a) => PlaneHeld(texs2, rbs2, a)
  OBVIOUS
<1>1. BufferHeld(rbs, a) => BufferHeld(rbs2, a)
  BY DEF BufferHeld, BufferStays
<1>2. TextureHeld(texs, a) => /\ TextureHeld(texs2, a)
                              /\ texs2[a.object].target = texs[a.object].target
                              /\ texs[a.object].renderable => texs2[a.object].renderable
  BY DEF TextureHeld, StaysLive
<1> QED
  BY <1>1, <1>2 DEF ColorHeld, PlaneHeld

LEMMA FramebufferKept ==
    ASSUME NEW texs, NEW texs2, \A t \in Textures : StaysLive(texs[t], texs2[t]),
           NEW rbs, NEW rbs2, \A r \in Renderbuffers : BufferStays(rbs[r], rbs2[r]),
           NEW gs, NEW gs2, gs \subseteq gs2, NEW fb, FramebufferGood(fb, texs, rbs, gs)
    PROVE  FramebufferGood(fb, texs2, rbs2, gs2)
  BY HeldKept DEF FramebufferGood

LEMMA SameHeld ==
    /\ \A t \in Textures : StaysLive(texture[t], texture[t])
    /\ \A r \in Renderbuffers : BufferStays(renderbuffer[r], renderbuffer[r])
  BY DEF StaysLive, BufferStays

(* A call on textures that deletes none.                                    *)
LEMMA OnTexturesTargets ==
    ASSUME TexturesInvariant, TargetsGood, OnTextures(TextureCall)
    PROVE  TargetsGood'
<1>1. /\ TextureCall /\ UNCHANGED <<framebuffer, renderbuffer, boundFramebuffer, boundRenderbuffer>>
  BY DEF OnTextures, targetVars
<1>2. gates \subseteq gates' /\ \A t \in Textures : StaysLive(texture[t], texture'[t])
  BY <1>1, CallLeaves DEF Leaves, LiveKept, StaysLive
<1>3. \A r \in Renderbuffers : BufferStays(renderbuffer[r], renderbuffer'[r])
  BY <1>1, SameHeld
<1>4. \A f \in Framebuffers : FramebufferGood(framebuffer'[f], texture', renderbuffer', gates')
  BY <1>1, <1>2, <1>3, FramebufferKept DEF TargetsGood
<1> QED
  BY <1>1, <1>4 DEF TargetsGood

(* The calls on framebuffers.                                               *)
LEMMA EmptyFramebuffer ==
    /\ NoAttachment.kind = "NONE" /\ NoAttachment.level = 0 /\ NoAttachment.layer = First
    /\ \A texs, rbs, gs : FramebufferGood(NoFramebuffer, texs, rbs, gs)
<1>1. /\ DOMAIN NoFramebuffer = FramebufferFields /\ DOMAIN NoFramebuffer.color = Slots
      /\ \A s \in Slots : NoFramebuffer.color[s] = NoAttachment
      /\ NoFramebuffer.depth = NoAttachment /\ NoFramebuffer.stencil = NoAttachment
      /\ NoFramebuffer.drawBuffers = None
  BY DEF NoFramebuffer, FramebufferFields
<1> QED
  BY <1>1 DEF FramebufferGood, ColorHeld, PlaneHeld, NoAttachment, Attachment

LEMMA FramebufferNamed ==
    ASSUME NEW fb, NEW texs, NEW rbs, NEW gs, FramebufferGood(fb, texs, rbs, gs), NEW name
    PROVE  FramebufferGood([fb EXCEPT !.name = name], texs, rbs, gs)
<1> DEFINE y == [fb EXCEPT !.name = name]
<1>1. /\ DOMAIN y = FramebufferFields /\ y.color = fb.color /\ y.depth = fb.depth
      /\ y.stencil = fb.stencil /\ y.drawBuffers = fb.drawBuffers
  BY DEF FramebufferGood, FramebufferFields
<1> HIDE DEF y
<1>2. FramebufferGood(y, texs, rbs, gs)
  BY <1>1 DEF FramebufferGood
<1> QED
  BY <1>2 DEF y

LEMMA AttachedGood ==
    ASSUME NEW fb, NEW texs, NEW rbs, NEW gs, FramebufferGood(fb, texs, rbs, gs), NEW point, NEW a,
           point \in Slots \cup Planes,
           point \in Slots => ColorHeld(texs, rbs, a), point \in Planes => PlaneHeld(texs, rbs, a)
    PROVE  FramebufferGood(AttachedAt(fb, point, a), texs, rbs, gs)
<1>1. CASE point \in Planes
  <2> DEFINE y == AttachedPlane(fb, point, a)
  <2>1. /\ DOMAIN y = FramebufferFields /\ y.color = fb.color /\ y.drawBuffers = fb.drawBuffers
        /\ y.depth \in {a, fb.depth} /\ y.stencil \in {a, fb.stencil}
    BY DEF AttachedPlane, FramebufferGood, FramebufferFields
  <2>2. AttachedAt(fb, point, a) = y
    BY <1>1 DEF AttachedAt
  <2> HIDE DEF y
  <2> QED
    BY <1>1, <2>1, <2>2 DEF FramebufferGood
<1>2. CASE point \notin Planes
  <2> DEFINE y == [fb EXCEPT !.color[point] = a]
  <2>1. /\ DOMAIN y = FramebufferFields /\ y.depth = fb.depth /\ y.stencil = fb.stencil
        /\ y.drawBuffers = fb.drawBuffers /\ DOMAIN y.color = Slots
        /\ \A s \in Slots : y.color[s] \in {a, fb.color[s]}
    BY DEF FramebufferGood, FramebufferFields
  <2>2. AttachedAt(fb, point, a) = y
    BY <1>2 DEF AttachedAt
  <2> HIDE DEF y
  <2> QED
    BY <1>2, <2>1, <2>2 DEF FramebufferGood
<1> QED
  BY <1>1, <1>2

(* One framebuffer changes and no texture or renderbuffer does.             *)
LEMMA OneFramebuffer ==
    ASSUME TargetsGood, NEW f \in Framebuffers, NEW y,
           FramebufferGood(y, texture, renderbuffer, gates),
           framebuffer' = [framebuffer EXCEPT ![f] = y],
           UNCHANGED <<texture, renderbuffer, gates, boundRenderbuffer>>,
           boundFramebuffer' \in Framebuffers \cup {None}
    PROVE  TargetsGood'
<1>1. /\ DOMAIN framebuffer' = Framebuffers
      /\ \A g \in Framebuffers : framebuffer'[g] \in {y, framebuffer[g]}
  BY DEF TargetsGood
<1>2. \A g \in Framebuffers : FramebufferGood(framebuffer'[g], texture', renderbuffer', gates')
  BY <1>1 DEF TargetsGood
<1> QED
  BY <1>1, <1>2 DEF TargetsGood

LEMMA NothingTargets ==
    ASSUME TargetsGood,
           UNCHANGED <<texture, gates, framebuffer, renderbuffer, boundFramebuffer, boundRenderbuffer>>
    PROVE  TargetsGood'
<1>1. \A f \in Framebuffers : FramebufferGood(framebuffer'[f], texture', renderbuffer', gates')
  BY DEF TargetsGood
<1> QED
  BY <1>1 DEF TargetsGood

LEMMA DeniedTargets == ASSUME TargetsGood, NEW code, Denied(code) PROVE TargetsGood'
  BY NothingTargets DEF Denied, storageVars, targetVars

LEMMA GenFramebuffersTargets ==
    ASSUME TargetsGood, NEW f \in Framebuffers, GenFramebuffers(f)
    PROVE  TargetsGood'
<1> DEFINE y == [framebuffer[f] EXCEPT !.name = "reserved"]
<1>1. CASE Denied("OUT_OF_MEMORY")
  BY <1>1, DeniedTargets
<1>2. CASE /\ framebuffer' = [framebuffer EXCEPT ![f].name = "reserved"]
           /\ UNCHANGED <<texture, gates, renderbuffer, boundFramebuffer, boundRenderbuffer>>
  <2>1. framebuffer' = [framebuffer EXCEPT ![f] = y]
    BY <1>2
  <2>2. FramebufferGood(y, texture, renderbuffer, gates)
    BY FramebufferNamed DEF TargetsGood
  <2> HIDE DEF y
  <2> QED
    BY <1>2, <2>1, <2>2, OneFramebuffer DEF TargetsGood
<1> QED
  BY <1>1, <1>2 DEF GenFramebuffers, storageVars

LEMMA BindFramebufferTargets ==
    ASSUME TargetsGood, NEW f \in Framebuffers \cup {None}, BindFramebuffer(f)
    PROVE  TargetsGood'
<1> DEFINE y == [framebuffer[f] EXCEPT !.name = "live"]
<1>1. CASE Denied("INVALID_OPERATION")
  BY <1>1, DeniedTargets
<1>2. CASE /\ framebuffer' = IF f = None THEN framebuffer
                             ELSE [framebuffer EXCEPT ![f].name = "live"]
           /\ boundFramebuffer' = f
           /\ UNCHANGED <<texture, gates, renderbuffer, boundRenderbuffer>>
  <2>1. CASE f = None
    <3>1. \A g \in Framebuffers : FramebufferGood(framebuffer'[g], texture', renderbuffer', gates')
      BY <1>2, <2>1 DEF TargetsGood
    <3> QED
      BY <1>2, <2>1, <3>1 DEF TargetsGood
  <2>2. CASE f # None
    <3>1. f \in Framebuffers /\ framebuffer' = [framebuffer EXCEPT ![f] = y]
      BY <1>2, <2>2
    <3>2. FramebufferGood(y, texture, renderbuffer, gates)
      BY <3>1, FramebufferNamed DEF TargetsGood
    <3> HIDE DEF y
    <3> QED
      BY <1>2, <3>1, <3>2, OneFramebuffer
  <2> QED
    BY <2>1, <2>2
<1> QED
  BY <1>1, <1>2 DEF BindFramebuffer, storageVars

LEMMA DeleteFramebuffersTargets ==
    ASSUME TargetsGood, NEW f \in Framebuffers, DeleteFramebuffers(f)
    PROVE  TargetsGood'
<1>1. /\ framebuffer' = [framebuffer EXCEPT ![f] = NoFramebuffer]
      /\ boundFramebuffer' = IF boundFramebuffer = f THEN None ELSE boundFramebuffer
      /\ UNCHANGED <<texture, gates, renderbuffer, boundRenderbuffer>>
  BY DEF DeleteFramebuffers, storageVars
<1>2. boundFramebuffer' \in Framebuffers \cup {None}
  BY <1>1 DEF TargetsGood
<1> QED
  BY <1>1, <1>2, EmptyFramebuffer, OneFramebuffer

LEMMA DrawBuffersTargets ==
    ASSUME TargetsGood, NEW buffers \in Seq(STRING), DrawBuffers(buffers)
    PROVE  TargetsGood'
<1> DEFINE fb == framebuffer[boundFramebuffer]
           chosen == {buffers[i] : i \in DOMAIN buffers} \ {"NONE"}
           y == [fb EXCEPT !.drawBuffers = chosen]
<1>1. CASE Denied(DrawBuffersError(buffers))
  BY <1>1, DeniedTargets
<1>2. CASE /\ DrawBuffersError(buffers) = "NO_ERROR" /\ boundFramebuffer # None
           /\ framebuffer' = [framebuffer EXCEPT ![boundFramebuffer].drawBuffers = chosen]
           /\ UNCHANGED <<texture, gates, renderbuffer, boundFramebuffer, boundRenderbuffer>>
  <2>1. boundFramebuffer \in Framebuffers
    BY <1>2 DEF TargetsGood
  <2>2. framebuffer' = [framebuffer EXCEPT ![boundFramebuffer] = y]
    BY <1>2
  <2>3. /\ "draw_buffers" \in gates /\ ~(Len(buffers) > Len(SlotNames))
        /\ \A i \in DOMAIN buffers : buffers[i] \in {"NONE", SlotNames[i]}
    BY <1>2 DEF DrawBuffersError
  <2>4. chosen \subseteq Slots
    <3>1. /\ DOMAIN buffers = 1..Len(buffers) /\ DOMAIN SlotNames = 1..Len(SlotNames)
          /\ Len(buffers) \in Nat /\ Len(SlotNames) \in Nat
      BY FramebufferAssumption
    <3>2. \A i \in DOMAIN buffers : i \in DOMAIN SlotNames
      BY <2>3, <3>1
    <3> QED
      BY <2>3, <3>2 DEF Slots
  <2> HIDE DEF chosen
  <2>5. FramebufferGood(fb, texture, renderbuffer, gates)
    BY <2>1 DEF TargetsGood
  <2>6. FramebufferGood(y, texture, renderbuffer, gates)
    <3>1. /\ DOMAIN y = FramebufferFields /\ y.color = fb.color /\ y.depth = fb.depth
          /\ y.stencil = fb.stencil /\ y.drawBuffers = chosen
      BY <2>5 DEF FramebufferGood, FramebufferFields
    <3> HIDE DEF y
    <3> QED
      BY <2>3, <2>4, <2>5, <3>1 DEF FramebufferGood
  <2> HIDE DEF y
  <2> QED
    BY <1>2, <2>1, <2>2, <2>6, OneFramebuffer
<1> QED
  BY <1>1, <1>2 DEF DrawBuffers, storageVars

LEMMA FramebufferRenderbufferTargets ==
    ASSUME TargetsGood, NEW point, NEW r \in Renderbuffers \cup {None},
           FramebufferRenderbuffer(point, r)
    PROVE  TargetsGood'
<1> DEFINE code == RenderbufferAttachError(point, r)
           layer == IF code = "NO_ERROR" /\ point \in Slots THEN Bound.color[point].layer ELSE First
           a == IF r = None THEN NoAttachment ELSE Attachment("RENDERBUFFER", r, 0, layer)
           y == AttachedAt(framebuffer[boundFramebuffer], point, a)
<1>1. CASE Denied(code)
  BY <1>1, DeniedTargets
<1>2. CASE /\ code = "NO_ERROR"
           /\ framebuffer' = [framebuffer EXCEPT ![boundFramebuffer] = AttachedAt(@, point, a)]
           /\ UNCHANGED <<texture, gates, renderbuffer, boundFramebuffer, boundRenderbuffer>>
  <2>1. /\ point \in Slots \cup Planes /\ boundFramebuffer # None
        /\ r # None => renderbuffer[r].name = "live"
    BY <1>2 DEF RenderbufferAttachError, PointRefused
  <2>2. /\ boundFramebuffer \in Framebuffers
        /\ FramebufferGood(framebuffer[boundFramebuffer], texture, renderbuffer, gates)
    BY <2>1 DEF TargetsGood
  <2>3. framebuffer' = [framebuffer EXCEPT ![boundFramebuffer] = y]
    BY <1>2
  <2>4. layer \in Faces
    <3>1. CASE point \in Slots
      <4>1. layer = Bound.color[point].layer /\ ColorHeld(texture, renderbuffer, Bound.color[point])
        BY <1>2, <2>2, <3>1 DEF FramebufferGood, Bound
      <4> QED
        BY <4>1, EmptyFramebuffer, TextureFacts DEF ColorHeld, BufferHeld, TextureHeld
    <3>2. CASE point \notin Slots
      BY <3>2, TextureFacts
    <3> QED
      BY <3>1, <3>2
  <2> HIDE DEF layer
  <2>5. ColorHeld(texture, renderbuffer, a) /\ PlaneHeld(texture, renderbuffer, a)
    <3>1. CASE r = None
      BY <3>1 DEF ColorHeld, PlaneHeld
    <3>2. CASE r # None
      <4>1. BufferHeld(renderbuffer, a)
        BY <2>1, <2>4, <3>2 DEF BufferHeld, Attachment
      <4> QED
        BY <4>1 DEF ColorHeld, PlaneHeld
    <3> QED
      BY <3>1, <3>2
  <2> HIDE DEF a
  <2>6. FramebufferGood(y, texture, renderbuffer, gates)
    BY <2>1, <2>2, <2>5, AttachedGood
  <2> HIDE DEF y
  <2> QED
    BY <1>2, <2>2, <2>3, <2>6, OneFramebuffer
<1>3. \/ Denied(code)
      \/ /\ code = "NO_ERROR"
         /\ framebuffer' = [framebuffer EXCEPT ![boundFramebuffer] = AttachedAt(@, point, a)]
         /\ UNCHANGED <<texture, gates, renderbuffer, boundFramebuffer, boundRenderbuffer>>
  BY DEF FramebufferRenderbuffer, storageVars
<1> QED
  BY <1>1, <1>2, <1>3

(* A texture that is attached to a slot becomes a color target.             *)
LEMMA NothingTextures ==
    ASSUME TexturesInvariant, TexelsFit, UNCHANGED storageVars, sampled' = NothingSampled
    PROVE  TexturesInvariant' /\ TexelsFit'
  BY NothingStep, FitsKept DEF storageVars

LEMMA RequiredIs ==
    ASSUME NEW x, TextureShaped(x)
    PROVE  Required(x).renderable
  BY DEF Required, TextureShaped, TextureFields

LEMMA FramebufferTextureTargets ==
    ASSUME TexturesInvariant, TexelsFit, TargetsGood, NEW point, NEW target,
           NEW t \in Textures \cup {None}, NEW level, FramebufferTexture2D(point, target, t, level)
    PROVE  TexturesInvariant' /\ TexelsFit' /\ TargetsGood'
<1>0. DOMAIN texture = Textures /\ \A u \in Textures : Current(texture[u])
  BY DEF TexturesInvariant, TexturesGood, TextureGood
<1> DEFINE code == TextureAttachError(point, target, t, level)
           made == IF t = None THEN FALSE ELSE MadeTarget(point, target, t, level)
           x == texture[t]
           new == Required(x)
           a == IF t = None THEN NoAttachment
                ELSE Attachment("TEXTURE", t, level, IF point \in Slots THEN FaceOf(target) ELSE First)
           y == AttachedAt(framebuffer[boundFramebuffer], point, a)
<1>1. /\ texture' = IF made THEN [texture EXCEPT ![t] = new] ELSE texture
      /\ framebuffer' = IF code # "NO_ERROR" THEN framebuffer
                        ELSE [framebuffer EXCEPT ![boundFramebuffer] = AttachedAt(@, point, a)]
      /\ UNCHANGED <<units, active, charged, gates>> /\ sampled' = NothingSampled
      /\ UNCHANGED <<renderbuffer, boundFramebuffer, boundRenderbuffer>>
  BY DEF FramebufferTexture2D, Called, Counted
<1>2. made => t \in Textures
  OBVIOUS
<1>3. ASSUME t \in Textures
      PROVE  /\ Current(new) /\ new.faces = x.faces /\ new.target = x.target /\ new.name = x.name
             /\ new.renderable
  BY <1>0, <1>3, RequiredCurrent, RequiredIs DEF Current
<1> HIDE DEF new
<1>4. TexturesInvariant' /\ TexelsFit'
  <2>1. CASE made
    <3>1. TexturesGood' /\ UnitsGood' /\ ChargeGood'
      BY <1>1, <1>2, <1>3, <2>1, KeptStep
    <3>2. TexelsFit'
      BY <1>1, <1>2, <1>3, <2>1, SameFits
    <3> QED
      BY <1>1, <3>1, <3>2, NoSample DEF TexturesInvariant
  <2>2. CASE ~made
    BY <1>1, <2>2, NothingStep, FitsKept
  <2> QED
    BY <2>1, <2>2
<1>5. \A u \in Textures : StaysLive(texture[u], texture'[u])
  BY <1>0, <1>1, <1>3 DEF StaysLive
<1>6. \A f \in Framebuffers : FramebufferGood(framebuffer[f], texture', renderbuffer', gates')
  <2>1. \A r \in Renderbuffers : BufferStays(renderbuffer[r], renderbuffer'[r])
    BY <1>1, SameHeld
  <2> QED
    BY <1>1, <1>5, <2>1, FramebufferKept DEF TargetsGood
<1>7. CASE code # "NO_ERROR"
  BY <1>1, <1>4, <1>6, <1>7 DEF TargetsGood
<1>8. CASE code = "NO_ERROR"
  <2>1. /\ point \in Slots \cup Planes /\ boundFramebuffer # None /\ level \in Levels
        /\ ~PointRefused(point) /\ target \in (IF point \in Slots THEN Targets ELSE {"2D"})
        /\ t # None => x.name = "live" /\ (point \in Slots => x.target = BindingOf(target))
    BY <1>8 DEF TextureAttachError, PointRefused
  <2>2. /\ boundFramebuffer \in Framebuffers
        /\ FramebufferGood(framebuffer[boundFramebuffer], texture', renderbuffer', gates')
    BY <1>6, <2>1 DEF TargetsGood
  <2>3. framebuffer' = [framebuffer EXCEPT ![boundFramebuffer] = y]
    BY <1>1, <1>8
  <2>4. /\ point \in Slots => ColorHeld(texture', renderbuffer', a)
        /\ point \in Planes => PlaneHeld(texture', renderbuffer', a)
    <3>1. CASE t = None
      BY <3>1 DEF ColorHeld, PlaneHeld
    <3>2. CASE t # None
      <4>1. t \in Textures /\ texture'[t].name = "live" /\ texture'[t].target = x.target
        BY <1>0, <1>1, <1>3, <2>1, <3>2
      <4>2. a.kind = "TEXTURE" /\ a.object = t /\ a.level = level
            /\ a.layer = IF point \in Slots THEN FaceOf(target) ELSE First
        BY <3>2 DEF Attachment
      <4> HIDE DEF a
      <4>3. point \in Slots => texture'[t].renderable
        <5>1. CASE MadeTarget(point, target, t, level)
          BY <1>0, <1>1, <1>3, <3>2, <4>1, <5>1
        <5>2. CASE ~MadeTarget(point, target, t, level)
          <6>1. texture' = texture
            BY <1>1, <3>2, <5>2
          <6>2. point \in Slots => x.renderable
            BY <2>1, <3>2, <5>2 DEF MadeTarget
          <6> QED
            BY <6>1, <6>2
        <5> QED
          BY <5>1, <5>2
      <4>4. a.layer \in Faces
        BY <2>1, <4>2, TextureFacts DEF FaceOf, IsFace, Targets
      <4>5. TextureHeld(texture', a)
        BY <2>1, <4>1, <4>2, <4>4 DEF TextureHeld
      <4>6. point \in Slots /\ texture'[t].target # "CUBE" => a.layer = First
        <5>1. IsFace(target) => BindingOf(target) = "CUBE"
          BY DEF BindingOf
        <5>2. ~IsFace(target) => FaceOf(target) = First
          BY DEF FaceOf
        <5> QED
          BY <2>1, <3>2, <4>1, <4>2, <5>1, <5>2
      <4>7. point \in Planes => point \notin Slots
        BY FramebufferAssumption DEF Slots, Planes
      <4> QED
        BY <4>2, <4>3, <4>5, <4>6, <4>7 DEF ColorHeld, PlaneHeld
    <3> QED
      BY <3>1, <3>2
  <2> HIDE DEF a
  <2>5. FramebufferGood(y, texture', renderbuffer', gates')
    BY <2>1, <2>2, <2>4, AttachedGood
  <2> HIDE DEF y
  <2>6. /\ DOMAIN framebuffer' = Framebuffers
        /\ \A f \in Framebuffers : framebuffer'[f] \in {y, framebuffer[f]}
    BY <2>3 DEF TargetsGood
  <2>7. \A f \in Framebuffers : FramebufferGood(framebuffer'[f], texture', renderbuffer', gates')
    BY <1>6, <2>5, <2>6
  <2> QED
    BY <1>1, <1>4, <2>6, <2>7 DEF TargetsGood
<1> QED
  BY <1>7, <1>8

(* The calls on renderbuffers.                                              *)
LEMMA OneRenderbuffer ==
    ASSUME TargetsGood, NEW r \in Renderbuffers, NEW q, RenderbufferGood(q),
           BufferStays(renderbuffer[r], q), renderbuffer' = [renderbuffer EXCEPT ![r] = q],
           UNCHANGED <<texture, gates, framebuffer, boundFramebuffer>>,
           boundRenderbuffer' \in Renderbuffers \cup {None}
    PROVE  TargetsGood'
<1>1. /\ DOMAIN renderbuffer' = Renderbuffers
      /\ \A p \in Renderbuffers : renderbuffer'[p] = IF p = r THEN q ELSE renderbuffer[p]
  BY DEF TargetsGood
<1>2. \A p \in Renderbuffers : BufferStays(renderbuffer[p], renderbuffer'[p])
  BY <1>1, SameHeld
<1>3. \A f \in Framebuffers : FramebufferGood(framebuffer'[f], texture', renderbuffer', gates')
  BY <1>2, SameHeld, FramebufferKept DEF TargetsGood
<1>4. \A p \in Renderbuffers : RenderbufferGood(renderbuffer'[p])
  BY <1>1 DEF TargetsGood
<1> QED
  BY <1>1, <1>3, <1>4 DEF TargetsGood

LEMMA RenderbufferNamed ==
    ASSUME NEW r, RenderbufferGood(r), NEW name
    PROVE  LET q == [r EXCEPT !.name = name] IN RenderbufferGood(q) /\ q.name = name
<1> DEFINE q == [r EXCEPT !.name = name]
<1>1. /\ DOMAIN q = DOMAIN r /\ q.name = name /\ q.format = r.format /\ q.size = r.size
      /\ q.image = r.image
  BY DEF RenderbufferGood
<1> HIDE DEF q
<1>2. StorageImage(q) = StorageImage(r)
  BY <1>1 DEF StorageImage
<1>3. RenderbufferGood(q) /\ q.name = name
  BY <1>1, <1>2 DEF RenderbufferGood
<1> QED
  BY <1>3 DEF q

LEMMA EmptyRenderbuffer == RenderbufferGood(NoRenderbuffer) /\ NoRenderbuffer.name = "free"
  BY DEF NoRenderbuffer, RenderbufferGood, IsSize

LEMMA GenRenderbuffersTargets ==
    ASSUME TargetsGood, NEW r \in Renderbuffers, GenRenderbuffers(r)
    PROVE  TargetsGood'
<1> DEFINE q == [renderbuffer[r] EXCEPT !.name = "reserved"]
<1>1. CASE Denied("OUT_OF_MEMORY")
  BY <1>1, DeniedTargets
<1>2. CASE /\ renderbuffer[r].name = "free"
           /\ renderbuffer' = [renderbuffer EXCEPT ![r].name = "reserved"]
           /\ UNCHANGED <<texture, gates, framebuffer, boundFramebuffer, boundRenderbuffer>>
  <2>1. renderbuffer' = [renderbuffer EXCEPT ![r] = q]
    BY <1>2
  <2>2. RenderbufferGood(q) /\ BufferStays(renderbuffer[r], q)
    BY <1>2, RenderbufferNamed DEF TargetsGood, BufferStays
  <2> HIDE DEF q
  <2> QED
    BY <1>2, <2>1, <2>2, OneRenderbuffer DEF TargetsGood
<1> QED
  BY <1>1, <1>2 DEF GenRenderbuffers, storageVars

LEMMA BindRenderbufferTargets ==
    ASSUME TargetsGood, NEW r \in Renderbuffers \cup {None}, BindRenderbuffer(r)
    PROVE  TargetsGood'
<1> DEFINE q == [renderbuffer[r] EXCEPT !.name = "live"]
<1>1. CASE Denied("INVALID_OPERATION")
  BY <1>1, DeniedTargets
<1>2. CASE /\ renderbuffer' = IF r = None THEN renderbuffer
                              ELSE [renderbuffer EXCEPT ![r].name = "live"]
           /\ boundRenderbuffer' = r
           /\ UNCHANGED <<texture, gates, framebuffer, boundFramebuffer>>
  <2>1. CASE r = None
    <3>1. \A f \in Framebuffers : FramebufferGood(framebuffer'[f], texture', renderbuffer', gates')
      BY <1>2, <2>1 DEF TargetsGood
    <3> QED
      BY <1>2, <2>1, <3>1 DEF TargetsGood
  <2>2. CASE r # None
    <3>1. r \in Renderbuffers /\ renderbuffer' = [renderbuffer EXCEPT ![r] = q]
      BY <1>2, <2>2
    <3>2. RenderbufferGood(q) /\ BufferStays(renderbuffer[r], q)
      BY <3>1, RenderbufferNamed DEF TargetsGood, BufferStays
    <3> HIDE DEF q
    <3> QED
      BY <1>2, <3>1, <3>2, OneRenderbuffer
  <2> QED
    BY <2>1, <2>2
<1> QED
  BY <1>1, <1>2 DEF BindRenderbuffer, storageVars

LEMMA RestoredGood ==
    ASSUME NEW r, RenderbufferGood(r), NEW format, NEW size, IsSize(size)
    PROVE  LET q == Restored(r, format, size)
           IN /\ RenderbufferGood(q) /\ q.name = r.name /\ q.format = format /\ q.size = size
              /\ q.image = NoImage
<1> DEFINE q == Restored(r, format, size)
<1>1. /\ DOMAIN q = DOMAIN r /\ q.name = r.name /\ q.format = format /\ q.size = size
      /\ q.image = NoImage
  BY DEF RenderbufferGood, Restored
<1> HIDE DEF q
<1>2. RenderbufferGood(q)
  BY <1>1 DEF RenderbufferGood
<1> QED
  BY <1>1, <1>2 DEF q

LEMMA RenderbufferStorageTargets ==
    ASSUME TargetsGood, NEW format, NEW size \in Int \X Int, RenderbufferStorage(format, size)
    PROVE  TargetsGood'
<1> DEFINE b == boundRenderbuffer
           q == Restored(renderbuffer[b], format, size)
<1>1. CASE Denied(StorageError(format, size))
  BY <1>1, DeniedTargets
<1>2. CASE /\ StorageError(format, size) = "NO_ERROR"
           /\ renderbuffer' = [renderbuffer EXCEPT ![boundRenderbuffer] =
                                 Restored(@, format, size)]
           /\ UNCHANGED <<texture, gates, framebuffer, boundFramebuffer, boundRenderbuffer>>
  <2>1. /\ \A i \in 1..2 : size[i] \in 1..MaxSize
        /\ boundRenderbuffer # None
    BY <1>2 DEF StorageError
  <2>2. IsSize(size)
    BY <2>1, TextureFacts DEF IsSize
  <2>3. b \in Renderbuffers /\ RenderbufferGood(renderbuffer[b])
    BY <2>1 DEF TargetsGood
  <2>4. renderbuffer' = [renderbuffer EXCEPT ![b] = q]
    BY <1>2
  <2>5. RenderbufferGood(q) /\ q.name = renderbuffer[b].name
    BY <2>2, <2>3, RestoredGood
  <2> HIDE DEF q
  <2> QED
    BY <1>2, <2>3, <2>4, <2>5, OneRenderbuffer DEF TargetsGood, BufferStays
<1> QED
  BY <1>1, <1>2 DEF RenderbufferStorage, storageVars

(* What a deleted object is detached from holds what is left.               *)
LEMMA DetachedGood ==
    ASSUME TargetsGood, NEW kind, NEW object, NEW texs, NEW rbs, NEW gs, gates \subseteq gs,
           \A t \in Textures :
               ~(kind = "TEXTURE" /\ object = t) => StaysLive(texture[t], texs[t]),
           \A r \in Renderbuffers :
               ~(kind = "RENDERBUFFER" /\ object = r) => BufferStays(renderbuffer[r], rbs[r])
    PROVE  /\ DOMAIN Detached(kind, object) = Framebuffers
           /\ \A f \in Framebuffers : FramebufferGood(Detached(kind, object)[f], texs, rbs, gs)
<1> DEFINE without(a) == IF Holds(a, kind, object) THEN NoAttachment ELSE a
<1>1. ASSUME NEW a, ~Holds(a, kind, object)
      PROVE  /\ ColorHeld(texture, renderbuffer, a) => ColorHeld(texs, rbs, a)
             /\ PlaneHeld(texture, renderbuffer, a) => PlaneHeld(texs, rbs, a)
  <2>1. BufferHeld(renderbuffer, a) => BufferHeld(rbs, a)
    BY <1>1 DEF BufferHeld, BufferStays, Holds
  <2>2. TextureHeld(texture, a) =>
            /\ TextureHeld(texs, a) /\ texs[a.object].target = texture[a.object].target
            /\ texture[a.object].renderable => texs[a.object].renderable
    BY <1>1 DEF TextureHeld, StaysLive, Holds
  <2> QED
    BY <2>1, <2>2 DEF ColorHeld, PlaneHeld
<1>2. \A a : /\ ColorHeld(texture, renderbuffer, a) => ColorHeld(texs, rbs, without(a))
             /\ PlaneHeld(texture, renderbuffer, a) => PlaneHeld(texs, rbs, without(a))
  BY <1>1 DEF ColorHeld, PlaneHeld
<1>3. ASSUME NEW f \in Framebuffers
      PROVE  FramebufferGood(Detached(kind, object)[f], texs, rbs, gs)
  <2> DEFINE fb == framebuffer[f]
             colors == [s \in Slots |-> without(fb.color[s])]
             depth == without(fb.depth)
             stencil == without(fb.stencil)
             with == IF Holds(fb.depth, kind, object) THEN FALSE ELSE fb.hasStencil
             y == [fb EXCEPT !.color = colors, !.depth = depth, !.stencil = stencil,
                             !.hasStencil = with]
  <2>1. Detached(kind, object)[f] = y
    BY DEF Detached
  <2>2. FramebufferGood(fb, texture, renderbuffer, gates)
    BY DEF TargetsGood
  <2>3. /\ DOMAIN colors = Slots /\ \A s \in Slots : ColorHeld(texs, rbs, colors[s])
        /\ PlaneHeld(texs, rbs, depth) /\ PlaneHeld(texs, rbs, stencil)
    BY <1>2, <2>2 DEF FramebufferGood
  <2> HIDE DEF colors, depth, stencil, with
  <2>4. /\ DOMAIN y = FramebufferFields /\ y.color = colors /\ y.depth = depth
        /\ y.stencil = stencil /\ y.drawBuffers = fb.drawBuffers
    BY <2>2 DEF FramebufferGood, FramebufferFields
  <2> HIDE DEF y
  <2>5. FramebufferGood(y, texs, rbs, gs)
    BY <2>2, <2>3, <2>4 DEF FramebufferGood
  <2> QED
    BY <2>1, <2>5
<1> QED
  BY <1>3 DEF Detached

LEMMA DeleteRenderbuffersTargets ==
    ASSUME TargetsGood, NEW r \in Renderbuffers, DeleteRenderbuffers(r)
    PROVE  TargetsGood'
<1>1. /\ renderbuffer' = [renderbuffer EXCEPT ![r] = NoRenderbuffer]
      /\ framebuffer' = Detached("RENDERBUFFER", r)
      /\ boundRenderbuffer' = IF boundRenderbuffer = r THEN None ELSE boundRenderbuffer
      /\ UNCHANGED <<texture, gates, boundFramebuffer>>
  BY DEF DeleteRenderbuffers, storageVars
<1>2. /\ DOMAIN renderbuffer' = Renderbuffers
      /\ \A p \in Renderbuffers : renderbuffer'[p] = IF p = r THEN NoRenderbuffer ELSE renderbuffer[p]
  BY <1>1 DEF TargetsGood
<1>3. \A p \in Renderbuffers : p # r => BufferStays(renderbuffer[p], renderbuffer'[p])
  BY <1>2 DEF BufferStays
<1>4. /\ DOMAIN framebuffer' = Framebuffers
      /\ \A f \in Framebuffers : FramebufferGood(framebuffer'[f], texture', renderbuffer', gates')
  BY <1>1, <1>3, SameHeld, DetachedGood
<1>5. \A p \in Renderbuffers : RenderbufferGood(renderbuffer'[p])
  BY <1>2, EmptyRenderbuffer DEF TargetsGood
<1> QED
  BY <1>1, <1>2, <1>4, <1>5 DEF TargetsGood

LEMMA DeleteTexturesTargets ==
    ASSUME TexturesInvariant, TexelsFit, TargetsGood, NEW t \in Textures, DeleteTextures(t)
    PROVE  TexturesInvariant' /\ TexelsFit' /\ TargetsGood'
<1>1. /\ DeleteTexture(t) /\ framebuffer' = Detached("TEXTURE", t)
      /\ UNCHANGED <<renderbuffer, boundFramebuffer, boundRenderbuffer>>
  BY DEF DeleteTextures
<1>2. TexturesInvariant' /\ TexelsFit'
  BY <1>1, DeleteTextureStep, DeletionFits
<1>3. texture' = [texture EXCEPT ![t] = NoTexture] /\ gates' = gates
  BY <1>1 DEF DeleteTexture
<1>4. \A u \in Textures : u # t => StaysLive(texture[u], texture'[u])
  <2>1. \A u \in Textures : u # t => texture'[u] = texture[u]
    BY <1>3 DEF TexturesInvariant, TexturesGood
  <2> QED
    BY <2>1 DEF StaysLive
<1>5. /\ DOMAIN framebuffer' = Framebuffers
      /\ \A f \in Framebuffers : FramebufferGood(framebuffer'[f], texture', renderbuffer', gates')
  BY <1>1, <1>3, <1>4, SameHeld, DetachedGood
<1> QED
  BY <1>1, <1>2, <1>5 DEF TargetsGood

(***************************************************************************)
(* Draws, clears and reads: the objects they leave are those there were,   *)
(* some with an image they did not have.                                   *)
(***************************************************************************)
TextureFollows(x, y) ==
    /\ Current(y) /\ SameBuild(y, x) /\ y.name = x.name
    /\ x.image # NoImage => y.image # NoImage
BufferFollows(r, q) ==
    /\ RenderbufferGood(q) /\ q.name = r.name /\ q.format = r.format /\ q.size = r.size
    /\ r.image # NoImage => q.image # NoImage
Follows(o, p) ==
    /\ DOMAIN p.texture = Textures /\ DOMAIN p.renderbuffer = Renderbuffers
    /\ \A t \in Textures : TextureFollows(o.texture[t], p.texture[t])
    /\ \A r \in Renderbuffers : BufferFollows(o.renderbuffer[r], p.renderbuffer[r])
ObjectsGood(o) == Follows(Objects, o)

AnyHeld(a) == a = NoAttachment \/ BufferHeld(renderbuffer, a) \/ TextureHeld(texture, a)
HasImage(o, a) ==
    \/ a.kind = "TEXTURE" /\ a.object \in Textures /\ o.texture[a.object].image # NoImage
    \/ a.kind = "RENDERBUFFER" /\ a.object \in Renderbuffers
       /\ o.renderbuffer[a.object].image # NoImage

LEMMA FollowsOn ==
    ASSUME NEW o, NEW p, NEW q, Follows(o, p), Follows(p, q)
    PROVE  Follows(o, q)
  BY DEF Follows, TextureFollows, BufferFollows, SameBuild

LEMMA HasKept ==
    ASSUME NEW o, NEW p, Follows(o, p), NEW a, HasImage(o, a)
    PROVE  HasImage(p, a)
  BY DEF Follows, TextureFollows, BufferFollows, HasImage

LEMMA ObjectsThemselves ==
    ASSUME TexturesInvariant, TargetsGood
    PROVE  ObjectsGood(Objects)
<1>1. Objects.texture = texture /\ Objects.renderbuffer = renderbuffer
  BY DEF Objects
<1>2. DOMAIN texture = Textures /\ \A t \in Textures : Current(texture[t])
  BY DEF TexturesInvariant, TexturesGood, TextureGood
<1>3. DOMAIN renderbuffer = Renderbuffers /\ \A r \in Renderbuffers : RenderbufferGood(renderbuffer[r])
  BY DEF TargetsGood
<1> QED
  BY <1>1, <1>2, <1>3 DEF ObjectsGood, Follows, TextureFollows, BufferFollows, SameBuild

(* What there is to be drawn to behind an attachment.                       *)
TargetStored(a, use) ==
    \/ /\ TextureHeld(texture, a) /\ Stored(texture[a.object].faces[a.layer], a.level)
       /\ use = "PLANE" => Summary(texture[a.object]).format.base \in DepthFormats
    \/ /\ BufferHeld(renderbuffer, a)
       /\ renderbuffer[a.object].format \in
             (IF use = "PLANE" THEN PlaneStorageFormats ELSE ColorStorageFormats)

LEMMA TargetFound ==
    ASSUME NEW o, ObjectsGood(o), NEW a, AnyHeld(a), NEW use, NEW failing,
           TargetImage(o, a, use, failing) # NoImage
    PROVE  /\ TargetStored(a, use)
           /\ a.kind = "TEXTURE" => RealizedImage(o.texture[a.object]) # NoImage
<1>1. Objects.texture = texture /\ Objects.renderbuffer = renderbuffer
  BY DEF Objects
<1>2. CASE TextureHeld(texture, a)
  <2> DEFINE x == o.texture[a.object]
  <2>1. a.kind = "TEXTURE" /\ a.object \in Textures /\ SameBuild(x, texture[a.object])
    BY <1>1, <1>2 DEF TextureHeld, ObjectsGood, Follows, TextureFollows
  <2>2. /\ Stored(x.faces[a.layer], a.level)
        /\ use = "PLANE" => Summary(x).format.base \in DepthFormats
        /\ RealizedImage(x) # NoImage
    BY <2>1 DEF TargetImage
  <2>3. Summary(x) = Summary(texture[a.object]) /\ x.faces = texture[a.object].faces
    BY <2>1, SummaryIs DEF SameBuild
  <2> QED
    BY <1>2, <2>1, <2>2, <2>3 DEF TargetStored
<1>3. CASE BufferHeld(renderbuffer, a)
  <2>1. /\ a.kind = "RENDERBUFFER" /\ a.object \in Renderbuffers
        /\ o.renderbuffer[a.object].format = renderbuffer[a.object].format
    BY <1>1, <1>3 DEF BufferHeld, ObjectsGood, Follows, BufferFollows
  <2> QED
    BY <1>3, <2>1 DEF TargetImage, TargetStored
<1>4. CASE a = NoAttachment
  BY <1>4, EmptyFramebuffer DEF TargetImage
<1> QED
  BY <1>2, <1>3, <1>4 DEF AnyHeld

LEMMA StorageRealized ==
    ASSUME NEW r, RenderbufferGood(r), r.format \in StorageFormats
    PROVE  LET q == [r EXCEPT !.image = RealizedStorage(r)]
           IN BufferFollows(r, q) /\ q.image # NoImage
<1> DEFINE image == RealizedStorage(r)
           q == [r EXCEPT !.image = image]
<1>1. image = StorageImage(r)
  BY DEF RealizedStorage, RenderbufferGood, StorageImage
<1>2. image # NoImage
  <2>1. DOMAIN StorageImage(r) = {"format", "size"} /\ DOMAIN NoImage = {"levels"}
    BY DEF StorageImage, NoImage
  <2> QED
    BY <1>1, <2>1
<1> HIDE DEF image
<1>3. /\ DOMAIN q = DOMAIN r /\ q.name = r.name /\ q.format = r.format /\ q.size = r.size
      /\ q.image = image
  BY DEF RenderbufferGood
<1> HIDE DEF q
<1>4. StorageImage(q) = StorageImage(r)
  BY <1>3 DEF StorageImage
<1>5. BufferFollows(r, q) /\ q.image # NoImage
  BY <1>1, <1>2, <1>3, <1>4 DEF BufferFollows, RenderbufferGood
<1> QED
  BY <1>5 DEF q, image

(* Images are made for attachments that there is something behind.          *)
LEMMA ImagesGiven ==
    ASSUME NEW o, ObjectsGood(o), NEW attachments,
           \A a \in attachments : \E use :
               /\ TargetStored(a, use)
               /\ a.kind = "TEXTURE" => RealizedImage(o.texture[a.object]) # NoImage
    PROVE  LET p == WithImages(o, attachments)
           IN Follows(o, p) /\ \A a \in attachments : HasImage(p, a)
<1> DEFINE p == WithImages(o, attachments)
<1>0. Objects.texture = texture /\ Objects.renderbuffer = renderbuffer
  BY DEF Objects
<1>1. /\ DOMAIN p.texture = Textures /\ DOMAIN p.renderbuffer = Renderbuffers
      /\ \A t \in Textures : p.texture[t] =
            IF HeldBy(attachments, "TEXTURE", t)
            THEN [o.texture[t] EXCEPT !.image = RealizedImage(o.texture[t])] ELSE o.texture[t]
      /\ \A r \in Renderbuffers : p.renderbuffer[r] =
            IF HeldBy(attachments, "RENDERBUFFER", r)
            THEN [o.renderbuffer[r] EXCEPT !.image = RealizedStorage(o.renderbuffer[r])]
            ELSE o.renderbuffer[r]
  BY DEF WithImages
<1> HIDE DEF p
<1>2. ASSUME NEW t \in Textures
      PROVE  /\ TextureFollows(o.texture[t], p.texture[t])
             /\ HeldBy(attachments, "TEXTURE", t) => p.texture[t].image # NoImage
  <2> DEFINE x == o.texture[t]
  <2>1. Current(x) /\ x.name = texture[t].name
    BY <1>0 DEF ObjectsGood, Follows, TextureFollows
  <2>2. CASE ~HeldBy(attachments, "TEXTURE", t)
    BY <1>1, <2>1, <2>2 DEF TextureFollows, SameBuild
  <2>3. CASE HeldBy(attachments, "TEXTURE", t)
    <3>1. PICK a \in attachments : a.kind = "TEXTURE" /\ a.object = t
      BY <2>3 DEF HeldBy, Holds
    <3>2. PICK use : TargetStored(a, use)
      OBVIOUS
    <3>3. x.name = "live"
      BY <2>1, <3>1, <3>2 DEF TargetStored, TextureHeld, BufferHeld
    <3>4. RealizedImage(x) # NoImage
      BY <3>1
    <3> DEFINE y == [x EXCEPT !.image = RealizedImage(x)]
    <3>5. Current(y) /\ SameBuild(y, x) /\ y.name = x.name /\ y.image = RealizedImage(x)
      BY <2>1, <3>3, RealizedKept
    <3>6. p.texture[t] = y
      BY <1>1, <2>3
    <3> HIDE DEF y
    <3> QED
      BY <3>4, <3>5, <3>6 DEF TextureFollows
  <2> QED
    BY <2>2, <2>3
<1>3. ASSUME NEW r \in Renderbuffers
      PROVE  /\ BufferFollows(o.renderbuffer[r], p.renderbuffer[r])
             /\ HeldBy(attachments, "RENDERBUFFER", r) => p.renderbuffer[r].image # NoImage
  <2> DEFINE b == o.renderbuffer[r]
  <2>1. RenderbufferGood(b) /\ b.format = renderbuffer[r].format
    BY <1>0 DEF ObjectsGood, Follows, BufferFollows
  <2>2. CASE ~HeldBy(attachments, "RENDERBUFFER", r)
    BY <1>1, <2>1, <2>2 DEF BufferFollows
  <2>3. CASE HeldBy(attachments, "RENDERBUFFER", r)
    <3>1. PICK a \in attachments : a.kind = "RENDERBUFFER" /\ a.object = r
      BY <2>3 DEF HeldBy, Holds
    <3>2. PICK use : TargetStored(a, use)
      OBVIOUS
    <3>3. b.format \in StorageFormats
      BY <2>1, <3>1, <3>2 DEF TargetStored, TextureHeld, StorageFormats
    <3> DEFINE q == [b EXCEPT !.image = RealizedStorage(b)]
    <3>4. BufferFollows(b, q) /\ q.image # NoImage
      BY <2>1, <3>3, StorageRealized
    <3>5. p.renderbuffer[r] = q
      BY <1>1, <2>3
    <3> HIDE DEF q
    <3> QED
      BY <3>4, <3>5
  <2> QED
    BY <2>2, <2>3
<1>4. Follows(o, p)
  BY <1>1, <1>2, <1>3 DEF Follows
<1>5. ASSUME NEW a \in attachments PROVE HasImage(p, a)
  <2>1. PICK use : TargetStored(a, use)
    OBVIOUS
  <2>2. \/ a.kind = "TEXTURE" /\ a.object \in Textures
        \/ a.kind = "RENDERBUFFER" /\ a.object \in Renderbuffers
    BY <2>1 DEF TargetStored, TextureHeld, BufferHeld
  <2>3. HeldBy(attachments, a.kind, a.object)
    BY DEF HeldBy, Holds
  <2> QED
    BY <1>2, <1>3, <2>2, <2>3 DEF HasImage
<1> QED
  BY <1>4, <1>5 DEF p

(* What a target that has been found is said to be.                         *)
ColorSound(a, x) ==
    /\ x.attachment = a /\ x.format = TargetFormat(a) /\ x.logical = LogicalFormat(a)
    /\ x.size = ColorSize(a)
PlaneSound(a, x) ==
    /\ x.attachment = a /\ x.format = PlaneFormat(StorageOf(a))
    /\ x.size = IF a.kind = "RENDERBUFFER" THEN renderbuffer[a.object].size ELSE LevelOf(a).size
Sound(use, a, x) ==
    TargetStored(a, use) /\ (IF use = "PLANE" THEN PlaneSound(a, x) ELSE ColorSound(a, x))

LEMMA ResolvedGood ==
    ASSUME NEW o, ObjectsGood(o), NEW attachments, DOMAIN attachments \subseteq Nat,
           \A i \in DOMAIN attachments : AnyHeld(attachments[i]), NEW use, NEW failing
    PROVE  LET res == Resolved(o, attachments, use, failing)
           IN /\ Follows(o, res.objects) /\ DOMAIN res.targets = DOMAIN attachments
              /\ ~res.failed =>
                    /\ \A i \in DOMAIN attachments :
                          /\ Sound(use, attachments[i], res.targets[i])
                          /\ HasImage(res.objects, attachments[i])
                    /\ \A i, j \in DOMAIN attachments :
                          res.targets[i].logical = res.targets[j].logical
<1> DEFINE D == DOMAIN attachments
           target == [i \in D |->
               TargetWith(attachments[i], use, TargetImage(o, attachments[i], use, failing))]
           bad == {i \in D : \/ target[i].image = NoImage
                             \/ \E j \in D : j < i /\ target[j].logical # target[i].logical}
           made == {i \in D : target[i].image # NoImage /\ \A k \in bad : i <= k}
           given == {attachments[i] : i \in made}
           res == Resolved(o, attachments, use, failing)
<1>1. res = [objects |-> WithImages(o, given), targets |-> target, failed |-> bad # {}]
  BY DEF Resolved, UpToFault
<1>2. res.objects = WithImages(o, given) /\ res.targets = target /\ (~res.failed => bad = {})
  <2> HIDE DEF res, given, target, bad
  <2>1. /\ res.objects = WithImages(o, given) /\ res.targets = target
        /\ res.failed = (bad # {})
    BY <1>1
  <2> QED
    BY <2>1
<1> HIDE DEF res
<1>3. ASSUME NEW i \in D, target[i].image # NoImage
      PROVE  /\ Sound(use, attachments[i], target[i]) /\ TargetStored(attachments[i], use)
             /\ attachments[i].kind = "TEXTURE" =>
                   RealizedImage(o.texture[attachments[i].object]) # NoImage
  <2> DEFINE a == attachments[i]
             image == TargetImage(o, a, use, failing)
  <2>1. target[i] = IF image = NoImage
                    THEN [attachment |-> a, image |-> NoImage, logical |-> None]
                    ELSE IF use = "PLANE" THEN PlaneTarget(a, image) ELSE ColorTarget(a, image)
    BY DEF TargetWith
  <2>2. image # NoImage
    BY <1>3, <2>1
  <2>3. /\ TargetStored(a, use)
        /\ a.kind = "TEXTURE" => RealizedImage(o.texture[a.object]) # NoImage
    BY <2>2, TargetFound
  <2>4. target[i] = IF use = "PLANE" THEN PlaneTarget(a, image) ELSE ColorTarget(a, image)
    BY <2>1, <2>2
  <2> HIDE DEF target, image, a
  <2>5. CASE use = "PLANE"
    <3>1. target[i] = PlaneTarget(a, image)
      BY <2>3, <2>4, <2>5
    <3>2. PlaneSound(a, target[i])
      BY <3>1 DEF PlaneSound, PlaneTarget
    <3> QED
      BY <2>3, <2>5, <3>2 DEF Sound, a
  <2>6. CASE use # "PLANE"
    <3>1. target[i] = ColorTarget(a, image)
      BY <2>3, <2>4, <2>6
    <3>2. ColorSound(a, target[i])
      BY <3>1 DEF ColorSound, ColorTarget
    <3> QED
      BY <2>3, <2>6, <3>2 DEF Sound, a
  <2> QED
    BY <2>3, <2>5, <2>6 DEF a
<1> HIDE DEF target
<1>4. \A a \in given : \E p :
         /\ TargetStored(a, p)
         /\ a.kind = "TEXTURE" => RealizedImage(o.texture[a.object]) # NoImage
  BY <1>3
<1> HIDE DEF given
<1>5. Follows(o, res.objects) /\ \A a \in given : HasImage(res.objects, a)
  BY <1>2, <1>4, ImagesGiven
<1>6. ASSUME bad = {}
      PROVE  /\ \A i \in D : Sound(use, attachments[i], target[i])
                             /\ HasImage(res.objects, attachments[i])
             /\ \A i, j \in D : target[i].logical = target[j].logical
  <2>1. \A i \in D : target[i].image # NoImage
    BY <1>6
  <2>2. \A i \in D : attachments[i] \in given
    BY <1>6, <2>1 DEF given
  <2>3. ASSUME NEW i \in D, NEW j \in D PROVE target[i].logical = target[j].logical
    <3>1. i \in Nat /\ j \in Nat
      OBVIOUS
    <3>2. CASE i < j
      BY <1>6, <3>2
    <3>3. CASE j < i
      BY <1>6, <3>3
    <3>4. CASE i = j
      BY <3>4
    <3> QED
      BY <3>1, <3>2, <3>3, <3>4
  <2> QED
    BY <1>3, <1>5, <2>1, <2>2, <2>3
<1>7. DOMAIN target = D
  BY DEF target
<1> HIDE DEF bad
<1>8. /\ Follows(o, res.objects) /\ DOMAIN res.targets = D
      /\ ~res.failed =>
            /\ \A i \in D : Sound(use, attachments[i], res.targets[i])
                            /\ HasImage(res.objects, attachments[i])
            /\ \A i, j \in D : res.targets[i].logical = res.targets[j].logical
  BY <1>2, <1>5, <1>6, <1>7
<1> QED
  BY <1>8 DEF res

LEMMA SlotFacts ==
    /\ DOMAIN SlotNames = 1..Len(SlotNames) /\ Len(SlotNames) \in Nat /\ 1 \in DOMAIN SlotNames
    /\ DOMAIN SlotNames \subseteq Nat /\ FirstSlot \in Slots
    /\ \A i \in DOMAIN SlotNames : SlotNames[i] \in Slots
    /\ \A s \in Slots : \E i \in DOMAIN SlotNames : s = SlotNames[i]
<1>1. DOMAIN SlotNames = 1..Len(SlotNames) /\ Len(SlotNames) \in Nat /\ Len(SlotNames) >= 1
  BY FramebufferAssumption
<1> QED
  BY <1>1 DEF Slots, FirstSlot

LEMMA HeldAny ==
    /\ \A a : ColorHeld(texture, renderbuffer, a) => AnyHeld(a)
    /\ \A a : PlaneHeld(texture, renderbuffer, a) => AnyHeld(a)
  BY DEF ColorHeld, PlaneHeld, AnyHeld

BoundGood(fb) == FramebufferGood(fb, texture, renderbuffer, gates)

(* The targets of a framebuffer.                                            *)
ColorsSound(o, fb, targets) ==
    /\ \A i \in DOMAIN targets : \E s \in Slots :
          Sound("COLOR", fb.color[s], targets[i]) /\ HasImage(o, fb.color[s])
    /\ \A i, j \in DOMAIN targets : targets[i].logical = targets[j].logical
PlanesSound(o, fb, targets) ==
    \A i \in DOMAIN targets : \E a \in {fb.depth, fb.stencil} :
        Sound("PLANE", a, targets[i]) /\ HasImage(o, a)

LEMMA ColorTargetsGood ==
    ASSUME NEW o, ObjectsGood(o), NEW fb, BoundGood(fb), NEW failing
    PROVE  LET res == ColorTargets(o, fb, failing)
           IN Follows(o, res.objects) /\ (~res.failed => ColorsSound(res.objects, fb, res.targets))
<1> DEFINE slots == {i \in DOMAIN SlotNames : SlotNames[i] \in SelectedSlots(fb)}
           attachments == [i \in slots |-> fb.color[SlotNames[i]]]
           res == Resolved(o, attachments, "COLOR", failing)
<1>1. /\ DOMAIN attachments = slots
      /\ \A i \in slots : SlotNames[i] \in Slots /\ attachments[i] = fb.color[SlotNames[i]]
  BY SlotFacts
<1>2. slots \subseteq Nat
  BY SlotFacts
<1>3. ColorTargets(o, fb, failing) = res
  BY DEF ColorTargets
<1> HIDE DEF attachments, slots
<1>4. \A i \in slots : AnyHeld(attachments[i])
  BY <1>1, HeldAny DEF BoundGood, FramebufferGood
<1>5. /\ Follows(o, res.objects) /\ DOMAIN res.targets = DOMAIN attachments
      /\ ~res.failed =>
            /\ \A i \in DOMAIN attachments : Sound("COLOR", attachments[i], res.targets[i])
                                              /\ HasImage(res.objects, attachments[i])
            /\ \A i, j \in DOMAIN attachments : res.targets[i].logical = res.targets[j].logical
  <2>1. DOMAIN attachments \subseteq Nat /\ \A i \in DOMAIN attachments : AnyHeld(attachments[i])
    BY <1>1, <1>2, <1>4
  <2> QED
    BY <2>1, ResolvedGood
<1> HIDE DEF res
<1>6. ~res.failed => ColorsSound(res.objects, fb, res.targets)
  BY <1>1, <1>5 DEF ColorsSound
<1> QED
  BY <1>3, <1>5, <1>6 DEF res

LEMMA PlaneTargetsGood ==
    ASSUME NEW o, ObjectsGood(o), NEW fb, BoundGood(fb), NEW failing
    PROVE  LET res == PlaneTargets(o, fb, failing)
           IN /\ Follows(o, res.objects)
              /\ ~res.failed => Status(fb) = "COMPLETE" /\ PlanesSound(res.objects, fb, res.targets)
<1> DEFINE planes == <<fb.depth, fb.stencil>>
           used == {j \in DOMAIN planes : Attached(planes[j])}
           attachments == [i \in used |-> planes[i]]
           res == Resolved(o, attachments, "PLANE", failing)
<1>1. CASE Status(fb) # "COMPLETE"
  <2>1. Follows(o, o)
    BY DEF ObjectsGood, Follows, TextureFollows, BufferFollows, SameBuild
  <2>2. PlaneTargets(o, fb, failing) = [objects |-> o, targets |-> <<>>, failed |-> TRUE]
    BY <1>1 DEF PlaneTargets
  <2> QED
    BY <2>1, <2>2
<1>2. CASE Status(fb) = "COMPLETE"
  <2>1. DOMAIN planes = {1, 2} /\ planes[1] = fb.depth /\ planes[2] = fb.stencil
    OBVIOUS
  <2>2. /\ DOMAIN attachments = used
        /\ \A i \in used : attachments[i] \in {fb.depth, fb.stencil}
    BY <2>1
  <2>3. used \subseteq Nat
    BY <2>1
  <2>4. PlaneTargets(o, fb, failing) = res
    BY <1>2 DEF PlaneTargets
  <2> HIDE DEF attachments, used, planes
  <2>5. \A i \in used : AnyHeld(attachments[i])
    BY <2>2, HeldAny DEF BoundGood, FramebufferGood
  <2>6. /\ Follows(o, res.objects) /\ DOMAIN res.targets = DOMAIN attachments
        /\ ~res.failed => \A i \in DOMAIN attachments :
               Sound("PLANE", attachments[i], res.targets[i])
               /\ HasImage(res.objects, attachments[i])
    <3>1. DOMAIN attachments \subseteq Nat /\ \A i \in DOMAIN attachments : AnyHeld(attachments[i])
      BY <2>2, <2>3, <2>5
    <3> QED
      BY <3>1, ResolvedGood
  <2> HIDE DEF res
  <2>7. ~res.failed => PlanesSound(res.objects, fb, res.targets)
    BY <2>2, <2>6 DEF PlanesSound
  <2> QED
    BY <1>2, <2>4, <2>6, <2>7 DEF res
<1> QED
  BY <1>1, <1>2

LEMMA SoundKept ==
    ASSUME NEW o, NEW p, Follows(o, p), NEW fb, NEW targets
    PROVE  /\ ColorsSound(o, fb, targets) => ColorsSound(p, fb, targets)
           /\ PlanesSound(o, fb, targets) => PlanesSound(p, fb, targets)
  BY HasKept DEF ColorsSound, PlanesSound

LEMMA DrawnToGood ==
    ASSUME NEW o, ObjectsGood(o), NEW fb, NEW colors, ColorsSound(o, fb, colors), NEW writes
    PROVE  Follows(o, DrawnTo(o, colors, writes))
<1>1. CASE writes = {}
  BY <1>1 DEF DrawnTo, ObjectsGood, Follows, TextureFollows, BufferFollows, SameBuild
<1>2. CASE writes # {}
  <2> DEFINE p == DrawnTo(o, colors, writes)
  <2>1. /\ DOMAIN p.texture = Textures /\ p.renderbuffer = o.renderbuffer
        /\ \A t \in Textures : p.texture[t] = DrawnAt(o.texture[t], PlacesDrawn(colors, t))
    BY <1>2 DEF DrawnTo
  <2> HIDE DEF p
  <2>2. ASSUME NEW t \in Textures PROVE TextureFollows(o.texture[t], p.texture[t])
    <3> DEFINE x == o.texture[t]
               places == PlacesDrawn(colors, t)
    <3>1. Current(x)
      BY DEF ObjectsGood, Follows, TextureFollows
    <3>2. CASE places = {}
      <4>1. p.texture[t] = x
        BY <2>1, <3>2 DEF DrawnAt
      <4> QED
        BY <3>1, <4>1 DEF TextureFollows, SameBuild
    <3>3. CASE places # {}
      <4>1. PICK j \in DOMAIN colors : Holds(colors[j].attachment, "TEXTURE", t)
        BY <3>3 DEF PlacesDrawn
      <4>2. PICK s \in Slots : Sound("COLOR", fb.color[s], colors[j]) /\ HasImage(o, fb.color[s])
        BY DEF ColorsSound
      <4>3. HasImage(o, colors[j].attachment)
        BY <4>2 DEF Sound, ColorSound
      <4>4. x.image # NoImage
        BY <4>1, <4>3 DEF HasImage, Holds
      <4>5. x.name = "live"
        BY <3>1, <4>4 DEF Current, LiveOnly
      <4> HIDE DEF places
      <4> DEFINE y == DrawnAt(x, places)
      <4>6. /\ Current(y) /\ SameBuild(y, x) /\ y.name = x.name /\ DOMAIN y.image = ImageFields
        BY <3>1, <4>4, <4>5, DrawnKept
      <4>7. p.texture[t] = y
        BY <2>1 DEF places
      <4> HIDE DEF y
      <4> QED
        BY <4>6, <4>7, NotNoImage DEF TextureFollows
    <3> QED
      BY <3>2, <3>3
  <2>3. \A r \in Renderbuffers : BufferFollows(o.renderbuffer[r], p.renderbuffer[r])
    BY <2>1 DEF ObjectsGood, Follows, BufferFollows
  <2>4. Follows(o, p)
    BY <2>1, <2>2, <2>3 DEF ObjectsGood, Follows
  <2> QED
    BY <2>4 DEF p
<1> QED
  BY <1>1, <1>2

(* What a call leaves, and what it submitted.                               *)
ReadSound(c) ==
    LET read == c.given
        size == c.colors[1].size
        at(p) == p[2] * PackedPitch(read.box.size[1], read.type, read.alignment)
                   + p[1] * ReadTexelBytes(read.type)
    IN /\ read.from = <<First, c.colors[1].attachment.level>>
       /\ \A p \in Places(read.box.size) :
             LET place == <<read.box.at[1] + p[1], read.box.at[2] + p[2]>>
             IN /\ at(p) + ReadTexelBytes(read.type) <= read.bytes
                /\ read.pixels[at(p)] = IF place \in Places(size) THEN place ELSE Kept

CommandSound(o, fb, c) ==
    c # None => /\ Status(fb) = "COMPLETE" /\ ColorsSound(o, fb, c.colors)
                /\ PlanesSound(o, fb, c.planes) /\ (c.kind = "READ" => ReadSound(c))
OutcomeSound(fb, out) == ObjectsGood(out.objects) /\ CommandSound(out.objects, fb, out.command)

LEMMA NothingOut ==
    ASSUME NEW o, ObjectsGood(o), NEW fb, NEW code
    PROVE  OutcomeSound(fb, Outcome(o, code, None))
  BY DEF OutcomeSound, CommandSound, Outcome

LEMMA SubmittedOut ==
    ASSUME NEW o, ObjectsGood(o), NEW fb, NEW code, NEW kind, NEW colors, NEW planes, NEW given,
           Status(fb) = "COMPLETE", ColorsSound(o, fb, colors), PlanesSound(o, fb, planes),
           kind = "READ" => ReadSound(Command(kind, colors, planes, given))
    PROVE  OutcomeSound(fb, Outcome(o, code, Command(kind, colors, planes, given)))
<1> DEFINE c == Command(kind, colors, planes, given)
<1>1. c.colors = colors /\ c.planes = planes /\ c.kind = kind /\ (kind = "READ" => ReadSound(c))
  BY DEF Command
<1> HIDE DEF c
<1>2. Outcome(o, code, c).objects = o /\ Outcome(o, code, c).command = c
  BY DEF Outcome
<1>3. OutcomeSound(fb, Outcome(o, code, c))
  BY <1>1, <1>2 DEF OutcomeSound, CommandSound
<1> QED
  BY <1>3 DEF c

LEMMA NoPlanes == ASSUME NEW o, NEW fb PROVE PlanesSound(o, fb, <<>>)
  BY DEF PlanesSound

LEMMA DrawnWithGood ==
    ASSUME TexturesInvariant, TargetsGood, NEW fb, NEW planes, NEW colors,
           ObjectsGood(colors.objects),
           ~colors.failed => ColorsSound(colors.objects, fb, colors.targets),
           ~planes.failed => Status(fb) = "COMPLETE"
                             /\ PlanesSound(colors.objects, fb, planes.targets),
           NEW refusal, NEW multi, NEW writes, NEW enabled, NEW ends
    PROVE  OutcomeSound(fb, DrawnWith(fb, planes, colors, refusal, multi, writes, enabled, ends))
<1> DEFINE out == DrawnWith(fb, planes, colors, refusal, multi, writes, enabled, ends)
           tests == {p \in enabled : Attached(IF p = "DEPTH" THEN fb.depth ELSE fb.stencil)}
           used == IF tests = {} THEN <<>> ELSE planes.targets
           o == DrawnTo(colors.objects, colors.targets, writes)
<1>1. \/ \E code : out = Outcome(Objects, code, None)
      \/ \E code : out = Outcome(colors.objects, code, None)
      \/ /\ ~colors.failed /\ ~planes.failed
         /\ out = Outcome(o, "NO_ERROR", Command("DRAW", colors.targets, used, None))
  <2> HIDE DEF tests, o
  <2>1. CASE writes = {} /\ enabled = {}
    BY <2>1 DEF DrawnWith
  <2>2. CASE ~(writes = {} /\ enabled = {})
    <3>1. CASE planes.failed \/ colors.failed
      <4>1. out = Outcome(colors.objects, refusal, None)
        BY <2>2, <3>1 DEF DrawnWith
      <4> QED
        BY <4>1
    <3>2. CASE ~(planes.failed \/ colors.failed)
      <4>1. \/ out \in {Outcome(colors.objects, "INVALID_OPERATION", None),
                        Outcome(colors.objects, refusal, None)}
            \/ out = Outcome(o, "NO_ERROR", Command("DRAW", colors.targets, used, None))
        BY <2>2, <3>2 DEF DrawnWith, o, tests
      <4> QED
        BY <3>2, <4>1
    <3> QED
      BY <3>1, <3>2
  <2> QED
    BY <2>1, <2>2
<1> HIDE DEF out
<1>2. CASE \E code : out = Outcome(Objects, code, None)
  BY <1>2, NothingOut, ObjectsThemselves DEF out
<1>3. CASE \E code : out = Outcome(colors.objects, code, None)
  BY <1>3, NothingOut DEF out
<1>4. CASE /\ ~colors.failed /\ ~planes.failed
           /\ out = Outcome(o, "NO_ERROR", Command("DRAW", colors.targets, used, None))
  <2>1. /\ ColorsSound(colors.objects, fb, colors.targets) /\ Status(fb) = "COMPLETE"
        /\ PlanesSound(colors.objects, fb, used)
    BY <1>4, NoPlanes
  <2>2. Follows(colors.objects, o)
    BY <2>1, DrawnToGood
  <2> HIDE DEF o, used
  <2>3. /\ ObjectsGood(o) /\ ColorsSound(o, fb, colors.targets) /\ PlanesSound(o, fb, used)
    BY <2>1, <2>2, FollowsOn, SoundKept DEF ObjectsGood
  <2>4. OutcomeSound(fb, out)
    BY <1>4, <2>1, <2>3, SubmittedOut
  <2> QED
    BY <2>4 DEF out
<1> QED
  BY <1>1, <1>2, <1>3, <1>4

LEMMA DrawOutcomeGood ==
    ASSUME TexturesInvariant, TargetsGood, NEW fb, fb = Bound, BoundGood(fb), NEW multi,
           NEW requested, NEW enabled, NEW failing, NEW ends
    PROVE  OutcomeSound(fb, DrawOutcome(multi, requested, enabled, failing, ends))
<1> DEFINE planes == PlaneTargets(Objects, fb, failing)
           colors == ColorTargets(planes.objects, fb, failing)
<1>1. /\ ObjectsGood(planes.objects)
      /\ ~planes.failed => Status(fb) = "COMPLETE" /\ PlanesSound(planes.objects, fb, planes.targets)
  BY ObjectsThemselves, PlaneTargetsGood DEF ObjectsGood
<1> HIDE DEF planes
<1>2. /\ Follows(planes.objects, colors.objects)
      /\ ~colors.failed => ColorsSound(colors.objects, fb, colors.targets)
  BY <1>1, ColorTargetsGood
<1> HIDE DEF colors
<1>3. /\ ObjectsGood(colors.objects)
      /\ ~planes.failed => Status(fb) = "COMPLETE" /\ PlanesSound(colors.objects, fb, planes.targets)
  BY <1>1, <1>2, FollowsOn, SoundKept DEF ObjectsGood
<1>4. DrawOutcome(multi, requested, enabled, failing, ends) =
        DrawnWith(fb, planes, colors, Refusal(Status(fb)), multi, EffectiveWrites(fb, requested),
                  enabled, ends)
  BY DEF DrawOutcome, planes, colors
<1> QED
  BY <1>2, <1>3, <1>4, DrawnWithGood

LEMMA ClearedWithGood ==
    ASSUME TexturesInvariant, TargetsGood, NEW fb, NEW colors, NEW planes,
           ObjectsGood(colors.objects), ObjectsGood(planes.objects),
           ~colors.failed => ColorsSound(planes.objects, fb, colors.targets),
           ~planes.failed => Status(fb) = "COMPLETE"
                             /\ PlanesSound(planes.objects, fb, planes.targets),
           NEW refusal, NEW mask, NEW depthWritten, NEW multi, NEW writes, NEW ends
    PROVE  OutcomeSound(fb, ClearedWith(fb, colors, planes, refusal, mask, depthWritten, multi,
                                        writes, ends))
<1> DEFINE out == ClearedWith(fb, colors, planes, refusal, mask, depthWritten, multi, writes, ends)
           cleared == \/ "DEPTH" \in mask /\ Attached(fb.depth) /\ depthWritten
                      \/ "STENCIL" \in mask /\ Attached(fb.stencil)
           used == IF cleared THEN planes.targets ELSE <<>>
           written == IF "COLOR" \in mask THEN writes ELSE {}
           o == DrawnTo(planes.objects, colors.targets, written)
<1>1. \/ \E code : out = Outcome(Objects, code, None)
      \/ \E code : out = Outcome(colors.objects, code, None)
      \/ \E code : out = Outcome(planes.objects, code, None)
      \/ /\ ~colors.failed /\ ~planes.failed
         /\ out = Outcome(o, "NO_ERROR", Command("CLEAR", colors.targets, used, None))
  <2> HIDE DEF o, written
  <2>1. CASE mask = {} \/ ~(mask \subseteq {"COLOR", "DEPTH", "STENCIL"})
    <3>1. out \in {Outcome(Objects, "NO_ERROR", None), Outcome(Objects, "INVALID_VALUE", None)}
      BY <2>1 DEF ClearedWith
    <3> QED
      BY <3>1
  <2>2. CASE ~(mask = {} \/ ~(mask \subseteq {"COLOR", "DEPTH", "STENCIL"}))
    <3>1. CASE colors.failed
      <4>1. out = Outcome(colors.objects, refusal, None)
        BY <2>2, <3>1 DEF ClearedWith
      <4> QED
        BY <4>1
    <3>2. CASE ~colors.failed /\ planes.failed
      <4>1. out = Outcome(planes.objects, refusal, None)
        BY <2>2, <3>2 DEF ClearedWith
      <4> QED
        BY <4>1
    <3>3. CASE ~colors.failed /\ ~planes.failed
      <4>1. \/ out \in {Outcome(planes.objects, "INVALID_OPERATION", None),
                        Outcome(planes.objects, "NO_ERROR", None)}
            \/ out = Outcome(o, "NO_ERROR", Command("CLEAR", colors.targets, used, None))
        BY <2>2, <3>3 DEF ClearedWith, o, written
      <4> QED
        BY <3>3, <4>1
    <3> QED
      BY <3>1, <3>2, <3>3
  <2> QED
    BY <2>1, <2>2
<1> HIDE DEF out
<1>2. CASE \E code : out = Outcome(Objects, code, None)
  BY <1>2, NothingOut, ObjectsThemselves DEF out
<1>3. CASE \E code : \/ out = Outcome(colors.objects, code, None)
                     \/ out = Outcome(planes.objects, code, None)
  BY <1>3, NothingOut DEF out
<1>4. CASE /\ ~colors.failed /\ ~planes.failed
           /\ out = Outcome(o, "NO_ERROR", Command("CLEAR", colors.targets, used, None))
  <2>1. /\ ColorsSound(planes.objects, fb, colors.targets) /\ Status(fb) = "COMPLETE"
        /\ PlanesSound(planes.objects, fb, used)
    BY <1>4, NoPlanes
  <2> HIDE DEF written
  <2>2. Follows(planes.objects, o)
    BY <2>1, DrawnToGood
  <2> HIDE DEF o, used
  <2>3. /\ ObjectsGood(o) /\ ColorsSound(o, fb, colors.targets) /\ PlanesSound(o, fb, used)
    BY <2>1, <2>2, FollowsOn, SoundKept DEF ObjectsGood
  <2>4. OutcomeSound(fb, out)
    BY <1>4, <2>1, <2>3, SubmittedOut
  <2> QED
    BY <2>4 DEF out
<1> QED
  BY <1>1, <1>2, <1>3, <1>4

LEMMA ClearOutcomeGood ==
    ASSUME TexturesInvariant, TargetsGood, NEW fb, fb = Bound, BoundGood(fb), NEW mask,
           NEW depthWritten, NEW multi, NEW requested, NEW failing, NEW ends
    PROVE  OutcomeSound(fb, ClearOutcome(mask, depthWritten, multi, requested, failing, ends))
<1> DEFINE colors == ColorTargets(Objects, fb, failing)
           planes == PlaneTargets(colors.objects, fb, failing)
<1>1. /\ ObjectsGood(colors.objects)
      /\ ~colors.failed => ColorsSound(colors.objects, fb, colors.targets)
  BY ObjectsThemselves, ColorTargetsGood DEF ObjectsGood
<1> HIDE DEF colors
<1>2. /\ Follows(colors.objects, planes.objects)
      /\ ~planes.failed => Status(fb) = "COMPLETE" /\ PlanesSound(planes.objects, fb, planes.targets)
  BY <1>1, PlaneTargetsGood
<1> HIDE DEF planes
<1>3. /\ ObjectsGood(planes.objects)
      /\ ~colors.failed => ColorsSound(planes.objects, fb, colors.targets)
  BY <1>1, <1>2, FollowsOn, SoundKept DEF ObjectsGood
<1>4. ClearOutcome(mask, depthWritten, multi, requested, failing, ends) =
        ClearedWith(fb, colors, planes, Refusal(Status(fb)), mask, depthWritten, multi,
                    EffectiveWrites(fb, requested), ends)
  BY DEF ClearOutcome, planes, colors
<1> QED
  BY <1>1, <1>2, <1>3, <1>4, ClearedWithGood

(***************************************************************************)
(* What a read delivers.                                                   *)
(***************************************************************************)
LEMMA PitchFacts ==
    ASSUME NEW w \in Nat, NEW type, NEW alignment \in {1, 2, 4, 8}
    PROVE  /\ ReadTexelBytes(type) \in Nat /\ ReadTexelBytes(type) > 0
           /\ PackedPitch(w, type, alignment) \in Nat
           /\ w * ReadTexelBytes(type) <= PackedPitch(w, type, alignment)
<1>1. ReadTexelBytes(type) \in {4, 16}
  BY DEF ReadTexelBytes
<1> DEFINE n == w * ReadTexelBytes(type)
<1>2. n \in Nat
  BY <1>1
<1>3. PackedPitch(w, type, alignment) = ((n + alignment - 1) \div alignment) * alignment
  BY DEF PackedPitch
<1> HIDE DEF n
<1>4. ((n + alignment - 1) \div alignment) * alignment \in Nat
      /\ n <= ((n + alignment - 1) \div alignment) * alignment
  <2>1. CASE alignment = 1
    BY <1>2, <2>1
  <2>2. CASE alignment = 2
    BY <1>2, <2>2
  <2>3. CASE alignment = 4
    BY <1>2, <2>3
  <2>4. CASE alignment = 8
    BY <1>2, <2>4
  <2> QED
    BY <2>1, <2>2, <2>3, <2>4
<1>5. n <= PackedPitch(w, type, alignment) /\ PackedPitch(w, type, alignment) \in Nat
  BY <1>3, <1>4
<1> QED
  BY <1>1, <1>5 DEF n

LEMMA RowsApart ==
    ASSUME NEW pitch \in Nat, NEW i \in Nat, NEW j \in Nat, i < j
    PROVE  i * pitch + pitch <= j * pitch
<1>1. PICK k \in Nat : j = i + 1 + k
  <2>1. j - i - 1 \in Nat /\ j = i + 1 + (j - i - 1)
    OBVIOUS
  <2> QED
    BY <2>1
<1>2. k * pitch \in Nat
  OBVIOUS
<1>3. j * pitch = i * pitch + pitch + k * pitch
  BY <1>1
<1>4. i * pitch \in Nat
  OBVIOUS
<1> QED
  BY <1>2, <1>3, <1>4

(* Places of a packed box lie apart and before its end.                     *)
LEMMA PlacesApart ==
    ASSUME NEW w \in Nat, NEW h \in Nat, NEW b \in Nat, b > 0, NEW pitch \in Nat, w * b <= pitch
    PROVE  \A i, k \in 0..(w - 1), j, l \in 0..(h - 1) :
              /\ j * pitch + i * b + b <= pitch * (h - 1) + w * b
              /\ j * pitch + i * b = l * pitch + k * b => i = k /\ j = l
<1> SUFFICES ASSUME NEW i \in 0..(w - 1), NEW k \in 0..(w - 1),
                    NEW j \in 0..(h - 1), NEW l \in 0..(h - 1)
             PROVE  /\ j * pitch + i * b + b <= pitch * (h - 1) + w * b
                    /\ j * pitch + i * b = l * pitch + k * b => i = k /\ j = l
  OBVIOUS
<1>1. ASSUME NEW n \in 0..(w - 1) PROVE n * b + b <= w * b /\ n * b \in Nat
  <2>1. n \in Nat /\ n < w
    OBVIOUS
  <2> QED
    BY <2>1, RowsApart
<1>2. i * b + b <= w * b /\ k * b + b <= w * b /\ i * b \in Nat /\ k * b \in Nat /\ w * b \in Nat
  BY <1>1
<1>3. j * pitch \in Nat /\ l * pitch \in Nat /\ pitch * (h - 1) \in Int
      /\ pitch * (h - 1) = (h - 1) * pitch
  OBVIOUS
<1>4. j * pitch <= (h - 1) * pitch
  <2>1. CASE j = h - 1
    BY <2>1
  <2>2. CASE j # h - 1
    <3>1. j \in Nat /\ h - 1 \in Nat /\ j < h - 1
      BY <2>2
    <3>2. j * pitch + pitch <= (h - 1) * pitch
      BY <3>1, RowsApart
    <3>3. (h - 1) * pitch \in Nat
      BY <3>1
    <3> QED
      BY <1>3, <3>2, <3>3
  <2> QED
    BY <2>1, <2>2
<1>5. j * pitch + i * b + b <= pitch * (h - 1) + w * b
  BY <1>2, <1>3, <1>4
<1>6. ASSUME j * pitch + i * b = l * pitch + k * b PROVE j = l
  <2>1. CASE j < l
    <3>1. j * pitch + pitch <= l * pitch
      BY <2>1, RowsApart
    <3> QED
      BY <1>2, <1>3, <1>6, <3>1
  <2>2. CASE l < j
    <3>1. l * pitch + pitch <= j * pitch
      BY <2>2, RowsApart
    <3> QED
      BY <1>2, <1>3, <1>6, <3>1
  <2> QED
    BY <2>1, <2>2
<1>7. ASSUME i * b = k * b PROVE i = k
  <2>1. CASE i < k
    <3>1. i * b + b <= k * b
      BY <2>1, RowsApart
    <3> QED
      BY <1>2, <1>7, <3>1
  <2>2. CASE k < i
    <3>1. k * b + b <= i * b
      BY <2>2, RowsApart
    <3> QED
      BY <1>2, <1>7, <3>1
  <2> QED
    BY <2>1, <2>2
<1>8. j * pitch + i * b = l * pitch + k * b => i = k /\ j = l
  BY <1>2, <1>3, <1>6, <1>7
<1> QED
  BY <1>5, <1>8

(* One coordinate of a box that is clipped to a target.                     *)
LEMMA ClippedCoordinate ==
    ASSUME NEW at \in Int, NEW n \in Nat, NEW size \in Nat, NEW p \in 0..(n - 1)
    PROVE  LET low == Between(at, 0, size)
               high == Between(at + n, 0, size)
               q == p - (low - at)
           IN /\ q \in 0..(Larger(0, high - low) - 1) <=> at + p \in 0..(size - 1)
              /\ low + q = at + p
  BY DEF Between, Larger

LEMMA DeliveredExact ==
    ASSUME NEW box, box.at \in Int \X Int, IsSize(box.size), Area(box.size) # 0,
           NEW size, IsSize(size), NEW type, NEW alignment \in {1, 2, 4, 8}, NEW given \in Nat,
           ReadBytes(box.size, type, alignment) <= given
    PROVE  LET at(p) == p[2] * PackedPitch(box.size[1], type, alignment)
                          + p[1] * ReadTexelBytes(type)
           IN \A p \in Places(box.size) :
                 LET place == <<box.at[1] + p[1], box.at[2] + p[2]>>
                 IN /\ at(p) + ReadTexelBytes(type) <= given
                    /\ Delivered(box, ClippedBox(box, size), type, alignment)[at(p)] =
                          IF place \in Places(size) THEN place ELSE Kept
<1> DEFINE w == box.size[1]
           h == box.size[2]
           b == ReadTexelBytes(type)
           pitch == PackedPitch(w, type, alignment)
           at(p) == p[2] * pitch + p[1] * b
           clipped == ClippedBox(box, size)
           to == Destination(box, clipped)
           tight == [p \in Places(box.size) |->
                       LET q == <<p[1] - to[1], p[2] - to[2]>>
                       IN IF q \in Places(clipped.size)
                          THEN <<clipped.at[1] + q[1], clipped.at[2] + q[2]>> ELSE Kept]
<1>1. w \in Nat /\ h \in Nat /\ box.at[1] \in Int /\ box.at[2] \in Int
      /\ size[1] \in Nat /\ size[2] \in Nat
  BY DEF IsSize
<1>2. b \in Nat /\ b > 0 /\ pitch \in Nat /\ w * b <= pitch
  BY <1>1, PitchFacts
<1>3. pitch * (h - 1) + w * b <= given
  BY DEF ReadBytes
<1>4. /\ clipped.at[1] = Between(box.at[1], 0, size[1])
      /\ clipped.at[2] = Between(box.at[2], 0, size[2])
      /\ clipped.size[1] = Larger(0, Between(box.at[1] + w, 0, size[1]) - clipped.at[1])
      /\ clipped.size[2] = Larger(0, Between(box.at[2] + h, 0, size[2]) - clipped.at[2])
  BY DEF ClippedBox
<1>5. to[1] = clipped.at[1] - box.at[1] /\ to[2] = clipped.at[2] - box.at[2]
  BY DEF Destination
<1>6. Delivered(box, clipped, type, alignment) =
        [o \in {at(p) : p \in Places(box.size)} |->
            tight[CHOOSE p \in Places(box.size) : at(p) = o]]
  BY DEF Delivered
<1> SUFFICES ASSUME NEW p \in Places(box.size)
             PROVE  LET place == <<box.at[1] + p[1], box.at[2] + p[2]>>
                    IN /\ at(p) + b <= given
                       /\ Delivered(box, clipped, type, alignment)[at(p)] =
                             IF place \in Places(size) THEN place ELSE Kept
  OBVIOUS
<1> HIDE DEF b, pitch, to, clipped
<1>7. \A q \in Places(box.size) : q[1] \in 0..(w - 1) /\ q[2] \in 0..(h - 1) /\ q = <<q[1], q[2]>>
  BY DEF Places
<1> HIDE DEF w, h
<1>8. \A i, k \in 0..(w - 1), j, l \in 0..(h - 1) :
         /\ j * pitch + i * b + b <= pitch * (h - 1) + w * b
         /\ j * pitch + i * b = l * pitch + k * b => i = k /\ j = l
  BY <1>1, <1>2, PlacesApart
<1>9. at(p) + b <= given
  <2>1. p[2] * pitch + p[1] * b + b <= pitch * (h - 1) + w * b
    BY <1>7, <1>8
  <2>2. p[2] * pitch \in Int /\ p[1] * b \in Int /\ pitch * (h - 1) \in Int /\ w * b \in Int
    BY <1>1, <1>2, <1>7
  <2> QED
    BY <1>2, <1>3, <2>1, <2>2
<1>10. \A q \in Places(box.size) : at(q) = at(p) => q = p
  <2> TAKE q \in Places(box.size)
  <2>1. at(q) = at(p) => q[1] = p[1] /\ q[2] = p[2]
    BY <1>7, <1>8
  <2> QED
    BY <1>7, <2>1
<1>11. Delivered(box, clipped, type, alignment)[at(p)] = tight[p]
  <2> HIDE DEF at, tight
  <2>1. (CHOOSE q \in Places(box.size) : at(q) = at(p)) = p
    BY <1>10
  <2> QED
    BY <1>6, <2>1
<1> HIDE DEF at
<1> DEFINE place == <<box.at[1] + p[1], box.at[2] + p[2]>>
           q == <<p[1] - to[1], p[2] - to[2]>>
<1>12. /\ q[1] \in 0..(clipped.size[1] - 1) <=> place[1] \in 0..(size[1] - 1)
       /\ clipped.at[1] + q[1] = place[1]
  <2> DEFINE low == Between(box.at[1], 0, size[1])
             high == Between(box.at[1] + w, 0, size[1])
  <2>1. /\ p[1] - (low - box.at[1]) \in 0..(Larger(0, high - low) - 1)
              <=> box.at[1] + p[1] \in 0..(size[1] - 1)
        /\ low + (p[1] - (low - box.at[1])) = box.at[1] + p[1]
    BY <1>1, <1>7, ClippedCoordinate
  <2> HIDE DEF low, high
  <2>2. clipped.at[1] = low /\ clipped.size[1] = Larger(0, high - low)
    BY <1>4 DEF low, high
  <2> QED
    BY <1>5, <2>1, <2>2
<1>13. /\ q[2] \in 0..(clipped.size[2] - 1) <=> place[2] \in 0..(size[2] - 1)
       /\ clipped.at[2] + q[2] = place[2]
  <2> DEFINE low == Between(box.at[2], 0, size[2])
             high == Between(box.at[2] + h, 0, size[2])
  <2>1. /\ p[2] - (low - box.at[2]) \in 0..(Larger(0, high - low) - 1)
              <=> box.at[2] + p[2] \in 0..(size[2] - 1)
        /\ low + (p[2] - (low - box.at[2])) = box.at[2] + p[2]
    BY <1>1, <1>7, ClippedCoordinate
  <2> HIDE DEF low, high
  <2>2. clipped.at[2] = low /\ clipped.size[2] = Larger(0, high - low)
    BY <1>4 DEF low, high
  <2> QED
    BY <1>5, <2>1, <2>2
<1>14. tight[p] = IF place \in Places(size) THEN place ELSE Kept
  <2>1. tight[p] = IF q \in Places(clipped.size)
                   THEN <<clipped.at[1] + q[1], clipped.at[2] + q[2]>> ELSE Kept
    OBVIOUS
  <2> HIDE DEF tight
  <2>2. q \in Places(clipped.size) <=> place \in Places(size)
    BY <1>12, <1>13 DEF Places
  <2>3. <<clipped.at[1] + q[1], clipped.at[2] + q[2]>> = place
    BY <1>12, <1>13
  <2> HIDE DEF q, place
  <2> QED
    BY <2>1, <2>2, <2>3
<1> QED
  BY <1>9, <1>11, <1>14

LEMMA ColorSizes ==
    ASSUME TexturesInvariant, TargetsGood, NEW a, TargetStored(a, "COLOR")
    PROVE  IsSize(ColorSize(a))
<1>1. IsSize(<<0, 0>>)
  BY DEF IsSize
<1>2. CASE BufferHeld(renderbuffer, a)
  BY <1>1, <1>2 DEF BufferHeld, TargetsGood, RenderbufferGood, ColorSize
<1>3. CASE TextureHeld(texture, a)
  <2>1. a.kind = "TEXTURE" /\ a.object \in Textures /\ a.layer \in Faces /\ a.level \in Levels
    BY <1>3 DEF TextureHeld
  <2>2. FaceShaped(texture[a.object].faces[a.layer])
    BY <2>1 DEF TexturesInvariant, TexturesGood, TextureGood, FacesGood, FaceGood
  <2>3. IsSize(LevelOf(a).size)
    BY <2>1, <2>2 DEF FaceShaped, LevelOf
  <2> QED
    BY <1>1, <2>1, <2>3 DEF ColorSize
<1> QED
  BY <1>2, <1>3 DEF TargetStored

LEMMA ReadBytesEnough ==
    ASSUME NEW size, IsSize(size), Area(size) # 0, NEW type, NEW alignment \in {1, 2, 4, 8}
    PROVE  ReadBytes(size, type, alignment) \in Nat /\ ReadBytes(size, type, alignment) > 0
<1> DEFINE w == size[1]
           h == size[2]
           b == ReadTexelBytes(type)
           pitch == PackedPitch(w, type, alignment)
<1>1. w \in Nat /\ h \in Nat /\ w > 0 /\ h > 0
  BY AreaNat DEF IsSize
<1>2. b \in Nat /\ b > 0 /\ pitch \in Nat
  BY <1>1, PitchFacts
<1>3. ReadBytes(size, type, alignment) = pitch * (h - 1) + w * b
  BY DEF ReadBytes
<1> HIDE DEF b, pitch, w, h
<1>4. h - 1 \in Nat /\ w - 1 \in Nat
  BY <1>1
<1>5. pitch * (h - 1) \in Nat
  BY <1>2, <1>4
<1>6. w * b = (w - 1) * b + b /\ (w - 1) * b \in Nat
  BY <1>1, <1>2, <1>4
<1> QED
  BY <1>2, <1>3, <1>5, <1>6

LEMMA ReadWithGood ==
    ASSUME TexturesInvariant, TargetsGood, NEW fb, NEW a \in {fb.color[s] : s \in Slots}, NEW target,
           ObjectsGood(target.objects), DOMAIN target.targets = {1},
           ~target.failed => Sound("COLOR", a, target.targets[1]) /\ HasImage(target.objects, a),
           NEW box, box.at \in Int \X Int, box.size \in Int \X Int, NEW type,
           NEW alignment \in {1, 2, 4, 8}, NEW given \in Nat \cup {None}, NEW reads
    PROVE  OutcomeSound(fb, ReadWith(a, Status(fb), target, ClippedBox(box, ColorSize(a)), box, type,
                                     alignment, given, reads))
<1> DEFINE clipped == ClippedBox(box, ColorSize(a))
           required == ReadBytes(box.size, type, alignment)
           pixels == Delivered(box, clipped, type, alignment)
           placed == [box |-> box, type |-> type, alignment |-> alignment, bytes |-> given,
                      from |-> ReadPlace(a), pixels |-> pixels]
           c == Command("READ", target.targets, <<>>, placed)
           out == ReadWith(a, Status(fb), target, clipped, box, type, alignment, given, reads)
<1>1. \/ \E o \in {Objects, target.objects}, code \in {"INVALID_ENUM", "INVALID_VALUE",
              "INVALID_OPERATION", "NO_ERROR", "OUT_OF_MEMORY", Refusal(Status(fb))} :
            out = Outcome(o, code, None)
      \/ /\ type \in ReadTypes /\ ~(box.size[1] < 0) /\ ~(box.size[2] < 0)
         /\ ~(IF given = None THEN required # 0 ELSE given < required)
         /\ Area(box.size) # 0 /\ Status(fb) = "COMPLETE" /\ ~target.failed
         /\ out = Outcome(target.objects, "NO_ERROR", c)
  <2> HIDE DEF pixels, clipped, required
  <2> QED
    BY DEF ReadWith, c, required, pixels
<1> HIDE DEF out
<1>2. ASSUME NEW o \in {Objects, target.objects}, NEW code, out = Outcome(o, code, None)
      PROVE  OutcomeSound(fb, out)
  BY <1>2, ObjectsThemselves, NothingOut
<1>3. ASSUME type \in ReadTypes, ~(box.size[1] < 0), ~(box.size[2] < 0),
             ~(IF given = None THEN required # 0 ELSE given < required),
             Area(box.size) # 0, Status(fb) = "COMPLETE", ~target.failed,
             out = Outcome(target.objects, "NO_ERROR", c)
      PROVE  OutcomeSound(fb, out)
  <2>1. IsSize(box.size)
    BY <1>3 DEF IsSize
  <2>2. required \in Nat /\ required > 0
    BY <1>3, <2>1, ReadBytesEnough
  <2> HIDE DEF required
  <2>3. given \in Nat /\ required <= given
    BY <1>3, <2>2
  <2>4. /\ Sound("COLOR", a, target.targets[1]) /\ target.targets[1].size = ColorSize(a)
        /\ ReadPlace(a) = <<First, target.targets[1].attachment.level>>
    BY <1>3 DEF Sound, ColorSound, ReadPlace
  <2>5. IsSize(ColorSize(a))
    BY <2>4, ColorSizes DEF Sound
  <2>6. LET at(p) == p[2] * PackedPitch(box.size[1], type, alignment)
                       + p[1] * ReadTexelBytes(type)
        IN \A p \in Places(box.size) :
              LET place == <<box.at[1] + p[1], box.at[2] + p[2]>>
              IN /\ at(p) + ReadTexelBytes(type) <= given
                 /\ pixels[at(p)] = IF place \in Places(ColorSize(a)) THEN place ELSE Kept
    BY <1>3, <2>1, <2>3, <2>5, DeliveredExact DEF required
  <2> HIDE DEF pixels
  <2>7. /\ placed.box = box /\ placed.type = type /\ placed.alignment = alignment
        /\ placed.bytes = given /\ placed.from = ReadPlace(a) /\ placed.pixels = pixels
    OBVIOUS
  <2> HIDE DEF placed
  <2>8. c.given = placed /\ c.colors = target.targets
    BY DEF Command
  <2>9. ReadSound(c)
    <3> HIDE DEF c
    <3> QED
      BY <2>4, <2>6, <2>7, <2>8 DEF ReadSound
  <2>10. ColorsSound(target.objects, fb, target.targets)
    <3>1. \E s \in Slots : Sound("COLOR", fb.color[s], target.targets[1])
                            /\ HasImage(target.objects, fb.color[s])
      BY <1>3, <2>4
    <3> QED
      BY <3>1 DEF ColorsSound
  <2>11. OutcomeSound(fb, Outcome(target.objects, "NO_ERROR", c))
    BY <1>3, <2>9, <2>10, NoPlanes, SubmittedOut
  <2> QED
    BY <1>3, <2>11
<1>4. OutcomeSound(fb, out)
  <2> HIDE DEF required, placed, pixels, c
  <2>1. CASE \E o \in {Objects, target.objects}, code \in {"INVALID_ENUM", "INVALID_VALUE",
              "INVALID_OPERATION", "NO_ERROR", "OUT_OF_MEMORY", Refusal(Status(fb))} :
                out = Outcome(o, code, None)
    BY <1>2, <2>1
  <2> QED
    BY <1>1, <1>3, <2>1
<1> QED
  BY <1>4 DEF out

LEMMA ReadOutcomeGood ==
    ASSUME TexturesInvariant, TargetsGood, NEW fb, fb = Bound, BoundGood(fb),
           NEW box \in [at : Int \X Int, size : Int \X Int], NEW type, NEW alignment \in {1, 2, 4, 8},
           NEW given \in Nat \cup {None}, NEW failing, NEW reads
    PROVE  OutcomeSound(fb, ReadOutcome(box, type, alignment, given, failing, reads))
<1> DEFINE a == fb.color[FirstSlot]
           attachments == <<a>>
           target == Resolved(Objects, attachments, "COLOR", failing)
<1>1. DOMAIN attachments = {1} /\ attachments[1] = a
  OBVIOUS
<1>2. AnyHeld(a) /\ a \in {fb.color[s] : s \in Slots}
  BY SlotFacts, HeldAny DEF BoundGood, FramebufferGood
<1>3. ReadOutcome(box, type, alignment, given, failing, reads) =
        ReadWith(a, Status(fb), target, ClippedBox(box, ColorSize(a)), box, type, alignment, given,
                 reads)
  BY DEF ReadOutcome
<1> HIDE DEF attachments, a
<1>4. /\ ObjectsGood(target.objects) /\ DOMAIN target.targets = {1}
      /\ ~target.failed => Sound("COLOR", a, target.targets[1]) /\ HasImage(target.objects, a)
  <2>1. DOMAIN attachments \subseteq Nat /\ \A i \in DOMAIN attachments : AnyHeld(attachments[i])
    BY <1>1, <1>2
  <2>2. /\ Follows(Objects, target.objects) /\ DOMAIN target.targets = DOMAIN attachments
        /\ ~target.failed => \A i \in DOMAIN attachments :
               Sound("COLOR", attachments[i], target.targets[i])
               /\ HasImage(target.objects, attachments[i])
    BY <2>1, ObjectsThemselves, ResolvedGood
  <2> HIDE DEF target
  <2> QED
    BY <1>1, <2>2 DEF ObjectsGood
<1> HIDE DEF target
<1>5. box.at \in Int \X Int /\ box.size \in Int \X Int
  OBVIOUS
<1>6. OutcomeSound(fb, ReadWith(a, Status(fb), target, ClippedBox(box, ColorSize(a)), box, type,
                                alignment, given, reads))
  BY <1>2, <1>4, <1>5, ReadWithGood
<1> QED
  BY <1>3, <1>6

(***************************************************************************)
(* What is submitted.  A complete framebuffer has attachments of one size, *)
(* one device format and one logical format; the image of each is of that  *)
(* size and format.                                                        *)
(***************************************************************************)
LEMMA BaseLevel ==
    ASSUME NEW size, IsSize(size), Area(size) # 0
    PROVE  LevelSize(size, 0) = size
<1>1. size[1] \in Nat /\ size[2] \in Nat /\ size[1] > 0 /\ size[2] > 0
  BY AreaNat DEF IsSize
<1>2. 2^0 = 1
  <2>1. IsFiniteSet({}) /\ Cardinality({}) = 0
    BY FS_EmptySet
  <2>2. Cardinality(SUBSET {}) = 2^0
    BY <2>1, FS_SUBSET
  <2>3. SUBSET {} = {{}}
    OBVIOUS
  <2> QED
    BY <2>2, <2>3, FS_Singleton
<1>3. LevelSize(size, 0) = <<Larger(1, size[1]), Larger(1, size[2])>>
  BY <1>1, <1>2 DEF LevelSize
<1>4. Larger(1, size[1]) = size[1] /\ Larger(1, size[2]) = size[2]
  BY <1>1 DEF Larger
<1> QED
  BY <1>1, <1>3, <1>4 DEF IsSize

LEMMA TextureTarget ==
    ASSUME NEW x, Current(x), FacesGood(x), x.image # NoImage, NEW layer \in Faces,
           NEW level \in Levels, Stored(x.faces[layer], level), FaceFits(x.faces[layer]),
           x.target # "CUBE" => layer = First,
           x.renderable \/ Summary(x).format.base \in DepthFormats
    PROVE  /\ level < x.image.levels /\ Summary(x).defined
           /\ LevelSize(x.image.size, level) = x.faces[layer].levels[level].size
           /\ x.image.format = RinGpuFormat(Summary(x).format)
<1> DEFINE face == x.faces[layer]
           summary == SummaryOf(x.target, x.faces)
<1>1. FaceShaped(face) /\ LevelsHalve(face) /\ FaceNamed(face)
  BY DEF FacesGood, FaceGood
<1>2. Stored(face, 0) /\ face.defined
  BY <1>1 DEF FaceFits, FaceNamed
<1>3. level \in Chain(face) /\ Sized(face, level)
  BY <1>1, ChainLevels DEF LevelsHalve, Sized
<1>4. summary.defined /\ Agree(summary, face)
  <2>1. CASE x.target # "CUBE"
    BY <1>2, <2>1 DEF SummaryOf, Agree
  <2>2. CASE x.target = "CUBE"
    <3>1. PICK g \in Faces : SummaryOf("CUBE", x.faces) = x.faces[g] /\ x.faces[g].defined
      BY <1>2, SummaryFace
    <3> QED
      BY <1>2, <2>2, <3>1 DEF FacesGood, FacesAgree
  <2> QED
    BY <2>1, <2>2
<1>5. Summary(x) = summary
  BY SummaryIs
<1> HIDE DEF face, summary
<1>6. /\ x.image.size = BaseSize(summary) /\ x.image.format = RinGpuFormat(summary.format)
      /\ x.image.levels = CountOf(x.target, x.faces, x.renderable)
  BY ImageHas DEF summary
<1>7. BaseSize(summary) = BaseSize(face)
  BY <1>4 DEF Agree
<1>8. level < CountOf(x.target, x.faces, x.renderable)
  <2>1. ASSUME NEW used, layer \in used PROVE level < HighestOf(x.faces, used)
    BY <1>2, <1>3, <2>1, HighestCount DEF face
  <2>2. CASE x.target = "CUBE"
    <3>1. CASE x.renderable
      BY <2>1, <2>2, <3>1 DEF CountOf
    <3>2. CASE ~x.renderable
      <4>1. CountOf(x.target, x.faces, x.renderable) = LevelCount(BaseSize(face))
        BY <1>7, <2>2, <3>2 DEF CountOf, summary
      <4>2. LevelCount(BaseSize(face)) \in Nat
        BY CountOfLevels
      <4> QED
        BY <1>3, <4>1, <4>2 DEF Chain
    <3> QED
      BY <3>1, <3>2
  <2>3. CASE x.target # "CUBE"
    <3>1. layer = First /\ SummaryOf(x.target, x.faces) = x.faces[First]
      BY <2>3 DEF SummaryOf
    <3>2. x.renderable \/ x.faces[First].format.base \in DepthFormats
      BY <1>5, <3>1 DEF summary
    <3>3. CountOf(x.target, x.faces, x.renderable) = HighestOf(x.faces, {First})
      BY <2>3, <3>2 DEF CountOf
    <3> QED
      BY <2>1, <3>1, <3>3
  <2> QED
    BY <2>2, <2>3
<1>9. LevelSize(BaseSize(face), level) = face.levels[level].size
  <2>1. CASE level = 0
    BY <1>1, <1>2, <2>1, BaseLevel, TextureFacts DEF FaceShaped, Stored, BaseSize
  <2>2. CASE level # 0
    BY <1>3, <2>2 DEF Sized, BaseSize
  <2> QED
    BY <2>1, <2>2
<1> QED
  BY <1>4, <1>5, <1>6, <1>7, <1>8, <1>9 DEF face

(* The attachments to a framebuffer that is complete.                       *)
AttachedSlots(fb) == {i \in DOMAIN SlotNames : Attached(fb.color[SlotNames[i]])}
LEMMA LeastOf ==
    ASSUME NEW S, S \subseteq Nat, S # {}
    PROVE  Min(S) \in S /\ \A k \in S : Min(S) <= k
<1>1. PICK m \in S : \A k \in S : m <= k
  BY MinElement
<1> QED
  BY <1>1 DEF Min

LEMMA NoFault ==
    ASSUME NEW faults, DOMAIN faults \subseteq Nat, NEW otherwise,
           FirstFault(faults, otherwise) = "COMPLETE"
    PROVE  otherwise = "COMPLETE" /\ \A i \in DOMAIN faults : faults[i] = "COMPLETE"
<1> DEFINE faulty == {i \in DOMAIN faults : faults[i] # "COMPLETE"}
<1>1. faulty = {}
  <2> SUFFICES ASSUME faulty # {} PROVE FALSE
    OBVIOUS
  <2>1. Min(faulty) \in faulty
    <3> DEFINE S == faulty
    <3>1. S \subseteq Nat /\ S # {}
      OBVIOUS
    <3> HIDE DEF S
    <3>2. Min(S) \in S
      BY <3>1, LeastOf
    <3> QED
      BY <3>2 DEF S
  <2>2. FirstFault(faults, otherwise) = faults[Min(faulty)]
    BY DEF FirstFault
  <2> QED
    BY <2>1, <2>2
<1>2. FirstFault(faults, otherwise) = otherwise
  BY <1>1 DEF FirstFault
<1> QED
  BY <1>1, <1>2

PlaneExtent(a) == IF a.kind = "RENDERBUFFER" THEN renderbuffer[a.object].size ELSE LevelOf(a).size

LEMMA PlaneFits ==
    ASSUME NEW format, NEW hasDepth, NEW hasStencil, DepthFormatFits(format, hasDepth, hasStencil)
    PROVE  format \in PlaneStorageFormats
  BY DEF DepthFormatFits, PlaneStorageFormats

LEMMA CompleteAttachments ==
    ASSUME NEW fb, Status(fb) = "COMPLETE"
    PROVE  LET slots == AttachedSlots(fb)
               first == fb.color[SlotNames[Min(slots)]]
           IN /\ slots # {} /\ Min(slots) \in slots
              /\ \A i \in slots :
                    LET a == fb.color[SlotNames[i]]
                    IN /\ a.kind = "TEXTURE" => FormatOf(a).compressed = None
                       /\ Area(ColorSize(a)) # 0 /\ ~HalfRgb(a)
                       /\ ColorDescription(a) = ColorDescription(first)
              /\ \A a \in {fb.depth, fb.stencil} : Attached(a) =>
                    StorageOf(a) \in PlaneStorageFormats /\ PlaneExtent(a) = ColorSize(first)
              /\ Attached(fb.depth) => StorageOf(fb.depth) # "STENCIL8"
              /\ Attached(fb.stencil) => StorageOf(fb.stencil) \in {"STENCIL8", "DEPTH24_STENCIL8"}
<1> DEFINE slots == AttachedSlots(fb)
           first == fb.color[SlotNames[Min(slots)]]
           size == ColorSize(first)
           mip == \E i \in slots : fb.color[SlotNames[i]].level # 0
           faults == [i \in slots |-> ColorFault(fb, i)]
           uneven == \/ Attached(fb.depth) /\ PlaneSize(fb.depth, TRUE, fb.hasStencil) # size
                     \/ Attached(fb.stencil) /\ PlaneSize(fb.stencil, FALSE, TRUE) # size
           rest == IF mip /\ ~MipBacked(fb) THEN "UNSUPPORTED"
                   ELSE IF /\ \/ fb.depth.level # 0 \/ fb.stencil.level # 0
                              \/ mip /\ (Attached(fb.depth) \/ Attached(fb.stencil))
                           /\ ~PlaneMipBacked(fb)
                   THEN "UNSUPPORTED" ELSE "COMPLETE"
           otherwise == IF slots = {} THEN "MISSING_ATTACHMENT"
                        ELSE IF uneven THEN "INCOMPLETE_ATTACHMENT" ELSE rest
<1>1. slots \subseteq Nat /\ DOMAIN faults = slots
  BY SlotFacts DEF AttachedSlots
<1>2. Status(fb) = FirstFault(faults, otherwise)
  BY DEF Status, AttachedSlots
<1>3. \A i \in slots : faults[i] = ColorFault(fb, i)
  OBVIOUS
<1> HIDE DEF faults, otherwise
<1>4. otherwise = "COMPLETE" /\ \A i \in slots : ColorFault(fb, i) = "COMPLETE"
  <2>1. otherwise = "COMPLETE" /\ \A i \in DOMAIN faults : faults[i] = "COMPLETE"
    BY <1>1, <1>2, NoFault
  <2> QED
    BY <1>1, <1>3, <2>1
<1>5. slots # {} /\ ~uneven
  <2> HIDE DEF uneven, rest
  <2> QED
    BY <1>4 DEF otherwise
<1>6. Min(slots) \in slots /\ \A k \in slots : Min(slots) <= k
  BY <1>1, <1>5, LeastOf
<1>0. /\ \A k : k \in slots <=> k \in DOMAIN SlotNames /\ Attached(fb.color[SlotNames[k]])
      /\ \A k \in slots : k \in Nat /\ k >= 1 /\ k <= Len(SlotNames)
  BY SlotFacts DEF AttachedSlots
<1> HIDE DEF slots
<1>7. ASSUME NEW i \in slots
      PROVE  LET a == fb.color[SlotNames[i]]
             IN /\ a.kind = "TEXTURE" => FormatOf(a).compressed = None
                /\ Area(ColorSize(a)) # 0 /\ ~HalfRgb(a)
                /\ ColorDescription(a) = ColorDescription(first)
  <2> DEFINE a == fb.color[SlotNames[i]]
             earlier == {j \in 1..(i - 1) : Attached(fb.color[SlotNames[j]])}
  <2>1. /\ ~(a.kind = "TEXTURE" /\ FormatOf(a).compressed # None)
        /\ Area(ColorSize(a)) # 0 /\ ~HalfRgb(a)
        /\ ~(earlier # {} /\ ColorDescription(fb.color[SlotNames[Min(earlier)]])
                                # ColorDescription(a))
    BY <1>4 DEF ColorFault
  <2>2. CASE i = Min(slots)
    BY <2>1, <2>2
  <2>3. CASE i # Min(slots)
    <3> DEFINE m == Min(slots)
    <3>1. m \in Nat /\ i \in Nat /\ m < i /\ m >= 1 /\ m \in slots
      BY <1>0, <1>6, <2>3
    <3>2. m \in earlier
      BY <1>0, <3>1
    <3>3. earlier \subseteq slots
      <4> SUFFICES ASSUME NEW j \in earlier PROVE j \in slots
        OBVIOUS
      <4>1. j \in Nat /\ j >= 1 /\ j < i /\ i <= Len(SlotNames) /\ i \in Nat
        BY <1>0, <3>1
      <4>2. j \in DOMAIN SlotNames
        BY <4>1, SlotFacts
      <4> QED
        BY <1>0, <4>2
    <3> HIDE DEF earlier, m
    <3>4. Min(earlier) \in earlier /\ \A k \in earlier : Min(earlier) <= k
      <4>1. earlier \subseteq Nat /\ earlier # {}
        BY <1>1, <3>2, <3>3
      <4> QED
        BY <4>1, LeastOf
    <3>5. Min(earlier) = m
      <4>1. \A k \in slots : m <= k
        BY <1>6 DEF m
      <4>2. Min(earlier) \in Nat /\ m <= Min(earlier)
        BY <1>0, <3>3, <3>4, <4>1
      <4>3. Min(earlier) <= m
        BY <3>2, <3>4
      <4> QED
        BY <3>1, <4>2, <4>3
    <3>6. fb.color[SlotNames[Min(earlier)]] = first
      BY <3>5 DEF m
    <3>7. earlier # {}
      BY <3>2
    <3>8. ColorDescription(fb.color[SlotNames[Min(earlier)]]) = ColorDescription(a)
      <4> DEFINE least == fb.color[SlotNames[Min(earlier)]]
      <4>1. ~(earlier # {} /\ ColorDescription(least) # ColorDescription(a))
        BY <2>1
      <4> HIDE DEF least, a
      <4>2. ColorDescription(least) = ColorDescription(a)
        BY <3>7, <4>1
      <4> QED
        BY <4>2 DEF least, a
    <3> HIDE DEF first
    <3> QED
      BY <2>1, <3>6, <3>8
  <2> QED
    BY <2>2, <2>3
<1>8. Area(size) # 0 /\ size # <<0, 0>>
  <2>1. Area(size) # 0
    BY <1>6, <1>7
  <2>2. Area(<<0, 0>>) = 0
    BY DEF Area
  <2> QED
    BY <2>1, <2>2
<1>9. Attached(fb.depth) => /\ StorageOf(fb.depth) \in PlaneStorageFormats \ {"STENCIL8"}
                            /\ PlaneExtent(fb.depth) = size
  <2>1. Attached(fb.depth) => PlaneSize(fb.depth, TRUE, fb.hasStencil) = size
    BY <1>5
  <2> HIDE DEF size
  <2>2. Attached(fb.depth) => DepthFormatFits(StorageOf(fb.depth), TRUE, fb.hasStencil)
                              /\ PlaneExtent(fb.depth) = size
    BY <1>8, <2>1 DEF PlaneSize, PlaneExtent
  <2> QED
    BY <2>2, PlaneFits DEF DepthFormatFits, PlaneStorageFormats
<1>10. Attached(fb.stencil) => /\ StorageOf(fb.stencil) \in {"STENCIL8", "DEPTH24_STENCIL8"}
                               /\ StorageOf(fb.stencil) \in PlaneStorageFormats
                               /\ PlaneExtent(fb.stencil) = size
  <2>1. Attached(fb.stencil) => PlaneSize(fb.stencil, FALSE, TRUE) = size
    BY <1>5
  <2> HIDE DEF size
  <2>2. Attached(fb.stencil) => DepthFormatFits(StorageOf(fb.stencil), FALSE, TRUE)
                                /\ PlaneExtent(fb.stencil) = size
    BY <1>8, <2>1 DEF PlaneSize, PlaneExtent
  <2> QED
    BY <2>2 DEF DepthFormatFits, PlaneStorageFormats
<1> QED
  BY <1>5, <1>6, <1>7, <1>9, <1>10 DEF slots

(* The format completeness compares, the one a target is said to have and   *)
(* the one its image is made with are the same.                             *)
LEMMA SummarySound ==
    ASSUME TexelsFit, NEW t \in Textures
    PROVE  FormatSound(Summary(texture[t]).format)
<1> DEFINE x == texture[t]
<1>1. Summary(x) = SummaryOf(x.target, x.faces)
  BY SummaryIs
<1>2. \A f \in Faces : FormatSound(x.faces[f].format)
  BY DEF TexelsFit, FaceFits
<1>3. FormatSound(NoFace.format)
  BY EmptyFits DEF FaceFits
<1>4. CASE x.target # "CUBE"
  BY <1>1, <1>2, <1>4, TextureFacts DEF SummaryOf
<1>5. CASE x.target = "CUBE" /\ \E f \in Faces : x.faces[f].defined
  BY <1>1, <1>2, <1>5, SummaryFace
<1>6. CASE x.target = "CUBE" /\ ~ \E f \in Faces : x.faces[f].defined
  <2>1. \A i \in DOMAIN FaceNames : FaceNames[i] \in Faces
    BY DEF Faces
  <2>2. SummaryOf(x.target, x.faces) = NoFace
    BY <1>6, <2>1 DEF SummaryOf
  <2> QED
    BY <1>1, <1>3, <2>2
<1> QED
  BY <1>4, <1>5, <1>6

LEMMA FormatsOfTexture ==
    ASSUME NEW f, FormatSound(f), f.base = "RGBA" \/ IsFloat(f) \/ IsPacked(f)
    PROVE  LET declared == CASE f.type = "FLOAT" -> "RGBA32F"
                             [] f.type = "HALF" -> "RGBA16F"
                             [] OTHER -> DeviceFormat(f.base)
               stated == CASE IsPacked(f) -> f.base
                           [] f.base \in Canonical /\ f.type = "FLOAT" -> "RGBA32F"
                           [] f.base \in Canonical /\ f.type = "HALF" -> "RGBA16F"
                           [] OTHER -> "RGBA8"
           IN declared = stated /\ RinGpuFormat(f) = stated
<1>1. CASE f.type = "FLOAT"
  <2>1. f.base \in Canonical /\ f.base \notin Packed
    BY <1>1 DEF FormatSound, IsFloat, Canonical, Packed
  <2>2. f.base # "DEPTH32F" /\ f.base # "DEPTH24_STENCIL8"
    BY <2>1 DEF Canonical
  <2> QED
    BY <1>1, <2>1, <2>2 DEF RinGpuFormat, IsPacked
<1>2. CASE f.type = "HALF"
  <2>1. f.base \in Canonical /\ f.base \notin Packed
    BY <1>2 DEF FormatSound, IsFloat, Canonical, Packed
  <2>2. f.base # "DEPTH32F" /\ f.base # "DEPTH24_STENCIL8"
    BY <2>1 DEF Canonical
  <2> QED
    BY <1>2, <2>1, <2>2 DEF RinGpuFormat, IsPacked
<1>3. CASE f.type # "FLOAT" /\ f.type # "HALF" /\ f.base \in Packed
  <2>1. f.base # "DEPTH32F" /\ f.base # "DEPTH24_STENCIL8" /\ DeviceFormat(f.base) = f.base
    BY <1>3 DEF Packed, DeviceFormat
  <2> QED
    BY <1>3, <2>1 DEF RinGpuFormat, IsPacked
<1>4. CASE f.type # "FLOAT" /\ f.type # "HALF" /\ f.base = "RGBA"
  <2>1. DeviceFormat(f.base) = "RGBA8" /\ f.base \notin Packed
    BY <1>4 DEF Packed, DeviceFormat
  <2> QED
    BY <1>4, <2>1 DEF RinGpuFormat, IsPacked
<1> QED
  BY <1>1, <1>2, <1>3, <1>4 DEF IsFloat, IsPacked

LEMMA FormatsOfStorage ==
    ASSUME NEW format \in ColorStorageFormats, format # "RGB16F"
    PROVE  /\ DeviceFormat(StorageFormat(format)) = RenderbufferTarget(format)
           /\ format \notin PlaneStorageFormats
  BY DEF ColorStorageFormats, PlaneStorageFormats, DeviceFormat, StorageFormat, RenderbufferTarget,
         Packed

LEMMA DeclaredIsTarget ==
    ASSUME TexelsFit, NEW a, TargetStored(a, "COLOR"), Area(ColorSize(a)) # 0, ~HalfRgb(a)
    PROVE  /\ DeclaredFormat(a) = TargetFormat(a)
           /\ a.kind = "TEXTURE" => RinGpuFormat(FormatOf(a)) = TargetFormat(a)
           /\ a.kind = "RENDERBUFFER" =>
                 StorageImage(renderbuffer[a.object]).format = TargetFormat(a)
<1>0. Area(<<0, 0>>) = 0
  BY DEF Area
<1>1. CASE TextureHeld(texture, a)
  <2> DEFINE f == FormatOf(a)
  <2>1. a.kind = "TEXTURE" /\ a.object \in Textures
    BY <1>1 DEF TextureHeld
  <2>2. FormatSound(f)
    BY <2>1, SummarySound DEF FormatOf
  <2>3. f.base = "RGBA" \/ IsFloat(f) \/ IsPacked(f)
    BY <1>0, <2>1 DEF ColorSize
  <2>4. /\ DeclaredFormat(a) = (CASE f.type = "FLOAT" -> "RGBA32F" [] f.type = "HALF" -> "RGBA16F"
                                  [] OTHER -> DeviceFormat(f.base))
        /\ TargetFormat(a) = (CASE IsPacked(f) -> f.base
                                [] f.base \in Canonical /\ f.type = "FLOAT" -> "RGBA32F"
                                [] f.base \in Canonical /\ f.type = "HALF" -> "RGBA16F"
                                [] OTHER -> "RGBA8")
    BY <2>1 DEF DeclaredFormat, TargetFormat
  <2> HIDE DEF f
  <2>5. DeclaredFormat(a) = TargetFormat(a) /\ RinGpuFormat(f) = TargetFormat(a)
    BY <2>2, <2>3, <2>4, FormatsOfTexture
  <2> QED
    BY <2>1, <2>5 DEF f
<1>2. CASE BufferHeld(renderbuffer, a) /\ renderbuffer[a.object].format \in ColorStorageFormats
  <2>1. a.kind = "RENDERBUFFER" /\ renderbuffer[a.object].format # "RGB16F"
    BY <1>2 DEF BufferHeld, HalfRgb
  <2> QED
    BY <1>2, <2>1, FormatsOfStorage DEF DeclaredFormat, TargetFormat, StorageImage
<1> QED
  BY <1>1, <1>2 DEF TargetStored

PresentIn(o, a) ==
    IF a.kind = "TEXTURE" THEN o.texture[a.object].image ELSE o.renderbuffer[a.object].image
FitsImage(o, x) ==
    LET a == x.attachment
        image == PresentIn(o, a)
    IN /\ image # NoImage /\ (a.kind = "TEXTURE" => a.level < image.levels)
       /\ image.format = x.format
       /\ x.size = IF a.kind = "TEXTURE" THEN LevelSize(image.size, a.level) ELSE image.size

LEMMA PresentTexture ==
    ASSUME TexturesInvariant, TexelsFit, NEW o, ObjectsGood(o), NEW a, TextureHeld(texture, a),
           HasImage(o, a), Stored(texture[a.object].faces[a.layer], a.level),
           texture[a.object].target # "CUBE" => a.layer = First,
           texture[a.object].renderable \/ FormatOf(a).base \in DepthFormats
    PROVE  LET image == PresentIn(o, a)
           IN /\ image # NoImage /\ a.level < image.levels
              /\ image.format = RinGpuFormat(FormatOf(a)) /\ Summary(texture[a.object]).defined
              /\ LevelSize(image.size, a.level) = LevelOf(a).size
<1> DEFINE t == a.object
           y == o.texture[t]
<1>1. a.kind = "TEXTURE" /\ t \in Textures /\ a.level \in Levels /\ a.layer \in Faces
  BY DEF TextureHeld
<1>2. Current(y) /\ SameBuild(y, texture[t]) /\ y.name = texture[t].name
  BY <1>1 DEF ObjectsGood, Follows, TextureFollows, Objects
<1>3. y.image # NoImage /\ PresentIn(o, a) = y.image
  BY <1>1 DEF HasImage, PresentIn
<1> HIDE DEF y
<1>4. FacesGood(y)
  BY <1>1, <1>2 DEF TexturesInvariant, TexturesGood, TextureGood, FacesGood, FacesAgree, FlatOnFirst,
                    EmptyUntilLive, SameBuild
<1>5. Summary(y) = Summary(texture[t])
  BY <1>2, SummaryIs DEF SameBuild
<1>6. FaceFits(y.faces[a.layer])
  BY <1>1, <1>2 DEF TexelsFit, SameBuild
<1>7. /\ Stored(y.faces[a.layer], a.level) /\ (y.target # "CUBE" => a.layer = First)
      /\ y.renderable \/ Summary(y).format.base \in DepthFormats
  BY <1>2, <1>5 DEF SameBuild, FormatOf
<1>8. /\ a.level < y.image.levels /\ Summary(y).defined
      /\ LevelSize(y.image.size, a.level) = y.faces[a.layer].levels[a.level].size
      /\ y.image.format = RinGpuFormat(Summary(y).format)
  BY <1>1, <1>2, <1>3, <1>4, <1>6, <1>7, TextureTarget
<1> QED
  BY <1>2, <1>3, <1>5, <1>8 DEF FormatOf, LevelOf, SameBuild

LEMMA PresentBuffer ==
    ASSUME NEW o, ObjectsGood(o), NEW a, BufferHeld(renderbuffer, a), HasImage(o, a)
    PROVE  LET image == PresentIn(o, a)
           IN /\ a.kind = "RENDERBUFFER" /\ image # NoImage
              /\ image = StorageImage(renderbuffer[a.object])
              /\ image.size = renderbuffer[a.object].size
<1> DEFINE q == o.renderbuffer[a.object]
<1>1. a.kind = "RENDERBUFFER" /\ a.object \in Renderbuffers
  BY DEF BufferHeld
<1>2. /\ RenderbufferGood(q) /\ q.format = renderbuffer[a.object].format
      /\ q.size = renderbuffer[a.object].size
  BY <1>1 DEF ObjectsGood, Follows, BufferFollows, Objects
<1>3. q.image # NoImage /\ PresentIn(o, a) = q.image
  BY <1>1 DEF HasImage, PresentIn
<1> HIDE DEF q
<1>4. q.image = StorageImage(q) /\ StorageImage(q) = StorageImage(renderbuffer[a.object])
  BY <1>2, <1>3 DEF RenderbufferGood, StorageImage
<1>5. StorageImage(renderbuffer[a.object]).size = renderbuffer[a.object].size
  BY DEF StorageImage
<1> QED
  BY <1>1, <1>3, <1>4, <1>5

CommonDescription(fb) == ColorDescription(fb.color[SlotNames[Min(AttachedSlots(fb))]])
LEMMA ColorFits ==
    ASSUME TexturesInvariant, TexelsFit, NEW fb, BoundGood(fb), Status(fb) = "COMPLETE",
           NEW o, ObjectsGood(o), NEW s \in Slots, NEW x, Sound("COLOR", fb.color[s], x),
           HasImage(o, fb.color[s])
    PROVE  /\ FitsImage(o, x) /\ x.size = CommonDescription(fb)[1]
           /\ x.format = CommonDescription(fb)[2]
<1> DEFINE a == fb.color[s]
<1>1. PICK i \in DOMAIN SlotNames : s = SlotNames[i]
  BY SlotFacts
<1>2. /\ x.attachment = a /\ x.format = TargetFormat(a) /\ x.size = ColorSize(a)
      /\ TargetStored(a, "COLOR")
  BY DEF Sound, ColorSound
<1>3. a.kind = "TEXTURE" \/ a.kind = "RENDERBUFFER"
  BY <1>2 DEF TargetStored, TextureHeld, BufferHeld
<1>4. i \in AttachedSlots(fb)
  BY <1>1, <1>3, EmptyFramebuffer DEF AttachedSlots, Attached
<1>5. Area(ColorSize(a)) # 0 /\ ~HalfRgb(a) /\ ColorDescription(a) = CommonDescription(fb)
  BY <1>1, <1>4, CompleteAttachments DEF CommonDescription
<1>6. ColorHeld(texture, renderbuffer, a)
  BY DEF BoundGood, FramebufferGood
<1> HIDE DEF a
<1>7. /\ DeclaredFormat(a) = TargetFormat(a)
      /\ a.kind = "TEXTURE" => RinGpuFormat(FormatOf(a)) = TargetFormat(a)
      /\ a.kind = "RENDERBUFFER" => StorageImage(renderbuffer[a.object]).format = TargetFormat(a)
  BY <1>2, <1>5, DeclaredIsTarget
<1>8. x.size = CommonDescription(fb)[1] /\ x.format = CommonDescription(fb)[2]
  <2>1. ColorDescription(a)[1] = ColorSize(a) /\ ColorDescription(a)[2] = DeclaredFormat(a)
    BY DEF ColorDescription
  <2> QED
    BY <1>2, <1>5, <1>7, <2>1
<1>9. FitsImage(o, x)
  <2>0. Area(<<0, 0>>) = 0
    BY DEF Area
  <2>1. CASE TextureHeld(texture, a)
    <3>1. a.kind = "TEXTURE" /\ Stored(texture[a.object].faces[a.layer], a.level)
      BY <1>2, <2>1 DEF TargetStored, TextureHeld, BufferHeld
    <3>2. /\ texture[a.object].target # "CUBE" => a.layer = First
          /\ texture[a.object].renderable
      BY <1>6, <3>1, EmptyFramebuffer DEF ColorHeld, BufferHeld
    <3>3. HasImage(o, a)
      BY DEF a
    <3>4. LET image == PresentIn(o, a)
          IN /\ image # NoImage /\ a.level < image.levels
             /\ image.format = RinGpuFormat(FormatOf(a))
             /\ LevelSize(image.size, a.level) = LevelOf(a).size
      BY <2>1, <3>1, <3>2, <3>3, PresentTexture
    <3>5. ColorSize(a) = LevelOf(a).size
      BY <1>5, <2>0, <3>1 DEF ColorSize
    <3> QED
      BY <1>2, <1>7, <3>1, <3>4, <3>5 DEF FitsImage
  <2>2. CASE BufferHeld(renderbuffer, a)
    <3>1. HasImage(o, a)
      BY DEF a
    <3>2. LET image == PresentIn(o, a)
          IN /\ a.kind = "RENDERBUFFER" /\ image # NoImage
             /\ image = StorageImage(renderbuffer[a.object])
             /\ image.size = renderbuffer[a.object].size
      BY <2>2, <3>1, PresentBuffer
    <3>3. ColorSize(a) = renderbuffer[a.object].size
      BY <1>5, <2>0, <3>2 DEF ColorSize
    <3> QED
      BY <1>2, <1>7, <3>2, <3>3 DEF FitsImage
  <2> QED
    BY <1>2, <2>1, <2>2 DEF TargetStored
<1> QED
  BY <1>8, <1>9

LEMMA PlaneFormats ==
    ASSUME TexelsFit, NEW a, TextureHeld(texture, a), FormatOf(a).base \in DepthFormats
    PROVE  RinGpuFormat(FormatOf(a)) = PlaneFormat(FormatOf(a).base)
<1> DEFINE f == FormatOf(a)
<1>1. FormatSound(f)
  BY SummarySound DEF FormatOf, TextureHeld
<1> HIDE DEF f
<1>2. f.base \in {"DEPTH32F", "DEPTH24_STENCIL8"}
  BY DEF f, DepthFormats
<1>3. f.base \notin Canonical
  BY <1>2 DEF Canonical
<1>4. f.type # "FLOAT" /\ f.type # "HALF"
  BY <1>1, <1>3 DEF FormatSound, IsFloat
<1>5. RinGpuFormat(f) = PlaneFormat(f.base)
  BY <1>2, <1>4 DEF RinGpuFormat, PlaneFormat
<1> QED
  BY <1>5 DEF f

LEMMA PlaneFitsImage ==
    ASSUME TexturesInvariant, TexelsFit, NEW fb, BoundGood(fb), Status(fb) = "COMPLETE",
           NEW o, ObjectsGood(o), NEW a \in {fb.depth, fb.stencil}, NEW x, Sound("PLANE", a, x),
           HasImage(o, a)
    PROVE  FitsImage(o, x) /\ x.size = CommonDescription(fb)[1]
<1>1. /\ x.attachment = a /\ x.format = PlaneFormat(StorageOf(a)) /\ x.size = PlaneExtent(a)
      /\ TargetStored(a, "PLANE")
  BY DEF Sound, PlaneSound, PlaneExtent
<1>2. a.kind = "TEXTURE" \/ a.kind = "RENDERBUFFER"
  BY <1>1 DEF TargetStored, TextureHeld, BufferHeld
<1>3. PlaneExtent(a) = CommonDescription(fb)[1]
  <2>1. Attached(a)
    BY <1>2, EmptyFramebuffer DEF Attached
  <2> DEFINE first == fb.color[SlotNames[Min(AttachedSlots(fb))]]
  <2>2. PlaneExtent(a) = ColorSize(first)
    BY <2>1, CompleteAttachments
  <2>3. CommonDescription(fb)[1] = ColorSize(first)
    BY DEF CommonDescription, ColorDescription
  <2> QED
    BY <2>2, <2>3
<1>4. PlaneHeld(texture, renderbuffer, a)
  BY DEF BoundGood, FramebufferGood
<1>5. FitsImage(o, x)
  <2>1. CASE TextureHeld(texture, a)
    <3>1. /\ a.kind = "TEXTURE" /\ Stored(texture[a.object].faces[a.layer], a.level)
          /\ FormatOf(a).base \in DepthFormats
      BY <1>1, <2>1 DEF TargetStored, TextureHeld, BufferHeld, FormatOf
    <3>2. a.layer = First
      BY <1>4, <3>1, EmptyFramebuffer DEF PlaneHeld, BufferHeld
    <3>3. LET image == PresentIn(o, a)
          IN /\ image # NoImage /\ a.level < image.levels
             /\ image.format = RinGpuFormat(FormatOf(a)) /\ Summary(texture[a.object]).defined
             /\ LevelSize(image.size, a.level) = LevelOf(a).size
      BY <2>1, <3>1, <3>2, PresentTexture
    <3>4. PlaneExtent(a) = LevelOf(a).size /\ StorageOf(a) = FormatOf(a).base
      BY <3>1, <3>3 DEF PlaneExtent, StorageOf
    <3>5. RinGpuFormat(FormatOf(a)) = PlaneFormat(FormatOf(a).base)
      BY <2>1, <3>1, PlaneFormats
    <3> QED
      BY <1>1, <3>1, <3>3, <3>4, <3>5 DEF FitsImage
  <2>2. CASE BufferHeld(renderbuffer, a) /\ renderbuffer[a.object].format \in PlaneStorageFormats
    <3>1. LET image == PresentIn(o, a)
          IN /\ a.kind = "RENDERBUFFER" /\ image # NoImage
             /\ image = StorageImage(renderbuffer[a.object])
             /\ image.size = renderbuffer[a.object].size
      BY <2>2, PresentBuffer
    <3>2. /\ PlaneExtent(a) = renderbuffer[a.object].size
          /\ StorageOf(a) = renderbuffer[a.object].format
      BY <3>1 DEF PlaneExtent, StorageOf
    <3>3. StorageImage(renderbuffer[a.object]).format = PlaneFormat(StorageOf(a))
      BY <2>2, <3>2 DEF StorageImage
    <3> QED
      BY <1>1, <3>1, <3>2, <3>3 DEF FitsImage
  <2> QED
    BY <1>1, <2>1, <2>2 DEF TargetStored
<1> QED
  BY <1>1, <1>3, <1>5

(* What TargetsMatch asks, of a framebuffer and objects.                    *)
Matches(o, fb, c) ==
    LET colors == Range(c.colors)
        targets == colors \cup Range(c.planes)
    IN /\ \A x \in targets : FitsImage(o, x)
       /\ \A x, y \in targets : x.size = y.size
       /\ \A x, y \in colors : x.format = y.format /\ x.logical = y.logical

LEMMA CommandMatches ==
    ASSUME TexturesInvariant, TexelsFit, NEW fb, BoundGood(fb), NEW o, ObjectsGood(o),
           NEW c, c # None, CommandSound(o, fb, c)
    PROVE  Matches(o, fb, c)
<1>1. /\ Status(fb) = "COMPLETE" /\ ColorsSound(o, fb, c.colors) /\ PlanesSound(o, fb, c.planes)
  BY DEF CommandSound
<1>2. ASSUME NEW x \in Range(c.colors)
      PROVE  /\ FitsImage(o, x) /\ x.size = CommonDescription(fb)[1]
             /\ x.format = CommonDescription(fb)[2]
  <2>1. PICK i \in DOMAIN c.colors : x = c.colors[i]
    BY <1>2 DEF Range
  <2>2. PICK s \in Slots : Sound("COLOR", fb.color[s], x) /\ HasImage(o, fb.color[s])
    BY <1>1, <2>1 DEF ColorsSound
  <2> QED
    BY <1>1, <2>2, ColorFits
<1>3. ASSUME NEW x \in Range(c.planes)
      PROVE  FitsImage(o, x) /\ x.size = CommonDescription(fb)[1]
  <2>1. PICK i \in DOMAIN c.planes : x = c.planes[i]
    BY <1>3 DEF Range
  <2>2. PICK a \in {fb.depth, fb.stencil} : Sound("PLANE", a, x) /\ HasImage(o, a)
    BY <1>1, <2>1 DEF PlanesSound
  <2> QED
    BY <1>1, <2>2, PlaneFitsImage
<1>4. \A x, y \in Range(c.colors) : x.logical = y.logical
  BY <1>1 DEF ColorsSound, Range
<1> QED
  BY <1>2, <1>3, <1>4 DEF Matches

(***************************************************************************)
(* What draws make of a framebuffer stays as it is while the live objects  *)
(* keep their storage.                                                     *)
(***************************************************************************)
StorageKept ==
    /\ callbacks' = callbacks
    /\ \A t \in Textures : texture[t].name = "live" =>
          texture'[t].faces = texture[t].faces /\ texture'[t].target = texture[t].target
    /\ \A r \in Renderbuffers : renderbuffer[r].name = "live" =>
          /\ renderbuffer'[r].format = renderbuffer[r].format
          /\ renderbuffer'[r].size = renderbuffer[r].size

LEMMA AttachmentKept ==
    ASSUME StorageKept, NEW a, AnyHeld(a), Attached(a)
    PROVE  /\ (a.kind = "TEXTURE" => FormatOf(a)' = FormatOf(a)) /\ HalfRgb(a)' = HalfRgb(a)
           /\ ColorDescription(a)' = ColorDescription(a) /\ ColorSize(a)' = ColorSize(a)
           /\ StorageOf(a)' = StorageOf(a) /\ PlaneExtent(a)' = PlaneExtent(a)
<1>1. CASE TextureHeld(texture, a)
  <2>1. /\ a.kind = "TEXTURE" /\ a.object \in Textures /\ texture[a.object].name = "live"
    BY <1>1 DEF TextureHeld
  <2>2. /\ texture'[a.object].faces = texture[a.object].faces
        /\ texture'[a.object].target = texture[a.object].target
    BY <2>1 DEF StorageKept
  <2>3. Summary(texture'[a.object]) = Summary(texture[a.object])
    BY <2>2, SummaryIs
  <2>4. FormatOf(a)' = FormatOf(a) /\ LevelOf(a)' = LevelOf(a)
    BY <2>2, <2>3 DEF FormatOf, LevelOf
  <2>5. ColorSize(a)' = ColorSize(a) /\ PlaneExtent(a)' = PlaneExtent(a)
    BY <2>1, <2>4 DEF ColorSize, PlaneExtent
  <2>6. DeclaredFormat(a)' = DeclaredFormat(a) /\ LogicalFormat(a)' = LogicalFormat(a)
    BY <2>1, <2>4 DEF DeclaredFormat, LogicalFormat
  <2>7. HalfRgb(a)' = HalfRgb(a)
    BY <2>1, <2>4 DEF HalfRgb
  <2>8. StorageOf(a)' = StorageOf(a)
    BY <2>1, <2>3, <2>4 DEF StorageOf
  <2> QED
    BY <2>4, <2>5, <2>6, <2>7, <2>8 DEF ColorDescription
<1>2. CASE BufferHeld(renderbuffer, a)
  <2>1. /\ a.kind = "RENDERBUFFER" /\ renderbuffer'[a.object].format = renderbuffer[a.object].format
        /\ renderbuffer'[a.object].size = renderbuffer[a.object].size
    BY <1>2 DEF BufferHeld, StorageKept
  <2>2. ColorSize(a)' = ColorSize(a) /\ PlaneExtent(a)' = PlaneExtent(a)
    BY <2>1 DEF ColorSize, PlaneExtent
  <2>3. DeclaredFormat(a)' = DeclaredFormat(a) /\ LogicalFormat(a)' = LogicalFormat(a)
    BY <2>1 DEF DeclaredFormat, LogicalFormat
  <2>4. HalfRgb(a)' = HalfRgb(a) /\ StorageOf(a)' = StorageOf(a)
    BY <2>1 DEF HalfRgb, StorageOf
  <2> QED
    BY <2>1, <2>2, <2>3, <2>4 DEF ColorDescription
<1> QED
  BY <1>1, <1>2 DEF AnyHeld, Attached

SameAttachments(fb, gb) ==
    /\ gb.color = fb.color /\ gb.depth = fb.depth /\ gb.stencil = fb.stencil
    /\ gb.hasStencil = fb.hasStencil /\ gb.drawBuffers = fb.drawBuffers

LEMMA FaultKept ==
    ASSUME StorageKept, NEW fb, BoundGood(fb), NEW gb, SameAttachments(fb, gb),
           NEW i \in AttachedSlots(fb)
    PROVE  ColorFault(gb, i)' = ColorFault(fb, i)
<1>0. /\ DOMAIN SlotNames \subseteq Nat /\ gb.color = fb.color
      /\ \A j \in AttachedSlots(fb) : j \in DOMAIN SlotNames
            /\ Attached(fb.color[SlotNames[j]]) /\ AnyHeld(fb.color[SlotNames[j]])
  BY SlotFacts, HeldAny DEF AttachedSlots, SameAttachments, BoundGood, FramebufferGood
<1>1. \A j \in AttachedSlots(fb) :
         LET a == fb.color[SlotNames[j]]
         IN /\ a.kind = "TEXTURE" => FormatOf(a)' = FormatOf(a)
            /\ HalfRgb(a)' = HalfRgb(a)
            /\ ColorDescription(a)' = ColorDescription(a) /\ ColorSize(a)' = ColorSize(a)
  <2> TAKE j \in AttachedSlots(fb)
  <2> DEFINE a == fb.color[SlotNames[j]]
  <2>1. AnyHeld(a) /\ Attached(a)
    BY <1>0
  <2> HIDE DEF a
  <2>2. /\ a.kind = "TEXTURE" => FormatOf(a)' = FormatOf(a)
        /\ HalfRgb(a)' = HalfRgb(a)
        /\ ColorDescription(a)' = ColorDescription(a) /\ ColorSize(a)' = ColorSize(a)
    BY <2>1, AttachmentKept
  <2> QED
    BY <2>2 DEF a
<1> DEFINE a == fb.color[SlotNames[i]]
           earlier == {j \in 1..(i - 1) : Attached(fb.color[SlotNames[j]])}
           least == fb.color[SlotNames[Min(earlier)]]
<1>2. earlier # {} => Min(earlier) \in AttachedSlots(fb)
  <2> SUFFICES ASSUME earlier # {} PROVE Min(earlier) \in AttachedSlots(fb)
    OBVIOUS
  <2>1. i \in 1..Len(SlotNames) /\ Len(SlotNames) \in Nat
    BY <1>0, SlotFacts
  <2>2. earlier \subseteq Nat /\ \A j \in earlier : j \in AttachedSlots(fb)
    <3>1. \A j \in 1..(i - 1) : j \in Nat /\ j \in DOMAIN SlotNames
      BY <2>1, SlotFacts
    <3> QED
      BY <3>1 DEF AttachedSlots
  <2> HIDE DEF earlier
  <2>3. Min(earlier) \in earlier
    BY <2>2, LeastOf
  <2> QED
    BY <2>2, <2>3
<1>3. earlier # {} => ColorDescription(least)' = ColorDescription(least)
  BY <1>1, <1>2
<1>4. /\ a.kind = "TEXTURE" => FormatOf(a)' = FormatOf(a)
      /\ HalfRgb(a)' = HalfRgb(a)
      /\ ColorDescription(a)' = ColorDescription(a) /\ ColorSize(a)' = ColorSize(a)
  BY <1>1
<1>5. ColorFault(fb, i) =
        IF a.kind = "TEXTURE" /\ FormatOf(a).compressed # None THEN "UNSUPPORTED"
        ELSE IF Area(ColorSize(a)) = 0 THEN "INCOMPLETE_ATTACHMENT"
        ELSE IF \/ HalfRgb(a)
                \/ earlier # {} /\ ColorDescription(least) # ColorDescription(a)
                \/ \E j \in earlier : fb.color[SlotNames[j]] = a
             THEN "UNSUPPORTED" ELSE "COMPLETE"
  BY DEF ColorFault
<1>6. ColorFault(gb, i)' =
        IF a.kind = "TEXTURE" /\ (FormatOf(a)').compressed # None THEN "UNSUPPORTED"
        ELSE IF Area(ColorSize(a)') = 0 THEN "INCOMPLETE_ATTACHMENT"
        ELSE IF \/ HalfRgb(a)'
                \/ earlier # {} /\ ColorDescription(least)' # ColorDescription(a)'
                \/ \E j \in earlier : fb.color[SlotNames[j]] = a
             THEN "UNSUPPORTED" ELSE "COMPLETE"
  BY <1>0 DEF ColorFault, Area
<1> DEFINE twice == \E j \in earlier : fb.color[SlotNames[j]] = a
           some == earlier # {}
<1> HIDE DEF a, earlier, least, twice, some
<1>7. some = (earlier # {}) /\ twice = (\E j \in earlier : fb.color[SlotNames[j]] = a)
  BY DEF twice, some
<1> QED
  BY <1>3, <1>4, <1>5, <1>6, <1>7

PlaneUneven(a, hasDepth, hasStencil, size) ==
    Attached(a) /\ PlaneSize(a, hasDepth, hasStencil) # size
LEMMA PlaneKept ==
    ASSUME StorageKept, NEW a, PlaneHeld(texture, renderbuffer, a), Attached(a),
           NEW hasDepth, NEW hasStencil
    PROVE  PlaneSize(a, hasDepth, hasStencil)' = PlaneSize(a, hasDepth, hasStencil)
<1>1. StorageOf(a)' = StorageOf(a) /\ PlaneExtent(a)' = PlaneExtent(a)
  BY HeldAny, AttachmentKept
<1>2. PlaneSize(a, hasDepth, hasStencil) =
        IF StorageOf(a) = None \/ ~DepthFormatFits(StorageOf(a), hasDepth, hasStencil) THEN <<0, 0>>
        ELSE PlaneExtent(a)
  BY DEF PlaneSize, PlaneExtent
<1>3. PlaneSize(a, hasDepth, hasStencil)' =
        IF StorageOf(a)' = None \/ ~DepthFormatFits(StorageOf(a)', hasDepth, hasStencil) THEN <<0, 0>>
        ELSE PlaneExtent(a)'
  BY DEF PlaneSize, PlaneExtent, DepthFormatFits
<1> QED
  BY <1>1, <1>2, <1>3

LEMMA StatusKept ==
    ASSUME StorageKept, NEW fb, BoundGood(fb), NEW gb, SameAttachments(fb, gb)
    PROVE  Status(gb)' = Status(fb)
<1> DEFINE slots == AttachedSlots(fb)
           first == fb.color[SlotNames[Min(slots)]]
           faults == [i \in slots |-> ColorFault(fb, i)]
           faults2 == [i \in slots |-> ColorFault(gb, i)']
           mip == \E i \in slots : fb.color[SlotNames[i]].level # 0
           rest == IF mip /\ ~MipBacked(fb) THEN "UNSUPPORTED"
                   ELSE IF /\ \/ fb.depth.level # 0 \/ fb.stencil.level # 0
                              \/ mip /\ (Attached(fb.depth) \/ Attached(fb.stencil))
                           /\ ~PlaneMipBacked(fb)
                   THEN "UNSUPPORTED" ELSE "COMPLETE"
           after(size, depth, stencil) ==
               IF slots = {} THEN "MISSING_ATTACHMENT"
               ELSE IF \/ Attached(fb.depth) /\ depth # size
                       \/ Attached(fb.stencil) /\ stencil # size
                    THEN "INCOMPLETE_ATTACHMENT" ELSE rest
           depth == PlaneSize(fb.depth, TRUE, fb.hasStencil)
           stencil == PlaneSize(fb.stencil, FALSE, TRUE)
<1>1. Status(fb) = FirstFault(faults, after(ColorSize(first), depth, stencil))
  BY DEF Status, AttachedSlots
<1>2. /\ gb.color = fb.color /\ gb.depth = fb.depth /\ gb.stencil = fb.stencil
      /\ gb.hasStencil = fb.hasStencil /\ AttachedSlots(gb) = slots /\ callbacks' = callbacks
  BY DEF SameAttachments, AttachedSlots, StorageKept
<1>3. MipBacked(gb)' = MipBacked(fb) /\ PlaneMipBacked(gb)' = PlaneMipBacked(fb)
  BY <1>2 DEF MipBacked, PlaneMipBacked, OneImage, Attached
<1>4. Status(gb)' =
        FirstFault(faults2, after(ColorSize(first)', PlaneSize(fb.depth, TRUE, fb.hasStencil)',
                                  PlaneSize(fb.stencil, FALSE, TRUE)'))
  BY <1>2, <1>3 DEF Status, AttachedSlots, FirstFault
<1>5. faults2 = faults
  BY FaultKept
<1>6. slots # {} => ColorSize(first)' = ColorSize(first)
  <2> SUFFICES ASSUME slots # {} PROVE ColorSize(first)' = ColorSize(first)
    OBVIOUS
  <2>1. Min(slots) \in slots
    <3>1. slots \subseteq Nat
      BY SlotFacts DEF AttachedSlots
    <3> HIDE DEF slots
    <3> QED
      BY <3>1, LeastOf
  <2>2. AnyHeld(first) /\ Attached(first)
    BY <2>1, SlotFacts, HeldAny DEF BoundGood, FramebufferGood, AttachedSlots
  <2> HIDE DEF first
  <2> QED
    BY <2>2, AttachmentKept
<1>7. Attached(fb.depth) => PlaneSize(fb.depth, TRUE, fb.hasStencil)' = depth
  BY PlaneKept DEF BoundGood, FramebufferGood
<1>8. Attached(fb.stencil) => PlaneSize(fb.stencil, FALSE, TRUE)' = stencil
  BY PlaneKept DEF BoundGood, FramebufferGood
<1>9. after(ColorSize(first)', PlaneSize(fb.depth, TRUE, fb.hasStencil)',
            PlaneSize(fb.stencil, FALSE, TRUE)') = after(ColorSize(first), depth, stencil)
  <2> DEFINE s1 == ColorSize(first)
             s2 == ColorSize(first)'
             d2 == PlaneSize(fb.depth, TRUE, fb.hasStencil)'
             t2 == PlaneSize(fb.stencil, FALSE, TRUE)'
  <2>1. /\ slots # {} => s2 = s1
        /\ Attached(fb.depth) => d2 = depth
        /\ Attached(fb.stencil) => t2 = stencil
    BY <1>6, <1>7, <1>8
  <2> HIDE DEF s1, s2, d2, t2, depth, stencil, rest, slots
  <2>2. after(s2, d2, t2) = after(s1, depth, stencil)
    BY <2>1
  <2> QED
    BY <2>2 DEF s1, s2, d2, t2
<1> HIDE DEF after, faults, faults2
<1> QED
  BY <1>1, <1>4, <1>5, <1>9

(***************************************************************************)
(* Draws, clears and reads as steps.                                       *)
(***************************************************************************)
LEMMA BoundIsGood ==
    ASSUME TargetsGood, boundFramebuffer # None
    PROVE  \E fb : fb = Bound /\ BoundGood(fb) /\ boundFramebuffer \in Framebuffers
<1>1. boundFramebuffer \in Framebuffers
  BY DEF TargetsGood
<1>2. FramebufferGood(framebuffer[boundFramebuffer], texture, renderbuffer, gates)
  BY <1>1 DEF TargetsGood
<1> QED
  BY <1>1, <1>2 DEF Bound, BoundGood

ImagesStay == \A t \in Textures : texture[t].image # NoImage => texture'[t].image # NoImage

LEMMA SubmittedGood ==
    ASSUME TexturesInvariant, TexelsFit, TargetsGood, NEW fb, fb = Bound, BoundGood(fb),
           NEW out, OutcomeSound(fb, out), NEW cleaned, NEW settles,
           Submitted(out, cleaned, settles)
    PROVE  /\ TexturesInvariant' /\ TexelsFit' /\ TargetsGood'
           /\ StorageKept /\ ImagesStay /\ TargetsMatch' /\ ReadExact'
<1>1. /\ texture' = out.objects.texture /\ renderbuffer' = out.objects.renderbuffer
      /\ command' = out.command /\ sampled' = NothingSampled
      /\ UNCHANGED <<units, active, charged, gates, callbacks>>
      /\ UNCHANGED <<framebuffer, boundFramebuffer, boundRenderbuffer>>
  BY DEF Submitted, Counted
<1>2. /\ ObjectsGood(out.objects)
      /\ DOMAIN texture' = Textures /\ DOMAIN renderbuffer' = Renderbuffers
      /\ \A t \in Textures : TextureFollows(texture[t], texture'[t])
      /\ \A r \in Renderbuffers : BufferFollows(renderbuffer[r], renderbuffer'[r])
  BY <1>1 DEF OutcomeSound, ObjectsGood, Follows, Objects
<1>3. \A t \in Textures :
         /\ Current(texture'[t]) /\ texture'[t].faces = texture[t].faces
         /\ texture'[t].name = texture[t].name /\ texture'[t].target = texture[t].target
         /\ texture'[t].renderable = texture[t].renderable
  BY <1>2 DEF TextureFollows, SameBuild
<1>4. TexturesInvariant' /\ TexelsFit'
  BY <1>1, <1>2, <1>3, ImagesStep, FitsKept
<1>5. TargetsGood'
  <2>1. \A t \in Textures : StaysLive(texture[t], texture'[t])
    BY <1>3 DEF StaysLive
  <2>2. \A r \in Renderbuffers : /\ BufferStays(renderbuffer[r], renderbuffer'[r])
                                 /\ RenderbufferGood(renderbuffer'[r])
    BY <1>2 DEF BufferStays, BufferFollows
  <2>3. \A f \in Framebuffers : FramebufferGood(framebuffer'[f], texture', renderbuffer', gates')
    BY <1>1, <2>1, <2>2, FramebufferKept DEF TargetsGood
  <2> QED
    BY <1>1, <1>2, <2>2, <2>3 DEF TargetsGood
<1>6. StorageKept
  BY <1>1, <1>2, <1>3 DEF StorageKept, BufferFollows
<1>7. Bound' = fb /\ ImagesStay
  BY <1>1, <1>2 DEF Bound, ImagesStay, TextureFollows
<1>8. TargetsMatch'
  <2>1. CASE out.command = None
    BY <1>1, <2>1 DEF TargetsMatch
  <2>2. CASE out.command # None
    <3> DEFINE c == out.command
               colors == Range(c.colors)
               targets == colors \cup Range(c.planes)
    <3>1. CommandSound(out.objects, fb, c)
      BY DEF OutcomeSound
    <3>2. Status(fb) = "COMPLETE"
      BY <2>2, <3>1 DEF CommandSound
    <3>3. Status(Bound)' = "COMPLETE"
      <4>1. Status(fb)' = Status(fb)
        BY <1>6, StatusKept DEF SameAttachments
      <4> QED
        BY <1>7, <3>2, <4>1
    <3>4. Matches(out.objects, fb, c)
      BY <1>2, <2>2, <3>1, CommandMatches
    <3> HIDE DEF c
    <3>5. /\ \A x \in targets : FitsImage(out.objects, x)
          /\ \A x, y \in targets : x.size = y.size
          /\ \A x, y \in colors : x.format = y.format /\ x.logical = y.logical
      BY <3>4 DEF Matches
    <3>6. \A x \in targets : PresentImage(x.attachment)' = PresentIn(out.objects, x.attachment)
      BY <1>1 DEF PresentImage, PresentIn
    <3>7. \A x \in targets :
             LET a == x.attachment
                 image == PresentImage(a)'
             IN /\ image # NoImage /\ LevelPresent(a)' /\ image.format = x.format
                /\ x.size = IF a.kind = "TEXTURE" THEN LevelSize(image.size, a.level)
                            ELSE image.size
      BY <3>5, <3>6 DEF FitsImage, LevelPresent
    <3>8. command' = c
      BY <1>1 DEF c
    <3> HIDE DEF colors, targets
    <3> QED
      BY <3>3, <3>5, <3>7, <3>8 DEF TargetsMatch, colors, targets
  <2> QED
    BY <2>1, <2>2
<1>9. ReadExact'
  <2>1. CASE out.command = None
    BY <1>1, <2>1 DEF ReadExact, Reading
  <2>2. CASE out.command # None
    <3> DEFINE c == out.command
    <3>1. c.kind = "READ" => ReadSound(c)
      BY <2>2 DEF OutcomeSound, CommandSound
    <3>2. command' = c
      BY <1>1
    <3> HIDE DEF c
    <3> QED
      BY <3>1, <3>2 DEF ReadExact, Reading, ReadSound
  <2> QED
    BY <2>1, <2>2
<1> QED
  BY <1>4, <1>5, <1>6, <1>7, <1>8, <1>9

LEMMA UseTargetsGood ==
    ASSUME TexturesInvariant, TexelsFit, TargetsGood, UseTargets
    PROVE  /\ TexturesInvariant' /\ TexelsFit' /\ TargetsGood'
           /\ StorageKept /\ ImagesStay /\ TargetsMatch' /\ ReadExact'
<1>1. PICK failing \in SUBSET (Textures \cup Renderbuffers), done \in BOOLEAN :
        \/ \E multi \in BOOLEAN, requested \in SUBSET {"RGB", "A"},
              enabled \in SUBSET {"DEPTH", "STENCIL"} : Draw(multi, requested, enabled, failing, done)
        \/ \E mask \in SUBSET STRING, written, multi \in BOOLEAN, requested \in SUBSET {"RGB", "A"} :
              Clear(mask, written, multi, requested, failing, done)
        \/ \E box \in [at : Int \X Int, size : Int \X Int], type \in STRING, alignment \in {1, 2, 4, 8},
               given \in Nat \cup {None} :
              ReadPixels(box, type, alignment, given, failing, done)
  BY DEF UseTargets
<1>2. boundFramebuffer # None
  BY <1>1 DEF Draw, Clear, ReadPixels, Submitted
<1>3. PICK fb : fb = Bound /\ BoundGood(fb) /\ boundFramebuffer \in Framebuffers
  BY <1>2, BoundIsGood
<1>4. ASSUME NEW out, OutcomeSound(fb, out), NEW cleaned, NEW settles,
             Submitted(out, cleaned, settles)
      PROVE  /\ TexturesInvariant' /\ TexelsFit' /\ TargetsGood'
             /\ StorageKept /\ ImagesStay /\ TargetsMatch' /\ ReadExact'
  BY <1>3, <1>4, SubmittedGood
<1>5. CASE \E multi \in BOOLEAN, requested \in SUBSET {"RGB", "A"},
              enabled \in SUBSET {"DEPTH", "STENCIL"} : Draw(multi, requested, enabled, failing, done)
  <2>1. PICK multi \in BOOLEAN, requested \in SUBSET {"RGB", "A"},
              enabled \in SUBSET {"DEPTH", "STENCIL"} : Draw(multi, requested, enabled, failing, done)
    BY <1>5
  <2>2. PICK out : out = DrawOutcome(multi, requested, enabled, failing, done)
    OBVIOUS
  <2>3. OutcomeSound(fb, out)
    BY <1>3, <2>2, DrawOutcomeGood
  <2>4. Submitted(out, {"FRAMEBUFFER", "PIPELINE"}, TRUE)
    BY <2>1, <2>2 DEF Draw
  <2> QED
    BY <1>4, <2>3, <2>4
<1>6. CASE \E mask \in SUBSET STRING, written, multi \in BOOLEAN, requested \in SUBSET {"RGB", "A"} :
              Clear(mask, written, multi, requested, failing, done)
  <2>1. PICK mask \in SUBSET STRING, written \in BOOLEAN, multi \in BOOLEAN,
             requested \in SUBSET {"RGB", "A"} :
              Clear(mask, written, multi, requested, failing, done)
    BY <1>6
  <2>2. PICK out : out = ClearOutcome(mask, written, multi, requested, failing, done)
    OBVIOUS
  <2>3. OutcomeSound(fb, out)
    BY <1>3, <2>2, ClearOutcomeGood
  <2>4. Submitted(out, {"FRAMEBUFFER"}, FALSE)
    BY <2>1, <2>2 DEF Clear
  <2> QED
    BY <1>4, <2>3, <2>4
<1>7. CASE \E box \in [at : Int \X Int, size : Int \X Int], type \in STRING,
              alignment \in {1, 2, 4, 8}, given \in Nat \cup {None} :
              ReadPixels(box, type, alignment, given, failing, done)
  <2>1. PICK box \in [at : Int \X Int, size : Int \X Int], type \in STRING,
              alignment \in {1, 2, 4, 8}, given \in Nat \cup {None} :
              ReadPixels(box, type, alignment, given, failing, done)
    BY <1>7
  <2>2. PICK out : out = ReadOutcome(box, type, alignment, given, failing, done)
    OBVIOUS
  <2>3. OutcomeSound(fb, out)
    BY <1>3, <2>2, ReadOutcomeGood
  <2>4. Submitted(out, {}, FALSE)
    BY <2>1, <2>2 DEF ReadPixels
  <2> QED
    BY <1>4, <2>3, <2>4
<1> QED
  BY <1>1, <1>5, <1>6, <1>7

(***************************************************************************)
(* What holds of every state: textures, framebuffers and renderbuffers are *)
(* good ones, and so is what was submitted last.                           *)
(***************************************************************************)
CommandGood == (command # None => boundFramebuffer # None) /\ TargetsMatch /\ ReadExact
StateGood == TexturesInvariant /\ TexelsFit /\ TargetsGood
FramebuffersInvariant == StateGood /\ CommandGood

LEMMA NothingSubmitted == ASSUME command' = None PROVE CommandGood'
  BY DEF CommandGood, TargetsMatch, ReadExact, Reading

LEMMA FramebuffersStart == FramebuffersInit => FramebuffersInvariant
<1> SUFFICES ASSUME FramebuffersInit PROVE FramebuffersInvariant
  OBVIOUS
<1>1. TexturesInvariant /\ TexelsFit
  BY TexturesStart, TexelsStart DEF FramebuffersInit
<1>2. /\ framebuffer = [f \in Framebuffers |-> NoFramebuffer]
      /\ renderbuffer = [r \in Renderbuffers |-> NoRenderbuffer]
      /\ boundFramebuffer = None /\ boundRenderbuffer = None /\ command = None
  BY DEF FramebuffersInit
<1>3. TargetsGood
  BY <1>2, EmptyFramebuffer, EmptyRenderbuffer DEF TargetsGood
<1>4. CommandGood
  BY <1>2 DEF CommandGood, TargetsMatch, ReadExact, Reading
<1> QED
  BY <1>1, <1>3, <1>4 DEF FramebuffersInvariant, StateGood

(* The calls on textures, framebuffers and renderbuffers submit nothing.    *)
LEMMA TextureCallGood ==
    ASSUME StateGood, OnTextures(TextureCall) \/ \E t \in Textures : DeleteTextures(t)
    PROVE  StateGood' /\ CommandGood'
<1>1. CASE OnTextures(TextureCall)
  <2>1. TexturesInvariant' /\ TexelsFit' /\ TargetsGood'
    BY <1>1, CallKept, CallFits, OnTexturesTargets DEF OnTextures, StateGood
  <2> QED
    BY <1>1, <2>1, NothingSubmitted DEF OnTextures, StateGood
<1>2. CASE \E t \in Textures : DeleteTextures(t)
  <2>1. TexturesInvariant' /\ TexelsFit' /\ TargetsGood'
    BY <1>2, DeleteTexturesTargets DEF StateGood
  <2> QED
    BY <1>2, <2>1, NothingSubmitted DEF DeleteTextures, StateGood
<1> QED
  BY <1>1, <1>2

LEMMA FramebufferCallGood ==
    ASSUME StateGood, ChangeFramebuffer
    PROVE  StateGood' /\ CommandGood'
<1>1. CASE \E f \in Framebuffers : GenFramebuffers(f) \/ DeleteFramebuffers(f)
  <2>1. UNCHANGED storageVars /\ sampled' = NothingSampled /\ command' = None
    BY <1>1 DEF GenFramebuffers, DeleteFramebuffers, Called, Counted, Denied
  <2>2. TargetsGood'
    BY <1>1, GenFramebuffersTargets, DeleteFramebuffersTargets DEF StateGood
  <2> QED
    BY <2>1, <2>2, NothingTextures, NothingSubmitted DEF StateGood
<1>2. CASE \E f \in Framebuffers \cup {None} : BindFramebuffer(f)
  <2>1. UNCHANGED storageVars /\ sampled' = NothingSampled /\ command' = None
    BY <1>2 DEF BindFramebuffer, Called, Counted, Denied
  <2>2. TargetsGood'
    BY <1>2, BindFramebufferTargets DEF StateGood
  <2> QED
    BY <2>1, <2>2, NothingTextures, NothingSubmitted DEF StateGood
<1>3. CASE \E buffers \in Seq(STRING) : DrawBuffers(buffers)
  <2>1. UNCHANGED storageVars /\ sampled' = NothingSampled /\ command' = None
    BY <1>3 DEF DrawBuffers, Called, Counted, Denied
  <2>2. TargetsGood'
    BY <1>3, DrawBuffersTargets DEF StateGood
  <2> QED
    BY <2>1, <2>2, NothingTextures, NothingSubmitted DEF StateGood
<1>4. CASE \E point, target \in STRING, t \in Textures \cup {None}, level \in Int :
              FramebufferTexture2D(point, target, t, level)
  <2>1. command' = None
    BY <1>4 DEF FramebufferTexture2D, Called
  <2>2. TexturesInvariant' /\ TexelsFit' /\ TargetsGood'
    BY <1>4, FramebufferTextureTargets DEF StateGood
  <2> QED
    BY <2>1, <2>2, NothingSubmitted DEF StateGood
<1>5. CASE \E point \in STRING, r \in Renderbuffers \cup {None} : FramebufferRenderbuffer(point, r)
  <2>1. UNCHANGED storageVars /\ sampled' = NothingSampled /\ command' = None
    BY <1>5 DEF FramebufferRenderbuffer, Called, Counted, Denied
  <2>2. TargetsGood'
    BY <1>5, FramebufferRenderbufferTargets DEF StateGood
  <2> QED
    BY <2>1, <2>2, NothingTextures, NothingSubmitted DEF StateGood
<1> QED
  BY <1>1, <1>2, <1>3, <1>4, <1>5 DEF ChangeFramebuffer

LEMMA RenderbufferCallGood ==
    ASSUME StateGood, ChangeRenderbuffer
    PROVE  StateGood' /\ CommandGood'
<1>1. UNCHANGED storageVars /\ sampled' = NothingSampled /\ command' = None
  BY DEF ChangeRenderbuffer, GenRenderbuffers, DeleteRenderbuffers, BindRenderbuffer,
         RenderbufferStorage, Called, Counted, Denied
<1>2. TargetsGood'
  BY GenRenderbuffersTargets, DeleteRenderbuffersTargets, BindRenderbufferTargets,
     RenderbufferStorageTargets DEF ChangeRenderbuffer, StateGood
<1> QED
  BY <1>1, <1>2, NothingTextures, NothingSubmitted DEF StateGood

LEMMA UseGood ==
    ASSUME StateGood, UseTargets
    PROVE  StateGood' /\ CommandGood' /\ StorageKept /\ ImagesStay
<1>1. boundFramebuffer' # None
  BY DEF UseTargets, Draw, Clear, ReadPixels, Submitted
<1> QED
  BY <1>1, UseTargetsGood DEF StateGood, CommandGood

LEMMA StutterGood ==
    ASSUME FramebuffersInvariant, UNCHANGED <<textureVars, targetVars, command>>
    PROVE  FramebuffersInvariant'
<1>1. /\ UNCHANGED <<texture, gates, callbacks, framebuffer, renderbuffer>>
      /\ UNCHANGED <<boundFramebuffer, boundRenderbuffer, command>>
  BY DEF textureVars, targetVars
<1>2. TexturesInvariant' /\ TexelsFit' /\ TargetsGood'
  BY <1>1, StutterKept, FitsKept, NothingTargets DEF FramebuffersInvariant, StateGood
<1>3. CASE command = None
  BY <1>1, <1>2, <1>3, NothingSubmitted DEF FramebuffersInvariant, StateGood
<1>4. CASE command # None
  <2>1. PICK fb : fb = Bound /\ BoundGood(fb)
    BY <1>4, BoundIsGood DEF FramebuffersInvariant, StateGood, CommandGood
  <2>2. Bound' = fb
    BY <1>1, <2>1 DEF Bound
  <2>3. Status(Bound)' = "COMPLETE"
    <3>1. Status(fb)' = Status(fb)
      BY <1>1, <2>1, StatusKept DEF StorageKept, SameAttachments
    <3>2. Status(Bound) = "COMPLETE"
      BY <1>4 DEF FramebuffersInvariant, CommandGood, TargetsMatch
    <3> QED
      BY <2>1, <2>2, <3>1, <3>2
  <2>4. TargetsMatch'
    BY <1>1, <1>4, <2>3
       DEF FramebuffersInvariant, CommandGood, TargetsMatch, PresentImage, LevelPresent
  <2>5. ReadExact'
    BY <1>1 DEF FramebuffersInvariant, CommandGood, ReadExact, Reading
  <2> QED
    BY <1>1, <1>2, <2>4, <2>5 DEF FramebuffersInvariant, StateGood, CommandGood
<1> QED
  BY <1>3, <1>4

LEMMA FramebuffersKept ==
    ASSUME FramebuffersInvariant, [FramebuffersNext]_<<textureVars, targetVars, command>>
    PROVE  FramebuffersInvariant'
  BY TextureCallGood, FramebufferCallGood, RenderbufferCallGood, UseGood, StutterGood
     DEF FramebuffersNext, FramebuffersInvariant

(* Attachments name live objects that can be drawn to, images are those of  *)
(* the present storage, and what was submitted last fits them, whatever     *)
(* calls are made on textures, framebuffers and renderbuffers.              *)
THEOREM FramebuffersInvariantHolds == FramebuffersSpec => []FramebuffersInvariant
<1>1. FramebuffersInit => FramebuffersInvariant
  BY FramebuffersStart
<1>2. FramebuffersInvariant /\ [FramebuffersNext]_<<textureVars, targetVars, command>>
        => FramebuffersInvariant'
  BY FramebuffersKept
<1> QED
  BY <1>1, <1>2, PTL DEF FramebuffersSpec

(* What a draw, clear or read hands to the device are the present images of *)
(* the attachments of a framebuffer that is complete, of one size and, for  *)
(* colors, one format (ringl_framebuffer_resolve_color_target and its       *)
(* siblings after ringl_check_framebuffer_status).                          *)
THEOREM TargetsMatchHolds == FramebuffersSpec => []TargetsMatch
<1>1. FramebuffersInvariant => TargetsMatch
  BY DEF FramebuffersInvariant, CommandGood
<1> QED
  BY <1>1, FramebuffersInvariantHolds, PTL

(* A read delivers each place of its box that lies in the target at its     *)
(* place among the caller's bytes, and stays inside them; it is made from   *)
(* the level that is attached, of the first face whichever is               *)
(* (ringl_read_pixels and the copy to its rows).                            *)
THEOREM ReadExactHolds == FramebuffersSpec => []ReadExact
<1>1. FramebuffersInvariant => ReadExact
  BY DEF FramebuffersInvariant, CommandGood
<1> QED
  BY <1>1, FramebuffersInvariantHolds, PTL

(***************************************************************************)
(* What is marked.                                                         *)
(***************************************************************************)
LEMMA ResolutionKept ==
    ASSUME TargetsGood, StorageKept, gates \subseteq gates', boundFramebuffer' = boundFramebuffer,
           \A f \in Framebuffers : SameAttachments(framebuffer[f], framebuffer'[f])
    PROVE  Resolution' = Resolution
<1>1. CASE boundFramebuffer = None
  BY <1>1 DEF Resolution
<1>2. CASE boundFramebuffer # None
  <2>1. PICK fb : fb = Bound /\ BoundGood(fb) /\ boundFramebuffer \in Framebuffers
    BY <1>2, BoundIsGood
  <2>2. PICK gb : gb = Bound'
    OBVIOUS
  <2>3. SameAttachments(fb, gb)
    BY <2>1, <2>2 DEF Bound
  <2>4. Status(gb)' = Status(fb)
    BY <2>1, <2>3, StatusKept
  <2>5. SelectedSlots(gb)' = SelectedSlots(fb)
    <3>1. gb.drawBuffers = fb.drawBuffers
      BY <2>3 DEF SameAttachments
    <3>2. fb.drawBuffers # None => "draw_buffers" \in gates /\ "draw_buffers" \in gates'
      BY <2>1 DEF BoundGood, FramebufferGood
    <3>3. ActiveSlots(gb)' = ActiveSlots(fb)
      BY <3>1, <3>2 DEF ActiveSlots
    <3> QED
      BY <3>3 DEF SelectedSlots
  <2> DEFINE noted == [s \in Slots |-> IF Attached(fb.color[s])
                                      THEN <<fb.color[s], ColorDescription(fb.color[s])>> ELSE <<>>]
             noted2 == [s \in Slots |-> IF Attached(gb.color[s])
                                       THEN <<gb.color[s], ColorDescription(gb.color[s])'>>
                                       ELSE <<>>]
  <2>6. noted2 = noted
    <3>1. ASSUME NEW s \in Slots, Attached(fb.color[s])
          PROVE  ColorDescription(fb.color[s])' = ColorDescription(fb.color[s])
      <4> DEFINE a == fb.color[s]
      <4>1. AnyHeld(a) /\ Attached(a)
        BY <2>1, <3>1, HeldAny DEF BoundGood, FramebufferGood
      <4> HIDE DEF a
      <4>2. ColorDescription(a)' = ColorDescription(a)
        BY <4>1, AttachmentKept
      <4> QED
        BY <4>2 DEF a
    <3>2. gb.color = fb.color
      BY <2>3 DEF SameAttachments
    <3> QED
      BY <3>1, <3>2
  <2>7. gb.depth = fb.depth /\ gb.stencil = fb.stencil
    BY <2>3 DEF SameAttachments
  <2>8. Resolution = [status |-> Status(fb), slots |-> SelectedSlots(fb), depth |-> fb.depth,
                      stencil |-> fb.stencil, colors |-> noted]
    BY <1>2, <2>1 DEF Resolution
  <2>9. Resolution' = [status |-> Status(gb)', slots |-> SelectedSlots(gb)', depth |-> gb.depth,
                       stencil |-> gb.stencil, colors |-> noted2]
    BY <1>2, <2>2 DEF Resolution, Attached
  <2> HIDE DEF noted, noted2
  <2> QED
    BY <2>4, <2>5, <2>6, <2>7, <2>8, <2>9
<1> QED
  BY <1>1, <1>2

LEMMA SameStorage ==
    ASSUME UNCHANGED <<texture, callbacks, renderbuffer>>
    PROVE  StorageKept
  BY DEF StorageKept

LEMMA SameAll == ASSUME UNCHANGED framebuffer
                 PROVE  \A f \in Framebuffers : SameAttachments(framebuffer[f], framebuffer'[f])
  BY DEF SameAttachments

(* Naming a framebuffer or a renderbuffer changes nothing else of it.       *)
LEMMA NamedSame ==
    ASSUME TargetsGood, NEW f, NEW name, framebuffer' = [framebuffer EXCEPT ![f].name = name]
    PROVE  \A g \in Framebuffers : SameAttachments(framebuffer[g], framebuffer'[g])
<1> SUFFICES ASSUME NEW g \in Framebuffers PROVE SameAttachments(framebuffer[g], framebuffer'[g])
  OBVIOUS
<1>1. DOMAIN framebuffer = Framebuffers /\ DOMAIN framebuffer[g] = FramebufferFields
  BY DEF TargetsGood, FramebufferGood
<1>2. framebuffer'[g] = IF g = f THEN [framebuffer[g] EXCEPT !.name = name] ELSE framebuffer[g]
  BY <1>1
<1> QED
  BY <1>1, <1>2 DEF SameAttachments, FramebufferFields

LEMMA NamedStorage ==
    ASSUME TargetsGood, NEW r, NEW name, renderbuffer' = [renderbuffer EXCEPT ![r].name = name],
           UNCHANGED <<texture, callbacks>>
    PROVE  StorageKept
<1> SUFFICES ASSUME NEW q \in Renderbuffers
             PROVE  /\ renderbuffer'[q].format = renderbuffer[q].format
                    /\ renderbuffer'[q].size = renderbuffer[q].size
  BY DEF StorageKept
<1>1. /\ DOMAIN renderbuffer = Renderbuffers
      /\ DOMAIN renderbuffer[q] = {"name", "format", "size", "image"}
  BY DEF TargetsGood, RenderbufferGood
<1>2. renderbuffer'[q] = IF q = r THEN [renderbuffer[q] EXCEPT !.name = name] ELSE renderbuffer[q]
  BY <1>1
<1> QED
  BY <1>1, <1>2

LEMMA DeniedMarked ==
    ASSUME TargetsGood, NEW code, Denied(code)
    PROVE  Resolution' = Resolution /\ ImagesStay
<1>1. UNCHANGED <<texture, gates, callbacks, framebuffer, renderbuffer, boundFramebuffer>>
  BY DEF Denied, storageVars, targetVars
<1> QED
  BY <1>1, ResolutionKept, SameStorage, SameAll DEF ImagesStay

Marked == (\A t \in Textures : Dropped(texture[t], texture'[t]) => dirty') /\ TargetChangeMarked

LEMMA TextureCallMarked ==
    ASSUME StateGood, OnTextures(TextureCall) \/ \E t \in Textures : DeleteTextures(t)
    PROVE  Marked
<1>1. CASE OnTextures(TextureCall)
  <2>1. TextureCall /\ UNCHANGED <<framebuffer, renderbuffer, boundFramebuffer>>
    BY <1>1 DEF OnTextures, targetVars
  <2>2. /\ gates \subseteq gates' /\ callbacks' = callbacks
        /\ \A t \in Textures : Leaves(texture[t], texture'[t], dirty')
    BY <2>1, CallLeaves DEF StateGood
  <2>3. CASE dirty'
    BY <2>3 DEF Marked, TargetChangeMarked
  <2>4. CASE ~dirty'
    <3>1. \A t \in Textures : /\ LiveKept(texture[t], texture'[t])
                              /\ FacesKept(texture[t], texture'[t])
                              /\ ~Dropped(texture[t], texture'[t])
      BY <2>2, <2>4 DEF Leaves
    <3>2. StorageKept
      BY <2>1, <2>2, <3>1 DEF StorageKept, LiveKept, FacesKept
    <3>3. Resolution' = Resolution
      BY <2>1, <2>2, <3>2, ResolutionKept, SameAll DEF StateGood
    <3> QED
      BY <3>1, <3>3 DEF Marked, TargetChangeMarked
  <2> QED
    BY <2>3, <2>4
<1>2. CASE \E t \in Textures : DeleteTextures(t)
  BY <1>2 DEF DeleteTextures, DeleteTexture, Marked, TargetChangeMarked
<1> QED
  BY <1>1, <1>2

LEMMA StayMarked ==
    ASSUME ImagesStay, TargetChangeMarked
    PROVE  Marked
  BY DEF ImagesStay, Marked, Dropped

LEMMA FramebufferCallMarked ==
    ASSUME StateGood, ChangeFramebuffer
    PROVE  Marked
<1>1. CASE \E f \in Framebuffers : GenFramebuffers(f) \/ DeleteFramebuffers(f)
  <2>1. PICK f \in Framebuffers : GenFramebuffers(f) \/ DeleteFramebuffers(f)
    BY <1>1
  <2>2. CASE Denied("OUT_OF_MEMORY")
    BY <2>2, DeniedMarked, StayMarked DEF StateGood, TargetChangeMarked
  <2>3. CASE /\ framebuffer' = [framebuffer EXCEPT ![f].name = "reserved"]
             /\ UNCHANGED <<storageVars, renderbuffer, boundFramebuffer, boundRenderbuffer, marks>>
    <3>1. UNCHANGED <<texture, gates, callbacks, renderbuffer, boundFramebuffer>>
      BY <2>3 DEF storageVars
    <3>2. Resolution' = Resolution
      BY <2>3, <3>1, NamedSame, SameStorage, ResolutionKept DEF StateGood
    <3> QED
      BY <3>1, <3>2 DEF Marked, Dropped, TargetChangeMarked
  <2>4. CASE DeleteFramebuffers(f)
    BY <2>4 DEF DeleteFramebuffers, Marking, storageVars, Marked, Dropped, TargetChangeMarked
  <2> QED
    BY <2>1, <2>2, <2>3, <2>4 DEF GenFramebuffers
<1>2. CASE \E f \in Framebuffers \cup {None} : BindFramebuffer(f)
  <2>1. PICK f \in Framebuffers \cup {None} : BindFramebuffer(f)
    BY <1>2
  <2>2. CASE Denied("INVALID_OPERATION")
    BY <2>2, DeniedMarked, StayMarked DEF StateGood, TargetChangeMarked
  <2>3. CASE /\ framebuffer' = IF f = None THEN framebuffer
                               ELSE [framebuffer EXCEPT ![f].name = "live"]
             /\ boundFramebuffer' = f
             /\ Marking(IF boundFramebuffer = f THEN {} ELSE {"FRAMEBUFFER"})
             /\ UNCHANGED <<storageVars, renderbuffer, boundRenderbuffer>>
    <3>1. UNCHANGED <<texture, gates, callbacks, renderbuffer>>
      BY <2>3 DEF storageVars
    <3>2. CASE boundFramebuffer # f
      BY <2>3, <3>1, <3>2 DEF Marking, Marked, Dropped, TargetChangeMarked
    <3>3. CASE boundFramebuffer = f
      <4>1. \A g \in Framebuffers : SameAttachments(framebuffer[g], framebuffer'[g])
        <5>1. CASE f = None
          BY <2>3, <5>1, SameAll
        <5>2. CASE f # None
          BY <2>3, <5>2, NamedSame DEF StateGood
        <5> QED
          BY <5>1, <5>2
      <4>2. Resolution' = Resolution
        BY <2>3, <3>1, <3>3, <4>1, SameStorage, ResolutionKept DEF StateGood
      <4> QED
        BY <3>1, <4>2 DEF Marked, Dropped, TargetChangeMarked
    <3> QED
      BY <3>2, <3>3
  <2> QED
    BY <2>1, <2>2, <2>3 DEF BindFramebuffer
<1>3. CASE \E buffers \in Seq(STRING) : DrawBuffers(buffers)
  <2>1. PICK buffers \in Seq(STRING) : DrawBuffers(buffers)
    BY <1>3
  <2>2. CASE Denied(DrawBuffersError(buffers))
    BY <2>2, DeniedMarked, StayMarked DEF StateGood, TargetChangeMarked
  <2>3. CASE Marking({"FRAMEBUFFER", "PIPELINE"}) /\ UNCHANGED storageVars
    BY <2>3 DEF Marking, storageVars, Marked, Dropped, TargetChangeMarked
  <2> QED
    BY <2>1, <2>2, <2>3 DEF DrawBuffers
<1>4. CASE \E point, target \in STRING, t \in Textures \cup {None}, level \in Int :
              FramebufferTexture2D(point, target, t, level)
  <2>1. PICK point \in STRING, target \in STRING, t \in Textures \cup {None}, level \in Int :
              FramebufferTexture2D(point, target, t, level)
    BY <1>4
  <2> DEFINE made == IF t = None THEN FALSE ELSE MadeTarget(point, target, t, level)
             code == TextureAttachError(point, target, t, level)
  <2>2. /\ texture' = IF made THEN [texture EXCEPT ![t] = Required(@)] ELSE texture
        /\ dirty' = (dirty \/ made)
        /\ code # "NO_ERROR" => framebuffer' = framebuffer
        /\ Marking(IF code = "NO_ERROR" \/ made THEN {"FRAMEBUFFER"} ELSE {})
        /\ UNCHANGED <<gates, callbacks, renderbuffer, boundFramebuffer>>
    BY <2>1 DEF FramebufferTexture2D
  <2> HIDE DEF made, code
  <2>3. CASE made
    BY <2>2, <2>3 DEF Marked, TargetChangeMarked
  <2>4. CASE ~made /\ code = "NO_ERROR"
    BY <2>2, <2>4 DEF Marking, Marked, Dropped, TargetChangeMarked
  <2>5. CASE ~made /\ code # "NO_ERROR"
    <3>1. Resolution' = Resolution
      BY <2>2, <2>5, SameStorage, SameAll, ResolutionKept DEF StateGood
    <3> QED
      BY <2>2, <2>5, <3>1 DEF Marked, Dropped, TargetChangeMarked
  <2> QED
    BY <2>3, <2>4, <2>5
<1>5. CASE \E point \in STRING, r \in Renderbuffers \cup {None} : FramebufferRenderbuffer(point, r)
  <2>1. PICK point \in STRING, r \in Renderbuffers \cup {None} : FramebufferRenderbuffer(point, r)
    BY <1>5
  <2>2. CASE Denied(RenderbufferAttachError(point, r))
    BY <2>2, DeniedMarked, StayMarked DEF StateGood, TargetChangeMarked
  <2>3. CASE Marking({"FRAMEBUFFER"}) /\ UNCHANGED storageVars
    BY <2>3 DEF Marking, storageVars, Marked, Dropped, TargetChangeMarked
  <2> QED
    BY <2>1, <2>2, <2>3 DEF FramebufferRenderbuffer
<1> QED
  BY <1>1, <1>2, <1>3, <1>4, <1>5 DEF ChangeFramebuffer

LEMMA RenderbufferCallMarked ==
    ASSUME StateGood, ChangeRenderbuffer
    PROVE  Marked
<1>1. CASE \E r \in Renderbuffers : GenRenderbuffers(r) \/ DeleteRenderbuffers(r)
  <2>1. PICK r \in Renderbuffers : GenRenderbuffers(r) \/ DeleteRenderbuffers(r)
    BY <1>1
  <2>2. CASE Denied("OUT_OF_MEMORY")
    BY <2>2, DeniedMarked, StayMarked DEF StateGood, TargetChangeMarked
  <2>3. CASE /\ renderbuffer' = [renderbuffer EXCEPT ![r].name = "reserved"]
             /\ UNCHANGED <<storageVars, framebuffer, boundFramebuffer, boundRenderbuffer, marks>>
    <3>1. UNCHANGED <<texture, gates, callbacks, framebuffer, boundFramebuffer>>
      BY <2>3 DEF storageVars
    <3>2. Resolution' = Resolution
      BY <2>3, <3>1, NamedStorage, SameAll, ResolutionKept DEF StateGood
    <3> QED
      BY <3>1, <3>2 DEF Marked, Dropped, TargetChangeMarked
  <2>4. CASE DeleteRenderbuffers(r)
    BY <2>4 DEF DeleteRenderbuffers, Marking, storageVars, Marked, Dropped, TargetChangeMarked
  <2> QED
    BY <2>1, <2>2, <2>3, <2>4 DEF GenRenderbuffers
<1>2. CASE \E r \in Renderbuffers \cup {None} : BindRenderbuffer(r)
  <2>1. PICK r \in Renderbuffers \cup {None} : BindRenderbuffer(r)
    BY <1>2
  <2>2. CASE Denied("INVALID_OPERATION")
    BY <2>2, DeniedMarked, StayMarked DEF StateGood, TargetChangeMarked
  <2>3. CASE /\ renderbuffer' = IF r = None THEN renderbuffer
                                ELSE [renderbuffer EXCEPT ![r].name = "live"]
             /\ UNCHANGED <<storageVars, framebuffer, boundFramebuffer>>
    <3>1. UNCHANGED <<texture, gates, callbacks, framebuffer, boundFramebuffer>>
      BY <2>3 DEF storageVars
    <3>2. StorageKept
      <4>1. CASE r = None
        BY <2>3, <3>1, <4>1, SameStorage
      <4>2. CASE r # None
        BY <2>3, <3>1, <4>2, NamedStorage DEF StateGood
      <4> QED
        BY <4>1, <4>2
    <3>3. Resolution' = Resolution
      BY <3>1, <3>2, SameAll, ResolutionKept DEF StateGood
    <3> QED
      BY <3>1, <3>3 DEF Marked, Dropped, TargetChangeMarked
  <2> QED
    BY <2>1, <2>2, <2>3 DEF BindRenderbuffer
<1>3. CASE \E format \in STRING, size \in Int \X Int : RenderbufferStorage(format, size)
  <2>1. PICK format \in STRING, size \in Int \X Int : RenderbufferStorage(format, size)
    BY <1>3
  <2>2. CASE Denied(StorageError(format, size))
    BY <2>2, DeniedMarked, StayMarked DEF StateGood, TargetChangeMarked
  <2>3. CASE Marking({"FRAMEBUFFER"}) /\ UNCHANGED storageVars
    BY <2>3 DEF Marking, storageVars, Marked, Dropped, TargetChangeMarked
  <2> QED
    BY <2>1, <2>2, <2>3 DEF RenderbufferStorage
<1> QED
  BY <1>1, <1>2, <1>3 DEF ChangeRenderbuffer

(* Draws, clears and reads give images to objects and change none.          *)
LEMMA UseMarked ==
    ASSUME StateGood, UseTargets
    PROVE  Marked
<1>1. StorageKept /\ ImagesStay
  BY UseGood
<1>2. UNCHANGED <<gates, framebuffer, boundFramebuffer>>
  BY DEF UseTargets, Draw, Clear, ReadPixels, Submitted
<1>3. Resolution' = Resolution
  BY <1>1, <1>2, SameAll, ResolutionKept DEF StateGood
<1> QED
  BY <1>1, <1>3, StayMarked DEF TargetChangeMarked

(* What a draw makes of the bound framebuffer, and the images textures      *)
(* have, change only in calls that mark it: RINGL_DIRTY_FRAMEBUFFER after   *)
(* attaching, binding, storing and deleting, RINGL_DIRTY_TEXTURES after     *)
(* changes of a texture.  A draw, clear or read that makes the images keeps *)
(* what the embedding has looked at.                                        *)
THEOREM ChangesMarkedHolds == FramebuffersSpec => ChangesMarked
<1>1. FramebuffersInvariant /\ [FramebuffersNext]_<<textureVars, targetVars, command>>
        => [DropMarked /\ TargetChangeMarked]_<<textureVars, targetVars, command>>
  BY TextureCallMarked, FramebufferCallMarked, RenderbufferCallMarked, UseMarked
     DEF FramebuffersNext, FramebuffersInvariant, Marked, DropMarked, Dropped
<1> QED
  BY <1>1, FramebuffersInvariantHolds, PTL DEF FramebuffersSpec, ChangesMarked

-----------------------------------------------------------------------------
(***************************************************************************)
(* What is complete can be drawn to.  An image is there for every storage, *)
(* so resolving refuses nothing, and the callbacks are there.              *)
(***************************************************************************)
LEMMA ImageThere ==
    ASSUME NEW x, NEW used, NEW count
    PROVE  Image(x, used, count) # NoImage
<1>1. DOMAIN Image(x, used, count) = ImageFields
  BY DEF Image, ImageFields
<1> QED
  BY <1>1, NotNoImage

LEMMA ImageToBeHad ==
    ASSUME NEW x, NEW layer \in Faces, NEW level \in Levels, Stored(x.faces[layer], level),
           FaceFits(x.faces[layer]), x.target # "CUBE" => layer = First,
           {"mip", "array"} \subseteq callbacks,
           \/ x.renderable /\ IsColor(Summary(x).format)
           \/ x.target # "CUBE" /\ Summary(x).format.base \in DepthFormats
    PROVE  RealizedImage(x) # NoImage
<1>1. Stored(x.faces[layer], 0)
  BY DEF FaceFits
<1>2. CASE x.image # NoImage
  BY <1>2 DEF RealizedImage
<1>3. CASE x.image = NoImage /\ x.target = "CUBE"
  <2> DEFINE count == HighestDefinedMipCount(x, Faces)
  <2>1. 0 < HighestOf(x.faces, Faces)
    BY <1>1, HighestCount, ChainLevels DEF Sized
  <2>2. count = HighestOf(x.faces, Faces) /\ count # 0
    BY <2>1, HighestIs, HighestCount
  <2> HIDE DEF count
  <2>3. RealizedImage(x) = Image(x, Faces, count)
    BY <1>3, <2>2 DEF RealizedImage, RealizedCube, count
  <2> QED
    BY <2>3, ImageThere
<1>4. CASE x.image = NoImage /\ x.target # "CUBE"
  <2> DEFINE count == HighestDefinedMipCount(x, {First})
  <2>1. Summary(x) = x.faces[First] /\ layer = First
    BY <1>4 DEF Summary
  <2>2. RealizedImage(x) = Image(x, {First}, count)
    BY <1>1, <1>4, <2>1 DEF RealizedImage, RealizedFlat
  <2> HIDE DEF count
  <2> QED
    BY <2>2, ImageThere
<1> QED
  BY <1>2, <1>3, <1>4

LEMMA StorageThere ==
    ASSUME NEW r
    PROVE  RealizedStorage(r) # NoImage
<1> DEFINE image == [format |-> IF r.format \in PlaneStorageFormats THEN PlaneFormat(r.format)
                                ELSE DeviceFormat(StorageFormat(r.format)), size |-> r.size]
<1>1. DOMAIN image = {"format", "size"} /\ DOMAIN NoImage = {"levels"}
  BY DEF NoImage
<1>2. RealizedStorage(r) = IF r.image # NoImage THEN r.image ELSE image
  BY DEF RealizedStorage
<1> HIDE DEF image
<1> QED
  BY <1>1, <1>2

LEMMA ColorThere ==
    ASSUME TexelsFit, NEW o, ObjectsGood(o), NEW a, ColorHeld(texture, renderbuffer, a), Attached(a),
           Area(ColorSize(a)) # 0, AllCallbacks \subseteq callbacks
    PROVE  TargetImage(o, a, "COLOR", {}) # NoImage
<1>0. Area(<<0, 0>>) = 0
  BY DEF Area
<1>1. Objects.texture = texture /\ Objects.renderbuffer = renderbuffer
  BY DEF Objects
<1>2. CASE BufferHeld(renderbuffer, a)
  <2> DEFINE r == o.renderbuffer[a.object]
  <2>1. a.kind = "RENDERBUFFER" /\ a.object \in Renderbuffers
    BY <1>2 DEF BufferHeld
  <2>2. renderbuffer[a.object].format \in ColorStorageFormats
    BY <1>0, <2>1 DEF ColorSize
  <2>3. r.format \in ColorStorageFormats
    BY <1>1, <2>1, <2>2 DEF ObjectsGood, Follows, BufferFollows
  <2> HIDE DEF r
  <2>4. TargetImage(o, a, "COLOR", {}) = RealizedStorage(r)
    BY <2>1, <2>3 DEF TargetImage, r
  <2> QED
    BY <2>4, StorageThere
<1>3. CASE TextureHeld(texture, a) /\ texture[a.object].renderable
             /\ (texture[a.object].target # "CUBE" => a.layer = First)
  <2> DEFINE x == o.texture[a.object]
  <2>1. a.kind = "TEXTURE" /\ a.object \in Textures /\ a.level \in Levels /\ a.layer \in Faces
    BY <1>3 DEF TextureHeld
  <2>2. /\ x.faces = texture[a.object].faces /\ x.target = texture[a.object].target
        /\ x.renderable = texture[a.object].renderable
    BY <1>1, <2>1 DEF ObjectsGood, Follows, TextureFollows, SameBuild
  <2>3. FormatSound(FormatOf(a)) /\ FaceFits(texture[a.object].faces[a.layer])
    BY <2>1, SummarySound DEF FormatOf, TexelsFit
  <2>4. /\ Area(LevelOf(a).size) # 0
        /\ FormatOf(a).base = "RGBA" \/ IsFloat(FormatOf(a)) \/ IsPacked(FormatOf(a))
    BY <1>0, <2>1 DEF ColorSize
  <2>5. IsColor(FormatOf(a))
    BY <2>3, <2>4 DEF FormatSound, IsColor, ColorFormats, Canonical, IsPacked
  <2>6. Summary(x).format = FormatOf(a)
    BY <2>2, SummaryIs DEF FormatOf
  <2>7. Stored(x.faces[a.layer], a.level) /\ FaceFits(x.faces[a.layer])
    BY <2>2, <2>3, <2>4 DEF LevelOf, Stored
  <2>8. {"mip", "array"} \subseteq callbacks
    BY DEF AllCallbacks
  <2> HIDE DEF x
  <2>9. RealizedImage(x) # NoImage
    BY <1>3, <2>1, <2>2, <2>5, <2>6, <2>7, <2>8, ImageToBeHad
  <2> QED
    BY <2>1, <2>7, <2>9 DEF TargetImage, x
<1> QED
  BY <1>2, <1>3 DEF ColorHeld, Attached

LEMMA PlaneThere ==
    ASSUME TexelsFit, NEW o, ObjectsGood(o), NEW a, PlaneHeld(texture, renderbuffer, a), Attached(a),
           ~IsCube(a), StorageOf(a) \in PlaneStorageFormats, Area(PlaneExtent(a)) # 0,
           AllCallbacks \subseteq callbacks
    PROVE  TargetImage(o, a, "PLANE", {}) # NoImage
<1>1. Objects.texture = texture /\ Objects.renderbuffer = renderbuffer
  BY DEF Objects
<1>2. CASE BufferHeld(renderbuffer, a)
  <2> DEFINE r == o.renderbuffer[a.object]
  <2>1. a.kind = "RENDERBUFFER" /\ a.object \in Renderbuffers
    BY <1>2 DEF BufferHeld
  <2>2. r.format \in PlaneStorageFormats
    BY <1>1, <2>1 DEF ObjectsGood, Follows, BufferFollows, StorageOf
  <2> HIDE DEF r
  <2>3. TargetImage(o, a, "PLANE", {}) = RealizedStorage(r)
    BY <2>1, <2>2 DEF TargetImage, r
  <2> QED
    BY <2>3, StorageThere
<1>3. CASE TextureHeld(texture, a) /\ a.layer = First
  <2> DEFINE x == o.texture[a.object]
  <2>1. a.kind = "TEXTURE" /\ a.object \in Textures /\ a.level \in Levels /\ a.layer \in Faces
    BY <1>3 DEF TextureHeld
  <2>2. x.faces = texture[a.object].faces /\ x.target = texture[a.object].target /\ x.target # "CUBE"
    BY <1>1, <2>1 DEF ObjectsGood, Follows, TextureFollows, SameBuild, IsCube
  <2>3. FormatSound(FormatOf(a)) /\ FaceFits(texture[a.object].faces[a.layer])
    BY <2>1, SummarySound DEF FormatOf, TexelsFit
  <2>4. FormatOf(a).base \in PlaneStorageFormats
    BY <2>1, FramebufferAssumption, TextureAssumption
       DEF StorageOf, PlaneStorageFormats, DepthFormats
  <2>5. FormatOf(a).base \in DepthFormats
    BY <2>3, <2>4, FramebufferAssumption, TextureAssumption
       DEF FormatSound, PlaneStorageFormats, ColorFormats, Canonical, Packed, DepthFormats
  <2>6. Summary(x).format = FormatOf(a)
    BY <2>2, SummaryIs DEF FormatOf
  <2>7. Stored(x.faces[a.layer], a.level) /\ FaceFits(x.faces[a.layer])
    BY <2>1, <2>2, <2>3 DEF PlaneExtent, LevelOf, Stored
  <2>8. {"mip", "array"} \subseteq callbacks
    BY DEF AllCallbacks
  <2> HIDE DEF x
  <2>9. RealizedImage(x) # NoImage
    BY <1>3, <2>1, <2>2, <2>5, <2>6, <2>7, <2>8, ImageToBeHad
  <2> QED
    BY <2>1, <2>5, <2>6, <2>7, <2>9 DEF TargetImage, x
<1> QED
  BY <1>2, <1>3 DEF PlaneHeld, Attached

(* What has images, and one logical format, is resolved.                    *)
LEMMA ResolvedAll ==
    ASSUME NEW o, NEW attachments, NEW use,
           \A i \in DOMAIN attachments : TargetImage(o, attachments[i], use, {}) # NoImage,
           \/ use = "PLANE"
           \/ \A i, j \in DOMAIN attachments :
                 LogicalFormat(attachments[i]) = LogicalFormat(attachments[j])
    PROVE  ~Resolved(o, attachments, use, {}).failed
<1> DEFINE D == DOMAIN attachments
           target == [i \in D |->
               TargetWith(attachments[i], use, TargetImage(o, attachments[i], use, {}))]
           bad == {i \in D : \/ target[i].image = NoImage
                             \/ \E j \in D : j < i /\ target[j].logical # target[i].logical}
<1>1. Resolved(o, attachments, use, {}).failed = (bad # {})
  BY DEF Resolved, UpToFault
<1>2. ASSUME NEW i \in D
      PROVE  /\ target[i].image # NoImage
             /\ target[i].logical = IF use = "PLANE" THEN None ELSE LogicalFormat(attachments[i])
  <2> DEFINE a == attachments[i]
             image == TargetImage(o, a, use, {})
  <2>1. target[i] = IF image = NoImage
                    THEN [attachment |-> a, image |-> NoImage, logical |-> None]
                    ELSE IF use = "PLANE" THEN PlaneTarget(a, image) ELSE ColorTarget(a, image)
    BY DEF TargetWith
  <2>2. image # NoImage
    OBVIOUS
  <2>3. target[i] = IF use = "PLANE" THEN PlaneTarget(a, image) ELSE ColorTarget(a, image)
    BY <2>1, <2>2
  <2> HIDE DEF target, image, a
  <2>4. CASE use = "PLANE"
    <3>1. target[i] = PlaneTarget(a, image)
      BY <2>3, <2>4
    <3> QED
      BY <2>2, <2>4, <3>1 DEF PlaneTarget
  <2>5. CASE use # "PLANE"
    <3>1. target[i] = ColorTarget(a, image)
      BY <2>3, <2>5
    <3> QED
      BY <2>2, <2>5, <3>1 DEF ColorTarget, a
  <2> QED
    BY <2>4, <2>5
<1> HIDE DEF target
<1>3. \A i, j \in D : target[i].logical = target[j].logical
  BY <1>2
<1>4. bad = {}
  BY <1>2, <1>3
<1> QED
  BY <1>1, <1>4

LEMMA SelectedInSlots ==
    ASSUME NEW fb, BoundGood(fb)
    PROVE  SelectedSlots(fb) \subseteq Slots /\ SelectedSlots(fb) # {}
<1>1. ActiveSlots(fb) \subseteq Slots
  BY SlotFacts DEF ActiveSlots, BoundGood, FramebufferGood
<1> QED
  BY <1>1, SlotFacts DEF SelectedSlots

(* Of a complete framebuffer, the slots that have attachments, and planes.  *)
LEMMA CompleteColors ==
    ASSUME NEW fb, Status(fb) = "COMPLETE", NEW s \in Slots, Attached(fb.color[s])
    PROVE  /\ Area(ColorSize(fb.color[s])) # 0 /\ ~HalfRgb(fb.color[s])
           /\ fb.color[s].kind = "TEXTURE" => FormatOf(fb.color[s]).compressed = None
           /\ ColorDescription(fb.color[s]) = CommonDescription(fb)
<1>1. PICK i \in DOMAIN SlotNames : s = SlotNames[i]
  BY SlotFacts
<1>2. i \in AttachedSlots(fb)
  BY <1>1 DEF AttachedSlots
<1> QED
  BY <1>1, <1>2, CompleteAttachments DEF CommonDescription

LEMMA CompletePlanes ==
    ASSUME NEW fb, Status(fb) = "COMPLETE", NEW a \in {fb.depth, fb.stencil}, Attached(a)
    PROVE  StorageOf(a) \in PlaneStorageFormats /\ Area(PlaneExtent(a)) # 0
<1> DEFINE slots == AttachedSlots(fb)
           first == fb.color[SlotNames[Min(slots)]]
<1>1. /\ Min(slots) \in slots
      /\ \A i \in slots : Area(ColorSize(fb.color[SlotNames[i]])) # 0
      /\ StorageOf(a) \in PlaneStorageFormats /\ PlaneExtent(a) = ColorSize(first)
  BY CompleteAttachments
<1>2. Area(ColorSize(first)) # 0
  <2> HIDE DEF slots
  <2> QED
    BY <1>1
<1> QED
  BY <1>1, <1>2

DrawableFramebuffer(fb) ==
    /\ AllCallbacks \subseteq callbacks /\ Status(fb) = "COMPLETE"
    /\ ~IsCube(fb.depth) /\ ~IsCube(fb.stencil)
    /\ \A s \in SelectedSlots(fb) : Attached(fb.color[s])
    /\ \A s, q \in SelectedSlots(fb) : TargetLayer(fb.color[s]) = TargetLayer(fb.color[q])

LEMMA PlanesFound ==
    ASSUME TexelsFit, NEW o, ObjectsGood(o), NEW fb, BoundGood(fb), DrawableFramebuffer(fb)
    PROVE  ~PlaneTargets(o, fb, {}).failed
<1> DEFINE planes == <<fb.depth, fb.stencil>>
           used == {j \in DOMAIN planes : Attached(planes[j])}
           attachments == [i \in used |-> planes[i]]
<1>1. PlaneTargets(o, fb, {}) = Resolved(o, attachments, "PLANE", {})
  BY DEF PlaneTargets, DrawableFramebuffer
<1>2. /\ DOMAIN attachments = used
      /\ \A i \in used : attachments[i] \in {fb.depth, fb.stencil} /\ Attached(attachments[i])
  <2>1. DOMAIN planes = {1, 2} /\ planes[1] = fb.depth /\ planes[2] = fb.stencil
    OBVIOUS
  <2> QED
    BY <2>1
<1> HIDE DEF attachments, used
<1>3. ASSUME NEW i \in used
      PROVE  TargetImage(o, attachments[i], "PLANE", {}) # NoImage
  <2> DEFINE a == attachments[i]
  <2>1. /\ a \in {fb.depth, fb.stencil} /\ Attached(a) /\ ~IsCube(a)
        /\ PlaneHeld(texture, renderbuffer, a)
    BY <1>2 DEF DrawableFramebuffer, BoundGood, FramebufferGood
  <2>2. AllCallbacks \subseteq callbacks /\ Status(fb) = "COMPLETE"
    BY DEF DrawableFramebuffer
  <2> HIDE DEF a
  <2>3. StorageOf(a) \in PlaneStorageFormats /\ Area(PlaneExtent(a)) # 0
    BY <2>1, <2>2, CompletePlanes
  <2>4. TargetImage(o, a, "PLANE", {}) # NoImage
    BY <2>1, <2>2, <2>3, PlaneThere
  <2> QED
    BY <2>4 DEF a
<1>4. ~Resolved(o, attachments, "PLANE", {}).failed
  BY <1>2, <1>3, ResolvedAll
<1> QED
  BY <1>1, <1>4

LEMMA ColorsFound ==
    ASSUME TexelsFit, NEW o, ObjectsGood(o), NEW fb, BoundGood(fb), DrawableFramebuffer(fb)
    PROVE  LET res == ColorTargets(o, fb, {})
           IN ~res.failed /\ Uniform(res.targets)
<1> DEFINE slots == {i \in DOMAIN SlotNames : SlotNames[i] \in SelectedSlots(fb)}
           attachments == [i \in slots |-> fb.color[SlotNames[i]]]
           res == Resolved(o, attachments, "COLOR", {})
<1>1. ColorTargets(o, fb, {}) = res
  BY DEF ColorTargets
<1>2. /\ DOMAIN attachments = slots /\ slots \subseteq Nat
      /\ \A i \in slots : /\ SlotNames[i] \in Slots /\ SlotNames[i] \in SelectedSlots(fb)
                          /\ attachments[i] = fb.color[SlotNames[i]]
  BY SlotFacts
<1> HIDE DEF attachments, slots
<1>3. ASSUME NEW i \in slots
      PROVE  /\ ColorHeld(texture, renderbuffer, attachments[i]) /\ Attached(attachments[i])
             /\ Area(ColorSize(attachments[i])) # 0 /\ ~HalfRgb(attachments[i])
             /\ ColorDescription(attachments[i]) = CommonDescription(fb)
  BY <1>2, CompleteColors DEF DrawableFramebuffer, BoundGood, FramebufferGood
<1>4. ASSUME NEW i \in slots
      PROVE  TargetImage(o, attachments[i], "COLOR", {}) # NoImage
  BY <1>3, ColorThere DEF DrawableFramebuffer
<1>5. ASSUME NEW i \in slots
      PROVE  /\ ColorSize(attachments[i]) = CommonDescription(fb)[1]
             /\ DeclaredFormat(attachments[i]) = CommonDescription(fb)[2]
             /\ LogicalFormat(attachments[i]) = CommonDescription(fb)[3]
  <2> DEFINE a == attachments[i]
  <2>1. ColorDescription(a) = CommonDescription(fb)
    BY <1>3
  <2> HIDE DEF a
  <2>2. /\ ColorDescription(a)[1] = ColorSize(a) /\ ColorDescription(a)[2] = DeclaredFormat(a)
        /\ ColorDescription(a)[3] = LogicalFormat(a)
    BY DEF ColorDescription
  <2> QED
    BY <2>1, <2>2 DEF a
<1>6. ~res.failed
  <2>1. \A i \in DOMAIN attachments : TargetImage(o, attachments[i], "COLOR", {}) # NoImage
    BY <1>2, <1>4
  <2>2. \A i, j \in DOMAIN attachments :
           LogicalFormat(attachments[i]) = LogicalFormat(attachments[j])
    BY <1>2, <1>5
  <2> QED
    BY <2>1, <2>2, ResolvedAll
<1>7. /\ DOMAIN res.targets = slots
      /\ \A i \in slots : Sound("COLOR", attachments[i], res.targets[i])
  <2>1. DOMAIN attachments \subseteq Nat /\ \A i \in DOMAIN attachments : AnyHeld(attachments[i])
    BY <1>2, <1>3, HeldAny
  <2>2. /\ Follows(o, res.objects) /\ DOMAIN res.targets = DOMAIN attachments
        /\ ~res.failed =>
              /\ \A i \in DOMAIN attachments : Sound("COLOR", attachments[i], res.targets[i])
                                                /\ HasImage(res.objects, attachments[i])
              /\ \A i, j \in DOMAIN attachments : res.targets[i].logical = res.targets[j].logical
    BY <2>1, ResolvedGood
  <2> HIDE DEF res
  <2> QED
    BY <1>2, <1>6, <2>2
<1> HIDE DEF res
<1>8. ASSUME NEW i \in slots
      PROVE  /\ res.targets[i].attachment = attachments[i]
             /\ res.targets[i].size = CommonDescription(fb)[1]
             /\ res.targets[i].format = CommonDescription(fb)[2]
  <2>1. /\ TargetStored(attachments[i], "COLOR") /\ res.targets[i].attachment = attachments[i]
        /\ res.targets[i].format = TargetFormat(attachments[i])
        /\ res.targets[i].size = ColorSize(attachments[i])
    BY <1>7 DEF Sound, ColorSound
  <2>2. DeclaredFormat(attachments[i]) = TargetFormat(attachments[i])
    BY <1>3, <2>1, DeclaredIsTarget
  <2> QED
    BY <1>5, <2>1, <2>2
<1>9. Uniform(res.targets)
  <2> SUFFICES ASSUME NEW i \in slots, NEW j \in slots
               PROVE  /\ res.targets[i].size = res.targets[j].size
                      /\ res.targets[i].format = res.targets[j].format
                      /\ TargetLayer(res.targets[i].attachment)
                            = TargetLayer(res.targets[j].attachment)
    BY <1>7 DEF Uniform
  <2>1. TargetLayer(attachments[i]) = TargetLayer(attachments[j])
    BY <1>2 DEF DrawableFramebuffer
  <2> QED
    BY <1>8, <2>1
<1> QED
  BY <1>1, <1>6, <1>9

LEMMA DrawSucceeds ==
    ASSUME TexturesInvariant, TexelsFit, TargetsGood, NEW fb, BoundGood(fb), DrawableFramebuffer(fb),
           NEW multi, NEW writes, NEW enabled, NEW refusal
    PROVE  LET planes == PlaneTargets(Objects, fb, {})
               colors == ColorTargets(planes.objects, fb, {})
           IN \/ OutputsConflict(fb, multi, writes)
              \/ DrawnWith(fb, planes, colors, refusal, multi, writes, enabled, TRUE).code = "NO_ERROR"
<1> DEFINE planes == PlaneTargets(Objects, fb, {})
           colors == ColorTargets(planes.objects, fb, {})
           anchor == Anchor(colors.targets)
           tests == {p \in enabled : Attached(IF p = "DEPTH" THEN fb.depth ELSE fb.stencil)}
           begun == Begun(fb, colors.targets, multi, writes, tests # {})
<1>1. ObjectsGood(Objects)
  BY ObjectsThemselves
<1>2. ~planes.failed
  BY <1>1, PlanesFound
<1>3. ObjectsGood(planes.objects)
  <2>1. Follows(Objects, planes.objects)
    BY <1>1, PlaneTargetsGood
  <2> QED
    BY <2>1 DEF ObjectsGood
<1> HIDE DEF planes
<1>4. ~colors.failed /\ Uniform(colors.targets)
  BY <1>3, ColorsFound
<1> HIDE DEF colors, tests
<1>5. AllCallbacks \subseteq callbacks
  BY DEF DrawableFramebuffer
<1>6. StateNeeds(fb, anchor, tests) \subseteq callbacks
  <2>1. StateNeeds(fb, anchor, tests) \subseteq AllCallbacks
    BY DEF StateNeeds, AllCallbacks
  <2> QED
    BY <1>5, <2>1
<1>7. begun
  <2> DEFINE takes == tests # {}
             mrt == UsesMrt(fb, multi, writes)
  <2>1. TransitionNeeds(fb, colors.targets, takes) \subseteq AllCallbacks
    BY DEF TransitionNeeds, AllCallbacks
  <2> HIDE DEF takes, mrt
  <2>2. PassNeeds(fb, anchor, mrt, takes) \subseteq AllCallbacks
    BY DEF PassNeeds, AllCallbacks
  <2>3. Begun(fb, colors.targets, multi, writes, takes) <=>
           /\ TransitionNeeds(fb, colors.targets, takes) \cup PassNeeds(fb, anchor, mrt, takes)
                \subseteq callbacks
           /\ mrt => Uniform(colors.targets)
    BY DEF Begun, mrt
  <2>4. Begun(fb, colors.targets, multi, writes, takes)
    BY <1>4, <1>5, <2>1, <2>2, <2>3
  <2> QED
    BY <2>4 DEF takes
<1>8. "color_mip" \in callbacks
  BY <1>5 DEF AllCallbacks
<1>9. ASSUME ~OutputsConflict(fb, multi, writes)
      PROVE  DrawnWith(fb, planes, colors, refusal, multi, writes, enabled, TRUE).code = "NO_ERROR"
  <2> DEFINE failed(code) == Outcome(colors.objects, code, None)
             through == Outcome(DrawnTo(colors.objects, colors.targets, writes), "NO_ERROR",
                          Command("DRAW", colors.targets,
                                  IF tests = {} THEN <<>> ELSE planes.targets, None))
  <2>1. DrawnWith(fb, planes, colors, refusal, multi, writes, enabled, TRUE) =
          IF writes = {} /\ enabled = {} THEN Outcome(Objects, "NO_ERROR", None)
          ELSE IF planes.failed \/ colors.failed THEN failed(refusal)
          ELSE IF OutputsConflict(fb, multi, writes) THEN failed("INVALID_OPERATION")
          ELSE IF ~(StateNeeds(fb, anchor, tests) \subseteq callbacks) THEN failed(refusal)
          ELSE IF \/ ~begun \/ (Offset(anchor) /\ "color_mip" \notin callbacks) \/ ~TRUE
          THEN failed("INVALID_OPERATION")
          ELSE through
    BY DEF DrawnWith, tests
  <2>2. through.code = "NO_ERROR" /\ Outcome(Objects, "NO_ERROR", None).code = "NO_ERROR"
    BY DEF Outcome
  <2> HIDE DEF failed, through, anchor, begun
  <2> QED
    BY <1>2, <1>4, <1>6, <1>7, <1>8, <1>9, <2>1, <2>2
<1> QED
  BY <1>9 DEF planes, colors

LEMMA CompleteIsDrawn ==
    ASSUME TexturesInvariant, TexelsFit, TargetsGood
    PROVE  CompleteDraws
<1> SUFFICES ASSUME boundFramebuffer # None, AllCallbacks \subseteq callbacks,
                    Status(Bound) = "COMPLETE", ~IsCube(Bound.depth), ~IsCube(Bound.stencil),
                    \A a \in SelectedAttachments : Attached(a),
                    \A a, b \in SelectedAttachments : TargetLayer(a) = TargetLayer(b),
                    NEW multi \in BOOLEAN, NEW enabled \in SUBSET {"DEPTH", "STENCIL"},
                    NEW requested \in {{}, {"RGB", "A"}}
             PROVE  \/ OutputsConflict(Bound, multi, EffectiveWrites(Bound, requested))
                    \/ DrawOutcome(multi, requested, enabled, {}, TRUE).code = "NO_ERROR"
  BY DEF CompleteDraws
<1>1. PICK fb : fb = Bound /\ BoundGood(fb)
  BY BoundIsGood
<1>2. DrawableFramebuffer(fb)
  <2>1. \A s \in SelectedSlots(fb) : fb.color[s] \in SelectedAttachments
    BY <1>1 DEF SelectedAttachments
  <2>2. \A s \in SelectedSlots(fb) : Attached(fb.color[s])
    BY <2>1
  <2>3. \A s, q \in SelectedSlots(fb) : TargetLayer(fb.color[s]) = TargetLayer(fb.color[q])
    BY <2>1
  <2> QED
    BY <1>1, <2>2, <2>3 DEF DrawableFramebuffer
<1> DEFINE writes == EffectiveWrites(fb, requested)
           planes == PlaneTargets(Objects, fb, {})
           colors == ColorTargets(planes.objects, fb, {})
           refusal == Refusal(Status(fb))
<1>3. \/ OutputsConflict(fb, multi, writes)
      \/ DrawnWith(fb, planes, colors, refusal, multi, writes, enabled, TRUE).code = "NO_ERROR"
  <2> HIDE DEF writes, refusal
  <2>1. BoundGood(fb)
    BY <1>1
  <2>2. LET planed == PlaneTargets(Objects, fb, {})
            colored == ColorTargets(planed.objects, fb, {})
        IN \/ OutputsConflict(fb, multi, writes)
           \/ DrawnWith(fb, planed, colored, refusal, multi, writes, enabled, TRUE).code = "NO_ERROR"
    BY <1>2, <2>1, DrawSucceeds
  <2> QED
    BY <2>2
<1>4. DrawOutcome(multi, requested, enabled, {}, TRUE)
        = DrawnWith(fb, planes, colors, refusal, multi, writes, enabled, TRUE)
  BY <1>1 DEF DrawOutcome
<1>5. EffectiveWrites(Bound, requested) = writes
  BY <1>1
<1> HIDE DEF writes, planes, colors, refusal
<1> QED
  BY <1>1, <1>3, <1>4, <1>5

(* The queries, of each kind of attachment.                                 *)
ColorAgrees(a, bits) ==
    /\ (AttachedComponentType(a) = "FLOAT") = (ComponentType(a) \in {"FLOAT", "HALF"})
    /\ (AttachedComponentType(a) = "FLOAT") = (FormatForRead(a) = "FLOAT")
    /\ (FormatForRead(a) = "FLOAT") = (bits.color > 8 \/ bits.alpha > 8)
    /\ ReadTypeSupported(a, FormatForRead(a))
    /\ LogicalFormat(a) # "RGB565" =>
          (bits.alpha = 0) = (LogicalWrites(LogicalFormat(a), {"RGB", "A"}) = {"RGB"})

LEMMA BitsAre ==
    ASSUME NEW color, NEW alpha, NEW depth, NEW stencil
    PROVE  LET bits == Bits(color, alpha, depth, stencil)
           IN bits.color = color /\ bits.alpha = alpha /\ bits.depth = depth /\ bits.stencil = stencil
  BY DEF Bits

LEMMA WritesApart ==
    /\ {"RGB", "A"} # {"RGB"} /\ {"RGB", "A"} \cap {"RGB"} = {"RGB"}
    /\ {"RGB", "A"} \cap {"A"} # {"RGB"}
<1>1. "A" \in {"RGB", "A"} /\ "A" \notin {"RGB"} /\ "A" \in {"RGB", "A"} \cap {"A"}
  OBVIOUS
<1> QED
  BY <1>1

LEMMA BufferAgrees ==
    ASSUME NEW a, BufferHeld(renderbuffer, a), renderbuffer[a.object].format \in ColorStorageFormats,
           renderbuffer[a.object].format # "RGB16F"
    PROVE  ColorAgrees(a, FormatBits(StorageOf(a)))
<1> DEFINE format == renderbuffer[a.object].format
           bits == FormatBits(format)
<1>1. a.kind = "RENDERBUFFER" /\ StorageOf(a) = format
  BY DEF BufferHeld, StorageOf
<1>2. format \in {"RGBA8", "RGB565", "RGBA4", "RGB5_A1", "SRGB8_ALPHA8", "RGBA16F", "RGBA32F"}
  BY DEF ColorStorageFormats
<1>3. /\ TargetFormat(a) = RenderbufferTarget(format) /\ IsSrgb(a) = (format = "SRGB8_ALPHA8")
      /\ LogicalFormat(a) = IF format \in {"RGB565", "RGB16F"} THEN "RGB" ELSE "RGBA"
  BY <1>1 DEF TargetFormat, IsSrgb, LogicalFormat
<1>4. AttachedComponentType(a) =
        CASE format \in {"RGBA32F", "RGBA16F", "RGB16F", "DEPTH32F"} -> "FLOAT"
          [] format \in {"STENCIL8", "DEPTH24_STENCIL8"} -> "UNSIGNED_INT"
          [] OTHER -> "UNSIGNED_NORMALIZED"
  BY <1>1 DEF AttachedComponentType
<1>5. ComponentType(a) = CASE format = "RGBA32F" -> "FLOAT"
                           [] format \in {"RGB16F", "RGBA16F"} -> "HALF"
                           [] OTHER -> "UBYTE"
  BY <1>1 DEF ComponentType
<1>6. /\ RenderbufferTarget(format) = CASE format \in {"RGB565", "RGBA4", "RGB5_A1"} -> format
                                         [] format = "RGBA16F" -> "RGBA16F"
                                         [] format \in {"RGBA32F", "SRGB8_ALPHA8"} -> "RGBA32F"
                                         [] OTHER -> "RGBA8"
  BY <1>2 DEF RenderbufferTarget, Packed
<1>7. /\ bits.color = CASE format = "RGBA32F" -> 32 [] format = "RGBA16F" -> 16
                        [] format \in {"RGB565", "RGB5_A1"} -> 5 [] format = "RGBA4" -> 4
                        [] OTHER -> 8
      /\ bits.alpha = CASE format = "RGBA32F" -> 32 [] format = "RGBA16F" -> 16
                        [] format = "RGB565" -> 0 [] format = "RGB5_A1" -> 1
                        [] format = "RGBA4" -> 4 [] OTHER -> 8
  BY <1>2, BitsAre DEF FormatBits
<1> HIDE DEF bits, format
<1>8. (AttachedComponentType(a) = "FLOAT") <=> format \in {"RGBA32F", "RGBA16F"}
  BY <1>2, <1>4
<1>9. ComponentType(a) \in {"FLOAT", "HALF"} <=> format \in {"RGBA32F", "RGBA16F"}
  BY <1>2, <1>5
<1>10. FormatForRead(a) = IF format \in {"RGBA32F", "RGBA16F"} THEN "FLOAT" ELSE "UBYTE"
  BY <1>2, <1>3, <1>6 DEF FormatForRead
<1>11. (bits.color > 8 \/ bits.alpha > 8) <=> format \in {"RGBA32F", "RGBA16F"}
  BY <1>2, <1>7
<1>12. ReadTypeSupported(a, FormatForRead(a))
  BY <1>2, <1>3, <1>6, <1>10 DEF ReadTypeSupported
<1>13. (bits.alpha = 0) <=> (LogicalWrites(LogicalFormat(a), {"RGB", "A"}) = {"RGB"})
  <2>1. bits.alpha = 0 <=> format = "RGB565"
    BY <1>2, <1>7
  <2>2. LogicalWrites(LogicalFormat(a), {"RGB", "A"}) = {"RGB"} <=> format = "RGB565"
    BY <1>2, <1>3, WritesApart DEF LogicalWrites
  <2> QED
    BY <2>1, <2>2
<1> QED
  BY <1>1, <1>8, <1>9, <1>10, <1>11, <1>12, <1>13 DEF ColorAgrees, bits

LEMMA TextureAgrees ==
    ASSUME NEW a, a.kind = "TEXTURE", FormatSound(FormatOf(a)), Summary(texture[a.object]).defined,
           LET f == FormatOf(a) IN f.base = "RGBA" \/ IsFloat(f) \/ IsPacked(f)
    PROVE  ColorAgrees(a, TextureBits(FormatOf(a)))
<1> DEFINE f == FormatOf(a)
           bits == TextureBits(f)
           wide == ~f.srgb /\ IsFloat(f)
<1>1. StorageOf(a) = f.base /\ LogicalFormat(a) = f.base /\ IsSrgb(a) = f.srgb
  BY DEF StorageOf, LogicalFormat, IsSrgb
<1>2. TargetFormat(a) = CASE IsPacked(f) -> f.base
                          [] f.base \in Canonical /\ f.type = "FLOAT" -> "RGBA32F"
                          [] f.base \in Canonical /\ f.type = "HALF" -> "RGBA16F"
                          [] OTHER -> "RGBA8"
  BY DEF TargetFormat
<1>3. /\ IsPacked(f) => ~f.srgb /\ ~IsFloat(f) /\ f.base \notin Canonical
      /\ f.srgb => f.type = "FLOAT" /\ IsFloat(f)
      /\ IsFloat(f) => f.base \in Canonical /\ f.type \in {"FLOAT", "HALF"} /\ ~IsPacked(f)
      /\ f.base \in Canonical \cup Packed /\ f.base \notin DepthFormats
  BY DEF FormatSound, IsFloat, IsPacked, Packed, Canonical, DepthFormats
<1>4. AttachedComponentType(a) = IF wide THEN "FLOAT" ELSE "UNSIGNED_NORMALIZED"
  BY <1>1, <1>3 DEF AttachedComponentType
<1>5. ComponentType(a) = IF f.srgb THEN "UBYTE" ELSE f.type
  BY DEF ComponentType
<1>6. /\ f.base \in Packed => bits = FormatBits(f.base)
      /\ f.base \in {"RGB", "LUMINANCE"} => bits = Bits(ComponentBits(f), 0, 0, 0)
      /\ f.base = "ALPHA" => bits = Bits(0, ComponentBits(f), 0, 0)
      /\ f.base \in {"RGBA", "LUMINANCE_ALPHA"} => bits = Bits(ComponentBits(f), ComponentBits(f), 0, 0)
  BY DEF TextureBits, Packed, DepthFormats
<1> HIDE DEF bits, f, wide
<1>7. ComponentBits(f) \in {8, 16, 32} /\ (ComponentBits(f) > 8 <=> wide)
  BY <1>3 DEF ComponentBits, IsFloat, wide
<1>8. AttachedComponentType(a) = "FLOAT" <=> wide
  BY <1>4
<1>9. ComponentType(a) \in {"FLOAT", "HALF"} <=> wide
  BY <1>5 DEF wide, IsFloat
<1>10. FormatForRead(a) = IF wide THEN "FLOAT" ELSE "UBYTE"
  <2>1. TargetFormat(a) \in {"RGBA32F", "RGBA16F"} <=> IsFloat(f)
    <3>1. CASE IsPacked(f)
      BY <1>2, <1>3, <3>1 DEF IsPacked, Packed
    <3>2. CASE ~IsPacked(f)
      BY <1>2, <1>3, <3>2 DEF IsFloat
    <3> QED
      BY <3>1, <3>2
  <2> QED
    BY <1>1, <2>1 DEF FormatForRead, wide
<1>11. /\ f.base \in Packed => /\ bits.color \in {4, 5} /\ ~wide
                               /\ bits.alpha = IF f.base = "RGB565" THEN 0
                                               ELSE IF f.base = "RGB5_A1" THEN 1 ELSE 4
       /\ f.base \notin Packed =>
             /\ f.base \in {"RGB", "LUMINANCE"} => bits.color = ComponentBits(f) /\ bits.alpha = 0
             /\ f.base = "ALPHA" => bits.color = 0 /\ bits.alpha = ComponentBits(f)
             /\ f.base \in {"RGBA", "LUMINANCE_ALPHA"} =>
                   bits.color = ComponentBits(f) /\ bits.alpha = ComponentBits(f)
  BY <1>3, <1>6, BitsAre DEF FormatBits, Packed, wide, IsPacked
<1>12. (bits.color > 8 \/ bits.alpha > 8) <=> wide
  <2>1. CASE f.base \in Packed
    BY <1>11, <2>1
  <2>2. CASE f.base \in Canonical
    BY <1>7, <1>11, <2>2 DEF Canonical, Packed
  <2> QED
    BY <1>3, <2>1, <2>2
<1>13. ReadTypeSupported(a, FormatForRead(a))
  <2>1. CASE f.srgb
    BY <1>1, <1>2, <1>3, <1>10, <2>1 DEF ReadTypeSupported, wide
  <2>2. CASE ~f.srgb
    BY <1>1, <2>2 DEF ReadTypeSupported
  <2> QED
    BY <2>1, <2>2
<1>14. f.base # "RGB565" =>
          ((bits.alpha = 0) <=> (LogicalWrites(f.base, {"RGB", "A"}) = {"RGB"}))
  <2>1. CASE f.base \in Packed
    BY <1>11, <2>1, WritesApart DEF LogicalWrites, Packed
  <2>2. CASE f.base \in Canonical
    BY <1>7, <1>11, <2>2, WritesApart DEF LogicalWrites, Canonical, Packed
  <2> QED
    BY <1>3, <2>1, <2>2
<1> QED
  BY <1>1, <1>8, <1>9, <1>10, <1>12, <1>13, <1>14 DEF ColorAgrees, f, bits

LEMMA PlaneBits ==
    ASSUME NEW a, a.kind = "TEXTURE" \/ a.kind = "RENDERBUFFER",
           StorageOf(a) \in PlaneStorageFormats,
           a.kind = "TEXTURE" => StorageOf(a) = FormatOf(a).base /\ FormatOf(a).base \in DepthFormats
    PROVE  LET all == IF a.kind = "RENDERBUFFER" THEN FormatBits(StorageOf(a))
                      ELSE TextureBits(FormatOf(a))
           IN /\ DOMAIN all = {"color", "alpha", "depth", "stencil"}
              /\ StorageOf(a) # "STENCIL8" => all.depth # 0
              /\ StorageOf(a) \in {"STENCIL8", "DEPTH24_STENCIL8"} => all.stencil # 0
<1> DEFINE all == IF a.kind = "RENDERBUFFER" THEN FormatBits(StorageOf(a))
                  ELSE TextureBits(FormatOf(a))
           format == StorageOf(a)
<1>1. all = FormatBits(format)
  <2>1. CASE a.kind = "RENDERBUFFER"
    BY <2>1
  <2>2. CASE a.kind = "TEXTURE"
    <3> DEFINE f == FormatOf(a)
    <3>1. format = f.base /\ f.base \in DepthFormats
      BY <2>2
    <3> HIDE DEF f, format
    <3>2. TextureBits(f) = FormatBits(f.base)
      BY <3>1 DEF TextureBits, DepthFormats
    <3> QED
      BY <2>2, <3>1, <3>2 DEF f
  <2> QED
    BY <2>1, <2>2
<1> HIDE DEF all, format
<1>2. format \in {"DEPTH16", "DEPTH32F", "STENCIL8", "DEPTH24_STENCIL8"}
  BY DEF format, PlaneStorageFormats
<1>3. /\ DOMAIN FormatBits(format) = {"color", "alpha", "depth", "stencil"}
      /\ format # "STENCIL8" => FormatBits(format).depth # 0
      /\ format \in {"STENCIL8", "DEPTH24_STENCIL8"} => FormatBits(format).stencil # 0
  <2>1. FormatBits(format) = IF format = "DEPTH16" THEN Bits(0, 0, 16, 0)
                             ELSE IF format = "DEPTH32F" THEN Bits(0, 0, 32, 0)
                             ELSE IF format = "STENCIL8" THEN Bits(0, 0, 0, 8)
                             ELSE Bits(0, 0, 24, 8)
    BY <1>2 DEF FormatBits
  <2>2. \A depth, stencil : DOMAIN Bits(0, 0, depth, stencil) = {"color", "alpha", "depth", "stencil"}
    BY DEF Bits
  <2> QED
    BY <1>2, <2>1, <2>2, BitsAre
<1> QED
  BY <1>1, <1>3 DEF all, format

LEMMA AspectsApart ==
    ASSUME NEW all, NEW point
    PROVE  LET bits == [all EXCEPT !.stencil = IF point = "DEPTH" THEN 0 ELSE @,
                                   !.depth = IF point = "STENCIL" THEN 0 ELSE @]
           IN /\ point \notin {"DEPTH", "STENCIL"} => bits.color = all.color /\ bits.alpha = all.alpha
              /\ "depth" \in DOMAIN all /\ point = "DEPTH" => bits.depth = all.depth
              /\ "stencil" \in DOMAIN all /\ point = "STENCIL" => bits.stencil = all.stencil
<1> DEFINE stencil == IF point = "DEPTH" THEN 0 ELSE all.stencil
           depth == IF point = "STENCIL" THEN 0 ELSE all.depth
           first == [all EXCEPT !.stencil = stencil]
           bits == [first EXCEPT !.depth = IF point = "STENCIL" THEN 0 ELSE first.depth]
<1>1. /\ bits.color = all.color /\ bits.alpha = all.alpha
      /\ "depth" \in DOMAIN all /\ point = "DEPTH" => bits.depth = all.depth
      /\ "stencil" \in DOMAIN all /\ point = "STENCIL" => bits.stencil = all.stencil
  OBVIOUS
<1> QED
  BY <1>1

LEMMA PlaneAgrees ==
    ASSUME TexelsFit, NEW fb, BoundGood(fb), Status(fb) = "COMPLETE", NEW a \in {fb.depth, fb.stencil},
           Attached(a)
    PROVE  /\ a.kind = "TEXTURE" \/ a.kind = "RENDERBUFFER"
           /\ StorageOf(a) \in PlaneStorageFormats
           /\ a.kind = "TEXTURE" =>
                 StorageOf(a) = FormatOf(a).base /\ FormatOf(a).base \in DepthFormats
<1>1. StorageOf(a) \in PlaneStorageFormats
  BY CompletePlanes
<1>2. BufferHeld(renderbuffer, a) \/ TextureHeld(texture, a)
  BY DEF BoundGood, FramebufferGood, PlaneHeld, Attached
<1>3. ASSUME a.kind = "TEXTURE"
      PROVE  StorageOf(a) = FormatOf(a).base /\ FormatOf(a).base \in DepthFormats
  <2>1. TextureHeld(texture, a)
    BY <1>2, <1>3 DEF BufferHeld
  <2>2. FormatSound(FormatOf(a))
    BY <2>1, SummarySound DEF FormatOf, TextureHeld
  <2>3. StorageOf(a) = FormatOf(a).base
    BY <1>1, <1>3, FramebufferAssumption, TextureAssumption
       DEF StorageOf, PlaneStorageFormats, DepthFormats
  <2> QED
    BY <1>1, <2>2, <2>3, FramebufferAssumption, TextureAssumption
       DEF FormatSound, PlaneStorageFormats, ColorFormats, Canonical, Packed, DepthFormats
<1> QED
  BY <1>1, <1>2, <1>3 DEF BufferHeld, TextureHeld

LEMMA ColorQueriesAgree ==
    ASSUME TexturesInvariant, TexelsFit, NEW fb, BoundGood(fb), Status(fb) = "COMPLETE",
           NEW s \in Slots, Attached(fb.color[s])
    PROVE  LET a == fb.color[s]
           IN ColorAgrees(a, IF a.kind = "RENDERBUFFER" THEN FormatBits(StorageOf(a))
                             ELSE TextureBits(FormatOf(a)))
<1> DEFINE a == fb.color[s]
<1>0. Area(<<0, 0>>) = 0
  BY DEF Area
<1>1. /\ Area(ColorSize(a)) # 0 /\ ~HalfRgb(a) /\ ColorHeld(texture, renderbuffer, a) /\ Attached(a)
  BY CompleteColors DEF BoundGood, FramebufferGood
<1> HIDE DEF a
<1>2. CASE BufferHeld(renderbuffer, a)
  <2>1. /\ a.kind = "RENDERBUFFER" /\ renderbuffer[a.object].format \in ColorStorageFormats
        /\ renderbuffer[a.object].format # "RGB16F"
    BY <1>0, <1>1, <1>2 DEF BufferHeld, ColorSize, HalfRgb
  <2> QED
    BY <1>2, <2>1, BufferAgrees DEF a
<1>3. CASE TextureHeld(texture, a)
  <2>1. a.kind = "TEXTURE" /\ a.object \in Textures /\ a.layer \in Faces /\ a.level \in Levels
    BY <1>3 DEF TextureHeld
  <2>2. /\ LET f == FormatOf(a) IN f.base = "RGBA" \/ IsFloat(f) \/ IsPacked(f)
        /\ Area(LevelOf(a).size) # 0
    BY <1>0, <1>1, <2>1 DEF ColorSize
  <2>3. FormatSound(FormatOf(a))
    BY <2>1, SummarySound DEF FormatOf
  <2>4. Summary(texture[a.object]).defined
    <3> DEFINE x == texture[a.object]
    <3>1. FacesGood(x) /\ FaceFits(x.faces[a.layer])
      BY <2>1 DEF TexturesInvariant, TexturesGood, TextureGood, TexelsFit
    <3>2. Stored(x.faces[a.layer], 0) /\ x.faces[a.layer].defined
      BY <2>1, <2>2, <3>1 DEF LevelOf, Stored, FaceFits, FacesGood, FaceGood, FaceNamed
    <3>3. x.target # "CUBE" => a.layer = First
      BY <1>1, <2>1 DEF ColorHeld, BufferHeld, Attached
    <3> HIDE DEF x
    <3>4. Summary(x) = SummaryOf(x.target, x.faces)
      BY SummaryIs
    <3>5. CASE x.target # "CUBE"
      BY <3>2, <3>3, <3>4, <3>5 DEF SummaryOf, x
    <3>6. CASE x.target = "CUBE"
      <4>1. \E g \in Faces : SummaryOf("CUBE", x.faces) = x.faces[g] /\ x.faces[g].defined
        BY <2>1, <3>2, SummaryFace
      <4> QED
        BY <3>4, <3>6, <4>1 DEF x
    <3> QED
      BY <3>5, <3>6 DEF x
  <2>5. ColorAgrees(a, TextureBits(FormatOf(a)))
    BY <2>1, <2>2, <2>3, <2>4, TextureAgrees
  <2> QED
    BY <2>1, <2>5 DEF a
<1> QED
  BY <1>1, <1>2, <1>3 DEF ColorHeld, Attached

LEMMA QueriesAgreeGood ==
    ASSUME TexturesInvariant, TexelsFit, TargetsGood
    PROVE  QueriesAgree
<1> SUFFICES ASSUME boundFramebuffer # None, Attached(Bound.color[FirstSlot]),
                    Status(Bound) = "COMPLETE"
             PROVE  /\ ColorAgrees(Bound.color[FirstSlot], AttachedBits(FirstSlot))
                    /\ (AttachedBits("DEPTH").depth # 0) = Attached(Bound.depth)
                    /\ (AttachedBits("STENCIL").stencil # 0) = Attached(Bound.stencil)
  BY DEF QueriesAgree, ColorAgrees
<1>1. PICK fb : fb = Bound /\ BoundGood(fb) /\ Status(fb) = "COMPLETE"
  BY BoundIsGood
<1>2. FirstSlot \in Slots /\ FirstSlot \notin {"DEPTH", "STENCIL"}
      /\ "DEPTH" \notin Slots /\ "STENCIL" \notin Slots
  BY SlotFacts, FramebufferAssumption
<1> DEFINE all(a) == IF a.kind = "RENDERBUFFER" THEN FormatBits(StorageOf(a))
                     ELSE TextureBits(FormatOf(a))
           aspects(a, point) == [all(a) EXCEPT !.stencil = IF point = "DEPTH" THEN 0 ELSE @,
                                               !.depth = IF point = "STENCIL" THEN 0 ELSE @]
<1>3. /\ AttachedBits(FirstSlot) = aspects(fb.color[FirstSlot], FirstSlot)
      /\ AttachedBits("DEPTH") = IF ~Attached(fb.depth) THEN Bits(0, 0, 0, 0)
                                 ELSE aspects(fb.depth, "DEPTH")
      /\ AttachedBits("STENCIL") = IF ~Attached(fb.stencil) THEN Bits(0, 0, 0, 0)
                                   ELSE aspects(fb.stencil, "STENCIL")
  BY <1>1, <1>2 DEF AttachedBits, QueriedAttachment
<1>4. ASSUME NEW a
      PROVE  /\ \A point : point \notin {"DEPTH", "STENCIL"} =>
                   /\ aspects(a, point).color = all(a).color
                   /\ aspects(a, point).alpha = all(a).alpha
             /\ "depth" \in DOMAIN all(a) => aspects(a, "DEPTH").depth = all(a).depth
             /\ "stencil" \in DOMAIN all(a) => aspects(a, "STENCIL").stencil = all(a).stencil
  <2> DEFINE c == all(a)
  <2> HIDE DEF all
  <2> QED
    BY AspectsApart
<1>5. ASSUME NEW a \in {fb.depth, fb.stencil}, Attached(a)
      PROVE  /\ DOMAIN all(a) = {"color", "alpha", "depth", "stencil"}
             /\ StorageOf(a) # "STENCIL8" => all(a).depth # 0
             /\ StorageOf(a) \in {"STENCIL8", "DEPTH24_STENCIL8"} => all(a).stencil # 0
  <2>1. /\ a.kind = "TEXTURE" \/ a.kind = "RENDERBUFFER"
        /\ StorageOf(a) \in PlaneStorageFormats
        /\ a.kind = "TEXTURE" =>
              StorageOf(a) = FormatOf(a).base /\ FormatOf(a).base \in DepthFormats
    <3> HIDE DEF all, aspects
    <3> QED
      BY <1>1, <1>5, PlaneAgrees
  <2> QED
    BY <2>1, PlaneBits
<1>6. ColorAgrees(fb.color[FirstSlot], all(fb.color[FirstSlot]))
  BY <1>1, <1>2, ColorQueriesAgree
<1>7. /\ Attached(fb.depth) => StorageOf(fb.depth) # "STENCIL8"
      /\ Attached(fb.stencil) => StorageOf(fb.stencil) \in {"STENCIL8", "DEPTH24_STENCIL8"}
  BY <1>1, CompleteAttachments
<1> HIDE DEF all, aspects
<1>8. ColorAgrees(fb.color[FirstSlot], AttachedBits(FirstSlot))
  BY <1>2, <1>3, <1>4, <1>6 DEF ColorAgrees
<1>9. (AttachedBits("DEPTH").depth # 0) <=> Attached(fb.depth)
  <2>1. CASE ~Attached(fb.depth)
    BY <1>3, <2>1, BitsAre
  <2>2. CASE Attached(fb.depth)
    BY <1>3, <1>4, <1>5, <1>7, <2>2
  <2> QED
    BY <2>1, <2>2
<1>10. (AttachedBits("STENCIL").stencil # 0) <=> Attached(fb.stencil)
  <2>1. CASE ~Attached(fb.stencil)
    BY <1>3, <2>1, BitsAre
  <2>2. CASE Attached(fb.stencil)
    BY <1>3, <1>4, <1>5, <1>7, <2>2
  <2> QED
    BY <2>1, <2>2
<1> QED
  BY <1>1, <1>8, <1>9, <1>10 DEF Attached

(* What ringl_check_framebuffer_status calls complete is drawn to by a      *)
(* device that has every callback (ringl_framebuffer_resolve_color_target   *)
(* to begin_render_pass), and the queries of its attachments describe one   *)
(* thing (ringl_get_framebuffer_attachment and the formats for reads).      *)
THEOREM AttachmentsSoundHolds == FramebuffersSpec => []AttachmentsSound
<1>1. FramebuffersInvariant => AttachmentsSound
  BY CompleteIsDrawn, QueriesAgreeGood DEF FramebuffersInvariant, StateGood, AttachmentsSound
<1> QED
  BY <1>1, FramebuffersInvariantHolds, PTL

=============================================================================
