------------------------------ MODULE Framebuffers ------------------------------
(***************************************************************************)
(* Framebuffer objects and renderbuffers (src/src/objects/framebuffer.c),  *)
(* and what draws, clears and reads make of the one that is bound          *)
(* (src/src/translate/draw.c, src/src/context/sync.c): the attachments,    *)
(* completeness, the images the device is handed, the render pass that is  *)
(* begun, the pixels a read delivers, and the queries.                     *)
(*                                                                         *)
(* Whatever a draw does besides finding its targets is Drawing's and is    *)
(* given here by whether it succeeds; so is the default framebuffer.  The  *)
(* three color channels of a write mask go together.                       *)
(***************************************************************************)
EXTENDS Textures, Functions

CONSTANTS
    SlotNames,       \* the color attachment points, in order
    Framebuffers,    \* framebuffer names
    Renderbuffers    \* renderbuffer names

ASSUME FramebufferAssumption ==
    /\ SlotNames \in Seq(STRING) /\ Len(SlotNames) >= 1
    /\ \A i \in DOMAIN SlotNames : SlotNames[i] \notin {"NONE", "DEPTH", "STENCIL", "DEPTH_STENCIL"}
    /\ None \notin Framebuffers \cup Renderbuffers \cup {"DEPTH16", "STENCIL8"}
    /\ Textures \cap Renderbuffers = {}

VARIABLES
    framebuffer,         \* the framebuffer objects
    renderbuffer,        \* the renderbuffers
    boundFramebuffer,    \* framebuffer_binding
    boundRenderbuffer,   \* renderbuffer_binding
    marks,               \* FRAMEBUFFER and PIPELINE of dirty_bits
    command              \* what the last call, a draw, clear or read, submitted

targetVars == <<framebuffer, renderbuffer, boundFramebuffer, boundRenderbuffer, marks>>
storageVars == <<texture, units, active, charged, gates, callbacks, dirty>>

Slots == {SlotNames[i] : i \in DOMAIN SlotNames}
FirstSlot == SlotNames[1]
Planes == {"DEPTH", "STENCIL", "DEPTH_STENCIL"}

Attachment(kind, object, level, layer) ==
    [kind |-> kind, object |-> object, level |-> level, layer |-> layer]
NoAttachment == Attachment("NONE", None, 0, First)

NoFramebuffer ==
    [name |-> "free", color |-> [s \in Slots |-> NoAttachment], depth |-> NoAttachment,
     stencil |-> NoAttachment, hasStencil |-> FALSE, drawBuffers |-> None]
NoRenderbuffer == [name |-> "free", format |-> None, size |-> <<0, 0>>, image |-> NoImage]

Bound == framebuffer[boundFramebuffer]
Attached(a) == a # NoAttachment

-----------------------------------------------------------------------------
(***************************************************************************)
(* Formats of attachments.  Three tables say which image an attachment     *)
(* has: the one completeness compares, the one draws take for the target,  *)
(* and the one the image is made with.                                     *)
(***************************************************************************)
ColorStorageFormats == {"RGBA8", "RGB565", "RGBA4", "RGB5_A1", "SRGB8_ALPHA8", "RGB16F", "RGBA16F",
                        "RGBA32F"}
PlaneStorageFormats == {"DEPTH16", "DEPTH32F", "STENCIL8", "DEPTH24_STENCIL8"}

StorageFormat(format) == IF format = "SRGB8_ALPHA8" THEN "RGBA32F" ELSE format
DeviceFormat(format) ==
    CASE format \in Packed -> format
      [] format \in {"RGB16F", "RGBA16F"} -> "RGBA16F"
      [] format \in {"RGBA32F", "SRGB8_ALPHA8"} -> "RGBA32F"
      [] OTHER -> "RGBA8"

FormatOf(a) == Summary(texture[a.object]).format
DeclaredFormat(a) ==
    IF a.kind = "RENDERBUFFER" THEN DeviceFormat(StorageFormat(renderbuffer[a.object].format))
    ELSE CASE FormatOf(a).type = "FLOAT" -> "RGBA32F"
           [] FormatOf(a).type = "HALF" -> "RGBA16F"
           [] OTHER -> DeviceFormat(FormatOf(a).base)

RenderbufferTarget(format) ==
    CASE format \in Packed \cup {"RGBA16F", "RGBA32F"} -> format
      [] format = "SRGB8_ALPHA8" -> "RGBA32F"
      [] OTHER -> "RGBA8"
TargetFormat(a) ==
    IF a.kind = "RENDERBUFFER" THEN RenderbufferTarget(renderbuffer[a.object].format)
    ELSE CASE IsPacked(FormatOf(a)) -> FormatOf(a).base
           [] FormatOf(a).base \in Canonical /\ FormatOf(a).type = "FLOAT" -> "RGBA32F"
           [] FormatOf(a).base \in Canonical /\ FormatOf(a).type = "HALF" -> "RGBA16F"
           [] OTHER -> "RGBA8"

LogicalFormat(a) ==
    IF a.kind = "RENDERBUFFER"
    THEN IF renderbuffer[a.object].format \in {"RGB565", "RGB16F"} THEN "RGB" ELSE "RGBA"
    ELSE FormatOf(a).base
IsSrgb(a) == IF a.kind = "RENDERBUFFER" THEN renderbuffer[a.object].format = "SRGB8_ALPHA8"
             ELSE FormatOf(a).srgb

DepthFormatFits(format, hasDepth, hasStencil) ==
    CASE format \in {"DEPTH16", "DEPTH32F"} -> hasDepth /\ ~hasStencil
      [] format = "STENCIL8" -> ~hasDepth /\ hasStencil
      [] OTHER -> format = "DEPTH24_STENCIL8"
PlaneFormat(format) ==
    CASE format = "STENCIL8" -> "S8" [] format = "DEPTH24_STENCIL8" -> "D32S8" [] OTHER -> "D32"

\* The format of a depth or stencil attachment, None while it has no storage.
StorageOf(a) ==
    IF a.kind = "RENDERBUFFER" THEN renderbuffer[a.object].format
    ELSE IF Summary(texture[a.object]).defined THEN FormatOf(a).base ELSE None

-----------------------------------------------------------------------------
(***************************************************************************)
(* Completeness.                                                           *)
(***************************************************************************)
LevelOf(a) == texture[a.object].faces[a.layer].levels[a.level]

\* <<0, 0>> where the attachment cannot be drawn to.
ColorSize(a) ==
    IF a.kind = "RENDERBUFFER"
    THEN IF renderbuffer[a.object].format \in ColorStorageFormats THEN renderbuffer[a.object].size
         ELSE <<0, 0>>
    ELSE IF FormatOf(a).base = "RGBA" \/ IsFloat(FormatOf(a)) \/ IsPacked(FormatOf(a))
         THEN LevelOf(a).size ELSE <<0, 0>>

\* Fault: the storage behind a plane is not looked at again.
PlaneSizeOfAny(a, hasDepth, hasStencil) ==
    IF a.kind = "RENDERBUFFER" THEN renderbuffer[a.object].size ELSE LevelOf(a).size
PlaneSize(a, hasDepth, hasStencil) ==
    IF StorageOf(a) = None \/ ~DepthFormatFits(StorageOf(a), hasDepth, hasStencil) THEN <<0, 0>>
    ELSE IF a.kind = "RENDERBUFFER" THEN renderbuffer[a.object].size ELSE LevelOf(a).size

HalfRgb(a) ==
    IF a.kind = "RENDERBUFFER" THEN renderbuffer[a.object].format = "RGB16F"
    ELSE FormatOf(a).base = "RGB" /\ FormatOf(a).type = "HALF"

ColorDescription(a) == <<ColorSize(a), DeclaredFormat(a), LogicalFormat(a)>>
ColorFault(fb, i) ==
    LET a == fb.color[SlotNames[i]]
        earlier == {j \in 1..(i - 1) : Attached(fb.color[SlotNames[j]])}
    IN IF a.kind = "TEXTURE" /\ FormatOf(a).compressed # None THEN "UNSUPPORTED"
       ELSE IF Area(ColorSize(a)) = 0 THEN "INCOMPLETE_ATTACHMENT"
       ELSE IF \/ HalfRgb(a)
               \/ earlier # {} /\ ColorDescription(fb.color[SlotNames[Min(earlier)]])
                                    # ColorDescription(a)
               \/ \E j \in earlier : fb.color[SlotNames[j]] = a
            THEN "UNSUPPORTED" ELSE "COMPLETE"

OneImage(fb) == Attached(fb.depth) /\ fb.depth = fb.stencil
MipBacked(fb) == {"mip", "color_mip"} \subseteq callbacks
PlaneMipBacked(fb) ==
    {"mip", IF OneImage(fb) \/ ~Attached(fb.depth) \/ ~Attached(fb.stencil) THEN "depth_mip"
            ELSE "depth_stencil_mip"} \subseteq callbacks

\* The first fault, or what comes after the slots.
FirstFault(faults, otherwise) ==
    LET faulty == {i \in DOMAIN faults : faults[i] # "COMPLETE"}
    IN IF faulty = {} THEN otherwise ELSE faults[Min(faulty)]

\* ringl_check_framebuffer_status
Status(fb) ==
    LET slots == {i \in DOMAIN SlotNames : Attached(fb.color[SlotNames[i]])}
        size == ColorSize(fb.color[SlotNames[Min(slots)]])
        mip == \E i \in slots : fb.color[SlotNames[i]].level # 0
    IN FirstFault([i \in slots |-> ColorFault(fb, i)],
          IF slots = {} THEN "MISSING_ATTACHMENT"
          ELSE IF \/ Attached(fb.depth) /\ PlaneSize(fb.depth, TRUE, fb.hasStencil) # size
                  \/ Attached(fb.stencil) /\ PlaneSize(fb.stencil, FALSE, TRUE) # size
               THEN "INCOMPLETE_ATTACHMENT"
          ELSE IF mip /\ ~MipBacked(fb) THEN "UNSUPPORTED"
          ELSE IF /\ \/ fb.depth.level # 0 \/ fb.stencil.level # 0
                     \/ mip /\ (Attached(fb.depth) \/ Attached(fb.stencil))
                  /\ ~PlaneMipBacked(fb)
               THEN "UNSUPPORTED" ELSE "COMPLETE")

\* ringl_framebuffer_operation_error
Refusal(status) ==
    IF status # "COMPLETE" THEN "INVALID_FRAMEBUFFER_OPERATION" ELSE "INVALID_OPERATION"

-----------------------------------------------------------------------------
(***************************************************************************)
(* Targets.  `o` holds the textures and renderbuffers as images are made   *)
(* for them, one after another; those made before a failure stay.          *)
(* `failing`: objects for which the device makes no image.                 *)
(***************************************************************************)
Objects == [texture |-> texture, renderbuffer |-> renderbuffer]

RealizedStorage(r) ==
    IF r.image # NoImage THEN r.image
    ELSE [format |-> IF r.format \in PlaneStorageFormats THEN PlaneFormat(r.format)
                     ELSE DeviceFormat(StorageFormat(r.format)), size |-> r.size]

\* The textures of color attachments are color targets since they were attached.
TargetImage(o, a, use, failing) ==
    IF a.kind = "TEXTURE"
    THEN LET x == o.texture[a.object]
         IN IF \/ ~Stored(x.faces[a.layer], a.level)
               \/ use = "PLANE" /\ Summary(x).format.base \notin DepthFormats
               \/ x.image = NoImage /\ a.object \in failing
            THEN NoImage ELSE RealizedImage(x)
    ELSE IF a.kind = "RENDERBUFFER"
    THEN LET r == o.renderbuffer[a.object]
         IN IF \/ r.format \notin (IF use = "PLANE" THEN PlaneStorageFormats
                               ELSE ColorStorageFormats)
               \/ r.image = NoImage /\ a.object \in failing
            THEN NoImage ELSE RealizedStorage(r)
    ELSE NoImage

Holds(a, kind, object) == a.kind = kind /\ a.object = object
HeldBy(attachments, kind, object) == \E a \in attachments : Holds(a, kind, object)
\* The objects once the images of these attachments are there.
WithImages(o, attachments) ==
    [texture |-> [t \in Textures |->
        IF HeldBy(attachments, "TEXTURE", t)
        THEN [o.texture[t] EXCEPT !.image = RealizedImage(o.texture[t])] ELSE o.texture[t]],
     renderbuffer |-> [r \in Renderbuffers |->
        IF HeldBy(attachments, "RENDERBUFFER", r)
        THEN [o.renderbuffer[r] EXCEPT !.image = RealizedStorage(o.renderbuffer[r])]
        ELSE o.renderbuffer[r]]]

ColorTarget(a, image) ==
    [attachment |-> a, image |-> image, format |-> TargetFormat(a), logical |-> LogicalFormat(a),
     size |-> ColorSize(a)]
PlaneTarget(a, image) ==
    [attachment |-> a, image |-> image, format |-> PlaneFormat(StorageOf(a)),
     logical |-> None, size |-> IF a.kind = "RENDERBUFFER" THEN renderbuffer[a.object].size
                                ELSE LevelOf(a).size]

\* The targets of the attachments, which are numbered, up to the first that cannot be had;
\* color targets of different logical formats are not had together.  An image that one
\* attachment has made serves the next, so all are looked for in the objects at first.
TargetWith(a, use, image) ==
    IF image = NoImage THEN [attachment |-> a, image |-> NoImage, logical |-> None]
    ELSE IF use = "PLANE" THEN PlaneTarget(a, image) ELSE ColorTarget(a, image)
UpToFault(o, attachments, target) ==
    LET bad == {i \in DOMAIN attachments :
                  \/ target[i].image = NoImage
                  \/ \E j \in DOMAIN attachments : j < i /\ target[j].logical # target[i].logical}
        made == {i \in DOMAIN attachments : target[i].image # NoImage /\ \A k \in bad : i <= k}
    IN [objects |-> WithImages(o, {attachments[i] : i \in made}), targets |-> target,
        failed |-> bad # {}]
Resolved(o, attachments, use, failing) ==
    UpToFault(o, attachments,
              [i \in DOMAIN attachments |->
                  TargetWith(attachments[i], use, TargetImage(o, attachments[i], use, failing))])

ActiveSlots(fb) ==
    IF "draw_buffers" \in gates /\ fb.drawBuffers # None THEN fb.drawBuffers ELSE {FirstSlot}
\* With every draw buffer off, the first slot holds the pass together.
SelectedSlots(fb) == IF ActiveSlots(fb) = {} THEN {FirstSlot} ELSE ActiveSlots(fb)

ColorTargets(o, fb, failing) ==
    LET slots == {i \in DOMAIN SlotNames : SlotNames[i] \in SelectedSlots(fb)}
    IN Resolved(o, [i \in slots |-> fb.color[SlotNames[i]]], "COLOR", failing)
PlaneTargets(o, fb, failing) ==
    LET planes == <<fb.depth, fb.stencil>>
    IN IF Status(fb) # "COMPLETE" THEN [objects |-> o, targets |-> <<>>, failed |-> TRUE]
       ELSE Resolved(o, [i \in {j \in DOMAIN planes : Attached(planes[j])} |-> planes[i]], "PLANE",
                     failing)

LogicalWrites(logical, requested) ==
    CASE logical \in {"RGB", "LUMINANCE"} -> requested \cap {"RGB"}
      [] logical = "ALPHA" -> requested \cap {"A"}
      [] OTHER -> requested
\* ringl_effective_color_write_mask, for a framebuffer object.
EffectiveWrites(fb, requested) ==
    IF ActiveSlots(fb) = {} \/ \E s \in ActiveSlots(fb) : ~Attached(fb.color[s]) THEN {}
    ELSE {c \in requested : \A s \in ActiveSlots(fb) :
            LET a == fb.color[s]
            IN LogicalFormat(a) # None /\ c \in LogicalWrites(LogicalFormat(a), requested)}

-----------------------------------------------------------------------------
(***************************************************************************)
(* Render passes.  `targets` holds what a draw or clear resolved: `colors` *)
(* by slot and `planes`, those attached of depth and stencil.              *)
(* `multi`: the fragment shader writes every draw buffer.                  *)
(***************************************************************************)
TargetLayer(a) == IF a.kind = "TEXTURE" THEN a.layer ELSE First
Offset(a) == a.level # 0 \/ TargetLayer(a) # First
Separate(fb) == Attached(fb.depth) /\ Attached(fb.stencil) /\ ~OneImage(fb)
PlaneOffset(fb) == fb.depth.level # 0 \/ fb.stencil.level # 0
\* The plane of a pass that takes one.
PassPlane(fb) == IF Attached(fb.depth) THEN fb.depth ELSE fb.stencil

UsesMrt(fb, multi, writes) ==
    "draw_buffers" \in gates /\ (multi \/ (SelectedSlots(fb) # {FirstSlot} /\ writes # {}))
OutputsConflict(fb, multi, writes) ==
    /\ "draw_buffers" \in gates /\ writes # {} /\ ~multi
    /\ SelectedSlots(fb) \ {FirstSlot} # {}

\* draw_state_supported: the callbacks a draw with these tests cannot do without.
StateNeeds(fb, anchor, tests) ==
    (IF tests = {} THEN {}
     ELSE IF tests = {"DEPTH", "STENCIL"} /\ ~OneImage(fb) THEN {"depth_stencil"} ELSE {"depth"})
    \cup (IF tests # {} /\ (Offset(anchor) \/ PlaneOffset(fb))
          THEN {"mip", IF Separate(fb) THEN "depth_stencil_mip" ELSE "depth_mip"} ELSE {})

\* The first of them holds the pass together.
Anchor(colors) == colors[Min(DOMAIN colors)].attachment

TransitionNeeds(fb, colors, planes) ==
    IF \/ \E i \in DOMAIN colors : Offset(colors[i].attachment)
       \/ planes /\ PlaneOffset(fb)
    THEN {"mip"} ELSE {}
PassNeeds(fb, anchor, mrt, planes) ==
    IF mrt THEN {"mrt"}
    ELSE IF ~planes THEN IF Offset(anchor) THEN {"color_mip"} ELSE {}
    ELSE IF Separate(fb)
    THEN {"depth_stencil"} \cup (IF Offset(anchor) \/ PlaneOffset(fb) THEN {"depth_stencil_mip"}
                                 ELSE {})
    ELSE IF Offset(anchor) \/ PassPlane(fb).level # 0 THEN {"depth_mip"} ELSE {"depth"}

\* begin_mrt_pass takes targets of one size, format and layer.
Uniform(colors) ==
    \A i, j \in DOMAIN colors :
        /\ colors[i].size = colors[j].size /\ colors[i].format = colors[j].format
        /\ TargetLayer(colors[i].attachment) = TargetLayer(colors[j].attachment)

Begun(fb, colors, multi, writes, planes) ==
    LET mrt == UsesMrt(fb, multi, writes)
    IN /\ TransitionNeeds(fb, colors, planes)
            \cup PassNeeds(fb, Anchor(colors), mrt, planes) \subseteq callbacks
       /\ mrt => Uniform(colors)

Command(kind, colors, planes, given) ==
    [kind |-> kind, colors |-> colors, planes |-> planes, given |-> given]
Outcome(objects, code, submitted) == [objects |-> objects, code |-> code, command |-> submitted]

\* What is drawn to an image is not in the shadow.
PlacesDrawn(colors, t) ==
    {<<colors[i].attachment.layer, colors[i].attachment.level>> :
        i \in {j \in DOMAIN colors : Holds(colors[j].attachment, "TEXTURE", t)}}
DrawnAt(x, places) ==
    IF places = {} THEN x ELSE [x EXCEPT !.image = [x.image EXCEPT !.drawn = @ \cup places]]
DrawnTo(o, colors, writes) ==
    IF writes = {} THEN o
    ELSE [texture |-> [t \in Textures |-> DrawnAt(o.texture[t], PlacesDrawn(colors, t))],
          renderbuffer |-> o.renderbuffer]

\* A draw that has looked for its targets; what it refuses for the framebuffer's sake is
\* recorded as `refusal`.
DrawnWith(fb, planes, colors, refusal, multi, writes, enabled, ends) ==
    LET anchor == Anchor(colors.targets)
        tests == {p \in enabled : Attached(IF p = "DEPTH" THEN fb.depth ELSE fb.stencil)}
        failed(code) == Outcome(colors.objects, code, None)
    IN IF writes = {} /\ enabled = {} THEN Outcome(Objects, "NO_ERROR", None)
       ELSE IF planes.failed \/ colors.failed THEN failed(refusal)
       ELSE IF OutputsConflict(fb, multi, writes) THEN failed("INVALID_OPERATION")
       ELSE IF ~(StateNeeds(fb, anchor, tests) \subseteq callbacks) THEN failed(refusal)
       ELSE IF \/ ~Begun(fb, colors.targets, multi, writes, tests # {})
               \/ Offset(anchor) /\ "color_mip" \notin callbacks
               \/ ~ends
            THEN failed("INVALID_OPERATION")
       ELSE Outcome(DrawnTo(colors.objects, colors.targets, writes), "NO_ERROR",
                    Command("DRAW", colors.targets, IF tests = {} THEN <<>> ELSE planes.targets, None))

\* glDrawArrays and glDrawElements to the bound framebuffer.  `ends`: everything else the
\* draw needs, from vertices to the submission, is there.
DrawOutcome(multi, requested, enabled, failing, ends) ==
    LET planes == PlaneTargets(Objects, Bound, failing)
    IN DrawnWith(Bound, planes, ColorTargets(planes.objects, Bound, failing), Refusal(Status(Bound)),
                 multi, EffectiveWrites(Bound, requested), enabled, ends)

ClearedWith(fb, colors, planes, refusal, mask, depthWritten, multi, writes, ends) ==
    LET cleared == \/ "DEPTH" \in mask /\ Attached(fb.depth) /\ depthWritten
                   \/ "STENCIL" \in mask /\ Attached(fb.stencil)
        failed(code) == Outcome(planes.objects, code, None)
    IN IF mask = {} THEN Outcome(Objects, "NO_ERROR", None)
       ELSE IF ~(mask \subseteq {"COLOR", "DEPTH", "STENCIL"})
       THEN Outcome(Objects, "INVALID_VALUE", None)
       ELSE IF colors.failed THEN Outcome(colors.objects, refusal, None)
       ELSE IF planes.failed THEN failed(refusal)
       ELSE IF /\ cleared /\ SelectedSlots(fb) = {FirstSlot}
               /\ (IF Separate(fb) THEN "depth_stencil" ELSE "depth") \notin callbacks
            THEN failed("INVALID_OPERATION")
       ELSE IF "COLOR" \notin mask /\ ~cleared THEN failed("NO_ERROR")
       ELSE IF ~Begun(fb, colors.targets, multi, writes, cleared) \/ ~ends
            THEN failed("INVALID_OPERATION")
       ELSE Outcome(DrawnTo(planes.objects, colors.targets,
                            IF "COLOR" \in mask THEN writes ELSE {}), "NO_ERROR",
                    Command("CLEAR", colors.targets, IF cleared THEN planes.targets ELSE <<>>, None))

\* glClear of the bound framebuffer.
ClearOutcome(mask, depthWritten, multi, requested, failing, ends) ==
    LET colors == ColorTargets(Objects, Bound, failing)
    IN ClearedWith(Bound, colors, PlaneTargets(colors.objects, Bound, failing), Refusal(Status(Bound)),
                   mask, depthWritten, multi, EffectiveWrites(Bound, requested), ends)

-----------------------------------------------------------------------------
(***************************************************************************)
(* Reads of the first slot.  The places of the box that lie outside the    *)
(* target keep what the caller has there.                                  *)
(***************************************************************************)
ReadTypes == {"UBYTE", "FLOAT"}
ReadTexelBytes(type) == IF type = "FLOAT" THEN 16 ELSE 4
PackedPitch(width, type, alignment) ==
    ((width * ReadTexelBytes(type) + alignment - 1) \div alignment) * alignment
ReadBytes(size, type, alignment) ==
    IF Area(size) = 0 THEN 0
    ELSE PackedPitch(size[1], type, alignment) * (size[2] - 1) + size[1] * ReadTexelBytes(type)

FormatForRead(a) ==
    IF TargetFormat(a) \in {"RGBA32F", "RGBA16F"} /\ ~IsSrgb(a) THEN "FLOAT" ELSE "UBYTE"
ReadTypeSupported(a, type) ==
    IF IsSrgb(a) THEN TargetFormat(a) = "RGBA32F" /\ type = "UBYTE" ELSE type = FormatForRead(a)
ConversionBytes(a, area) ==
    area * (CASE TargetFormat(a) \in Packed -> 2
              [] IsSrgb(a) -> 16
              [] TargetFormat(a) = "RGBA16F" -> 8
              [] OTHER -> 0)

Between(n, low, high) == IF n < low THEN low ELSE IF n > high THEN high ELSE n
ClippedBox(box, size) ==
    LET low == [i \in 1..2 |-> Between(box.at[i], 0, size[i])]
        high == [i \in 1..2 |-> Between(box.at[i] + box.size[i], 0, size[i])]
    IN [at |-> low, size |-> [i \in 1..2 |-> Larger(0, high[i] - low[i])]]
Places(size) == (0..(size[1] - 1)) \X (0..(size[2] - 1))
Kept == <<>>

\* Fault: the rows that were read start the caller's rows.
DestinationAtOrigin(box, clipped) == <<0, 0>>
Destination(box, clipped) == [i \in 1..2 |-> clipped.at[i] - box.at[i]]

\* What the caller has afterwards, by byte offset: the place of the target that was read.
Delivered(box, clipped, type, alignment) ==
    LET to == Destination(box, clipped)
        tight == [p \in Places(box.size) |->
                    LET q == <<p[1] - to[1], p[2] - to[2]>>
                    IN IF q \in Places(clipped.size)
                       THEN <<clipped.at[1] + q[1], clipped.at[2] + q[2]>> ELSE Kept]
        at(p) == p[2] * PackedPitch(box.size[1], type, alignment) + p[1] * ReadTexelBytes(type)
    IN [o \in {at(p) : p \in Places(box.size)} |->
          tight[CHOOSE p \in Places(box.size) : at(p) = o]]

\* Fault: a level is read with the call for the base.
ReadPlaceOfBase(a) == <<First, 0>>

\* The subresource the device is handed: array_layer is left zero, whatever is attached.
ReadPlace(a) == <<First, a.level>>

ReadWith(a, status, target, clipped, box, type, alignment, given, reads) ==
    LET required == ReadBytes(box.size, type, alignment)
        refusal == Refusal(status)
        tight == Area(box.size) * ReadTexelBytes(type)
        temporary == tight + (IF clipped = box THEN 0 ELSE Area(clipped.size) * ReadTexelBytes(type))
        failed(code) == Outcome(target.objects, code, None)
    IN IF type \notin ReadTypes THEN Outcome(Objects, "INVALID_ENUM", None)
       ELSE IF box.size[1] < 0 \/ box.size[2] < 0 THEN Outcome(Objects, "INVALID_VALUE", None)
       ELSE IF IF given = None THEN required # 0 ELSE given < required
            THEN Outcome(Objects, "INVALID_OPERATION", None)
       ELSE IF Area(box.size) = 0 THEN Outcome(Objects, "NO_ERROR", None)
       ELSE IF status # "COMPLETE" THEN Outcome(Objects, refusal, None)
       ELSE IF \/ target.failed \/ ~ReadTypeSupported(a, type)
               \/ a.level # 0 /\ "readback_mip" \notin callbacks
            THEN failed(refusal)
       ELSE IF Area(clipped.size) = 0 THEN failed("NO_ERROR")
       ELSE IF ~Reserved(temporary) THEN failed("OUT_OF_MEMORY")
       ELSE IF \/ ~Reserved(temporary + ConversionBytes(a, Area(clipped.size))) \/ ~reads
               \/ a.level # 0 /\ "mip" \notin callbacks
            THEN failed(refusal)
       ELSE Outcome(target.objects, "NO_ERROR",
                    Command("READ", target.targets, <<>>,
                            [box |-> box, type |-> type, alignment |-> alignment, bytes |-> given,
                             from |-> ReadPlace(a),
                             pixels |-> Delivered(box, clipped, type, alignment)]))

\* glReadPixels into `given` bytes, or None.  `reads`: the device returns finite pixels.
ReadOutcome(box, type, alignment, given, failing, reads) ==
    LET a == Bound.color[FirstSlot]
    IN ReadWith(a, Status(Bound), Resolved(Objects, <<a>>, "COLOR", failing),
                ClippedBox(box, ColorSize(a)), box, type, alignment, given, reads)

-----------------------------------------------------------------------------
(***************************************************************************)
(* Calls.                                                                  *)
(***************************************************************************)
Called == Counted /\ command' = None
Denied(code) == error' = code /\ UNCHANGED <<storageVars, targetVars>>
Marking(bits) == marks' = marks \cup bits

GenFramebuffers(f) ==
    /\ Called
    /\ \/ framebuffer[f].name = "free" /\ Succeeded
          /\ framebuffer' = [framebuffer EXCEPT ![f].name = "reserved"]
          /\ UNCHANGED <<storageVars, renderbuffer, boundFramebuffer, boundRenderbuffer, marks>>
       \/ (\A g \in Framebuffers : framebuffer[g].name # "free") /\ Denied("OUT_OF_MEMORY")

BindFramebuffer(f) ==
    LET refused == f # None /\ framebuffer[f].name = "free"
    IN /\ Called
       /\ \/ refused /\ Denied("INVALID_OPERATION")
          \/ /\ ~refused /\ Succeeded
             /\ framebuffer' = IF f = None THEN framebuffer
                               ELSE [framebuffer EXCEPT ![f].name = "live"]
             /\ boundFramebuffer' = f
             /\ Marking(IF boundFramebuffer = f THEN {} ELSE {"FRAMEBUFFER"})
             /\ UNCHANGED <<storageVars, renderbuffer, boundRenderbuffer>>

DeleteFramebuffers(f) ==
    /\ Called /\ framebuffer[f].name # "free" /\ Succeeded
    /\ framebuffer' = [framebuffer EXCEPT ![f] = NoFramebuffer]
    /\ boundFramebuffer' = IF boundFramebuffer = f THEN None ELSE boundFramebuffer
    /\ Marking({"FRAMEBUFFER"})
    /\ UNCHANGED <<storageVars, renderbuffer, boundRenderbuffer>>

\* glDrawBuffersEXT: `buffers` lists, for each slot from the first, the slot or "NONE".
DrawBuffersError(buffers) ==
    IF "draw_buffers" \notin gates THEN "INVALID_OPERATION"
    ELSE IF Len(buffers) > Len(SlotNames) THEN "INVALID_VALUE"
    ELSE IF \E i \in DOMAIN buffers : buffers[i] \notin {"NONE", SlotNames[i]}
         THEN "INVALID_OPERATION" ELSE "NO_ERROR"
DrawBuffers(buffers) ==
    /\ Called /\ boundFramebuffer # None
    /\ \/ DrawBuffersError(buffers) # "NO_ERROR" /\ Denied(DrawBuffersError(buffers))
       \/ /\ DrawBuffersError(buffers) = "NO_ERROR" /\ Succeeded
          /\ framebuffer' = [framebuffer EXCEPT ![boundFramebuffer].drawBuffers =
                               {buffers[i] : i \in DOMAIN buffers} \ {"NONE"}]
          /\ Marking({"FRAMEBUFFER", "PIPELINE"})
          /\ UNCHANGED <<storageVars, renderbuffer, boundFramebuffer, boundRenderbuffer>>

DepthPoints == {"DEPTH", "DEPTH_STENCIL"}
StencilPoints == {"STENCIL", "DEPTH_STENCIL"}

\* The depth attachment remembers whether it was attached together with stencil.
AttachedPlane(fb, point, a) ==
    [fb EXCEPT !.depth = IF point \in DepthPoints THEN a ELSE @,
               !.hasStencil = IF point \in DepthPoints
                              THEN Attached(a) /\ point = "DEPTH_STENCIL" ELSE @,
               !.stencil = IF point \in StencilPoints THEN a ELSE @]
AttachedAt(fb, point, a) ==
    IF point \in Planes THEN AttachedPlane(fb, point, a) ELSE [fb EXCEPT !.color[point] = a]

\* A point that is none, or another slot than the first without the extension.
PointRefused(point) ==
    \/ point \notin Slots \cup Planes
    \/ point \in Slots \ {FirstSlot} /\ "draw_buffers" \notin gates
PlaneRefused(format, point) ==
    format # None /\ ~DepthFormatFits(format, point \in DepthPoints, point \in StencilPoints)

TextureAttachError(point, target, t, level) ==
    IF PointRefused(point) \/ target \notin (IF point \in Slots THEN Targets ELSE {"2D"})
    THEN "INVALID_ENUM"
    ELSE IF level \notin Levels THEN "INVALID_VALUE"
    ELSE IF boundFramebuffer = None THEN "INVALID_OPERATION"
    ELSE IF t = None THEN "NO_ERROR"
    ELSE IF texture[t].name # "live" THEN "INVALID_OPERATION"
    ELSE IF point \in Slots
    THEN IF texture[t].target # BindingOf(target) THEN "INVALID_OPERATION" ELSE "NO_ERROR"
    ELSE IF PlaneRefused(StorageOf(Attachment("TEXTURE", t, level, First)), point)
         THEN "INVALID_OPERATION" ELSE "NO_ERROR"

\* The texture becomes a color target before its target is looked at.
MadeTarget(point, target, t, level) ==
    /\ point \in Slots /\ ~PointRefused(point) /\ target \in Targets /\ level \in Levels
    /\ boundFramebuffer # None /\ t # None /\ texture[t].name = "live" /\ ~texture[t].renderable

\* glFramebufferTexture2D
FramebufferTexture2D(point, target, t, level) ==
    LET code == TextureAttachError(point, target, t, level)
        made == IF t = None THEN FALSE ELSE MadeTarget(point, target, t, level)
        a == IF t = None THEN NoAttachment
             ELSE Attachment("TEXTURE", t, level, IF point \in Slots THEN FaceOf(target) ELSE First)
    IN /\ Called /\ error' = code
       /\ texture' = IF made THEN [texture EXCEPT ![t] = Required(@)] ELSE texture
       /\ dirty' = (dirty \/ made)
       /\ framebuffer' = IF code # "NO_ERROR" THEN framebuffer
                         ELSE [framebuffer EXCEPT ![boundFramebuffer] = AttachedAt(@, point, a)]
       /\ Marking(IF code = "NO_ERROR" \/ made THEN {"FRAMEBUFFER"} ELSE {})
       /\ UNCHANGED <<units, active, charged, gates, callbacks>>
       /\ UNCHANGED <<renderbuffer, boundFramebuffer, boundRenderbuffer>>

RenderbufferAttachError(point, r) ==
    IF PointRefused(point) THEN "INVALID_ENUM"
    ELSE IF boundFramebuffer = None THEN "INVALID_OPERATION"
    ELSE IF r = None THEN "NO_ERROR"
    ELSE IF renderbuffer[r].name # "live" THEN "INVALID_OPERATION"
    ELSE IF point \in Planes /\ PlaneRefused(renderbuffer[r].format, point)
         THEN "INVALID_OPERATION" ELSE "NO_ERROR"

\* glFramebufferRenderbuffer: a slot keeps the layer of what it had.
FramebufferRenderbuffer(point, r) ==
    LET code == RenderbufferAttachError(point, r)
        layer == IF code = "NO_ERROR" /\ point \in Slots THEN Bound.color[point].layer ELSE First
        a == IF r = None THEN NoAttachment ELSE Attachment("RENDERBUFFER", r, 0, layer)
    IN /\ Called
       /\ \/ code # "NO_ERROR" /\ Denied(code)
          \/ /\ code = "NO_ERROR" /\ Succeeded
             /\ framebuffer' = [framebuffer EXCEPT ![boundFramebuffer] = AttachedAt(@, point, a)]
             /\ Marking({"FRAMEBUFFER"})
             /\ UNCHANGED <<storageVars, renderbuffer, boundFramebuffer, boundRenderbuffer>>

GenRenderbuffers(r) ==
    /\ Called
    /\ \/ renderbuffer[r].name = "free" /\ Succeeded
          /\ renderbuffer' = [renderbuffer EXCEPT ![r].name = "reserved"]
          /\ UNCHANGED <<storageVars, framebuffer, boundFramebuffer, boundRenderbuffer, marks>>
       \/ (\A q \in Renderbuffers : renderbuffer[q].name # "free") /\ Denied("OUT_OF_MEMORY")

BindRenderbuffer(r) ==
    LET refused == r # None /\ renderbuffer[r].name = "free"
    IN /\ Called
       /\ \/ refused /\ Denied("INVALID_OPERATION")
          \/ /\ ~refused /\ Succeeded
             /\ renderbuffer' = IF r = None THEN renderbuffer
                                ELSE [renderbuffer EXCEPT ![r].name = "live"]
             /\ boundRenderbuffer' = r
             /\ Marking(IF boundRenderbuffer = r THEN {} ELSE {"FRAMEBUFFER"})
             /\ UNCHANGED <<storageVars, framebuffer, boundFramebuffer>>

StorageError(format, size) ==
    IF format \notin ColorStorageFormats \cup PlaneStorageFormats THEN "INVALID_ENUM"
    ELSE IF \E i \in 1..2 : size[i] \notin 1..MaxSize THEN "INVALID_VALUE"
    ELSE IF boundRenderbuffer = None THEN "INVALID_OPERATION" ELSE "NO_ERROR"

\* Fault: the image of the storage before is used on.
RestoredKeepingImage(r, format, size) == [r EXCEPT !.format = format, !.size = size]
Restored(r, format, size) == [r EXCEPT !.format = format, !.size = size, !.image = NoImage]

\* glRenderbufferStorage
RenderbufferStorage(format, size) ==
    LET code == StorageError(format, size)
    IN /\ Called
       /\ \/ code # "NO_ERROR" /\ Denied(code)
          \/ /\ code = "NO_ERROR" /\ Succeeded
             /\ renderbuffer' = [renderbuffer EXCEPT ![boundRenderbuffer] =
                                   Restored(@, format, size)]
             /\ Marking({"FRAMEBUFFER"})
             /\ UNCHANGED <<storageVars, framebuffer, boundFramebuffer, boundRenderbuffer>>

\* An object that goes is detached from every framebuffer.
Detached(kind, object) ==
    [f \in Framebuffers |->
        LET fb == framebuffer[f]
            without(a) == IF Holds(a, kind, object) THEN NoAttachment ELSE a
        IN [fb EXCEPT !.color = [s \in Slots |-> without(fb.color[s])],
                      !.depth = without(fb.depth), !.stencil = without(fb.stencil),
                      !.hasStencil = IF Holds(fb.depth, kind, object) THEN FALSE ELSE @]]

DeleteRenderbuffers(r) ==
    /\ Called /\ renderbuffer[r].name # "free" /\ Succeeded
    /\ renderbuffer' = [renderbuffer EXCEPT ![r] = NoRenderbuffer]
    /\ framebuffer' = Detached("RENDERBUFFER", r)
    /\ boundRenderbuffer' = IF boundRenderbuffer = r THEN None ELSE boundRenderbuffer
    /\ Marking({"FRAMEBUFFER"})
    /\ UNCHANGED <<storageVars, boundFramebuffer>>

\* glDeleteTextures, with the framebuffers it touches.
DeleteTextures(t) ==
    /\ DeleteTexture(t) /\ command' = None
    /\ framebuffer' = Detached("TEXTURE", t)
    /\ Marking(IF framebuffer' = framebuffer THEN {} ELSE {"FRAMEBUFFER"})
    /\ UNCHANGED <<renderbuffer, boundFramebuffer, boundRenderbuffer>>

\* Any other call on textures.
OnTextures(call) == call /\ UNCHANGED targetVars /\ command' = None

\* A draw that is submitted leaves no binding to look at again.
Submitted(outcome, cleaned, settles) ==
    /\ boundFramebuffer # None /\ Counted
    /\ dirty' = (dirty /\ (outcome.command = None \/ ~settles)) /\ error' = outcome.code /\ command' = outcome.command
    /\ texture' = outcome.objects.texture /\ renderbuffer' = outcome.objects.renderbuffer
    /\ marks' = IF outcome.command = None THEN marks ELSE marks \ cleaned
    /\ UNCHANGED <<units, active, charged, gates, callbacks>>
    /\ UNCHANGED <<framebuffer, boundFramebuffer, boundRenderbuffer>>

Draw(multi, requested, enabled, failing, ends) ==
    Submitted(DrawOutcome(multi, requested, enabled, failing, ends), {"FRAMEBUFFER", "PIPELINE"}, TRUE)
Clear(mask, depthWritten, multi, requested, failing, ends) ==
    Submitted(ClearOutcome(mask, depthWritten, multi, requested, failing, ends), {"FRAMEBUFFER"}, FALSE)
ReadPixels(box, type, alignment, given, failing, reads) ==
    Submitted(ReadOutcome(box, type, alignment, given, failing, reads), {}, FALSE)

-----------------------------------------------------------------------------
(***************************************************************************)
(* Any calls in any order, with any arguments a caller can give.           *)
(***************************************************************************)
AllCallbacks ==
    {"mip", "array", "color_mip", "depth", "depth_mip", "depth_stencil", "depth_stencil_mip", "mrt",
     "readback_mip"}
FramebuffersInit ==
    /\ NothingStored /\ callbacks \in SUBSET AllCallbacks
    /\ framebuffer = [f \in Framebuffers |-> NoFramebuffer]
    /\ renderbuffer = [r \in Renderbuffers |-> NoRenderbuffer]
    /\ boundFramebuffer = None /\ boundRenderbuffer = None
    /\ marks = {"FRAMEBUFFER", "PIPELINE"} /\ command = None

ChangeFramebuffer ==
    \/ \E f \in Framebuffers : GenFramebuffers(f) \/ DeleteFramebuffers(f)
    \/ \E f \in Framebuffers \cup {None} : BindFramebuffer(f)
    \/ \E buffers \in Seq(STRING) : DrawBuffers(buffers)
    \/ \E point, target \in STRING, t \in Textures \cup {None}, level \in Int :
          FramebufferTexture2D(point, target, t, level)
    \/ \E point \in STRING, r \in Renderbuffers \cup {None} : FramebufferRenderbuffer(point, r)
ChangeRenderbuffer ==
    \/ \E r \in Renderbuffers : GenRenderbuffers(r) \/ DeleteRenderbuffers(r)
    \/ \E r \in Renderbuffers \cup {None} : BindRenderbuffer(r)
    \/ \E format \in STRING, size \in Int \X Int : RenderbufferStorage(format, size)
\* `done`: what is not the framebuffer's own goes well.
UseTargets ==
    \E failing \in SUBSET (Textures \cup Renderbuffers), done \in BOOLEAN :
        \/ \E multi \in BOOLEAN, requested \in SUBSET {"RGB", "A"}, enabled \in SUBSET {"DEPTH", "STENCIL"} :
              Draw(multi, requested, enabled, failing, done)
        \/ \E mask \in SUBSET STRING, written, multi \in BOOLEAN, requested \in SUBSET {"RGB", "A"} :
              Clear(mask, written, multi, requested, failing, done)
        \/ \E box \in [at : Int \X Int, size : Int \X Int], type \in STRING, alignment \in {1, 2, 4, 8},
               given \in Nat \cup {None} :
              ReadPixels(box, type, alignment, given, failing, done)
FramebuffersNext ==
    \/ OnTextures(TextureCall) \/ \E t \in Textures : DeleteTextures(t)
    \/ ChangeFramebuffer \/ ChangeRenderbuffer \/ UseTargets
FramebuffersSpec ==
    FramebuffersInit /\ [][FramebuffersNext]_<<textureVars, targetVars, command>>

-----------------------------------------------------------------------------
(***************************************************************************)
(* Queries of the bound framebuffer.                                       *)
(***************************************************************************)
\* ringl_get_framebuffer_attachment
QueriedAttachment(point) ==
    CASE point \in Slots -> Bound.color[point]
      [] point = "DEPTH" -> Bound.depth
      [] point = "STENCIL" -> Bound.stencil
      [] OTHER -> IF OneImage(Bound) THEN Bound.depth ELSE NoAttachment

Bits(color, alpha, depth, stencil) ==
    [color |-> color, alpha |-> alpha, depth |-> depth, stencil |-> stencil]
\* Color bits are those of red.
FormatBits(format) ==
    CASE format \in {"RGBA8", "SRGB8_ALPHA8"} -> Bits(8, 8, 0, 0)
      [] format = "RGBA32F" -> Bits(32, 32, 0, 0)
      [] format = "RGBA16F" -> Bits(16, 16, 0, 0)
      [] format = "RGB16F" -> Bits(16, 0, 0, 0)
      [] format = "RGB565" -> Bits(5, 0, 0, 0)
      [] format = "RGBA4" -> Bits(4, 4, 0, 0)
      [] format = "RGB5_A1" -> Bits(5, 1, 0, 0)
      [] format = "DEPTH16" -> Bits(0, 0, 16, 0)
      [] format = "DEPTH32F" -> Bits(0, 0, 32, 0)
      [] format = "STENCIL8" -> Bits(0, 0, 0, 8)
      [] OTHER -> Bits(0, 0, 24, 8)

ComponentBits(f) ==
    IF f.srgb THEN 8 ELSE CASE f.type = "FLOAT" -> 32 [] f.type = "HALF" -> 16 [] OTHER -> 8
TextureBits(f) ==
    LET bits == ComponentBits(f)
    IN CASE f.base \in Packed \cup DepthFormats -> FormatBits(f.base)
         [] f.base \in {"RGB", "LUMINANCE"} -> Bits(bits, 0, 0, 0)
         [] f.base = "ALPHA" -> Bits(0, bits, 0, 0)
         [] OTHER -> Bits(bits, bits, 0, 0)

\* FRAMEBUFFER_ATTACHMENT_*_SIZE, of the aspects the point stands for.
AttachedBits(point) ==
    LET a == QueriedAttachment(point)
        all == IF a.kind = "RENDERBUFFER" THEN FormatBits(StorageOf(a)) ELSE TextureBits(FormatOf(a))
    IN IF ~Attached(a) THEN Bits(0, 0, 0, 0)
       ELSE [all EXCEPT !.stencil = IF point = "DEPTH" THEN 0 ELSE @,
                        !.depth = IF point = "STENCIL" THEN 0 ELSE @]

\* FRAMEBUFFER_ATTACHMENT_COMPONENT_TYPE
AttachedComponentType(a) ==
    IF a.kind = "RENDERBUFFER" \/ StorageOf(a) \in DepthFormats
    THEN CASE StorageOf(a) \in {"RGBA32F", "RGBA16F", "RGB16F", "DEPTH32F"} -> "FLOAT"
           [] StorageOf(a) \in {"STENCIL8", "DEPTH24_STENCIL8"} -> "UNSIGNED_INT"
           [] OTHER -> "UNSIGNED_NORMALIZED"
    ELSE IF ~FormatOf(a).srgb /\ IsFloat(FormatOf(a)) THEN "FLOAT" ELSE "UNSIGNED_NORMALIZED"

\* ringl_framebuffer_color_attachment_component_type_at
ComponentType(a) ==
    IF a.kind = "RENDERBUFFER"
    THEN CASE renderbuffer[a.object].format = "RGBA32F" -> "FLOAT"
           [] renderbuffer[a.object].format \in {"RGB16F", "RGBA16F"} -> "HALF"
           [] OTHER -> "UBYTE"
    ELSE IF FormatOf(a).srgb THEN "UBYTE" ELSE FormatOf(a).type

-----------------------------------------------------------------------------
(***************************************************************************)
(* Properties.                                                             *)
(***************************************************************************)
PresentImage(a) ==
    IF a.kind = "TEXTURE" THEN texture[a.object].image ELSE renderbuffer[a.object].image
LevelPresent(a) == a.kind = "TEXTURE" => a.level < PresentImage(a).levels

\* What a draw, clear or read hands to the device is the present image of what is attached
\* to the bound, complete framebuffer, of the format and the size it is said to have; the
\* color targets of a pass have one format and one size, its planes that size too.
TargetsMatch ==
    command # None =>
        LET colors == Range(command.colors)
            targets == colors \cup Range(command.planes)
            image(x) == PresentImage(x.attachment)
        IN /\ Status(Bound) = "COMPLETE"
           /\ \A x \in targets :
                 /\ image(x) # NoImage /\ LevelPresent(x.attachment)
                 /\ image(x).format = x.format
                 /\ x.size = IF x.attachment.kind = "TEXTURE"
                              THEN LevelSize(image(x).size, x.attachment.level) ELSE image(x).size
           /\ \A x, y \in targets : x.size = y.size
           /\ \A x, y \in colors : x.format = y.format /\ x.logical = y.logical

\* A framebuffer that is reported complete is drawn to, by a device that has every
\* callback, when the slots that are selected have attachments of one layer and the
\* shader's outputs do not conflict with them.  A cube map of a depth format may be
\* attached as a plane and counted as complete, but no draw takes it.
SelectedAttachments == {Bound.color[s] : s \in SelectedSlots(Bound)}
IsCube(a) == a.kind = "TEXTURE" /\ texture[a.object].target = "CUBE"
CompleteDraws ==
    /\ boundFramebuffer # None /\ AllCallbacks \subseteq callbacks
    /\ IF boundFramebuffer = None THEN FALSE
       ELSE Status(Bound) = "COMPLETE" /\ ~IsCube(Bound.depth) /\ ~IsCube(Bound.stencil)
    /\ \A a \in SelectedAttachments : Attached(a)
    /\ \A a, b \in SelectedAttachments : TargetLayer(a) = TargetLayer(b)
    => \A multi \in BOOLEAN, enabled \in SUBSET {"DEPTH", "STENCIL"}, requested \in {{}, {"RGB", "A"}} :
          OutputsConflict(Bound, multi, EffectiveWrites(Bound, requested))
          \/ DrawOutcome(multi, requested, enabled, {}, TRUE).code = "NO_ERROR"

\* The queries tell one story about the first slot of a complete framebuffer: a float
\* component type in both queries, a float read, and wide components go together; what
\* has no alpha bits takes no alpha; RGB565 textures are the exception.
QueriesAgree ==
    IF boundFramebuffer = None THEN TRUE
    ELSE LET a == Bound.color[FirstSlot]
             bits == AttachedBits(FirstSlot)
         IN Attached(a) /\ Status(Bound) = "COMPLETE" =>
              /\ (AttachedComponentType(a) = "FLOAT") = (ComponentType(a) \in {"FLOAT", "HALF"})
              /\ (AttachedComponentType(a) = "FLOAT") = (FormatForRead(a) = "FLOAT")
              /\ (FormatForRead(a) = "FLOAT") = (bits.color > 8 \/ bits.alpha > 8)
              /\ ReadTypeSupported(a, FormatForRead(a))
              /\ LogicalFormat(a) # "RGB565" =>
                    (bits.alpha = 0) = (LogicalWrites(LogicalFormat(a), {"RGB", "A"}) = {"RGB"})
              /\ (AttachedBits("DEPTH").depth # 0) = Attached(Bound.depth)
              /\ (AttachedBits("STENCIL").stencil # 0) = Attached(Bound.stencil)

\* What is called complete can be drawn to and is described as one thing.
AttachmentsSound == CompleteDraws /\ QueriesAgree

\* A read gives the caller every place of the box that lies in the target where the box
\* has it, leaves the rest of the caller's bytes as they are and stays inside them.  What
\* it gives is of the level that is attached, but of the first face of a cube map.
Reading == IF command = None THEN FALSE ELSE command.kind = "READ"
ReadExact ==
    Reading =>
        LET read == command.given
            size == command.colors[1].size
            at(p) == p[2] * PackedPitch(read.box.size[1], read.type, read.alignment)
                       + p[1] * ReadTexelBytes(read.type)
        IN /\ read.from = <<First, command.colors[1].attachment.level>>
           /\ \A p \in Places(read.box.size) :
                 LET place == <<read.box.at[1] + p[1], read.box.at[2] + p[2]>>
                 IN /\ at(p) + ReadTexelBytes(read.type) <= read.bytes
                    /\ read.pixels[at(p)] = IF place \in Places(size) THEN place ELSE Kept

\* A read is of the subresource that is attached: ringl_sync.h says of its first callback,
\* which names none, that for an attachment other than level zero it "would read a
\* different image subresource", and gives the second a level and a layer to name.
ReadsAttached ==
    Reading => LET a == command.colors[1].attachment IN command.given.from = <<a.layer, a.level>>

\* What the next draw makes of the bound framebuffer changes only in a call that marks it.
Resolution ==
    IF boundFramebuffer = None THEN None
    ELSE [status |-> Status(Bound), slots |-> SelectedSlots(Bound), depth |-> Bound.depth,
          stencil |-> Bound.stencil,
          colors |-> [s \in Slots |-> IF Attached(Bound.color[s])
                                       THEN <<Bound.color[s], ColorDescription(Bound.color[s])>>
                                       ELSE <<>>]]
TargetChangeMarked ==
    "FRAMEBUFFER" \in marks' \/ dirty' \/ Resolution' = Resolution

\* What the embedding is told to look at again, from dropped images to attachments.
ChangesMarked ==
    [][DropMarked /\ TargetChangeMarked]_<<textureVars, targetVars, command>>
=============================================================================
