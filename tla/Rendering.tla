------------------------------ MODULE Rendering ------------------------------
(***************************************************************************)
(* How RinGL keeps track of RinGPU image states (src/src/translate/draw.c, *)
(* src/src/context/sync.c and framebuffer.c, with the parts of             *)
(* src/src/objects/texture.c and framebuffer.c they call).                 *)
(*                                                                         *)
(* A command list names the state an image leaves and the state it enters; *)
(* the device does not remember it for RinGL.  RinGL therefore tracks the  *)
(* state of every image, records transitions while it builds a list, and   *)
(* publishes the new states when the queue took the list.  A bind group    *)
(* ties a pipeline to the sampled image and is kept from draw to draw.     *)
(*                                                                         *)
(* One texture unit, level zero of 2D textures, one color attachment.      *)
(***************************************************************************)
EXTENDS Integers, FiniteSets

CONSTANTS
    Textures,       \* texture objects
    Framebuffers,   \* framebuffer objects
    Surface,        \* the image of the default framebuffer
    None            \* the name 0

ASSUME NamesAssumption ==
    /\ Surface \notin Textures
    /\ None \notin Textures \cup Framebuffers \cup {Surface}

Images == Textures \cup {Surface}

VARIABLES
    actual,       \* the state an image really is in; "NONE": no image
    targets,      \* textures whose image was created to be rendered to
    tracked,      \* ringpu_image_state[0], default_framebuffer_state
    unsure,       \* images whose last readback was submitted but not confirmed
    defined,      \* textures with storage
    renderable,   \* requires_color_target
    unit,         \* bound_texture_2d of the unit the sampler reads
    attached,     \* color attachment 0 of a framebuffer object
    framebuffer,  \* framebuffer_binding
    program,      \* current_program: None, or whether it samples a texture
    group,        \* graphics_bind_group and what it was built from
    dirty,        \* dirty_bits holds PIPELINE or BINDINGS
    commands      \* capabilities of graphics_command_list

imageVars == <<actual, targets, tracked, unsure>>
textureVars == <<defined, renderable, unit>>
renderingVars == <<actual, targets, tracked, unsure, defined, renderable, unit, attached,
                   framebuffer, program, group, dirty, commands>>

States == {"UNDEFINED", "COPY_DESTINATION", "COPY_SOURCE", "COLOR_TARGET", "PRESENT",
           "SHADER_READ"}
Programs == {None, "plain", "sampling"}
Formats == {"BGRA8", "RGBA8"}
Pipelines == (Programs \ {None}) \X Formats
NoGroup == [pipeline |-> None, texture |-> None, intact |-> FALSE]

(* The device has images of textures and of the surface only, and a bind    *)
(* group was built for a pipeline and a texture or is not there at all.     *)
RenderingTypeOK ==
    /\ actual \in [Images -> States \cup {"NONE"}]
    /\ tracked \in [Images -> States]
    /\ unsure \subseteq Images /\ targets \subseteq Textures
    /\ defined \subseteq Textures /\ renderable \subseteq Textures
    /\ unit \in Textures \cup {None}
    /\ attached \in [Framebuffers -> Textures \cup {None}]
    /\ framebuffer \in Framebuffers \cup {None}
    /\ program \in Programs
    /\ group \in {NoGroup} \cup
          [pipeline : Pipelines, texture : Textures, intact : BOOLEAN]
    /\ dirty \in BOOLEAN
    /\ commands \in {"none", "graphics", "present"}

RenderingInit ==
    /\ actual = [i \in Images |-> "NONE"]
    /\ tracked = [i \in Images |-> "UNDEFINED"]
    /\ targets = {} /\ unsure = {} /\ defined = {} /\ renderable = {}
    /\ unit = None
    /\ attached = [f \in Framebuffers |-> None]
    /\ framebuffer = None
    /\ program = None
    /\ group = NoGroup
    /\ dirty = TRUE
    /\ commands = "none"

-----------------------------------------------------------------------------
(***************************************************************************)
(* Images.                                                                 *)
(***************************************************************************)

(* texture_discard_image: the image is destroyed, and with it what a bind   *)
(* group built from it refers to.                                           *)
Discard(t) ==
    /\ actual' = [actual EXCEPT ![t] = "NONE"]
    /\ tracked' = [tracked EXCEPT ![t] = "UNDEFINED"]
    /\ targets' = targets \ {t} /\ unsure' = unsure \ {t}
    /\ group' = [group EXCEPT !.intact = @ /\ (group.texture # t \/ actual[t] = "NONE")]

(* The states once every texture of the set has an image: a missing one is  *)
(* created and filled from the CPU shadow.                                  *)
Filled(states, created) ==
    [i \in Images |-> IF i \in created \ {Surface} /\ actual[i] = "NONE"
                      THEN "COPY_DESTINATION" ELSE states[i]]

Created(created) ==
    /\ actual' = Filled(actual, created)
    /\ tracked' = Filled(tracked, created)
    /\ targets' = targets \cup {t \in created \ {Surface} :
                                   actual[t] = "NONE" /\ t \in renderable}
    /\ UNCHANGED unsure

(* The queue takes a list that brings images to the states of goal.  An     *)
(* image gets a transition unless it is tracked in its new state already.   *)
Moved(goal) == {i \in DOMAIN goal : Filled(tracked, DOMAIN goal)[i] # goal[i]}

Accepted(goal) ==
    /\ actual' = [i \in Images |-> IF i \in Moved(goal) THEN goal[i]
                                   ELSE Filled(actual, DOMAIN goal)[i]]
    /\ targets' = targets \cup {t \in DOMAIN goal \ {Surface} :
                                   actual[t] = "NONE" /\ t \in renderable}

Published(goal) ==
    /\ tracked' = [i \in Images |-> IF i \in DOMAIN goal THEN goal[i] ELSE tracked[i]]
    /\ unsure' = unsure \ Moved(goal)

\* Fault: states are published for a list the queue has refused.
RefusedPublished(created, goal) ==
    /\ actual' = Filled(actual, created)
    /\ tracked' = [i \in Images |-> IF i \in DOMAIN goal THEN goal[i] ELSE tracked[i]]
    /\ targets' = targets \cup {t \in created \ {Surface} :
                                   actual[t] = "NONE" /\ t \in renderable}
    /\ UNCHANGED unsure

(* The queue refused the list: images made on the way stay, states do not.  *)
Refused(created, goal) == Created(created)

-----------------------------------------------------------------------------
(***************************************************************************)
(* Render targets and command lists.                                       *)
(***************************************************************************)

HasSurface == actual[Surface] # "NONE"

(* ringl_resolve_color_target, None when there is nothing to draw to.       *)
Target ==
    CASE framebuffer = None -> IF HasSurface THEN Surface ELSE None
      [] OTHER -> IF attached[framebuffer] \in defined THEN attached[framebuffer] ELSE None

(* An undefined surface has no transition: its owner must prepare it.       *)
TargetReady == Target # Surface \/ tracked[Surface] # "UNDEFINED"

(* begin_commands asks for what the queue can do, prepare_empty_command_list *)
(* for graphics only; a list that exists is reset and used again.           *)
Begun(capability) == IF commands = "none" THEN capability ELSE commands

(* A call stops after some of its preparation: nothing was submitted.       *)
Stopped(capability) ==
    /\ Target # None
    /\ \E created \in SUBSET {Target} : Created(created)
    /\ commands' \in {commands, Begun(capability)}
    /\ UNCHANGED <<textureVars, attached, framebuffer, program, group, dirty>>

-----------------------------------------------------------------------------
(***************************************************************************)
(* Draws.                                                                  *)
(***************************************************************************)

Format(image) == IF image = Surface THEN "BGRA8" ELSE "RGBA8"
Pipeline == <<program, Format(Target)>>
Sampling == program = "sampling"

Rebuild == group = NoGroup \/ group.pipeline # Pipeline \/ dirty

(* The texture a draw realizes, checks and moves to SHADER_READ: none when  *)
(* the bind group is used again.                                            *)
Reads == IF Sampling /\ Rebuild THEN {unit} ELSE {}

\* Fault: the sampled texture is not compared with the render target.
CanSampleTarget == Reads # {} => unit \in defined

CanSample == Reads # {} => unit \in defined /\ unit # Target

PreparedGroup ==
    CASE ~Rebuild -> group
      [] Rebuild /\ Sampling -> [pipeline |-> Pipeline, texture |-> unit, intact |-> TRUE]
      [] OTHER -> NoGroup

DrawGoal == [i \in Reads \cup {Target} |-> IF i = Target THEN "COLOR_TARGET" ELSE "SHADER_READ"]

(* prepare_graphics_resources fails: the old group is gone, the texture may *)
(* have got its image.                                                      *)
DrawUnprepared ==
    /\ Target # None /\ program # None
    /\ Reads # {}
    /\ \E created \in SUBSET ({Target} \cup (Reads \cap defined)) :
          Target \in created /\ Created(created)
    /\ group' = NoGroup
    /\ commands' = Begun("present")
    /\ UNCHANGED <<textureVars, attached, framebuffer, program, dirty>>

(* Recording or the queue fails after that: the new group stays, and so do  *)
(* the dirty bits and the tracked states.                                   *)
DrawRefused ==
    /\ Target # None /\ program # None
    /\ CanSample
    /\ Refused({Target} \cup Reads, DrawGoal)
    /\ group' = PreparedGroup
    /\ commands' = Begun("present")
    /\ UNCHANGED <<textureVars, attached, framebuffer, program, dirty>>

DrawDone ==
    /\ Target # None /\ program # None
    /\ CanSample /\ TargetReady
    /\ Accepted(DrawGoal) /\ Published(DrawGoal)
    /\ group' = PreparedGroup
    /\ dirty' = FALSE
    /\ commands' = Begun("present")
    /\ UNCHANGED <<textureVars, attached, framebuffer, program>>

-----------------------------------------------------------------------------
(***************************************************************************)
(* Clears, readback and presentation.                                      *)
(***************************************************************************)

Transfer(goal, capability) ==
    /\ Accepted(goal) /\ Published(goal)
    /\ commands' = Begun(capability)
    /\ UNCHANGED <<textureVars, attached, framebuffer, program, group, dirty>>

Clear ==
    /\ Target # None /\ TargetReady
    /\ Transfer([i \in {Target} |-> "COLOR_TARGET"], "present")

(* The embedding clears the surface whatever framebuffer is bound.          *)
ClearForEmbedding ==
    /\ HasSurface /\ tracked[Surface] # "UNDEFINED"
    /\ Transfer([i \in {Surface} |-> "COLOR_TARGET"], "present")

ReadPixels ==
    /\ Target # None
    /\ Filled(tracked, {Target})[Target] # "UNDEFINED"
    /\ Transfer([i \in {Target} |-> "COPY_SOURCE"], "graphics")

(* The list was submitted and the wait for its fence failed: RinGL returns  *)
(* before it publishes.                                                     *)
ReadUnconfirmed ==
    /\ Target # None
    /\ Filled(tracked, {Target})[Target] # "UNDEFINED"
    /\ Accepted([i \in {Target} |-> "COPY_SOURCE"])
    /\ tracked' = Filled(tracked, {Target})
    /\ unsure' = unsure \cup {Target}
    /\ commands' = Begun("graphics")
    /\ UNCHANGED <<textureVars, attached, framebuffer, program, group, dirty>>

Finish ==
    /\ commands' = Begun("graphics")
    /\ UNCHANGED <<imageVars, textureVars, attached, framebuffer, program, group, dirty>>

(* The device refuses a present command in a list made for graphics only.   *)
Present ==
    /\ HasSurface
    /\ Begun("present") = "present"
    /\ Transfer([i \in {Surface} |-> "PRESENT"], "present")

PresentFails ==
    /\ HasSurface
    /\ commands' = Begun("present")
    /\ UNCHANGED <<imageVars, textureVars, attached, framebuffer, program, group, dirty>>

-----------------------------------------------------------------------------
(***************************************************************************)
(* Calls that change what the next draw depends on.                        *)
(***************************************************************************)

(* The embedding hands over a surface, or tells the state it brought it to. *)
SetDefaultFramebuffer(state) ==
    /\ actual' = [actual EXCEPT ![Surface] = state]
    /\ tracked' = [tracked EXCEPT ![Surface] = IF state = "NONE" THEN "UNDEFINED" ELSE state]
    /\ unsure' = unsure \ {Surface} /\ UNCHANGED targets
    /\ UNCHANGED <<textureVars, attached, framebuffer, program, group, commands>>

ReplaceSurface ==
    /\ \E state \in {"NONE", "PRESENT"} : SetDefaultFramebuffer(state)
    /\ dirty' \in IF HasSurface /\ actual'[Surface] # "NONE" THEN {dirty, TRUE} ELSE {TRUE}

SetDefaultFramebufferState ==
    /\ HasSurface
    /\ \E state \in {"UNDEFINED", "COLOR_TARGET", "PRESENT"} : SetDefaultFramebuffer(state)
    /\ UNCHANGED dirty

BindTexture(t) ==
    /\ unit' = t
    /\ dirty' = (dirty \/ t # unit)
    /\ UNCHANGED <<imageVars, defined, renderable, attached, framebuffer, program, group, commands>>

(* New contents go to the CPU shadow; the image is made again from it when  *)
(* it is next needed.                                                       *)
NewContents ==
    /\ Discard(unit)
    /\ dirty' = TRUE
    /\ UNCHANGED <<renderable, unit, attached, framebuffer, program, commands>>

TexImage == unit # None /\ defined' = defined \cup {unit} /\ NewContents
TexSubImage == unit \in defined /\ NewContents /\ UNCHANGED defined
GenerateMipmap == unit \in defined /\ NewContents /\ UNCHANGED defined

DeleteTexture(t) ==
    /\ attached' = [f \in Framebuffers |-> IF attached[f] = t THEN None ELSE attached[f]]
    /\ unit' = IF unit = t THEN None ELSE unit
    /\ Discard(t)
    /\ defined' = defined \ {t}
    /\ renderable' = renderable \ {t}
    /\ dirty' = TRUE
    /\ UNCHANGED <<framebuffer, program, commands>>

(* The first attachment makes the texture renderable: its image must be     *)
(* created again with another usage.                                        *)
RequireColorTarget(t) ==
    IF t \in renderable
    THEN UNCHANGED <<imageVars, renderable, group, dirty>>
    ELSE renderable' = renderable \cup {t} /\ Discard(t) /\ dirty' = TRUE

FramebufferTexture2D(t) ==
    /\ framebuffer # None
    /\ attached' = [attached EXCEPT ![framebuffer] = t]
    /\ IF t = None THEN UNCHANGED <<imageVars, renderable, group, dirty>>
                   ELSE RequireColorTarget(t)
    /\ UNCHANGED <<defined, unit, framebuffer, program, commands>>

BindFramebuffer(f) ==
    /\ framebuffer' = f
    /\ UNCHANGED <<imageVars, textureVars, attached, program, group, dirty, commands>>

DeleteFramebuffer(f) ==
    /\ attached' = [attached EXCEPT ![f] = None]
    /\ framebuffer' = IF framebuffer = f THEN None ELSE framebuffer
    /\ UNCHANGED <<imageVars, textureVars, program, group, dirty, commands>>

UseProgram(p) ==
    /\ program' = p
    /\ dirty' = (dirty \/ p # program \/ p = None)
    /\ UNCHANGED <<imageVars, textureVars, attached, framebuffer, group, commands>>

(* Every other call that marks PIPELINE or BINDINGS: raster state, vertex   *)
(* arrays, buffers, uniforms.                                               *)
ChangeState ==
    /\ dirty' = TRUE
    /\ UNCHANGED <<imageVars, textureVars, attached, framebuffer, program, group, commands>>

(* A shader or program is compiled, linked or destroyed.                    *)
InvalidateGraphicsArtifacts ==
    /\ commands' = "none"
    /\ group' = NoGroup
    /\ dirty' = TRUE
    /\ UNCHANGED <<imageVars, textureVars, attached, framebuffer, program>>

-----------------------------------------------------------------------------
Draw == Stopped("present") \/ DrawUnprepared \/ DrawRefused \/ DrawDone
Read == Stopped("graphics") \/ ReadPixels \/ ReadUnconfirmed

RenderingNext ==
    \/ Draw
    \/ Clear \/ ClearForEmbedding
    \/ Read \/ Finish
    \/ Present \/ PresentFails
    \/ ReplaceSurface \/ SetDefaultFramebufferState
    \/ \E t \in Textures : DeleteTexture(t)
    \/ \E t \in Textures \cup {None} : BindTexture(t) \/ FramebufferTexture2D(t)
    \/ TexImage \/ TexSubImage \/ GenerateMipmap
    \/ \E f \in Framebuffers : DeleteFramebuffer(f)
    \/ \E f \in Framebuffers \cup {None} : BindFramebuffer(f)
    \/ \E p \in Programs : UseProgram(p)
    \/ ChangeState \/ InvalidateGraphicsArtifacts

RenderingSpec == RenderingInit /\ [][RenderingNext]_renderingVars

-----------------------------------------------------------------------------
(* The state RinGL tracks is the state the image is in, through every       *)
(* failure of a list, except after a readback whose fence wait failed.      *)
TrackedStates ==
    \A i \in Images \ unsure :
        tracked[i] = IF actual[i] = "NONE" THEN "UNDEFINED" ELSE actual[i]

(* A bind group that the next draw may use again refers to the texture that *)
(* is bound now and to an image that still exists: every call that changes  *)
(* either of them marks the bindings dirty.                                 *)
GroupCurrent ==
    ~dirty /\ group # NoGroup => group.texture = unit /\ unit \in defined /\ group.intact

(* An attached texture never keeps an image made for sampling only.         *)
AttachedRenderable ==
    \A f \in Framebuffers :
        attached[f] # None /\ actual[attached[f]] # "NONE" => attached[f] \in targets

(* The images as a whole: where the device has them and what they are for.    *)
ImagesTracked == RenderingTypeOK /\ TrackedStates /\ AttachedRenderable

(* All that RinGL believes about the device and acts upon is so.            *)
BeliefsTrue == ImagesTracked /\ GroupCurrent

(* Whatever a draw that reaches the queue draws to is a color target then,  *)
(* and a draw that builds its bind group samples another image, readable.   *)
DrawsInState ==
    [][DrawDone /\ ({Target} \cup Reads) \cap unsure = {} =>
          /\ actual'[Target] = "COLOR_TARGET"
          /\ \A t \in Reads : t # Target /\ actual'[t] = "SHADER_READ"]_renderingVars

(* docs/ringpu-integration.md: for every linked sampler a draw validates     *)
(* that its texture is not the active color target, and records the         *)
(* transition to SHADER_READ before the render pass.                        *)
SampledReadable ==
    [][DrawDone /\ Sampling /\ unsure = {} =>
          group'.texture # Target /\ actual'[group'.texture] = "SHADER_READ"]_renderingVars
=============================================================================
