------------------------------- MODULE Programs -------------------------------
(***************************************************************************)
(* Shader and program objects (src/src/shader/shader.c, program.c and      *)
(* shader_ir.c) and the pipelines that are cached for their modules        *)
(* (src/src/translate/pipeline_cache.c).                                   *)
(*                                                                         *)
(* A shader owns the module made from its source.  A program owns modules  *)
(* of its own for the stages that read a numeric uniform, whose values are *)
(* compiled in.  Objects are counted by nobody: whoever drops a reference  *)
(* looks whether it was the last.  A pipeline is cached under the handles  *)
(* of its two modules, which RinGPU may give out again once they are free. *)
(*                                                                         *)
(* One numeric uniform; every fault of the device or of memory is possible.*)
(***************************************************************************)
EXTENDS Integers, FiniteSets, Functions

CONSTANTS
    VertexShaders, FragmentShaders,   \* names of shader objects
    ProgramNames,                     \* names of program objects
    Sources,        \* shader sources
    Numeric,        \* sources that declare the uniform
    Handles,        \* handles of RinGPU shader modules
    None            \* the name 0, the handle 0

Shaders == VertexShaders \cup FragmentShaders
Kinds == {"vertex", "fragment"}
Kind(s) == IF s \in VertexShaders THEN "vertex" ELSE "fragment"
Values == {0, 1}
Code == [source : Sources, value : Values]

ASSUME NamesAssumption ==
    /\ VertexShaders \cap FragmentShaders = {}
    /\ Numeric \subseteq Sources
    /\ None \notin Shaders \cup ProgramNames \cup Sources \cup Handles \cup Code

VARIABLES
    alive,      \* shaders whose slot is taken
    pending,    \* delete_pending of shaders
    source,     \* source text of a shader
    compiled,   \* compile_status
    lowered,    \* shaders with an rsh1
    module,     \* ringpu_module
    exists,     \* programs whose slot is taken
    deleted,    \* delete_pending of programs
    attached,   \* vertex_shader, fragment_shader
    linked,     \* linked_vertex_shader, linked_fragment_shader
    status,     \* link_status
    uniform,    \* value of the numeric uniform
    own,        \* vertex_uniform_module, fragment_uniform_module
    current,    \* current_program
    code,       \* what a module handle stands for; None: destroyed
    cache       \* cached pipelines: the modules they are found by, the code they run

shaderVars == <<alive, pending, source, compiled, lowered, module>>
programVars == <<exists, deleted, attached, linked, status, uniform, own, current>>
deviceVars == <<code, cache>>
vars == <<alive, pending, source, compiled, lowered, module, exists, deleted, attached, linked,
          status, uniform, own, current, code, cache>>

NoShaders == [k \in Kinds |-> None]

(* Only objects that exist are deleted, compiled, lowered, linked or        *)
(* current, and cached pipelines have a module for either stage.            *)
TypeOK ==
    /\ alive \subseteq Shaders /\ pending \subseteq alive
    /\ source \in [Shaders -> Sources \cup {None}]
    /\ compiled \subseteq alive /\ lowered \subseteq compiled
    /\ module \in [Shaders -> Handles \cup {None}]
    /\ exists \subseteq ProgramNames /\ deleted \subseteq exists
    /\ attached \in [ProgramNames -> [Kinds -> Shaders \cup {None}]]
    /\ linked \in [ProgramNames -> [Kinds -> Shaders \cup {None}]]
    /\ status \subseteq exists
    /\ uniform \in [ProgramNames -> Values]
    /\ own \in [ProgramNames -> [Kinds -> Handles \cup {None}]]
    /\ current \in exists \cup {None}
    /\ code \in [Handles -> Code \cup {None}]
    /\ cache \subseteq [modules : [Kinds -> Handles], code : [Kinds -> Code]]

Init ==
    /\ alive = {} /\ pending = {} /\ compiled = {} /\ lowered = {}
    /\ source = [s \in Shaders |-> None]
    /\ module = [s \in Shaders |-> None]
    /\ exists = {} /\ deleted = {} /\ status = {}
    /\ attached = [p \in ProgramNames |-> NoShaders]
    /\ linked = [p \in ProgramNames |-> NoShaders]
    /\ uniform = [p \in ProgramNames |-> 0]
    /\ own = [p \in ProgramNames |-> NoShaders]
    /\ current = None
    /\ code = [h \in Handles |-> None]
    /\ cache = {}

-----------------------------------------------------------------------------
(***************************************************************************)
(* Modules.                                                                *)
(***************************************************************************)

Free == {h \in Handles : code[h] = None}

\* Fault: a module that was replaced is not destroyed.
ChangedOnly(gone, made) ==
    [h \in Handles |-> IF h \in DOMAIN made THEN made[h] ELSE code[h]]

(* The handles after the modules of the set gone are destroyed and those in *)
(* the function made are created.                                           *)
Changed(gone, made) ==
    [h \in Handles |-> IF h \in DOMAIN made THEN made[h]
                       ELSE IF h \in gone THEN None ELSE code[h]]

NoneMade == [h \in {} |-> None]

(* Modules made from shaders; new says under which handles.                 *)
Made(new, value) ==
    [h \in Range(new) |->
        [source |-> source[CHOOSE s \in DOMAIN new : new[s] = h], value |-> value]]

\* Fault: the pipelines outlive the modules they were built from.
InvalidateNever(stale) == UNCHANGED cache

(* ringl_invalidate_graphics_artifacts                                      *)
Invalidate(stale) == cache' = IF stale THEN {} ELSE cache

(* Modules that may be part of a pipeline are destroyed.                    *)
Retire(gone, made) ==
    /\ code' = Changed(gone, made)
    /\ Invalidate(gone \ {None} # {})

OwnModules(p) == {own[p][k] : k \in Kinds}

-----------------------------------------------------------------------------
(***************************************************************************)
(* Lifetimes.                                                              *)
(***************************************************************************)

\* Fault: only the attachments are looked at.
InUseByAttachment(s, programs, attachments, links) ==
    \E p \in programs, k \in Kinds : attachments[p][k] = s

(* ringl_shader_is_attached, over the programs that are left.               *)
InUse(s, programs, attachments, links) ==
    \E p \in programs, k \in Kinds : attachments[p][k] = s \/ links[p][k] = s

(* The shaders among candidates that ringl_shader_release_if_delete_pending *)
(* destroys.                                                                *)
Released(candidates, programs, attachments, links) ==
    {s \in candidates \cap pending : ~InUse(s, programs, attachments, links)}

(* ringl_shader_destroy: storage and slot; module and rsh1 see DropArtifacts.*)
DestroyedShaders(gone) ==
    /\ alive' = alive \ gone /\ pending' = pending \ gone
    /\ compiled' = compiled \ gone
    /\ source' = [s \in Shaders |-> IF s \in gone THEN None ELSE source[s]]

(* ringl_shader_discard_artifacts, together with program modules that go:   *)
(* a program that linked the shader loses the module as well.               *)
DropArtifacts(gone, programModules) ==
    /\ lowered' = lowered \ gone
    /\ module' = [s \in Shaders |-> IF s \in gone THEN None ELSE module[s]]
    /\ Retire({module[s] : s \in gone} \cup programModules, NoneMade)

DestroyShaders(gone) == DestroyedShaders(gone) /\ DropArtifacts(gone, {})

(* ringl_program_destroy_now for the programs of a set of at most one.      *)
DestroyedPrograms(gone) ==
    LET left == exists \ gone
        dropped == UNION {{attached[p][k], linked[p][k]} : p \in gone, k \in Kinds}
        shaders == Released(dropped, left, attached, linked)
    IN  /\ exists' = left /\ status' = status \ gone
        /\ attached' = [p \in ProgramNames |-> IF p \in gone THEN NoShaders ELSE attached[p]]
        /\ linked' = [p \in ProgramNames |-> IF p \in gone THEN NoShaders ELSE linked[p]]
        /\ own' = [p \in ProgramNames |-> IF p \in gone THEN NoShaders ELSE own[p]]
        /\ uniform' = [p \in ProgramNames |-> IF p \in gone THEN 0 ELSE uniform[p]]
        /\ DestroyedShaders(shaders)
        /\ DropArtifacts(shaders, UNION {OwnModules(p) : p \in gone})

-----------------------------------------------------------------------------
(***************************************************************************)
(* Shader objects.                                                         *)
(***************************************************************************)

CreateShader(s) ==
    /\ s \notin alive
    /\ alive' = alive \cup {s}
    /\ UNCHANGED <<pending, source, compiled, lowered, module, programVars, deviceVars>>

DeleteShader(s) ==
    /\ s \in alive
    /\ IF InUse(s, exists, attached, linked)
       THEN /\ pending' = pending \cup {s}
            /\ UNCHANGED <<alive, source, compiled, lowered, module, deviceVars>>
       ELSE DestroyShaders({s})
    /\ UNCHANGED programVars

ShaderSource(s) ==
    /\ s \in alive \ pending
    /\ \E text \in Sources : source' = [source EXCEPT ![s] = text]
    /\ compiled' = compiled \ {s}
    /\ DropArtifacts({s}, {})
    /\ UNCHANGED <<alive, pending, programVars>>

(* Whether the source parses and memory suffices is left open.              *)
CompileShader(s) ==
    /\ s \in alive \ pending
    /\ \/ source[s] # None /\ compiled' = compiled \cup {s}
       \/ compiled' = compiled \ {s}
    /\ DropArtifacts({s}, {})
    /\ UNCHANGED <<alive, pending, source, programVars>>

LowerShader(s) ==
    /\ s \in compiled
    /\ lowered' = lowered \cup {s}
    /\ module' = [module EXCEPT ![s] = None]
    /\ Retire({module[s]}, NoneMade)
    /\ UNCHANGED <<alive, pending, source, compiled, programVars>>

RealizeShaderModule(s) ==
    /\ s \in lowered
    /\ \E h \in Free :
          /\ module' = [module EXCEPT ![s] = h]
          /\ Retire({module[s]}, Made([x \in {s} |-> h], 0))
    /\ UNCHANGED <<alive, pending, source, compiled, lowered, programVars>>

-----------------------------------------------------------------------------
(***************************************************************************)
(* Program objects.                                                        *)
(***************************************************************************)

CreateProgram(p) ==
    /\ p \notin exists
    /\ exists' = exists \cup {p}
    /\ UNCHANGED <<shaderVars, deleted, attached, linked, status, uniform, own, current, deviceVars>>

DeleteProgram(p) ==
    /\ p \in exists \ deleted
    /\ IF p = current
       THEN /\ deleted' = deleted \cup {p}
            /\ UNCHANGED <<shaderVars, exists, attached, linked, status, uniform, own, deviceVars>>
       ELSE DestroyedPrograms({p}) /\ UNCHANGED deleted
    /\ UNCHANGED current

AttachShader(p, s) ==
    /\ p \in exists \ deleted
    /\ s \in alive \ pending
    /\ attached[p][Kind(s)] \in {None, s}
    /\ attached' = [attached EXCEPT ![p][Kind(s)] = s]
    /\ UNCHANGED <<shaderVars, exists, deleted, linked, status, uniform, own, current, deviceVars>>

DetachShader(p, s) ==
    /\ p \in exists \ deleted
    /\ s \in alive /\ attached[p][Kind(s)] = s
    /\ attached' = [attached EXCEPT ![p][Kind(s)] = None]
    /\ DestroyShaders(Released({s}, exists, attached', linked))
    /\ UNCHANGED <<exists, deleted, linked, status, uniform, own, current>>

(* ringl_use_program: a deleted program goes when it is current no longer.  *)
UseProgram(p) ==
    /\ p = None \/ p \in status \ deleted
    /\ p # current
    /\ current' = p
    /\ DestroyedPrograms({current} \cap deleted)
    /\ deleted' = deleted \ {current}

-----------------------------------------------------------------------------
(***************************************************************************)
(* Linking and uniforms.                                                   *)
(***************************************************************************)

(* A stage reads the uniform if its shader, as last compiled, declares it.  *)
Reads(s) == s \in compiled /\ source[s] \in Numeric

Linkable(p) == \A k \in Kinds : attached[p][k] \in compiled

Attached(p) == {attached[p][k] : k \in Kinds}
Missing(p) == {s \in Attached(p) : ~Reads(s) /\ module[s] = None}
Reading(p) == {s \in Attached(p) : Reads(s)}

(* Handles for new modules; those of the program's old ones are free again. *)
Room(p) == Free \cup (OwnModules(p) \ {None})

(* ringl_program_prepare_gpu_shader, the vertex shader first: the shaders   *)
(* that were lowered and those that got their module.  A fragment shader    *)
(* that reads the uniform may be lowered for its samplers.                  *)
Prepares(p, tried, ready) ==
    /\ ready \subseteq tried
    /\ tried \subseteq Missing(p) \cup {attached[p]["fragment"]}
    /\ attached[p]["fragment"] \in tried => attached[p]["vertex"] \notin Missing(p) \ ready

(* Every link, whatever comes of it, retires the program's modules first.   *)
LinkStarts(p) ==
    /\ p \in exists \ deleted
    /\ uniform' = [uniform EXCEPT ![p] = 0]
    /\ UNCHANGED <<exists, deleted, attached, current>>

NotLinked(p) ==
    /\ LinkStarts(p)
    /\ status' = status \ {p}
    /\ own' = [own EXCEPT ![p] = NoShaders]
    /\ UNCHANGED <<alive, pending, source, compiled, linked>>

LinkFails(p) ==
    /\ NotLinked(p)
    /\ Retire(OwnModules(p), NoneMade)
    /\ UNCHANGED <<lowered, module>>

(* A later step fails: what a shader got on the way it keeps.               *)
LinkStops(p) ==
    /\ Linkable(p)
    /\ NotLinked(p)
    /\ \E tried \in SUBSET Attached(p), ready \in SUBSET Missing(p) :
          /\ Prepares(p, tried, ready)
          /\ lowered' = lowered \cup tried
          /\ \E new \in Injection(ready, Room(p)) :
                /\ module' = [s \in Shaders |-> IF s \in ready THEN new[s] ELSE module[s]]
                /\ Retire(OwnModules(p), Made(new, 0))

(* The new pair replaces the linked one, whose deleted shaders may go.      *)
LinkDone(p) ==
    /\ Linkable(p)
    /\ LinkStarts(p)
    /\ status' = status \cup {p}
    /\ linked' = [linked EXCEPT ![p] = attached[p]]
    /\ LET gone == Released({linked[p][k] : k \in Kinds}, exists, attached, linked')
           old == OwnModules(p) \cup {module[s] : s \in gone}
       IN  /\ DestroyedShaders(gone)
           /\ \E tried \in SUBSET Attached(p) :
                 Prepares(p, tried, Missing(p)) /\ lowered' = (lowered \ gone) \cup tried
           /\ \E new \in Injection(Missing(p) \cup Reading(p), Room(p)) :
                 /\ module' = [s \in Shaders |->
                        CASE s \in Missing(p) -> new[s] [] s \in gone -> None [] OTHER -> module[s]]
                 /\ own' = [own EXCEPT ![p] = [k \in Kinds |->
                        IF Reads(attached[p][k]) THEN new[attached[p][k]] ELSE None]]
                 /\ code' = Changed(old, Made(new, 0))
                 /\ Invalidate(old \ {None} # {} \/ Reading(p) # {})

(* The stages whose linked shader, as it is compiled now, names the uniform *)
Rebuilt(p) == {k \in Kinds : Reads(linked[p][k])}

(* The setters of numeric uniforms: new modules are complete before the old *)
(* ones and the pipelines go.                                               *)
Rebuilding(value) ==
    /\ current \in status \ deleted
    /\ OwnModules(current) # {None}
    /\ value # uniform[current]
    /\ Rebuilt(current) # {}

SetUniform(value) ==
    /\ Rebuilding(value)
    /\ \E new \in Injection({linked[current][k] : k \in Rebuilt(current)}, Free) :
          /\ own' = [own EXCEPT ![current] = [k \in Kinds |->
                 IF k \in Rebuilt(current) THEN new[linked[current][k]] ELSE @[k]]]
          /\ code' = Changed({own[current][k] : k \in Rebuilt(current)}, Made(new, value))
          /\ Invalidate(TRUE)
    /\ uniform' = [uniform EXCEPT ![current] = value]
    /\ UNCHANGED <<shaderVars, exists, deleted, attached, linked, status, current>>

\* Fault: a stage that was done before the other one failed keeps its module.
KeptMade(new, value) ==
    [h \in Handles |-> IF h \in Range(new) THEN Made(new, value)[h] ELSE code[h]]

(* Modules that were made, or returned with an error, and destroyed again.  *)
DestroyedMade(new, value) ==
    [h \in Handles |-> IF h \in Range(new) THEN None ELSE code[h]]

(* The vertex stage comes first; when one fails, the old modules and the    *)
(* pipelines stay as they are.                                              *)
SetUniformFails(value) ==
    /\ Rebuilding(value)
    /\ \E begun \in SUBSET Rebuilt(current) :
          /\ "fragment" \in begun => "vertex" \notin Rebuilt(current) \ begun
          /\ \E new \in Injection({linked[current][k] : k \in begun}, Free) :
                code' = DestroyedMade(new, value)
    /\ UNCHANGED <<shaderVars, programVars, cache>>

-----------------------------------------------------------------------------
(***************************************************************************)
(* Drawing.                                                                *)
(***************************************************************************)

(* ringl_build_pipeline_key: a program's own module takes precedence.       *)
Executes(p) == [k \in Kinds |-> IF own[p][k] # None THEN own[p][k] ELSE module[linked[p][k]]]

(* ringl_pipeline_cache_get_or_create: what is cached under the handles is  *)
(* used as it is.                                                           *)
Cached(modules) == {entry \in cache : entry.modules = modules}

DrawReady ==
    /\ current \in status
    /\ \A k \in Kinds : linked[current][k] \in alive /\ Executes(current)[k] # None

Draw ==
    /\ DrawReady
    /\ cache' = IF Cached(Executes(current)) # {} THEN cache
                ELSE cache \cup {[modules |-> Executes(current),
                                 code |-> [k \in Kinds |-> code[Executes(current)[k]]]]}
    /\ UNCHANGED <<shaderVars, programVars, code>>

Next ==
    \/ \E s \in Shaders :
          \/ CreateShader(s) \/ DeleteShader(s) \/ ShaderSource(s) \/ CompileShader(s)
          \/ LowerShader(s) \/ RealizeShaderModule(s)
          \/ \E p \in ProgramNames : AttachShader(p, s) \/ DetachShader(p, s)
    \/ \E p \in ProgramNames :
          \/ CreateProgram(p) \/ DeleteProgram(p)
          \/ LinkFails(p) \/ LinkStops(p) \/ LinkDone(p)
    \/ \E p \in ProgramNames \cup {None} : UseProgram(p)
    \/ \E value \in Values : SetUniform(value) \/ SetUniformFails(value)
    \/ Draw

Spec == Init /\ [][Next]_vars

-----------------------------------------------------------------------------
(* Deleted objects stay for as long as something names them: no program     *)
(* names a shader whose slot was given back, neither to link nor to draw.   *)
ReferencesLive ==
    \A p \in exists, k \in Kinds :
        /\ attached[p][k] \in alive \cup {None}
        /\ linked[p][k] \in alive \cup {None}
        /\ p \in status => linked[p][k] \in alive

(* And no longer: whoever dropped the last reference to a deleted object    *)
(* has destroyed it, through every order of detach, relink, use and delete. *)
DeletedHeld ==
    /\ \A s \in pending : InUse(s, exists, attached, linked)
    /\ deleted \subseteq {current}

(* Deleted shaders and programs exist exactly as long as they are referred to. *)
ShadersKept == TypeOK /\ ReferencesLive /\ DeletedHeld

Holders(h) ==
    {s \in Shaders : module[s] = h} \cup
    {stage \in ProgramNames \X Kinds : own[stage[1]][stage[2]] = h}

(* Every module of the device belongs to one shader or one stage of one     *)
(* program: none leaks and none is destroyed under a second owner.          *)
ModulesOwned ==
    \A h \in Handles : Cardinality(Holders(h)) = IF code[h] = None THEN 0 ELSE 1

(* A pipeline that a draw would find runs the code its modules hold now,    *)
(* although their handles may have stood for other modules before.          *)
CacheMatchesModules ==
    \A entry \in cache : \A k \in Kinds : code[entry.modules[k]] = entry.code[k]

=============================================================================
