----------------------------- MODULE ProgramsMC -----------------------------
(* Programs and Interfaces for TLC.  A behaviour stays in one scene: one     *)
(* program whose shaders may have the uniform; or programs and fragment      *)
(* shaders that share two modules, which their shaders get as soon as they   *)
(* are lowered, and draw nothing; or the interface of one program.           *)
EXTENDS Programs, Interfaces, TLC

CONSTANT SharedHandles      \* bound of the modules in the shared scene

VARIABLE scene

-----------------------------------------------------------------------------
(* Pairs of shaders that agree, clash, overflow a table, share a name across *)
(* types, lengths and stages; in pairs of its own each, what they declare as *)
(* attributes and as varyings.                                               *)
Value(base, class, size) == [base |-> base, class |-> class, target |-> "NONE", size |-> size]
Sampler(base, target, size) ==
    [base |-> base, class |-> "sampler", target |-> target, size |-> size]
Attribute(name, width) == [name |-> name, width |-> width]
Varying(name, width, dimension) == [name |-> name, width |-> width, dimension |-> dimension]

UniformPairs ==
    {<< <<Value("b", "bool", 1), Value("c", "ivec2", 1)>>,
        <<Value("a", "float", 1), Value("b", "bool", 1)>> >>,
     << <<Value("a", "float", 2)>>, <<Value("a", "float", 3)>> >>,
     << <<Value("a", "float", 1)>>, <<Value("a", "float", 2)>> >>,
     << <<Value("a", "vec3", 3)>>, <<Value("a", "vec3", 3)>> >>,
     << <<Value("a", "mat4", 2)>>, <<Value("c", "vec3", 1), Value("b", "vec3", 1)>> >>,
     << <<Value("a", "bvec2", 2)>>, <<Value("c", "ivec2", 2), Value("a", "bvec2", 2)>> >>,
     << <<Value("b", "int", 1)>>, <<Value("b", "bool", 1)>> >>,
     << <<Value("b", "int", 2)>>, <<Value("c", "int", 2)>> >>,
     << <<Sampler("a", "2D", 2)>>, <<Sampler("c", "CUBE", 1), Sampler("a", "2D", 2)>> >>,
     << <<Sampler("a", "2D", 2)>>, <<Sampler("a", "CUBE", 2)>> >>,
     << <<Sampler("a", "2D", 1), Value("b", "int", 2)>>,
        <<Value("c", "bool", 1), Value("b", "int", 2)>> >>}
AttributeLists ==
    {<<Attribute("b", 1), Attribute("a", 2)>>,
     <<Attribute("a", 4), Attribute("b", 3)>>,
     <<Attribute("c", 1), Attribute("a", 1), Attribute("b", 1)>>}
VaryingPairs ==
    {<< <<Varying("x", 1, 0), Varying("y", 4, 2), Varying("z", 1, 0)>>,
        <<Varying("z", 1, 0), Varying("y", 4, 2)>> >>,
     << <<Varying("x", 2, 0), Varying("y", 4, 0), Varying("z", 1, 0)>>, <<Varying("y", 4, 0)>> >>,
     << <<Varying("x", 2, 0), Varying("y", 4, 0), Varying("z", 1, 0)>>,
        <<Varying("y", 4, 0), Varying("z", 1, 0)>> >>,
     << <<Varying("y", 4, 0)>>, <<Varying("y", 4, 2)>> >>,
     << <<Varying("x", 1, 0)>>, <<Varying("y", 1, 0)>> >>}

WithUniforms == {[NoInterface EXCEPT !.vertex = p[1], !.fragment = p[2]] : p \in UniformPairs}
WithInputs ==
    {[NoInterface EXCEPT !.attributes = list] : list \in AttributeLists} \cup
    {[NoInterface EXCEPT !.outputs = p[1], !.inputs = p[2]] : p \in VaryingPairs}

MCOffered == WithUniforms \cup WithInputs
MCGivens == {<<>>, <<1>>, <<2>>, <<0, 1>>}

(* Another interface is linked before uniforms are set only, and bindings    *)
(* are made for interfaces without uniforms.                                 *)
Linking ==
    /\ InterfaceNext
    /\ interface' # interface => last.call # "SET"
    /\ bindings' # <<>> => interface' \notin WithUniforms

-----------------------------------------------------------------------------
(* The scenes without an interface have no tables to carry along.            *)
MCInit ==
    /\ Init /\ scene \in {"modules", "shared", "interface"}
    /\ IF scene = "interface" THEN InterfaceInit
       ELSE /\ interface = <<>> /\ bindings = <<>> /\ outcome = "NEVER" /\ uniforms = <<>>
            /\ locations = <<>> /\ ranges = <<>> /\ built = <<>>
            /\ last = [call |-> "NONE"]
MCNext ==
    /\ UNCHANGED scene
    /\ \/ scene = "interface" /\ Linking /\ UNCHANGED vars
       \/ scene # "interface" /\ Next /\ UNCHANGED interfaceVars
    /\ scene = "modules" => /\ Cardinality(alive' \cap FragmentShaders) <= 1
                            /\ Cardinality(exists') <= 1
    /\ scene = "shared" => /\ \A s \in Shaders : source'[s] \notin Numeric
                           /\ \A h \in Handles \ SharedHandles : code'[h] = None
                           /\ \A x \in lowered' : module'[x] # None
                           /\ cache' = {}
MCSpec == MCInit /\ [][MCNext]_<<vars, interfaceVars, scene>>

NameSymmetry ==
    Permutations(SharedHandles) \cup Permutations(Handles \ SharedHandles)
        \cup Permutations(ProgramNames) \cup Permutations(FragmentShaders)
=============================================================================
