------------------------------ MODULE Interfaces ------------------------------
(***************************************************************************)
(* The interface of a program (src/src/shader/program.c): what linking     *)
(* makes of the uniforms, attributes and varyings its two shaders declare, *)
(* the locations an application is given for them, and the setters, which  *)
(* take such a location.                                                   *)
(*                                                                         *)
(* Every type of uniform has a table of its own.  An array is as many      *)
(* entries as it has elements, one after the other, and a location counts  *)
(* entries through all tables.  The tables are filled in one order and     *)
(* numbered in another one.  Values of numeric uniforms are compiled into  *)
(* a module for each stage that reads one.                                 *)
(*                                                                         *)
(* The program is current.  A value stands for all components of an entry. *)
(***************************************************************************)
EXTENDS Integers, FiniteSets, SequencesExt, Totals

CONSTANTS
    Offered,            \* interfaces of the pairs of shaders that may be linked
    Capacity,           \* RINGL_MAX_FLOAT_UNIFORMS and those of the other types
    MatrixCapacity,     \* RINGL_MAX_MAT4_UNIFORMS, of mat2 and mat3
    TextureUnits,       \* RINGL_MAX_TEXTURE_UNITS
    MaxAttribs,         \* RINGL_MAX_VERTEX_ATTRIBS
    MaxInputs,          \* RINGL_MAX_VERTEX_INPUT_COMPONENTS
    MaxVaryings,        \* RINGL_MAX_VARYING_COMPONENTS
    AttributeNames,     \* names that are bound to locations
    Reserved,           \* those of them that begin with gl_
    Givens              \* values passed to setters

CollectionOrder ==
    <<"sampler", "float", "vec2", "vec3", "vec4", "mat4", "mat2", "mat3",
      "int", "bool", "bvec2", "bvec3", "bvec4", "ivec2", "ivec3", "ivec4">>
LocationOrder ==
    <<"sampler", "float", "vec2", "vec3", "vec4", "mat4", "mat2", "mat3",
      "int", "ivec2", "ivec3", "ivec4", "bool", "bvec2", "bvec3", "bvec4">>

Classes == ToSet(LocationOrder)
Matrices == {"mat2", "mat3", "mat4"}
Booleans == {"bool", "bvec2", "bvec3", "bvec4"}
Floats == {"float", "vec2", "vec3", "vec4"} \cup Matrices
Stages == {"vertex", "fragment"}
Limit(class) == IF class \in Matrices THEN MatrixCapacity ELSE Capacity

Scalar == -1        \* the index of a name without one

(* What a pair of shaders offers, in the order it is declared.  The parser  *)
(* takes no name twice in one shader (add_symbol).                          *)
UniformDeclaration ==
    [base : STRING, class : Classes, target : STRING, size : Nat \ {0}]
AttributeDeclaration == [name : STRING, width : 1..4]
VaryingDeclaration == [name : STRING, width : Nat \ {0}, dimension : Nat]
NamedOnce(list) == \A j, k \in DOMAIN list : list[j].name = list[k].name => j = k
WellFormed(i) ==
    /\ i.vertex \in Seq(UniformDeclaration) /\ i.fragment \in Seq(UniformDeclaration)
    /\ i.attributes \in Seq(AttributeDeclaration) /\ NamedOnce(i.attributes)
    /\ i.outputs \in Seq(VaryingDeclaration) /\ NamedOnce(i.outputs)
    /\ i.inputs \in Seq(VaryingDeclaration) /\ NamedOnce(i.inputs)

ASSUME InterfacesAssumption ==
    /\ {Capacity, MatrixCapacity, MaxAttribs, MaxInputs, MaxVaryings} \subseteq Nat
    /\ MatrixCapacity <= Capacity /\ TextureUnits \in Nat \ {0}
    /\ \A i \in Offered : WellFormed(i)
    /\ Givens \subseteq Seq(Int)

VARIABLES
    interface,  \* the interface that was last linked
    bindings,   \* attribute_bindings: names with the location they shall have
    outcome,    \* "LINKED"; or why link_status is false
    uniforms,   \* the tables: entries [name, target, value]
    locations,  \* locations of the attributes
    ranges,     \* vertex_output_location, fragment_input_location of varyings
    built,      \* per stage, the values that its module was compiled with
    last        \* the last call: its name, its error, the dirty bits it set

interfaceVars == <<interface, bindings, outcome, uniforms, locations, ranges, built, last>>

NoUniforms == [c \in Classes |-> <<>>]
NotBuilt == [s \in Stages |-> <<>>]
NoInterface == [vertex |-> <<>>, fragment |-> <<>>, attributes |-> <<>>,
                outputs |-> <<>>, inputs |-> <<>>]
Reply(call, error, marks) == last' = [call |-> call, error |-> error, marks |-> marks]

InterfaceInit ==
    /\ interface = NoInterface /\ bindings = <<>>
    /\ outcome = "NEVER" /\ uniforms = NoUniforms
    /\ locations = <<>> /\ ranges = <<>> /\ built = NotBuilt
    /\ last = [call |-> "NONE", error |-> "NONE", marks |-> {}]

-----------------------------------------------------------------------------
(***************************************************************************)
(* Uniforms.                                                               *)
(***************************************************************************)

(* uniform_array_declaration: an array of one element reflects as a scalar. *)
Elements(d) ==
    [k \in 1..d.size |-> [name |-> <<d.base, IF d.size = 1 THEN Scalar ELSE k - 1>>,
                          target |-> d.target, value |-> 0]]

Names(table) == {table[k].name : k \in DOMAIN table}

(* Samplers of one name have one length and one type in both stages.        *)
SamplersMatch(i) ==
    \A d \in ToSet(i.vertex), e \in ToSet(i.fragment) :
        d.class = "sampler" /\ e.class = "sampler" /\ d.base = e.base =>
            d.size = e.size /\ d.target = e.target

(* Tables that are looked at for room before they are looked at for the name. *)
RoomFirst == {"vec2", "vec3"} \cup Matrices

(* Whether an entry can be added, or is there already.                      *)
Accepts(tables, class, e) ==
    LET present == e.name \in Names(tables[class])
    IN  /\ Len(tables[class]) < Limit(class) \/ (present /\ class \notin RoomFirst)
        /\ IF present
           THEN \E f \in ToSet(tables[class]) : f.name = e.name /\ f.target = e.target
           ELSE \A c \in Classes : e.name \notin Names(tables[c])

Adding(collected, class, e) ==
    IF ~collected.ok \/ ~Accepts(collected.tables, class, e) THEN [collected EXCEPT !.ok = FALSE]
    ELSE IF e.name \in Names(collected.tables[class]) THEN collected
    ELSE [collected EXCEPT !.tables[class] = Append(@, e)]

(* A uniform is added element by element.                                   *)
AddingAll(collected, d) ==
    LET added[k \in 0..d.size] ==
            IF k = 0 THEN collected ELSE Adding(added[k - 1], d.class, Elements(d)[k])
    IN  added[d.size]

(* A collector adds the uniforms of one type.                               *)
Collecting(collected, declarations, class) ==
    LET done[j \in 0..Len(declarations)] ==
            IF j = 0 THEN collected
            ELSE IF declarations[j].class = class THEN AddingAll(done[j - 1], declarations[j])
            ELSE done[j - 1]
    IN  done[Len(declarations)]

(* The collectors, one type after the other, the vertex shader first.       *)
Collected(i) ==
    LET done[r \in 0..Len(CollectionOrder)] ==
            IF r = 0 THEN [ok |-> SamplersMatch(i), tables |-> NoUniforms]
            ELSE Collecting(done[r - 1], i.vertex \o i.fragment, CollectionOrder[r])
    IN  done[Len(CollectionOrder)]
Collections == [i \in Offered |-> Collected(i)]

(* The names a stage has values of compiled in.                             *)
Numerics(declarations) ==
    UNION {Names(Elements(d)) : d \in {e \in ToSet(declarations) : e.class # "sampler"}}

ValueOf(tables, name) ==
    (CHOOSE e \in UNION {ToSet(tables[c]) : c \in Classes} : e.name = name).value

(* The module of a stage for the present values.                            *)
Compile(declarations, tables) == [n \in Numerics(declarations) |-> ValueOf(tables, n)]

-----------------------------------------------------------------------------
(***************************************************************************)
(* Attributes and varyings.                                                *)
(***************************************************************************)

(* The components of the first entries of a list, and of all of them.       *)
WidthsOf(list, n) == Total([k \in 1..n |-> list[k].width], n)
Widths(list) == WidthsOf(list, Len(list))

Bound(name) == {b.location : b \in {c \in ToSet(bindings) : c.name = name}}

(* Active attributes keep the location they were bound to; the others get   *)
(* the first that remain.                                                   *)
Assigned(attributes) ==
    LET taken == UNION {Bound(a.name) : a \in ToSet(attributes)}
        free == (0..(MaxAttribs - 1)) \ taken
        Unbound(j) == {k \in 1..(j - 1) : Bound(attributes[k].name) = {}}
    IN  [j \in DOMAIN attributes |->
            IF Bound(attributes[j].name) # {}
            THEN CHOOSE location \in Bound(attributes[j].name) : TRUE
            ELSE CHOOSE location \in free :
                    Cardinality({l \in free : l < location}) = Cardinality(Unbound(j))]

AttributesFit(attributes) ==
    /\ Len(attributes) <= MaxAttribs
    /\ Widths(attributes) <= MaxInputs
    /\ \A j, k \in DOMAIN attributes :
          j # k => Bound(attributes[j].name) \cap Bound(attributes[k].name) = {}

(* The varyings a fragment shader takes, with the place of each in both     *)
(* stages; the outputs of a vertex shader begin after the position.         *)
Output(i, input) == {v \in DOMAIN i.outputs : i.outputs[v].name = input.name}
Placed(i) ==
    [f \in DOMAIN i.inputs |->
        LET v == CHOOSE w \in Output(i, i.inputs[f]) : TRUE
        IN  [vertex |-> 4 + WidthsOf(i.outputs, v - 1),
             fragment |-> WidthsOf(i.inputs, f - 1)]]

VaryingsMatch(i) ==
    \A f \in DOMAIN i.inputs :
        /\ \E v \in Output(i, i.inputs[f]) : i.outputs[v] = i.inputs[f]
        /\ Placed(i)[f].vertex + i.inputs[f].width <= MaxVaryings + 4
        /\ Placed(i)[f].fragment + i.inputs[f].width <= MaxVaryings

(* ringl_bind_attrib_location: a request for the next link.  It is kept,    *)
(* whether the name is active or not.                                       *)
BindRefused(name, location) ==
    /\ IF location >= MaxAttribs THEN Reply("BIND", "INVALID_VALUE", {})
       ELSE IF name \in Reserved THEN Reply("BIND", "INVALID_OPERATION", {})
       ELSE /\ Bound(name) = {} /\ Len(bindings) = MaxAttribs
            /\ Reply("BIND", "OUT_OF_MEMORY", {})
    /\ UNCHANGED <<interface, bindings, outcome, uniforms, locations, ranges, built>>

BindAttribLocation(name, location) ==
    /\ location < MaxAttribs /\ name \notin Reserved
    /\ \/ \E k \in DOMAIN bindings :
             bindings[k].name = name /\ bindings' = [bindings EXCEPT ![k].location = location]
       \/ /\ Bound(name) = {} /\ Len(bindings) < MaxAttribs
          /\ bindings' = Append(bindings, [name |-> name, location |-> location])
    /\ Reply("BIND", "NONE", {})
    /\ UNCHANGED <<interface, outcome, uniforms, locations, ranges, built>>

-----------------------------------------------------------------------------
(***************************************************************************)
(* Linking.                                                                *)
(***************************************************************************)

Everything == {"PIPELINE", "BINDINGS"}
OwnsModules == \E s \in Stages : built[s] # <<>>

(* A link that fails leaves a program without an interface: what was        *)
(* collected until then is not looked at while link_status is false.        *)
Unlinked(i) ==
    /\ interface' = i
    /\ uniforms' = NoUniforms /\ locations' = <<>> /\ ranges' = <<>> /\ built' = NotBuilt
    /\ UNCHANGED bindings

LinkRefused(i) ==
    /\ ~(AttributesFit(i.attributes) /\ Collections[i].ok /\ VaryingsMatch(i))
    /\ outcome' = "REFUSED"
    /\ Unlinked(i)
    /\ Reply("LINK", "NONE", IF OwnsModules THEN Everything ELSE {})

(* Memory or the device fails on the way, in any step.                      *)
LinkBreaks(i) ==
    /\ outcome' = "BROKEN"
    /\ Unlinked(i)
    /\ \E error \in {"NONE", "OUT_OF_MEMORY"} :
          Reply("LINK", error, IF OwnsModules THEN Everything ELSE {})

LinkSucceeds(i) ==
    /\ AttributesFit(i.attributes) /\ VaryingsMatch(i)
    /\ LET collected == Collections[i]
       IN  /\ collected.ok
           /\ uniforms' = collected.tables
           /\ built' = [s \in Stages |-> Compile(i[s], collected.tables)]
    /\ outcome' = "LINKED"
    /\ interface' = i
    /\ locations' = Assigned(i.attributes)
    /\ ranges' = Placed(i)
    /\ Reply("LINK", "NONE", Everything)
    /\ UNCHANGED bindings

-----------------------------------------------------------------------------
(***************************************************************************)
(* Locations.                                                              *)
(***************************************************************************)

Ranks(order) == [c \in Classes |-> CHOOSE r \in DOMAIN order : order[r] = c]
CollectionRanks == Ranks(CollectionOrder)
LocationRanks == Ranks(LocationOrder)

(* Entries of the types that come before one in an order.                   *)
EntriesBefore(ranks, class) ==
    Cardinality({e \in Classes \X (1..Capacity) :
                    ranks[e[1]] < ranks[class] /\ e[2] \in DOMAIN uniforms[e[1]]})

(* ringl_get_uniform_location: the name of an array stands for its first    *)
(* element, and is tried as such before it is taken as it is; -1: no such.  *)
LocationOf(name) ==
    LET Entries(n) == {e \in Classes \X (1..Capacity) :
                          e[2] \in DOMAIN uniforms[e[1]] /\ uniforms[e[1]][e[2]].name = n}
        first == IF name[2] = Scalar THEN Entries(<<name[1], 0>>) ELSE {}
        found == IF first # {} THEN first ELSE Entries(name)
    IN  IF found = {} THEN -1
        ELSE LET f == CHOOSE e \in found : TRUE IN EntriesBefore(LocationRanks, f[1]) + f[2] - 1

\* Fault: the setters number the tables in the order they are filled.
FirstLocationAsCollected(class) == EntriesBefore(CollectionRanks, class)

(* What the setters and the getters take for the first location of a table. *)
FirstLocation(class) == EntriesBefore(LocationRanks, class)

(* The types that one setter or getter takes, and the entry it finds.       *)
Families ==
    {{"sampler", "int", "bool"}, {"ivec2", "bvec2"}, {"ivec3", "bvec3"}, {"ivec4", "bvec4"}}
        \cup {{c} : c \in Floats}

EntryAt(family, location) ==
    {e \in family \X (1..Capacity) :
        e[2] \in DOMAIN uniforms[e[1]] /\ location = FirstLocation(e[1]) + e[2] - 1}

(* ringl_active_uniform_group_at: an entry is part of the array before it   *)
(* if it continues it from element 0 on; every other one begins a group.    *)
Continues(table, k, n) ==
    \A o \in 0..n : k + o \in DOMAIN table /\ table[k + o].name = <<table[k].name[1], o>>
Inside(table, k) == \E j \in 1..(k - 1) : Continues(table, j, k - j)
GroupLength(table, k) == Cardinality({k} \cup {j \in DOMAIN table : j > k /\ Continues(table, k, j - k)})

ActiveUniforms ==
    UNION {{[name |-> uniforms[c][k].name, class |-> c, target |-> uniforms[c][k].target,
             size |-> GroupLength(uniforms[c], k)] :
               k \in {j \in DOMAIN uniforms[c] : ~Inside(uniforms[c], j)}} : c \in Classes}

-----------------------------------------------------------------------------
(***************************************************************************)
(* Setters.                                                                *)
(***************************************************************************)

(* ringl_uniform_array_range_is_valid, from entry k of a table.             *)
RangeValid(table, k, count) ==
    \/ count = 1
    \/ /\ k + count - 1 <= Len(table) /\ table[k].name[2] # Scalar
       /\ \A o \in 0..(count - 1) : table[k + o].name = <<table[k].name[1], table[k].name[2] + o>>

(* Booleans are kept as 0 and 1.                                            *)
Stored(class, value) == IF class \in Booleans /\ value # 0 THEN 1 ELSE value

Written(class, k, given) ==
    [uniforms EXCEPT ![class] = [j \in DOMAIN @ |->
        IF j \in k..(k + Len(given) - 1)
        THEN [@[j] EXCEPT !.value = Stored(class, given[j - k + 1])] ELSE @[j]]]

(* The stages that read an element that is written.                         *)
Readers(class, k, count) ==
    {s \in Stages : \E j \in k..(k + count - 1) : uniforms[class][j].name \in Numerics(interface[s])}

\* Fault: only the element the location stands for gets its value back.
RolledBackFirst(tables, class, k, count) ==
    [tables EXCEPT ![class] = [j \in DOMAIN @ |->
        IF j = k THEN [@[j] EXCEPT !.value = uniforms[class][j].value] ELSE @[j]]]

(* The elements that were written get the values back that were kept.       *)
RolledBack(tables, class, k, count) ==
    [tables EXCEPT ![class] = [j \in DOMAIN @ |->
        IF j \in k..(k + count - 1)
        THEN [@[j] EXCEPT !.value = uniforms[class][j].value] ELSE @[j]]]

Ignored(location, given) == location = -1 \/ given = <<>>
OutsideUnits(class, given) ==
    class = "sampler" /\ \E v \in ToSet(given) : v \notin 0..(TextureUnits - 1)

(* Values that are not finite, and matrices that are to be transposed, are  *)
(* refused before the program is looked at.                                 *)
SetInvalidValue ==
    /\ Reply("SET", "INVALID_VALUE", {})
    /\ UNCHANGED <<interface, bindings, outcome, uniforms, locations, ranges, built>>

(* A setter that changes nothing; found: the entry at the location, if any. *)
SetRefused(location, found, given) ==
    /\ IF Ignored(location, given) THEN Reply("SET", "NONE", {})
       ELSE IF outcome # "LINKED" \/ found = {} THEN Reply("SET", "INVALID_OPERATION", {})
       ELSE \E e \in found :
               IF OutsideUnits(e[1], given) THEN Reply("SET", "INVALID_VALUE", {})
               ELSE IF ~RangeValid(uniforms[e[1]], e[2], Len(given)) THEN Reply("SET", "INVALID_OPERATION", {})
               ELSE Written(e[1], e[2], given) = uniforms /\ Reply("SET", "NONE", {})
    /\ UNCHANGED <<interface, bindings, outcome, uniforms, locations, ranges, built>>

(* Whether a setter has something to write from an entry on.                *)
Writes(e, given) ==
    /\ outcome = "LINKED" /\ given # <<>>
    /\ ~OutsideUnits(e[1], given) /\ RangeValid(uniforms[e[1]], e[2], Len(given))
    /\ Written(e[1], e[2], given) # uniforms

(* ringl_uniform_1iv for samplers                                           *)
SetSamplers(found, given) ==
    \E e \in found :
        /\ e[1] = "sampler" /\ Writes(e, given)
        /\ uniforms' = Written("sampler", e[2], given)
        /\ Reply("SET", "NONE", {"BINDINGS"})
        /\ UNCHANGED <<interface, bindings, outcome, locations, ranges, built>>

(* The other setters write the elements and compile the stages that read    *)
(* one of them again, with all values.                                      *)
SetNumeric(found, given) ==
    \E e \in found :
        /\ e[1] # "sampler" /\ Writes(e, given)
        /\ uniforms' = Written(e[1], e[2], given)
        /\ built' = [s \in Stages |-> IF s \in Readers(e[1], e[2], Len(given))
                                      THEN Compile(interface[s], uniforms') ELSE built[s]]
        /\ Reply("SET", "NONE", Everything)
        /\ UNCHANGED <<interface, bindings, outcome, locations, ranges>>

(* If a stage fails, what the other one got is dropped, as the program's    *)
(* modules are replaced once both are there, and the values are put back.   *)
SetNumericFails(found, given) ==
    /\ \E e \in found :
          /\ e[1] # "sampler" /\ Writes(e, given)
          /\ uniforms' = RolledBack(Written(e[1], e[2], given), e[1], e[2], Len(given))
    /\ \E error \in {"INVALID_OPERATION", "OUT_OF_MEMORY"} : Reply("SET", error, {})
    /\ UNCHANGED <<interface, bindings, outcome, locations, ranges, built>>

Set(location, found, given) ==
    \/ SetRefused(location, found, given) \/ SetSamplers(found, given)
    \/ SetNumeric(found, given) \/ SetNumericFails(found, given)

InterfaceNext ==
    \/ \E name \in AttributeNames, location \in 0..MaxAttribs :
          BindRefused(name, location) \/ BindAttribLocation(name, location)
    \/ \E i \in Offered : LinkRefused(i) \/ LinkBreaks(i) \/ LinkSucceeds(i)
    \/ SetInvalidValue
    \/ \E location \in -1..Cardinality(UNION {Names(uniforms[c]) : c \in Classes}) :
          \E found \in {EntryAt(family, location) : family \in Families}, given \in Givens :
              Set(location, found, given)

InterfaceSpec == InterfaceInit /\ [][InterfaceNext]_interfaceVars

-----------------------------------------------------------------------------
(***************************************************************************)
(* Properties.                                                             *)
(***************************************************************************)

Declarations(i) == ToSet(i.vertex) \cup ToSet(i.fragment)
Everywhere(d) == \A e \in Declarations(interface) : e.base = d.base => e = d

(* A uniform that no stage declares otherwise is found under its name, and  *)
(* the setters of its type find its elements from there on, one after the   *)
(* other; it is one active uniform of its size.                             *)
Found(d) ==
    LET first == LocationOf(<<d.base, Scalar>>)
        family == CHOOSE f \in Families : d.class \in f
    IN  /\ \A k \in 1..d.size :
              \E e \in EntryAt(family, first + k - 1) :
                  EntryAt(family, first + k - 1) = {e} /\ e[1] = d.class
                  /\ uniforms[e[1]][e[2]].name = Elements(d)[k].name
        /\ [name |-> Elements(d)[1].name, class |-> d.class, target |-> d.target,
            size |-> d.size] \in ActiveUniforms

(* The tables hold what either stage declares, every name once.             *)
TablesComplete ==
    /\ \A c \in Classes :
          /\ Names(uniforms[c]) =
                UNION {Names(Elements(d)) : d \in {e \in Declarations(interface) : e.class = c}}
          /\ Cardinality(Names(uniforms[c])) = Len(uniforms[c])
          /\ \A e \in Classes \ {c} : Names(uniforms[c]) \cap Names(uniforms[e]) = {}
    /\ \A d \in Declarations(interface) : Everywhere(d) => Found(d)

(* No two attributes share a location, no two varyings a component.         *)
Placements ==
    LET Span(f, stage) == ranges[f][stage]..(ranges[f][stage] + interface.inputs[f].width - 1)
    IN  /\ \A j, k \in DOMAIN locations : j # k => locations[j] # locations[k]
        /\ \A j \in DOMAIN locations : locations[j] \in 0..(MaxAttribs - 1)
        /\ \A f \in DOMAIN ranges :
              /\ Span(f, "vertex") \subseteq 4..(MaxVaryings + 3)
              /\ Span(f, "fragment") \subseteq 0..(MaxVaryings - 1)
              /\ \A g \in DOMAIN ranges \ {f}, s \in Stages : Span(f, s) \cap Span(g, s) = {}

(* What a link may not refuse: names that mean the same in both stages,     *)
(* tables with room (and more of it where it is looked at first), inputs    *)
(* that fit.                                                                *)
Compatible(i) ==
    LET Elems(c) == UNION {Names(Elements(d)) : d \in {e \in Declarations(i) : e.class = c}}
    IN  /\ \A d, e \in Declarations(i) : d.base = e.base => d = e
        /\ \A c \in Classes : Cardinality(Elems(c)) < Limit(c) + IF c \in RoomFirst THEN 0 ELSE 1
        /\ Len(i.attributes) <= MaxAttribs
        /\ Widths(i.attributes) <= MaxInputs /\ Widths(i.outputs) <= MaxVaryings
        /\ \A j, k \in DOMAIN bindings : j # k => bindings[j].location # bindings[k].location
        /\ ToSet(i.inputs) \subseteq ToSet(i.outputs)

(* What the application is told about a linked program is what its shaders  *)
(* declare: names, locations and active uniforms of all types agree, though *)
(* tables are filled and numbered in different orders; attributes are where *)
(* they were bound; a link is refused for a reason only.                    *)
InterfaceAsDeclared ==
    /\ outcome = "LINKED" => TablesComplete /\ Placements
    /\ last.call = "LINK" =>
          /\ outcome = "LINKED" => \A j \in DOMAIN locations :
                Bound(interface.attributes[j].name) \subseteq {locations[j]}
          /\ outcome = "REFUSED" => ~Compatible(interface)

(* The modules of both stages run with the values there are, samplers name  *)
(* units there are.                                                         *)
ValuesReach ==
    \A c \in Classes : \A e \in ToSet(uniforms[c]) :
        IF c = "sampler" THEN e.value \in 0..(TextureUnits - 1)
        ELSE \A s \in Stages : e.name \in Numerics(interface[s]) => built[s][e.name] = e.value

(* A setter writes elements of one uniform of one type, all of them in both *)
(* stages or none, whatever fails, and the next draw is told.               *)
UpdatesWhole ==
    [][/\ uniforms' # uniforms \/ built' # built => ValuesReach'
       /\ uniforms' # uniforms /\ last'.call = "SET" =>
             \A c, d \in Classes : \A j \in DOMAIN uniforms[c], k \in DOMAIN uniforms[d] :
                 uniforms'[c][j] # uniforms[c][j] /\ uniforms'[d][k] # uniforms[d][k] =>
                     /\ c = d /\ uniforms[c][j].name[1] = uniforms[d][k].name[1]
                     /\ last'.error = "NONE" /\ "BINDINGS" \in last'.marks
                     /\ c # "sampler" => "PIPELINE" \in last'.marks]_interfaceVars
=============================================================================
