---------------------------- MODULE OpenGLArrays ----------------------------
(***************************************************************************)
(* Arrays of Python values that OpenGL is given pointers to                 *)
(* (qpyopengl_value_array.cpp, qpyopengl_data_cache.cpp, _attribute_array,  *)
(* _uniform_value_array).  Bindings keep an array for each use of a pointer *)
(* that OpenGL remembers and one more for the calls that do not; a shader   *)
(* program keeps its own in a dictionary.                                   *)
(***************************************************************************)
EXTENDS Integers, Sequences

CONSTANTS
    Blocks,         \* memory that is allocated for arrays
    Buffers,        \* Python objects with the buffer protocol
    NoArray,
    PointerCalls,   \* <<name, index or texture unit>> of the pointers that OpenGL keeps
    Unkeyed,        \* the names of those that have one key whatever the unit is
    ShaderKeys,     \* locations and names of the variables of a shader
    ShaderItems,    \* items of the sequences given to a shader: their types and
                    \* floats, or "bad" for what is no float
    MaxNested,      \* bound: conversions in each other
    MaxItems        \* bound: length of the sequence given to a shader

ASSUME GLAssumption ==
    /\ NoArray \notin Blocks /\ NoArray \notin Buffers /\ Blocks \cap Buffers = {}
    /\ MaxItems \in Nat
    /\ \A item \in ShaderItems : item.values \in Seq(STRING)

VARIABLES
    arrays,         \* [place -> the data allocated and the buffer held]
    converting,     \* conversions under way: each may call Python, which calls again
    pointers,       \* [call -> what OpenGL was given], NoArray also for an offset
    stale,          \* calls whose last conversion has begun and not succeeded
    keeper,         \* the wrapper of the context has the bindings, and lives as long as it
    blocks,         \* blocks that are allocated
    dict,           \* [key -> block], the user object of the shader
    attributes,     \* [key -> the block that the shader was given]
    replaced,       \* keys of attributes whose array a uniform value replaced
    made            \* the last array made for a shader

valuesVars == <<arrays, converting, pointers, stale, keeper>>
shaderVars == <<dict, attributes, replaced, made>>
glVars == <<valuesVars, shaderVars, blocks>>

noMemory == [data |-> NoArray, held |-> NoArray]
unmade == [use |-> "none", items |-> << >>, got |-> << >>]

\* A fault: the secondary key is forgotten.
PlaceOfFirst(call) == <<call[1], 0>>

\* The Array for a call, a PrimaryCacheEntry by the primary key and in it one
\* for each secondary key.  glTexCoordPointer() has one for all units.
PlaceOf(call) == IF call[1] \in Unkeyed THEN <<call[1], 0>> ELSE call

\* The Array for calls whose pointer OpenGL does not remember.
Uncached == <<"uncached", 0>>

Places == {PlaceOf(call) : call \in PointerCalls} \cup {Uncached}

GLInit ==
    /\ arrays = [place \in Places |-> noMemory]
    /\ converting = << >> /\ blocks = {}
    /\ pointers = [call \in PointerCalls |-> NoArray] /\ stale = {} /\ keeper \in BOOLEAN
    /\ dict = [key \in ShaderKeys |-> NoArray] /\ attributes = dict /\ replaced = {} /\ made = unmade

-----------------------------------------------------------------------------
(* The bindings.                                                           *)

\* Array::clear()
Cleared(array) ==
    IF array.data # NoArray THEN [array EXCEPT !.data = NoArray] ELSE [array EXCEPT !.held = NoArray]

\* What the call is given: a pointer that OpenGL remembers, or not.
GivenArray(call, p) == IF call \in PointerCalls THEN [pointers EXCEPT ![call] = p] ELSE pointers

\* An offset into a buffer of OpenGL's.  The array of the last call stays.
PointAtOffset(call) ==
    /\ pointers' = GivenArray(call, NoArray) /\ stale' = stale \ {call}
    /\ UNCHANGED <<arrays, converting, keeper, blocks, shaderVars>>

\* convert_values() of a buffer, which is held and not copied.
PointAtBuffer(call, buffer) ==
    LET place == PlaceOf(call)
    IN  /\ arrays' = [arrays EXCEPT ![place] = [Cleared(@) EXCEPT !.held = buffer]]
        /\ blocks' = blocks \ {arrays[place].data}
        /\ pointers' = GivenArray(call, buffer) /\ stale' = stale \ {call}
        /\ UNCHANGED <<converting, keeper, shaderVars>>

\* convert_values() of what is neither, is empty, or is for a type unknown.
PointAtNothing(call) ==
    LET place == PlaceOf(call)
    IN  /\ arrays' = [arrays EXCEPT ![place] = Cleared(@)]
        /\ blocks' = blocks \ {arrays[place].data}
        /\ stale' = stale \cup ({call} \cap PointerCalls)
        /\ UNCHANGED <<converting, pointers, keeper, shaderVars>>

\* Memory is used again when it has been freed.
FreeBlock == CHOOSE block \in Blocks : block \notin blocks

\* convert_values() of a sequence, up to the first item.
BeginValues(call) ==
    LET place == PlaceOf(call)
        block == FreeBlock
    IN  /\ Len(converting) < MaxNested /\ blocks # Blocks
        /\ converting' = Append(converting, [call |-> call, block |-> block])
        /\ arrays' = [arrays EXCEPT ![place] = Cleared(@)]
        /\ blocks' = (blocks \ {arrays[place].data}) \cup {block}
        /\ stale' = stale \cup ({call} \cap PointerCalls)
        /\ UNCHANGED <<pointers, keeper, shaderVars>>

\* All items have been converted and the call is made, or one has failed.
EndValues(ok) ==
    /\ converting # << >>
    /\ converting' = SubSeq(converting, 1, Len(converting) - 1)
    /\ LET last == converting[Len(converting)]
       IN  IF ok
           THEN /\ arrays' = [arrays EXCEPT ![PlaceOf(last.call)].data = last.block]
                /\ pointers' = GivenArray(last.call, last.block)
                /\ stale' = stale \ {last.call} /\ UNCHANGED blocks
           ELSE /\ blocks' = blocks \ {last.block} /\ UNCHANGED <<arrays, pointers, stale>>
    /\ UNCHANGED <<keeper, shaderVars>>

\* The wrapper of the bindings is collected with its cache: dataCache_clear(),
\* ~PrimaryCacheEntry() and ~Array().
CacheCleared ==
    /\ converting = << >>
    /\ arrays' = [place \in Places |-> noMemory]
    /\ blocks' = blocks \ {arrays[place].data : place \in Places}
    /\ UNCHANGED <<converting, keeper, shaderVars>>

\* The bindings go and the context lives on, with the pointers that it was given:
\* get() was called without a context, so that nobody owns them, or the wrapper of
\* the context has gone and with it what it owned.  They may be asked for again.
BindingsGone == ~ keeper /\ CacheCleared /\ UNCHANGED <<pointers, stale>>

\* The context goes, and with it OpenGL's pointers and the bindings.
ContextGone ==
    /\ CacheCleared
    /\ pointers' = [call \in PointerCalls |-> NoArray] /\ stale' = {}

-----------------------------------------------------------------------------
(* A shader program.                                                       *)

\* The first item decides what all of them have to be.
Convertible(items) ==
    /\ items # << >> /\ items[1].type # "other"
    /\ \A i \in DOMAIN items :
         /\ items[i].type = items[1].type
         /\ Len(items[i].values) = Len(items[1].values)
         /\ \A j \in DOMAIN items[i].values : items[i].values[j] # "bad"

\* The items before the one that is written: sequences of floats in uniform
\* values are all written to where the array starts.
Before(use, items, i) == IF use = "uniform" /\ items[1].type = "floats" THEN 0 ELSE i - 1

Made(use, items) ==
    LET dim == Len(items[1].values)
        Writes(i, at) == at - Before(use, items, i) * dim \in 1..dim
    IN  [at \in 1..Len(items) * dim |->
           IF \E i \in DOMAIN items : Writes(i, at)
           THEN LET i == CHOOSE i \in DOMAIN items :
                          Writes(i, at) /\ \A k \in DOMAIN items : Writes(k, at) => k <= i
                IN  items[i].values[at - Before(use, items, i) * dim]
           ELSE "any"]

\* setAttributeArray() and setUniformValueArray(): one dictionary for both.  The
\* values of a uniform are copied at once.
SetShaderArray(use, key, items) ==
    /\ blocks # Blocks
    /\ IF Convertible(items)
       THEN /\ dict' = [dict EXCEPT ![key] = FreeBlock]
            /\ blocks' = (blocks \ {dict[key]}) \cup {FreeBlock}
            /\ made' = [use |-> use, items |-> items, got |-> Made(use, items)]
            /\ IF use = "attribute"
               THEN attributes' = [attributes EXCEPT ![key] = FreeBlock] /\ replaced' = replaced \ {key}
               ELSE UNCHANGED attributes /\ replaced' = replaced \cup {key}
       ELSE made' = unmade /\ UNCHANGED <<dict, blocks, attributes, replaced>>
    /\ UNCHANGED valuesVars

\* The shader is garbage collected with its dictionary: array_dtor().
ShaderGone ==
    /\ dict' = [key \in ShaderKeys |-> NoArray] /\ attributes' = dict' /\ replaced' = {} /\ made' = unmade
    /\ blocks' = blocks \ {dict[key] : key \in ShaderKeys}
    /\ UNCHANGED valuesVars

ValuesNext ==
    \/ \E call \in PointerCalls \cup {Uncached} :
         \/ PointAtOffset(call) \/ PointAtNothing(call) \/ BeginValues(call)
         \/ \E buffer \in Buffers : PointAtBuffer(call, buffer)
    \/ \E ok \in BOOLEAN : EndValues(ok)
    \/ BindingsGone \/ ContextGone

ShaderNext ==
    \/ ShaderGone
    \/ \E use \in {"attribute", "uniform"}, key \in ShaderKeys, n \in 0..MaxItems :
         \E items \in [1..n -> ShaderItems] : SetShaderArray(use, key, items)

GLNext == ValuesNext \/ ShaderNext

GLSpec == GLInit /\ [][GLNext]_glVars

-----------------------------------------------------------------------------
(* Properties.                                                             *)

\* Each pointer of OpenGL has an array of its own.
UnitsApart ==
    \A c, d \in PointerCalls \cup {Uncached} : PlaceOf(c) = PlaceOf(d) => c = d

GLTypeOK ==
    /\ arrays \in [Places -> [data : Blocks \cup {NoArray}, held : Buffers \cup {NoArray}]]
    /\ converting \in Seq([call : PointerCalls \cup {Uncached}, block : Blocks])
    /\ pointers \in [PointerCalls -> Blocks \cup Buffers \cup {NoArray}] /\ stale \subseteq PointerCalls
    /\ blocks \subseteq Blocks /\ keeper \in BOOLEAN
    /\ dict \in [ShaderKeys -> Blocks \cup {NoArray}] /\ attributes \in [ShaderKeys -> Blocks \cup {NoArray}]
    /\ replaced \subseteq ShaderKeys

\* The array that OpenGL has been given a pointer to is there: "Cache the array
\* so that it persists until a similar call" (qpyopengl_value_array.cpp 79-80).  A
\* similar call that fails has freed it (stale).
PointersPersist ==
    \A call \in PointerCalls \ stale :
      LET array == arrays[PlaceOf(call)]
      IN  pointers[call] # NoArray =>
            pointers[call] = (IF pointers[call] \in Blocks THEN array.data ELSE array.held)

\* "The array is destroyed only when the shader is garbage collected or when
\* replaced by another array" (qpyopengl_attribute_array.cpp 38-39).
AttributesPersist ==
    \A key \in ShaderKeys \ replaced : attributes[key] # NoArray => dict[key] = attributes[key]

\* What is kept has not been freed.
KeptAllocated ==
    /\ \A place \in Places : arrays[place].data \in blocks \cup {NoArray}
    /\ \A key \in ShaderKeys : dict[key] \in blocks \cup {NoArray}
    /\ \A i \in DOMAIN converting : converting[i].block \in blocks

\* No memory is kept twice, which would free it twice: in two places, for two
\* keys, by two conversions, or by two of these.
PlacesApart ==
    \A p, q \in Places : arrays[p].data = arrays[q].data => p = q \/ arrays[p].data = NoArray
KeysApart == \A k, l \in ShaderKeys : dict[k] = dict[l] => k = l \/ dict[k] = NoArray
ConversionsApart ==
    \A i, j \in DOMAIN converting : converting[i].block = converting[j].block => i = j
PlacesKeysApart ==
    \A p \in Places, k \in ShaderKeys : arrays[p].data = dict[k] => dict[k] = NoArray
ConversionsOwn ==
    \A i \in DOMAIN converting :
      /\ \A p \in Places : arrays[p].data # converting[i].block
      /\ \A k \in ShaderKeys : dict[k] # converting[i].block

KeptOnce == PlacesApart /\ KeysApart /\ ConversionsApart /\ PlacesKeysApart /\ ConversionsOwn

\* The pointers persist where the wrapper of the context keeps the bindings.
ArraysPersist ==
    (keeper => PointersPersist) /\ AttributesPersist /\ KeptAllocated /\ KeptOnce

\* The array has the values of each item in the order of the items.
InOrder ==
    LET dim == Len(made.items[1].values)
    IN  \A i \in DOMAIN made.items : \A j \in 1..dim : made.got[(i - 1) * dim + j] = made.items[i].values[j]

\* So have the arrays of attributes, and those of uniform values but for
\* sequences of floats.
ArraysMade ==
    made.use = "attribute" \/ (made.use = "uniform" /\ made.items[1].type # "floats") => InOrder

\* No array is freed that is kept, nor twice, whatever is converted, freed or
\* replaced; OpenGL finds the arrays that it was given, if the wrapper of the context
\* keeps the bindings and the last call for the pointer has not failed; shaders find
\* theirs, in the order of the items, but for those of attributes that a uniform
\* value has replaced and for sequences of floats as uniform values.
ArraysRight == GLTypeOK /\ ArraysPersist /\ ArraysMade

\* "return an array that can be passed to
\* QOpenGLShaderProgram::setUniformValueArray()"
\* (qpyopengl_uniform_value_array.cpp 45-46).
UniformsMade == made.use = "uniform" => InOrder

\* An attribute keeps its array whatever is set for a uniform value.
AttributesKept == \A key \in ShaderKeys : attributes[key] # NoArray => dict[key] = attributes[key]

\* Every block belongs to a place, to a shader or to a conversion.
BlocksOwned ==
    blocks \subseteq {arrays[place].data : place \in Places} \cup {dict[key] : key \in ShaderKeys}
                     \cup {converting[i].block : i \in DOMAIN converting}

\* So do those that have no keeper.
PointersKeptAlone == PointersPersist

\* A failed call leaves OpenGL with what it had before.
PointersKept == [][\A call \in PointerCalls : call \in stale' /\ call \notin stale =>
                     pointers[call] = NoArray]_glVars
=============================================================================
