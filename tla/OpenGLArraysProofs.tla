------------------------- MODULE OpenGLArraysProofs -------------------------
(***************************************************************************)
(* Theorems about OpenGLArrays.  ArraysPersist is inductive: there is one   *)
(* lemma for each operation of the bindings and of the shaders.             *)
(***************************************************************************)
EXTENDS OpenGLArrays, SequenceTheorems, TLAPS

LEMMA ConversionTyped ==
    ASSUME GLTypeOK, NEW i \in DOMAIN converting
    PROVE  /\ converting[i] \in [call : PointerCalls \cup {Uncached}, block : Blocks]
           /\ converting[i].block \in Blocks /\ converting[i].call \in PointerCalls \cup {Uncached}
<1> DEFINE C == [call : PointerCalls \cup {Uncached}, block : Blocks]
<1>1. converting[i] \in C
  <2>1. converting \in Seq(C) BY DEF GLTypeOK
  <2> HIDE DEF C
  <2>2. i \in 1..Len(converting) BY <2>1
  <2> QED BY <2>1, <2>2, ElementOfSeq
<1> QED BY <1>1

LEMMA CallPlaces ==
    /\ \A call \in PointerCalls \cup {Uncached} : PlaceOf(call) \in Places
    /\ PlaceOf(Uncached) = Uncached
<1>1. PlaceOf(Uncached) = Uncached BY DEF PlaceOf, Uncached
<1> QED BY <1>1 DEF Places

LEMMA GLInitial == GLInit => GLTypeOK /\ ArraysPersist
<1> SUFFICES ASSUME GLInit PROVE GLTypeOK /\ ArraysPersist OBVIOUS
<1> USE GLAssumption DEF GLInit, noMemory
<1>1. GLTypeOK BY DEF GLTypeOK
<1>2. ArraysPersist
  BY DEF ArraysPersist, PointersPersist, AttributesPersist, KeptAllocated, KeptOnce,
     PlacesApart, KeysApart, ConversionsApart, PlacesKeysApart, ConversionsOwn
<1> QED BY <1>1, <1>2

LEMMA PointAtOffsetStep ==
    ASSUME GLTypeOK, ArraysPersist, NEW call \in PointerCalls \cup {Uncached}, PointAtOffset(call)
    PROVE  GLTypeOK' /\ ArraysPersist'
<1> USE GLAssumption DEF ArraysPersist
<1>1. GLTypeOK' BY DEF GLTypeOK, PointAtOffset, GivenArray, shaderVars
<1>2. keeper' => PointersPersist' BY DEF GLTypeOK, PointersPersist, PointAtOffset, GivenArray
<1>3. AttributesPersist' /\ KeptAllocated' /\ KeptOnce'
  BY DEF AttributesPersist, KeptAllocated, KeptOnce, PlacesApart, KeysApart, ConversionsApart,
     PlacesKeysApart, ConversionsOwn, PointAtOffset, shaderVars
<1> QED BY <1>1, <1>2, <1>3

LEMMA PointAtBufferStep ==
    ASSUME UnitsApart, GLTypeOK, ArraysPersist, NEW call \in PointerCalls \cup {Uncached},
           NEW buffer \in Buffers, PointAtBuffer(call, buffer)
    PROVE  GLTypeOK' /\ ArraysPersist'
<1> USE GLAssumption DEF ArraysPersist
<1> DEFINE place == PlaceOf(call)
<1>0. place \in Places BY CallPlaces
<1>z. \A c \in PointerCalls : PlaceOf(c) \in Places /\ (PlaceOf(c) = place => c = call)
  BY CallPlaces DEF UnitsApart
<1>a. arrays' = [arrays EXCEPT ![place] = [Cleared(@) EXCEPT !.held = buffer]]
  BY <1>0 DEF PointAtBuffer
<1>b. Cleared(arrays[place]) \in [data : {NoArray}, held : Buffers \cup {NoArray}]
  BY <1>0 DEF GLTypeOK, Cleared
<1>c. /\ arrays' \in [Places -> [data : Blocks \cup {NoArray}, held : Buffers \cup {NoArray}]]
      /\ arrays'[place].data = NoArray /\ arrays'[place].held = buffer
      /\ \A p \in Places : p # place => arrays'[p] = arrays[p]
  BY <1>0, <1>a, <1>b DEF GLTypeOK
<1>1. GLTypeOK' BY <1>0, <1>c DEF GLTypeOK, PointAtBuffer, GivenArray, shaderVars
<1>2. keeper' => PointersPersist'
  BY <1>0, <1>z, <1>c DEF GLTypeOK, PointersPersist, PointAtBuffer, GivenArray
<1>3. AttributesPersist' BY DEF AttributesPersist, PointAtBuffer, shaderVars
<1>4. KeptAllocated'
  BY <1>0, <1>c DEF GLTypeOK, KeptAllocated, KeptOnce, PlacesApart, PlacesKeysApart, ConversionsOwn,
     PointAtBuffer, shaderVars
<1>5. PlacesApart' /\ PlacesKeysApart'
  BY <1>c DEF KeptOnce, PlacesApart, PlacesKeysApart, PointAtBuffer, shaderVars
<1>6. KeysApart' /\ ConversionsApart'
  BY DEF KeptOnce, KeysApart, ConversionsApart, PointAtBuffer, shaderVars
<1>7. ConversionsOwn'
  <2> SUFFICES ASSUME NEW i \in DOMAIN converting
               PROVE  /\ \A p \in Places : arrays'[p].data # converting[i].block
                      /\ \A k \in ShaderKeys : dict[k] # converting[i].block
    BY DEF ConversionsOwn, PointAtBuffer, shaderVars
  <2>1. converting[i].block \in Blocks BY ConversionTyped
  <2> QED BY <1>c, <2>1 DEF KeptOnce, ConversionsOwn
<1> QED BY <1>1, <1>2, <1>3, <1>4, <1>5, <1>6, <1>7 DEF KeptOnce

LEMMA PointAtNothingStep ==
    ASSUME UnitsApart, GLTypeOK, ArraysPersist, NEW call \in PointerCalls \cup {Uncached}, PointAtNothing(call)
    PROVE  GLTypeOK' /\ ArraysPersist'
<1> USE GLAssumption DEF ArraysPersist
<1> DEFINE place == PlaceOf(call)
<1>0. place \in Places BY CallPlaces
<1>z. \A c \in PointerCalls : PlaceOf(c) \in Places /\ (PlaceOf(c) = place => c = call)
  BY CallPlaces DEF UnitsApart
<1>a. arrays' = [arrays EXCEPT ![place] = Cleared(@)] BY <1>0 DEF PointAtNothing
<1>b. Cleared(arrays[place]) \in [data : {NoArray}, held : Buffers \cup {NoArray}]
  BY <1>0 DEF GLTypeOK, Cleared
<1>c. /\ arrays' \in [Places -> [data : Blocks \cup {NoArray}, held : Buffers \cup {NoArray}]]
      /\ arrays'[place].data = NoArray
      /\ \A p \in Places : p # place => arrays'[p] = arrays[p]
  BY <1>0, <1>a, <1>b DEF GLTypeOK
<1>1. GLTypeOK' BY <1>c DEF GLTypeOK, PointAtNothing, shaderVars
<1>2. keeper' => PointersPersist'
  BY <1>0, <1>z, <1>c DEF GLTypeOK, PointersPersist, PointAtNothing
<1>3. AttributesPersist' BY DEF AttributesPersist, PointAtNothing, shaderVars
<1>4. KeptAllocated'
  BY <1>0, <1>c DEF GLTypeOK, KeptAllocated, KeptOnce, PlacesApart, PlacesKeysApart, ConversionsOwn,
     PointAtNothing, shaderVars
<1>5. PlacesApart' /\ PlacesKeysApart'
  BY <1>c DEF KeptOnce, PlacesApart, PlacesKeysApart, PointAtNothing, shaderVars
<1>6. KeysApart' /\ ConversionsApart'
  BY DEF KeptOnce, KeysApart, ConversionsApart, PointAtNothing, shaderVars
<1>7. ConversionsOwn'
  <2> SUFFICES ASSUME NEW i \in DOMAIN converting
               PROVE  /\ \A p \in Places : arrays'[p].data # converting[i].block
                      /\ \A k \in ShaderKeys : dict[k] # converting[i].block
    BY DEF ConversionsOwn, PointAtNothing, shaderVars
  <2>1. converting[i].block \in Blocks BY ConversionTyped
  <2> QED BY <1>c, <2>1 DEF KeptOnce, ConversionsOwn
<1> QED BY <1>1, <1>2, <1>3, <1>4, <1>5, <1>6, <1>7 DEF KeptOnce

LEMMA BeginValuesStep ==
    ASSUME UnitsApart, GLTypeOK, ArraysPersist, NEW call \in PointerCalls \cup {Uncached}, BeginValues(call)
    PROVE  GLTypeOK' /\ ArraysPersist'
<1> USE GLAssumption DEF ArraysPersist
<1> DEFINE block == FreeBlock
<1> DEFINE place == PlaceOf(call)
<1>0. place \in Places BY CallPlaces
<1>z. \A c \in PointerCalls : PlaceOf(c) \in Places /\ (PlaceOf(c) = place => c = call)
  BY CallPlaces DEF UnitsApart
<1>a. arrays' = [arrays EXCEPT ![place] = Cleared(@)] BY <1>0 DEF BeginValues
<1>b. Cleared(arrays[place]) \in [data : {NoArray}, held : Buffers \cup {NoArray}]
  BY <1>0 DEF GLTypeOK, Cleared
<1>c. /\ arrays' \in [Places -> [data : Blocks \cup {NoArray}, held : Buffers \cup {NoArray}]]
      /\ arrays'[place].data = NoArray
      /\ \A p \in Places : p # place => arrays'[p] = arrays[p]
  BY <1>0, <1>a, <1>b DEF GLTypeOK
<1>d. block \in Blocks /\ block \notin blocks
  <2>1. \E b \in Blocks : b \notin blocks BY DEF BeginValues, GLTypeOK
  <2> QED BY <2>1 DEF FreeBlock
<1>e. blocks' = (blocks \ {arrays[place].data}) \cup {block} BY <1>0 DEF BeginValues
<1>f. converting' = Append(converting, [call |-> call, block |-> block]) BY DEF BeginValues
<1>g. UNCHANGED <<pointers, keeper, dict, attributes, replaced>> /\ stale' = stale \cup ({call} \cap PointerCalls)
  BY DEF BeginValues, shaderVars
<1> HIDE DEF block
<1>h. converting' \in Seq([call : PointerCalls \cup {Uncached}, block : Blocks])
  BY <1>d, <1>f DEF GLTypeOK
<1>i. /\ DOMAIN converting' = DOMAIN converting \cup {Len(converting) + 1}
      /\ converting'[Len(converting) + 1].block = block
      /\ \A i \in DOMAIN converting : converting'[i] = converting[i] /\ i # Len(converting) + 1
  BY <1>f DEF GLTypeOK
<1>1. GLTypeOK' BY <1>c, <1>d, <1>e, <1>g, <1>h DEF GLTypeOK
<1>2. keeper' => PointersPersist' BY <1>0, <1>z, <1>c, <1>g DEF GLTypeOK, PointersPersist
<1>3. AttributesPersist' BY <1>g DEF AttributesPersist
<1>4. KeptAllocated'
  <2>1. \A p \in Places : arrays'[p].data \in blocks' \cup {NoArray}
    BY <1>0, <1>c, <1>e DEF KeptAllocated, KeptOnce, PlacesApart
  <2>2. \A k \in ShaderKeys : dict'[k] \in blocks' \cup {NoArray}
    BY <1>0, <1>e, <1>g DEF KeptAllocated, KeptOnce, PlacesKeysApart
  <2>3. \A i \in DOMAIN converting : converting[i].block \in blocks'
    BY <1>0, <1>e DEF KeptAllocated, KeptOnce, ConversionsOwn
  <2>4. \A i \in DOMAIN converting' : converting'[i].block \in blocks' BY <1>e, <1>i, <2>3
  <2> QED BY <2>1, <2>2, <2>4 DEF KeptAllocated
<1>5. PlacesApart' /\ PlacesKeysApart'
  BY <1>c, <1>g DEF KeptOnce, PlacesApart, PlacesKeysApart
<1>6. KeysApart' BY <1>g DEF KeptOnce, KeysApart
<1>7. \A i \in DOMAIN converting : converting[i].block # block /\ converting[i].block \in Blocks
  BY <1>d, ConversionTyped DEF KeptAllocated
<1>8. ConversionsApart' BY <1>i, <1>7 DEF KeptOnce, ConversionsApart
<1>9. ConversionsOwn'
  <2>1. \A p \in Places : arrays[p].data # block BY <1>d DEF KeptAllocated
  <2>2. \A k \in ShaderKeys : dict[k] # block BY <1>d DEF KeptAllocated
  <2> SUFFICES ASSUME NEW i \in DOMAIN converting'
               PROVE  /\ \A p \in Places : arrays'[p].data # converting'[i].block
                      /\ \A k \in ShaderKeys : dict[k] # converting'[i].block
    BY <1>g DEF ConversionsOwn
  <2>3. CASE i = Len(converting) + 1 BY <1>c, <1>d, <1>i, <2>1, <2>2, <2>3
  <2>4. CASE i \in DOMAIN converting BY <1>c, <1>i, <1>7, <2>4 DEF KeptOnce, ConversionsOwn
  <2> QED BY <1>i, <2>3, <2>4
<1> QED BY <1>1, <1>2, <1>3, <1>4, <1>5, <1>6, <1>8, <1>9 DEF KeptOnce

LEMMA EndValuesStep ==
    ASSUME UnitsApart, GLTypeOK, ArraysPersist, NEW ok \in BOOLEAN, EndValues(ok)
    PROVE  GLTypeOK' /\ ArraysPersist'
<1> USE GLAssumption DEF ArraysPersist
<1> DEFINE n    == Len(converting)
           last == converting[n]
           place == PlaceOf(last.call)
<1>a. n \in Nat \ {0} /\ n \in DOMAIN converting /\ converting' = SubSeq(converting, 1, n - 1)
  BY DEF EndValues, GLTypeOK
<1>b. last.block \in Blocks /\ last.call \in PointerCalls \cup {Uncached}
  BY <1>a, ConversionTyped
<1>c. /\ place \in Places /\ place = PlaceOf(last.call)
      /\ \A c \in PointerCalls : PlaceOf(c) \in Places /\ (PlaceOf(c) = place => c = last.call)
  BY <1>b, CallPlaces DEF UnitsApart
<1>d. /\ converting' \in Seq([call : PointerCalls \cup {Uncached}, block : Blocks])
      /\ DOMAIN converting' \subseteq DOMAIN converting \ {n}
      /\ \A i \in DOMAIN converting' : converting'[i] = converting[i]
  <2> DEFINE C == [call : PointerCalls \cup {Uncached}, block : Blocks]
  <2>1. converting \in Seq(C) BY DEF GLTypeOK
  <2>2. \A i \in 1..(n - 1) : converting[i] \in C BY <1>a, <2>1, ConversionTyped
  <2> HIDE DEF C, n
  <2>3. /\ converting' \in Seq(C) /\ Len(converting') = n - 1
        /\ \A i \in 1..(n - 1) : converting'[i] = converting[i]
    BY <1>a, <2>2, SubSeqProperties
  <2>4. DOMAIN converting' = 1..(n - 1) /\ DOMAIN converting = 1..n
    BY <1>a, <2>1, <2>3 DEF n
  <2> QED BY <1>a, <2>3, <2>4 DEF C
<1>e. UNCHANGED <<keeper, dict, attributes, replaced>> BY DEF EndValues, shaderVars
<1>f. last.block \in blocks BY <1>a DEF KeptAllocated
<1>g. /\ \A p \in Places : arrays[p].data # last.block
      /\ \A k \in ShaderKeys : dict[k] # last.block
      /\ \A i \in DOMAIN converting' : converting'[i].block # last.block
  BY <1>a, <1>d DEF KeptOnce, ConversionsOwn, ConversionsApart
<1>1. CASE ok
  <2>a. /\ arrays' = [arrays EXCEPT ![place].data = last.block]
        /\ pointers' = GivenArray(last.call, last.block)
        /\ stale' = stale \ {last.call} /\ UNCHANGED blocks
    BY <1>1, <1>c DEF EndValues
  <2> HIDE DEF place, last, n
  <2>b. /\ arrays' \in [Places -> [data : Blocks \cup {NoArray}, held : Buffers \cup {NoArray}]]
        /\ arrays'[place].data = last.block
        /\ \A p \in Places : p # place => arrays'[p] = arrays[p]
    BY <1>b, <1>c, <2>a DEF GLTypeOK
  <2>1. GLTypeOK' BY <1>b, <1>d, <1>e, <2>a, <2>b DEF GLTypeOK, GivenArray
  <2>2. keeper' => PointersPersist'
    BY <1>b, <1>c, <1>e, <2>a, <2>b DEF GLTypeOK, PointersPersist, GivenArray
  <2>3. AttributesPersist' BY <1>e DEF AttributesPersist
  <2>4. KeptAllocated' BY <1>d, <1>e, <1>f, <2>a, <2>b DEF KeptAllocated
  <2>5. PlacesApart' BY <1>g, <2>b DEF KeptOnce, PlacesApart
  <2>6. PlacesKeysApart' BY <1>e, <1>g, <2>b DEF KeptOnce, PlacesKeysApart
  <2>7. KeysApart' BY <1>e DEF KeptOnce, KeysApart
  <2>8. ConversionsApart' BY <1>d DEF KeptOnce, ConversionsApart
  <2>9. ConversionsOwn' BY <1>d, <1>e, <1>g, <2>b DEF KeptOnce, ConversionsOwn
  <2> QED BY <2>1, <2>2, <2>3, <2>4, <2>5, <2>6, <2>7, <2>8, <2>9 DEF KeptOnce
<1>2. CASE ~ok
  <2>a. blocks' = blocks \ {last.block} /\ UNCHANGED <<arrays, pointers, stale>>
    BY <1>2 DEF EndValues
  <2> HIDE DEF place, last, n
  <2>1. GLTypeOK' BY <1>d, <1>e, <2>a DEF GLTypeOK
  <2>2. keeper' => PointersPersist' BY <1>e, <2>a DEF PointersPersist
  <2>3. AttributesPersist' BY <1>e DEF AttributesPersist
  <2>4. KeptAllocated' BY <1>d, <1>e, <1>g, <2>a DEF KeptAllocated
  <2>5. PlacesApart' /\ PlacesKeysApart' /\ KeysApart'
    BY <1>e, <2>a DEF KeptOnce, PlacesApart, PlacesKeysApart, KeysApart
  <2>6. ConversionsApart' /\ ConversionsOwn'
    BY <1>d, <1>e, <2>a DEF KeptOnce, ConversionsApart, ConversionsOwn
  <2> QED BY <2>1, <2>2, <2>3, <2>4, <2>5, <2>6 DEF KeptOnce
<1> QED BY <1>1, <1>2

LEMMA CacheClearedStep ==
    ASSUME GLTypeOK, ArraysPersist, CacheCleared,
           pointers' \in [PointerCalls -> Blocks \cup Buffers \cup {NoArray}],
           stale' \subseteq PointerCalls
    PROVE  GLTypeOK' /\ AttributesPersist' /\ KeptAllocated' /\ KeptOnce'
<1> USE GLAssumption DEF ArraysPersist, CacheCleared, shaderVars, noMemory
<1>1. GLTypeOK' BY DEF GLTypeOK
<1>2. AttributesPersist' BY DEF AttributesPersist
<1>3. KeptAllocated' BY DEF KeptAllocated, KeptOnce, PlacesKeysApart
<1>4. KeptOnce'
  BY DEF KeptOnce, PlacesApart, KeysApart, ConversionsApart, PlacesKeysApart, ConversionsOwn
<1> QED BY <1>1, <1>2, <1>3, <1>4

LEMMA BindingsGoneStep ==
    ASSUME GLTypeOK, ArraysPersist, BindingsGone
    PROVE  GLTypeOK' /\ ArraysPersist'
<1>1. CacheCleared /\ UNCHANGED <<pointers, stale>> /\ ~ keeper' BY DEF BindingsGone, CacheCleared
<1>2. /\ pointers' \in [PointerCalls -> Blocks \cup Buffers \cup {NoArray}]
      /\ stale' \subseteq PointerCalls
  BY <1>1 DEF GLTypeOK
<1> QED BY <1>1, <1>2, CacheClearedStep DEF ArraysPersist

LEMMA ContextGoneStep ==
    ASSUME GLTypeOK, ArraysPersist, ContextGone
    PROVE  GLTypeOK' /\ ArraysPersist'
<1>1. CacheCleared /\ pointers' = [call \in PointerCalls |-> NoArray] /\ stale' = {}
  BY DEF ContextGone
<1>2. PointersPersist' BY <1>1 DEF PointersPersist
<1>3. /\ pointers' \in [PointerCalls -> Blocks \cup Buffers \cup {NoArray}]
      /\ stale' \subseteq PointerCalls
  BY <1>1
<1> QED BY <1>1, <1>2, <1>3, CacheClearedStep DEF ArraysPersist

LEMMA SetShaderArrayStep ==
    ASSUME GLTypeOK, ArraysPersist, NEW use \in {"attribute", "uniform"}, NEW key \in ShaderKeys,
           NEW items, SetShaderArray(use, key, items)
    PROVE  GLTypeOK' /\ ArraysPersist'
<1> USE GLAssumption DEF ArraysPersist
<1> DEFINE block == FreeBlock
<1>a. UNCHANGED <<arrays, converting, pointers, stale, keeper>> BY DEF SetShaderArray, valuesVars
<1>b. block \in Blocks /\ block \notin blocks
  <2>1. \E b \in Blocks : b \notin blocks BY DEF SetShaderArray, GLTypeOK
  <2> QED BY <2>1 DEF FreeBlock
<1>1. CASE Convertible(items)
  <2>a. /\ dict' = [dict EXCEPT ![key] = block]
        /\ blocks' = (blocks \ {dict[key]}) \cup {block}
        /\ \/ attributes' = [attributes EXCEPT ![key] = block] /\ replaced' = replaced \ {key}
           \/ UNCHANGED attributes /\ replaced' = replaced \cup {key}
    BY <1>1 DEF SetShaderArray
  <2> HIDE DEF block
  <2>b. \A i \in DOMAIN converting : converting[i].block # block /\ converting[i].block \in Blocks
    BY <1>b, ConversionTyped DEF KeptAllocated
  <2>1. GLTypeOK' BY <1>a, <1>b, <2>a DEF GLTypeOK
  <2>2. keeper' => PointersPersist' BY <1>a DEF PointersPersist
  <2>3. AttributesPersist' BY <2>a DEF GLTypeOK, AttributesPersist
  <2>4. KeptAllocated'
    <3>1. \A p \in Places : arrays[p].data \in blocks' \cup {NoArray}
      BY <2>a DEF KeptAllocated, KeptOnce, PlacesKeysApart
    <3>2. \A k \in ShaderKeys : dict'[k] \in blocks' \cup {NoArray}
      BY <2>a DEF GLTypeOK, KeptAllocated, KeptOnce, KeysApart
    <3>3. \A i \in DOMAIN converting : converting[i].block \in blocks'
      BY <2>a, <2>b DEF KeptAllocated, KeptOnce, ConversionsOwn
    <3> QED BY <1>a, <3>1, <3>2, <3>3 DEF KeptAllocated
  <2>5. PlacesApart' /\ ConversionsApart'
    BY <1>a DEF KeptOnce, PlacesApart, ConversionsApart
  <2>6. KeysApart' BY <1>b, <2>a DEF GLTypeOK, KeptOnce, KeysApart, KeptAllocated
  <2>7. PlacesKeysApart' BY <1>a, <1>b, <2>a DEF GLTypeOK, KeptOnce, PlacesKeysApart, KeptAllocated
  <2>8. ConversionsOwn' BY <1>a, <2>a, <2>b DEF GLTypeOK, KeptOnce, ConversionsOwn
  <2> QED BY <2>1, <2>2, <2>3, <2>4, <2>5, <2>6, <2>7, <2>8 DEF KeptOnce
<1>2. CASE ~Convertible(items)
  <2>a. UNCHANGED <<dict, blocks, attributes, replaced>> BY <1>2 DEF SetShaderArray
  <2> QED
    BY <1>a, <2>a DEF GLTypeOK, PointersPersist, AttributesPersist, KeptAllocated, KeptOnce,
       PlacesApart, KeysApart, ConversionsApart, PlacesKeysApart, ConversionsOwn
<1> QED BY <1>1, <1>2

LEMMA ShaderGoneStep ==
    ASSUME GLTypeOK, ArraysPersist, ShaderGone
    PROVE  GLTypeOK' /\ ArraysPersist'
<1> USE GLAssumption DEF ArraysPersist, ShaderGone, valuesVars
<1>1. GLTypeOK' BY DEF GLTypeOK
<1>2. keeper' => PointersPersist' BY DEF PointersPersist
<1>3. AttributesPersist' BY DEF AttributesPersist
<1>4. KeptAllocated' BY DEF KeptAllocated, KeptOnce, PlacesKeysApart, ConversionsOwn
<1>5. PlacesApart' /\ KeysApart' /\ ConversionsApart' /\ PlacesKeysApart'
  BY DEF KeptOnce, PlacesApart, KeysApart, ConversionsApart, PlacesKeysApart
<1>6. ConversionsOwn'
  <2>1. \A i \in DOMAIN converting : converting[i].block \in Blocks BY ConversionTyped
  <2> QED BY <2>1 DEF KeptOnce, ConversionsOwn
<1> QED BY <1>1, <1>2, <1>3, <1>4, <1>5, <1>6 DEF KeptOnce

(***************************************************************************)
(* What is made for a shader.                                              *)
(***************************************************************************)

LEMMA RowsApart ==
    ASSUME NEW i \in Nat \ {0}, NEW k \in Nat \ {0}, NEW dim \in Nat, NEW at \in Nat,
           at - (i - 1) * dim \in 1..dim, at - (k - 1) * dim \in 1..dim
    PROVE  k = i
<1>1. ASSUME NEW a \in Nat, NEW b \in Nat, a <= b PROVE a * dim <= b * dim
  <2>1. b - a \in Nat /\ (b - a) * dim \in Nat BY <1>1
  <2>2. b * dim = a * dim + (b - a) * dim BY <1>1
  <2> QED BY <2>1, <2>2
<1>2. i * dim = (i - 1) * dim + dim /\ k * dim = (k - 1) * dim + dim OBVIOUS
<1>3. CASE i <= k - 1
  <2>1. i * dim <= (k - 1) * dim BY <1>1, <1>3
  <2> QED BY <1>2, <2>1
<1>4. CASE k <= i - 1
  <2>1. k * dim <= (i - 1) * dim BY <1>1, <1>4
  <2> QED BY <1>2, <2>1
<1> QED BY <1>3, <1>4

LEMMA RowsInOrder ==
    ASSUME NEW use, NEW items \in Seq(ShaderItems), Convertible(items),
           use # "uniform" \/ items[1].type # "floats",
           NEW i \in DOMAIN items, NEW j \in 1..Len(items[1].values)
    PROVE  Made(use, items)[(i - 1) * Len(items[1].values) + j] = items[i].values[j]
<1> DEFINE dim == Len(items[1].values)
           n   == Len(items)
           at  == (i - 1) * dim + j
<1>1. n \in Nat /\ DOMAIN items = 1..n /\ 1 \in DOMAIN items OBVIOUS
<1>2. items[1] \in ShaderItems BY <1>1, ElementOfSeq
<1>3. dim \in Nat BY <1>2, GLAssumption
<1>4. \A k \in DOMAIN items : Before(use, items, k) = k - 1 BY DEF Before
<1> DEFINE Writes(k, a) == a - Before(use, items, k) * dim \in 1..dim
<1>5. i \in 1..n /\ j \in 1..dim BY <1>1
<1> HIDE DEF dim, n
<1>6. at \in 1..(n * dim)
  <2> DEFINE before == (i - 1) * dim
             after  == (n - i) * dim
             all    == n * dim
  <2>1. i - 1 \in Nat /\ n - i \in Nat BY <1>1, <1>5
  <2>2. before \in Nat /\ after \in Nat /\ all \in Nat BY <1>1, <1>3, <2>1
  <2>3. all = before + dim + after BY <1>1, <1>3, <1>5
  <2>4. at = before + j OBVIOUS
  <2> HIDE DEF before, after, all, at
  <2>5. at \in 1..all BY <1>3, <1>5, <2>2, <2>3, <2>4
  <2> QED BY <2>5 DEF all
<1>7. at - (i - 1) * dim = j
  <2>1. (i - 1) * dim \in Int BY <1>3, <1>5
  <2> QED BY <1>3, <1>5, <2>1
<1> HIDE DEF at
<1>8. Writes(i, at) BY <1>4, <1>5, <1>7
<1>9. ASSUME NEW k \in DOMAIN items, Writes(k, at) PROVE k = i
  <2>1. at - (k - 1) * dim \in 1..dim BY <1>4, <1>9
  <2>2. k \in Nat \ {0} /\ i \in Nat \ {0} /\ at \in Nat BY <1>1, <1>3, <1>5, <1>6
  <2>3. at - (i - 1) * dim \in 1..dim BY <1>5, <1>7
  <2> QED BY <1>3, <2>1, <2>2, <2>3, RowsApart
<1> DEFINE P(k) == Writes(k, at) /\ \A l \in DOMAIN items : Writes(l, at) => l <= k
           row  == CHOOSE k \in DOMAIN items : P(k)
<1>10. row = i
  <2>1. P(i) BY <1>1, <1>5, <1>8, <1>9
  <2>2. \A k \in DOMAIN items : P(k) => k = i BY <1>9
  <2> HIDE DEF P
  <2> QED BY <2>1, <2>2
<1>11. Made(use, items)[at] = items[row].values[at - Before(use, items, row) * dim]
  BY <1>6, <1>8 DEF Made, dim, n
<1> QED BY <1>4, <1>7, <1>10, <1>11 DEF at, dim

\* The last array made for a shader was made of items that convert.
MadeIsRight ==
    made.use # "none" =>
      /\ made.items \in Seq(ShaderItems) /\ Convertible(made.items)
      /\ made.got = Made(made.use, made.items)

LEMMA MadeInOrder == MadeIsRight => ArraysMade
<1> SUFFICES ASSUME MadeIsRight, made.use # "none",
                    made.use # "uniform" \/ made.items[1].type # "floats",
                    NEW i \in DOMAIN made.items, NEW j \in 1..Len(made.items[1].values)
             PROVE  made.got[(i - 1) * Len(made.items[1].values) + j] = made.items[i].values[j]
  BY DEF ArraysMade, InOrder
<1>1. /\ made.items \in Seq(ShaderItems) /\ Convertible(made.items)
      /\ made.got = Made(made.use, made.items)
  BY DEF MadeIsRight
<1> QED BY <1>1, RowsInOrder

(***************************************************************************)
(* The theorem.                                                            *)
(***************************************************************************)

GLIInv == GLTypeOK /\ ArraysPersist /\ MadeIsRight

LEMMA ValuesNextStep ==
    ASSUME UnitsApart, GLTypeOK, ArraysPersist, ValuesNext
    PROVE  GLTypeOK' /\ ArraysPersist' /\ UNCHANGED made
<1>1. ASSUME NEW call \in PointerCalls \cup {Uncached}, PointAtOffset(call)
      PROVE  GLTypeOK' /\ ArraysPersist' /\ UNCHANGED made
  BY <1>1, PointAtOffsetStep DEF PointAtOffset, shaderVars
<1>2. ASSUME NEW call \in PointerCalls \cup {Uncached}, PointAtNothing(call)
      PROVE  GLTypeOK' /\ ArraysPersist' /\ UNCHANGED made
  BY <1>2, PointAtNothingStep DEF PointAtNothing, shaderVars
<1>3. ASSUME NEW call \in PointerCalls \cup {Uncached}, BeginValues(call)
      PROVE  GLTypeOK' /\ ArraysPersist' /\ UNCHANGED made
  BY <1>3, BeginValuesStep DEF BeginValues, shaderVars
<1>4. ASSUME NEW call \in PointerCalls \cup {Uncached}, NEW buffer \in Buffers,
             PointAtBuffer(call, buffer)
      PROVE  GLTypeOK' /\ ArraysPersist' /\ UNCHANGED made
  BY <1>4, PointAtBufferStep DEF PointAtBuffer, shaderVars
<1>5. ASSUME NEW ok \in BOOLEAN, EndValues(ok)
      PROVE  GLTypeOK' /\ ArraysPersist' /\ UNCHANGED made
  BY <1>5, EndValuesStep DEF EndValues, shaderVars
<1>6. CASE BindingsGone BY <1>6, BindingsGoneStep DEF BindingsGone, CacheCleared, shaderVars
<1>7. CASE ContextGone BY <1>7, ContextGoneStep DEF ContextGone, CacheCleared, shaderVars
<1> QED BY <1>1, <1>2, <1>3, <1>4, <1>5, <1>6, <1>7 DEF ValuesNext

LEMMA ShaderNextStep ==
    ASSUME GLIInv, ShaderNext
    PROVE  GLIInv'
<1>1. CASE ShaderGone
  BY <1>1, ShaderGoneStep DEF GLIInv, ShaderGone, MadeIsRight, unmade
<1>2. ASSUME NEW use \in {"attribute", "uniform"}, NEW key \in ShaderKeys, NEW n \in 0..MaxItems,
             NEW items \in [1..n -> ShaderItems], SetShaderArray(use, key, items)
      PROVE  GLIInv'
  <2>1. GLTypeOK' /\ ArraysPersist' BY <1>2, SetShaderArrayStep DEF GLIInv
  <2>2. items \in Seq(ShaderItems) BY GLAssumption
  <2>3. MadeIsRight' BY <1>2, <2>2 DEF SetShaderArray, MadeIsRight, unmade
  <2> QED BY <2>1, <2>3 DEF GLIInv
<1> QED BY <1>1, <1>2 DEF ShaderNext

\* Whatever is converted, freed or replaced, by however many conversions in each
\* other, nothing is freed that is kept, nor twice, and the arrays are those that
\* ArraysRight says (qpyopengl_value_array.cpp 79-80, qpyopengl_attribute_array.cpp
\* 38-39): OpenGL's while the wrapper of the context keeps the bindings, and but for
\* a failed call; a shader's but for uniform values.  That pointers have an array
\* each is a hypothesis, as the units of glTexCoordPointer() share one.
THEOREM ArraysAreRight ==
    ASSUME UnitsApart
    PROVE  GLSpec => []ArraysRight
<1>1. GLInit => GLIInv BY GLInitial DEF GLIInv, MadeIsRight, GLInit, unmade
<1>2. GLIInv /\ [GLNext]_glVars => GLIInv'
  <2> SUFFICES ASSUME GLIInv, [GLNext]_glVars PROVE GLIInv' OBVIOUS
  <2>1. CASE ValuesNext BY <2>1, ValuesNextStep DEF GLIInv, MadeIsRight
  <2>2. CASE ShaderNext BY <2>2, ShaderNextStep
  <2>3. CASE UNCHANGED glVars
    BY <2>3 DEF glVars, valuesVars, shaderVars, GLIInv, MadeIsRight, GLTypeOK, ArraysPersist,
       PointersPersist, AttributesPersist, KeptAllocated, KeptOnce, PlacesApart, KeysApart,
       ConversionsApart, PlacesKeysApart, ConversionsOwn
  <2> QED BY <2>1, <2>2, <2>3 DEF GLNext
<1>3. GLIInv => ArraysRight BY MadeInOrder DEF GLIInv, ArraysRight
<1> QED BY <1>1, <1>2, <1>3, PTL DEF GLSpec
=============================================================================
