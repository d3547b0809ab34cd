----------------------------- MODULE QmlProofs ------------------------------
(***************************************************************************)
(* Proofs about QML for any values of the constants.  QmlProxies: Python   *)
(* and QML see the same objects, every listener hears a signal once and a  *)
(* type number stands for the type it was given to.  QmlLists: what QML is *)
(* told of a list is so, and the list data keeps its owner.                *)
(***************************************************************************)
EXTENDS QmlProxies, QmlLists, SequenceTheorems, TLAPS

-----------------------------------------------------------------------------
(* QmlProxies.                                                             *)

\* Nothing is registered or created in the beginning.
LEMMA QmlInitial == QmlInit => QmlIInv
BY QmlAssumption
   DEF QmlInit, QmlIInv, QmlTypeOK, ProxiesExist, ProxyAndProxied, ProxiedIsMade, MakingIsMade,
       MakerKnows, TypeAsked, ListenersRelayed, DeferredExist, CallsArrive, ParsedAnew,
       IsProxy, ParserStages, Unconnected, Kinds

\* A type is registered, or not, under the next number.
LEMMA RegisterTypeStep ==
    ASSUME QmlIInv, NEW t \in PyQmlTypes, NEW accepted \in BOOLEAN, RegisterType(t, accepted)
    PROVE  QmlIInv'
<1> USE QmlAssumption DEF QmlIInv
<1>1. QmlTypeOK' BY DEF QmlTypeOK, ParserStages, Kinds, Unconnected, RegisterType, TypeNr, KindOf
<1>2. ProxiesExist'
  BY DEF QmlTypeOK, ProxiesExist, ProxyAndProxied, ProxiedIsMade, MakingIsMade, IsProxy,
     Kinds, RegisterType, TypeNr, KindOf
<1>3. ProxiedIsMade'
  BY DEF QmlTypeOK, ProxyAndProxied, ProxiedIsMade, MakingIsMade, MakerKnows, IsProxy,
     Kinds, RegisterType, TypeNr, KindOf
<1>4. MakingIsMade'
  BY DEF QmlTypeOK, ProxyAndProxied, ProxiedIsMade, MakingIsMade, MakerKnows, IsProxy,
     Kinds, RegisterType, TypeNr, KindOf
<1>5. MakerKnows'
  BY DEF QmlTypeOK, ProxyAndProxied, ProxiedIsMade, MakingIsMade, MakerKnows, IsProxy,
     Kinds, RegisterType, TypeNr, KindOf
<1>6. TypeAsked' BY DEF QmlTypeOK, TypeAsked, Kinds, RegisterType, TypeNr, KindOf
<1>7. ListenersRelayed'
  BY DEF QmlTypeOK, ProxyAndProxied, ProxiedIsMade, MakingIsMade, ListenersRelayed,
     Unconnected, IsProxy, Kinds, RegisterType, TypeNr, KindOf
<1>8. DeferredExist'
  BY DEF QmlTypeOK, ProxyAndProxied, ProxiedIsMade, DeferredExist, IsProxy, Kinds,
     RegisterType, TypeNr, KindOf
<1>9. CallsArrive'
  BY DEF QmlTypeOK, CallsArrive, ParsedAnew, ProxyAndProxied, ProxiedIsMade, MakingIsMade,
     MakerKnows, IsProxy, Kinds, RegisterType, TypeNr, KindOf
<1>10. ParsedAnew'
  BY DEF QmlTypeOK, ParsedAnew, ProxyAndProxied, ProxiedIsMade, MakingIsMade, MakerKnows,
     IsProxy, Kinds, RegisterType, TypeNr, KindOf
<1> QED
  BY <1>1, <1>2, <1>3, <1>4, <1>5, <1>6, <1>7, <1>8, <1>9, <1>10 DEF ProxyAndProxied

\* A proxy and its Python object take two free addresses.
LEMMA NewQmlProxyStep ==
    ASSUME QmlIInv, NEW a \in QObjects, NEW p \in QObjects, NEW r \in registered, NewQmlProxy(a, p, r)
    PROVE  QmlIInv'
<1> USE QmlAssumption DEF QmlIInv
<1>1. QmlTypeOK'
  <2>1. r[1] \in Kinds /\ r[3] \in PyQmlTypes /\ pyqtTypes[r[1]][r[2]] \in PyQmlTypes
    BY DEF QmlTypeOK, TypeAsked
  <2>2. <<r[3], pyqtTypes[r[1]][r[2]]>> \in PyQmlTypes \X PyQmlTypes BY <2>1
  <2>3. madeOf' \in [QObjects -> {<< >>} \cup (PyQmlTypes \X PyQmlTypes)]
    BY <2>2 DEF QmlTypeOK, NewQmlProxy
  <2>4. qobject' \in [QObjects -> {"none", "plain", "python"} \cup Kinds]
    BY <2>1 DEF QmlTypeOK, NewQmlProxy
  <2>5. proxies' \in [Kinds -> SUBSET QObjects] BY <2>1 DEF QmlTypeOK, NewQmlProxy
  <2> QED BY <2>3, <2>4, <2>5 DEF QmlTypeOK, NewQmlProxy
<1>2. ProxiesExist'
  BY DEF QmlTypeOK, ProxiesExist, ProxyAndProxied, ProxiedIsMade, MakingIsMade, IsProxy,
     Kinds, NewQmlProxy
<1>3. ProxiedIsMade'
  BY DEF QmlTypeOK, ProxyAndProxied, ProxiedIsMade, MakingIsMade, MakerKnows, IsProxy,
     Kinds, NewQmlProxy
<1>4. MakingIsMade'
  BY DEF QmlTypeOK, ProxyAndProxied, ProxiedIsMade, MakingIsMade, MakerKnows, IsProxy,
     Kinds, NewQmlProxy
<1>5. MakerKnows'
  <2> SUFFICES ASSUME NEW q \in QObjects, maker'[q] # NoQObject
               PROVE  qobject'[q] = "python" /\ (proxied'[maker'[q]] = q \/ making'[maker'[q]] = q)
    BY DEF MakerKnows
  <2>1. CASE q = p BY <2>1 DEF QmlTypeOK, NewQmlProxy
  <2>2. CASE q # p
    <3>1. maker'[q] = maker[q] /\ qobject[q] = "python"
      BY <2>2 DEF QmlTypeOK, ProxyAndProxied, ProxiedIsMade, MakingIsMade, MakerKnows,
         IsProxy, Kinds, NewQmlProxy
    <3>2. ASSUME maker[q] = a PROVE FALSE
      <4>1. proxied[a] = q \/ making[a] = q BY <3>2 DEF ProxyAndProxied, MakerKnows
      <4>2. IsProxy(a) BY <4>1 DEF ProxyAndProxied, ProxiedIsMade, MakingIsMade
      <4> QED BY <4>2 DEF NewQmlProxy, IsProxy, Kinds
    <3>3. q # a BY <3>1 DEF NewQmlProxy
    <3> QED
      BY <2>2, <3>1, <3>2, <3>3 DEF QmlTypeOK, ProxyAndProxied, MakerKnows, NewQmlProxy
  <2> QED BY <2>1, <2>2
<1>6. TypeAsked' BY DEF QmlTypeOK, TypeAsked, Kinds, NewQmlProxy
<1>7. ListenersRelayed'
  <2> SUFFICES ASSUME NEW b \in QObjects, NEW s \in QmlSignals, listeners[b][s] > 0
               PROVE  /\ qobject'[b] \in Kinds /\ making'[b] = NoQObject
                      /\ proxied[b] # NoQObject => relays[b][s] = 1
    BY DEF ListenersRelayed, IsProxy, NewQmlProxy
  <2>1. /\ qobject[b] \in Kinds /\ making[b] = NoQObject
        /\ proxied[b] # NoQObject => relays[b][s] = 1
    BY DEF ListenersRelayed, IsProxy
  <2>2. b # a /\ b # p BY <2>1 DEF NewQmlProxy, Kinds
  <2>3. qobject'[b] = qobject[b] /\ making'[b] = making[b]
    BY <2>2 DEF NewQmlProxy, QmlTypeOK
  <2> QED BY <2>1, <2>3
<1>8. DeferredExist'
  BY DEF QmlTypeOK, ProxyAndProxied, ProxiedIsMade, DeferredExist, IsProxy, Kinds,
     NewQmlProxy
<1>9. CallsArrive'
  BY DEF QmlTypeOK, CallsArrive, ParsedAnew, ProxyAndProxied, ProxiedIsMade, MakingIsMade,
     MakerKnows, IsProxy, Kinds, NewQmlProxy
<1>10. ParsedAnew'
  BY DEF QmlTypeOK, ParsedAnew, ProxyAndProxied, ProxiedIsMade, MakingIsMade, MakerKnows,
     IsProxy, Kinds, NewQmlProxy
<1> QED
  BY <1>1, <1>2, <1>3, <1>4, <1>5, <1>6, <1>7, <1>8, <1>9, <1>10 DEF ProxyAndProxied

\* The proxy stands for the object from now on.
LEMMA PyObjectCreatedStep ==
    ASSUME QmlIInv, NEW a \in QObjects, PyObjectCreated(a)
    PROVE  QmlIInv'
<1> USE QmlAssumption DEF QmlIInv
<1>1. QmlTypeOK' BY DEF QmlTypeOK, ParserStages, Kinds, Unconnected, PyObjectCreated
<1>2. ProxiesExist'
  BY DEF QmlTypeOK, ProxiesExist, ProxyAndProxied, ProxiedIsMade, MakingIsMade, IsProxy,
     Kinds, PyObjectCreated
<1>3. ProxiedIsMade'
  BY DEF QmlTypeOK, ProxyAndProxied, ProxiedIsMade, MakingIsMade, MakerKnows, IsProxy,
     Kinds, PyObjectCreated
<1>4. MakingIsMade'
  BY DEF QmlTypeOK, ProxyAndProxied, ProxiedIsMade, MakingIsMade, MakerKnows, IsProxy,
     Kinds, PyObjectCreated
<1>5. MakerKnows'
  BY DEF QmlTypeOK, ProxyAndProxied, ProxiedIsMade, MakingIsMade, MakerKnows, IsProxy,
     Kinds, PyObjectCreated
<1>6. TypeAsked' BY DEF QmlTypeOK, TypeAsked, Kinds, PyObjectCreated
<1>7. ListenersRelayed'
  BY DEF QmlTypeOK, ProxyAndProxied, ProxiedIsMade, MakingIsMade, ListenersRelayed,
     Unconnected, IsProxy, Kinds, PyObjectCreated
<1>8. DeferredExist'
  BY DEF QmlTypeOK, ProxyAndProxied, ProxiedIsMade, DeferredExist, IsProxy, Kinds,
     PyObjectCreated
<1>9. CallsArrive'
  BY DEF QmlTypeOK, CallsArrive, ParsedAnew, ProxyAndProxied, ProxiedIsMade, MakingIsMade,
     MakerKnows, IsProxy, Kinds, PyObjectCreated
<1>10. ParsedAnew'
  BY DEF QmlTypeOK, ParsedAnew, ProxyAndProxied, ProxiedIsMade, MakingIsMade, MakerKnows,
     IsProxy, Kinds, PyObjectCreated
<1> QED
  BY <1>1, <1>2, <1>3, <1>4, <1>5, <1>6, <1>7, <1>8, <1>9, <1>10 DEF ProxyAndProxied

\* The proxy stands for nothing.
LEMMA PyObjectFailsStep ==
    ASSUME QmlIInv, NEW a \in QObjects, PyObjectFails(a)
    PROVE  QmlIInv'
<1> USE QmlAssumption DEF QmlIInv
<1>1. QmlTypeOK' BY DEF QmlTypeOK, ParserStages, Kinds, Unconnected, PyObjectFails
<1>2. ProxiesExist'
  BY DEF QmlTypeOK, ProxiesExist, ProxyAndProxied, ProxiedIsMade, MakingIsMade, IsProxy,
     Kinds, PyObjectFails
<1>3. ProxiedIsMade'
  BY DEF QmlTypeOK, ProxyAndProxied, ProxiedIsMade, MakingIsMade, MakerKnows, IsProxy,
     Kinds, PyObjectFails
<1>4. MakingIsMade'
  BY DEF QmlTypeOK, ProxyAndProxied, ProxiedIsMade, MakingIsMade, MakerKnows, IsProxy,
     Kinds, PyObjectFails
<1>5. MakerKnows'
  BY DEF QmlTypeOK, ProxyAndProxied, ProxiedIsMade, MakingIsMade, MakerKnows, IsProxy,
     Kinds, PyObjectFails
<1>6. TypeAsked' BY DEF QmlTypeOK, TypeAsked, Kinds, PyObjectFails
<1>7. ListenersRelayed'
  BY DEF QmlTypeOK, ProxyAndProxied, ProxiedIsMade, MakingIsMade, ListenersRelayed,
     Unconnected, IsProxy, Kinds, PyObjectFails
<1>8. DeferredExist'
  BY DEF QmlTypeOK, ProxyAndProxied, MakingIsMade, DeferredExist, PyObjectFails
<1>9. CallsArrive'
  BY DEF QmlTypeOK, CallsArrive, ParsedAnew, ProxyAndProxied, ProxiedIsMade, MakingIsMade,
     MakerKnows, IsProxy, Kinds, PyObjectFails
<1>10. ParsedAnew'
  BY DEF QmlTypeOK, ParsedAnew, ProxyAndProxied, ProxiedIsMade, MakingIsMade, MakerKnows,
     IsProxy, Kinds, PyObjectFails
<1> QED
  BY <1>1, <1>2, <1>3, <1>4, <1>5, <1>6, <1>7, <1>8, <1>9, <1>10 DEF ProxyAndProxied

\* The proxy leaves its set, and its object has no maker any more.
LEMMA DestroyQmlProxyStep ==
    ASSUME QmlIInv, NEW a \in QObjects, DestroyQmlProxy(a)
    PROVE  QmlIInv'
<1> USE QmlAssumption DEF QmlIInv
<1>1. QmlTypeOK'
  BY DEF QmlTypeOK, ParserStages, Kinds, Unconnected, DestroyQmlProxy, Remaining, DeletedNow, DeletedLater
<1>2. ProxiesExist'
  <2> SUFFICES ASSUME NEW k \in Kinds, NEW b \in QObjects PROVE b \in proxies'[k] <=> qobject'[b] = k
    BY <1>1 DEF ProxiesExist, QmlTypeOK
  <2>1. b \in proxies'[k] <=> qobject[b] = k /\ b # a
    BY DEF QmlTypeOK, ProxiesExist, DestroyQmlProxy, Remaining, DeletedNow, DeletedLater
  <2>2. "none" \notin Kinds /\ "python" \notin Kinds BY DEF Kinds
  <2>3. CASE b = a
    BY <2>1, <2>2, <2>3 DEF QmlTypeOK, DestroyQmlProxy, DeletedNow, DeletedLater
  <2>4. CASE b # a /\ qobject'[b] = qobject[b] BY <2>1, <2>4
  <2>5. CASE b # a /\ qobject'[b] # qobject[b]
    <3>1. b = proxied[a] /\ qobject'[b] = "none"
      BY <2>5 DEF QmlTypeOK, DestroyQmlProxy, DeletedNow, DeletedLater
    <3>2. qobject[b] = "python"
      BY <3>1, QmlAssumption DEF QmlTypeOK, ProxyAndProxied, ProxiedIsMade
    <3> QED BY <2>1, <2>2, <3>1, <3>2
  <2> QED BY <2>3, <2>4, <2>5
<1>3. ProxiedIsMade'
  BY DEF QmlTypeOK, ProxyAndProxied, ProxiedIsMade, MakingIsMade, MakerKnows, IsProxy,
     Kinds, DestroyQmlProxy, Remaining, DeletedNow, DeletedLater
<1>4. MakingIsMade'
  BY DEF QmlTypeOK, ProxyAndProxied, ProxiedIsMade, MakingIsMade, MakerKnows, IsProxy,
     Kinds, DestroyQmlProxy, Remaining, DeletedNow, DeletedLater
<1>5. MakerKnows'
  BY DEF QmlTypeOK, ProxyAndProxied, ProxiedIsMade, MakingIsMade, MakerKnows, IsProxy,
     Kinds, DestroyQmlProxy, Remaining, DeletedNow, DeletedLater
<1>6. TypeAsked'
  BY DEF QmlTypeOK, TypeAsked, Kinds, DestroyQmlProxy, Remaining, DeletedNow, DeletedLater
<1>7. ListenersRelayed'
  <2> SUFFICES ASSUME NEW b \in QObjects, NEW s \in QmlSignals, listeners'[b][s] > 0
               PROVE  /\ qobject'[b] \in Kinds /\ making'[b] = NoQObject
                      /\ proxied'[b] # NoQObject => relays'[b][s] = 1
    BY DEF ListenersRelayed, IsProxy
  <2>1. b # a BY DEF QmlTypeOK, DestroyQmlProxy, Unconnected
  <2>2. /\ listeners'[b] = listeners[b] /\ relays'[b] = relays[b] /\ making'[b] = making[b]
        /\ proxied'[b] = proxied[b]
    BY <2>1 DEF QmlTypeOK, DestroyQmlProxy
  <2>3. /\ qobject[b] \in Kinds /\ making[b] = NoQObject
        /\ proxied[b] # NoQObject => relays[b][s] = 1
    BY <2>2 DEF ListenersRelayed, IsProxy
  <2>4. b \notin DeletedNow(a)
    <3>1. b # NoQObject /\ qobject[b] # "python" BY <2>3, QmlAssumption DEF Kinds
    <3>2. proxied[a] # NoQObject => qobject[proxied[a]] = "python"
      BY DEF ProxyAndProxied, ProxiedIsMade
    <3> QED BY <3>1, <3>2 DEF DeletedNow
  <2>5. qobject'[b] = qobject[b] BY <2>1, <2>4 DEF DestroyQmlProxy
  <2> QED BY <2>2, <2>3, <2>5
<1>8. DeferredExist'
  BY DEF QmlTypeOK, ProxyAndProxied, ProxiedIsMade, DeferredExist, IsProxy, Kinds,
     DestroyQmlProxy, Remaining, DeletedNow, DeletedLater
<1>9. CallsArrive'
  BY DEF QmlTypeOK, CallsArrive, ParsedAnew, ProxyAndProxied, ProxiedIsMade, MakingIsMade,
     MakerKnows, IsProxy, Kinds, DestroyQmlProxy, DeletedNow, DeletedLater
<1>10. ParsedAnew'
  BY DEF QmlTypeOK, ParsedAnew, ProxyAndProxied, ProxiedIsMade, MakingIsMade, MakerKnows,
     IsProxy, Kinds, DestroyQmlProxy, DeletedNow, DeletedLater
<1> QED
  BY <1>1, <1>2, <1>3, <1>4, <1>5, <1>6, <1>7, <1>8, <1>9, <1>10 DEF ProxyAndProxied

\* Nothing refers to an object that has been destroyed.
LEMMA PyObjectDiesStep ==
    ASSUME QmlIInv, NEW p \in QObjects, PyObjectDies(p)
    PROVE  QmlIInv'
<1> USE QmlAssumption DEF QmlIInv
<1>1. QmlTypeOK' BY DEF QmlTypeOK, ParserStages, Kinds, Unconnected, PyObjectDies
<1>2. ProxiesExist'
  BY DEF QmlTypeOK, ProxiesExist, ProxyAndProxied, ProxiedIsMade, MakingIsMade, IsProxy,
     Kinds, PyObjectDies
<1>3. ProxiedIsMade'
  BY DEF QmlTypeOK, ProxyAndProxied, ProxiedIsMade, MakingIsMade, MakerKnows, IsProxy,
     Kinds, PyObjectDies
<1>4. MakingIsMade'
  BY DEF QmlTypeOK, ProxyAndProxied, ProxiedIsMade, MakingIsMade, MakerKnows, IsProxy,
     Kinds, PyObjectDies
<1>5. MakerKnows'
  BY DEF QmlTypeOK, ProxyAndProxied, ProxiedIsMade, MakingIsMade, MakerKnows, IsProxy,
     Kinds, PyObjectDies
<1>6. TypeAsked' BY DEF QmlTypeOK, TypeAsked, Kinds, PyObjectDies
<1>7. ListenersRelayed'
  BY DEF QmlTypeOK, ProxyAndProxied, ProxiedIsMade, MakingIsMade, ListenersRelayed,
     Unconnected, IsProxy, Kinds, PyObjectDies
<1>8. DeferredExist'
  BY DEF QmlTypeOK, ProxyAndProxied, ProxiedIsMade, DeferredExist, IsProxy, Kinds,
     PyObjectDies
<1>9. CallsArrive'
  BY DEF QmlTypeOK, CallsArrive, ParsedAnew, ProxyAndProxied, ProxiedIsMade, MakingIsMade,
     MakerKnows, IsProxy, Kinds, PyObjectDies
<1>10. ParsedAnew'
  BY DEF QmlTypeOK, ParsedAnew, ProxyAndProxied, ProxiedIsMade, MakingIsMade, MakerKnows,
     IsProxy, Kinds, PyObjectDies
<1> QED
  BY <1>1, <1>2, <1>3, <1>4, <1>5, <1>6, <1>7, <1>8, <1>9, <1>10 DEF ProxyAndProxied

\* Other objects use free addresses.
LEMMA PlainQObjectStep ==
    ASSUME QmlIInv, NEW a \in QObjects, NewQObject(a) \/ DeleteQObject(a)
    PROVE  QmlIInv'
<1> USE QmlAssumption DEF QmlIInv
<1>1. QmlTypeOK'
  <2>1. CASE NewQObject(a) BY <2>1 DEF QmlTypeOK, ParserStages, Kinds, NewQObject
  <2>2. CASE DeleteQObject(a) BY <2>2 DEF QmlTypeOK, ParserStages, Kinds, DeleteQObject
  <2> QED BY <2>1, <2>2
<1>2. ProxiesExist'
  BY DEF QmlTypeOK, ProxiesExist, ProxyAndProxied, ProxiedIsMade, MakingIsMade, IsProxy,
     Kinds, NewQObject, DeleteQObject
<1>3. ProxiedIsMade'
  <2>1. CASE NewQObject(a)
    BY <2>1 DEF QmlTypeOK, ProxyAndProxied, ProxiedIsMade, MakingIsMade, MakerKnows,
       IsProxy, Kinds, NewQObject
  <2>2. CASE DeleteQObject(a)
    BY <2>2 DEF QmlTypeOK, ProxyAndProxied, ProxiedIsMade, MakingIsMade, MakerKnows,
       IsProxy, Kinds, DeleteQObject
  <2> QED BY <2>1, <2>2
<1>4. MakingIsMade'
  <2>1. CASE NewQObject(a)
    BY <2>1 DEF QmlTypeOK, ProxyAndProxied, ProxiedIsMade, MakingIsMade, MakerKnows,
       IsProxy, Kinds, NewQObject
  <2>2. CASE DeleteQObject(a)
    BY <2>2 DEF QmlTypeOK, ProxyAndProxied, ProxiedIsMade, MakingIsMade, MakerKnows,
       IsProxy, Kinds, DeleteQObject
  <2> QED BY <2>1, <2>2
<1>5. MakerKnows'
  BY DEF QmlTypeOK, ProxyAndProxied, ProxiedIsMade, MakingIsMade, MakerKnows, IsProxy,
     Kinds, NewQObject, DeleteQObject
<1>6. TypeAsked' BY DEF QmlTypeOK, TypeAsked, Kinds, NewQObject, DeleteQObject
<1>7. ListenersRelayed'
  <2>1. CASE NewQObject(a)
    BY <2>1 DEF QmlTypeOK, ProxyAndProxied, ProxiedIsMade, MakingIsMade, ListenersRelayed,
       Unconnected, IsProxy, Kinds, NewQObject
  <2>2. CASE DeleteQObject(a)
    BY <2>2 DEF QmlTypeOK, ProxyAndProxied, ProxiedIsMade, MakingIsMade, ListenersRelayed,
       Unconnected, IsProxy, Kinds, DeleteQObject
  <2> QED BY <2>1, <2>2
<1>8. DeferredExist'
  BY DEF QmlTypeOK, ProxyAndProxied, ProxiedIsMade, DeferredExist, IsProxy, Kinds,
     NewQObject, DeleteQObject
<1>9. CallsArrive'
  BY DEF QmlTypeOK, CallsArrive, ParsedAnew, ProxyAndProxied, ProxiedIsMade, MakingIsMade,
     MakerKnows, IsProxy, Kinds, NewQObject, DeleteQObject
<1>10. ParsedAnew'
  <2>1. /\ making' = making /\ parsed' = parsed /\ told' = told
        /\ \A b \in QObjects : qobject'[b] # qobject[b] => b = a
        /\ qobject[a] \notin Kinds /\ qobject[a] # "python"
        /\ qobject'[a] \notin Kinds /\ qobject'[a] # "python"
    BY DEF QmlTypeOK, Kinds, NewQObject, DeleteQObject
  <2>2. \A b \in QObjects : making[b] # NoQObject => making[b] \in QObjects /\ making[b] # a
    BY <2>1 DEF QmlTypeOK, ProxyAndProxied, MakingIsMade
  <2> QED BY <2>1, <2>2 DEF ParsedAnew, IsProxy
<1> QED
  BY <1>1, <1>2, <1>3, <1>4, <1>5, <1>6, <1>7, <1>8, <1>9, <1>10 DEF ProxyAndProxied

\* QML connects and disconnects.
LEMMA QmlConnectionStep ==
    ASSUME QmlIInv, NEW a \in QObjects, NEW s \in QmlSignals, QmlConnects(a, s) \/ QmlDisconnects(a, s)
    PROVE  QmlIInv'
<1> USE QmlAssumption DEF QmlIInv
<1>1. QmlTypeOK'
  <2>1. CASE QmlConnects(a, s) BY <2>1 DEF QmlTypeOK, ParserStages, Kinds, QmlConnects, RelaysAfter
  <2>2. CASE QmlDisconnects(a, s) BY <2>2 DEF QmlTypeOK, ParserStages, Kinds, QmlDisconnects
  <2> QED BY <2>1, <2>2
<1>2. ProxiesExist'
  BY DEF QmlTypeOK, ProxiesExist, ProxyAndProxied, ProxiedIsMade, MakingIsMade, IsProxy,
     Kinds, QmlConnects, QmlDisconnects, RelaysAfter
<1>3. ProxiedIsMade'
  BY DEF QmlTypeOK, ProxyAndProxied, ProxiedIsMade, MakingIsMade, MakerKnows, IsProxy,
     Kinds, QmlConnects, QmlDisconnects, RelaysAfter
<1>4. MakingIsMade'
  BY DEF QmlTypeOK, ProxyAndProxied, ProxiedIsMade, MakingIsMade, MakerKnows, IsProxy,
     Kinds, QmlConnects, QmlDisconnects, RelaysAfter
<1>5. MakerKnows'
  BY DEF QmlTypeOK, ProxyAndProxied, ProxiedIsMade, MakingIsMade, MakerKnows, IsProxy,
     Kinds, QmlConnects, QmlDisconnects, RelaysAfter
<1>6. TypeAsked'
  BY DEF QmlTypeOK, TypeAsked, Kinds, QmlConnects, QmlDisconnects, RelaysAfter
<1>7. ListenersRelayed'
  <2>1. CASE QmlConnects(a, s)
    BY <2>1 DEF QmlTypeOK, ListenersRelayed, IsProxy, Kinds, QmlConnects, RelaysAfter
  <2>2. CASE QmlDisconnects(a, s)
    BY <2>2 DEF QmlTypeOK, ListenersRelayed, IsProxy, Kinds, QmlDisconnects
  <2> QED BY <2>1, <2>2
<1>8. DeferredExist'
  BY DEF QmlTypeOK, ProxyAndProxied, ProxiedIsMade, DeferredExist, IsProxy, Kinds,
     QmlConnects, QmlDisconnects, RelaysAfter
<1>9. CallsArrive'
  BY DEF QmlTypeOK, CallsArrive, ParsedAnew, ProxyAndProxied, ProxiedIsMade, MakingIsMade,
     MakerKnows, IsProxy, Kinds, QmlConnects, QmlDisconnects, RelaysAfter
<1>10. ParsedAnew'
  BY DEF QmlTypeOK, ParsedAnew, ProxyAndProxied, ProxiedIsMade, MakingIsMade, MakerKnows,
     IsProxy, Kinds, QmlConnects, QmlDisconnects, RelaysAfter
<1> QED
  BY <1>1, <1>2, <1>3, <1>4, <1>5, <1>6, <1>7, <1>8, <1>9, <1>10 DEF ProxyAndProxied

\* The Python object of a complete proxy gets the calls, and only that object.
LEMMA ParserCallStep ==
    ASSUME QmlIInv, NEW a \in QObjects, NEW from, NEW call \in ParserStages,
           ParserCall(a, from, call)
    PROVE  QmlIInv'
<1> USE QmlAssumption DEF QmlIInv, ParserCall
<1>1. QmlTypeOK' BY DEF QmlTypeOK
<1>2. ProxiesExist' /\ ProxyAndProxied' /\ TypeAsked' /\ ListenersRelayed' /\ DeferredExist'
  BY DEF ProxiesExist, ProxyAndProxied, ProxiedIsMade, MakingIsMade, MakerKnows, TypeAsked,
     ListenersRelayed, DeferredExist, IsProxy
<1>3. CallsArrive'
  <2> SUFFICES ASSUME NEW b \in QObjects, proxied[b] # NoQObject
               PROVE  told'[proxied[b]] = parsed'[b]
    BY DEF CallsArrive
  <2>1. CASE b = a BY <2>1 DEF QmlTypeOK
  <2>2. CASE b # a
    <3>1. parsed'[b] = parsed[b] BY <2>2 DEF QmlTypeOK
    <3>2. proxied[a] # NoQObject => proxied[a] # proxied[b]
      BY <2>2 DEF ProxyAndProxied, ProxiedIsMade
    <3>3. told'[proxied[b]] = told[proxied[b]] BY <3>2 DEF QmlTypeOK
    <3> QED BY <3>1, <3>3 DEF CallsArrive
  <2> QED BY <2>1, <2>2
<1>4. ParsedAnew'
  BY DEF QmlTypeOK, ParsedAnew, ProxyAndProxied, ProxiedIsMade, MakingIsMade, MakerKnows, IsProxy
<1> QED BY <1>1, <1>2, <1>3, <1>4

\* The invariant of all that follows.
THEOREM QmlInvariance == QmlSpec => []QmlIInv
<1>1. QmlIInv /\ [QmlNext]_qmlVars => QmlIInv'
  <2> SUFFICES ASSUME QmlIInv, [QmlNext]_qmlVars PROVE QmlIInv' OBVIOUS
  <2>1. CASE UNCHANGED qmlVars
    BY <2>1 DEF qmlVars, QmlIInv, QmlTypeOK, ProxiesExist, ProxyAndProxied, ProxiedIsMade,
       MakingIsMade, MakerKnows, TypeAsked, ListenersRelayed, DeferredExist, CallsArrive,
       ParsedAnew, IsProxy
  <2>2. ASSUME NEW t \in PyQmlTypes, NEW accepted \in BOOLEAN, RegisterType(t, accepted) PROVE QmlIInv'
    BY <2>2, RegisterTypeStep
  <2>3. ASSUME NEW a \in QObjects, NEW p \in QObjects, NEW r \in registered, NewQmlProxy(a, p, r)
        PROVE  QmlIInv'
    BY <2>3, NewQmlProxyStep
  <2>4. ASSUME NEW a \in QObjects, PyObjectCreated(a) PROVE QmlIInv'
    BY <2>4, PyObjectCreatedStep
  <2>5. ASSUME NEW a \in QObjects, PyObjectFails(a) PROVE QmlIInv'
    BY <2>5, PyObjectFailsStep
  <2>6. ASSUME NEW a \in QObjects, DestroyQmlProxy(a) PROVE QmlIInv'
    BY <2>6, DestroyQmlProxyStep
  <2>7. ASSUME NEW a \in QObjects, DeletePyObject(a) \/ DeferredDeletePyObject(a) PROVE QmlIInv'
    BY <2>7, PyObjectDiesStep DEF DeletePyObject, DeferredDeletePyObject
  <2>8. ASSUME NEW a \in QObjects, NewQObject(a) \/ DeleteQObject(a) PROVE QmlIInv'
    BY <2>8, PlainQObjectStep
  <2>9. ASSUME NEW a \in QObjects, NEW s \in QmlSignals, QmlConnects(a, s) \/ QmlDisconnects(a, s)
        PROVE  QmlIInv'
    BY <2>9, QmlConnectionStep
  <2>10. ASSUME NEW a \in QObjects, ClassBegin(a) \/ SetTarget(a) \/ ComponentComplete(a)
         PROVE  QmlIInv'
    BY <2>10, ParserCallStep DEF ClassBegin, SetTarget, ComponentComplete, ParserStages
  <2> QED BY <2>1, <2>2, <2>3, <2>4, <2>5, <2>6, <2>7, <2>8, <2>9, <2>10 DEF QmlNext
<1> QED BY QmlInitial, <1>1, PTL DEF QmlSpec

\* What is in a set of proxies is a proxy, so no other object is taken for one.
LEMMA SeenByPython == QmlIInv => PythonSees
<1> SUFFICES ASSUME QmlIInv PROVE PythonSees OBVIOUS
<1> USE QmlAssumption DEF QmlIInv, QmlTypeOK
<1>1. ASSUME NEW a \in QObjects, qobject[a] \in {"plain", "python"} PROVE Resolved(a) = a
  BY <1>1 DEF Resolved, ProxiesExist, Kinds
<1>2. ASSUME NEW p \in QObjects, qobject[p] = "python"
      PROVE  FoundFor(p) = IF \E a \in QObjects : making[a] = p THEN {} ELSE {maker[p]} \ {NoQObject}
  <2>1. \A a : a \in FoundFor(p) <=> a \in QObjects /\ proxied[a] = p
    <3>1. UNION {proxies[k] : k \in Kinds} = {a \in QObjects : IsProxy(a)}
      BY DEF ProxiesExist, IsProxy
    <3>2. \A a \in QObjects : proxied[a] = p => IsProxy(a)
      BY DEF ProxyAndProxied, ProxiedIsMade
    <3> QED BY <3>1, <3>2 DEF FoundFor
  <2>2. CASE \E a \in QObjects : making[a] = p
    <3>1. PICK a \in QObjects : making[a] = p BY <2>2
    <3>2. maker[p] = a /\ proxied[a] = NoQObject BY <3>1 DEF ProxyAndProxied, MakingIsMade
    <3>3. \A b \in QObjects : proxied[b] = p => maker[p] = b
      BY DEF ProxyAndProxied, ProxiedIsMade
    <3> QED BY <2>1, <2>2, <3>2, <3>3
  <2>3. CASE ~ \E a \in QObjects : making[a] = p
    <3>1. \A a \in QObjects : proxied[a] = p <=> a = maker[p]
      BY <2>3 DEF ProxyAndProxied, ProxiedIsMade, MakerKnows
    <3> QED BY <2>1, <2>3, <3>1
  <2> QED BY <2>2, <2>3
<1>3. ASSUME NEW p \in QObjects, maker[p] # NoQObject, qobject[maker[p]] = "object"
      PROVE  Resolved(maker[p]) \in {p, NoQObject}
 
    BY <1>3 DEF Resolved, ProxiesExist, ProxyAndProxied, ProxiedIsMade, MakingIsMade,
       MakerKnows, Kinds
<1> QED BY <1>1, <1>2, <1>3 DEF PythonSees

\* Python and QML see the same objects, and hear of them once.
THEOREM QmlIsFaithful == QmlSpec => []QmlFaithful
<1>1. QmlIInv => HeardOnce
  <2> SUFFICES ASSUME QmlIInv, NEW p \in QObjects, NEW a \in QObjects, NEW s \in QmlSignals,
                      a \in FoundFor(p), listeners[a][s] > 0
               PROVE  Relayed(p, a, s) = 1
    BY DEF HeardOnce
  <2>1. proxied[a] # NoQObject BY QmlAssumption DEF FoundFor
  <2>2. relays[a][s] = 1 BY <2>1 DEF QmlIInv, ListenersRelayed
  <2> QED BY <2>2 DEF Relayed
<1>2. QmlIInv => AnswersTrue
  <2> SUFFICES ASSUME QmlIInv, NEW a \in QObjects, NEW v \in Refusing
               PROVE  /\ AnswerOf(a, v) # "no" =>
                           qobject[AnswerOf(a, v)] = "python" /\ maker[AnswerOf(a, v)] = a
                      /\ ~ IsProxy(a) => AnswerOf(a, v) = "no"
    BY DEF AnswersTrue
  <2>1. CASE proxied[a] = NoQObject BY <2>1 DEF AnswerOf, DefaultAnswer
  <2>2. CASE proxied[a] # NoQObject
    BY <2>2 DEF AnswerOf, QmlIInv, ProxyAndProxied, ProxiedIsMade
  <2> QED BY <2>1, <2>2
<1>3. QmlIInv => QmlFaithful BY <1>1, <1>2, SeenByPython DEF QmlIInv, QmlFaithful
<1> QED BY QmlInvariance, <1>3, PTL

-----------------------------------------------------------------------------
(* QmlLists.                                                               *)

\* The references to the owner are counted right by each operation.
LEMMA ListTypeStep ==
    ASSUME QmlListTypeOK, QmlListNext PROVE QmlListTypeOK'
<1>0. /\ elements \in Seq(Items) /\ << >> \in Seq(Items)
      /\ \A x \in Items : Append(elements, x) \in Seq(Items)
  <2>1. elements \in Seq(Items) BY DEF QmlListTypeOK
  <2> QED BY <2>1, EmptySeq, AppendProperties
<1>1. CASE GetListProperty BY <1>1 DEF QmlListTypeOK, GetListProperty, OwnerRefs
<1>2. CASE OutsideRef BY <1>2 DEF QmlListTypeOK, OutsideRef
<1>3. CASE OwnerDestroyed
  <2>1. /\ ownerThere' = FALSE /\ datas' = 0 /\ ownerRefs' = ownerRefs - datas
        /\ UNCHANGED <<style, elements, outside, sawAt>>
    BY <1>3 DEF OwnerDestroyed
  <2>2. ownerRefs' \in Int BY <2>1 DEF QmlListTypeOK
  <2> QED BY <2>1, <2>2 DEF QmlListTypeOK
<1>4. ASSUME NEW x \in Items, PythonAppends(x) PROVE QmlListTypeOK'
  BY <1>0, <1>4 DEF QmlListTypeOK, PythonAppends
<1>5. ASSUME NEW x \in QmlObjects, NEW call, ListAppend(x, call) PROVE QmlListTypeOK'
  <2>1. x \in Items BY DEF QmlObjects, Items
  <2>2. elements' \in Seq(Items) BY <1>0, <1>5, <2>1 DEF ListAppend
  <2> QED BY <1>5, <2>2 DEF QmlListTypeOK, ListAppend
<1>6. ASSUME NEW call, ListCount(call) PROVE QmlListTypeOK'
  BY <1>6 DEF QmlListTypeOK, ListCount
<1>7. ASSUME NEW call, ListClear(call) PROVE QmlListTypeOK'
  BY <1>0, <1>7 DEF QmlListTypeOK, ListClear
<1>8. ASSUME NEW idx \in 0..MaxElements, NEW call, ListAt(idx, call) PROVE QmlListTypeOK'
  BY <1>8 DEF QmlListTypeOK, ListAt, RefsAfterAt
<1> QED BY <1>1, <1>2, <1>3, <1>4, <1>5, <1>6, <1>7, <1>8 DEF QmlListNext

\* What QML is answered without an error is what Python has.
LEMMA ListSeenStep ==
    ASSUME QmlListTypeOK, QmlListNext PROVE QmlSeesList'
<1> USE DEF QmlSeesList, Answer, Nobody
<1>1. CASE GetListProperty \/ OutsideRef \/ OwnerDestroyed
  BY <1>1 DEF GetListProperty, OutsideRef, OwnerDestroyed
<1>2. ASSUME NEW x \in Items, PythonAppends(x) PROVE QmlSeesList'
  BY <1>2 DEF PythonAppends
<1>3. ASSUME NEW x \in QmlObjects, NEW call, ListAppend(x, call) PROVE QmlSeesList'
  BY <1>3 DEF ListAppend
<1>4. ASSUME NEW call, ListCount(call) PROVE QmlSeesList'
  BY <1>4 DEF ListCount
<1>5. ASSUME NEW call, ListClear(call) PROVE QmlSeesList'
  BY <1>5 DEF ListClear, QmlListTypeOK
<1>6. ASSUME NEW idx \in 0..MaxElements, NEW call, ListAt(idx, call) PROVE QmlSeesList'
  <2> DEFINE got == IF style = "list" \/ call = "returns" THEN Element(idx)
                    ELSE IF call = "odd" THEN "int" ELSE "raises"
  <2>1. /\ seen'.of = "at" /\ seen'.idx = idx /\ elements' = elements
        /\ seen'.reported = (got \notin QmlObjects)
        /\ got \in QmlObjects => seen'.value = got
    BY <1>6 DEF ListAt
  <2>2. got \in QmlObjects => idx < Len(elements) /\ got = elements[idx + 1]
    BY DEF Element, QmlObjects
  <2> QED BY <2>1, <2>2
<1> QED BY <1>1, <1>2, <1>3, <1>4, <1>5, <1>6 DEF QmlListNext

\* A reference is lost only when a function is asked for an element.
LEMMA ListRefsStep ==
    ASSUME QmlListTypeOK, RefsBalance, QmlListNext PROVE RefsBalance'
<1> USE DEF QmlListTypeOK, RefsBalance
<1>1. CASE GetListProperty BY <1>1 DEF GetListProperty, OwnerRefs
<1>2. CASE OutsideRef BY <1>2 DEF OutsideRef
<1>3. CASE OwnerDestroyed BY <1>3 DEF OwnerDestroyed
<1>4. CASE \/ \E x \in Items : PythonAppends(x)
           \/ \E call \in {"returns", "odd", "raises"} :
                \/ \E x \in QmlObjects : ListAppend(x, call)
                \/ ListCount(call) \/ ListClear(call)
  BY <1>4 DEF PythonAppends, ListAppend, ListCount, ListClear
<1>5. ASSUME NEW idx \in 0..MaxElements, NEW call, ListAt(idx, call) PROVE RefsBalance'
  BY <1>5 DEF ListAt, RefsAfterAt
<1> QED BY <1>1, <1>2, <1>3, <1>4, <1>5 DEF QmlListNext

LEMMA ListInvariance == QmlListSpec => [](QmlListTypeOK /\ QmlListsRight)
<1>1. QmlListInit => QmlListTypeOK /\ QmlListsRight
  <2> SUFFICES ASSUME QmlListInit PROVE QmlListTypeOK /\ QmlListsRight OBVIOUS
  <2>1. elements \in Seq(Items)
    <3>1. elements = << >> BY DEF QmlListInit
    <3> QED BY <3>1, EmptySeq
  <2>2. QmlListTypeOK
    <3>1. /\ style \in {"list", "functions"} /\ ownerRefs = 1 /\ outside = 1 /\ datas = 0
          /\ ownerThere = TRUE /\ sawAt = FALSE
      BY DEF QmlListInit
    <3>2. ownerRefs \in Int /\ outside \in Nat /\ datas \in Nat BY <3>1
    <3>3. ownerThere \in BOOLEAN /\ sawAt \in BOOLEAN /\ ~ sawAt BY <3>1, Zenon
    <3> QED BY <2>1, <3>1, <3>2, <3>3, Zenon DEF QmlListTypeOK
  <2>3. QmlSeesList BY DEF QmlListInit, QmlSeesList, Nobody, Answer
  <2>4. RefsBalance BY DEF QmlListInit, RefsBalance
  <2> QED BY <2>2, <2>3, <2>4 DEF QmlListsRight
<1>2. QmlListTypeOK /\ QmlListsRight /\ [QmlListNext]_listVars => (QmlListTypeOK /\ QmlListsRight)'
  <2> SUFFICES ASSUME QmlListTypeOK, QmlListsRight, [QmlListNext]_listVars
               PROVE  QmlListTypeOK' /\ QmlListsRight'
    OBVIOUS
  <2>1. CASE UNCHANGED listVars
    BY <2>1 DEF listVars, QmlListTypeOK, QmlListsRight, QmlSeesList, RefsBalance
  <2> QED BY <2>1, ListTypeStep, ListSeenStep, ListRefsStep DEF QmlListsRight
<1> QED BY <1>1, <1>2, PTL DEF QmlListSpec

\* Whatever the length of the list and whatever the functions of Python return
\* or raise, QML is told the truth or of an error, and the owner has a reference
\* from each list data until a function is asked for an element
\* (qpyqmllistproperty.cpp 200-330, qpyqml_listdata.cpp 30-55).
THEOREM ListsAreRight == QmlListSpec => []QmlListsRight
BY ListInvariance, PTL

\* The list data of a Python list keeps its owner until it goes.
THEOREM ListsKeepTheirOwner == QmlListSpec => []ListsKeepOwner
<1>1. QmlListTypeOK /\ QmlListsRight => ListsKeepOwner
  BY DEF QmlListTypeOK, QmlListsRight, RefsBalance, ListsKeepOwner, OwnerKept
<1> QED BY <1>1, ListInvariance, PTL
=============================================================================
