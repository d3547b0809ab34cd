--------------------------- MODULE SlotProxyProofs ---------------------------
(***************************************************************************)
(* Proofs about SlotProxy for any number of transmitters, signals, slots   *)
(* and proxies, and any bounds.                                            *)
(*                                                                         *)
(* IInv is inductive.  Its steps fall into four classes: those that leave  *)
(* every proxy at rest (QuietStep), the creation of a proxy (NewProxyStep),*)
(* the call of unislot() (UnislotStep) and its end (SlotReturnStep).       *)
(***************************************************************************)
EXTENDS SlotProxy, SequenceTheorems, FiniteSetTheorems, TLAPS

-----------------------------------------------------------------------------
(* Stacks.                                                                 *)

\* s is a stack with no slot activation that stack does not have.
Calmer(s) ==
    /\ s \in Seq(Frame) /\ s # << >> /\ s[1] = LoopFrame
    /\ \A i \in 1..Len(s) : s[i].kind = "slot" =>
         i \in 1..Len(stack) /\ s[i] = stack[i]

LEMMA LevelType == ASSUME TypeOK PROVE Level \in Nat
<1>1. Len(stack) \in Nat
  BY LenProperties DEF TypeOK
<1>2. IsFiniteSet(1..Len(stack))
  BY <1>1, FS_Interval
<1>3. IsFiniteSet({i \in 1..Len(stack) : Deepens(stack[i])})
  BY <1>2, FS_Subset
<1> QED
  BY <1>3, FS_CardinalityType DEF Level

LEMMA FrameTypes ==
    /\ LoopFrame \in Frame /\ LoopFrame.kind = "loop"
    /\ EventFrame \in Frame /\ EventFrame.kind = "event"
    /\ \A p \in Proxies, ev \in BOOLEAN :
         /\ SlotFrame(p, ev) \in Frame
         /\ SlotFrame(p, ev).kind = "slot"
         /\ SlotFrame(p, ev).p = p
    /\ \A t \in Transmitters, s \in Signals, todo \in SUBSET Proxies :
         /\ EmitFrame(t, s, todo) \in Frame
         /\ EmitFrame(t, s, todo).kind = "emit"
    /\ \A f \in Frame : f.kind = "slot" => f.p \in Proxies /\ f.ev \in BOOLEAN
    /\ \A f \in Frame : f.kind = "emit" =>
         f.t \in Transmitters /\ f.s \in Signals /\ f.todo \subseteq Proxies
BY DEF Frame, LoopFrame, EventFrame, SlotFrame, EmitFrame

LEMMA StackTypes ==
    ASSUME TypeOK
    PROVE  /\ Len(stack) \in Nat \ {0}
           /\ Top \in Frame
           /\ Calmer(stack)
           /\ Top.kind # "loop" \/ Len(stack) > 1 =>
                /\ Calmer(Popped)
                /\ Len(Popped) = Len(stack) - 1
                /\ \A i \in 1..Len(Popped) : Popped[i] = stack[i]
<1>1. /\ Len(stack) \in Nat \ {0}
      /\ \A i \in 1..Len(stack) : stack[i] \in Frame
  BY EmptySeq, LenProperties, ElementOfSeq DEF TypeOK
<1>2. Top \in Frame
  BY <1>1 DEF Top
<1>3. Calmer(stack)
  BY DEF Calmer, TypeOK
<1>4. ASSUME Top.kind # "loop" \/ Len(stack) > 1
      PROVE  /\ Calmer(Popped)
             /\ Len(Popped) = Len(stack) - 1
             /\ \A i \in 1..Len(Popped) : Popped[i] = stack[i]
  <2>1. Len(stack) > 1
    BY <1>1, <1>4, FrameTypes DEF TypeOK, Top
  <2>2. /\ Popped \in Seq(Frame)
        /\ Len(Popped) = Len(stack) - 1
        /\ \A i \in 1..Len(stack) - 1 : Popped[i] = stack[i]
    <3>1. \A i \in 1..Len(stack) - 1 : stack[i] \in Frame
      BY <1>1
    <3> QED
      BY <1>1, <2>1, <3>1, SubSeqProperties DEF Popped
  <2>3. Popped # << >>
    BY <2>1, <2>2, <1>1
  <2>4. Popped[1] = LoopFrame
    BY <2>1, <2>2, <1>1 DEF TypeOK
  <2> QED
    BY <1>1, <2>1, <2>2, <2>3, <2>4 DEF Calmer
<1> QED
  BY <1>1, <1>2, <1>3, <1>4

LEMMA CalmerAppend ==
    ASSUME TypeOK, NEW s, Calmer(s), NEW f \in Frame
    PROVE  /\ Append(s, f) \in Seq(Frame)
           /\ Append(s, f) # << >>
           /\ Append(s, f)[1] = LoopFrame
           /\ Len(Append(s, f)) = Len(s) + 1
           /\ \A i \in 1..Len(s) : Append(s, f)[i] = s[i]
           /\ Append(s, f)[Len(s) + 1] = f
           /\ f.kind # "slot" => Calmer(Append(s, f))
<1>1. s \in Seq(Frame) /\ Len(s) \in Nat \ {0}
  BY EmptySeq DEF Calmer
<1>2. /\ Append(s, f) \in Seq(Frame)
      /\ Len(Append(s, f)) = Len(s) + 1
      /\ \A i \in 1..Len(s) : Append(s, f)[i] = s[i]
      /\ Append(s, f)[Len(s) + 1] = f
  BY <1>1, AppendProperties
<1>3. Append(s, f) # << >> /\ Append(s, f)[1] = LoopFrame
  BY <1>1, <1>2, EmptySeq DEF Calmer
<1>4. ASSUME f.kind # "slot" PROVE Calmer(Append(s, f))
  <2> SUFFICES ASSUME NEW i \in 1..Len(s) + 1, Append(s, f)[i].kind = "slot"
               PROVE  i \in 1..Len(stack) /\ Append(s, f)[i] = stack[i]
    BY <1>2, <1>3 DEF Calmer
  <2>1. i \in 1..Len(s)
    BY <1>1, <1>2, <1>4
  <2> QED
    BY <1>2, <2>1 DEF Calmer
<1> QED
  BY <1>2, <1>3, <1>4

-----------------------------------------------------------------------------
(* Types.                                                                  *)

LEMMA InfoType == NoInfo \in Info
<1>1. PICK slot \in Slots : TRUE
  BY SlotsAssumption
<1>2. [tx |-> NoTx, sig |-> Destroyed, slot |-> slot, queued |-> FALSE,
       single |-> FALSE, nocheck |-> FALSE] \in Info
  BY <1>1, SignalsAssumption DEF Info
<1>3. \E i \in Info : i.tx = NoTx
  BY <1>2
<1> QED
  BY <1>3 DEF NoInfo

LEMMA InitType == Init => TypeOK
<1> SUFFICES ASSUME Init PROVE TypeOK
  OBVIOUS
<1>1. stack \in Seq(Frame) /\ stack # << >> /\ stack[1] = LoopFrame
  BY FrameTypes DEF Init
<1>2. queue \in Seq(Event)
  BY DEF Init
<1> QED
  BY <1>1, <1>2, InfoType DEF Init, TypeOK

LEMMA DeleteLaterType ==
    ASSUME TypeOK, NEW S, NEW level \in Nat, DeleteLater(S, level)
    PROVE  delLevel' \in [Proxies -> Nat]
BY DEF DeleteLater, TypeOK

LEMMA DisableType ==
    ASSUME TypeOK, NEW S \in SUBSET Proxies, NEW level \in Nat,
           Disable(S, level)
    PROVE  delLevel' \in [Proxies -> Nat] /\ disabled' \subseteq Proxies
BY DeleteLaterType DEF Disable, TypeOK

LEMMA UnislotType ==
    ASSUME TypeOK, NEW p \in Proxies, NEW base, Calmer(base),
           NEW ev \in BOOLEAN, Unislot(p, base, ev)
    PROVE  /\ delLevel' \in [Proxies -> Nat]
           /\ disabled' \subseteq Proxies
           /\ invoked' \subseteq Proxies
           /\ ran' \subseteq Proxies
           /\ stack' \in Seq(Frame) /\ stack' # << >> /\ stack'[1] = LoopFrame
<1>1. CASE stack' = base /\ UNCHANGED <<disabled, invoked, delLevel, ran>>
  BY <1>1 DEF TypeOK, Calmer
<1>2. CASE /\ disabled' = disabled \cup {p}
           /\ invoked' = invoked \ {p}
           /\ DeleteLater({p}, IF ev THEN Level + 1 ELSE Level)
           /\ stack' = base
           /\ UNCHANGED ran
  <2>1. (IF ev THEN Level + 1 ELSE Level) \in Nat
    BY LevelType
  <2> QED
    BY <1>2, <2>1, DeleteLaterType DEF TypeOK, Calmer
<1>3. CASE /\ invoked' = invoked \cup {p}
           /\ stack' = Append(base, SlotFrame(p, ev))
           /\ ran' = ran \cup {p}
           /\ UNCHANGED <<disabled, delLevel>>
  <2>1. SlotFrame(p, ev) \in Frame
    BY FrameTypes
  <2>2. stack' \in Seq(Frame) /\ stack' # << >> /\ stack'[1] = LoopFrame
    BY <1>3, <2>1, CalmerAppend
  <2> QED
    BY <1>3, <2>2 DEF TypeOK
<1> QED
  BY <1>1, <1>2, <1>3 DEF Unislot

LEMMA PostsType ==
    ASSUME NEW p \in Proxies, NEW s \in Signals
    PROVE  Posts(p, s) \in Seq(Event)
<1>1. \A k \in {"call", "disable"} : <<[kind |-> k, p |-> p]>> \in Seq(Event)
  BY DEF Event
<1>2. << >> \in Seq(Event)
  OBVIOUS
<1> QED
  BY <1>1, <1>2, ConcatProperties DEF Posts

LEMMA ApplicationType == ASSUME TypeOK, Application PROVE TypeOK'
<1>0. Level \in Nat /\ Len(stack) \in Nat
  BY LevelType, StackTypes
<1>1. ASSUME NEW t \in Transmitters, NEW s \in Signals, NEW slot \in Slots,
             NEW queued \in BOOLEAN, NEW nocheck \in BOOLEAN,
             NEW unique \in BOOLEAN, NEW fails \in BOOLEAN,
             Connect(t, s, slot, queued, nocheck, unique, fails)
      PROVE  TypeOK'
  <2>1. PICK p \in Proxies :
          /\ NewProxy(p, [tx |-> t, sig |-> s, slot |-> slot,
                          queued |-> queued, single |-> FALSE,
                          nocheck |-> nocheck])
          /\ conn' = IF fails THEN conn ELSE conn \cup {p}
    BY <1>1 DEF Connect
  <2>2. [tx |-> t, sig |-> s, slot |-> slot, queued |-> queued,
         single |-> FALSE, nocheck |-> nocheck] \in Info
    BY DEF Info
  <2> QED
    BY <1>1, <2>1, <2>2 DEF Connect, NewProxy, TypeOK
<1>2. ASSUME NEW slot \in Slots, SingleShot(slot) PROVE TypeOK'
  <2>1. PICK p \in Proxies, s \in Signals \ {Destroyed} :
          /\ NewProxy(p, [tx |-> NoTx, sig |-> s, slot |-> slot,
                          queued |-> FALSE, single |-> TRUE,
                          nocheck |-> FALSE])
          /\ timer' = timer \cup {p}
    BY <1>2 DEF SingleShot
  <2>2. [tx |-> NoTx, sig |-> s, slot |-> slot, queued |-> FALSE,
         single |-> TRUE, nocheck |-> FALSE] \in Info
    BY DEF Info
  <2> QED
    BY <1>2, <2>1, <2>2 DEF SingleShot, NewProxy, TypeOK
<1>3. ASSUME NEW t \in Transmitters, NEW s \in Signals, NEW slot \in Slots,
             Disconnect(t, s, slot)
      PROVE  TypeOK'
  <2>1. PICK p \in Proxies : conn' = conn \ {p} /\ Disable({p}, Level)
    BY <1>3 DEF Disconnect, FindSlotProxy, Matches, Filed, TypeOK
  <2> QED
    BY <1>0, <1>3, <2>1, DisableType DEF Disconnect, TypeOK
<1>4. ASSUME NEW p \in Proxies, DisconnectHandle(p) PROVE TypeOK'
  BY <1>0, <1>4, DisableType DEF DisconnectHandle, TypeOK
<1>5. ASSUME NEW t \in Transmitters, NEW s \in Signals, DisconnectSignal(t, s)
      PROVE  TypeOK'
  <2>1. Filed(t, s) \subseteq Proxies
    BY DEF Filed, TypeOK
  <2> QED
    BY <1>0, <1>5, <2>1, DisableType DEF DisconnectSignal, TypeOK
<1>6. ASSUME NEW t \in Transmitters, DisconnectAll(t) PROVE TypeOK'
  <2>1. {p \in hash : info[p].tx = t} \subseteq Proxies
    BY DEF TypeOK
  <2> QED
    BY <1>0, <1>6, <2>1, DisableType DEF DisconnectAll, TypeOK
<1>7. ASSUME NEW t \in Transmitters, NEW s \in Signals, Emit(t, s)
      PROVE  TypeOK'
  <2>1. Connected(t, s) \in SUBSET Proxies
    BY DEF Connected, TypeOK
  <2>2. EmitFrame(t, s, Connected(t, s)) \in Frame
    BY <2>1, FrameTypes
  <2> QED
    BY <1>7, <2>2, StackTypes, CalmerAppend DEF Emit, TypeOK
<1>8. ASSUME NEW t \in Transmitters, Destroy(t) PROVE TypeOK'
  <2>1. Connected(t, Destroyed) \cup Watching(t) \in SUBSET Proxies
    BY DEF Connected, Watching, TypeOK
  <2>2. EmitFrame(t, Destroyed, Connected(t, Destroyed) \cup Watching(t))
          \in Frame
    BY <2>1, FrameTypes, SignalsAssumption
  <2> QED
    BY <1>8, <2>2, StackTypes, CalmerAppend DEF Destroy, TypeOK
<1>9. ASSUME NEW t \in Transmitters, Create(t) \/ ClearSlotProxies(t)
      PROVE  TypeOK'
  BY <1>9 DEF Create, ClearSlotProxies, TypeOK
<1>10. ASSUME NEW slot \in Slots, LoseReceiver(slot) \/ CollectReceiver(slot)
       PROVE  TypeOK'
  BY <1>10 DEF LoseReceiver, CollectReceiver, TypeOK
<1>11. ASSUME EnterLoop PROVE TypeOK'
  BY <1>11, StackTypes, CalmerAppend, FrameTypes DEF EnterLoop, TypeOK
<1> QED
  BY <1>1, <1>2, <1>3, <1>4, <1>5, <1>6, <1>7, <1>8, <1>9, <1>10, <1>11
     DEF Application

LEMMA EmissionType ==
    ASSUME TypeOK, EmitStep \/ EmitDone \/ DestroyDone PROVE TypeOK'
<1>1. Calmer(Popped) /\ Top \in Frame /\ Top.kind = "emit"
  BY StackTypes DEF EmitStep, EmitDone, DestroyDone
<1>2. Top.t \in Transmitters /\ Top.s \in Signals /\ Top.todo \subseteq Proxies
  BY <1>1, FrameTypes
<1>3. ASSUME EmitStep PROVE TypeOK'
  <2> DEFINE base(p) == Append(Popped, EmitFrame(Top.t, Top.s, Top.todo \ {p}))
             calls(p) == p \in conn /\ info[p].sig = Top.s
  <2>1. PICK p \in Top.todo :
          /\ queue' = queue \o Posts(p, Top.s)
          /\ heard' = IF calls(p) /\ Top.s = Destroyed /\ p \notin disabled
                        THEN heard \cup {p} ELSE heard
          /\ IF calls(p) /\ ~info[p].queued
               THEN Unislot(p, base(p), FALSE)
               ELSE /\ stack' = base(p)
                    /\ UNCHANGED <<disabled, invoked, delLevel, ran>>
    BY <1>3 DEF EmitStep
  <2>2. p \in Proxies
    BY <1>2
  <2>3. Calmer(base(p))
    <3>1. Top.todo \ {p} \in SUBSET Proxies
      BY <1>2
    <3>2. /\ EmitFrame(Top.t, Top.s, Top.todo \ {p}) \in Frame
          /\ EmitFrame(Top.t, Top.s, Top.todo \ {p}).kind = "emit"
      BY <1>2, <3>1, FrameTypes
    <3> QED
      BY <1>1, <3>2, CalmerAppend
  <2>4. queue' \in Seq(Event)
    <3>1. queue \in Seq(Event)
      BY DEF TypeOK
    <3> QED
      BY <1>2, <2>1, <2>2, <3>1, PostsType, ConcatProperties
  <2>5. heard' \subseteq Proxies
    BY <2>1, <2>2 DEF TypeOK
  <2>6. /\ delLevel' \in [Proxies -> Nat]
        /\ disabled' \subseteq Proxies
        /\ invoked' \subseteq Proxies
        /\ ran' \subseteq Proxies
        /\ stack' \in Seq(Frame) /\ stack' # << >> /\ stack'[1] = LoopFrame
    <3>1. CASE Unislot(p, base(p), FALSE)
      <4> HIDE DEF base
      <4> QED
        BY <2>2, <2>3, <3>1, UnislotType
    <3>2. CASE stack' = base(p) /\ UNCHANGED <<disabled, invoked, delLevel, ran>>
      <4> HIDE DEF base
      <4> QED
        BY <2>3, <3>2 DEF Calmer, TypeOK
    <3> QED
      BY <2>1, <3>1, <3>2
  <2> QED
    BY <1>3, <2>4, <2>5, <2>6 DEF EmitStep, TypeOK
<1>4. ASSUME EmitDone PROVE TypeOK'
  BY <1>1, <1>4 DEF EmitDone, TypeOK, Calmer
<1>5. ASSUME DestroyDone PROVE TypeOK'
  BY <1>1, <1>2, <1>5 DEF DestroyDone, TypeOK, Calmer
<1> QED
  BY <1>3, <1>4, <1>5

LEMMA EventLoopType == ASSUME TypeOK, EventLoop PROVE TypeOK'
<1>1. ASSUME PyEvent PROVE TypeOK'
  BY <1>1, StackTypes, CalmerAppend, FrameTypes DEF PyEvent, TypeOK
<1>2. ASSUME Deliver PROVE TypeOK'
  <2>1. /\ queue' \in Seq(Event)
        /\ Head(queue) \in Event
    BY <1>2, HeadTailProperties DEF Deliver, TypeOK
  <2>2. Head(queue).p \in Proxies
    BY <2>1 DEF Event
  <2>3. CASE UNCHANGED <<disabled, invoked, delLevel, stack, ran>>
    BY <1>2, <2>1, <2>3 DEF Deliver, TypeOK
  <2>4. CASE Unislot(Head(queue).p, stack, TRUE)
    <3>1. /\ delLevel' \in [Proxies -> Nat]
          /\ disabled' \subseteq Proxies
          /\ invoked' \subseteq Proxies
          /\ ran' \subseteq Proxies
          /\ stack' \in Seq(Frame) /\ stack' # << >> /\ stack'[1] = LoopFrame
      BY <2>2, <2>4, StackTypes, UnislotType
    <3> QED
      BY <1>2, <2>1, <3>1 DEF Deliver, TypeOK
  <2>5. CASE /\ Disable({Head(queue).p}, Level + 1)
             /\ UNCHANGED <<invoked, stack, ran>>
    <3>1. delLevel' \in [Proxies -> Nat] /\ disabled' \subseteq Proxies
      BY <2>2, <2>5, LevelType, DisableType
    <3> QED
      BY <1>2, <2>1, <2>5, <3>1 DEF Deliver, TypeOK
  <2> QED
    BY <1>2, <2>3, <2>4, <2>5 DEF Deliver
<1>3. ASSUME NEW p \in Proxies, TimerFire(p) PROVE TypeOK'
  <2>1. /\ delLevel' \in [Proxies -> Nat]
        /\ disabled' \subseteq Proxies
        /\ invoked' \subseteq Proxies
        /\ ran' \subseteq Proxies
        /\ stack' \in Seq(Frame) /\ stack' # << >> /\ stack'[1] = LoopFrame
    BY <1>3, StackTypes, UnislotType DEF TimerFire
  <2> QED
    BY <1>3, <2>1 DEF TimerFire, TypeOK
<1>4. ASSUME NEW p \in Proxies, DeferredDelete(p) PROVE TypeOK'
  BY <1>4 DEF DeferredDelete, Unfiled, TypeOK
<1> QED
  BY <1>1, <1>2, <1>3, <1>4 DEF EventLoop

LEMMA ReturnType == ASSUME TypeOK, Return PROVE TypeOK'
<1>1. Calmer(Popped) /\ Top \in Frame
  BY StackTypes DEF Return, SlotReturn, EventReturn, LoopExit
<1>2. ASSUME SlotReturn PROVE TypeOK'
  <2>1. delLevel' \in [Proxies -> Nat] /\ invoked' \subseteq Proxies
    <3>1. CASE UNCHANGED <<invoked, delLevel>>
      BY <3>1 DEF TypeOK
    <3>2. CASE /\ invoked' = invoked \ {Top.p}
               /\ DeleteLater(IF SelfDestructs(Top.p) THEN {Top.p} ELSE {},
                              Level)
      BY <3>2, LevelType, DeleteLaterType DEF TypeOK
    <3> QED
      BY <1>2, <3>1, <3>2 DEF SlotReturn
  <2> QED
    BY <1>1, <1>2, <2>1 DEF SlotReturn, TypeOK, Calmer
<1>3. ASSUME EventReturn \/ LoopExit PROVE TypeOK'
  BY <1>1, <1>3 DEF EventReturn, LoopExit, TypeOK, Calmer
<1> QED
  BY <1>2, <1>3 DEF Return

LEMMA NextType == ASSUME TypeOK, [Next]_vars PROVE TypeOK'
<1>1. CASE UNCHANGED vars
  BY <1>1 DEF vars, TypeOK
<1> QED
  BY <1>1, ApplicationType, EventLoopType, EmissionType, ReturnType DEF Next

-----------------------------------------------------------------------------
(* The invariant.                                                          *)

\* A step that enters no slot, leaves none, and creates no proxy.
LEMMA QuietStep ==
    ASSUME IInv, TypeOK', Calmer(stack'),
           UNCHANGED <<info, invoked>>,
           timer' \subseteq timer,
           conn' \subseteq conn,
           hash' \subseteq hash,
           disabled \subseteq disabled',
           \A p \in Proxies : (state'[p] = "unused") <=> (state[p] = "unused"),
           \A p \in Proxies : state'[p] = "deleted" =>
                               state[p] = "deleted" \/ delLevel[p] > 0,
           \A p \in Proxies : delLevel'[p] > 0 =>
                               \/ delLevel[p] > 0
                               \/ /\ p \in disabled' /\ p \notin invoked
                                  /\ state[p] # "unused",
           \A p \in Proxies : Posted("call", p)' => Posted("call", p) \/ p \in conn
    PROVE  IInv'
<1>1. UnusedInert'
  <2> SUFFICES ASSUME NEW p \in Proxies, state'[p] = "unused"
               PROVE  /\ p \notin conn' /\ p \notin timer'
                      /\ p \notin invoked' /\ p \notin hash'
                      /\ delLevel'[p] = 0
                      /\ ~Posted("call", p)'
    BY DEF UnusedInert
  <2>1. delLevel'[p] \in Nat
    BY DEF TypeOK
  <2> QED
    BY <2>1 DEF IInv, UnusedInert
<1>2. SingleByTimer'
  BY DEF IInv, SingleByTimer
<1>3. ExecutingExists'
  <2> SUFFICES ASSUME NEW i \in 1..Len(stack'), stack'[i].kind = "slot"
               PROVE  state'[stack'[i].p] # "unused" /\ stack'[i].p \notin timer'
    BY DEF ExecutingExists
  <2>1. i \in 1..Len(stack) /\ stack'[i] = stack[i]
    BY DEF Calmer
  <2>2. stack[i].p \in Proxies
    BY <2>1, ElementOfSeq, FrameTypes DEF IInv, TypeOK
  <2> QED
    BY <2>1, <2>2 DEF IInv, ExecutingExists
<1>4. DoomedInert'
  BY DEF IInv, DoomedInert
<1>5. InvokedIsExecuting'
  BY DEF IInv, InvokedIsExecuting, Calmer
<1> QED
  BY <1>1, <1>2, <1>3, <1>4, <1>5 DEF IInv

\* The call of unislot() for a proxy that is there to be called.
LEMMA UnislotStep ==
    ASSUME IInv, TypeOK',
           NEW p \in Proxies, NEW base, Calmer(base), NEW ev \in BOOLEAN,
           Unislot(p, base, ev),
           UNCHANGED <<state, info, conn, hash>>,
           state[p] # "unused",
           info[p].single => p \in timer,
           timer' \subseteq timer, p \notin timer',
           \A q \in Proxies : Posted("call", q)' => Posted("call", q) \/ q \in conn
    PROVE  IInv'
<1> USE DEF IInv
<1>1. CASE Ignores(p) /\ stack' = base /\ UNCHANGED <<disabled, invoked, delLevel>>
  BY <1>1, QuietStep
<1>2. UnusedInert' /\ SingleByTimer'
  <2>1. \A q \in Proxies : q \in invoked' => q \in invoked \/ q = p
    BY DEF Unislot, TypeOK
  <2>2. \A q \in Proxies : q # p => delLevel'[q] = delLevel[q]
    BY DEF Unislot, DeleteLater, TypeOK
  <2> QED
    BY <2>1, <2>2 DEF UnusedInert, SingleByTimer
<1>3. ASSUME p \notin disabled
      PROVE  state[p] # "deleted" /\ ~(delLevel[p] > 0)
  BY <1>3 DEF DoomedInert
<1>4. CASE /\ ~Ignores(p)
           /\ MayEnter({p})
           /\ disabled' = disabled \cup {p}
           /\ invoked' = invoked \ {p}
           /\ DeleteLater({p}, IF ev THEN Level + 1 ELSE Level)
           /\ stack' = base
  <2>1. ExecutingExists'
    <3> SUFFICES ASSUME NEW i \in 1..Len(base), base[i].kind = "slot"
                 PROVE  state[base[i].p] # "unused" /\ base[i].p \notin timer'
      BY <1>4 DEF ExecutingExists
    <3> QED
      BY DEF Calmer, ExecutingExists
  <2>2. DoomedInert'
    BY <1>4 DEF DoomedInert, DeleteLater, TypeOK
  <2>3. InvokedIsExecuting'
    <3> SUFFICES ASSUME "reenter" \notin Features PROVE InvokedIsExecuting'
      BY DEF InvokedIsExecuting
    <3>1. p \notin invoked
      BY <1>4 DEF MayEnter
    <3>2. invoked' = invoked
      BY <1>4, <3>1
    <3> QED
      BY <1>4, <3>2 DEF InvokedIsExecuting, Calmer
  <2> QED
    BY <1>2, <2>1, <2>2, <2>3
<1>5. CASE /\ ~Ignores(p)
           /\ MayEnter({p})
           /\ invoked' = invoked \cup {p}
           /\ stack' = Append(base, SlotFrame(p, ev))
           /\ UNCHANGED <<disabled, delLevel>>
  <2>1. /\ SlotFrame(p, ev) \in Frame
        /\ SlotFrame(p, ev).kind = "slot"
        /\ SlotFrame(p, ev).p = p
    BY FrameTypes
  <2>2. /\ Len(stack') = Len(base) + 1
        /\ \A i \in 1..Len(base) : stack'[i] = base[i]
        /\ stack'[Len(base) + 1] = SlotFrame(p, ev)
    BY <1>5, <2>1, CalmerAppend
  <2>3. Len(base) \in Nat
    BY LenProperties DEF Calmer
  <2>4. \A i \in 1..Len(stack') : stack'[i].kind = "slot" =>
           \/ i = Len(base) + 1 /\ stack'[i].p = p
           \/ /\ i \in 1..Len(base) /\ i \in 1..Len(stack)
              /\ stack'[i] = stack[i]
    BY <2>1, <2>2, <2>3 DEF Calmer
  <2>5. ExecutingExists'
    BY <2>4 DEF ExecutingExists
  <2>6. DoomedInert'
    BY <1>3, <1>5 DEF DoomedInert, Ignores, TypeOK
  <2>7. InvokedIsExecuting'
    <3> SUFFICES ASSUME "reenter" \notin Features PROVE InvokedIsExecuting'
      BY DEF InvokedIsExecuting
    <3>1. p \notin invoked
      BY <1>5 DEF MayEnter
    <3>2. \A i \in 1..Len(stack) : stack[i].kind = "slot" =>
            stack[i].p \in invoked /\ stack[i].p # p
      BY <3>1 DEF InvokedIsExecuting
    <3>3. \A i \in 1..Len(stack') : stack'[i].kind = "slot" =>
            stack'[i].p \in invoked'
      BY <1>5, <2>4, <3>2
    <3>4. ASSUME NEW i \in 1..Len(stack'), NEW j \in 1..Len(stack'),
                 stack'[i].kind = "slot", stack'[j].kind = "slot", i # j
          PROVE  stack'[i].p # stack'[j].p
      BY <2>4, <3>2, <3>4 DEF InvokedIsExecuting
    <3> QED
      BY <3>3, <3>4 DEF InvokedIsExecuting
  <2> QED
    BY <1>2, <2>5, <2>6, <2>7
<1> QED
  BY <1>1, <1>4, <1>5 DEF Unislot

\* The end of unislot().
LEMMA SlotReturnStep == ASSUME IInv, TypeOK', SlotReturn PROVE IInv'
<1> USE DEF IInv
<1>1. /\ Calmer(Popped) /\ stack' = Popped
      /\ Len(stack) \in Nat \ {0}
      /\ Len(Popped) = Len(stack) - 1
      /\ \A i \in 1..Len(Popped) : Popped[i] = stack[i]
  BY StackTypes DEF SlotReturn
<1>2. Top.p \in Proxies
  BY StackTypes, FrameTypes DEF SlotReturn
<1>3. state[Top.p] # "unused" /\ Top.p \notin timer
  BY <1>1 DEF ExecutingExists, Top, SlotReturn
<1>4. CASE state[Top.p] # "live"
  BY <1>1, <1>4, QuietStep DEF SlotReturn, Posted
<1>5. CASE state[Top.p] = "live"
  <2>1. /\ invoked' = invoked \ {Top.p}
        /\ DeleteLater(IF SelfDestructs(Top.p) THEN {Top.p} ELSE {}, Level)
    BY <1>5 DEF SlotReturn
  <2>2. UnusedInert' /\ SingleByTimer'
    BY <1>3, <2>1
       DEF UnusedInert, SingleByTimer, SlotReturn, DeleteLater, Posted
  <2>3. ExecutingExists'
    BY <1>1 DEF ExecutingExists, SlotReturn, Calmer
  <2>4. DoomedInert'
    BY <1>2, <1>3, <2>1
       DEF DoomedInert, DeleteLater, SelfDestructs, SlotReturn, TypeOK
  <2>5. InvokedIsExecuting'
    <3> SUFFICES ASSUME "reenter" \notin Features PROVE InvokedIsExecuting'
      BY DEF InvokedIsExecuting
    <3>1. \A i \in 1..Len(stack) - 1 : stack[i].kind = "slot" =>
            stack[i].p \in invoked /\ stack[i].p # Top.p
      BY <1>1 DEF InvokedIsExecuting, Top, SlotReturn
    <3> QED
      BY <1>1, <2>1, <3>1 DEF InvokedIsExecuting
  <2> QED
    BY <2>2, <2>3, <2>4, <2>5
<1> QED
  BY <1>4, <1>5

\* The creation of a proxy.
LEMMA NewProxyStep ==
    ASSUME IInv, TypeOK', NEW p \in Proxies, NEW i \in Info,
           Fresh(p), NewProxy(p, i),
           UNCHANGED <<disabled, invoked, delLevel, stack, queue>>,
           conn' \subseteq conn \cup {p}, timer' \subseteq timer \cup {p},
           p \in timer' => i.single,
           i.single => p \notin conn'
    PROVE  IInv'
<1> USE DEF IInv
<1>1. /\ state[p] = "unused"
      /\ state' = [state EXCEPT ![p] = "live"]
      /\ info' = [info EXCEPT ![p] = i]
  BY DEF Fresh, NewProxy
<1>2. /\ \A q \in Proxies : Posted("call", q)' = Posted("call", q)
      /\ \A q \in Proxies \ {p} : state'[q] = state[q] /\ info'[q] = info[q]
      /\ state'[p] = "live" /\ info'[p] = i
      /\ hash' \subseteq hash \cup {p}
  BY <1>1 DEF Posted, NewProxy, TypeOK
<1>3. UnusedInert' /\ SingleByTimer'
  <2>1. UnusedInert'
    BY <1>2 DEF UnusedInert
  <2>2. SingleByTimer'
    BY <1>1, <1>2 DEF SingleByTimer, UnusedInert
  <2> QED
    BY <2>1, <2>2
<1>4. ASSUME NEW j \in 1..Len(stack), stack[j].kind = "slot"
      PROVE  stack[j].p \in Proxies /\ stack[j].p # p
  <2>1. stack[j] \in Frame
    BY ElementOfSeq DEF TypeOK
  <2>2. stack[j].p \in Proxies
    BY <1>4, <2>1, FrameTypes
  <2>3. state[stack[j].p] # "unused"
    BY <1>4 DEF ExecutingExists
  <2> QED
    BY <1>1, <2>2, <2>3
<1>5. ExecutingExists'
  <2> SUFFICES ASSUME NEW j \in 1..Len(stack), stack[j].kind = "slot"
               PROVE  state'[stack[j].p] # "unused" /\ stack[j].p \notin timer'
    BY DEF ExecutingExists
  <2>1. stack[j].p \in Proxies /\ stack[j].p # p
    BY <1>4
  <2>2. state[stack[j].p] # "unused" /\ stack[j].p \notin timer
    BY DEF ExecutingExists
  <2> QED
    BY <1>1, <2>1, <2>2 DEF TypeOK
<1>6. ASSUME NEW q \in Proxies, state'[q] = "deleted" \/ delLevel[q] > 0
      PROVE  q \notin invoked /\ (q \in disabled \/ (info'[q].single /\ q \notin timer'))
  <2>1. q # p
    BY <1>1, <1>6 DEF UnusedInert, TypeOK
  <2> QED
    BY <1>1, <1>6, <2>1 DEF DoomedInert, TypeOK
<1>7. DoomedInert'
  BY <1>6 DEF DoomedInert
<1>8. InvokedIsExecuting'
  BY DEF InvokedIsExecuting
<1> QED
  BY <1>3, <1>5, <1>7, <1>8

LEMMA InitInv == Init => IInv
<1> SUFFICES ASSUME Init PROVE IInv
  OBVIOUS
<1>1. TypeOK
  BY InitType
<1>2. /\ Len(stack) = 1 /\ stack[1].kind = "loop"
      /\ Len(queue) = 0
  BY DEF Init, LoopFrame
<1>3. UnusedInert /\ SingleByTimer /\ DoomedInert
  BY <1>2 DEF Init, UnusedInert, SingleByTimer, DoomedInert, Posted
<1>4. ExecutingExists /\ InvokedIsExecuting
  BY <1>2 DEF ExecutingExists, InvokedIsExecuting
<1> QED
  BY <1>1, <1>3, <1>4 DEF IInv

\* What disable() does to proxies that exist.
LEMMA DisableStep ==
    ASSUME IInv, NEW S \in SUBSET Proxies, NEW level, Disable(S, level),
           \A p \in S : state[p] # "unused"
    PROVE  /\ disabled \subseteq disabled'
           /\ \A p \in Proxies : delLevel'[p] > 0 =>
                \/ delLevel[p] > 0
                \/ /\ p \in disabled' /\ p \notin invoked
                   /\ state[p] # "unused"
BY DEF Disable, DeleteLater, IInv, TypeOK

LEMMA ApplicationInv == ASSUME IInv, Application PROVE IInv'
<1>0. TypeOK' /\ Calmer(stack) /\ TypeOK
  BY ApplicationType, StackTypes DEF IInv
<1>1. ASSUME NEW t \in Transmitters, NEW s \in Signals, NEW slot \in Slots,
             NEW queued \in BOOLEAN, NEW nocheck \in BOOLEAN,
             NEW unique \in BOOLEAN, NEW fails \in BOOLEAN,
             Connect(t, s, slot, queued, nocheck, unique, fails)
      PROVE  IInv'
  <2> DEFINE i == [tx |-> t, sig |-> s, slot |-> slot, queued |-> queued,
                   single |-> FALSE, nocheck |-> nocheck]
  <2>1. i \in Info /\ ~i.single
    BY DEF Info
  <2>2. PICK p \in Proxies :
          /\ Fresh(p) /\ NewProxy(p, i)
          /\ conn' = IF fails THEN conn ELSE conn \cup {p}
    BY <1>1 DEF Connect
  <2>3. /\ UNCHANGED <<disabled, invoked, delLevel, stack, queue, timer>>
        /\ conn' \subseteq conn \cup {p}
    BY <1>1, <2>2 DEF Connect
  <2>4. p \notin timer
    BY <2>2 DEF Fresh, IInv, UnusedInert
  <2> HIDE DEF i
  <2> QED
    BY <1>0, <2>1, <2>2, <2>3, <2>4, NewProxyStep
<1>2. ASSUME NEW slot \in Slots, SingleShot(slot) PROVE IInv'
  <2> DEFINE i(s) == [tx |-> NoTx, sig |-> s, slot |-> slot, queued |-> FALSE,
                      single |-> TRUE, nocheck |-> FALSE]
  <2>1. PICK p \in Proxies, s \in Signals \ {Destroyed} :
          /\ Fresh(p) /\ NewProxy(p, i(s)) /\ timer' = timer \cup {p}
    BY <1>2 DEF SingleShot
  <2>2. i(s) \in Info /\ i(s).single
    BY DEF Info
  <2>3. UNCHANGED <<disabled, invoked, delLevel, stack, queue, conn>>
    BY <1>2 DEF SingleShot
  <2>4. p \notin conn
    BY <2>1 DEF Fresh, IInv, UnusedInert
  <2> HIDE DEF i
  <2> QED
    BY <1>0, <2>1, <2>2, <2>3, <2>4, NewProxyStep
<1>3. ASSUME NEW t \in Transmitters, NEW s \in Signals, NEW slot \in Slots,
             Disconnect(t, s, slot)
      PROVE  IInv'
  <2>1. PICK p \in hash : conn' = conn \ {p} /\ Disable({p}, Level)
    BY <1>3 DEF Disconnect, FindSlotProxy, Matches, Filed
  <2>2. p \in Proxies /\ state[p] # "unused"
    BY DEF IInv, UnusedInert, TypeOK
  <2> QED
    BY <1>0, <1>3, <2>1, <2>2, DisableStep, QuietStep DEF Disconnect, Posted
<1>4. ASSUME NEW p \in Proxies, DisconnectHandle(p) PROVE IInv'
  <2>1. state[p] # "unused"
    BY <1>4 DEF DisconnectHandle, IInv, UnusedInert
  <2>2. /\ conn' = conn \ {p} /\ hash' = hash \ {p} /\ Disable({p}, Level)
        /\ UNCHANGED <<state, info, invoked, queue, timer, stack>>
    BY <1>4 DEF DisconnectHandle
  <2>3. \A q \in Proxies : Posted("call", q)' => Posted("call", q)
    BY <2>2 DEF Posted
  <2>4. /\ disabled \subseteq disabled'
        /\ \A q \in Proxies : delLevel'[q] > 0 =>
             \/ delLevel[q] > 0
             \/ /\ q \in disabled' /\ q \notin invoked
                /\ state[q] # "unused"
    BY <2>1, <2>2, DisableStep
  <2> QED
    BY <1>0, <2>2, <2>3, <2>4, QuietStep
<1>5. ASSUME NEW t \in Transmitters, NEW s \in Signals, DisconnectSignal(t, s)
      PROVE  IInv'
  <2>1. Filed(t, s) \in SUBSET Proxies /\ \A p \in Filed(t, s) : state[p] # "unused"
    BY DEF Filed, IInv, UnusedInert, TypeOK
  <2> QED
    BY <1>0, <1>5, <2>1, DisableStep, QuietStep DEF DisconnectSignal, Posted
<1>6. ASSUME NEW t \in Transmitters, DisconnectAll(t) PROVE IInv'
  <2> DEFINE filed == {p \in hash : info[p].tx = t}
  <2>1. filed \in SUBSET Proxies /\ \A p \in filed : state[p] # "unused"
    BY DEF IInv, UnusedInert, TypeOK
  <2>2. /\ conn' = {p \in conn : info[p].tx # t}
        /\ hash' = hash \ filed
        /\ Disable(filed, Level)
    BY <1>6 DEF DisconnectAll
  <2> HIDE DEF filed
  <2> QED
    BY <1>0, <1>6, <2>1, <2>2, DisableStep, QuietStep DEF DisconnectAll, Posted
<1>7. ASSUME NEW t \in Transmitters, NEW s \in Signals, Emit(t, s)
      PROVE  IInv'
  <2>1. Connected(t, s) \in SUBSET Proxies
    BY DEF Connected, IInv, TypeOK
  <2>2. Calmer(stack')
    BY <1>0, <1>7, <2>1, CalmerAppend, FrameTypes DEF Emit
  <2> QED
    BY <1>0, <1>7, <2>2, QuietStep DEF Emit, Posted
<1>8. ASSUME NEW t \in Transmitters, Destroy(t) PROVE IInv'
  <2>1. Connected(t, Destroyed) \cup Watching(t) \in SUBSET Proxies
    BY DEF Connected, Watching, IInv, TypeOK
  <2>2. Calmer(stack')
    BY <1>0, <1>8, <2>1, CalmerAppend, FrameTypes, SignalsAssumption DEF Destroy
  <2> QED
    BY <1>0, <1>8, <2>2, QuietStep DEF Destroy, Posted
<1>9. ASSUME NEW t \in Transmitters, Create(t) \/ ClearSlotProxies(t)
      PROVE  IInv'
  BY <1>0, <1>9, QuietStep DEF Create, ClearSlotProxies, Posted
<1>10. ASSUME NEW slot \in Slots, LoseReceiver(slot) \/ CollectReceiver(slot)
       PROVE  IInv'
  BY <1>0, <1>10, QuietStep DEF LoseReceiver, CollectReceiver, Posted
<1>11. ASSUME EnterLoop PROVE IInv'
  <2>1. Calmer(stack')
    BY <1>0, <1>11, CalmerAppend, FrameTypes DEF EnterLoop
  <2> QED
    BY <1>0, <1>11, <2>1, QuietStep DEF EnterLoop, Posted
<1> QED
  BY <1>1, <1>2, <1>3, <1>4, <1>5, <1>6, <1>7, <1>8, <1>9, <1>10, <1>11
     DEF Application

LEMMA EmissionInv ==
    ASSUME IInv, EmitStep \/ EmitDone \/ DestroyDone PROVE IInv'
<1>1. /\ TypeOK' /\ TypeOK
      /\ Calmer(Popped) /\ Top \in Frame /\ Top.kind = "emit"
  BY EmissionType, StackTypes DEF IInv, EmitStep, EmitDone, DestroyDone
<1>2. Top.t \in Transmitters /\ Top.s \in Signals /\ Top.todo \subseteq Proxies
  BY <1>1, FrameTypes
<1>3. ASSUME EmitStep PROVE IInv'
  <2> DEFINE base(p) == Append(Popped, EmitFrame(Top.t, Top.s, Top.todo \ {p}))
             calls(p) == p \in conn /\ info[p].sig = Top.s
  <2>1. PICK p \in Top.todo :
          /\ queue' = queue \o Posts(p, Top.s)
          /\ IF calls(p) /\ ~info[p].queued
               THEN Unislot(p, base(p), FALSE)
               ELSE /\ stack' = base(p)
                    /\ UNCHANGED <<disabled, invoked, delLevel, ran>>
    BY <1>3 DEF EmitStep
  <2>2. UNCHANGED <<state, info, hash, conn, timer>>
    BY <1>3 DEF EmitStep
  <2>3. p \in Proxies
    BY <1>2
  <2>4. Calmer(base(p))
    <3>1. Top.todo \ {p} \in SUBSET Proxies
      BY <1>2
    <3>2. /\ EmitFrame(Top.t, Top.s, Top.todo \ {p}) \in Frame
          /\ EmitFrame(Top.t, Top.s, Top.todo \ {p}).kind = "emit"
      BY <1>2, <3>1, FrameTypes
    <3> QED
      BY <1>1, <3>2, CalmerAppend
  <2>5. ASSUME NEW q \in Proxies, Posted("call", q)'
        PROVE  Posted("call", q) \/ q \in conn
    <3>1. PICK i \in 1..Len(queue') : queue'[i] = [kind |-> "call", p |-> q]
      BY <2>5 DEF Posted
    <3>2. queue \in Seq(Event) /\ Posts(p, Top.s) \in Seq(Event)
      BY <1>1, <1>2, <2>3, PostsType DEF TypeOK
    <3>3. /\ Len(queue') = Len(queue) + Len(Posts(p, Top.s))
          /\ Len(queue) \in Nat /\ Len(Posts(p, Top.s)) \in Nat
          /\ queue'[i] = IF i <= Len(queue) THEN queue[i]
                         ELSE Posts(p, Top.s)[i - Len(queue)]
      BY <2>1, <3>1, <3>2, ConcatProperties, LenProperties
    <3>4. CASE i <= Len(queue)
      BY <3>1, <3>3, <3>4 DEF Posted
    <3>5. CASE ~(i <= Len(queue))
      <4>1. PICK j \in 1..Len(Posts(p, Top.s)) :
              Posts(p, Top.s)[j] = [kind |-> "call", p |-> q]
        BY <3>1, <3>3, <3>5
      <4>2. q = p /\ p \in conn
        <5> DEFINE a == IF Top.s = Destroyed /\ p \in dconn
                          THEN <<[kind |-> "disable", p |-> p]>> ELSE << >>
                   b == IF p \in conn /\ info[p].sig = Top.s /\ info[p].queued
                          THEN <<[kind |-> "call", p |-> p]>> ELSE << >>
        <5>1. Posts(p, Top.s) = a \o b
          BY DEF Posts
        <5>2. a \in Seq(Event) /\ b \in Seq(Event)
          <6>1. \A k \in {"call", "disable"} :
                  <<[kind |-> k, p |-> p]>> \in Seq(Event)
            BY <2>3 DEF Event
          <6>2. << >> \in Seq(Event)
            OBVIOUS
          <6> QED
            BY <6>1, <6>2
        <5>3. /\ Len(a \o b) = Len(a) + Len(b)
              /\ (a \o b)[j] = IF j <= Len(a) THEN a[j] ELSE b[j - Len(a)]
          <6> HIDE DEF a, b
          <6> QED
            BY <4>1, <5>1, <5>2, ConcatProperties
        <5>4. \A k \in 1..Len(a) : a[k] = [kind |-> "disable", p |-> p]
          OBVIOUS
        <5>5. \A k \in 1..Len(b) : b[k] = [kind |-> "call", p |-> p] /\ p \in conn
          OBVIOUS
        <5>6. Len(a) \in Nat /\ Len(b) \in Nat
          OBVIOUS
        <5>7. [kind |-> "disable", p |-> p] # [kind |-> "call", p |-> q]
          OBVIOUS
        <5>8. CASE j <= Len(a)
          <6> HIDE DEF a, b
          <6> QED
            BY <4>1, <5>1, <5>3, <5>4, <5>6, <5>7, <5>8
        <5>9. CASE ~(j <= Len(a))
          <6> HIDE DEF a, b
          <6>1. j - Len(a) \in 1..Len(b)
            BY <5>1, <5>3, <5>6, <5>9
          <6>2. [kind |-> "call", p |-> p] = [kind |-> "call", p |-> q]
            BY <4>1, <5>1, <5>3, <5>5, <5>9, <6>1
          <6> QED
            BY <5>5, <6>1, <6>2
        <5> QED
          BY <5>8, <5>9
      <4> QED
        BY <4>2
    <3> QED
      BY <3>4, <3>5
  <2>6. CASE calls(p) /\ Unislot(p, base(p), FALSE)
    <3>1. p \in conn
      BY <2>6
    <3>2. state[p] # "unused" /\ ~info[p].single /\ p \notin timer
      BY <2>3, <3>1 DEF IInv, UnusedInert, SingleByTimer
    <3> HIDE DEF base
    <3> QED
      BY <1>1, <2>2, <2>3, <2>4, <2>5, <2>6, <3>2, UnislotStep
  <2>7. CASE stack' = base(p) /\ UNCHANGED <<disabled, invoked, delLevel, ran>>
    <3> HIDE DEF base
    <3> QED
      BY <1>1, <2>2, <2>4, <2>5, <2>7, QuietStep
  <2> QED
    BY <2>1, <2>6, <2>7
<1>4. ASSUME EmitDone PROVE IInv'
  BY <1>1, <1>4, QuietStep DEF EmitDone, Posted
<1>5. ASSUME DestroyDone PROVE IInv'
  BY <1>1, <1>5, QuietStep DEF DestroyDone, Posted
<1> QED
  BY <1>3, <1>4, <1>5

LEMMA EventLoopInv == ASSUME IInv, EventLoop PROVE IInv'
<1>0. TypeOK' /\ Calmer(stack) /\ TypeOK
  BY EventLoopType, StackTypes DEF IInv
<1>1. ASSUME PyEvent PROVE IInv'
  <2>1. Calmer(stack')
    BY <1>0, <1>1, CalmerAppend, FrameTypes DEF PyEvent
  <2> QED
    BY <1>0, <1>1, <2>1, QuietStep DEF PyEvent, Posted
<1>2. ASSUME Deliver PROVE IInv'
  <2> DEFINE p == Head(queue).p
  <2>1. /\ queue # << >> /\ queue' = Tail(queue) /\ queue \in Seq(Event)
        /\ UNCHANGED <<state, info, hash, conn, timer>>
    BY <1>0, <1>2 DEF Deliver, TypeOK
  <2>2. /\ Len(queue) \in Nat \ {0} /\ Len(queue') = Len(queue) - 1
        /\ \A i \in 1..Len(queue') : queue'[i] = queue[i + 1]
        /\ Head(queue) = queue[1] /\ Head(queue) \in Event
    BY <2>1, HeadTailProperties, EmptySeq
  <2>3. \A q \in Proxies : Posted("call", q)' => Posted("call", q)
    <3> SUFFICES ASSUME NEW q \in Proxies,
                        NEW i \in 1..Len(queue'),
                        queue'[i] = [kind |-> "call", p |-> q]
                 PROVE  \E j \in 1..Len(queue) :
                          queue[j] = [kind |-> "call", p |-> q]
      BY DEF Posted
    <3>1. i + 1 \in 1..Len(queue) /\ queue[i + 1] = queue'[i]
      BY <2>2
    <3> QED
      BY <3>1
  <2>4. p \in Proxies
    BY <2>2 DEF Event
  <2>5. CASE UNCHANGED <<disabled, invoked, delLevel, stack, ran>>
    BY <1>0, <2>1, <2>3, <2>5, QuietStep
  <2>6. CASE /\ state[p] = "live" /\ Head(queue).kind = "call"
             /\ Unislot(p, stack, TRUE)
    <3>1. Head(queue) = [kind |-> "call", p |-> p]
      BY <2>2, <2>6 DEF Event
    <3>2. Posted("call", p)
      BY <2>2, <3>1 DEF Posted
    <3>3. ~info[p].single /\ p \notin timer
      BY <2>4, <3>2 DEF IInv, SingleByTimer
    <3> HIDE DEF p
    <3> QED
      BY <1>0, <2>1, <2>3, <2>4, <2>6, <3>3, UnislotStep
  <2>7. CASE /\ state[p] = "live" /\ Disable({p}, Level + 1)
             /\ UNCHANGED <<invoked, stack, ran>>
    <3> HIDE DEF p
    <3>1. {p} \in SUBSET Proxies /\ \A q \in {p} : state[q] # "unused"
      BY <2>4, <2>7
    <3>2. /\ disabled \subseteq disabled'
          /\ \A q \in Proxies : delLevel'[q] > 0 =>
               \/ delLevel[q] > 0
               \/ /\ q \in disabled' /\ q \notin invoked
                  /\ state[q] # "unused"
      BY <2>7, <3>1, DisableStep
    <3> QED
      BY <1>0, <2>1, <2>3, <2>7, <3>2, QuietStep
  <2> QED
    BY <1>2, <2>5, <2>6, <2>7 DEF Deliver
<1>3. ASSUME NEW p \in Proxies, TimerFire(p) PROVE IInv'
  <2>1. /\ p \in timer /\ timer' = timer \ {p} /\ Unislot(p, stack, TRUE)
        /\ UNCHANGED <<state, info, conn, hash, queue>>
    BY <1>3 DEF TimerFire
  <2>2. state[p] # "unused"
    BY <2>1 DEF IInv, UnusedInert
  <2>3. \A q \in Proxies : Posted("call", q)' => Posted("call", q)
    BY <2>1 DEF Posted
  <2> QED
    BY <1>0, <2>1, <2>2, <2>3, UnislotStep
<1>4. ASSUME NEW p \in Proxies, DeferredDelete(p) PROVE IInv'
  <2>1. /\ delLevel[p] > 0
        /\ state' = [state EXCEPT ![p] = "deleted"]
        /\ delLevel' = [delLevel EXCEPT ![p] = 0]
        /\ hash' = hash \ {p} /\ conn' = conn \ {p}
        /\ UNCHANGED <<info, disabled, invoked, queue, timer, stack>>
    <3>1. delLevel[p] > Level /\ Level \in Nat /\ delLevel[p] \in Nat
      BY <1>0, <1>4, LevelType DEF DeferredDelete, TypeOK
    <3> QED
      BY <1>4, <3>1 DEF DeferredDelete, Unfiled
  <2>2. state[p] # "unused"
    BY <2>1 DEF IInv, UnusedInert
  <2>3. \A q \in Proxies : Posted("call", q)' => Posted("call", q)
    BY <2>1 DEF Posted
  <2>4. /\ \A q \in Proxies : (state'[q] = "unused") <=> (state[q] = "unused")
        /\ \A q \in Proxies : state'[q] = "deleted" =>
                              state[q] = "deleted" \/ delLevel[q] > 0
        /\ \A q \in Proxies : delLevel'[q] > 0 => delLevel[q] > 0
    BY <1>0, <2>1, <2>2 DEF TypeOK
  <2> QED
    BY <1>0, <2>1, <2>3, <2>4, QuietStep
<1> QED
  BY <1>1, <1>2, <1>3, <1>4 DEF EventLoop

LEMMA ReturnInv == ASSUME IInv, Return PROVE IInv'
<1>0. TypeOK' /\ Calmer(Popped)
  BY ReturnType, StackTypes DEF IInv, Return, SlotReturn, EventReturn, LoopExit
<1>1. ASSUME EventReturn \/ LoopExit PROVE IInv'
  BY <1>0, <1>1, QuietStep DEF EventReturn, LoopExit, Posted
<1> QED
  BY <1>0, <1>1, SlotReturnStep DEF Return

LEMMA StutterInv == ASSUME IInv, UNCHANGED vars PROVE IInv'
BY NextType, StackTypes, QuietStep DEF vars, IInv, Posted

\* The invariant holds of every reachable state.
THEOREM Invariance == Spec => []IInv
<1>1. Init => IInv
  BY InitInv
<1>2. IInv /\ [Next]_vars => IInv'
  BY ApplicationInv, EventLoopInv, EmissionInv, ReturnInv, StutterInv DEF Next
<1> QED
  BY <1>1, <1>2, PTL DEF Spec

-----------------------------------------------------------------------------
(* What follows.                                                           *)

\* Every reachable state is well typed and its oldest activation is a loop.
THEOREM TypeCorrect == Spec => []TypeOK
<1>1. IInv => TypeOK
  BY DEF IInv
<1> QED
  BY <1>1, Invariance, PTL

\* The assertion in the destructor cannot fail, however the application uses
\* connections, loops and slots.
THEOREM DestructorAsserts == Spec => []DestructorAssert
<1>1. IInv => DestructorAssert
  BY DEF IInv, DoomedInert, DestructorAssert
<1> QED
  BY <1>1, Invariance, PTL

\* As long as no slot is entered again while it executes, the proxy of an
\* executing slot is alive: what the flags of unislot() and disable() are for.
THEOREM ExecutingSurvives ==
    ASSUME "reenter" \notin Features
    PROVE  Spec => []ExecutingAlive
<1>1. IInv => ExecutingAlive
  <2> SUFFICES ASSUME IInv, NEW i \in 1..Len(stack), stack[i].kind = "slot"
               PROVE  state[stack[i].p] = "live"
    BY DEF ExecutingAlive
  <2>1. stack[i].p \in Proxies
    BY ElementOfSeq, FrameTypes DEF IInv, TypeOK
  <2>2. stack[i].p \in invoked /\ state[stack[i].p] # "unused"
    BY DEF IInv, InvokedIsExecuting, ExecutingExists
  <2> QED
    BY <2>1, <2>2 DEF IInv, DoomedInert, TypeOK
<1> QED
  BY <1>1, Invariance, PTL
=============================================================================
