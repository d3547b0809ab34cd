-------------------------- MODULE SlotPromiseProofs --------------------------
(***************************************************************************)
(* More proofs about SlotProxy for any values of its constants: LInv is    *)
(* inductive, relative to IInv, and with it what the proxies promise: that *)
(* they learn of the death of their transmitters, that those are filed     *)
(* that are connected, that the slots of destroyed() and of single shots   *)
(* are called as they should, that disable() is final, and that the        *)
(* proxies implement Connections.                                          *)
(*                                                                         *)
(* Every step but the creation of a proxy is described by three action     *)
(* formulas, LinksKept, WatchKept and RunsKept, each enough to preserve a  *)
(* part of LInv; there is a proof of them for every action.                *)
(***************************************************************************)
EXTENDS SlotProxyProofs

-----------------------------------------------------------------------------
(* Steps of proxies that exist.                                             *)

\* A step that only loosens links, and loosens those of a proxy that stays
\* enabled only when its transmitter goes.
LinksKept ==
    /\ UNCHANGED info
    /\ \A p \in Proxies :
         /\ \/ state'[p] = state[p]
            \/ /\ state[p] = "live" /\ state'[p] = "deleted"
               /\ p \notin hash' /\ p \notin conn' /\ p \notin dconn'
               /\ delLevel'[p] = 0
         /\ state[p] = "deleted" => delLevel'[p] = delLevel[p]
    /\ conn' \subseteq conn /\ hash' \subseteq hash /\ dconn' \subseteq dconn
    /\ disabled \subseteq disabled'
    /\ \A p \in disabled' \ disabled : state[p] = "live"
    /\ \A p \in hash \ hash' : p \in disabled' \/ state'[p] = "deleted"
    /\ \A p \in conn \ conn' : p \in hash' =>
         p \in disabled' \/ txState'[info[p].tx] = "dead"
    /\ \A t \in Transmitters :
         /\ txState'[t] = "dead" =>
              txState[t] = "dead" \/ \A p \in conn' : info[p].tx # t
         /\ txState[t] = "dead" /\ "reuse" \notin Features =>
              txState'[t] = "dead"
    /\ ran \subseteq ran'
    /\ \A p \in ran' \ ran : state[p] = "live" /\ p \notin disabled
    /\ heard \subseteq heard'
    /\ \A p \in heard' \ heard :
         /\ p \in conn /\ info[p].sig = Destroyed
         /\ p \in ran' \/ ~Callable(p)' \/ info[p].queued
    /\ \A p \in heard : Callable(p)' => Callable(p)

\* A step that starts no destructor of a QObject, and moves none past a proxy
\* that watches without posting disable() to it.
DestructorsKept(s) ==
    \A i \in 1..Len(s) : s[i].kind = "emit" /\ s[i].s = Destroyed =>
      /\ i \in 1..Len(stack)
      /\ Destroying(i, s[i].t)
      /\ \A p \in stack[i].todo \cap dconn :
           p \in s[i].todo \/ Posted("disable", p)'

WatchKept ==
    /\ DestructorsKept(stack')
    /\ \A t \in Transmitters :
         /\ txState[t] = "dying" => txState'[t] = "dying"
         /\ txState'[t] = "dead" => txState[t] = "dead"
    /\ \A p \in Proxies : state'[p] = "live" /\ p \notin disabled' =>
         /\ state[p] = "live" /\ info'[p] = info[p] /\ p \notin disabled
         /\ Posted("disable", p) => Posted("disable", p)'
         /\ \/ p \in dconn => p \in dconn'
            \/ "disconnectDestroyed" \in Features

\* A step that leaves the proxy of no slot that has been entered without the
\* slot executing or its deletion pending.
RunsKept ==
    /\ timer' \subseteq timer
    /\ \A p \in ran' \ ran : Executing(p)' /\ p \notin timer'
    /\ \A p \in ran :
         /\ info'[p] = info[p]
         /\ Executing(p) => \/ Executing(p)'
                            \/ state'[p] = "deleted" \/ delLevel'[p] > 0
                            \/ ~info[p].single
         /\ state[p] = "deleted" \/ delLevel[p] > 0 =>
              state'[p] = "deleted" \/ delLevel'[p] > 0

LEMMA LinksStep ==
    ASSUME IInv, LInv, TypeOK', LinksKept
    PROVE  /\ UnusedNew' /\ DeletedForgotten' /\ LinkedToTx'
           /\ ConnectedExists' /\ EnabledFiled' /\ FiledConnected'
           /\ HeardAtOnce'
<1>1. UnusedNew'
  <2> SUFFICES ASSUME NEW p \in Proxies, state'[p] = "unused"
               PROVE  /\ p \notin disabled' /\ p \notin dconn'
                      /\ p \notin heard' /\ p \notin ran'
    BY DEF UnusedNew
  <2>1. state[p] = "unused"
    BY DEF LinksKept
  <2>2. p \notin conn
    BY <2>1 DEF IInv, UnusedInert
  <2> QED
    BY <2>1, <2>2 DEF LInv, UnusedNew, LinksKept
<1>2. DeletedForgotten'
  BY DEF LInv, DeletedForgotten, LinksKept
<1>3. LinkedToTx'
  BY DEF LInv, LinkedToTx, LinksKept
<1>4. ConnectedExists'
  <2> SUFFICES ASSUME NEW p \in conn' PROVE txState'[info[p].tx] # "dead"
    BY DEF ConnectedExists, LinksKept
  <2>1. p \in conn /\ p \in Proxies
    BY DEF LinksKept, TypeOK
  <2>2. info[p].tx \in Transmitters /\ txState[info[p].tx] # "dead"
    BY <2>1 DEF LInv, ConnectedExists, LinkedToTx, IInv, TypeOK
  <2> QED
    BY <2>1, <2>2 DEF LinksKept
<1>5. EnabledFiled'
  BY DEF LInv, EnabledFiled, LinksKept
<1>6. FiledConnected'
  <2> SUFFICES ASSUME {"reuse", "failConnect"} \cap Features = {},
                      NEW p \in hash' \ disabled',
                      txState'[info[p].tx] # "dead"
               PROVE  p \in conn'
    BY DEF FiledConnected, LinksKept
  <2>1. p \in hash \ disabled /\ p \in Proxies
    BY DEF LinksKept, TypeOK
  <2>2. info[p].tx \in Transmitters
    BY <2>1 DEF LInv, LinkedToTx
  <2>3. "reuse" \notin Features
    OBVIOUS
  <2>4. txState[info[p].tx] # "dead"
    BY <2>2, <2>3 DEF LinksKept
  <2>5. p \in conn
    BY <2>1, <2>4 DEF LInv, FiledConnected
  <2> QED
    BY <2>5 DEF LinksKept
<1>7. HeardAtOnce'
  <2> SUFFICES ASSUME "queuedDestroyed" \notin Features
               PROVE  /\ \A p \in conn' : info[p].sig = Destroyed => ~info[p].queued
                      /\ \A p \in heard' : p \in ran' \/ ~Callable(p)'
    BY DEF HeardAtOnce, LinksKept
  <2>1. /\ \A p \in conn : info[p].sig = Destroyed => ~info[p].queued
        /\ \A p \in heard : p \in ran \/ ~Callable(p)
    BY DEF LInv, HeardAtOnce
  <2>2. \A p \in conn' : info[p].sig = Destroyed => ~info[p].queued
    BY <2>1 DEF LinksKept
  <2>3. \A p \in heard' : p \in ran' \/ ~Callable(p)'
    BY <2>1 DEF LinksKept
  <2> QED
    BY <2>2, <2>3
<1> QED
  BY <1>1, <1>2, <1>3, <1>4, <1>5, <1>6, <1>7

LEMMA WatchStep ==
    ASSUME IInv, LInv, TypeOK', WatchKept
    PROVE  DestructorsApart' /\ Watched'
<1>1. \A i \in 1..Len(stack'), t \in Transmitters : Destroying(i, t)' =>
        /\ i \in 1..Len(stack) /\ Destroying(i, t)
        /\ \A p \in stack[i].todo \cap dconn :
             p \in stack'[i].todo \/ Posted("disable", p)'
  BY DEF WatchKept, DestructorsKept, Destroying
<1>2. DestructorsApart'
  BY <1>1 DEF LInv, DestructorsApart, WatchKept
<1>3. Watched'
  <2> SUFFICES ASSUME "disconnectDestroyed" \notin Features,
                      NEW p \in Proxies, state'[p] = "live",
                      info'[p].tx # NoTx, p \notin disabled',
                      ~Posted("disable", p)'
               PROVE  /\ p \in dconn'
                      /\ txState'[info'[p].tx] # "dead"
                      /\ \A i \in 1..Len(stack') :
                           Destroying(i, info[p].tx)' => p \in stack'[i].todo
    BY DEF Watched
  <2>1. /\ state[p] = "live" /\ info'[p] = info[p] /\ p \notin disabled
        /\ p \in dconn => p \in dconn'
        /\ ~Posted("disable", p)
    BY DEF WatchKept
  <2>2. /\ p \in dconn /\ txState[info[p].tx] # "dead"
        /\ \A i \in 1..Len(stack) :
             Destroying(i, info[p].tx) => p \in stack[i].todo
    BY <2>1 DEF LInv, Watched
  <2>3. info[p].tx \in Transmitters
    BY <2>1 DEF IInv, TypeOK, Info
  <2> QED
    BY <1>1, <2>1, <2>2, <2>3 DEF WatchKept
<1> QED
  BY <1>2, <1>3

LEMMA RunsStep ==
    ASSUME IInv, LInv, TypeOK', RunsKept
    PROVE  SingleShotOnce'
<1> SUFFICES ASSUME NEW p \in ran', info'[p].single
             PROVE  /\ p \notin timer'
                    /\ Executing(p)' \/ state'[p] = "deleted" \/ delLevel'[p] > 0
  BY DEF SingleShotOnce
<1>1. CASE p \notin ran
  BY <1>1 DEF RunsKept
<1>2. CASE p \in ran
  <2>1. /\ p \notin timer
        /\ Executing(p) \/ state[p] = "deleted" \/ delLevel[p] > 0
    BY <1>2 DEF RunsKept, LInv, SingleShotOnce
  <2> QED
    BY <1>2, <2>1 DEF RunsKept
<1> QED
  BY <1>1, <1>2

LEMMA KeptStep ==
    ASSUME IInv, LInv, TypeOK', LinksKept, WatchKept, RunsKept
    PROVE  LInv'
BY LinksStep, WatchStep, RunsStep DEF LInv

-----------------------------------------------------------------------------
(* The activations of slots and of destructors on the stack.                *)

SlotsKept(s) ==
    /\ s \in Seq(Frame)
    /\ \A p \in Proxies : SlotsOf(s, p) = SlotsOf(stack, p)

LEMMA ExecutingSlots ==
    ASSUME NEW p \in Proxies
    PROVE  /\ Executing(p) <=> SlotsOf(stack, p) # {}
           /\ Executing(p)' <=> SlotsOf(stack', p) # {}
BY DEF Executing, SlotsOf

LEMMA StackKept ==
    ASSUME TypeOK
    PROVE  /\ SlotsKept(stack) /\ DestructorsKept(stack)
           /\ stack' = stack => SlotsKept(stack') /\ DestructorsKept(stack')
BY DEF TypeOK, SlotsKept, DestructorsKept, Destroying

LEMMA PoppedKept ==
    ASSUME TypeOK, Top.kind # "loop" \/ Len(stack) > 1
    PROVE  /\ Popped \in Seq(Frame)
           /\ DestructorsKept(Popped)
           /\ Top.kind # "slot" => SlotsKept(Popped)
           /\ Top.kind = "slot" =>
                \A p \in Proxies : SlotsOf(Popped, p) =
                  IF p = Top.p THEN SlotsOf(stack, p) \ {Len(stack)}
                  ELSE SlotsOf(stack, p)
<1>1. /\ Len(stack) \in Nat \ {0}
      /\ Len(Popped) = Len(stack) - 1
      /\ \A i \in 1..Len(Popped) : Popped[i] = stack[i]
      /\ Popped \in Seq(Frame)
  BY StackTypes DEF Calmer
<1>2. DestructorsKept(Popped)
  BY <1>1 DEF DestructorsKept, Destroying
<1>3. \A i \in 1..Len(stack) : i \in 1..Len(Popped) \/ i = Len(stack)
  BY <1>1
<1>4. \A p \in Proxies : SlotsOf(Popped, p) = SlotsOf(stack, p) \ {Len(stack)}
  BY <1>1, <1>3 DEF SlotsOf
<1>5. \A p \in Proxies : Top.kind # "slot" \/ p # Top.p =>
        Len(stack) \notin SlotsOf(stack, p)
  BY DEF SlotsOf, Top
<1> QED
  BY <1>1, <1>2, <1>4, <1>5 DEF SlotsKept

LEMMA AppendKept ==
    ASSUME NEW s \in Seq(Frame), NEW f \in Frame, f.kind # "slot", SlotsKept(s)
    PROVE  /\ SlotsKept(Append(s, f))
           /\ /\ DestructorsKept(s)
              /\ f.kind = "emit" => f.s # Destroyed
              => DestructorsKept(Append(s, f))
<1>1. /\ Append(s, f) \in Seq(Frame)
      /\ Len(s) \in Nat /\ Len(Append(s, f)) = Len(s) + 1
      /\ \A i \in 1..Len(s) : Append(s, f)[i] = s[i]
      /\ Append(s, f)[Len(s) + 1] = f
  BY AppendProperties, LenProperties
<1>2. \A p \in Proxies : SlotsOf(Append(s, f), p) = SlotsOf(s, p)
  BY <1>1 DEF SlotsOf
<1>3. ASSUME DestructorsKept(s), f.kind = "emit" => f.s # Destroyed
      PROVE  DestructorsKept(Append(s, f))
  <2> SUFFICES ASSUME NEW i \in 1..Len(Append(s, f)),
                      Append(s, f)[i].kind = "emit",
                      Append(s, f)[i].s = Destroyed
               PROVE  i \in 1..Len(s)
    BY <1>1, <1>3 DEF DestructorsKept
  <2> QED
    BY <1>1, <1>3
<1> QED
  BY <1>1, <1>2, <1>3 DEF SlotsKept

LEMMA EnterKept ==
    ASSUME NEW s, SlotsKept(s), DestructorsKept(s),
           NEW p \in Proxies, NEW ev \in BOOLEAN
    PROVE  LET u == Append(s, SlotFrame(p, ev))
           IN  /\ DestructorsKept(u)
               /\ Len(s) + 1 \notin SlotsOf(stack, p)
               /\ \A q \in Proxies : SlotsOf(u, q) =
                    IF q = p THEN SlotsOf(stack, q) \cup {Len(s) + 1}
                    ELSE SlotsOf(stack, q)
<1> DEFINE f == SlotFrame(p, ev)
<1>1. f \in Frame /\ f.kind = "slot" /\ f.p = p /\ s \in Seq(Frame)
  BY FrameTypes DEF SlotsKept
<1> HIDE DEF f
<1>2. /\ Len(s) \in Nat /\ Len(Append(s, f)) = Len(s) + 1
      /\ \A i \in 1..Len(s) : Append(s, f)[i] = s[i]
      /\ Append(s, f)[Len(s) + 1] = f
  BY <1>1, AppendProperties, LenProperties
<1>3. DestructorsKept(Append(s, f))
  BY <1>1, <1>2 DEF DestructorsKept
<1>4. \A q \in Proxies : SlotsOf(Append(s, f), q) =
        IF q = p THEN SlotsOf(s, q) \cup {Len(s) + 1} ELSE SlotsOf(s, q)
  BY <1>1, <1>2 DEF SlotsOf
<1>5. Len(s) + 1 \notin SlotsOf(s, p)
  BY <1>2 DEF SlotsOf
<1> QED
  BY <1>3, <1>4, <1>5 DEF SlotsKept, f

-----------------------------------------------------------------------------
(* The steps.                                                               *)

\* Callable slots of proxies that exist only ever become uncallable.
CallablesLost ==
    \A p \in Proxies : info'[p] = info[p] => (Callable(p)' => Callable(p))

LEMMA CallablesSame ==
    ASSUME UNCHANGED <<slotState, cleared>>
    PROVE  CallablesLost
BY DEF CallablesLost, Callable

\* Nothing happens to any proxy.
LEMMA QuietLinks ==
    ASSUME IInv, LInv, TypeOK',
           SlotsKept(stack'), DestructorsKept(stack'), CallablesLost,
           UNCHANGED <<state, info, hash, disabled, conn, dconn, timer,
                       delLevel, heard, ran>>,
           \A t \in Transmitters :
             /\ txState[t] = "dying" => txState'[t] = "dying"
             /\ txState'[t] = "dead" => txState[t] = "dead"
             /\ txState[t] = "dead" /\ "reuse" \notin Features =>
                  txState'[t] = "dead",
           \A p \in Proxies : state[p] = "live" /\ Posted("disable", p) =>
                                Posted("disable", p)'
    PROVE  LInv'
<1>1. LinksKept
  BY DEF LinksKept, CallablesLost, IInv, TypeOK
<1>2. WatchKept
  BY DEF WatchKept
<1>3. RunsKept
  <2>1. \A p \in ran : p \in Proxies /\ (Executing(p)' <=> Executing(p))
    BY ExecutingSlots DEF SlotsKept, IInv, TypeOK
  <2> QED
    BY <2>1 DEF RunsKept
<1> QED
  BY <1>1, <1>2, <1>3, KeptStep

\* Proxies S are disabled, and cut off.
LEMMA CutLinks ==
    ASSUME IInv, LInv, TypeOK',
           NEW S \in SUBSET Proxies, NEW level \in Nat, Disable(S, level),
           \A p \in S : state[p] = "live",
           UNCHANGED <<txState, state, info, slotState, cleared, timer, stack,
                       heard, ran>>,
           conn' \subseteq conn, hash' \subseteq hash, dconn' \subseteq dconn,
           \A p \in hash \ hash' : p \in S,
           \A p \in conn \ conn' : p \in hash' => p \in S,
           \A p \in dconn \ dconn' : state[p] = "live" =>
             p \in disabled' \/ "disconnectDestroyed" \in Features,
           \A p \in Proxies \ S : Posted("disable", p) => Posted("disable", p)'
    PROVE  LInv'
<1>1. /\ disabled' = disabled \cup S
      /\ \A p \in Proxies : p \notin S \/ delLevel[p] > 0 =>
           delLevel'[p] = delLevel[p]
  BY DEF Disable, DeleteLater, IInv, TypeOK
<1>2. LinksKept
  BY <1>1, CallablesSame DEF LinksKept, CallablesLost, IInv, TypeOK
<1>3. WatchKept
  BY <1>1, StackKept DEF WatchKept, IInv
<1>4. RunsKept
  <2>1. \A p \in ran : p \in Proxies /\ (Executing(p)' <=> Executing(p))
    BY DEF Executing, IInv, TypeOK
  <2> QED
    BY <1>1, <2>1 DEF RunsKept
<1> QED
  BY <1>2, <1>3, <1>4, KeptStep

\* unislot() is called.
LEMMA UnislotLinks ==
    ASSUME IInv, LInv, TypeOK',
           NEW p \in Proxies, NEW base, NEW ev \in BOOLEAN,
           SlotsKept(base), DestructorsKept(base), Unislot(p, base, ev),
           state[p] = "live" \/ p \in disabled,
           UNCHANGED <<txState, state, info, hash, conn, dconn, slotState,
                       cleared>>,
           timer' \subseteq timer, p \notin timer',
           heard \subseteq heard',
           \A q \in heard' \ heard :
             /\ q = p /\ p \in conn /\ info[p].sig = Destroyed
             /\ p \notin disabled,
           \A q \in Proxies : Posted("disable", q) => Posted("disable", q)'
    PROVE  LInv'
<1>1. CallablesLost
  BY CallablesSame
<1>2. CASE /\ Ignores(p)
           /\ stack' = base
           /\ UNCHANGED <<disabled, invoked, delLevel, ran>>
  <2>1. LinksKept
    BY <1>1, <1>2 DEF LinksKept, CallablesLost, Ignores, IInv, TypeOK
  <2>2. WatchKept
    BY <1>2 DEF WatchKept
  <2>3. RunsKept
    <3>1. \A q \in ran : q \in Proxies /\ (Executing(q)' <=> Executing(q))
      BY <1>2, ExecutingSlots DEF SlotsKept, IInv, TypeOK
    <3> QED
      BY <1>2, <3>1 DEF RunsKept
  <2> QED
    BY <2>1, <2>2, <2>3, KeptStep
<1>3. CASE /\ ~Ignores(p)
           /\ ~Callable(p)
           /\ disabled' = disabled \cup {p}
           /\ DeleteLater({p}, IF ev THEN Level + 1 ELSE Level)
           /\ stack' = base
           /\ UNCHANGED ran
  <2>1. \A q \in Proxies : q # p \/ delLevel[q] > 0 =>
          delLevel'[q] = delLevel[q]
    BY <1>3 DEF DeleteLater, IInv, TypeOK
  <2>2. state[p] = "live"
    BY <1>3 DEF Ignores
  <2>3. ~Callable(p)'
    BY <1>1, <1>3 DEF CallablesLost
  <2>4. LinksKept
    BY <1>1, <1>3, <2>1, <2>2, <2>3
       DEF LinksKept, CallablesLost, IInv, TypeOK
  <2>5. WatchKept
    BY <1>3 DEF WatchKept
  <2>6. RunsKept
    <3>1. \A q \in ran : q \in Proxies /\ (Executing(q)' <=> Executing(q))
      BY <1>3, ExecutingSlots DEF SlotsKept, IInv, TypeOK
    <3> QED
      BY <1>3, <2>1, <3>1 DEF RunsKept
  <2> QED
    BY <2>4, <2>5, <2>6, KeptStep
<1>4. CASE /\ ~Ignores(p)
           /\ stack' = Append(base, SlotFrame(p, ev))
           /\ ran' = ran \cup {p}
           /\ UNCHANGED <<disabled, delLevel>>
  <2>1. state[p] = "live" /\ p \notin disabled
    BY <1>4 DEF Ignores
  <2>2. /\ DestructorsKept(stack')
        /\ \A q \in Proxies : SlotsOf(stack', q) =
             IF q = p THEN SlotsOf(stack, q) \cup {Len(base) + 1}
             ELSE SlotsOf(stack, q)
    BY <1>4, EnterKept
  <2>3. LinksKept
    BY <1>1, <1>4, <2>1 DEF LinksKept, CallablesLost, IInv, TypeOK
  <2>4. WatchKept
    BY <1>4, <2>2 DEF WatchKept
  <2>5. RunsKept
    <3>1. /\ Executing(p)'
          /\ \A q \in ran : q \in Proxies /\ (Executing(q) => Executing(q)')
      BY <2>2, ExecutingSlots DEF IInv, TypeOK
    <3> QED
      BY <1>4, <3>1 DEF RunsKept
  <2> QED
    BY <2>3, <2>4, <2>5, KeptStep
<1> QED
  BY <1>2, <1>3, <1>4 DEF Unislot

\* A proxy is created.
LEMMA NewProxyLinks ==
    ASSUME IInv, LInv, TypeOK', NEW p \in Proxies, NEW i \in Info,
           Fresh(p), NewProxy(p, i),
           UNCHANGED <<txState, disabled, invoked, slotState, cleared, queue,
                       delLevel, stack, heard, ran>>,
           i.single <=> i.tx = NoTx,
           i.tx # NoTx => txState[i.tx] = "alive",
           conn \subseteq conn', conn' \subseteq conn \cup {p},
           p \in conn' => i.tx # NoTx,
           p \notin conn' /\ i.tx # NoTx => "failConnect" \in Features,
           i.queued /\ i.sig = Destroyed => "queuedDestroyed" \in Features,
           timer' \subseteq timer \cup {p}
    PROVE  LInv'
<1>1. /\ state[p] = "unused"
      /\ state' = [state EXCEPT ![p] = "live"]
      /\ info' = [info EXCEPT ![p] = i]
      /\ hash' = IF i.tx = NoTx THEN hash ELSE hash \cup {p}
      /\ dconn' = IF i.tx = NoTx THEN dconn ELSE dconn \cup {p}
  BY DEF Fresh, NewProxy
<1>2. /\ state'[p] = "live" /\ info'[p] = i
      /\ \A q \in Proxies \ {p} : state'[q] = state[q] /\ info'[q] = info[q]
  BY <1>1 DEF IInv, TypeOK
<1>3. /\ p \notin disabled /\ p \notin heard /\ p \notin ran
      /\ p \notin conn /\ p \notin hash /\ p \notin dconn
  BY <1>1 DEF LInv, UnusedNew, IInv, UnusedInert
<1>4. i.tx \in Transmitters \cup {NoTx}
  BY DEF Info
<1>5. UnusedNew'
  BY <1>1, <1>2 DEF LInv, UnusedNew
<1>6. DeletedForgotten'
  BY <1>1, <1>2 DEF LInv, DeletedForgotten
<1>7. LinkedToTx'
  <2>1. ASSUME NEW q \in Proxies,
               q \in hash' \/ q \in conn' \/ q \in dconn'
        PROVE  info'[q].tx \in Transmitters
    <3>1. CASE q = p
      BY <1>1, <1>2, <1>3, <1>4, <2>1, <3>1
    <3>2. CASE q # p
      BY <1>1, <1>2, <2>1, <3>2 DEF LInv, LinkedToTx
    <3> QED
      BY <3>1, <3>2
  <2>2. \A q \in Proxies : state'[q] # "unused" =>
          (info'[q].single <=> info'[q].tx = NoTx)
    BY <1>2 DEF LInv, LinkedToTx
  <2> QED
    BY <2>1, <2>2 DEF LinkedToTx
<1>8. ConnectedExists'
  <2> SUFFICES ASSUME NEW q \in conn' PROVE txState[info'[q].tx] # "dead"
    BY DEF ConnectedExists
  <2>1. conn \subseteq Proxies
    BY DEF IInv, TypeOK
  <2>2. q = p \/ (q \in conn /\ q \in Proxies \ {p})
    BY <2>1
  <2> QED
    BY <1>2, <2>2 DEF LInv, ConnectedExists
<1>9. EnabledFiled'
  BY <1>1, <1>2 DEF LInv, EnabledFiled
<1>10. FiledConnected'
  <2> SUFFICES ASSUME {"reuse", "failConnect"} \cap Features = {},
                      NEW q \in hash' \ disabled,
                      txState[info'[q].tx] # "dead"
               PROVE  q \in conn'
    BY DEF FiledConnected
  <2>1. CASE q = p
    BY <1>1, <1>2, <1>3, <2>1
  <2>2. CASE q # p
    <3>1. q \in hash /\ info'[q] = info[q]
      BY <1>1, <1>2, <2>2 DEF TypeOK
    <3> QED
      BY <3>1 DEF LInv, FiledConnected
  <2> QED
    BY <2>1, <2>2
<1>11. DestructorsApart'
  BY DEF LInv, DestructorsApart, Destroying
<1>12. Watched'
  <2> SUFFICES ASSUME "disconnectDestroyed" \notin Features,
                      NEW q \in Proxies, state'[q] = "live",
                      info'[q].tx # NoTx, q \notin disabled,
                      ~Posted("disable", q)
               PROVE  /\ q \in dconn'
                      /\ txState[info'[q].tx] # "dead"
                      /\ \A j \in 1..Len(stack) :
                           Destroying(j, info'[q].tx) => q \in stack[j].todo
    BY DEF Watched, Posted, Destroying
  <2>1. CASE q = p
    BY <1>1, <1>2, <1>4, <2>1 DEF LInv, DestructorsApart
  <2>2. CASE q # p
    BY <1>1, <1>2, <2>2 DEF LInv, Watched
  <2> QED
    BY <2>1, <2>2
<1>13. HeardAtOnce'
  <2> SUFFICES ASSUME "queuedDestroyed" \notin Features
               PROVE  /\ \A q \in conn' : info'[q].sig = Destroyed => ~info'[q].queued
                      /\ \A q \in heard : q \in ran \/ ~Callable(q)'
    BY DEF HeardAtOnce
  <2>1. \A q \in conn' : info'[q].sig = Destroyed => ~info'[q].queued
    BY <1>2 DEF LInv, HeardAtOnce, TypeOK
  <2>2. \A q \in heard : q \in Proxies \ {p} /\ (Callable(q)' => Callable(q))
    BY <1>2, <1>3 DEF Callable, IInv, TypeOK
  <2> QED
    BY <2>1, <2>2 DEF LInv, HeardAtOnce
<1>14. SingleShotOnce'
  <2> SUFFICES ASSUME NEW q \in ran, info'[q].single
               PROVE  /\ q \notin timer'
                      /\ Executing(q)' \/ state'[q] = "deleted" \/ delLevel[q] > 0
    BY DEF SingleShotOnce
  <2>1. q \in Proxies \ {p}
    BY <1>3 DEF IInv, TypeOK
  <2>2. Executing(q) => Executing(q)'
    BY DEF Executing
  <2> QED
    BY <1>2, <2>1, <2>2 DEF LInv, SingleShotOnce
<1> QED
  BY <1>5, <1>6, <1>7, <1>8, <1>9, <1>10, <1>11, <1>12, <1>13, <1>14 DEF LInv

\* The destructor of the QObject at t begins.
LEMMA DestroyLinks ==
    ASSUME IInv, LInv, TypeOK', NEW t \in Transmitters, Destroy(t)
    PROVE  LInv'
<1> DEFINE f == EmitFrame(t, Destroyed, Connected(t, Destroyed) \cup Watching(t))
<1>1. /\ txState[t] = "alive" /\ txState' = [txState EXCEPT ![t] = "dying"]
      /\ stack' = Append(stack, f)
      /\ UNCHANGED <<state, info, hash, disabled, invoked, conn, dconn,
                     slotState, cleared, queue, timer, delLevel, heard, ran>>
  BY DEF Destroy
<1>2. \A u \in Transmitters :
        txState'[u] = IF u = t THEN "dying" ELSE txState[u]
  BY <1>1 DEF IInv, TypeOK
<1>3. /\ f \in Frame /\ f.kind = "emit" /\ f.s = Destroyed /\ f.t = t
      /\ Watching(t) \subseteq f.todo
  <2>1. Connected(t, Destroyed) \cup Watching(t) \in SUBSET Proxies
    BY DEF Connected, Watching, IInv, TypeOK
  <2> QED
    BY <2>1, FrameTypes, SignalsAssumption DEF EmitFrame
<1> HIDE DEF f
<1>4. stack \in Seq(Frame)
  BY DEF IInv, TypeOK
<1>5. /\ Len(stack) \in Nat /\ Len(stack') = Len(stack) + 1
      /\ \A j \in 1..Len(stack) : stack'[j] = stack[j]
      /\ stack'[Len(stack) + 1] = f
  BY <1>1, <1>3, <1>4, AppendProperties, LenProperties
<1>6. LinksKept
  BY <1>1, <1>2, CallablesSame DEF LinksKept, CallablesLost, IInv, TypeOK
<1>7. RunsKept
  <2>1. SlotsKept(stack')
    BY <1>1, <1>3, <1>4, StackKept, AppendKept DEF IInv
  <2>2. \A p \in ran : p \in Proxies /\ (Executing(p)' <=> Executing(p))
    BY <2>1, ExecutingSlots DEF SlotsKept, IInv, TypeOK
  <2> QED
    BY <1>1, <2>2 DEF RunsKept
<1>8. \A j \in 1..Len(stack'), u \in Transmitters : Destroying(j, u)' =>
        \/ j \in 1..Len(stack) /\ Destroying(j, u) /\ u # t
        \/ j = Len(stack) + 1 /\ u = t
  <2>1. \A j \in 1..Len(stack') : j \in 1..Len(stack) \/ j = Len(stack) + 1
    BY <1>5
  <2>2. \A j \in 1..Len(stack) : ~Destroying(j, t)
    BY <1>1 DEF LInv, DestructorsApart
  <2> QED
    BY <1>3, <1>5, <2>1, <2>2 DEF Destroying
<1>9. DestructorsApart'
  BY <1>2, <1>8 DEF LInv, DestructorsApart
<1>10. Watched'
  <2> SUFFICES ASSUME "disconnectDestroyed" \notin Features,
                      NEW p \in Proxies, state[p] = "live",
                      info[p].tx # NoTx, p \notin disabled,
                      ~Posted("disable", p)
               PROVE  /\ p \in dconn
                      /\ txState'[info[p].tx] # "dead"
                      /\ \A j \in 1..Len(stack') :
                           Destroying(j, info[p].tx)' => p \in stack'[j].todo
    BY <1>1 DEF Watched, Posted
  <2>1. /\ p \in dconn /\ txState[info[p].tx] # "dead"
        /\ \A j \in 1..Len(stack) :
             Destroying(j, info[p].tx) => p \in stack[j].todo
    BY DEF LInv, Watched
  <2>2. info[p].tx \in Transmitters
    BY DEF IInv, TypeOK, Info
  <2>3. info[p].tx = t => p \in f.todo
    BY <1>3, <2>1 DEF Watching
  <2> QED
    BY <1>1, <1>2, <1>5, <1>8, <2>1, <2>2, <2>3
<1> QED
  BY <1>6, <1>7, <1>9, <1>10, LinksStep, RunsStep DEF LInv

\* The destructor of a QObject ends.
LEMMA DestroyDoneLinks ==
    ASSUME IInv, LInv, TypeOK', DestroyDone
    PROVE  LInv'
<1> DEFINE t == Top.t
<1>1. /\ Top.kind = "emit" /\ Top.s = Destroyed /\ Top.todo = {}
      /\ txState' = [txState EXCEPT ![t] = "dead"]
      /\ conn' = {p \in conn : info[p].tx # t}
      /\ dconn' = dconn \ Watching(t)
      /\ stack' = Popped
      /\ UNCHANGED <<state, info, hash, disabled, invoked, slotState, cleared,
                     queue, timer, delLevel, heard, ran>>
  BY DEF DestroyDone
<1>2. /\ Len(stack) \in Nat \ {0} /\ Top \in Frame /\ t \in Transmitters
      /\ Len(stack') = Len(stack) - 1
      /\ \A j \in 1..Len(stack') : stack'[j] = stack[j]
  BY <1>1, StackTypes, FrameTypes DEF IInv
<1>3. Destroying(Len(stack), t)
  BY <1>1 DEF Destroying, Top
<1>4. txState[t] = "dying"
  BY <1>2, <1>3 DEF LInv, DestructorsApart
<1> HIDE DEF t
<1>5. \A u \in Transmitters :
        txState'[u] = IF u = t THEN "dead" ELSE txState[u]
  BY <1>1 DEF IInv, TypeOK
<1>6. LinksKept
  BY <1>1, <1>4, <1>5, CallablesSame DEF LinksKept, CallablesLost, IInv, TypeOK
<1>7. RunsKept
  <2>1. SlotsKept(stack')
    BY <1>1, PoppedKept DEF IInv
  <2>2. \A p \in ran : p \in Proxies /\ (Executing(p)' <=> Executing(p))
    BY <2>1, ExecutingSlots DEF SlotsKept, IInv, TypeOK
  <2> QED
    BY <1>1, <2>2 DEF RunsKept
<1>8. \A j \in 1..Len(stack'), u \in Transmitters : Destroying(j, u)' =>
        j \in 1..Len(stack) /\ Destroying(j, u) /\ u # t
  <2> SUFFICES ASSUME NEW j \in 1..Len(stack'), NEW u \in Transmitters,
                      Destroying(j, u)'
               PROVE  j \in 1..Len(stack) /\ Destroying(j, u) /\ u # t
    OBVIOUS
  <2>1. j \in 1..Len(stack) /\ j # Len(stack) /\ Destroying(j, u)
    BY <1>2 DEF Destroying
  <2>2. Len(stack) \in 1..Len(stack)
    BY <1>2
  <2> QED
    BY <1>2, <1>3, <2>1, <2>2 DEF LInv, DestructorsApart
<1>9. DestructorsApart'
  BY <1>5, <1>8 DEF LInv, DestructorsApart
<1>10. Watched'
  <2> SUFFICES ASSUME "disconnectDestroyed" \notin Features,
                      NEW p \in Proxies, state[p] = "live",
                      info[p].tx # NoTx, p \notin disabled,
                      ~Posted("disable", p)
               PROVE  /\ p \in dconn'
                      /\ txState'[info[p].tx] # "dead"
                      /\ \A j \in 1..Len(stack') :
                           Destroying(j, info[p].tx)' => p \in stack'[j].todo
    BY <1>1 DEF Watched, Posted
  <2>1. /\ p \in dconn /\ txState[info[p].tx] # "dead"
        /\ \A j \in 1..Len(stack) :
             Destroying(j, info[p].tx) => p \in stack[j].todo
    BY DEF LInv, Watched
  <2>2. info[p].tx \in Transmitters
    BY DEF IInv, TypeOK, Info
  <2>3. info[p].tx # t
    BY <1>1, <1>2, <1>3, <2>1 DEF Top
  <2> QED
    BY <1>1, <1>2, <1>5, <1>8, <2>1, <2>2, <2>3 DEF Watching
<1> QED
  BY <1>6, <1>7, <1>9, <1>10, LinksStep, RunsStep DEF LInv

LEMMA ApplicationLinks ==
    ASSUME IInv, LInv, Application PROVE LInv'
<1>0. /\ TypeOK /\ TypeOK' /\ Level \in Nat
      /\ SlotsKept(stack) /\ DestructorsKept(stack) /\ stack \in Seq(Frame)
      /\ stack' = stack => SlotsKept(stack') /\ DestructorsKept(stack')
  BY ApplicationType, LevelType, StackKept DEF IInv, SlotsKept
<1>1. ASSUME NEW p \in Proxies, p \in hash \/ p \in conn
      PROVE  state[p] = "live"
  BY <1>0, <1>1 DEF IInv, UnusedInert, LInv, DeletedForgotten, TypeOK
<1>2. ASSUME NEW t \in Transmitters, NEW s \in Signals, NEW slot \in Slots,
             NEW queued \in BOOLEAN, NEW nocheck \in BOOLEAN,
             NEW unique \in BOOLEAN, NEW fails \in BOOLEAN,
             Connect(t, s, slot, queued, nocheck, unique, fails)
      PROVE  LInv'
  <2> DEFINE i == [tx |-> t, sig |-> s, slot |-> slot, queued |-> queued,
                   single |-> FALSE, nocheck |-> nocheck]
  <2>1. /\ i \in Info /\ i.tx = t /\ i.tx # NoTx /\ i.single = FALSE
        /\ i.queued = queued /\ i.sig = s
    BY TransmittersAssumption DEF Info
  <2>2. PICK p \in Proxies :
          /\ Fresh(p) /\ NewProxy(p, i)
          /\ conn' = IF fails THEN conn ELSE conn \cup {p}
    BY <1>2 DEF Connect
  <2>3. /\ txState[t] = "alive"
        /\ queued /\ s = Destroyed => "queuedDestroyed" \in Features
        /\ fails => "failConnect" \in Features
        /\ UNCHANGED <<txState, disabled, invoked, slotState, cleared, queue,
                       timer, delLevel, stack, heard, ran>>
    BY <1>2 DEF Connect
  <2> HIDE DEF i
  <2>4. /\ conn \subseteq conn' /\ conn' \subseteq conn \cup {p}
        /\ p \notin conn' => "failConnect" \in Features
    BY <2>2, <2>3
  <2> QED
    BY <1>0, <2>1, <2>2, <2>3, <2>4, NewProxyLinks
<1>3. ASSUME NEW slot \in Slots, SingleShot(slot) PROVE LInv'
  <2> DEFINE i(s) == [tx |-> NoTx, sig |-> s, slot |-> slot, queued |-> FALSE,
                      single |-> TRUE, nocheck |-> FALSE]
  <2>1. PICK p \in Proxies, s \in Signals \ {Destroyed} :
          /\ Fresh(p) /\ NewProxy(p, i(s)) /\ timer' = timer \cup {p}
    BY <1>3 DEF SingleShot
  <2>2. i(s) \in Info /\ i(s).single = TRUE /\ i(s).tx = NoTx /\ i(s).queued = FALSE
    BY DEF Info
  <2>3. UNCHANGED <<txState, disabled, invoked, conn, slotState, cleared,
                    queue, delLevel, stack, heard, ran>>
    BY <1>3 DEF SingleShot
  <2>4. p \notin conn
    BY <2>1 DEF Fresh, IInv, UnusedInert
  <2> HIDE DEF i
  <2> QED
    BY <1>0, <2>1, <2>2, <2>3, <2>4, NewProxyLinks
<1>4. ASSUME NEW t \in Transmitters, NEW s \in Signals, NEW slot \in Slots,
             Disconnect(t, s, slot)
      PROVE  LInv'
  <2>1. PICK p \in hash : conn' = conn \ {p} /\ Disable({p}, Level)
    BY <1>4 DEF Disconnect, FindSlotProxy, Matches, Filed
  <2>2. {p} \in SUBSET Proxies /\ state[p] = "live"
    BY <1>0, <1>1 DEF TypeOK
  <2>3. /\ UNCHANGED <<txState, state, info, slotState, cleared, timer, stack,
                       heard, ran, hash, dconn>>
        /\ \A q \in Proxies : Posted("disable", q) => Posted("disable", q)'
    BY <1>4 DEF Disconnect, Posted
  <2> QED
    BY <1>0, <2>1, <2>2, <2>3, CutLinks
<1>5. ASSUME NEW p \in Proxies, DisconnectHandle(p) PROVE LInv'
  <2>1. /\ p \in conn /\ conn' = conn \ {p} /\ hash' = hash \ {p}
        /\ Disable({p}, Level)
        /\ UNCHANGED <<txState, state, info, slotState, cleared, timer, stack,
                       heard, ran, dconn>>
        /\ \A q \in Proxies : Posted("disable", q) => Posted("disable", q)'
    BY <1>5 DEF DisconnectHandle, Posted
  <2>2. {p} \in SUBSET Proxies /\ state[p] = "live"
    BY <1>1, <2>1
  <2> QED
    BY <1>0, <2>1, <2>2, CutLinks
<1>6. ASSUME NEW t \in Transmitters, NEW s \in Signals, DisconnectSignal(t, s)
      PROVE  LInv'
  <2> DEFINE S == Filed(t, s)
  <2>1. S \in SUBSET Proxies /\ \A p \in S : state[p] = "live"
    BY <1>0, <1>1 DEF Filed, TypeOK
  <2>2. /\ conn' = conn \ Connected(t, s) /\ hash' = hash \ S
        /\ dconn' = dconn \/ (s = Destroyed /\ dconn' \subseteq dconn)
        /\ s = Destroyed => "disconnectDestroyed" \in Features
        /\ Disable(S, Level)
        /\ UNCHANGED <<txState, state, info, slotState, cleared, timer, stack,
                       heard, ran>>
        /\ \A q \in Proxies : Posted("disable", q) => Posted("disable", q)'
    BY <1>6 DEF DisconnectSignal, Posted
  <2>3. \A p \in conn \ conn' : p \in hash => p \in S
    BY <2>2 DEF Connected, Filed
  <2> HIDE DEF S
  <2> QED
    BY <1>0, <2>1, <2>2, <2>3, CutLinks
<1>7. ASSUME NEW t \in Transmitters, DisconnectAll(t) PROVE LInv'
  <2> DEFINE S == {p \in hash : info[p].tx = t}
  <2>1. S \in SUBSET Proxies /\ \A p \in S : state[p] = "live"
    BY <1>0, <1>1 DEF TypeOK
  <2>2. /\ conn' = {p \in conn : info[p].tx # t} /\ hash' = hash \ S
        /\ dconn' = dconn \ Watching(t)
        /\ Disable(S, Level)
        /\ UNCHANGED <<txState, state, info, slotState, cleared, timer, stack,
                       heard, ran>>
        /\ \A q \in Proxies : Posted("disable", q) => Posted("disable", q)'
    BY <1>7 DEF DisconnectAll, Posted
  <2>3. \A p \in conn \ conn' : p \in hash => p \in S
    BY <2>2
  <2>4. ASSUME NEW p \in dconn \ dconn', state[p] = "live", p \notin disabled
        PROVE  p \in S
    <3>1. p \in Proxies /\ info[p].tx = t
      BY <1>0, <2>2 DEF Watching, TypeOK
    <3> QED
      BY <2>4, <3>1, TransmittersAssumption DEF LInv, EnabledFiled
  <2>5. disabled' = disabled \cup S
    BY <2>2 DEF Disable
  <2> HIDE DEF S
  <2> QED
    BY <1>0, <2>1, <2>2, <2>3, <2>4, <2>5, CutLinks
<1>8. ASSUME NEW t \in Transmitters, NEW s \in Signals, Emit(t, s)
      PROVE  LInv'
  <2>1. /\ EmitFrame(t, s, Connected(t, s)) \in Frame
        /\ EmitFrame(t, s, Connected(t, s)).kind = "emit"
        /\ EmitFrame(t, s, Connected(t, s)).s # Destroyed
    <3>1. Connected(t, s) \in SUBSET Proxies
      BY <1>0 DEF Connected, TypeOK
    <3> QED
      BY <1>8, <3>1, FrameTypes DEF Emit, EmitFrame
  <2>2. SlotsKept(stack') /\ DestructorsKept(stack')
    BY <1>0, <1>8, <2>1, AppendKept DEF Emit
  <2> QED
    BY <1>0, <1>8, <2>2, QuietLinks, CallablesSame DEF Emit, Posted
<1>9. ASSUME NEW t \in Transmitters, Destroy(t) PROVE LInv'
  BY <1>0, <1>9, DestroyLinks
<1>10. ASSUME NEW t \in Transmitters, Create(t) PROVE LInv'
  <2>1. /\ "reuse" \in Features /\ txState[t] = "dead"
        /\ \A u \in Transmitters :
             txState'[u] = IF u = t THEN "alive" ELSE txState[u]
        /\ UNCHANGED <<state, info, hash, disabled, conn, dconn, slotState,
                       cleared, queue, timer, delLevel, stack, heard, ran>>
    BY <1>0, <1>10 DEF Create, TypeOK
  <2> QED
    BY <1>0, <2>1, QuietLinks, CallablesSame DEF Posted
<1>11. ASSUME NEW t \in Transmitters, ClearSlotProxies(t) PROVE LInv'
  <2>1. CallablesLost
    BY <1>11 DEF ClearSlotProxies, CallablesLost, Callable
  <2> QED
    BY <1>0, <1>11, <2>1, QuietLinks DEF ClearSlotProxies, Posted
<1>12. ASSUME NEW slot \in Slots, LoseReceiver(slot) \/ CollectReceiver(slot)
       PROVE  LInv'
  <2>1. CallablesLost
    <3>1. \A c \in Slots :
            \/ slotState'[c] = slotState[c]
            \/ slotState[c] = "ok" /\ slotState'[c] = "cppGone"
            \/ slotState'[c] = "collected"
      BY <1>0, <1>12 DEF LoseReceiver, CollectReceiver, TypeOK
    <3>2. \A p \in Proxies : info[p].slot \in Slots
      BY <1>0 DEF TypeOK, Info
    <3>3. cleared' = cleared
      BY <1>12 DEF LoseReceiver, CollectReceiver
    <3> QED
      BY <3>1, <3>2, <3>3 DEF CallablesLost, Callable
  <2> QED
    BY <1>0, <1>12, <2>1, QuietLinks DEF LoseReceiver, CollectReceiver, Posted
<1>13. ASSUME EnterLoop PROVE LInv'
  <2>1. SlotsKept(stack') /\ DestructorsKept(stack')
    BY <1>0, <1>13, AppendKept, FrameTypes DEF EnterLoop
  <2> QED
    BY <1>0, <1>13, <2>1, QuietLinks, CallablesSame DEF EnterLoop, Posted
<1> QED
  BY <1>2, <1>3, <1>4, <1>5, <1>6, <1>7, <1>8, <1>9, <1>10, <1>11, <1>12,
     <1>13 DEF Application

\* What an emission posts comes after what was posted before.
LEMMA PostedKept ==
    ASSUME TypeOK, NEW p \in Proxies, NEW s \in Signals,
           queue' = queue \o Posts(p, s)
    PROVE  /\ \A k \in {"call", "disable"}, q \in Proxies :
                Posted(k, q) => Posted(k, q)'
           /\ s = Destroyed /\ p \in dconn => Posted("disable", p)'
<1>1. queue \in Seq(Event) /\ Posts(p, s) \in Seq(Event)
  BY PostsType DEF TypeOK
<1>2. /\ Len(queue) \in Nat /\ Len(Posts(p, s)) \in Nat
      /\ Len(queue') = Len(queue) + Len(Posts(p, s))
      /\ \A i \in 1..Len(queue') : queue'[i] =
           IF i <= Len(queue) THEN queue[i] ELSE Posts(p, s)[i - Len(queue)]
  BY <1>1, ConcatProperties, LenProperties
<1>3. ASSUME NEW k \in {"call", "disable"}, NEW q \in Proxies, Posted(k, q)
      PROVE  Posted(k, q)'
  <2>1. PICK i \in 1..Len(queue) : queue[i] = [kind |-> k, p |-> q]
    BY <1>3 DEF Posted
  <2>2. i \in 1..Len(queue') /\ queue'[i] = queue[i]
    BY <1>2
  <2> QED
    BY <2>1, <2>2 DEF Posted
<1>4. ASSUME s = Destroyed, p \in dconn PROVE Posted("disable", p)'
  <2> DEFINE a == <<[kind |-> "disable", p |-> p]>>
             b == IF p \in conn /\ info[p].sig = s /\ info[p].queued
                    THEN <<[kind |-> "call", p |-> p]>> ELSE << >>
  <2>1. Posts(p, s) = a \o b
    BY <1>4 DEF Posts
  <2>2. a \in Seq(Event) /\ b \in Seq(Event) /\ Len(a) = 1
        /\ a[1] = [kind |-> "disable", p |-> p]
    <3>1. \A k \in {"call", "disable"} : <<[kind |-> k, p |-> p]>> \in Seq(Event)
      BY DEF Event
    <3> QED
      BY <3>1
  <2> HIDE DEF a, b
  <2>3. Len(a \o b) = 1 + Len(b) /\ Len(b) \in Nat /\ (a \o b)[1] = a[1]
    <3>1. Len(b) \in Nat
      BY <2>2, LenProperties
    <3>2. Len(a \o b) = Len(a) + Len(b)
      BY <2>2, ConcatProperties
    <3>3. 1 \in 1..Len(a) + Len(b) /\ 1 <= Len(a)
      BY <2>2, <3>1
    <3>4. (a \o b)[1] = a[1]
      BY <2>2, <3>3, ConcatProperties
    <3> QED
      BY <2>2, <3>1, <3>2, <3>4
  <2>4. /\ Len(queue) + 1 \in 1..Len(queue')
        /\ queue'[Len(queue) + 1] = [kind |-> "disable", p |-> p]
    BY <1>2, <2>1, <2>2, <2>3
  <2> QED
    BY <2>4 DEF Posted
<1> QED
  BY <1>3, <1>4

\* The emission that goes on after its step for p keeps slots and destructors.
LEMMA EmitBase ==
    ASSUME TypeOK, Top.kind = "emit",
           NEW p \in Top.todo, queue' = queue \o Posts(p, Top.s)
    PROVE  LET base == Append(Popped, EmitFrame(Top.t, Top.s, Top.todo \ {p}))
           IN  SlotsKept(base) /\ DestructorsKept(base)
<1> DEFINE f == EmitFrame(Top.t, Top.s, Top.todo \ {p})
<1>1. /\ Popped \in Seq(Frame) /\ SlotsKept(Popped) /\ DestructorsKept(Popped)
      /\ Top \in Frame
      /\ Top.t \in Transmitters /\ Top.s \in Signals /\ Top.todo \subseteq Proxies
  BY StackTypes, PoppedKept, FrameTypes
<1>2. /\ f \in Frame /\ f.kind = "emit" /\ f.t = Top.t /\ f.s = Top.s
      /\ f.todo = Top.todo \ {p}
  <2>1. Top.todo \ {p} \in SUBSET Proxies
    BY <1>1
  <2> QED
    BY <1>1, <2>1, FrameTypes DEF EmitFrame
<1> HIDE DEF f
<1>3. SlotsKept(Append(Popped, f))
  BY <1>1, <1>2, AppendKept
<1>4. CASE Top.s # Destroyed
  BY <1>1, <1>2, <1>4, AppendKept DEF f
<1>5. CASE Top.s = Destroyed
  <2>1. /\ Len(stack) \in Nat \ {0} /\ Len(Popped) = Len(stack) - 1
        /\ Len(Append(Popped, f)) = Len(Popped) + 1
        /\ \A i \in 1..Len(Popped) : Append(Popped, f)[i] = Popped[i]
        /\ Append(Popped, f)[Len(stack)] = f
    BY <1>1, <1>2, AppendProperties, StackTypes
  <2>2. \A i \in 1..Len(Append(Popped, f)) :
          i \in 1..Len(Popped) \/ i = Len(stack)
    BY <2>1
  <2>3. /\ Len(stack) \in 1..Len(stack)
        /\ Destroying(Len(stack), Top.t)
        /\ stack[Len(stack)].todo = Top.todo
    BY <1>1, <1>5, <2>1 DEF Destroying, Top
  <2>4. \A q \in Top.todo \cap dconn : q \in f.todo \/ Posted("disable", q)'
    BY <1>1, <1>2, <1>5, PostedKept
  <2>5. DestructorsKept(Append(Popped, f))
    BY <1>1, <1>2, <2>1, <2>2, <2>3, <2>4 DEF DestructorsKept
  <2> QED
    BY <1>3, <2>5 DEF f
<1> QED
  BY <1>4, <1>5

LEMMA EmissionLinks ==
    ASSUME IInv, LInv, EmitStep \/ EmitDone \/ DestroyDone PROVE LInv'
<1>1. /\ TypeOK' /\ TypeOK
      /\ Popped \in Seq(Frame) /\ SlotsKept(Popped) /\ DestructorsKept(Popped)
      /\ Top \in Frame /\ Top.kind = "emit"
  BY EmissionType, StackTypes, PoppedKept DEF IInv, EmitStep, EmitDone, DestroyDone
<1>2. Top.t \in Transmitters /\ Top.s \in Signals /\ Top.todo \subseteq Proxies
  BY <1>1, FrameTypes
<1>3. ASSUME EmitStep PROVE LInv'
  <2> DEFINE base(p) == Append(Popped, EmitFrame(Top.t, Top.s, Top.todo \ {p}))
             calls(p) == p \in conn /\ info[p].sig = Top.s
  <2>1. PICK p \in Top.todo :
          /\ queue' = queue \o Posts(p, Top.s)
          /\ heard' = IF calls(p) /\ Top.s = Destroyed /\ p \notin disabled
                        THEN heard \cup {p} ELSE heard
          /\ IF calls(p) /\ ~info[p].queued
               THEN Unislot(p, base(p), FALSE)
               ELSE /\ stack' = base(p)
                    /\ UNCHANGED <<disabled, invoked, delLevel, ran>>
    BY <1>3 DEF EmitStep
  <2>2. UNCHANGED <<txState, state, info, hash, conn, dconn, slotState, cleared,
                    timer>>
    BY <1>3 DEF EmitStep
  <2>3. p \in Proxies
    BY <1>2
  <2>4. /\ \A q \in Proxies : Posted("disable", q) => Posted("disable", q)'
        /\ Top.s = Destroyed /\ p \in dconn => Posted("disable", p)'
    BY <1>1, <1>2, <2>1, <2>3, PostedKept
  <2>5. SlotsKept(base(p)) /\ DestructorsKept(base(p))
    BY <1>1, <1>2, <2>1, <2>3, EmitBase
  <2>6. CASE calls(p) /\ ~info[p].queued
    <3>1. /\ p \in conn /\ p \notin timer /\ heard \subseteq heard'
          /\ \A q \in heard' \ heard :
               /\ q = p /\ p \in conn /\ info[p].sig = Destroyed
               /\ p \notin disabled
      BY <2>1, <2>3, <2>6 DEF IInv, SingleByTimer
    <3>2. state[p] = "live"
      BY <1>1, <2>3, <3>1
         DEF IInv, UnusedInert, LInv, DeletedForgotten, TypeOK
    <3>3. Unislot(p, base(p), FALSE)
      BY <2>1, <2>6
    <3> HIDE DEF base, calls
    <3> QED
      BY <1>1, <2>2, <2>3, <2>4, <2>5, <3>1, <3>2, <3>3, UnislotLinks
  <2>7. CASE ~(calls(p) /\ ~info[p].queued)
    <3>1. stack' = base(p) /\ UNCHANGED <<disabled, invoked, delLevel, ran>>
      BY <2>1, <2>7
    <3>2. /\ heard \subseteq heard'
          /\ \A q \in heard' \ heard :
               /\ q = p /\ p \in conn /\ info[p].sig = Destroyed
               /\ info[p].queued
      BY <2>1, <2>7
    <3> HIDE DEF base, calls
    <3>3. LinksKept
      BY <1>1, <2>2, <2>3, <3>1, <3>2, CallablesSame
         DEF LinksKept, CallablesLost, TypeOK
    <3>4. WatchKept
      BY <2>2, <2>4, <2>5, <3>1 DEF WatchKept
    <3>5. RunsKept
      <4>1. \A q \in ran : q \in Proxies /\ (Executing(q)' <=> Executing(q))
        BY <1>1, <2>5, <3>1, ExecutingSlots DEF SlotsKept, TypeOK
      <4> QED
        BY <2>2, <3>1, <4>1 DEF RunsKept
    <3> QED
      BY <1>1, <3>3, <3>4, <3>5, KeptStep
  <2> QED
    BY <2>6, <2>7
<1>4. ASSUME EmitDone PROVE LInv'
  <2>1. SlotsKept(stack') /\ DestructorsKept(stack')
    BY <1>1, <1>4 DEF EmitDone
  <2> QED
    BY <1>1, <1>4, <2>1, QuietLinks, CallablesSame DEF EmitDone, Posted
<1>5. ASSUME DestroyDone PROVE LInv'
  BY <1>1, <1>5, DestroyDoneLinks
<1> QED
  BY <1>3, <1>4, <1>5

LEMMA EventLoopLinks == ASSUME IInv, LInv, EventLoop PROVE LInv'
<1>0. /\ TypeOK' /\ TypeOK /\ Level \in Nat
      /\ SlotsKept(stack) /\ DestructorsKept(stack) /\ stack \in Seq(Frame)
      /\ stack' = stack => SlotsKept(stack') /\ DestructorsKept(stack')
  BY EventLoopType, LevelType, StackKept DEF IInv, SlotsKept
<1>1. ASSUME PyEvent PROVE LInv'
  <2>1. SlotsKept(stack') /\ DestructorsKept(stack')
    BY <1>0, <1>1, AppendKept, FrameTypes DEF PyEvent
  <2> QED
    BY <1>0, <1>1, <2>1, QuietLinks, CallablesSame DEF PyEvent, Posted
<1>2. ASSUME Deliver PROVE LInv'
  <2> DEFINE e == Head(queue)
             p == Head(queue).p
  <2>1. /\ queue # << >> /\ queue' = Tail(queue) /\ queue \in Seq(Event)
        /\ UNCHANGED <<txState, state, info, hash, conn, dconn, slotState,
                       cleared, timer, heard>>
    BY <1>0, <1>2 DEF Deliver, TypeOK
  <2>2. /\ Len(queue) \in Nat \ {0} /\ Len(queue') = Len(queue) - 1
        /\ \A i \in 1..Len(queue') : queue'[i] = queue[i + 1]
        /\ e = queue[1] /\ e \in Event
    BY <2>1, HeadTailProperties, EmptySeq
  <2>3. ASSUME NEW q \in Proxies, Posted("disable", q)
        PROVE  Posted("disable", q)' \/ e = [kind |-> "disable", p |-> q]
    <3>1. PICK j \in 1..Len(queue) : queue[j] = [kind |-> "disable", p |-> q]
      BY <2>3 DEF Posted
    <3>2. CASE j = 1
      BY <2>2, <3>1, <3>2
    <3>3. CASE j # 1
      <4>1. j - 1 \in 1..Len(queue') /\ queue'[j - 1] = queue[j]
        BY <2>2, <3>3
      <4> QED
        BY <3>1, <4>1 DEF Posted
    <3> QED
      BY <3>2, <3>3
  <2>4. p \in Proxies
    BY <2>2 DEF Event
  <2>5. CASE /\ state[p] # "live"
             /\ UNCHANGED <<disabled, invoked, delLevel, stack, ran>>
    <3>1. \A q \in Proxies : state[q] = "live" /\ Posted("disable", q) =>
            Posted("disable", q)'
      BY <2>3, <2>5
    <3> QED
      BY <1>0, <2>1, <2>5, <3>1, QuietLinks, CallablesSame
  <2>6. CASE /\ state[p] = "live" /\ e.kind = "call"
             /\ Unislot(p, stack, TRUE)
    <3>1. \A q \in Proxies : Posted("disable", q) => Posted("disable", q)'
      BY <2>3, <2>6
    <3>2. p \notin timer
      <4>1. e = [kind |-> "call", p |-> p]
        BY <2>2, <2>6 DEF Event
      <4>2. Posted("call", p)
        BY <2>2, <4>1 DEF Posted
      <4> QED
        BY <2>4, <4>2 DEF IInv, SingleByTimer
    <3> HIDE DEF p, e
    <3> QED
      BY <1>0, <2>1, <2>4, <2>6, <3>1, <3>2, UnislotLinks
  <2>7. CASE /\ state[p] = "live" /\ Disable({p}, Level + 1)
             /\ UNCHANGED <<invoked, stack, ran>>
    <3>1. \A q \in Proxies \ {p} : Posted("disable", q) => Posted("disable", q)'
      BY <2>3
    <3>2. {p} \in SUBSET Proxies /\ \A q \in {p} : state[q] = "live"
      BY <2>4, <2>7
    <3>3. Level + 1 \in Nat
      BY <1>0
    <3> HIDE DEF p, e
    <3> QED
      BY <1>0, <2>1, <2>7, <3>1, <3>2, <3>3, CutLinks
  <2> QED
    BY <1>2, <2>5, <2>6, <2>7 DEF Deliver
<1>3. ASSUME NEW p \in Proxies, TimerFire(p) PROVE LInv'
  <2>1. /\ p \in timer /\ timer' = timer \ {p} /\ Unislot(p, stack, TRUE)
        /\ UNCHANGED <<txState, state, info, hash, conn, dconn, slotState,
                       cleared, queue, heard>>
        /\ \A q \in Proxies : Posted("disable", q) => Posted("disable", q)'
    BY <1>3 DEF TimerFire, Posted
  <2>2. state[p] = "live" \/ p \in disabled
    BY <1>0, <2>1 DEF IInv, UnusedInert, DoomedInert, TypeOK
  <2> QED
    BY <1>0, <2>1, <2>2, UnislotLinks
<1>4. ASSUME NEW p \in Proxies, DeferredDelete(p) PROVE LInv'
  <2>1. /\ delLevel[p] > 0
        /\ \A q \in Proxies :
             /\ state'[q] = IF q = p THEN "deleted" ELSE state[q]
             /\ delLevel'[q] = IF q = p THEN 0 ELSE delLevel[q]
        /\ hash' = hash \ {p} /\ conn' = conn \ {p} /\ dconn' = dconn \ {p}
        /\ UNCHANGED <<txState, info, disabled, invoked, slotState, cleared,
                       queue, timer, stack, heard, ran>>
    <3>1. delLevel[p] > Level /\ Level \in Nat /\ delLevel[p] \in Nat
      BY <1>0, <1>4, LevelType DEF DeferredDelete, TypeOK
    <3> QED
      BY <1>0, <1>4, <3>1 DEF DeferredDelete, Unfiled, TypeOK
  <2>2. state[p] = "live"
    BY <1>0, <2>1 DEF IInv, UnusedInert, LInv, DeletedForgotten, TypeOK
  <2>3. LinksKept
    BY <1>0, <2>1, <2>2, CallablesSame DEF LinksKept, CallablesLost, TypeOK
  <2>4. WatchKept
    BY <1>0, <2>1 DEF WatchKept, Posted
  <2>5. RunsKept
    <3>1. \A q \in ran : q \in Proxies /\ (Executing(q)' <=> Executing(q))
      BY <1>0, <2>1, ExecutingSlots DEF SlotsKept, TypeOK
    <3> QED
      BY <2>1, <3>1 DEF RunsKept
  <2> QED
    BY <1>0, <2>3, <2>4, <2>5, KeptStep
<1> QED
  BY <1>1, <1>2, <1>3, <1>4 DEF EventLoop

LEMMA LevelPositive == ASSUME TypeOK PROVE Level \in Nat \ {0}
<1> DEFINE S == {i \in 1..Len(stack) : Deepens(stack[i])}
<1>1. Len(stack) \in Nat \ {0}
  BY StackTypes
<1>2. IsFiniteSet(S)
  <2>1. IsFiniteSet(1..Len(stack))
    BY <1>1, FS_Interval
  <2> QED
    BY <2>1, FS_Subset
<1>3. 1 \in S
  BY <1>1 DEF Deepens, LoopFrame, TypeOK
<1>4. Cardinality(S) # 0
  BY <1>2, <1>3, FS_EmptySet
<1> QED
  BY <1>4, LevelType DEF Level

LEMMA ReturnLinks == ASSUME IInv, LInv, Return PROVE LInv'
<1>0. /\ TypeOK /\ TypeOK' /\ stack' = Popped
      /\ Popped \in Seq(Frame) /\ DestructorsKept(Popped)
      /\ Top.kind # "slot" => SlotsKept(Popped)
      /\ Top.kind = "slot" =>
           \A p \in Proxies : SlotsOf(Popped, p) =
             IF p = Top.p THEN SlotsOf(stack, p) \ {Len(stack)}
             ELSE SlotsOf(stack, p)
  BY ReturnType, PoppedKept
     DEF IInv, Return, SlotReturn, EventReturn, LoopExit, InLoop
<1>1. ASSUME EventReturn \/ LoopExit PROVE LInv'
  <2>1. SlotsKept(stack')
    BY <1>0, <1>1 DEF EventReturn, LoopExit, InLoop
  <2>2. DestructorsKept(stack')
    BY <1>0 DEF DestructorsKept
  <2> QED
    BY <1>0, <1>1, <2>1, <2>2, QuietLinks, CallablesSame
       DEF EventReturn, LoopExit, Posted
<1>2. ASSUME SlotReturn PROVE LInv'
  <2>1. /\ Top.kind = "slot" /\ Top.p \in Proxies
        /\ UNCHANGED <<txState, state, info, hash, disabled, conn, dconn,
                       slotState, cleared, queue, timer, heard, ran>>
    BY <1>0, <1>2, StackTypes, FrameTypes DEF SlotReturn
  <2>2. state[Top.p] = "live" \/ state[Top.p] = "deleted"
    <3>1. Len(stack) \in 1..Len(stack)
      BY <1>0, StackTypes
    <3> QED
      BY <1>0, <2>1, <3>1 DEF IInv, ExecutingExists, TypeOK, Top
  <2>3. \A q \in Proxies :
          /\ q # Top.p \/ delLevel[q] > 0 \/ state[q] = "deleted" =>
               delLevel'[q] = delLevel[q]
          /\ q = Top.p /\ state[q] = "live" /\ info[q].single =>
               delLevel'[q] > 0
    <3>1. CASE state[Top.p] = "live"
      <4>1. DeleteLater(IF SelfDestructs(Top.p) THEN {Top.p} ELSE {}, Level)
        BY <1>2, <3>1 DEF SlotReturn
      <4> QED
        BY <1>0, <2>1, <3>1, <4>1, LevelPositive
           DEF DeleteLater, SelfDestructs, TypeOK
    <3>2. CASE state[Top.p] = "deleted"
      BY <1>2, <3>2 DEF SlotReturn
    <3> QED
      BY <2>2, <3>1, <3>2
  <2>4. LinksKept
    BY <1>0, <2>1, <2>3, CallablesSame DEF LinksKept, CallablesLost, TypeOK
  <2>5. WatchKept
    <3>1. DestructorsKept(stack')
      BY <1>0 DEF DestructorsKept
    <3> QED
      BY <2>1, <3>1 DEF WatchKept, Posted
  <2>6. RunsKept
    <3>1. \A q \in ran :
            q \in Proxies /\ (q # Top.p => (Executing(q)' <=> Executing(q)))
      BY <1>0, <2>1, ExecutingSlots DEF TypeOK
    <3>2. ASSUME Top.p \in ran
          PROVE  \/ state[Top.p] = "deleted" \/ delLevel'[Top.p] > 0
                 \/ ~info[Top.p].single
      BY <2>1, <2>2, <2>3
    <3> QED
      BY <2>1, <2>2, <2>3, <3>1, <3>2 DEF RunsKept
  <2> QED
    BY <1>0, <2>4, <2>5, <2>6, KeptStep
<1> QED
  BY <1>1, <1>2 DEF Return

LEMMA StutterLinks == ASSUME IInv, LInv, UNCHANGED vars PROVE LInv'
<1>1. TypeOK' /\ SlotsKept(stack') /\ DestructorsKept(stack')
  BY NextType, StackKept DEF vars, IInv
<1> QED
  BY <1>1, QuietLinks, CallablesSame DEF vars, Posted

LEMMA InitLinks == Init => LInv
<1> SUFFICES ASSUME Init PROVE LInv
  OBVIOUS
<1>1. Len(stack) = 1 /\ stack[1].kind = "loop"
  BY DEF Init, LoopFrame
<1>2. UnusedNew /\ DeletedForgotten /\ LinkedToTx /\ ConnectedExists
  BY DEF Init, UnusedNew, DeletedForgotten, LinkedToTx, ConnectedExists
<1>3. EnabledFiled /\ FiledConnected /\ Watched /\ HeardAtOnce /\ SingleShotOnce
  BY DEF Init, EnabledFiled, FiledConnected, Watched, HeardAtOnce, SingleShotOnce
<1>4. DestructorsApart
  BY <1>1 DEF DestructorsApart, Destroying
<1> QED
  BY <1>2, <1>3, <1>4 DEF LInv

LEMMA LInvStep == ASSUME IInv, LInv, [Next]_vars PROVE LInv'
BY ApplicationLinks, EventLoopLinks, EmissionLinks, ReturnLinks, StutterLinks
   DEF Next

LEMMA LinksHold == Spec => []LInv
<1>1. Init => LInv
  BY InitLinks
<1>2. IInv /\ LInv /\ [Next]_vars => LInv'
  BY LInvStep
<1> QED
  BY <1>1, <1>2, Invariance, PTL DEF Spec

\* Proxies, connections, transmitters and destructors are linked as they
\* should be in every reachable state, and what is doomed is inert: the
\* constructor, disable(), unislot() and the destructor of PyQtSlotProxy.
THEOREM LinksInvariance == Spec => []InductiveInv
<1>1. IInv /\ LInv => InductiveInv
  BY DEF InductiveInv
<1> QED
  BY <1>1, Invariance, LinksHold, PTL

-----------------------------------------------------------------------------
(* What follows.                                                            *)

\* Unless the application cuts the connections of destroyed() itself, an
\* enabled proxy will learn of the death of its transmitter, and (always) a
\* connection that can invoke a slot is filed under a living transmitter: the
\* constructor, disable() and the destructor of PyQtSlotProxy work together.
THEOREM WatchedAndFiledHolds ==
    ASSUME "disconnectDestroyed" \notin Features
    PROVE  Spec => []WatchedAndFiled
<1>1. IInv /\ LInv => NoOrphan
  BY DEF LInv, Watched, NoOrphan
<1>2. IInv /\ LInv => ConnectedIsFiled
  <2> SUFFICES ASSUME IInv, LInv, NEW p \in conn \ disabled
               PROVE  p \in hash /\ txState[info[p].tx] # "dead"
    BY DEF ConnectedIsFiled
  <2>1. p \in Proxies
    BY DEF IInv, TypeOK
  <2>2. state[p] = "live"
    BY <2>1 DEF IInv, UnusedInert, LInv, DeletedForgotten, TypeOK
  <2>3. info[p].tx # NoTx
    BY <2>1, TransmittersAssumption DEF LInv, LinkedToTx
  <2> QED
    BY <2>1, <2>2, <2>3 DEF LInv, EnabledFiled, ConnectedExists
<1> QED
  BY <1>1, <1>2, Invariance, LinksHold, PTL DEF WatchedAndFiled

\* Under the same condition no proxy leaks with its transmitter: disable() is
\* posted to whatever is still enabled when the transmitter is dead.
THEOREM NothingLeaks ==
    ASSUME "disconnectDestroyed" \notin Features
    PROVE  Spec => []NoLeak
<1>1. LInv => NoLeak
  BY DEF LInv, Watched, NoLeak
<1> QED
  BY <1>1, LinksHold, PTL

\* What findSlotProxy() finds is connected, as long as no QObject::connect()
\* fails and no QObject is created at the address of a dead transmitter
\* before its proxies have been deleted.
THEOREM FoundIsConnected ==
    ASSUME {"reuse", "failConnect"} \cap Features = {}
    PROVE  Spec => []FindIsConnected
<1>1. LInv => FindIsConnected
  BY DEF LInv, FiledConnected, FindIsConnected, FindSlotProxy, Matches, Filed
<1> QED
  BY <1>1, LinksHold, PTL

\* The slots connected to destroyed() run before disable() gets at their
\* proxies, as long as those connections are not queued.
THEOREM DestroyedSlotsRun ==
    ASSUME "queuedDestroyed" \notin Features
    PROVE  Spec => []DestroyedSlotRuns
<1>1. LInv => DestroyedSlotRuns
  BY DEF LInv, HeardAtOnce, DestroyedSlotRuns
<1> QED
  BY <1>1, LinksHold, PTL

\* A single shot slot is entered at most once, however the application uses
\* loops and slots.
THEOREM SingleShotsOnce == Spec => []SingleShotOnce
<1>1. LInv => SingleShotOnce
  BY DEF LInv
<1> QED
  BY <1>1, LinksHold, PTL

-----------------------------------------------------------------------------
(* disable() and the destructor are final.                                  *)

\* unislot() does not enter the slot of a disabled proxy.
LEMMA UnislotFinal ==
    ASSUME NEW p, NEW base, NEW ev, Unislot(p, base, ev)
    PROVE  /\ disabled \subseteq disabled'
           /\ \A q \in disabled : /\ q \in ran' => q \in ran
                                  /\ q \in invoked' => q \in invoked
BY DEF Unislot, Ignores

\* A new proxy was never disabled.
LEMMA NewProxyFinal ==
    ASSUME IInv, LInv, NEW p \in Proxies, NEW i, Fresh(p), NewProxy(p, i)
    PROVE  /\ p \notin disabled
           /\ hash' \subseteq hash \cup {p}
BY DEF Fresh, NewProxy, LInv, UnusedNew

LEMMA ApplicationFinal ==
    ASSUME IInv, LInv, Application PROVE StaysDisabled
<1>1. ASSUME NEW t \in Transmitters, NEW s \in Signals, NEW slot \in Slots,
             NEW queued \in BOOLEAN, NEW nocheck \in BOOLEAN,
             NEW unique \in BOOLEAN, NEW fails \in BOOLEAN,
             Connect(t, s, slot, queued, nocheck, unique, fails)
      PROVE  StaysDisabled
  <2> DEFINE i == [tx |-> t, sig |-> s, slot |-> slot, queued |-> queued,
                   single |-> FALSE, nocheck |-> nocheck]
  <2>1. PICK p \in Proxies :
          /\ Fresh(p) /\ NewProxy(p, i)
          /\ conn' = IF fails THEN conn ELSE conn \cup {p}
    BY <1>1 DEF Connect
  <2> HIDE DEF i
  <2> QED
    BY <1>1, <2>1, NewProxyFinal DEF Connect, StaysDisabled
<1>2. ASSUME NEW slot \in Slots, SingleShot(slot) PROVE StaysDisabled
  <2> DEFINE i(s) == [tx |-> NoTx, sig |-> s, slot |-> slot, queued |-> FALSE,
                      single |-> TRUE, nocheck |-> FALSE]
  <2>1. PICK p \in Proxies, s \in Signals \ {Destroyed} :
          Fresh(p) /\ NewProxy(p, i(s))
    BY <1>2 DEF SingleShot
  <2> HIDE DEF i
  <2> QED
    BY <1>2, <2>1, NewProxyFinal DEF SingleShot, StaysDisabled
<1>3. \A t \in Transmitters, s \in Signals, slot \in Slots :
        Disconnect(t, s, slot) => StaysDisabled
  BY DEF Disconnect, Disable, StaysDisabled
<1>4. \A p \in Proxies : DisconnectHandle(p) => StaysDisabled
  BY DEF DisconnectHandle, Disable, StaysDisabled
<1>5. \A t \in Transmitters, s \in Signals :
        DisconnectSignal(t, s) => StaysDisabled
  BY DEF DisconnectSignal, Disable, StaysDisabled
<1>6. \A t \in Transmitters : DisconnectAll(t) => StaysDisabled
  BY DEF DisconnectAll, Disable, StaysDisabled
<1>7. \A t \in Transmitters, s \in Signals : Emit(t, s) => StaysDisabled
  BY DEF Emit, StaysDisabled
<1>8. \A t \in Transmitters :
        Destroy(t) \/ Create(t) \/ ClearSlotProxies(t) => StaysDisabled
  BY DEF Destroy, Create, ClearSlotProxies, StaysDisabled
<1>9. \A slot \in Slots :
        LoseReceiver(slot) \/ CollectReceiver(slot) => StaysDisabled
  BY DEF LoseReceiver, CollectReceiver, StaysDisabled
<1>10. EnterLoop => StaysDisabled
  BY DEF EnterLoop, StaysDisabled
<1> QED
  BY <1>1, <1>2, <1>3, <1>4, <1>5, <1>6, <1>7, <1>8, <1>9, <1>10
     DEF Application

LEMMA EmissionFinal ==
    ASSUME EmitStep \/ EmitDone \/ DestroyDone PROVE StaysDisabled
<1>1. ASSUME EmitStep PROVE StaysDisabled
  <2> DEFINE base(p) == Append(Popped, EmitFrame(Top.t, Top.s, Top.todo \ {p}))
  <2>1. PICK p \in Top.todo :
          \/ Unislot(p, base(p), FALSE)
          \/ UNCHANGED <<disabled, invoked, delLevel, ran>>
    BY <1>1 DEF EmitStep
  <2>2. UNCHANGED <<conn, hash>>
    BY <1>1 DEF EmitStep
  <2> HIDE DEF base
  <2> QED
    BY <2>1, <2>2, UnislotFinal DEF StaysDisabled
<1> QED
  BY <1>1 DEF EmitDone, DestroyDone, StaysDisabled

LEMMA EventLoopFinal ==
    ASSUME EventLoop PROVE StaysDisabled
<1>1. ASSUME Deliver PROVE StaysDisabled
  <2> DEFINE p == Head(queue).p
  <2>1. /\ UNCHANGED <<conn, hash>>
        /\ \/ UNCHANGED <<disabled, invoked, ran>>
           \/ Unislot(p, stack, TRUE)
           \/ disabled' = disabled \cup {p} /\ UNCHANGED <<invoked, ran>>
    BY <1>1 DEF Deliver, Disable
  <2> HIDE DEF p
  <2> QED
    BY <2>1, UnislotFinal DEF StaysDisabled
<1>2. ASSUME NEW p \in Proxies, TimerFire(p) PROVE StaysDisabled
  BY <1>2, UnislotFinal DEF TimerFire, StaysDisabled
<1>3. \A p \in Proxies : DeferredDelete(p) => StaysDisabled
  BY DEF DeferredDelete, Unfiled, StaysDisabled
<1>4. PyEvent => StaysDisabled
  BY DEF PyEvent, StaysDisabled
<1> QED
  BY <1>1, <1>2, <1>3, <1>4 DEF EventLoop

LEMMA ReturnFinal == ASSUME Return PROVE StaysDisabled
<1>1. SlotReturn => StaysDisabled
  BY DEF SlotReturn, StaysDisabled
<1> QED
  BY <1>1 DEF Return, EventReturn, LoopExit, StaysDisabled

\* No step enables a proxy again, enters the slot of a disabled one, or files
\* or connects it again, whatever the application does.
THEOREM DisabledStays == Spec => DisabledForGood
<1>1. IInv /\ LInv /\ [Next]_vars => [StaysDisabled]_vars
  BY ApplicationFinal, EmissionFinal, EventLoopFinal, ReturnFinal DEF Next
<1> QED
  BY <1>1, Invariance, LinksHold, PTL DEF Spec, DisabledForGood

-----------------------------------------------------------------------------
(* The proxies implement Connections.                                       *)

LEMMA SlotsFinite ==
    ASSUME TypeOK, NEW p
    PROVE  /\ IsFiniteSet(SlotsOf(stack, p))
           /\ Cardinality(SlotsOf(stack, p)) \in Nat
<1>1. Len(stack) \in Nat
  BY StackTypes
<1>2. IsFiniteSet(1..Len(stack))
  BY <1>1, FS_Interval
<1>3. IsFiniteSet(SlotsOf(stack, p))
  BY <1>2, FS_Subset DEF SlotsOf
<1> QED
  BY <1>3, FS_CardinalityType

LEMMA PromiseStutter ==
    ASSUME SlotsKept(stack'),
           \A p \in Proxies : StatusOf(p)' = StatusOf(p)
    PROVE  UNCHANGED Promise!vars
BY DEF Promise!vars, SlotsKept

\* Steps that leave every proxy as it is.
LEMMA PromiseQuiet ==
    ASSUME SlotsKept(stack'), UNCHANGED <<state, disabled, delLevel>>
    PROVE  UNCHANGED Promise!vars
<1>1. \A p \in Proxies : StatusOf(p)' = StatusOf(p)
  BY DEF StatusOf
<1> QED
  BY <1>1, PromiseStutter

LEMMA PromiseOpen ==
    ASSUME NEW p \in Proxies, SlotsKept(stack'), StatusOf(p) = "none",
           \A q \in Proxies :
             StatusOf(q)' = IF q = p THEN "open" ELSE StatusOf(q)
    PROVE  Promise!Next
<1>1. Promise!Open(p)
  BY DEF Promise!Open, SlotsKept
<1> QED
  BY <1>1 DEF Promise!Next

LEMMA PromiseClose ==
    ASSUME NEW S \in SUBSET Proxies, SlotsKept(stack'),
           \A p \in S : StatusOf(p) = "open",
           \A p \in Proxies :
             StatusOf(p)' = IF p \in S THEN "closed" ELSE StatusOf(p)
    PROVE  Promise!Next
<1>1. Promise!Close(S)
  BY DEF Promise!Close, SlotsKept
<1> QED
  BY <1>1 DEF Promise!Next

LEMMA PromiseEnter ==
    ASSUME TypeOK, NEW p \in Proxies, NEW i, i \notin SlotsOf(stack, p),
           StatusOf(p) = "open",
           \A q \in Proxies :
             /\ StatusOf(q)' = StatusOf(q)
             /\ SlotsOf(stack', q) = IF q = p THEN SlotsOf(stack, q) \cup {i}
                                     ELSE SlotsOf(stack, q)
    PROVE  Promise!Next
<1>1. Cardinality(SlotsOf(stack', p)) = Cardinality(SlotsOf(stack, p)) + 1
  BY SlotsFinite, FS_AddElement
<1>2. Promise!Enter(p)
  BY <1>1 DEF Promise!Enter
<1> QED
  BY <1>2 DEF Promise!Next

LEMMA PromiseLeave ==
    ASSUME TypeOK, NEW p \in Proxies, NEW i \in SlotsOf(stack, p),
           \A q \in Proxies :
             /\ q # p => StatusOf(q)' = StatusOf(q)
             /\ SlotsOf(stack', q) = IF q = p THEN SlotsOf(stack, q) \ {i}
                                     ELSE SlotsOf(stack, q),
           \/ StatusOf(p)' = StatusOf(p)
           \/ StatusOf(p) = "open" /\ StatusOf(p)' = "closed"
    PROVE  Promise!Next
<1> DEFINE n == Cardinality(SlotsOf(stack, p))
<1>1. /\ Cardinality(SlotsOf(stack', p)) = n - 1
      /\ n \in Nat
  BY SlotsFinite, FS_RemoveElement
<1>2. n > 0
  BY <1>1, SlotsFinite, FS_EmptySet
<1>3. Promise!Leave(p)
  BY <1>1, <1>2 DEF Promise!Leave
<1> QED
  BY <1>3 DEF Promise!Next

LEMMA PromiseFree ==
    ASSUME NEW p \in Proxies, SlotsKept(stack'), SlotsOf(stack, p) = {},
           StatusOf(p) = "closed",
           \A q \in Proxies :
             StatusOf(q)' = IF q = p THEN "freed" ELSE StatusOf(q)
    PROVE  Promise!Next
<1>1. Cardinality(SlotsOf(stack, p)) = 0
  BY FS_EmptySet
<1>2. Promise!Free(p)
  BY <1>1 DEF Promise!Free, SlotsKept
<1> QED
  BY <1>2 DEF Promise!Next

LEMMA PromiseInit == Init => Promise!Init
<1> SUFFICES ASSUME Init PROVE Promise!Init
  OBVIOUS
<1>1. \A p \in Proxies : StatusOf(p) = "none"
  BY DEF Init, StatusOf
<1>2. Len(stack) = 1 /\ stack[1].kind = "loop"
  BY DEF Init, LoopFrame
<1>3. \A p \in Proxies : SlotsOf(stack, p) = {}
  BY <1>2 DEF SlotsOf
<1>4. \A p \in Proxies : Cardinality(SlotsOf(stack, p)) = 0
  BY <1>3, FS_EmptySet
<1> QED
  BY <1>1, <1>4 DEF Promise!Init

\* The proxies that are cut off are those connections that are closed.
LEMMA PromiseCut ==
    ASSUME IInv, NEW S \in SUBSET Proxies, NEW level, Disable(S, level),
           \A p \in S : state[p] = "live",
           SlotsKept(stack'), UNCHANGED state
    PROVE  Promise!Next
<1> DEFINE C == {p \in S : StatusOf(p) = "open"}
<1>1. /\ disabled' = disabled \cup S
      /\ \A p \in Proxies : p \notin S \/ delLevel[p] > 0 =>
           delLevel'[p] = delLevel[p]
      /\ \A p \in Proxies : delLevel[p] \in Nat
  BY DEF Disable, DeleteLater, IInv, TypeOK
<1>2. ASSUME NEW p \in Proxies
      PROVE  StatusOf(p)' = IF p \in C THEN "closed" ELSE StatusOf(p)
  BY <1>1 DEF StatusOf
<1> HIDE DEF C
<1>3. C \in SUBSET Proxies /\ \A p \in C : StatusOf(p) = "open"
  BY DEF C
<1> QED
  BY <1>2, <1>3, PromiseClose

LEMMA PromiseUnislot ==
    ASSUME IInv, LInv, NEW p \in Proxies, NEW base, NEW ev \in BOOLEAN,
           SlotsKept(base), DestructorsKept(base), Unislot(p, base, ev),
           state[p] = "live" \/ p \in disabled,
           info[p].single => p \in timer,
           UNCHANGED state
    PROVE  Promise!Next \/ UNCHANGED Promise!vars
<1>0. TypeOK /\ \A q \in Proxies : delLevel[q] \in Nat
  BY DEF IInv, TypeOK
<1>1. CASE stack' = base /\ UNCHANGED <<disabled, delLevel>>
  <2>1. SlotsKept(stack')
    BY <1>1 DEF SlotsKept
  <2> QED
    BY <1>1, <2>1, PromiseQuiet
<1>2. ASSUME p \notin disabled PROVE StatusOf(p) = "open" /\ state[p] = "live"
  <2>1. ~(delLevel[p] > 0)
    BY <1>2 DEF IInv, DoomedInert
  <2> QED
    BY <1>0, <1>2, <2>1 DEF StatusOf
<1>3. CASE /\ ~Ignores(p)
           /\ disabled' = disabled \cup {p}
           /\ DeleteLater({p}, IF ev THEN Level + 1 ELSE Level)
           /\ stack' = base
  <2>1. StatusOf(p) = "open"
    BY <1>2, <1>3 DEF Ignores
  <2>2. \A q \in Proxies :
          StatusOf(q)' = IF q \in {p} THEN "closed" ELSE StatusOf(q)
    <3>1. \A q \in Proxies : q # p => delLevel'[q] = delLevel[q]
      BY <1>3 DEF DeleteLater
    <3> QED
      BY <1>2, <1>3, <3>1 DEF StatusOf, Ignores
  <2>3. SlotsKept(stack')
    BY <1>3 DEF SlotsKept
  <2>4. {p} \in SUBSET Proxies /\ \A q \in {p} : StatusOf(q) = "open"
    BY <2>1
  <2> QED
    BY <2>2, <2>3, <2>4, PromiseClose
<1>4. CASE /\ ~Ignores(p)
           /\ stack' = Append(base, SlotFrame(p, ev))
           /\ UNCHANGED <<disabled, delLevel>>
  <2>1. StatusOf(p) = "open"
    BY <1>2, <1>4 DEF Ignores
  <2>2. /\ Len(base) + 1 \notin SlotsOf(stack, p)
        /\ \A q \in Proxies : SlotsOf(stack', q) =
             IF q = p THEN SlotsOf(stack, q) \cup {Len(base) + 1}
             ELSE SlotsOf(stack, q)
    BY <1>4, EnterKept
  <2>3. \A q \in Proxies : StatusOf(q)' = StatusOf(q)
    BY <1>4 DEF StatusOf
  <2> QED
    BY <1>0, <2>1, <2>2, <2>3, PromiseEnter
<1> QED
  BY <1>1, <1>3, <1>4 DEF Unislot

LEMMA PromiseNewProxy ==
    ASSUME IInv, LInv, NEW p \in Proxies, NEW i, Fresh(p), NewProxy(p, i),
           UNCHANGED <<disabled, delLevel, stack>>
    PROVE  Promise!Next
<1>1. /\ state[p] = "unused" /\ TypeOK
      /\ \A q \in Proxies : state'[q] = IF q = p THEN "live" ELSE state[q]
  BY DEF Fresh, NewProxy, IInv, TypeOK
<1>2. p \notin disabled /\ delLevel[p] = 0
  BY <1>1 DEF IInv, UnusedInert, LInv, UnusedNew
<1>3. /\ StatusOf(p) = "none"
      /\ \A q \in Proxies :
           StatusOf(q)' = IF q = p THEN "open" ELSE StatusOf(q)
  BY <1>1, <1>2 DEF StatusOf
<1>4. SlotsKept(stack')
  BY <1>1, StackKept
<1> QED
  BY <1>3, <1>4, PromiseOpen

LEMMA ApplicationPromise ==
    ASSUME IInv, LInv, Application
    PROVE  Promise!Next \/ UNCHANGED Promise!vars
<1> DEFINE Goal == Promise!Next \/ UNCHANGED Promise!vars
<1>0. /\ TypeOK /\ SlotsKept(stack) /\ stack \in Seq(Frame)
      /\ stack' = stack => SlotsKept(stack')
  BY StackKept DEF IInv, SlotsKept
<1>1. ASSUME NEW p \in Proxies, p \in hash \/ p \in conn
      PROVE  state[p] = "live"
  BY <1>0, <1>1 DEF IInv, UnusedInert, LInv, DeletedForgotten, TypeOK
<1>2. ASSUME NEW t \in Transmitters, NEW s \in Signals, NEW slot \in Slots,
             NEW queued \in BOOLEAN, NEW nocheck \in BOOLEAN,
             NEW unique \in BOOLEAN, NEW fails \in BOOLEAN,
             Connect(t, s, slot, queued, nocheck, unique, fails)
      PROVE  Goal
  <2> DEFINE i == [tx |-> t, sig |-> s, slot |-> slot, queued |-> queued,
                   single |-> FALSE, nocheck |-> nocheck]
  <2>1. PICK p \in Proxies : Fresh(p) /\ NewProxy(p, i)
    BY <1>2 DEF Connect
  <2>2. UNCHANGED <<disabled, delLevel, stack>>
    BY <1>2 DEF Connect
  <2> HIDE DEF i
  <2> QED
    BY <2>1, <2>2, PromiseNewProxy
<1>3. ASSUME NEW slot \in Slots, SingleShot(slot) PROVE Goal
  <2> DEFINE i(s) == [tx |-> NoTx, sig |-> s, slot |-> slot, queued |-> FALSE,
                      single |-> TRUE, nocheck |-> FALSE]
  <2>1. PICK p \in Proxies, s \in Signals \ {Destroyed} :
          Fresh(p) /\ NewProxy(p, i(s))
    BY <1>3 DEF SingleShot
  <2>2. UNCHANGED <<disabled, delLevel, stack>>
    BY <1>3 DEF SingleShot
  <2> HIDE DEF i
  <2> QED
    BY <2>1, <2>2, PromiseNewProxy
<1>4. ASSUME NEW S \in SUBSET Proxies, \A p \in S : p \in hash \/ p \in conn,
             Disable(S, Level), UNCHANGED <<state, stack>>
      PROVE  Goal
  <2>1. \A p \in S : state[p] = "live"
    BY <1>1, <1>4
  <2> QED
    BY <1>0, <1>4, <2>1, PromiseCut
<1>5. ASSUME NEW t \in Transmitters, NEW s \in Signals, NEW slot \in Slots,
             Disconnect(t, s, slot)
      PROVE  Goal
  <2>1. PICK p \in hash : Disable({p}, Level)
    BY <1>5 DEF Disconnect, FindSlotProxy, Matches, Filed
  <2>2. {p} \in SUBSET Proxies
    BY <1>0 DEF TypeOK
  <2> QED
    BY <1>4, <1>5, <2>1, <2>2 DEF Disconnect
<1>6. ASSUME NEW p \in Proxies, DisconnectHandle(p) PROVE Goal
  <2>1. {p} \in SUBSET Proxies
    OBVIOUS
  <2> QED
    BY <1>4, <1>6, <2>1 DEF DisconnectHandle
<1>7. ASSUME NEW t \in Transmitters, NEW s \in Signals, DisconnectSignal(t, s)
      PROVE  Goal
  <2>1. Filed(t, s) \in SUBSET Proxies /\ Filed(t, s) \subseteq hash
    BY <1>0 DEF Filed, TypeOK
  <2> QED
    BY <1>4, <1>7, <2>1 DEF DisconnectSignal
<1>8. ASSUME NEW t \in Transmitters, DisconnectAll(t) PROVE Goal
  <2> DEFINE S == {p \in hash : info[p].tx = t}
  <2>1. S \in SUBSET Proxies /\ S \subseteq hash /\ Disable(S, Level)
    BY <1>0, <1>8 DEF DisconnectAll, TypeOK
  <2> HIDE DEF S
  <2> QED
    BY <1>4, <1>8, <2>1 DEF DisconnectAll
<1>9. ASSUME NEW t \in Transmitters, NEW s \in Signals, Emit(t, s)
      PROVE  Goal
  <2>1. /\ EmitFrame(t, s, Connected(t, s)) \in Frame
        /\ EmitFrame(t, s, Connected(t, s)).kind = "emit"
    <3>1. Connected(t, s) \in SUBSET Proxies
      BY <1>0 DEF Connected, TypeOK
    <3> QED
      BY <3>1, FrameTypes
  <2>2. SlotsKept(stack')
    BY <1>0, <1>9, <2>1, AppendKept DEF Emit
  <2> QED
    BY <1>9, <2>2, PromiseQuiet DEF Emit
<1>10. ASSUME NEW t \in Transmitters, Destroy(t) PROVE Goal
  <2> DEFINE f == EmitFrame(t, Destroyed,
                            Connected(t, Destroyed) \cup Watching(t))
  <2>1. f \in Frame /\ f.kind = "emit"
    <3>1. Connected(t, Destroyed) \cup Watching(t) \in SUBSET Proxies
      BY <1>0 DEF Connected, Watching, TypeOK
    <3> QED
      BY <3>1, FrameTypes, SignalsAssumption
  <2>2. stack' = Append(stack, f)
    BY <1>10 DEF Destroy
  <2> HIDE DEF f
  <2>3. SlotsKept(stack')
    BY <1>0, <2>1, <2>2, AppendKept
  <2> QED
    BY <1>10, <2>3, PromiseQuiet DEF Destroy
<1>11. ASSUME NEW t \in Transmitters, Create(t) \/ ClearSlotProxies(t)
       PROVE  Goal
  BY <1>0, <1>11, PromiseQuiet DEF Create, ClearSlotProxies
<1>12. ASSUME NEW slot \in Slots, LoseReceiver(slot) \/ CollectReceiver(slot)
       PROVE  Goal
  BY <1>0, <1>12, PromiseQuiet DEF LoseReceiver, CollectReceiver
<1>13. ASSUME EnterLoop PROVE Goal
  <2>1. SlotsKept(stack')
    BY <1>0, <1>13, AppendKept, FrameTypes DEF EnterLoop
  <2> QED
    BY <1>13, <2>1, PromiseQuiet DEF EnterLoop
<1> HIDE DEF Goal
<1> QED
  BY <1>2, <1>3, <1>5, <1>6, <1>7, <1>8, <1>9, <1>10, <1>11, <1>12, <1>13
     DEF Application, Goal

LEMMA EmissionPromise ==
    ASSUME IInv, LInv, EmitStep \/ EmitDone \/ DestroyDone
    PROVE  Promise!Next \/ UNCHANGED Promise!vars
<1>1. /\ TypeOK /\ Popped \in Seq(Frame)
      /\ SlotsKept(Popped) /\ DestructorsKept(Popped)
      /\ Top \in Frame /\ Top.kind = "emit"
  BY StackTypes, PoppedKept DEF IInv, EmitStep, EmitDone, DestroyDone
<1>2. Top.t \in Transmitters /\ Top.s \in Signals /\ Top.todo \subseteq Proxies
  BY <1>1, FrameTypes
<1>3. ASSUME EmitStep PROVE Promise!Next \/ UNCHANGED Promise!vars
  <2> DEFINE base(p) == Append(Popped, EmitFrame(Top.t, Top.s, Top.todo \ {p}))
             calls(p) == p \in conn /\ info[p].sig = Top.s
  <2>1. PICK p \in Top.todo :
          /\ queue' = queue \o Posts(p, Top.s)
          /\ IF calls(p) /\ ~info[p].queued
               THEN Unislot(p, base(p), FALSE)
               ELSE /\ stack' = base(p)
                    /\ UNCHANGED <<disabled, invoked, delLevel, ran>>
    BY <1>3 DEF EmitStep
  <2>2. p \in Proxies /\ UNCHANGED state
    BY <1>2, <1>3 DEF EmitStep
  <2>3. SlotsKept(base(p)) /\ DestructorsKept(base(p))
    BY <1>1, <1>2, <2>1, <2>2, EmitBase
  <2>4. CASE calls(p) /\ ~info[p].queued
    <3>1. p \in conn /\ Unislot(p, base(p), FALSE)
      BY <2>1, <2>4
    <3>2. state[p] = "live" /\ ~info[p].single
      BY <1>1, <2>2, <3>1
         DEF IInv, UnusedInert, SingleByTimer, LInv, DeletedForgotten, TypeOK
    <3> HIDE DEF base, calls
    <3> QED
      BY <2>2, <2>3, <3>1, <3>2, PromiseUnislot
  <2>5. CASE ~(calls(p) /\ ~info[p].queued)
    <3>1. stack' = base(p) /\ UNCHANGED <<disabled, delLevel>>
      BY <2>1, <2>5
    <3> HIDE DEF base, calls
    <3>2. SlotsKept(stack')
      BY <2>3, <3>1
    <3> QED
      BY <2>2, <3>1, <3>2, PromiseQuiet
  <2> QED
    BY <2>4, <2>5
<1>4. ASSUME EmitDone \/ DestroyDone PROVE UNCHANGED Promise!vars
  <2>1. SlotsKept(stack')
    BY <1>1, <1>4 DEF EmitDone, DestroyDone
  <2> QED
    BY <1>4, <2>1, PromiseQuiet DEF EmitDone, DestroyDone
<1> QED
  BY <1>3, <1>4

LEMMA EventLoopPromise ==
    ASSUME "reenter" \notin Features, IInv, LInv, EventLoop
    PROVE  Promise!Next \/ UNCHANGED Promise!vars
<1>0. /\ TypeOK /\ SlotsKept(stack) /\ DestructorsKept(stack)
      /\ stack \in Seq(Frame)
      /\ stack' = stack => SlotsKept(stack')
  BY StackKept DEF IInv, SlotsKept
<1>1. ASSUME PyEvent PROVE UNCHANGED Promise!vars
  <2>1. SlotsKept(stack')
    BY <1>0, <1>1, AppendKept, FrameTypes DEF PyEvent
  <2> QED
    BY <1>1, <2>1, PromiseQuiet DEF PyEvent
<1>2. ASSUME Deliver PROVE Promise!Next \/ UNCHANGED Promise!vars
  <2> DEFINE e == Head(queue)
             p == Head(queue).p
  <2>1. /\ e \in Event /\ p \in Proxies /\ UNCHANGED state
        /\ Len(queue) \in Nat \ {0} /\ e = queue[1]
    <3>1. queue \in Seq(Event) /\ queue # << >> /\ UNCHANGED state
      BY <1>0, <1>2 DEF Deliver, TypeOK
    <3>2. e \in Event /\ e = queue[1] /\ Len(queue) \in Nat \ {0}
      BY <3>1, HeadTailProperties, EmptySeq
    <3> QED
      BY <3>1, <3>2 DEF Event
  <2>2. CASE UNCHANGED <<disabled, invoked, delLevel, stack, ran>>
    BY <1>0, <2>1, <2>2, PromiseQuiet
  <2>3. CASE /\ state[p] = "live" /\ e.kind = "call"
             /\ Unislot(p, stack, TRUE)
    <3>1. e = [kind |-> "call", p |-> p]
      BY <2>1, <2>3 DEF Event
    <3>2. Posted("call", p)
      BY <2>1, <3>1 DEF Posted
    <3>3. ~info[p].single
      BY <2>1, <3>2 DEF IInv, SingleByTimer
    <3> HIDE DEF p, e
    <3> QED
      BY <1>0, <2>1, <2>3, <3>3, PromiseUnislot
  <2>4. CASE /\ state[p] = "live" /\ Disable({p}, Level + 1)
             /\ UNCHANGED <<invoked, stack, ran>>
    <3>1. {p} \in SUBSET Proxies /\ \A q \in {p} : state[q] = "live"
      BY <2>1, <2>4
    <3> HIDE DEF p, e
    <3> QED
      BY <1>0, <2>1, <2>4, <3>1, PromiseCut
  <2> QED
    BY <1>2, <2>2, <2>3, <2>4 DEF Deliver
<1>3. ASSUME NEW p \in Proxies, TimerFire(p)
      PROVE  Promise!Next \/ UNCHANGED Promise!vars
  <2>1. p \in timer /\ Unislot(p, stack, TRUE) /\ UNCHANGED state
    BY <1>3 DEF TimerFire
  <2>2. state[p] = "live" \/ p \in disabled
    BY <1>0, <2>1 DEF IInv, UnusedInert, DoomedInert, TypeOK
  <2> QED
    BY <1>0, <2>1, <2>2, PromiseUnislot
<1>4. ASSUME NEW p \in Proxies, DeferredDelete(p) PROVE Promise!Next
  <2>1. /\ delLevel[p] > 0
        /\ \A q \in Proxies :
             /\ state'[q] = IF q = p THEN "deleted" ELSE state[q]
             /\ q # p => delLevel'[q] = delLevel[q]
        /\ UNCHANGED <<disabled, stack>>
    <3>1. delLevel[p] > Level /\ Level \in Nat /\ delLevel[p] \in Nat
      BY <1>0, <1>4, LevelType DEF DeferredDelete, TypeOK
    <3> QED
      BY <1>0, <1>4, <3>1 DEF DeferredDelete, TypeOK
  <2>2. state[p] = "live"
    BY <1>0, <2>1 DEF IInv, UnusedInert, LInv, DeletedForgotten, TypeOK
  <2>3. /\ StatusOf(p) = "closed"
        /\ \A q \in Proxies :
             StatusOf(q)' = IF q = p THEN "freed" ELSE StatusOf(q)
    BY <1>0, <2>1, <2>2 DEF StatusOf, TypeOK
  <2>4. SlotsOf(stack, p) = {}
    <3>1. p \notin invoked
      BY <2>1 DEF IInv, DoomedInert
    <3> QED
      BY <3>1 DEF IInv, InvokedIsExecuting, SlotsOf
  <2>5. SlotsKept(stack')
    BY <1>0, <2>1
  <2> QED
    BY <2>3, <2>4, <2>5, PromiseFree
<1> QED
  BY <1>1, <1>2, <1>3, <1>4 DEF EventLoop

LEMMA ReturnPromise ==
    ASSUME IInv, LInv, Return
    PROVE  Promise!Next \/ UNCHANGED Promise!vars
<1>0. /\ TypeOK /\ stack' = Popped
      /\ Top.kind # "slot" => SlotsKept(stack')
      /\ Top.kind = "slot" =>
           \A p \in Proxies : SlotsOf(stack', p) =
             IF p = Top.p THEN SlotsOf(stack, p) \ {Len(stack)}
             ELSE SlotsOf(stack, p)
  BY PoppedKept DEF IInv, Return, SlotReturn, EventReturn, LoopExit, InLoop
<1>1. ASSUME EventReturn \/ LoopExit PROVE UNCHANGED Promise!vars
  BY <1>0, <1>1, PromiseQuiet DEF EventReturn, LoopExit, InLoop
<1>2. ASSUME SlotReturn PROVE Promise!Next
  <2>1. PICK p \in Proxies : p = Top.p
    BY <1>0, <1>2, StackTypes, FrameTypes DEF SlotReturn
  <2>2. Top.kind = "slot" /\ UNCHANGED <<state, disabled>>
    BY <1>2 DEF SlotReturn
  <2>3. /\ Len(stack) \in SlotsOf(stack, p)
        /\ \A q \in Proxies : SlotsOf(stack', q) =
             IF q = p THEN SlotsOf(stack, q) \ {Len(stack)}
             ELSE SlotsOf(stack, q)
    <3>1. Len(stack) \in 1..Len(stack)
      BY <1>0, StackTypes
    <3> QED
      BY <1>0, <2>1, <2>2, <3>1 DEF SlotsOf, Top
  <2>4. \A q \in Proxies :
          /\ q # p \/ delLevel[q] > 0 => delLevel'[q] = delLevel[q]
          /\ delLevel[q] \in Nat
    BY <1>0, <1>2, <2>1 DEF SlotReturn, DeleteLater, TypeOK
  <2>5. \A q \in Proxies : q # p => StatusOf(q)' = StatusOf(q)
    BY <2>2, <2>4 DEF StatusOf
  <2>6. \/ StatusOf(p)' = StatusOf(p)
        \/ StatusOf(p) = "open" /\ StatusOf(p)' = "closed"
    BY <2>2, <2>4 DEF StatusOf
  <2> QED
    BY <1>0, <2>3, <2>5, <2>6, PromiseLeave
<1> QED
  BY <1>1, <1>2 DEF Return

LEMMA PromiseStep ==
    ASSUME "reenter" \notin Features, IInv, LInv, [Next]_vars
    PROVE  [Promise!Next]_(Promise!vars)
<1>1. CASE UNCHANGED vars
  <2>1. SlotsKept(stack')
    BY <1>1, StackKept DEF IInv, vars
  <2> QED
    BY <1>1, <2>1, PromiseQuiet DEF vars
<1> QED
  BY <1>1, ApplicationPromise, EmissionPromise, EventLoopPromise, ReturnPromise
     DEF Next

\* As long as no slot is entered again while it executes, the proxies are the
\* connections they stand for: their slots are entered only while they are
\* open, they stay closed, and they are freed when nothing of theirs runs.
THEOREM ProxiesKeepPromise ==
    ASSUME "reenter" \notin Features
    PROVE  Spec => ConnectionPromise
<1>1. Init => Promise!Init
  BY PromiseInit
<1>2. IInv /\ LInv /\ [Next]_vars => [Promise!Next]_(Promise!vars)
  BY PromiseStep
<1> QED
  BY <1>1, <1>2, Invariance, LinksHold, PTL
     DEF Spec, ConnectionPromise, Promise!Spec

=============================================================================
