------------------------ MODULE GatewayPublisherProofs ------------------------
(***************************************************************************)
(* Proofs about GatewayPublisher, for every number of handlers and workers, *)
(* every queue length and every number of events.  Events are counted by    *)
(* where they are, so the invariant says that each is in one place.         *)
(***************************************************************************)
EXTENDS GatewayPublisher, FiniteSetTheorems, TLAPS

\* Handlers whose event is neither accepted nor dropped.
InHand == {h \in Handlers : checked[h] # None \/ handler[h] = "panicked"}

Distinct(s) == \A i, j \in DOMAIN s : s[i] = s[j] => i = j

\* An event is numbered before it is sent, and is in one place.
OnePlace ==
  /\ \A h \in Handlers : checked[h] # None =>
       checked[h] \in 1 .. made /\ checked[h] \notin Elements(accepted)
  /\ \A g, h \in Handlers : checked[g] # None /\ checked[g] = checked[h] => g = h
  /\ \A e \in Elements(accepted) : e \in 1 .. made
  /\ Distinct(queue)
  /\ \A v, w \in Workers : worker[v] \in Events /\ worker[v] = worker[w] => v = w
  /\ Elements(queue) \cap Held = {}
  /\ (Elements(queue) \cup Held) \cap (Elements(published) \cup failed) = {}
  /\ failed \cap Elements(published) = {}

Counted ==
  /\ IsFiniteSet(InHand)
  /\ Elements(accepted) = Elements(queue) \cup Held \cup Elements(published) \cup failed
  /\ Len(accepted) = Len(queue) + Cardinality(Held) + Len(published) + Cardinality(failed)
  /\ made = Len(accepted) + dropped + Cardinality(InHand)

\* What the phases of Run say about the queue and the workers.
RunInv ==
  /\ run \in {"waiting", "returned"} <=> ~queueOpen
  /\ \A w \in Workers : worker[w] = Exited => ~queueOpen /\ queue = <<>>
  /\ run = "returned" => \A w \in Workers : worker[w] = Exited

Inv == TypeOK /\ OnePlace /\ Counted

-----------------------------------------------------------------------------
(* Sequences and sets. *)

LEMMA AppendElements ==
  ASSUME NEW S, NEW s \in Seq(S), NEW e \in S
  PROVE  /\ Append(s, e) \in Seq(S) /\ Len(Append(s, e)) = Len(s) + 1
         /\ Elements(Append(s, e)) = Elements(s) \cup {e}
         /\ Distinct(s) /\ e \notin Elements(s) => Distinct(Append(s, e))
<1>1. /\ Append(s, e) \in Seq(S) /\ Len(Append(s, e)) = Len(s) + 1
      /\ \A i \in 1 .. Len(s) : Append(s, e)[i] = s[i]
      /\ Append(s, e)[Len(s) + 1] = e
  OBVIOUS
<1>2. DOMAIN s = 1 .. Len(s) /\ DOMAIN Append(s, e) = 1 .. (Len(s) + 1) /\ Len(s) \in Nat
  OBVIOUS
<1>3. Elements(Append(s, e)) = Elements(s) \cup {e}
  BY <1>1, <1>2 DEF Elements
<1>4. Distinct(s) /\ e \notin Elements(s) => Distinct(Append(s, e))
  BY <1>1, <1>2 DEF Distinct, Elements
<1>5. QED
  BY <1>1, <1>3, <1>4

LEMMA TailElements ==
  ASSUME NEW S, NEW s \in Seq(S), s # <<>>
  PROVE  /\ Head(s) \in S /\ Tail(s) \in Seq(S) /\ Len(Tail(s)) = Len(s) - 1
         /\ Elements(s) = Elements(Tail(s)) \cup {Head(s)}
         /\ Distinct(s) => Distinct(Tail(s)) /\ Head(s) \notin Elements(Tail(s))
<1>1. /\ Len(s) \in Nat /\ Len(s) # 0 /\ Head(s) = s[1] /\ Tail(s) \in Seq(S)
      /\ Len(Tail(s)) = Len(s) - 1
      /\ \A i \in 1 .. (Len(s) - 1) : Tail(s)[i] = s[i + 1]
  OBVIOUS
<1>2. DOMAIN s = 1 .. Len(s) /\ DOMAIN Tail(s) = 1 .. (Len(s) - 1)
  BY <1>1
<1>3. Elements(s) = Elements(Tail(s)) \cup {Head(s)}
  <2>1. ASSUME NEW i \in 1 .. Len(s) PROVE s[i] \in Elements(Tail(s)) \cup {Head(s)}
    <3>1. CASE i = 1
      BY <1>1, <3>1
    <3>2. CASE i # 1
      <4>1. i - 1 \in 1 .. (Len(s) - 1) /\ (i - 1) + 1 = i
        BY <1>1, <3>2
      <4>2. Tail(s)[i - 1] = s[i]
        BY <1>1, <4>1
      <4>3. QED
        BY <1>2, <4>1, <4>2 DEF Elements
    <3>3. QED
      BY <3>1, <3>2
  <2>2. ASSUME NEW i \in 1 .. (Len(s) - 1) PROVE Tail(s)[i] \in Elements(s)
    BY <1>1, <1>2 DEF Elements
  <2>3. Head(s) \in Elements(s)
    BY <1>1, <1>2 DEF Elements
  <2>4. QED
    BY <1>2, <2>1, <2>2, <2>3 DEF Elements
<1>4. Distinct(s) => Distinct(Tail(s)) /\ Head(s) \notin Elements(Tail(s))
  BY <1>1, <1>2 DEF Distinct, Elements
<1>5. QED
  BY <1>1, <1>3, <1>4

\* Sets of events are finite.
LEMMA EventSetsFinite ==
  ASSUME NEW S \in SUBSET Events
  PROVE  IsFiniteSet(S) /\ Cardinality(S) \in Nat
<1>1. IsFiniteSet(Events)
  BY FS_Interval, PublisherAssumption DEF Events
<1>2. QED
  BY <1>1, FS_Subset, FS_CardinalityType

LEMMA ElementsOf ==
  ASSUME NEW S, NEW s \in Seq(S)
  PROVE  Elements(s) \subseteq S
BY DEF Elements
-----------------------------------------------------------------------------
(* Where the events are. *)

\* A step that moves no event.
LEMMA IdleKeeps ==
  ASSUME Inv, UNCHANGED <<checked, made, queue, worker, accepted, published, failed, dropped>>,
         InHand' = InHand
  PROVE  OnePlace' /\ Counted'
<1>1. Held' = Held
  BY DEF Held
<1>2. OnePlace'
  BY <1>1 DEF Inv, OnePlace
<1>3. Counted'
  BY <1>1 DEF Inv, Counted
<1>4. QED
  BY <1>2, <1>3

LEMMA CheckKeeps ==
  ASSUME Inv, NEW h \in Handlers, EnqueueCheck(h)
  PROVE  Inv'
<1> USE PublisherAssumption
<1>1. /\ handler[h] = "handling" /\ checked[h] = None /\ made < MaxEvents /\ made' = made + 1
      /\ \/ dropped' = dropped + 1 /\ UNCHANGED checked
         \/ checked' = [checked EXCEPT ![h] = made + 1] /\ UNCHANGED dropped
      /\ UNCHANGED <<stage, handler, closed, queueOpen, queue, run, worker, accepted, published,
                     failed>>
  BY DEF EnqueueCheck
<1>2. TypeOK /\ made \in Nat /\ MaxEvents \in Nat /\ dropped \in Nat /\ Len(accepted) \in Nat
  BY DEF Inv, TypeOK
<1>3. TypeOK'
  <2>1. made + 1 \in Events /\ made + 1 \in 0 .. MaxEvents
    BY <1>1, <1>2 DEF Events
  <2>2. checked' \in [Handlers -> Events \cup {None}] /\ made' \in 0 .. MaxEvents /\ dropped' \in Nat
    <3>1. checked \in [Handlers -> Events \cup {None}]
      BY <1>2 DEF TypeOK
    <3>2. checked' \in [Handlers -> Events \cup {None}]
      BY <1>1, <2>1, <3>1
    <3>3. made' \in 0 .. MaxEvents /\ dropped' \in Nat
      BY <1>1, <1>2, <2>1
    <3>4. QED
      BY <3>2, <3>3
  <2>3. QED
    BY <1>1, <1>2, <2>2 DEF TypeOK
<1>4. OnePlace'
  <2>1. made + 1 \notin 1 .. made /\ 1 .. made \subseteq 1 .. made'
    BY <1>1, <1>2
  <2>2. made + 1 # None /\ made + 1 \in 1 .. made'
    BY <1>1, <1>2
  <2>3. ASSUME NEW g \in Handlers, checked'[g] # None
        PROVE  \/ g = h /\ checked'[g] = made + 1
               \/ checked'[g] = checked[g] /\ checked[g] \in 1 .. made
    BY <1>1, <1>2, <2>3 DEF TypeOK, Inv, OnePlace
  <2>4. ASSUME NEW g \in Handlers, checked'[g] # None
        PROVE  checked'[g] \in 1 .. made' /\ checked'[g] \notin Elements(accepted)
    BY <2>1, <2>2, <2>3, <2>4 DEF Inv, OnePlace
  <2>5. ASSUME NEW f \in Handlers, NEW g \in Handlers, checked'[f] # None, checked'[f] = checked'[g]
        PROVE  f = g
    BY <2>1, <2>3, <2>5 DEF Inv, OnePlace
  <2>6. QED
    BY <1>1, <2>1, <2>4, <2>5 DEF Inv, OnePlace, Held
<1>5. Counted'
  <2>1. CASE dropped' = dropped + 1 /\ UNCHANGED checked
    <3>1. InHand' = InHand
      BY <1>1, <2>1 DEF InHand
    <3>2. Cardinality(InHand) \in Nat
      BY FS_CardinalityType DEF Inv, Counted
    <3>3. QED
      BY <1>1, <1>2, <2>1, <3>1, <3>2 DEF Inv, Counted, Held
  <2>2. CASE checked' = [checked EXCEPT ![h] = made + 1] /\ UNCHANGED dropped
    <3>1. h \notin InHand /\ InHand' = InHand \cup {h}
      BY <1>1, <1>2, <2>2 DEF InHand, TypeOK
    <3>2. IsFiniteSet(InHand') /\ Cardinality(InHand') = Cardinality(InHand) + 1
      BY <3>1, FS_AddElement DEF Inv, Counted
    <3>3. Cardinality(InHand) \in Nat
      BY FS_CardinalityType DEF Inv, Counted
    <3>4. QED
      BY <1>1, <1>2, <2>2, <3>2, <3>3 DEF Inv, Counted, Held
  <2>3. QED
    BY <1>1, <2>1, <2>2
<1>6. QED
  BY <1>3, <1>4, <1>5 DEF Inv

LEMMA SendKeeps ==
  ASSUME Inv, NEW h \in Handlers, EnqueueSend(h)
  PROVE  Inv'
<1> USE PublisherAssumption
<1>t. /\ TypeOK /\ made \in Nat /\ dropped \in Nat /\ Len(accepted) \in Nat /\ Len(queue) \in Nat
      /\ queue \in Seq(Events) /\ accepted \in Seq(Events) /\ Len(published) \in Nat
  BY DEF Inv, TypeOK
<1>1. PICK e \in Events : e = checked[h]
  BY DEF EnqueueSend, Inv, TypeOK
<1>2. /\ handler[h] = "handling" /\ checked' = [checked EXCEPT ![h] = None]
      /\ UNCHANGED <<made, closed, queueOpen, run, worker, published, failed>>
      /\ \/ /\ handler' = [handler EXCEPT ![h] = "panicked"] /\ stage' \in {stage, "stopped"}
            /\ UNCHANGED <<queue, accepted, dropped>>
         \/ /\ Len(queue) < QueueSize /\ queue' = Append(queue, e)
            /\ accepted' = Append(accepted, e) /\ UNCHANGED <<stage, handler, dropped>>
         \/ dropped' = dropped + 1 /\ UNCHANGED <<stage, handler, queue, accepted>>
  BY <1>1 DEF EnqueueSend
<1>3. e # None /\ e \in 1 .. made /\ e \notin Elements(accepted)
  <2>1. checked[h] # None
    BY DEF EnqueueSend
  <2>2. QED
    BY <1>1, <2>1 DEF Inv, OnePlace
<1>4. checked'[h] = None /\ \A g \in Handlers : g # h => checked'[g] = checked[g]
  BY <1>2, <1>t DEF TypeOK
<1>5. /\ checked' \in [Handlers -> Events \cup {None}]
      /\ handler' \in [Handlers -> {"idle", "handling", "panicked"}]
      /\ stage' \in {"serving", "draining", "drained", "cancelled", "stopped"}
  BY <1>2, <1>t DEF TypeOK
<1>6. IsFiniteSet(InHand) /\ Cardinality(InHand) \in Nat
  BY FS_CardinalityType DEF Inv, Counted
<1>7. CASE UNCHANGED <<queue, accepted>>
  <2>1. TypeOK'
    BY <1>2, <1>5, <1>7, <1>t DEF TypeOK
  <2>2. OnePlace'
    BY <1>2, <1>4, <1>7 DEF Inv, OnePlace, Held
  <2>3. CASE handler' = [handler EXCEPT ![h] = "panicked"] /\ UNCHANGED dropped
    <3>1. InHand' = InHand
      BY <1>1, <1>3, <1>4, <2>3, <1>t DEF InHand, TypeOK
    <3>2. QED
      BY <1>2, <1>7, <2>1, <2>2, <2>3, <3>1 DEF Inv, Counted, Held
  <2>4. CASE dropped' = dropped + 1 /\ UNCHANGED handler
    <3>1. h \in InHand /\ InHand' = InHand \ {h}
      BY <1>1, <1>2, <1>3, <1>4, <2>4 DEF InHand
    <3>2. IsFiniteSet(InHand') /\ Cardinality(InHand') = Cardinality(InHand) - 1
      BY <1>6, <3>1, FS_RemoveElement
    <3>3. Counted'
      <4>1. Held' = Held
        BY <1>2 DEF Held
      <4>2. PICK n \in Nat : n = Cardinality(InHand)
        BY <1>6
      <4>3. made = Len(accepted) + dropped + n
        BY <4>2 DEF Inv, Counted
      <4>4. made' = Len(accepted') + dropped' + Cardinality(InHand')
        BY <1>2, <1>7, <2>4, <3>2, <4>2, <4>3, <1>t
      <4>5. QED
        BY <1>2, <1>7, <3>2, <4>1, <4>4 DEF Inv, Counted
    <3>4. QED
      BY <2>1, <2>2, <3>3 DEF Inv
  <2>5. queue # Append(queue, e)
    BY <1>t, AppendElements
  <2>6. QED
    BY <1>2, <1>7, <2>3, <2>4, <2>5
<1>8. CASE /\ Len(queue) < QueueSize /\ queue' = Append(queue, e)
           /\ accepted' = Append(accepted, e) /\ UNCHANGED <<stage, handler, dropped>>
  <2>1. /\ queue' \in Seq(Events) /\ Len(queue') = Len(queue) + 1
        /\ Elements(queue') = Elements(queue) \cup {e}
        /\ e \notin Elements(queue) => (Distinct(queue) => Distinct(queue'))
        /\ accepted' \in Seq(Events) /\ Len(accepted') = Len(accepted) + 1
        /\ Elements(accepted') = Elements(accepted) \cup {e}
    BY <1>8, <1>t, AppendElements
  <2>2. e \notin Elements(queue) \cup Held \cup Elements(published) \cup failed
    BY <1>3 DEF Inv, Counted
  <2>3. TypeOK'
    BY <1>2, <1>5, <1>8, <2>1, <1>t DEF TypeOK
  <2>4. Held' = Held
    BY <1>2 DEF Held
  <2>5. OnePlace'
    BY <1>1, <1>2, <1>3, <1>4, <2>1, <2>2, <2>4 DEF Inv, OnePlace
  <2>6. h \in InHand /\ InHand' = InHand \ {h}
    BY <1>1, <1>2, <1>3, <1>4, <1>8 DEF InHand
  <2>7. IsFiniteSet(InHand') /\ Cardinality(InHand') = Cardinality(InHand) - 1
    BY <1>6, <2>6, FS_RemoveElement
  <2>8. Cardinality(Held) \in Nat /\ Cardinality(failed) \in Nat
    BY EventSetsFinite, <1>t DEF Held, TypeOK
  <2>9. Counted'
    <3>1. PICK n \in Nat : n = Cardinality(InHand)
      BY <1>6
    <3>2. PICK a \in Nat, b \in Nat : a = Cardinality(Held) /\ b = Cardinality(failed)
      BY <2>8
    <3>3. /\ made = Len(accepted) + dropped + n
          /\ Len(accepted) = Len(queue) + a + Len(published) + b
      BY <3>1, <3>2 DEF Inv, Counted
    <3>m. UNCHANGED <<made, dropped, published, failed>>
      BY <1>2, <1>8
    <3>n. PICK l \in Nat, q \in Nat, p \in Nat :
            /\ l = Len(accepted) /\ q = Len(queue) /\ p = Len(published)
            /\ Len(accepted') = l + 1 /\ Len(queue') = q + 1 /\ Cardinality(InHand') = n - 1
      BY <2>1, <2>7, <3>1, <1>t
    <3>4. made' = Len(accepted') + dropped' + Cardinality(InHand')
      <4>1. made = l + dropped + n
        BY <3>3, <3>n
      <4>2. made = (l + 1) + dropped + (n - 1)
        BY <4>1, <1>t
      <4>3. QED
        BY <4>2, <3>m, <3>n
    <3>5. Len(accepted') = Len(queue') + Cardinality(Held') + Len(published') + Cardinality(failed')
      <4>1. l = q + a + p + b
        BY <3>3, <3>n
      <4>2. l + 1 = (q + 1) + a + p + b
        BY <4>1
      <4>3. QED
        BY <4>2, <2>4, <3>2, <3>m, <3>n
    <3>6. Elements(accepted') = Elements(queue') \cup Held' \cup Elements(published') \cup failed'
      BY <1>2, <2>1, <2>4 DEF Inv, Counted
    <3>7. QED
      BY <2>7, <3>4, <3>5, <3>6 DEF Counted
  <2>10. QED
    BY <2>3, <2>5, <2>9 DEF Inv
<1>9. QED
  BY <1>2, <1>7, <1>8

LEMMA TakeKeeps ==
  ASSUME Inv, NEW w \in Workers, Take(w)
  PROVE  Inv'
<1> USE PublisherAssumption
<1>t. /\ TypeOK /\ Len(accepted) \in Nat /\ Len(queue) \in Nat
      /\ queue \in Seq(Events) /\ Len(published) \in Nat
  BY DEF Inv, TypeOK
<1>1. PICK e \in Events : e = Head(queue)
  BY <1>t, TailElements DEF Take
<1>2. /\ worker[w] = None /\ queue # <<>> /\ worker' = [worker EXCEPT ![w] = e]
      /\ queue' = Tail(queue)
      /\ UNCHANGED <<stage, handler, checked, made, closed, queueOpen, run, accepted, published,
                     failed, dropped>>
  BY <1>1 DEF Take
<1>3. /\ queue' \in Seq(Events) /\ Len(queue') = Len(queue) - 1
      /\ Elements(queue) = Elements(queue') \cup {e}
      /\ Distinct(queue') /\ e \notin Elements(queue')
  BY <1>1, <1>2, <1>t, TailElements DEF Inv, OnePlace
<1>4. worker'[w] = e /\ \A v \in Workers : v # w => worker'[v] = worker[v]
  BY <1>2, <1>t DEF TypeOK
<1>5. Held' = Held \cup {e}
  BY <1>2, <1>4 DEF Held, Events
<1>6. e \notin Held
  BY <1>3 DEF Inv, OnePlace
<1>7. Held \subseteq Events
  BY DEF Held
<1>8. /\ Cardinality(Held') = Cardinality(Held) + 1 /\ Cardinality(Held) \in Nat
      /\ Cardinality(failed) \in Nat
  BY <1>5, <1>6, <1>7, <1>t, EventSetsFinite, FS_AddElement DEF TypeOK
<1>9. TypeOK'
  <2>1. worker' \in [Workers -> Events \cup {None, Exited}]
    BY <1>2, <1>t DEF TypeOK
  <2>2. Len(queue') <= QueueSize
    BY <1>3, <1>t DEF TypeOK
  <2>3. QED
    BY <1>2, <1>3, <2>1, <2>2, <1>t DEF TypeOK
<1>10. OnePlace'
  <2>1. ASSUME NEW u \in Workers, NEW v \in Workers, worker'[u] \in Events, worker'[u] = worker'[v]
        PROVE  u = v
    BY <1>4, <1>6, <2>1 DEF Inv, OnePlace, Held
  <2>2. /\ Elements(queue') \cap Held' = {}
        /\ (Elements(queue') \cup Held') \cap (Elements(published) \cup failed) = {}
    BY <1>3, <1>5 DEF Inv, OnePlace
  <2>3. QED
    BY <1>2, <1>3, <2>1, <2>2 DEF Inv, OnePlace
<1>11. Counted'
  <2>1. InHand' = InHand
    BY <1>2 DEF InHand
  <2>2. Elements(queue') \cup Held' = Elements(queue) \cup Held
    BY <1>3, <1>5
  <2>3. Len(accepted) = Len(queue) + Cardinality(Held) + Len(published) + Cardinality(failed)
    BY DEF Inv, Counted
  <2>4. Len(accepted') = Len(queue') + Cardinality(Held') + Len(published') + Cardinality(failed')
    BY <1>2, <1>3, <1>8, <2>3, <1>t
  <2>5. QED
    BY <1>2, <2>1, <2>2, <2>4 DEF Inv, Counted
<1>12. QED
  BY <1>9, <1>10, <1>11 DEF Inv

LEMMA PublishKeeps ==
  ASSUME Inv, NEW w \in Workers, Publish(w)
  PROVE  Inv'
<1> USE PublisherAssumption
<1>t. /\ TypeOK /\ Len(accepted) \in Nat /\ Len(queue) \in Nat
      /\ published \in Seq(Events) /\ Len(published) \in Nat
  BY DEF Inv, TypeOK
<1>1. PICK e \in Events : e = worker[w]
  BY DEF Publish
<1>2. /\ worker' = [worker EXCEPT ![w] = None]
      /\ \/ published' = Append(published, e) /\ UNCHANGED failed
         \/ failed' = failed \cup {e} /\ UNCHANGED published
      /\ UNCHANGED <<stage, handler, checked, made, closed, queueOpen, queue, run, accepted,
                     dropped>>
  BY <1>1 DEF Publish
<1>3. worker'[w] = None /\ \A v \in Workers : v # w => worker'[v] = worker[v]
  BY <1>2, <1>t DEF TypeOK
<1>4. e \in Held /\ Held' = Held \ {e}
  <2>1. None \notin Events
    BY DEF Events
  <2>2. \A v \in Workers : v # w => worker[v] # e
    BY <1>1 DEF Inv, OnePlace
  <2>3. QED
    BY <1>1, <1>3, <2>1, <2>2 DEF Held
<1>5. e \notin Elements(published) \cup failed /\ e \notin Elements(queue)
  BY <1>4 DEF Inv, OnePlace
<1>6. Held \subseteq Events /\ failed \subseteq Events
  BY <1>t DEF Held, TypeOK
<1>7. /\ IsFiniteSet(Held) /\ IsFiniteSet(failed) /\ Cardinality(Held) \in Nat
      /\ Cardinality(failed) \in Nat
  BY <1>6, EventSetsFinite
<1>8. Cardinality(Held') = Cardinality(Held) - 1
  BY <1>4, <1>7, FS_RemoveElement
<1>9. /\ published' \in Seq(Events) /\ failed' \subseteq Events
      /\ Elements(published') \cup failed' = (Elements(published) \cup failed) \cup {e}
      /\ failed' \cap Elements(published') = {}
      /\ Len(published') + Cardinality(failed') = Len(published) + Cardinality(failed) + 1
      /\ Len(published') \in Nat /\ Cardinality(failed') \in Nat
  <2>1. CASE published' = Append(published, e) /\ UNCHANGED failed
    <3>1. /\ published' \in Seq(Events) /\ Len(published') = Len(published) + 1
          /\ Elements(published') = Elements(published) \cup {e}
      BY <2>1, <1>t, AppendElements
    <3>2. failed \cap Elements(published) = {}
      BY DEF Inv, OnePlace
    <3>3. QED
      BY <1>5, <1>6, <1>7, <2>1, <3>1, <3>2, <1>t
  <2>2. CASE failed' = failed \cup {e} /\ UNCHANGED published
    <3>1. Cardinality(failed') = Cardinality(failed) + 1
      BY <1>5, <1>7, <2>2, FS_AddElement
    <3>2. failed \cap Elements(published) = {}
      BY DEF Inv, OnePlace
    <3>3. QED
      BY <1>5, <1>6, <1>7, <2>2, <3>1, <3>2, <1>t
  <2>3. QED
    BY <1>2, <2>1, <2>2
<1>10. TypeOK'
  <2>1. worker' \in [Workers -> Events \cup {None, Exited}]
    BY <1>2, <1>t DEF TypeOK
  <2>2. QED
    BY <1>2, <1>9, <2>1, <1>t DEF TypeOK
<1>11. OnePlace'
  <2>1. ASSUME NEW u \in Workers, NEW v \in Workers, worker'[u] \in Events, worker'[u] = worker'[v]
        PROVE  u = v
    <3>1. None \notin Events
      BY DEF Events
    <3>2. QED
      BY <1>3, <2>1, <3>1 DEF Inv, OnePlace
  <2>2. /\ Elements(queue) \cap Held' = {}
        /\ (Elements(queue) \cup Held') \cap (Elements(published') \cup failed') = {}
    BY <1>4, <1>5, <1>9 DEF Inv, OnePlace
  <2>3. QED
    BY <1>2, <1>9, <2>1, <2>2 DEF Inv, OnePlace
<1>12. Counted'
  <2>1. InHand' = InHand
    BY <1>2 DEF InHand
  <2>2. Elements(queue) \cup Held' \cup Elements(published') \cup failed'
        = Elements(queue) \cup Held \cup Elements(published) \cup failed
    BY <1>4, <1>9
  <2>3. Len(accepted) = Len(queue) + Cardinality(Held) + Len(published) + Cardinality(failed)
    BY DEF Inv, Counted
  <2>4. Len(accepted) = Len(queue) + Cardinality(Held') + Len(published') + Cardinality(failed')
    <3>1. PICK a \in Nat, b \in Nat, f \in Nat, g \in Nat :
            /\ a = Cardinality(Held) /\ b = Cardinality(failed)
            /\ f = Len(published') /\ g = Cardinality(failed')
      BY <1>7, <1>9
    <3>2. f + g = Len(published) + b + 1
      BY <1>9, <3>1
    <3>3. Len(accepted) = Len(queue) + a + Len(published) + b /\ Cardinality(Held') = a - 1
      BY <1>8, <2>3, <3>1
    <3>4. PICK l \in Nat, q \in Nat, p \in Nat :
            l = Len(accepted) /\ q = Len(queue) /\ p = Len(published)
      BY <1>t
    <3>5. f + g = p + b + 1 /\ l = q + a + p + b
      BY <3>2, <3>3, <3>4
    <3>6. l = q + (a - 1) + f + g
      BY <3>5
    <3>7. QED
      BY <3>1, <3>3, <3>4, <3>6
  <2>5. QED
    BY <1>2, <2>1, <2>2, <2>4 DEF Inv, Counted
<1>13. QED
  BY <1>10, <1>11, <1>12 DEF Inv

\* Every step keeps every event in one place and in the count.
LEMMA StepInv ==
  ASSUME Inv, [Next]_vars
  PROVE  Inv'
<1>t. TypeOK
  BY DEF Inv
<1>0. ASSUME UNCHANGED <<checked, made, queue, worker, accepted, published, failed, dropped>>,
             InHand' = InHand,
             stage' \in {"serving", "draining", "drained", "cancelled", "stopped"},
             handler' \in [Handlers -> {"idle", "handling", "panicked"}],
             closed' \in BOOLEAN, queueOpen' \in BOOLEAN,
             run' \in {"running", "closing", "waiting", "returned"}
      PROVE  Inv'
  <2>1. TypeOK'
    BY <1>0, <1>t DEF TypeOK
  <2>2. QED
    BY <1>0, <2>1, IdleKeeps DEF Inv
<1>h. UNCHANGED <<checked, handler>> => InHand' = InHand
  BY DEF InHand
<1>1. ASSUME NEW h \in Handlers, Request(h) \/ Respond(h)
      PROVE  Inv'
  <2>1. /\ handler' = [handler EXCEPT ![h] = "handling"] \/ handler' = [handler EXCEPT ![h] = "idle"]
        /\ handler[h] # "panicked"
        /\ UNCHANGED <<stage, checked, made, closed, queueOpen, queue, run, worker, accepted,
                       published, failed, dropped>>
    BY <1>1 DEF Request, Respond
  <2>2. InHand' = InHand /\ handler' \in [Handlers -> {"idle", "handling", "panicked"}]
    BY <2>1, <1>t DEF InHand, TypeOK
  <2>3. QED
    BY <1>0, <2>1, <2>2, <1>t DEF TypeOK
<1>2. ASSUME NEW w \in Workers, WorkerExit(w)
      PROVE  Inv'
  <2>1. /\ worker[w] = None /\ worker' = [worker EXCEPT ![w] = Exited]
        /\ UNCHANGED <<stage, handler, checked, made, closed, queueOpen, queue, run, accepted,
                       published, failed, dropped>>
    BY <1>2 DEF WorkerExit
  <2>2. worker'[w] = Exited /\ \A v \in Workers : v # w => worker'[v] = worker[v]
    BY <2>1, <1>t DEF TypeOK
  <2>3. None \notin Events /\ Exited \notin Events
    BY PublisherAssumption DEF Events, Exited
  <2>4. Held' = Held
    BY <2>1, <2>2, <2>3 DEF Held
  <2>5. TypeOK'
    BY <2>1, <1>t DEF TypeOK
  <2>6. \A u, v \in Workers : worker'[u] \in Events /\ worker'[u] = worker'[v] => u = v
    BY <2>2, <2>3 DEF Inv, OnePlace
  <2>7. OnePlace' /\ Counted'
    BY <2>1, <2>4, <2>6, <1>h DEF Inv, OnePlace, Counted
  <2>8. QED
    BY <2>5, <2>7 DEF Inv
<1>3. ASSUME RunStep
      PROVE  Inv'
  <2>1. /\ UNCHANGED <<stage, handler, checked, made, queue, worker, accepted, published, failed,
                       dropped>>
        /\ closed' \in BOOLEAN /\ queueOpen' \in BOOLEAN
        /\ run' \in {"running", "closing", "waiting", "returned"}
    BY <1>3, <1>t DEF RunStep, RunClose, RunCloseQueue, RunReturn, TypeOK
  <2>2. QED
    BY <1>0, <1>h, <2>1, <1>t DEF TypeOK
<1>4. ASSUME MainStep
      PROVE  Inv'
  <2>1. /\ UNCHANGED <<handler, checked, made, closed, queueOpen, queue, run, worker, accepted,
                       published, failed, dropped>>
        /\ stage' \in {"serving", "draining", "drained", "cancelled", "stopped"}
    BY <1>4, <1>t DEF MainStep, Signal, Drained, DrainTimeout, Cancel, Stop, GraceTimeout, StageTo
  <2>2. QED
    BY <1>0, <1>h, <2>1, <1>t DEF TypeOK
<1>5. CASE UNCHANGED vars
  BY <1>0, <1>5, <1>h, <1>t DEF vars, TypeOK
<1>6. QED
  BY <1>1, <1>2, <1>3, <1>4, <1>5, CheckKeeps, SendKeeps, TakeKeeps, PublishKeeps
     DEF Next, HandlerStep, WorkerStep

LEMMA InitInv ==
  ASSUME Init
  PROVE  Inv
<1> USE PublisherAssumption
<1>1. TypeOK
  <2>1. <<>> \in Seq(Events) /\ Len(<<>>) <= QueueSize /\ 0 \in 0 .. MaxEvents
    OBVIOUS
  <2>2. QED
    BY <2>1 DEF Init, TypeOK
<1>2. Elements(<<>>) = {} /\ Distinct(<<>>) /\ Len(<<>>) = 0
  BY DEF Elements, Distinct
<1>3. Held = {} /\ InHand = {}
  BY DEF Init, Held, InHand, Events
<1>4. OnePlace
  BY <1>2, <1>3 DEF Init, OnePlace, Events
<1>5. Counted
  BY <1>2, <1>3, FS_EmptySet DEF Init, Counted
<1>6. QED
  BY <1>1, <1>4, <1>5 DEF Inv

\* Every variable of the publisher keeps its type; the queue is never longer
\* than its capacity.
THEOREM TypeCorrect == Spec => []TypeOK
<1>1. Init => Inv
  BY InitInv
<1>2. Inv /\ [Next]_vars => Inv'
  BY StepInv
<1>3. Inv => TypeOK
  BY DEF Inv
<1>4. QED
  BY <1>1, <1>2, <1>3, PTL DEF Spec

\* Between enqueue, the queue, the workers and Valkey no event is lost or sent
\* twice, and every event that is not accepted is counted as dropped or is in
\* the hands of a handler.
THEOREM EventsAreAccounted == Spec => []EveryEventAccounted
<1>1. Init => Inv
  BY InitInv
<1>2. Inv /\ [Next]_vars => Inv'
  BY StepInv
<1>3. Inv => EveryEventAccounted
  BY DEF Inv, Counted, EveryEventAccounted, InHand
<1>4. QED
  BY <1>1, <1>2, <1>3, PTL DEF Spec

-----------------------------------------------------------------------------
(* The end of Run. *)

LEMMA StepRun ==
  ASSUME Inv, RunInv, [Next]_vars
  PROVE  RunInv'
<1> USE PublisherAssumption
<1>t. /\ TypeOK /\ worker \in [Workers -> Events \cup {None, Exited}]
      /\ None # Exited /\ Exited \notin Events
  BY DEF Inv, TypeOK, Exited, Events
<1>0. ASSUME UNCHANGED <<run, queueOpen, queue, worker>> PROVE RunInv'
  BY <1>0 DEF RunInv
<1>1. ASSUME NEW h \in Handlers, HandlerStep(h)
      PROVE  RunInv'
  <2>1. UNCHANGED <<run, queueOpen, worker>> /\ (UNCHANGED queue \/ queueOpen)
    BY <1>1 DEF HandlerStep, Request, EnqueueCheck, EnqueueSend, Respond
  <2>2. QED
    BY <2>1 DEF RunInv
<1>2. ASSUME NEW w \in Workers, Take(w)
      PROVE  RunInv'
  <2>1. /\ worker[w] = None /\ queue # <<>> /\ UNCHANGED <<run, queueOpen>>
    BY <1>2 DEF Take
  <2>2. \A v \in Workers : worker[v] # Exited
    BY <2>1 DEF RunInv
  <2>3. Head(queue) \in Events
    BY <1>t, <2>1, TailElements DEF TypeOK
  <2>4. \A v \in Workers : worker'[v] # Exited
    BY <1>2, <1>t, <2>2, <2>3 DEF Take
  <2>5. QED
    BY <1>t, <2>1, <2>2, <2>4 DEF RunInv
<1>3. ASSUME NEW w \in Workers, Publish(w)
      PROVE  RunInv'
  <2>1. /\ worker[w] \in Events /\ UNCHANGED <<run, queueOpen, queue>>
        /\ worker' = [worker EXCEPT ![w] = None]
    BY <1>3 DEF Publish
  <2>2. worker[w] # Exited /\ \A v \in Workers : worker'[v] = Exited => worker[v] = Exited
    BY <1>t, <2>1
  <2>3. QED
    BY <2>1, <2>2 DEF RunInv
<1>4. ASSUME NEW w \in Workers, WorkerExit(w)
      PROVE  RunInv'
  <2>1. /\ queue = <<>> /\ ~queueOpen /\ UNCHANGED <<run, queueOpen, queue>>
        /\ worker' = [worker EXCEPT ![w] = Exited]
    BY <1>4 DEF WorkerExit
  <2>2. \A v \in Workers : worker'[v] = Exited \/ worker'[v] = worker[v]
    BY <1>t, <2>1
  <2>3. QED
    BY <2>1, <2>2 DEF RunInv
<1>5. ASSUME RunStep
      PROVE  RunInv'
  <2>1. CASE RunClose
    BY <2>1 DEF RunClose, RunInv
  <2>2. CASE RunCloseQueue
    BY <2>2 DEF RunCloseQueue, RunInv
  <2>3. CASE RunReturn
    BY <2>3 DEF RunReturn, RunInv
  <2>4. QED
    BY <1>5, <2>1, <2>2, <2>3 DEF RunStep
<1>6. ASSUME MainStep
      PROVE  RunInv'
  BY <1>0, <1>6 DEF MainStep, Signal, Drained, DrainTimeout, Cancel, Stop, GraceTimeout, StageTo
<1>7. CASE UNCHANGED vars
  BY <1>0, <1>7 DEF vars
<1>8. QED
  BY <1>1, <1>2, <1>3, <1>4, <1>5, <1>6, <1>7 DEF Next, WorkerStep

\* When Publisher.Run returns, every event enqueue accepted was published or
\* tried in vain, and the queue stays empty.
THEOREM RunDrains == Spec => []DrainedOnReturn
<1>1. Init => Inv /\ RunInv
  <2>1. None # Exited
    BY PublisherAssumption DEF Exited
  <2>2. Init => RunInv
    BY <2>1 DEF Init, RunInv
  <2>3. QED
    BY <2>2, InitInv
<1>2. Inv /\ RunInv /\ [Next]_vars => Inv' /\ RunInv'
  BY StepInv, StepRun
<1>3. ASSUME Inv, RunInv PROVE DrainedOnReturn
  <2>1. SUFFICES ASSUME run = "returned"
                 PROVE  Elements(accepted) = Elements(published) \cup failed
    BY DEF DrainedOnReturn
  <2>2. \A w \in Workers : worker[w] = Exited
    BY <1>3, <2>1 DEF RunInv
  <2>3. queue = <<>>
    BY <1>3, <2>2, PublisherAssumption DEF RunInv
  <2>4. Elements(queue) = {}
    BY <2>3 DEF Elements
  <2>5. Held = {}
    BY <2>2 DEF Held, Exited, Events
  <2>6. QED
    BY <1>3, <2>4, <2>5 DEF Inv, Counted
<1>4. QED
  BY <1>1, <1>2, <1>3, PTL DEF Spec

=============================================================================
