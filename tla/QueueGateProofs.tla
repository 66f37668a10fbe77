-------------------------- MODULE QueueGateProofs ---------------------------
(***************************************************************************)
(* What holds of the admission gate for every number of tasks, every       *)
(* capacity, every queue length and every setting of the two overflow      *)
(* options.                                                                *)
(***************************************************************************)
EXTENDS QueueGate, SequenceTheorems, FiniteSetTheorems,
        WellFoundedInduction, TLAPS

(* The inductive invariant: conservation of slots needs that whoever is at *)
(* the head of the queue waits there once and owns nothing yet.            *)
IInv == TypeOK /\ WaitersTracked /\ OneStanding /\ SlotConservation

-----------------------------------------------------------------------------
(* The queue's length is a number.                                         *)
LEMMA MaxQIsNat ==
  ASSUME conf \in Settings
  PROVE  MaxQ \in Nat
BY QueueGateAssumption DEF Settings, MaxQ

(* A step that leaves the settings alone leaves all they determine alone.  *)
LEMMA SettingsKept ==
  ASSUME UNCHANGED conf
  PROVE  /\ MaxQ' = MaxQ
         /\ Settings' = Settings
         /\ PutNeverBlocks' = PutNeverBlocks
BY DEF MaxQ, Settings, PutNeverBlocks, DropOldest, BlockMode

-----------------------------------------------------------------------------
(* Every set of natural numbers that is not empty has a least element.     *)
LEMMA LeastNatural ==
  ASSUME NEW S \in SUBSET Nat, S # {}
  PROVE  \E i \in S : \A j \in S : i <= j
<1> DEFINE Less == {p \in Nat \X Nat : p[1] < p[2]}
<1>1. IsWellFoundedOn(Less, Nat)
  BY NatLessThanWellFounded DEF OpToRel
<1> HIDE DEF Less
<1>2. PICK i \in S : \A j \in S : <<j, i>> \notin Less
  BY <1>1, WFMin
<1>3. \A j \in S : ~(j < i)
  BY <1>2 DEF Less
<1> QED BY <1>3

(* FirstLive is the position of a live waiter and no live waiter is before *)
(* it.                                                                     *)
LEMMA FirstLiveIsLive ==
  ASSUME TypeOK, LiveAt # {}
  PROVE  /\ FirstLive \in DOMAIN q
         /\ q[FirstLive] \in Tasks
         /\ q[FirstLive] # Dead
         /\ \A j \in DOMAIN q : j < FirstLive => q[j] = Dead
<1>1. LiveAt \in SUBSET Nat
  BY DEF TypeOK, LiveAt
<1>2. FirstLive \in LiveAt /\ \A j \in LiveAt : FirstLive <= j
  BY <1>1, LeastNatural DEF FirstLive
<1> QED BY <1>2 DEF TypeOK, LiveAt

(* The loops take out a number of entries the queue has.                   *)
LEMMA PopCountInQueue ==
  ASSUME TypeOK
  PROVE  /\ PopCount \in Nat
         /\ PopCount <= Len(q)
         /\ PopCount = 0 => q = <<>>
         /\ \A i \in DOMAIN q : i <= PopCount /\ q[i] # Dead
                                   => LiveAt # {} /\ i = FirstLive
<1>1. CASE LiveAt = {}
  BY <1>1 DEF TypeOK, PopCount, LiveAt
<1>2. CASE LiveAt # {}
  BY <1>2, FirstLiveIsLive DEF TypeOK, PopCount
<1> QED BY <1>1, <1>2

(* What is left of a sequence when its first n elements are taken out.     *)
LEMMA DropFirstProperties ==
  ASSUME NEW S, NEW s \in Seq(S), NEW n \in Nat, n <= Len(s)
  PROVE  /\ DropFirst(s, n) \in Seq(S)
         /\ Len(DropFirst(s, n)) = Len(s) - n
         /\ DOMAIN DropFirst(s, n) = 1 .. Len(s) - n
         /\ \A i \in 1 .. Len(s) - n : DropFirst(s, n)[i] = s[i + n]
<1>1. \A i \in n + 1 .. Len(s) : s[i] \in S
  OBVIOUS
<1>2. /\ SubSeq(s, n + 1, Len(s)) \in Seq(S)
      /\ Len(SubSeq(s, n + 1, Len(s)))
           = IF n + 1 <= Len(s) THEN Len(s) - (n + 1) + 1 ELSE 0
      /\ \A i \in 1 .. Len(s) - (n + 1) + 1 :
           SubSeq(s, n + 1, Len(s))[i] = s[n + 1 + i - 1]
  BY <1>1, SubSeqProperties
<1> QED BY <1>2 DEF DropFirst

(* The same when more are asked for than there are.                        *)
LEMMA DropFirstAll ==
  ASSUME NEW S, NEW s \in Seq(S), NEW n \in Nat, n > Len(s)
  PROVE  DropFirst(s, n) = <<>>
  BY SubSeqEmpty DEF DropFirst

-----------------------------------------------------------------------------
(* What the loops leave of the queue: the other live waiters, all of them. *)
LEMMA QueuePopped ==
  ASSUME TypeOK, WaitersTracked,
         NEW STATE qq, qq = DropFirst(q, PopCount)
  PROVE  /\ qq \in Seq(Tasks \cup {Dead})
         /\ Len(qq) = Len(q) - PopCount
         /\ \A i \in DOMAIN qq :
              qq[i] # Dead => /\ acq[qq[i]] = "queued"
                              /\ LiveAt # {} => qq[i] # q[FirstLive]
         /\ \A i, j \in DOMAIN qq : i # j /\ qq[i] # Dead => qq[i] # qq[j]
         /\ \A t \in Tasks :
              acq[t] = "queued" /\ (LiveAt # {} => t # q[FirstLive])
                => \E i \in DOMAIN qq : qq[i] = t
<1>1. q \in Seq(Tasks \cup {Dead})
  BY DEF TypeOK
<1>2. PopCount \in Nat /\ PopCount <= Len(q)
  BY PopCountInQueue
<1>3. /\ qq \in Seq(Tasks \cup {Dead})
      /\ Len(qq) = Len(q) - PopCount
      /\ DOMAIN qq = 1 .. Len(q) - PopCount
      /\ \A i \in 1 .. Len(q) - PopCount : qq[i] = q[i + PopCount]
  BY <1>1, <1>2, DropFirstProperties
<1>4. \A i \in DOMAIN qq : i + PopCount \in DOMAIN q /\ qq[i] = q[i + PopCount]
  BY <1>1, <1>2, <1>3
<1>5. ASSUME NEW i \in DOMAIN qq, qq[i] # Dead
      PROVE  /\ acq[qq[i]] = "queued"
             /\ LiveAt # {} => qq[i] # q[FirstLive]
  <2>1. LiveAt # {} => /\ FirstLive \in DOMAIN q
                       /\ PopCount = FirstLive
                       /\ i + PopCount # FirstLive
    BY <1>2, <1>3, FirstLiveIsLive DEF PopCount
  <2> QED BY <1>4, <1>5, <2>1 DEF WaitersTracked
<1>6. ASSUME NEW i \in DOMAIN qq, NEW j \in DOMAIN qq, i # j, qq[i] # Dead
      PROVE  qq[i] # qq[j]
  <2>1. i + PopCount # j + PopCount
    BY <1>2, <1>3, <1>6
  <2> QED BY <1>4, <1>6, <2>1 DEF WaitersTracked
<1>7. ASSUME NEW t \in Tasks, acq[t] = "queued", LiveAt # {} => t # q[FirstLive]
      PROVE  \E i \in DOMAIN qq : qq[i] = t
  <2>1. PICK j \in DOMAIN q : q[j] = t
    BY <1>7 DEF WaitersTracked
  <2>2. q[j] # Dead
    BY <2>1, QueueGateAssumption
  <2>3. ~(j <= PopCount)
    BY <1>7, <2>1, <2>2, PopCountInQueue
  <2>4. j - PopCount \in DOMAIN qq
    BY <1>1, <1>2, <1>3, <2>3
  <2> QED BY <1>2, <1>3, <2>1, <2>4
<1> QED BY <1>3, <1>5, <1>6, <1>7

(* What they leave of the putters: those they did not wake.                *)
LEMMA PuttersPopped ==
  ASSUME TypeOK, WaitersTracked, NEW n \in Nat,
         NEW STATE pp, pp = DropFirst(putters, n)
  PROVE  /\ pp \in Seq(Tasks)
         /\ \A i \in DOMAIN pp : acq[pp[i]] = "blocked" /\ pp[i] \notin WokenBy(n)
         /\ \A i, j \in DOMAIN pp : i # j => pp[i] # pp[j]
         /\ \A t \in Tasks :
              acq[t] = "blocked" /\ t \notin WokenBy(n)
                => \E i \in DOMAIN pp : pp[i] = t
         /\ \A t \in WokenBy(n) : t \in Tasks /\ acq[t] = "blocked"
<1>1. putters \in Seq(Tasks)
  BY DEF TypeOK
<1>2. \A t \in WokenBy(n) : t \in Tasks /\ acq[t] = "blocked"
  BY <1>1 DEF WokenBy, WaitersTracked
<1>3. CASE n > Len(putters)
  <2>1. pp = <<>>
    BY <1>1, <1>3, DropFirstAll
  <2>2. \A t \in Tasks : acq[t] = "blocked" => t \in WokenBy(n)
    BY <1>1, <1>3 DEF WokenBy, WaitersTracked
  <2> QED BY <1>2, <2>1, <2>2
<1>4. CASE n <= Len(putters)
  <2>1. /\ pp \in Seq(Tasks)
        /\ DOMAIN pp = 1 .. Len(putters) - n
        /\ \A i \in 1 .. Len(putters) - n : pp[i] = putters[i + n]
    BY <1>1, <1>4, DropFirstProperties
  <2>2. \A i \in DOMAIN pp : i + n \in DOMAIN putters /\ pp[i] = putters[i + n]
    BY <1>1, <1>4, <2>1
  <2>3. ASSUME NEW i \in DOMAIN pp
        PROVE  acq[pp[i]] = "blocked" /\ pp[i] \notin WokenBy(n)
    <3>1. \A j \in DOMAIN putters : j <= n => j # i + n
      BY <1>1, <2>1
    <3> QED BY <1>1, <2>1, <2>2, <3>1 DEF WokenBy, WaitersTracked
  <2>4. ASSUME NEW i \in DOMAIN pp, NEW j \in DOMAIN pp, i # j
        PROVE  pp[i] # pp[j]
    <3>1. i + n # j + n
      BY <2>1, <2>4
    <3> QED BY <2>2, <3>1 DEF WaitersTracked
  <2>5. ASSUME NEW t \in Tasks, acq[t] = "blocked", t \notin WokenBy(n)
        PROVE  \E i \in DOMAIN pp : pp[i] = t
    <3>1. PICK j \in DOMAIN putters : putters[j] = t
      BY <2>5 DEF WaitersTracked
    <3>2. ~(j <= n)
      BY <2>5, <3>1 DEF WokenBy
    <3>3. j - n \in DOMAIN pp /\ pp[j - n] = putters[j]
      BY <1>1, <1>4, <2>1, <3>2
    <3> QED BY <3>1, <3>3
  <2> QED BY <1>2, <2>1, <2>3, <2>4, <2>5
<1> QED BY <1>1, <1>3, <1>4

-----------------------------------------------------------------------------
(* Owners of a layer, counted.                                             *)
LEMMA OwnersFinite ==
  \A l : IsFiniteSet(Owners(l)) /\ Cardinality(Owners(l)) \in Nat
<1> TAKE l
<1>1. Owners(l) \in SUBSET Tasks
  BY DEF Owners
<1>2. IsFiniteSet(Owners(l))
  BY <1>1, FS_Subset, QueueGateAssumption
<1> QED BY <1>2, FS_CardinalityType

(* A step that neither hands out nor takes back a slot conserves them.     *)
LEMMA ConservedWhenNoSlotMoves ==
  ASSUME SlotConservation, UNCHANGED permits,
         \A t \in Tasks : SlotOf(t)' = SlotOf(t)
  PROVE  SlotConservation'
<1>1. \A l : Owners(l)' = Owners(l)
  BY DEF Owners
<1> QED BY <1>1 DEF SlotConservation, Cap

-----------------------------------------------------------------------------
(* The inductive invariant holds at first and after every step.            *)
LEMMA InitInductive ==
  ASSUME Init
  PROVE  IInv
<1>1. TypeOK
  <2>1. Cap \in [Layers -> Nat]
    BY QueueGateAssumption DEF Cap
  <2>2. <<>> \in Seq(Tasks \cup {Dead}) /\ <<>> \in Seq(Tasks) /\ Len(<<>>) <= MaxQ
    BY MaxQIsNat DEF Init
  <2> QED BY <2>1, <2>2 DEF Init, TypeOK, AcqStates
<1>2. WaitersTracked
  BY DEF Init, WaitersTracked
<1>3. OneStanding
  BY DEF Init, OneStanding
<1>4. SlotConservation
  <2>1. \A l \in Layers : Owners(l) = {}
    BY DEF Init, Owners, SlotOf, Layers, NoLayer
  <2>2. \A l \in Layers : Cap[l] \in Nat
    BY QueueGateAssumption DEF Cap
  <2>3. \A l \in Layers : Cardinality(Owners(l)) = 0
    BY <2>1, OwnersFinite, FS_EmptySet
  <2> QED BY <2>2, <2>3 DEF Init, SlotConservation
<1> QED BY <1>1, <1>2, <1>3, <1>4 DEF IInv

LEMMA AcquireDirectInductive ==
  ASSUME IInv, NEW t \in Tasks, AcquireDirect(t)
  PROVE  IInv'
<1> USE DEF IInv
<1>1. PICK l \in Layers :
        /\ permits[l] > 0
        /\ permits' = [permits EXCEPT ![l] = @ - 1]
        /\ holders' = [holders EXCEPT ![t] = l]
  BY DEF AcquireDirect, HasTicket
<1>2. acq[t] = "idle" /\ holders[t] = NoLayer /\ UNCHANGED <<conf, acq, grant, q, putters>>
  BY DEF AcquireDirect, Calls
<1>3. TypeOK'
  BY <1>1, <1>2, SettingsKept DEF TypeOK
<1>4. WaitersTracked'
  BY <1>2 DEF WaitersTracked
<1>5. OneStanding'
  BY <1>1, <1>2 DEF OneStanding, TypeOK
<1>6. SlotConservation'
  <2>1. Owners(l)' = Owners(l) \cup {t} /\ t \notin Owners(l)
    BY <1>1, <1>2 DEF Owners, SlotOf, TypeOK, Layers, NoLayer
  <2>2. \A k \in Layers : k # l => Owners(k)' = Owners(k)
    BY <1>1, <1>2 DEF Owners, SlotOf, TypeOK, Layers, NoLayer
  <2>3. Cardinality(Owners(l)') = Cardinality(Owners(l)) + 1
    BY <2>1, OwnersFinite, FS_AddElement
  <2>4. Cap' = Cap
    BY DEF Cap
  <2> QED BY <1>1, <2>2, <2>3, <2>4, OwnersFinite DEF SlotConservation, TypeOK
<1> QED BY <1>3, <1>4, <1>5, <1>6

(* A task that is neither queued nor blocked is answered 503.              *)
LEMMA RefuseNewcomerInductive ==
  ASSUME IInv, NEW t \in Tasks, Calls(t),
         acq' = [acq EXCEPT ![t] = "refused"],
         UNCHANGED <<conf, grant, q, putters, permits, holders>>
  PROVE  IInv'
<1> USE DEF IInv
<1>1. TypeOK'
  BY SettingsKept DEF TypeOK, AcqStates
<1>2. WaitersTracked'
  BY DEF WaitersTracked, Calls, TypeOK
<1>3. OneStanding'
  BY DEF OneStanding, Calls, TypeOK
<1>4. \A u \in Tasks : SlotOf(u)' = SlotOf(u)
  BY DEF SlotOf, Calls, TypeOK
<1> QED BY <1>1, <1>2, <1>3, <1>4, ConservedWhenNoSlotMoves

LEMMA RefuseFullInductive ==
  ASSUME IInv, NEW t \in Tasks, RefuseFull(t)
  PROVE  IInv'
<1> USE DEF IInv
<1>1. CASE /\ acq' = [acq EXCEPT ![t] = "refused"]
           /\ UNCHANGED <<q, putters>>
  BY <1>1, RefuseNewcomerInductive DEF RefuseFull
<1>2. CASE /\ LiveAt = {}
           /\ PopQueue(PopCount)
           /\ acq' = Woken([acq EXCEPT ![t] = "refused"], PopCount)
  <2> DEFINE n == PopCount
  <2>1. acq[t] = "idle" /\ UNCHANGED <<conf, grant, permits, holders>>
    BY DEF RefuseFull, Calls
  <2>2. n \in Nat /\ n <= Len(q)
    BY PopCountInQueue
  <2>3. q' = DropFirst(q, PopCount) /\ putters' = DropFirst(putters, n)
    BY <1>2 DEF PopQueue
  <2>4. /\ q' \in Seq(Tasks \cup {Dead})
        /\ Len(q') = Len(q) - PopCount
        /\ \A i \in DOMAIN q' : q'[i] # Dead => acq[q'[i]] = "queued"
        /\ \A i, j \in DOMAIN q' : i # j /\ q'[i] # Dead => q'[i] # q'[j]
        /\ \A u \in Tasks : acq[u] = "queued" => \E i \in DOMAIN q' : q'[i] = u
    BY <1>2, <2>3, QueuePopped
  <2>5. /\ putters' \in Seq(Tasks)
        /\ \A i \in DOMAIN putters' :
             acq[putters'[i]] = "blocked" /\ putters'[i] \notin WokenBy(n)
        /\ \A i, j \in DOMAIN putters' : i # j => putters'[i] # putters'[j]
        /\ \A u \in Tasks : acq[u] = "blocked" /\ u \notin WokenBy(n)
                              => \E i \in DOMAIN putters' : putters'[i] = u
        /\ \A u \in WokenBy(n) : u \in Tasks /\ acq[u] = "blocked"
    <3>1. TypeOK /\ WaitersTracked
      OBVIOUS
    <3>2. putters' = DropFirst(putters, n)
      BY <2>3
    <3> HIDE DEF n, IInv
    <3> QED BY <2>2, <3>1, <3>2, PuttersPopped, SMTT(60)
  <2> HIDE DEF n
  <2>6. acq' = [u \in Tasks |-> IF u \in WokenBy(n) THEN "woken"
                                ELSE IF u = t THEN "refused" ELSE acq[u]]
    BY <1>2 DEF Woken, TypeOK, n
  <2>7. TypeOK'
    BY <2>1, <2>2, <2>4, <2>5, <2>6, MaxQIsNat, SettingsKept DEF TypeOK, AcqStates, n
  <2>8. WaitersTracked'
    BY <2>1, <2>4, <2>5, <2>6, QueueGateAssumption DEF WaitersTracked, TypeOK
  <2>9. OneStanding'
    <3> SUFFICES ASSUME NEW u \in Tasks
                 PROVE  /\ (grant[u] # NoLayer <=> acq[u] = "granted")'
                        /\ (holders[u] # NoLayer => acq[u] = "idle")'
      BY DEF OneStanding
    <3>1. CASE u \in WokenBy(n)
      BY <2>1, <2>5, <2>6, <3>1 DEF OneStanding
    <3>2. CASE u = t /\ u \notin WokenBy(n)
      BY <2>1, <2>6, <3>2 DEF OneStanding, RefuseFull, Calls
    <3>3. CASE u # t /\ u \notin WokenBy(n)
      BY <2>1, <2>6, <3>3 DEF OneStanding
    <3> QED BY <3>1, <3>2, <3>3
  <2>10. \A u \in Tasks : SlotOf(u)' = SlotOf(u)
    BY <2>1, <2>5, <2>6 DEF SlotOf, TypeOK
  <2> QED BY <2>1, <2>7, <2>8, <2>9, <2>10, ConservedWhenNoSlotMoves
<1> QED BY <1>1, <1>2 DEF RefuseFull

(* An element appended is at the end, the others are where they were.      *)
LEMMA AppendPositions ==
  ASSUME NEW S, NEW s \in Seq(S), NEW e \in S
  PROVE  /\ Append(s, e) \in Seq(S)
         /\ Len(Append(s, e)) = Len(s) + 1
         /\ \A i \in DOMAIN Append(s, e) :
              \/ i \in DOMAIN s /\ Append(s, e)[i] = s[i]
              \/ i = Len(s) + 1 /\ Append(s, e)[i] = e
         /\ \A i \in DOMAIN s :
              i \in DOMAIN Append(s, e) /\ Append(s, e)[i] = s[i]
         /\ Len(s) + 1 \in DOMAIN Append(s, e) /\ Append(s, e)[Len(s) + 1] = e
  BY AppendProperties

(* A task joins the end of the queue, the put not suspending.              *)
LEMMA JoinQueueInductive ==
  ASSUME IInv, NEW t \in Tasks,
         acq[t] = "woken" \/ Calls(t),
         Len(q) < MaxQ,
         q' = Append(q, t),
         acq' = [acq EXCEPT ![t] = "queued"],
         UNCHANGED <<conf, grant, putters, permits, holders>>
  PROVE  IInv'
<1> USE DEF IInv
<1>1. acq[t] \in {"woken", "idle"}
  BY DEF Calls
<1>2. /\ q' \in Seq(Tasks \cup {Dead})
      /\ Len(q') = Len(q) + 1
      /\ \A i \in DOMAIN q' : \/ i \in DOMAIN q /\ q'[i] = q[i]
                              \/ i = Len(q) + 1 /\ q'[i] = t
      /\ \A i \in DOMAIN q : i \in DOMAIN q' /\ q'[i] = q[i]
      /\ Len(q) + 1 \in DOMAIN q' /\ q'[Len(q) + 1] = t
  BY AppendPositions, t \in Tasks \cup {Dead} DEF TypeOK
<1>3. \A i \in DOMAIN q : q[i] # t
  BY <1>1, QueueGateAssumption DEF WaitersTracked
<1>4. TypeOK'
  BY <1>2, MaxQIsNat, SettingsKept DEF TypeOK, AcqStates
<1>5. WaitersTracked'
  <2>1. \A i \in DOMAIN q' : q'[i] # Dead => acq'[q'[i]] = "queued"
    BY <1>2, <1>3 DEF WaitersTracked, TypeOK
  <2>2. \A i, j \in DOMAIN q' : i # j /\ q'[i] # Dead => q'[i] # q'[j]
    BY <1>2, <1>3 DEF WaitersTracked
  <2>3. /\ \A i \in DOMAIN putters : acq'[putters[i]] = "blocked"
        /\ \A i, j \in DOMAIN putters : i # j => putters[i] # putters[j]
    BY <1>1 DEF WaitersTracked, TypeOK
  <2>4. \A u \in Tasks : acq'[u] = "queued" => \E i \in DOMAIN q' : q'[i] = u
    BY <1>2 DEF WaitersTracked, TypeOK
  <2>5. \A u \in Tasks :
          acq'[u] = "blocked" => \E i \in DOMAIN putters : putters[i] = u
    BY DEF WaitersTracked, TypeOK
  <2> QED BY <2>1, <2>2, <2>3, <2>4, <2>5 DEF WaitersTracked
<1>6. OneStanding'
  <2>1. \A u \in Tasks : acq'[u] = IF u = t THEN "queued" ELSE acq[u]
    BY DEF TypeOK
  <2>2. grant[t] = NoLayer /\ holders[t] = NoLayer
    BY <1>1 DEF OneStanding, Calls
  <2> QED BY <2>1, <2>2 DEF OneStanding
<1>7. \A u \in Tasks : SlotOf(u)' = SlotOf(u)
  BY <1>1 DEF SlotOf, TypeOK
<1> QED BY <1>4, <1>5, <1>6, <1>7, ConservedWhenNoSlotMoves

(* A task waits in put.                                                    *)
LEMMA JoinPuttersInductive ==
  ASSUME IInv, NEW t \in Tasks,
         acq[t] = "woken" \/ Calls(t),
         putters' = Append(putters, t),
         acq' = [acq EXCEPT ![t] = "blocked"],
         UNCHANGED <<conf, grant, q, permits, holders>>
  PROVE  IInv'
<1> USE DEF IInv
<1>1. acq[t] \in {"woken", "idle"}
  BY DEF Calls
<1>2. /\ putters' \in Seq(Tasks)
      /\ \A i \in DOMAIN putters' :
           \/ i \in DOMAIN putters /\ putters'[i] = putters[i]
           \/ i = Len(putters) + 1 /\ putters'[i] = t
      /\ \A i \in DOMAIN putters : i \in DOMAIN putters' /\ putters'[i] = putters[i]
      /\ Len(putters) + 1 \in DOMAIN putters' /\ putters'[Len(putters) + 1] = t
  BY AppendPositions DEF TypeOK
<1>3. \A i \in DOMAIN putters : putters[i] # t
  BY <1>1 DEF WaitersTracked
<1>4. TypeOK'
  BY <1>2, SettingsKept DEF TypeOK, AcqStates
<1>5. WaitersTracked'
  <2>1. /\ \A i \in DOMAIN q : q[i] # Dead => acq'[q[i]] = "queued"
        /\ \A i, j \in DOMAIN q : i # j /\ q[i] # Dead => q[i] # q[j]
    BY <1>1 DEF WaitersTracked, TypeOK
  <2>2. \A i \in DOMAIN putters' : acq'[putters'[i]] = "blocked"
    BY <1>2, <1>3 DEF WaitersTracked, TypeOK
  <2>3. \A i, j \in DOMAIN putters' : i # j => putters'[i] # putters'[j]
    BY <1>2, <1>3 DEF WaitersTracked
  <2>4. \A u \in Tasks : acq'[u] = "queued" => \E i \in DOMAIN q : q[i] = u
    BY DEF WaitersTracked, TypeOK
  <2>5. \A u \in Tasks :
          acq'[u] = "blocked" => \E i \in DOMAIN putters' : putters'[i] = u
    BY <1>2 DEF WaitersTracked, TypeOK
  <2> QED BY <2>1, <2>2, <2>3, <2>4, <2>5 DEF WaitersTracked
<1>6. OneStanding'
  <2>1. \A u \in Tasks : acq'[u] = IF u = t THEN "blocked" ELSE acq[u]
    BY DEF TypeOK
  <2>2. grant[t] = NoLayer /\ holders[t] = NoLayer
    BY <1>1 DEF OneStanding, Calls
  <2> QED BY <2>1, <2>2 DEF OneStanding
<1>7. \A u \in Tasks : SlotOf(u)' = SlotOf(u)
  BY <1>1 DEF SlotOf, TypeOK
<1> QED BY <1>4, <1>5, <1>6, <1>7, ConservedWhenNoSlotMoves

LEMMA TimeoutInductive ==
  ASSUME IInv, NEW t \in Tasks, Timeout(t)
  PROVE  IInv'
<1> USE DEF IInv
<1>1. /\ acq[t] = "queued"
      /\ acq' = [acq EXCEPT ![t] = "refused"]
      /\ UNCHANGED <<conf, grant, putters, permits, holders>>
  BY DEF Timeout
<1>2. /\ q' \in Seq(Tasks \cup {Dead})
      /\ Len(q') = Len(q)
      /\ DOMAIN q' = DOMAIN q
      /\ \A i \in DOMAIN q : q'[i] = IF q[i] = t THEN Dead ELSE q[i]
  <2>1. q \in Seq(Tasks \cup {Dead}) /\ DOMAIN q = 1 .. Len(q) /\ Len(q) \in Nat
    BY DEF TypeOK
  <2>2. q' = [i \in DOMAIN q |-> IF q[i] = t THEN Dead ELSE q[i]]
    BY DEF Timeout
  <2>3. \A i \in 1 .. Len(q) : q[i] \in Tasks \cup {Dead}
    BY <2>1
  <2>4. q' \in [1 .. Len(q) -> Tasks \cup {Dead}]
    BY <2>1, <2>2, <2>3
  <2>5. DOMAIN q' = DOMAIN q /\ q' \in Seq(Tasks \cup {Dead})
    BY <2>1, <2>4, SeqDef
  <2>6. Len(q') = Len(q)
    BY <2>1, <2>5
  <2> QED  BY <2>2, <2>5, <2>6
<1>3. TypeOK'
  BY <1>1, <1>2, MaxQIsNat, SettingsKept DEF TypeOK, AcqStates
<1>4. WaitersTracked'
  <2>1. /\ \A i \in DOMAIN q' : q'[i] # Dead => acq'[q'[i]] = "queued"
        /\ \A i, j \in DOMAIN q' : i # j /\ q'[i] # Dead => q'[i] # q'[j]
    BY <1>1, <1>2 DEF WaitersTracked, TypeOK
  <2>2. /\ \A i \in DOMAIN putters : acq'[putters[i]] = "blocked"
        /\ \A i, j \in DOMAIN putters : i # j => putters[i] # putters[j]
    BY <1>1 DEF WaitersTracked, TypeOK
  <2>3. \A u \in Tasks : acq'[u] = "queued" => \E i \in DOMAIN q' : q'[i] = u
    BY <1>1, <1>2 DEF WaitersTracked, TypeOK
  <2>4. \A u \in Tasks :
          acq'[u] = "blocked" => \E i \in DOMAIN putters : putters[i] = u
    BY <1>1 DEF WaitersTracked, TypeOK
  <2> QED BY <1>1, <2>1, <2>2, <2>3, <2>4 DEF WaitersTracked
<1>5. OneStanding'
  <2>1. \A u \in Tasks : acq'[u] = IF u = t THEN "refused" ELSE acq[u]
    BY <1>1 DEF TypeOK
  <2>2. grant[t] = NoLayer /\ holders[t] = NoLayer
    BY <1>1 DEF OneStanding
  <2> QED BY <1>1, <2>1, <2>2 DEF OneStanding
<1>6. \A u \in Tasks : SlotOf(u)' = SlotOf(u)
  BY <1>1 DEF SlotOf, TypeOK
<1> QED BY <1>1, <1>3, <1>4, <1>5, <1>6, ConservedWhenNoSlotMoves

LEMMA InheritOccupyInductive ==
  ASSUME IInv, NEW t \in Tasks, InheritOccupy(t)
  PROVE  IInv'
<1> USE DEF IInv
<1>1. /\ acq[t] = "granted"
      /\ acq' = [acq EXCEPT ![t] = "idle"]
      /\ grant' = [grant EXCEPT ![t] = NoLayer]
      /\ holders' = [holders EXCEPT ![t] = grant[t]]
      /\ UNCHANGED <<conf, q, putters, permits>>
  BY DEF InheritOccupy
<1>2. TypeOK'
  BY <1>1, SettingsKept DEF TypeOK, AcqStates
<1>3. WaitersTracked'
  BY <1>1 DEF WaitersTracked, TypeOK
<1>4. OneStanding'
  <2>1. \A u \in Tasks : u # t => /\ acq'[u] = acq[u]
                                  /\ grant'[u] = grant[u]
                                  /\ holders'[u] = holders[u]
    BY <1>1 DEF TypeOK
  <2>2. acq'[t] = "idle" /\ grant'[t] = NoLayer
    BY <1>1 DEF TypeOK
  <2> QED BY <2>1, <2>2 DEF OneStanding
<1>5. \A u \in Tasks : SlotOf(u)' = SlotOf(u)
  BY <1>1 DEF SlotOf, TypeOK
<1> QED BY <1>1, <1>2, <1>3, <1>4, <1>5, ConservedWhenNoSlotMoves

LEMMA FinishRefusedInductive ==
  ASSUME IInv, NEW t \in Tasks, FinishRefused(t)
  PROVE  IInv'
<1> USE DEF IInv
<1>1. /\ acq[t] = "refused"
      /\ acq' = [acq EXCEPT ![t] = "idle"]
      /\ UNCHANGED <<conf, grant, q, putters, permits, holders>>
  BY DEF FinishRefused
<1>2. TypeOK'
  BY <1>1, SettingsKept DEF TypeOK, AcqStates
<1>3. WaitersTracked'
  BY <1>1 DEF WaitersTracked, TypeOK
<1>4. OneStanding'
  BY <1>1 DEF OneStanding, TypeOK
<1>5. \A u \in Tasks : SlotOf(u)' = SlotOf(u)
  BY <1>1 DEF SlotOf, TypeOK
<1> QED BY <1>1, <1>2, <1>3, <1>4, <1>5, ConservedWhenNoSlotMoves

(* What the loops do to the queue, the putters and the tasks they wake, as *)
(* the steps that contain them see it.                                     *)
LEMMA Popped ==
  ASSUME TypeOK, WaitersTracked
  PROVE  LET qq == DropFirst(q, PopCount)
             pp == DropFirst(putters, PopCount)
         IN  /\ qq \in Seq(Tasks \cup {Dead})
             /\ Len(qq) <= Len(q)
             /\ Len(q) > 0 => Len(qq) < Len(q)
             /\ \A i \in DOMAIN qq :
                  qq[i] # Dead => /\ acq[qq[i]] = "queued"
                                  /\ LiveAt # {} => qq[i] # q[FirstLive]
             /\ \A i, j \in DOMAIN qq : i # j /\ qq[i] # Dead => qq[i] # qq[j]
             /\ \A u \in Tasks :
                  acq[u] = "queued" /\ (LiveAt # {} => u # q[FirstLive])
                    => \E i \in DOMAIN qq : qq[i] = u
             /\ pp \in Seq(Tasks)
             /\ \A i \in DOMAIN pp :
                  acq[pp[i]] = "blocked" /\ pp[i] \notin WokenBy(PopCount)
             /\ \A i, j \in DOMAIN pp : i # j => pp[i] # pp[j]
             /\ \A u \in Tasks : acq[u] = "blocked" /\ u \notin WokenBy(PopCount)
                                   => \E i \in DOMAIN pp : pp[i] = u
             /\ \A u \in WokenBy(PopCount) : u \in Tasks /\ acq[u] = "blocked"
<1>1. PopCount \in Nat /\ PopCount <= Len(q) /\ (PopCount = 0 => q = <<>>)
  BY PopCountInQueue
<1>2. Len(q) \in Nat /\ (q = <<>> => Len(q) = 0)
  BY DEF TypeOK
<1> DEFINE qq == DropFirst(q, PopCount)
           pp == DropFirst(putters, PopCount)
<1>3. /\ qq \in Seq(Tasks \cup {Dead})
      /\ Len(qq) = Len(q) - PopCount
      /\ \A i \in DOMAIN qq :
           qq[i] # Dead => /\ acq[qq[i]] = "queued"
                           /\ LiveAt # {} => qq[i] # q[FirstLive]
      /\ \A i, j \in DOMAIN qq : i # j /\ qq[i] # Dead => qq[i] # qq[j]
      /\ \A u \in Tasks :
           acq[u] = "queued" /\ (LiveAt # {} => u # q[FirstLive])
             => \E i \in DOMAIN qq : qq[i] = u
  BY QueuePopped
<1>4. /\ pp \in Seq(Tasks)
      /\ \A i \in DOMAIN pp :
           acq[pp[i]] = "blocked" /\ pp[i] \notin WokenBy(PopCount)
      /\ \A i, j \in DOMAIN pp : i # j => pp[i] # pp[j]
      /\ \A u \in Tasks : acq[u] = "blocked" /\ u \notin WokenBy(PopCount)
                            => \E i \in DOMAIN pp : pp[i] = u
      /\ \A u \in WokenBy(PopCount) : u \in Tasks /\ acq[u] = "blocked"
  BY <1>1, PuttersPopped
<1>5. Len(qq) <= Len(q) /\ (Len(q) > 0 => Len(qq) < Len(q))
  BY <1>1, <1>2, <1>3
<1> QED BY <1>3, <1>4, <1>5

(* The first live waiter of the queue waits and owns nothing.              *)
LEMMA FirstLiveWaits ==
  ASSUME TypeOK, WaitersTracked, OneStanding, LiveAt # {}
  PROVE  /\ q[FirstLive] \in Tasks
         /\ acq[q[FirstLive]] = "queued"
         /\ grant[q[FirstLive]] = NoLayer
         /\ holders[q[FirstLive]] = NoLayer
BY FirstLiveIsLive DEF WaitersTracked, OneStanding

LEMMA EnqueueDroppingInductive ==
  ASSUME IInv, NEW t \in Tasks, EnqueueDropping(t)
  PROVE  IInv'
<1> USE DEF IInv
<1> DEFINE qq == DropFirst(q, PopCount)
           pp == DropFirst(putters, PopCount)
           dropped == IF LiveAt = {} THEN {} ELSE {q[FirstLive]}
           woken == WokenBy(PopCount)
<1>1. /\ acq[t] = "idle" /\ holders[t] = NoLayer
      /\ Len(q) >= MaxQ /\ MaxQ > 0
      /\ UNCHANGED <<conf, grant, permits, holders>>
      /\ q' = Append(qq, t)
      /\ putters' = pp
  BY DEF EnqueueDropping, Calls
<1>2. /\ qq \in Seq(Tasks \cup {Dead})
      /\ Len(qq) < Len(q)
      /\ \A i \in DOMAIN qq :
           qq[i] # Dead => acq[qq[i]] = "queued" /\ qq[i] \notin dropped
      /\ \A i, j \in DOMAIN qq : i # j /\ qq[i] # Dead => qq[i] # qq[j]
      /\ \A u \in Tasks : acq[u] = "queued" /\ u \notin dropped
                             => \E i \in DOMAIN qq : qq[i] = u
  <2>1. MaxQ \in Nat /\ Len(q) \in Nat
    BY MaxQIsNat DEF TypeOK
  <2>2. Len(q) > 0
    BY <1>1, <2>1
  <2> QED BY <2>2, Popped
<1>3. /\ pp \in Seq(Tasks)
      /\ \A i \in DOMAIN pp : acq[pp[i]] = "blocked" /\ pp[i] \notin woken
      /\ \A i, j \in DOMAIN pp : i # j => pp[i] # pp[j]
      /\ \A u \in Tasks : acq[u] = "blocked" /\ u \notin woken
                             => \E i \in DOMAIN pp : pp[i] = u
      /\ \A u \in woken : u \in Tasks /\ acq[u] = "blocked"
  BY Popped
<1>4. \A u \in dropped : u \in Tasks /\ acq[u] = "queued"
  BY FirstLiveWaits
<1>5. acq' = [u \in Tasks |-> IF u \in woken THEN "woken"
                              ELSE IF u = t THEN "queued"
                              ELSE IF u \in dropped THEN "refused" ELSE acq[u]]
  BY DEF EnqueueDropping, Woken
<1> HIDE DEF qq, pp, dropped, woken
<1>6. /\ q' \in Seq(Tasks \cup {Dead})
      /\ Len(q') = Len(qq) + 1
      /\ \A i \in DOMAIN q' : \/ i \in DOMAIN qq /\ q'[i] = qq[i]
                              \/ i = Len(qq) + 1 /\ q'[i] = t
      /\ \A i \in DOMAIN qq : i \in DOMAIN q' /\ q'[i] = qq[i]
      /\ Len(qq) + 1 \in DOMAIN q' /\ q'[Len(qq) + 1] = t
  BY <1>1, <1>2, AppendPositions, t \in Tasks \cup {Dead}
<1>7. TypeOK'
  <2>1. Len(q') <= MaxQ
    BY <1>1, <1>2, <1>6, MaxQIsNat DEF TypeOK
  <2> QED BY <1>1, <1>3, <1>5, <1>6, <2>1, SettingsKept DEF TypeOK, AcqStates
<1>8. WaitersTracked'
  <2>1. \A i \in DOMAIN qq : qq[i] # t
    BY <1>1, <1>2, QueueGateAssumption
  <2>2. \A u \in Tasks : acq[u] = "queued" => u \notin woken
    BY <1>3
  <2>3. \A i \in DOMAIN q' : q'[i] # Dead => acq'[q'[i]] = "queued"
    <3> SUFFICES ASSUME NEW i \in DOMAIN q', q'[i] # Dead
                 PROVE  acq'[q'[i]] = "queued"
      OBVIOUS
    <3>1. CASE q'[i] = t
      BY <1>1, <1>3, <1>5, <3>1
    <3>2. CASE i \in DOMAIN qq /\ q'[i] = qq[i]
      <4>1. qq[i] \in Tasks
        BY <1>2, <3>2
      <4> QED BY <1>2, <1>5, <2>1, <2>2, <3>2, <4>1
    <3> QED BY <1>6, <3>1, <3>2
  <2>4. \A i, j \in DOMAIN q' : i # j /\ q'[i] # Dead => q'[i] # q'[j]
    BY <1>2, <1>6, <2>1
  <2>5. \A i \in DOMAIN pp : acq'[pp[i]] = "blocked"
    BY <1>1, <1>3, <1>4, <1>5
  <2>6. \A u \in Tasks : acq'[u] = "queued" => \E i \in DOMAIN q' : q'[i] = u
    BY <1>2, <1>5, <1>6
  <2>7. \A u \in Tasks : acq'[u] = "blocked" => \E i \in DOMAIN pp : pp[i] = u
    BY <1>3, <1>5
  <2> QED BY <1>1, <1>3, <2>3, <2>4, <2>5, <2>6, <2>7 DEF WaitersTracked
<1>9. OneStanding'
  <2> SUFFICES ASSUME NEW u \in Tasks
               PROVE  /\ (grant[u] # NoLayer <=> acq[u] = "granted")'
                      /\ (holders[u] # NoLayer => acq[u] = "idle")'
    BY DEF OneStanding
  <2>1. grant'[u] = grant[u] /\ holders'[u] = holders[u]
    BY <1>1
  <2>2. acq'[u] = acq[u] \/ (acq[u] # "granted" /\ acq'[u] # "granted"
                             /\ holders[u] = NoLayer)
    <3>1. CASE u \in woken
      BY <1>3, <1>5, <3>1 DEF OneStanding
    <3>2. CASE u \notin woken /\ u = t
      BY <1>1, <1>5, <3>2
    <3>3. CASE u \notin woken /\ u # t /\ u \in dropped
      BY <1>4, <1>5, <3>3 DEF OneStanding
    <3>4. CASE u \notin woken /\ u # t /\ u \notin dropped
      BY <1>5, <3>4
    <3> QED BY <3>1, <3>2, <3>3, <3>4
  <2> QED BY <2>1, <2>2 DEF OneStanding
<1>10. \A u \in Tasks : SlotOf(u)' = SlotOf(u)
  <2> SUFFICES ASSUME NEW u \in Tasks
               PROVE  SlotOf(u)' = SlotOf(u)
    OBVIOUS
  <2>1. acq'[u] = "granted" <=> acq[u] = "granted"
    BY <1>1, <1>3, <1>4, <1>5
  <2> QED BY <1>1, <2>1 DEF SlotOf
<1> QED BY <1>1, <1>7, <1>8, <1>9, <1>10, ConservedWhenNoSlotMoves

LEMMA ReleaseInductive ==
  ASSUME IInv, NEW t \in Tasks, Release(t)
  PROVE  IInv'
<1> USE DEF IInv
<1> DEFINE qq == DropFirst(q, PopCount)
           pp == DropFirst(putters, PopCount)
           heir == IF LiveAt = {} THEN {} ELSE {q[FirstLive]}
           woken == WokenBy(PopCount)
<1>0. PICK layer \in Layers : layer = holders[t]
  BY DEF Release, TypeOK
<1>1. /\ layer \in Layers
      /\ acq[t] = "idle" /\ grant[t] = NoLayer
      /\ holders' = [holders EXCEPT ![t] = NoLayer]
      /\ q' = qq
      /\ putters' = pp
  BY <1>0 DEF Release, PopQueue, TypeOK, OneStanding
<1>2. /\ qq \in Seq(Tasks \cup {Dead})
      /\ Len(qq) <= Len(q)
      /\ \A i \in DOMAIN qq :
           qq[i] # Dead => acq[qq[i]] = "queued" /\ qq[i] \notin heir
      /\ \A i, j \in DOMAIN qq : i # j /\ qq[i] # Dead => qq[i] # qq[j]
      /\ \A u \in Tasks : acq[u] = "queued" /\ u \notin heir
                             => \E i \in DOMAIN qq : qq[i] = u
  BY Popped
<1>3. /\ pp \in Seq(Tasks)
      /\ \A i \in DOMAIN pp : acq[pp[i]] = "blocked" /\ pp[i] \notin woken
      /\ \A i, j \in DOMAIN pp : i # j => pp[i] # pp[j]
      /\ \A u \in Tasks : acq[u] = "blocked" /\ u \notin woken
                             => \E i \in DOMAIN pp : pp[i] = u
      /\ \A u \in woken : u \in Tasks /\ acq[u] = "blocked"
  BY Popped
<1>4. \A u \in heir : /\ u \in Tasks /\ u # t
                      /\ acq[u] = "queued"
                      /\ grant[u] = NoLayer
                      /\ holders[u] = NoLayer
  BY <1>1, FirstLiveWaits
<1>5. /\ acq' = [u \in Tasks |-> IF u \in woken THEN "woken"
                                 ELSE IF u \in heir THEN "granted" ELSE acq[u]]
      /\ grant' = [u \in Tasks |-> IF u \in heir THEN layer ELSE grant[u]]
  BY <1>0, <1>1, FirstLiveWaits DEF Release, Woken, TypeOK
<1>6. permits' = IF heir = {} THEN [permits EXCEPT ![layer] = @ + 1] ELSE permits
  BY <1>0 DEF Release
<1>7. heir = {} \/ \E u \in Tasks : heir = {u}
  BY FirstLiveWaits
<1> HIDE DEF qq, pp, heir, woken
<1>8. TypeOK'
  <2>1. acq' \in [Tasks -> AcqStates]
    BY <1>5 DEF TypeOK, AcqStates
  <2>2. grant' \in [Tasks -> Layers \cup {NoLayer}]
    BY <1>1, <1>5 DEF TypeOK
  <2>3. permits' \in [Layers -> Nat]
    BY <1>1, <1>6 DEF TypeOK
  <2>4. Len(q') <= MaxQ
    BY <1>1, <1>2, MaxQIsNat DEF TypeOK
  <2>5. UNCHANGED conf
    BY <1>0 DEF Release
  <2> QED BY <1>1, <1>2, <1>3, <2>1, <2>2, <2>3, <2>4, <2>5, SettingsKept DEF TypeOK
<1>9. WaitersTracked'
  <2>1. \A i \in DOMAIN qq : qq[i] # Dead => acq'[qq[i]] = "queued"
    BY <1>2, <1>3, <1>5
  <2>2. \A i \in DOMAIN pp : acq'[pp[i]] = "blocked"
    BY <1>3, <1>4, <1>5
  <2>3. \A u \in Tasks : acq'[u] = "queued" => \E i \in DOMAIN qq : qq[i] = u
    BY <1>2, <1>5
  <2>4. \A u \in Tasks : acq'[u] = "blocked" => \E i \in DOMAIN pp : pp[i] = u
    BY <1>3, <1>5
  <2> QED BY <1>1, <1>2, <1>3, <2>1, <2>2, <2>3, <2>4 DEF WaitersTracked
<1>10. OneStanding'
  <2> SUFFICES ASSUME NEW u \in Tasks
               PROVE  /\ (grant[u] # NoLayer <=> acq[u] = "granted")'
                      /\ (holders[u] # NoLayer => acq[u] = "idle")'
    BY DEF OneStanding
  <2>1. CASE u \in heir
    <3>1. /\ acq'[u] = "granted" /\ grant'[u] = layer
          /\ holders'[u] = NoLayer
      BY <1>1, <1>3, <1>4, <1>5, <2>1 DEF TypeOK
    <3>2. layer # NoLayer
      BY <1>1 DEF Layers, NoLayer
    <3> QED BY <3>1, <3>2
  <2>2. CASE u \in woken /\ u \notin heir
    <3>1. acq'[u] = "woken" /\ grant'[u] = grant[u] /\ acq[u] = "blocked"
      BY <1>3, <1>5, <2>2
    <3>2. holders'[u] = holders[u]
      BY <1>1, <3>1 DEF TypeOK
    <3> QED BY <3>1, <3>2 DEF OneStanding
  <2>3. CASE u \notin woken /\ u \notin heir
    <3>1. acq'[u] = acq[u] /\ grant'[u] = grant[u]
      BY <1>5, <2>3
    <3>2. holders'[u] = NoLayer \/ holders'[u] = holders[u]
      BY <1>1 DEF TypeOK
    <3> QED BY <3>1, <3>2 DEF OneStanding
  <2> QED BY <2>1, <2>2, <2>3
<1>11. SlotConservation'
  <2>1. \A u \in Tasks :
          SlotOf(u)' = IF u \in heir THEN layer
                       ELSE IF u = t THEN NoLayer ELSE SlotOf(u)
    <3> SUFFICES ASSUME NEW u \in Tasks
                 PROVE  SlotOf(u)' = IF u \in heir THEN layer
                                     ELSE IF u = t THEN NoLayer ELSE SlotOf(u)
      OBVIOUS
    <3>1. CASE u \in heir
      BY <1>3, <1>4, <1>5, <3>1 DEF SlotOf
    <3>2. CASE u \notin heir
      <4>1. acq'[u] = "granted" <=> acq[u] = "granted"
        BY <1>3, <1>5, <3>2
      <4>2. grant'[u] = grant[u]
        BY <1>5, <3>2
      <4>3. holders'[u] = IF u = t THEN NoLayer ELSE holders[u]
        BY <1>1 DEF TypeOK
      <4> QED BY <1>1, <3>2, <4>1, <4>2, <4>3 DEF SlotOf
    <3> QED BY <3>1, <3>2
  <2>2. SlotOf(t) = layer /\ \A u \in heir : SlotOf(u) = NoLayer
    BY <1>0, <1>1, <1>4 DEF SlotOf
  <2>3. layer # NoLayer /\ NoLayer \notin Layers
    BY <1>1 DEF Layers, NoLayer
  <2>4. \A l \in Layers : l # layer => Owners(l)' = Owners(l)
    BY <2>1, <2>2, <2>3 DEF Owners
  <2>5. Cap' = Cap
    BY DEF Cap
  <2>6. CASE heir = {}
    <3>1. Owners(layer)' = Owners(layer) \ {t} /\ t \in Owners(layer)
      BY <2>1, <2>2, <2>3, <2>6 DEF Owners
    <3>2. Cardinality(Owners(layer)') = Cardinality(Owners(layer)) - 1
      BY <3>1, OwnersFinite, FS_RemoveElement
    <3>3. /\ permits'[layer] = permits[layer] + 1 /\ permits[layer] \in Nat
          /\ \A l \in Layers : l # layer => permits'[l] = permits[l]
      BY <1>6, <2>6 DEF TypeOK
    <3>4. Cardinality(Owners(layer)) \in Nat
      BY OwnersFinite
    <3>5. permits'[layer] + Cardinality(Owners(layer)') = Cap[layer]
      BY <3>2, <3>3, <3>4 DEF SlotConservation
    <3> QED BY <2>4, <2>5, <3>3, <3>5 DEF SlotConservation
  <2>7. ASSUME NEW u \in Tasks, heir = {u}
        PROVE  SlotConservation'
    <3> DEFINE rest == Owners(layer) \ {t}
    <3>1. /\ Owners(layer)' = rest \cup {u}
          /\ u \notin rest
          /\ t \in Owners(layer)
      BY <1>4, <2>1, <2>2, <2>3, <2>7 DEF Owners
    <3>2. IsFiniteSet(rest) /\ Cardinality(rest) = Cardinality(Owners(layer)) - 1
      BY <3>1, OwnersFinite, FS_RemoveElement
    <3> HIDE DEF rest
    <3>5. Cardinality(rest \cup {u}) = Cardinality(rest) + 1
      BY <3>1, <3>2, FS_AddElement
    <3>6. Cardinality(Owners(layer)) \in Nat
      BY OwnersFinite
    <3>3. Cardinality(Owners(layer)') = Cardinality(Owners(layer))
      BY <3>1, <3>2, <3>5, <3>6
    <3>4. permits' = permits
      BY <1>6, <2>7
    <3> QED BY <2>4, <2>5, <3>3, <3>4 DEF SlotConservation
  <2> QED BY <1>7, <2>6, <2>7
<1> QED BY <1>8, <1>9, <1>10, <1>11

-----------------------------------------------------------------------------
LEMMA NextInductive ==
  ASSUME IInv, [Next]_vars
  PROVE  IInv'
<1>1. CASE UNCHANGED vars
  <2>1. \A l : Owners(l)' = Owners(l)
    BY <1>1 DEF Owners, SlotOf, vars
  <2>2. TypeOK'
    BY <1>1, SettingsKept DEF IInv, TypeOK, vars
  <2> QED BY <1>1, <2>1, <2>2 DEF IInv, WaitersTracked, OneStanding,
                                  SlotConservation, Cap, vars
<1>2. ASSUME NEW t \in Tasks, Acquire(t)
      PROVE  IInv'
  <2>1. CASE AcquireDirect(t)
    BY <2>1, AcquireDirectInductive
  <2>2. CASE RefuseDisabled(t)
    BY <2>2, RefuseNewcomerInductive DEF RefuseDisabled
  <2>3. CASE RefuseFull(t)
    BY <2>3, RefuseFullInductive
  <2>4. CASE Enqueue(t)
    BY <2>4, JoinQueueInductive DEF Enqueue
  <2>5. CASE EnqueueDropping(t)
    BY <2>5, EnqueueDroppingInductive
  <2>6. CASE BlockInPut(t)
    BY <2>6, JoinPuttersInductive DEF BlockInPut
  <2> QED BY <1>2, <2>1, <2>2, <2>3, <2>4, <2>5, <2>6 DEF Acquire
<1>3. ASSUME NEW t \in Tasks, ResumePut(t)
      PROVE  IInv'
  BY <1>3, JoinQueueInductive, JoinPuttersInductive DEF ResumePut
<1> QED BY <1>1, <1>2, <1>3, TimeoutInductive, InheritOccupyInductive,
           FinishRefusedInductive, ReleaseInductive DEF Next

LEMMA Inductive == Spec => []IInv
BY InitInductive, NextInductive, PTL DEF Spec

(* The variables keep their types, and the queue never holds more entries  *)
(* than LOCAL_QUEUE_MAXSIZE.                                               *)
THEOREM TypeCorrect == Spec => []TypeOK
BY Inductive, PTL DEF IInv

(* Slots are conserved: neither a handover, a drop, a timeout nor a        *)
(* release loses one or makes a second one of it.                          *)
THEOREM SlotsConserved == Spec => []SlotConservation
BY Inductive, PTL DEF IInv

(* No waiter is lost by the queue, its putters or its futures.             *)
THEOREM NoWaiterLost == Spec => []WaitersTracked
BY Inductive, PTL DEF IInv

(* With nobody holding a slot or on the way to one there is a ticket       *)
LEMMA TicketWhenNobodyHolds ==
  ASSUME IInv, G0Cap + G1Cap > 0,
         \A u \in Tasks : holders[u] = NoLayer /\ acq[u] = "idle"
  PROVE  ~NoTicket
<1>1. G0Cap \in Nat /\ G1Cap \in Nat
  BY QueueGateAssumption
<1>2. \A l \in Layers : Owners(l) = {}
  BY DEF Owners, SlotOf, Layers, NoLayer
<1>3. \A l \in Layers : Cardinality(Owners(l)) = 0
  BY <1>2, FS_EmptySet
<1>4. \A l \in Layers : permits[l] \in Nat /\ permits[l] + 0 = Cap[l]
  BY <1>3 DEF IInv, TypeOK, SlotConservation
<1>5. permits["g0"] = G0Cap /\ permits["g1"] = G1Cap
  BY <1>1, <1>4 DEF Cap, Layers
<1> QED BY <1>1, <1>5 DEF NoTicket, HasTicket, Layers

-----------------------------------------------------------------------------
(* Unless the settings are the two that make put block, no put is ever     *)
(* blocked, and then no ticket lies unused beside a waiter.                *)
NoPutBlocks ==
  /\ putters = <<>>
  /\ \A t \in Tasks : acq[t] \notin {"blocked", "woken"}

LEMMA NoOneQueued ==
  ASSUME WaitersTracked, LiveAt = {}
  PROVE  \A t \in Tasks : acq[t] # "queued"
BY QueueGateAssumption DEF WaitersTracked, LiveAt

FullWhileQueued == (\E t \in Tasks : acq[t] = "queued") => NoTicket

LEMMA NeverStrandedInductive ==
  ASSUME PutNeverBlocks, IInv, NoPutBlocks, FullWhileQueued, [Next]_vars
  PROVE  NoPutBlocks' /\ FullWhileQueued'
<1> USE DEF IInv
<1>1. \A n : WokenBy(n) = {}
  BY DEF NoPutBlocks, WokenBy
<1>2. \A a : /\ Woken(a, PopCount) = [t \in Tasks |-> a[t]]
            /\ DropFirst(putters, PopCount) = <<>>
  <2>1. PopCount \in Nat
    BY PopCountInQueue
  <2>2. putters \in Seq(Tasks) /\ Len(putters) = 0
    BY DEF TypeOK, NoPutBlocks
  <2>3. DropFirst(putters, PopCount) = <<>>
    BY <2>1, <2>2, SubSeqEmpty DEF DropFirst
  <2> QED BY <1>1, <2>3 DEF Woken
<1>3. CASE UNCHANGED vars
  BY <1>3 DEF NoPutBlocks, FullWhileQueued, NoTicket, HasTicket, vars
<1>4. ASSUME NEW t \in Tasks, AcquireDirect(t)
      PROVE  NoPutBlocks' /\ FullWhileQueued'
  <2>1. ~NoTicket /\ UNCHANGED <<acq, putters>>
    BY <1>4 DEF AcquireDirect, NoTicket
  <2> QED BY <2>1 DEF NoPutBlocks, FullWhileQueued
<1>5. ASSUME NEW t \in Tasks, NoTicket,
             UNCHANGED permits, putters' = <<>>,
             \A u \in Tasks : acq'[u] \in {acq[u], "refused", "queued"}
      PROVE  NoPutBlocks' /\ FullWhileQueued'
  BY <1>5 DEF NoPutBlocks, FullWhileQueued, NoTicket, HasTicket
<1>6. ASSUME NEW t \in Tasks, RefuseDisabled(t) \/ RefuseFull(t) \/ Enqueue(t)
      PROVE  NoPutBlocks' /\ FullWhileQueued'
  <2>1. NoTicket /\ UNCHANGED permits /\ putters' = <<>>
    BY <1>2, <1>6 DEF RefuseDisabled, RefuseFull, Enqueue, PopQueue, NoPutBlocks
  <2>2. \A u \in Tasks : acq'[u] \in {acq[u], "refused", "queued"}
    <3> DEFINE refused == [acq EXCEPT ![t] = "refused"]
    <3>1. acq' = refused \/ acq' = Woken(refused, PopCount) \/ Enqueue(t)
      BY <1>6 DEF RefuseDisabled, RefuseFull
    <3>2. Woken(refused, PopCount) = [u \in Tasks |-> refused[u]]
      BY <1>2
    <3>3. \A u \in Tasks : refused[u] \in {acq[u], "refused"}
      BY DEF TypeOK
    <3> HIDE DEF refused
    <3>4. CASE Enqueue(t)
      BY <3>4 DEF Enqueue, TypeOK
    <3> QED BY <3>1, <3>2, <3>3, <3>4
  <2> QED BY <1>5, <2>1, <2>2
<1>7. ASSUME NEW t \in Tasks, EnqueueDropping(t)
      PROVE  NoPutBlocks' /\ FullWhileQueued'
  <2>1. NoTicket /\ UNCHANGED permits /\ putters' = <<>>
    BY <1>2, <1>7 DEF EnqueueDropping
  <2>2. \A u \in Tasks : acq'[u] \in {acq[u], "refused", "queued"}
    BY <1>2, <1>7 DEF EnqueueDropping
  <2> QED BY <1>5, <2>1, <2>2
<1>8. ASSUME NEW t \in Tasks, BlockInPut(t) \/ ResumePut(t)
      PROVE  FALSE
  BY <1>8 DEF BlockInPut, ResumePut, NoPutBlocks, PutNeverBlocks
<1>9. ASSUME NEW t \in Tasks, Timeout(t) \/ InheritOccupy(t) \/ FinishRefused(t)
      PROVE  NoPutBlocks' /\ FullWhileQueued'
  <2>1. UNCHANGED <<permits, putters>>
    BY <1>9 DEF Timeout, InheritOccupy, FinishRefused
  <2>2. \A u \in Tasks : acq'[u] \in {acq[u], "refused", "idle"}
    BY <1>9 DEF Timeout, InheritOccupy, FinishRefused, TypeOK
  <2> QED BY <2>1, <2>2 DEF NoPutBlocks, FullWhileQueued, NoTicket, HasTicket
<1>10. ASSUME NEW t \in Tasks, Release(t)
       PROVE  NoPutBlocks' /\ FullWhileQueued'
  <2>1. putters' = <<>>
    BY <1>2, <1>10 DEF Release, PopQueue
  <2>2. \A u \in Tasks : acq'[u] \in {acq[u], "granted"}
    <3> DEFINE granted == [acq EXCEPT ![q[FirstLive]] = "granted"]
    <3>1. acq' = Woken(acq, PopCount) \/ acq' = Woken(granted, PopCount)
      BY <1>10 DEF Release
    <3>2. /\ Woken(acq, PopCount) = [u \in Tasks |-> acq[u]]
          /\ Woken(granted, PopCount) = [u \in Tasks |-> granted[u]]
      BY <1>2
    <3>3. \A u \in Tasks : granted[u] \in {acq[u], "granted"}
      BY DEF TypeOK
    <3> HIDE DEF granted
    <3> QED BY <3>1, <3>2, <3>3
  <2>3. CASE LiveAt = {}
    BY <2>1, <2>2, <2>3, NoOneQueued DEF NoPutBlocks, FullWhileQueued
  <2>4. CASE LiveAt # {}
    <3>1. UNCHANGED permits
      BY <1>10, <2>4 DEF Release
    <3> QED BY <2>1, <2>2, <3>1 DEF NoPutBlocks, FullWhileQueued, NoTicket, HasTicket
  <2> QED BY <2>3, <2>4
<1> QED BY <1>3, <1>4, <1>6, <1>7, <1>8, <1>9, <1>10 DEF Next, Acquire

LEMMA ConfIsRigid ==
  ASSUME [Next]_vars
  PROVE  UNCHANGED conf
<1>1. CASE UNCHANGED vars
  BY <1>1 DEF vars
<1>2. CASE Next
  BY <1>2 DEF Next, Acquire, AcquireDirect, RefuseDisabled, RefuseFull, Enqueue,
              EnqueueDropping, BlockInPut, ResumePut, Timeout, InheritOccupy,
              FinishRefused, Release
<1> QED BY <1>1, <1>2

(* What the settings that keep put from blocking make inductive.           *)
PutInv == PutNeverBlocks => NoPutBlocks /\ FullWhileQueued

LEMMA PutInvAlways == Spec => []PutInv
<1>1. Init => PutInv
  BY DEF Init, PutInv, NoPutBlocks, FullWhileQueued
<1>2. IInv /\ PutInv /\ [Next]_vars => PutInv'
  BY NeverStrandedInductive, ConfIsRigid, SettingsKept DEF PutInv
<1> QED BY <1>1, <1>2, Inductive, PTL DEF Spec

(* Unless QUEUE_REJECT_POLICY is not drop_oldest and QUEUE_OVERFLOW_MODE   *)
(* is block, a request waits in the queue only while both gates are full.  *)
THEOREM NeverStranded == Spec => []NoStrandedWaiter
<1>1. PutInv => NoStrandedWaiter
  BY DEF PutInv, FullWhileQueued, NoStrandedWaiter
<1> QED BY <1>1, PutInvAlways, PTL

(* Under the same settings no newcomer takes a ticket ahead of a request   *)
(* that waits.                                                             *)
THEOREM NeverBarged == Spec => NoBarging
<1> DEFINE Barging == PutNeverBlocks /\ \E t \in Tasks : EntersDirectly(t)
           Quiet == \A u \in Tasks : ~Waiting(u)
<1>1. IInv /\ PutInv /\ [Next]_vars => [Barging => Quiet]_vars
  <2> SUFFICES ASSUME IInv, PutInv, Next, PutNeverBlocks,
                      NEW t \in Tasks, EntersDirectly(t),
                      NEW u \in Tasks
               PROVE  ~Waiting(u)
    OBVIOUS
  <2>1. acq[t] = "idle" /\ holders[t] = NoLayer /\ holders'[t] # NoLayer
    BY DEF EntersDirectly, Calls
  <2>2. \A v \in Tasks : ~Release(v) /\ ~InheritOccupy(v)
    BY <2>1 DEF Release, InheritOccupy, IInv, TypeOK
  <2>3. PICK v \in Tasks : AcquireDirect(v)
    BY <2>1, <2>2 DEF Next, Acquire, RefuseDisabled, RefuseFull, Enqueue,
                      EnqueueDropping, BlockInPut, ResumePut, Timeout, FinishRefused
  <2>4. ~NoTicket
    BY <2>3 DEF AcquireDirect, NoTicket
  <2> QED BY <2>4 DEF PutInv, FullWhileQueued, NoPutBlocks, Waiting
<1>2. Spec => [][Barging => Quiet]_vars
  BY <1>1, PutInvAlways, Inductive, PTL DEF Spec
<1> QED BY <1>2 DEF NoBarging

-----------------------------------------------------------------------------
(* Blocked puts: those woken and not run yet, counted.                     *)
Woke == {t \in Tasks : acq[t] = "woken"}

LEMMA WokeFinite == IsFiniteSet(Woke) /\ Cardinality(Woke) \in Nat
<1>1. Woke \in SUBSET Tasks
  BY DEF Woke
<1>2. IsFiniteSet(Woke)
  BY <1>1, FS_Subset, QueueGateAssumption
<1> QED BY <1>2, FS_CardinalityType

(* Waking n of the putters wakes n tasks, since none is there twice.       *)
LEMMA WokenByCount ==
  ASSUME TypeOK, WaitersTracked, NEW n \in Nat, n <= Len(putters)
  PROVE  IsFiniteSet(WokenBy(n)) /\ Cardinality(WokenBy(n)) = n
<1> DEFINE f == [i \in 1 .. n |-> putters[i]]
<1>1. putters \in Seq(Tasks)
  BY DEF TypeOK
<1>2. WokenBy(n) = {putters[i] : i \in 1 .. n}
  <2>1. {j \in DOMAIN putters : j <= n} = 1 .. n
    BY <1>1
  <2> QED BY <2>1 DEF WokenBy
<1>3. \A i, j \in 1 .. n : i # j => putters[i] # putters[j]
  BY <1>1 DEF WaitersTracked
<1>4. f \in Bijection(1 .. n, WokenBy(n))
  BY <1>2, <1>3 DEF Bijection, Injection, Surjection, IsInjective
<1>5. IsFiniteSet(1 .. n) /\ Cardinality(1 .. n) = n
  BY FS_Interval
<1>6. ExistsBijection(1 .. n, WokenBy(n))
  BY <1>4 DEF ExistsBijection
<1> QED BY <1>5, <1>6, FS_Bijection

(* Taking entries from the queue makes as much room as it wakes tasks, or  *)
(* wakes them all.                                                         *)
LEMMA PoppingKeepsBlockedFull ==
  ASSUME TypeOK, WaitersTracked, BlockedOnlyWhileFull, UNCHANGED conf,
         putters' = DropFirst(putters, PopCount),
         Len(q') \in Nat, Len(q') >= Len(q) - PopCount,
         Woke' = Woke \cup WokenBy(PopCount)
  PROVE  BlockedOnlyWhileFull'
<1> DEFINE n == PopCount
<1>1. n \in Nat /\ n <= Len(q) /\ Len(q) \in Nat /\ MaxQ \in Nat /\ MaxQ' = MaxQ
  BY PopCountInQueue, MaxQIsNat, SettingsKept DEF TypeOK
<1>2. putters \in Seq(Tasks)
  BY DEF TypeOK
<1> HIDE DEF n
<1>3. SUFFICES ASSUME putters' # <<>>
               PROVE  Len(q') + Cardinality(Woke') >= MaxQ
  BY <1>1 DEF BlockedOnlyWhileFull, Woke
<1>4. n <= Len(putters) /\ putters # <<>>
  <2>1. ~(n > Len(putters))
    BY <1>1, <1>2, <1>3, DropFirstAll DEF n
  <2>2. n <= Len(putters)
    BY <1>1, <1>2, <2>1
  <2>3. CASE putters = <<>>
    <3>1. n = 0 /\ Len(putters) = 0
      BY <1>1, <2>2, <2>3
    <3>2. putters' = DropFirst(putters, n)
      BY DEF n
    <3>3. /\ DropFirst(putters, n) \in Seq(Tasks)
          /\ Len(DropFirst(putters, n)) = Len(putters) - n
      BY <1>1, <1>2, <2>2, DropFirstProperties
    <3>4. Len(putters') = 0 /\ putters' \in Seq(Tasks)
      BY <3>1, <3>2, <3>3
    <3> QED BY <1>3, <3>4
  <2> QED BY <2>2, <2>3
<1>5. IsFiniteSet(WokenBy(n)) /\ Cardinality(WokenBy(n)) = n
  BY <1>1, <1>4, WokenByCount
<1>6. Woke \cap WokenBy(n) = {}
  BY DEF Woke, WokenBy, WaitersTracked
<1>7. Cardinality(Woke') = Cardinality(Woke) + n
  <2>1. Cardinality(Woke \cup WokenBy(n))
          = Cardinality(Woke) + Cardinality(WokenBy(n)) - Cardinality(Woke \cap WokenBy(n))
    BY <1>5, WokeFinite, FS_Union
  <2>2. Cardinality(Woke \cap WokenBy(n)) = 0
    BY <1>6, FS_EmptySet
  <2> QED BY <1>1, <1>5, <2>1, <2>2, WokeFinite DEF n
<1>8. Len(q) + Cardinality(Woke) >= MaxQ
  BY <1>4 DEF BlockedOnlyWhileFull, Woke
<1> QED BY <1>1, <1>7, <1>8, WokeFinite DEF n

LEMMA BlockedFullInductive ==
  ASSUME IInv, BlockedOnlyWhileFull, [Next]_vars
  PROVE  BlockedOnlyWhileFull'
<1> USE DEF IInv
<1>1. q \in Seq(Tasks \cup {Dead}) /\ Len(q) \in Nat /\ MaxQ \in Nat
  BY MaxQIsNat DEF TypeOK
<1>2. ASSUME UNCHANGED <<conf, putters>>, Len(q') \in Nat, Len(q') >= Len(q), Woke' = Woke
      PROVE  BlockedOnlyWhileFull'
  <2>1. MaxQ' = MaxQ
    BY <1>2, SettingsKept
  <2>2. Cardinality(Woke') = Cardinality(Woke)
    BY <1>2
  <2> QED BY <1>1, <1>2, <2>1, <2>2, WokeFinite DEF BlockedOnlyWhileFull, Woke
<1>3. CASE UNCHANGED vars
  BY <1>1, <1>2, <1>3 DEF vars, Woke
<1>4. ASSUME NEW t \in Tasks, AcquireDirect(t) \/ RefuseDisabled(t) \/ InheritOccupy(t) \/ FinishRefused(t)
      PROVE  BlockedOnlyWhileFull'
  <2>1. UNCHANGED <<conf, q, putters>>
    BY <1>4 DEF AcquireDirect, RefuseDisabled, InheritOccupy, FinishRefused
  <2>2. Woke' = Woke
    BY <1>4 DEF AcquireDirect, RefuseDisabled, InheritOccupy, FinishRefused, Calls, Woke, TypeOK
  <2> QED BY <1>1, <1>2, <2>1, <2>2
<1>5. ASSUME NEW t \in Tasks, RefuseFull(t)
      PROVE  BlockedOnlyWhileFull'
  <2>1. CASE acq' = [acq EXCEPT ![t] = "refused"] /\ UNCHANGED <<q, putters>>
    <3>1. Woke' = Woke
      BY <1>5, <2>1 DEF RefuseFull, Calls, Woke, TypeOK
    <3> QED BY <1>1, <1>2, <1>5, <2>1, <3>1 DEF RefuseFull
  <2>2. CASE PopQueue(PopCount) /\ acq' = Woken([acq EXCEPT ![t] = "refused"], PopCount)
    <3>1. \A u \in Tasks : acq'[u] = "woken" <=> u \in WokenBy(PopCount) \/ acq[u] = "woken"
      BY <1>5, <2>2 DEF RefuseFull, Calls, Woken, TypeOK
    <3>2. WokenBy(PopCount) \subseteq Tasks
      BY DEF WokenBy, TypeOK
    <3>3. Woke' = Woke \cup WokenBy(PopCount)
      BY <3>1, <3>2 DEF Woke
    <3>4. Len(q') = Len(q) - PopCount /\ Len(q') \in Nat
      BY <1>1, <2>2, PopCountInQueue, DropFirstProperties DEF PopQueue
    <3> QED BY <1>1, <1>5, <2>2, <3>3, <3>4, PopCountInQueue, PoppingKeepsBlockedFull
            DEF RefuseFull, PopQueue
  <2> QED BY <1>5, <2>1, <2>2 DEF RefuseFull
<1>6. ASSUME NEW t \in Tasks, Enqueue(t)
      PROVE  BlockedOnlyWhileFull'
  <2>1. Len(q') = Len(q) + 1
    BY <1>1, <1>6 DEF Enqueue
  <2>2. Woke' = Woke
    BY <1>6 DEF Enqueue, Calls, Woke, TypeOK
  <2> QED BY <1>1, <1>2, <1>6, <2>1, <2>2 DEF Enqueue
<1>7. ASSUME NEW t \in Tasks, EnqueueDropping(t)
      PROVE  BlockedOnlyWhileFull'
  <2>1. \A u \in Tasks : acq'[u] = "woken" <=> u \in WokenBy(PopCount) \/ acq[u] = "woken"
    <3>1. acq[t] = "idle"
      BY <1>7 DEF EnqueueDropping, Calls
    <3>2. LiveAt # {} => acq[q[FirstLive]] = "queued"
      BY FirstLiveWaits
    <3> QED BY <1>7, <3>1, <3>2 DEF EnqueueDropping, Woken
  <2>2. WokenBy(PopCount) \subseteq Tasks
    BY DEF WokenBy, TypeOK
  <2>3. Woke' = Woke \cup WokenBy(PopCount)
    BY <2>1, <2>2 DEF Woke
  <2>4. Len(q') = Len(q) - PopCount + 1 /\ Len(q') \in Nat
    <3>1. /\ DropFirst(q, PopCount) \in Seq(Tasks \cup {Dead})
          /\ Len(DropFirst(q, PopCount)) = Len(q) - PopCount
      BY <1>1, PopCountInQueue, DropFirstProperties
    <3>2. q' = Append(DropFirst(q, PopCount), t)
      BY <1>7 DEF EnqueueDropping
    <3> QED BY <1>1, <3>1, <3>2, PopCountInQueue
  <2>5. Len(q') >= Len(q) - PopCount
    BY <1>1, <2>4, PopCountInQueue
  <2> QED BY <1>7, <2>3, <2>4, <2>5, PoppingKeepsBlockedFull DEF EnqueueDropping
<1>8. ASSUME NEW t \in Tasks, BlockInPut(t)
      PROVE  BlockedOnlyWhileFull'
  <2>1. UNCHANGED <<conf, q>> /\ Len(q) >= MaxQ
    BY <1>8 DEF BlockInPut
  <2>2. Woke' = Woke
    BY <1>8 DEF BlockInPut, Calls, Woke, TypeOK
  <2>3. Cardinality(Woke') \in Nat
    BY <2>2, WokeFinite
  <2> QED BY <1>1, <2>1, <2>3, SettingsKept DEF BlockedOnlyWhileFull, Woke
<1>9. ASSUME NEW t \in Tasks, ResumePut(t)
      PROVE  BlockedOnlyWhileFull'
  <2>1. t \in Woke /\ UNCHANGED conf
    BY <1>9 DEF ResumePut, Woke
  <2>2. Woke' = Woke \ {t}
    BY <1>9 DEF ResumePut, Woke, TypeOK
  <2>3. Cardinality(Woke') = Cardinality(Woke) - 1 /\ Cardinality(Woke') \in Nat
    <3>1. IsFiniteSet(Woke \ {t}) /\ Cardinality(Woke \ {t}) = Cardinality(Woke) - 1
      BY <2>1, WokeFinite, FS_RemoveElement
    <3> QED BY <2>2, <3>1, FS_CardinalityType
  <2>4. MaxQ' = MaxQ
    BY <2>1, SettingsKept
  <2>5. CASE Len(q) < MaxQ /\ q' = Append(q, t) /\ putters' = putters
    <3>1. Len(q') = Len(q) + 1
      BY <1>1, <2>5
    <3> QED BY <1>1, <2>3, <2>4, <2>5, <3>1, WokeFinite DEF BlockedOnlyWhileFull, Woke
  <2>6. CASE Len(q) >= MaxQ /\ q' = q
    BY <1>1, <2>3, <2>4, <2>6 DEF BlockedOnlyWhileFull, Woke
  <2> QED BY <1>9, <2>5, <2>6 DEF ResumePut
<1>10. ASSUME NEW t \in Tasks, Timeout(t)
       PROVE  BlockedOnlyWhileFull'
  <2>1. UNCHANGED <<conf, putters>>
    BY <1>10 DEF Timeout
  <2>2. Len(q') = Len(q)
    <3>1. q' = [i \in 1 .. Len(q) |-> IF q[i] = t THEN Dead ELSE q[i]]
      BY <1>1, <1>10 DEF Timeout
    <3> QED BY <1>1, <3>1
  <2>3. Woke' = Woke
    BY <1>10 DEF Timeout, Woke, TypeOK
  <2> QED BY <1>1, <1>2, <2>1, <2>2, <2>3
<1>11. ASSUME NEW t \in Tasks, Release(t)
       PROVE  BlockedOnlyWhileFull'
  <2>1. \A u \in Tasks : acq'[u] = "woken" <=> u \in WokenBy(PopCount) \/ acq[u] = "woken"
    <3>1. CASE LiveAt = {}
      BY <1>11, <3>1 DEF Release, Woken
    <3>2. CASE LiveAt # {}
      BY <1>11, <3>2, FirstLiveWaits DEF Release, Woken, TypeOK
    <3> QED BY <3>1, <3>2
  <2>2. WokenBy(PopCount) \subseteq Tasks
    BY DEF WokenBy, TypeOK
  <2>3. Woke' = Woke \cup WokenBy(PopCount)
    BY <2>1, <2>2 DEF Woke
  <2>4. Len(q') = Len(q) - PopCount /\ Len(q') \in Nat
    BY <1>1, <1>11, PopCountInQueue, DropFirstProperties DEF Release, PopQueue
  <2> QED BY <1>1, <1>11, <2>3, <2>4, PopCountInQueue, PoppingKeepsBlockedFull
          DEF Release, PopQueue
<1> QED BY <1>3, <1>4, <1>5, <1>6, <1>7, <1>8, <1>9, <1>10, <1>11 DEF Next, Acquire

(* However many entries a release or a drop takes out, a put stays blocked *)
(* only while the queue is full or the puts woken already will fill it.    *)
THEOREM NoWakeupLost == Spec => []BlockedOnlyWhileFull
<1>1. Init => BlockedOnlyWhileFull
  BY DEF Init, BlockedOnlyWhileFull
<1>2. IInv /\ BlockedOnlyWhileFull /\ [Next]_vars => BlockedOnlyWhileFull'
  BY BlockedFullInductive
<1> QED BY <1>1, <1>2, Inductive, PTL DEF Spec

-----------------------------------------------------------------------------
(* Who is taken out of the queue, and who is turned away.                  *)

(* A live waiter is taken out only as the first one of the queue.          *)
LEMMA OnlyFirstTakenOut ==
  ASSUME IInv, Next, NEW j \in DOMAIN q, q[j] # Dead, TakenOut(q[j])
  PROVE  LiveAt # {} /\ j = FirstLive
<1> USE DEF IInv
<1> DEFINE w == q[j]
<1>1. w \in Tasks /\ acq[w] = "queued" /\ acq'[w] \in {"granted", "refused"}
  BY DEF TakenOut, TypeOK
<1>2. SUFFICES w = q[FirstLive] /\ LiveAt # {}
  BY FirstLiveIsLive DEF WaitersTracked
<1>3. j \in LiveAt
  BY DEF LiveAt
<1>4. w \notin WokenBy(PopCount)
  BY <1>1 DEF WokenBy, WaitersTracked
<1>5. ASSUME NEW t \in Tasks, Release(t)
      PROVE  w = q[FirstLive]
  BY <1>1, <1>3, <1>4, <1>5 DEF Release, Woken, TypeOK
<1>6. ASSUME NEW t \in Tasks, EnqueueDropping(t)
      PROVE  w = q[FirstLive]
  BY <1>1, <1>3, <1>4, <1>6 DEF EnqueueDropping, Woken, Calls
<1>7. ASSUME NEW t \in Tasks, Timeout(t)
      PROVE  FALSE
  BY <1>7 DEF Timeout, TakenOut, Newcomer, Calls, TypeOK
<1>8. ASSUME NEW t \in Tasks, RefuseFull(t)
      PROVE  FALSE
  BY <1>3, <1>1, <1>8 DEF RefuseFull, Calls, TypeOK
<1>9. ASSUME NEW t \in Tasks,
             AcquireDirect(t) \/ RefuseDisabled(t) \/ Enqueue(t) \/ BlockInPut(t)
             \/ ResumePut(t) \/ InheritOccupy(t) \/ FinishRefused(t)
      PROVE  FALSE
  BY <1>1, <1>9 DEF AcquireDirect, RefuseDisabled, Enqueue, BlockInPut, ResumePut,
                    InheritOccupy, FinishRefused, Calls, TypeOK
<1> QED BY <1>3, <1>5, <1>6, <1>7, <1>8, <1>9 DEF Next, Acquire

LEMMA TurnedAwayWhenBusy ==
  ASSUME IInv, Next, NEW t \in Tasks, TurnedAway(t), NEW l \in Layers
  PROVE  Cardinality(Owners(l)) = Cap[l]
<1> USE DEF IInv
<1>1. acq[t] = "idle" /\ acq'[t] = "refused"
  BY DEF TurnedAway, Calls
<1>2. NoTicket
  <2>1. ASSUME NEW u \in Tasks, RefuseDisabled(u) \/ RefuseFull(u) \/ Enqueue(u)
                                \/ EnqueueDropping(u) \/ BlockInPut(u)
        PROVE  NoTicket
    BY <2>1 DEF RefuseDisabled, RefuseFull, Enqueue, EnqueueDropping, BlockInPut
  <2>2. ASSUME NEW u \in Tasks, AcquireDirect(u) \/ ResumePut(u) \/ Timeout(u)
                                \/ InheritOccupy(u) \/ FinishRefused(u)
        PROVE  FALSE
    BY <1>1, <2>2 DEF AcquireDirect, ResumePut, Timeout, InheritOccupy, FinishRefused, TypeOK
  <2>3. ASSUME NEW u \in Tasks, Release(u)
        PROVE  FALSE
    BY <1>1, <2>3, FirstLiveWaits DEF Release, Woken, TypeOK
  <2> QED BY <2>1, <2>2, <2>3 DEF Next, Acquire
<1>3. permits[l] = 0
  BY <1>2 DEF NoTicket, HasTicket, TypeOK
<1>4. Cardinality(Owners(l)) \in Nat /\ permits[l] + Cardinality(Owners(l)) = Cap[l]
  BY OwnersFinite DEF SlotConservation
<1> QED BY <1>3, <1>4

(* Whoever waits first is served or dropped first, and nobody is turned    *)
(* away beside a free slot.                                                *)
THEOREM FirstComeFirstServed == Spec => ServedInTurn
<1>1. IInv /\ [Next]_vars
        => [\A i, j \in DOMAIN q : i < j /\ q[i] # Dead /\ q[j] # Dead
                                    /\ TakenOut(q[j]) => TakenOut(q[i])]_vars
  <2> SUFFICES ASSUME IInv, Next, NEW i \in DOMAIN q, NEW j \in DOMAIN q,
                      i < j, q[i] # Dead, q[j] # Dead, TakenOut(q[j])
               PROVE  FALSE
    OBVIOUS
  <2>1. j = FirstLive /\ LiveAt # {}
    BY OnlyFirstTakenOut
  <2> QED BY <2>1, FirstLiveIsLive DEF IInv
<1>2. IInv /\ [Next]_vars
        => [(\E t \in Tasks : TurnedAway(t))
              => \A l \in Layers : Cardinality(Owners(l)) = Cap[l]]_vars
  BY TurnedAwayWhenBusy
<1>3. Spec => OldestFirst
  BY <1>1, Inductive, PTL DEF Spec, OldestFirst
<1>4. Spec => RefusedOnlyWhenBusy
  BY <1>2, Inductive, PTL DEF Spec, RefusedOnlyWhenBusy
<1> QED BY <1>3, <1>4 DEF ServedInTurn

-----------------------------------------------------------------------------
(* The gate implements the slot pool: every step of the gate is a step of  *)
(* the pool or leaves the pool as it is.                                   *)
LEMMA StandingCases ==
  ASSUME OneStanding, NEW t \in Tasks
  PROVE  /\ Calls(t) => Standing(t) = "out" /\ SlotOf(t) = NoLayer
         /\ acq[t] \in {"blocked", "woken", "queued"} =>
              Standing(t) = "waiting" /\ SlotOf(t) = NoLayer
         /\ acq[t] = "refused" => Standing(t) = "refused" /\ SlotOf(t) = NoLayer
         /\ acq[t] = "granted" => Standing(t) = "in" /\ SlotOf(t) = grant[t]
         /\ holders[t] # NoLayer => Standing(t) = "in" /\ SlotOf(t) = holders[t]
BY DEF OneStanding, Calls, Standing, SlotOf, Waiting

LEMMA InitImplementsPool ==
  ASSUME Init
  PROVE  Pool!PoolInit
BY DEF Init, Pool!PoolInit, Pool!NoLayer, Standing, SlotOf, Waiting, NoLayer

(* A step that leaves every task's standing and slot alone.                *)
LEMMA PoolStutters ==
  ASSUME \A t \in Tasks : Standing(t)' = Standing(t) /\ SlotOf(t)' = SlotOf(t)
  PROVE  UNCHANGED Pool!poolVars
BY DEF Pool!poolVars

LEMMA NextImplementsPool ==
  ASSUME IInv, IInv', [Next]_vars
  PROVE  [Pool!PoolNext]_(Pool!poolVars)
<1> DEFINE st == [t \in Tasks |-> Standing(t)]
           sl == [t \in Tasks |-> SlotOf(t)]
<1> USE DEF IInv
<1>1. CASE UNCHANGED vars
  <2>1. \A t \in Tasks : Standing(t)' = Standing(t) /\ SlotOf(t)' = SlotOf(t)
    BY <1>1 DEF vars, Standing, SlotOf, Waiting
  <2> QED BY <2>1, PoolStutters
<1>2. ASSUME NEW t \in Tasks, AcquireDirect(t)
      PROVE  Pool!PoolNext
  <2>1. PICK l \in Layers :
          /\ permits[l] > 0
          /\ holders' = [holders EXCEPT ![t] = l]
          /\ UNCHANGED <<acq, grant>>
          /\ Calls(t)
    BY <1>2 DEF AcquireDirect, HasTicket
  <2>2. st[t] = "out"
    BY <2>1, StandingCases
  <2>3. Pool!Owners(l) = Owners(l)
    BY DEF Pool!Owners, Owners
  <2>4. Pool!Cap[l] = Cap[l] /\ Cap[l] \in Nat
    BY QueueGateAssumption DEF Pool!Cap, Pool!Layers, Cap, Layers
  <2>12. Pool!Cardinality(Owners(l)) = Cardinality(Owners(l))
    BY DEF Pool!Cardinality, Cardinality
  <2>5. Pool!Cardinality(Pool!Owners(l)) < Pool!Cap[l]
    BY <2>12, <2>1, <2>3, <2>4, OwnersFinite DEF SlotConservation, TypeOK
  <2>6. l # NoLayer
    BY DEF Layers, NoLayer
  <2>7. acq[t] = "idle" /\ holders'[t] = l
    BY <2>1 DEF Calls, TypeOK
  <2>8. \A u \in Tasks : u # t => holders'[u] = holders[u]
    BY <2>1 DEF TypeOK
  <2>9. \A u \in Tasks : /\ Standing(u)' = IF u = t THEN "in" ELSE Standing(u)
                         /\ SlotOf(u)' = IF u = t THEN l ELSE SlotOf(u)
    BY <2>1, <2>6, <2>7, <2>8 DEF Standing, SlotOf, Waiting
  <2>10. st' = [st EXCEPT ![t] = "in"] /\ sl' = [sl EXCEPT ![t] = l]
    BY <2>9
  <2>11. Pool!LetIn(t, l)
    BY <2>2, <2>5, <2>10 DEF Pool!LetIn
  <2> QED BY <2>11 DEF Pool!PoolNext, Pool!Layers, Layers
<1>3. ASSUME NEW t \in Tasks, UNCHANGED <<grant, holders>>,
             Calls(t) \/ Waiting(t),
             acq'[t] = "refused",
             \A u \in Tasks : u # t => \/ acq'[u] = acq[u]
                                       \/ Waiting(u) /\ Waiting(u)'
      PROVE  Pool!PoolNext
  <2>1. st[t] \in {"out", "waiting"} /\ SlotOf(t) = NoLayer
    BY <1>3, StandingCases DEF Waiting
  <2>2. Standing(t)' = "refused" /\ SlotOf(t)' = NoLayer
    BY <1>3, <2>1 DEF Standing, SlotOf, OneStanding, Waiting, Calls
  <2>3. \A u \in Tasks : u # t => Standing(u)' = Standing(u) /\ SlotOf(u)' = SlotOf(u)
    BY <1>3 DEF Standing, SlotOf, Waiting
  <2>4. st' = [st EXCEPT ![t] = "refused"] /\ sl' = sl
    BY <2>1, <2>2, <2>3
  <2>5. Pool!Refuse(t)
    BY <2>1, <2>4 DEF Pool!Refuse
  <2> QED BY <2>5 DEF Pool!PoolNext
<1>4. \A u \in WokenBy(PopCount) : u \in Tasks /\ acq[u] = "blocked"
  BY Popped
<1>5. ASSUME NEW t \in Tasks, RefuseDisabled(t) \/ RefuseFull(t)
      PROVE  Pool!PoolNext
  <2>1. /\ Calls(t)
        /\ UNCHANGED <<grant, holders>>
        /\ \/ acq' = [acq EXCEPT ![t] = "refused"]
           \/ acq' = Woken([acq EXCEPT ![t] = "refused"], PopCount)
    BY <1>5 DEF RefuseDisabled, RefuseFull
  <2>2. acq'[t] = "refused"
    BY <1>4, <2>1 DEF Woken, Calls, TypeOK
  <2>3. \A u \in Tasks : u # t => acq'[u] = acq[u] \/ (Waiting(u) /\ Waiting(u)')
    BY <1>4, <2>1 DEF Woken, Waiting, TypeOK
  <2> QED BY <1>3, <2>1, <2>2, <2>3
<1>6. ASSUME NEW t \in Tasks, Calls(t), Waiting(t)',
             UNCHANGED <<grant, holders>>,
             NEW D, D = {} \/ \E v \in Tasks : D = {v},
             \A v \in D : acq[v] = "queued" /\ acq'[v] = "refused",
             \A u \in Tasks : u # t /\ u \notin D =>
                \/ acq'[u] = acq[u]
                \/ Waiting(u) /\ Waiting(u)'
      PROVE  Pool!PoolNext
  <2>1. st[t] = "out"
    BY <1>6, StandingCases
  <2>2. /\ t \notin D
        /\ acq'[t] \in {"blocked", "woken", "queued"}
    BY <1>6 DEF Waiting, Calls
  <2>3. \A u \in Tasks : /\ SlotOf(u)' = SlotOf(u)
                         /\ Standing(u)' = IF u = t THEN "waiting"
                                           ELSE IF u \in D THEN "refused"
                                           ELSE Standing(u)
    <3> SUFFICES ASSUME NEW u \in Tasks
                 PROVE  /\ SlotOf(u)' = SlotOf(u)
                        /\ Standing(u)' = IF u = t THEN "waiting"
                                          ELSE IF u \in D THEN "refused"
                                          ELSE Standing(u)
      OBVIOUS
    <3>1. CASE u = t
      BY <1>6, <2>2, <3>1 DEF Standing, SlotOf, Waiting, Calls
    <3>2. CASE u # t /\ u \in D
      BY <1>6, <3>2 DEF Standing, SlotOf, Waiting, OneStanding
    <3>3. CASE u # t /\ u \notin D
      BY <1>6, <3>3 DEF Standing, SlotOf, Waiting
    <3> QED BY <3>1, <3>2, <3>3
  <2>4. sl' = sl
    BY <2>3
  <2>5. CASE D = {}
    <3>1. st' = [st EXCEPT ![t] = "waiting"]
      BY <2>3, <2>5
    <3> QED BY <2>1, <2>4, <3>1 DEF Pool!PoolNext, Pool!MakeWait
  <2>6. ASSUME NEW v \in Tasks, D = {v}
        PROVE  Pool!PoolNext
    <3>1. st' = [st EXCEPT ![t] = "waiting", ![v] = "refused"]
      BY <2>2, <2>3, <2>6
    <3>2. st[v] = "waiting"
      BY <1>6, <2>6, StandingCases
    <3>3. Pool!MakeWait(t)
      BY <2>1, <2>4, <3>1, <3>2 DEF Pool!MakeWait
    <3> QED BY <3>3 DEF Pool!PoolNext
  <2> QED BY <1>6, <2>5, <2>6
<1>7. ASSUME NEW t \in Tasks, Enqueue(t) \/ BlockInPut(t)
      PROVE  Pool!PoolNext
  <2>1. /\ Calls(t)
        /\ UNCHANGED <<grant, holders>>
        /\ acq' = [acq EXCEPT ![t] = "queued"] \/ acq' = [acq EXCEPT ![t] = "blocked"]
    BY <1>7 DEF Enqueue, BlockInPut
  <2>2. Waiting(t)' /\ \A u \in Tasks : u # t => acq'[u] = acq[u]
    BY <2>1 DEF Waiting, TypeOK
  <2>3. \A v \in {} : acq[v] = "queued" /\ acq'[v] = "refused"
    OBVIOUS
  <2>4. PICK D : D = {}
    OBVIOUS
  <2>5. \A u \in Tasks : u # t /\ u \notin D =>
          acq'[u] = acq[u] \/ (Waiting(u) /\ Waiting(u)')
    BY <2>2
  <2> QED BY <1>6, <2>1, <2>2, <2>3, <2>4, <2>5
<1>8. ASSUME NEW t \in Tasks, EnqueueDropping(t)
      PROVE  Pool!PoolNext
  <2> DEFINE D == IF LiveAt = {} THEN {} ELSE {q[FirstLive]}
  <2>1. /\ Calls(t)
        /\ UNCHANGED <<grant, holders>>
        /\ acq' = [u \in Tasks |-> IF u \in WokenBy(PopCount) THEN "woken"
                                   ELSE IF u = t THEN "queued"
                                   ELSE IF u \in D THEN "refused" ELSE acq[u]]
    BY <1>8 DEF EnqueueDropping, Woken
  <2>2. /\ D = {} \/ \E v \in Tasks : D = {v}
        /\ \A v \in D : v \in Tasks /\ acq[v] = "queued"
    BY FirstLiveWaits
  <2> HIDE DEF D
  <2>3. Waiting(t)' /\ t \notin D
    BY <1>4, <2>1, <2>2 DEF Waiting, Calls
  <2>4. \A v \in D : acq[v] = "queued" /\ acq'[v] = "refused"
    BY <1>4, <2>1, <2>2, <2>3
  <2>5. \A u \in Tasks : u # t /\ u \notin D =>
          acq'[u] = acq[u] \/ (Waiting(u) /\ Waiting(u)')
    BY <1>4, <2>1 DEF Waiting
  <2> QED BY <1>6, <2>1, <2>2, <2>3, <2>4, <2>5
<1>9. ASSUME NEW t \in Tasks, ResumePut(t) \/ InheritOccupy(t)
      PROVE  UNCHANGED Pool!poolVars
  <2>1. CASE ResumePut(t)
    <3>1. /\ acq[t] = "woken" /\ UNCHANGED <<grant, holders>>
          /\ acq' = [acq EXCEPT ![t] = "queued"] \/ acq' = [acq EXCEPT ![t] = "blocked"]
      BY <2>1 DEF ResumePut
    <3>2. \A u \in Tasks : Standing(u)' = Standing(u) /\ SlotOf(u)' = SlotOf(u)
      BY <3>1 DEF Standing, SlotOf, Waiting, TypeOK
    <3> QED BY <3>2, PoolStutters
  <2>2. CASE InheritOccupy(t)
    <3>1. /\ acq[t] = "granted" /\ grant[t] # NoLayer /\ holders[t] = NoLayer
          /\ acq' = [acq EXCEPT ![t] = "idle"]
          /\ UNCHANGED q
          /\ holders' = [holders EXCEPT ![t] = grant[t]]
          /\ grant' = [grant EXCEPT ![t] = NoLayer]
      BY <2>2 DEF InheritOccupy, OneStanding
    <3>2. \A u \in Tasks : Standing(u)' = Standing(u) /\ SlotOf(u)' = SlotOf(u)
      BY <3>1 DEF Standing, SlotOf, Waiting, TypeOK
    <3> QED BY <3>2, PoolStutters
  <2> QED BY <1>9, <2>1, <2>2
<1>10. ASSUME NEW t \in Tasks, Timeout(t)
       PROVE  Pool!PoolNext
  <2>1. /\ Waiting(t)
        /\ UNCHANGED <<grant, holders>>
        /\ acq' = [acq EXCEPT ![t] = "refused"]
    BY <1>10 DEF Timeout, Waiting
  <2>2. acq'[t] = "refused" /\ \A u \in Tasks : u # t => acq'[u] = acq[u]
    BY <2>1 DEF TypeOK
  <2> QED BY <1>3, <2>1, <2>2
<1>11. ASSUME NEW t \in Tasks, FinishRefused(t)
       PROVE  Pool!PoolNext
  <2>1. /\ acq[t] = "refused" /\ holders[t] = NoLayer
        /\ acq' = [acq EXCEPT ![t] = "idle"]
        /\ UNCHANGED <<grant, holders>>
    BY <1>11 DEF FinishRefused, OneStanding
  <2>2. st[t] = "refused"
    BY <2>1, StandingCases
  <2>3. \A u \in Tasks : /\ Standing(u)' = IF u = t THEN "out" ELSE Standing(u)
                         /\ SlotOf(u)' = SlotOf(u)
    BY <2>1 DEF Standing, SlotOf, Waiting, TypeOK
  <2>4. st' = [st EXCEPT ![t] = "out"] /\ sl' = sl
    BY <2>3
  <2> QED BY <2>2, <2>4 DEF Pool!GoAway, Pool!PoolNext
<1>12. ASSUME NEW t \in Tasks, Release(t)
       PROVE  Pool!PoolNext
  <2> DEFINE u == q[FirstLive]
  <2>1. st[t] = "in" /\ sl[t] = holders[t] /\ holders[t] # NoLayer /\ acq[t] = "idle"
    BY <1>12, StandingCases DEF Release, OneStanding
  <2>2. \A v \in Tasks : holders'[v] = IF v = t THEN NoLayer ELSE holders[v]
    BY <1>12 DEF Release, TypeOK
  <2>3. CASE LiveAt = {}
    <3>1. /\ acq' = Woken(acq, PopCount) /\ UNCHANGED grant
      BY <1>12, <2>3 DEF Release
    <3>2. \A v \in Tasks : acq'[v] = IF v \in WokenBy(PopCount) THEN "woken" ELSE acq[v]
      BY <3>1 DEF Woken
    <3>3. \A v \in Tasks : /\ Standing(v)' = IF v = t THEN "out" ELSE Standing(v)
                           /\ SlotOf(v)' = IF v = t THEN NoLayer ELSE SlotOf(v)
      BY <1>4, <2>1, <2>2, <3>1, <3>2 DEF Standing, SlotOf, Waiting
    <3>4. st' = [st EXCEPT ![t] = "out"] /\ sl' = [sl EXCEPT ![t] = NoLayer]
      BY <3>3
    <3>5. Pool!Leave(t)
      BY <2>1, <3>4 DEF Pool!Leave, Pool!NoLayer, NoLayer
    <3> QED BY <3>5 DEF Pool!PoolNext
  <2>4. CASE LiveAt # {}
    <3>1. PICK h \in Tasks : h = u
      BY <2>4, FirstLiveWaits
    <3>2. /\ acq[h] = "queued" /\ h # t /\ grant[h] = NoLayer /\ holders[h] = NoLayer
      BY <2>1, <2>4, <3>1, FirstLiveWaits
    <3>3. /\ acq' = Woken([acq EXCEPT ![h] = "granted"], PopCount)
          /\ grant' = [grant EXCEPT ![h] = holders[t]]
      BY <1>12, <2>4, <3>1 DEF Release
    <3>4. \A v \in Tasks : acq'[v] = IF v \in WokenBy(PopCount) THEN "woken"
                                     ELSE IF v = h THEN "granted" ELSE acq[v]
      BY <3>3 DEF Woken, TypeOK
    <3>5. \A v \in Tasks : grant'[v] = IF v = h THEN holders[t] ELSE grant[v]
      BY <3>3 DEF TypeOK
    <3>6. \A v \in Tasks :
            /\ Standing(v)' = IF v = h THEN "in" ELSE IF v = t THEN "out" ELSE Standing(v)
            /\ SlotOf(v)' = IF v = h THEN holders[t]
                            ELSE IF v = t THEN NoLayer ELSE SlotOf(v)
      BY <1>4, <2>1, <2>2, <3>2, <3>4, <3>5 DEF Standing, SlotOf, Waiting
    <3>7. /\ st' = [st EXCEPT ![t] = "out", ![h] = "in"]
          /\ sl' = [sl EXCEPT ![t] = NoLayer, ![h] = sl[t]]
      BY <2>1, <3>2, <3>6
    <3>8. st[h] = "waiting"
      BY <3>2, StandingCases
    <3>9. Pool!Leave(t)
      BY <2>1, <3>7, <3>8 DEF Pool!Leave, Pool!NoLayer, NoLayer
    <3> QED BY <3>9 DEF Pool!PoolNext
  <2> QED BY <2>3, <2>4
<1> QED BY <1>1, <1>2, <1>5, <1>7, <1>8, <1>9, <1>10, <1>11, <1>12 DEF Next, Acquire

(* The gate implements the slot pool, whatever its settings.               *)
THEOREM GateImplementsPool == Spec => ImplementsPool
<1>1. Init => Pool!PoolInit
  BY InitImplementsPool
<1>2. IInv /\ IInv' /\ [Next]_vars => [Pool!PoolNext]_(Pool!poolVars)
  BY NextImplementsPool
<1> QED BY <1>1, <1>2, Inductive, PTL DEF Spec, ImplementsPool, Pool!PoolSpec
=============================================================================
