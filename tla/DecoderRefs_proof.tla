-------------------------- MODULE DecoderRefs_proof --------------------------
(***************************************************************************)
(* Proofs about DecoderRefs, for any number of buffers, slots and frames   *)
(* put out: for every stream the types, and that pictures put out or stored*)
(* stay what they were; for sound streams the exact counts, the free       *)
(* buffers, and that the decoder implements RefStore.                      *)
(***************************************************************************)
EXTENDS DecoderRefs, FiniteSetTheorems, SequenceTheorems, TLAPS

-----------------------------------------------------------------------------
(* Counting the uses of a buffer.                                          *)

LEMMA SlotsFinite == IsFiniteSet(Slots) /\ Cardinality(Slots) = NumSlots
<1>1. NumSlots \in Nat /\ NumSlots >= 1
  BY RefsAssumption
<1>2. IsFiniteSet(0..NumSlots - 1)
      /\ Cardinality(0..NumSlots - 1)
           = IF 0 > NumSlots - 1 THEN 0 ELSE NumSlots - 1 - 0 + 1
  BY <1>1, FS_Interval
<1>3. QED
  BY <1>1, <1>2 DEF Slots

LEMMA UsesType ==
  ASSUME NEW m, NEW S \in SUBSET Slots, NEW b
  PROVE  /\ UsesIn(m, S, b) \in Nat /\ IsFiniteSet({i \in S : m[i] = b})
         /\ Cardinality(S) \in Nat /\ IsFiniteSet(S)
<1>1. IsFiniteSet(S)
  BY SlotsFinite, FS_Subset
<1>2. {i \in S : m[i] = b} \in SUBSET S
  OBVIOUS
<1>3. IsFiniteSet({i \in S : m[i] = b})
  BY <1>1, <1>2, FS_Subset
<1>4. QED
  BY <1>1, <1>3, FS_CardinalityType DEF UsesIn

\* The number of elements of two sets that have none in common.
LEMMA CardinalitySum ==
  ASSUME NEW S, NEW T, IsFiniteSet(S), IsFiniteSet(T), S \cap T = {}
  PROVE  Cardinality(S \cup T) = Cardinality(S) + Cardinality(T)
<1>1. Cardinality(S \cup T)
        = Cardinality(S) + Cardinality(T) - Cardinality(S \cap T)
  BY FS_Union
<1>2. Cardinality(S \cap T) = 0
  BY FS_EmptySet
<1>3. Cardinality(S) \in Nat /\ Cardinality(T) \in Nat
  BY FS_CardinalityType
<1>4. QED
  BY <1>1, <1>2, <1>3

\* The uses of a buffer are those in the slots refreshed and those in the others.
LEMMA UsesSplit ==
  ASSUME NEW m, NEW S \in SUBSET Slots, NEW b
  PROVE  Uses(m, b) = UsesIn(m, S, b) + UsesIn(m, Slots \ S, b)
<1> DEFINE A == {i \in S : m[i] = b}
           B == {i \in Slots \ S : m[i] = b}
<1>1. IsFiniteSet(A) /\ IsFiniteSet(B)
  BY UsesType
<1>2. A \cap B = {} /\ A \cup B = {i \in Slots : m[i] = b}
  OBVIOUS
<1>3. Cardinality(A \cup B) = Cardinality(A) + Cardinality(B)
  BY <1>1, <1>2, CardinalitySum
<1>4. QED
  BY <1>2, <1>3 DEF Uses, UsesIn

\* next_ref_frame_map uses the new buffer once for each slot refreshed, and the
\* others as ref_frame_map does.
LEMMA UsesNext ==
  ASSUME NEW m, NEW S \in SUBSET Slots, NEW f, NEW b
  PROVE  Uses(NextMap(m, S, f), b)
           = UsesIn(m, Slots \ S, b) + (IF b = f THEN Cardinality(S) ELSE 0)
<1> DEFINE A == {i \in Slots \ S : m[i] = b}
           B == IF b = f THEN S ELSE {}
           C == {i \in Slots : NextMap(m, S, f)[i] = b}
<1>1. IsFiniteSet(A) /\ IsFiniteSet(S) /\ Cardinality(A) \in Nat
  BY UsesType DEF UsesIn
<1>2. CASE b = f
  <2>1. C = A \cup S /\ A \cap S = {}
    BY <1>2 DEF NextMap
  <2>2. Cardinality(A \cup S) = Cardinality(A) + Cardinality(S)
    BY <1>1, <2>1, CardinalitySum
  <2>3. QED
    BY <1>2, <2>1, <2>2 DEF Uses, UsesIn
<1>3. CASE b # f
  <2>1. C = A
    BY <1>3 DEF NextMap
  <2>2. QED
    BY <1>1, <1>3, <2>1 DEF Uses, UsesIn
<1>4. QED
  BY <1>2, <1>3

\* One slot uses one buffer.
LEMMA UsesSingle ==
  ASSUME NEW m, NEW s \in Slots, NEW b
  PROVE  UsesIn(m, {s}, b) = IF m[s] = b THEN 1 ELSE 0
<1>1. CASE m[s] = b
  <2>1. {i \in {s} : m[i] = b} = {s}
    BY <1>1
  <2>2. QED
    BY <1>1, <2>1, FS_Singleton DEF UsesIn
<1>2. CASE m[s] # b
  <2>1. {i \in {s} : m[i] = b} = {}
    BY <1>2
  <2>2. QED
    BY <1>2, <2>1, FS_EmptySet DEF UsesIn
<1>3. QED
  BY <1>1, <1>2

LEMMA UsesNone ==
  ASSUME NEW m, NEW S \in SUBSET Slots, NEW b, \A i \in S : m[i] # b
  PROVE  UsesIn(m, S, b) = 0
<1>1. {i \in S : m[i] = b} = {}
  OBVIOUS
<1>2. QED
  BY <1>1, FS_EmptySet DEF UsesIn

-----------------------------------------------------------------------------
(* Counting the frames put out.                                            *)

LEMMA TimesType ==
  ASSUME NEW s \in Seq(Bufs), NEW b
  PROVE  TimesIn(s, b) \in Nat /\ IsFiniteSet({k \in DOMAIN s : s[k] = b})
<1>1. DOMAIN s = 1..Len(s) /\ Len(s) \in Nat
  OBVIOUS
<1>2. IsFiniteSet(1..Len(s))
  BY <1>1, FS_Interval
<1>3. {k \in DOMAIN s : s[k] = b} \in SUBSET (1..Len(s))
  BY <1>1
<1>4. IsFiniteSet({k \in DOMAIN s : s[k] = b})
  BY <1>2, <1>3, FS_Subset
<1>5. QED
  BY <1>4, FS_CardinalityType DEF TimesIn

LEMMA TimesEmpty == \A b : TimesIn(<<>>, b) = 0
<1> TAKE b
<1>1. {k \in DOMAIN <<>> : <<>>[k] = b} = {}
  OBVIOUS
<1>2. QED
  BY <1>1, FS_EmptySet DEF TimesIn

LEMMA TimesAppend ==
  ASSUME NEW s \in Seq(Bufs), NEW f \in Bufs, NEW b
  PROVE  TimesIn(Append(s, f), b) = TimesIn(s, b) + One(f = b)
<1> DEFINE t == Append(s, f)
           A == {k \in DOMAIN s : s[k] = b}
           C == {k \in DOMAIN t : t[k] = b}
           n == Len(s) + 1
<1>1. /\ DOMAIN s = 1..Len(s) /\ Len(s) \in Nat /\ DOMAIN t = 1..n
      /\ \A k \in 1..Len(s) : t[k] = s[k]
      /\ t[n] = f
  OBVIOUS
<1>2. IsFiniteSet(A) /\ Cardinality(A) \in Nat /\ n \notin A
  <2>1. IsFiniteSet(A)
    BY TimesType
  <2>2. n \notin 1..Len(s)
    BY <1>1
  <2>3. QED
    BY <1>1, <2>1, <2>2, FS_CardinalityType
<1>3. CASE f = b
  <2>1. C = A \cup {n}
    <3>1. \A k : k \in 1..n <=> k \in 1..Len(s) \/ k = n
      BY <1>1
    <3>2. QED
      BY <1>1, <1>3, <3>1
  <2>2. Cardinality(A \cup {n}) = Cardinality(A) + 1
    BY <1>2, FS_AddElement
  <2>3. QED
    BY <1>3, <2>1, <2>2 DEF TimesIn, One
<1>4. CASE f # b
  <2>1. C = A
    <3>1. \A k : k \in 1..n <=> k \in 1..Len(s) \/ k = n
      BY <1>1
    <3>2. QED
      BY <1>1, <1>4, <3>1
  <2>2. TimesIn(t, b) = Cardinality(C) /\ TimesIn(s, b) = Cardinality(A)
    BY DEF TimesIn
  <2>3. Cardinality(C) = Cardinality(A)
    BY <2>1, Zenon
  <2> HIDE DEF A, C
  <2>4. QED
    BY <1>2, <1>4, <2>2, <2>3 DEF One
<1>5. QED
  BY <1>3, <1>4

LEMMA TimesOne ==
  ASSUME NEW s \in Seq(Bufs), Len(s) = 1, NEW b
  PROVE  s[1] \in Bufs /\ TimesIn(s, b) = One(s[1] = b)
<1> DEFINE A == {k \in DOMAIN s : s[k] = b}
<1>1. DOMAIN s = {1} /\ s[1] \in Bufs
  OBVIOUS
<1>2. CASE s[1] = b
  <2>1. A = {1}
    BY <1>1, <1>2
  <2>2. Cardinality(A) = 1
    BY <2>1, FS_Singleton
  <2>3. QED
    BY <1>1, <1>2, <2>2 DEF TimesIn, One
<1>3. CASE s[1] # b
  <2>1. A = {}
    BY <1>1, <1>3
  <2>2. Cardinality(A) = 0
    BY <2>1, FS_EmptySet
  <2>3. QED
    BY <1>1, <1>3, <2>2 DEF TimesIn, One
<1>4. QED
  BY <1>2, <1>3

-----------------------------------------------------------------------------
(* get_free_fb().                                                          *)

\* The first free buffer is one, if there is one at all.
LEMMA FirstFreeIsFree ==
  ASSUME NEW cnt, \E b \in Bufs : cnt[b] = 0
  PROVE  FirstFree(cnt) \in Bufs /\ cnt[FirstFree(cnt)] = 0
<1> DEFINE F == {b \in Bufs : cnt[b] = 0}
           R == OpToRel(<, Nat)
<1>1. F \subseteq Nat /\ F # {}
  BY DEF Bufs
<1>2. \E x \in F : \A y \in F : <<y, x>> \notin R
  BY <1>1, NatLessThanWellFounded, WFMin
<1>3. PICK x \in F : \A y \in F : <<y, x>> \notin R
  BY <1>2
<1>4. \A y \in F : x <= y
  <2>1. R = {ss \in Nat \X Nat : ss[1] < ss[2]}
    BY Zenon DEF OpToRel
  <2>2. \A y \in F : ~(y < x)
    BY <1>1, <1>3, <2>1
  <2>3. QED
    BY <1>1, <2>2
<1>5. /\ x \in Bufs /\ cnt[x] = 0
      /\ \A c \in Bufs : cnt[c] = 0 => x <= c
  BY <1>4
<1>6. QED
  BY <1>5 DEF FirstFree

\* A sequence or map does not name more things than it has places.
LEMMA ImageBound ==
  ASSUME NEW S, IsFiniteSet(S), NEW I, NEW f \in [S -> I],
         \A y \in I : \E x \in S : f[x] = y
  PROVE  IsFiniteSet(I) /\ Cardinality(I) <= Cardinality(S)
<1>1. f \in Surjection(S, I)
  BY DEF Surjection
<1>2. QED
  BY <1>1, FS_Surjection

\* Buffer f is in a slot, or one slot of all is not in S.
Spare(m, S, f) == Cardinality(S) < NumSlots \/ (S = Slots /\ \E i \in S : m[i] = f)

\* Slots of S, frames put out and one more buffer do not make up all buffers.
LEMMA SomeoneElse ==
  ASSUME NEW m, NEW S \in SUBSET Slots, NEW f, Spare(m, S, f),
         NEW s \in Seq(Bufs), Len(s) <= MaxOutput
  PROVE  \E b \in Bufs : /\ b # f
                         /\ \A i \in S : m[i] # b
                         /\ \A k \in DOMAIN s : s[k] # b
<1> DEFINE A == {m[i] : i \in S}
           B == {s[k] : k \in 1..Len(s)}
<1>1. /\ NumSlots \in Nat /\ MaxOutput \in Nat /\ NumBufs \in Nat
      /\ NumBufs > NumSlots + MaxOutput /\ Len(s) \in Nat
  BY RefsAssumption
<1>2. IsFiniteSet(S) /\ Cardinality(S) \in Nat
  BY UsesType
<1>3. IsFiniteSet(A) /\ Cardinality(A) <= Cardinality(S)
  <2> DEFINE g == [i \in S |-> m[i]]
  <2>1. g \in [S -> A]
    OBVIOUS
  <2>2. \A y \in A : \E x \in S : g[x] = y
    OBVIOUS
  <2> HIDE DEF g, A
  <2>3. QED
    BY <1>2, <2>1, <2>2, ImageBound
<1>4. IsFiniteSet(B) /\ Cardinality(B) <= Len(s)
  <2>1. s \in [1..Len(s) -> B]
    OBVIOUS
  <2>2. IsFiniteSet(1..Len(s)) /\ Cardinality(1..Len(s)) = Len(s)
    <3>1. 1 \in Int /\ Len(s) \in Int
      BY <1>1
    <3>2. /\ IsFiniteSet(1..Len(s))
          /\ Cardinality(1..Len(s)) = IF 1 > Len(s) THEN 0 ELSE Len(s) - 1 + 1
      BY <3>1, FS_Interval
    <3>3. QED
      BY <1>1, <3>2
  <2>3. \A y \in B : \E k \in 1..Len(s) : s[k] = y
    OBVIOUS
  <2> HIDE DEF B
  <2>4. IsFiniteSet(B) /\ Cardinality(B) <= Cardinality(1..Len(s))
    BY <2>1, <2>2, <2>3, ImageBound
  <2>5. QED
    BY <2>2, <2>4
<1>5. /\ IsFiniteSet(A \cup B)
      /\ Cardinality(A \cup B) <= Cardinality(A) + Cardinality(B)
  <2> HIDE DEF A, B
  <2>1. IsFiniteSet(A \cap B) /\ Cardinality(A \cap B) \in Nat
    BY <1>3, FS_Intersection, FS_CardinalityType
  <2>2. Cardinality(A) \in Nat /\ Cardinality(B) \in Nat
    BY <1>3, <1>4, FS_CardinalityType
  <2>3. /\ IsFiniteSet(A \cup B)
        /\ Cardinality(A \cup B)
             = Cardinality(A) + Cardinality(B) - Cardinality(A \cap B)
    BY <1>3, <1>4, FS_Union
  <2>4. QED
    BY <2>1, <2>2, <2>3
<1>6. /\ IsFiniteSet(A \cup B \cup {f})
      /\ Cardinality(A \cup B \cup {f}) <= NumSlots + MaxOutput
  <2>1. /\ Cardinality(A) \in Nat /\ Cardinality(B) \in Nat
        /\ Cardinality(A \cup B) \in Nat
    BY <1>3, <1>4, <1>5, FS_CardinalityType
  <2>2. /\ IsFiniteSet(A \cup B \cup {f})
        /\ Cardinality(A \cup B \cup {f})
             = IF f \in A \cup B THEN Cardinality(A \cup B)
                                 ELSE Cardinality(A \cup B) + 1
    BY <1>5, FS_AddElement
  <2>3. CASE Cardinality(S) < NumSlots
    BY <1>1, <1>2, <1>3, <1>4, <1>5, <2>1, <2>2, <2>3
  <2>4. CASE S = Slots /\ \E i \in S : m[i] = f
    <3>1. f \in A \cup B
      BY <2>4
    <3>2. Cardinality(S) = NumSlots
      BY <2>4, SlotsFinite
    <3>3. QED
      BY <1>1, <1>3, <1>4, <1>5, <2>1, <2>2, <3>1, <3>2
  <2>5. QED
    BY <2>3, <2>4 DEF Spare
<1>7. IsFiniteSet(Bufs) /\ Cardinality(Bufs) = NumBufs
  <2>1. NumBufs - 1 \in Int /\ NumBufs > 0
    BY <1>1
  <2>2. IsFiniteSet(0..NumBufs - 1)
        /\ Cardinality(0..NumBufs - 1)
             = IF 0 > NumBufs - 1 THEN 0 ELSE NumBufs - 1 - 0 + 1
    BY <2>1, FS_Interval
  <2>3. QED
    BY <1>1, <2>1, <2>2 DEF Bufs
<1>8. \E b \in Bufs : b \notin A \cup B \cup {f}
  <2>1. SUFFICES ASSUME Bufs \subseteq A \cup B \cup {f}
                 PROVE  FALSE
    OBVIOUS
  <2>2. Cardinality(Bufs) <= Cardinality(A \cup B \cup {f})
    BY <1>6, <2>1, FS_Subset
  <2>3. Cardinality(A \cup B \cup {f}) \in Nat
    BY <1>6, FS_CardinalityType
  <2>4. QED
    BY <1>1, <1>6, <1>7, <2>2, <2>3
<1>9. QED
  BY <1>8

-----------------------------------------------------------------------------
(* The type invariant, in parts that change together.                      *)

CallType == /\ phase \in {"idle", "next"} \cup InFrame
            /\ moreData \in BOOLEAN /\ ok \in BOOLEAN /\ needResync \in BOOLEAN
            /\ seen \in BOOLEAN /\ slot \in 0..NumSlots /\ frames \in Nat
PoolType == /\ count \in [Bufs -> Int] /\ isKey \in [Bufs -> BOOLEAN]
            /\ newFb \in Bufs \cup {NoBuf} /\ (phase \in InFrame => newFb \in Bufs)
RefsType == /\ map \in [Slots -> Bufs \cup {NoBuf}]
            /\ nextMap \in [Slots -> Bufs \cup {NoBuf}]
            /\ hold \in BOOLEAN /\ refresh \subseteq Slots
            /\ header \in [existing : BOOLEAN, reset : BOOLEAN, show : BOOLEAN,
                            kind : Kinds]
OutType == /\ outs \in Seq(Bufs) /\ shown \in Seq(Frames) /\ Len(shown) = Len(outs)
           /\ Len(outs) <= MaxOutput /\ (~OutputAll => Len(outs) <= 1)
GhostType == /\ content \in [Bufs -> Frames] /\ current \in Frames
             /\ stored \in [Slots -> Frames]

LEMMA TypeParts ==
  TypeOK <=> CallType /\ PoolType /\ RefsType /\ OutType /\ GhostType
BY DEF TypeOK, CallType, PoolType, RefsType, OutType, GhostType

LEMMA TypePartsNext ==
  ASSUME CallType', PoolType', RefsType', OutType', GhostType'
  PROVE  TypeOK'
BY DEF TypeOK, CallType, PoolType, RefsType, OutType, GhostType

LEMMA CountTypes ==
  ASSUME NEW cnt \in [Bufs -> Int], NEW m, NEW S \in SUBSET Slots, NEW b,
         refresh \in SUBSET Slots
  PROVE  /\ Decrease(cnt, b) \in [Bufs -> Int]
         /\ WithHolds(cnt, m, S, b) \in [Bufs -> Int]
         /\ WithoutHolds(cnt, m) \in [Bufs -> Int]
<1>1. \A c : Uses(m, c) \in Nat /\ UsesIn(m, refresh, c) \in Nat
  BY UsesType DEF Uses
<1>2. Cardinality(S) \in Nat
  BY UsesType
<1>3. Decrease(cnt, b) \in [Bufs -> Int]
  BY DEF Decrease, One
<1>4. WithHolds(cnt, m, S, b) \in [Bufs -> Int]
  BY <1>1, <1>2 DEF WithHolds
<1>5. WithoutHolds(cnt, m) \in [Bufs -> Int]
  BY <1>1 DEF WithoutHolds
<1>6. QED
  BY <1>3, <1>4, <1>5

\* The states of the output queue after a frame, and the counts with them.
LEMMA OutputStepType ==
  ASSUME TypeOK, phase \in InFrame, NEW cnt \in [Bufs -> Int], OutputStep(cnt)
  PROVE  /\ count' \in [Bufs -> Int]
         /\ outs' \in Seq(Bufs) /\ shown' \in Seq(Frames)
         /\ Len(shown') = Len(outs') /\ Len(outs') <= MaxOutput
         /\ ~OutputAll => Len(outs') <= 1
<1>1. /\ newFb \in Bufs /\ current \in Frames
      /\ outs \in Seq(Bufs) /\ shown \in Seq(Frames) /\ Len(shown) = Len(outs)
      /\ Len(outs) <= MaxOutput /\ (~OutputAll => Len(outs) <= 1)
      /\ refresh \in SUBSET Slots
  BY DEF TypeOK
<1>2. MaxOutput \in Nat /\ MaxOutput >= 1 /\ OutputAll \in BOOLEAN
  BY RefsAssumption
<1>3. \A b : Decrease(cnt, b) \in [Bufs -> Int]
  BY <1>1, CountTypes
<1>4. CASE Shows /\ ~Full /\ OutputAll
  <2>1. /\ outs' = Append(outs, newFb) /\ shown' = Append(shown, current)
        /\ count' = cnt
    BY <1>4, Zenon DEF OutputStep
  <2>2. Len(outs) < MaxOutput
    BY <1>1, <1>2, <1>4 DEF Full
  <2>3. QED
    BY <1>1, <1>2, <1>4, <2>1, <2>2
<1>5. CASE Shows /\ ~Full /\ ~OutputAll
  <2>1. /\ outs' = <<newFb>> /\ shown' = <<current>>
        /\ count' = IF outs = <<>> THEN cnt ELSE Decrease(cnt, outs[1])
    BY <1>5, Zenon DEF OutputStep
  <2>2. count' \in [Bufs -> Int]
    BY <1>3, <2>1
  <2>3. QED
    BY <1>1, <1>2, <1>5, <2>1, <2>2
<1>6. CASE ~(Shows /\ ~Full)
  <2>1. count' = Decrease(cnt, newFb) /\ outs' = outs /\ shown' = shown
    BY <1>6, Zenon DEF OutputStep, client
  <2>2. QED
    BY <1>1, <1>3, <2>1
<1>7. QED
  BY <1>2, <1>4, <1>5, <1>6

LEMMA HandlerType ==
  ASSUME TypeOK, NEW cnt \in [Bufs -> Int], Handler(cnt)
  PROVE  TypeOK'
<1>1. refresh \in SUBSET Slots
  BY DEF TypeOK
<1>2. \A c \in [Bufs -> Int] : \A m, b :
        /\ Decrease(c, b) \in [Bufs -> Int]
        /\ WithoutHolds(c, m) \in [Bufs -> Int]
  BY <1>1, CountTypes
<1>3. count' \in [Bufs -> Int]
  BY <1>2 DEF Handler
<1>4. QED
  BY <1>3 DEF TypeOK, Handler, Failed, InFrame, client, ghosts

LEMMA InitType == Init => TypeOK
<1> SUFFICES ASSUME Init PROVE TypeOK
  OBVIOUS
<1>1. NumSlots \in Nat /\ NumBufs \in Nat /\ NumBufs >= 1 /\ MaxOutput \in Nat
  BY RefsAssumption
<1>2. CallType
  <2>1. phase = "idle" /\ slot = 0 /\ frames = 0
    BY DEF Init
  <2>2. moreData = FALSE /\ ok = TRUE /\ needResync = TRUE /\ seen = FALSE
    BY DEF Init
  <2>3. /\ moreData \in BOOLEAN /\ ok \in BOOLEAN /\ needResync \in BOOLEAN
        /\ seen \in BOOLEAN
    BY <2>2, Zenon
  <2>4. QED
    BY <1>1, <2>1, <2>3 DEF CallType
<1>3. PoolType
  BY <1>1 DEF Init, PoolType, Bufs, InFrame
<1>4. RefsType
  BY DEF Init, RefsType, EmptyMap, NoHeader, Kinds
<1>5. OutType
  BY <1>1 DEF Init, OutType
<1>6. GhostType
  BY DEF Init, GhostType, Frames, Grey, NoFrame, Empty
<1>7. QED
  BY <1>2, <1>3, <1>4, <1>5, <1>6, TypeParts

\* decoder_decode(), up to the buffer of a frame.
LEMMA CallKeepsType ==
  ASSUME TypeOK, Decode \/ Return \/ StartFrame \/ StartFails
  PROVE  TypeOK'
<1>1. CallType /\ PoolType /\ RefsType /\ OutType /\ GhostType
  BY TypeParts
<1>2. CASE Decode
  <2>1. CallType'
    BY <1>1, <1>2 DEF Decode, CallType
  <2>2. count' \in [Bufs -> Int]
    <3>1. \A b \in Bufs : OutUses(b) \in Nat
      BY <1>1, TimesType DEF OutType, OutUses
    <3>2. count' = [b \in Bufs |-> count[b] - OutUses(b)]
      BY <1>2, Zenon DEF Decode
    <3>3. QED
      BY <1>1, <3>1, <3>2 DEF PoolType
  <2>3. PoolType'
    BY <1>1, <1>2, <2>2 DEF Decode, PoolType, InFrame
  <2>4. RefsType'
    BY <1>1, <1>2 DEF Decode, RefsType, refs
  <2>5. OutType'
    BY <1>2, RefsAssumption DEF Decode, OutType
  <2>6. GhostType'
    BY <1>1, <1>2 DEF Decode, GhostType, ghosts
  <2>7. QED
    BY <2>1, <2>3, <2>4, <2>5, <2>6, TypePartsNext
<1>3. CASE Return
  <2>1. CallType'
    BY <1>1, <1>3 DEF Return, CallType
  <2>2. PoolType'
    BY <1>1, <1>3 DEF Return, PoolType, InFrame, pool
  <2>3. RefsType' /\ OutType' /\ GhostType'
    BY <1>1, <1>3 DEF Return, RefsType, OutType, GhostType, refs, client, ghosts
  <2>4. QED
    BY <2>1, <2>2, <2>3, TypePartsNext
<1>4. CASE StartFrame
  <2>1. CallType'
    <3>1. phase' = "obus" /\ slot' = slot /\ frames' = frames + 1
      BY <1>4 DEF StartFrame
    <3>2. /\ moreData' \in BOOLEAN /\ ok' \in BOOLEAN /\ needResync' \in BOOLEAN
          /\ seen' \in BOOLEAN
      BY <1>1, <1>4, Zenon DEF StartFrame, CallType
    <3>3. QED
      BY <1>1, <3>1, <3>2 DEF CallType, InFrame
  <2>2. newFb' \in Bufs
    <3>1. \E b \in Bufs : count[b] = 0
      BY <1>4 DEF StartFrame, Free
    <3>2. QED
      BY <1>4, <3>1, FirstFreeIsFree DEF StartFrame
  <2>3. PoolType'
    BY <1>1, <1>4, <2>2 DEF StartFrame, PoolType
  <2>4. RefsType'
    BY <1>1, <1>4 DEF StartFrame, RefsType
  <2>5. OutType' /\ GhostType'
    BY <1>1, <1>4 DEF StartFrame, OutType, GhostType, client, ghosts
  <2>6. QED
    BY <2>1, <2>3, <2>4, <2>5, TypePartsNext
<1>5. CASE StartFails
  <2>1. CallType'
    BY <1>1, <1>5 DEF StartFails, CallType
  <2>2. PoolType'
    BY <1>1, <1>5 DEF StartFails, PoolType, InFrame, pool
  <2>3. RefsType' /\ OutType' /\ GhostType'
    BY <1>1, <1>5 DEF StartFails, RefsType, OutType, GhostType, refs, client, ghosts
  <2>4. QED
    BY <2>1, <2>2, <2>3, TypePartsNext
<1>6. QED
  BY <1>2, <1>3, <1>4, <1>5

LEMMA ExceptType ==
  ASSUME NEW cnt \in [Bufs -> Int], NEW f, NEW v \in Int
  PROVE  [cnt EXCEPT ![f] = v] \in [Bufs -> Int]
OBVIOUS

\* One reference less, where there is one, and one more.
LEMMA OneTakenType ==
  ASSUME NEW cnt \in [Bufs -> Int], NEW f
  PROVE  /\ [cnt EXCEPT ![f] = IF @ > 0 THEN @ - 1 ELSE @] \in [Bufs -> Int]
         /\ [cnt EXCEPT ![f] = @ + 1] \in [Bufs -> Int]
         /\ [cnt EXCEPT ![f] = 1] \in [Bufs -> Int]
<1> DEFINE less == IF cnt[f] > 0 THEN cnt[f] - 1 ELSE cnt[f]
           more == cnt[f] + 1
<1>1. CASE f \in Bufs
  <2>1. less \in Int /\ more \in Int
    BY <1>1
  <2> HIDE DEF less, more
  <2>2. [cnt EXCEPT ![f] = less] \in [Bufs -> Int]
        /\ [cnt EXCEPT ![f] = more] \in [Bufs -> Int]
        /\ [cnt EXCEPT ![f] = 1] \in [Bufs -> Int]
    BY <2>1, ExceptType
  <2>3. QED
    BY <2>2 DEF less, more
<1>2. CASE f \notin Bufs
  <2>1. /\ [cnt EXCEPT ![f] = less] = cnt
        /\ [cnt EXCEPT ![f] = more] = cnt
        /\ [cnt EXCEPT ![f] = 1] = cnt
    BY <1>2
  <2>2. QED
    BY <2>1
<1>3. QED
  BY <1>1, <1>2

LEMMA ShowExistingType ==
  ASSUME TypeOK, NEW i \in Slots, ShowExisting(i)
  PROVE  TypeOK'
<1> DEFINE b == map[i]
           dropped == [count EXCEPT ![newFb] = IF @ > 0 THEN @ - 1 ELSE @]
           shownFb == [dropped EXCEPT ![b] = @ + 1]
           emptied == Resynced(map, EmptyMap)
<1>1. /\ b \in Bufs /\ newFb' = b /\ current' = content[b] /\ phase' = "done"
      /\ header' = [existing |-> TRUE, reset |-> isKey[b], show |-> TRUE,
                    kind |-> "key"]
  BY DEF ShowExisting, TypeOK
<1>2. header' \in [existing : BOOLEAN, reset : BOOLEAN, show : BOOLEAN, kind : Kinds]
  BY <1>1 DEF TypeOK, Kinds
<1>3. dropped \in [Bufs -> Int] /\ shownFb \in [Bufs -> Int]
  <2>1. count \in [Bufs -> Int]
    BY DEF TypeOK
  <2>2. dropped \in [Bufs -> Int]
    BY <2>1, OneTakenType
  <2> HIDE DEF dropped
  <2>3. QED
    BY <2>2, OneTakenType
<1>4. /\ emptied \in [Slots -> Bufs \cup {NoBuf}]
      /\ Resynced(stored, Empty) \in [Slots -> Frames]
  BY DEF TypeOK, Resynced, EmptyMap, Empty, NoFrame, Frames
<1>5. NextMap(emptied, Slots, b) \in [Slots -> Bufs \cup {NoBuf}]
  BY <1>1, <1>4 DEF NextMap
<1>6. WithHolds(shownFb, emptied, Slots, b) \in [Bufs -> Int]
  BY <1>3, CountTypes DEF TypeOK
<1>7. /\ count' \in [Bufs -> Int] /\ refresh' \subseteq Slots
      /\ map' \in [Slots -> Bufs \cup {NoBuf}]
      /\ nextMap' \in [Slots -> Bufs \cup {NoBuf}]
      /\ stored' \in [Slots -> Frames] /\ needResync' \in BOOLEAN
      /\ hold' \in BOOLEAN
  <2>1. CASE isKey[b]
    <3>1. /\ refresh' = Slots /\ map' = emptied /\ stored' = Resynced(stored, Empty)
          /\ needResync' = FALSE /\ nextMap' = NextMap(emptied, Slots, b)
          /\ count' = WithHolds(shownFb, emptied, Slots, b)
          /\ hold' = TRUE
      BY <2>1, Zenon DEF ShowExisting
    <3> HIDE DEF emptied, shownFb, dropped, b
    <3>2. QED
      BY <1>4, <1>5, <1>6, <3>1
  <2>2. CASE ~isKey[b]
    <3>1. /\ refresh' = {} /\ count' = shownFb
          /\ map' = map /\ stored' = stored /\ needResync' = needResync
          /\ nextMap' = nextMap /\ hold' = hold
      BY <2>2, Zenon DEF ShowExisting
    <3> HIDE DEF emptied, shownFb, dropped, b
    <3>2. QED
      BY <1>3, <3>1 DEF TypeOK
  <2>3. QED
    BY <2>1, <2>2
<1>8. /\ moreData' = moreData /\ ok' = ok /\ isKey' = isKey /\ seen' = seen
      /\ slot' = slot /\ outs' = outs /\ shown' = shown /\ frames' = frames
      /\ content' = content
  BY DEF ShowExisting, client
<1>9. current' \in Frames
  BY <1>1 DEF TypeOK
<1> HIDE DEF b, dropped, shownFb, emptied
<1>10. CallType /\ PoolType /\ RefsType /\ OutType /\ GhostType
  BY TypeParts
<1>11. CallType'
  BY <1>1, <1>7, <1>8, <1>10 DEF CallType, InFrame
<1>12. PoolType'
  BY <1>1, <1>7, <1>8, <1>10 DEF PoolType
<1>13. RefsType'
  BY <1>2, <1>7 DEF RefsType
<1>14. OutType' /\ GhostType'
  BY <1>7, <1>8, <1>9, <1>10 DEF OutType, GhostType
<1>15. QED
  BY <1>11, <1>12, <1>13, <1>14, TypePartsNext

LEMMA CodedHeaderType ==
  ASSUME TypeOK, NEW kind \in Kinds, NEW show \in BOOLEAN,
         NEW resilient \in BOOLEAN, CodedHeader(kind, show, resilient)
  PROVE  TypeOK'
<1>1. CallType /\ PoolType /\ RefsType /\ OutType /\ GhostType
  BY TypeParts
<1>2. /\ refresh' \in MayRefresh(kind, show)
      /\ header' = [existing |-> FALSE, reset |-> FALSE, show |-> show,
                    kind |-> kind]
      /\ slot' = 0 /\ phase = "obus" /\ phase' \in {"fill", "rest"}
  BY DEF CodedHeader, ReadsHeader
<1>3. refresh' \subseteq Slots
  BY <1>1, <1>2 DEF MayRefresh, RefsType, Kinds
<1>4. /\ map' = map \/ map' = EmptyMap
      /\ stored' = stored \/ stored' = Empty
      /\ needResync' \in BOOLEAN
  <2>1. CASE kind = "inter"
    <3>1. map' = map /\ stored' = stored /\ needResync' = needResync
      BY <2>1, Zenon DEF CodedHeader
    <3>2. QED
      BY <1>1, <3>1, Zenon DEF CallType
  <2>2. CASE kind # "inter"
    <3>1. /\ map' = Resynced(map, EmptyMap) /\ stored' = Resynced(stored, Empty)
          /\ needResync' = FALSE
      BY <2>2, Zenon DEF CodedHeader
    <3>2. QED
      BY <3>1, Zenon DEF Resynced
  <2>3. QED
    BY <2>1, <2>2
<1>5. CallType'
  <2>1. /\ moreData' \in BOOLEAN /\ ok' \in BOOLEAN /\ needResync' \in BOOLEAN
        /\ seen' \in BOOLEAN
    BY <1>1, <1>4, Zenon DEF CodedHeader, CallType
  <2>2. frames' = frames
    BY DEF CodedHeader
  <2>3. QED
    BY <1>1, <1>2, <2>1, <2>2, RefsAssumption DEF CallType, InFrame
<1>6. PoolType'
  <2>1. count' = count /\ isKey' = isKey /\ newFb' = newFb
    BY DEF CodedHeader, pool
  <2>2. QED
    BY <1>1, <1>2, <2>1 DEF PoolType, InFrame
<1>7. RefsType'
  <2>1. nextMap' = nextMap /\ hold' = hold
    BY DEF CodedHeader
  <2>2. EmptyMap \in [Slots -> Bufs \cup {NoBuf}]
    BY DEF EmptyMap
  <2>3. QED
    BY <1>1, <1>2, <1>3, <1>4, <2>1, <2>2 DEF RefsType
<1>8. OutType'
  BY <1>1 DEF CodedHeader, OutType, client
<1>9. GhostType'
  <2>1. content' = content /\ current' = current
    BY DEF CodedHeader
  <2>2. Empty \in [Slots -> Frames]
    BY DEF Empty, Frames, NoFrame
  <2>3. QED
    BY <1>1, <1>4, <2>1, <2>2 DEF GhostType
<1>10. QED
  BY <1>5, <1>6, <1>7, <1>8, <1>9, TypePartsNext

\* The order hints of the slots.
LEMMA FillType ==
  ASSUME TypeOK, FillKeeps \/ FillGrey \/ FillEnds
  PROVE  TypeOK'
<1>1. CallType /\ PoolType /\ RefsType /\ OutType /\ GhostType
  BY TypeParts
<1>2. NumSlots \in Nat
  BY RefsAssumption
<1>3. CASE FillKeeps
  <2>1. CallType'
    <3>1. /\ phase' = phase /\ slot' = slot + 1 /\ slot < NumSlots
          /\ frames' = frames
      BY <1>3 DEF FillKeeps
    <3>2. /\ moreData' \in BOOLEAN /\ ok' \in BOOLEAN /\ needResync' \in BOOLEAN
          /\ seen' \in BOOLEAN
      BY <1>1, <1>3, Zenon DEF FillKeeps, CallType
    <3>3. QED
      BY <1>1, <1>2, <3>1, <3>2 DEF CallType
  <2>2. PoolType' /\ RefsType'
    BY <1>1, <1>3 DEF FillKeeps, PoolType, RefsType, pool, refs
  <2>3. OutType' /\ GhostType'
    BY <1>1, <1>3 DEF FillKeeps, OutType, GhostType, client, ghosts
  <2>4. QED
    BY <2>1, <2>2, <2>3, TypePartsNext
<1>4. CASE FillGrey
  <2> DEFINE released == Decrease(count, map[slot])
             b == FirstFree(released)
  <2>1. /\ phase = "fill" /\ slot < NumSlots
        /\ \E c \in Bufs : released[c] = 0
        /\ count' = [released EXCEPT ![b] = 1]
        /\ map' = [map EXCEPT ![slot] = b]
        /\ content' = [content EXCEPT ![b] = Grey]
        /\ stored' = [stored EXCEPT ![slot] = Grey]
        /\ slot' = slot + 1 /\ frames' = frames /\ phase' = phase
    BY <1>4 DEF FillGrey
  <2>2. released \in [Bufs -> Int]
    BY <1>1, CountTypes DEF PoolType, RefsType
  <2> HIDE DEF released
  <2>3. b \in Bufs
    BY <2>1, FirstFreeIsFree
  <2> HIDE DEF b
  <2>4. CallType'
    <3>1. /\ moreData' \in BOOLEAN /\ ok' \in BOOLEAN /\ needResync' \in BOOLEAN
          /\ seen' \in BOOLEAN
      BY <1>1, <1>4, Zenon DEF FillGrey, CallType
    <3>2. QED
      BY <1>1, <1>2, <2>1, <3>1 DEF CallType
  <2>5. PoolType'
    <3>1. isKey' = isKey /\ newFb' = newFb
      BY <1>4 DEF FillGrey
    <3>2. count' \in [Bufs -> Int]
      BY <2>1, <2>2, OneTakenType
    <3>3. QED
      BY <1>1, <2>1, <3>1, <3>2 DEF PoolType
  <2>6. RefsType'
    <3>1. nextMap' = nextMap /\ hold' = hold /\ refresh' = refresh /\ header' = header
      BY <1>4 DEF FillGrey
    <3>2. QED
      BY <1>1, <2>1, <2>3, <3>1 DEF RefsType
  <2>7. OutType'
    BY <1>1, <1>4 DEF FillGrey, OutType, client
  <2>8. GhostType'
    <3>1. current' = current /\ Grey \in Frames
      BY <1>4 DEF FillGrey, Grey, Frames
    <3>2. QED
      BY <1>1, <2>1, <3>1 DEF GhostType
  <2>9. QED
    BY <2>4, <2>5, <2>6, <2>7, <2>8, TypePartsNext
<1>5. CASE FillEnds
  <2>1. CallType'
    <3>1. phase' = "rest" /\ slot' = slot /\ frames' = frames
      BY <1>5 DEF FillEnds
    <3>2. /\ moreData' \in BOOLEAN /\ ok' \in BOOLEAN /\ needResync' \in BOOLEAN
          /\ seen' \in BOOLEAN
      BY <1>1, <1>5, Zenon DEF FillEnds, CallType
    <3>3. QED
      BY <1>1, <3>1, <3>2 DEF CallType, InFrame
  <2>2. PoolType' /\ RefsType'
    BY <1>1, <1>5 DEF FillEnds, PoolType, RefsType, pool, refs, InFrame
  <2>3. OutType' /\ GhostType'
    BY <1>1, <1>5 DEF FillEnds, OutType, GhostType, client, ghosts
  <2>4. QED
    BY <2>1, <2>2, <2>3, TypePartsNext
<1>6. QED
  BY <1>3, <1>4, <1>5

\* The rest of the header, and the tiles.
LEMMA FrameType ==
  ASSUME TypeOK, HeaderDone \/ TilesDone
  PROVE  TypeOK'
<1>1. CallType /\ PoolType /\ RefsType /\ OutType /\ GhostType
  BY TypeParts
<1>2. CASE HeaderDone
  <2>1. /\ phase = "rest" /\ phase' = "obus" /\ slot' = slot /\ frames' = frames
        /\ isKey' = [isKey EXCEPT ![newFb] = header.kind = "key"]
        /\ nextMap' = NextMap(map, refresh, newFb)
        /\ count' = WithHolds(count, map, refresh, newFb)
        /\ content' = [content EXCEPT ![newFb] = frames] /\ current' = frames
        /\ map' = map /\ refresh' = refresh /\ header' = header /\ newFb' = newFb
        /\ stored' = stored
    BY <1>2 DEF HeaderDone
  <2>2. newFb \in Bufs
    BY <1>1, <2>1 DEF PoolType, InFrame
  <2>3. CallType'
    <3>1. /\ moreData' \in BOOLEAN /\ ok' \in BOOLEAN /\ needResync' \in BOOLEAN
          /\ seen' \in BOOLEAN
      BY <1>1, <1>2, Zenon DEF HeaderDone, CallType
    <3>2. QED
      BY <1>1, <2>1, <3>1 DEF CallType, InFrame
  <2>4. PoolType'
    <3>1. count' \in [Bufs -> Int]
      BY <1>1, <2>1, CountTypes DEF PoolType, RefsType
    <3>2. isKey' \in [Bufs -> BOOLEAN]
      <4> DEFINE key == header.kind = "key"
      <4>1. isKey' = [isKey EXCEPT ![newFb] = key] /\ key \in BOOLEAN
        BY <2>1
      <4> HIDE DEF key
      <4>2. QED
        BY <1>1, <4>1 DEF PoolType
    <3>3. QED
      BY <2>1, <2>2, <3>1, <3>2 DEF PoolType
  <2>5. RefsType'
    <3>1. hold' \in BOOLEAN
      BY <1>2, Zenon DEF HeaderDone
    <3>2. NextMap(map, refresh, newFb) \in [Slots -> Bufs \cup {NoBuf}]
      BY <1>1, <2>2 DEF NextMap, RefsType
    <3>3. QED
      BY <1>1, <2>1, <3>1, <3>2 DEF RefsType
  <2>6. OutType'
    BY <1>1, <1>2 DEF HeaderDone, OutType, client
  <2>7. GhostType'
    <3>1. frames \in Frames
      BY <1>1 DEF CallType, Frames
    <3>2. QED
      BY <1>1, <2>1, <3>1 DEF GhostType
  <2>8. QED
    BY <2>3, <2>4, <2>5, <2>6, <2>7, TypePartsNext
<1>3. CASE TilesDone
  <2>1. CallType'
    <3>1. phase' = "done" /\ slot' = slot /\ frames' = frames
      BY <1>3 DEF TilesDone
    <3>2. /\ moreData' \in BOOLEAN /\ ok' \in BOOLEAN /\ needResync' \in BOOLEAN
          /\ seen' \in BOOLEAN
      BY <1>1, <1>3, Zenon DEF TilesDone, CallType
    <3>3. QED
      BY <1>1, <3>1, <3>2 DEF CallType, InFrame
  <2>2. PoolType' /\ RefsType'
    BY <1>1, <1>3 DEF TilesDone, PoolType, RefsType, pool, refs, InFrame
  <2>3. OutType' /\ GhostType'
    BY <1>1, <1>3 DEF TilesDone, OutType, GhostType, client, ghosts
  <2>4. QED
    BY <2>1, <2>2, <2>3, TypePartsNext
<1>4. QED
  BY <1>2, <1>3

\* The ways out of a frame, and a stray delimiter.
LEMMA FinishType ==
  ASSUME TypeOK, Finish
  PROVE  TypeOK'
<1>1. CallType /\ PoolType /\ RefsType /\ OutType /\ GhostType
  BY TypeParts
<1>2. /\ phase = "done" /\ OutputStep(WithoutHolds(count, map))
      /\ phase' \in {"idle", "next"}
  BY DEF Finish, Failed, Succeeded
<1>3. WithoutHolds(count, map) \in [Bufs -> Int]
  BY <1>1, CountTypes DEF PoolType, RefsType
<1>4. /\ count' \in [Bufs -> Int]
      /\ outs' \in Seq(Bufs) /\ shown' \in Seq(Frames)
      /\ Len(shown') = Len(outs') /\ Len(outs') <= MaxOutput
      /\ ~OutputAll => Len(outs') <= 1
  BY <1>2, <1>3, OutputStepType DEF InFrame
<1>5. CallType'
  <2>1. slot' = slot /\ frames' = frames
    BY DEF Finish
  <2>2. /\ moreData' \in BOOLEAN /\ ok' \in BOOLEAN /\ needResync' \in BOOLEAN
        /\ seen' \in BOOLEAN
    <3>1. seen' \in BOOLEAN
      BY <1>1, Zenon DEF Finish, CallType
    <3>2. CASE Shows /\ Full
      <4>1. Failed
        BY <3>2, Zenon DEF Finish
      <4>2. QED
        BY <3>1, <4>1, Zenon DEF Failed
    <3>3. CASE ~(Shows /\ Full)
      <4>1. Succeeded
        BY <3>3, Zenon DEF Finish
      <4>2. moreData' \in BOOLEAN
        BY <4>1 DEF Succeeded
      <4>3. QED
        BY <1>1, <3>1, <4>1, <4>2, Zenon DEF Succeeded, CallType
    <3>4. QED
      BY <3>2, <3>3
  <2>3. QED
    BY <1>1, <1>2, <2>1, <2>2 DEF CallType
<1>6. PoolType'
  <2>1. isKey' = isKey /\ newFb' = newFb
    BY DEF Finish
  <2>2. QED
    BY <1>1, <1>2, <1>4, <2>1 DEF PoolType, InFrame
<1>7. RefsType'
  <2>1. nextMap' = nextMap /\ refresh' = refresh /\ header' = header
    BY DEF Finish
  <2>2. map' = nextMap \/ map' = map
    BY Zenon DEF Finish
  <2>3. hold' \in BOOLEAN
    BY Zenon DEF Finish
  <2>4. QED
    BY <1>1, <2>1, <2>2, <2>3 DEF RefsType
<1>8. OutType'
  BY <1>4 DEF OutType
<1>9. GhostType'
  <2> DEFINE new == [i \in Slots |-> IF i \in refresh THEN current ELSE stored[i]]
  <2>1. content' = content /\ current' = current
    BY DEF Finish
  <2>2. stored' = new \/ stored' = stored
    BY Zenon DEF Finish
  <2>3. new \in [Slots -> Frames]
    BY <1>1 DEF GhostType
  <2> HIDE DEF new
  <2>4. QED
    BY <1>1, <2>1, <2>2, <2>3 DEF GhostType
<1>10. QED
  BY <1>5, <1>6, <1>7, <1>8, <1>9, TypePartsNext

LEMMA EndType ==
  ASSUME TypeOK,
         NoFrameFound \/ Abandon \/ FillFails \/ Reject \/ StrayDelimiter
  PROVE  TypeOK'
<1>1. CallType /\ PoolType /\ RefsType /\ OutType /\ GhostType
  BY TypeParts
<1>2. CASE NoFrameFound
  <2>1. CallType'
    <3>1. phase' = "next" /\ slot' = slot /\ frames' = frames /\ moreData' \in BOOLEAN
      BY <1>2 DEF NoFrameFound, Succeeded
    <3>2. ok' \in BOOLEAN /\ needResync' \in BOOLEAN /\ seen' \in BOOLEAN
      BY <1>1, <1>2, Zenon DEF NoFrameFound, Succeeded, CallType
    <3>3. QED
      BY <1>1, <3>1, <3>2 DEF CallType
  <2>2. PoolType'
    <3>1. /\ isKey' = isKey /\ newFb' = newFb /\ phase' = "next"
          /\ count' = Decrease(count, newFb)
      BY <1>2 DEF NoFrameFound, Succeeded
    <3>2. Decrease(count, newFb) \in [Bufs -> Int]
      BY <1>1, CountTypes DEF PoolType, RefsType
    <3>3. QED
      BY <1>1, <3>1, <3>2 DEF PoolType, InFrame
  <2>3. RefsType'
    <3>1. hold' \in BOOLEAN
      BY <1>2, Zenon DEF NoFrameFound
    <3>2. QED
      BY <1>1, <1>2, <3>1 DEF NoFrameFound, RefsType
  <2>4. OutType' /\ GhostType'
    BY <1>1, <1>2 DEF NoFrameFound, OutType, GhostType, client, ghosts
  <2>5. QED
    BY <2>1, <2>2, <2>3, <2>4, TypePartsNext
<1>3. CASE Abandon
  BY <1>1, <1>3, HandlerType DEF Abandon, PoolType
<1>4. CASE FillFails
  <2> DEFINE released == Decrease(count, map[slot])
             taken == [released EXCEPT ![FirstFree(released)] = 1]
  <2>1. released \in [Bufs -> Int]
    BY <1>1, CountTypes DEF PoolType, RefsType
  <2>2. taken \in [Bufs -> Int]
    <3> HIDE DEF released
    <3>1. QED
      BY <2>1, OneTakenType
  <2>3. Handler(taken) \/ Handler(released)
    BY <1>4, Zenon DEF FillFails
  <2> HIDE DEF released, taken
  <2>4. QED
    BY <2>1, <2>2, <2>3, HandlerType
<1>5. CASE Reject
  <2>1. CallType'
    <3>1. phase' = "idle" /\ slot' = slot /\ frames' = frames
      BY <1>5 DEF Reject, Failed
    <3>2. /\ moreData' \in BOOLEAN /\ ok' \in BOOLEAN /\ needResync' \in BOOLEAN
          /\ seen' \in BOOLEAN
      BY <1>1, <1>5, Zenon DEF Reject, Failed, CallType
    <3>3. QED
      BY <1>1, <3>1, <3>2 DEF CallType
  <2>2. PoolType' /\ RefsType'
    BY <1>1, <1>5 DEF Reject, Failed, PoolType, RefsType, pool, refs, InFrame
  <2>3. OutType' /\ GhostType'
    BY <1>1, <1>5 DEF Reject, OutType, GhostType, client, ghosts
  <2>4. QED
    BY <2>1, <2>2, <2>3, TypePartsNext
<1>6. CASE StrayDelimiter
  <2>1. CallType'
    <3>1. phase' = phase /\ slot' = slot /\ frames' = frames + 1
      BY <1>6 DEF StrayDelimiter
    <3>2. /\ moreData' \in BOOLEAN /\ ok' \in BOOLEAN /\ needResync' \in BOOLEAN
          /\ seen' \in BOOLEAN
      BY <1>1, <1>6, Zenon DEF StrayDelimiter, CallType
    <3>3. QED
      BY <1>1, <3>1, <3>2 DEF CallType
  <2>2. PoolType' /\ RefsType'
    BY <1>1, <1>6 DEF StrayDelimiter, PoolType, RefsType, pool, refs
  <2>3. OutType' /\ GhostType'
    BY <1>1, <1>6 DEF StrayDelimiter, OutType, GhostType, client, ghosts
  <2>4. QED
    BY <2>1, <2>2, <2>3, TypePartsNext
<1>7. QED
  BY <1>2, <1>3, <1>4, <1>5, <1>6

LEMMA StutterType ==
  ASSUME TypeOK, UNCHANGED vars
  PROVE  TypeOK'
<1>1. CallType /\ PoolType /\ RefsType /\ OutType /\ GhostType
  BY TypeParts
<1>2. CallType' /\ PoolType'
  BY <1>1 DEF vars, pool, CallType, PoolType
<1>3. RefsType' /\ OutType' /\ GhostType'
  BY <1>1 DEF vars, refs, client, ghosts, RefsType, OutType, GhostType
<1>4. QED
  BY <1>2, <1>3, TypePartsNext

LEMMA StepType == TypeOK /\ [Next]_vars => TypeOK'
<1> SUFFICES ASSUME TypeOK, [Next]_vars
             PROVE  TypeOK'
  OBVIOUS
<1>1. CASE Decode \/ Return \/ StartFrame \/ StartFails
  BY <1>1, CallKeepsType
<1>2. CASE Headers
  <2>1. CASE \E i \in Slots : ShowExisting(i)
    BY <2>1, ShowExistingType
  <2>2. CASE \E kind \in Kinds, show \in BOOLEAN, resilient \in BOOLEAN :
               CodedHeader(kind, show, resilient)
    BY <2>2, CodedHeaderType
  <2>3. CASE FillKeeps \/ FillGrey \/ FillEnds
    BY <2>3, FillType
  <2>4. CASE HeaderDone
    BY <2>4, FrameType
  <2>5. QED
    BY <1>2, <2>1, <2>2, <2>3, <2>4 DEF Headers
<1>3. CASE TilesDone
  BY <1>3, FrameType
<1>4. CASE Finish
  BY <1>4, FinishType
<1>5. CASE NoFrameFound \/ Abandon \/ FillFails \/ Reject \/ StrayDelimiter
  BY <1>5, EndType
<1>6. CASE UNCHANGED vars
  BY <1>6, StutterType
<1>7. QED
  BY <1>1, <1>2, <1>3, <1>4, <1>5, <1>6 DEF Next, Work

\* Whatever the stream, the variables keep their types: no index leaves its
\* range, and the output queue never gets longer than it may.
THEOREM TypeCorrect == Spec => []TypeOK
<1>1. Init => TypeOK
  BY InitType
<1>2. TypeOK /\ [Next]_vars => TypeOK'
  BY StepType
<1>3. QED
  BY <1>1, <1>2, PTL DEF Spec

-----------------------------------------------------------------------------
(* Sound streams: the control of a frame.                                  *)

Control == HoldInv /\ ResyncInv /\ ShowInv

\* Outside of a frame, and until the end of its header, nothing is held.
LEMMA NotHeld ==
  ASSUME TypeOK, HoldInv, phase \in {"idle", "next", "fill", "rest"} \/ ReadsHeader
  PROVE  hold = FALSE /\ seen = FALSE
<1>1. hold \in BOOLEAN /\ seen \in BOOLEAN
  BY DEF TypeOK
<1>2. ~hold /\ ~seen
  BY <1>1 DEF HoldInv, ReadsHeader
<1>3. QED
  BY <1>1, <1>2

\* A slot that holds a buffer shows that the decoder is in sync.
LEMMA InSync ==
  ASSUME TypeOK, ResyncInv, NEW i \in Slots, map[i] # NoBuf
  PROVE  needResync = FALSE
<1>1. needResync \in BOOLEAN
  BY DEF TypeOK
<1>2. ~needResync
  BY DEF ResyncInv, EmptyMap
<1>3. QED
  BY <1>1, <1>2

LEMMA CallControl ==
  ASSUME TypeOK, Control, Decode \/ Return \/ StartFrame
  PROVE  Control'
<1>1. /\ hold = FALSE /\ seen = FALSE /\ phase \in {"idle", "next"}
      /\ HoldInv /\ ResyncInv /\ ShowInv
  BY NotHeld DEF Control, Decode, Return, StartFrame
<1>2. /\ phase' \in {"idle", "next", "obus"}
      /\ hold' = FALSE /\ seen' = FALSE
      /\ map' = map /\ needResync' = needResync /\ header' = header
  BY <1>1 DEF Decode, Return, StartFrame, refs
<1>3. HoldInv'
  BY <1>2 DEF HoldInv
<1>4. ResyncInv'
  BY <1>1, <1>2 DEF ResyncInv, EmptyMap
<1>5. ShowInv'
  BY <1>1, <1>2 DEF ShowInv
<1>6. QED
  BY <1>3, <1>4, <1>5 DEF Control

\* The map is not cleared by a frame that shows an existing one: it could not
\* have, were the map empty.
LEMMA ShowExistingControl ==
  ASSUME TypeOK, Control, NEW i \in Slots, ShowExisting(i), ~Malformed
  PROVE  /\ Control' /\ map' = map
         /\ hold' = isKey[map[i]] /\ refresh' = IF isKey[map[i]] THEN Slots ELSE {}
<1> DEFINE b == map[i]
<1>1. /\ HoldInv /\ ResyncInv /\ ShowInv /\ hold = FALSE /\ seen = FALSE
      /\ b # NoBuf /\ needResync = FALSE /\ isKey[b] \in BOOLEAN
  BY NotHeld, InSync DEF Control, ShowExisting, TypeOK
<1>2. /\ newFb' = b /\ phase' = "done" /\ seen' = FALSE
      /\ header' = [existing |-> TRUE, reset |-> isKey[b], show |-> TRUE,
                    kind |-> "key"]
      /\ outs' = outs
  BY <1>1 DEF ShowExisting, client
<1>3. Resynced(map, EmptyMap) = map
  BY <1>1 DEF Resynced
<1>4. ~Full
  BY DEF ShowExisting, Sound
<1>5. ~Full'
  BY <1>2, <1>4 DEF Full
<1>6. ShowInv'
  BY <1>2, <1>5 DEF ShowInv
<1>7. CASE isKey[b] = TRUE
  <2>1. /\ refresh' = Slots /\ map' = map /\ needResync' = FALSE
        /\ nextMap' = NextMap(map, Slots, b) /\ hold' = TRUE
    BY <1>3, <1>7 DEF ShowExisting
  <2>2. GivesBack'
    BY <1>2, <1>7 DEF GivesBack
  <2>3. HoldInv'
    BY <1>2, <2>1, <2>2 DEF HoldInv
  <2>4. ResyncInv'
    BY <2>1 DEF ResyncInv
  <2>5. QED
    BY <1>6, <1>7, <2>1, <2>3, <2>4 DEF Control
<1>8. CASE isKey[b] = FALSE
  <2>1. /\ refresh' = {} /\ map' = map /\ needResync' = FALSE /\ hold' = FALSE
    BY <1>1, <1>8 DEF ShowExisting
  <2>2. ~GivesBack'
    BY <1>2, <1>8 DEF GivesBack
  <2>3. HoldInv'
    BY <1>2, <2>1, <2>2 DEF HoldInv
  <2>4. ResyncInv'
    BY <2>1 DEF ResyncInv
  <2>5. QED
    BY <1>6, <1>8, <2>1, <2>3, <2>4 DEF Control
<1>9. QED
  BY <1>1, <1>7, <1>8

\* A coded frame does not clear it either.
LEMMA CodedHeaderControl ==
  ASSUME TypeOK, Control, NEW kind \in Kinds, NEW show \in BOOLEAN,
         NEW resilient \in BOOLEAN, CodedHeader(kind, show, resilient), ~Malformed
  PROVE  Control' /\ map' = map /\ hold' = FALSE
<1>1. /\ HoldInv /\ ResyncInv /\ ShowInv /\ hold = FALSE /\ seen = FALSE
      /\ needResync \in BOOLEAN
  BY NotHeld DEF Control, CodedHeader, TypeOK
<1>2. /\ phase' \in {"fill", "rest"} /\ seen' = FALSE /\ hold' = FALSE
      /\ header' = [existing |-> FALSE, reset |-> FALSE, show |-> show,
                    kind |-> kind]
      /\ outs' = outs
  BY <1>1 DEF CodedHeader, client
<1>3. map' = map /\ needResync' = FALSE
  <2>1. CASE kind = "inter"
    <3>1. map' = map /\ needResync' = needResync
      BY <2>1, Zenon DEF CodedHeader
    <3>2. ~needResync
      BY <2>1 DEF CodedHeader, Sound
    <3>3. QED
      BY <1>1, <3>1, <3>2
  <2>2. CASE kind # "inter"
    <3>1. map' = Resynced(map, EmptyMap) /\ needResync' = FALSE
      BY <2>2, Zenon DEF CodedHeader
    <3>2. Resynced(map, EmptyMap) = map
      BY <1>1 DEF Resynced, ResyncInv
    <3>3. QED
      BY <3>1, <3>2
  <2>3. QED
    BY <2>1, <2>2
<1>4. show => ~Full'
  <2>1. show => ~Full
    BY DEF CodedHeader, Sound
  <2>2. QED
    BY <1>2, <2>1 DEF Full
<1>5. HoldInv'
  BY <1>2 DEF HoldInv
<1>6. ResyncInv'
  BY <1>3 DEF ResyncInv
<1>7. ShowInv'
  BY <1>2, <1>4 DEF ShowInv, Shows
<1>8. QED
  BY <1>2, <1>3, <1>5, <1>6, <1>7 DEF Control

\* The rest of a frame.
LEMMA FrameControl ==
  ASSUME TypeOK, Control,
         FillKeeps \/ FillGrey \/ FillEnds \/ HeaderDone \/ TilesDone
  PROVE  Control'
<1>1. HoldInv /\ ResyncInv /\ ShowInv
  BY DEF Control
<1>2. CASE FillKeeps \/ FillGrey \/ FillEnds
  <2>1. hold = FALSE /\ seen = FALSE /\ phase = "fill"
    BY <1>1, <1>2, NotHeld DEF FillKeeps, FillGrey, FillEnds
  <2>2. /\ phase' \in {"fill", "rest"} /\ hold' = FALSE /\ seen' = FALSE
        /\ header' = header /\ needResync' = needResync /\ outs' = outs
    BY <1>2, <2>1 DEF FillKeeps, FillGrey, FillEnds, refs, client
  <2>3. HoldInv'
    BY <1>1, <2>1, <2>2 DEF HoldInv
  <2>4. ResyncInv'
    BY <1>1, <2>1, <2>2 DEF ResyncInv
  <2>5. ShowInv'
    BY <1>1, <2>1, <2>2 DEF ShowInv, Shows, Full
  <2>6. QED
    BY <2>3, <2>4, <2>5 DEF Control
<1>3. CASE HeaderDone
  <2>1. /\ phase = "rest" /\ ~needResync
        /\ phase' = "obus" /\ hold' = TRUE /\ seen' = TRUE
        /\ header' = header /\ needResync' = needResync /\ outs' = outs
        /\ map' = map /\ refresh' = refresh /\ newFb' = newFb
        /\ nextMap' = NextMap(map, refresh, newFb)
    BY <1>3 DEF HeaderDone, client
  <2>2. HoldInv'
    BY <1>1, <2>1 DEF HoldInv
  <2>3. ResyncInv'
    BY <2>1 DEF ResyncInv
  <2>4. ShowInv'
    BY <1>1, <2>1 DEF ShowInv, Shows, Full
  <2>5. QED
    BY <2>2, <2>3, <2>4 DEF Control
<1>4. CASE TilesDone
  <2>1. /\ phase = "obus" /\ seen /\ phase' = "done" /\ seen' = FALSE
        /\ hold' = hold /\ header' = header /\ needResync' = needResync
        /\ outs' = outs /\ map' = map /\ refresh' = refresh /\ newFb' = newFb
        /\ nextMap' = nextMap
    BY <1>4 DEF TilesDone, refs, client
  <2>2. header.existing = FALSE /\ hold
    BY <1>1, <2>1 DEF HoldInv
  <2>3. GivesBack' /\ hold'
    BY <2>1, <2>2 DEF GivesBack
  <2>4. HoldInv'
    BY <1>1, <2>1, <2>2, <2>3 DEF HoldInv
  <2>5. ResyncInv'
    BY <1>1, <2>1, <2>2 DEF ResyncInv
  <2>6. ShowInv'
    BY <1>1, <2>1 DEF ShowInv, Shows, Full
  <2>7. QED
    BY <2>4, <2>5, <2>6 DEF Control
<1>5. QED
  BY <1>2, <1>3, <1>4

\* The end of a frame; a sound stream does not show more than has a place.
LEMMA EndControl ==
  ASSUME TypeOK, Control, Finish \/ NoFrameFound
  PROVE  /\ Control' /\ phase' = "next" /\ hold' = FALSE
         /\ Finish => (Shows => ~Full) /\ (GivesBack => hold)
                      /\ (~GivesBack => hold = FALSE /\ refresh = {})
         /\ hold => nextMap = NextMap(map, refresh, newFb)
<1>1. HoldInv /\ ResyncInv /\ ShowInv /\ hold \in BOOLEAN
  BY DEF Control, TypeOK
<1>2. CASE Finish
  <2>1. phase = "done" /\ seen' = seen /\ hold' = FALSE /\ header' = header
    BY <1>2 DEF Finish
  <2>2. ~seen
    BY <1>1, <2>1 DEF HoldInv
  <2>3. Shows => ~Full
    BY <1>1, <2>1 DEF ShowInv
  <2>4. Succeeded
    BY <1>2, <2>3, Zenon DEF Finish
  <2>5. phase' = "next" /\ needResync' = needResync
    BY <2>4 DEF Succeeded
  <2>6. needResync' => map' = EmptyMap
    <3>1. CASE GivesBack
      <4>1. hold
        BY <1>1, <2>1, <3>1 DEF HoldInv
      <4>2. ~needResync
        BY <1>1, <4>1 DEF ResyncInv
      <4>3. QED
        BY <2>5, <4>2
    <3>2. CASE ~GivesBack
      <4>1. map' = map
        BY <1>2, <3>2, Zenon DEF Finish
      <4>2. QED
        BY <1>1, <2>5, <4>1 DEF ResyncInv
    <3>3. QED
      BY <3>1, <3>2
  <2>7. HoldInv'
    BY <2>1, <2>2, <2>5 DEF HoldInv
  <2>8. ResyncInv'
    BY <2>1, <2>5, <2>6 DEF ResyncInv, EmptyMap
  <2>9. ShowInv'
    BY <1>1, <2>1, <2>2, <2>5 DEF ShowInv
  <2>10. /\ GivesBack => hold
         /\ ~GivesBack => hold = FALSE /\ refresh = {}
         /\ hold => nextMap = NextMap(map, refresh, newFb)
    BY <1>1, <2>1 DEF HoldInv
  <2>11. QED
    BY <2>1, <2>3, <2>5, <2>7, <2>8, <2>9, <2>10 DEF Control
<1>3. CASE NoFrameFound
  <2>1. hold = FALSE /\ seen = FALSE
    BY <1>1, <1>3, NotHeld DEF NoFrameFound
  <2>2. /\ phase' = "next" /\ seen' = FALSE /\ hold' = FALSE /\ header' = header
        /\ needResync' = needResync /\ map' = map
    BY <1>3, <2>1 DEF NoFrameFound, Succeeded
  <2>3. HoldInv'
    BY <2>2 DEF HoldInv
  <2>4. ResyncInv'
    BY <1>1, <2>2 DEF ResyncInv, EmptyMap
  <2>5. ShowInv'
    BY <1>1, <2>2 DEF ShowInv
  <2>6. ~Finish
    BY <1>3 DEF NoFrameFound, Finish, ReadsHeader
  <2>7. QED
    BY <2>1, <2>2, <2>3, <2>4, <2>5, <2>6 DEF Control
<1>4. QED
  BY <1>2, <1>3

-----------------------------------------------------------------------------
(* Sound streams: the counts.                                              *)

Exact == \A b \in Bufs :
           count[b] = Uses(map, b) + OutUses(b) + FrameUses(b) + HoldUses(b)

LEMMA UsesNat ==
  ASSUME TypeOK
  PROVE  \A b : /\ Uses(map, b) \in Nat /\ OutUses(b) \in Nat
                /\ FrameUses(b) \in Nat /\ HoldUses(b) \in Nat
                /\ Cardinality(refresh) \in Nat
<1>1. refresh \in SUBSET Slots /\ outs \in Seq(Bufs)
  BY DEF TypeOK
<1>2. \A b : /\ Uses(map, b) \in Nat /\ OutUses(b) \in Nat
             /\ Cardinality(refresh) \in Nat
  BY <1>1, UsesType, TimesType DEF Uses, OutUses
<1>3. \A b : FrameUses(b) \in Nat
  BY DEF FrameUses
<1>4. \A b : HoldUses(b) \in Nat
  BY <1>2 DEF HoldUses
<1>5. QED
  BY <1>2, <1>3, <1>4

LEMMA CallExact ==
  ASSUME TypeOK, Control, Exact, Decode \/ Return \/ StartFrame
  PROVE  Exact'
<1>1. hold = FALSE /\ phase \in {"idle", "next"}
  BY NotHeld DEF Control, Decode, Return, StartFrame
<1>2. \A b \in Bufs : count[b] = Uses(map, b) + OutUses(b)
  <2>1. \A b \in Bufs : FrameUses(b) = 0 /\ HoldUses(b) = 0
    BY <1>1 DEF FrameUses, HoldUses, InFrame
  <2>2. QED
    BY <2>1, UsesNat DEF Exact
<1>3. count \in [Bufs -> Int]
  BY DEF TypeOK
<1>4. CASE Decode
  <2>1. /\ phase' = "next" /\ map' = map /\ outs' = <<>>
        /\ count' = [b \in Bufs |-> count[b] - OutUses(b)]
    BY <1>4 DEF Decode, refs
  <2>2. \A b \in Bufs : OutUses(b)' = 0 /\ FrameUses(b)' = 0 /\ HoldUses(b)' = 0
    BY <2>1, TimesEmpty DEF OutUses, FrameUses, HoldUses, InFrame
  <2>3. \A b \in Bufs : count'[b] = Uses(map', b)
    BY <1>2, <2>1, UsesNat
  <2>4. QED
    BY <2>1, <2>2, <2>3, UsesNat DEF Exact
<1>5. CASE Return
  <2>1. phase' = "idle" /\ map' = map /\ outs' = outs /\ count' = count
    BY <1>5 DEF Return, refs, pool, client
  <2>2. \A b \in Bufs : FrameUses(b)' = 0 /\ HoldUses(b)' = 0
    BY <2>1 DEF FrameUses, HoldUses, InFrame
  <2>3. \A b \in Bufs : OutUses(b)' = OutUses(b)
    BY <2>1 DEF OutUses
  <2>4. QED
    BY <1>2, <2>1, <2>2, <2>3, UsesNat DEF Exact
<1>6. CASE StartFrame
  <2> DEFINE f == FirstFree(count)
  <2>1. /\ phase' = "obus" /\ map' = map /\ outs' = outs /\ hold' = FALSE
        /\ newFb' = f /\ count' = [count EXCEPT ![f] = 1]
    BY <1>6 DEF StartFrame, client
  <2>2. f \in Bufs /\ count[f] = 0
    <3>1. \E b \in Bufs : count[b] = 0
      BY <1>6 DEF StartFrame, Free
    <3>2. QED
      BY <3>1, FirstFreeIsFree
  <2> HIDE DEF f
  <2>3. \A b \in Bufs : /\ FrameUses(b)' = IF f = b THEN 1 ELSE 0
                        /\ HoldUses(b)' = 0
    BY <2>1 DEF FrameUses, HoldUses, InFrame
  <2>4. \A b \in Bufs : OutUses(b)' = OutUses(b)
    BY <2>1 DEF OutUses
  <2>5. \A b \in Bufs : count'[b] = count[b] + IF f = b THEN 1 ELSE 0
    BY <1>3, <2>1, <2>2
  <2>6. QED
    BY <1>2, <2>1, <2>3, <2>4, <2>5, UsesNat DEF Exact
<1>7. QED
  BY <1>4, <1>5, <1>6

\* The reference of the new buffer moves to that of the slot.
LEMMA ShowExistingExact ==
  ASSUME TypeOK, Control, Exact, NEW i \in Slots, ShowExisting(i), ~Malformed
  PROVE  Exact'
<1> DEFINE b == map[i]
           dropped == [count EXCEPT ![newFb] = IF @ > 0 THEN @ - 1 ELSE @]
           shownFb == [dropped EXCEPT ![b] = @ + 1]
<1>1. /\ hold = FALSE /\ phase = "obus" /\ b \in Bufs /\ newFb \in Bufs
      /\ count \in [Bufs -> Int] /\ needResync = FALSE
      /\ isKey[b] \in BOOLEAN
  BY NotHeld, InSync DEF Control, ShowExisting, ReadsHeader, TypeOK, InFrame
<1>2. /\ map' = map /\ hold' = isKey[b]
      /\ refresh' = IF isKey[b] THEN Slots ELSE {}
  BY ShowExistingControl
<1>3. newFb' = b /\ phase' = "done" /\ outs' = outs
  BY DEF ShowExisting, client
<1>4. \A c \in Bufs : count[c] = Uses(map, c) + OutUses(c)
                                 + IF newFb = c THEN 1 ELSE 0
  <2>1. \A c \in Bufs : /\ FrameUses(c) = IF newFb = c THEN 1 ELSE 0
                        /\ HoldUses(c) = 0
    BY <1>1 DEF FrameUses, HoldUses, InFrame
  <2>2. QED
    BY <2>1, UsesNat DEF Exact
<1>5. count[newFb] > 0
  BY <1>1, <1>4, UsesNat
<1>6. \A c \in Bufs : dropped[c] = Uses(map, c) + OutUses(c)
  <2>1. \A c \in Bufs : dropped[c] = count[c] - IF newFb = c THEN 1 ELSE 0
    BY <1>1, <1>5
  <2> HIDE DEF dropped
  <2>2. QED
    BY <1>4, <2>1, UsesNat
<1>7. dropped \in [Bufs -> Int]
  BY <1>1, OneTakenType
<1> HIDE DEF dropped
<1>8. shownFb \in [Bufs -> Int]
  BY <1>7, OneTakenType
<1>9. \A c \in Bufs : shownFb[c] = Uses(map, c) + OutUses(c)
                                   + IF b = c THEN 1 ELSE 0
  <2>1. \A c \in Bufs : shownFb[c] = dropped[c] + IF b = c THEN 1 ELSE 0
    BY <1>1, <1>7
  <2> HIDE DEF shownFb, b
  <2>2. QED
    BY <1>6, <2>1, UsesNat
<1>10. \A c \in Bufs : /\ OutUses(c)' = OutUses(c)
                       /\ FrameUses(c)' = IF b = c THEN 1 ELSE 0
  BY <1>3 DEF OutUses, FrameUses, InFrame
<1>11. CASE isKey[b] = TRUE
  <2>1. count' = WithHolds(shownFb, map, Slots, b)
    <3>1. Resynced(map, EmptyMap) = map
      BY <1>1 DEF Resynced
    <3>2. count' = WithHolds(shownFb, Resynced(map, EmptyMap), Slots, b)
      BY <1>11, Zenon DEF ShowExisting, dropped
    <3>3. QED
      BY <3>1, <3>2
  <2>2. \A c \in Bufs : HoldUses(c)' = Uses(map, c) + IF b = c THEN Cardinality(Slots)
                                                           ELSE 0
    BY <1>2, <1>3, <1>11 DEF HoldUses, InFrame
  <2> HIDE DEF shownFb, b
  <2>3. \A c \in Bufs : count'[c] = shownFb[c] + Uses(map, c)
                          + (IF c = b THEN Cardinality(Slots) ELSE 0)
    BY <2>1 DEF WithHolds
  <2>4. Cardinality(Slots) \in Nat
    BY UsesType
  <2>5. QED
    BY <1>2, <1>9, <1>10, <2>2, <2>3, <2>4, UsesNat DEF Exact
<1>12. CASE isKey[b] = FALSE
  <2>1. count' = shownFb
    BY <1>12, Zenon DEF ShowExisting, dropped
  <2>2. \A c \in Bufs : HoldUses(c)' = 0
    BY <1>2, <1>12 DEF HoldUses
  <2> HIDE DEF shownFb, b
  <2>3. QED
    BY <1>2, <1>9, <1>10, <2>1, <2>2, UsesNat DEF Exact
<1>13. QED
  BY <1>1, <1>11, <1>12

\* A grey frame takes the place of the frame in one slot.
LEMMA FillExact ==
  ASSUME TypeOK, Control, Exact, FillKeeps \/ FillGrey \/ FillEnds
  PROVE  Exact'
<1>1. hold = FALSE /\ phase = "fill" /\ count \in [Bufs -> Int]
  BY NotHeld DEF Control, FillKeeps, FillGrey, FillEnds, TypeOK
<1>2. phase' \in {"fill", "rest"} /\ newFb' = newFb /\ outs' = outs /\ hold' = hold
  BY <1>1 DEF FillKeeps, FillGrey, FillEnds, refs, client
<1>3. \A b \in Bufs : /\ OutUses(b)' = OutUses(b) /\ FrameUses(b)' = FrameUses(b)
                      /\ HoldUses(b)' = 0 /\ HoldUses(b) = 0
  BY <1>1, <1>2 DEF OutUses, FrameUses, HoldUses, InFrame
<1>4. CASE FillKeeps \/ FillEnds
  <2>1. map' = map /\ count' = count
    BY <1>4 DEF FillKeeps, FillEnds, refs, pool
  <2>2. QED
    BY <1>3, <2>1 DEF Exact
<1>5. CASE FillGrey
  <2> DEFINE released == Decrease(count, map[slot])
             g == FirstFree(released)
  <2>1. /\ slot \in Slots /\ map \in [Slots -> Bufs \cup {NoBuf}]
        /\ \E c \in Bufs : released[c] = 0
        /\ count' = [released EXCEPT ![g] = 1]
        /\ map' = [map EXCEPT ![slot] = g]
    <3>1. slot \in 0..NumSlots /\ slot < NumSlots /\ NumSlots \in Nat
      BY <1>5, RefsAssumption DEF TypeOK, FillGrey
    <3>2. slot \in Slots
      BY <3>1 DEF Slots
    <3>3. QED
      BY <1>5, <3>2 DEF FillGrey, TypeOK
  <2>2. \A b \in Bufs : released[b] = count[b] - One(map[slot] = b)
    BY DEF Decrease, One
  <2>3. released \in [Bufs -> Int]
    BY <1>1, CountTypes DEF TypeOK
  <2> HIDE DEF released
  <2>4. g \in Bufs /\ released[g] = 0
    BY <2>1, FirstFreeIsFree
  <2> HIDE DEF g
  <2>5. \A b \in Bufs : count'[b] = released[b] + One(b = g)
    BY <2>1, <2>3, <2>4 DEF One
  <2>6. \A b \in Bufs : Uses(map', b) = Uses(map, b) - One(map[slot] = b)
                                        + One(b = g)
    <3> TAKE b \in Bufs
    <3>1. map' = NextMap(map, {slot}, g)
      BY <2>1 DEF NextMap
    <3> DEFINE S == {slot}
    <3>2. S \in SUBSET Slots /\ Cardinality(S) = 1
      BY <2>1, FS_Singleton
    <3>3. UsesIn(map, S, b) = IF map[slot] = b THEN 1 ELSE 0
      BY <2>1, UsesSingle
    <3> HIDE DEF S
    <3>4. Uses(map, b) = UsesIn(map, S, b) + UsesIn(map, Slots \ S, b)
      BY <3>2, UsesSplit
    <3>5. Uses(NextMap(map, S, g), b)
            = UsesIn(map, Slots \ S, b) + (IF b = g THEN Cardinality(S) ELSE 0)
      BY <3>2, UsesNext
    <3>6. UsesIn(map, Slots \ S, b) \in Nat
      BY UsesType
    <3>7. map' = NextMap(map, S, g)
      BY <3>1 DEF S
    <3>8. QED
      BY <3>2, <3>3, <3>4, <3>5, <3>6, <3>7 DEF One
  <2>7. \A condition : One(condition) \in Nat
    BY DEF One
  <2>8. QED
    BY <1>1, <1>3, <2>2, <2>5, <2>6, <2>7, UsesNat DEF Exact
<1>6. QED
  BY <1>4, <1>5

\* The references held from the end of the header on.
LEMMA HeaderExact ==
  ASSUME TypeOK, Control, Exact, NEW kind \in Kinds, NEW show \in BOOLEAN,
         NEW resilient \in BOOLEAN, ~Malformed,
         CodedHeader(kind, show, resilient) \/ HeaderDone \/ TilesDone
  PROVE  Exact'
<1>1. CASE CodedHeader(kind, show, resilient)
  <2>1. map' = map /\ hold' = FALSE /\ hold = FALSE
    BY <1>1, CodedHeaderControl, NotHeld DEF Control, CodedHeader
  <2>2. /\ count' = count /\ newFb' = newFb /\ outs' = outs
        /\ phase = "obus" /\ phase' \in {"fill", "rest"}
    BY <1>1 DEF CodedHeader, ReadsHeader, pool, client
  <2>3. \A b \in Bufs : /\ OutUses(b)' = OutUses(b) /\ FrameUses(b)' = FrameUses(b)
                        /\ HoldUses(b)' = HoldUses(b)
    BY <2>1, <2>2 DEF OutUses, FrameUses, HoldUses, InFrame
  <2>4. QED
    BY <2>1, <2>2, <2>3 DEF Exact
<1>2. CASE HeaderDone
  <2>1. /\ phase = "rest" /\ phase' = "obus" /\ hold' = TRUE
        /\ count' = WithHolds(count, map, refresh, newFb)
        /\ map' = map /\ newFb' = newFb /\ refresh' = refresh /\ outs' = outs
    BY <1>2 DEF HeaderDone, client
  <2>2. hold = FALSE
    BY <2>1, NotHeld DEF Control
  <2>3. \A b \in Bufs : count'[b] = count[b] + Uses(map, b)
                          + (IF b = newFb THEN Cardinality(refresh) ELSE 0)
    BY <2>1 DEF WithHolds
  <2>4. \A b \in Bufs :
          /\ OutUses(b)' = OutUses(b) /\ FrameUses(b)' = FrameUses(b)
          /\ HoldUses(b) = 0
          /\ HoldUses(b)' = Uses(map, b)
                            + (IF newFb = b THEN Cardinality(refresh) ELSE 0)
    BY <2>1, <2>2 DEF OutUses, FrameUses, HoldUses, InFrame
  <2>5. \A b \in Bufs : count[b] \in Int
    BY DEF TypeOK
  <2>6. QED
    BY <2>1, <2>3, <2>4, <2>5, UsesNat DEF Exact
<1>3. CASE TilesDone
  <2>1. /\ phase = "obus" /\ phase' = "done" /\ count' = count /\ map' = map
        /\ newFb' = newFb /\ refresh' = refresh /\ outs' = outs /\ hold' = hold
    BY <1>3 DEF TilesDone, pool, refs, client
  <2>2. \A b \in Bufs : /\ OutUses(b)' = OutUses(b) /\ FrameUses(b)' = FrameUses(b)
                        /\ HoldUses(b)' = HoldUses(b)
    BY <2>1 DEF OutUses, FrameUses, HoldUses, InFrame
  <2>3. QED
    BY <2>1, <2>2 DEF Exact
<1>4. QED
  BY <1>1, <1>2, <1>3

\* swap_frame_buffers(): what is held is given back, the map takes the new
\* buffer, and the reference of the frame itself goes to the output queue.
LEMMA FinishExact ==
  ASSUME TypeOK, Control, Exact, Finish
  PROVE  Exact'
<1> DEFINE w == WithoutHolds(count, map)
<1>1. /\ phase' = "next" /\ hold' = FALSE /\ (Shows => ~Full)
      /\ (GivesBack => hold) /\ (~GivesBack => hold = FALSE /\ refresh = {})
      /\ (hold => nextMap = NextMap(map, refresh, newFb))
  BY EndControl
<1>2. /\ phase = "done" /\ OutputStep(w) /\ newFb \in Bufs
      /\ count \in [Bufs -> Int] /\ refresh \in SUBSET Slots
      /\ outs \in Seq(Bufs) /\ (~OutputAll => Len(outs) <= 1)
  BY DEF Finish, TypeOK, InFrame
<1>3. \A b \in Bufs : w[b] = Uses(map', b) + OutUses(b) + One(newFb = b)
  <2> TAKE b \in Bufs
  <2>1. /\ Uses(map, b) \in Nat /\ OutUses(b) \in Nat /\ Cardinality(refresh) \in Nat
        /\ UsesIn(map, refresh, b) \in Nat /\ UsesIn(map, Slots \ refresh, b) \in Nat
        /\ count[b] \in Int /\ One(newFb = b) \in Nat
    BY <1>2, UsesNat, UsesType DEF One
  <2>2. w[b] = count[b] - UsesIn(map, refresh, b)
                        - (IF GivesBack THEN Uses(map, b) ELSE 0)
    BY DEF WithoutHolds
  <2>3. FrameUses(b) = One(newFb = b)
    BY <1>2 DEF FrameUses, InFrame, One
  <2>4. count[b] = Uses(map, b) + OutUses(b) + One(newFb = b) + HoldUses(b)
    BY <2>3 DEF Exact
  <2>5. CASE GivesBack
    <3>1. HoldUses(b) = Uses(map, b)
                        + (IF newFb = b THEN Cardinality(refresh) ELSE 0)
      BY <1>1, <1>2, <2>5 DEF HoldUses, InFrame
    <3>2. map' = NextMap(map, refresh, newFb)
      <4>1. map' = nextMap
        BY <2>5, Zenon DEF Finish
      <4>2. QED
        BY <1>1, <2>5, <4>1
    <3>3. Uses(map', b) = UsesIn(map, Slots \ refresh, b)
                          + (IF b = newFb THEN Cardinality(refresh) ELSE 0)
      <4>1. Uses(NextMap(map, refresh, newFb), b)
              = UsesIn(map, Slots \ refresh, b)
                + (IF b = newFb THEN Cardinality(refresh) ELSE 0)
        <5>1. refresh \in SUBSET Slots
          BY <1>2
        <5>2. QED
          BY <5>1, UsesNext
      <4>2. QED
        BY <3>2, <4>1
    <3>4. Uses(map, b) = UsesIn(map, refresh, b) + UsesIn(map, Slots \ refresh, b)
      BY <1>2, UsesSplit
    <3> HIDE DEF w
    <3>5. QED
      BY <2>1, <2>2, <2>4, <2>5, <3>1, <3>3, <3>4
  <2>6. CASE ~GivesBack
    <3>1. HoldUses(b) = 0 /\ UsesIn(map, refresh, b) = 0
      BY <1>1, <2>6, UsesNone DEF HoldUses
    <3>2. map' = map
      BY <2>6, Zenon DEF Finish
    <3> HIDE DEF w
    <3>3. QED
      BY <2>1, <2>2, <2>4, <2>6, <3>1, <3>2
  <2>7. QED
    BY <2>5, <2>6
<1> HIDE DEF w
<1>4. \A b \in Bufs : FrameUses(b)' = 0 /\ HoldUses(b)' = 0
  BY <1>1 DEF FrameUses, HoldUses, InFrame
<1>5. \A b \in Bufs : /\ Uses(map', b) \in Nat /\ OutUses(b) \in Nat
                      /\ One(newFb = b) \in Nat
  BY UsesNat, UsesType DEF Uses, One
<1>6. \A b \in Bufs : count'[b] = Uses(map', b) + OutUses(b)'
  <2>1. CASE Shows /\ OutputAll
    <3>1. outs' = Append(outs, newFb) /\ count' = w
      BY <1>1, <1>2, <2>1, Zenon DEF OutputStep
    <3>2. \A b \in Bufs : OutUses(b)' = OutUses(b) + One(newFb = b)
      BY <1>2, <3>1, TimesAppend DEF OutUses
    <3>3. QED
      BY <1>3, <1>5, <3>1, <3>2
  <2>2. CASE Shows /\ ~OutputAll
    <3>1. /\ outs' = <<newFb>>
          /\ count' = IF outs = <<>> THEN w ELSE Decrease(w, outs[1])
      BY <1>1, <1>2, <2>2, Zenon DEF OutputStep
    <3>2. \A b \in Bufs : OutUses(b)' = One(newFb = b)
      <4>1. <<newFb>> \in Seq(Bufs) /\ Len(<<newFb>>) = 1 /\ <<newFb>>[1] = newFb
        BY <1>2
      <4>2. QED
        BY <3>1, <4>1, TimesOne DEF OutUses
    <3>3. CASE outs = <<>>
      <4>1. \A b \in Bufs : OutUses(b) = 0
        BY <3>3, TimesEmpty DEF OutUses
      <4>2. QED
        BY <1>3, <1>5, <3>1, <3>2, <3>3, <4>1
    <3>4. CASE outs # <<>>
      <4>1. Len(outs) = 1
        <5> DEFINE n == Len(outs)
        <5>1. n <= 1
          BY <1>2, <2>2
        <5>2. n \in Nat /\ n # 0
          BY <1>2, <3>4, EmptySeq
        <5> HIDE DEF n
        <5>3. n = 1
          BY <5>1, <5>2
        <5>4. QED
          BY <5>3 DEF n
      <4>2. \A b \in Bufs : OutUses(b) = One(outs[1] = b)
        BY <1>2, <4>1, TimesOne DEF OutUses
      <4>3. \A b \in Bufs : count'[b] = w[b] - One(outs[1] = b)
        BY <3>1, <3>4 DEF Decrease, One
      <4>4. QED
        BY <1>3, <1>5, <3>2, <4>2, <4>3
    <3>5. QED
      BY <3>3, <3>4
  <2>3. CASE ~Shows
    <3>1. outs' = outs /\ count' = Decrease(w, newFb)
      BY <1>2, <2>3, Zenon DEF OutputStep, client
    <3>2. \A b \in Bufs : count'[b] = w[b] - One(newFb = b)
      BY <3>1 DEF Decrease, One
    <3>3. \A b \in Bufs : OutUses(b)' = OutUses(b)
      BY <3>1 DEF OutUses
    <3>4. QED
      BY <1>3, <1>5, <3>2, <3>3
  <2>4. QED
    BY <2>1, <2>2, <2>3
<1>7. \A b \in Bufs : OutUses(b)' \in Int
  <2>1. outs' \in Seq(Bufs)
    BY FinishType DEF TypeOK
  <2>2. \A b \in Bufs : TimesIn(outs', b) \in Nat
    BY <2>1, TimesType, Zenon
  <2>3. QED
    BY <2>2 DEF OutUses
<1>8. QED
  BY <1>4, <1>5, <1>6, <1>7 DEF Exact

LEMMA NoFrameExact ==
  ASSUME TypeOK, Control, Exact, NoFrameFound
  PROVE  Exact'
<1>1. hold = FALSE /\ phase = "obus" /\ newFb \in Bufs /\ count \in [Bufs -> Int]
  BY NotHeld DEF Control, NoFrameFound, ReadsHeader, TypeOK, InFrame
<1>2. /\ phase' = "next" /\ map' = map /\ outs' = outs
      /\ count' = Decrease(count, newFb)
  BY DEF NoFrameFound, Succeeded, client
<1>3. \A b \in Bufs : /\ FrameUses(b) = One(newFb = b) /\ HoldUses(b) = 0
                      /\ FrameUses(b)' = 0 /\ HoldUses(b)' = 0
                      /\ OutUses(b)' = OutUses(b)
  BY <1>1, <1>2 DEF FrameUses, HoldUses, OutUses, InFrame, One
<1>4. \A b \in Bufs : count'[b] = count[b] - One(newFb = b)
  BY <1>2 DEF Decrease, One
<1>5. \A b \in Bufs : One(newFb = b) \in Nat
  BY DEF One
<1>6. QED
  BY <1>2, <1>3, <1>4, <1>5, UsesNat DEF Exact

\* Between two frames: some buffer is neither in a slot nor put out.
LEMMA FreeForFrame ==
  ASSUME TypeOK, Control, Exact, phase = "next"
  PROVE  Free # {}
<1>1. /\ hold = FALSE /\ map \in [Slots -> Bufs \cup {NoBuf}]
      /\ outs \in Seq(Bufs) /\ Len(outs) <= MaxOutput
  BY NotHeld DEF Control, TypeOK
<1>2. 0 \in Slots
  BY RefsAssumption DEF Slots
<1>3. \E i \in Slots : map[i] = map[0]
  BY <1>2
<1>4. PICK b \in Bufs : /\ \A i \in Slots : map[i] # b
                        /\ \A k \in DOMAIN outs : outs[k] # b
  <2> DEFINE f == map[0]
  <2>1. Slots \in SUBSET Slots /\ \E i \in Slots : map[i] = f
    BY <1>3
  <2>2. Spare(map, Slots, f)
    BY <2>1 DEF Spare
  <2> HIDE DEF f
  <2>3. \E b \in Bufs : /\ b # f
                        /\ \A i \in Slots : map[i] # b
                        /\ \A k \in DOMAIN outs : outs[k] # b
    BY <1>1, <2>1, <2>2, SomeoneElse
  <2>4. QED
    BY <2>3
<1>5. Uses(map, b) = 0
  BY <1>4, UsesNone DEF Uses
<1>6. OutUses(b) = 0
  <2>1. {k \in DOMAIN outs : outs[k] = b} = {}
    BY <1>4
  <2>2. QED
    BY <2>1, FS_EmptySet DEF OutUses, TimesIn
<1>7. FrameUses(b) = 0 /\ HoldUses(b) = 0
  BY <1>1 DEF FrameUses, HoldUses, InFrame
<1>8. count[b] = 0
  BY <1>5, <1>6, <1>7 DEF Exact
<1>9. QED
  BY <1>8 DEF Free

\* In the header: the slot gives its buffer up, so that some buffer is neither
\* in another slot, nor put out, nor that of the frame.
LEMMA FreeForGrey ==
  ASSUME TypeOK, Control, Exact, phase = "fill", slot < NumSlots
  PROVE  \E c \in Bufs : Decrease(count, map[slot])[c] = 0
<1> DEFINE S == {slot}
           R == Slots \ S
<1>1. /\ hold = FALSE /\ map \in [Slots -> Bufs \cup {NoBuf}]
      /\ outs \in Seq(Bufs) /\ Len(outs) <= MaxOutput /\ count \in [Bufs -> Int]
  BY NotHeld DEF Control, TypeOK
<1>2. slot \in Slots
  <2>1. slot \in 0..NumSlots /\ NumSlots \in Nat
    BY RefsAssumption DEF TypeOK
  <2>2. QED
    BY <2>1 DEF Slots
<1>3. Cardinality(R) < NumSlots
  <2>1. /\ IsFiniteSet(Slots \ {slot})
        /\ Cardinality(Slots \ {slot}) = IF slot \in Slots THEN Cardinality(Slots) - 1
                                                      ELSE Cardinality(Slots)
    BY SlotsFinite, FS_RemoveElement
  <2>2. QED
    BY <1>2, <2>1, SlotsFinite, RefsAssumption
<1>4. PICK b \in Bufs : /\ b # newFb
                        /\ \A i \in R : map[i] # b
                        /\ \A k \in DOMAIN outs : outs[k] # b
  <2>1. R \in SUBSET Slots
    OBVIOUS
  <2> HIDE DEF R, S
  <2> DEFINE f == newFb
  <2>2. Spare(map, R, f)
    BY <1>3 DEF Spare
  <2>3. outs \in Seq(Bufs) /\ Len(outs) <= MaxOutput
    BY <1>1
  <2> HIDE DEF f
  <2>4. \E b \in Bufs : (b # f) /\ (\A i \in R : map[i] # b)
                       /\ (\A k \in DOMAIN outs : outs[k] # b)
    BY <2>1, <2>2, <2>3, SomeoneElse
  <2>5. QED
    BY <2>4 DEF f
<1>5. Uses(map, b) = IF map[slot] = b THEN 1 ELSE 0
  <2>1. UsesIn(map, S, b) = IF map[slot] = b THEN 1 ELSE 0
    BY <1>2, UsesSingle
  <2>2. S \in SUBSET Slots /\ R \in SUBSET Slots
    BY <1>2
  <2>3. UsesIn(map, R, b) = 0
    <3> HIDE DEF R
    <3>1. QED
      BY <1>4, <2>2, UsesNone
  <2>4. Uses(map, b) = UsesIn(map, S, b) + UsesIn(map, R, b)
    <3> HIDE DEF S
    <3>1. QED
      BY <2>2, UsesSplit
  <2>5. QED
    BY <2>1, <2>3, <2>4
<1>6. OutUses(b) = 0
  <2>1. {k \in DOMAIN outs : outs[k] = b} = {}
    BY <1>4
  <2>2. QED
    BY <2>1, FS_EmptySet DEF OutUses, TimesIn
<1>7. FrameUses(b) = 0 /\ HoldUses(b) = 0
  BY <1>1, <1>4 DEF FrameUses, HoldUses
<1>8. count[b] = IF map[slot] = b THEN 1 ELSE 0
  BY <1>5, <1>6, <1>7 DEF Exact
<1>9. Decrease(count, map[slot])[b] = 0
  BY <1>8 DEF Decrease, One
<1>10. QED
  BY <1>9

-----------------------------------------------------------------------------
(* The theorems.                                                           *)

LEMMA InitControl == Init => Control /\ Exact
<1> SUFFICES ASSUME Init PROVE Control /\ Exact
  OBVIOUS
<1>1. /\ phase = "idle" /\ hold = FALSE /\ seen = FALSE /\ map = EmptyMap
      /\ header = NoHeader /\ outs = <<>> /\ count = [b \in Bufs |-> 0]
  BY DEF Init
<1>2. HoldInv /\ ResyncInv /\ ShowInv
  BY <1>1 DEF HoldInv, ResyncInv, ShowInv, NoHeader
<1>3. \A b \in Bufs : /\ Uses(map, b) = 0 /\ OutUses(b) = 0
                      /\ FrameUses(b) = 0 /\ HoldUses(b) = 0
  <2> TAKE b \in Bufs
  <2>1. \A i \in Slots : map[i] # b
    <3>1. b # NoBuf
      BY RefsAssumption DEF Bufs, NoBuf
    <3>2. QED
      BY <1>1, <3>1 DEF EmptyMap
  <2>2. Uses(map, b) = 0
    BY <2>1, UsesNone DEF Uses
  <2>3. OutUses(b) = 0
    BY <1>1, TimesEmpty DEF OutUses
  <2>4. FrameUses(b) = 0 /\ HoldUses(b) = 0
    BY <1>1 DEF FrameUses, HoldUses, InFrame
  <2>5. QED
    BY <2>2, <2>3, <2>4
<1>4. Exact
  BY <1>1, <1>3 DEF Exact
<1>5. QED
  BY <1>2, <1>4 DEF Control

LEMMA StepControl ==
  ASSUME TypeOK, Control, Exact, ~Malformed, [Next]_vars
  PROVE  Control' /\ Exact'
<1>1. CASE Decode \/ Return \/ StartFrame
  BY <1>1, CallControl, CallExact
<1>2. CASE StartFails
  BY <1>2, FreeForFrame DEF StartFails
<1>3. CASE \E i \in Slots : ShowExisting(i)
  BY <1>3, ShowExistingControl, ShowExistingExact
<1>4. CASE \E kind \in Kinds, show \in BOOLEAN, resilient \in BOOLEAN :
             CodedHeader(kind, show, resilient)
  BY <1>4, CodedHeaderControl, HeaderExact
<1>5. CASE FillKeeps \/ FillGrey \/ FillEnds
  BY <1>5, FrameControl, FillExact
<1>6. CASE HeaderDone \/ TilesDone
  <2>1. "key" \in Kinds /\ TRUE \in BOOLEAN
    BY DEF Kinds
  <2>2. QED
    BY <1>6, <2>1, FrameControl, HeaderExact
<1>7. CASE Finish
  BY <1>7, EndControl, FinishExact
<1>8. CASE NoFrameFound
  BY <1>8, EndControl, NoFrameExact
<1>9. CASE Abandon \/ FillFails \/ Reject \/ StrayDelimiter
  BY <1>9 DEF Abandon, FillFails, Reject, StrayDelimiter
<1>10. CASE UNCHANGED vars
  <2>1. Control'
    BY <1>10 DEF vars, refs, client, Control, HoldInv, ResyncInv, ShowInv,
                 GivesBack, Shows, Full
  <2>2. \A b \in Bufs : /\ OutUses(b)' = OutUses(b) /\ FrameUses(b)' = FrameUses(b)
                        /\ HoldUses(b)' = HoldUses(b)
    BY <1>10 DEF vars, refs, client, OutUses, FrameUses, HoldUses
  <2>3. count' = count /\ map' = map
    BY <1>10 DEF vars, pool, refs
  <2>4. QED
    BY <2>1, <2>2, <2>3 DEF Exact
<1>11. QED
  BY <1>1, <1>2, <1>3, <1>4, <1>5, <1>6, <1>7, <1>8, <1>9, <1>10
     DEF Next, Work, Headers

LEMMA IInvParts == IInv <=> TypeOK /\ (Malformed \/ (Control /\ Exact))
BY DEF IInv, Control, RefsExact, Exact

\* The inductive invariant holds at every step: what a frame holds, what it will
\* put into ref_frame_map and whether it has a place in the output queue are
\* settled from its header on.
THEOREM Inductive == Spec => []IInv
<1>1. Init => IInv
  BY InitType, InitControl, IInvParts
<1>2. IInv /\ [Next]_vars => IInv'
  <2> SUFFICES ASSUME IInv, [Next]_vars
               PROVE  IInv'
    OBVIOUS
  <2>1. TypeOK' /\ (Malformed \/ (Control' /\ Exact'))
    BY StepType, StepControl, IInvParts
  <2>2. QED
    BY <2>1 DEF IInv, Control, RefsExact, Exact
<1>3. QED
  BY <1>1, <1>2, PTL DEF Spec

\* Decoding a sound stream, ref_count is at every step of a frame the number of
\* references to the buffer, for any number of buffers, slots and layers.
THEOREM CountsExact == Spec => []RefsExact
<1>1. IInv => RefsExact
  BY DEF IInv, RefsExact
<1>2. QED
  BY <1>1, Inductive, PTL

\* Decoding a sound stream, get_free_fb() always finds a buffer, if there are
\* more than there are slots and places in the output queue.
THEOREM NeverExhausted == Spec => []PoolSuffices
<1>1. IInv => PoolSuffices
  BY IInvParts, FreeForFrame, FreeForGrey DEF PoolSuffices
<1>2. QED
  BY <1>1, Inductive, PTL

-----------------------------------------------------------------------------
(* Damaged streams: what the counts still promise.                         *)

Keep == ErrorInv /\ HeaderInv /\ ClaimInv /\ FreshInv /\ PictureInv

LEMMA KeepParts == KeepInv <=> TypeOK /\ Keep
BY DEF KeepInv, Keep

\* A buffer with no uses is not there.
LEMMA UsesZero ==
  ASSUME NEW m, NEW S \in SUBSET Slots, NEW b, UsesIn(m, S, b) = 0
  PROVE  \A i \in S : m[i] # b
<1>1. IsFiniteSet({i \in S : m[i] = b}) /\ Cardinality({i \in S : m[i] = b}) = 0
  BY UsesType DEF UsesIn
<1>2. {i \in S : m[i] = b} = {}
  BY <1>1, FS_EmptySet
<1>3. QED
  BY <1>2

LEMMA TimesZero ==
  ASSUME NEW s \in Seq(Bufs), NEW b, TimesIn(s, b) = 0
  PROVE  \A k \in DOMAIN s : s[k] # b
<1>1. IsFiniteSet({k \in DOMAIN s : s[k] = b})
      /\ Cardinality({k \in DOMAIN s : s[k] = b}) = 0
  BY TimesType DEF TimesIn
<1>2. {k \in DOMAIN s : s[k] = b} = {}
  BY <1>1, FS_EmptySet
<1>3. QED
  BY <1>2

LEMMA ClaimsNat ==
  ASSUME TypeOK
  PROVE  \A b : /\ MapUses(b) \in Nat /\ OutUses(b) \in Nat /\ FrameUses(b) \in Nat
                /\ HoldClaims(b) \in Nat /\ Uses(map, b) \in Nat
                /\ UsesIn(map, refresh, b) \in Nat
                /\ UsesIn(map, Slots \ refresh, b) \in Nat
                /\ Cardinality(refresh) \in Nat
<1>1. refresh \in SUBSET Slots
  BY DEF TypeOK
<1>2. \A b : /\ Uses(map, b) \in Nat /\ OutUses(b) \in Nat /\ FrameUses(b) \in Nat
             /\ Cardinality(refresh) \in Nat
  BY UsesNat
<1>3. \A b : /\ UsesIn(map, refresh, b) \in Nat
             /\ UsesIn(map, Slots \ refresh, b) \in Nat
  BY <1>1, UsesType
<1>4. \A b : MapUses(b) \in Nat
  BY <1>2 DEF MapUses
<1>5. \A b : HoldClaims(b) \in Nat
  BY <1>2 DEF HoldClaims
<1>6. QED
  BY <1>2, <1>3, <1>4, <1>5

\* A frame is only begun, or gone on with, while nothing has gone wrong.
LEMMA CertainFrame ==
  ASSUME ErrorInv, phase \in InFrame, phase \in {"fill", "rest"} => ~needResync
  PROVE  Certain
BY DEF ErrorInv, Certain

\* A call that failed is out of sync, and claims nothing.
LEMMA FailedKeeps ==
  ASSUME Failed
  PROVE  Keep'
<1>1. phase' = "idle" /\ ok' = FALSE /\ needResync' = TRUE
  BY DEF Failed
<1>2. ErrorInv' /\ HeaderInv'
  BY <1>1 DEF ErrorInv, HeaderInv, Holding, InFrame
<1>3. ClaimInv' /\ FreshInv' /\ PictureInv'
  BY <1>1 DEF ClaimInv, FreshInv, PictureInv, Certain
<1>4. QED
  BY <1>2, <1>3 DEF Keep

\* Between two frames the map and the queue have their references, even if a
\* frame has just failed to start.
LEMMA BetweenFrames ==
  ASSUME TypeOK, Keep, phase = "next", ok \/ Free # {}
  PROVE  /\ \A b \in Bufs : \/ MapUses(b) + OutUses(b) = 0
                            \/ count[b] >= MapUses(b) + OutUses(b)
         /\ \A k \in DOMAIN outs : content[outs[k]] = shown[k]
<1>1. CASE ok
  <2>1. Certain
    BY <1>1 DEF Certain
  <2>2. \A b \in Bufs : FrameUses(b) = 0 /\ HoldClaims(b) = 0
    BY DEF FrameUses, HoldClaims, Holding, InFrame
  <2>3. \A b \in Bufs : Claims(b) = 0 \/ count[b] >= Claims(b)
    BY <2>1 DEF Keep, ClaimInv
  <2>4. \A b \in Bufs : Claims(b) = MapUses(b) + OutUses(b)
    BY <2>2, ClaimsNat DEF Claims
  <2>5. \A k \in DOMAIN outs : content[outs[k]] = shown[k]
    BY <2>1 DEF Keep, PictureInv
  <2>6. QED
    BY <2>3, <2>4, <2>5
<1>2. CASE ~ok
  <2>1. needResync /\ outs = <<>>
    BY <1>2 DEF Keep, ErrorInv
  <2>2. \A b \in Bufs : MapUses(b) = 0 /\ OutUses(b) = 0
    BY <2>1, TimesEmpty DEF MapUses, OutUses
  <2>3. DOMAIN outs = {}
    BY <2>1
  <2>4. QED
    BY <2>2, <2>3
<1>3. QED
  BY <1>1, <1>2

LEMMA CallKeeps ==
  ASSUME TypeOK, Keep, Decode \/ Return \/ StartFails
  PROVE  Keep'
<1>1. ErrorInv /\ HeaderInv /\ ClaimInv /\ FreshInv /\ PictureInv
  BY DEF Keep
<1>2. CASE Decode
  <2>1. /\ phase = "idle" /\ phase' = "next" /\ outs' = <<>>
        /\ count' = [b \in Bufs |-> count[b] - OutUses(b)]
        /\ map' = map /\ ok' = ok /\ needResync' = needResync
        /\ content' = content /\ stored' = stored
    BY <1>2 DEF Decode, refs, ghosts
  <2>2. ErrorInv' /\ HeaderInv' /\ FreshInv'
    BY <1>1, <2>1 DEF ErrorInv, HeaderInv, FreshInv, Holding, InFrame
  <2>3. PictureInv'
    <3>1. DOMAIN outs' = {}
      BY <2>1
    <3>2. QED
      BY <1>1, <2>1, <3>1 DEF PictureInv
  <2>4. ClaimInv'
    <3> SUFFICES ASSUME Certain', NEW b \in Bufs
                 PROVE  Claims(b)' = 0 \/ count'[b] >= Claims(b)'
      BY DEF ClaimInv
    <3>1. Certain
      BY <2>1 DEF Certain
    <3>2. FrameUses(b) = 0 /\ HoldClaims(b) = 0
      BY <2>1 DEF FrameUses, HoldClaims, Holding, InFrame
    <3>3. FrameUses(b)' = 0 /\ HoldClaims(b)' = 0 /\ OutUses(b)' = 0
      BY <2>1, TimesEmpty DEF FrameUses, HoldClaims, Holding, InFrame, OutUses
    <3>4. MapUses(b)' = MapUses(b)
      BY <2>1 DEF MapUses
    <3>5. Claims(b) = 0 \/ count[b] >= Claims(b)
      BY <1>1, <3>1 DEF ClaimInv
    <3>6. count[b] \in Int
      BY DEF TypeOK
    <3>7. Claims(b)' = MapUses(b)
      BY <3>3, <3>4, ClaimsNat DEF Claims
    <3>8. Claims(b) = MapUses(b) + OutUses(b)
      BY <3>2, ClaimsNat DEF Claims
    <3>9. count'[b] = count[b] - OutUses(b)
      BY <2>1
    <3>10. QED
      BY <3>5, <3>6, <3>7, <3>8, <3>9, ClaimsNat
  <2>5. QED
    BY <2>2, <2>3, <2>4 DEF Keep
<1>3. CASE Return
  <2>1. /\ phase = "next" /\ phase' = "idle" /\ outs' = outs /\ shown' = shown
        /\ count' = count /\ map' = map /\ ok' = ok /\ needResync' = needResync
        /\ content' = content /\ stored' = stored
    BY <1>3 DEF Return, refs, ghosts, pool, client
  <2>2. ErrorInv' /\ HeaderInv' /\ FreshInv'
    BY <1>1, <2>1 DEF ErrorInv, HeaderInv, FreshInv, Holding, InFrame
  <2>3. PictureInv'
    BY <1>1, <2>1 DEF PictureInv, Certain
  <2>4. \A b \in Bufs : Claims(b)' = Claims(b)
    <3> TAKE b \in Bufs
    <3>1. /\ FrameUses(b)' = FrameUses(b) /\ HoldClaims(b)' = HoldClaims(b)
          /\ OutUses(b)' = OutUses(b) /\ MapUses(b)' = MapUses(b)
      BY <2>1 DEF FrameUses, HoldClaims, Holding, InFrame, OutUses, MapUses
    <3>2. QED
      BY <3>1 DEF Claims
  <2>5. ClaimInv'
    BY <1>1, <2>1, <2>4 DEF ClaimInv, Certain
  <2>6. QED
    BY <2>2, <2>3, <2>5 DEF Keep
<1>4. CASE StartFails
  <2>1. /\ phase = "next" /\ phase' = "next" /\ ok' = FALSE /\ needResync' = TRUE
        /\ Free = {} /\ count' = count
    BY <1>4 DEF StartFails, pool
  <2>2. Free' = {}
    BY <2>1 DEF Free
  <2>3. ErrorInv' /\ HeaderInv'
    BY <2>1, <2>2 DEF ErrorInv, HeaderInv, Holding, InFrame
  <2>4. ClaimInv' /\ FreshInv' /\ PictureInv'
    BY <2>1 DEF ClaimInv, FreshInv, PictureInv, Certain
  <2>5. QED
    BY <2>3, <2>4 DEF Keep
<1>5. QED
  BY <1>2, <1>3, <1>4

\* The buffer of a new frame is nobody else's.
LEMMA StartFrameKeeps ==
  ASSUME TypeOK, Keep, StartFrame
  PROVE  Keep'
<1> DEFINE f == FirstFree(count)
<1>1. /\ phase = "next" /\ phase' = "obus" /\ outs' = outs /\ shown' = shown
      /\ map' = map /\ needResync' = needResync /\ seen' = FALSE /\ ok' = TRUE
      /\ content' = content /\ stored' = stored
      /\ newFb' = f /\ count' = [count EXCEPT ![f] = 1] /\ Free # {}
  BY DEF StartFrame, client, ghosts
<1>2. f \in Bufs /\ count[f] = 0
  <2>1. \E b \in Bufs : count[b] = 0
    BY <1>1 DEF Free
  <2>2. QED
    BY <2>1, FirstFreeIsFree
<1> HIDE DEF f
<1>3. /\ \A b \in Bufs : \/ MapUses(b) + OutUses(b) = 0
                         \/ count[b] >= MapUses(b) + OutUses(b)
      /\ \A k \in DOMAIN outs : content[outs[k]] = shown[k]
  BY <1>1, BetweenFrames
<1>4. MapUses(f) = 0 /\ OutUses(f) = 0
  BY <1>2, <1>3, ClaimsNat
<1>5. count \in [Bufs -> Int] /\ outs \in Seq(Bufs)
  BY DEF TypeOK
<1>6. ClaimInv'
  <2> SUFFICES ASSUME NEW b \in Bufs
               PROVE  Claims(b)' = 0 \/ count'[b] >= Claims(b)'
    BY DEF ClaimInv
  <2>1. /\ MapUses(b)' = MapUses(b) /\ OutUses(b)' = OutUses(b)
        /\ FrameUses(b)' = (IF f = b THEN 1 ELSE 0) /\ HoldClaims(b)' = 0
    BY <1>1 DEF MapUses, OutUses, FrameUses, HoldClaims, Holding, InFrame
  <2>2. Claims(b)' = MapUses(b) + OutUses(b) + (IF f = b THEN 1 ELSE 0)
    BY <2>1, ClaimsNat DEF Claims
  <2>3. count'[b] = IF f = b THEN 1 ELSE count[b]
    BY <1>1, <1>2, <1>5
  <2>4. QED
    BY <1>3, <1>4, <1>5, <2>2, <2>3, ClaimsNat
<1>7. FreshInv'
  <2>1. ~needResync => \A i \in Slots : map[i] # f
    <3>1. ~needResync => UsesIn(map, Slots, f) = 0
      BY <1>4 DEF MapUses, Uses
    <3>2. QED
      BY <3>1, UsesZero
  <2>2. \A k \in DOMAIN outs : outs[k] # f
    BY <1>4, <1>5, TimesZero DEF OutUses
  <2>3. QED
    BY <1>1, <2>1, <2>2 DEF FreshInv
<1>8. PictureInv'
  BY <1>1, <1>3 DEF PictureInv, Keep
<1>9. ErrorInv' /\ HeaderInv'
  BY <1>1 DEF ErrorInv, HeaderInv, Holding
<1>10. QED
  BY <1>6, <1>7, <1>8, <1>9 DEF Keep

\* Clearing the map drops no claims: the slots had none if it is cleared.
LEMMA EmptiedUses ==
  ASSUME TypeOK
  PROVE  /\ \A b \in Bufs : Uses(Resynced(map, EmptyMap), b) = MapUses(b)
         /\ \A i \in Slots : \A b \in Bufs :
              Resynced(map, EmptyMap)[i] = b => ~needResync /\ map[i] = b
         /\ PictureInv => \A i \in Slots :
              Resynced(stored, Empty)[i] =
                IF Resynced(map, EmptyMap)[i] = NoBuf THEN NoFrame
                ELSE content[Resynced(map, EmptyMap)[i]]
<1>1. \A b \in Bufs : b # NoBuf
  BY RefsAssumption DEF Bufs, NoBuf
<1>2. CASE needResync
  <2>1. Resynced(map, EmptyMap) = EmptyMap /\ Resynced(stored, Empty) = Empty
    BY <1>2 DEF Resynced
  <2>2. \A i \in Slots : EmptyMap[i] = NoBuf /\ Empty[i] = NoFrame
    BY DEF EmptyMap, Empty
  <2>3. \A b \in Bufs : \A i \in Slots : EmptyMap[i] # b
    BY <1>1, <2>2
  <2>4. \A b \in Bufs : Uses(EmptyMap, b) = 0
    BY <2>3, UsesNone DEF Uses
  <2>5. \A b \in Bufs : MapUses(b) = 0
    BY <1>2 DEF MapUses
  <2>6. QED
    BY <2>1, <2>2, <2>3, <2>4, <2>5
<1>3. CASE ~needResync
  <2>1. Resynced(map, EmptyMap) = map /\ Resynced(stored, Empty) = stored
    BY <1>3 DEF Resynced
  <2>2. \A b \in Bufs : MapUses(b) = Uses(map, b)
    BY <1>3 DEF MapUses
  <2>3. QED
    BY <1>3, <2>1, <2>2 DEF PictureInv
<1>4. QED
  BY <1>2, <1>3

\* The reference of the new buffer moves to that of the slot, which may be the
\* same one if the slots are no longer counted.
LEMMA ShowExistingClaims ==
  ASSUME TypeOK, Keep, NEW i \in Slots, ShowExisting(i)
  PROVE  ClaimInv'
<1> DEFINE b == map[i]
           dropped == [count EXCEPT ![newFb] = IF @ > 0 THEN @ - 1 ELSE @]
           shownFb == [dropped EXCEPT ![b] = @ + 1]
           emptied == Resynced(map, EmptyMap)
           Base(c) == MapUses(c) + OutUses(c) + One(b = c)
<1>1. /\ phase = "obus" /\ seen = FALSE /\ b \in Bufs /\ newFb \in Bufs
      /\ count \in [Bufs -> Int] /\ count[b] >= 1 /\ isKey[b] \in BOOLEAN
  BY DEF ShowExisting, ReadsHeader, TypeOK, InFrame
<1>2. /\ newFb' = b /\ phase' = "done" /\ outs' = outs
      /\ header' = [existing |-> TRUE, reset |-> isKey[b], show |-> TRUE,
                    kind |-> "key"]
  BY DEF ShowExisting, client
<1>3. \A c : One(b = c) \in Nat /\ One(newFb = c) \in Nat
  BY DEF One
<1>4. \A c \in Bufs : \/ MapUses(c) + OutUses(c) + One(newFb = c) = 0
                      \/ count[c] >= MapUses(c) + OutUses(c) + One(newFb = c)
  <2>1. Certain
    BY <1>1, CertainFrame DEF Keep, InFrame
  <2>2. \A c \in Bufs : FrameUses(c) = One(newFb = c) /\ HoldClaims(c) = 0
    BY <1>1 DEF FrameUses, HoldClaims, Holding, InFrame, One
  <2>3. \A c \in Bufs : Claims(c) = MapUses(c) + OutUses(c) + One(newFb = c)
    BY <1>3, <2>2, ClaimsNat DEF Claims
  <2>4. QED
    BY <2>1, <2>3 DEF Keep, ClaimInv
<1>5. count[newFb] > 0
  BY <1>1, <1>4, ClaimsNat DEF One
<1>6. dropped \in [Bufs -> Int]
  BY <1>1, OneTakenType
<1>7. \A c \in Bufs : dropped[c] = count[c] - One(newFb = c)
  BY <1>1, <1>5 DEF One
<1> HIDE DEF dropped
<1>8. shownFb \in [Bufs -> Int]
  BY <1>6, OneTakenType
<1>9. \A c \in Bufs : shownFb[c] = dropped[c] + One(b = c)
  BY <1>1, <1>6 DEF One
<1> HIDE DEF shownFb, b
<1>10. \A c \in Bufs : Base(c) = 0 \/ shownFb[c] >= Base(c)
  <2> TAKE c \in Bufs
  <2>1. /\ MapUses(c) \in Nat /\ OutUses(c) \in Nat /\ count[c] \in Int
        /\ One(newFb = c) \in {0, 1}
    BY <1>1, ClaimsNat DEF One
  <2>2. shownFb[c] = count[c] - One(newFb = c) + One(b = c)
    BY <1>6, <1>7, <1>9
  <2>3. CASE MapUses(c) + OutUses(c) # 0
    BY <1>3, <1>4, <2>1, <2>2, <2>3
  <2>4. CASE MapUses(c) + OutUses(c) = 0
    <3>1. CASE b = c
      BY <1>1, <2>1, <2>2, <2>4, <3>1 DEF One
    <3>2. CASE b # c
      BY <2>4, <3>2 DEF One
    <3>3. QED
      BY <3>1, <3>2
  <2>5. QED
    BY <2>3, <2>4
<1>11. \A c \in Bufs : OutUses(c)' = OutUses(c) /\ FrameUses(c)' = One(b = c)
  BY <1>2 DEF OutUses, FrameUses, InFrame, One
<1>12. \A c \in Bufs : Uses(emptied, c) = MapUses(c)
  BY EmptiedUses
<1>13. CASE isKey[b] = TRUE
  <2>1. /\ count' = WithHolds(shownFb, emptied, Slots, b)
        /\ map' = emptied /\ refresh' = Slots /\ needResync' = FALSE
    BY <1>13, Zenon DEF ShowExisting, dropped, shownFb, b
  <2> HIDE DEF emptied
  <2>2. Holding'
    BY <1>2, <1>13 DEF Holding, GivesBack
  <2>3. Cardinality(Slots) \in Nat
    BY UsesType
  <2>4. SUFFICES ASSUME NEW c \in Bufs
                 PROVE  Claims(c)' = 0 \/ count'[c] >= Claims(c)'
    BY DEF ClaimInv
  <2> DEFINE H == MapUses(c) + (IF b = c THEN Cardinality(Slots) ELSE 0)
  <2>5. MapUses(c)' = MapUses(c) /\ HoldClaims(c)' = H
    BY <1>2, <1>12, <2>1, <2>2 DEF MapUses, HoldClaims
  <2>6. count'[c] = shownFb[c] + H
    <3>1. count'[c] = shownFb[c] + Uses(emptied, c)
                        + (IF c = b THEN Cardinality(Slots) ELSE 0)
      BY <2>1 DEF WithHolds
    <3>2. shownFb[c] \in Int /\ MapUses(c) \in Nat
      BY <1>8, ClaimsNat
    <3>3. QED
      BY <1>12, <2>3, <3>1, <3>2
  <2>7. H \in Nat /\ (Base(c) = 0 => H = 0)
    BY <1>3, <2>3, ClaimsNat DEF One
  <2>8. Base(c) \in Nat
    <3>1. MapUses(c) \in Nat /\ OutUses(c) \in Nat /\ One(b = c) \in Nat
      BY <1>3, ClaimsNat
    <3>2. QED
      BY <3>1
  <2>9. Claims(c)' = Base(c) + H
    <3>1. Claims(c)' = MapUses(c) + OutUses(c) + One(b = c) + H
      BY <1>11, <2>5 DEF Claims
    <3>2. QED
      BY <3>1
  <2> HIDE DEF H, Base
  <2>10. QED
    BY <1>8, <1>10, <2>6, <2>7, <2>8, <2>9
<1>14. CASE isKey[b] = FALSE
  <2>1. count' = shownFb /\ map' = map /\ needResync' = needResync
    BY <1>14, Zenon DEF ShowExisting, dropped, shownFb, b
  <2>2. ~Holding'
    BY <1>2, <1>14 DEF Holding, GivesBack
  <2>3. \A c \in Bufs : MapUses(c)' = MapUses(c) /\ HoldClaims(c)' = 0
    BY <2>1, <2>2 DEF MapUses, HoldClaims
  <2>4. \A c \in Bufs : Claims(c)' = Base(c)
    BY <1>3, <1>11, <2>3, ClaimsNat DEF Claims
  <2>5. QED
    BY <1>10, <2>1, <2>4 DEF ClaimInv
<1>15. QED
  BY <1>1, <1>13, <1>14

LEMMA ShowExistingKeeps ==
  ASSUME TypeOK, Keep, NEW i \in Slots, ShowExisting(i)
  PROVE  Keep'
<1> DEFINE b == map[i]
<1>1. /\ phase = "obus" /\ phase' = "done" /\ newFb' = b /\ current' = content[b]
      /\ ok' = ok /\ outs' = outs /\ shown' = shown /\ content' = content
      /\ header' = [existing |-> TRUE, reset |-> isKey[b], show |-> TRUE,
                    kind |-> "key"]
      /\ b \in Bufs /\ isKey[b] \in BOOLEAN
  BY DEF ShowExisting, ReadsHeader, client, TypeOK
<1>2. ok /\ Certain
  BY <1>1, CertainFrame DEF Keep, ErrorInv, InFrame
<1>3. \/ /\ isKey[b] = TRUE /\ refresh' = Slots /\ needResync' = FALSE
         /\ map' = Resynced(map, EmptyMap) /\ stored' = Resynced(stored, Empty)
         /\ nextMap' = NextMap(map', refresh', newFb')
      \/ /\ isKey[b] = FALSE /\ refresh' = {} /\ needResync' = needResync
         /\ map' = map /\ stored' = stored
  <2>1. CASE isKey[b] = TRUE
    BY <1>1, <2>1, Zenon DEF ShowExisting
  <2>2. CASE isKey[b] = FALSE
    BY <2>2, Zenon DEF ShowExisting
  <2>3. QED
    BY <1>1, <2>1, <2>2
<1>4. ErrorInv' /\ HeaderInv'
  BY <1>1, <1>2, <1>3 DEF ErrorInv, HeaderInv, Holding, GivesBack, InFrame
<1>5. FreshInv'
  BY <1>1 DEF FreshInv
<1>6. PictureInv'
  <2>1. \A k \in DOMAIN outs' : content'[outs'[k]] = shown'[k]
    BY <1>1, <1>2 DEF Keep, PictureInv
  <2>2. ~needResync' => \A s \in Slots :
          stored'[s] = IF map'[s] = NoBuf THEN NoFrame ELSE content'[map'[s]]
    <3>1. PictureInv
      BY DEF Keep
    <3>2. CASE isKey[b] = TRUE
      <4>1. map' = Resynced(map, EmptyMap) /\ stored' = Resynced(stored, Empty)
        BY <1>3, <3>2
      <4>2. QED
        BY <1>1, <3>1, <4>1, EmptiedUses
    <3>3. CASE isKey[b] = FALSE
      BY <1>1, <1>3, <3>1, <3>3 DEF PictureInv
    <3>4. QED
      BY <1>1, <3>2, <3>3
  <2>3. current' = content'[newFb']
    BY <1>1
  <2>4. QED
    BY <2>1, <2>2, <2>3 DEF PictureInv
<1>7. QED
  BY <1>4, <1>5, <1>6, ShowExistingClaims DEF Keep

\* A header that clears the map leaves the buffers to whoever counts them.
LEMMA CodedHeaderKeeps ==
  ASSUME TypeOK, Keep, NEW kind \in Kinds, NEW show \in BOOLEAN,
         NEW resilient \in BOOLEAN, CodedHeader(kind, show, resilient)
  PROVE  Keep'
<1>1. /\ phase = "obus" /\ seen = FALSE /\ phase' \in {"fill", "rest"}
      /\ newFb' = newFb /\ count' = count /\ ok' = ok /\ seen' = seen
      /\ outs' = outs /\ shown' = shown /\ content' = content
      /\ header'.existing = FALSE /\ newFb \in Bufs /\ needResync \in BOOLEAN
  BY DEF CodedHeader, ReadsHeader, pool, client, TypeOK, InFrame
<1>2. ok /\ Certain
  BY <1>1, CertainFrame DEF Keep, ErrorInv, InFrame
<1>3. \/ /\ needResync' = FALSE
         /\ map' = Resynced(map, EmptyMap) /\ stored' = Resynced(stored, Empty)
      \/ /\ needResync' = needResync /\ map' = map /\ stored' = stored
  <2>1. CASE kind = "inter"
    BY <2>1, Zenon DEF CodedHeader
  <2>2. CASE kind # "inter"
    BY <2>2, Zenon DEF CodedHeader
  <2>3. QED
    BY <2>1, <2>2
<1>4. ErrorInv' /\ HeaderInv'
  BY <1>1, <1>2, <1>3 DEF ErrorInv, HeaderInv, Holding, InFrame
<1>5. ~needResync' => /\ \A b \in Bufs : MapUses(b)' = MapUses(b)
                      /\ \A s \in Slots : map'[s] # newFb
                      /\ \A s \in Slots : stored'[s] =
                           IF map'[s] = NoBuf THEN NoFrame ELSE content[map'[s]]
  <2>1. FreshInv /\ PictureInv
    BY DEF Keep
  <2>2. ~needResync => \A s \in Slots : map[s] # newFb
    BY <1>1, <1>2, <2>1 DEF FreshInv
  <2>3. CASE /\ needResync' = FALSE
             /\ map' = Resynced(map, EmptyMap) /\ stored' = Resynced(stored, Empty)
    <3>1. \A b \in Bufs : MapUses(b)' = MapUses(b)
      BY <2>3, EmptiedUses DEF MapUses
    <3>2. \A s \in Slots : map'[s] # newFb
      BY <1>1, <2>2, <2>3, EmptiedUses
    <3>3. QED
      BY <2>1, <2>3, <3>1, <3>2, EmptiedUses
  <2>4. CASE needResync' = needResync /\ map' = map /\ stored' = stored
    BY <2>1, <2>2, <2>4 DEF MapUses, PictureInv
  <2>5. QED
    BY <1>3, <2>3, <2>4
<1>6. ClaimInv'
  <2> SUFFICES ASSUME Certain', NEW b \in Bufs
               PROVE  Claims(b)' = 0 \/ count'[b] >= Claims(b)'
    BY DEF ClaimInv
  <2>1. ~needResync'
    BY <1>1 DEF Certain
  <2>2. /\ MapUses(b)' = MapUses(b) /\ OutUses(b)' = OutUses(b)
        /\ FrameUses(b)' = FrameUses(b) /\ HoldClaims(b)' = HoldClaims(b)
    BY <1>1, <1>5, <2>1 DEF OutUses, FrameUses, HoldClaims, Holding, InFrame
  <2>3. Claims(b)' = Claims(b)
    BY <2>2 DEF Claims
  <2>4. QED
    BY <1>1, <1>2, <2>3 DEF Keep, ClaimInv
<1>7. FreshInv'
  <2>1. \A k \in DOMAIN outs : outs[k] # newFb
    BY <1>1, <1>2 DEF Keep, FreshInv
  <2>2. QED
    BY <1>1, <1>5, <2>1 DEF FreshInv
<1>8. PictureInv'
  <2>1. \A k \in DOMAIN outs : content[outs[k]] = shown[k]
    BY <1>2 DEF Keep, PictureInv
  <2>2. ~((phase' = "obus" /\ seen') \/ phase' = "done")
    BY <1>1
  <2>3. QED
    BY <1>1, <1>5, <2>1, <2>2 DEF PictureInv
<1>9. QED
  BY <1>4, <1>6, <1>7, <1>8 DEF Keep

LEMMA FillKeepsKeeps ==
  ASSUME TypeOK, Keep, FillKeeps \/ FillEnds
  PROVE  Keep'
<1>1. /\ phase = "fill" /\ phase' \in {"fill", "rest"}
      /\ newFb' = newFb /\ count' = count /\ ok' = ok /\ header' = header
      /\ map' = map /\ needResync' = needResync
      /\ outs' = outs /\ shown' = shown /\ content' = content /\ stored' = stored
  BY DEF FillKeeps, FillEnds, pool, refs, client, ghosts
<1>2. ErrorInv' /\ HeaderInv' /\ FreshInv'
  BY <1>1 DEF Keep, ErrorInv, HeaderInv, FreshInv, Certain, Holding, InFrame
<1>3. PictureInv'
  BY <1>1 DEF Keep, PictureInv, Certain
<1>4. \A b \in Bufs : Claims(b)' = Claims(b)
  <2> TAKE b \in Bufs
  <2>1. /\ MapUses(b)' = MapUses(b) /\ OutUses(b)' = OutUses(b)
        /\ FrameUses(b)' = FrameUses(b) /\ HoldClaims(b)' = HoldClaims(b)
    BY <1>1 DEF MapUses, OutUses, FrameUses, HoldClaims, Holding, InFrame
  <2>2. QED
    BY <2>1 DEF Claims
<1>5. ClaimInv'
  BY <1>1, <1>4 DEF Keep, ClaimInv, Certain
<1>6. QED
  BY <1>2, <1>3, <1>5 DEF Keep

\* The buffer of a grey frame is nobody else's, unless the slots are no longer
\* counted: then no header goes on.
LEMMA FillGreyKeeps ==
  ASSUME TypeOK, Keep, FillGrey
  PROVE  Keep'
<1> DEFINE released == Decrease(count, map[slot])
           g == FirstFree(released)
<1>1. /\ phase = "fill" /\ phase' = "fill"
      /\ newFb' = newFb /\ ok' = ok /\ header' = header
      /\ needResync' = needResync /\ outs' = outs /\ shown' = shown
      /\ newFb \in Bufs /\ outs \in Seq(Bufs)
  BY DEF FillGrey, client, TypeOK, InFrame
<1>2. /\ slot \in Slots /\ map \in [Slots -> Bufs \cup {NoBuf}]
      /\ \E c \in Bufs : released[c] = 0
      /\ count' = [released EXCEPT ![g] = 1]
      /\ map' = [map EXCEPT ![slot] = g]
      /\ content' = [content EXCEPT ![g] = Grey]
      /\ stored' = [stored EXCEPT ![slot] = Grey]
      /\ content \in [Bufs -> Frames] /\ stored \in [Slots -> Frames]
  <2>1. slot \in 0..NumSlots /\ slot < NumSlots /\ NumSlots \in Nat
    BY RefsAssumption DEF TypeOK, FillGrey
  <2>2. slot \in Slots
    BY <2>1 DEF Slots
  <2>3. QED
    BY <2>2 DEF FillGrey, TypeOK
<1>3. \A b \in Bufs : released[b] = count[b] - One(map[slot] = b)
  BY DEF Decrease, One
<1>4. released \in [Bufs -> Int] /\ count \in [Bufs -> Int]
  BY CountTypes DEF TypeOK
<1> HIDE DEF released
<1>5. g \in Bufs /\ released[g] = 0
  BY <1>2, FirstFreeIsFree
<1> HIDE DEF g
<1>6. ErrorInv' /\ HeaderInv'
  BY <1>1 DEF Keep, ErrorInv, HeaderInv, Holding, InFrame
<1>7. CASE needResync
  <2>1. ClaimInv' /\ FreshInv'
    BY <1>1, <1>7 DEF ClaimInv, FreshInv, Certain
  <2>2. PictureInv'
    BY <1>1, <1>7 DEF PictureInv, Certain
  <2>3. QED
    BY <1>6, <2>1, <2>2 DEF Keep
<1>8. CASE ~needResync
  <2>1. Certain
    BY <1>1, <1>8, CertainFrame DEF Keep, InFrame
  <2> DEFINE Others(b) == UsesIn(map, Slots \ {slot}, b)
  <2>2. \A b \in Bufs : /\ Others(b) \in Nat
                        /\ Uses(map, b) = One(map[slot] = b) + Others(b)
                        /\ Uses(map', b) = Others(b) + One(b = g)
    <3> TAKE b \in Bufs
    <3>1. map' = NextMap(map, {slot}, g)
      BY <1>2 DEF NextMap
    <3> DEFINE S == {slot}
    <3>2. S \in SUBSET Slots /\ Cardinality(S) = 1
      BY <1>2, FS_Singleton
    <3>3. UsesIn(map, S, b) = IF map[slot] = b THEN 1 ELSE 0
      BY <1>2, UsesSingle
    <3>4. map' = NextMap(map, S, g) /\ Others(b) = UsesIn(map, Slots \ S, b)
      BY <3>1
    <3> HIDE DEF S, Others
    <3>5. Uses(map, b) = UsesIn(map, S, b) + UsesIn(map, Slots \ S, b)
      BY <3>2, UsesSplit
    <3>6. Uses(NextMap(map, S, g), b)
            = UsesIn(map, Slots \ S, b) + (IF b = g THEN Cardinality(S) ELSE 0)
      BY <3>2, UsesNext
    <3>7. UsesIn(map, Slots \ S, b) \in Nat
      BY UsesType
    <3>8. QED
      BY <3>2, <3>3, <3>4, <3>5, <3>6, <3>7 DEF One
  <2>3. \A b \in Bufs : Others(b) = 0 => \A i \in Slots \ {slot} : map[i] # b
    BY UsesZero
  <2> HIDE DEF Others
  <2> DEFINE Left(b) == Others(b) + OutUses(b) + FrameUses(b)
  <2>4. \A b \in Bufs : OutUses(b) \in Nat /\ FrameUses(b) \in Nat /\ One(b = g) \in Nat
    BY ClaimsNat DEF One
  <2>5. \A b \in Bufs : Left(b) \in Nat
    BY <2>2, <2>4
  <2>6. \A b \in Bufs : Left(b) = 0 \/ released[b] >= Left(b)
    <3> TAKE b \in Bufs
    <3>1. HoldClaims(b) = 0 /\ MapUses(b) = Uses(map, b)
      BY <1>1, <1>8 DEF HoldClaims, Holding, MapUses
    <3>2. One(map[slot] = b) \in Nat
      BY DEF One
    <3>3. Claims(b) = Left(b) + One(map[slot] = b)
      BY <2>2, <2>4, <3>1, <3>2 DEF Claims
    <3>4. Claims(b) = 0 \/ count[b] >= Claims(b)
      BY <2>1 DEF Keep, ClaimInv
    <3>5. released[b] = count[b] - One(map[slot] = b) /\ count[b] \in Int
      BY <1>3, <1>4
    <3> HIDE DEF Left
    <3>6. QED
      BY <2>5, <3>2, <3>3, <3>4, <3>5
  <2>7. Left(g) = 0
    BY <1>5, <2>5, <2>6
  <2>8. Others(g) = 0 /\ OutUses(g) = 0 /\ FrameUses(g) = 0
    BY <1>5, <2>2, <2>4, <2>7
  <2>9. g # newFb
    BY <1>1, <2>8 DEF FrameUses, InFrame
  <2>10. \A k \in DOMAIN outs : outs[k] # g
    BY <1>1, <2>8, TimesZero DEF OutUses
  <2>11. \A i \in Slots \ {slot} : map[i] # g
    BY <1>5, <2>3, <2>8
  <2>12. FreshInv'
    <3>1. /\ \A i \in Slots : map[i] # newFb
          /\ \A k \in DOMAIN outs : outs[k] # newFb
      BY <1>1, <1>8, <2>1 DEF Keep, FreshInv
    <3>2. \A i \in Slots : map'[i] # newFb
      BY <1>2, <2>9, <3>1
    <3>3. QED
      BY <1>1, <3>1, <3>2 DEF FreshInv
  <2>13. PictureInv'
    <3>1. /\ \A k \in DOMAIN outs : content[outs[k]] = shown[k] /\ outs[k] \in Bufs
          /\ \A i \in Slots : stored[i] = IF map[i] = NoBuf THEN NoFrame
                                          ELSE content[map[i]]
      BY <1>1, <1>8, <2>1 DEF Keep, PictureInv
    <3>2. \A k \in DOMAIN outs : content'[outs[k]] = shown[k]
      BY <1>2, <2>10, <3>1
    <3>3. g # NoBuf
      BY <1>5, RefsAssumption DEF Bufs, NoBuf
    <3>4. \A i \in Slots : stored'[i] = IF map'[i] = NoBuf THEN NoFrame
                                        ELSE content'[map'[i]]
      <4> TAKE i \in Slots
      <4>1. CASE i = slot
        <5>1. map'[i] = g /\ stored'[i] = Grey /\ content'[g] = Grey
          BY <1>2, <1>5, <4>1
        <5>2. QED
          BY <3>3, <5>1
      <4>2. CASE i # slot
        <5>1. map'[i] = map[i] /\ stored'[i] = stored[i]
          BY <1>2, <4>2
        <5>2. map[i] # NoBuf => content'[map[i]] = content[map[i]]
          BY <1>2, <2>11, <4>2
        <5>3. QED
          BY <3>1, <5>1, <5>2
      <4>3. QED
        BY <4>1, <4>2
    <3>5. ~((phase' = "obus" /\ seen') \/ phase' = "done")
      BY <1>1
    <3>6. QED
      BY <1>1, <3>2, <3>4, <3>5 DEF PictureInv
  <2>14. ClaimInv'
    <3> SUFFICES ASSUME NEW b \in Bufs
                 PROVE  Claims(b)' = 0 \/ count'[b] >= Claims(b)'
      BY DEF ClaimInv
    <3>1. /\ MapUses(b)' = Uses(map', b) /\ OutUses(b)' = OutUses(b)
          /\ FrameUses(b)' = FrameUses(b) /\ HoldClaims(b)' = 0
      BY <1>1, <1>8 DEF MapUses, OutUses, FrameUses, HoldClaims, Holding, InFrame
    <3>2. Claims(b)' = Left(b) + One(b = g)
      BY <2>2, <2>4, <3>1 DEF Claims
    <3>3. count'[b] = IF b = g THEN 1 ELSE released[b]
      BY <1>2, <1>4, <1>5
    <3> HIDE DEF Left
    <3>4. CASE b = g
      BY <2>7, <3>2, <3>3, <3>4 DEF One
    <3>5. CASE b # g
      <4>1. Claims(b)' = Left(b)
        BY <2>5, <3>2, <3>5 DEF One
      <4>2. QED
        BY <2>6, <3>3, <3>5, <4>1
    <3>6. QED
      BY <3>4, <3>5
  <2>15. QED
    BY <1>6, <2>12, <2>13, <2>14 DEF Keep
<1>9. QED
  BY <1>7, <1>8

\* From the end of the header on the frame is written into a buffer that nobody
\* else has.
LEMMA HeaderDoneKeeps ==
  ASSUME TypeOK, Keep, HeaderDone
  PROVE  Keep'
<1>1. /\ phase = "rest" /\ phase' = "obus" /\ seen' = TRUE /\ ~needResync
      /\ count' = WithHolds(count, map, refresh, newFb)
      /\ map' = map /\ newFb' = newFb /\ refresh' = refresh /\ outs' = outs
      /\ shown' = shown /\ header' = header /\ ok' = ok
      /\ needResync' = needResync /\ stored' = stored
      /\ nextMap' = NextMap(map, refresh, newFb)
      /\ content' = [content EXCEPT ![newFb] = frames] /\ current' = frames
      /\ newFb \in Bufs /\ content \in [Bufs -> Frames] /\ count \in [Bufs -> Int]
      /\ outs \in Seq(Bufs)
  BY DEF HeaderDone, client, TypeOK, InFrame
<1>2. Certain
  BY <1>1, CertainFrame DEF Keep, InFrame
<1>3. /\ \A i \in Slots : map[i] # newFb
      /\ \A k \in DOMAIN outs : outs[k] # newFb
  BY <1>1, <1>2 DEF Keep, FreshInv
<1>4. ErrorInv' /\ HeaderInv' /\ FreshInv'
  BY <1>1, <1>3 DEF Keep, ErrorInv, HeaderInv, FreshInv, Holding, InFrame
<1>5. PictureInv'
  <2>1. /\ \A k \in DOMAIN outs : content[outs[k]] = shown[k] /\ outs[k] \in Bufs
        /\ \A i \in Slots : stored[i] = IF map[i] = NoBuf THEN NoFrame
                                        ELSE content[map[i]]
    BY <1>1, <1>2 DEF Keep, PictureInv
  <2>2. \A k \in DOMAIN outs : content'[outs[k]] = shown[k]
    BY <1>1, <1>3, <2>1
  <2>3. \A i \in Slots : stored[i] = IF map[i] = NoBuf THEN NoFrame
                                     ELSE content'[map[i]]
    BY <1>1, <1>3, <2>1
  <2>4. content'[newFb] = frames
    BY <1>1
  <2>5. QED
    BY <1>1, <2>2, <2>3, <2>4 DEF PictureInv
<1>6. ClaimInv'
  <2> SUFFICES ASSUME NEW b \in Bufs
               PROVE  Claims(b)' = 0 \/ count'[b] >= Claims(b)'
    BY DEF ClaimInv
  <2> DEFINE H == Uses(map, b) + (IF newFb = b THEN Cardinality(refresh) ELSE 0)
  <2>1. /\ MapUses(b)' = Uses(map, b) /\ OutUses(b)' = OutUses(b)
        /\ FrameUses(b)' = FrameUses(b) /\ HoldClaims(b)' = H
    BY <1>1 DEF MapUses, OutUses, FrameUses, HoldClaims, Holding, InFrame
  <2>2. HoldClaims(b) = 0 /\ MapUses(b) = Uses(map, b)
    BY <1>1 DEF HoldClaims, Holding, MapUses
  <2>3. count'[b] = count[b] + Uses(map, b)
                      + (IF b = newFb THEN Cardinality(refresh) ELSE 0)
    BY <1>1 DEF WithHolds
  <2>4. Claims(b) = 0 \/ count[b] >= Claims(b)
    BY <1>2 DEF Keep, ClaimInv
  <2>5. FrameUses(b) = IF newFb = b THEN 1 ELSE 0
    BY <1>1 DEF FrameUses, InFrame
  <2>6. count[b] \in Int
    BY <1>1
  <2>7. Claims(b) = Uses(map, b) + OutUses(b) + FrameUses(b)
    BY <2>2, ClaimsNat DEF Claims
  <2>8. Claims(b)' = Claims(b) + H
    BY <2>1, <2>7 DEF Claims
  <2>9. H \in Nat /\ Claims(b) \in Nat /\ (Claims(b) = 0 => H = 0)
    BY <2>5, <2>7, ClaimsNat
  <2>10. count'[b] = count[b] + H
    BY <2>3, <2>6, ClaimsNat
  <2> HIDE DEF H
  <2>11. QED
    BY <2>4, <2>6, <2>8, <2>9, <2>10
<1>7. QED
  BY <1>4, <1>5, <1>6 DEF Keep

\* A frame that is finished, or forgotten, claims no more than before.
LEMMA FrameEndKeeps ==
  ASSUME TypeOK, Keep, TilesDone \/ StrayDelimiter
  PROVE  Keep'
<1>1. /\ phase = "obus" /\ seen /\ phase' \in {"obus", "done"} /\ seen' = FALSE
      /\ count' = count /\ map' = map /\ newFb' = newFb /\ refresh' = refresh
      /\ nextMap' = nextMap /\ outs' = outs /\ shown' = shown /\ ok' = ok
      /\ header' = header /\ needResync' = needResync
      /\ content' = content /\ current' = current /\ stored' = stored
  BY DEF TilesDone, StrayDelimiter, pool, refs, client, ghosts
<1>2. Certain
  BY <1>1, CertainFrame DEF Keep, InFrame
<1>3. ErrorInv'
  BY <1>1 DEF Keep, ErrorInv, Holding, InFrame
<1>4. HeaderInv'
  BY <1>1 DEF Keep, HeaderInv, GivesBack
<1>5. FreshInv'
  BY <1>1, <1>2 DEF Keep, FreshInv
<1>6. PictureInv'
  BY <1>1, <1>2 DEF Keep, PictureInv
<1>7. ClaimInv'
  <2> SUFFICES ASSUME NEW b \in Bufs
               PROVE  Claims(b)' = 0 \/ count'[b] >= Claims(b)'
    BY DEF ClaimInv
  <2>1. /\ MapUses(b)' = MapUses(b) /\ OutUses(b)' = OutUses(b)
        /\ FrameUses(b)' = FrameUses(b)
        /\ HoldClaims(b)' = HoldClaims(b) \/ HoldClaims(b)' = 0
    BY <1>1 DEF MapUses, OutUses, FrameUses, HoldClaims, Holding, InFrame
  <2>2. Claims(b) = 0 \/ count[b] >= Claims(b)
    BY <1>2 DEF Keep, ClaimInv
  <2>3. count[b] \in Int
    BY DEF TypeOK
  <2>4. /\ Claims(b)' \in Nat /\ Claims(b) \in Nat /\ Claims(b)' <= Claims(b)
    BY <2>1, ClaimsNat DEF Claims
  <2>5. QED
    BY <1>1, <2>2, <2>3, <2>4
<1>8. QED
  BY <1>3, <1>4, <1>5, <1>6, <1>7 DEF Keep

LEMMA NoFrameKeeps ==
  ASSUME TypeOK, Keep, NoFrameFound
  PROVE  Keep'
<1>1. /\ phase = "obus" /\ seen = FALSE /\ phase' = "next"
      /\ count' = Decrease(count, newFb) /\ map' = map
      /\ outs' = outs /\ shown' = shown /\ ok' = ok /\ needResync' = needResync
      /\ content' = content /\ stored' = stored /\ count \in [Bufs -> Int]
  BY DEF NoFrameFound, ReadsHeader, Succeeded, client, ghosts, TypeOK
<1>2. ok /\ Certain
  BY <1>1, CertainFrame DEF Keep, ErrorInv, InFrame
<1>3. ErrorInv' /\ HeaderInv' /\ FreshInv'
  BY <1>1, <1>2 DEF ErrorInv, HeaderInv, FreshInv, Holding, InFrame
<1>4. PictureInv'
  BY <1>1, <1>2 DEF Keep, PictureInv
<1>5. ClaimInv'
  <2> SUFFICES ASSUME NEW b \in Bufs
               PROVE  Claims(b)' = 0 \/ count'[b] >= Claims(b)'
    BY DEF ClaimInv
  <2>1. /\ MapUses(b)' = MapUses(b) /\ OutUses(b)' = OutUses(b)
        /\ FrameUses(b)' = 0 /\ HoldClaims(b)' = 0 /\ HoldClaims(b) = 0
        /\ FrameUses(b) = One(newFb = b)
    BY <1>1 DEF MapUses, OutUses, FrameUses, HoldClaims, Holding, InFrame, One
  <2>2. Claims(b) = 0 \/ count[b] >= Claims(b)
    BY <1>2 DEF Keep, ClaimInv
  <2>3. count[b] \in Int /\ count'[b] = count[b] - One(newFb = b)
    BY <1>1 DEF Decrease, One
  <2>4. Claims(b) = Claims(b)' + One(newFb = b) /\ Claims(b)' \in Nat
        /\ One(newFb = b) \in Nat
    BY <2>1, ClaimsNat DEF Claims
  <2>5. QED
    BY <2>2, <2>3, <2>4
<1>6. QED
  BY <1>3, <1>4, <1>5 DEF Keep

LEMMA LeavesEnough ==
  ASSUME NEW D \in Nat, NEW T \in Nat, NEW R \in Nat, NEW o \in Nat, NEW f \in Nat,
         NEW c \in Int, D + T + o + f + D + T + R = 0 \/ c >= D + T + o + f + D + T + R
  PROVE  T + R + o + f = 0 \/ c - D - (D + T) >= T + R + o + f
OBVIOUS

\* What is left of the references when a finished frame has given back its own:
\* those of the new map, of the queue and of the frame.
LEMMA FinishLeaves ==
  ASSUME TypeOK, Keep, Finish, ~(Shows /\ Full), NEW b \in Bufs
  PROVE  LET left == MapUses(b)' + OutUses(b) + One(newFb = b)
         IN  /\ MapUses(b)' \in Nat
             /\ left = 0 \/ WithoutHolds(count, map)[b] >= left
<1> DEFINE w == WithoutHolds(count, map)
<1>1. /\ phase = "done" /\ refresh \in SUBSET Slots /\ needResync' = needResync
      /\ count[b] \in Int
  <2>1. Succeeded
    BY Zenon DEF Finish
  <2>2. QED
    BY <2>1 DEF Succeeded, Finish, TypeOK
<1>2. Certain
  BY <1>1, CertainFrame DEF Keep, InFrame
<1>3. Claims(b) = 0 \/ count[b] >= Claims(b)
  BY <1>2 DEF Keep, ClaimInv
<1>4. w[b] = count[b] - UsesIn(map, refresh, b)
                      - (IF GivesBack THEN Uses(map, b) ELSE 0)
  BY DEF WithoutHolds
<1>5. FrameUses(b) = One(newFb = b) /\ One(newFb = b) \in Nat
  BY <1>1 DEF FrameUses, InFrame, One
<1> HIDE DEF w
<1>6. CASE GivesBack
  <2>1. Holding /\ ~needResync
    BY <1>1, <1>6 DEF Keep, ErrorInv, Holding
  <2>2. map' = NextMap(map, refresh, newFb)
    <3>1. map' = nextMap
      BY <1>6, Zenon DEF Finish
    <3>2. QED
      BY <2>1, <3>1 DEF Keep, ErrorInv
  <2> DEFINE R == IF newFb = b THEN Cardinality(refresh) ELSE 0
             T == UsesIn(map, Slots \ refresh, b)
             D == UsesIn(map, refresh, b)
  <2>3. MapUses(b)' = T + R
    <3>1. Uses(NextMap(map, refresh, newFb), b)
            = UsesIn(map, Slots \ refresh, b)
              + (IF b = newFb THEN Cardinality(refresh) ELSE 0)
      <4>1. refresh \in SUBSET Slots
        BY <1>1
      <4>2. QED
        BY <4>1, UsesNext
    <3>2. MapUses(b)' = Uses(map', b)
      BY <1>1, <2>1 DEF MapUses
    <3>3. QED
      BY <2>2, <3>1, <3>2
  <2>4. Uses(map, b) = D + T
    BY <1>1, UsesSplit
  <2>5. MapUses(b) = Uses(map, b) /\ HoldClaims(b) = Uses(map, b) + R
    BY <2>1 DEF MapUses, HoldClaims
  <2>6. R \in Nat /\ T \in Nat /\ D \in Nat /\ OutUses(b) \in Nat
    BY ClaimsNat
  <2> HIDE DEF R, T, D
  <2>7. Claims(b) = D + T + OutUses(b) + One(newFb = b) + D + T + R
    BY <1>5, <2>4, <2>5, <2>6 DEF Claims
  <2>8. w[b] = count[b] - D - (D + T)
    BY <1>4, <1>6, <2>4 DEF D
  <2> DEFINE left == T + R + OutUses(b) + One(newFb = b)
  <2>9. left = 0 \/ w[b] >= left
    <3> DEFINE o == OutUses(b)
               f == One(newFb = b)
               c == count[b]
    <3>1. D + T + o + f + D + T + R = 0 \/ c >= D + T + o + f + D + T + R
      BY <1>3, <2>7
    <3>2. D \in Nat /\ T \in Nat /\ R \in Nat /\ o \in Nat /\ f \in Nat /\ c \in Int
      BY <1>1, <1>5, <2>6
    <3>3. left = T + R + o + f /\ w[b] = c - D - (D + T)
      BY <2>8
    <3> HIDE DEF o, f, c, left
    <3>4. T + R + o + f = 0 \/ c - D - (D + T) >= T + R + o + f
      BY <3>1, <3>2, LeavesEnough
    <3>5. QED
      BY <3>3, <3>4
  <2>10. /\ MapUses(b)' \in Nat
         /\ MapUses(b)' + OutUses(b) + One(newFb = b) = left
    BY <1>5, <2>3, <2>6
  <2> HIDE DEF left
  <2>11. QED
    BY <2>9, <2>10 DEF w
<1>7. CASE ~GivesBack
  <2>1. ~Holding /\ refresh = {}
    BY <1>1, <1>7 DEF Keep, HeaderInv, Holding
  <2>2. UsesIn(map, refresh, b) = 0
    BY <2>1, UsesNone
  <2>3. map' = map
    BY <1>7, Zenon DEF Finish
  <2>4. MapUses(b)' = MapUses(b) /\ HoldClaims(b) = 0
    BY <1>1, <2>1, <2>3 DEF MapUses, HoldClaims
  <2>5. Claims(b) = MapUses(b) + OutUses(b) + One(newFb = b)
    BY <1>5, <2>4, ClaimsNat DEF Claims
  <2>6. w[b] = count[b]
    BY <1>1, <1>4, <1>7, <2>2
  <2>7. QED
    BY <1>3, <2>4, <2>5, <2>6, ClaimsNat DEF w
<1>8. QED
  BY <1>6, <1>7

LEMMA FinishClaims ==
  ASSUME TypeOK, Keep, Finish, ~(Shows /\ Full)
  PROVE  ClaimInv'
<1> DEFINE w == WithoutHolds(count, map)
           Left(b) == MapUses(b)' + OutUses(b) + One(newFb = b)
<1>1. /\ phase = "done" /\ phase' = "next" /\ OutputStep(w) /\ newFb \in Bufs
      /\ outs \in Seq(Bufs) /\ (~OutputAll => Len(outs) <= 1)
      /\ w \in [Bufs -> Int]
  <2>1. Succeeded
    BY Zenon DEF Finish
  <2>2. refresh \in SUBSET Slots /\ count \in [Bufs -> Int]
    BY DEF TypeOK
  <2>3. w \in [Bufs -> Int]
    BY <2>2, CountTypes
  <2>4. QED
    BY <2>1, <2>3 DEF Succeeded, Finish, TypeOK, InFrame
<1>2. \A b \in Bufs : /\ MapUses(b)' \in Nat /\ OutUses(b) \in Nat
                      /\ One(newFb = b) \in Nat /\ w[b] \in Int
                      /\ Left(b) = 0 \/ w[b] >= Left(b)
  BY <1>1, FinishLeaves, ClaimsNat DEF One
<1> HIDE DEF w
<1>3. \A b \in Bufs : FrameUses(b)' = 0 /\ HoldClaims(b)' = 0
  BY <1>1 DEF FrameUses, HoldClaims, Holding, InFrame
<1>4. \A b \in Bufs : OutUses(b)' \in Nat
  BY FinishType, TimesType DEF OutUses, TypeOK
<1>5. SUFFICES ASSUME NEW b \in Bufs
               PROVE  \/ MapUses(b)' + OutUses(b)' = 0
                      \/ count'[b] >= MapUses(b)' + OutUses(b)'
  BY <1>2, <1>3, <1>4 DEF ClaimInv, Claims
<1>6. CASE Shows /\ OutputAll
  <2>1. outs' = Append(outs, newFb) /\ count' = w
    BY <1>1, <1>6, Zenon DEF OutputStep
  <2>2. OutUses(b)' = OutUses(b) + One(newFb = b)
    BY <1>1, <2>1, TimesAppend DEF OutUses
  <2>3. QED
    BY <1>2, <2>1, <2>2
<1>7. CASE Shows /\ ~OutputAll
  <2>1. /\ outs' = <<newFb>>
        /\ count' = IF outs = <<>> THEN w ELSE Decrease(w, outs[1])
    BY <1>1, <1>7, Zenon DEF OutputStep
  <2>2. OutUses(b)' = One(newFb = b)
    <3>1. <<newFb>> \in Seq(Bufs) /\ Len(<<newFb>>) = 1 /\ <<newFb>>[1] = newFb
      BY <1>1
    <3>2. QED
      BY <2>1, <3>1, TimesOne DEF OutUses
  <2>3. CASE outs = <<>>
    <3>1. OutUses(b) = 0
      BY <2>3, TimesEmpty DEF OutUses
    <3>2. QED
      BY <1>2, <2>1, <2>2, <2>3, <3>1
  <2>4. CASE outs # <<>>
    <3>1. Len(outs) = 1
      <4> DEFINE n == Len(outs)
      <4>1. n <= 1
        BY <1>1, <1>7
      <4>2. n \in Nat /\ n # 0
        BY <1>1, <2>4, EmptySeq
      <4> HIDE DEF n
      <4>3. n = 1
        BY <4>1, <4>2
      <4>4. QED
        BY <4>3 DEF n
    <3>2. OutUses(b) = One(outs[1] = b)
      BY <1>1, <3>1, TimesOne DEF OutUses
    <3>3. count'[b] = w[b] - OutUses(b)
      BY <2>1, <2>4, <3>2 DEF Decrease, One
    <3>4. QED
      BY <1>2, <2>2, <3>3
  <2>5. QED
    BY <2>3, <2>4
<1>8. CASE ~Shows
  <2>1. outs' = outs /\ count' = Decrease(w, newFb)
    BY <1>1, <1>8, Zenon DEF OutputStep, client
  <2>2. count'[b] = w[b] - One(newFb = b)
    BY <2>1 DEF Decrease, One
  <2>3. OutUses(b)' = OutUses(b)
    BY <2>1 DEF OutUses
  <2>4. QED
    BY <1>2, <2>2, <2>3
<1>9. QED
  BY <1>6, <1>7, <1>8

\* swap_frame_buffers() puts out the picture that was decoded.
LEMMA FinishPictures ==
  ASSUME TypeOK, Keep, Finish, ~(Shows /\ Full)
  PROVE  PictureInv'
<1>1. /\ phase = "done" /\ phase' = "next" /\ ok' = ok /\ needResync' = needResync
      /\ content' = content /\ newFb \in Bufs /\ content[newFb] = current
      /\ outs \in Seq(Bufs) /\ shown \in Seq(Frames) /\ Len(shown) = Len(outs)
      /\ current \in Frames /\ OutputStep(WithoutHolds(count, map))
  <2>1. Succeeded
    BY Zenon DEF Finish
  <2>2. phase = "done" /\ content' = content /\ OutputStep(WithoutHolds(count, map))
    BY DEF Finish
  <2>3. content[newFb] = current
    BY <2>2 DEF Keep, PictureInv
  <2>4. QED
    BY <2>1, <2>2, <2>3 DEF Succeeded, TypeOK, InFrame
<1>2. ok /\ Certain
  BY <1>1, CertainFrame DEF Keep, ErrorInv, InFrame
<1>3. \A k \in DOMAIN outs : content[outs[k]] = shown[k]
  BY <1>2 DEF Keep, PictureInv
<1>4. \A k \in DOMAIN outs' : content[outs'[k]] = shown'[k]
  <2>1. CASE Shows /\ OutputAll
    <3>1. outs' = Append(outs, newFb) /\ shown' = Append(shown, current)
      BY <1>1, <2>1, Zenon DEF OutputStep
    <3>2. QED
      BY <1>1, <1>3, <3>1
  <2>2. CASE Shows /\ ~OutputAll
    <3>1. outs' = <<newFb>> /\ shown' = <<current>>
      BY <1>1, <2>2, Zenon DEF OutputStep
    <3>2. QED
      BY <1>1, <3>1
  <2>3. CASE ~Shows
    <3>1. outs' = outs /\ shown' = shown
      BY <1>1, <2>3, Zenon DEF OutputStep, client
    <3>2. QED
      BY <1>3, <3>1
  <2>4. QED
    BY <2>1, <2>2, <2>3
<1>5. ~needResync => \A i \in Slots :
        stored'[i] = IF map'[i] = NoBuf THEN NoFrame ELSE content[map'[i]]
  <2> SUFFICES ASSUME ~needResync
               PROVE  \A i \in Slots :
                 stored'[i] = IF map'[i] = NoBuf THEN NoFrame ELSE content[map'[i]]
    OBVIOUS
  <2>1. \A i \in Slots : stored[i] = IF map[i] = NoBuf THEN NoFrame
                                     ELSE content[map[i]]
    BY DEF Keep, PictureInv
  <2>2. CASE GivesBack
    <3>1. /\ map' = nextMap
          /\ stored' = [i \in Slots |-> IF i \in refresh THEN current
                                                        ELSE stored[i]]
      BY <2>2, Zenon DEF Finish
    <3>2. nextMap = NextMap(map, refresh, newFb)
      BY <1>1, <2>2 DEF Keep, ErrorInv, Holding
    <3>3. newFb # NoBuf
      BY <1>1, RefsAssumption DEF Bufs, NoBuf
    <3>4. QED
      BY <1>1, <2>1, <3>1, <3>2, <3>3 DEF NextMap
  <2>3. CASE ~GivesBack
    <3>1. map' = map /\ stored' = stored
      BY <2>3, Zenon DEF Finish
    <3>2. QED
      BY <2>1, <3>1
  <2>4. QED
    BY <2>2, <2>3
<1>6. QED
  BY <1>1, <1>4, <1>5 DEF PictureInv

LEMMA FinishKeeps ==
  ASSUME TypeOK, Keep, Finish
  PROVE  Keep'
<1>1. CASE Shows /\ Full
  <2>1. Failed
    BY <1>1, Zenon DEF Finish
  <2>2. QED
    BY <2>1, FailedKeeps
<1>2. CASE ~(Shows /\ Full)
  <2>1. Succeeded /\ phase = "done"
    BY <1>2, Zenon DEF Finish
  <2>2. phase' = "next" /\ ok' = ok /\ ok
    BY <2>1 DEF Succeeded, Keep, ErrorInv, InFrame
  <2>3. ErrorInv' /\ HeaderInv' /\ FreshInv'
    BY <2>2 DEF ErrorInv, HeaderInv, FreshInv, Holding, InFrame
  <2>4. QED
    BY <1>2, <2>3, FinishClaims, FinishPictures DEF Keep
<1>3. QED
  BY <1>1, <1>2

LEMMA ErrorKeeps ==
  ASSUME Abandon \/ FillFails \/ Reject
  PROVE  Keep'
<1>1. Failed
  <2>1. CASE Abandon \/ Reject
    BY <2>1 DEF Abandon, Reject, Handler
  <2>2. CASE FillFails
    BY <2>2 DEF FillFails, Handler
  <2>3. QED
    BY <2>1, <2>2
<1>2. QED
  BY <1>1, FailedKeeps

LEMMA StutterKeeps ==
  ASSUME Keep, UNCHANGED vars
  PROVE  Keep'
<1>1. ErrorInv' /\ HeaderInv'
  BY DEF vars, pool, refs, client, Keep, ErrorInv, HeaderInv, Holding, GivesBack, Free
<1>2. FreshInv' /\ PictureInv'
  BY DEF vars, refs, client, ghosts, Keep, FreshInv, PictureInv, Certain
<1>3. \A b \in Bufs : Claims(b)' = Claims(b)
  BY DEF vars, refs, client, Claims, MapUses, OutUses, FrameUses, HoldClaims,
         Holding, GivesBack
<1>4. ClaimInv'
  BY <1>3 DEF vars, pool, Keep, ClaimInv, Certain
<1>5. QED
  BY <1>1, <1>2, <1>4 DEF Keep

LEMMA InitKeep == Init => Keep
<1> SUFFICES ASSUME Init PROVE Keep
  OBVIOUS
<1>1. /\ phase = "idle" /\ ok = TRUE /\ needResync = TRUE /\ outs = <<>>
      /\ seen = FALSE /\ count = [b \in Bufs |-> 0]
  BY DEF Init
<1>2. ErrorInv /\ HeaderInv /\ FreshInv
  BY <1>1 DEF ErrorInv, HeaderInv, FreshInv, Holding, InFrame
<1>3. PictureInv
  <2>1. DOMAIN outs = {}
    BY <1>1
  <2>2. QED
    BY <1>1, <2>1 DEF PictureInv
<1>4. ClaimInv
  <2>1. \A b \in Bufs : /\ MapUses(b) = 0 /\ OutUses(b) = 0
                        /\ FrameUses(b) = 0 /\ HoldClaims(b) = 0
    BY <1>1, TimesEmpty DEF MapUses, OutUses, FrameUses, HoldClaims, Holding, InFrame
  <2>2. QED
    BY <2>1 DEF ClaimInv, Claims
<1>5. QED
  BY <1>2, <1>3, <1>4 DEF Keep

LEMMA StepKeep ==
  ASSUME TypeOK, Keep, [Next]_vars
  PROVE  Keep'
<1>1. CASE Decode \/ Return \/ StartFails
  BY <1>1, CallKeeps
<1>2. CASE StartFrame
  BY <1>2, StartFrameKeeps
<1>3. CASE \E i \in Slots : ShowExisting(i)
  BY <1>3, ShowExistingKeeps
<1>4. CASE \E kind \in Kinds, show \in BOOLEAN, resilient \in BOOLEAN :
             CodedHeader(kind, show, resilient)
  BY <1>4, CodedHeaderKeeps
<1>5. CASE FillKeeps \/ FillEnds
  BY <1>5, FillKeepsKeeps
<1>6. CASE FillGrey
  BY <1>6, FillGreyKeeps
<1>7. CASE HeaderDone
  BY <1>7, HeaderDoneKeeps
<1>8. CASE TilesDone \/ StrayDelimiter
  BY <1>8, FrameEndKeeps
<1>9. CASE Finish
  BY <1>9, FinishKeeps
<1>10. CASE NoFrameFound
  BY <1>10, NoFrameKeeps
<1>11. CASE Abandon \/ FillFails \/ Reject
  BY <1>11, ErrorKeeps
<1>12. CASE UNCHANGED vars
  BY <1>12, StutterKeeps
<1>13. QED
  BY <1>1, <1>2, <1>3, <1>4, <1>5, <1>6, <1>7, <1>8, <1>9, <1>10, <1>11, <1>12
     DEF Next, Work, Headers

\* Whatever the stream: as long as nothing has gone wrong in a call, a buffer in
\* use has at least the references that are still going to be used or given
\* back, and pictures are where they are remembered to be.
THEOREM KeepInductive == Spec => []KeepInv
<1>1. Init => KeepInv
  BY InitType, InitKeep, KeepParts
<1>2. KeepInv /\ [Next]_vars => KeepInv'
  <2> SUFFICES ASSUME KeepInv, [Next]_vars
               PROVE  KeepInv'
    OBVIOUS
  <2>1. TypeOK' /\ Keep'
    BY KeepParts, StepType, StepKeep
  <2>2. QED
    BY <2>1 DEF KeepInv, Keep
<1>3. QED
  BY <1>1, <1>2, PTL DEF Spec

\* A buffer that is claimed is referenced.
LEMMA ClaimedIsCounted ==
  ASSUME KeepInv, Certain, NEW b \in Bufs, MapUses(b) # 0 \/ OutUses(b) # 0
  PROVE  count[b] >= 1
<1>1. Claims(b) = 0 \/ count[b] >= Claims(b)
  BY DEF KeepInv, ClaimInv
<1>2. Claims(b) \in Nat /\ Claims(b) # 0 /\ count[b] \in Int
  BY ClaimsNat DEF KeepInv, Claims, TypeOK
<1>3. QED
  BY <1>1, <1>2

\* Whatever errors came before, a frame put out by a call that succeeded keeps
\* its buffer and its picture, for any number of buffers, slots and layers.
THEOREM OutputsKept == Spec => []OutputsIntact
<1>1. KeepInv => OutputsIntact
  <2> SUFFICES ASSUME KeepInv, phase = "idle", ok, NEW k \in DOMAIN outs
               PROVE  content[outs[k]] = shown[k] /\ count[outs[k]] >= 1
    BY DEF OutputsIntact
  <2>1. Certain /\ outs \in Seq(Bufs)
    BY DEF Certain, KeepInv, TypeOK
  <2>2. content[outs[k]] = shown[k]
    BY <2>1 DEF KeepInv, PictureInv
  <2>3. outs[k] \in Bufs
    BY <2>1
  <2>4. OutUses(outs[k]) # 0
    BY <2>1, TimesZero DEF OutUses
  <2>5. QED
    BY <2>1, <2>2, <2>3, <2>4, ClaimedIsCounted
<1>2. QED
  BY <1>1, KeepInductive, PTL

\* Whatever errors came before, once the decoder is in sync again every slot has
\* the frame that was last stored in it, for any number of buffers and slots.
THEOREM SlotsKept == Spec => []SlotsIntact
<1>1. KeepInv => SlotsIntact
  <2> SUFFICES ASSUME KeepInv, ~needResync, NEW i \in Slots
               PROVE  IF map[i] = NoBuf THEN stored[i] = NoFrame
                      ELSE stored[i] = content[map[i]] /\ count[map[i]] >= 1
    BY DEF SlotsIntact
  <2>1. stored[i] = IF map[i] = NoBuf THEN NoFrame ELSE content[map[i]]
    BY DEF KeepInv, PictureInv
  <2>2. CASE map[i] # NoBuf
    <3>1. Certain
      BY DEF KeepInv, ErrorInv, Certain
    <3>2. map[i] \in Bufs
      BY <2>2 DEF KeepInv, TypeOK
    <3>3. MapUses(map[i]) # 0
      BY UsesZero DEF MapUses, Uses
    <3>4. QED
      BY <2>1, <2>2, <3>1, <3>2, <3>3, ClaimedIsCounted
  <2>3. QED
    BY <2>1, <2>2
<1>2. QED
  BY <1>1, KeepInductive, PTL

-----------------------------------------------------------------------------
(* Sound streams: the decoder implements RefStore.                         *)

\* What is known of a state when a sound stream is decoded.
Sane == TypeOK /\ Control /\ Exact /\ Keep

LEMMA StoreInit == Init => StoreInv
<1> SUFFICES ASSUME Init PROVE StoreInv
  OBVIOUS
<1>1. /\ phase = "idle" /\ ok /\ stored = Empty /\ frames = 0
      /\ content = [b \in Bufs |-> Grey]
  BY DEF Init
<1>2. One(Pending) = 0 /\ Grey = 0 /\ MaxFrames \in Nat
  BY <1>1, RefsAssumption DEF One, Pending, Grey
<1>3. \A i \in Slots : stored[i] <= frames - One(Pending)
  BY <1>1, <1>2 DEF Empty, NoFrame
<1>4. QED
  BY <1>1, <1>2, <1>3 DEF StoreInv, InFrame

\* Between frames.
LEMMA CallStore ==
  ASSUME Sane, StoreInv, Decode \/ Return \/ StartFrame \/ NoFrameFound
  PROVE  StoreInv'
<1>1. /\ frames \in Nat /\ frames <= MaxFrames /\ MaxFrames \in Nat /\ ok
      /\ stored \in [Slots -> Int] /\ moreData \in BOOLEAN
      /\ needResync => stored = Empty
      /\ \A b \in Bufs : content[b] >= Grey
      /\ \A i \in Slots : stored[i] <= frames - One(Pending)
  BY RefsAssumption DEF Sane, StoreInv, TypeOK, Frames
<1>2. /\ stored' = stored /\ content' = content /\ needResync' = needResync
      /\ ok' = TRUE \/ ok' = ok
  BY DEF Decode, Return, StartFrame, NoFrameFound, Succeeded, ghosts
<1>3. One(Pending) \in {0, 1} /\ One(Pending)' \in {0, 1}
  BY DEF One
<1>4. CASE Decode \/ Return \/ NoFrameFound
  <2>1. /\ frames' = frames /\ phase' \in {"idle", "next"}
        /\ phase' = "next" /\ moreData' => frames < MaxFrames
    <3>1. CASE Decode \/ NoFrameFound
      BY <3>1 DEF Decode, NoFrameFound, Succeeded
    <3>2. CASE Return
      BY <3>2 DEF Return
    <3>3. QED
      BY <1>4, <3>1, <3>2
  <2>2. One(Pending)' = 0
    BY <2>1 DEF One, Pending
  <2>3. \A i \in Slots : stored'[i] <= frames' - One(Pending)'
    BY <1>1, <1>2, <1>3, <2>1, <2>2
  <2>4. QED
    BY <1>1, <1>2, <2>1, <2>3 DEF StoreInv, InFrame
<1>5. CASE StartFrame
  <2>1. /\ phase = "next" /\ moreData /\ frames' = frames + 1 /\ phase' = "obus"
        /\ seen' = FALSE
    BY <1>5 DEF StartFrame
  <2>2. frames < MaxFrames
    BY <2>1 DEF StoreInv
  <2>3. One(Pending)' = 1
    BY <2>1 DEF One, Pending
  <2>4. \A i \in Slots : stored'[i] <= frames' - One(Pending)'
    BY <1>1, <1>2, <1>3, <2>1, <2>3
  <2>5. QED
    <3>1. frames' <= MaxFrames /\ frames' >= 1
      BY <1>1, <2>1, <2>2
    <3>2. \A b \in Bufs : content'[b] >= Grey
      BY <1>1, <1>2
    <3>3. ok' /\ (needResync' => stored' = Empty)
      BY <1>1, <1>2
    <3>4. phase' # "next" /\ phase' # "done" /\ ~seen'
      BY <2>1
    <3>5. QED
      BY <2>4, <3>1, <3>2, <3>3, <3>4 DEF StoreInv
<1>6. QED
  BY <1>4, <1>5

\* Up to the end of the header, and of the tiles.
LEMMA ShowExistingStore ==
  ASSUME Sane, StoreInv, ~Malformed, NEW i \in Slots, ShowExisting(i)
  PROVE  StoreInv' /\ stored' = stored
<1> DEFINE b == map[i]
<1>1. /\ b \in Bufs /\ needResync = FALSE /\ isKey[b] \in BOOLEAN
      /\ frames \in Nat /\ stored \in [Slots -> Int] /\ phase = "obus"
  BY InSync DEF Sane, Control, ShowExisting, ReadsHeader, TypeOK, Frames
<1>2. /\ phase' = "done" /\ current' = content[b] /\ ok' = ok
      /\ frames' = frames /\ content' = content
      /\ header' = [existing |-> TRUE, reset |-> isKey[b], show |-> TRUE,
                    kind |-> "key"]
  BY DEF ShowExisting
<1>3. /\ stored' = stored /\ needResync' = FALSE
      /\ isKey[b] => refresh' = Slots
  <2>1. CASE isKey[b] = TRUE
    <3>1. /\ stored' = Resynced(stored, Empty) /\ needResync' = FALSE
          /\ refresh' = Slots
      BY <2>1, Zenon DEF ShowExisting
    <3>2. QED
      BY <1>1, <3>1 DEF Resynced
  <2>2. CASE isKey[b] = FALSE
    <3>1. stored' = stored /\ needResync' = needResync
      BY <2>2, Zenon DEF ShowExisting
    <3>2. QED
      BY <1>1, <2>2, <3>1
  <2>3. QED
    BY <1>1, <2>1, <2>2
<1>4. stored[i] = content[b] /\ content[b] # NoFrame
  <2>1. stored[i] = content[b]
    BY <1>1, RefsAssumption DEF Sane, Keep, PictureInv, Bufs, NoBuf
  <2>2. content[b] >= 0
    BY <1>1 DEF StoreInv, Grey
  <2>3. QED
    BY <2>1, <2>2 DEF NoFrame
<1>5. /\ frames <= MaxFrames /\ ok /\ frames >= 1
      /\ \A c \in Bufs : content[c] >= Grey
      /\ \A s \in Slots : stored[s] <= frames - One(Pending)
  BY <1>1 DEF StoreInv, InFrame
<1>6. One(Pending) = 1 /\ One(Pending)' = 0
  BY <1>1, <1>2 DEF One, Pending
<1>7. \A s \in Slots : stored'[s] <= frames' - One(Pending)'
  BY <1>1, <1>2, <1>3, <1>5, <1>6
<1>8. QED
  BY <1>1, <1>2, <1>3, <1>4, <1>5, <1>7 DEF StoreInv

LEMMA CodedHeaderStore ==
  ASSUME Sane, StoreInv, NEW kind \in Kinds, NEW show \in BOOLEAN,
         NEW resilient \in BOOLEAN, CodedHeader(kind, show, resilient)
  PROVE  StoreInv' /\ stored' = stored
<1>1. /\ phase = "obus" /\ phase' \in {"fill", "rest"} /\ ok' = ok
      /\ frames' = frames /\ content' = content
  BY DEF CodedHeader, ReadsHeader
<1>2. stored' = stored /\ (needResync' => needResync)
  <2>1. CASE kind = "inter"
    BY <2>1, Zenon DEF CodedHeader
  <2>2. CASE kind # "inter"
    <3>1. stored' = Resynced(stored, Empty) /\ needResync' = FALSE
      BY <2>2, Zenon DEF CodedHeader
    <3>2. QED
      BY <3>1 DEF Resynced, StoreInv
  <2>3. QED
    BY <2>1, <2>2
<1>3. One(Pending) = 1 /\ One(Pending)' = 1
  BY <1>1 DEF One, Pending
<1>4. QED
  BY <1>1, <1>2, <1>3 DEF StoreInv, InFrame

LEMMA FrameStore ==
  ASSUME Sane, StoreInv, FillKeeps \/ FillEnds \/ HeaderDone \/ TilesDone
  PROVE  StoreInv'
<1>1. /\ ok' = ok /\ frames' = frames /\ stored' = stored /\ needResync' = needResync
      /\ header' = header /\ frames \in Nat
  BY DEF FillKeeps, FillEnds, HeaderDone, TilesDone, ghosts, Sane, TypeOK
<1>2. CASE FillKeeps \/ FillEnds
  <2>1. phase = "fill" /\ phase' \in {"fill", "rest"} /\ content' = content
    BY <1>2 DEF FillKeeps, FillEnds, ghosts
  <2>2. One(Pending) = 1 /\ One(Pending)' = 1
    BY <2>1 DEF One, Pending
  <2>3. QED
    BY <1>1, <2>1, <2>2 DEF StoreInv, InFrame
<1>3. CASE HeaderDone
  <2>1. /\ phase = "rest" /\ phase' = "obus" /\ current' = frames
        /\ content' = [content EXCEPT ![newFb] = frames]
        /\ content \in [Bufs -> Frames]
    BY <1>3 DEF HeaderDone, Sane, TypeOK
  <2>2. One(Pending) = 1 /\ One(Pending)' = 1
    BY <2>1 DEF One, Pending
  <2>3. \A b \in Bufs : content'[b] >= Grey
    BY <1>1, <2>1 DEF StoreInv, Grey
  <2>4. QED
    BY <1>1, <2>1, <2>2, <2>3 DEF StoreInv, InFrame
<1>4. CASE TilesDone
  <2>1. /\ phase = "obus" /\ seen /\ phase' = "done" /\ seen' = FALSE
        /\ content' = content /\ current' = current
    BY <1>4 DEF TilesDone, ghosts
  <2>2. header.existing = FALSE
    BY <2>1 DEF Sane, Keep, HeaderInv
  <2>3. One(Pending) = 1 /\ One(Pending)' = 1
    BY <1>1, <2>1, <2>2 DEF One, Pending
  <2>4. QED
    BY <1>1, <2>1, <2>2, <2>3 DEF StoreInv, InFrame
<1>5. QED
  BY <1>2, <1>3, <1>4

LEMMA FillGreyStore ==
  ASSUME Sane, StoreInv, FillGrey
  PROVE  /\ StoreInv' /\ slot \in Slots
         /\ stored' = [stored EXCEPT ![slot] = Grey]
<1>1. /\ phase = "fill" /\ phase' = "fill" /\ ok' = ok /\ frames' = frames
      /\ needResync' = needResync /\ stored' = [stored EXCEPT ![slot] = Grey]
      /\ frames \in Nat /\ stored \in [Slots -> Int] /\ content \in [Bufs -> Int]
  BY DEF FillGrey, Sane, TypeOK, Frames
<1>2. slot \in Slots
  <2>1. slot \in 0..NumSlots /\ slot < NumSlots /\ NumSlots \in Nat
    BY RefsAssumption DEF Sane, TypeOK, FillGrey
  <2>2. QED
    BY <2>1 DEF Slots
<1>3. ~needResync
  BY <1>1 DEF Sane, Control, ResyncInv
<1>4. \A b \in Bufs : content'[b] >= Grey
  <2>1. PICK g : content' = [content EXCEPT ![g] = Grey]
    BY DEF FillGrey
  <2>2. QED
    BY <1>1, <2>1 DEF StoreInv, Grey
<1>5. One(Pending) = 1 /\ One(Pending)' = 1
  BY <1>1 DEF One, Pending
<1>6. frames >= 1 /\ \A i \in Slots : stored[i] <= frames - 1
  BY <1>1, <1>5 DEF StoreInv, InFrame
<1>7. \A i \in Slots : stored'[i] <= frames' - One(Pending)'
  BY <1>1, <1>2, <1>5, <1>6 DEF Grey
<1>8. QED
  BY <1>1, <1>2, <1>3, <1>4, <1>6, <1>7 DEF StoreInv, InFrame

\* swap_frame_buffers(): a new frame is stored, or an old one shown again.
LEMMA FinishStore ==
  ASSUME Sane, StoreInv, Finish
  PROVE  /\ StoreInv'
         /\ current \in 0..MaxFrames
         /\ ~header.existing =>
              /\ current \in 1..MaxFrames /\ \A i \in Slots : stored[i] # current
              /\ stored' = [i \in Slots |-> IF i \in refresh THEN current
                                            ELSE stored[i]]
         /\ header.existing =>
              /\ \E i \in Slots : stored[i] = current
              /\ \/ stored' = stored
                 \/ stored' = [i \in Slots |-> current]
<1>1. /\ phase = "done" /\ frames \in Nat /\ stored \in [Slots -> Int]
      /\ content \in [Bufs -> Int] /\ newFb \in Bufs /\ MaxFrames \in Nat
      /\ refresh \subseteq Slots
      /\ header.existing \in BOOLEAN /\ header.reset \in BOOLEAN
  BY RefsAssumption DEF Finish, Sane, TypeOK, Frames, InFrame
<1>2. Succeeded
  <2>1. Shows => ~Full
    BY <1>1 DEF Sane, Control, ShowInv
  <2>2. QED
    BY <2>1, Zenon DEF Finish
<1>3. /\ phase' = "next" /\ ok' = ok /\ needResync' = needResync
      /\ frames' = frames /\ content' = content
      /\ moreData' => frames < MaxFrames
  BY <1>2 DEF Succeeded, Finish
<1>4. current = content[newFb] /\ current >= 0 /\ current \in Int
  <2>1. current = content[newFb]
    BY <1>1 DEF Sane, Keep, PictureInv
  <2>2. QED
    BY <1>1, <2>1 DEF StoreInv, Grey
<1>5. One(Pending)' = 0
  BY <1>3 DEF One, Pending
<1>6. /\ ok /\ frames <= MaxFrames /\ frames >= 1
      /\ \A b \in Bufs : content[b] >= Grey
      /\ \A i \in Slots : stored[i] <= frames - One(Pending)
      /\ needResync => stored = Empty
  BY <1>1 DEF StoreInv, InFrame
<1>7. ASSUME \A i \in Slots : stored'[i] <= frames, needResync => stored' = stored
      PROVE  StoreInv'
  <2>1. \A i \in Slots : stored'[i] <= frames' - One(Pending)'
    BY <1>1, <1>3, <1>5, <1>7
  <2>2. needResync' => stored' = Empty
    BY <1>3, <1>6, <1>7
  <2>3. QED
    BY <1>3, <1>6, <2>1, <2>2 DEF StoreInv, InFrame
<1>8. CASE ~header.existing
  <2>1. GivesBack /\ ~needResync
    <3>1. GivesBack
      BY <1>8 DEF GivesBack
    <3>2. QED
      BY <1>1, <3>1 DEF Sane, Keep, ErrorInv, Holding
  <2>2. stored' = [i \in Slots |-> IF i \in refresh THEN current ELSE stored[i]]
    BY <2>1, Zenon DEF Finish
  <2>3. current = frames /\ One(Pending) = 1
    BY <1>1, <1>8 DEF StoreInv, One, Pending
  <2>4. \A i \in Slots : stored[i] < current
    BY <1>1, <1>6, <2>3
  <2>5. StoreInv'
    BY <1>1, <1>7, <2>1, <2>2, <2>3, <2>4
  <2>6. current \in 1..MaxFrames /\ \A i \in Slots : stored[i] # current
    BY <1>1, <1>6, <2>3, <2>4
  <2>7. QED
    BY <1>1, <1>8, <2>2, <2>5, <2>6
<1>9. CASE header.existing
  <2>1. /\ header.reset => refresh = Slots
        /\ \E i \in Slots : stored[i] = current
    BY <1>1, <1>9 DEF StoreInv
  <2>2. One(Pending) = 0
    BY <1>1, <1>9 DEF One, Pending
  <2>3. /\ \A i \in Slots : stored[i] <= frames
        /\ current <= frames
    BY <1>1, <1>6, <2>1, <2>2
  <2>4. CASE header.reset
    <3>1. GivesBack
      BY <2>4 DEF GivesBack
    <3>2. ~needResync
      BY <1>1, <3>1 DEF Sane, Keep, ErrorInv, Holding
    <3>3. stored' = [i \in Slots |-> IF i \in refresh THEN current ELSE stored[i]]
      BY <3>1, Zenon DEF Finish
    <3>4. stored' = [i \in Slots |-> current]
      BY <2>1, <2>4, <3>3
    <3>5. StoreInv'
      BY <1>7, <2>3, <3>2, <3>4
    <3>6. QED
      BY <1>1, <1>4, <1>6, <1>9, <2>1, <2>3, <3>4, <3>5
  <2>5. CASE ~header.reset
    <3>1. ~GivesBack
      BY <1>9, <2>5 DEF GivesBack
    <3>2. stored' = stored
      BY <3>1, Zenon DEF Finish
    <3>3. StoreInv'
      BY <1>7, <2>3, <3>2
    <3>4. QED
      BY <1>1, <1>4, <1>6, <1>9, <2>1, <2>3, <3>2, <3>3
  <2>6. QED
    BY <2>4, <2>5
<1>10. QED
  BY <1>8, <1>9

\* The slots and the output of RefStore are what the decoder has been remembered
\* to store and to show.
Mirror ==
  /\ [i \in Slots |-> IF map[i] = NoBuf THEN NoFrame ELSE content[map[i]]] = stored
  /\ [k \in DOMAIN outs |-> content[outs[k]]] = shown

LEMMA Mirrored == Sane /\ StoreInv => Mirror
<1> SUFFICES ASSUME Sane, StoreInv PROVE Mirror
  OBVIOUS
<1>1. /\ stored \in [Slots -> Frames] /\ outs \in Seq(Bufs) /\ shown \in Seq(Frames)
      /\ Len(shown) = Len(outs)
  BY DEF Sane, TypeOK
<1>2. \A i \in Slots : stored[i] = IF map[i] = NoBuf THEN NoFrame ELSE content[map[i]]
  <2>1. CASE needResync
    BY <2>1 DEF Sane, Control, ResyncInv, StoreInv, EmptyMap, Empty
  <2>2. CASE ~needResync
    BY <2>2 DEF Sane, Keep, PictureInv
  <2>3. QED
    BY <2>1, <2>2
<1>3. \A k \in DOMAIN outs : content[outs[k]] = shown[k]
  <2>1. Certain
    BY DEF StoreInv, Sane, Control, ResyncInv, Certain
  <2>2. QED
    BY <2>1 DEF Sane, Keep, PictureInv
<1>4. DOMAIN outs = DOMAIN shown /\ shown = [k \in DOMAIN shown |-> shown[k]]
  BY <1>1
<1>5. [i \in Slots |-> IF map[i] = NoBuf THEN NoFrame ELSE content[map[i]]] = stored
  BY <1>1, <1>2
<1>6. [k \in DOMAIN outs |-> content[outs[k]]] = shown
  BY <1>3, <1>4
<1>7. QED
  BY <1>5, <1>6 DEF Mirror

LEMMA MirroredNext == Sane' /\ StoreInv' => Mirror'
BY Mirrored, PTL

LEMMA StoreStep ==
  ASSUME Sane, StoreInv, ~Malformed, [Next]_vars
  PROVE  StoreInv'
<1>1. CASE Decode \/ Return \/ StartFrame \/ NoFrameFound
  BY <1>1, CallStore
<1>2. CASE StartFails
  BY <1>2, FreeForFrame DEF StartFails, Sane
<1>3. CASE \E i \in Slots : ShowExisting(i)
  BY <1>3, ShowExistingStore
<1>4. CASE \E kind \in Kinds, show \in BOOLEAN, resilient \in BOOLEAN :
             CodedHeader(kind, show, resilient)
  BY <1>4, CodedHeaderStore
<1>5. CASE FillKeeps \/ FillEnds \/ HeaderDone \/ TilesDone
  BY <1>5, FrameStore
<1>6. CASE FillGrey
  BY <1>6, FillGreyStore
<1>7. CASE Finish
  BY <1>7, FinishStore
<1>8. CASE Abandon \/ FillFails \/ Reject \/ StrayDelimiter
  BY <1>8 DEF Abandon, FillFails, Reject, StrayDelimiter
<1>9. CASE UNCHANGED vars
  BY <1>9 DEF vars, refs, ghosts, StoreInv, Pending
<1>10. QED
  BY <1>1, <1>2, <1>3, <1>4, <1>5, <1>6, <1>7, <1>8, <1>9 DEF Next, Work, Headers

LEMMA SameStore ==
  ASSUME Mirror, Mirror', stored' = stored, shown' = shown
  PROVE  UNCHANGED Abstract!avars
BY DEF Mirror, Abstract!avars

\* A frame that is finished is stored and shown, or shown again.
LEMMA FinishRefines ==
  ASSUME Sane, StoreInv, Mirror, Mirror', Finish
  PROVE  Abstract!Store \/ Abstract!ShowAgain
<1> DEFINE S == [i \in Slots |-> IF map[i] = NoBuf THEN NoFrame ELSE content[map[i]]]
           O == [k \in DOMAIN outs |-> content[outs[k]]]
<1>1. S = stored /\ O = shown /\ S' = stored' /\ O' = shown'
  BY DEF Mirror
<1>2. Abstract!Slots = Slots
  BY DEF Abstract!Slots, Slots
<1>3. /\ Shows /\ OutputAll => shown' = Append(shown, current)
      /\ Shows /\ ~OutputAll => shown' = <<current>>
      /\ ~Shows => shown' = shown
  <2>1. Shows => ~Full
    BY DEF Sane, Control, ShowInv, Finish
  <2>2. OutputStep(WithoutHolds(count, map))
    BY DEF Finish
  <2>3. QED
    BY <2>1, <2>2, Zenon DEF OutputStep, client
<1>4. header.existing \in BOOLEAN /\ header.show \in BOOLEAN /\ refresh \in SUBSET Slots
  BY DEF Sane, TypeOK
<1>5. /\ current \in 0..MaxFrames
      /\ ~header.existing =>
           /\ current \in 1..MaxFrames /\ \A i \in Slots : stored[i] # current
           /\ stored' = [i \in Slots |-> IF i \in refresh THEN current ELSE stored[i]]
      /\ header.existing =>
           /\ \E i \in Slots : stored[i] = current
           /\ stored' = stored \/ stored' = [i \in Slots |-> current]
  BY FinishStore
<1>6. Abstract!Shown(current) = IF OutputAll THEN Append(O, current) ELSE <<current>>
  BY DEF Abstract!Shown
<1> HIDE DEF S, O
<1>7. CASE ~header.existing
  <2>1. O' \in {O, Abstract!Shown(current)}
    BY <1>1, <1>3, <1>6
  <2>2. /\ current \in 1..MaxFrames /\ refresh \in SUBSET Abstract!Slots
        /\ \A i \in Abstract!Slots : S[i] # current
        /\ S' = [i \in Abstract!Slots |-> IF i \in refresh THEN current ELSE S[i]]
    BY <1>1, <1>2, <1>4, <1>5, <1>7
  <2>3. QED
    BY <2>1, <2>2 DEF Abstract!Store, S, O
<1>8. CASE header.existing
  <2>1. PICK i \in Slots : stored[i] = current
    BY <1>5, <1>8
  <2>2. current # NoFrame
    BY <1>5 DEF NoFrame
  <2>3. Shows
    BY <1>8 DEF Shows
  <2>4. O' = Abstract!Shown(current)
    BY <1>1, <1>3, <1>6, <2>3
  <2>5. /\ i \in Abstract!Slots /\ S[i] = current /\ S[i] # NoFrame
        /\ S' \in {S, [j \in Abstract!Slots |-> S[i]]}
        /\ O' = Abstract!Shown(S[i])
    BY <1>1, <1>2, <1>5, <1>8, <2>1, <2>2, <2>4
  <2>6. QED
    BY <2>5 DEF Abstract!ShowAgain, S, O
<1>9. QED
  BY <1>4, <1>7, <1>8

\* Every other step puts a grey frame into a slot, releases what was put out, or
\* changes neither.
LEMMA StepRefines ==
  ASSUME Sane, StoreInv, ~Malformed, Mirror, Mirror', [Next]_vars
  PROVE  [Abstract!Store \/ Abstract!ShowAgain \/ Abstract!Substitute
            \/ Abstract!Release]_(Abstract!avars)
<1> DEFINE S == [i \in Slots |-> IF map[i] = NoBuf THEN NoFrame ELSE content[map[i]]]
           O == [k \in DOMAIN outs |-> content[outs[k]]]
<1>1. S = stored /\ O = shown /\ S' = stored' /\ O' = shown'
  BY DEF Mirror
<1>2. CASE Decode
  <2>1. O' = <<>> /\ S' = S
    BY <1>1, <1>2 DEF Decode, ghosts
  <2>2. QED
    BY <2>1 DEF Abstract!Release
<1>3. CASE Return \/ StartFrame \/ NoFrameFound \/ FillKeeps \/ FillEnds \/ HeaderDone
           \/ TilesDone \/ UNCHANGED vars
  <2>1. stored' = stored /\ shown' = shown
    BY <1>3 DEF Return, StartFrame, NoFrameFound, FillKeeps, FillEnds, HeaderDone,
                TilesDone, vars, ghosts, client
  <2>2. QED
    BY <2>1, SameStore
<1>4. CASE StartFails
  BY <1>4, FreeForFrame DEF StartFails, Sane
<1>5. CASE \E i \in Slots : ShowExisting(i)
  <2>1. stored' = stored
    BY <1>5, ShowExistingStore
  <2>2. shown' = shown
    BY <1>5 DEF ShowExisting, client
  <2>3. QED
    BY <2>1, <2>2, SameStore
<1>6. CASE \E kind \in Kinds, show \in BOOLEAN, resilient \in BOOLEAN :
             CodedHeader(kind, show, resilient)
  <2>1. stored' = stored
    BY <1>6, CodedHeaderStore
  <2>2. shown' = shown
    BY <1>6 DEF CodedHeader, client
  <2>3. QED
    BY <2>1, <2>2, SameStore
<1>7. CASE FillGrey
  <2>1. slot \in Slots /\ stored' = [stored EXCEPT ![slot] = Grey]
    BY <1>7, FillGreyStore
  <2>2. shown' = shown
    BY <1>7 DEF FillGrey, client
  <2>3. slot \in Abstract!Slots
    BY <2>1 DEF Abstract!Slots, Slots
  <2> HIDE DEF S, O
  <2>4. S' = [S EXCEPT ![slot] = Grey] /\ O' = O
    BY <1>1, <2>1, <2>2
  <2>5. QED
    BY <2>3, <2>4 DEF Abstract!Substitute, S, O
<1>8. CASE Finish
  BY <1>8, FinishRefines
<1>9. CASE Abandon \/ FillFails \/ Reject \/ StrayDelimiter
  BY <1>9 DEF Abandon, FillFails, Reject, StrayDelimiter
<1>10. QED
  BY <1>2, <1>3, <1>4, <1>5, <1>6, <1>7, <1>8, <1>9 DEF Next, Work, Headers

LEMMA InitRefines == Init => Abstract!AInit
<1> SUFFICES ASSUME Init PROVE Abstract!AInit
  OBVIOUS
<1>1. /\ map = EmptyMap /\ outs = <<>>
  BY DEF Init
<1>2. [i \in Slots |-> IF map[i] = NoBuf THEN NoFrame ELSE content[map[i]]]
        = [i \in Slots |-> NoFrame]
  BY <1>1 DEF EmptyMap
<1>3. [k \in DOMAIN outs |-> content[outs[k]]] = <<>>
  BY <1>1
<1>4. QED
  BY <1>2, <1>3 DEF Abstract!AInit, Abstract!Slots, Slots

\* For a sound stream the decoder implements RefStore: every slot has the frame
\* that was last stored in it, and what is put out stays as it was decoded until
\* the next call, for any number of buffers, slots and layers.
THEOREM Implements == ASSUME ~Malformed PROVE Spec => StoreRefinement
<1> DEFINE Inv == Sane /\ StoreInv
<1>1. Init => Inv
  BY InitType, InitControl, InitKeep, StoreInit DEF Sane
<1>2. Inv /\ [Next]_vars => Inv'
  <2> SUFFICES ASSUME Inv, [Next]_vars
               PROVE  Inv'
    OBVIOUS
  <2>1. TypeOK' /\ Control' /\ Exact' /\ Keep'
    BY StepType, StepControl, StepKeep DEF Sane
  <2>2. StoreInv'
    BY StoreStep
  <2>3. QED
    BY <2>1, <2>2 DEF Sane
<1>3. Inv /\ Inv' /\ [Next]_vars =>
        [Abstract!Store \/ Abstract!ShowAgain \/ Abstract!Substitute
           \/ Abstract!Release]_(Abstract!avars)
  BY Mirrored, MirroredNext, StepRefines
<1>4. Init => Abstract!AInit
  BY InitRefines
<1> HIDE DEF Inv
<1>5. QED
  BY <1>1, <1>2, <1>3, <1>4, PTL DEF Spec, StoreRefinement, Abstract!ASpec
=============================================================================
