-------------------------- MODULE ISO14443AProofs --------------------------
(***************************************************************************)
(* Proofs about the anticollision of ISO 14443-3 type A: for any number of *)
(* tags, any UIDs and any number of bits in a part.                        *)
(***************************************************************************)
EXTENDS ISO14443A, SequenceTheorems, FiniteSetTheorems, WellFoundedInduction, TLAPS

---------------------------------------------------------------------------
(* Collisions.                                                             *)

(* A set of numbers that is not empty has a least element. *)
LEMMA LeastOf ==
    ASSUME NEW T, T \subseteq Nat, T # {}
    PROVE  \E x \in T : \A y \in T : x <= y
<1> DEFINE R == OpToRel(<, Nat)
<1>1. IsWellFoundedOn(R, Nat)
  BY NatLessThanWellFounded, Zenon
<1>2. \A x, y \in Nat : y < x => <<y, x>> \in R
  BY DEF OpToRel
<1> HIDE DEF R
<1>3. PICK x \in T : \A y \in T : ~(<<y, x>> \in R)
  BY <1>1, WFMin
<1>4. ASSUME NEW y \in T PROVE x <= y
  <2>1. ~(y < x)
    BY <1>2, <1>3
  <2> QED BY <2>1
<1> QED BY <1>4

(* A set with more than one element has two different ones. *)
LEMMA DistinctOf ==
    ASSUME NEW S, Cardinality(S) > 1
    PROVE  \E x, y \in S : x # y
<1>1. Cardinality({}) = 0 /\ \A x : Cardinality({x}) = 1
  BY FS_EmptySet, FS_Singleton
<1>2. SUFFICES ASSUME \A x, y \in S : x = y PROVE FALSE
  OBVIOUS
<1>3. S = {} \/ \E x : S = {x}
  BY <1>2
<1>4. Cardinality(S) \in {0, 1}
  BY <1>1, <1>3
<1> QED BY <1>4

(* Parts of a UID that agree in every bit are equal. *)
LEMMA PartsEqual ==
    ASSUME NEW p \in Part, NEW q \in Part, \A i \in 1..UidBits : p[i] = q[i]
    PROVE  p = q
<1>1. p = [i \in 1..UidBits |-> p[i]] /\ q = [i \in 1..UidBits |-> q[i]]
  BY DEF Part
<1> QED BY <1>1

(* The parts of a UID, and that a part is a sequence of bits. *)
LEMMA UidParts ==
    ASSUME NEW t \in Tags
    PROVE  /\ UID[t] \in Seq(Part)
           /\ Len(UID[t]) \in Nat /\ Len(UID[t]) >= 1 /\ Len(UID[t]) <= 4
           /\ \A i \in 1..Len(UID[t]) : UID[t][i] \in Part
<1>1. UID[t] \in Seq(Part) /\ Len(UID[t]) \in 1..4
  BY UidAssumption
<1>2. \A n \in 1..4 : n \in Nat /\ n >= 1 /\ n <= 4
  OBVIOUS
<1> QED BY <1>1, <1>2, ElementOfSeq

(* Tags whose parts differ collide somewhere, and CollisionAt is the first *)
(* position at which they do: behind the bits in which they agree.         *)
LEMMA CollisionFound ==
    ASSUME NEW l \in 1..3, NEW S \in SUBSET Tags, \A t \in S : l <= Len(UID[t]),
           Cardinality({UID[t][l] : t \in S}) > 1,
           NEW n \in 0..UidBits, NEW bits, \A t \in S : \A i \in 1..n : UID[t][l][i] = bits[i]
    PROVE  CollisionAt(S, l) \in 1..UidBits /\ CollisionAt(S, l) > n
<1> DEFINE D == {i \in 1..UidBits : Differ(S, l, i)}
<1>0. UidBits \in Nat
  BY BitsAssumption
<1>1. PICK p \in {UID[t][l] : t \in S}, q \in {UID[t][l] : t \in S} : p # q
  BY DistinctOf, SMTT(30)
<1>2. PICK t \in S, u \in S : UID[t][l] # UID[u][l]
  BY <1>1
<1>3. UID[t][l] \in Part /\ UID[u][l] \in Part
  BY UidParts
<1>4. PICK i \in 1..UidBits : UID[t][l][i] # UID[u][l][i]
  BY <1>2, <1>3, PartsEqual
<1>5. D \subseteq Nat /\ i \in D
  BY <1>0, <1>4 DEF Differ
<1>6. PICK c \in D : \A j \in D : c <= j
  BY <1>5, LeastOf
<1>7. c \in 1..UidBits /\ Differ(S, l, c) /\ \A j \in 1..c - 1 : ~Differ(S, l, j)
  BY <1>0, <1>6
<1>8. CollisionAt(S, l) \in 1..UidBits /\ Differ(S, l, CollisionAt(S, l))
  BY <1>7 DEF CollisionAt
<1>9. CollisionAt(S, l) \notin 1..n
  BY <1>8 DEF Differ
<1> QED BY <1>0, <1>8, <1>9

(* Toggling a bit at random leaves a part of a UID. *)
LEMMA ToggleType ==
    ASSUME NEW b \in Part, NEW bit, NEW c \in rnd_toggle_bit_in_field(b, bit)
    PROVE  c \in Part
<1>1. PICK rnd \in Bit : c = [i \in 1..UidBits |-> IF i = bit /\ rnd = 1 THEN 1 - b[i] ELSE b[i]]
  BY DEF rnd_toggle_bit_in_field
<1>2. \A i \in 1..UidBits : b[i] \in {0, 1}
  BY DEF Part, Bit
<1>3. \A i \in 1..UidBits : (IF i = bit /\ rnd = 1 THEN 1 - b[i] ELSE b[i]) \in Bit
  BY <1>2 DEF Bit
<1> QED BY <1>1, <1>3 DEF Part

---------------------------------------------------------------------------
(* What the tags do.                                                       *)

TagState == [st : {"IDLE", "READY", "ACTIVE", "HALT"}, lvl : 1..4, halted : BOOLEAN]

(* No tag is at a level that its UID does not have, and an idle tag has    *)
(* not heard HLTA.                                                         *)
Sound(x, t) == x \in TagState /\ x.lvl <= Len(UID[t]) /\ (x.st = "IDLE" => ~x.halted)
TagsSound == tag \in [Tags -> TagState] /\ \A t \in Tags : Sound(tag[t], t)

(* Tags that are not addressed fall back to where they came from. *)
LEMMA RestEffect ==
    ASSUME NEW t \in Tags, NEW x \in TagState
    PROVE  Sound(Rest(x), t) /\ Rest(x).st \in {"IDLE", "HALT"}
<1>1. Len(UID[t]) >= 1
  BY UidParts
<1>2. Rest(x) = [st |-> IF x.halted THEN "HALT" ELSE "IDLE", lvl |-> 1, halted |-> x.halted]
  BY DEF Rest
<1>3. x.halted \in BOOLEAN
  BY DEF TagState
<1>4. Rest(x) \in TagState
  BY <1>2, <1>3, SMTT(30) DEF TagState
<1> QED BY <1>1, <1>2, <1>3, <1>4 DEF Sound

(* What REQA or WUPA does to a tag. *)
LEMMA WokenEffect ==
    ASSUME TagsSound
    PROVE  /\ Woken \in [Tags -> TagState]
           /\ \A t \in Tags :
                /\ Sound(Woken[t], t) /\ Woken[t].st # "ACTIVE"
                /\ Woken[t].st = "READY" => Woken[t].lvl = 1
                /\ Woken[t].st = "READY" /\ ~wup => ~Woken[t].halted
<1>1. ASSUME NEW t \in Tags
      PROVE  /\ Sound(Woken[t], t) /\ Woken[t].st # "ACTIVE"
             /\ Woken[t].st = "READY" => Woken[t].lvl = 1
             /\ Woken[t].st = "READY" /\ ~wup => ~Woken[t].halted
  <2>1. tag[t] \in TagState /\ (tag[t].st = "IDLE" => ~tag[t].halted)
    BY DEF TagsSound, Sound
  <2>2. CASE Wakes(t)
    <3>1. Woken[t] = [tag[t] EXCEPT !.st = "READY", !.lvl = 1]
      BY <2>2 DEF Woken
    <3>2. /\ Woken[t] \in TagState /\ Woken[t].st = "READY" /\ Woken[t].lvl = 1
          /\ Woken[t].halted = tag[t].halted
      <4>1. Woken[t] \in TagState
        <5>1. tag[t].halted \in BOOLEAN
          BY <2>1 DEF TagState
        <5>2. Woken[t] = [st |-> "READY", lvl |-> 1, halted |-> tag[t].halted]
          BY <2>1, <3>1 DEF TagState
        <5> QED BY <5>1, <5>2 DEF TagState
      <4> QED BY <2>1, <3>1, <4>1 DEF TagState
    <3>3. ~wup => tag[t].st = "IDLE"
      BY <2>2 DEF Wakes, SfCmd
    <3> QED BY <2>1, <3>2, <3>3, UidParts DEF Sound
  <2>3. CASE ~Wakes(t)
    <3>1. Woken[t] = Rest(tag[t])
      BY <2>3 DEF Woken
    <3> QED BY <2>1, <3>1, RestEffect
  <2> QED BY <2>2, <2>3
<1> QED BY <1>1 DEF Sound, Woken

(* What SELECT does to a tag. *)
LEMMA SelectedEffect ==
    ASSUME TagsSound, NEW l \in 1..3, NEW S \in SUBSET Tags,
           \A t \in S : tag[t].st = "READY" /\ tag[t].lvl = l
    PROVE  /\ Selected(S) \in [Tags -> TagState]
           /\ \A t \in Tags :
                /\ Sound(Selected(S)[t], t)
                /\ t \notin S => Selected(S)[t].st \in {"IDLE", "HALT"}
                /\ t \in S /\ Len(UID[t]) = l => Selected(S)[t].st = "ACTIVE"
                /\ t \in S /\ Len(UID[t]) # l =>
                      /\ Selected(S)[t].st = "READY" /\ Selected(S)[t].lvl = l + 1
                      /\ Selected(S)[t].halted = tag[t].halted
<1>1. ASSUME NEW t \in Tags
      PROVE  /\ Sound(Selected(S)[t], t)
             /\ t \notin S => Selected(S)[t].st \in {"IDLE", "HALT"}
             /\ t \in S /\ Len(UID[t]) = l => Selected(S)[t].st = "ACTIVE"
             /\ t \in S /\ Len(UID[t]) # l =>
                   /\ Selected(S)[t].st = "READY" /\ Selected(S)[t].lvl = l + 1
                   /\ Selected(S)[t].halted = tag[t].halted
  <2>1. tag[t] \in TagState /\ tag[t].lvl <= Len(UID[t])
    BY DEF TagsSound, Sound
  <2>2. CASE t \notin S
    BY <2>1, <2>2, RestEffect DEF Selected
  <2>3. CASE t \in S /\ Len(UID[t]) = l
    <3>1. Selected(S)[t] = [tag[t] EXCEPT !.st = "ACTIVE"]
      BY <2>3 DEF Selected
    <3> QED BY <2>1, <2>3, <3>1 DEF TagState, Sound
  <2>4. CASE t \in S /\ Len(UID[t]) # l
    <3>1. Selected(S)[t] = [tag[t] EXCEPT !.lvl = @ + 1]
      BY <2>4 DEF Selected
    <3>2. tag[t].lvl + 1 \in 1..4 /\ tag[t].lvl + 1 <= Len(UID[t])
      BY <2>1, <2>4, UidParts DEF TagState
    <3> QED BY <2>1, <2>4, <3>1, <3>2 DEF TagState, Sound
  <2> QED BY <2>2, <2>3, <2>4
<1> QED BY <1>1 DEF Sound, Selected

(* What HLTA does to a tag. *)
LEMMA HaltedEffect ==
    ASSUME TagsSound
    PROVE  Halted \in [Tags -> TagState] /\ \A t \in Tags : Sound(Halted[t], t)
<1>1. ASSUME NEW t \in Tags PROVE Sound(Halted[t], t)
  <2>1. tag[t] \in TagState
    BY DEF TagsSound
  <2>2. CASE tag[t].st = "ACTIVE"
    <3>1. Halted[t] = [st |-> "HALT", lvl |-> 1, halted |-> TRUE]
      BY <2>2 DEF Halted
    <3> QED BY <3>1, UidParts DEF Sound, TagState
  <2>3. CASE tag[t].st # "ACTIVE"
    BY <2>1, <2>3, RestEffect DEF Halted
  <2> QED BY <2>2, <2>3
<1> QED BY <1>1 DEF Sound, Halted

---------------------------------------------------------------------------
(* Types.                                                                  *)

Running == pc \in {"acf", "select"}
Ready(t) == tag[t].st = "READY"

(* While anticollision runs, the tags that take part in it are at the      *)
(* level it is at.                                                         *)
Climbing ==
    /\ hstate = "FREE" => pc = "none"
    /\ pc = "sf" => uid = <<>>
    /\ Running =>
          /\ level = acf.sel
          /\ Len(uid) <= IF acf.sel = 1 THEN 0 ELSE IF acf.sel = 2 THEN UidBits ELSE 2 * UidBits
          /\ \A t \in Tags : Ready(t) => tag[t].lvl = acf.sel

(* Each frame keeps the tags in states of the diagram. *)
LEMMA TagsSoundStep ==
    ASSUME TagsSound, NEW X \in [Tags -> TagState], \A t \in Tags : Sound(X[t], t),
           tag' \in {tag, X}
    PROVE  TagsSound'
  BY DEF TagsSound, Sound

(* The tags that an anticollision frame or a SELECT addresses are ready    *)
(* at its level and have its bits.                                         *)
LEMMA MatchingEffect ==
    ASSUME TagsSound, NEW l \in 1..3, NEW bits, NEW n
    PROVE  /\ Matching(l, bits, n) \in SUBSET Tags
           /\ \A t \in Matching(l, bits, n) :
                 /\ Ready(t) /\ tag[t].lvl = l /\ l <= Len(UID[t])
                 /\ \A i \in 1..n : UID[t][l][i] = bits[i]
  BY DEF Matching, Ready, TagsSound, Sound

(* The outcomes of an anticollision frame: an error, one tag's part, or    *)
(* more bits of it.                                                        *)
LEMMA transceive_acfEffect ==
    ASSUME TypeOK, TagsSound, transceive_acf
    PROVE  /\ pc = "acf" /\ UNCHANGED <<handle, tag, history, opens>>
           /\ \/ pc' = "none" /\ ret' = "err" /\ UNCHANGED acf
              \/ /\ pc' = "select" /\ UNCHANGED ret
                 /\ acf'.sel = acf.sel
                 /\ acf' \in [sel : 1..3, nvb : HdrBits..(HdrBits + UidBits), bits : Part]
              \/ /\ pc' = "acf" /\ UNCHANGED ret
                 /\ acf'.sel = acf.sel /\ acf'.nvb > acf.nvb
                 /\ acf' \in [sel : 1..3, nvb : HdrBits..(HdrBits + UidBits), bits : Part]
<1> DEFINE l == acf.sel
           n == acf.nvb - HdrBits
           S == Matching(l, acf.bits, n)
           p == CollisionAt(S, l)
           collides == Cardinality({UID[t][l] : t \in S}) > 1
<1>0. /\ HdrBits \in Nat /\ UidBits \in Nat /\ l \in 1..3 /\ n \in 0..UidBits
      /\ acf.nvb \in HdrBits..(HdrBits + UidBits)
      /\ acf \in [sel : 1..3, nvb : HdrBits..(HdrBits + UidBits), bits : Part]
  BY BitsAssumption DEF TypeOK
<1>1. pc = "acf" /\ UNCHANGED <<handle, history, opens>>
  BY DEF transceive_acf
<1>2. /\ S \in SUBSET Tags
      /\ \A t \in S : l <= Len(UID[t]) /\ \A i \in 1..n : UID[t][l][i] = acf.bits[i]
  BY <1>0, MatchingEffect
<1>3. \/ /\ tag' = tag /\ Return("err") /\ UNCHANGED acf
      \/ /\ S # {} /\ ~collides
         /\ acf' = [acf EXCEPT !.bits = UID[CHOOSE t \in S : TRUE][l],
                               !.nvb = HdrBits + UidBits]
         /\ pc' = "select" /\ UNCHANGED <<ret, tag, losses>>
      \/ /\ collides
         /\ \E rx \in Received(S, l, p - 1) :
               \E bits \in rnd_toggle_bit_in_field(rx, HdrBits + p) :
                  acf' = [acf EXCEPT !.bits = bits, !.nvb = code_nvb_bits(HdrBits + p)]
         /\ UNCHANGED <<pc, ret, tag, losses>>
  BY DEF transceive_acf, Fails
<1>4. CASE tag' = tag /\ Return("err") /\ UNCHANGED acf
  BY <1>1, <1>4 DEF Return
<1>5. CASE /\ S # {} /\ ~collides
           /\ acf' = [acf EXCEPT !.bits = UID[CHOOSE t \in S : TRUE][l],
                                 !.nvb = HdrBits + UidBits]
           /\ pc' = "select" /\ UNCHANGED <<ret, tag, losses>>
  <2>1. PICK t \in S : t = CHOOSE u \in S : TRUE
    BY <1>5
  <2>2. UID[t][l] \in Part
    BY <1>0, <1>2, <2>1, UidParts
  <2>3. acf' = [sel |-> l, nvb |-> HdrBits + UidBits, bits |-> UID[t][l]]
    BY <1>0, <1>5, <2>1
  <2> QED BY <1>0, <1>1, <1>5, <2>2, <2>3
<1>6. CASE /\ collides
           /\ \E rx \in Received(S, l, p - 1) :
                 \E bits \in rnd_toggle_bit_in_field(rx, HdrBits + p) :
                    acf' = [acf EXCEPT !.bits = bits, !.nvb = code_nvb_bits(HdrBits + p)]
           /\ UNCHANGED <<pc, ret, tag, losses>>
  <2>1. p \in 1..UidBits /\ p > n
    <3> HIDE DEF S, n
    <3> QED BY <1>0, <1>2, <1>6, CollisionFound
  <2>c. code_nvb_bits(HdrBits + p) = HdrBits + p
    <3> HIDE DEF p
    <3> QED BY <2>1, BitsAssumption DEF code_nvb_bits
  <2>2. PICK rx \in Part : \E bits \in rnd_toggle_bit_in_field(rx, HdrBits + p) :
               acf' = [acf EXCEPT !.bits = bits, !.nvb = HdrBits + p]
    BY <1>6, <2>c DEF Received
  <2> HIDE DEF p, S
  <2>3. PICK bits \in Part : acf' = [acf EXCEPT !.bits = bits, !.nvb = HdrBits + p]
    BY <2>2, ToggleType
  <2>4. acf' = [sel |-> l, nvb |-> HdrBits + p, bits |-> bits]
    BY <1>0, <2>3
  <2>5. HdrBits + p > acf.nvb /\ HdrBits + p \in HdrBits..(HdrBits + UidBits)
    BY <1>0, <2>1
  <2>6. /\ acf'.sel = l /\ acf'.nvb > acf.nvb
        /\ acf' \in [sel : 1..3, nvb : HdrBits..(HdrBits + UidBits), bits : Part]
    BY <1>0, <2>4, <2>5
  <2> QED BY <1>1, <1>6, <2>6
<1> QED BY <1>3, <1>4, <1>5, <1>6

(* The outcomes of SELECT: an error, the next level, or the end. *)
SelectFails(S) ==
    pc' = "none" /\ ret' = "err" /\ tag' \in {tag, Selected(S)} /\ UNCHANGED <<uid, level, uid_len, tcl>>
    /\ hstate' \in {hstate, "ERROR"} /\ UNCHANGED <<acf, history, wup>>

SelectCascades(t, S) ==
    /\ Len(UID[t]) > acf.sel /\ acf.sel \in 1..2
    /\ tag' = Selected(S) /\ uid' = uid \o Stored(acf.bits) /\ level' = acf.sel + 1
    /\ acf' = [acf EXCEPT !.sel = acf.sel + 1, !.nvb = HdrBits] /\ pc' = "acf"
    /\ UNCHANGED <<hstate, ret, uid_len, tcl, history, wup>>

SelectEnds(t, S) ==
    /\ Len(UID[t]) = acf.sel
    /\ tag' = Selected(S) /\ uid' = uid \o acf.bits /\ uid_len' = level /\ level' = 0
    /\ hstate' = "SELECTED" /\ tcl' = (t \in TclTags) /\ pc' = "none" /\ ret' = "ok"
    /\ history' = Append(history, t) /\ UNCHANGED <<acf, wup>>

(* SELECT fails, or one of the tags it addresses answers, and cascades     *)
(* or not.                                                                 *)
LEMMA SelectEffect ==
    ASSUME Select
    PROVE  LET S == Matching(acf.sel, acf.bits, UidBits)
           IN /\ pc = "select"
              /\ \/ SelectFails(S)
                 \/ \E t \in S : SelectCascades(t, S) \/ SelectEnds(t, S)
<1> DEFINE S == Matching(acf.sel, acf.bits, UidBits)
<1>1. CASE Fails(Selected(S)) \/ (S = {} /\ tag' = Selected(S) /\ UNCHANGED losses)
  BY <1>1 DEF Select, SelectFails, SelectCascades, SelectEnds, Fails, Return
<1>2. CASE ~(Fails(Selected(S)) \/ (S = {} /\ tag' = Selected(S) /\ UNCHANGED losses))
  BY <1>2 DEF Select, SelectFails, SelectCascades, SelectEnds, Return
<1> QED BY <1>1, <1>2

(* A function on 1..n is a sequence. *)
LEMMA FunctionIsSeq ==
    ASSUME NEW S, NEW n \in Nat, NEW f \in [1..n -> S]
    PROVE  f \in Seq(S) /\ Len(f) = n
<1>1. f \in Seq(S)
  BY SeqDef, Zenon
<1>2. Len(f) \in Nat /\ DOMAIN f = 1..Len(f)
  BY <1>1, LenProperties
<1>3. DOMAIN f = 1..n
  OBVIOUS
<1>4. Len(f) = n
  BY <1>2, <1>3
<1> QED BY <1>1, <1>4

(* A part is a sequence of UidBits bits. *)
LEMMA PartIsSeq ==
    ASSUME NEW p \in Part
    PROVE  /\ p \in Seq(Bit) /\ Len(p) = UidBits
           /\ Tail(p) \in Seq(Bit) /\ Len(Tail(p)) = UidBits - 1
<1>1. UidBits \in Nat /\ UidBits > 1
  BY BitsAssumption
<1>2. p \in Seq(Bit) /\ Len(p) = UidBits
  <2>1. p \in [1..UidBits -> Bit]
    BY DEF Part
  <2> QED BY <1>1, <2>1, FunctionIsSeq
<1>3. p # <<>>
  BY <1>1, <1>2
<1>4. Tail(p) \in Seq(Bit) /\ Len(Tail(p)) = Len(p) - 1
  BY <1>2, <1>3, HeadTailProperties
<1> QED BY <1>1, <1>2, <1>4

(* What the handle stores grows by a part, or by a part without the        *)
(* cascade tag.                                                            *)
LEMMA GrowingUid ==
    ASSUME NEW u \in Seq(Bit), NEW p \in Part
    PROVE  /\ u \o p \in Seq(Bit) /\ Len(u \o p) = Len(u) + UidBits
           /\ u \o Stored(p) \in Seq(Bit) /\ Len(u \o Stored(p)) = Len(u) + UidBits - 1
<1>1. /\ p \in Seq(Bit) /\ Len(p) = UidBits
      /\ Tail(p) \in Seq(Bit) /\ Len(Tail(p)) = UidBits - 1
  BY PartIsSeq
<1>2. Len(u) \in Nat /\ UidBits \in Nat
  BY BitsAssumption, LenProperties
<1>3. u \o p \in Seq(Bit) /\ Len(u \o p) = Len(u) + Len(p)
  BY <1>1, ConcatProperties
<1>4. u \o Tail(p) \in Seq(Bit) /\ Len(u \o Tail(p)) = Len(u) + Len(Tail(p))
  BY <1>1, ConcatProperties
<1>5. Len(u) + Len(Tail(p)) = Len(u) + UidBits - 1
  BY <1>1, <1>2
<1> QED BY <1>1, <1>3, <1>4, <1>5 DEF Stored

(* The outcomes of REQA or WUPA: an error, or anticollision begins.        *)
LEMMA transceive_sfEffect ==
    ASSUME transceive_sf
    PROVE  /\ pc = "sf" /\ UNCHANGED <<uid, uid_len, tcl, wup, history, opens>>
           /\ \/ /\ pc' = "none" /\ ret' = "err" /\ tag' \in {tag, Woken}
                 /\ hstate' \in {"REQA_SENT", "NO_BITFRAME_ANTICOL"}
                 /\ UNCHANGED <<level, acf>>
              \/ /\ pc' = "acf" /\ UNCHANGED ret /\ tag' = Woken
                 /\ hstate' = "ANTICOL_RUNNING" /\ level' = 1
                 /\ acf' = [acf EXCEPT !.sel = 1, !.nvb = HdrBits]
  BY DEF transceive_sf, Return, Fails

BaseInv == TypeOK /\ TagsSound /\ Climbing

(* Each step keeps the types and the progress of the loop. *)
LEMMA BaseStep == BaseInv /\ [Next]_vars => BaseInv'
<1> SUFFICES ASSUME TypeOK, TagsSound, Climbing, [Next]_vars
             PROVE  TypeOK' /\ TagsSound' /\ Climbing'
  BY DEF BaseInv
<1> DEFINE Acf == [sel : 1..3, nvb : HdrBits..(HdrBits + UidBits), bits : Part]
<1>0. /\ HdrBits \in Nat /\ UidBits \in Nat /\ UidBits > 1
      /\ Len(uid) \in Nat /\ uid \in Seq(Bit) /\ Len(uid) <= 3 * UidBits
      /\ acf \in Acf
  BY BitsAssumption, LenProperties DEF TypeOK
<1>a. ASSUME UNCHANGED tag PROVE TagsSound'
  BY <1>a DEF TagsSound, Sound
<1>b. TagsSound' => tag' \in [Tags -> [st : {"IDLE", "READY", "ACTIVE", "HALT"}, lvl : 1..4,
                                      halted : BOOLEAN]]
  BY DEF TagsSound, TagState
<1>c. Len(<<>>) = 0 /\ <<>> \in Seq(Bit) /\ 0 <= 3 * UidBits
  BY <1>0
<1>d. NoAcf \in Acf
  <2>1. NoBits \in Part
    BY DEF NoBits, Part, Bit
  <2>2. HdrBits \in HdrBits..(HdrBits + UidBits)
    BY <1>0
  <2> QED BY <2>1, <2>2 DEF NoAcf
<1>e. \A s \in 1..3 : [acf EXCEPT !.sel = s, !.nvb = HdrBits] \in Acf
  <2>1. HdrBits \in HdrBits..(HdrBits + UidBits)
    BY <1>0
  <2> QED BY <1>0, <2>1
<1> HIDE DEF Acf
<1>1. CASE iso14443a_init
  <2>1. tcl' \in BOOLEAN /\ wup' \in BOOLEAN
    BY <1>1 DEF iso14443a_init
  <2>2. UNCHANGED <<tag, pc, acf>>
    BY <1>1 DEF iso14443a_init
  <2>3. TypeOK'
    BY <1>1, <1>c, <2>1 DEF iso14443a_init, TypeOK
  <2>4. Climbing'
    BY <1>1, <2>2 DEF iso14443a_init, Climbing, Running
  <2> QED BY <1>a, <2>2, <2>3, <2>4
<1>2. CASE iso14443a_fini
  <2>1. UNCHANGED <<level, uid, uid_len, tcl, wup, pc, acf, ret, tag>> /\ hstate' = "FREE"
    BY <1>2 DEF iso14443a_fini
  <2>2. pc = "none"
    BY <1>2 DEF iso14443a_fini
  <2> QED BY <1>a, <2>1, <2>2 DEF TypeOK, Climbing, Running
<1>3. ASSUME NEW v \in {"NULL", "0", "1"}, iso14443a_setopt(v)
      PROVE  TypeOK' /\ TagsSound' /\ Climbing'
  <2>1. UNCHANGED <<level, uid, uid_len, tcl, hstate, pc, acf, ret, tag>>
    BY <1>3 DEF iso14443a_setopt
  <2>2. wup' \in BOOLEAN
    BY <1>3 DEF iso14443a_setopt
  <2> QED BY <1>a, <2>1, <2>2 DEF TypeOK, Climbing, Running, Ready
<1>4. CASE Open
  <2>1. UNCHANGED <<hstate, level, uid_len, tcl, wup, ret, tag>> /\ uid' = <<>>
        /\ acf' = NoAcf /\ pc' = "sf"
    BY <1>4 DEF Open
  <2>2. TypeOK'
    BY <1>c, <1>d, <2>1 DEF TypeOK, Acf
  <2>3. Climbing'
    BY <1>4, <2>1 DEF Open, Climbing, Running
  <2> QED BY <1>a, <2>1, <2>2, <2>3
<1>5. CASE iso14443a_hlta
  <2>1. UNCHANGED <<handle, pc, acf>> /\ pc = "none" /\ ret' = "closed" /\ tag' \in {tag, Halted}
    BY <1>5 DEF iso14443a_hlta, Fails
  <2>2. TagsSound'
    BY <2>1, HaltedEffect, TagsSoundStep
  <2>3. TypeOK'
    BY <1>b, <2>1, <2>2 DEF TypeOK, handle
  <2> QED BY <2>1, <2>2, <2>3 DEF Climbing, Running
<1>6. CASE transceive_sf
  <2>1. TagsSound'
    BY <1>6, transceive_sfEffect, WokenEffect, TagsSoundStep
  <2>2. UNCHANGED <<uid, uid_len, tcl, wup>> /\ pc = "sf"
    BY <1>6, transceive_sfEffect
  <2>3. CASE /\ pc' = "none" /\ ret' = "err" /\ UNCHANGED <<level, acf>>
             /\ hstate' \in {"REQA_SENT", "NO_BITFRAME_ANTICOL"}
    BY <1>b, <2>1, <2>2, <2>3 DEF TypeOK, Climbing, Running
  <2>4. CASE /\ pc' = "acf" /\ UNCHANGED ret /\ tag' = Woken
             /\ hstate' = "ANTICOL_RUNNING" /\ level' = 1
             /\ acf' = [acf EXCEPT !.sel = 1, !.nvb = HdrBits]
    <3>1. acf' \in Acf /\ acf'.sel = 1
      BY <1>0, <1>e, <2>4 DEF Acf
    <3>2. TypeOK'
      BY <1>b, <2>1, <2>2, <2>4, <3>1 DEF TypeOK, Acf
    <3>3. uid' = <<>>
      BY <2>2 DEF Climbing
    <3>4. \A t \in Tags : Ready(t)' => tag'[t].lvl = 1
      BY <2>4, WokenEffect DEF Ready
    <3> QED BY <1>c, <2>1, <2>4, <3>1, <3>2, <3>3, <3>4 DEF Climbing
  <2> QED BY <1>6, <2>3, <2>4, transceive_sfEffect
<1>7. CASE transceive_acf
  <2>1. /\ pc = "acf" /\ UNCHANGED <<handle, tag>> /\ acf'.sel = acf.sel
        /\ pc' \in {"none", "select", "acf"} /\ ret' \in {ret, "err"} /\ acf' \in Acf
    BY <1>0, <1>7, transceive_acfEffect DEF Acf
  <2>2. TagsSound'
    BY <1>a, <2>1
  <2>3. TypeOK'
    BY <1>b, <2>1, <2>2 DEF TypeOK, handle, Acf
  <2>4. Climbing'
    BY <2>1 DEF Climbing, Running, Ready, handle
  <2> QED BY <2>2, <2>3, <2>4
<1>8. CASE Select
  <2> DEFINE S == Matching(acf.sel, acf.bits, UidBits)
  <2>0. /\ pc = "select" /\ level = acf.sel /\ acf.sel \in 1..3 /\ acf.bits \in Part
        /\ Len(uid) <= IF acf.sel = 1 THEN 0 ELSE IF acf.sel = 2 THEN UidBits ELSE 2 * UidBits
    BY <1>0, <1>8, SelectEffect DEF Climbing, Running, Acf
  <2>1. S \in SUBSET Tags /\ \A t \in S : tag[t].st = "READY" /\ tag[t].lvl = acf.sel
    BY <2>0, MatchingEffect DEF Ready
  <2>2. SelectFails(S) \/ \E t \in S : SelectCascades(t, S) \/ SelectEnds(t, S)
    BY <1>8, SelectEffect
  <2> HIDE DEF S
  <2>3. /\ Selected(S) \in [Tags -> TagState]
        /\ \A t \in Tags : /\ Sound(Selected(S)[t], t)
                           /\ Selected(S)[t].st = "READY" => Selected(S)[t].lvl = acf.sel + 1
    BY <2>0, <2>1, SelectedEffect
  <2>4. tag' \in {tag, Selected(S)}
    BY <2>2 DEF SelectFails, SelectCascades, SelectEnds
  <2>5. TagsSound'
    BY <2>3, <2>4, TagsSoundStep
  <2>6. CASE SelectFails(S)
    BY <1>b, <2>5, <2>6 DEF SelectFails, TypeOK, Climbing, Running
  <2>7. ASSUME NEW t \in S, SelectCascades(t, S) PROVE TypeOK' /\ Climbing'
    <3>1. uid' \in Seq(Bit) /\ Len(uid') = Len(uid) + UidBits - 1
      BY <1>0, <2>0, <2>7, GrowingUid DEF SelectCascades
    <3>2. Len(uid') <= IF acf.sel = 1 THEN UidBits ELSE 2 * UidBits
      BY <1>0, <2>0, <2>7, <3>1 DEF SelectCascades
    <3>3. /\ acf' = [acf EXCEPT !.sel = acf.sel + 1, !.nvb = HdrBits] /\ acf.sel \in 1..2
          /\ level' = acf.sel + 1 /\ pc' = "acf" /\ tag' = Selected(S)
          /\ UNCHANGED <<hstate, ret, uid_len, tcl, wup>>
      BY <2>7 DEF SelectCascades
    <3>4. acf' \in Acf /\ acf'.sel = acf.sel + 1
      <4>1. acf.sel + 1 \in 1..3
        BY <3>3
      <4> QED BY <1>0, <1>e, <3>3, <4>1 DEF Acf
    <3>5. Len(uid') <= 3 * UidBits /\ level' \in 0..3
      BY <1>0, <3>1, <3>2, <3>3
    <3>6. TypeOK'
      BY <1>b, <2>5, <3>1, <3>3, <3>4, <3>5 DEF TypeOK, Acf
    <3>7. Len(uid') <= IF acf'.sel = 1 THEN 0 ELSE IF acf'.sel = 2 THEN UidBits ELSE 2 * UidBits
      BY <3>2, <3>3, <3>4
    <3>8. \A u \in Tags : Ready(u)' => tag'[u].lvl = acf'.sel
      BY <2>3, <3>3, <3>4 DEF Ready
    <3> QED BY <2>0, <3>3, <3>4, <3>6, <3>7, <3>8 DEF Climbing, Running
  <2>8. ASSUME NEW t \in S, SelectEnds(t, S) PROVE TypeOK' /\ Climbing'
    <3>1. uid' \in Seq(Bit) /\ Len(uid') = Len(uid) + UidBits
      BY <1>0, <2>0, <2>8, GrowingUid DEF SelectEnds
    <3>2. Len(uid') <= 3 * UidBits
      BY <1>0, <2>0, <3>1
    <3>3. /\ uid_len' = level /\ level' = 0 /\ hstate' = "SELECTED" /\ pc' = "none" /\ ret' = "ok"
          /\ UNCHANGED <<acf, wup>>
      BY <2>8 DEF SelectEnds
    <3>4. tcl' \in BOOLEAN
      BY <2>8 DEF SelectEnds
    <3>5. TypeOK'
      BY <1>b, <2>0, <2>5, <3>1, <3>2, <3>3, <3>4 DEF TypeOK
    <3> QED BY <3>3, <3>5 DEF Climbing, Running
  <2> QED BY <2>2, <2>5, <2>6, <2>7, <2>8
<1>9. CASE UNCHANGED vars
  BY <1>9, <1>a DEF vars, handle, TypeOK, Climbing, Running, Ready
<1> QED BY <1>1, <1>2, <1>3, <1>4, <1>5, <1>6, <1>7, <1>8, <1>9 DEF Next, Application, Anticol

(* Types and the progress of the loop, at every step. *)
LEMMA BaseHolds == Spec => []BaseInv
<1>1. Init => BaseInv
  <2> SUFFICES ASSUME Init PROVE BaseInv
    OBVIOUS
  <2>0. HdrBits \in Nat /\ UidBits \in Nat /\ 0 <= 3 * UidBits
    BY BitsAssumption
  <2>1. NoAcf \in [sel : 1..3, nvb : HdrBits..(HdrBits + UidBits), bits : Part]
    <3>1. NoBits \in Part
      BY DEF NoBits, Part, Bit
    <3>2. HdrBits \in HdrBits..(HdrBits + UidBits)
      BY <2>0
    <3> QED BY <3>1, <3>2 DEF NoAcf
  <2>2. TagsSound
    BY UidParts DEF Init, TagsSound, Sound, TagState
  <2>3. tcl \in BOOLEAN /\ wup \in BOOLEAN
    BY DEF Init
  <2>4. uid \in Seq(Bit) /\ Len(uid) = 0
    BY DEF Init
  <2>5. TypeOK
    BY <2>0, <2>1, <2>2, <2>3, <2>4 DEF Init, TypeOK, TagsSound, TagState
  <2> QED BY <2>2, <2>5 DEF BaseInv, Climbing, Running, Init
<1> QED BY <1>1, BaseStep, PTL DEF Spec

(* For any number of tags, UIDs and bits in a part, the variables keep     *)
(* their types: NVB stays within the frame, the level within 1..3 and the  *)
(* UID within the 10 bytes of struct iso14443a_handle, whatever collides,  *)
(* fails or cascades.                                                      *)
THEOREM TypeCorrect == Spec => []TypeOK
  BY BaseHolds, PTL DEF BaseInv

(* For any number of tags, each anticollision frame of a level carries     *)
(* more bits of the UID than the one before: iso14443a_code_nvb_bits never *)
(* makes the loop of iso14443a_anticol send a frame twice.                 *)
THEOREM NvbGrowsHolds == Spec => NvbGrows
<1>1. ASSUME BaseInv, [Next]_vars
      PROVE  [pc = "acf" /\ pc' = "acf" /\ acf'.sel = acf.sel => acf'.nvb > acf.nvb]_vars
  <2>0. SUFFICES ASSUME pc = "acf", pc' = "acf", ~(UNCHANGED vars)
                 PROVE  acf'.nvb > acf.nvb
    OBVIOUS
  <2>1. transceive_acf
    BY <1>1, <2>0 DEF BaseInv, Climbing, Next, Application, Anticol, iso14443a_init, iso14443a_fini,
          iso14443a_setopt, Open, iso14443a_hlta, transceive_sf, Select, Return
  <2> QED BY <1>1, <2>0, <2>1, transceive_acfEffect DEF BaseInv
<1> QED BY <1>1, BaseHolds, PTL DEF Spec, NvbGrows

---------------------------------------------------------------------------
(* HLTA.                                                                   *)

(* Without WUPA, no tag that takes part in anticollision has heard HLTA.   *)
NoneHalted ==
    /\ history \in Seq(Tags)
    /\ Running /\ ~wup => \A t \in Tags : Ready(t) => ~tag[t].halted

(* The actions of the application change no frame in progress.             *)
LEMMA ApplicationEffect ==
    ASSUME BaseInv, Application
    PROVE  pc = "none" /\ pc' \in {"none", "sf"} /\ UNCHANGED history
  BY DEF BaseInv, Climbing, Application, iso14443a_init, iso14443a_fini,
         iso14443a_setopt, Open, iso14443a_hlta

(* Each step keeps halted tags out of an anticollision started by REQA. *)
LEMMA NoneHaltedStep ==
    ASSUME BaseInv, NoneHalted, [Next]_vars
    PROVE  NoneHalted'
<1>0. TypeOK /\ TagsSound /\ Climbing /\ history \in Seq(Tags) /\ acf.sel \in 1..3
  BY DEF BaseInv, NoneHalted, TypeOK
<1>1. CASE Application
  BY <1>0, <1>1, ApplicationEffect DEF NoneHalted, Running
<1>2. CASE transceive_sf
  <2>1. UNCHANGED <<history, wup>> /\ (pc' = "none" \/ (pc' = "acf" /\ tag' = Woken))
    BY <1>2, transceive_sfEffect
  <2>2. CASE pc' = "none"
    BY <1>0, <2>1, <2>2 DEF NoneHalted, Running
  <2>3. CASE pc' = "acf" /\ tag' = Woken
    <3>1. ~wup => \A t \in Tags : Woken[t].st = "READY" => ~Woken[t].halted
      BY <1>0, WokenEffect
    <3> QED BY <1>0, <2>1, <2>3, <3>1 DEF NoneHalted, Ready
  <2> QED BY <2>1, <2>2, <2>3
<1>3. CASE transceive_acf
  <2>1. UNCHANGED <<history, wup, tag>> /\ pc = "acf"
    BY <1>0, <1>3, transceive_acfEffect DEF handle
  <2> QED BY <2>1 DEF NoneHalted, Running, Ready
<1>4. CASE Select
  <2> DEFINE S == Matching(acf.sel, acf.bits, UidBits)
  <2>1. S \in SUBSET Tags /\ \A t \in S : tag[t].st = "READY" /\ tag[t].lvl = acf.sel
    BY <1>0, MatchingEffect DEF Ready
  <2>2. pc = "select" /\ (SelectFails(S) \/ \E t \in S : SelectCascades(t, S) \/ SelectEnds(t, S))
    BY <1>4, SelectEffect
  <2> HIDE DEF S
  <2>3. CASE SelectFails(S)
    BY <1>0, <2>3 DEF SelectFails, NoneHalted, Running
  <2>4. ASSUME NEW t \in S, SelectCascades(t, S) PROVE NoneHalted'
    <3>1. \A u \in Tags : Selected(S)[u].st = "READY" =>
             tag[u].st = "READY" /\ Selected(S)[u].halted = tag[u].halted
      BY <1>0, <2>1, SelectedEffect
    <3>2. UNCHANGED <<history, wup>> /\ tag' = Selected(S)
      BY <2>4 DEF SelectCascades
    <3> QED BY <2>2, <3>1, <3>2 DEF NoneHalted, Running, Ready
  <2>5. ASSUME NEW t \in S, SelectEnds(t, S) PROVE NoneHalted'
    <3>1. history' \in Seq(Tags)
      BY <1>0, <2>1, <2>5, AppendProperties DEF SelectEnds
    <3> QED BY <2>5, <3>1 DEF NoneHalted, Running, SelectEnds
  <2> QED BY <2>2, <2>3, <2>4, <2>5
<1>5. CASE UNCHANGED vars
  BY <1>5 DEF vars, handle, NoneHalted, Running, Ready
<1> QED BY <1>1, <1>2, <1>3, <1>4, <1>5 DEF Next, Anticol

(* For any number of tags and opens, whatever fails in between: without    *)
(* RFID_OPT_LAYER2_WUP iso14443a_anticol never selects a tag that          *)
(* iso14443a_hlta has put to sleep.                                        *)
THEOREM NoRevivalHolds == Spec => NoRevival
<1>1. Init => NoneHalted
  BY DEF Init, NoneHalted, Running
<1>2. BaseInv /\ NoneHalted /\ [Next]_vars => NoneHalted'
  BY NoneHaltedStep
<1>3. ASSUME BaseInv, NoneHalted, [Next]_vars
      PROVE  [Len(history') > Len(history) /\ ~wup =>
                LET t == history'[Len(history')] IN ~tag[t].halted]_vars
  <2>0. SUFFICES ASSUME Len(history') > Len(history), ~wup
                 PROVE  ~tag[history'[Len(history')]].halted
    OBVIOUS
  <2>1. TypeOK /\ TagsSound /\ history \in Seq(Tags) /\ Len(history) \in Nat /\ acf.sel \in 1..3
    BY <1>3, LenProperties DEF BaseInv, NoneHalted, TypeOK
  <2>2. history' # history
    BY <2>0, <2>1
  <2>3. ~Application /\ ~transceive_sf /\ ~transceive_acf /\ ~(UNCHANGED vars)
    BY <1>3, <2>1, <2>2, ApplicationEffect, transceive_sfEffect, transceive_acfEffect DEF vars
  <2>4. Select
    BY <1>3, <2>3 DEF Next, Anticol
  <2>5. PICK t \in Matching(acf.sel, acf.bits, UidBits) :
           pc = "select" /\ history' = Append(history, t)
    BY <2>2, <2>4, SelectEffect DEF SelectFails, SelectCascades, SelectEnds
  <2>6. t \in Tags /\ Ready(t)
    BY <2>1, MatchingEffect
  <2>7. history'[Len(history')] = t
    BY <2>1, <2>5, <2>6, AppendProperties
  <2> QED BY <1>3, <2>0, <2>5, <2>6, <2>7 DEF NoneHalted, Running
<1> QED BY <1>1, <1>2, <1>3, BaseHolds, PTL DEF Spec, NoRevival

---------------------------------------------------------------------------
(* The result of an open.                                                  *)

(* What the handle has stored of UID u on reaching level l. *)
Prefix(u, l) ==
    IF l = 1 THEN <<>>
    ELSE IF l = 2 THEN Tail(u[1])
    ELSE Tail(u[1]) \o Tail(u[2])

(* While anticollision runs, every tag that takes part in it has the UID   *)
(* that the handle has stored so far, and none is selected.                *)
Together ==
    Running =>
        /\ \A t \in Tags : tag[t].st # "ACTIVE"
        /\ \A t \in Tags : Ready(t) => uid = Prefix(UID[t], acf.sel)
        /\ \A t, u \in Tags : Ready(t) /\ Ready(u) =>
              \A i \in 1..acf.sel - 1 : UID[t][i] = UID[u][i]

(* No UID is the beginning of another: the cascade tag that ISO 14443-3    *)
(* reserves tells a part that is the last from one that is not.            *)
PrefixFree ==
    \A t, u \in Tags : Len(UID[t]) < Len(UID[u]) =>
        \E i \in 1..Len(UID[t]) : UID[t][i] # UID[u][i]

(* The part of a level appended to those stored before gives what is       *)
(* stored after it, or the whole UID.                                      *)
LEMMA StoredPrefix ==
    ASSUME NEW t \in Tags, NEW l \in 1..3, l <= Len(UID[t])
    PROVE  /\ l < Len(UID[t]) /\ l < 3 => Prefix(UID[t], l) \o Stored(UID[t][l]) = Prefix(UID[t], l + 1)
           /\ l = Len(UID[t]) => Prefix(UID[t], l) \o UID[t][l] = FullUID(t)
<1>1. UID[t][l] \in Seq(Bit) /\ Tail(UID[t][l]) \in Seq(Bit)
  BY UidParts, PartIsSeq
<1>2. <<>> \o UID[t][l] = UID[t][l] /\ <<>> \o Tail(UID[t][l]) = Tail(UID[t][l])
  BY <1>1, ConcatEmptySeq
<1>3. /\ Prefix(UID[t], 1) = <<>> /\ Prefix(UID[t], 2) = Tail(UID[t][1])
      /\ Prefix(UID[t], 3) = Tail(UID[t][1]) \o Tail(UID[t][2])
  BY DEF Prefix
<1>a. 1 # 2 /\ 1 # 3 /\ 2 # 3
  OBVIOUS
<1>4. /\ Len(UID[t]) = 1 => FullUID(t) = UID[t][1]
      /\ Len(UID[t]) = 2 => FullUID(t) = Tail(UID[t][1]) \o UID[t][2]
      /\ Len(UID[t]) = 3 => FullUID(t) = Tail(UID[t][1]) \o Tail(UID[t][2]) \o UID[t][3]
  BY <1>a, Zenon DEF FullUID
<1>5. l = 1 \/ l = 2 \/ l = 3
  OBVIOUS
<1>6. 1 + 1 = 2 /\ 2 + 1 = 3 /\ ~(3 < 3)
  OBVIOUS
<1> QED BY <1>2, <1>3, <1>4, <1>5, <1>6, Zenon DEF Stored

(* The tags that answer to SELECT agree in all their parts so far; one     *)
(* whose UID ends there is alone.                                          *)
LEMMA Alike ==
    ASSUME PrefixFree, BaseInv, Together, Running,
           NEW t \in Matching(acf.sel, acf.bits, UidBits),
           NEW u \in Matching(acf.sel, acf.bits, UidBits)
    PROVE  /\ UID[t][acf.sel] = acf.bits
           /\ \A i \in 1..acf.sel : UID[t][i] = UID[u][i]
           /\ Len(UID[t]) = acf.sel => t = u
<1> DEFINE l == acf.sel
<1>1. TagsSound /\ l \in 1..3 /\ acf.bits \in Part
  BY DEF BaseInv, TypeOK
<1>2. \A v \in {t, u} : /\ v \in Tags /\ Ready(v) /\ l <= Len(UID[v])
                        /\ \A i \in 1..UidBits : UID[v][l][i] = acf.bits[i]
  BY <1>1, MatchingEffect
<1>3. \A v \in {t, u} : UID[v] \in Seq(Part) /\ Len(UID[v]) \in Nat /\ UID[v][l] \in Part
  BY <1>1, <1>2, UidParts
<1>4. \A v \in {t, u} : UID[v][l] = acf.bits
  BY <1>1, <1>2, <1>3, PartsEqual
<1>5. \A i \in 1..l : UID[t][i] = UID[u][i]
  <2>1. \A i \in 1..l - 1 : UID[t][i] = UID[u][i]
    BY <1>2 DEF Together
  <2>2. \A i \in 1..l : i = l \/ i \in 1..l - 1
    BY <1>1
  <2> QED BY <1>4, <2>1, <2>2
<1>6. ASSUME Len(UID[t]) = l PROVE t = u
  <2>1. ~(Len(UID[t]) < Len(UID[u]))
    BY <1>2, <1>5, <1>6 DEF PrefixFree
  <2>2. Len(UID[u]) = l
    BY <1>1, <1>2, <1>3, <1>6, <2>1
  <2>3. UID[t] = UID[u]
    <3>1. UID[t] = [i \in 1..l |-> UID[t][i]] /\ UID[u] = [i \in 1..l |-> UID[u][i]]
      BY <1>3, <1>6, <2>2, LenProperties
    <3> QED BY <1>5, <3>1
  <2> QED BY <1>2, <2>3, UidAssumption
<1> QED BY <1>4, <1>5, <1>6

(* Each step keeps the tags that are still addressed together with what    *)
(* the handle stores.                                                      *)
LEMMA SelectsOneStep ==
    ASSUME PrefixFree, BaseInv, Together, SelectsOne, [Next]_vars
    PROVE  Together' /\ SelectsOne'
<1>0. TypeOK /\ TagsSound /\ Climbing /\ acf.sel \in 1..3
  BY DEF BaseInv, TypeOK
<1>1. CASE Application
  <2>1. pc = "none" /\ pc' \in {"none", "sf"}
    BY <1>1, ApplicationEffect
  <2>2. pc' = "none" /\ ret' = "ok" => ret = "ok" /\ UNCHANGED <<uid, uid_len, tcl, tag>>
    BY <1>1 DEF Application, iso14443a_init, iso14443a_fini, iso14443a_setopt, Open,
                iso14443a_hlta
  <2> QED BY <2>1, <2>2 DEF Together, Running, SelectsOne, FullUID
<1>2. CASE transceive_sf
  <2>1. UNCHANGED uid /\ pc = "sf"
        /\ ((pc' = "none" /\ ret' = "err") \/ (pc' = "acf" /\ tag' = Woken /\ acf'.sel = 1))
    <3>1. acf' = [acf EXCEPT !.sel = 1, !.nvb = HdrBits] => acf'.sel = 1
      BY <1>0 DEF TypeOK
    <3> QED BY <1>2, <3>1, transceive_sfEffect
  <2>2. SelectsOne'
    BY <2>1 DEF SelectsOne
  <2>3. ASSUME pc' = "acf" PROVE Together'
    <3>1. \A t \in Tags : tag'[t].st # "ACTIVE"
      BY <1>0, <2>1, <2>3, WokenEffect
    <3>2. uid' = <<>> /\ acf'.sel = 1
      BY <1>0, <2>1, <2>3 DEF Climbing
    <3>3. \A t \in Tags : uid' = Prefix(UID[t], acf'.sel)
      BY <3>2 DEF Prefix
    <3>4. \A i \in 1..acf'.sel - 1 : FALSE
      BY <3>2
    <3> QED BY <3>1, <3>3, <3>4 DEF Together
  <2>4. ASSUME pc' = "none" PROVE Together'
    BY <2>4 DEF Together, Running
  <2> QED BY <2>1, <2>2, <2>3, <2>4
<1>3. CASE transceive_acf
  <2>1. /\ pc = "acf" /\ UNCHANGED <<uid, tag>> /\ acf'.sel = acf.sel
        /\ pc' = "none" => ret' = "err"
    BY <1>0, <1>3, transceive_acfEffect DEF handle
  <2> QED BY <2>1 DEF Together, Running, Ready, SelectsOne, Prefix
<1>4. CASE Select
  <2> DEFINE S == Matching(acf.sel, acf.bits, UidBits)
  <2>1. /\ S \in SUBSET Tags
        /\ \A t \in S : tag[t].st = "READY" /\ tag[t].lvl = acf.sel /\ acf.sel <= Len(UID[t])
    BY <1>0, MatchingEffect DEF Ready
  <2>2. pc = "select" /\ (SelectFails(S) \/ \E t \in S : SelectCascades(t, S) \/ SelectEnds(t, S))
    BY <1>4, SelectEffect
  <2>3. \A t, u \in S : /\ UID[t][acf.sel] = acf.bits
                        /\ \A i \in 1..acf.sel : UID[t][i] = UID[u][i]
                        /\ Len(UID[t]) = acf.sel => t = u
    BY <2>2, Alike DEF Running
  <2>4. \A t \in S : uid = Prefix(UID[t], acf.sel)
    BY <2>1, <2>2 DEF Together, Running, Ready
  <2> HIDE DEF S
  <2>5. \A t \in Tags :
          /\ t \notin S => Selected(S)[t].st \in {"IDLE", "HALT"}
          /\ t \in S /\ Len(UID[t]) = acf.sel => Selected(S)[t].st = "ACTIVE"
          /\ t \in S /\ Len(UID[t]) # acf.sel => Selected(S)[t].st = "READY"
    <3>1. TagsSound /\ acf.sel \in 1..3
      BY <1>0
    <3>2. \A t \in S : tag[t].st = "READY" /\ tag[t].lvl = acf.sel
      BY <2>1
    <3> QED BY <2>1, <3>1, <3>2, SelectedEffect, ZenonT(60)
  <2>6. CASE SelectFails(S)
    BY <2>6 DEF SelectFails, Together, Running, SelectsOne
  <2>7. ASSUME NEW t \in S, SelectCascades(t, S) PROVE Together' /\ SelectsOne'
    <3>1. /\ Len(UID[t]) > acf.sel /\ acf.sel \in 1..2 /\ tag' = Selected(S)
          /\ uid' = uid \o Stored(acf.bits) /\ pc' = "acf" /\ acf'.sel = acf.sel + 1
      BY <1>0, <2>7 DEF SelectCascades, TypeOK
    <3>2. \A u \in S : Len(UID[u]) # acf.sel
      BY <1>0, <2>1, <2>3, <3>1, UidParts
    <3>3. \A u \in Tags : Ready(u)' => u \in S
      BY <2>5, <3>1 DEF Ready
    <3>4. \A u \in Tags : tag'[u].st # "ACTIVE"
      BY <2>5, <3>1, <3>2
    <3>5. \A u \in S : uid' = Prefix(UID[u], acf'.sel)
      <4>1. \A u \in S : u \in Tags /\ acf.sel < Len(UID[u]) /\ acf.sel < 3
        BY <1>0, <2>1, <3>1, <3>2, UidParts
      <4>2. \A u \in S : Prefix(UID[u], acf.sel) \o Stored(UID[u][acf.sel]) = Prefix(UID[u], acf.sel + 1)
        BY <1>0, <2>1, <4>1, StoredPrefix
      <4> QED BY <2>3, <2>4, <3>1, <4>2
    <3>6. acf'.sel - 1 = acf.sel
      BY <3>1
    <3>7. Together'
      BY <2>3, <3>3, <3>4, <3>5, <3>6 DEF Together
    <3> QED BY <3>1, <3>7 DEF SelectsOne
  <2>8. ASSUME NEW t \in S, SelectEnds(t, S) PROVE Together' /\ SelectsOne'
    <3>1. /\ Len(UID[t]) = acf.sel /\ tag' = Selected(S) /\ uid' = uid \o acf.bits
          /\ uid_len' = level /\ tcl' = (t \in TclTags) /\ pc' = "none"
      BY <2>8 DEF SelectEnds
    <3>2. level = acf.sel
      BY <1>0, <2>2 DEF Climbing, Running
    <3>3. uid' = FullUID(t)
      <4>1. t \in Tags /\ uid = Prefix(UID[t], acf.sel) /\ UID[t][acf.sel] = acf.bits
        BY <2>1, <2>3, <2>4
      <4>2. Prefix(UID[t], acf.sel) \o UID[t][acf.sel] = FullUID(t)
        <5>1. acf.sel <= Len(UID[t]) /\ acf.sel = Len(UID[t])
          BY <2>1, <3>1
        <5> QED BY <1>0, <4>1, <5>1, StoredPrefix, Zenon
      <4> QED BY <3>1, <4>1, <4>2
    <3>4. {u \in Tags : tag'[u].st = "ACTIVE"} = {t}
      <4>1. \A u \in Tags : u # t => tag'[u].st # "ACTIVE"
        BY <2>3, <2>5, <3>1
      <4>2. t \in Tags /\ tag'[t].st = "ACTIVE"
        BY <2>1, <2>5, <3>1
      <4> QED BY <4>1, <4>2
    <3>5. t \in Tags /\ uid_len' = Len(UID[t])
      BY <2>1, <3>1, <3>2
    <3> QED BY <3>1, <3>3, <3>4, <3>5 DEF Together, Running, SelectsOne, FullUID
  <2> QED BY <2>2, <2>6, <2>7, <2>8
<1>5. CASE UNCHANGED vars
  BY <1>5 DEF vars, handle, Together, Running, Ready, Prefix, SelectsOne, FullUID
<1> QED BY <1>1, <1>2, <1>3, <1>4, <1>5 DEF Next, Anticol

(* For any tags whose UIDs are not the beginning of one another, however   *)
(* they collide and whatever fails: after an open that succeeds exactly    *)
(* one tag is selected, and the UID, the length and the T=CL capability in *)
(* the handle are that tag's.                                              *)
THEOREM SelectsOneHolds ==
    ASSUME PrefixFree
    PROVE  Spec => []SelectsOne
<1>1. Init => Together /\ SelectsOne
  BY DEF Init, Together, Running, SelectsOne
<1>2. BaseInv /\ Together /\ SelectsOne /\ [Next]_vars => Together' /\ SelectsOne'
  BY SelectsOneStep
<1> QED BY <1>1, <1>2, BaseHolds, PTL DEF Spec
=============================================================================
