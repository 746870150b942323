------------------------- MODULE PacketReaderProofs -------------------------
(***************************************************************************)
(* The reader of PacketReader stays in step with every stream, for messages *)
(* of any length and arrays nested to any depth.                            *)
(*                                                                          *)
(* The argument is an induction over the stream, from its end.  Level is    *)
(* what a stream still owes in front of a token; every token pays one value *)
(* and announces some.  Reading n values from a token on ends where the     *)
(* level has for the first time sunk by n (Reads), and a recursive function *)
(* that reads values one after the other ends nowhere else.                 *)
(***************************************************************************)
EXTENDS PacketReader, FiniteSetTheorems, WellFoundedInduction, TLAPS

Stream == Seq(Token \cup {Cut})

-----------------------------------------------------------------------------
(***************************************************************************)
(* Natural numbers.                                                         *)
(***************************************************************************)

(* A set of natural numbers has a least element.                             *)
LEMMA LeastElement ==
    ASSUME NEW T \in SUBSET Nat, T # {}
    PROVE  \E x \in T : \A y \in T : x <= y
<1> DEFINE Less == {ss \in Nat \X Nat : ss[1] < ss[2]}
<1>1. IsWellFoundedOn(OpToRel(<, Nat), Nat)
  BY NatLessThanWellFounded
<1>2. IsWellFoundedOn(Less, Nat)
  BY <1>1 DEF OpToRel
<1>3. \E x \in T : \A y \in T : ~ (<<y, x>> \in Less)
  BY <1>2, WFMin, Zenon
<1>4. PICK x \in T : \A y \in T : ~ (<<y, x>> \in Less)
  BY <1>3
<1>5. ASSUME NEW y \in T
      PROVE  x <= y
  <2>1. <<y, x>> \notin Less
    BY <1>4
  <2>2. y \in Nat /\ x \in Nat
    OBVIOUS
  <2> QED  BY <2>1, <2>2
<1> QED  BY <1>5

(* Induction over the places of a stream, from its end.                      *)
LEMMA FromTheEnd ==
    ASSUME NEW last \in Nat, NEW T,
           \A j \in 1 .. last : (\A k \in j + 1 .. last : k \in T) => j \in T
    PROVE  \A j \in 1 .. last : j \in T
<1> SUFFICES ASSUME NEW i \in 1 .. last, i \notin T
             PROVE  FALSE
  OBVIOUS
<1> DEFINE D == {d \in Nat : d < last /\ last - d \notin T}
<1>1. D \in SUBSET Nat /\ last - i \in D
  OBVIOUS
<1>2. PICK d \in D : \A e \in D : d <= e
  BY <1>1, LeastElement
<1>3. last - d \in 1 .. last /\ last - d \notin T
  OBVIOUS
<1>4. ASSUME NEW k \in last - d + 1 .. last
      PROVE  k \in T
  <2> SUFFICES ASSUME k \notin T
               PROVE  FALSE
    OBVIOUS
  <2>1. last - k \in Nat /\ last - k < last /\ last - (last - k) = k
    BY <1>3
  <2>2. last - k \in D
    BY <2>1
  <2> QED  BY <1>2, <1>3, <2>1, <2>2
<1> QED  BY <1>3, <1>4

-----------------------------------------------------------------------------
(***************************************************************************)
(* Levels.                                                                  *)
(***************************************************************************)

(* What is owed in front of the token at k.                                  *)
Level(s, k) == Owed(SubSeq(s, 1, k - 1))

(* How many values the token t announces.                                    *)
Brings(t) == IF t.code = "array" THEN t.n ELSE 0

LEMMA Tokens ==
    ASSUME NEW s \in Stream, NEW k \in 1 .. Len(s)
    PROVE  /\ s[k] \in Token \cup {Cut}
           /\ s[k].n \in Int
           /\ s[k].code = "array" => s[k].n \in Nat
           /\ s[k].code \in {"array", "int", "uint", "string", "nil", "odd", "bad", "cut"}
           /\ Brings(s[k]) \in Nat
<1>1. s[k] \in Token \cup {Cut}
  BY DEF Stream
<1>2. CASE s[k] \in [code : {"array"}, n : Lens]
  <2>1. s[k].code = "array" /\ s[k].n \in Lens
    BY <1>2
  <2>2. s[k].n \in Nat
    BY <2>1, ReaderAssumption
  <2> QED  BY <1>1, <2>1, <2>2 DEF Brings
<1>3. CASE s[k] \in [code : {"int"}, n : -1 .. 2]
  <2>1. s[k].code = "int" /\ s[k].n \in -1 .. 2
    BY <1>3
  <2> QED  BY <1>1, <2>1 DEF Brings
<1>4. CASE s[k] \in [code : {"uint"}, n : {MaxInt + 1}]
  <2>1. s[k].code = "uint" /\ s[k].n = MaxInt + 1
    BY <1>4
  <2> QED  BY <1>1, <2>1, ReaderAssumption DEF Brings
<1>5. CASE s[k] \in [code : {"string", "nil", "odd", "bad"}, n : {0}] \cup {Cut}
  <2>1. s[k].code \in {"string", "nil", "odd", "bad", "cut"} /\ s[k].n = 0
    BY <1>5 DEF Cut
  <2> QED  BY <1>1, <2>1 DEF Brings
<1> QED  BY <1>1, <1>2, <1>3, <1>4, <1>5 DEF Token

LEMMA Prefix ==
    ASSUME NEW s \in Stream, NEW k \in 0 .. Len(s)
    PROVE  /\ SubSeq(s, 1, k) \in Stream
           /\ Len(SubSeq(s, 1, k)) = k
           /\ DOMAIN SubSeq(s, 1, k) = 1 .. k
           /\ \A i \in 1 .. k : SubSeq(s, 1, k)[i] = s[i]
  BY DEF Stream

(* What a prefix announces is finite, and the next token adds its own.       *)
LEMMA AnnouncedStep ==
    ASSUME NEW s \in Stream, NEW k \in 1 .. Len(s),
           IsFiniteSet(Announced(SubSeq(s, 1, k - 1)))
    PROVE  /\ IsFiniteSet(Announced(SubSeq(s, 1, k)))
           /\ Cardinality(Announced(SubSeq(s, 1, k)))
                  = Cardinality(Announced(SubSeq(s, 1, k - 1))) + Brings(s[k])
<1> DEFINE before == Announced(SubSeq(s, 1, k - 1))
           after  == Announced(SubSeq(s, 1, k))
           new    == {k} \X (1 .. Brings(s[k]))
<1>1. Brings(s[k]) \in Nat
  BY Tokens
<1>2. IsFiniteSet(1 .. Brings(s[k])) /\ Cardinality(1 .. Brings(s[k])) = Brings(s[k])
  <2> DEFINE b == Brings(s[k])
  <2>1. 1 \in Int /\ b \in Int /\ b \in Nat
    BY <1>1
  <2> HIDE DEF b
  <2>2. IsFiniteSet(1 .. b) /\ Cardinality(1 .. b) = IF 1 > b THEN 0 ELSE b - 1 + 1
    BY <2>1, FS_Interval
  <2>3. Cardinality(1 .. b) = b
    BY <2>1, <2>2
  <2> QED  BY <2>2, <2>3 DEF b
<1>3. IsFiniteSet({k}) /\ Cardinality({k}) = 1
  BY FS_Singleton
<1>4. IsFiniteSet(new) /\ Cardinality(new) = Brings(s[k])
  <2>1. /\ IsFiniteSet(new)
        /\ Cardinality(new) = Cardinality({k}) * Cardinality(1 .. Brings(s[k]))
    BY <1>2, <1>3, FS_Product, Zenon
  <2>2. Cardinality({k}) * Cardinality(1 .. Brings(s[k])) = 1 * Brings(s[k])
    BY <1>2, <1>3, Zenon
  <2>3. 1 * Brings(s[k]) = Brings(s[k])
    BY <1>1
  <2> QED  BY <2>1, <2>2, <2>3, Zenon
<1>5. k \in 0 .. Len(s) /\ k - 1 \in 0 .. Len(s)
  OBVIOUS
<1>6. \A p : p \in before <=>
          \E i \in 1 .. k - 1 : s[i].code = "array" /\ p \in {i} \X (1 .. s[i].n)
  <2>1. \A i \in 1 .. k - 1 : SubSeq(s, 1, k - 1)[i] = s[i]
    BY <1>5, Prefix
  <2>2. DOMAIN SubSeq(s, 1, k - 1) = 1 .. k - 1
    BY <1>5, Prefix
  <2> QED  BY <2>1, <2>2 DEF Announced
<1>7. \A p : p \in after <=>
          \E i \in 1 .. k : s[i].code = "array" /\ p \in {i} \X (1 .. s[i].n)
  <2>1. \A i \in 1 .. k : SubSeq(s, 1, k)[i] = s[i]
    BY <1>5, Prefix
  <2>2. DOMAIN SubSeq(s, 1, k) = 1 .. k
    BY <1>5, Prefix
  <2> QED  BY <2>1, <2>2 DEF Announced
<1>8. \A p : p \in new <=> s[k].code = "array" /\ p \in {k} \X (1 .. s[k].n)
  BY DEF Brings
<1>9. after = before \cup new
  <2>1. 1 .. k = (1 .. k - 1) \cup {k}
    OBVIOUS
  <2>2. \A p : p \in after <=> p \in before \/ p \in new
    BY <1>6, <1>7, <1>8, <2>1, Zenon
  <2> QED  BY <2>2
<1>10. before \cap new = {}
  <2> SUFFICES ASSUME NEW p, p \in before, p \in new
               PROVE  FALSE
    OBVIOUS
  <2>1. PICK i \in 1 .. k - 1 : p \in {i} \X (1 .. s[i].n)
    BY <1>6
  <2>2. p[1] = i /\ p[1] = k
    BY <2>1
  <2> QED  BY <2>2
<1>11. /\ IsFiniteSet(before \cup new)
       /\ Cardinality(before \cup new)
              = Cardinality(before) + Cardinality(new) - Cardinality(before \cap new)
  BY <1>4, FS_Union
<1>12. Cardinality(before \cap new) = 0
  BY <1>10, FS_EmptySet
<1>13. Cardinality(before) \in Nat
  BY FS_CardinalityType
<1>14. /\ IsFiniteSet(after)
       /\ Cardinality(after) = Cardinality(before) + Cardinality(new) - 0
  BY <1>9, <1>11, <1>12, Zenon
<1> QED  BY <1>1, <1>4, <1>13, <1>14

LEMMA AnnouncedFinite ==
    ASSUME NEW s \in Stream, NEW k \in 0 .. Len(s)
    PROVE  IsFiniteSet(Announced(SubSeq(s, 1, k)))
<1> SUFFICES ASSUME ~IsFiniteSet(Announced(SubSeq(s, 1, k)))
             PROVE  FALSE
  OBVIOUS
<1> DEFINE T == {m \in 0 .. Len(s) : ~IsFiniteSet(Announced(SubSeq(s, 1, m)))}
<1>0. Len(s) \in Nat
  BY DEF Stream
<1>1. T \in SUBSET Nat /\ T # {}
  BY <1>0
<1>2. PICK m \in T : \A e \in T : m <= e
  BY <1>1, LeastElement
<1>3. m # 0
  <2> SUFFICES ASSUME m = 0
               PROVE  FALSE
    OBVIOUS
  <2>1. DOMAIN SubSeq(s, 1, 0) = {}
    BY <1>0, Prefix
  <2>2. Announced(SubSeq(s, 1, 0)) = {}
    BY <2>1 DEF Announced
  <2> QED  BY <2>2, FS_EmptySet
<1>4. m \in 1 .. Len(s) /\ m - 1 \in 0 .. Len(s)
  BY <1>0, <1>3
<1>5. IsFiniteSet(Announced(SubSeq(s, 1, m - 1)))
  BY <1>0, <1>2, <1>4
<1> QED  BY <1>2, <1>4, <1>5, AnnouncedStep

(* The level in front of the first token, and across each token.             *)
LEMMA Levels ==
    ASSUME NEW s \in Stream
    PROVE  /\ Level(s, 1) = 1
           /\ \A k \in 1 .. Len(s) + 1 : Level(s, k) \in Int
           /\ \A k \in 1 .. Len(s) : Level(s, k + 1) = Level(s, k) - 1 + Brings(s[k])
<1>0. Len(s) \in Nat
  BY DEF Stream
<1>1. ASSUME NEW k \in 1 .. Len(s) + 1
      PROVE  /\ Cardinality(Announced(SubSeq(s, 1, k - 1))) \in Nat
             /\ Level(s, k) = 2 + Cardinality(Announced(SubSeq(s, 1, k - 1))) - k
  <2>1. k - 1 \in 0 .. Len(s)
    BY <1>0
  <2>2. Cardinality(Announced(SubSeq(s, 1, k - 1))) \in Nat
    BY <2>1, AnnouncedFinite, FS_CardinalityType
  <2>3. Len(SubSeq(s, 1, k - 1)) = k - 1
    BY <2>1, Prefix
  <2> QED  BY <2>2, <2>3 DEF Level, Owed
<1>2. Level(s, 1) = 1
  <2>1. DOMAIN SubSeq(s, 1, 0) = {}
    BY <1>0, Prefix
  <2>2. Announced(SubSeq(s, 1, 0)) = {}
    BY <2>1 DEF Announced
  <2>3. 1 \in 1 .. Len(s) + 1 /\ 1 - 1 = 0
    BY <1>0
  <2>4. Cardinality(Announced(SubSeq(s, 1, 1 - 1))) = 0
    BY <2>2, <2>3, FS_EmptySet
  <2> QED  BY <1>1, <2>3, <2>4
<1>3. ASSUME NEW k \in 1 .. Len(s)
      PROVE  Level(s, k + 1) = Level(s, k) - 1 + Brings(s[k])
  <2>1. k \in 1 .. Len(s) + 1 /\ k + 1 \in 1 .. Len(s) + 1 /\ (k + 1) - 1 = k
        /\ k - 1 \in 0 .. Len(s)
    BY <1>0
  <2>2. Cardinality(Announced(SubSeq(s, 1, k)))
            = Cardinality(Announced(SubSeq(s, 1, k - 1))) + Brings(s[k])
    BY <2>1, AnnouncedStep, AnnouncedFinite
  <2>3. Level(s, k + 1) = 2 + Cardinality(Announced(SubSeq(s, 1, (k + 1) - 1))) - (k + 1)
    BY <1>1, <2>1
  <2>4. Level(s, k + 1) = 2 + Cardinality(Announced(SubSeq(s, 1, k))) - (k + 1)
    BY <2>1, <2>3
  <2>5. Level(s, k) = 2 + Cardinality(Announced(SubSeq(s, 1, k - 1))) - k
        /\ Cardinality(Announced(SubSeq(s, 1, k - 1))) \in Nat
    BY <1>1, <2>1
  <2>6. Brings(s[k]) \in Nat
    BY Tokens
  <2> QED  BY <2>2, <2>4, <2>5, <2>6
<1>4. \A k \in 1 .. Len(s) + 1 : Level(s, k) \in Int
  BY <1>1
<1> QED  BY <1>2, <1>3, <1>4

-----------------------------------------------------------------------------
(***************************************************************************)
(* Reading values.                                                          *)
(***************************************************************************)
Above(s, i, k, level)     == \A m \in i .. k : Level(s, m) > level
Clean(s, refused, i, k)   == \A m \in i .. k : s[m].code \notin refused

(* The answer r to the question where n values end that begin at i: the      *)
(* first place where the level has sunk by n, or that the stream ends        *)
(* before, or that a token which cannot be read comes before.                *)
ReadsTo(s, refused, i, n, r) ==
    /\ r \in i .. Len(s) + 1
    /\ Level(s, r) = Level(s, i) - n
    /\ Above(s, i, r - 1, Level(s, i) - n)
    /\ Clean(s, refused, i, r - 1)

ReadsAll(s, refused, i, n) ==
    /\ Above(s, i, Len(s) + 1, Level(s, i) - n)
    /\ Clean(s, refused, i, Len(s))

Stumbles(s, refused, i, n) ==
    \E k \in i .. Len(s) :
        /\ s[k].code \in refused
        /\ Above(s, i, k, Level(s, i) - n)
        /\ Clean(s, refused, i, k - 1)

Reads(s, refused, i, n, r) ==
    \/ ReadsTo(s, refused, i, n, r)
    \/ r = NeedMore /\ ReadsAll(s, refused, i, n)
    \/ r = Fails /\ Stumbles(s, refused, i, n)

(* There is one answer.                                                      *)
LEMMA OneAnswer ==
    ASSUME NEW s \in Stream, NEW refused, NEW i \in 1 .. Len(s) + 1, NEW n \in Nat,
           NEW r, NEW q, Reads(s, refused, i, n, r), Reads(s, refused, i, n, q)
    PROVE  r = q
<1>0. Len(s) \in Nat /\ \A k \in 1 .. Len(s) + 1 : Level(s, k) \in Int
  BY Levels DEF Stream
<1> USE <1>0 DEF Above, Clean
<1>1. ASSUME NEW a, NEW b, ReadsTo(s, refused, i, n, a), ReadsTo(s, refused, i, n, b)
      PROVE  ~(a < b)
  <2> SUFFICES ASSUME a < b
               PROVE  FALSE
    OBVIOUS
  <2>1. a \in i .. b - 1
    BY <1>1 DEF ReadsTo
  <2> QED  BY <1>1, <2>1 DEF ReadsTo
<1>2. ASSUME NEW a, ReadsTo(s, refused, i, n, a)
      PROVE  ~ReadsAll(s, refused, i, n) /\ ~Stumbles(s, refused, i, n)
  <2>1. a \in i .. Len(s) + 1 /\ ~(Level(s, a) > Level(s, i) - n)
    BY <1>2 DEF ReadsTo
  <2>2. ~ReadsAll(s, refused, i, n)
    BY <2>1 DEF ReadsAll
  <2>3. ASSUME NEW k \in i .. Len(s), s[k].code \in refused, Above(s, i, k, Level(s, i) - n)
        PROVE  FALSE
    <3>1. a \notin i .. k
      BY <2>1, <2>3
    <3>2. k \in i .. a - 1
      BY <2>1, <3>1
    <3> QED  BY <1>2, <2>3, <3>2 DEF ReadsTo
  <2> QED  BY <2>2, <2>3 DEF Stumbles
<1>3. ~(ReadsAll(s, refused, i, n) /\ Stumbles(s, refused, i, n))
  BY DEF ReadsAll, Stumbles
<1>4. CASE ReadsTo(s, refused, i, n, r)
  <2>1. ReadsTo(s, refused, i, n, q)
    BY <1>2, <1>4 DEF Reads
  <2>2. r \in Int /\ q \in Int
    BY <1>4, <2>1 DEF ReadsTo
  <2>3. ~(r < q) /\ ~(q < r)
    BY <1>1, <1>4, <2>1, Zenon
  <2> QED  BY <2>2, <2>3
<1>5. CASE ~ReadsTo(s, refused, i, n, r)
  BY <1>2, <1>3, <1>5 DEF Reads
<1> QED  BY <1>4, <1>5

(* What the decoder does at the place j, when g says where values end that   *)
(* begin later: the body of ReadValues.                                      *)
Body(s, refused, g, j, m) ==
    IF m = 0 \/ j \in {NeedMore, Fails} THEN j
    ELSE IF j > Len(s) THEN NeedMore
    ELSE IF s[j].code \in refused THEN Fails
    ELSE IF s[j].code = "array" THEN g[g[j + 1][s[j].n]][m - 1]
    ELSE g[j + 1][m - 1]

(* If g is right about later places, the body is right about this one.       *)
LEMMA BodyReads ==
    ASSUME NEW s \in Stream, NEW refused, NEW g, NEW j \in 1 .. Len(s) + 1, NEW n \in Nat,
           \A m \in Nat : g[NeedMore][m] = NeedMore /\ g[Fails][m] = Fails,
           \A k \in j + 1 .. Len(s) + 1 : \A m \in Nat : Reads(s, refused, k, m, g[k][m])
    PROVE  Reads(s, refused, j, n, Body(s, refused, g, j, n))
<1> DEFINE r == Body(s, refused, g, j, n)
<1>0. /\ Len(s) \in Nat
      /\ \A k \in 1 .. Len(s) + 1 : Level(s, k) \in Int
      /\ j \notin {NeedMore, Fails}
  BY Levels DEF Stream, NeedMore, Fails
<1>1. CASE n = 0
  <2>1. r = j
    BY <1>1 DEF Body
  <2>2. ReadsTo(s, refused, j, n, j)
    BY <1>0, <1>1 DEF ReadsTo, Above, Clean
  <2> QED  BY <2>1, <2>2 DEF Reads
<1>2. CASE n > 0 /\ j > Len(s)
  <2>1. r = NeedMore
    BY <1>0, <1>2 DEF Body
  <2>2. ReadsAll(s, refused, j, n)
    BY <1>0, <1>2 DEF ReadsAll, Above, Clean
  <2> QED  BY <2>1, <2>2 DEF Reads
<1>3. CASE n > 0 /\ j \in 1 .. Len(s) /\ s[j].code \in refused
  <2>1. r = Fails
    BY <1>0, <1>3 DEF Body
  <2>2. Stumbles(s, refused, j, n)
    BY <1>0, <1>3 DEF Stumbles, Above, Clean
  <2> QED  BY <2>1, <2>2 DEF Reads
<1>4. CASE n > 0 /\ j \in 1 .. Len(s) /\ s[j].code \notin refused
  <2>0. /\ j + 1 \in 1 .. Len(s) + 1 /\ j + 1 \in j + 1 .. Len(s) + 1 /\ n - 1 \in Nat
        /\ Level(s, j) \in Int /\ Level(s, j + 1) \in Int
        /\ Level(s, j + 1) = Level(s, j) - 1 + Brings(s[j])
        /\ Brings(s[j]) \in Nat
    BY <1>0, <1>4, Levels, Tokens
  (* Values that begin after the token at j, seen from j.                    *)
  <2>1. ASSUME NEW k \in j + 1 .. Len(s) + 1, NEW m \in Nat, NEW q,
               Reads(s, refused, k, m, q),
               Above(s, j, k - 1, Level(s, j) - n), Clean(s, refused, j, k - 1),
               Level(s, k) - m >= Level(s, j) - n
        PROVE  /\ q = NeedMore => ReadsAll(s, refused, j, n)
               /\ q = Fails => Stumbles(s, refused, j, n)
               /\ q \notin {NeedMore, Fails} =>
                      /\ q \in k .. Len(s) + 1 /\ Level(s, q) = Level(s, k) - m
                      /\ Above(s, j, q - 1, Level(s, j) - n)
                      /\ Clean(s, refused, j, q - 1)
    <3>0. Level(s, k) \in Int /\ k \in 1 .. Len(s) + 1
      BY <1>0
    <3>1. ASSUME NEW e \in k .. Len(s) + 1, Above(s, k, e, Level(s, k) - m)
          PROVE  Above(s, j, e, Level(s, j) - n)
      <4> SUFFICES ASSUME NEW x \in j .. e
                   PROVE  Level(s, x) > Level(s, j) - n
        BY DEF Above
      <4>1. Level(s, x) \in Int
        BY <1>0
      <4>2. CASE x \in j .. k - 1
        BY <2>1, <4>2 DEF Above
      <4>3. CASE x \in k .. e
        <5>1. Level(s, x) > Level(s, k) - m
          BY <3>1, <4>3 DEF Above
        <5>2. Level(s, k) - m >= Level(s, j) - n
          BY <2>1
        <5>3. m \in Int /\ n \in Int
          <6>1. m \in Nat /\ n \in Nat
            BY <2>1, Zenon
          <6> QED  BY <6>1
        <5>4. \A a, b, c, d, e1 \in Int : a > b - c /\ b - c >= d - e1 => a > d - e1
          OBVIOUS
        <5> QED  BY <2>0, <3>0, <4>1, <5>1, <5>2, <5>3, <5>4, Zenon
      <4> QED  BY <1>0, <4>2, <4>3
    <3>2. ASSUME NEW e \in Int, Clean(s, refused, k, e)
          PROVE  Clean(s, refused, j, e)
      BY <2>1, <3>2 DEF Clean
    <3>3. CASE ReadsTo(s, refused, k, m, q)
      <4>1. /\ q \in k .. Len(s) + 1 /\ Level(s, q) = Level(s, k) - m
            /\ q \notin {NeedMore, Fails}
        BY <1>0, <3>3 DEF ReadsTo, NeedMore, Fails
      <4>2. Clean(s, refused, j, q - 1)
        BY <3>2, <3>3, <4>1 DEF ReadsTo
      <4>3. Above(s, j, q - 1, Level(s, j) - n)
        <5>1. CASE q = k
          BY <2>1, <5>1
        <5>2. CASE q # k
          <6>1. q - 1 \in k .. Len(s) + 1
            BY <1>0, <4>1, <5>2
          <6> QED  BY <3>1, <3>3, <6>1 DEF ReadsTo
        <5> QED  BY <5>1, <5>2
      <4> QED  BY <4>1, <4>2, <4>3
    <3>4. CASE q = NeedMore /\ ReadsAll(s, refused, k, m)
      <4>1. Len(s) + 1 \in k .. Len(s) + 1
        BY <1>0
      <4>2. ReadsAll(s, refused, j, n)
        BY <1>0, <3>1, <3>2, <3>4, <4>1 DEF ReadsAll
      <4> QED  BY <3>4, <4>2 DEF NeedMore, Fails
    <3>5. CASE q = Fails /\ Stumbles(s, refused, k, m)
      <4>1. PICK e \in k .. Len(s) : /\ s[e].code \in refused
                                     /\ Above(s, k, e, Level(s, k) - m)
                                     /\ Clean(s, refused, k, e - 1)
        BY <3>5 DEF Stumbles
      <4>2. e \in k .. Len(s) + 1 /\ e - 1 \in Int /\ e \in j .. Len(s)
        BY <1>0
      <4>3. Stumbles(s, refused, j, n)
        BY <3>1, <3>2, <4>1, <4>2 DEF Stumbles
      <4> QED  BY <3>5, <4>3 DEF NeedMore, Fails
    <3> QED  BY <2>1, <3>3, <3>4, <3>5 DEF Reads
  <2>2. Above(s, j, j, Level(s, j) - n) /\ Clean(s, refused, j, j)
    BY <1>4, <2>0 DEF Above, Clean
  <2>3. (j + 1) - 1 = j
    BY <2>0
  <2>4. CASE s[j].code # "array"
    <3>1. r = g[j + 1][n - 1]
      BY <1>0, <1>4, <2>4 DEF Body
    <3>2. Reads(s, refused, j + 1, n - 1, r)
      BY <2>0, <3>1
    <3>3. Level(s, j + 1) - (n - 1) = Level(s, j) - n
      BY <2>0, <2>4 DEF Brings
    <3>4. /\ r = NeedMore => ReadsAll(s, refused, j, n)
          /\ r = Fails => Stumbles(s, refused, j, n)
          /\ r \notin {NeedMore, Fails} =>
                 /\ r \in j + 1 .. Len(s) + 1 /\ Level(s, r) = Level(s, j + 1) - (n - 1)
                 /\ Above(s, j, r - 1, Level(s, j) - n)
                 /\ Clean(s, refused, j, r - 1)
      <4>1. Level(s, j + 1) - (n - 1) >= Level(s, j) - n
        BY <2>0, <3>3
      <4>2. Above(s, j, (j + 1) - 1, Level(s, j) - n) /\ Clean(s, refused, j, (j + 1) - 1)
        BY <2>2, <2>3
      <4> HIDE DEF r
      <4> QED  BY <2>0, <2>1, <3>2, <4>1, <4>2
    <3>5. r \notin {NeedMore, Fails} => ReadsTo(s, refused, j, n, r)
      <4> HIDE DEF r
      <4> QED  BY <1>0, <3>3, <3>4 DEF ReadsTo
    <3> QED  BY <3>4, <3>5 DEF Reads
  <2>5. CASE s[j].code = "array"
    <3> DEFINE q == g[j + 1][s[j].n]
    <3>1. r = g[q][n - 1] /\ s[j].n = Brings(s[j])
      BY <1>0, <1>4, <2>5 DEF Body, Brings
    <3>2. Reads(s, refused, j + 1, Brings(s[j]), q)
      BY <2>0, <3>1
    <3>3. Level(s, j + 1) - Brings(s[j]) = Level(s, j) - 1
      BY <2>0
    <3>4. Level(s, j + 1) - Brings(s[j]) >= Level(s, j) - n
      BY <1>4, <2>0, <3>3
    <3>5. Above(s, j, (j + 1) - 1, Level(s, j) - n) /\ Clean(s, refused, j, (j + 1) - 1)
      BY <2>2, <2>3
    <3> HIDE DEF q
    <3>6. /\ q = NeedMore => ReadsAll(s, refused, j, n)
          /\ q = Fails => Stumbles(s, refused, j, n)
          /\ q \notin {NeedMore, Fails} =>
                 /\ q \in j + 1 .. Len(s) + 1 /\ Level(s, q) = Level(s, j + 1) - Brings(s[j])
                 /\ Above(s, j, q - 1, Level(s, j) - n)
                 /\ Clean(s, refused, j, q - 1)
      BY <2>0, <2>1, <3>2, <3>4, <3>5
    <3>7. CASE q \in {NeedMore, Fails}
      <4>1. r = q
        BY <2>0, <3>1, <3>7
      <4> QED  BY <3>6, <3>7, <4>1 DEF Reads
    <3>8. CASE q \notin {NeedMore, Fails}
      <4>1. Reads(s, refused, q, n - 1, r)
        BY <2>0, <3>1, <3>6, <3>8
      <4>2. Level(s, q) - (n - 1) = Level(s, j) - n
        BY <2>0, <3>3, <3>6, <3>8
      <4>3. Level(s, q) - (n - 1) >= Level(s, j) - n
        BY <2>0, <4>2
      <4> HIDE DEF r
      <4>4. /\ r = NeedMore => ReadsAll(s, refused, j, n)
            /\ r = Fails => Stumbles(s, refused, j, n)
            /\ r \notin {NeedMore, Fails} =>
                   /\ r \in q .. Len(s) + 1 /\ Level(s, r) = Level(s, q) - (n - 1)
                   /\ Above(s, j, r - 1, Level(s, j) - n)
                   /\ Clean(s, refused, j, r - 1)
        BY <2>0, <2>1, <3>6, <3>8, <4>1, <4>3
      <4>5. r \notin {NeedMore, Fails} => ReadsTo(s, refused, j, n, r)
        BY <1>0, <3>6, <3>8, <4>2, <4>4 DEF ReadsTo
      <4> QED  BY <4>4, <4>5 DEF Reads, r
    <3> QED  BY <3>7, <3>8
  <2> QED  BY <2>4, <2>5
<1> QED  BY <1>0, <1>1, <1>2, <1>3, <1>4

(* Somewhere, values end.                                                    *)
LEMMA SomeAnswer ==
    ASSUME NEW s \in Stream, NEW refused
    PROVE  \A j \in 1 .. Len(s) + 1 : \A n \in Nat : \E r : Reads(s, refused, j, n, r)
<1> DEFINE T == {j \in 1 .. Len(s) + 1 : \A n \in Nat : \E r : Reads(s, refused, j, n, r)}
           g == [j \in -1 .. Len(s) + 1 |->
                    [m \in Nat |-> IF j \in {NeedMore, Fails} THEN j
                                   ELSE CHOOSE r : Reads(s, refused, j, m, r)]]
<1>0. Len(s) + 1 \in Nat
  BY DEF Stream
<1>1. ASSUME NEW j \in 1 .. Len(s) + 1, \A k \in j + 1 .. Len(s) + 1 : k \in T
      PROVE  j \in T
  <2>1. \A m \in Nat : g[NeedMore][m] = NeedMore /\ g[Fails][m] = Fails
    BY <1>0 DEF NeedMore, Fails
  <2>2. ASSUME NEW k \in j + 1 .. Len(s) + 1, NEW m \in Nat
        PROVE  Reads(s, refused, k, m, g[k][m])
    <3>1. k \in -1 .. Len(s) + 1 /\ k \notin {NeedMore, Fails}
      BY <1>0 DEF NeedMore, Fails
    <3>2. g[k][m] = CHOOSE r : Reads(s, refused, k, m, r)
      BY <3>1
    <3>3. \E r : Reads(s, refused, k, m, r)
      BY <1>1
    <3> QED  BY <3>2, <3>3, Zenon
  <2> HIDE DEF g
  <2>3. \A n \in Nat : Reads(s, refused, j, n, Body(s, refused, g, j, n))
    BY <2>1, <2>2, BodyReads
  <2> QED  BY <2>3
<1> HIDE DEF T
<1>2. \A j \in 1 .. Len(s) + 1 : j \in T
  BY <1>0, <1>1, FromTheEnd
<1> QED  BY <1>2 DEF T

(* ReadValues gives the answer: the function it defines exists, and it is    *)
(* right from the end of the stream backwards.                               *)
LEMMA ReadValuesReads ==
    ASSUME NEW s \in Stream, NEW refused, NEW i \in 1 .. Len(s) + 1, NEW n \in Nat
    PROVE  Reads(s, refused, i, n, ReadValues(s, i, n, refused))
<1> DEFINE F(g) == [j \in -1 .. Len(s) + 1 |-> [m \in Nat |-> Body(s, refused, g, j, m)]]
           h == [j \in -1 .. Len(s) + 1 |->
                    [m \in Nat |-> IF j \in {NeedMore, Fails} THEN j
                                   ELSE CHOOSE r : Reads(s, refused, j, m, r)]]
           read == CHOOSE g : g = F(g)
<1>0. Len(s) + 1 \in Nat
  BY DEF Stream
<1>1. \A m \in Nat : h[NeedMore][m] = NeedMore /\ h[Fails][m] = Fails
  BY <1>0 DEF NeedMore, Fails
<1>2. ASSUME NEW k \in 1 .. Len(s) + 1, NEW m \in Nat
      PROVE  Reads(s, refused, k, m, h[k][m])
  <2>1. k \in -1 .. Len(s) + 1 /\ k \notin {NeedMore, Fails}
    BY <1>0 DEF NeedMore, Fails
  <2>2. h[k][m] = CHOOSE r : Reads(s, refused, k, m, r)
    BY <2>1
  <2>3. \E r : Reads(s, refused, k, m, r)
    BY SomeAnswer
  <2> QED  BY <2>2, <2>3, Zenon
<1>3. h = F(h)
  <2>1. ASSUME NEW j \in -1 .. Len(s) + 1, NEW m \in Nat
        PROVE  h[j][m] = Body(s, refused, h, j, m)
    <3>1. CASE j \in {NeedMore, Fails}
      BY <1>1, <3>1 DEF Body
    <3>2. CASE j \notin {NeedMore, Fails}
      <4>1. j \in 1 .. Len(s) + 1
        BY <1>0, <3>2 DEF NeedMore, Fails
      <4> HIDE DEF h
      <4>2. \A k \in j + 1 .. Len(s) + 1 : \A e \in Nat : Reads(s, refused, k, e, h[k][e])
        BY <1>0, <1>2, <4>1
      <4>3. Reads(s, refused, j, m, h[j][m])
        BY <1>2, <4>1
      <4>4. Reads(s, refused, j, m, Body(s, refused, h, j, m))
        BY <1>1, <4>1, <4>2, BodyReads
      <4> QED  BY <4>1, <4>3, <4>4, OneAnswer
    <3> QED  BY <3>1, <3>2
  <2>2. ASSUME NEW j \in -1 .. Len(s) + 1
        PROVE  h[j] = [m \in Nat |-> Body(s, refused, h, j, m)]
    <3>1. DOMAIN h[j] = Nat /\ h[j] = [m \in Nat |-> h[j][m]]
      OBVIOUS
    <3> HIDE DEF h
    <3> QED  BY <2>1, <3>1
  <2>3. h = [j \in -1 .. Len(s) + 1 |-> h[j]]
    OBVIOUS
  <2> HIDE DEF h
  <2> QED  BY <2>2, <2>3
<1> HIDE DEF h
<1>4. read = F(read)
  <2> HIDE DEF F
  <2> QED  BY <1>3, Zenon
<1>5. ReadValues(s, i, n, refused) = read[i][n]
  BY DEF ReadValues, Body
<1> HIDE DEF read
<1>6. ASSUME NEW j \in -1 .. Len(s) + 1, NEW m \in Nat
      PROVE  read[j][m] = Body(s, refused, read, j, m)
  <2>1. F(read)[j][m] = Body(s, refused, read, j, m)
    OBVIOUS
  <2> HIDE DEF F
  <2> QED  BY <1>4, <2>1
<1>7. \A m \in Nat : read[NeedMore][m] = NeedMore /\ read[Fails][m] = Fails
  <2>1. NeedMore \in -1 .. Len(s) + 1 /\ Fails \in -1 .. Len(s) + 1
    BY <1>0 DEF NeedMore, Fails
  <2> QED  BY <1>6, <2>1 DEF Body
<1> DEFINE T == {j \in 1 .. Len(s) + 1 : \A m \in Nat : Reads(s, refused, j, m, read[j][m])}
<1>8. ASSUME NEW j \in 1 .. Len(s) + 1, \A k \in j + 1 .. Len(s) + 1 : k \in T
      PROVE  j \in T
  <2>1. \A m \in Nat : Reads(s, refused, j, m, Body(s, refused, read, j, m))
    BY <1>7, <1>8, BodyReads
  <2>2. j \in -1 .. Len(s) + 1
    BY <1>0
  <2> QED  BY <1>6, <2>1, <2>2
<1> HIDE DEF T
<1>9. \A j \in 1 .. Len(s) + 1 : j \in T
  BY <1>0, <1>8, FromTheEnd
<1> QED  BY <1>5, <1>9 DEF T

-----------------------------------------------------------------------------
(***************************************************************************)
(* Decoding a packet.                                                       *)
(***************************************************************************)

(* The first value of the stream has not ended before j, where r values are  *)
(* owed.                                                                     *)
At(s, j, r) ==
    j \in 1 .. Len(s) + 1 /\ Level(s, j) = r /\ Above(s, 1, j - 1, 0)

LEMMA OneValueAt ==
    ASSUME NEW s \in Stream, NEW u \in 0 .. Len(s)
    PROVE  OneValue(SubSeq(s, 1, u)) <=> At(s, u + 1, 0)
<1> DEFINE t == SubSeq(s, 1, u)
<1>0. Len(s) \in Nat /\ u + 1 \in 1 .. Len(s) + 1 /\ (u + 1) - 1 = u /\ Len(t) = u
  BY Prefix DEF Stream
<1>1. Owed(t) = Level(s, u + 1)
  BY <1>0 DEF Level
<1>2. ASSUME NEW k \in 0 .. u - 1
      PROVE  Owed(SubSeq(t, 1, k)) = Level(s, k + 1)
  <2>1. SubSeq(t, 1, k) = SubSeq(s, 1, k)
    BY <1>0 DEF Stream
  <2>2. (k + 1) - 1 = k
    OBVIOUS
  <2> HIDE DEF t
  <2> QED  BY <2>1, <2>2 DEF Level
<1> HIDE DEF t
<1>3. OneValue(t) <=> Level(s, u + 1) = 0 /\ \A k \in 0 .. u - 1 : Level(s, k + 1) > 0
  BY <1>0, <1>1, <1>2 DEF OneValue
<1>4. (\A k \in 0 .. u - 1 : Level(s, k + 1) > 0) <=> \A m \in 1 .. u : Level(s, m) > 0
  <2>1. ASSUME \A k \in 0 .. u - 1 : Level(s, k + 1) > 0, NEW m \in 1 .. u
        PROVE  Level(s, m) > 0
    <3>1. m - 1 \in 0 .. u - 1 /\ (m - 1) + 1 = m
      OBVIOUS
    <3> QED  BY <2>1, <3>1
  <2>2. ASSUME \A m \in 1 .. u : Level(s, m) > 0, NEW k \in 0 .. u - 1
        PROVE  Level(s, k + 1) > 0
    BY <2>2
  <2> QED  BY <2>1, <2>2
<1>5. OneValue(t) <=> At(s, u + 1, 0)
  BY <1>0, <1>3, <1>4 DEF At, Above
<1> QED  BY <1>5 DEF t

LEMMA WholeStreamAt ==
    ASSUME NEW s \in Stream
    PROVE  OneValue(s) <=> At(s, Len(s) + 1, 0)
<1>1. Len(s) \in 0 .. Len(s) /\ SubSeq(s, 1, Len(s)) = s
  BY DEF Stream
<1> QED  BY <1>1, OneValueAt

Unreadable == {"bad", "cut", "odd"}

(* Reading n of the n + c values that are missing.                           *)
LEMMA ReadOn ==
    ASSUME NEW s \in Stream, NEW refused \in SUBSET Unreadable,
           NEW i \in 1 .. Len(s) + 1, NEW n \in Nat, NEW c \in Nat
    PROVE  LET r == ReadValues(s, i, n, refused)
           IN  /\ r \in {NeedMore, Fails} \/ r \in i .. Len(s) + 1
               /\ r = Fails => Has(s, Unreadable)
               /\ At(s, i, n + c) => /\ r \notin {NeedMore, Fails} => At(s, r, c)
                                     /\ r = NeedMore => ~OneValue(s)
<1> DEFINE r == ReadValues(s, i, n, refused)
<1>0. /\ Len(s) \in Nat /\ Len(s) + 1 \in 1 .. Len(s) + 1
      /\ \A k \in 1 .. Len(s) + 1 : Level(s, k) \in Int
  BY Levels DEF Stream
<1>1. Reads(s, refused, i, n, r)
  BY ReadValuesReads
<1> HIDE DEF r
<1>2. CASE ReadsTo(s, refused, i, n, r)
  <2>1. r \in i .. Len(s) + 1 /\ r \notin {NeedMore, Fails} /\ r \in 1 .. Len(s) + 1
    BY <1>0, <1>2 DEF ReadsTo, NeedMore, Fails
  <2>2. ASSUME At(s, i, n + c)
        PROVE  At(s, r, c)
    <3>1. Level(s, r) = c /\ Level(s, i) - n = c
      BY <1>0, <1>2, <2>2 DEF ReadsTo, At
    <3>2. ASSUME NEW m \in 1 .. r - 1
          PROVE  Level(s, m) > 0
      <4>0. Level(s, m) \in Int
        BY <1>0, <2>1
      <4>1. CASE m \in 1 .. i - 1
        BY <2>2, <4>0, <4>1 DEF At, Above
      <4>2. CASE m \in i .. r - 1
        BY <1>2, <3>1, <4>0, <4>2 DEF ReadsTo, Above
      <4> QED  BY <2>1, <4>1, <4>2
    <3> QED  BY <2>1, <3>1, <3>2 DEF At, Above
  <2> QED  BY <2>1, <2>2 DEF r
<1>3. CASE r = NeedMore /\ ReadsAll(s, refused, i, n)
  <2>1. ASSUME At(s, i, n + c)
        PROVE  ~OneValue(s)
    <3>1. Level(s, i) - n = c
      BY <1>0, <2>1 DEF At
    <3>2. Level(s, Len(s) + 1) > c
      BY <1>0, <1>3, <3>1 DEF ReadsAll, Above
    <3>3. ~At(s, Len(s) + 1, 0)
      BY <1>0, <3>2 DEF At
    <3> QED  BY <3>3, WholeStreamAt
  <2> QED  BY <1>3, <2>1 DEF r, NeedMore, Fails
<1>4. CASE r = Fails /\ Stumbles(s, refused, i, n)
  <2>1. PICK k \in i .. Len(s) : s[k].code \in refused
    BY <1>4 DEF Stumbles
  <2>2. k \in DOMAIN s
    BY <1>0 DEF Stream
  <2>3. Has(s, Unreadable)
    BY <2>1, <2>2 DEF Has
  <2> QED  BY <1>4, <2>3 DEF r, NeedMore, Fails
<1> QED  BY <1>1, <1>2, <1>3, <1>4 DEF Reads

(* What is said of every outcome of decodeRpcPacket and of its parts.        *)
Sound(s, p) ==
    /\ p.kind \in {"packet", "invalid", "more", "fatal"}
    /\ p.kind \in {"packet", "invalid"} => p.used \in 0 .. Len(s)
    /\ p.kind = "fatal" => Has(s, Unreadable)
    /\ ~Has(s, {"cut"}) => /\ p.kind \in {"packet", "invalid"} => At(s, p.used + 1, 0)
                           /\ p.kind = "more" => ~OneValue(s)

LEMMA Refusals == /\ {"bad", "cut"} \in SUBSET Unreadable
                  /\ {"bad", "cut", "odd"} \in SUBSET Unreadable
  BY DEF Unreadable

LEMMA SkipSound ==
    ASSUME NEW s \in Stream, NEW i \in 1 .. Len(s) + 1, NEW n \in Nat,
           ~Has(s, {"cut"}) => At(s, i, n)
    PROVE  Sound(s, skipAndError(s, i, n))
<1> DEFINE r == ReadValues(s, i, n, {"bad", "cut"})
<1>0. Len(s) \in Nat /\ n + 0 = n
  BY DEF Stream
<1>1. /\ r \in {NeedMore, Fails} \/ r \in i .. Len(s) + 1
      /\ r = Fails => Has(s, Unreadable)
      /\ At(s, i, n + 0) => /\ r \notin {NeedMore, Fails} => At(s, r, 0)
                            /\ r = NeedMore => ~OneValue(s)
  BY ReadOn, Refusals
<1>2. skipAndError(s, i, n) =
          IF r = NeedMore THEN Outcome("more", 0)
          ELSE IF r = Fails THEN Outcome("fatal", 0)
          ELSE Outcome("invalid", r - 1)
  BY DEF skipAndError, Skip, After
<1> HIDE DEF r
<1>3. CASE r = NeedMore
  <2>1. skipAndError(s, i, n) = Outcome("more", 0)
    BY <1>2, <1>3
  <2> QED  BY <1>0, <1>1, <1>3, <2>1 DEF Sound, Outcome, NeedMore, Fails
<1>4. CASE r = Fails
  <2>1. skipAndError(s, i, n) = Outcome("fatal", 0)
    BY <1>2, <1>4 DEF NeedMore, Fails
  <2> QED  BY <1>1, <1>4, <2>1 DEF Sound, Outcome
<1>5. CASE r \notin {NeedMore, Fails}
  <2>1. skipAndError(s, i, n) = Outcome("invalid", r - 1)
    BY <1>2, <1>5
  <2>2. r \in i .. Len(s) + 1 /\ r - 1 \in 0 .. Len(s) /\ (r - 1) + 1 = r
    BY <1>0, <1>1, <1>5
  <2> QED  BY <1>0, <1>1, <1>5, <2>1, <2>2 DEF Sound, Outcome
<1> QED  BY <1>3, <1>4, <1>5

LEMMA DataSound ==
    ASSUME NEW s \in Stream, NEW i \in 1 .. Len(s) + 1, NEW n \in Nat, NEW type, NEW id,
           ~Has(s, {"cut"}) => At(s, i, n)
    PROVE  Sound(s, readData(s, i, n, type, id))
<1> DEFINE r == IF asRaw THEN Skip(s, i, n) ELSE DecodeInterface(s, i, n)
<1>0. Len(s) \in Nat /\ n + 0 = n
  BY DEF Stream
<1>1. /\ r \in {NeedMore, Fails} \/ r \in i .. Len(s) + 1
      /\ r = Fails => Has(s, Unreadable)
      /\ At(s, i, n + 0) => /\ r \notin {NeedMore, Fails} => At(s, r, 0)
                            /\ r = NeedMore => ~OneValue(s)
  <2>1. CASE asRaw
    <3>1. r = ReadValues(s, i, n, {"bad", "cut"})
      BY <2>1 DEF Skip
    <3> HIDE DEF r
    <3> QED  BY <3>1, ReadOn, Refusals
  <2>2. CASE ~asRaw
    <3>1. r = ReadValues(s, i, n, {"bad", "cut", "odd"})
      BY <2>2 DEF DecodeInterface
    <3> HIDE DEF r
    <3> QED  BY <3>1, ReadOn, Refusals
  <2> QED  BY <2>1, <2>2
<1>2. readData(s, i, n, type, id) =
          IF r = NeedMore THEN Outcome("more", 0)
          ELSE IF r = Fails THEN Outcome("fatal", 0)
          ELSE Packet(s, r - 1, type, id, i)
  BY DEF readData, After
<1> HIDE DEF r
<1>3. CASE r = NeedMore
  <2>1. readData(s, i, n, type, id) = Outcome("more", 0)
    BY <1>2, <1>3
  <2> QED  BY <1>0, <1>1, <1>3, <2>1 DEF Sound, Outcome, NeedMore, Fails
<1>4. CASE r = Fails
  <2>1. readData(s, i, n, type, id) = Outcome("fatal", 0)
    BY <1>2, <1>4 DEF NeedMore, Fails
  <2> QED  BY <1>1, <1>4, <2>1 DEF Sound, Outcome
<1>5. CASE r \notin {NeedMore, Fails}
  <2>1. readData(s, i, n, type, id) = Packet(s, r - 1, type, id, i)
    BY <1>2, <1>5
  <2>2. r \in i .. Len(s) + 1 /\ r - 1 \in 0 .. Len(s) /\ (r - 1) + 1 = r
    BY <1>0, <1>1, <1>5
  <2> QED  BY <1>0, <1>1, <1>5, <2>1, <2>2 DEF Sound, Packet
<1> QED  BY <1>3, <1>4, <1>5

(* The header of an array is one value paid and n more owed.                 *)
LEMMA HeaderAt ==
    ASSUME NEW s \in Stream, NEW i \in 1 .. Len(s), NEW c \in Nat,
           At(s, i, 1 + c), s[i].code = "array"
    PROVE  At(s, i + 1, c + s[i].n)
<1>0. /\ Len(s) \in Nat /\ s[i].n \in Nat /\ Brings(s[i]) = s[i].n
      /\ Level(s, i + 1) = Level(s, i) - 1 + Brings(s[i])
      /\ i + 1 \in 1 .. Len(s) + 1 /\ (i + 1) - 1 = i
  BY Levels, Tokens DEF Brings, Stream
<1>1. Level(s, i) = 1 + c /\ Above(s, 1, i - 1, 0)
  BY DEF At
<1>2. Above(s, 1, i, 0)
  BY <1>1 DEF Above
<1> QED  BY <1>0, <1>1, <1>2 DEF At

LEMMA ReadOneOn ==
    ASSUME NEW s \in Stream, NEW i \in 1 .. Len(s) + 1, NEW c \in Nat,
           ~Has(s, {"cut"}) => At(s, i, 1 + c)
    PROVE  LET r == DecodeInterface(s, i, 1)
           IN  /\ r \in {NeedMore, Fails} \/ r \in i .. Len(s) + 1
               /\ r = NeedMore => Sound(s, Outcome("more", 0))
               /\ r = Fails => Sound(s, Outcome("fatal", 0))
               /\ r \notin {NeedMore, Fails} /\ ~Has(s, {"cut"}) => At(s, r, c)
<1> DEFINE r == ReadValues(s, i, 1, {"bad", "cut", "odd"})
<1>1. /\ r \in {NeedMore, Fails} \/ r \in i .. Len(s) + 1
      /\ r = Fails => Has(s, Unreadable)
      /\ At(s, i, 1 + c) => /\ r \notin {NeedMore, Fails} => At(s, r, c)
                            /\ r = NeedMore => ~OneValue(s)
  BY ReadOn, Refusals
<1>2. DecodeInterface(s, i, 1) = r
  BY DEF DecodeInterface
<1> HIDE DEF r
<1>3. r = NeedMore => Sound(s, Outcome("more", 0))
  BY <1>1 DEF Sound, Outcome, NeedMore, Fails
<1>4. r = Fails => Sound(s, Outcome("fatal", 0))
  BY <1>1 DEF Sound, Outcome
<1> QED  BY <1>1, <1>2, <1>3, <1>4

LEMMA ParamsSound ==
    ASSUME NEW s \in Stream, NEW i \in 1 .. Len(s) + 1, NEW type, NEW id,
           ~Has(s, {"cut"}) => At(s, i, 1)
    PROVE  Sound(s, readParams(s, i, type, id))
<1>0. Len(s) \in Nat /\ DOMAIN s = 1 .. Len(s)
  BY DEF Stream
<1>1. CASE i > Len(s)
  <2>1. readParams(s, i, type, id) = Outcome("more", 0)
    BY <1>1 DEF readParams
  <2>2. i = Len(s) + 1
    BY <1>0, <1>1
  <2>3. ~Has(s, {"cut"}) => ~OneValue(s)
    BY <2>2, WholeStreamAt DEF At
  <2> QED  BY <2>1, <2>3 DEF Sound, Outcome
<1>2. CASE i \in 1 .. Len(s) /\ ~IsArray(s[i])
  <2>1. readParams(s, i, type, id) = skipAndError(s, i, 1)
    BY <1>2 DEF readParams
  <2> QED  BY <2>1, SkipSound
<1>3. CASE i \in 1 .. Len(s) /\ IsArray(s[i])
  <2>1. readParams(s, i, type, id) = readData(s, i + 1, s[i].n, type, id)
    BY <1>0, <1>3 DEF readParams, ArrayLen
  <2>2. i + 1 \in 1 .. Len(s) + 1 /\ s[i].n \in Nat
    <3>1. s[i].code = "array" \/ s[i] = Cut
      BY <1>3, Tokens DEF IsArray, Token, Cut
    <3> QED  BY <1>0, <1>3, <3>1, Tokens DEF Cut
  <2>3. ~Has(s, {"cut"}) => At(s, i + 1, s[i].n)
    <3> SUFFICES ASSUME ~Has(s, {"cut"})
                 PROVE  At(s, i + 1, s[i].n)
      OBVIOUS
    <3>1. s[i].code = "array"
      BY <1>0, <1>3 DEF IsArray, Has
    <3>2. At(s, i, 1 + 0) /\ 0 + s[i].n = s[i].n
      BY <2>2
    <3>3. At(s, i + 1, 0 + s[i].n)
      BY <1>3, <3>1, <3>2, HeaderAt
    <3> QED  BY <3>2, <3>3
  <2> QED  BY <2>1, <2>2, <2>3, DataSound
<1> QED  BY <1>0, <1>1, <1>2, <1>3

LEMMA MethodSound ==
    ASSUME NEW s \in Stream, NEW i \in 1 .. Len(s) + 1, NEW type, NEW id,
           ~Has(s, {"cut"}) => At(s, i, 2)
    PROVE  Sound(s, readMethod(s, i, type, id))
<1> DEFINE r == DecodeInterface(s, i, 1)
<1>1. /\ r \in {NeedMore, Fails} \/ r \in i .. Len(s) + 1
      /\ r = NeedMore => Sound(s, Outcome("more", 0))
      /\ r = Fails => Sound(s, Outcome("fatal", 0))
      /\ r \notin {NeedMore, Fails} /\ ~Has(s, {"cut"}) => At(s, r, 1)
  <2>1. ~Has(s, {"cut"}) => At(s, i, 1 + 1)
    OBVIOUS
  <2> QED  BY <2>1, ReadOneOn
<1>2. readMethod(s, i, type, id) =
          IF r = NeedMore THEN Outcome("more", 0)
          ELSE IF r = Fails THEN Outcome("fatal", 0)
          ELSE IF s[i].code # "string" THEN skipAndError(s, r, 1)
          ELSE readParams(s, r, type, id)
  BY DEF readMethod, After
<1> HIDE DEF r
<1>3. CASE r \in {NeedMore, Fails}
  BY <1>1, <1>2, <1>3
<1>4. CASE r \notin {NeedMore, Fails}
  <2>1. r \in 1 .. Len(s) + 1
    BY <1>1, <1>4
  <2>2. Sound(s, skipAndError(s, r, 1)) /\ Sound(s, readParams(s, r, type, id))
    BY <1>1, <1>4, <2>1, SkipSound, ParamsSound
  <2> QED  BY <1>2, <1>4, <2>2
<1> QED  BY <1>3, <1>4

LEMMA IdSound ==
    ASSUME NEW s \in Stream, NEW i \in 1 .. Len(s) + 1, NEW type,
           ~Has(s, {"cut"}) => At(s, i, 3)
    PROVE  Sound(s, readId(s, i, type))
<1> DEFINE r == DecodeInterface(s, i, 1)
           id == CHOOSE x \in ToUint(s[i]) : TRUE
<1>1. /\ r \in {NeedMore, Fails} \/ r \in i .. Len(s) + 1
      /\ r = NeedMore => Sound(s, Outcome("more", 0))
      /\ r = Fails => Sound(s, Outcome("fatal", 0))
      /\ r \notin {NeedMore, Fails} /\ ~Has(s, {"cut"}) => At(s, r, 2)
  <2>1. ~Has(s, {"cut"}) => At(s, i, 1 + 2)
    OBVIOUS
  <2> QED  BY <2>1, ReadOneOn
<1>2. readId(s, i, type) =
          IF r = NeedMore THEN Outcome("more", 0)
          ELSE IF r = Fails THEN Outcome("fatal", 0)
          ELSE IF ToUint(s[i]) = {} THEN skipAndError(s, r, 2)
          ELSE IF type = messageTypeRequest THEN readMethod(s, r, type, id)
          ELSE readData(s, r, 2, type, id)
  BY DEF readId, After
<1> HIDE DEF r, id
<1>3. CASE r \in {NeedMore, Fails}
  BY <1>1, <1>2, <1>3
<1>4. CASE r \notin {NeedMore, Fails}
  <2>1. r \in 1 .. Len(s) + 1
    BY <1>1, <1>4
  <2>2. /\ Sound(s, skipAndError(s, r, 2))
        /\ Sound(s, readMethod(s, r, type, id))
        /\ Sound(s, readData(s, r, 2, type, id))
    BY <1>1, <1>4, <2>1, SkipSound, MethodSound, DataSound
  <2> QED  BY <1>2, <1>4, <2>2
<1> QED  BY <1>3, <1>4

LEMMA TypeSound ==
    ASSUME NEW s \in Stream, NEW l \in {3, 4}, 2 \in 1 .. Len(s) + 1,
           ~Has(s, {"cut"}) => At(s, 2, l)
    PROVE  Sound(s, readType(s, l))
<1> DEFINE r == DecodeInterface(s, 2, 1)
<1>1. /\ r \in {NeedMore, Fails} \/ r \in 2 .. Len(s) + 1
      /\ r = NeedMore => Sound(s, Outcome("more", 0))
      /\ r = Fails => Sound(s, Outcome("fatal", 0))
      /\ r \notin {NeedMore, Fails} /\ ~Has(s, {"cut"}) => At(s, r, l - 1)
  <2>1. (~Has(s, {"cut"}) => At(s, 2, 1 + (l - 1))) /\ l - 1 \in Nat
    OBVIOUS
  <2> QED  BY <2>1, ReadOneOn
<1>2. readType(s, l) =
          IF r = NeedMore THEN Outcome("more", 0)
          ELSE IF r = Fails THEN Outcome("fatal", 0)
          ELSE IF ToInt(s[2]) \cap {messageTypeRequest, messageTypeResponse} # {} /\ l = 4
                 THEN readId(s, r, s[2].n)
          ELSE IF ToInt(s[2]) = {messageTypeNotification} /\ l = 3
                 THEN readMethod(s, r, messageTypeNotification, 0)
          ELSE skipAndError(s, r, l - 1)
  BY DEF readType, After
<1> HIDE DEF r
<1>3. CASE r \in {NeedMore, Fails}
  BY <1>1, <1>2, <1>3
<1>4. CASE r \notin {NeedMore, Fails}
  <2>1. r \in 1 .. Len(s) + 1
    BY <1>1, <1>4
  <2>2. /\ l - 1 \in Nat
        /\ l = 4 => (~Has(s, {"cut"}) => At(s, r, 3))
        /\ l = 3 => (~Has(s, {"cut"}) => At(s, r, 2))
        /\ ~Has(s, {"cut"}) => At(s, r, l - 1)
    BY <1>1, <1>4
  <2>3. /\ l = 4 => Sound(s, readId(s, r, s[2].n))
        /\ l = 3 => Sound(s, readMethod(s, r, messageTypeNotification, 0))
        /\ Sound(s, skipAndError(s, r, l - 1))
    BY <2>1, <2>2, IdSound, MethodSound, SkipSound
  <2> QED  BY <1>2, <1>4, <2>3
<1> QED  BY <1>3, <1>4

(* Whatever the stream holds, decodeRpcPacket ends where the first value of  *)
(* it does, waits only for the rest of that value, and gives up only over a  *)
(* token that cannot be read.                                                *)
LEMMA DecodeSound ==
    ASSUME NEW s \in Stream
    PROVE  Sound(s, decodeRpcPacket(s))
<1>0. Len(s) \in Nat /\ DOMAIN s = 1 .. Len(s) /\ (s # <<>> => 1 \in 1 .. Len(s))
  BY DEF Stream
<1>1. At(s, 1, 1)
  BY <1>0, Levels DEF At, Above
<1>2. CASE s = <<>>
  <2>1. decodeRpcPacket(s) = Outcome("more", 0)
    BY <1>2 DEF decodeRpcPacket
  <2>2. Len(s) + 1 = 1
    BY <1>2
  <2>3. ~OneValue(s)
    BY <1>1, <2>2, WholeStreamAt DEF At
  <2> QED  BY <2>1, <2>3 DEF Sound, Outcome
<1>3. CASE s # <<>> /\ ~IsArray(s[1])
  <2>1. decodeRpcPacket(s) = skipAndError(s, 1, 1)
    BY <1>3 DEF decodeRpcPacket
  <2> QED  BY <1>0, <1>1, <1>3, <2>1, SkipSound
<1>4. CASE s # <<>> /\ IsArray(s[1])
  <2>1. 2 \in 1 .. Len(s) + 1 /\ s[1].n \in Nat
    <3>1. s[1].code = "array" \/ s[1] = Cut
      BY <1>0, <1>4, Tokens DEF IsArray, Token, Cut
    <3> QED  BY <1>0, <1>4, <3>1, Tokens DEF Cut
  <2>2. ~Has(s, {"cut"}) => At(s, 2, s[1].n)
    <3> SUFFICES ASSUME ~Has(s, {"cut"})
                 PROVE  At(s, 2, s[1].n)
      OBVIOUS
    <3>1. s[1].code = "array"
      BY <1>0, <1>4 DEF IsArray, Has
    <3>2. At(s, 1, 1 + 0) /\ 0 + s[1].n = s[1].n /\ 1 + 1 = 2
      BY <1>1, <2>1
    <3>3. At(s, 1 + 1, 0 + s[1].n)
      BY <1>0, <1>4, <3>1, <3>2, HeaderAt
    <3> QED  BY <3>2, <3>3
  <2>3. CASE s[1].n \notin {3, 4}
    <3>1. decodeRpcPacket(s) = skipAndError(s, 2, s[1].n)
      BY <1>4, <2>3 DEF decodeRpcPacket, ArrayLen
    <3> QED  BY <2>1, <2>2, <3>1, SkipSound
  <2>4. CASE s[1].n \in {3, 4}
    <3>1. decodeRpcPacket(s) = readType(s, s[1].n)
      BY <1>4, <2>4 DEF decodeRpcPacket, ArrayLen
    <3> QED  BY <2>1, <2>2, <2>4, <3>1, TypeSound
  <2> QED  BY <2>3, <2>4
<1> QED  BY <1>2, <1>3, <1>4

-----------------------------------------------------------------------------
(***************************************************************************)
(* Recognising a message.                                                   *)
(***************************************************************************)

(* One value that can be read.                                               *)
Readable(s) == ~Has(s, Unreadable) /\ OneValue(s)

LEMMA ReadableSound ==
    ASSUME NEW s \in Stream, Readable(s), NEW p, Sound(s, p)
    PROVE  p.kind \in {"packet", "invalid"} /\ p.used = Len(s)
<1>1. ~Has(s, Unreadable) /\ ~Has(s, {"cut"})
  BY DEF Readable, Has, Unreadable
<1>2. p.kind \in {"packet", "invalid"} /\ At(s, p.used + 1, 0) /\ p.used \in 0 .. Len(s)
  BY <1>1 DEF Sound, Readable
<1>3. At(s, Len(s) + 1, 0) /\ Len(s) \in Nat
  BY WholeStreamAt DEF Readable, Stream
<1>4. ASSUME p.used # Len(s)
      PROVE  FALSE
  <2>1. p.used + 1 \in 1 .. (Len(s) + 1) - 1
    BY <1>2, <1>3, <1>4
  <2> QED  BY <1>2, <1>3, <2>1 DEF At, Above
<1> QED  BY <1>2, <1>4

(* While values are owed, there is another token.                            *)
LEMMA ReadableGoesOn ==
    ASSUME NEW s \in Stream, Readable(s), NEW i, NEW c \in Nat, At(s, i, 1 + c)
    PROVE  i \in 1 .. Len(s)
<1>1. At(s, Len(s) + 1, 0) /\ Len(s) \in Nat
  BY WholeStreamAt DEF Readable, Stream
<1> QED  BY <1>1 DEF At

(* A token that is no header is read by itself.                              *)
LEMMA ReadScalar ==
    ASSUME NEW s \in Stream, Readable(s), NEW i \in 1 .. Len(s), s[i].code # "array",
           NEW c \in Nat, At(s, i, 1 + c)
    PROVE  DecodeInterface(s, i, 1) = i + 1 /\ At(s, i + 1, c)
<1>0. /\ Len(s) \in Nat /\ i + 1 \in i .. Len(s) + 1 /\ i \in 1 .. Len(s) + 1
      /\ (i + 1) - 1 = i /\ i + 1 \in 1 .. Len(s) + 1
  BY DEF Stream
<1>1. Level(s, i) = 1 + c /\ Level(s, i + 1) = c
  <2>1. Brings(s[i]) = 0
    BY DEF Brings
  <2>2. Level(s, i) = 1 + c
    BY DEF At
  <2> QED  BY <2>1, <2>2, Levels
<1>2. s[i].code \notin {"bad", "cut", "odd"}
  BY DEF Readable, Has, Unreadable, Stream
<1>3. Above(s, i, i, Level(s, i) - 1) /\ Clean(s, {"bad", "cut", "odd"}, i, i)
  BY <1>1, <1>2 DEF Above, Clean
<1>4. Reads(s, {"bad", "cut", "odd"}, i, 1, i + 1)
  BY <1>0, <1>1, <1>3 DEF Reads, ReadsTo
<1>5. Reads(s, {"bad", "cut", "odd"}, i, 1, ReadValues(s, i, 1, {"bad", "cut", "odd"}))
  BY <1>0, ReadValuesReads
<1>6. ReadValues(s, i, 1, {"bad", "cut", "odd"}) = i + 1
  BY <1>0, <1>4, <1>5, OneAnswer
<1>7. Above(s, 1, i, 0)
  BY <1>1 DEF At, Above
<1> QED  BY <1>0, <1>1, <1>6, <1>7 DEF DecodeInterface, At

LEMMA SkipKind ==
    ASSUME NEW s, NEW i, NEW n
    PROVE  skipAndError(s, i, n).kind # "packet"
  BY DEF skipAndError, After, Outcome

LEMMA DataKind ==
    ASSUME NEW s, NEW i, NEW n, NEW type, NEW id
    PROVE  LET p == readData(s, i, n, type, id)
           IN  /\ p.kind # "invalid"
               /\ p.kind = "packet" =>
                      p.type = type /\ p.id = id /\ p.data = SubSeq(s, i, p.used)
  BY DEF readData, After, Outcome, Packet

(* A call: its method name at i and its parameters after it.                 *)
LEMMA MethodRecognised ==
    ASSUME NEW s \in Stream, Readable(s), NEW i \in 1 .. Len(s), At(s, i, 2),
           NEW type, NEW id
    PROVE  LET p == readMethod(s, i, type, id)
           IN  /\ p.kind \in {"packet", "invalid"}
               /\ p.kind = "packet" <=> s[i].code = "string" /\ s[i + 1].code = "array"
               /\ p.kind = "packet" => /\ p.type = type /\ p.id = id
                                       /\ p.data = SubSeq(s, i + 2, Len(s))
<1> DEFINE p == readMethod(s, i, type, id)
           r == DecodeInterface(s, i, 1)
<1>0. Len(s) \in Nat /\ i \in 1 .. Len(s) + 1 /\ 1 + 1 = 2 /\ 1 + 0 = 1
  BY DEF Stream
<1>1. p.kind \in {"packet", "invalid"} /\ p.used = Len(s)
  <2>1. Sound(s, p)
    BY <1>0, MethodSound
  <2> HIDE DEF p
  <2> QED  BY <2>1, ReadableSound
<1>2. p = IF r = NeedMore THEN Outcome("more", 0)
          ELSE IF r = Fails THEN Outcome("fatal", 0)
          ELSE IF s[i].code # "string" THEN skipAndError(s, r, 1)
          ELSE readParams(s, r, type, id)
  BY DEF readMethod, After
<1>3. CASE s[i].code # "string"
  <2> HIDE DEF p, r
  <2>1. p.kind # "packet"
    BY <1>2, <1>3, SkipKind DEF Outcome
  <2> QED  BY <1>1, <1>3, <2>1 DEF p
<1>4. CASE s[i].code = "string"
  <2>1. r = i + 1 /\ At(s, i + 1, 1)
    <3>1. At(s, i, 1 + 1)
      BY <1>0
    <3> QED  BY <1>4, <3>1, ReadScalar
  <2>2. i + 1 \in 1 .. Len(s)
    <3>1. At(s, i + 1, 1 + 0)
      BY <1>0, <2>1
    <3> QED  BY <3>1, ReadableGoesOn
  <2> HIDE DEF p, r
  <2>3. p = readParams(s, i + 1, type, id)
    BY <1>2, <1>4, <2>1 DEF NeedMore, Fails
  <2>4. CASE s[i + 1].code # "array"
    <3>1. ~IsArray(s[i + 1])
      BY <2>2, <2>4 DEF IsArray, Readable, Has, Unreadable, Stream
    <3>2. p = skipAndError(s, i + 1, 1)
      BY <1>0, <2>2, <2>3, <3>1 DEF readParams
    <3>3. p.kind # "packet"
      BY <3>2, SkipKind
    <3> QED  BY <1>1, <2>4, <3>3 DEF p
  <2>5. CASE s[i + 1].code = "array"
    <3>1. p = readData(s, i + 2, s[i + 1].n, type, id)
      <4>1. (i + 1) + 1 = i + 2 /\ IsArray(s[i + 1]) /\ ~(i + 1 > Len(s))
        BY <1>0, <2>2, <2>5 DEF IsArray
      <4> QED  BY <2>3, <4>1 DEF readParams, ArrayLen
    <3>2. /\ p.kind # "invalid"
          /\ p.kind = "packet" =>
                 p.type = type /\ p.id = id /\ p.data = SubSeq(s, i + 2, p.used)
      BY <3>1, DataKind
    <3> QED  BY <1>1, <1>4, <2>5, <3>2 DEF p
  <2> QED  BY <2>4, <2>5
<1> QED  BY <1>3, <1>4

(* The numbers that pass for a type and for an ID.                           *)
LEMMA Numbers ==
    ASSUME NEW s \in Stream, NEW i \in 1 .. Len(s)
    PROVE  /\ \A t \in {0, 1, 2} : t \in ToInt(s[i]) <=> Number(s[i], t)
           /\ ToInt(s[i]) \subseteq {s[i].n}
           /\ ToUint(s[i]) # {} <=> s[i].code \in {"int", "uint"} /\ s[i].n >= 0
           /\ ToUint(s[i]) # {} => (CHOOSE x \in ToUint(s[i]) : TRUE) = s[i].n
<1>1. s[i] \in Token \cup {Cut} /\ s[i].n \in Int
  BY Tokens
<1>2. s[i].code = "uint" => s[i].n = MaxInt + 1
  BY <1>1 DEF Token, Cut
<1>3. MaxInt \in Nat /\ MaxInt >= 2
  BY ReaderAssumption
<1>4. \A t \in {0, 1, 2} : t \in ToInt(s[i]) <=> Number(s[i], t)
  BY <1>1, <1>2, <1>3 DEF ToInt, Number
<1>5. ToInt(s[i]) \subseteq {s[i].n}
  BY DEF ToInt
<1>6. ToUint(s[i]) # {} <=> s[i].code \in {"int", "uint"} /\ s[i].n >= 0
  BY <1>1, <1>2, <1>3 DEF ToUint
<1>7. ToUint(s[i]) # {} => ToUint(s[i]) = {s[i].n}
  BY DEF ToUint
<1>8. ToUint(s[i]) # {} => (CHOOSE x \in ToUint(s[i]) : TRUE) = s[i].n
  BY <1>7
<1> QED  BY <1>4, <1>5, <1>6, <1>8

(* A request or a response, after its type.                                  *)
LEMMA IdRecognised ==
    ASSUME NEW s \in Stream, Readable(s), At(s, 3, 3), NEW type \in {0, 1}
    PROVE  LET p    == readId(s, 3, type)
               isId == s[3].code \in {"int", "uint"} /\ s[3].n >= 0
           IN  /\ p.kind \in {"packet", "invalid"}
               /\ p.kind = "packet" <=>
                      /\ isId
                      /\ type = 0 => s[4].code = "string" /\ s[5].code = "array"
               /\ p.kind = "packet" =>
                      /\ p.type = type /\ p.id = s[3].n
                      /\ p.data = SubSeq(s, IF type = 0 THEN 6 ELSE 4, Len(s))
<1> DEFINE p == readId(s, 3, type)
           r == DecodeInterface(s, 3, 1)
           id == CHOOSE x \in ToUint(s[3]) : TRUE
<1>0. Len(s) \in Nat /\ 1 + 2 = 3 /\ 1 + 1 = 2
  BY DEF Stream
<1>1. 3 \in 1 .. Len(s) /\ 3 \in 1 .. Len(s) + 1
  <2>1. At(s, 3, 1 + 2)
    BY <1>0
  <2>2. 3 \in 1 .. Len(s)
    BY <2>1, ReadableGoesOn
  <2> QED  BY <1>0, <2>2
<1>2. p.kind \in {"packet", "invalid"} /\ p.used = Len(s)
  <2>1. Sound(s, p)
    BY <1>1, IdSound
  <2> HIDE DEF p
  <2> QED  BY <2>1, ReadableSound
<1>3. p = IF r = NeedMore THEN Outcome("more", 0)
          ELSE IF r = Fails THEN Outcome("fatal", 0)
          ELSE IF ToUint(s[3]) = {} THEN skipAndError(s, r, 2)
          ELSE IF type = messageTypeRequest THEN readMethod(s, r, type, id)
          ELSE readData(s, r, 2, type, id)
  BY DEF readId, After
<1>4. CASE ToUint(s[3]) = {}
  <2>1. ~(s[3].code \in {"int", "uint"} /\ s[3].n >= 0)
    BY <1>1, <1>4, Numbers
  <2> HIDE DEF p, r, id
  <2>2. p.kind # "packet"
    BY <1>3, <1>4, SkipKind DEF Outcome
  <2> QED  BY <1>2, <2>1, <2>2 DEF p
<1>5. CASE ToUint(s[3]) # {}
  <2>1. s[3].code \in {"int", "uint"} /\ s[3].n >= 0 /\ id = s[3].n
    BY <1>1, <1>5, Numbers
  <2>2. r = 4 /\ At(s, 4, 2)
    <3>1. At(s, 3, 1 + 2) /\ s[3].code # "array"
      BY <1>0, <2>1
    <3>2. r = 3 + 1 /\ At(s, 3 + 1, 2)
      BY <1>1, <3>1, ReadScalar
    <3> QED  BY <3>2
  <2> HIDE DEF p, r, id
  <2>3. CASE type = 0
    <3>1. p = readMethod(s, 4, type, s[3].n)
      BY <1>3, <1>5, <2>1, <2>2, <2>3 DEF NeedMore, Fails, messageTypeRequest
    <3>2. 4 \in 1 .. Len(s)
      <4>1. At(s, 4, 1 + 1)
        BY <1>0, <2>2
      <4> QED  BY <4>1, ReadableGoesOn
    <3>3. /\ p.kind = "packet" <=> s[4].code = "string" /\ s[4 + 1].code = "array"
          /\ p.kind = "packet" => /\ p.type = type /\ p.id = s[3].n
                                  /\ p.data = SubSeq(s, 4 + 2, Len(s))
      BY <2>2, <3>1, <3>2, MethodRecognised
    <3>4. 4 + 1 = 5 /\ 4 + 2 = 6
      OBVIOUS
    <3> QED  BY <1>2, <2>1, <2>3, <3>3, <3>4 DEF p
  <2>4. CASE type = 1
    <3>1. p = readData(s, 4, 2, type, s[3].n)
      BY <1>3, <1>5, <2>1, <2>2, <2>4 DEF NeedMore, Fails, messageTypeRequest
    <3>2. /\ p.kind # "invalid"
          /\ p.kind = "packet" =>
                 p.type = type /\ p.id = s[3].n /\ p.data = SubSeq(s, 4, p.used)
      BY <3>1, DataKind
    <3> QED  BY <1>2, <2>1, <2>4, <3>2 DEF p
  <2> QED  BY <2>3, <2>4
<1> QED  BY <1>4, <1>5

(* A value that can be read is taken for a message when it is one.           *)
LEMMA Recognised ==
    ASSUME NEW s \in Stream, Readable(s)
    PROVE  LET p == decodeRpcPacket(s)
           IN  /\ p.kind = (IF IsRpc(s) THEN "packet" ELSE "invalid")
               /\ p.kind = "packet" =>
                      /\ p.type = s[2].n
                      /\ s[1].n = 4 => p.id = s[3].n
                      /\ p.data = SubSeq(s, IF IsResponse(s) THEN 4 ELSE MethodAt(s) + 2,
                                         Len(s))
<1> DEFINE p == decodeRpcPacket(s)
           r == DecodeInterface(s, 2, 1)
           l == s[1].n
<1>0. Len(s) \in Nat /\ DOMAIN s = 1 .. Len(s)
  BY DEF Stream
<1>1. p.kind \in {"packet", "invalid"} /\ p.used = Len(s)
  <2>1. Sound(s, p)
    BY DecodeSound
  <2> HIDE DEF p
  <2> QED  BY <2>1, ReadableSound
<1>2. At(s, 1, 1)
  BY <1>0, Levels DEF At, Above
<1>3. 1 \in 1 .. Len(s) /\ s # <<>>
  <2>1. At(s, 1, 1 + 0)
    BY <1>2
  <2>2. 1 \in 1 .. Len(s)
    BY <2>1, ReadableGoesOn
  <2> QED  BY <2>2
<1>4. CASE ~(s[1].code = "array" /\ l \in {3, 4})
  <2>1. ~IsRpc(s)
    BY <1>4 DEF IsRpc
  <2>2. p = skipAndError(s, 1, 1) \/ p = skipAndError(s, 2, l)
    <3>1. IsArray(s[1]) => s[1].code = "array"
      BY <1>0, <1>3 DEF IsArray, Readable, Has, Unreadable
    <3> QED  BY <1>3, <1>4, <3>1 DEF decodeRpcPacket, ArrayLen
  <2>3. p.kind # "packet"
    BY <2>2, SkipKind
  <2> HIDE DEF p
  <2> QED  BY <1>1, <2>1, <2>3 DEF p
<1>5. CASE s[1].code = "array" /\ l \in {3, 4}
  <2>1. p = readType(s, l)
    BY <1>3, <1>5 DEF decodeRpcPacket, ArrayLen, IsArray
  <2>2. At(s, 2, l) /\ l - 1 \in Nat /\ 1 + (l - 1) = l
    <3>1. At(s, 1, 1 + 0) /\ 0 + l = l /\ 1 + 1 = 2
      BY <1>2, <1>5
    <3>2. At(s, 1 + 1, 0 + s[1].n)
      BY <1>3, <1>5, <3>1, HeaderAt
    <3> QED  BY <1>5, <3>1, <3>2
  <2>3. 2 \in 1 .. Len(s)
    <3>1. At(s, 2, 1 + (l - 1))
      BY <2>2
    <3> QED  BY <2>2, <3>1, ReadableGoesOn
  <2>4. p = IF r = NeedMore THEN Outcome("more", 0)
            ELSE IF r = Fails THEN Outcome("fatal", 0)
            ELSE IF ToInt(s[2]) \cap {messageTypeRequest, messageTypeResponse} # {} /\ l = 4
                   THEN readId(s, r, s[2].n)
            ELSE IF ToInt(s[2]) = {messageTypeNotification} /\ l = 3
                   THEN readMethod(s, r, messageTypeNotification, 0)
            ELSE skipAndError(s, r, l - 1)
    BY <2>1 DEF readType, After
  <2>5. /\ \A t \in {0, 1, 2} : t \in ToInt(s[2]) <=> Number(s[2], t)
        /\ ToInt(s[2]) \subseteq {s[2].n}
    BY <2>3, Numbers
  <2>6. ASSUME s[2].code \in {"int", "uint"}
        PROVE  r = 3 /\ At(s, 3, l - 1)
    <3>1. At(s, 2, 1 + (l - 1)) /\ s[2].code # "array"
      BY <2>2, <2>6
    <3>2. r = 2 + 1 /\ At(s, 2 + 1, l - 1)
      BY <2>2, <2>3, <3>1, ReadScalar
    <3> QED  BY <3>2
  <2> HIDE DEF p, r
  <2>7. CASE l = 4 /\ (Number(s[2], 0) \/ Number(s[2], 1))
    <3>1. s[2].n \in {0, 1} /\ s[2].code \in {"int", "uint"}
      BY <2>7 DEF Number
    <3>2. r = 3 /\ At(s, 3, 3)
      BY <2>6, <2>7, <3>1
    <3>3. p = readId(s, 3, s[2].n)
      BY <2>4, <2>5, <2>7, <3>2 DEF NeedMore, Fails, messageTypeRequest, messageTypeResponse
    <3>4. /\ p.kind = "packet" <=>
                /\ s[3].code \in {"int", "uint"} /\ s[3].n >= 0
                /\ s[2].n = 0 => s[4].code = "string" /\ s[5].code = "array"
          /\ p.kind = "packet" =>
                /\ p.type = s[2].n /\ p.id = s[3].n
                /\ p.data = SubSeq(s, IF s[2].n = 0 THEN 6 ELSE 4, Len(s))
      BY <3>1, <3>2, <3>3, IdRecognised
    <3>5. MethodAt(s) = 4 /\ MethodAt(s) + 1 = 5 /\ MethodAt(s) + 2 = 6
      BY <2>7 DEF MethodAt
    <3>6. IsCall(s) <=> /\ s[2].n = 0 /\ s[4].code = "string"
                        /\ s[3].code \in {"int", "uint"} /\ s[3].n >= 0
                        /\ s[5].code = "array"
      BY <2>7, <3>1, <3>5 DEF IsCall, Number, messageTypeRequest
    <3>7. IsResponse(s) <=> s[2].n = 1 /\ s[3].code \in {"int", "uint"} /\ s[3].n >= 0
      BY <2>7, <3>1 DEF IsResponse, Number, messageTypeResponse
    <3>8. IsRpc(s) <=> p.kind = "packet"
      BY <1>5, <3>1, <3>4, <3>6, <3>7 DEF IsRpc
    <3> QED  BY <1>1, <3>1, <3>4, <3>5, <3>7, <3>8 DEF p
  <2>8. CASE l = 3 /\ Number(s[2], 2)
    <3>1. s[2].n = 2 /\ s[2].code \in {"int", "uint"}
      BY <2>8 DEF Number
    <3>2. r = 3 /\ At(s, 3, 2)
      BY <2>6, <2>8, <3>1
    <3>3. ToInt(s[2]) = {2}
      BY <2>5, <2>8, <3>1
    <3>4. p = readMethod(s, 3, 2, 0)
      BY <2>4, <2>8, <3>2, <3>3
         DEF NeedMore, Fails, messageTypeRequest, messageTypeResponse, messageTypeNotification
    <3>5. 3 \in 1 .. Len(s)
      <4>1. At(s, 3, 1 + 1)
        BY <3>2
      <4> QED  BY <4>1, ReadableGoesOn
    <3>6. /\ p.kind = "packet" <=> s[3].code = "string" /\ s[3 + 1].code = "array"
          /\ p.kind = "packet" => /\ p.type = 2 /\ p.id = 0
                                  /\ p.data = SubSeq(s, 3 + 2, Len(s))
      BY <3>2, <3>4, <3>5, MethodRecognised
    <3>7. MethodAt(s) = 3 /\ MethodAt(s) + 1 = 4 /\ MethodAt(s) + 2 = 5
          /\ 3 + 1 = 4 /\ 3 + 2 = 5
      BY <2>8 DEF MethodAt
    <3>8. ~IsResponse(s)
      BY <2>8 DEF IsResponse
    <3>9. IsCall(s) <=> s[3].code = "string" /\ s[4].code = "array"
      BY <2>8, <3>1, <3>7 DEF IsCall, Number, messageTypeNotification
    <3>10. IsRpc(s) <=> p.kind = "packet"
      BY <1>5, <3>6, <3>7, <3>8, <3>9 DEF IsRpc
    <3> QED  BY <1>1, <2>8, <3>1, <3>6, <3>7, <3>8, <3>10 DEF p
  <2>9. CASE /\ ~(l = 4 /\ (Number(s[2], 0) \/ Number(s[2], 1)))
             /\ ~(l = 3 /\ Number(s[2], 2))
    <3>1. ~IsRpc(s)
      BY <1>5, <2>9 DEF IsRpc, IsCall, IsResponse, messageTypeRequest, messageTypeResponse,
                        messageTypeNotification
    <3>2. /\ ~(ToInt(s[2]) \cap {messageTypeRequest, messageTypeResponse} # {} /\ l = 4)
          /\ ~(ToInt(s[2]) = {messageTypeNotification} /\ l = 3)
      BY <2>5, <2>9 DEF messageTypeRequest, messageTypeResponse, messageTypeNotification
    <3>3. p.kind # "packet"
      BY <2>4, <3>2, SkipKind DEF Outcome
    <3> QED  BY <1>1, <3>1, <3>3 DEF p
  <2> QED  BY <2>7, <2>8, <2>9
<1> QED  BY <1>4, <1>5

-----------------------------------------------------------------------------
(***************************************************************************)
(* The theorems.                                                            *)
(***************************************************************************)

(* Every variable keeps its type: in particular what Run takes off the       *)
(* stream is never more than is there (connection.go:292-320).               *)
THEOREM ReaderTypeCorrect == Spec => []TypeOK
<1>1. Init => TypeOK
  <2>1. <<>> \in Seq(Token \cup {Cut})
    OBVIOUS
  <2> QED  BY <2>1, Zenon DEF Init, TypeOK
<1>2. TypeOK /\ [Next]_vars => TypeOK'
  <2> SUFFICES ASSUME TypeOK, [Next]_vars
               PROVE  TypeOK'
    OBVIOUS
  <2> USE DEF TypeOK
  <2>1. ASSUME NEW t \in Token, Arrive(t)
        PROVE  TypeOK'
    BY <2>1 DEF Arrive
  <2>2. CASE Hangup
    BY <2>2 DEF Hangup
  <2>3. CASE Run
    <3> DEFINE p == decodeRpcPacket(stream)
    <3>1. CASE p.kind \in {"packet", "invalid"}
      <4>1. stream \in Stream
        BY DEF Stream
      <4>2. Sound(stream, p)
        BY <4>1, DecodeSound
      <4> HIDE DEF p
      <4>3. p.used \in 0 .. Len(stream) /\ Len(stream) \in Nat
        BY <3>1, <4>2 DEF Sound
      <4>4. p.used + 1 \in Nat /\ p.used + 1 >= 1
        BY <4>3
      <4>5. SubSeq(stream, p.used + 1, Len(stream)) \in Seq(Token \cup {Cut})
        BY <4>3, <4>4
      <4>6. /\ stream' = SubSeq(stream, p.used + 1, Len(stream))
            /\ UNCHANGED <<running, ended, asRaw>>
        BY <2>3, <3>1 DEF Run, p
      <4> QED  BY <4>5, <4>6
    <3>2. CASE p.kind \notin {"packet", "invalid"}
      BY <2>3, <3>2 DEF Run
    <3> QED  BY <3>1, <3>2
  <2>4. CASE UNCHANGED vars
    BY <2>4 DEF vars
  <2> QED  BY <2>1, <2>2, <2>3, <2>4 DEF Next
<1> QED  BY <1>1, <1>2, PTL DEF Spec

(* The reader stays in step with the stream, for messages of any length and  *)
(* any nesting: what it takes for a packet, good or invalid, is one value,   *)
(* and it does not wait once the value is there (connection.go:166-290).     *)
THEOREM ReaderStaysInStep == Spec => []InStep
<1>1. TypeOK => InStep
  <2> SUFFICES ASSUME TypeOK, ~Has(stream, {"cut"})
               PROVE  LET p == decodeRpcPacket(stream)
                      IN  /\ p.kind \in {"packet", "invalid"} =>
                                 OneValue(SubSeq(stream, 1, p.used))
                          /\ p.kind = "more" => ~OneValue(stream)
    BY DEF InStep
  <2> DEFINE p == decodeRpcPacket(stream)
  <2>1. stream \in Stream
    BY DEF TypeOK, Stream
  <2>2. Sound(stream, p)
    BY <2>1, DecodeSound
  <2> HIDE DEF p
  <2>3. p.kind \in {"packet", "invalid"} => OneValue(SubSeq(stream, 1, p.used))
    BY <2>1, <2>2, OneValueAt DEF Sound
  <2>4. p.kind = "more" => ~OneValue(stream)
    BY <2>2 DEF Sound
  <2> QED  BY <2>3, <2>4 DEF p
<1> QED  BY <1>1, ReaderTypeCorrect, PTL

(* A value that can be read is taken for a message exactly when it has the   *)
(* form of one, with the type, ID and parameters it carries, and is passed   *)
(* over otherwise (connection.go:175-290, 297-306).                          *)
THEOREM ReaderRecognisesMessages == Spec => []MessagesRecognised
<1>1. TypeOK => MessagesRecognised
  <2> SUFFICES ASSUME TypeOK, Whole
               PROVE  MessagesRecognised
    BY DEF MessagesRecognised
  <2>1. stream \in Stream
    BY DEF TypeOK, Stream
  <2>2. Readable(stream)
    BY DEF Whole, Readable, Unreadable
  <2> QED  BY <2>1, <2>2, Recognised DEF MessagesRecognised
<1> QED  BY <1>1, ReaderTypeCorrect, PTL

=============================================================================
