------------------------------ MODULE CliProofs ------------------------------
(***************************************************************************)
(* composeArgs understands every command line, of any length and nesting,   *)
(* as the stack reader does, and the exit status tells what happened.       *)
(*                                                                          *)
(* The argument: the recursive functions of both definitions exist and obey *)
(* their equations, and by induction over the words, from the last one,     *)
(* the stack reader, once composeArgs has returned from the word i at the   *)
(* word j, has added the value composed to the group that was open at i.    *)
(***************************************************************************)
EXTENDS Cli, WellFoundedInduction, TLAPS

-----------------------------------------------------------------------------
(***************************************************************************)
(* Natural numbers and sequences.                                           *)
(***************************************************************************)

(* A set of natural numbers has a least element.                             *)
LEMMA LeastElement ==
    ASSUME NEW T \in SUBSET Nat, T # {}
    PROVE  \E x \in T : \A y \in T : x <= y
<1> DEFINE Less == {ss \in Nat \X Nat : ss[1] < ss[2]}
<1>1. IsWellFoundedOn(OpToRel(<, Nat), Nat)
  BY NatLessThanWellFounded
<1>2. IsWellFoundedOn(Less, Nat)
  BY <1>1 DEF OpToRel
<1>3. \E x \in T : \A y \in T : ~ (<<y, x>> \in Less)
  BY <1>2, WFMin, Zenon
<1>4. PICK x \in T : \A y \in T : ~ (<<y, x>> \in Less)
  BY <1>3
<1>5. ASSUME NEW y \in T
      PROVE  x <= y
  <2>1. <<y, x>> \notin Less
    BY <1>4
  <2>2. y \in Nat /\ x \in Nat
    OBVIOUS
  <2> QED  BY <2>1, <2>2
<1> QED  BY <1>5

(* Induction over the words, from the first one and from the last.           *)
LEMMA FromTheStart ==
    ASSUME NEW last \in Nat, NEW T,
           \A j \in 1 .. last : (j > 1 => j - 1 \in T) => j \in T
    PROVE  \A j \in 1 .. last : j \in T
<1> SUFFICES ASSUME NEW i \in 1 .. last, i \notin T
             PROVE  FALSE
  OBVIOUS
<1> DEFINE D == {d \in 1 .. last : d \notin T}
<1>1. D \in SUBSET Nat /\ D # {}
  OBVIOUS
<1>2. PICK d \in D : \A e \in D : d <= e
  BY <1>1, LeastElement
<1>3. d \in 1 .. last /\ d \notin T
  OBVIOUS
<1>4. d > 1 => d - 1 \in T
  <2> SUFFICES ASSUME d > 1, d - 1 \notin T
               PROVE  FALSE
    OBVIOUS
  <2>1. d - 1 \in D /\ ~(d <= d - 1)
    BY <1>3
  <2> QED  BY <1>2, <2>1
<1> QED  BY <1>3, <1>4

LEMMA FromTheEnd ==
    ASSUME NEW last \in Nat, NEW T,
           \A j \in 1 .. last : (\A k \in j + 1 .. last : k \in T) => j \in T
    PROVE  \A j \in 1 .. last : j \in T
<1> SUFFICES ASSUME NEW i \in 1 .. last, i \notin T
             PROVE  FALSE
  OBVIOUS
<1> DEFINE D == {d \in Nat : d < last /\ last - d \notin T}
<1>1. D \in SUBSET Nat /\ last - i \in D
  OBVIOUS
<1>2. PICK d \in D : \A e \in D : d <= e
  BY <1>1, LeastElement
<1>3. last - d \in 1 .. last /\ last - d \notin T
  OBVIOUS
<1>4. ASSUME NEW k \in last - d + 1 .. last
      PROVE  k \in T
  <2> SUFFICES ASSUME k \notin T
               PROVE  FALSE
    OBVIOUS
  <2>1. last - k \in Nat /\ last - k < last /\ last - (last - k) = k
    BY <1>3
  <2>2. last - k \in D
    BY <2>1
  <2> QED  BY <1>2, <1>3, <2>1, <2>2
<1> QED  BY <1>3, <1>4

(* Values are nested without a bound and form no set, so sequences of them   *)
(* are typed by their own elements.                                          *)
IsSeq(s) == s \in Seq({s[i] : i \in DOMAIN s})

LEMMA SeqOfAnything ==
    ASSUME NEW S, NEW s \in Seq(S)
    PROVE  IsSeq(s)
<1>1. Len(s) \in Nat /\ DOMAIN s = 1 .. Len(s)
  OBVIOUS
<1>2. s \in [1 .. Len(s) -> {s[i] : i \in DOMAIN s}]
  BY <1>1
<1> QED  BY <1>1, <1>2 DEF IsSeq

LEMMA EmptySeq == IsSeq(<<>>)
<1>1. <<>> \in Seq({})
  OBVIOUS
<1> QED  BY <1>1, SeqOfAnything

LEMMA OneSeq ==
    ASSUME NEW x
    PROVE  IsSeq(<<x>>) /\ Len(<<x>>) = 1 /\ <<x>>[1] = x /\ Head(<<x>>) = x /\ <<x>> # <<>>
<1>1. <<x>> \in Seq({x})
  OBVIOUS
<1>2. IsSeq(<<x>>)
  BY <1>1, SeqOfAnything
<1> QED  BY <1>2

LEMMA Push ==
    ASSUME NEW s, IsSeq(s), NEW x
    PROVE  /\ IsSeq(<<x>> \o s)
           /\ Head(<<x>> \o s) = x /\ Tail(<<x>> \o s) = s
           /\ Len(s) \in Nat /\ Len(<<x>> \o s) = Len(s) + 1
<1> DEFINE S == {s[i] : i \in DOMAIN s}
<1>1. s \in Seq(S \cup {x}) /\ <<x>> \in Seq(S \cup {x})
  <2>1. s \in Seq(S)
    BY DEF IsSeq
  <2>2. Len(s) \in Nat /\ s \in [1 .. Len(s) -> S \cup {x}]
    BY <2>1
  <2>3. s \in Seq(S \cup {x})
    BY <2>2
  <2> QED  BY <2>3
<1> HIDE DEF S
<1>2. <<x>> \o s \in Seq(S \cup {x}) /\ Len(<<x>> \o s) = Len(s) + 1 /\ Len(s) \in Nat
  BY <1>1
<1>3. IsSeq(<<x>> \o s)
  BY <1>2, SeqOfAnything
<1>4. (<<x>> \o s)[1] = x /\ \A i \in 1 .. Len(s) : (<<x>> \o s)[i + 1] = s[i]
  BY <1>1
<1>5. Head(<<x>> \o s) = x
  BY <1>2, <1>4
<1>6. Tail(<<x>> \o s) = s
  <2>1. Tail(<<x>> \o s) \in Seq(S \cup {x}) /\ Len(Tail(<<x>> \o s)) = Len(s)
    BY <1>2
  <2>2. \A i \in 1 .. Len(s) : Tail(<<x>> \o s)[i] = s[i]
    BY <1>2, <1>4
  <2> QED  BY <1>1, <2>1, <2>2
<1> QED  BY <1>2, <1>3, <1>5, <1>6

LEMMA Pop ==
    ASSUME NEW s, IsSeq(s), Len(s) >= 1
    PROVE  /\ IsSeq(Tail(s)) /\ Len(s) \in Nat /\ Len(Tail(s)) = Len(s) - 1
           /\ Head(s) = s[1] /\ \A i \in 1 .. Len(s) - 1 : Tail(s)[i] = s[i + 1]
           /\ Len(s) = 1 => s = <<Head(s)>>
<1> DEFINE S == {s[i] : i \in DOMAIN s}
<1>1. s \in Seq(S)
  BY DEF IsSeq
<1> HIDE DEF S
<1>2. Tail(s) \in Seq(S) /\ Len(Tail(s)) = Len(s) - 1 /\ Len(s) \in Nat
  BY <1>1
<1>3. IsSeq(Tail(s))
  BY <1>2, SeqOfAnything
<1>4. Head(s) = s[1] /\ \A i \in 1 .. Len(s) - 1 : Tail(s)[i] = s[i + 1]
  BY <1>1
<1>5. Len(s) = 1 => s = <<Head(s)>>
  BY <1>1, <1>4
<1> QED  BY <1>2, <1>3, <1>4, <1>5

LEMMA AppendSeq ==
    ASSUME NEW s, IsSeq(s), NEW x
    PROVE  IsSeq(Append(s, x))
<1> DEFINE S == {s[i] : i \in DOMAIN s}
<1>1. s \in Seq(S)
  BY DEF IsSeq
<1>2. Len(s) \in Nat /\ s \in [1 .. Len(s) -> S \cup {x}]
  BY <1>1
<1>3. s \in Seq(S \cup {x})
  BY <1>2
<1> HIDE DEF S
<1>4. Append(s, x) \in Seq(S \cup {x})
  BY <1>3
<1> QED  BY <1>4, SeqOfAnything

(* Elements added one by one at the end, or put together from the front.     *)
LEMMA Rebracket ==
    ASSUME NEW e, NEW m, IsSeq(e), IsSeq(m), NEW x
    PROVE  Append(e, x) \o m = e \o (<<x>> \o m) /\ e \o <<>> = e /\ <<>> \o e = e
<1> DEFINE S == {e[i] : i \in DOMAIN e} \cup {m[i] : i \in DOMAIN m} \cup {x}
<1>1. e \in Seq(S) /\ m \in Seq(S) /\ x \in S
  <2>1. e \in Seq({e[i] : i \in DOMAIN e}) /\ m \in Seq({m[i] : i \in DOMAIN m})
    BY DEF IsSeq
  <2>2. Len(e) \in Nat /\ e \in [1 .. Len(e) -> S] /\ Len(m) \in Nat /\ m \in [1 .. Len(m) -> S]
    BY <2>1
  <2> QED  BY <2>2
<1> HIDE DEF S
<1> DEFINE a == Append(e, x) \o m
           b == e \o (<<x>> \o m)
<1>2. a \in Seq(S) /\ Len(a) = Len(e) + 1 + Len(m)
  <2>1. Append(e, x) \in Seq(S) /\ Len(Append(e, x)) = Len(e) + 1
    BY <1>1
  <2> QED  BY <1>1, <2>1
<1>3. b \in Seq(S) /\ Len(b) = Len(e) + 1 + Len(m)
  <2>1. <<x>> \o m \in Seq(S) /\ Len(<<x>> \o m) = 1 + Len(m)
    BY <1>1
  <2> QED  BY <1>1, <2>1
<1>4. ASSUME NEW i \in 1 .. Len(e) + 1 + Len(m)
      PROVE  a[i] = b[i]
  <2>1. Append(e, x) \in Seq(S) /\ Len(Append(e, x)) = Len(e) + 1
    BY <1>1
  <2>2. <<x>> \o m \in Seq(S) /\ Len(<<x>> \o m) = 1 + Len(m)
    BY <1>1
  <2>3. CASE i \in 1 .. Len(e)
    BY <1>1, <2>1, <2>2, <2>3
  <2>4. CASE i = Len(e) + 1
    <3>1. a[i] = x
      BY <1>1, <2>1, <2>4
    <3>2. b[i] = (<<x>> \o m)[1]
      BY <1>1, <2>2, <2>4
    <3> QED  BY <1>1, <3>1, <3>2
  <2>5. CASE i \in Len(e) + 2 .. Len(e) + 1 + Len(m)
    <3>1. a[i] = m[i - (Len(e) + 1)]
      BY <1>1, <2>1, <2>5
    <3>2. b[i] = (<<x>> \o m)[i - Len(e)]
      BY <1>1, <2>2, <2>5
    <3>3. i - Len(e) \in 2 .. 1 + Len(m) /\ (i - Len(e)) - 1 = i - (Len(e) + 1)
      BY <1>1, <2>5
    <3>4. (<<x>> \o m)[i - Len(e)] = m[(i - Len(e)) - 1]
      BY <1>1, <3>3
    <3> QED  BY <3>1, <3>2, <3>3, <3>4
  <2> QED  BY <1>1, <2>3, <2>4, <2>5
<1>5. a = b
  <2> HIDE DEF a, b
  <2> QED  BY <1>1, <1>2, <1>3, <1>4
<1>6. e \o <<>> = e /\ <<>> \o e = e
  BY <1>1
<1> QED  BY <1>5, <1>6

(* Assigning twice is assigning the assignments.                             *)
LEMMA AssignTwice ==
    ASSUME NEW m, NEW l, NEW k
    PROVE  Assign(Assign(m, l), k) = Assign(m, Assign(l, k)) /\ Assign({}, m) = m
<1>1. \A e : e \in Assign(Assign(m, l), k) <=> e \in Assign(m, Assign(l, k))
  BY DEF Assign
<1> QED  BY <1>1 DEF Assign

-----------------------------------------------------------------------------
(***************************************************************************)
(* The recursive functions obey their equations.                            *)
(***************************************************************************)

(* run is what the stack reader does with the words of a.                    *)
Start == Reading("open", <<Array(<<>>)>>)

Runs(run, a, n) ==
    \A k \in 1 .. n : run[k] = IF k = 1 THEN Start ELSE Look(run[k - 1], a[k])

LEMMA SomeRun ==
    ASSUME NEW a, NEW n \in Nat
    PROVE  \E run : Runs(run, a, n)
<1> DEFINE T == {j \in 1 .. n : \E run : Runs(run, a, j)}
<1>1. ASSUME NEW j \in 1 .. n, j > 1 => j - 1 \in T
      PROVE  j \in T
  <2>1. PICK g : j > 1 => Runs(g, a, j - 1)
    <3>1. CASE j > 1
      BY <1>1, <3>1
    <3>2. CASE ~(j > 1)
      BY <3>2
    <3> QED  BY <3>1, <3>2
  <2> DEFINE h == [k \in 1 .. n |-> IF k = j
                                      THEN IF k = 1 THEN Start ELSE Look(g[k - 1], a[k])
                                      ELSE g[k]]
  <2>2. ASSUME NEW k \in 1 .. j
        PROVE  h[k] = IF k = 1 THEN Start ELSE Look(h[k - 1], a[k])
    <3>1. k > 1 => h[k - 1] = g[k - 1]
      OBVIOUS
    <3>2. CASE k = j
      <4>1. h[k] = IF k = 1 THEN Start ELSE Look(g[k - 1], a[k])
        BY <3>2
      <4> HIDE DEF h
      <4> QED  BY <3>1, <4>1
    <3>3. CASE k # j
      <4>1. h[k] = g[k] /\ k \in 1 .. j - 1 /\ j > 1
        BY <3>3
      <4>2. g[k] = IF k = 1 THEN Start ELSE Look(g[k - 1], a[k])
        BY <2>1, <4>1 DEF Runs
      <4> HIDE DEF h
      <4> QED  BY <3>1, <4>1, <4>2
    <3> QED  BY <3>2, <3>3
  <2> HIDE DEF h
  <2>3. Runs(h, a, j)
    BY <2>2 DEF Runs
  <2> QED  BY <2>3
<1> HIDE DEF T
<1>2. \A j \in 1 .. n : j \in T
  BY <1>1, FromTheStart
<1>3. CASE n = 0
  BY <1>3 DEF Runs
<1>4. CASE n # 0
  BY <1>2, <1>4 DEF T
<1> QED  BY <1>3, <1>4

LEMMA ReadWordsRuns ==
    ASSUME NEW ws \in Seq(Word)
    PROVE  \E run : /\ Runs(run, Bracketed(ws), Len(Bracketed(ws)))
                    /\ ReadWords(ws) = run[Len(Bracketed(ws))]
<1> DEFINE a == Bracketed(ws)
           n == Len(a)
           F(g) == [k \in 1 .. n |-> IF k = 1 THEN Start ELSE Look(g[k - 1], a[k])]
           run == CHOOSE g : g = F(g)
<1>1. n \in Nat
  BY DEF Bracketed
<1>2. PICK g : Runs(g, a, n)
  BY <1>1, SomeRun
<1> DEFINE h == [k \in 1 .. n |-> g[k]]
<1>3. h = F(h)
  <2>1. ASSUME NEW k \in 1 .. n
        PROVE  h[k] = IF k = 1 THEN Start ELSE Look(h[k - 1], a[k])
    <3> HIDE DEF n, a
    <3>1. h[k] = g[k] /\ (k # 1 => h[k - 1] = g[k - 1])
      BY <1>1
    <3> HIDE DEF h
    <3> QED  BY <1>2, <3>1 DEF Runs
  <2>2. h = [k \in 1 .. n |-> h[k]]
    OBVIOUS
  <2> HIDE DEF h, a, n
  <2> QED  BY <2>1, <2>2
<1> HIDE DEF h
<1>4. run = F(run)
  <2> HIDE DEF F
  <2> QED  BY <1>3, Zenon
<1>5. ReadWords(ws) = run[n]
  BY DEF ReadWords, Start
<1> HIDE DEF run
<1>6. Runs(run, a, n)
  <2> SUFFICES ASSUME NEW k \in 1 .. n
               PROVE  run[k] = IF k = 1 THEN Start ELSE Look(run[k - 1], a[k])
    BY DEF Runs
  <2>1. F(run)[k] = IF k = 1 THEN Start ELSE Look(run[k - 1], a[k])
    OBVIOUS
  <2> HIDE DEF F
  <2> QED  BY <1>4, <2>1
<1> QED  BY <1>5, <1>6

(* compose is what composeArgs does with the words of a.                     *)
Part == {"value", "array", "map"}

Obeys(compose, a, i) ==
    /\ compose[i]["value"] = composeValue(compose, a, i)
    /\ compose[i]["array"] = composeArray(compose, a, i)
    /\ compose[i]["map"] = composeMap(compose, a, i)

(* It returns in front of a later word.                                      *)
Advances(compose, a, i) ==
    \A part \in Part :
        compose[i][part].kind = "ok" => compose[i][part].rest \in i + 1 .. Len(a) + 1

LEMMA Results ==
    /\ \A kind : Refused(kind).kind = kind
    /\ \A v, r : /\ Composed(v, r).kind = "ok" /\ Composed(v, r).value = v
                 /\ Composed(v, r).rest = r
  BY DEF Refused, Composed

LEMMA ObeysAdvances ==
    ASSUME NEW a \in Seq(Word), NEW f, NEW i \in 1 .. Len(a) + 1, Obeys(f, a, i),
           \A k \in i + 1 .. Len(a) + 1 : Advances(f, a, k)
    PROVE  Advances(f, a, i)
<1>0. Len(a) \in Nat
  OBVIOUS
<1>1. \A k \in i + 1 .. Len(a) + 1 : k + 1 .. Len(a) + 1 \subseteq i + 1 .. Len(a) + 1
  BY <1>0
<1>2. f[i]["value"].kind = "ok" => f[i]["value"].rest \in i + 1 .. Len(a) + 1
  <2>1. CASE i > Len(a) \/ a[i] = "f32:x"
    <3>1. f[i]["value"] = Refused("error")
      BY <2>1 DEF Obeys, composeValue
    <3> QED  BY <3>1, Results
  <2>2. CASE ~(i > Len(a) \/ a[i] = "f32:x")
    <3>1. i + 1 \in i + 1 .. Len(a) + 1
      BY <1>0, <2>2
    <3>2. \/ f[i]["value"] = f[i + 1]["array"]
          \/ f[i]["value"] = f[i + 1]["map"]
          \/ f[i]["value"] = Composed(composeScalar(a[i]), i + 1)
      BY <2>2 DEF Obeys, composeValue
    <3>3. Advances(f, a, i + 1)
      BY <3>1
    <3> QED  BY <1>1, <3>1, <3>2, <3>3, Results DEF Advances, Part
  <2> QED  BY <2>1, <2>2
<1>3. f[i]["array"].kind = "ok" => f[i]["array"].rest \in i + 1 .. Len(a) + 1
  <2>1. CASE i > Len(a)
    <3>1. f[i]["array"] = Refused("error")
      BY <2>1 DEF Obeys, composeArray
    <3> QED  BY <3>1, Results
  <2>2. CASE ~(i > Len(a)) /\ a[i] = "]"
    <3>1. f[i]["array"] = Composed(Array(<<>>), i + 1)
      BY <2>2 DEF Obeys, composeArray
    <3>0. ~(i > Len(a))
      BY <2>2, Zenon
    <3>2. i + 1 \in i + 1 .. Len(a) + 1
      BY <1>0, <3>0
    <3>3. f[i]["array"].rest = i + 1
      BY <3>1, Results
    <3> QED  BY <3>2, <3>3
  <2>3. CASE ~(i > Len(a)) /\ a[i] # "]"
    <3> DEFINE elem == f[i]["value"]
               more == f[elem.rest]["array"]
    <3>1. f[i]["array"] =
              IF elem.kind # "ok" THEN elem ELSE IF more.kind # "ok" THEN more
              ELSE Composed(Array(<<elem.value>> \o more.value.elems), more.rest)
      BY <2>3 DEF Obeys, composeArray
    <3>2. elem.kind = "ok" => elem.rest \in i + 1 .. Len(a) + 1
      BY <1>2
    <3>3. elem.kind = "ok" /\ more.kind = "ok" => more.rest \in i + 1 .. Len(a) + 1
      <4>1. elem.kind = "ok" => Advances(f, a, elem.rest)
        BY <3>2
      <4> QED  BY <1>1, <3>2, <4>1 DEF Advances, Part
    <3> HIDE DEF elem, more
    <3> QED  BY <3>1, <3>3, Results
  <2> QED  BY <2>1, <2>2, <2>3
<1>4. f[i]["map"].kind = "ok" => f[i]["map"].rest \in i + 1 .. Len(a) + 1
  <2>1. CASE i > Len(a)
    <3>1. f[i]["map"] = Refused("error")
      BY <2>1 DEF Obeys, composeMap
    <3> QED  BY <3>1, Results
  <2>2. CASE ~(i > Len(a)) /\ a[i] = "}"
    <3>1. f[i]["map"] = Composed(Map({}), i + 1)
      BY <2>2 DEF Obeys, composeMap
    <3>0. ~(i > Len(a))
      BY <2>2, Zenon
    <3>2. i + 1 \in i + 1 .. Len(a) + 1
      BY <1>0, <3>0
    <3>3. f[i]["map"].rest = i + 1
      BY <3>1, Results
    <3> QED  BY <3>2, <3>3
  <2>3. CASE ~(i > Len(a)) /\ a[i] # "}"
    <3> DEFINE key   == f[i]["value"]
               value == f[key.rest]["value"]
               more  == f[value.rest]["map"]
               whole == Map(Assign({<<key.value, value.value>>}, more.value.entries))
    <3>1. f[i]["map"] =
              IF key.kind # "ok" THEN key ELSE IF value.kind # "ok" THEN value
              ELSE IF ~Hashable(key.value) THEN Refused("panic")
              ELSE IF more.kind # "ok" THEN more
              ELSE Composed(whole, more.rest)
      BY <2>3 DEF Obeys, composeMap
    <3>2. key.kind = "ok" => key.rest \in i + 1 .. Len(a) + 1
      BY <1>2
    <3>3. key.kind = "ok" /\ value.kind = "ok" => value.rest \in i + 1 .. Len(a) + 1
      <4>1. key.kind = "ok" => Advances(f, a, key.rest)
        BY <3>2
      <4> QED  BY <1>1, <3>2, <4>1 DEF Advances, Part
    <3>4. key.kind = "ok" /\ value.kind = "ok" /\ more.kind = "ok" =>
              more.rest \in i + 1 .. Len(a) + 1
      <4>1. key.kind = "ok" /\ value.kind = "ok" => Advances(f, a, value.rest)
        BY <3>3
      <4> QED  BY <1>1, <3>3, <4>1 DEF Advances, Part
    <3> HIDE DEF key, value, more, whole
    <3>5. CASE f[i]["map"] = Composed(whole, more.rest) /\ key.kind = "ok"
               /\ value.kind = "ok" /\ more.kind = "ok"
      BY <3>4, <3>5, Results
    <3>6. CASE f[i]["map"].kind # "ok"
      BY <3>6
    <3> QED  BY <3>1, <3>5, <3>6, Results
  <2> QED  BY <2>1, <2>2, <2>3
<1> QED  BY <1>2, <1>3, <1>4 DEF Advances, Part

(* At the word i composeArgs looks only at what is composed from later words *)
(* and, for an array or a map, from i itself.                                *)
LEMMA SameLater ==
    ASSUME NEW a \in Seq(Word), NEW g, NEW h, NEW i \in 1 .. Len(a) + 1,
           \A k \in i + 1 .. Len(a) + 1 : g[k] = h[k] /\ Advances(g, a, k)
    PROVE  /\ composeValue(g, a, i) = composeValue(h, a, i)
           /\ /\ g[i]["value"] = h[i]["value"]
              /\ g[i]["value"].kind = "ok" => g[i]["value"].rest \in i + 1 .. Len(a) + 1
              => /\ composeArray(g, a, i) = composeArray(h, a, i)
                 /\ composeMap(g, a, i) = composeMap(h, a, i)
<1>0. Len(a) \in Nat
  OBVIOUS
<1>1. composeValue(g, a, i) = composeValue(h, a, i)
  <2>1. CASE i > Len(a)
    BY <2>1 DEF composeValue
  <2>2. CASE ~(i > Len(a))
    <3>1. g[i + 1] = h[i + 1]
      BY <1>0, <2>2
    <3> QED  BY <3>1 DEF composeValue
  <2> QED  BY <2>1, <2>2
<1>2. ASSUME g[i]["value"] = h[i]["value"],
             g[i]["value"].kind = "ok" => g[i]["value"].rest \in i + 1 .. Len(a) + 1
      PROVE  composeArray(g, a, i) = composeArray(h, a, i)
  BY <1>2 DEF composeArray
<1>3. ASSUME g[i]["value"] = h[i]["value"],
             g[i]["value"].kind = "ok" => g[i]["value"].rest \in i + 1 .. Len(a) + 1
      PROVE  composeMap(g, a, i) = composeMap(h, a, i)
  <2> DEFINE key   == g[i]["value"]
             value == g[key.rest]["value"]
  <2>1. CASE key.kind # "ok"
    BY <1>3, <2>1 DEF composeMap
  <2>2. CASE key.kind = "ok" /\ value.kind # "ok"
    BY <1>3, <2>2 DEF composeMap
  <2>3. CASE key.kind = "ok" /\ value.kind = "ok"
    <3>1. /\ key.rest \in i + 1 .. Len(a) + 1 /\ g[key.rest] = h[key.rest]
          /\ value.rest \in key.rest + 1 .. Len(a) + 1
      BY <1>3, <2>3 DEF Advances, Part
    <3>2. value.rest \in i + 1 .. Len(a) + 1
      BY <1>0, <3>1
    <3>3. g[value.rest] = h[value.rest]
      BY <3>2
    <3> QED  BY <1>3, <3>1, <3>3 DEF composeMap
  <2> QED  BY <2>1, <2>2, <2>3
<1> QED  BY <1>1, <1>2, <1>3

(* A function that obeys the equations from the word j on.                   *)
ObeysFrom(f, a, j) == \A i \in j .. Len(a) + 1 : Obeys(f, a, i) /\ Advances(f, a, i)

LEMMA SomeCompose ==
    ASSUME NEW a \in Seq(Word)
    PROVE  \E f : ObeysFrom(f, a, 1)
<1> DEFINE n == Len(a) + 1
           T == {j \in 1 .. n : \E f : ObeysFrom(f, a, j)}
<1>0. n \in Nat /\ 1 \in 1 .. n
  OBVIOUS
<1>1. ASSUME NEW j \in 1 .. n, \A k \in j + 1 .. n : k \in T
      PROVE  j \in T
  <2>1. PICK g : j < n => ObeysFrom(g, a, j + 1)
    <3>1. CASE j < n
      <4>1. j + 1 \in T
        BY <1>0, <1>1, <3>1
      <4> QED  BY <4>1
    <3>2. CASE ~(j < n)
      BY <3>2
    <3> QED  BY <3>1, <3>2
  <2>2. \A k \in j + 1 .. n : Obeys(g, a, k) /\ Advances(g, a, k)
    <3> SUFFICES ASSUME NEW k \in j + 1 .. n
                 PROVE  Obeys(g, a, k) /\ Advances(g, a, k)
      OBVIOUS
    <3>1. j < n
      BY <1>0
    <3> QED  BY <2>1, <3>1 DEF ObeysFrom
  <2> DEFINE v  == composeValue(g, a, j)
             g1 == [i \in 1 .. n |-> IF i = j THEN [part \in Part |-> v] ELSE g[i]]
             h  == [i \in 1 .. n |->
                       IF i = j THEN [part \in Part |->
                                         IF part = "value" THEN v
                                         ELSE IF part = "array" THEN composeArray(g1, a, j)
                                         ELSE composeMap(g1, a, j)]
                       ELSE g[i]]
  <2>3. \A k \in j + 1 .. n : h[k] = g[k] /\ g1[k] = g[k]
    <3> HIDE DEF v
    <3> QED  BY <1>0
  <2>4. /\ h[j]["value"] = v /\ g1[j]["value"] = v
        /\ h[j]["array"] = composeArray(g1, a, j)
        /\ h[j]["map"] = composeMap(g1, a, j)
    <3> HIDE DEF v
    <3>1. g1[j]["value"] = v
      BY DEF Part
    <3> HIDE DEF g1
    <3> QED  BY <3>1 DEF Part
  <2> HIDE DEF g1, h
  <2>5. \A k \in j + 1 .. n : Advances(h, a, k) /\ Advances(g1, a, k)
    BY <2>2, <2>3 DEF Advances
  <2>6. composeValue(h, a, j) = v
    <3>1. composeValue(g, a, j) = composeValue(h, a, j)
      BY <2>2, <2>3, SameLater
    <3> QED  BY <3>1
  <2> HIDE DEF v
  <2>7. v.kind = "ok" => v.rest \in j + 1 .. n
    <3>1. CASE j > Len(a) \/ a[j] = "f32:x"
      <4>1. v = Refused("error")
        BY <3>1 DEF v, composeValue
      <4> QED  BY <4>1, Results
    <3>2. CASE ~(j > Len(a) \/ a[j] = "f32:x")
      <4>1. j + 1 \in j + 1 .. n /\ j + 1 .. n \subseteq Int
        BY <1>0, <3>2
      <4>2. \/ v = g[j + 1]["array"]
            \/ v = g[j + 1]["map"]
            \/ v = Composed(composeScalar(a[j]), j + 1)
        BY <3>2 DEF v, composeValue
      <4>3. Advances(g, a, j + 1)
        BY <2>2, <4>1
      <4>4. (j + 1) + 1 .. n \subseteq j + 1 .. n
        BY <1>0
      <4> QED  BY <4>1, <4>2, <4>3, <4>4, Results DEF Advances, Part
    <3> QED  BY <3>1, <3>2
  <2>8. composeArray(h, a, j) = composeArray(g1, a, j) /\ composeMap(h, a, j) = composeMap(g1, a, j)
    <3>1. \A k \in j + 1 .. Len(a) + 1 : h[k] = g1[k] /\ Advances(h, a, k)
      BY <2>3, <2>5
    <3>2. /\ h[j]["value"] = g1[j]["value"]
          /\ h[j]["value"].kind = "ok" => h[j]["value"].rest \in j + 1 .. Len(a) + 1
      BY <2>4, <2>7
    <3> QED  BY <3>1, <3>2, SameLater
  <2>9. Obeys(h, a, j)
    BY <2>4, <2>6, <2>8 DEF Obeys
  <2>10. Advances(h, a, j)
    BY <2>5, <2>9, ObeysAdvances
  <2>11. ASSUME NEW k \in j + 1 .. n
         PROVE  Obeys(h, a, k)
    <3>1. k \in 1 .. Len(a) + 1 /\ k + 1 .. Len(a) + 1 \subseteq j + 1 .. n
      BY <1>0
    <3>2. \A l \in k + 1 .. Len(a) + 1 : g[l] = h[l] /\ Advances(g, a, l)
      BY <2>2, <2>3, <3>1
    <3>3. g[k] = h[k] /\ Obeys(g, a, k) /\ Advances(g, a, k)
      BY <2>2, <2>3
    <3>4. /\ g[k]["value"] = h[k]["value"]
          /\ g[k]["value"].kind = "ok" => g[k]["value"].rest \in k + 1 .. Len(a) + 1
      BY <3>3 DEF Advances, Part
    <3>5. /\ composeValue(g, a, k) = composeValue(h, a, k)
          /\ composeArray(g, a, k) = composeArray(h, a, k)
          /\ composeMap(g, a, k) = composeMap(h, a, k)
      BY <3>1, <3>2, <3>4, SameLater
    <3> QED  BY <3>3, <3>5 DEF Obeys
  <2>12. ObeysFrom(h, a, j)
    <3> SUFFICES ASSUME NEW i \in j .. Len(a) + 1
                 PROVE  Obeys(h, a, i) /\ Advances(h, a, i)
      BY DEF ObeysFrom
    <3>1. CASE i = j
      BY <2>9, <2>10, <3>1
    <3>2. CASE i # j
      <4>1. i \in j + 1 .. n
        BY <1>0, <3>2
      <4> QED  BY <2>5, <2>11, <4>1
    <3> QED  BY <3>1, <3>2
  <2> QED  BY <2>12
<1> HIDE DEF T
<1>2. \A j \in 1 .. n : j \in T
  <2> HIDE DEF n
  <2> QED  BY <1>0, <1>1, FromTheEnd
<1> QED  BY <1>0, <1>2 DEF T

LEMMA ComposeArgsObeys ==
    ASSUME NEW a \in Seq(Word)
    PROVE  \E f : ObeysFrom(f, a, 1) /\ composeArgs(a) = f[1]["value"]
<1> DEFINE n == Len(a) + 1
           G(f, i, part) == IF part = "value" THEN composeValue(f, a, i)
                            ELSE IF part = "array" THEN composeArray(f, a, i)
                            ELSE composeMap(f, a, i)
           F(f) == [i \in 1 .. n |-> [part \in Part |-> G(f, i, part)]]
           compose == CHOOSE f : f = F(f)
<1>0. n \in Nat /\ 1 \in 1 .. n
  OBVIOUS
<1>1. PICK g : ObeysFrom(g, a, 1)
  BY SomeCompose
<1> DEFINE h == [i \in 1 .. n |-> [part \in Part |-> g[i][part]]]
<1>2. ASSUME NEW i \in 1 .. n
      PROVE  /\ h[i]["value"] = g[i]["value"] /\ h[i]["array"] = g[i]["array"]
             /\ h[i]["map"] = g[i]["map"]
  BY DEF Part
<1>3. ASSUME NEW i \in 1 .. n
      PROVE  Obeys(h, a, i) /\ Advances(h, a, i)
  <2>1. Obeys(g, a, i) /\ Advances(g, a, i)
    BY <1>1 DEF ObeysFrom
  <2>2. \A k \in i .. n : Advances(g, a, k)
    BY <1>0, <1>1 DEF ObeysFrom
  <2> HIDE DEF h
  <2>3. composeValue(g, a, i) = composeValue(h, a, i)
    <3>1. CASE i > Len(a)
      BY <3>1 DEF composeValue
    <3>2. CASE ~(i > Len(a))
      <4>1. i + 1 \in 1 .. n
        BY <1>0, <3>2
      <4> QED  BY <1>2, <4>1 DEF composeValue
    <3> QED  BY <3>1, <3>2
  <2>4. composeArray(g, a, i) = composeArray(h, a, i)
    <3>1. g[i]["value"].kind = "ok" => g[i]["value"].rest \in 1 .. n
      BY <1>0, <2>1 DEF Advances, Part
    <3> QED  BY <1>2, <3>1 DEF composeArray
  <2>5. composeMap(g, a, i) = composeMap(h, a, i)
    <3> DEFINE key   == g[i]["value"]
               value == g[key.rest]["value"]
    <3>1. key.kind = "ok" => key.rest \in i .. n /\ key.rest \in 1 .. n
      BY <1>0, <2>1 DEF Advances, Part
    <3>2. key.kind = "ok" /\ value.kind = "ok" => value.rest \in 1 .. n
      <4> SUFFICES ASSUME key.kind = "ok", value.kind = "ok"
                   PROVE  value.rest \in 1 .. n
        OBVIOUS
      <4>1. key.rest \in i .. n /\ key.rest \in 1 .. n
        BY <3>1
      <4>2. Advances(g, a, key.rest)
        BY <2>2, <4>1
      <4>3. value.rest \in key.rest + 1 .. n
        BY <4>2 DEF Advances, Part
      <4> HIDE DEF key, value
      <4> QED  BY <1>0, <4>1, <4>3
    <3>3. CASE key.kind # "ok"
      BY <1>2, <3>3 DEF composeMap
    <3>4. CASE key.kind = "ok" /\ value.kind # "ok"
      BY <1>2, <3>1, <3>4 DEF composeMap
    <3>5. CASE key.kind = "ok" /\ value.kind = "ok"
      BY <1>2, <3>1, <3>2, <3>5 DEF composeMap
    <3> QED  BY <3>3, <3>4, <3>5
  <2>6. Obeys(h, a, i)
    BY <1>2, <2>1, <2>3, <2>4, <2>5 DEF Obeys
  <2>7. Advances(h, a, i)
    BY <1>2, <2>1 DEF Advances, Part
  <2> QED  BY <2>6, <2>7
<1>4. h = F(h)
  <2>1. ASSUME NEW i \in 1 .. n, NEW part \in Part
        PROVE  h[i][part] = G(h, i, part)
    <3> HIDE DEF h
    <3> QED  BY <1>3 DEF Obeys, Part
  <2>2. h = [i \in 1 .. n |-> [part \in Part |-> h[i][part]]]
    OBVIOUS
  <2> HIDE DEF h, G, n
  <2> QED  BY <2>1, <2>2
<1> HIDE DEF h
<1>5. compose = F(compose)
  <2> HIDE DEF F
  <2> QED  BY <1>4, Zenon
<1>6. composeArgs(a) = compose[1]["value"]
  BY DEF composeArgs, Part
<1> HIDE DEF compose
<1>7. ASSUME NEW i \in 1 .. n
      PROVE  Obeys(compose, a, i)
  <2>1. ASSUME NEW part \in Part
        PROVE  compose[i][part] = G(compose, i, part)
    <3> HIDE DEF G
    <3>1. F(compose)[i][part] = G(compose, i, part)
      OBVIOUS
    <3> HIDE DEF F
    <3> QED  BY <1>5, <3>1
  <2> QED  BY <2>1 DEF Obeys, Part
<1> DEFINE T == {j \in 1 .. n : Advances(compose, a, j)}
<1>8. ASSUME NEW j \in 1 .. n, \A k \in j + 1 .. n : k \in T
      PROVE  j \in T
  <2>1. \A k \in j + 1 .. Len(a) + 1 : Advances(compose, a, k)
    BY <1>8
  <2> QED  BY <1>7, <2>1, ObeysAdvances
<1>9. \A j \in 1 .. n : j \in T
  <2> HIDE DEF T, n
  <2> QED  BY <1>0, <1>8, FromTheEnd
<1>10. ObeysFrom(compose, a, 1)
  BY <1>7, <1>9 DEF ObeysFrom
<1> QED  BY <1>6, <1>10

-----------------------------------------------------------------------------
(***************************************************************************)
(* The stack reader: the groups that are open, the innermost one first.     *)
(***************************************************************************)

(* A group is an array, or a map that may have a key without its value.      *)
Group(g) ==
    /\ IsSeq(g.elems)
    /\ \/ g = Array(g.elems)
       \/ /\ g = Value("map", "", g.elems, g.entries)
          /\ g.elems = <<>> \/ \E x : g.elems = <<x>>

(* A map that has a value for every key.                                     *)
WaitsForKey(g) == g.tag = "map" /\ g.elems = <<>>

(* A map whose last key has no value yet.                                    *)
HoldsKey(g, k, m) == g = Value("map", "", <<k>>, m)

(* The outermost group is the array of the parameters.                       *)
Stack(s) ==
    /\ IsSeq(s) /\ Len(s) >= 1
    /\ \A i \in 1 .. Len(s) : Group(s[i])
    /\ s[Len(s)].tag = "array"

LEMMA Records ==
    /\ \A k, s : Reading(k, s).kind = k /\ Reading(k, s).stack = s
    /\ \A e : Array(e).tag = "array" /\ Array(e).elems = e
    /\ \A m : Map(m).tag = "map" /\ Map(m).elems = <<>> /\ Map(m).entries = m
    /\ \A e, m : /\ Value("map", "", e, m).tag = "map" /\ Value("map", "", e, m).elems = e
                 /\ Value("map", "", e, m).entries = m
  BY DEF Reading, Array, Map, Value

LEMMA ArrayFields ==
    ASSUME NEW g, NEW e, g = Array(e)
    PROVE  g.tag = "array" /\ g.elems = e
  BY DEF Array, Value

LEMMA EmptyMapFields ==
    ASSUME NEW g, NEW m, g = Map(m)
    PROVE  WaitsForKey(g) /\ g.entries = m
  BY DEF Map, Value, WaitsForKey

LEMMA MapFields ==
    ASSUME NEW g, NEW e, NEW m, g = Value("map", "", e, m)
    PROVE  g.tag = "map" /\ g.elems = e /\ g.entries = m
  BY DEF Value

LEMMA Groups ==
    /\ \A e : IsSeq(e) => Group(Array(e))
    /\ \A m : Group(Map(m))
    /\ \A x, m : Group(Value("map", "", <<x>>, m))
<1>1. \A e : IsSeq(e) => Group(Array(e))
  BY Records DEF Group
<1>2. ASSUME NEW m
      PROVE  Group(Map(m))
  <2>1. Map(m) = Value("map", "", Map(m).elems, Map(m).entries)
    BY Records DEF Map
  <2> QED  BY <2>1, Records, EmptySeq DEF Group
<1>3. ASSUME NEW x, NEW m
      PROVE  Group(Value("map", "", <<x>>, m))
  <2> DEFINE g == Value("map", "", <<x>>, m)
  <2>1. g.elems = <<x>> /\ g.entries = m
    BY DEF Value
  <2>2. IsSeq(<<x>>)
    BY OneSeq
  <2> HIDE DEF g
  <2>3. Group(g)
    <3>1. g = Value("map", "", g.elems, g.entries)
      BY <2>1, Zenon DEF g
    <3> QED  BY <2>1, <2>2, <3>1, Zenon DEF Group
  <2> QED  BY <2>3 DEF g
<1> QED  BY <1>1, <1>2, <1>3

(* A group is opened inside the others.                                      *)
LEMMA Nest ==
    ASSUME NEW s, Stack(s), NEW g, Group(g)
    PROVE  /\ Stack(<<g>> \o s) /\ Head(<<g>> \o s) = g /\ Tail(<<g>> \o s) = s
           /\ Len(<<g>> \o s) # 1
<1> DEFINE t == <<g>> \o s
<1>1. IsSeq(s) /\ Len(s) >= 1
  BY DEF Stack
<1>2. /\ IsSeq(t) /\ Head(t) = g /\ Tail(t) = s
      /\ Len(s) \in Nat /\ Len(t) = Len(s) + 1
  BY <1>1, Push
<1> HIDE DEF t
<1>3. t[1] = g /\ \A i \in 1 .. Len(s) : t[i + 1] = s[i]
  <2>1. Head(t) = t[1] /\ \A i \in 1 .. Len(t) - 1 : Tail(t)[i] = t[i + 1]
    BY <1>2, Pop
  <2> QED  BY <1>2, <2>1
<1>4. ASSUME NEW i \in 1 .. Len(t)
      PROVE  Group(t[i])
  <2>1. CASE i = 1
    BY <1>3, <2>1
  <2>2. CASE i # 1
    <3>1. i - 1 \in 1 .. Len(s) /\ (i - 1) + 1 = i
      BY <1>2, <2>2
    <3>2. t[i] = s[i - 1]
      BY <1>3, <3>1
    <3> QED  BY <3>1, <3>2 DEF Stack
  <2> QED  BY <2>1, <2>2
<1>5. t[Len(t)].tag = "array"
  <2>1. t[Len(t)] = s[Len(s)]
    BY <1>1, <1>2, <1>3
  <2> QED  BY <2>1 DEF Stack
<1>6. Stack(t) /\ Len(t) # 1
  BY <1>1, <1>2, <1>4, <1>5 DEF Stack
<1> QED  BY <1>2, <1>6 DEF t

(* The innermost group, and what is left of the stack without it.            *)
LEMMA Innermost ==
    ASSUME NEW s, Stack(s)
    PROVE  /\ IsSeq(s) /\ Len(s) \in Nat /\ Group(Head(s))
           /\ Len(s) = 1 => s = <<Head(s)>> /\ Head(s).tag = "array"
           /\ Len(s) # 1 => Stack(Tail(s))
<1>1. IsSeq(s) /\ Len(s) >= 1
  BY DEF Stack
<1>2. /\ IsSeq(Tail(s)) /\ Len(s) \in Nat /\ Len(Tail(s)) = Len(s) - 1
      /\ Head(s) = s[1] /\ \A i \in 1 .. Len(s) - 1 : Tail(s)[i] = s[i + 1]
      /\ Len(s) = 1 => s = <<Head(s)>>
  BY <1>1, Pop
<1>3. Group(Head(s)) /\ (Len(s) = 1 => Head(s).tag = "array")
  BY <1>1, <1>2 DEF Stack
<1>4. ASSUME Len(s) # 1
      PROVE  Stack(Tail(s))
  <2>0. Len(s) \in Nat /\ Len(Tail(s)) = Len(s) - 1
    BY <1>2, Zenon
  <2>1. Len(Tail(s)) >= 1 /\ Len(Tail(s)) \in 1 .. Len(s) - 1 /\ Len(Tail(s)) + 1 = Len(s)
    <3>1. \A m \in Nat : \A k : /\ m >= 1 /\ m # 1 /\ k = m - 1
                               => k >= 1 /\ k \in 1 .. m - 1 /\ k + 1 = m
      OBVIOUS
    <3> QED  BY <1>1, <1>4, <2>0, <3>1, Zenon
  <2>2. ASSUME NEW i \in 1 .. Len(Tail(s))
        PROVE  Group(Tail(s)[i])
    <3>1. i \in 1 .. Len(s) - 1 /\ i + 1 \in 1 .. Len(s)
      BY <1>2
    <3> QED  BY <1>2, <3>1 DEF Stack
  <2>3. Tail(s)[Len(Tail(s))] = s[Len(s)]
    <3>1. \A i \in 1 .. Len(s) - 1 : Tail(s)[i] = s[i + 1]
      BY <1>2, Zenon
    <3>2. Tail(s)[Len(Tail(s))] = s[Len(Tail(s)) + 1]
      BY <2>1, <3>1, Zenon
    <3> QED  BY <2>1, <3>2, Zenon
  <2> QED  BY <1>2, <2>1, <2>2, <2>3 DEF Stack
<1> QED  BY <1>1, <1>2, <1>3, <1>4

(* The innermost group is replaced by one of its kind.                       *)
LEMMA Retop ==
    ASSUME NEW s, Stack(s), NEW g, Group(g), g.tag = Head(s).tag
    PROVE  /\ Stack(<<g>> \o Tail(s)) /\ Head(<<g>> \o Tail(s)) = g
           /\ Tail(<<g>> \o Tail(s)) = Tail(s) /\ Len(<<g>> \o Tail(s)) = Len(s)
<1>1. IsSeq(s) /\ Len(s) >= 1
  BY DEF Stack
<1>2. IsSeq(Tail(s)) /\ Len(s) \in Nat /\ Len(Tail(s)) = Len(s) - 1
  BY <1>1, Pop
<1> DEFINE t == <<g>> \o Tail(s)
<1>3. IsSeq(t) /\ Head(t) = g /\ Tail(t) = Tail(s) /\ Len(t) = Len(s)
  <2>1. IsSeq(t) /\ Head(t) = g /\ Tail(t) = Tail(s) /\ Len(t) = Len(Tail(s)) + 1
    BY <1>2, Push
  <2> HIDE DEF t
  <2> QED  BY <1>2, <2>1
<1>4. Stack(t)
  <2>1. CASE Len(s) = 1
    <3> HIDE DEF t
    <3>1. t[1] = g
      BY <1>1, <1>3, Pop
    <3>2. g.tag = "array"
      BY <2>1, Innermost
    <3> QED  BY <1>3, <2>1, <3>1, <3>2 DEF Stack
  <2>2. CASE Len(s) # 1
    BY <2>2, Innermost, Nest
  <2> QED  BY <2>1, <2>2
<1> QED  BY <1>3, <1>4

(* A value is added: to an array, as a key, and as the value of a key.       *)
LEMMA AddElement ==
    ASSUME NEW s, Stack(s), Head(s).tag = "array", NEW v
    PROVE  \E t : /\ Add(s, v) = Reading("open", t) /\ Stack(t)
                  /\ Head(t) = Array(Append(Head(s).elems, v))
                  /\ Tail(t) = Tail(s) /\ Len(t) = Len(s)
<1> DEFINE g == Array(Append(Head(s).elems, v))
<1>1. Add(s, v) = Reading("open", <<g>> \o Tail(s))
  BY DEF Add
<1>2. Group(g) /\ g.tag = Head(s).tag
  <2>1. IsSeq(Append(Head(s).elems, v))
    BY Innermost, AppendSeq DEF Group
  <2> QED  BY <2>1, Records, Groups
<1> HIDE DEF g
<1>3. /\ Stack(<<g>> \o Tail(s)) /\ Head(<<g>> \o Tail(s)) = g
      /\ Tail(<<g>> \o Tail(s)) = Tail(s) /\ Len(<<g>> \o Tail(s)) = Len(s)
  BY <1>2, Retop
<1> QED  BY <1>1, <1>3 DEF g

LEMMA AddKey ==
    ASSUME NEW s, Stack(s), WaitsForKey(Head(s)), NEW v
    PROVE  \E t : /\ Add(s, v) = Reading("open", t) /\ Stack(t)
                  /\ HoldsKey(Head(t), v, Head(s).entries)
                  /\ Tail(t) = Tail(s)
<1> DEFINE g == Value("map", "", <<v>>, Head(s).entries)
<1>2. Add(s, v) = Reading("open", <<g>> \o Tail(s)) /\ Head(s).tag = "map"
  BY DEF Add, WaitsForKey
<1>3. Group(g) /\ g.tag = Head(s).tag
  <2>1. g.tag = "map"
    BY DEF Value
  <2>2. Group(g)
    BY Groups
  <2> HIDE DEF g
  <2> QED  BY <1>2, <2>1, <2>2
<1> HIDE DEF g
<1>4. /\ Stack(<<g>> \o Tail(s)) /\ Head(<<g>> \o Tail(s)) = g
      /\ Tail(<<g>> \o Tail(s)) = Tail(s)
  BY <1>3, Retop
<1>5. HoldsKey(g, v, Head(s).entries)
  BY DEF HoldsKey, g
<1> QED  BY <1>2, <1>4, <1>5

LEMMA AddPanics ==
    ASSUME NEW s, NEW k, NEW m, HoldsKey(Head(s), k, m), NEW v, ~Hashable(k)
    PROVE  Add(s, v) = Reading("panic", <<>>)
<1>1. Head(s).tag = "map" /\ Head(s).elems = <<k>>
  BY MapFields DEF HoldsKey
<1>2. <<k>>[1] = k /\ <<k>> # <<>>
  BY OneSeq, Zenon
<1> QED  BY <1>1, <1>2 DEF Add

Entry(k, v) == {<<k, v>>}

Entered(s, k, m, v) ==
    \E t : /\ Add(s, v) = Reading("open", t) /\ Stack(t)
           /\ Head(t) = Map(Assign(m, Entry(k, v))) /\ Tail(t) = Tail(s)

LEMMA AddEntry ==
    ASSUME NEW s, Stack(s), NEW k, NEW m, HoldsKey(Head(s), k, m), NEW v,
           Hashable(k)
    PROVE  Entered(s, k, m, v)
<1> DEFINE g == Map(Assign(m, Entry(k, v)))
<1>1. Head(s).tag = "map" /\ Head(s).elems = <<k>> /\ Head(s).entries = m
  BY MapFields DEF HoldsKey
<1>2. <<k>>[1] = k /\ <<k>> # <<>>
  BY OneSeq, Zenon
<1>3. Add(s, v) = Reading("open", <<g>> \o Tail(s))
  BY <1>1, <1>2 DEF Add, Entry
<1>4. Group(g) /\ g.tag = Head(s).tag
  BY <1>1, Records, Groups
<1> HIDE DEF g
<1>5. /\ Stack(<<g>> \o Tail(s)) /\ Head(<<g>> \o Tail(s)) = g
      /\ Tail(<<g>> \o Tail(s)) = Tail(s)
  BY <1>4, Retop
<1>6. \E t : /\ Add(s, v) = Reading("open", t) /\ Stack(t) /\ Head(t) = g
             /\ Tail(t) = Tail(s)
  BY <1>3, <1>5
<1> QED  BY <1>6 DEF Entered, g

(* An error and a panic stay, and a word after the last bracket is an error. *)
Broken(r) == r.kind \in {"error", "panic"}

LEMMA Absorbed ==
    ASSUME NEW a, NEW n \in Nat, NEW run, Runs(run, a, n), NEW k \in 1 .. n
    PROVE  /\ Broken(run[k]) => run[n] = run[k]
           /\ run[k].kind = "closed" /\ k < n => run[n].kind = "error"
<1>1. ASSUME NEW i \in 1 .. n, Broken(run[i])
      PROVE  run[n] = run[i]
  <2> DEFINE T == {j \in 1 .. n : j >= i => run[j] = run[i]}
  <2>1. ASSUME NEW j \in 1 .. n, j > 1 => j - 1 \in T
        PROVE  j \in T
    <3>1. CASE j > i
      <4>1. j > 1 /\ j - 1 >= i
        BY <3>1
      <4>2. run[j - 1] = run[i]
        BY <2>1, <4>1
      <4>3. run[j] = Look(run[j - 1], a[j])
        BY <4>1 DEF Runs
      <4>4. run[j] = run[i]
        BY <1>1, <4>2, <4>3 DEF Look, Broken
      <4> QED  BY <4>4
    <3>2. CASE ~(j > i)
      BY <3>2
    <3> QED  BY <3>1, <3>2
  <2>2. \A j \in 1 .. n : j \in T
    <3> HIDE DEF T
    <3> QED  BY <2>1, FromTheStart
  <2> QED  BY <2>2
<1>2. ASSUME run[k].kind = "closed", k < n
      PROVE  run[n].kind = "error"
  <2>1. k + 1 \in 1 .. n /\ (k + 1) - 1 = k /\ k + 1 # 1
    BY <1>2
  <2>2. run[k + 1] = Look(run[k], a[k + 1])
    BY <2>1 DEF Runs
  <2>3. run[k + 1].kind = "error"
    <3>1. run[k + 1] = Reading("error", <<>>)
      BY <1>2, <2>2, Zenon DEF Look
    <3> QED  BY <3>1 DEF Reading
  <2>4. Broken(run[k + 1])
    BY <2>3 DEF Broken
  <2>5. run[n] = run[k + 1]
    BY <1>1, <2>1, <2>4, Zenon
  <2> QED  BY <2>3, <2>5
<1> QED  BY <1>1, <1>2

-----------------------------------------------------------------------------
(***************************************************************************)
(* composeArgs and the stack reader agree from every word on.               *)
(***************************************************************************)
Both(f, a, run) == ObeysFrom(f, a, 1) /\ Runs(run, a, Len(a))

(* composeArgs gives up, and the stack reader ends as badly.                 *)
Fails(v, last) ==
    \/ v.kind = "error" /\ last.kind \in {"open", "error"}
    \/ v.kind = "panic" /\ last.kind = "panic"

(* The stack reader after the end of the innermost group, which is g.        *)
Finish(s, g) == IF Len(s) = 1 THEN Reading("closed", <<g>>) ELSE Add(Tail(s), g)

(* From the word i composeArgs composes a value, and the stack reader has    *)
(* added it when it comes to the words left; or it composes what is missing  *)
(* of an array or a map, and the stack reader has finished its own.          *)
ValueAgrees(f, a, run, i) ==
    \A s :
        /\ Stack(s) /\ run[i - 1] = Reading("open", s)
        /\ ~(i > Len(a)) => ~Closes(a[i], Head(s))
        => LET v == f[i]["value"]
           IN  \/ v.kind = "ok" /\ run[v.rest - 1] = Add(s, v.value)
               \/ Fails(v, run[Len(a)])

ArrayAgrees(f, a, run, i) ==
    \A s :
        Stack(s) /\ run[i - 1] = Reading("open", s) /\ Head(s).tag = "array"
        => LET v == f[i]["array"]
           IN  \/ /\ v.kind = "ok" /\ v.value = Array(v.value.elems) /\ IsSeq(v.value.elems)
                  /\ run[v.rest - 1] = Finish(s, Array(Head(s).elems \o v.value.elems))
               \/ Fails(v, run[Len(a)])

MapAgrees(f, a, run, i) ==
    \A s :
        Stack(s) /\ run[i - 1] = Reading("open", s) /\ WaitsForKey(Head(s))
        => LET v == f[i]["map"]
           IN  \/ /\ v.kind = "ok" /\ v.value = Map(v.value.entries)
                  /\ run[v.rest - 1] =
                         Add(Tail(s), Map(Assign(Head(s).entries, v.value.entries)))
               \/ Fails(v, run[Len(a)])

(* What the stack reader does at a word while a group is open.               *)
Looked(s, w) ==
    IF w = "f32:x" THEN Reading("error", <<>>)
    ELSE IF w = "[" THEN Reading("open", <<Array(<<>>)>> \o s)
    ELSE IF w = "{" THEN Reading("open", <<Map({})>> \o s)
    ELSE IF ~Closes(w, Head(s)) THEN Add(s, composeScalar(w))
    ELSE IF Len(s) = 1 THEN Reading("closed", s)
    ELSE Add(Tail(s), Head(s))

LEMMA LookAt ==
    ASSUME NEW a \in Seq(Word), NEW run, Runs(run, a, Len(a)), NEW i \in 2 .. Len(a) + 1,
           ~(i > Len(a)), NEW s, run[i - 1] = Reading("open", s)
    PROVE  run[i] = Looked(s, a[i])
<1>0. Len(a) \in Nat
  OBVIOUS
<1>1. i \in 1 .. Len(a) /\ i # 1
  BY <1>0
<1>2. run[i] = Look(Reading("open", s), a[i])
  BY <1>1 DEF Runs
<1>3. Reading("open", s).kind = "open" /\ Reading("open", s).stack = s
  BY DEF Reading
<1> QED  BY <1>2, <1>3 DEF Look, Looked

(* Where the words i and i + 1 are.                                          *)
LEMMA Positions ==
    ASSUME NEW a \in Seq(Word), NEW i \in 2 .. Len(a) + 1
    PROVE  /\ Len(a) \in Nat /\ i \in 1 .. Len(a) + 1
           /\ i > Len(a) => i - 1 = Len(a)
           /\ ~(i > Len(a)) => /\ i \in 1 .. Len(a) /\ i + 1 \in i + 1 .. Len(a) + 1
                               /\ (i + 1) - 1 = i
<1>1. Len(a) \in Nat
  OBVIOUS
<1> QED  BY <1>1

(* At the end of the words, while a group is open, composeArgs gives up.     *)
LEMMA NoMoreWords ==
    ASSUME NEW a \in Seq(Word), NEW run, NEW s, run[Len(a)] = Reading("open", s)
    PROVE  Fails(Refused("error"), run[Len(a)])
<1>1. run[Len(a)].kind = "open"
  BY DEF Reading
<1>2. Refused("error").kind = "error"
  BY DEF Refused
<1> QED  BY <1>1, <1>2 DEF Fails

(* An error or a panic at a word is one at the end.                          *)
LEMMA FailsHere ==
    ASSUME NEW a \in Seq(Word), NEW run, Runs(run, a, Len(a)), NEW k \in 1 .. Len(a),
           NEW kind \in {"error", "panic"}, run[k] = Reading(kind, <<>>)
    PROVE  Fails(Refused(kind), run[Len(a)])
<1>0. Len(a) \in Nat
  OBVIOUS
<1>1. run[k].kind = kind
  BY DEF Reading
<1>2. run[Len(a)] = run[k]
  <2> DEFINE n == Len(a)
  <2>1. Broken(run[k])
    BY <1>1 DEF Broken
  <2>2. n \in Nat /\ k \in 1 .. n /\ Runs(run, a, n)
    BY <1>0
  <2> HIDE DEF n
  <2>3. run[n] = run[k]
    BY <2>1, <2>2, Absorbed
  <2> QED  BY <2>3 DEF n
<1>3. Refused(kind).kind = kind
  BY DEF Refused
<1>4. run[Len(a)].kind = kind
  BY <1>1, <1>2
<1> QED  BY <1>3, <1>4 DEF Fails

LEMMA ValueStep ==
    ASSUME NEW a \in Seq(Word), NEW f, NEW run, Both(f, a, run), NEW i \in 2 .. Len(a) + 1,
           \A k \in i + 1 .. Len(a) + 1 : ArrayAgrees(f, a, run, k) /\ MapAgrees(f, a, run, k)
    PROVE  ValueAgrees(f, a, run, i)
<1> DEFINE v == f[i]["value"]
<1>0. /\ i \in 1 .. Len(a) + 1
      /\ i > Len(a) => i - 1 = Len(a)
      /\ ~(i > Len(a)) => /\ i \in 1 .. Len(a) /\ i + 1 \in i + 1 .. Len(a) + 1
                          /\ (i + 1) - 1 = i
  BY Positions
<1>1. v = composeValue(f, a, i)
  BY <1>0 DEF Both, ObeysFrom, Obeys
<1>2. Runs(run, a, Len(a))
  BY DEF Both
<1> SUFFICES ASSUME NEW s, Stack(s), run[i - 1] = Reading("open", s),
                    ~(i > Len(a)) => ~Closes(a[i], Head(s))
             PROVE  \/ v.kind = "ok" /\ run[v.rest - 1] = Add(s, v.value)
                    \/ Fails(v, run[Len(a)])
  BY DEF ValueAgrees
<1> HIDE DEF v
<1>3. CASE i > Len(a)
  <2>1. v = Refused("error") /\ i - 1 = Len(a)
    BY <1>0, <1>1, <1>3 DEF composeValue
  <2> QED  BY <2>1, NoMoreWords
<1>4. CASE ~(i > Len(a))
  <2>1. run[i] = Looked(s, a[i])
    BY <1>2, <1>4, LookAt
  <2>2. CASE a[i] = "f32:x"
    <3>1. v = Refused("error") /\ run[i] = Reading("error", <<>>)
      BY <1>1, <2>1, <2>2 DEF composeValue, Looked
    <3> QED  BY <1>0, <1>2, <1>4, <3>1, FailsHere
  <2>3. CASE a[i] = "["
    <3> DEFINE g == Array(<<>>)
               t == <<g>> \o s
    <3>1. v = f[i + 1]["array"] /\ run[i] = Reading("open", t)
      BY <1>1, <1>4, <2>1, <2>3 DEF composeValue, Looked
    <3>2. Group(g) /\ g.tag = "array" /\ g.elems = <<>>
      BY Groups, EmptySeq, Records
    <3> HIDE DEF g
    <3>3. Stack(t) /\ Head(t) = g /\ Tail(t) = s /\ Len(t) # 1
      BY <3>2, Nest
    <3> HIDE DEF t
    <3>4. \/ /\ v.kind = "ok" /\ v.value = Array(v.value.elems) /\ IsSeq(v.value.elems)
             /\ run[v.rest - 1] = Finish(t, Array(g.elems \o v.value.elems))
          \/ Fails(v, run[Len(a)])
      <4>1. ArrayAgrees(f, a, run, i + 1) /\ run[(i + 1) - 1] = Reading("open", t)
        BY <1>0, <1>4, <3>1
      <4> QED  BY <3>1, <3>2, <3>3, <4>1, Zenon DEF ArrayAgrees
    <3>5. ASSUME v.value = Array(v.value.elems), IsSeq(v.value.elems)
          PROVE  Finish(t, Array(g.elems \o v.value.elems)) = Add(s, v.value)
      <4>1. g.elems \o v.value.elems = v.value.elems
        BY <3>2, <3>5, Rebracket, Zenon
      <4> QED  BY <3>3, <3>5, <4>1, Zenon DEF Finish
    <3> QED  BY <3>4, <3>5, Zenon
  <2>4. CASE a[i] = "{"
    <3> DEFINE g == Map({})
               t == <<g>> \o s
    <3>1. v = f[i + 1]["map"] /\ run[i] = Reading("open", t)
      BY <1>1, <1>4, <2>1, <2>4 DEF composeValue, Looked
    <3>2. Group(g) /\ WaitsForKey(g) /\ g.entries = {}
      BY Groups, EmptyMapFields
    <3> HIDE DEF g
    <3>3. Stack(t) /\ Head(t) = g /\ Tail(t) = s
      BY <3>2, Nest
    <3> HIDE DEF t
    <3>4. \/ /\ v.kind = "ok" /\ v.value = Map(v.value.entries)
             /\ run[v.rest - 1] = Add(s, Map(Assign({}, v.value.entries)))
          \/ Fails(v, run[Len(a)])
      <4>1. MapAgrees(f, a, run, i + 1) /\ run[(i + 1) - 1] = Reading("open", t)
        BY <1>0, <1>4, <3>1
      <4> QED  BY <3>1, <3>2, <3>3, <4>1, Zenon DEF MapAgrees
    <3>5. Assign({}, v.value.entries) = v.value.entries
      BY AssignTwice
    <3> QED  BY <3>4, <3>5, Zenon
  <2>5. CASE a[i] \notin {"f32:x", "[", "{"}
    <3>1. v = Composed(composeScalar(a[i]), i + 1) /\ run[i] = Add(s, composeScalar(a[i]))
      BY <1>1, <1>4, <2>1, <2>5 DEF composeValue, Looked
    <3>2. v.kind = "ok" /\ v.value = composeScalar(a[i]) /\ v.rest = i + 1
      BY <3>1, Results
    <3> QED  BY <1>0, <1>4, <3>1, <3>2
  <2> QED  BY <2>2, <2>3, <2>4, <2>5
<1> QED  BY <1>3, <1>4

LEMMA ArrayStep ==
    ASSUME NEW a \in Seq(Word), NEW f, NEW run, Both(f, a, run), NEW i \in 2 .. Len(a) + 1,
           ValueAgrees(f, a, run, i),
           \A k \in i + 1 .. Len(a) + 1 : ArrayAgrees(f, a, run, k)
    PROVE  ArrayAgrees(f, a, run, i)
<1> DEFINE v    == f[i]["array"]
           elem == f[i]["value"]
           more == f[elem.rest]["array"]
<1>0. /\ i \in 1 .. Len(a) + 1
      /\ i > Len(a) => i - 1 = Len(a)
      /\ ~(i > Len(a)) => /\ i \in 1 .. Len(a) /\ i + 1 \in i + 1 .. Len(a) + 1
                          /\ (i + 1) - 1 = i
  BY Positions
<1>1. v = composeArray(f, a, i) /\ Advances(f, a, i)
  BY <1>0 DEF Both, ObeysFrom, Obeys
<1>2. Runs(run, a, Len(a))
  BY DEF Both
<1> SUFFICES ASSUME NEW s, Stack(s), run[i - 1] = Reading("open", s), Head(s).tag = "array"
             PROVE  \/ /\ v.kind = "ok" /\ v.value = Array(v.value.elems)
                       /\ IsSeq(v.value.elems)
                       /\ run[v.rest - 1] = Finish(s, Array(Head(s).elems \o v.value.elems))
                    \/ Fails(v, run[Len(a)])
  BY DEF ArrayAgrees
<1>3. IsSeq(Head(s).elems) /\ Head(s) = Array(Head(s).elems)
  <2>1. Group(Head(s))
    BY Innermost
  <2>2. Head(s).tag # "map"
    OBVIOUS
  <2> QED  BY <2>1, <2>2, MapFields, Zenon DEF Group
<1> HIDE DEF v
<1>4. CASE i > Len(a)
  <2>1. v = Refused("error") /\ i - 1 = Len(a)
    BY <1>0, <1>1, <1>4 DEF composeArray
  <2> QED  BY <2>1, NoMoreWords
<1>5. CASE ~(i > Len(a)) /\ a[i] = "]"
  <2>0. run[i] = Looked(s, a[i]) /\ (i + 1) - 1 = i
    BY <1>0, <1>2, <1>5, LookAt
  <2>1. v = Composed(Array(<<>>), i + 1)
    BY <1>1, <1>5 DEF composeArray
  <2>2. v.kind = "ok" /\ v.rest = i + 1 /\ v.value = Array(<<>>)
    BY <2>1, Results
  <2>6. v.value.elems = <<>>
    BY <2>2, ArrayFields
  <2>3. Closes(a[i], Head(s))
    BY <1>5 DEF Closes
  <2>4. run[i] = Finish(s, Head(s)) /\ (i + 1) - 1 = i
    <3>1. run[i] = (IF Len(s) = 1 THEN Reading("closed", s) ELSE Add(Tail(s), Head(s)))
          /\ (i + 1) - 1 = i
      BY <1>5, <2>0, <2>3 DEF Looked
    <3>2. Len(s) = 1 => s = <<Head(s)>>
      BY Innermost
    <3> QED  BY <3>1, <3>2, Zenon DEF Finish
  <2>5. Head(s) = Array(Head(s).elems \o <<>>)
    BY <1>3, Rebracket, EmptySeq, Zenon
  <2> QED  BY <2>2, <2>4, <2>5, <2>6, EmptySeq, Zenon
<1>6. CASE ~(i > Len(a)) /\ a[i] # "]"
  <2>1. v = IF elem.kind # "ok" THEN elem ELSE IF more.kind # "ok" THEN more
            ELSE Composed(Array(<<elem.value>> \o more.value.elems), more.rest)
    BY <1>1, <1>6 DEF composeArray
  <2>2. ~Closes(a[i], Head(s))
    BY <1>6 DEF Closes
  <2>3. \/ elem.kind = "ok" /\ run[elem.rest - 1] = Add(s, elem.value)
        \/ Fails(elem, run[Len(a)])
    BY <2>2, Zenon DEF ValueAgrees
  <2>4. CASE elem.kind # "ok"
    BY <2>1, <2>3, <2>4, Zenon
  <2>5. CASE elem.kind = "ok"
    <3>1. run[elem.rest - 1] = Add(s, elem.value)
      BY <2>3, <2>5 DEF Fails
    <3>2. elem.rest \in i + 1 .. Len(a) + 1
      BY <1>1, <2>5 DEF Advances, Part
    <3>3. ArrayAgrees(f, a, run, elem.rest)
      BY <3>2
    <3> HIDE DEF elem, more
    <3>4. PICK t : /\ Add(s, elem.value) = Reading("open", t) /\ Stack(t)
                   /\ Head(t) = Array(Append(Head(s).elems, elem.value))
                   /\ Tail(t) = Tail(s) /\ Len(t) = Len(s)
      BY AddElement
    <3>5. Head(t).tag = "array" /\ Head(t).elems = Append(Head(s).elems, elem.value)
      BY <3>4, ArrayFields
    <3>6. \/ /\ more.kind = "ok" /\ more.value = Array(more.value.elems)
             /\ IsSeq(more.value.elems)
             /\ run[more.rest - 1] = Finish(t, Array(Head(t).elems \o more.value.elems))
          \/ Fails(more, run[Len(a)])
      <4>1. run[elem.rest - 1] = Reading("open", t)
        BY <3>1, <3>4
      <4>2. more = f[elem.rest]["array"]
        BY DEF more
      <4> QED  BY <3>3, <3>4, <3>5, <4>1, <4>2, Zenon DEF ArrayAgrees
    <3>7. CASE more.kind # "ok"
      BY <2>1, <2>5, <3>6, <3>7, Zenon
    <3>8. CASE more.kind = "ok"
      <4> DEFINE e == <<elem.value>> \o more.value.elems
      <4>1. IsSeq(more.value.elems)
            /\ run[more.rest - 1] = Finish(t, Array(Head(t).elems \o more.value.elems))
        BY <3>6, <3>8 DEF Fails
      <4>2. IsSeq(e) /\ Head(t).elems \o more.value.elems = Head(s).elems \o e
        <5>1. IsSeq(e)
          BY <4>1, Push, Zenon
        <5>2. Append(Head(s).elems, elem.value) \o more.value.elems = Head(s).elems \o e
          <6> DEFINE p == Head(s).elems
                     q == more.value.elems
                     x == elem.value
          <6>1. IsSeq(p) /\ IsSeq(q)
            BY <1>3, <4>1
          <6> HIDE DEF p, q, x
          <6>2. Append(p, x) \o q = p \o (<<x>> \o q)
            BY <6>1, Rebracket
          <6> QED  BY <6>2 DEF p, q, x
        <5> QED  BY <3>5, <5>1, <5>2, Zenon
      <4> HIDE DEF e
      <4>3. Finish(t, Array(Head(s).elems \o e)) = Finish(s, Array(Head(s).elems \o e))
        BY <3>4, Zenon DEF Finish
      <4>4. v = Composed(Array(e), more.rest)
        BY <2>1, <2>5, <3>8, Zenon DEF e
      <4>5. v.kind = "ok" /\ v.value = Array(e) /\ v.rest = more.rest
        BY <4>4, Results
      <4>6. v.value.elems = e
        BY <4>5, ArrayFields
      <4> QED  BY <4>1, <4>2, <4>3, <4>5, <4>6, Zenon
    <3> QED  BY <3>7, <3>8
  <2> QED  BY <2>4, <2>5
<1> QED  BY <1>4, <1>5, <1>6

LEMMA MapStep ==
    ASSUME NEW a \in Seq(Word), NEW f, NEW run, Both(f, a, run), NEW i \in 2 .. Len(a) + 1,
           ValueAgrees(f, a, run, i),
           \A k \in i + 1 .. Len(a) + 1 : ValueAgrees(f, a, run, k) /\ MapAgrees(f, a, run, k)
    PROVE  MapAgrees(f, a, run, i)
<1> DEFINE v     == f[i]["map"]
           key   == f[i]["value"]
           value == f[key.rest]["value"]
           more  == f[value.rest]["map"]
           whole == Assign({<<key.value, value.value>>}, more.value.entries)
<1>0. /\ i \in 1 .. Len(a) + 1
      /\ i > Len(a) => i - 1 = Len(a)
      /\ ~(i > Len(a)) => /\ i \in 1 .. Len(a) /\ i + 1 \in i + 1 .. Len(a) + 1
                          /\ (i + 1) - 1 = i
  BY Positions
<1>1. v = composeMap(f, a, i) /\ Advances(f, a, i)
  BY <1>0 DEF Both, ObeysFrom, Obeys
<1>2. Runs(run, a, Len(a))
  BY DEF Both
<1> SUFFICES ASSUME NEW s, Stack(s), run[i - 1] = Reading("open", s), WaitsForKey(Head(s))
             PROVE  \/ /\ v.kind = "ok" /\ v.value = Map(v.value.entries)
                       /\ run[v.rest - 1] =
                              Add(Tail(s), Map(Assign(Head(s).entries, v.value.entries)))
                    \/ Fails(v, run[Len(a)])
  BY DEF MapAgrees
<1> DEFINE m == Head(s).entries
<1>3. Head(s) = Map(m) /\ Len(s) # 1
  <2>0. Head(s).tag # "array"
    BY DEF WaitsForKey
  <2>1. Group(Head(s)) /\ Len(s) # 1
    BY <2>0, Innermost
  <2>2. \A e : Head(s) # Array(e)
    BY <2>0, ArrayFields, Zenon
  <2>3. Head(s) = Value("map", "", <<>>, m)
    BY <2>1, <2>2, Zenon DEF Group, WaitsForKey
  <2> QED  BY <2>1, <2>3 DEF Map
<1> HIDE DEF v, m
<1>4. CASE i > Len(a)
  <2>1. v = Refused("error") /\ i - 1 = Len(a)
    BY <1>0, <1>1, <1>4 DEF composeMap
  <2> QED  BY <2>1, NoMoreWords
<1>5. CASE ~(i > Len(a)) /\ a[i] = "}"
  <2>0. run[i] = Looked(s, a[i]) /\ (i + 1) - 1 = i
    <3>1. ~(i > Len(a))
      BY <1>5, Zenon
    <3>2. run[i] = Looked(s, a[i])
      BY <1>2, <3>1, LookAt
    <3> QED  BY <1>0, <3>1, <3>2, Zenon
  <2>1. v = Composed(Map({}), i + 1)
    BY <1>1, <1>5 DEF composeMap
  <2>2. v.kind = "ok" /\ v.rest = i + 1 /\ v.value = Map({})
    BY <2>1, Results
  <2>6. v.value.entries = {}
    BY <2>2, EmptyMapFields
  <2>3. Closes(a[i], Head(s))
    BY <1>5, Zenon DEF Closes, WaitsForKey
  <2>4. run[i] = Add(Tail(s), Head(s)) /\ (i + 1) - 1 = i
    BY <1>3, <1>5, <2>0, <2>3 DEF Looked
  <2>5. Assign(m, {}) = m
    BY DEF Assign
  <2> QED  BY <1>3, <2>2, <2>4, <2>5, <2>6, Zenon DEF m
<1>6. CASE ~(i > Len(a)) /\ a[i] # "}"
  <2>1. v = IF key.kind # "ok" THEN key ELSE IF value.kind # "ok" THEN value
            ELSE IF ~Hashable(key.value) THEN Refused("panic")
            ELSE IF more.kind # "ok" THEN more
            ELSE Composed(Map(whole), more.rest)
    BY <1>1, <1>6 DEF composeMap
  <2>2. ~Closes(a[i], Head(s))
    <3>1. Head(s).tag = "map" /\ "map" # "array"
      BY DEF WaitsForKey
    <3> QED  BY <1>6, <3>1, Zenon DEF Closes
  <2>3. \/ key.kind = "ok" /\ run[key.rest - 1] = Add(s, key.value)
        \/ Fails(key, run[Len(a)])
    BY <2>2, Zenon DEF ValueAgrees
  <2>4. CASE key.kind # "ok"
    BY <2>1, <2>3, <2>4, Zenon
  <2>5. CASE key.kind = "ok"
    <3>1. run[key.rest - 1] = Add(s, key.value)
      BY <2>3, <2>5 DEF Fails
    <3>2. key.rest \in i + 1 .. Len(a) + 1 /\ key.rest \in 1 .. Len(a) + 1
      <4>1. key.rest \in i + 1 .. Len(a) + 1
        BY <1>1, <2>5 DEF Advances, Part
      <4> HIDE DEF key
      <4> QED  BY <1>0, <4>1
    <3>3. ValueAgrees(f, a, run, key.rest) /\ Advances(f, a, key.rest)
      BY <3>2 DEF Both, ObeysFrom
    <3>4. value.kind = "ok" => value.rest \in key.rest + 1 .. Len(a) + 1
      BY <3>3 DEF Advances, Part
    <3> HIDE DEF key
    <3>5. PICK t : /\ Add(s, key.value) = Reading("open", t) /\ Stack(t)
                   /\ HoldsKey(Head(t), key.value, m) /\ Tail(t) = Tail(s)
      BY AddKey DEF m
    <3>6. \/ value.kind = "ok" /\ run[value.rest - 1] = Add(t, value.value)
          \/ Fails(value, run[Len(a)])
      <4>1. run[key.rest - 1] = Reading("open", t)
        BY <3>1, <3>5
      <4>2. Head(t).tag = "map" /\ Head(t).elems # <<>>
        <5>1. Head(t).tag = "map" /\ Head(t).elems = <<key.value>>
          BY <3>5, MapFields DEF HoldsKey
        <5>2. <<key.value>> # <<>>
          BY OneSeq
        <5> QED  BY <5>1, <5>2
      <4>3. ~(key.rest > Len(a)) => ~Closes(a[key.rest], Head(t))
        BY <4>2 DEF Closes
      <4> QED  BY <3>3, <3>5, <4>1, <4>3, Zenon DEF ValueAgrees
    <3>7. CASE value.kind # "ok"
      BY <2>1, <2>5, <3>6, <3>7, Zenon
    <3>8. CASE value.kind = "ok"
      <4>1. run[value.rest - 1] = Add(t, value.value)
        BY <3>6, <3>8 DEF Fails
      <4>2. value.rest \in key.rest + 1 .. Len(a) + 1
        BY <3>4, <3>8
      <4> HIDE DEF value
      <4>3. value.rest \in i + 1 .. Len(a) + 1 /\ value.rest - 1 \in 1 .. Len(a)
        BY <1>0, <3>2, <4>2
      <4>4. MapAgrees(f, a, run, value.rest)
        BY <4>3
      <4>5. CASE ~Hashable(key.value)
        <5>1. run[value.rest - 1] = Reading("panic", <<>>)
          BY <3>5, <4>1, <4>5, AddPanics
        <5>2. v = Refused("panic")
          BY <2>1, <2>5, <3>8, <4>5, Zenon
        <5> QED  BY <1>2, <4>3, <5>1, <5>2, FailsHere
      <4>6. CASE Hashable(key.value)
        <5> DEFINE kv == Entry(key.value, value.value)
        <5>1. PICK u : /\ Add(t, value.value) = Reading("open", u) /\ Stack(u)
                       /\ Head(u) = Map(Assign(m, kv)) /\ Tail(u) = Tail(t)
          <6>1. Entered(t, key.value, m, value.value)
            BY <3>5, <4>6, AddEntry
          <6> QED  BY <6>1, Zenon DEF Entered
        <5> HIDE DEF kv
        <5>2. WaitsForKey(Head(u)) /\ Head(u).entries = Assign(m, kv)
          BY <5>1, EmptyMapFields
        <5>3. \/ /\ more.kind = "ok" /\ more.value = Map(more.value.entries)
                 /\ run[more.rest - 1] =
                        Add(Tail(u), Map(Assign(Assign(m, kv), more.value.entries)))
              \/ Fails(more, run[Len(a)])
          <6>1. run[value.rest - 1] = Reading("open", u)
            BY <4>1, <5>1
          <6> QED  BY <4>4, <5>1, <5>2, <6>1, Zenon DEF MapAgrees
        <5> HIDE DEF more
        <5>4. CASE more.kind # "ok"
          BY <2>1, <2>5, <3>8, <4>6, <5>3, <5>4, Zenon
        <5>5. CASE more.kind = "ok"
          <6>1. run[more.rest - 1] =
                    Add(Tail(u), Map(Assign(Assign(m, kv), more.value.entries)))
            BY <5>3, <5>5 DEF Fails
          <6>2. Assign(Assign(m, kv), more.value.entries) = Assign(m, whole)
            BY AssignTwice DEF kv, Entry
          <6> HIDE DEF whole
          <6>3. v = Composed(Map(whole), more.rest)
            BY <2>1, <2>5, <3>8, <4>6, <5>5, Zenon
          <6>4. v.kind = "ok" /\ v.value = Map(whole) /\ v.rest = more.rest
            BY <6>3, Results
          <6>6. v.value.entries = whole
            BY <6>4, EmptyMapFields
          <6>5. Tail(u) = Tail(s)
            BY <3>5, <5>1
          <6> QED  BY <6>1, <6>2, <6>4, <6>5, <6>6, Zenon DEF m
        <5> QED  BY <5>4, <5>5
      <4> QED  BY <4>5, <4>6
    <3> QED  BY <3>7, <3>8
  <2> QED  BY <2>4, <2>5
<1> QED  BY <1>4, <1>5, <1>6

LEMMA Agree ==
    ASSUME NEW a \in Seq(Word), NEW f, NEW run, Both(f, a, run), NEW i \in 2 .. Len(a) + 1
    PROVE  ArrayAgrees(f, a, run, i)
<1> DEFINE n == Len(a) + 1
           Here(j) == /\ ValueAgrees(f, a, run, j) /\ ArrayAgrees(f, a, run, j)
                      /\ MapAgrees(f, a, run, j)
           T == {j \in 1 .. n : j >= 2 => Here(j)}
<1>0. n \in Nat
  OBVIOUS
<1>1. ASSUME NEW j \in 1 .. n, \A k \in j + 1 .. n : k \in T
      PROVE  j \in T
  <2>1. CASE j >= 2
    <3>1. j \in 2 .. Len(a) + 1
      BY <1>0, <2>1
    <3>2. ASSUME NEW k \in j + 1 .. Len(a) + 1
          PROVE  Here(k)
      <4>1. k >= 2
        BY <1>0, <2>1
      <4> QED  BY <1>1, <4>1
    <3>3. ValueAgrees(f, a, run, j)
      BY <3>1, <3>2, ValueStep
    <3>4. ArrayAgrees(f, a, run, j)
      BY <3>1, <3>2, <3>3, ArrayStep
    <3>5. MapAgrees(f, a, run, j)
      BY <3>1, <3>2, <3>3, MapStep
    <3> QED  BY <3>3, <3>4, <3>5
  <2>2. CASE ~(j >= 2)
    BY <2>2
  <2> QED  BY <2>1, <2>2
<1>2. \A j \in 1 .. n : j \in T
  <2> HIDE DEF T, n
  <2> QED  BY <1>0, <1>1, FromTheEnd
<1>3. i \in 1 .. n /\ i >= 2
  BY <1>0
<1> QED  BY <1>2, <1>3

(* The words between brackets are not empty, and begin with one.             *)
LEMMA BracketedWords ==
    ASSUME NEW ws \in Seq(Word)
    PROVE  /\ Bracketed(ws) \in Seq(Word) /\ Len(Bracketed(ws)) \in Nat
           /\ Len(Bracketed(ws)) >= 2 /\ Bracketed(ws)[1] = "["
<1>0. "[" \in Word /\ "]" \in Word
  BY DEF Word
<1>1. <<"[">> \in Seq(Word) /\ <<"]">> \in Seq(Word)
  BY <1>0
<1>2. <<"[">> \o ws \in Seq(Word) /\ Len(<<"[">> \o ws) = Len(ws) + 1
  BY <1>1
<1>3. Bracketed(ws) \in Seq(Word) /\ Len(Bracketed(ws)) = Len(ws) + 2
  BY <1>1, <1>2 DEF Bracketed
<1>4. Bracketed(ws)[1] = "["
  <2>1. (<<"[">> \o ws)[1] = "["
    BY <1>1
  <2> QED  BY <1>1, <1>2, <2>1 DEF Bracketed
<1> QED  BY <1>3, <1>4

(* composeArgs understands the words as the stack reader does.               *)
LEMMA ParamsUnderstood ==
    ASSUME NEW ws \in Seq(Word)
    PROVE  LET p == Params(ws)
               r == ReadWords(ws)
           IN  /\ (p.kind = "ok") <=> (r.kind = "closed")
               /\ (p.kind = "panic") <=> (r.kind = "panic")
               /\ p.kind = "ok" => p.value = Head(r.stack)
               /\ p.kind \in {"ok", "error", "panic"}
<1> DEFINE a == Bracketed(ws)
           n == Len(a)
           p == Params(ws)
           r == ReadWords(ws)
<1>0. a \in Seq(Word) /\ n \in Nat /\ n >= 2 /\ a[1] = "["
  BY BracketedWords
<1>1. PICK f : ObeysFrom(f, a, 1) /\ composeArgs(a) = f[1]["value"]
  BY <1>0, ComposeArgsObeys
<1>2. PICK run : Runs(run, a, n) /\ r = run[n]
  BY ReadWordsRuns
<1> DEFINE c == composeArgs(a)
           v == f[2]["array"]
<1>3. p = IF c.kind = "ok" /\ c.rest <= n THEN Refused("error") ELSE c
  BY DEF Params
<1>4. c = v
  <2>1. 1 \in 1 .. n + 1 /\ ~(1 > n) /\ 1 + 1 = 2
    BY <1>0
  <2>2. f[1]["value"] = composeValue(f, a, 1)
    BY <1>1, <2>1 DEF ObeysFrom, Obeys
  <2> HIDE DEF a, n
  <2>3. composeValue(f, a, 1) = f[2]["array"]
    BY <1>0, <2>1 DEF composeValue, n
  <2> QED  BY <1>1, <2>2, <2>3
<1> HIDE DEF a, p, r, c
<1>5. v.kind = "ok" => v.rest \in 3 .. n + 1
  <2>1. Advances(f, a, 2)
    BY <1>0, <1>1 DEF ObeysFrom
  <2> QED  BY <2>1 DEF Advances, Part
<1>6. \/ /\ v.kind = "ok" /\ v.value = Array(v.value.elems) /\ IsSeq(v.value.elems)
         /\ run[v.rest - 1] = Reading("closed", <<v.value>>)
      \/ Fails(v, run[n])
  <2> DEFINE s == <<Array(<<>>)>>
  <2>1. IsSeq(s) /\ Len(s) = 1 /\ s[1] = Array(<<>>) /\ Head(s) = Array(<<>>)
    BY OneSeq
  <2>2. Head(s).tag = "array" /\ Head(s).elems = <<>> /\ s[1].tag = "array"
    BY <2>1, ArrayFields
  <2>3. Stack(s)
    <3>1. Group(s[1])
      BY <2>1, Groups, EmptySeq
    <3> HIDE DEF s
    <3> QED  BY <2>1, <2>2, <3>1 DEF Stack
  <2>4. run[2 - 1] = Reading("open", s)
    <3>1. 1 \in 1 .. n /\ 2 - 1 = 1
      BY <1>0
    <3> QED  BY <1>2, <3>1 DEF Runs, Start
  <2>5. ArrayAgrees(f, a, run, 2)
    <3>1. 2 \in 2 .. Len(a) + 1
      BY <1>0
    <3> QED  BY <1>0, <1>1, <1>2, <3>1, Agree DEF Both
  <2> HIDE DEF s
  <2>6. \/ /\ v.kind = "ok" /\ v.value = Array(v.value.elems) /\ IsSeq(v.value.elems)
           /\ run[v.rest - 1] = Finish(s, Array(Head(s).elems \o v.value.elems))
        \/ Fails(v, run[n])
    BY <2>2, <2>3, <2>4, <2>5, Zenon DEF ArrayAgrees
  <2>7. ASSUME v.value = Array(v.value.elems), IsSeq(v.value.elems)
        PROVE  Finish(s, Array(Head(s).elems \o v.value.elems)) = Reading("closed", <<v.value>>)
    <3>1. Head(s).elems \o v.value.elems = v.value.elems
      BY <2>2, <2>7, Rebracket, Zenon
    <3> QED  BY <2>1, <2>7, <3>1, Zenon DEF Finish
  <2> QED  BY <2>6, <2>7, Zenon
<1> HIDE DEF v
<1>7. CASE v.kind = "ok" /\ v.rest <= n
  <2>1. v.rest - 1 \in 1 .. n /\ v.rest - 1 < n
    BY <1>0, <1>5, <1>7
  <2>2. run[v.rest - 1] = Reading("closed", <<v.value>>)
    BY <1>6, <1>7 DEF Fails
  <2>3. run[v.rest - 1].kind = "closed"
    BY <2>2 DEF Reading
  <2>4. run[n].kind = "error"
    <3> DEFINE k == v.rest - 1
    <3>1. k \in 1 .. n /\ k < n /\ run[k].kind = "closed"
      BY <2>1, <2>3
    <3> HIDE DEF k, n
    <3> QED  BY <1>0, <1>2, <3>1, Absorbed
  <2>5. p.kind = "error"
    BY <1>3, <1>4, <1>7, Results
  <2>6. r.kind = "error"
    BY <1>2, <2>4
  <2> QED  BY <2>5, <2>6 DEF p, r
<1>8. CASE v.kind = "ok" /\ ~(v.rest <= n)
  <2>1. v.rest - 1 = n
    BY <1>0, <1>5, <1>8
  <2>2. r = Reading("closed", <<v.value>>)
    BY <1>2, <1>6, <1>8, <2>1 DEF Fails
  <2>3. r.kind = "closed" /\ r.stack = <<v.value>>
    BY <2>2 DEF Reading
  <2>4. Head(r.stack) = v.value
    BY <2>3, OneSeq
  <2>5. p = v
    BY <1>3, <1>4, <1>8
  <2> QED  BY <1>8, <2>3, <2>4, <2>5 DEF p, r
<1>9. CASE v.kind # "ok"
  <2>1. Fails(v, run[n]) /\ p = v
    BY <1>3, <1>4, <1>6, <1>9
  <2> QED  BY <1>2, <2>1 DEF Fails, p, r
<1> QED  BY <1>7, <1>8, <1>9

-----------------------------------------------------------------------------
(***************************************************************************)
(* The client.                                                              *)
(***************************************************************************)

(* The steps of main happen in their order: every variable has its type      *)
(* (main.go:31-101).                                                         *)
THEOREM CliTypeCorrect == Spec => []TypeOK
<1>1. Init => TypeOK
  BY DEF Init, TypeOK
<1>2. TypeOK /\ [Next]_vars => TypeOK'
  <2> SUFFICES ASSUME TypeOK, [Next]_vars
               PROVE  TypeOK'
    OBVIOUS
  <2> USE DEF TypeOK
  <2>1. ASSUME NEW w \in Word, Type(w)
        PROVE  TypeOK'
    BY <2>1 DEF Type
  <2>2. CASE Compose
    BY <2>2 DEF Compose, Exit
  <2>3. CASE Dial
    BY <2>3 DEF Dial, Exit
  <2>4. CASE Send
    BY <2>4 DEF Send, Exit
  <2>5. CASE Receive
    BY <2>5 DEF Receive, Exit
  <2>6. CASE UNCHANGED vars
    BY <2>6 DEF vars
  <2>7. CASE BadUsage
    BY <2>7 DEF BadUsage, Exit
  <2> QED  BY <2>1, <2>2, <2>3, <2>4, <2>5, <2>6, <2>7 DEF Next
<1> QED  BY <1>1, <1>2, PTL DEF Spec

(* Whatever the words, however many and however nested, the parameters are   *)
(* those that the words stand for (composeArgs, main.go:115-196).            *)
THEOREM WordsAreUnderstood == Spec => []WordsUnderstood
<1>1. TypeOK => WordsUnderstood
  BY ParamsUnderstood DEF TypeOK, WordsUnderstood
<1> QED  BY <1>1, CliTypeCorrect, PTL

(* After composeArgs main goes on only with words that it understood, and    *)
(* it waits for an answer only to a request.                                 *)
Understood == Params(words).kind = "ok"

StatusInv ==
    /\ phase \in {"dial", "send", "waiting"} => Understood
    /\ phase = "waiting" => ~notification
    /\ phase # "exited" => status = "none"
    /\ status = "0" => Understood /\ answer = IF notification THEN "written" ELSE "result"

(* The exit status 0 means that the words were understood and the call was   *)
(* answered, or the notification written (main.go:44-46, 50-95).             *)
THEOREM StatusIsTrue == Spec => []StatusTells
<1>1. Init => StatusInv
  BY DEF Init, StatusInv
<1>2. TypeOK /\ StatusInv /\ [Next]_vars => StatusInv'
  <2> SUFFICES ASSUME TypeOK, StatusInv, [Next]_vars
               PROVE  StatusInv'
    OBVIOUS
  <2>1. ASSUME NEW w \in Word, Type(w)
        PROVE  StatusInv'
    BY <2>1 DEF Type, StatusInv
  <2>2. CASE Compose
    <3>1. words' = words /\ Understood' = Understood
      BY <2>2 DEF Compose, Understood
    <3> QED  BY <2>2, <3>1 DEF Compose, Exit, StatusInv, Understood
  <2>3. CASE Dial
    BY <2>3 DEF Dial, Exit, StatusInv, Understood
  <2>4. CASE Send
    BY <2>4 DEF Send, Exit, StatusInv, Understood, TypeOK
  <2>5. CASE Receive
    BY <2>5 DEF Receive, Exit, StatusInv, Understood, TypeOK
  <2>6. CASE UNCHANGED vars
    BY <2>6 DEF vars, StatusInv, Understood
  <2>7. CASE BadUsage
    BY <2>7 DEF BadUsage, Exit, StatusInv, Understood
  <2> QED  BY <2>1, <2>2, <2>3, <2>4, <2>5, <2>6, <2>7 DEF Next
<1>3. TypeOK /\ StatusInv => StatusTells
  <2> SUFFICES ASSUME TypeOK, StatusInv
               PROVE  StatusTells
    OBVIOUS
  <2>1. words \in Seq(Word)
    BY DEF TypeOK
  <2>2. Params(words).kind = "ok" => ReadWords(words).kind = "closed"
    BY <2>1, ParamsUnderstood
  <2> QED  BY <2>2 DEF StatusInv, Understood, StatusTells
<1> QED  BY <1>1, <1>2, <1>3, CliTypeCorrect, PTL DEF Spec

=============================================================================
