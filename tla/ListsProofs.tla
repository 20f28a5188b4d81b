------------------------------ MODULE ListsProofs ------------------------------
(***************************************************************************)
(* Proofs about the two lists that the other modules of the backend keep   *)
(* things in: UidTable, for every set of characters, length of an id and   *)
(* number of keys, and Emitter, for every set of events, functions and     *)
(* entries, number of times and depth of emits inside of emits.            *)
(***************************************************************************)
EXTENDS UidTable, Emitter, SequenceTheorems, WellFoundedInduction, TLAPS

\* What holds at first and goes over to the next place holds at all of them.
LEMMA Places ==
  ASSUME NEW n \in Nat, NEW T, 0 \in T,
         \A i \in 1 .. n : i - 1 \in T => i \in T
  PROVE  \A i \in 0 .. n : i \in T
<1> DEFINE S == {i \in 0 .. n : i \notin T}
<1>1. CASE S = {}
  BY <1>1
<1>2. CASE S # {}
  <2>1. S \subseteq Nat
    OBVIOUS
  <2>2. PICK i \in S : \A j \in S : ~(<<j, i>> \in OpToRel(<, Nat))
    BY <1>2, <2>1, NatLessThanWellFounded, WFMin
  <2>3. \A j \in S : ~(j < i)
    BY <2>1, <2>2 DEF OpToRel
  <2>4. i \in 1 .. n /\ i - 1 \notin S /\ i - 1 \in 0 .. n
    BY <2>3
  <2>5. QED  BY <2>2, <2>4
<1>3. QED  BY <1>1, <1>2

-----------------------------------------------------------------------------
(* Ids and their prefixes                                                  *)

Ids == Seq(Char)

LEMMA IdIs ==
  \A x : x \in Id <=> x \in Ids /\ Len(x) \in IdLength .. MaxLength
<1>1. IdLength \in Nat /\ MaxLength \in Nat
  BY LengthAssumption
<1>2. ASSUME NEW x \in Id
      PROVE  x \in Ids /\ Len(x) \in IdLength .. MaxLength
  <2>1. PICK n \in IdLength .. MaxLength : x \in [1 .. n -> Char]
    BY DEF Id
  <2>2. n \in Nat
    BY <1>1
  <2>3. x \in Seq(Char) /\ Len(x) = n
    BY <2>1, <2>2
  <2>4. QED  BY <2>3 DEF Ids
<1>3. ASSUME NEW x \in Ids, Len(x) \in IdLength .. MaxLength
      PROVE  x \in Id
  <2>1. x \in [1 .. Len(x) -> Char]
    BY DEF Ids
  <2>2. QED  BY <1>3, <2>1 DEF Id
<1>4. QED  BY <1>2, <1>3

\* Two ids agree as far as the first one goes.
Agree(x, y) == Len(x) <= Len(y) /\ \A k \in 1 .. Len(x) : x[k] = y[k]

LEMMA PrefixIs ==
  ASSUME NEW x \in Ids, NEW y \in Ids
  PROVE  /\ IsPrefix(x, y) <=> Agree(x, y)
         /\ IsStrictPrefix(x, y) <=> Agree(x, y) /\ Len(x) < Len(y)
<1>1. Len(x) \in Nat /\ Len(y) \in Nat
  BY DEF Ids
<1>2. SubSeq(x, 1, Len(x)) = x
  BY DEF Ids
<1>3. ASSUME Len(x) <= Len(y)
      PROVE  (x = SubSeq(y, 1, Len(x))) <=> \A k \in 1 .. Len(x) : x[k] = y[k]
  <2> DEFINE z == SubSeq(y, 1, Len(x))
  <2>1. /\ z \in Seq(Char) /\ Len(z) = Len(x)
        /\ \A k \in 1 .. Len(x) : z[k] = y[k]
    BY <1>1, <1>3 DEF Ids
  <2> HIDE DEF z
  <2>2. (x = z) <=> \A k \in 1 .. Len(x) : x[k] = z[k]
    BY <1>1, <2>1, SeqEqual DEF Ids
  <2>3. QED  BY <2>1, <2>2 DEF z
<1>4. IsPrefix(x, y) <=> Agree(x, y)
  BY <1>2, <1>3 DEF IsPrefix, Agree
<1>5. Agree(x, y) /\ Len(x) = Len(y) => x = y
  BY <1>1, SeqEqual DEF Agree, Ids
<1>6. QED  BY <1>1, <1>4, <1>5 DEF IsStrictPrefix, Agree

-----------------------------------------------------------------------------
(* A pass over the keys                                                    *)

\* path is the id after each place of the pass.
IsPath(path, n, uid, drawn) ==
  path = [i \in 0 .. n |->
            IF i = 0 THEN uid ELSE Grown(path[i - 1], keys[i], drawn)]

LEMMA PathExists ==
  ASSUME NEW n \in Nat, NEW uid, NEW drawn
  PROVE  \E path : IsPath(path, n, uid, drawn)
<1> DEFINE T == {i \in 0 .. n : \E path : IsPath(path, i, uid, drawn)}
<1>1. 0 \in T
  <2> DEFINE path == [i \in 0 .. 0 |-> uid]
  <2>1. \A i \in 0 .. 0 : i = 0
    OBVIOUS
  <2>2. IsPath(path, 0, uid, drawn)
    BY <2>1 DEF IsPath
  <2> HIDE DEF path
  <2>3. QED  BY <2>2
<1>2. ASSUME NEW i \in 1 .. n, i - 1 \in T
      PROVE  i \in T
  <2>1. PICK path : IsPath(path, i - 1, uid, drawn)
    BY <1>2
  <2> DEFINE new == [j \in 0 .. i |->
                       IF j < i THEN path[j]
                       ELSE Grown(path[i - 1], keys[i], drawn)]
  <2>2. \A j \in 0 .. i : j = i \/ j \in 0 .. i - 1
    OBVIOUS
  <2>3. \A j \in 0 .. i - 1 : j - 1 < i /\ j < i /\ (j # 0 => j - 1 \in 0 .. i)
    OBVIOUS
  <2>4. \A j \in 0 .. i - 1 :
          path[j] = IF j = 0 THEN uid ELSE Grown(path[j - 1], keys[j], drawn)
    BY <2>1 DEF IsPath
  <2>5. \A j \in 0 .. i :
          new[j] = IF j = 0 THEN uid ELSE Grown(new[j - 1], keys[j], drawn)
    BY <2>2, <2>3, <2>4
  <2>6. new = [j \in 0 .. i |-> new[j]]
    OBVIOUS
  <2> HIDE DEF new
  <2>7. IsPath(new, i, uid, drawn)
    BY <2>5, <2>6 DEF IsPath
  <2>8. QED  BY <2>7
<1> HIDE DEF T
<1>3. n \in T
  BY <1>1, <1>2, Places
<1>4. QED  BY <1>3 DEF T

LEMMA ScanIsPath ==
  ASSUME keys \in Seq(Id), NEW uid, NEW drawn
  PROVE  \E path : /\ IsPath(path, Len(keys), uid, drawn)
                   /\ Scan(uid, drawn) = path[Len(keys)]
<1> DEFINE n == Len(keys)
           F == CHOOSE path : IsPath(path, n, uid, drawn)
<1>1. IsPath(F, n, uid, drawn)
  BY PathExists
<1>2. Scan(uid, drawn) = F[n]
  BY DEF Scan, IsPath
<1> HIDE DEF F
<1>3. QED  BY <1>1, <1>2

-----------------------------------------------------------------------------
(* How an id grows                                                         *)

Drawn == [1 .. MaxKeys -> Char]
Uids == [1 .. IdLength -> Char]

LEMMA GrownIs ==
  ASSUME NEW drawn \in Drawn, NEW i \in 1 .. MaxKeys, NEW id \in Ids,
         Len(id) \in IdLength .. IdLength + (i - 1), NEW key
  PROVE  LET new == Grown(id, key, drawn) IN
         /\ new \in Ids /\ Len(new) \in IdLength .. IdLength + i
         /\ Agree(id, new)
         /\ new # id => id = key /\ Len(new) = Len(id) + 1
         /\ id = key => Len(new) = Len(id) + 1
<1> DEFINE c == drawn[Len(id) - IdLength + 1]
           new == Grown(id, key, drawn)
<1>1. /\ IdLength \in Nat /\ MaxKeys \in Nat /\ i \in 1 .. MaxKeys
      /\ Len(id) \in Nat
  BY LengthAssumption DEF Ids
<1>2. Len(id) - IdLength + 1 \in 1 .. MaxKeys
  BY <1>1
<1>3. c \in Char
  BY <1>2 DEF Drawn
<1> HIDE DEF c
<1>4. CASE id = key
  <2>1. new = Append(id, c)
    BY <1>4 DEF Grown, c
  <2>2. /\ new \in Ids /\ Len(new) = Len(id) + 1
        /\ \A k \in 1 .. Len(id) : new[k] = id[k]
    BY <1>3, <2>1, AppendProperties DEF Ids
  <2> HIDE DEF new
  <2>3. Agree(id, new) /\ Len(new) \in IdLength .. IdLength + i
    BY <1>1, <2>2 DEF Agree
  <2>4. QED  BY <1>4, <2>2, <2>3 DEF new
<1>5. CASE id # key
  <2>1. new = id
    BY <1>5 DEF Grown
  <2>2. Agree(id, id) /\ Len(id) \in IdLength .. IdLength + i
    BY <1>1 DEF Agree
  <2>3. QED  BY <1>5, <2>1, <2>2
<1>6. QED  BY <1>4, <1>5

LEMMA AgreeTrans ==
  ASSUME NEW x \in Ids, NEW y \in Ids, NEW z \in Ids, Agree(x, y), Agree(y, z)
  PROVE  Agree(x, z)
BY DEF Agree, Ids

\* What the id is at the places of a pass
LEMMA PathIs ==
  ASSUME NEW n \in 0 .. MaxKeys, NEW uid \in Uids, NEW drawn \in Drawn,
         NEW path, IsPath(path, n, uid, drawn)
  PROVE  /\ \A i \in 0 .. n :
              path[i] \in Ids /\ Len(path[i]) \in IdLength .. IdLength + i
         /\ path[0] = uid
         /\ \A i \in 1 .. n : LET new == path[i] IN
              /\ Agree(path[i - 1], new)
              /\ new # path[i - 1] =>
                   path[i - 1] = keys[i] /\ Len(new) = Len(path[i - 1]) + 1
              /\ path[i - 1] = keys[i] => Len(new) = Len(path[i - 1]) + 1
<1> DEFINE OK(i) == path[i] \in Ids /\ Len(path[i]) \in IdLength .. IdLength + i
           T == {i \in 0 .. n : OK(i)}
<1>1. /\ n \in Nat /\ MaxKeys \in Nat /\ IdLength \in Nat
      /\ \A i \in 1 .. n : i - 1 \in 0 .. n /\ i \in 1 .. MaxKeys
  BY LengthAssumption
<1>2. path[0] = uid
  BY <1>1 DEF IsPath
<1>3. \A i \in 1 .. n : path[i] = Grown(path[i - 1], keys[i], drawn)
  BY <1>1 DEF IsPath
<1>4. OK(0)
  <2>1. uid \in Seq(Char) /\ Len(uid) = IdLength
    BY <1>1 DEF Uids
  <2>2. QED  BY <1>1, <1>2, <2>1 DEF Ids
<1>5. ASSUME NEW i \in 1 .. n, OK(i - 1)
      PROVE  LET new == path[i] IN
             /\ OK(i)
             /\ Agree(path[i - 1], new)
             /\ new # path[i - 1] =>
                  path[i - 1] = keys[i] /\ Len(new) = Len(path[i - 1]) + 1
             /\ path[i - 1] = keys[i] => Len(new) = Len(path[i - 1]) + 1
  <2> DEFINE id == path[i - 1]
             key == keys[i]
  <2>1. /\ i \in 1 .. MaxKeys /\ id \in Ids
        /\ Len(id) \in IdLength .. IdLength + (i - 1)
        /\ path[i] = Grown(id, key, drawn)
    BY <1>1, <1>3, <1>5
  <2> HIDE DEF id, key
  <2>2. /\ path[i] \in Ids /\ Len(path[i]) \in IdLength .. IdLength + i
        /\ Agree(id, path[i])
        /\ path[i] # id => id = key /\ Len(path[i]) = Len(id) + 1
        /\ id = key => Len(path[i]) = Len(id) + 1
    BY <2>1, GrownIs
  <2>3. QED  BY <2>2 DEF id, key
<1>6. \A i \in 0 .. n : OK(i)
  <2>1. 0 \in T /\ \A i \in 1 .. n : i - 1 \in T => i \in T
    BY <1>1, <1>4, <1>5
  <2> HIDE DEF T
  <2>2. \A i \in 0 .. n : i \in T
    BY <1>1, <2>1, Places
  <2>3. QED  BY <2>2 DEF T
<1> HIDE DEF OK
<1>7. \A i \in 1 .. n : OK(i - 1)
  BY <1>1, <1>6
<1>8. QED  BY <1>2, <1>5, <1>6, <1>7 DEF OK

\* It only grows, ...
LEMMA PathAgrees ==
  ASSUME NEW n \in 0 .. MaxKeys, NEW uid \in Uids, NEW drawn \in Drawn,
         NEW path, IsPath(path, n, uid, drawn),
         NEW j \in 0 .. n, NEW i \in 0 .. j
  PROVE  Agree(path[i], path[j])
<1> DEFINE T == {m \in 0 .. n : \A l \in 0 .. m : Agree(path[l], path[m])}
<1>1. n \in Nat /\ \A m \in 0 .. n : path[m] \in Ids
  BY PathIs, LengthAssumption
<1>2. \A m \in 0 .. n : Agree(path[m], path[m])
  BY <1>1 DEF Agree, Ids
<1>3. 0 \in T
  <2>1. \A l \in 0 .. 0 : l = 0
    OBVIOUS
  <2>2. QED  BY <1>1, <1>2, <2>1
<1>4. ASSUME NEW m \in 1 .. n, m - 1 \in T
      PROVE  m \in T
  <2>1. /\ \A l \in 0 .. m - 1 : Agree(path[l], path[m - 1])
        /\ m - 1 \in 0 .. n /\ m \in 0 .. n
    BY <1>4
  <2>2. Agree(path[m - 1], path[m])
    BY PathIs
  <2>3. ASSUME NEW l \in 0 .. m PROVE Agree(path[l], path[m])
    <3>1. CASE l = m
      BY <1>2, <2>1, <3>1
    <3>2. CASE l # m
      <4>1. l \in 0 .. m - 1 /\ l \in 0 .. n
        BY <3>2
      <4>2. QED  BY <1>1, <2>1, <2>2, <4>1, AgreeTrans
    <3>3. QED  BY <3>1, <3>2
  <2>4. QED  BY <2>1, <2>3
<1> HIDE DEF T
<1>5. j \in T
  BY <1>1, <1>3, <1>4, Places
<1>6. QED  BY <1>5 DEF T

\* ... only where it meets itself among the keys, ...
LEMMA PathGrowsAtKeys ==
  ASSUME NEW n \in 0 .. MaxKeys, NEW uid \in Uids, NEW drawn \in Drawn,
         NEW path, IsPath(path, n, uid, drawn),
         NEW i \in 0 .. n, path[i] # path[n]
  PROVE  \E q \in i + 1 .. n : keys[q] = path[i]
<1> DEFINE T == {m \in 0 .. n :
                   i <= m /\ path[i] # path[m] =>
                     \E q \in i + 1 .. m : keys[q] = path[i]}
<1>1. n \in Nat
  BY LengthAssumption
<1>2. 0 \in T
  BY <1>1
<1>3. ASSUME NEW m \in 1 .. n, m - 1 \in T
      PROVE  m \in T
  <2>1. CASE i <= m /\ path[i] # path[m]
    <3>1. i <= m - 1
      BY <2>1
    <3>2. CASE path[i] # path[m - 1]
      <4>1. PICK q \in i + 1 .. m - 1 : keys[q] = path[i]
        BY <1>3, <3>1, <3>2
      <4>2. QED  BY <4>1
    <3>3. CASE path[i] = path[m - 1]
      <4>1. path[m] # path[m - 1]
        BY <2>1, <3>3
      <4>2. path[m - 1] = keys[m]
        BY <4>1, PathIs
      <4>3. m \in i + 1 .. m
        BY <3>1
      <4>4. QED  BY <3>3, <4>2, <4>3
    <3>4. QED  BY <3>2, <3>3
  <2>2. QED  BY <2>1
<1> HIDE DEF T
<1>4. n \in T
  BY <1>1, <1>2, <1>3, Places
<1>5. QED  BY <1>1, <1>4 DEF T

\* ... and whatever id it goes through is one of them.
LEMMA PathGoesThroughKeys ==
  ASSUME NEW n \in 0 .. MaxKeys, NEW uid \in Uids, NEW drawn \in Drawn,
         NEW path, IsPath(path, n, uid, drawn),
         NEW x \in Id, Agree(x, path[n]), Len(x) < Len(path[n])
  PROVE  \E q \in 1 .. n : keys[q] = x
<1> DEFINE Under(m) == Agree(x, path[m]) /\ Len(x) < Len(path[m])
           T == {m \in 0 .. n : Under(m) => \E q \in 1 .. m : keys[q] = x}
<1>1. /\ n \in Nat /\ IdLength \in Nat
      /\ x \in Ids /\ Len(x) \in Nat /\ Len(x) >= IdLength
  BY LengthAssumption, IdIs DEF Ids
<1>2. \A m \in 0 .. n : path[m] \in Ids /\ Len(path[m]) \in Nat
  BY PathIs DEF Ids
<1>3. 0 \in T
  <2>1. Len(path[0]) = IdLength
    BY <1>1, PathIs DEF Uids
  <2>2. QED  BY <1>1, <2>1
<1>4. ASSUME NEW m \in 1 .. n, m - 1 \in T
      PROVE  m \in T
  <2>1. CASE Under(m)
    <3>1. m - 1 \in 0 .. n /\ m \in 0 .. n /\ m \in 1 .. m
      OBVIOUS
    <3>2. /\ Agree(path[m - 1], path[m])
          /\ path[m] # path[m - 1] =>
               path[m - 1] = keys[m] /\ Len(path[m]) = Len(path[m - 1]) + 1
      BY PathIs
    <3>3. CASE Len(x) < Len(path[m - 1])
      <4>1. Under(m - 1)
        BY <1>1, <1>2, <2>1, <3>1, <3>2, <3>3 DEF Agree
      <4>2. PICK q \in 1 .. m - 1 : keys[q] = x
        BY <1>4, <4>1
      <4>3. QED  BY <4>2
    <3>4. CASE ~(Len(x) < Len(path[m - 1]))
      <4>1. path[m] # path[m - 1]
        BY <2>1, <3>4
      <4>2. path[m - 1] = keys[m] /\ Len(x) = Len(path[m - 1])
        BY <1>1, <1>2, <2>1, <3>1, <3>2, <3>4, <4>1
      <4>3. \A k \in 1 .. Len(x) : x[k] = path[m - 1][k]
        BY <2>1, <3>2, <4>2 DEF Agree
      <4>4. x = path[m - 1]
        BY <1>1, <1>2, <3>1, <4>2, <4>3, SeqEqual DEF Ids
      <4>5. QED  BY <3>1, <4>2, <4>4
    <3>5. QED  BY <3>3, <3>4
  <2>2. QED  BY <2>1
<1> HIDE DEF T
<1>5. n \in T
  BY <1>1, <1>3, <1>4, Places
<1>6. QED  BY <1>5 DEF T

\* Where the elements of a list are when one has been taken out
LEMMA RemoveAtIs ==
  ASSUME NEW S, NEW seq \in Seq(S), NEW i \in 1 .. Len(seq)
  PROVE  /\ RemoveAt(seq, i) \in Seq(S)
         /\ Len(RemoveAt(seq, i)) = Len(seq) - 1
         /\ \A k \in 1 .. Len(seq) - 1 :
              RemoveAt(seq, i)[k] = seq[IF k < i THEN k ELSE k + 1]
<1> DEFINE n == Len(seq)
           front == SubSeq(seq, 1, i - 1)
           back == SubSeq(seq, i + 1, n)
           new == front \o back
           Was(k) == IF k < i THEN k ELSE k + 1
<1>1. n \in Nat /\ i \in 1 .. n
  OBVIOUS
<1>2. /\ front \in Seq(S) /\ Len(front) = i - 1
      /\ \A k \in 1 .. i - 1 : front[k] = seq[k]
  BY <1>1
<1>3. /\ back \in Seq(S) /\ Len(back) = n - i
      /\ \A k \in 1 .. n - i : back[k] = seq[i + k]
  BY <1>1
<1> HIDE DEF n, front, back
<1>4. /\ new \in Seq(S) /\ Len(new) = Len(front) + Len(back)
      /\ \A k \in 1 .. Len(front) + Len(back) :
           new[k] = IF k <= Len(front) THEN front[k] ELSE back[k - Len(front)]
  BY <1>2, <1>3, ConcatProperties
<1> HIDE DEF new
<1>5. Len(new) = n - 1 /\ \A k \in 1 .. n - 1 : new[k] = seq[Was(k)]
  <2>1. Len(new) = n - 1
    BY <1>1, <1>2, <1>3, <1>4
  <2>2. ASSUME NEW k \in 1 .. n - 1, k < i PROVE new[k] = seq[Was(k)]
    BY <1>1, <1>2, <1>3, <1>4, <2>2
  <2>3. ASSUME NEW k \in 1 .. n - 1, ~(k < i) PROVE new[k] = seq[Was(k)]
    <3> DEFINE m == k - (i - 1)
    <3>1. m \in 1 .. n - i /\ i + m = k + 1 /\ ~(k <= i - 1)
      BY <1>1, <2>3
    <3>2. k \in 1 .. Len(front) + Len(back) /\ k - Len(front) = m
      BY <1>1, <1>2, <1>3, <2>3
    <3>3. new[k] = back[m]
      BY <1>2, <1>4, <3>1, <3>2
    <3> HIDE DEF m
    <3>4. back[m] = seq[i + m]
      BY <1>3, <3>1
    <3>5. QED  BY <2>3, <3>1, <3>3, <3>4
  <2>4. QED  BY <2>1, <2>2, <2>3
<1>6. RemoveAt(seq, i) = new
  BY DEF RemoveAt, new, front, back, n
<1>7. QED  BY <1>4, <1>5, <1>6 DEF n

-----------------------------------------------------------------------------
(***************************************************************************)
(* Why one pass suffices.  While no id of a deleted key was given again,   *)
(* every id that others are extensions of is a key or was one, and as a    *)
(* key it is ahead of them: an extension is only made by meeting the       *)
(* shorter one in the table.  So an id that grows meets its next self      *)
(* further on, and when the pass is over it is behind all it could meet.   *)
(***************************************************************************)
Known(x) == Contains(keys, x) \/ x \in deleted

InOrder ==
  \A i, j \in 1 .. Len(keys) : IsStrictPrefix(keys[i], keys[j]) => i < j
PrefixesKnown ==
  \A x, y \in Id : Known(y) /\ IsStrictPrefix(x, y) => Known(x)

IdsInv ==
  /\ keys \in Seq(Id) /\ Len(keys) <= MaxKeys
  /\ \A i, j \in 1 .. Len(keys) : keys[i] = keys[j] => i = j
  /\ deleted \subseteq Id
  /\ reused \in BOOLEAN /\ overwritten \in BOOLEAN
  /\ overwritten => reused
  /\ ~reused => InOrder /\ PrefixesKnown

LEMMA KeysAre ==
  ASSUME IdsInv
  PROVE  /\ Len(keys) \in 0 .. MaxKeys /\ DOMAIN keys = 1 .. Len(keys)
         /\ \A i \in 1 .. Len(keys) : keys[i] \in Id /\ keys[i] \in Ids
BY IdIs, LengthAssumption DEF IdsInv

\* The id a pass ends with is that of no record: if the pass had gone by it,
\* the id was shorter then, and has grown at a key further on.
LEMMA NewIsFresh ==
  ASSUME IdsInv, InOrder, NEW uid \in Uids, NEW drawn \in Drawn
  PROVE  ~Contains(keys, Scan(uid, drawn))
<1> DEFINE n == Len(keys)
<1>1. /\ n \in 0 .. MaxKeys /\ n \in Nat
      /\ \A i \in 1 .. n : keys[i] \in Ids
  BY KeysAre, LengthAssumption
<1>2. PICK path : IsPath(path, n, uid, drawn) /\ Scan(uid, drawn) = path[n]
  BY ScanIsPath DEF IdsInv
<1> SUFFICES ASSUME NEW m \in 1 .. n, keys[m] = path[n]
             PROVE  FALSE
  BY <1>2 DEF Contains
<1>3. \A i \in 0 .. n : path[i] \in Ids /\ Len(path[i]) \in Nat
  BY <1>1, <1>2, PathIs DEF Ids
<1>4. m - 1 \in 0 .. n /\ m \in 0 .. n /\ n \in 0 .. n
      /\ m - 1 \in 0 .. n /\ m \in 0 .. n
  BY <1>1
<1>5. Agree(path[m - 1], path[n]) /\ Agree(path[m], path[n])
  BY <1>1, <1>2, <1>4, PathAgrees
<1>6. path[m - 1] # keys[m]
  <2> SUFFICES ASSUME path[m - 1] = keys[m] PROVE FALSE
    OBVIOUS
  <2>1. Len(path[m]) = Len(path[m - 1]) + 1
    BY <1>1, <1>2, PathIs
  <2>2. Len(path[m]) <= Len(path[n]) /\ Len(path[m - 1]) = Len(path[n])
    BY <1>5 DEF Agree
  <2>3. QED  BY <1>3, <1>4, <2>1, <2>2
<1>7. PICK q \in (m - 1) + 1 .. n : keys[q] = path[m - 1]
  BY <1>1, <1>2, <1>4, <1>6, PathGrowsAtKeys
<1>8. q \in 1 .. n /\ m < q
  BY <1>1, <1>6, <1>7
<1>9. Len(path[m - 1]) < Len(path[n])
  <2> SUFFICES ASSUME ~(Len(path[m - 1]) < Len(path[n])) PROVE FALSE
    OBVIOUS
  <2>1. Len(path[m - 1]) = Len(path[n])
    BY <1>3, <1>4, <1>5 DEF Agree
  <2>2. path[m - 1] = path[n]
    BY <1>3, <1>4, <1>5, <2>1, SeqEqual DEF Agree, Ids
  <2>3. QED  BY <1>6, <2>2
<1>10. IsStrictPrefix(keys[q], keys[m])
  BY <1>3, <1>4, <1>5, <1>7, <1>9, PrefixIs
<1>11. q < m
  BY <1>8, <1>10 DEF InOrder
<1>12. QED  BY <1>1, <1>8, <1>11

\* What it is an extension of are keys.
LEMMA NewExtendsKeys ==
  ASSUME IdsInv, NEW uid \in Uids, NEW drawn \in Drawn,
         Scan(uid, drawn) \in Ids, NEW x \in Id,
         IsStrictPrefix(x, Scan(uid, drawn))
  PROVE  Contains(keys, x)
<1>1. Len(keys) \in 0 .. MaxKeys
  BY KeysAre
<1>2. PICK path : /\ IsPath(path, Len(keys), uid, drawn)
                  /\ Scan(uid, drawn) = path[Len(keys)]
  BY ScanIsPath DEF IdsInv
<1>3. Agree(x, path[Len(keys)]) /\ Len(x) < Len(path[Len(keys)])
  BY <1>2, IdIs, PrefixIs
<1>4. QED  BY <1>1, <1>2, <1>3, PathGoesThroughKeys DEF Contains

LEMMA ScanType ==
  ASSUME IdsInv, NEW uid \in Uids, NEW drawn \in Drawn
  PROVE  /\ Scan(uid, drawn) \in Ids /\ Len(Scan(uid, drawn)) \in Nat
         /\ Len(Scan(uid, drawn)) >= IdLength
<1>1. Len(keys) \in 0 .. MaxKeys /\ Len(keys) \in 0 .. Len(keys)
  BY KeysAre, LengthAssumption
<1>2. PICK path : /\ IsPath(path, Len(keys), uid, drawn)
                  /\ Scan(uid, drawn) = path[Len(keys)]
  BY ScanIsPath DEF IdsInv
<1>3. /\ path[Len(keys)] \in Ids
      /\ Len(path[Len(keys)]) \in IdLength .. IdLength + Len(keys)
  BY <1>1, <1>2, PathIs
<1>4. QED  BY <1>1, <1>2, <1>3, LengthAssumption

-----------------------------------------------------------------------------
(* The steps                                                               *)

LEMMA GenerateOK ==
  ASSUME IdsInv, NEW uid \in Uids, NEW drawn \in Drawn, GenerateUid(uid, drawn)
  PROVE  IdsInv'
<1> DEFINE id == Scan(uid, drawn)
           n == Len(keys)
<1>1. /\ id \in Id /\ id \in Ids
  BY ScanType, IdIs, LengthAssumption DEF GenerateUid
<1>2. /\ n < MaxKeys /\ n \in Nat /\ MaxKeys \in Nat
      /\ keys' = Set(id) /\ deleted' = deleted
      /\ reused' = (reused \/ id \in deleted)
      /\ overwritten' = (overwritten \/ Contains(keys, id))
      /\ keys \in Seq(Id)
  BY LengthAssumption DEF GenerateUid, IdsInv
<1>3. InOrder => ~Contains(keys, id)
  BY NewIsFresh
<1>4. \A x \in Id : IsStrictPrefix(x, id) => Contains(keys, x)
  BY <1>1, NewExtendsKeys
<1> HIDE DEF id
<1>5. overwritten' => reused'
  BY <1>2, <1>3 DEF IdsInv
<1>6. CASE Contains(keys, id)
  <2>1. keys' = keys
    BY <1>2, <1>6 DEF Set
  <2>2. reused'
    BY <1>2, <1>5, <1>6
  <2>3. QED  BY <1>2, <1>5, <2>1, <2>2 DEF IdsInv
<1>7. CASE ~Contains(keys, id)
  <2>1. keys' = Append(keys, id)
    BY <1>2, <1>7 DEF Set
  <2>2. /\ keys' \in Seq(Id) /\ Len(keys') = n + 1 /\ keys'[n + 1] = id
        /\ \A i \in 1 .. n : keys'[i] = keys[i]
    BY <1>1, <1>2, <2>1, AppendProperties
  <2>3. \A i : i \in 1 .. Len(keys') <=> i \in 1 .. n \/ i = n + 1
    BY <1>2, <2>2
  <2>4. \A i \in 1 .. n : keys[i] # id
    BY <1>7 DEF Contains
  <2>5. Len(keys') <= MaxKeys
    BY <1>2, <2>2
  <2>6. \A i, j \in 1 .. Len(keys') : keys'[i] = keys'[j] => i = j
    BY <2>2, <2>3, <2>4 DEF IdsInv
  <2>7. \A x : Known(x)' <=> Known(x) \/ x = id
    BY <1>2, <2>2, <2>3 DEF Known, Contains
  <2>8. ASSUME ~reused' PROVE InOrder' /\ PrefixesKnown'
    <3>1. InOrder /\ PrefixesKnown /\ id \notin deleted
      BY <1>2, <2>8 DEF IdsInv
    <3>2. \A y \in Id : Known(y) => ~IsStrictPrefix(id, y)
      BY <1>1, <1>7, <3>1 DEF PrefixesKnown, Known
    <3>3. \A i \in 1 .. n : keys[i] \in Id /\ Known(keys[i])
      BY KeysAre DEF Known, Contains
    <3>4. ~IsStrictPrefix(id, id)
      BY DEF IsStrictPrefix
    <3>5. ASSUME NEW i \in 1 .. Len(keys'), NEW j \in 1 .. Len(keys'),
                 IsStrictPrefix(keys'[i], keys'[j])
          PROVE  i < j
      <4>1. CASE j = n + 1
        <5>1. i # n + 1
          BY <2>2, <3>4, <3>5, <4>1
        <5>2. QED  BY <1>2, <2>3, <4>1, <5>1
      <4>2. CASE j \in 1 .. n
        <5>1. i # n + 1
          BY <2>2, <3>2, <3>3, <3>5, <4>2
        <5>2. i \in 1 .. n
          BY <2>3, <5>1
        <5>3. QED  BY <2>2, <3>1, <3>5, <4>2, <5>2 DEF InOrder
      <4>3. QED  BY <2>3, <4>1, <4>2
    <3>6. InOrder'
      BY <3>5 DEF InOrder
    <3>7. PrefixesKnown'
      BY <1>4, <2>7, <3>1 DEF PrefixesKnown, Known
    <3>8. QED  BY <3>6, <3>7
  <2>9. QED  BY <1>2, <1>5, <2>2, <2>5, <2>6, <2>8 DEF IdsInv
<1>8. QED  BY <1>6, <1>7

\* delete takes a key out of its place; the others stay in their order.
LEMMA DeleteOK ==
  ASSUME IdsInv, NEW uid \in Id, Delete(uid)
  PROVE  IdsInv'
<1> DEFINE n == Len(keys)
<1>1. /\ n \in Nat /\ MaxKeys \in Nat /\ n <= MaxKeys /\ keys \in Seq(Id)
      /\ deleted' = deleted \cup {uid}
      /\ UNCHANGED <<reused, overwritten>>
  BY LengthAssumption DEF Delete, IdsInv
<1>2. PICK i \in 1 .. n : keys[i] = uid /\ keys' = RemoveAt(keys, i)
  BY KeysAre DEF Delete
<1> DEFINE Was(k) == IF k < i THEN k ELSE k + 1
<1>3. /\ keys' \in Seq(Id) /\ Len(keys') = n - 1
      /\ \A k \in 1 .. n - 1 : keys'[k] = keys[Was(k)]
  BY <1>1, <1>2, RemoveAtIs
<1>4. /\ \A k \in 1 .. n - 1 : Was(k) \in 1 .. n
      /\ \A k, l \in 1 .. n - 1 : Was(k) = Was(l) => k = l
      /\ \A k, l \in 1 .. n - 1 : Was(k) < Was(l) => k < l
      /\ \A k \in 1 .. n : k # i => \E l \in 1 .. n - 1 : Was(l) = k
  <2>1. ASSUME NEW k \in 1 .. n, k # i
        PROVE  \E l \in 1 .. n - 1 : Was(l) = k
    <3> DEFINE l == IF k < i THEN k ELSE k - 1
    <3>1. l \in 1 .. n - 1 /\ Was(l) = k
      BY <1>1, <2>1
    <3> HIDE DEF l, Was
    <3>2. QED  BY <3>1
  <2>2. /\ \A k \in 1 .. n - 1 : Was(k) \in 1 .. n
        /\ \A k, l \in 1 .. n - 1 : Was(k) = Was(l) => k = l
        /\ \A k, l \in 1 .. n - 1 : Was(k) < Was(l) => k < l
    BY <1>1
  <2> HIDE DEF Was
  <2>3. QED  BY <2>1, <2>2
<1> HIDE DEF Was, n
<1>5. \A x : Known(x)' <=> Known(x)
  <2>1. ASSUME NEW x, Contains(keys, x) PROVE Known(x)'
    <3>1. PICK k \in 1 .. n : keys[k] = x
      BY <2>1 DEF Contains, n
    <3>2. CASE k = i
      BY <1>1, <1>2, <3>1, <3>2 DEF Known
    <3>3. CASE k # i
      <4>1. PICK l \in 1 .. n - 1 : Was(l) = k
        BY <1>4, <3>3
      <4>2. keys'[l] = x /\ l \in 1 .. Len(keys')
        BY <1>3, <3>1, <4>1
      <4>3. QED  BY <4>2 DEF Known, Contains
    <3>4. QED  BY <3>2, <3>3
  <2>2. ASSUME NEW x, Contains(keys', x) PROVE Contains(keys, x)
    <3>1. PICK k \in 1 .. n - 1 : keys'[k] = x
      BY <1>3, <2>2 DEF Contains
    <3>2. keys[Was(k)] = x /\ Was(k) \in 1 .. n
      BY <1>3, <1>4, <3>1
    <3>3. QED  BY <3>2 DEF Contains, n
  <2>3. Contains(keys, uid)
    BY <1>2 DEF Contains, n
  <2>4. QED  BY <1>1, <2>1, <2>2, <2>3 DEF Known
<1>6. \A k, l \in 1 .. Len(keys') : keys'[k] = keys'[l] => k = l
  BY <1>3, <1>4 DEF IdsInv, n
<1>7. ~reused => InOrder' /\ PrefixesKnown'
  <2>1. InOrder => InOrder'
    BY <1>3, <1>4 DEF InOrder, n
  <2>2. PrefixesKnown => PrefixesKnown'
    BY <1>5 DEF PrefixesKnown
  <2>3. QED  BY <2>1, <2>2 DEF IdsInv
<1>8. Len(keys') <= MaxKeys
  BY <1>1, <1>3
<1>9. QED  BY <1>1, <1>3, <1>6, <1>7, <1>8 DEF IdsInv

-----------------------------------------------------------------------------
(* The theorems                                                            *)

THEOREM IdsInvariant == Spec => []IdsInv
<1>1. Init => IdsInv
  <2> SUFFICES ASSUME Init PROVE IdsInv
    OBVIOUS
  <2>1. keys \in Seq(Id) /\ Len(keys) = 0 /\ 1 .. 0 = {}
    BY DEF Init
  <2>2. \A x : ~Known(x)
    BY <2>1 DEF Init, Known, Contains
  <2>3. InOrder /\ PrefixesKnown
    BY <2>1, <2>2 DEF InOrder, PrefixesKnown
  <2>4. Len(keys) <= MaxKeys /\ 1 .. Len(keys) = {}
    BY <2>1, LengthAssumption
  <2>5. deleted = {} /\ reused = FALSE /\ overwritten = FALSE
    BY DEF Init
  <2> HIDE DEF Init
  <2>6. QED  BY <2>1, <2>3, <2>4, <2>5 DEF IdsInv
<1>2. IdsInv /\ [Next]_vars => IdsInv'
  <2> SUFFICES ASSUME IdsInv, [Next]_vars PROVE IdsInv'
    OBVIOUS
  <2>1. CASE \E uid \in Uids, drawn \in Drawn : GenerateUid(uid, drawn)
    BY <2>1, GenerateOK
  <2>2. CASE \E uid \in Id : Delete(uid)
    BY <2>2, DeleteOK
  <2>3. CASE UNCHANGED vars
    BY <2>3 DEF vars, IdsInv, InOrder, PrefixesKnown, Known
  <2>4. QED  BY <2>1, <2>2, <2>3 DEF Next, Uids, Drawn
<1>3. QED  BY <1>1, <1>2, PTL DEF Spec

\* generateUid (UidTable.ts:38-64) replaces no record of another room, however
\* ids are drawn, grow and are deleted, unless it has given out the id of a
\* deleted one again: the single pass its loop makes in effect is enough.
THEOREM IdsAreFresh == Spec => []FreshUntilReused
<1>1. IdsInv => FreshUntilReused
  BY DEF IdsInv, FreshUntilReused
<1>2. QED  BY <1>1, IdsInvariant, PTL

\* Until then the table has every id ahead of its extensions.
THEOREM ExtensionsAreBehind == Spec => []ExtensionsComeAfter
<1>1. IdsInv => ExtensionsComeAfter
  BY DEF IdsInv, InOrder, ExtensionsComeAfter
<1>2. QED  BY <1>1, IdsInvariant, PTL

\* The keys are ids, each of them in one place, as a Map has them.
THEOREM IdsTypeOK == Spec => []TypeOK
<1>1. IdsInv => TypeOK
  BY KeysAre DEF IdsInv, TypeOK, IsInjective
<1>2. QED  BY <1>1, IdsInvariant, PTL

-----------------------------------------------------------------------------
(***************************************************************************)
(* The invariant.  EmitsOK holds of every emit, whatever listeners do: a   *)
(* visited listener has been kept or is used up.  The rest is about events *)
(* that no listener has used while their list was to be replaced.  Their   *)
(* lists have nothing in common: an emit that is not current has a list of *)
(* listeners that removeAllListeners has removed.  And what the emit has   *)
(* kept and has not visited yet is the list that is expected.              *)
(***************************************************************************)
Made(e) == {x \in Entry : entries[x] # Null /\ entries[x].event = e}

\* What is kept was visited, and what was visited and not kept is used up.
FrameOK(f) ==
  /\ f.next <= Len(f.list) + 1
  /\ f.calling => f.next <= Len(f.list)
  /\ ToSet(f.list) \subseteq Made(f.event)
  /\ \A x \in ToSet(f.kept) : \E k \in 1 .. f.next - 1 : f.list[k] = x
  /\ \A k \in 1 .. f.next - 1 :
       f.list[k] \in ToSet(f.kept) \/ entries[f.list[k]].times < 1

\* Only the innermost emit is between two calls.
EmitsOK ==
  /\ \A i \in 1 .. Len(stack) : FrameOK(stack[i])
  /\ \A i \in 1 .. Len(stack) : i < Len(stack) => stack[i].calling
  /\ \A e \in Event : /\ ToSet(ListOf(e)) \subseteq Made(e)
                      /\ ToSet(expected[e]) \subseteq Made(e)
                      /\ IsInjective(expected[e])

\* A listener for all emits stays one.
EntriesOK ==
  \A x \in Entry :
    /\ entries[x] = Null => calls[x] = 0
    /\ entries[x] # Null =>
         (entries[x].times = Infinity <=> entries[x].given = Infinity)

Emits(e) == {i \in 1 .. Len(stack) : stack[i].event = e}

\* One emit of e at most is to replace its list.
ListsApart(e) ==
  /\ IsInjective(ListOf(e))
  /\ \A i \in Emits(e) : IsInjective(stack[i].list) /\ IsInjective(stack[i].kept)
  /\ \A i, j \in Emits(e) : i # j =>
       /\ ~(stack[i].current /\ stack[j].current)
       /\ \A x \in ToSet(stack[i].list) : x \notin ToSet(stack[j].list)
  /\ \A i \in Emits(e) : ~stack[i].current =>
       \A x \in ToSet(stack[i].list) : x \notin ToSet(ListOf(e))

\* list is what f has kept and has not visited yet.
Remains(list, f) ==
  LET n == Len(f.kept) IN
  /\ Len(list) = n + Len(f.list) - f.next + 1
  /\ \A k \in 1 .. n : list[k] = f.kept[k]
  /\ \A k \in n + 1 .. Len(list) : list[k] = f.list[k - n + f.next - 1]

\* What the emits make of the lists is what is expected.
ListsAgree(e) ==
  /\ \A i \in Emits(e) : stack[i].current =>
       ListOf(e) = stack[i].list /\ Remains(expected[e], stack[i])
  /\ ~IsEmitted(e) => ListOf(e) = expected[e]
  /\ \A x \in ToSet(expected[e]) : entries[x].times >= 1

\* x is called by an emit; x may still be called.
Called(x) ==
  \E i \in 1 .. Len(stack) :
    stack[i].calling /\ stack[i].list[stack[i].next] = x
Live(x, e) ==
  \/ x \in ToSet(ListOf(e))
  \/ \E i \in Emits(e) : x \in ToSet(stack[i].list)
\* The calls so far and the times left are the times given at most; while the
\* function runs, its call is counted and its time is still to go.
Counted(x, e) ==
  entries[x].given # Infinity =>
    /\ calls[x] <= entries[x].given
    /\ Live(x, e) /\ Called(x) =>
         /\ entries[x].times >= 1
         /\ calls[x] + entries[x].times - 1 <= entries[x].given
    /\ Live(x, e) /\ ~Called(x) =>
         /\ entries[x].times >= 0
         /\ calls[x] + entries[x].times <= entries[x].given

EventOK(e) ==
  /\ ListsApart(e)
  /\ ListsAgree(e)
  /\ \A x \in Made(e) : Counted(x, e)

EmitterInv ==
  /\ EmitterTypeOK /\ EmitsOK /\ EntriesOK
  /\ \A e \in Event \ disturbed : EventOK(e)

-----------------------------------------------------------------------------
(* Lists                                                                   *)

\* A list and its elements by their places
LEMMA ListIs ==
  ASSUME NEW S, NEW s \in Seq(S)
  PROVE  /\ Len(s) \in Nat
         /\ \A x : x \in ToSet(s) <=> \E k \in 1 .. Len(s) : s[k] = x
         /\ \A k \in 1 .. Len(s) : s[k] \in ToSet(s) /\ s[k] \in S
         /\ IsInjective(s) <=> \A k, l \in 1 .. Len(s) : s[k] = s[l] => k = l
<1>1. DOMAIN s = 1 .. Len(s) /\ Len(s) \in Nat /\ \A k \in 1 .. Len(s) : s[k] \in S
  OBVIOUS
<1>2. \A x : x \in ToSet(s) <=> \E k \in 1 .. Len(s) : s[k] = x
  BY <1>1 DEF ToSet
<1>3. IsInjective(s) <=> \A k, l \in 1 .. Len(s) : s[k] = s[l] => k = l
  BY <1>1 DEF IsInjective
<1>4. QED  BY <1>1, <1>2, <1>3

LEMMA EmptyIs ==
  /\ Len(<<>>) = 0 /\ ToSet(<<>>) = {} /\ IsInjective(<<>>)
  /\ \A S : <<>> \in Seq(S)
<1>1. Len(<<>>) = 0 /\ DOMAIN <<>> = 1 .. 0 /\ 1 .. 0 = {} /\ \A S : <<>> \in Seq(S)
  OBVIOUS
<1>2. QED  BY <1>1 DEF ToSet, IsInjective

LEMMA AppendIs ==
  ASSUME NEW S, NEW s \in Seq(S), NEW x \in S
  PROVE  /\ Append(s, x) \in Seq(S) /\ Len(Append(s, x)) = Len(s) + 1
         /\ \A k \in 1 .. Len(s) : Append(s, x)[k] = s[k]
         /\ Append(s, x)[Len(s) + 1] = x
         /\ ToSet(Append(s, x)) = ToSet(s) \cup {x}
         /\ IsInjective(s) /\ x \notin ToSet(s) => IsInjective(Append(s, x))
<1> DEFINE t == Append(s, x)
<1>1. /\ t \in Seq(S) /\ Len(t) = Len(s) + 1 /\ Len(s) \in Nat
      /\ \A k \in 1 .. Len(s) : t[k] = s[k]
      /\ t[Len(s) + 1] = x
  BY AppendProperties
<1> HIDE DEF t
<1>2. \A k : k \in 1 .. Len(t) <=> k \in 1 .. Len(s) \/ k = Len(s) + 1
  BY <1>1
<1>3. \A y : y \in ToSet(t) <=> y \in ToSet(s) \/ y = x
  <2>1. \A y : y \in ToSet(s) <=> \E k \in 1 .. Len(s) : s[k] = y
    BY ListIs
  <2>2. \A y : y \in ToSet(t) <=> \E k \in 1 .. Len(t) : t[k] = y
    BY <1>1, ListIs
  <2>3. QED  BY <1>1, <1>2, <2>1, <2>2
<1>4. ASSUME IsInjective(s), x \notin ToSet(s)
      PROVE  IsInjective(t)
  <2>1. \A k, l \in 1 .. Len(s) : s[k] = s[l] => k = l
    BY <1>4, ListIs
  <2>2. \A k \in 1 .. Len(s) : s[k] # x
    BY <1>4, ListIs
  <2>3. \A k, l \in 1 .. Len(t) : t[k] = t[l] => k = l
    BY <1>1, <1>2, <2>1, <2>2
  <2>4. QED  BY <1>1, <2>3, ListIs
<1>5. QED  BY <1>1, <1>3, <1>4 DEF t

-----------------------------------------------------------------------------
(* Without                                                                 *)

\* path is what is left of the list after each place.
IsFiltered(path, n, list, gone) ==
  path = [i \in 0 .. n |->
            IF i = 0 THEN <<>>
            ELSE IF list[i] \in gone THEN path[i - 1]
            ELSE Append(path[i - 1], list[i])]

\* The recursive definition of Without defines something.
LEMMA FilteredExists ==
  ASSUME NEW n \in Nat, NEW list, NEW gone
  PROVE  \E path : IsFiltered(path, n, list, gone)
<1> DEFINE T == {i \in 0 .. n : \E path : IsFiltered(path, i, list, gone)}
           From(before, i) == IF list[i] \in gone THEN before
                              ELSE Append(before, list[i])
<1>1. 0 \in T
  <2> DEFINE path == [i \in 0 .. 0 |-> <<>>]
  <2>1. \A i \in 0 .. 0 : i = 0
    OBVIOUS
  <2>2. IsFiltered(path, 0, list, gone)
    BY <2>1 DEF IsFiltered
  <2> HIDE DEF path
  <2>3. QED  BY <2>2
<1>2. ASSUME NEW i \in 1 .. n, i - 1 \in T
      PROVE  i \in T
  <2>1. PICK path : IsFiltered(path, i - 1, list, gone)
    BY <1>2
  <2> DEFINE new == [j \in 0 .. i |->
                       IF j < i THEN path[j] ELSE From(path[i - 1], i)]
  <2>2. \A j \in 0 .. i : j = i \/ j \in 0 .. i - 1
    OBVIOUS
  <2>3. \A j \in 0 .. i - 1 : j - 1 < i /\ j < i /\ (j # 0 => j - 1 \in 0 .. i)
    OBVIOUS
  <2>4. \A j \in 0 .. i - 1 :
          path[j] = IF j = 0 THEN <<>> ELSE From(path[j - 1], j)
    BY <2>1 DEF IsFiltered
  <2> HIDE DEF From
  <2>5. \A j \in 0 .. i :
          new[j] = IF j = 0 THEN <<>> ELSE From(new[j - 1], j)
    BY <2>2, <2>3, <2>4
  <2>6. new = [j \in 0 .. i |-> new[j]]
    OBVIOUS
  <2> HIDE DEF new
  <2>7. new = [j \in 0 .. i |-> IF j = 0 THEN <<>> ELSE From(new[j - 1], j)]
    BY <2>5, <2>6
  <2>8. IsFiltered(new, i, list, gone)
    BY <2>7 DEF IsFiltered, From
  <2>9. QED  BY <2>8
<1> HIDE DEF T
<1>3. n \in T
  BY <1>1, <1>2, Places
<1>4. QED  BY <1>3 DEF T

LEMMA WithoutIsFiltered ==
  ASSUME NEW S, NEW list \in Seq(S), NEW gone
  PROVE  \E path : /\ Without(list, gone) = path[Len(list)]
                   /\ path[0] = <<>>
                   /\ \A i \in 1 .. Len(list) :
                        path[i] = IF list[i] \in gone THEN path[i - 1]
                                  ELSE Append(path[i - 1], list[i])
<1> DEFINE n == Len(list)
           F == CHOOSE path : IsFiltered(path, n, list, gone)
<1>1. IsFiltered(F, n, list, gone)
  BY FilteredExists
<1>2. Without(list, gone) = F[n]
  BY DEF Without, IsFiltered
<1> HIDE DEF F
<1>3. n \in Nat /\ 0 \in 0 .. n /\ \A i \in 1 .. n : i \in 0 .. n /\ i # 0
  OBVIOUS
<1> HIDE DEF n
<1>4. /\ F[0] = <<>>
      /\ \A i \in 1 .. n : F[i] = IF list[i] \in gone THEN F[i - 1]
                                  ELSE Append(F[i - 1], list[i])
  BY <1>1, <1>3 DEF IsFiltered
<1>5. QED  BY <1>2, <1>4 DEF n

\* Without takes out the entries it shall, and no others.
LEMMA WithoutIs ==
  ASSUME NEW S, NEW list \in Seq(S), NEW gone
  PROVE  LET left == Without(list, gone) IN
         /\ left \in Seq(S)
         /\ \A x : x \in ToSet(left) <=> x \in ToSet(list) /\ x \notin gone
         /\ IsInjective(list) => IsInjective(left)
<1> DEFINE n == Len(list)
<1>1. PICK path : /\ Without(list, gone) = path[n]
                  /\ path[0] = <<>>
                  /\ \A i \in 1 .. n :
                       path[i] = IF list[i] \in gone THEN path[i - 1]
                                 ELSE Append(path[i - 1], list[i])
  BY WithoutIsFiltered
<1>2. n \in Nat /\ \A i \in 1 .. n : list[i] \in S
  OBVIOUS
<1> DEFINE Has(i, x) == \E k \in 1 .. i : list[k] = x /\ x \notin gone
           OK(i) == /\ path[i] \in Seq(S)
                    /\ \A x : x \in ToSet(path[i]) <=> Has(i, x)
                    /\ IsInjective(list) => IsInjective(path[i])
           T == {i \in 0 .. n : OK(i)}
<1>3. 0 \in T
  <2>1. \A x : ~Has(0, x)
    OBVIOUS
  <2> HIDE DEF Has, n
  <2>2. OK(0)
    BY <1>1, <2>1, EmptyIs
  <2>3. 0 \in 0 .. n
    BY <1>2
  <2> HIDE DEF OK
  <2>4. QED  BY <2>2, <2>3
<1>4. ASSUME NEW i \in 1 .. n, i - 1 \in T
      PROVE  i \in T
  <2>1. OK(i - 1) /\ i \in 0 .. n /\ i - 1 \in 0 .. n
    BY <1>4
  <2>2. \A k : k \in 1 .. i <=> k \in 1 .. i - 1 \/ k = i
    BY <1>2
  <2>3. \A x : Has(i, x) <=> Has(i - 1, x) \/ (list[i] = x /\ x \notin gone)
    BY <2>2
  <2>4. CASE list[i] \in gone
    <3>1. path[i] = path[i - 1]
      BY <1>1, <2>4
    <3>2. \A x : Has(i, x) <=> Has(i - 1, x)
      BY <2>3, <2>4
    <3> HIDE DEF Has
    <3>3. QED  BY <2>1, <3>1, <3>2
  <2>5. CASE list[i] \notin gone
    <3>1. path[i] = Append(path[i - 1], list[i])
      BY <1>1, <2>5
    <3>2. \A x : Has(i, x) <=> Has(i - 1, x) \/ x = list[i]
      BY <2>3, <2>5
    <3>3. IsInjective(list) => ~Has(i - 1, list[i])
      <4>1. IsInjective(list) => \A k, l \in 1 .. n : list[k] = list[l] => k = l
        BY ListIs
      <4>2. \A k \in 1 .. i - 1 : k \in 1 .. n /\ k # i
        BY <1>2
      <4>3. QED  BY <4>1, <4>2
    <3> HIDE DEF Has
    <3>4. /\ path[i] \in Seq(S)
          /\ ToSet(path[i]) = ToSet(path[i - 1]) \cup {list[i]}
          /\ IsInjective(path[i - 1]) /\ list[i] \notin ToSet(path[i - 1])
               => IsInjective(path[i])
      BY <1>2, <2>1, <3>1, AppendIs
    <3>5. QED  BY <2>1, <3>2, <3>3, <3>4
  <2>6. QED  BY <2>4, <2>5
<1> HIDE DEF T
<1>5. n \in T
  <2>1. n \in Nat /\ n \in 0 .. n
    BY <1>2
  <2> HIDE DEF n
  <2>2. \A i \in 0 .. n : i \in T
    BY <1>3, <1>4, <2>1, Places
  <2>3. QED  BY <2>1, <2>2
<1>6. \A x : x \in ToSet(list) <=> \E k \in 1 .. n : list[k] = x
  BY ListIs
<1>7. OK(n)
  BY <1>5 DEF T
<1>8. \A x : Has(n, x) <=> x \in ToSet(list) /\ x \notin gone
  BY <1>6
<1> HIDE DEF Has
<1>9. QED  BY <1>1, <1>7, <1>8

\* What is not in the list changes nothing.
LEMMA WithoutNone ==
  ASSUME NEW S, NEW list \in Seq(S), NEW gone,
         \A x \in ToSet(list) : x \notin gone
  PROVE  Without(list, gone) = list
<1> DEFINE n == Len(list)
<1>1. PICK path : /\ Without(list, gone) = path[n]
                  /\ path[0] = <<>>
                  /\ \A i \in 1 .. n :
                       path[i] = IF list[i] \in gone THEN path[i - 1]
                                 ELSE Append(path[i - 1], list[i])
  BY WithoutIsFiltered
<1>2. /\ n \in Nat
      /\ \A i \in 1 .. n : list[i] \in S /\ list[i] \notin gone
  BY ListIs
<1> DEFINE OK(i) == /\ path[i] \in Seq(S) /\ Len(path[i]) = i
                    /\ \A k \in 1 .. i : path[i][k] = list[k]
           T == {i \in 0 .. n : OK(i)}
<1>3. 0 \in T
  <2>1. path[0] \in Seq(S) /\ Len(path[0]) = 0 /\ 1 .. 0 = {}
    BY <1>1, EmptyIs
  <2>2. OK(0) /\ 0 \in 0 .. n
    BY <1>2, <2>1
  <2>3. QED  BY <2>2
<1>4. ASSUME NEW i \in 1 .. n, i - 1 \in T
      PROVE  i \in T
  <2>1. OK(i - 1) /\ i \in 0 .. n
    BY <1>4
  <2>2. path[i] = Append(path[i - 1], list[i])
    BY <1>1, <1>2
  <2>3. /\ path[i] \in Seq(S) /\ Len(path[i]) = (i - 1) + 1
        /\ \A k \in 1 .. i - 1 : path[i][k] = path[i - 1][k]
        /\ path[i][(i - 1) + 1] = list[i]
    BY <1>2, <2>1, <2>2, AppendProperties
  <2>4. \A k : k \in 1 .. i <=> k \in 1 .. i - 1 \/ k = i
    BY <1>2
  <2>5. (i - 1) + 1 = i
    OBVIOUS
  <2>6. QED  BY <2>1, <2>3, <2>4, <2>5
<1> HIDE DEF T
<1>5. n \in T
  <2>1. n \in Nat /\ n \in 0 .. n
    BY <1>2
  <2> HIDE DEF n
  <2>2. \A i \in 0 .. n : i \in T
    BY <1>3, <1>4, <2>1, Places
  <2>3. QED  BY <2>1, <2>2
<1>6. OK(n)
  BY <1>5 DEF T
<1>7. path[n] = list
  BY <1>6, SeqEqual
<1>8. QED  BY <1>1, <1>7

\* One entry less
LEMMA WithoutOne ==
  ASSUME NEW S, NEW list \in Seq(S), NEW p \in 1 .. Len(list),
         IsInjective(list)
  PROVE  LET left == Without(list, {list[p]}) IN
         /\ Len(left) = Len(list) - 1
         /\ \A k \in 1 .. Len(list) - 1 :
              left[k] = list[IF k < p THEN k ELSE k + 1]
<1> DEFINE n == Len(list)
           gone == {list[p]}
<1>1. PICK path : /\ Without(list, gone) = path[n]
                  /\ path[0] = <<>>
                  /\ \A i \in 1 .. n :
                       path[i] = IF list[i] \in gone THEN path[i - 1]
                                 ELSE Append(path[i - 1], list[i])
  BY WithoutIsFiltered
<1>2. /\ n \in Nat /\ p \in 1 .. n
      /\ \A i \in 1 .. n : list[i] \in S /\ (list[i] \in gone <=> i = p)
  BY ListIs
<1> HIDE DEF gone
<1> DEFINE Size(i) == IF i < p THEN i ELSE i - 1
           Was(k) == IF k < p THEN k ELSE k + 1
           OK(i) == /\ path[i] \in Seq(S) /\ Len(path[i]) = Size(i)
                    /\ \A k \in 1 .. Size(i) : path[i][k] = list[Was(k)]
           T == {i \in 0 .. n : OK(i)}
<1>3. 0 \in T
  <2>1. Size(0) = 0 /\ 1 .. 0 = {}
    BY <1>2
  <2> HIDE DEF Size, n, Was
  <2>2. path[0] \in Seq(S) /\ Len(path[0]) = 0
    BY <1>1, EmptyIs
  <2>3. OK(0)
    BY <2>1, <2>2
  <2>4. 0 \in 0 .. n
    BY <1>2
  <2> HIDE DEF OK
  <2>5. QED  BY <2>3, <2>4
<1>4. ASSUME NEW i \in 1 .. n, i - 1 \in T
      PROVE  i \in T
  <2>1. OK(i - 1) /\ i \in 0 .. n
    BY <1>4
  <2>2. CASE i = p
    <3>1. path[i] = path[i - 1] /\ Size(i) = Size(i - 1)
      BY <1>1, <1>2, <2>2
    <3> HIDE DEF Size, Was
    <3>2. QED  BY <2>1, <3>1
  <2>3. CASE i # p
    <3>1. path[i] = Append(path[i - 1], list[i])
      BY <1>1, <1>2, <2>3
    <3>2. /\ Size(i) = Size(i - 1) + 1 /\ Was(Size(i)) = i
          /\ \A k : k \in 1 .. Size(i) <=> k \in 1 .. Size(i - 1) \/ k = Size(i)
      BY <1>2, <2>3
    <3> HIDE DEF Size, Was
    <3>3. /\ path[i] \in Seq(S) /\ Len(path[i]) = Size(i - 1) + 1
          /\ \A k \in 1 .. Size(i - 1) : path[i][k] = path[i - 1][k]
          /\ path[i][Size(i - 1) + 1] = list[i]
      BY <1>2, <2>1, <3>1, AppendProperties
    <3>4. QED  BY <2>1, <3>2, <3>3
  <2>4. QED  BY <2>2, <2>3
<1> HIDE DEF T
<1>5. n \in T
  <2>1. n \in Nat /\ n \in 0 .. n
    BY <1>2
  <2> HIDE DEF n
  <2>2. \A i \in 0 .. n : i \in T
    BY <1>3, <1>4, <2>1, Places
  <2>3. QED  BY <2>1, <2>2
<1>6. OK(n) /\ Size(n) = n - 1
  BY <1>2, <1>5 DEF T
<1>7. QED  BY <1>1, <1>6 DEF gone

-----------------------------------------------------------------------------
(* What an emit has kept and has not visited yet                           *)

LEMMA FrameIs ==
  ASSUME NEW f \in Frame
  PROVE  /\ f.event \in Event /\ f.list \in Seq(Entry) /\ f.kept \in Seq(Entry)
         /\ f.next \in Nat /\ f.next >= 1 /\ f.calling \in BOOLEAN
         /\ f.current \in BOOLEAN
         /\ Len(f.list) \in Nat /\ Len(f.kept) \in Nat
BY DEF Frame

\* How filter goes on by one element
LEMMA GoneIs ==
  ASSUME NEW f \in Frame, f.next <= Len(f.list), NEW kept \in BOOLEAN
  PROVE  LET g == Gone(f, kept) IN
         /\ g \in Frame
         /\ g.event = f.event /\ g.list = f.list /\ g.current = f.current
         /\ g.next = f.next + 1 /\ g.calling = FALSE
         /\ g.kept = IF kept THEN Append(f.kept, f.list[f.next]) ELSE f.kept
<1> DEFINE v == f.list[f.next]
           new == IF kept THEN Append(f.kept, v) ELSE f.kept
           g == Gone(f, kept)
<1>1. v \in Entry
  BY FrameIs
<1>2. new \in Seq(Entry)
  BY <1>1, FrameIs, AppendProperties
<1>3. f.next + 1 \in Nat \ {0}
  BY FrameIs
<1>4. g = [f EXCEPT !.next = f.next + 1, !.calling = FALSE, !.kept = new]
  BY DEF Gone, Frame
<1> HIDE DEF new, g
<1>5. /\ g \in Frame
      /\ g.event = f.event /\ g.list = f.list /\ g.current = f.current
      /\ g.next = f.next + 1 /\ g.calling = FALSE /\ g.kept = new
  BY <1>2, <1>3, <1>4 DEF Frame
<1>6. QED  BY <1>5 DEF new, g

\* An emit begins with the whole list.
LEMMA RemainsAtFirst ==
  ASSUME NEW f \in Frame, f.next = 1, f.kept = <<>>
  PROVE  Remains(f.list, f)
<1>1. Len(f.kept) = 0 /\ Len(f.list) \in Nat
  BY FrameIs, EmptyIs
<1>2. \A k \in 1 .. Len(f.list) : k - 0 + 1 - 1 = k
  OBVIOUS
<1>3. QED  BY <1>1, <1>2 DEF Remains

\* A listener that is kept changes nothing.
LEMMA RemainsKept ==
  ASSUME NEW f \in Frame, f.next <= Len(f.list),
         NEW list \in Seq(Entry), Remains(list, f)
  PROVE  Remains(list, Gone(f, TRUE))
<1> DEFINE g == Gone(f, TRUE)
           n == Len(f.kept)
           v == f.list[f.next]
<1>1. /\ n \in Nat /\ f.next \in Nat /\ Len(f.list) \in Nat /\ f.next >= 1
      /\ f.list \in Seq(Entry) /\ f.kept \in Seq(Entry) /\ Len(list) \in Nat
  BY FrameIs
<1>2. v \in Entry
  BY <1>1
<1>3. g.list = f.list /\ g.next = f.next + 1 /\ g.kept = Append(f.kept, v)
  BY GoneIs
<1> HIDE DEF g, v
<1>4. /\ Len(g.kept) = n + 1 /\ g.kept[n + 1] = v
      /\ \A k \in 1 .. n : g.kept[k] = f.kept[k]
  BY <1>1, <1>2, <1>3, AppendProperties
<1>5. /\ Len(list) = n + Len(f.list) - f.next + 1
      /\ \A k \in 1 .. n : list[k] = f.kept[k]
      /\ \A k \in n + 1 .. Len(list) : list[k] = f.list[k - n + f.next - 1]
  BY DEF Remains
<1> HIDE DEF n
<1>6. Len(list) = (n + 1) + Len(f.list) - (f.next + 1) + 1
  BY <1>1, <1>5
<1>7. list[n + 1] = v
  <2>1. n + 1 \in n + 1 .. Len(list) /\ (n + 1) - n + f.next - 1 = f.next
    BY <1>1, <1>5
  <2>2. QED  BY <1>5, <2>1 DEF v
<1>8. \A k \in 1 .. n + 1 : list[k] = g.kept[k]
  <2>1. \A k \in 1 .. n + 1 : k \in 1 .. n \/ k = n + 1
    BY <1>1
  <2>2. QED  BY <1>4, <1>5, <1>7, <2>1
<1>9. \A k \in (n + 1) + 1 .. Len(list) :
        list[k] = f.list[k - (n + 1) + (f.next + 1) - 1]
  <2>1. \A k \in (n + 1) + 1 .. Len(list) :
          /\ k \in n + 1 .. Len(list)
          /\ k - (n + 1) + (f.next + 1) - 1 = k - n + f.next - 1
    BY <1>1
  <2>2. QED  BY <1>5, <2>1
<1>10. QED  BY <1>3, <1>4, <1>6, <1>8, <1>9 DEF Remains, g

\* One that is used up is taken out of the expected list, too.
LEMMA RemainsDropped ==
  ASSUME NEW f \in Frame, f.next <= Len(f.list),
         NEW list \in Seq(Entry), Remains(list, f),
         \A k, l \in 1 .. Len(list) : list[k] = list[l] => k = l
  PROVE  Remains(Without(list, {f.list[f.next]}), Gone(f, FALSE))
<1> DEFINE g == Gone(f, FALSE)
           n == Len(f.kept)
           v == f.list[f.next]
           left == Without(list, {v})
<1>1. /\ n \in Nat /\ f.next \in Nat /\ Len(f.list) \in Nat /\ f.next >= 1
      /\ Len(list) \in Nat
  BY FrameIs
<1>2. g.list = f.list /\ g.next = f.next + 1 /\ g.kept = f.kept
  BY GoneIs
<1>3. /\ Len(list) = n + Len(f.list) - f.next + 1
      /\ \A k \in 1 .. n : list[k] = f.kept[k]
      /\ \A k \in n + 1 .. Len(list) : list[k] = f.list[k - n + f.next - 1]
  BY DEF Remains
<1> HIDE DEF g, n
<1>4. n + 1 \in 1 .. Len(list) /\ list[n + 1] = v
  <2>1. n + 1 \in n + 1 .. Len(list) /\ (n + 1) - n + f.next - 1 = f.next
    BY <1>1, <1>3
  <2>2. n + 1 \in 1 .. Len(list)
    BY <1>1, <2>1
  <2>3. QED  BY <1>3, <2>1, <2>2
<1>5. /\ Len(left) = Len(list) - 1
      /\ \A k \in 1 .. Len(list) - 1 :
           left[k] = list[IF k < n + 1 THEN k ELSE k + 1]
  <2>1. IsInjective(list)
    BY ListIs
  <2> HIDE DEF v, left
  <2>2. \A p \in 1 .. Len(list) :
          /\ Len(Without(list, {list[p]})) = Len(list) - 1
          /\ \A k \in 1 .. Len(list) - 1 :
               Without(list, {list[p]})[k] = list[IF k < p THEN k ELSE k + 1]
    BY <2>1, WithoutOne
  <2>3. left = Without(list, {list[n + 1]})
    BY <1>4 DEF left
  <2>4. QED  BY <1>4, <2>2, <2>3
<1> HIDE DEF left, v
<1>6. /\ Len(left) = Len(list) - 1
      /\ Len(left) = n + Len(f.list) - (f.next + 1) + 1
  <2>1. Len(left) = Len(list) - 1
    BY <1>5
  <2>2. Len(list) = n + Len(f.list) - f.next + 1
    BY <1>3
  <2>3. Len(list) - 1 = n + Len(f.list) - (f.next + 1) + 1
    BY <1>1, <2>2
  <2>4. QED  BY <2>1, <2>3
<1>7. ASSUME NEW k \in 1 .. n PROVE left[k] = f.kept[k]
  <2>1. k \in 1 .. Len(list) - 1 /\ k < n + 1
    BY <1>1, <1>4
  <2>2. QED  BY <1>3, <1>5, <2>1
<1>8. ASSUME NEW k \in n + 1 .. Len(left)
      PROVE  left[k] = f.list[k - n + (f.next + 1) - 1]
  <2>1. /\ k \in 1 .. Len(list) - 1 /\ ~(k < n + 1)
        /\ k + 1 \in n + 1 .. Len(list)
        /\ (k + 1) - n + f.next - 1 = k - n + (f.next + 1) - 1
    BY <1>1, <1>6
  <2>2. left[k] = list[k + 1]
    BY <1>5, <2>1
  <2>3. QED  BY <1>3, <2>1, <2>2
<1>9. QED  BY <1>2, <1>6, <1>7, <1>8 DEF Remains, g, left, n, v

\* When all are visited the expected list is what was kept.
LEMMA RemainsAtEnd ==
  ASSUME NEW f \in Frame, f.next = Len(f.list) + 1,
         NEW list \in Seq(Entry), Remains(list, f)
  PROVE  list = f.kept
<1>1. /\ f.kept \in Seq(Entry) /\ Len(f.kept) \in Nat /\ Len(f.list) \in Nat
  BY FrameIs
<1>2. Len(list) = Len(f.kept)
  BY <1>1 DEF Remains
<1>3. QED  BY <1>1, <1>2, SeqEqual DEF Remains

\* The elements of such a list are in the list of the emit.
LEMMA RemainsElements ==
  ASSUME NEW f \in Frame, NEW list \in Seq(Entry), Remains(list, f),
         f.next <= Len(f.list) + 1,
         \A x \in ToSet(f.kept) : \E k \in 1 .. f.next - 1 : f.list[k] = x,
         NEW x \in ToSet(list)
  PROVE  x \in ToSet(f.list)
<1> DEFINE n == Len(f.kept)
<1>1. /\ n \in Nat /\ f.next \in Nat /\ Len(f.list) \in Nat /\ f.next >= 1
      /\ f.list \in Seq(Entry) /\ f.kept \in Seq(Entry) /\ Len(list) \in Nat
  BY FrameIs
<1>2. PICK k \in 1 .. Len(list) : list[k] = x
  BY ListIs
<1>3. CASE k \in 1 .. n
  <2>1. f.kept[k] = x /\ f.kept[k] \in ToSet(f.kept)
    BY <1>1, <1>2, <1>3, ListIs DEF Remains
  <2>2. PICK l \in 1 .. f.next - 1 : f.list[l] = x
    BY <2>1
  <2>3. l \in 1 .. Len(f.list)
    BY <1>1
  <2>4. QED  BY <1>1, <2>2, <2>3, ListIs
<1>4. CASE k \notin 1 .. n
  <2>1. k \in n + 1 .. Len(list)
    BY <1>1, <1>4
  <2>2. x = f.list[k - n + f.next - 1]
    BY <1>2, <2>1 DEF Remains
  <2>3. Len(list) = n + Len(f.list) - f.next + 1
    BY DEF Remains
  <2> HIDE DEF n
  <2>4. k - n + f.next - 1 \in 1 .. Len(f.list)
    BY <1>1, <2>1, <2>3
  <2>5. QED  BY <1>1, <2>2, <2>4, ListIs
<1>5. QED  BY <1>3, <1>4

-----------------------------------------------------------------------------
(* The emits that run                                                      *)

General == EmitterTypeOK /\ EmitsOK /\ EntriesOK

LEMMA ListsAre ==
  ASSUME EmitterTypeOK, NEW e \in Event
  PROVE  /\ ListOf(e) \in Seq(Entry) /\ expected[e] \in Seq(Entry)
         /\ handlers[e] # Null => ListOf(e) = handlers[e]
<1>1. handlers[e] \in Seq(Entry) \cup {Null} /\ expected[e] \in Seq(Entry)
  BY DEF EmitterTypeOK
<1>2. <<>> \in Seq(Entry)
  BY EmptyIs
<1>3. QED  BY <1>1, <1>2 DEF ListOf

LEMMA StackIs ==
  ASSUME EmitterTypeOK
  PROVE  /\ stack \in Seq(Frame) /\ Len(stack) \in Nat
         /\ DOMAIN stack = 1 .. Len(stack)
         /\ \A i \in 1 .. Len(stack) : stack[i] \in Frame
         /\ stack # <<>> =>
              /\ Len(stack) \in 1 .. Len(stack)
              /\ Top = stack[Len(stack)] /\ Top \in Frame
<1>1. stack \in Seq(Frame)
  BY DEF EmitterTypeOK
<1>2. /\ Len(stack) \in Nat /\ DOMAIN stack = 1 .. Len(stack)
      /\ \A i \in 1 .. Len(stack) : stack[i] \in Frame
      /\ stack # <<>> => Len(stack) \in 1 .. Len(stack)
  BY <1>1
<1>3. Top = stack[Len(stack)]
  BY DEF Top, Last
<1>4. QED  BY <1>1, <1>2, <1>3

LEMMA VisitedIs ==
  ASSUME General, stack # <<>>, Top.next <= Len(Top.list)
  PROVE  /\ Top.next \in 1 .. Len(Top.list) /\ Top.event \in Event
         /\ Visited \in Entry /\ Visited \in Made(Top.event)
         /\ Visited \in ToSet(Top.list)
         /\ Visited = Top.list[Top.next]
<1>1. Top \in Frame /\ FrameOK(Top)
  BY StackIs DEF General, EmitsOK
<1>2. Top.next \in 1 .. Len(Top.list)
  BY <1>1, FrameIs
<1>3. Top.list \in Seq(Entry) /\ Top.event \in Event
  BY <1>1, FrameIs
<1>4. Visited \in ToSet(Top.list) /\ Visited \in Entry
  BY <1>2, <1>3, ListIs DEF Visited
<1>5. QED  BY <1>1, <1>2, <1>3, <1>4 DEF FrameOK, Visited

\* Another frame on top
LEMMA TopReplaced ==
  ASSUME EmitterTypeOK, stack # <<>>, NEW g \in Frame,
         stack' = [stack EXCEPT ![Len(stack)] = g]
  PROVE  /\ stack' \in Seq(Frame) /\ Len(stack') = Len(stack)
         /\ stack'[Len(stack)] = g
         /\ \A i \in 1 .. Len(stack) : i # Len(stack) => stack'[i] = stack[i]
<1>1. /\ stack \in Seq(Frame) /\ Len(stack) \in 1 .. Len(stack)
      /\ DOMAIN stack = 1 .. Len(stack)
  BY StackIs
<1>2. stack' \in Seq(Frame) /\ Len(stack') = Len(stack)
  BY <1>1, ExceptSeq
<1>3. QED  BY <1>1, <1>2

LEMMA EntryIs ==
  ASSUME EmitterTypeOK, NEW x \in Entry, entries[x] # Null
  PROVE  /\ entries[x] \in Listener
         /\ entries[x].times \in Int /\ entries[x].given \in Times
         /\ entries[x].given \in Int
         /\ entries[x].event \in Event
         /\ Infinity \in Nat /\ Infinity > MaxTimes /\ MaxTimes \in Nat
         /\ Infinity >= 1
         /\ entries[x].given # Infinity => entries[x].given \in 1 .. MaxTimes
<1>1. entries[x] \in Listener
  BY DEF EmitterTypeOK
<1>2. /\ entries[x].times \in Int /\ entries[x].given \in Times
      /\ entries[x].event \in Event
  BY <1>1 DEF Listener
<1>3. Infinity \in Nat /\ Infinity > MaxTimes /\ MaxTimes \in Nat
      /\ Infinity >= 1
  BY EmitterAssumption DEF Infinity
<1>4. QED  BY <1>1, <1>2, <1>3 DEF Times

\* What is in a list stays made, and what is used up stays so.
Older ==
  \A x \in Entry : entries[x] # Null =>
    /\ entries'[x] # Null
    /\ entries'[x].event = entries[x].event
    /\ entries[x].times < 1 => entries'[x].times < 1

LEMMA FrameStays ==
  ASSUME General, Older, NEW f \in Frame, FrameOK(f)
  PROVE  FrameOK(f)'
<1>1. \A x \in Made(f.event) : x \in Made(f.event)'
  BY DEF Made, Older
<1>2. ToSet(f.list) \subseteq Made(f.event)'
  BY <1>1 DEF FrameOK
<1>3. ASSUME NEW k \in 1 .. f.next - 1
      PROVE  f.list[k] \in ToSet(f.kept) \/ entries'[f.list[k]].times < 1
  <2>1. f.list \in Seq(Entry) /\ k \in 1 .. Len(f.list)
    BY FrameIs DEF FrameOK
  <2>2. f.list[k] \in ToSet(f.list)
    BY <2>1, ListIs
  <2>3. f.list[k] \in Entry /\ entries[f.list[k]] # Null
    BY <2>2 DEF FrameOK, Made
  <2>4. QED  BY <2>3 DEF FrameOK, Older
<1>4. QED  BY <1>2, <1>3 DEF FrameOK

\* filter may drop what is used up.
LEMMA FrameGoesOn ==
  ASSUME General, Older, NEW f \in Frame, FrameOK(f), f.next <= Len(f.list),
         NEW kept \in BOOLEAN,
         ~kept => entries'[f.list[f.next]].times < 1
  PROVE  FrameOK(Gone(f, kept))'
<1> DEFINE g == Gone(f, kept)
           v == f.list[f.next]
<1>1. /\ g.event = f.event /\ g.list = f.list /\ g.next = f.next + 1
      /\ g.calling = FALSE
      /\ g.kept = IF kept THEN Append(f.kept, v) ELSE f.kept
  BY GoneIs
<1>2. /\ f.list \in Seq(Entry) /\ f.kept \in Seq(Entry)
      /\ f.next \in 1 .. Len(f.list) /\ Len(f.list) \in Nat /\ v \in Entry
  BY FrameIs
<1>3. ToSet(g.kept) = IF kept THEN ToSet(f.kept) \cup {v} ELSE ToSet(f.kept)
  <2> HIDE DEF g, v
  <2>1. ToSet(Append(f.kept, v)) = ToSet(f.kept) \cup {v}
    BY <1>2, AppendIs
  <2>2. QED  BY <1>1, <2>1
<1>4. FrameOK(f)'
  BY FrameStays
<1> HIDE DEF g, v
<1>5. g.next <= Len(g.list) + 1
  BY <1>1, <1>2
<1>6. \A k : k \in 1 .. g.next - 1 <=> k \in 1 .. f.next - 1 \/ k = f.next
  BY <1>1, <1>2
<1>7. \A x \in ToSet(g.kept) : \E k \in 1 .. g.next - 1 : g.list[k] = x
  BY <1>1, <1>3, <1>6 DEF FrameOK, v
<1>8. \A k \in 1 .. g.next - 1 :
        g.list[k] \in ToSet(g.kept) \/ entries'[g.list[k]].times < 1
  <2>1. \A k \in 1 .. f.next - 1 :
          f.list[k] \in ToSet(f.kept) \/ entries'[f.list[k]].times < 1
    BY <1>4 DEF FrameOK
  <2>2. v \in ToSet(g.kept) \/ entries'[v].times < 1
    BY <1>3 DEF v
  <2>3. QED  BY <1>1, <1>3, <1>6, <2>1, <2>2 DEF v
<1>9. ToSet(g.list) \subseteq Made(g.event)'
  BY <1>1, <1>4 DEF FrameOK
<1>10. FrameOK(g)'
  BY <1>1, <1>5, <1>7, <1>8, <1>9 DEF FrameOK
<1>11. QED  BY <1>10 DEF g

-----------------------------------------------------------------------------
(* What holds in general goes on holding: one lemma for each action.       *)

LEMMA MadeStay ==
  ASSUME Older, NEW e, NEW x \in Made(e)
  PROVE  x \in Made(e)'
BY DEF Older, Made

\* Nothing but the lists has changed.
LEMMA OnlyLists ==
  ASSUME General, Older, UNCHANGED stack,
         handlers' \in [Event -> Seq(Entry) \cup {Null}],
         expected' \in [Event -> Seq(Entry)],
         \A e \in Event : /\ ToSet(ListOf(e)') \subseteq Made(e)'
                          /\ ToSet(expected'[e]) \subseteq Made(e)'
                          /\ IsInjective(expected'[e])
  PROVE  EmitsOK'
<1>1. ASSUME NEW i \in 1 .. Len(stack)
      PROVE  FrameOK(stack[i])'
  <2>1. PICK f \in Frame : f = stack[i]
    BY StackIs DEF General
  <2>2. FrameOK(f)
    BY <2>1 DEF General, EmitsOK
  <2>3. FrameOK(f)'
    BY <2>2, FrameStays
  <2>4. stack'[i] = f
    BY <2>1
  <2>5. QED  BY <2>3, <2>4 DEF FrameOK
<1>2. \A i \in 1 .. Len(stack') : FrameOK(stack[i])'
  BY <1>1
<1>3. \A i \in 1 .. Len(stack') : i < Len(stack') => stack'[i].calling
  BY DEF General, EmitsOK
<1>4. QED  BY <1>2, <1>3 DEF EmitsOK

LEMMA ExpectsIs ==
  ASSUME EmitterTypeOK, NEW e \in Event, NEW list \in Seq(Entry),
         Expects(e, list)
  PROVE  /\ expected' \in [Event -> Seq(Entry)] /\ disturbed' \subseteq Event
         /\ expected'[e] = list
         /\ \A d \in Event : d # e => expected'[d] = expected[d]
BY DEF EmitterTypeOK, Expects

LEMMA AddEntry ==
  ASSUME General, NEW e \in Event, NEW x \in Entry, NEW func \in Func,
         NEW context \in Context, NEW times \in Times,
         AddListener(e, x, func, context, times)
  PROVE  /\ entries' \in [Entry -> Listener \cup {Null}]
         /\ entries'[x] \in Listener /\ entries'[x] # Null
         /\ entries'[x].times = times /\ entries'[x].given = times
         /\ entries'[x].event = e
         /\ \A y \in Entry : y # x => entries'[y] = entries[y]
         /\ times \in Int /\ times >= 1
         /\ times # Infinity => times <= MaxTimes
<1> DEFINE new == [func |-> func, context |-> context, times |-> times,
                   given |-> times, event |-> e]
<1>1. times \in Int /\ times >= 1 /\ (times # Infinity => times <= MaxTimes)
  BY EmitterAssumption DEF Times, Infinity
<1>2. new \in Listener /\ new.times = times /\ new.given = times
      /\ new.event = e
  BY <1>1 DEF Listener
<1>3. entries' = [entries EXCEPT ![x] = new]
  BY DEF AddListener
<1> HIDE DEF new
<1>4. new # Null
  BY <1>2, EmitterAssumption
<1>5. entries \in [Entry -> Listener \cup {Null}]
  BY DEF General, EmitterTypeOK
<1>6. QED  BY <1>1, <1>2, <1>3, <1>4, <1>5

LEMMA AddLists ==
  ASSUME General, NEW e \in Event, NEW x \in Entry, NEW func \in Func,
         NEW context \in Context, NEW times \in Times,
         AddListener(e, x, func, context, times)
  PROVE  /\ handlers' \in [Event -> Seq(Entry) \cup {Null}]
         /\ ListOf(e)' = Append(ListOf(e), x)
         /\ \A d \in Event : d # e => ListOf(d)' = ListOf(d)
         /\ expected' \in [Event -> Seq(Entry)] /\ disturbed' \subseteq Event
         /\ expected'[e] = Append(expected[e], x)
         /\ \A d \in Event : d # e => expected'[d] = expected[d]
<1>1. ListOf(e) \in Seq(Entry) /\ expected[e] \in Seq(Entry)
  BY ListsAre DEF General
<1>2. /\ Append(ListOf(e), x) \in Seq(Entry)
      /\ Append(expected[e], x) \in Seq(Entry)
  BY <1>1, AppendIs
<1>3. Append(ListOf(e), x) # Null
  BY <1>2, EmitterAssumption
<1> DEFINE new == Append(ListOf(e), x)
<1>4. handlers' = [handlers EXCEPT ![e] = new]
  BY DEF AddListener, Pushed
<1>5. handlers \in [Event -> Seq(Entry) \cup {Null}]
  BY DEF General, EmitterTypeOK
<1>6. Expects(e, Append(expected[e], x))
  BY DEF AddListener
<1>7. /\ expected' \in [Event -> Seq(Entry)] /\ disturbed' \subseteq Event
      /\ expected'[e] = Append(expected[e], x)
      /\ \A d \in Event : d # e => expected'[d] = expected[d]
  BY <1>2, <1>6, ExpectsIs DEF General
<1>8. ListOf(e)' = new
  <2> HIDE DEF new
  <2>1. handlers'[e] = new
    BY <1>4, <1>5
  <2>2. new # Null
    BY <1>3 DEF new
  <2>3. QED  BY <2>1, <2>2 DEF ListOf
<1> HIDE DEF new
<1>9. \A d \in Event : d # e => ListOf(d)' = ListOf(d)
  BY <1>4, <1>5 DEF ListOf
<1>10. new \in Seq(Entry)
  BY <1>2 DEF new
<1>11. handlers' \in [Event -> Seq(Entry) \cup {Null}]
  BY <1>4, <1>5, <1>10
<1>12. QED  BY <1>7, <1>8, <1>9, <1>11 DEF new

LEMMA NotListed ==
  ASSUME General, NEW x \in Entry, entries[x] = Null, NEW e \in Event
  PROVE  x \notin ToSet(ListOf(e)) /\ x \notin ToSet(expected[e])
BY DEF General, EmitsOK, Made

LEMMA AddGeneral ==
  ASSUME General, NEW e \in Event, NEW x \in Entry, NEW func \in Func,
         NEW context \in Context, NEW times \in Times,
         AddListener(e, x, func, context, times)
  PROVE  General' /\ Older
<1>1. /\ entries[x] = Null /\ UNCHANGED <<stack, calls>>
  BY DEF AddListener
<1>2. Older
  BY <1>1, AddEntry DEF Older
<1>3. x \in Made(e)'
  BY AddEntry DEF Made
<1>4. /\ ToSet(Append(ListOf(e), x)) = ToSet(ListOf(e)) \cup {x}
      /\ ToSet(Append(expected[e], x)) = ToSet(expected[e]) \cup {x}
      /\ IsInjective(expected[e]) /\ x \notin ToSet(expected[e])
           => IsInjective(Append(expected[e], x))
  <2>1. ListOf(e) \in Seq(Entry) /\ expected[e] \in Seq(Entry)
    BY ListsAre DEF General
  <2>2. QED  BY <2>1, AppendIs
<1>5. x \notin ToSet(expected[e])
  BY <1>1, NotListed
<1>6. \A d \in Event : /\ ToSet(ListOf(d)) \subseteq Made(d)'
                       /\ ToSet(expected[d]) \subseteq Made(d)'
                       /\ IsInjective(expected[d])
  BY <1>2, MadeStay DEF General, EmitsOK
<1>7. ASSUME NEW d \in Event
      PROVE  /\ ToSet(ListOf(d)') \subseteq Made(d)'
             /\ ToSet(expected'[d]) \subseteq Made(d)'
             /\ IsInjective(expected'[d])
  <2>1. CASE d = e
    <3>1. /\ ListOf(d)' = Append(ListOf(e), x)
          /\ expected'[d] = Append(expected[e], x)
      BY <2>1, AddLists
    <3>2. QED  BY <1>3, <1>4, <1>5, <1>6, <2>1, <3>1
  <2>2. CASE d # e
    <3>1. ListOf(d)' = ListOf(d) /\ expected'[d] = expected[d]
      BY <2>2, AddLists
    <3>2. QED  BY <1>6, <3>1
  <2>3. QED  BY <2>1, <2>2
<1>8. EmitsOK'
  BY <1>1, <1>2, <1>7, AddLists, OnlyLists
<1>9. EmitterTypeOK'
  <2>1. \A y \in Entry : entries'[y] # Null /\ entries'[y].times # Infinity =>
          entries'[y].times <= MaxTimes
    BY AddEntry DEF General, EmitterTypeOK
  <2>2. stack' \in Seq(Frame) /\ calls' \in [Entry -> Nat]
    BY <1>1 DEF General, EmitterTypeOK
  <2>3. QED  BY <2>1, <2>2, AddEntry, AddLists DEF EmitterTypeOK
<1>10. EntriesOK'
  BY <1>1, AddEntry DEF General, EntriesOK
<1>11. QED  BY <1>2, <1>8, <1>9, <1>10 DEF General

\* A removal leaves some of the entries.
LEMMA LeftIs ==
  ASSUME NEW list \in Seq(Entry)
  PROVE  /\ Left(list) \in Seq(Entry) \cup {Null}
         /\ list = <<>> => Left(list) = Null
         /\ list # <<>> => Left(list) = list /\ list # Null
BY EmitterAssumption DEF Left

LEMMA RemoveLists ==
  ASSUME General, NEW e \in Event, NEW gone, RemoveListener(e, gone)
  PROVE  /\ handlers' \in [Event -> Seq(Entry) \cup {Null}]
         /\ ListOf(e)' = Without(ListOf(e), gone)
         /\ \A d \in Event : d # e => ListOf(d)' = ListOf(d)
         /\ expected' \in [Event -> Seq(Entry)] /\ disturbed' \subseteq Event
         /\ expected'[e] = Without(expected[e], gone)
         /\ \A d \in Event : d # e => expected'[d] = expected[d]
<1> DEFINE new == Without(ListOf(e), gone)
<1>1. /\ ListOf(e) \in Seq(Entry) /\ expected[e] \in Seq(Entry)
      /\ ListOf(e) = handlers[e]
  BY ListsAre DEF General, RemoveListener
<1>2. new \in Seq(Entry) /\ Without(expected[e], gone) \in Seq(Entry)
  BY <1>1, WithoutIs
<1>3. handlers' = [handlers EXCEPT ![e] = Left(new)]
  BY <1>1 DEF RemoveListener
<1>4. handlers \in [Event -> Seq(Entry) \cup {Null}]
  BY DEF General, EmitterTypeOK
<1>5. Expects(e, Without(expected[e], gone))
  BY DEF RemoveListener
<1>6. /\ expected' \in [Event -> Seq(Entry)] /\ disturbed' \subseteq Event
      /\ expected'[e] = Without(expected[e], gone)
      /\ \A d \in Event : d # e => expected'[d] = expected[d]
  BY <1>2, <1>5, ExpectsIs DEF General
<1> HIDE DEF new
<1>7. handlers'[e] = Left(new) /\ Left(new) \in Seq(Entry) \cup {Null}
  BY <1>2, <1>3, <1>4, LeftIs
<1>8. handlers' \in [Event -> Seq(Entry) \cup {Null}]
  BY <1>3, <1>4, <1>7
<1>9. ListOf(e)' = new
  <2>1. CASE new = <<>>
    BY <1>2, <1>7, <2>1, LeftIs DEF ListOf
  <2>2. CASE new # <<>>
    BY <1>2, <1>7, <2>2, LeftIs DEF ListOf
  <2>3. QED  BY <2>1, <2>2
<1>10. \A d \in Event : d # e => ListOf(d)' = ListOf(d)
  BY <1>3, <1>4 DEF ListOf
<1>11. QED  BY <1>6, <1>8, <1>9, <1>10 DEF new

LEMMA RemoveGeneral ==
  ASSUME General, NEW e \in Event, NEW gone, RemoveListener(e, gone)
  PROVE  General' /\ Older
<1>1. UNCHANGED <<entries, stack, calls>>
  BY DEF RemoveListener
<1>2. Older
  BY <1>1 DEF Older
<1>3. \A d \in Event : Made(d)' = Made(d)
  BY <1>1 DEF Made
<1>4. ASSUME NEW d \in Event
      PROVE  /\ ToSet(ListOf(d)') \subseteq Made(d)'
             /\ ToSet(expected'[d]) \subseteq Made(d)'
             /\ IsInjective(expected'[d])
  <2>1. /\ ToSet(ListOf(d)) \subseteq Made(d)
        /\ ToSet(expected[d]) \subseteq Made(d)
        /\ IsInjective(expected[d])
    BY DEF General, EmitsOK
  <2>2. ListOf(d) \in Seq(Entry) /\ expected[d] \in Seq(Entry)
    BY ListsAre DEF General
  <2>3. CASE d = e
    <3>1. /\ ListOf(d)' = Without(ListOf(d), gone)
          /\ expected'[d] = Without(expected[d], gone)
      BY <2>3, RemoveLists
    <3>2. /\ ToSet(Without(ListOf(d), gone)) \subseteq ToSet(ListOf(d))
          /\ ToSet(Without(expected[d], gone)) \subseteq ToSet(expected[d])
          /\ IsInjective(expected[d]) => IsInjective(Without(expected[d], gone))
      BY <2>2, WithoutIs
    <3>3. QED  BY <1>3, <2>1, <3>1, <3>2
  <2>4. CASE d # e
    BY <1>3, <2>1, <2>4, RemoveLists
  <2>5. QED  BY <2>3, <2>4
<1>5. EmitsOK'
  BY <1>1, <1>2, <1>4, RemoveLists, OnlyLists
<1>6. EmitterTypeOK'
  BY <1>1, RemoveLists DEF General, EmitterTypeOK
<1>7. EntriesOK'
  BY <1>1 DEF General, EntriesOK
<1>8. QED  BY <1>2, <1>5, <1>6, <1>7 DEF General

\* removeAllListeners empties all lists, and no emit is current any more.
LEMMA RemoveAllIs ==
  ASSUME General, RemoveAll
  PROVE  /\ \A e \in Event : ListOf(e)' = <<>> /\ expected'[e] = <<>>
         /\ stack' \in Seq(Frame) /\ Len(stack') = Len(stack)
         /\ \A i \in 1 .. Len(stack) :
              /\ stack'[i].event = stack[i].event
              /\ stack'[i].list = stack[i].list
              /\ stack'[i].next = stack[i].next
              /\ stack'[i].kept = stack[i].kept
              /\ stack'[i].calling = stack[i].calling
              /\ ~stack'[i].current
<1> DEFINE n == Len(stack)
           Old(i) == [stack[i] EXCEPT !.current = FALSE]
<1>1. n \in Nat /\ DOMAIN stack = 1 .. n /\ \A i \in 1 .. n : stack[i] \in Frame
  BY StackIs DEF General
<1>2. ASSUME NEW i \in 1 .. n
      PROVE  /\ Old(i) \in Frame
             /\ Old(i).event = stack[i].event
             /\ Old(i).list = stack[i].list
             /\ Old(i).next = stack[i].next
             /\ Old(i).kept = stack[i].kept
             /\ Old(i).calling = stack[i].calling
             /\ ~Old(i).current
  BY <1>1 DEF Frame
<1> HIDE DEF n
<1>3. stack' = [i \in 1 .. n |-> Old(i)]
  BY <1>1 DEF RemoveAll
<1> HIDE DEF Old
<1>4. stack' \in Seq(Frame) /\ Len(stack') = n
  BY <1>1, <1>2, <1>3
<1>5. \A i \in 1 .. n : stack'[i] = Old(i)
  BY <1>3
<1>6. \A e \in Event : ListOf(e)' = <<>> /\ expected'[e] = <<>>
  BY DEF RemoveAll, ListOf
<1>7. QED  BY <1>2, <1>4, <1>5, <1>6 DEF n

LEMMA RemoveAllGeneral ==
  ASSUME General, RemoveAll
  PROVE  General' /\ Older
<1>1. /\ UNCHANGED <<entries, disturbed, calls>>
      /\ handlers' = [e \in Event |-> Null]
      /\ expected' = [e \in Event |-> <<>>]
  BY DEF RemoveAll
<1>2. Older
  BY <1>1 DEF Older
<1>3. <<>> \in Seq(Entry) /\ ToSet(<<>>) = {} /\ IsInjective(<<>>)
  BY EmptyIs
<1>4. EmitterTypeOK'
  BY <1>1, <1>3, RemoveAllIs DEF General, EmitterTypeOK
<1>5. \A e \in Event : /\ ToSet(ListOf(e)') \subseteq Made(e)'
                       /\ ToSet(expected'[e]) \subseteq Made(e)'
                       /\ IsInjective(expected'[e])
  BY <1>3, RemoveAllIs
<1>6. ASSUME NEW i \in 1 .. Len(stack)
      PROVE  FrameOK(stack[i])' /\ (i < Len(stack) => stack'[i].calling)
  <2>1. FrameOK(stack[i]) /\ (i < Len(stack) => stack[i].calling)
    BY DEF General, EmitsOK
  <2>2. /\ stack'[i].event = stack[i].event /\ stack'[i].list = stack[i].list
        /\ stack'[i].next = stack[i].next /\ stack'[i].kept = stack[i].kept
        /\ stack'[i].calling = stack[i].calling
    BY RemoveAllIs
  <2>3. QED  BY <1>1, <2>1, <2>2 DEF FrameOK, Made
<1>7. EmitsOK'
  BY <1>5, <1>6, RemoveAllIs DEF EmitsOK
<1>8. EntriesOK'
  BY <1>1 DEF General, EntriesOK
<1>9. QED  BY <1>2, <1>4, <1>7, <1>8 DEF General

\* Only the stack has changed, and perhaps how often entries were called.
LEMMA OnlyStack ==
  ASSUME General, UNCHANGED <<handlers, entries, expected>>,
         stack' \in Seq(Frame), disturbed' \subseteq Event,
         calls' \in [Entry -> Nat],
         \A x \in Entry : entries[x] = Null => calls'[x] = 0,
         \A i \in 1 .. Len(stack') : i < Len(stack') => stack'[i].calling,
         \A i \in 1 .. Len(stack') : FrameOK(stack[i])'
  PROVE  General' /\ Older
<1>1. Older
  BY DEF Older
<1>2. EmitterTypeOK'
  BY DEF General, EmitterTypeOK
<1>3. \A e \in Event : /\ ToSet(ListOf(e)') \subseteq Made(e)'
                       /\ ToSet(expected'[e]) \subseteq Made(e)'
                       /\ IsInjective(expected'[e])
  BY DEF General, EmitsOK, Made, ListOf
<1>4. EmitsOK'
  BY <1>3 DEF EmitsOK
<1>5. EntriesOK'
  BY DEF General, EntriesOK
<1>6. QED  BY <1>1, <1>2, <1>4, <1>5 DEF General

\* A frame that is still there is as it was.
LEMMA FrameRemains ==
  ASSUME General, Older, NEW i \in 1 .. Len(stack), NEW j \in 1 .. Len(stack'),
         stack'[j] = stack[i]
  PROVE  FrameOK(stack[j])'
<1>1. PICK f \in Frame : f = stack[i]
  BY StackIs DEF General
<1>2. FrameOK(f)
  BY <1>1 DEF General, EmitsOK
<1>3. FrameOK(f)'
  BY <1>2, FrameStays
<1>4. stack'[j] = f
  BY <1>1
<1>5. QED  BY <1>3, <1>4 DEF FrameOK

LEMMA RunsIs ==
  ASSUME General, Runs, NEW i \in 1 .. Len(stack)
  PROVE  stack[i].calling
<1>1. Len(stack) \in Nat /\ (stack # <<>> => Top = stack[Len(stack)])
  BY StackIs DEF General
<1>2. stack # <<>>
  BY EmptyIs
<1>3. i < Len(stack) \/ i = Len(stack)
  BY <1>1
<1>4. QED  BY <1>1, <1>2, <1>3 DEF Runs, General, EmitsOK

New(e) == [event |-> e, list |-> handlers[e], next |-> 1,
           kept |-> <<>>, calling |-> FALSE, current |-> TRUE]

LEMMA EmitIs ==
  ASSUME General, NEW e \in Event, Emit(e)
  PROVE  /\ stack' \in Seq(Frame) /\ Len(stack') = Len(stack) + 1
         /\ \A i \in 1 .. Len(stack) : stack'[i] = stack[i]
         /\ stack'[Len(stack) + 1].event = e
         /\ stack'[Len(stack) + 1].list = handlers[e]
         /\ stack'[Len(stack) + 1].next = 1
         /\ stack'[Len(stack) + 1].kept = <<>>
         /\ ~stack'[Len(stack) + 1].calling
         /\ stack'[Len(stack) + 1].current
         /\ ListOf(e) = handlers[e] /\ ListOf(e) \in Seq(Entry)
<1>1. ListOf(e) = handlers[e] /\ ListOf(e) \in Seq(Entry) /\ <<>> \in Seq(Entry)
  BY ListsAre, EmptyIs DEF General, Emit
<1>2. New(e) \in Frame
  BY <1>1 DEF New, Frame
<1>3. stack \in Seq(Frame) /\ stack' = Append(stack, New(e))
  BY DEF Emit, New, General, EmitterTypeOK
<1>4. /\ stack' \in Seq(Frame) /\ Len(stack') = Len(stack) + 1
      /\ \A i \in 1 .. Len(stack) : stack'[i] = stack[i]
      /\ stack'[Len(stack) + 1] = New(e)
  BY <1>2, <1>3, AppendProperties
<1>5. QED  BY <1>1, <1>4 DEF New

LEMMA EmitGeneral ==
  ASSUME General, NEW e \in Event, Emit(e)
  PROVE  General' /\ Older
<1>1. Runs /\ UNCHANGED <<handlers, entries, expected, calls>>
  BY DEF Emit
<1>2. Len(stack) \in Nat
  BY StackIs DEF General
<1>3. \A i : i \in 1 .. Len(stack') <=> i \in 1 .. Len(stack) \/ i = Len(stack) + 1
  BY <1>2, EmitIs
<1>4. Older
  BY <1>1 DEF Older
<1>5. ASSUME NEW i \in 1 .. Len(stack')
      PROVE  FrameOK(stack[i])' /\ (i < Len(stack') => stack'[i].calling)
  <2>1. CASE i \in 1 .. Len(stack)
    <3>1. FrameOK(stack[i])'
      BY <1>4, <2>1, EmitIs, FrameRemains
    <3>2. QED  BY <1>1, <2>1, <3>1, EmitIs, RunsIs
  <2>2. CASE i = Len(stack) + 1
    <3>1. ToSet(ListOf(e)) \subseteq Made(e)
      BY DEF General, EmitsOK
    <3>2. /\ stack'[i].event = e /\ stack'[i].list = ListOf(e)
          /\ stack'[i].next = 1 /\ stack'[i].kept = <<>> /\ ~stack'[i].calling
      BY <2>2, EmitIs
    <3>3. Len(ListOf(e)) \in Nat /\ ToSet(<<>>) = {}
      BY EmitIs, EmptyIs
    <3>4. Made(e)' = Made(e)
      BY <1>1 DEF Made
    <3>5. FrameOK(stack[i])'
      BY <3>1, <3>2, <3>3, <3>4 DEF FrameOK
    <3>6. ~(i < Len(stack'))
      BY <1>2, <2>2, EmitIs
    <3>7. QED  BY <3>5, <3>6
  <2>3. QED  BY <1>3, <2>1, <2>2
<1>6. disturbed' \subseteq Event
  BY DEF Emit, General, EmitterTypeOK
<1>7. calls' \in [Entry -> Nat] /\ \A x \in Entry : entries[x] = Null => calls'[x] = 0
  BY <1>1 DEF General, EmitterTypeOK, EntriesOK
<1>8. QED  BY <1>1, <1>5, <1>6, <1>7, EmitIs, OnlyStack

LEMMA CallIs ==
  ASSUME General, Call
  PROVE  /\ stack # <<>> /\ ~Top.calling /\ Top.next <= Len(Top.list)
         /\ stack' \in Seq(Frame) /\ Len(stack') = Len(stack)
         /\ \A i \in 1 .. Len(stack) : i # Len(stack) => stack'[i] = stack[i]
         /\ LET g == stack'[Len(stack)] IN
              /\ g.event = Top.event /\ g.list = Top.list
              /\ g.next = Top.next /\ g.kept = Top.kept /\ g.calling
              /\ g.current = Top.current
<1>1. /\ stack # <<>> /\ ~Top.calling /\ Top.next <= Len(Top.list)
      /\ stack' = [stack EXCEPT ![Len(stack)].calling = TRUE]
  BY DEF Call, Visits
<1>2. /\ Top = stack[Len(stack)] /\ Top \in Frame
      /\ Len(stack) \in 1 .. Len(stack) /\ DOMAIN stack = 1 .. Len(stack)
  BY <1>1, StackIs DEF General
<1> DEFINE g == [Top EXCEPT !.calling = TRUE]
<1>3. /\ g \in Frame /\ g.event = Top.event /\ g.list = Top.list
      /\ g.next = Top.next /\ g.kept = Top.kept /\ g.calling
      /\ g.current = Top.current
  BY <1>2 DEF Frame
<1>4. stack' = [stack EXCEPT ![Len(stack)] = g]
  BY <1>1, <1>2
<1> HIDE DEF g
<1>5. /\ stack' \in Seq(Frame) /\ Len(stack') = Len(stack)
      /\ stack'[Len(stack)] = g
      /\ \A i \in 1 .. Len(stack) : i # Len(stack) => stack'[i] = stack[i]
  BY <1>1, <1>3, <1>4, TopReplaced DEF General
<1>6. QED  BY <1>1, <1>3, <1>5

LEMMA CallGeneral ==
  ASSUME General, Call
  PROVE  General' /\ Older
<1>1. /\ UNCHANGED <<handlers, entries, expected, disturbed>>
      /\ calls' = [calls EXCEPT ![Visited] = IF @ > MaxTimes THEN @ ELSE @ + 1]
  BY DEF Call
<1>2. Older
  BY <1>1 DEF Older
<1>3. /\ stack # <<>> /\ Len(stack) \in 1 .. Len(stack)
      /\ Top = stack[Len(stack)]
  BY CallIs, StackIs DEF General
<1>4. Visited \in Entry /\ entries[Visited] # Null
  BY CallIs, VisitedIs DEF Made
<1>5. calls' \in [Entry -> Nat] /\ \A x \in Entry : entries[x] = Null => calls'[x] = 0
  <2>1. calls \in [Entry -> Nat] /\ \A x \in Entry : entries[x] = Null => calls[x] = 0
    BY DEF General, EmitterTypeOK, EntriesOK
  <2>2. \A x \in Entry : x # Visited => calls'[x] = calls[x]
    BY <1>1, <2>1
  <2>3. calls' \in [Entry -> Nat]
    BY <1>1, <1>4, <2>1
  <2>4. QED  BY <1>4, <2>1, <2>2, <2>3
<1>6. ASSUME NEW i \in 1 .. Len(stack')
      PROVE  FrameOK(stack[i])' /\ (i < Len(stack') => stack'[i].calling)
  <2>1. i \in 1 .. Len(stack) /\ Len(stack') = Len(stack)
    BY CallIs
  <2>2. CASE i # Len(stack)
    <3>1. FrameOK(stack[i])'
      BY <1>2, <2>1, <2>2, CallIs, FrameRemains
    <3>2. QED  BY <2>1, <2>2, <3>1, CallIs DEF General, EmitsOK
  <2>3. CASE i = Len(stack)
    <3>1. FrameOK(Top)
      BY <1>3 DEF General, EmitsOK
    <3>2. FrameOK(stack[i])'
      BY <1>1, <2>3, <3>1, CallIs DEF FrameOK, Made
    <3>3. ~(i < Len(stack'))
      BY <1>3, <2>1, <2>3
    <3>4. QED  BY <3>2, <3>3
  <2>4. QED  BY <2>2, <2>3
<1>7. disturbed' \subseteq Event
  BY <1>1 DEF General, EmitterTypeOK
<1>8. QED  BY <1>1, <1>5, <1>6, <1>7, CallIs, OnlyStack

\* filter goes on: Skip and Return
LEMMA GoOnIs ==
  ASSUME General, stack # <<>>, Top.next <= Len(Top.list),
         NEW kept \in BOOLEAN, GoOn(kept)
  PROVE  /\ stack' \in Seq(Frame) /\ Len(stack') = Len(stack)
         /\ stack'[Len(stack)] = Gone(Top, kept)
         /\ \A i \in 1 .. Len(stack) : i # Len(stack) => stack'[i] = stack[i]
<1>1. Top \in Frame
  BY StackIs DEF General
<1>2. Gone(Top, kept) \in Frame
  BY <1>1, GoneIs
<1>3. stack' = [stack EXCEPT ![Len(stack)] = Gone(Top, kept)]
  BY DEF GoOn
<1>4. QED  BY <1>2, <1>3, TopReplaced DEF General

LEMMA GoOnFrames ==
  ASSUME General, Older, stack # <<>>, Top.next <= Len(Top.list),
         NEW kept \in BOOLEAN, GoOn(kept),
         ~kept => entries'[Visited].times < 1,
         NEW i \in 1 .. Len(stack')
  PROVE  FrameOK(stack[i])' /\ (i < Len(stack') => stack'[i].calling)
<1>1. /\ Len(stack) \in 1 .. Len(stack) /\ Top = stack[Len(stack)]
      /\ Top \in Frame
  BY StackIs DEF General
<1>2. i \in 1 .. Len(stack) /\ Len(stack') = Len(stack)
  BY GoOnIs
<1>3. CASE i # Len(stack)
  <2>1. FrameOK(stack[i])'
    BY <1>2, <1>3, GoOnIs, FrameRemains
  <2>2. QED  BY <1>2, <1>3, <2>1, GoOnIs DEF General, EmitsOK
<1>4. CASE i = Len(stack)
  <2>1. PICK f \in Frame : f = Top
    BY <1>1
  <2>2. FrameOK(f)
    BY <1>1, <2>1 DEF General, EmitsOK
  <2>3. f.next <= Len(f.list) /\ (~kept => entries'[f.list[f.next]].times < 1)
    BY <2>1 DEF Visited
  <2>4. FrameOK(Gone(f, kept))'
    BY <2>2, <2>3, FrameGoesOn
  <2>5. stack'[i] = Gone(f, kept)
    BY <1>4, <2>1, GoOnIs
  <2>6. FrameOK(stack[i])'
    BY <2>4, <2>5 DEF FrameOK
  <2>7. ~(i < Len(stack'))
    BY <1>1, <1>2, <1>4
  <2>8. QED  BY <2>6, <2>7
<1>5. QED  BY <1>3, <1>4

LEMMA SkipGeneral ==
  ASSUME General, Skip
  PROVE  General' /\ Older
<1>1. /\ stack # <<>> /\ Top.next <= Len(Top.list)
      /\ entries[Visited].times < 1 /\ GoOn(FALSE)
      /\ UNCHANGED <<handlers, entries, expected, disturbed, calls>>
  BY DEF Skip, Visits, history
<1>2. Older
  BY <1>1 DEF Older
<1>3. entries'[Visited].times < 1
  BY <1>1
<1>4. \A i \in 1 .. Len(stack') :
        FrameOK(stack[i])' /\ (i < Len(stack') => stack'[i].calling)
  BY <1>1, <1>2, <1>3, GoOnFrames
<1>5. stack' \in Seq(Frame)
  BY <1>1, GoOnIs
<1>6. /\ disturbed' \subseteq Event /\ calls' \in [Entry -> Nat]
      /\ \A x \in Entry : entries[x] = Null => calls'[x] = 0
  BY <1>1 DEF General, EmitterTypeOK, EntriesOK
<1>7. QED  BY <1>1, <1>4, <1>5, <1>6, OnlyStack

\* A call that has ended counts down the times of its entry.
LEMMA ReturnEntry ==
  ASSUME General, Return
  PROVE  /\ stack # <<>> /\ Top.calling /\ Top.next <= Len(Top.list)
         /\ Visited \in Entry /\ Visited \in Made(Top.event)
         /\ Visited \in ToSet(Top.list) /\ Visited = Top.list[Top.next]
         /\ Top.event \in Event
         /\ entries' \in [Entry -> Listener \cup {Null}]
         /\ \A x \in Entry : x # Visited => entries'[x] = entries[x]
         /\ entries'[Visited] # Null
         /\ entries'[Visited].event = entries[Visited].event
         /\ entries'[Visited].given = entries[Visited].given
         /\ entries'[Visited].times = After(entries[Visited].times)
         /\ GoOn(entries'[Visited].times >= 1)
         /\ UNCHANGED <<handlers, disturbed, calls>>
<1>1. /\ stack # <<>> /\ Top.calling
      /\ entries' = [entries EXCEPT
                       ![Visited].times = After(entries[Visited].times)]
      /\ GoOn(After(entries[Visited].times) >= 1)
      /\ UNCHANGED <<handlers, disturbed, calls>>
  BY DEF Return
<1>2. Top.next <= Len(Top.list)
  BY <1>1, StackIs DEF General, EmitsOK, FrameOK
<1>3. /\ Visited \in Entry /\ Visited \in Made(Top.event)
      /\ Top.event \in Event
      /\ Visited \in ToSet(Top.list) /\ Visited = Top.list[Top.next]
  BY <1>1, <1>2, VisitedIs
<1> DEFINE v == Visited
           new == [entries[v] EXCEPT !.times = After(entries[v].times)]
<1>4. entries[v] # Null
  BY <1>3 DEF Made
<1>5. entries[v] \in Listener /\ entries[v].times \in Int /\ Infinity \in Nat
  BY <1>3, <1>4, EntryIs DEF General
<1>6. After(entries[v].times) \in Int
  BY <1>5 DEF After
<1>7. /\ new \in Listener /\ new.event = entries[v].event
      /\ new.given = entries[v].given
      /\ new.times = After(entries[v].times)
  BY <1>5, <1>6 DEF Listener
<1>8. entries' = [entries EXCEPT ![v] = new]
  BY <1>1
<1>9. entries \in [Entry -> Listener \cup {Null}]
  BY DEF General, EmitterTypeOK
<1>10. new # Null
  BY <1>7, EmitterAssumption
<1> HIDE DEF new, v
<1>11. v \in Entry
  BY <1>3 DEF v
<1>12. /\ entries' \in [Entry -> Listener \cup {Null}] /\ entries'[v] = new
       /\ \A x \in Entry : x # v => entries'[x] = entries[x]
  BY <1>7, <1>8, <1>9, <1>11
<1>13. /\ entries'[v] # Null /\ entries'[v].event = entries[v].event
       /\ entries'[v].given = entries[v].given
       /\ entries'[v].times = After(entries[v].times)
  BY <1>7, <1>10, <1>12
<1>14. QED  BY <1>1, <1>2, <1>3, <1>12, <1>13 DEF v

LEMMA ReturnLists ==
  ASSUME General, Return
  PROVE  LET v == Visited IN
         /\ expected' \in [Event -> Seq(Entry)]
         /\ \A d \in Event : d # Top.event => expected'[d] = expected[d]
         /\ entries'[v].times >= 1 =>
              expected'[Top.event] = expected[Top.event]
         /\ ~(entries'[v].times >= 1) =>
              expected'[Top.event] = Without(expected[Top.event], {v})
<1> DEFINE e == Top.event
           left == Without(expected[e], {Visited})
<1>1. e \in Event /\ entries'[Visited].times = After(entries[Visited].times)
  BY ReturnEntry
<1>2. expected \in [Event -> Seq(Entry)]
  BY DEF General, EmitterTypeOK
<1>3. left \in Seq(Entry)
  BY <1>1, <1>2, WithoutIs
<1>4. expected' = IF After(entries[Visited].times) >= 1 THEN expected
                  ELSE [expected EXCEPT ![e] = left]
  BY DEF Return
<1> HIDE DEF e, left
<1>5. /\ expected' \in [Event -> Seq(Entry)]
      /\ \A d \in Event : d # e => expected'[d] = expected[d]
      /\ entries'[Visited].times >= 1 => expected'[e] = expected[e]
      /\ ~(entries'[Visited].times >= 1) => expected'[e] = left
  BY <1>1, <1>2, <1>3, <1>4
<1>6. QED  BY <1>5 DEF e, left

LEMMA AfterIs ==
  ASSUME General, NEW x \in Entry, entries[x] # Null
  PROVE  LET times == entries[x].times IN
         /\ After(times) \in Int
         /\ times < 1 => After(times) < 1
         /\ After(times) = Infinity <=> times = Infinity
         /\ times # Infinity => After(times) = times - 1
         /\ After(times) # Infinity => After(times) <= MaxTimes
         /\ times = Infinity => After(times) >= 1
<1>1. /\ entries[x].times \in Int /\ Infinity \in Nat /\ Infinity > MaxTimes
      /\ Infinity >= 1 /\ MaxTimes \in Nat
      /\ entries[x].times # Infinity => entries[x].times <= MaxTimes
  BY EntryIs DEF General, EmitterTypeOK
<1>2. QED  BY <1>1 DEF After

LEMMA ReturnGeneral ==
  ASSUME General, Return
  PROVE  General' /\ Older
<1> DEFINE v == Visited
<1>1. v \in Entry /\ entries[v] # Null
  BY ReturnEntry DEF Made
<1>2. Older
  <2>1. ASSUME NEW x \in Entry, entries[x] # Null
        PROVE  /\ entries'[x] # Null
               /\ entries'[x].event = entries[x].event
               /\ entries[x].times < 1 => entries'[x].times < 1
    <3>1. CASE x = v
      BY <1>1, <3>1, ReturnEntry, AfterIs
    <3>2. CASE x # v
      BY <2>1, <3>2, ReturnEntry
    <3>3. QED  BY <3>1, <3>2
  <2>2. QED  BY <2>1 DEF Older
<1>3. entries'[v].times \in Int
  BY <1>1, AfterIs, ReturnEntry
<1>4. /\ stack # <<>> /\ Top.next <= Len(Top.list)
      /\ GoOn(entries'[v].times >= 1)
      /\ ~(entries'[v].times >= 1) => entries'[v].times < 1
  BY <1>3, ReturnEntry
<1>5. \/ entries'[v].times >= 1 /\ GoOn(TRUE)
      \/ entries'[v].times < 1 /\ GoOn(FALSE)
  BY <1>4 DEF GoOn, Gone
<1>6. PICK kept \in BOOLEAN : GoOn(kept) /\ (~kept => entries'[Visited].times < 1)
  BY <1>5
<1>7. \A i \in 1 .. Len(stack') :
        FrameOK(stack[i])' /\ (i < Len(stack') => stack'[i].calling)
  BY <1>2, <1>4, <1>6, GoOnFrames
<1>8. stack' \in Seq(Frame)
  BY <1>4, <1>6, GoOnIs
<1>9. ASSUME NEW d \in Event
      PROVE  /\ ToSet(ListOf(d)') \subseteq Made(d)'
             /\ ToSet(expected'[d]) \subseteq Made(d)'
             /\ IsInjective(expected'[d])
  <2>1. /\ ToSet(ListOf(d)) \subseteq Made(d)'
        /\ ToSet(expected[d]) \subseteq Made(d)'
        /\ IsInjective(expected[d])
    BY <1>2, MadeStay DEF General, EmitsOK
  <2>2. ListOf(d)' = ListOf(d)
    BY ReturnEntry DEF ListOf
  <2>3. expected[d] \in Seq(Entry)
    BY ListsAre DEF General
  <2>4. /\ ToSet(Without(expected[d], {v})) \subseteq ToSet(expected[d])
        /\ IsInjective(expected[d]) => IsInjective(Without(expected[d], {v}))
    BY <2>3, WithoutIs
  <2>5. expected'[d] = expected[d] \/ expected'[d] = Without(expected[d], {v})
    BY ReturnLists
  <2>6. QED  BY <2>1, <2>2, <2>4, <2>5
<1>10. EmitsOK'
  BY <1>7, <1>9 DEF EmitsOK
<1>11. ASSUME NEW x \in Entry, entries'[x] # Null, entries'[x].times # Infinity
       PROVE  entries'[x].times <= MaxTimes
  <2>1. CASE x = v
    BY <1>1, <1>11, <2>1, ReturnEntry, AfterIs
  <2>2. CASE x # v
    BY <1>11, <2>2, ReturnEntry DEF General, EmitterTypeOK
  <2>3. QED  BY <2>1, <2>2
<1>12. EmitterTypeOK'
  BY <1>8, <1>11, ReturnEntry, ReturnLists DEF General, EmitterTypeOK
<1>13. ASSUME NEW x \in Entry
       PROVE  /\ entries'[x] = Null => calls'[x] = 0
              /\ entries'[x] # Null =>
                   (entries'[x].times = Infinity <=> entries'[x].given = Infinity)
  <2>1. /\ entries[x] = Null => calls[x] = 0
        /\ entries[x] # Null =>
             (entries[x].times = Infinity <=> entries[x].given = Infinity)
    BY DEF General, EntriesOK
  <2>2. CASE x = v
    BY <1>1, <2>1, <2>2, ReturnEntry, AfterIs
  <2>3. CASE x # v
    BY <2>1, <2>3, ReturnEntry
  <2>4. QED  BY <2>2, <2>3
<1>14. EntriesOK'
  BY <1>13 DEF EntriesOK
<1>15. QED  BY <1>2, <1>10, <1>12, <1>14 DEF General

\* The innermost emits go: EmitEnds and Throws
LEMMA FirstFrames ==
  ASSUME General, NEW m \in 0 .. Len(stack), stack' = SubSeq(stack, 1, m)
  PROVE  /\ stack' \in Seq(Frame) /\ Len(stack') = m
         /\ \A i \in 1 .. m : stack'[i] = stack[i] /\ i \in 1 .. Len(stack)
<1>1. stack \in Seq(Frame) /\ Len(stack) \in Nat
  BY StackIs DEF General
<1>2. QED  BY <1>1

LEMMA FewerFrames ==
  ASSUME General, Older, NEW m \in 0 .. Len(stack),
         stack' = SubSeq(stack, 1, m), NEW i \in 1 .. Len(stack')
  PROVE  FrameOK(stack[i])' /\ (i < Len(stack') => stack'[i].calling)
<1>1. i \in 1 .. m /\ Len(stack') = m /\ m <= Len(stack)
      /\ stack'[i] = stack[i] /\ i \in 1 .. Len(stack) /\ Len(stack) \in Nat
  BY FirstFrames, StackIs DEF General
<1>2. FrameOK(stack[i])'
  BY <1>1, FrameRemains
<1>3. i < m => stack[i].calling
  BY <1>1 DEF General, EmitsOK
<1>4. QED  BY <1>1, <1>2, <1>3

\* The end of an emit replaces the list of its event, if it is current.
LEMMA EmitEndsIs ==
  ASSUME General, EmitEnds
  PROVE  /\ stack # <<>> /\ ~Top.calling
         /\ Top.next = Len(Top.list) + 1
         /\ Top \in Frame /\ FrameOK(Top) /\ Top.event \in Event
         /\ Top = stack[Len(stack)] /\ Len(stack) \in 1 .. Len(stack)
         /\ Len(stack) - 1 \in 0 .. Len(stack)
         /\ stack' = SubSeq(stack, 1, Len(stack) - 1)
         /\ handlers' \in [Event -> Seq(Entry) \cup {Null}]
         /\ \A d \in Event : ~(Top.current /\ d = Top.event) =>
              handlers'[d] = handlers[d] /\ ListOf(d)' = ListOf(d)
         /\ \A d \in Event :
              Top.current /\ d = Top.event => ListOf(d)' = Top.kept
         /\ UNCHANGED <<entries, expected, disturbed, calls>>
<1>1. /\ stack # <<>> /\ ~Top.calling /\ Top.next > Len(Top.list)
      /\ stack' = SubSeq(stack, 1, Len(stack) - 1)
      /\ handlers' = IF Top.current
                     THEN [handlers EXCEPT ![Top.event] = Top.kept]
                     ELSE handlers
      /\ UNCHANGED <<entries, expected, disturbed, calls>>
  BY DEF EmitEnds, Front, Kept, history
<1>2. /\ Top \in Frame /\ FrameOK(Top) /\ Top = stack[Len(stack)]
      /\ Len(stack) \in 1 .. Len(stack)
  BY <1>1, StackIs DEF General, EmitsOK
<1>3. /\ Top.event \in Event /\ Top.kept \in Seq(Entry)
      /\ Top.next \in Nat /\ Len(Top.list) \in Nat
  BY <1>2, FrameIs
<1>4. Top.next = Len(Top.list) + 1
  BY <1>1, <1>2, <1>3 DEF FrameOK
<1>5. handlers \in [Event -> Seq(Entry) \cup {Null}]
  BY DEF General, EmitterTypeOK
<1>6. Len(stack) - 1 \in 0 .. Len(stack)
  BY <1>2
<1> DEFINE e == Top.event
           kept == Top.kept
           current == Top.current
<1> HIDE DEF e, kept, current
<1>7. /\ e \in Event /\ kept \in Seq(Entry) /\ kept # Null
      /\ handlers' = IF current THEN [handlers EXCEPT ![e] = kept] ELSE handlers
  BY <1>1, <1>3, EmitterAssumption DEF e, kept, current
<1>8. handlers' \in [Event -> Seq(Entry) \cup {Null}]
  BY <1>5, <1>7
<1>9. \A d \in Event : ~(current /\ d = e) =>
        handlers'[d] = handlers[d] /\ ListOf(d)' = ListOf(d)
  BY <1>5, <1>7 DEF ListOf
<1>10. \A d \in Event : current /\ d = e => ListOf(d)' = kept
  <2>1. current => handlers'[e] = kept
    BY <1>5, <1>7
  <2>2. QED  BY <1>7, <2>1 DEF ListOf
<1>11. QED
  BY <1>1, <1>2, <1>3, <1>4, <1>6, <1>8, <1>9, <1>10 DEF e, kept, current

\* What was kept was in the list.
LEMMA KeptAreListed ==
  ASSUME NEW f \in Frame, FrameOK(f)
  PROVE  ToSet(f.kept) \subseteq ToSet(f.list)
<1>1. /\ f.list \in Seq(Entry) /\ f.next \in Nat /\ Len(f.list) \in Nat
      /\ f.next <= Len(f.list) + 1
      /\ \A x \in ToSet(f.kept) : \E k \in 1 .. f.next - 1 : f.list[k] = x
  BY FrameIs DEF FrameOK
<1>2. \A k \in 1 .. f.next - 1 : k \in 1 .. Len(f.list)
  BY <1>1
<1>3. \A k \in 1 .. Len(f.list) : f.list[k] \in ToSet(f.list)
  BY <1>1, ListIs
<1>4. QED  BY <1>1, <1>2, <1>3

LEMMA EmitEndsGeneral ==
  ASSUME General, EmitEnds
  PROVE  General' /\ Older
<1>1. Older
  BY EmitEndsIs DEF Older
<1>2. \A i \in 1 .. Len(stack') :
        FrameOK(stack[i])' /\ (i < Len(stack') => stack'[i].calling)
  BY <1>1, EmitEndsIs, FewerFrames
<1>3. stack' \in Seq(Frame)
  BY EmitEndsIs, FirstFrames
<1>4. ASSUME NEW d \in Event
      PROVE  /\ ToSet(ListOf(d)') \subseteq Made(d)'
             /\ ToSet(expected'[d]) \subseteq Made(d)'
             /\ IsInjective(expected'[d])
  <2>1. /\ ToSet(ListOf(d)) \subseteq Made(d)
        /\ ToSet(expected[d]) \subseteq Made(d)
        /\ IsInjective(expected[d])
    BY DEF General, EmitsOK
  <2>2. Made(d)' = Made(d) /\ expected'[d] = expected[d]
    BY EmitEndsIs DEF Made
  <2>3. CASE Top.current /\ d = Top.event
    <3>1. ToSet(Top.kept) \subseteq Made(d)
      BY <2>3, EmitEndsIs, KeptAreListed DEF FrameOK
    <3>2. ListOf(d)' = Top.kept
      BY <2>3, EmitEndsIs
    <3>3. QED  BY <2>1, <2>2, <3>1, <3>2
  <2>4. CASE ~(Top.current /\ d = Top.event)
    BY <2>1, <2>2, <2>4, EmitEndsIs
  <2>5. QED  BY <2>3, <2>4
<1>5. EmitsOK'
  BY <1>2, <1>4 DEF EmitsOK
<1>6. EmitterTypeOK'
  BY <1>3, EmitEndsIs DEF General, EmitterTypeOK
<1>7. EntriesOK'
  BY EmitEndsIs DEF General, EntriesOK
<1>8. QED  BY <1>1, <1>5, <1>6, <1>7 DEF General

\* An exception ends the emits down to the one it is caught in.
LEMMA ThrowsIs ==
  ASSUME General, Throws
  PROVE  \E m \in 0 .. Len(stack) :
           /\ stack' = SubSeq(stack, 1, m)
           /\ \A e \in Event, i \in m + 1 .. Len(stack) :
                stack[i].event = e /\ stack[i].current => e \in disturbed'
           /\ disturbed \subseteq disturbed' /\ disturbed' \subseteq Event
           /\ UNCHANGED <<handlers, entries, expected, calls>>
<1>1. Len(stack) \in Nat /\ DOMAIN stack = 1 .. Len(stack)
  BY StackIs DEF General
<1>2. PICK n \in 1 .. Len(stack) :
        /\ stack' = SubSeq(stack, 1, n - 1)
        /\ disturbed' = disturbed \cup
             {e \in Event : \E i \in n .. Len(stack) :
                             stack[i].event = e /\ stack[i].current}
  BY <1>1 DEF Throws
<1>3. n - 1 \in 0 .. Len(stack) /\ (n - 1) + 1 = n
  BY <1>1
<1>4. disturbed \subseteq Event
  BY DEF General, EmitterTypeOK
<1>5. UNCHANGED <<handlers, entries, expected, calls>>
  BY DEF Throws
<1>6. QED  BY <1>2, <1>3, <1>4, <1>5

LEMMA ThrowsGeneral ==
  ASSUME General, Throws
  PROVE  General' /\ Older
<1>1. PICK m \in 0 .. Len(stack) :
        /\ stack' = SubSeq(stack, 1, m)
        /\ disturbed' \subseteq Event
        /\ UNCHANGED <<handlers, entries, expected, calls>>
  BY ThrowsIs
<1>2. Older
  BY <1>1 DEF Older
<1>3. stack' \in Seq(Frame)
  BY <1>1, FirstFrames
<1>4. \A i \in 1 .. Len(stack') :
        FrameOK(stack[i])' /\ (i < Len(stack') => stack'[i].calling)
  BY <1>1, <1>2, FewerFrames
<1>5. calls' \in [Entry -> Nat] /\ \A x \in Entry : entries[x] = Null => calls'[x] = 0
  BY <1>1 DEF General, EmitterTypeOK, EntriesOK
<1>6. QED  BY <1>1, <1>3, <1>4, <1>5, OnlyStack

-----------------------------------------------------------------------------
(* What holds of an event while no listener uses it                        *)

\* An event is emitted if an emit of it is current.
LEMMA EmittedIs ==
  ASSUME General, NEW e \in Event
  PROVE  IsEmitted(e) <=> \E i \in Emits(e) : stack[i].current
BY StackIs DEF General, IsEmitted, Emits

LEMMA EmittedIsNext ==
  ASSUME General', NEW e \in Event
  PROVE  IsEmitted(e)' <=> \E i \in Emits(e)' : stack'[i].current
<1>1. stack' \in Seq(Frame)
  BY DEF General, EmitterTypeOK
<1>2. DOMAIN stack' = 1 .. Len(stack')
  BY <1>1
<1>3. QED  BY <1>2 DEF IsEmitted, Emits

\* Nobody expects what is not in the list.
LEMMA ExpectedAreListed ==
  ASSUME General, NEW e \in Event, EventOK(e), NEW x \in ToSet(expected[e])
  PROVE  x \in ToSet(ListOf(e))
<1>1. CASE IsEmitted(e)
  <2>1. PICK i \in Emits(e) : stack[i].current
    BY <1>1, EmittedIs
  <2>2. PICK f \in Frame : f = stack[i]
    BY StackIs DEF General, Emits
  <2>3. /\ ListOf(e) = f.list /\ Remains(expected[e], f)
        /\ FrameOK(f)
    BY <2>1, <2>2 DEF EventOK, ListsAgree, General, EmitsOK, Emits
  <2>4. expected[e] \in Seq(Entry)
    BY ListsAre DEF General
  <2>5. x \in ToSet(f.list)
    BY <2>3, <2>4, RemainsElements DEF FrameOK
  <2>6. QED  BY <2>3, <2>5
<1>2. CASE ~IsEmitted(e)
  BY <1>2 DEF EventOK, ListsAgree
<1>3. QED  BY <1>1, <1>2

\* What an emit calls is in its list, and of its event.
LEMMA CalledIsListed ==
  ASSUME General, NEW i \in 1 .. Len(stack), stack[i].calling
  PROVE  LET x == stack[i].list[stack[i].next] IN
         /\ x \in ToSet(stack[i].list)
         /\ x \in Made(stack[i].event)
<1>1. stack[i] \in Frame /\ FrameOK(stack[i])
  BY StackIs DEF General, EmitsOK
<1>2. /\ stack[i].list \in Seq(Entry)
      /\ stack[i].next \in 1 .. Len(stack[i].list)
  BY <1>1, FrameIs DEF FrameOK
<1>3. stack[i].list[stack[i].next] \in ToSet(stack[i].list)
  BY <1>2, ListIs
<1>4. QED  BY <1>1, <1>3 DEF FrameOK

\* What is called is an entry.
LEMMA CalledIsMade ==
  ASSUME General, NEW x, Called(x)
  PROVE  x \in Entry /\ entries[x] # Null
<1>1. PICK i \in 1 .. Len(stack) :
        stack[i].calling /\ stack[i].list[stack[i].next] = x
  BY DEF Called
<1>2. QED  BY <1>1, CalledIsListed DEF Made

\* What is counted of an entry goes on holding if nothing happens to it.
LEMMA CountedStays ==
  ASSUME NEW x, NEW e, Counted(x, e),
         entries'[x] = entries[x], calls'[x] = calls[x],
         Live(x, e)' => Live(x, e) /\ (Called(x)' <=> Called(x))
  PROVE  Counted(x, e)'
BY DEF Counted

\* Nothing has happened to the event.
LEMMA EventStays ==
  ASSUME General, General', NEW e \in Event, EventOK(e),
         UNCHANGED <<stack, calls>>,
         ListOf(e)' = ListOf(e), expected'[e] = expected[e],
         Made(e)' = Made(e),
         \A x \in Made(e) : entries'[x] = entries[x]
  PROVE  EventOK(e)'
<1>1. Emits(e)' = Emits(e) /\ (IsEmitted(e)' <=> IsEmitted(e))
  BY DEF Emits, IsEmitted
<1>2. ListsApart(e)'
  BY <1>1 DEF EventOK, ListsApart
<1>3. ToSet(expected[e]) \subseteq Made(e)
  BY DEF General, EmitsOK
<1>4. ListsAgree(e)'
  BY <1>1, <1>3 DEF EventOK, ListsAgree
<1>5. \A x : Called(x)' <=> Called(x)
  BY DEF Called
<1>6. \A x : Live(x, e)' <=> Live(x, e)
  BY <1>1 DEF Live
<1>7. ASSUME NEW x \in Made(e)'
      PROVE  Counted(x, e)'
  <2>1. Counted(x, e) /\ entries'[x] = entries[x] /\ calls'[x] = calls[x]
    BY DEF EventOK
  <2>2. QED  BY <1>5, <1>6, <2>1, CountedStays
<1>8. QED  BY <1>2, <1>4, <1>7 DEF EventOK

\* A listener is added to a list that nobody is to replace.
LEMMA AddEvent ==
  ASSUME General, General', NEW e \in Event, NEW x \in Entry, NEW func \in Func,
         NEW context \in Context, NEW times \in Times,
         AddListener(e, x, func, context, times),
         NEW d \in Event \ disturbed'
  PROVE  d \notin disturbed /\ (EventOK(d) => EventOK(d)')
<1>1. /\ UNCHANGED <<stack, calls>> /\ entries[x] = Null
      /\ disturbed' = IF IsEmitted(e) THEN disturbed \cup {e} ELSE disturbed
  BY DEF AddListener, Expects
<1>2. d \notin disturbed
  BY <1>1
<1> SUFFICES ASSUME EventOK(d) PROVE EventOK(d)'
  BY <1>2
<1>3. CASE d # e
  <2>1. Made(d)' = Made(d) /\ \A y \in Made(d) : entries'[y] = entries[y]
    BY <1>1, <1>3, AddEntry DEF Made
  <2>2. ListOf(d)' = ListOf(d) /\ expected'[d] = expected[d]
    BY <1>3, AddLists
  <2>3. QED  BY <1>1, <2>1, <2>2, EventStays
<1>4. CASE d = e
  <2>1. ~IsEmitted(e)
    BY <1>1, <1>4
  <2>2. /\ Emits(e)' = Emits(e) /\ (IsEmitted(e)' <=> IsEmitted(e))
        /\ \A y : Called(y)' <=> Called(y)
    BY <1>1 DEF Emits, IsEmitted, Called
  <2>3. \A i \in Emits(e) : ~stack[i].current
    BY <2>1, EmittedIs
  <2>4. /\ ListOf(e)' = Append(ListOf(e), x)
        /\ expected'[e] = Append(expected[e], x)
    BY AddLists
  <2>5. ListOf(e) = expected[e]
    BY <1>4, <2>1 DEF EventOK, ListsAgree
  <2>6. ListOf(e) \in Seq(Entry)
    BY ListsAre DEF General
  <2>7. x \notin ToSet(ListOf(e)) /\ \A i \in Emits(e) : x \notin ToSet(stack[i].list)
    BY <1>1, NotListed DEF Emits, General, EmitsOK, FrameOK, Made
  <2>8. /\ ToSet(ListOf(e)') = ToSet(ListOf(e)) \cup {x}
        /\ IsInjective(ListOf(e)) => IsInjective(ListOf(e)')
    BY <2>4, <2>6, <2>7, AppendIs
  <2>9. ListsApart(e)'
    BY <1>1, <1>4, <2>2, <2>3, <2>7, <2>8 DEF EventOK, ListsApart
  <2>10. ASSUME NEW y \in ToSet(expected'[e])
         PROVE  entries'[y].times >= 1
    <3>1. CASE y = x
      BY <3>1, AddEntry
    <3>2. CASE y # x
      <4>1. y \in ToSet(expected[e])
        BY <2>4, <2>5, <2>8, <3>2
      <4>2. y \in Entry
        BY <4>1 DEF General, EmitsOK, Made
      <4>3. QED  BY <1>4, <3>2, <4>1, <4>2, AddEntry DEF EventOK, ListsAgree
    <3>3. QED  BY <3>1, <3>2
  <2>11. ListsAgree(e)'
    BY <1>1, <2>2, <2>3, <2>4, <2>5, <2>10 DEF ListsAgree
  <2>12. ASSUME NEW y \in Made(e)'
         PROVE  Counted(y, e)'
    <3>1. CASE y = x
      <4>1. ~Called(x)'
        BY <1>1, <2>2, CalledIsMade
      <4>2. calls'[x] = 0 /\ entries'[x].times = entries'[x].given
            /\ entries'[x].times \in Int /\ entries'[x].times >= 1
        BY <1>1, AddEntry DEF General, EntriesOK
      <4>3. QED  BY <3>1, <4>1, <4>2 DEF Counted
    <3>2. CASE y # x
      <4>1. y \in Made(e) /\ entries'[y] = entries[y]
        BY <3>2, AddEntry DEF Made
      <4>2. Live(y, e)' => Live(y, e)
        BY <1>1, <2>2, <2>8, <3>2 DEF Live
      <4>3. QED
        BY <1>1, <1>4, <2>2, <4>1, <4>2, CountedStays DEF EventOK
    <3>3. QED  BY <3>1, <3>2
  <2>13. QED  BY <1>4, <2>9, <2>11, <2>12 DEF EventOK
<1>5. QED  BY <1>3, <1>4

\* Listeners are removed from a list that nobody is to replace.
LEMMA RemoveEvent ==
  ASSUME General, General', NEW e \in Event, NEW gone, RemoveListener(e, gone),
         NEW d \in Event \ disturbed'
  PROVE  d \notin disturbed /\ (EventOK(d) => EventOK(d)')
<1>1. /\ UNCHANGED <<stack, entries, calls>>
      /\ disturbed' = IF IsEmitted(e) THEN disturbed \cup {e} ELSE disturbed
  BY DEF RemoveListener, Expects
<1>2. d \notin disturbed
  BY <1>1
<1> SUFFICES ASSUME EventOK(d) PROVE EventOK(d)'
  BY <1>2
<1>3. Made(d)' = Made(d) /\ \A y \in Made(d) : entries'[y] = entries[y]
  BY <1>1 DEF Made
<1>4. CASE d # e
  <2>1. ListOf(d)' = ListOf(d) /\ expected'[d] = expected[d]
    BY <1>4, RemoveLists
  <2>2. QED  BY <1>1, <1>3, <2>1, EventStays
<1>5. CASE d = e
  <2>1. ~IsEmitted(e)
    BY <1>1, <1>5
  <2>2. /\ Emits(e)' = Emits(e) /\ (IsEmitted(e)' <=> IsEmitted(e))
        /\ \A y : Called(y)' <=> Called(y)
    BY <1>1 DEF Emits, IsEmitted, Called
  <2>3. \A i \in Emits(e) : ~stack[i].current
    BY <2>1, EmittedIs
  <2>4. /\ ListOf(e)' = Without(ListOf(e), gone)
        /\ expected'[e] = Without(expected[e], gone)
    BY RemoveLists
  <2>5. ListOf(e) = expected[e]
    BY <1>5, <2>1 DEF EventOK, ListsAgree
  <2>6. ListOf(e) \in Seq(Entry)
    BY ListsAre DEF General
  <2>7. /\ ToSet(ListOf(e)') \subseteq ToSet(ListOf(e))
        /\ IsInjective(ListOf(e)) => IsInjective(ListOf(e)')
    BY <2>4, <2>6, WithoutIs
  <2>8. ListsApart(e)'
    BY <1>1, <1>5, <2>2, <2>3, <2>7 DEF EventOK, ListsApart
  <2>9. ListsAgree(e)'
    BY <1>1, <1>5, <2>2, <2>3, <2>4, <2>5, <2>7 DEF EventOK, ListsAgree
  <2>10. ASSUME NEW y \in Made(e)'
         PROVE  Counted(y, e)'
    <3>1. Live(y, e)' => Live(y, e)
      BY <1>1, <2>2, <2>7 DEF Live
    <3>2. QED  BY <1>1, <1>3, <1>5, <2>2, <3>1, CountedStays DEF EventOK
  <2>11. QED  BY <1>5, <2>8, <2>9, <2>10 DEF EventOK
<1>6. QED  BY <1>4, <1>5

\* Lists that are exchanged have nothing in common with the new ones.
LEMMA RemoveAllEvent ==
  ASSUME General, General', RemoveAll, NEW d \in Event \ disturbed'
  PROVE  d \notin disturbed /\ (EventOK(d) => EventOK(d)')
<1>1. UNCHANGED <<entries, disturbed, calls>>
  BY DEF RemoveAll
<1>2. d \notin disturbed
  BY <1>1
<1> SUFFICES ASSUME EventOK(d) PROVE EventOK(d)'
  BY <1>2
<1>3. /\ Emits(d)' = Emits(d) /\ \A y : Called(y)' <=> Called(y)
      /\ Made(d)' = Made(d)
  BY <1>1, RemoveAllIs DEF Emits, Called, Made
<1>4. /\ ListOf(d)' = <<>> /\ expected'[d] = <<>> /\ IsInjective(<<>>)
      /\ ToSet(<<>>) = {}
  BY RemoveAllIs, EmptyIs
<1>5. \A i \in Emits(d) : /\ stack'[i].list = stack[i].list
                          /\ stack'[i].kept = stack[i].kept
                          /\ ~stack'[i].current
  BY RemoveAllIs DEF Emits
<1>6. ListsApart(d)'
  BY <1>3, <1>4, <1>5 DEF EventOK, ListsApart
<1>7. ListsAgree(d)'
  BY <1>3, <1>4, <1>5 DEF ListsAgree
<1>8. ASSUME NEW y \in Made(d)'
      PROVE  Counted(y, d)'
  <2>1. Live(y, d)' => Live(y, d)
    BY <1>3, <1>4, <1>5 DEF Live
  <2>2. QED  BY <1>1, <1>3, <2>1, CountedStays DEF EventOK
<1>9. QED  BY <1>6, <1>7, <1>8 DEF EventOK

\* An emit that begins has the whole list still to visit.
LEMMA EmitEvent ==
  ASSUME General, General', NEW e \in Event, Emit(e),
         NEW d \in Event \ disturbed'
  PROVE  d \notin disturbed /\ (EventOK(d) => EventOK(d)')
<1> DEFINE n == Len(stack) + 1
<1>1. /\ UNCHANGED <<handlers, entries, expected, calls>>
      /\ disturbed' = IF IsEmitted(e) THEN disturbed \cup {e} ELSE disturbed
      /\ Len(stack) \in Nat
  BY StackIs DEF Emit, General
<1>2. d \notin disturbed
  BY <1>1
<1> SUFFICES ASSUME EventOK(d) PROVE EventOK(d)'
  BY <1>2
<1>3. /\ \A i : i \in 1 .. Len(stack') <=> i \in 1 .. Len(stack) \/ i = n
      /\ n \notin 1 .. Len(stack)
      /\ \A i \in 1 .. Len(stack) : stack'[i] = stack[i]
      /\ stack'[n].event = e /\ stack'[n].list = ListOf(e)
      /\ stack'[n].next = 1 /\ stack'[n].kept = <<>>
      /\ ~stack'[n].calling /\ stack'[n].current
      /\ stack'[n] \in Frame
  <2>1. /\ Len(stack') = n /\ n \in 1 .. Len(stack') /\ stack' \in Seq(Frame)
    BY <1>1, EmitIs
  <2>2. QED  BY <1>1, <2>1, EmitIs
<1> HIDE DEF n
<1>4. /\ Made(d)' = Made(d) /\ ListOf(d)' = ListOf(d)
      /\ expected'[d] = expected[d]
  BY <1>1 DEF Made, ListOf
<1>5. \A y : Called(y)' <=> Called(y)
  BY <1>3 DEF Called
<1>6. \A i \in Emits(d) : i \in 1 .. Len(stack) /\ stack'[i] = stack[i]
  BY <1>3 DEF Emits
<1>7. CASE d # e
  <2>1. Emits(d)' = Emits(d)
    BY <1>3, <1>7 DEF Emits
  <2>2. IsEmitted(d)' <=> IsEmitted(d)
    BY <1>6, <2>1, EmittedIs, EmittedIsNext
  <2>3. ListsApart(d)'
    BY <1>4, <1>6, <2>1 DEF EventOK, ListsApart
  <2>4. ListsAgree(d)'
    BY <1>1, <1>4, <1>6, <2>1, <2>2 DEF EventOK, ListsAgree
  <2>5. ASSUME NEW y \in Made(d)'
        PROVE  Counted(y, d)'
    <3>1. Live(y, d)' => Live(y, d)
      BY <1>4, <1>6, <2>1 DEF Live
    <3>2. QED  BY <1>1, <1>4, <1>5, <3>1, CountedStays DEF EventOK
  <2>6. QED  BY <2>3, <2>4, <2>5 DEF EventOK
<1>8. CASE d = e
  <2>1. ~IsEmitted(e)
    BY <1>1, <1>8
  <2>2. \A i \in Emits(e) : ~stack[i].current
    BY <2>1, EmittedIs
  <2>3. \A i : i \in Emits(e)' <=> i \in Emits(e) \/ i = n
    BY <1>3 DEF Emits
  <2>4. IsInjective(<<>>)
    BY EmptyIs
  <2>5. ListsApart(e)'
    <3>1. IsInjective(ListOf(e))
      BY <1>8 DEF EventOK, ListsApart
    <3>2. ASSUME NEW i \in Emits(e)'
          PROVE  /\ IsInjective(stack'[i].list) /\ IsInjective(stack'[i].kept)
                 /\ ~stack'[i].current =>
                      \A x \in ToSet(stack'[i].list) : x \notin ToSet(ListOf(e)')
      <4>1. CASE i = n
        BY <1>3, <2>4, <3>1, <4>1
      <4>2. CASE i \in Emits(e)
        BY <1>4, <1>6, <1>8, <4>2 DEF EventOK, ListsApart
      <4>3. QED  BY <2>3, <4>1, <4>2
    <3>3. ASSUME NEW i \in Emits(e)', NEW j \in Emits(e)', i # j
          PROVE  /\ ~(stack'[i].current /\ stack'[j].current)
                 /\ \A x \in ToSet(stack'[i].list) : x \notin ToSet(stack'[j].list)
      <4>1. CASE i = n
        <5>1. j \in Emits(e)
          BY <2>3, <3>3, <4>1
        <5>2. /\ ~stack[j].current
              /\ \A x \in ToSet(stack[j].list) : x \notin ToSet(ListOf(e))
          BY <1>8, <2>2, <5>1 DEF EventOK, ListsApart
        <5>3. QED  BY <1>3, <1>6, <1>8, <4>1, <5>1, <5>2
      <4>2. CASE j = n
        <5>1. i \in Emits(e)
          BY <2>3, <3>3, <4>2
        <5>2. /\ ~stack[i].current
              /\ \A x \in ToSet(stack[i].list) : x \notin ToSet(ListOf(e))
          BY <1>8, <2>2, <5>1 DEF EventOK, ListsApart
        <5>3. QED  BY <1>3, <1>6, <1>8, <4>2, <5>1, <5>2
      <4>3. CASE i # n /\ j # n
        <5>1. i \in Emits(e) /\ j \in Emits(e)
          BY <2>3, <4>3
        <5>2. QED  BY <1>6, <1>8, <3>3, <5>1 DEF EventOK, ListsApart
      <4>4. QED  BY <4>1, <4>2, <4>3
    <3>4. IsInjective(ListOf(e)')
      BY <1>4, <1>8, <3>1
    <3>5. QED  BY <3>2, <3>3, <3>4 DEF ListsApart
  <2>6. ListsAgree(e)'
    <3>1. ListOf(e) = expected[e]
      BY <1>8, <2>1 DEF EventOK, ListsAgree
    <3>2. Remains(ListOf(e), stack'[n])
      <4>1. PICK f \in Frame : f = stack'[n]
        BY <1>3
      <4>2. f.next = 1 /\ f.kept = <<>> /\ f.list = ListOf(e)
        BY <1>3, <4>1
      <4>3. Remains(ListOf(e), f)
        BY <4>2, RemainsAtFirst
      <4>4. QED  BY <4>1, <4>3
    <3>3. ASSUME NEW i \in Emits(e)', stack'[i].current
          PROVE  i = n
      BY <1>6, <1>8, <2>2, <2>3, <3>3
    <3>4. IsEmitted(e)'
      <4>1. n \in Emits(e)' /\ stack'[n].current
        BY <1>3, <2>3
      <4>2. QED  BY <4>1, EmittedIsNext
    <3>5. \A i \in Emits(e)' : stack'[i].current =>
            ListOf(e)' = stack'[i].list /\ Remains(expected[e], stack[i])'
      BY <1>3, <1>4, <1>8, <3>1, <3>2, <3>3 DEF Remains
    <3>6. \A x \in ToSet(expected'[e]) : entries'[x].times >= 1
      BY <1>1, <1>8 DEF EventOK, ListsAgree
    <3>7. QED  BY <3>4, <3>5, <3>6 DEF ListsAgree
  <2>7. ASSUME NEW y \in Made(e)'
        PROVE  Counted(y, e)'
    <3>1. Live(y, e)' => Live(y, e)
      BY <1>3, <1>4, <1>6, <1>8, <2>3 DEF Live
    <3>2. QED  BY <1>1, <1>4, <1>5, <1>8, <3>1, CountedStays DEF EventOK
  <2>8. QED  BY <1>8, <2>5, <2>6, <2>7 DEF EventOK
<1>9. QED  BY <1>7, <1>8

\* Emits go, and none of them was to replace the list of the event: what
\* they called is in no other list.
LEMMA FewerEvent ==
  ASSUME General, General', NEW m \in 0 .. Len(stack),
         stack' = SubSeq(stack, 1, m), UNCHANGED <<entries, expected, calls>>,
         NEW d \in Event, EventOK(d), ListOf(d)' = ListOf(d),
         \A i \in m + 1 .. Len(stack) :
           ~(stack[i].event = d /\ stack[i].current)
  PROVE  EventOK(d)'
<1>1. /\ Len(stack') = m /\ m <= Len(stack) /\ Len(stack) \in Nat
      /\ \A i \in 1 .. m : stack'[i] = stack[i] /\ i \in 1 .. Len(stack)
  BY FirstFrames, StackIs DEF General
<1>2. \A i : i \in Emits(d)' <=> i \in Emits(d) /\ i \in 1 .. m
  BY <1>1 DEF Emits
<1>3. \A i \in Emits(d) : i \notin 1 .. m => ~stack[i].current
  BY <1>1 DEF Emits
<1>4. IsEmitted(d)' <=> IsEmitted(d)
  BY <1>1, <1>2, <1>3, EmittedIs, EmittedIsNext
<1>5. ListsApart(d)'
  BY <1>1, <1>2 DEF EventOK, ListsApart
<1>6. ListsAgree(d)'
  BY <1>1, <1>2, <1>4 DEF EventOK, ListsAgree
<1>7. ASSUME NEW y \in Made(d)'
      PROVE  Counted(y, d)'
  <2>1. y \in Made(d) /\ Counted(y, d)
    BY DEF Made, EventOK
  <2>2. Live(y, d)' => Live(y, d)
    BY <1>1, <1>2 DEF Live
  <2>3. Called(y)' => Called(y)
    BY <1>1 DEF Called
  <2>4. ASSUME Live(y, d)', Called(y) PROVE Called(y)'
    <3>1. PICK i \in 1 .. Len(stack) :
            stack[i].calling /\ stack[i].list[stack[i].next] = y
      BY <2>4 DEF Called
    <3>2. CASE i \in 1 .. m
      BY <1>1, <3>1, <3>2 DEF Called
    <3>3. CASE i \notin 1 .. m
      <4>1. y \in ToSet(stack[i].list) /\ stack[i].event = d
        BY <2>1, <3>1, CalledIsListed DEF Made
      <4>2. i \in Emits(d) /\ ~stack[i].current
        BY <1>3, <3>3, <4>1 DEF Emits
      <4>3. y \notin ToSet(ListOf(d))
        BY <4>1, <4>2 DEF EventOK, ListsApart
      <4>4. \A j \in Emits(d) : j # i => y \notin ToSet(stack[j].list)
        BY <4>1, <4>2 DEF EventOK, ListsApart
      <4>5. PICK j \in Emits(d)' : y \in ToSet(stack'[j].list)
        BY <2>4, <4>3 DEF Live
      <4>6. j \in Emits(d) /\ j # i /\ stack'[j] = stack[j]
        BY <1>1, <1>2, <3>3, <4>5
      <4>7. QED  BY <4>4, <4>5, <4>6
    <3>4. QED  BY <3>2, <3>3
  <2>5. QED  BY <2>1, <2>2, <2>3, <2>4, CountedStays
<1>8. QED  BY <1>5, <1>6, <1>7 DEF EventOK

\* The emits an exception leaves were not current, or their event is disturbed.
LEMMA ThrowsEvent ==
  ASSUME General, General', Throws, NEW d \in Event \ disturbed'
  PROVE  d \notin disturbed /\ (EventOK(d) => EventOK(d)')
<1>1. PICK m \in 0 .. Len(stack) :
        /\ stack' = SubSeq(stack, 1, m)
        /\ \A e \in Event, i \in m + 1 .. Len(stack) :
             stack[i].event = e /\ stack[i].current => e \in disturbed'
        /\ disturbed \subseteq disturbed'
        /\ UNCHANGED <<handlers, entries, expected, calls>>
  BY ThrowsIs
<1>2. \A i \in m + 1 .. Len(stack) : ~(stack[i].event = d /\ stack[i].current)
  BY <1>1
<1>3. ListOf(d)' = ListOf(d)
  BY <1>1 DEF ListOf
<1>4. QED  BY <1>1, <1>2, <1>3, FewerEvent

\* When all is visited, what is kept is what is expected.
LEMMA EmitEndsEvent ==
  ASSUME General, General', EmitEnds, NEW d \in Event \ disturbed'
  PROVE  d \notin disturbed /\ (EventOK(d) => EventOK(d)')
<1> DEFINE n == Len(stack)
<1>1. d \notin disturbed
  BY EmitEndsIs
<1> SUFFICES ASSUME EventOK(d) PROVE EventOK(d)'
  BY <1>1
<1>2. /\ UNCHANGED <<entries, expected, calls>>
      /\ n \in 1 .. n /\ n \in Nat /\ n - 1 \in 0 .. n
      /\ stack' = SubSeq(stack, 1, n - 1)
      /\ Top = stack[n] /\ \A i \in (n - 1) + 1 .. n : i = n
  BY EmitEndsIs, StackIs DEF General
<1>3. CASE ~(Top.current /\ d = Top.event)
  <2>1. ListOf(d)' = ListOf(d)
    BY <1>3, EmitEndsIs
  <2>2. \A i \in (n - 1) + 1 .. n : ~(stack[i].event = d /\ stack[i].current)
    BY <1>2, <1>3
  <2>3. QED  BY <1>2, <2>1, <2>2, FewerEvent
<1>4. CASE Top.current /\ d = Top.event
  <2>1. PICK f \in Frame : f = Top
    BY EmitEndsIs
  <2>2. /\ f.current /\ f.event = d /\ f.next = Len(f.list) + 1 /\ ~f.calling
        /\ FrameOK(f) /\ f = stack[n] /\ n \in Emits(d)
    BY <1>2, <1>4, <2>1, EmitEndsIs DEF Emits
  <2>3. /\ Len(stack') = n - 1
        /\ \A i \in 1 .. n - 1 : stack'[i] = stack[i] /\ i \in 1 .. n /\ i # n
        /\ \A i \in 1 .. n : i # n => i \in 1 .. n - 1
    <3>1. \A m \in 0 .. n : m = n - 1 =>
            Len(stack') = m /\ \A i \in 1 .. m : stack'[i] = stack[i]
      BY <1>2, FirstFrames
    <3> HIDE DEF n
    <3>2. Len(stack') = n - 1 /\ \A i \in 1 .. n - 1 : stack'[i] = stack[i]
      BY <1>2, <3>1
    <3>3. QED  BY <1>2, <3>2
  <2> HIDE DEF n
  <2>4. \A i : i \in Emits(d)' <=> i \in Emits(d) /\ i # n
    BY <2>3 DEF Emits, n
  <2>5. ListOf(d) = f.list /\ Remains(expected[d], f)
    BY <2>2 DEF EventOK, ListsAgree
  <2>6. expected[d] \in Seq(Entry)
    BY ListsAre DEF General
  <2>7. expected[d] = f.kept /\ ListOf(d)' = f.kept
    BY <1>4, <2>1, <2>2, <2>5, <2>6, EmitEndsIs, RemainsAtEnd
  <2>8. ToSet(f.kept) \subseteq ToSet(f.list) /\ IsInjective(f.kept)
    BY <2>2, KeptAreListed DEF EventOK, ListsApart
  <2>9. \A i \in Emits(d) : i # n =>
          /\ ~stack[i].current
          /\ stack'[i] = stack[i]
          /\ \A x \in ToSet(stack[i].list) : x \notin ToSet(f.list)
    BY <2>2, <2>3 DEF EventOK, ListsApart, Emits, n
  <2>10. ListsApart(d)'
    BY <2>4, <2>7, <2>8, <2>9 DEF EventOK, ListsApart
  <2>11. ListsAgree(d)'
    <3>1. ~IsEmitted(d)'
      BY <2>4, <2>9, EmittedIsNext
    <3>2. QED  BY <1>2, <2>4, <2>7, <2>9, <3>1 DEF EventOK, ListsAgree
  <2>12. ASSUME NEW y \in Made(d)'
         PROVE  Counted(y, d)'
    <3>1. y \in Made(d) /\ Counted(y, d)
      BY <1>2 DEF Made, EventOK
    <3>2. Live(y, d)' => Live(y, d)
      BY <2>2, <2>4, <2>5, <2>7, <2>8, <2>9 DEF Live
    <3>3. Called(y)' <=> Called(y)
      BY <2>2, <2>3 DEF Called, n
    <3>4. QED  BY <1>2, <3>1, <3>2, <3>3, CountedStays
  <2>13. QED  BY <2>10, <2>11, <2>12 DEF EventOK
<1>5. QED  BY <1>3, <1>4

\* Frames with the same lists, of which only the innermost has changed
SameShape ==
  /\ Len(stack') = Len(stack)
  /\ \A i \in 1 .. Len(stack) :
       /\ stack'[i].event = stack[i].event /\ stack'[i].list = stack[i].list
       /\ stack'[i].current = stack[i].current
       /\ i # Len(stack) => stack'[i] = stack[i]

LEMMA SameShapeIs ==
  ASSUME General, General', SameShape, UNCHANGED handlers, NEW d \in Event
  PROVE  /\ Emits(d)' = Emits(d) /\ ListOf(d)' = ListOf(d)
         /\ IsEmitted(d)' <=> IsEmitted(d)
         /\ \A x : Live(x, d)' <=> Live(x, d)
<1>1. Emits(d)' = Emits(d) /\ ListOf(d)' = ListOf(d)
  BY DEF SameShape, Emits, ListOf
<1>2. IsEmitted(d)' <=> IsEmitted(d)
  BY <1>1, EmittedIs, EmittedIsNext DEF SameShape, Emits
<1>3. \A x : Live(x, d)' <=> Live(x, d)
  BY <1>1 DEF SameShape, Live, Emits
<1>4. QED  BY <1>1, <1>2, <1>3

\* Whoever calls the entry the innermost emit is at is that emit.
LEMMA OnlyTopCalls ==
  ASSUME General, stack # <<>>, Top.next <= Len(Top.list),
         NEW d \in Event, EventOK(d), d = Top.event,
         NEW i \in 1 .. Len(stack), stack[i].calling,
         stack[i].list[stack[i].next] = Visited
  PROVE  i = Len(stack)
<1>1. /\ Len(stack) \in 1 .. Len(stack) /\ Top = stack[Len(stack)]
  BY StackIs DEF General
<1>2. Visited \in ToSet(Top.list) /\ Visited \in Made(d)
  BY VisitedIs
<1>3. Visited \in ToSet(stack[i].list) /\ Visited \in Made(stack[i].event)
  BY CalledIsListed
<1>4. stack[i].event = d
  BY <1>2, <1>3 DEF Made
<1>5. i \in Emits(d) /\ Len(stack) \in Emits(d)
  BY <1>1, <1>4 DEF Emits
<1>6. QED  BY <1>1, <1>2, <1>3, <1>5 DEF EventOK, ListsApart

LEMMA CallShape ==
  ASSUME General, Call
  PROVE  SameShape
<1>1. stack # <<>> /\ Len(stack') = Len(stack)
  BY CallIs
<1>2. Top = stack[Len(stack)]
  BY <1>1, StackIs DEF General
<1>3. QED  BY <1>1, <1>2, CallIs DEF SameShape

LEMMA GoOnShape ==
  ASSUME General, stack # <<>>, Top.next <= Len(Top.list),
         NEW kept \in BOOLEAN, GoOn(kept)
  PROVE  SameShape /\ ~stack'[Len(stack)].calling
<1>1. Top = stack[Len(stack)] /\ Top \in Frame
  BY StackIs DEF General
<1>2. PICK f \in Frame : f = Top
  BY <1>1
<1>3. LET g == Gone(f, kept) IN
      g.event = f.event /\ g.list = f.list /\ g.current = f.current
      /\ g.calling = FALSE
  BY <1>2, GoneIs
<1>4. /\ Len(stack') = Len(stack) /\ stack'[Len(stack)] = Gone(f, kept)
      /\ \A i \in 1 .. Len(stack) : i # Len(stack) => stack'[i] = stack[i]
  BY <1>2, GoOnIs
<1>5. QED  BY <1>1, <1>2, <1>3, <1>4 DEF SameShape

\* Only of the entry an emit is at is it said whether it is called.
LEMMA CalledStays ==
  ASSUME General, stack # <<>>, Top.next <= Len(Top.list), SameShape,
         Len(stack) \in 1 .. Len(stack),
         Top.calling \/ stack'[Len(stack)].calling,
         stack'[Len(stack)].calling => stack'[Len(stack)].next = Top.next,
         NEW x, x # Visited
  PROVE  Called(x)' <=> Called(x)
<1>1. Top = stack[Len(stack)]
  BY StackIs DEF General
<1>2. QED  BY <1>1 DEF Called, SameShape, Visited

\* A call is one more, and takes one of the times that are left.
LEMMA CallEvent ==
  ASSUME General, General', Call, NEW d \in Event \ disturbed'
  PROVE  d \notin disturbed /\ (EventOK(d) => EventOK(d)')
<1> DEFINE n == Len(stack)
<1>0. PICK v \in Entry : v = Visited
  BY CallIs, VisitedIs
<1>1. /\ UNCHANGED <<handlers, entries, expected, disturbed>>
      /\ entries[v].times >= 1
      /\ calls' = [calls EXCEPT ![v] = IF @ > MaxTimes THEN @ ELSE @ + 1]
  BY <1>0 DEF Call
<1>2. d \notin disturbed
  BY <1>1
<1> SUFFICES ASSUME EventOK(d) PROVE EventOK(d)'
  BY <1>2
<1>3. /\ stack # <<>> /\ ~Top.calling /\ Top.next <= Len(Top.list)
      /\ SameShape /\ n \in 1 .. n /\ Top = stack[n]
  BY CallIs, CallShape, StackIs DEF General
<1>4. /\ Emits(d)' = Emits(d) /\ ListOf(d)' = ListOf(d)
      /\ IsEmitted(d)' <=> IsEmitted(d)
      /\ \A x : Live(x, d)' <=> Live(x, d)
  BY <1>1, <1>3, SameShapeIs
<1>5. \A i \in Emits(d) :
        /\ stack'[i].list = stack[i].list /\ stack'[i].kept = stack[i].kept
        /\ stack'[i].next = stack[i].next
        /\ stack'[i].current = stack[i].current
  BY <1>3, CallIs DEF Emits
<1>6. ListsApart(d)'
  BY <1>4, <1>5 DEF EventOK, ListsApart
<1>7. ListsAgree(d)'
  <2>1. ASSUME NEW i \in Emits(d)
        PROVE  Remains(expected[d], stack[i])' <=> Remains(expected[d], stack[i])
    BY <1>1, <1>5 DEF Remains
  <2>2. QED  BY <1>1, <1>4, <1>5, <2>1 DEF EventOK, ListsAgree
<1>8. v \in Entry /\ v \in Made(Top.event)
  BY <1>0, <1>3, VisitedIs
<1>9. calls \in [Entry -> Nat]
  BY DEF General, EmitterTypeOK
<1>10. stack'[n].calling /\ stack'[n].next = Top.next /\ stack'[n].list = Top.list
  BY CallIs
<1>11. ASSUME NEW y \in Made(d)'
       PROVE  Counted(y, d)'
  <2>1. y \in Made(d) /\ Counted(y, d) /\ y \in Entry
    BY <1>1 DEF Made, EventOK
  <2>2. CASE y # v
    <3>1. Called(y)' <=> Called(y)
      BY <1>0, <1>3, <1>10, <2>2, CalledStays
    <3>2. calls'[y] = calls[y] /\ entries'[y] = entries[y]
      BY <1>1, <1>9, <2>1, <2>2
    <3>3. QED  BY <1>4, <2>1, <3>1, <3>2, CountedStays
  <2>3. CASE y = v
    <3>1. d = Top.event
      BY <1>8, <2>1, <2>3 DEF Made
    <3>2. ~Called(v)
      BY <1>0, <1>3, <3>1, OnlyTopCalls DEF Called
    <3>3. Live(v, d)
      <4>1. v \in ToSet(Top.list)
        BY <1>0, <1>3, VisitedIs
      <4>2. n \in Emits(d)
        BY <1>3, <3>1 DEF Emits
      <4>3. QED  BY <1>3, <4>1, <4>2 DEF Live
    <3>4. Called(v)'
      BY <1>0, <1>3, <1>10 DEF Called, Visited, SameShape
    <3>5. /\ entries[v].times \in Int /\ entries[v].given \in Int
          /\ entries'[v] = entries[v] /\ calls[v] \in Nat
      BY <1>1, <1>8, <1>9, EntryIs DEF General, Made
    <3>6. calls'[v] = calls[v] \/ calls'[v] = calls[v] + 1
      BY <1>1, <1>8, <1>9
    <3>7. entries[v].given # Infinity =>
            calls[v] <= entries[v].given
            /\ calls[v] + entries[v].times <= entries[v].given
      BY <2>1, <2>3, <3>2, <3>3 DEF Counted
    <3>8. entries[v].given # Infinity =>
            /\ calls'[v] <= entries[v].given
            /\ calls'[v] + entries[v].times - 1 <= entries[v].given
      BY <1>1, <3>5, <3>6, <3>7
    <3>9. Counted(y, d)'
      BY <1>1, <2>3, <3>4, <3>5, <3>8 DEF Counted
    <3>10. QED  BY <3>9
  <2>4. QED  BY <2>2, <2>3
<1>12. QED  BY <1>6, <1>7, <1>11 DEF EventOK

\* When filter goes on the lists stay apart: what it keeps is kept once.
LEMMA GoOnApart ==
  ASSUME General, General', stack # <<>>, Top.next <= Len(Top.list),
         NEW kept \in BOOLEAN, GoOn(kept), UNCHANGED handlers,
         NEW d \in Event, EventOK(d)
  PROVE  ListsApart(d)'
<1> DEFINE n == Len(stack)
<1>1. SameShape
  BY GoOnShape
<1>2. Emits(d)' = Emits(d) /\ ListOf(d)' = ListOf(d)
  BY <1>1, SameShapeIs
<1>3. \A i \in Emits(d) : /\ stack'[i].list = stack[i].list
                          /\ stack'[i].current = stack[i].current
                          /\ i # n => stack'[i].kept = stack[i].kept
  BY <1>1 DEF SameShape, Emits
<1>4. ASSUME n \in Emits(d)
      PROVE  IsInjective(stack'[n].kept)
  <2>1. Top = stack[n] /\ Top \in Frame /\ FrameOK(Top)
    BY StackIs DEF General, EmitsOK
  <2>2. PICK f \in Frame : f = Top
    BY <2>1
  <2>3. /\ stack'[n] = Gone(f, kept) /\ FrameOK(f)
        /\ IsInjective(f.list) /\ IsInjective(f.kept)
        /\ f.next <= Len(f.list)
    BY <1>4, <2>1, <2>2, GoOnIs DEF EventOK, ListsApart
  <2>4. /\ f.list \in Seq(Entry) /\ f.kept \in Seq(Entry)
        /\ f.next \in 1 .. Len(f.list) /\ f.list[f.next] \in Entry
        /\ Len(f.list) \in Nat
    BY <2>3, FrameIs
  <2>5. f.list[f.next] \notin ToSet(f.kept)
    <3> SUFFICES ASSUME f.list[f.next] \in ToSet(f.kept) PROVE FALSE
      OBVIOUS
    <3>1. PICK k \in 1 .. f.next - 1 : f.list[k] = f.list[f.next]
      BY <2>3 DEF FrameOK
    <3>2. k \in 1 .. Len(f.list) /\ k # f.next
      BY <2>4
    <3>3. \A k1, k2 \in 1 .. Len(f.list) : f.list[k1] = f.list[k2] => k1 = k2
      BY <2>3, <2>4, ListIs
    <3>4. QED  BY <2>4, <3>1, <3>2, <3>3
  <2>6. IsInjective(Append(f.kept, f.list[f.next]))
    BY <2>3, <2>4, <2>5, AppendIs
  <2>7. Gone(f, kept).kept =
          IF kept THEN Append(f.kept, f.list[f.next]) ELSE f.kept
    BY <2>3, GoneIs
  <2>8. QED  BY <2>3, <2>6, <2>7
<1> HIDE DEF n
<1>5. \A i \in Emits(d) : IsInjective(stack'[i].kept)
  BY <1>3, <1>4 DEF EventOK, ListsApart
<1>6. QED  BY <1>2, <1>3, <1>5 DEF EventOK, ListsApart

\* What is called goes on being so, but for the entry that is returned from.
LEMMA SkipEvent ==
  ASSUME General, General', Skip, NEW d \in Event \ disturbed'
  PROVE  d \notin disturbed /\ (EventOK(d) => EventOK(d)')
<1> DEFINE n == Len(stack)
<1>1. /\ stack # <<>> /\ ~Top.calling /\ Top.next <= Len(Top.list)
      /\ entries[Visited].times < 1 /\ GoOn(FALSE)
      /\ UNCHANGED <<handlers, entries, expected, disturbed, calls>>
  BY DEF Skip, Visits, history
<1>2. d \notin disturbed
  BY <1>1
<1> SUFFICES ASSUME EventOK(d) PROVE EventOK(d)'
  BY <1>2
<1>3. /\ SameShape /\ ~stack'[n].calling /\ n \in 1 .. n /\ Top = stack[n]
      /\ Top \in Frame
  BY <1>1, GoOnShape, StackIs DEF General
<1>4. /\ Emits(d)' = Emits(d) /\ ListOf(d)' = ListOf(d)
      /\ IsEmitted(d)' <=> IsEmitted(d)
      /\ \A x : Live(x, d)' <=> Live(x, d)
  BY <1>1, <1>3, SameShapeIs
<1>5. ListsApart(d)'
  BY <1>1, GoOnApart
<1>6. ASSUME n \in Emits(d)
      PROVE  ~Top.current
  <2> SUFFICES ASSUME Top.current PROVE FALSE
    OBVIOUS
  <2>1. PICK f \in Frame : f = Top
    BY <1>3
  <2>2. Remains(expected[d], f)
    BY <1>3, <1>6, <2>1 DEF EventOK, ListsAgree
  <2>3. /\ f.list \in Seq(Entry) /\ Len(f.kept) \in Nat /\ Len(f.list) \in Nat
        /\ f.next \in Nat /\ f.next >= 1 /\ f.next <= Len(f.list)
    BY <1>1, <2>1, FrameIs
  <2>4. expected[d] \in Seq(Entry)
    BY ListsAre DEF General
  <2> DEFINE k == Len(f.kept) + 1
  <2>5. k \in Len(f.kept) + 1 .. Len(expected[d]) /\ k \in 1 .. Len(expected[d])
        /\ k - Len(f.kept) + f.next - 1 = f.next
    BY <2>2, <2>3 DEF Remains
  <2>6. expected[d][k] = f.list[f.next]
    BY <2>2, <2>5 DEF Remains
  <2> HIDE DEF k
  <2>7. Visited \in ToSet(expected[d])
    BY <2>1, <2>4, <2>5, <2>6, ListIs DEF Visited
  <2>8. entries[Visited].times >= 1 /\ Visited \in Made(d)
    BY <2>7 DEF EventOK, ListsAgree, General, EmitsOK
  <2>9. entries[Visited].times \in Int
    BY <2>8, EntryIs DEF General, Made
  <2>10. QED  BY <1>1, <2>8, <2>9
<1>7. \A i \in Emits(d) : /\ stack'[i].current = stack[i].current
                          /\ stack[i].current => stack'[i] = stack[i]
  BY <1>3, <1>6 DEF SameShape, Emits
<1>8. ListsAgree(d)'
  <2>1. ASSUME NEW i \in Emits(d), stack[i].current
        PROVE  Remains(expected[d], stack[i])' <=> Remains(expected[d], stack[i])
    BY <1>1, <1>7, <2>1 DEF Remains
  <2>2. QED  BY <1>1, <1>4, <1>7, <2>1 DEF EventOK, ListsAgree
<1>9. \A y : Called(y)' <=> Called(y)
  BY <1>1, <1>3 DEF Called, SameShape
<1>10. ASSUME NEW y \in Made(d)'
       PROVE  Counted(y, d)'
  <2>1. Counted(y, d)
    BY <1>1 DEF Made, EventOK
  <2>2. QED  BY <1>1, <1>4, <1>9, <2>1, CountedStays
<1>11. QED  BY <1>5, <1>8, <1>10 DEF EventOK

\* An entry goes from what is expected when filter does not keep it.
LEMMA ReturnEvent ==
  ASSUME General, General', Return, NEW d \in Event \ disturbed'
  PROVE  d \notin disturbed /\ (EventOK(d) => EventOK(d)')
<1> DEFINE n == Len(stack)
<1>1. PICK v \in Entry : v = Visited
  BY ReturnEntry
<1>2. /\ stack # <<>> /\ Top.calling /\ Top.next <= Len(Top.list)
      /\ Top.event \in Event /\ v \in ToSet(Top.list) /\ v = Top.list[Top.next]
      /\ v \in Made(Top.event) /\ entries[v] # Null
      /\ \A x \in Entry : x # v => entries'[x] = entries[x]
      /\ entries'[v].given = entries[v].given
      /\ entries'[v].times = After(entries[v].times)
      /\ GoOn(entries'[v].times >= 1)
      /\ UNCHANGED <<handlers, disturbed, calls>>
  BY <1>1, ReturnEntry DEF Made
<1>3. d \notin disturbed
  BY <1>2
<1> SUFFICES ASSUME EventOK(d) PROVE EventOK(d)'
  BY <1>3
<1>4. entries[v].times \in Int /\ entries'[v].times \in Int
  BY <1>2, EntryIs, AfterIs DEF General
<1>5. PICK kept \in BOOLEAN :
        /\ GoOn(kept)
        /\ kept => entries'[v].times >= 1
        /\ ~kept => entries'[v].times < 1 /\ ~(entries'[v].times >= 1)
  <2>1. \/ entries'[v].times >= 1 /\ GoOn(TRUE)
        \/ ~(entries'[v].times >= 1) /\ GoOn(FALSE)
    BY <1>2 DEF GoOn, Gone
  <2>2. ~(entries'[v].times >= 1) => entries'[v].times < 1
    BY <1>4
  <2>3. QED  BY <2>1, <2>2
<1>6. /\ SameShape /\ ~stack'[n].calling /\ n \in 1 .. n /\ Top = stack[n]
      /\ Top \in Frame
  BY <1>2, <1>5, GoOnShape, StackIs DEF General
<1>7. /\ Emits(d)' = Emits(d) /\ ListOf(d)' = ListOf(d)
      /\ IsEmitted(d)' <=> IsEmitted(d)
      /\ \A x : Live(x, d)' <=> Live(x, d)
  BY <1>2, <1>6, SameShapeIs
<1>8. ListsApart(d)'
  BY <1>2, <1>5, GoOnApart
<1>9. /\ d # Top.event \/ kept => expected'[d] = expected[d]
      /\ d = Top.event /\ ~kept => expected'[d] = Without(expected[d], {v})
  BY <1>1, <1>5, ReturnLists
<1>10. expected[d] \in Seq(Entry)
  BY ListsAre DEF General
<1>11. /\ \A x \in ToSet(expected'[d]) : x \in ToSet(expected[d])
       /\ d = Top.event /\ ~kept => v \notin ToSet(expected'[d])
  BY <1>9, <1>10, WithoutIs
<1>12. \A x \in ToSet(expected[d]) : x \in Made(d) /\ x \in Entry
  BY DEF General, EmitsOK, Made
<1>13. v \in Made(d) => d = Top.event
  BY <1>2 DEF Made
<1>14. \A x \in ToSet(expected'[d]) : entries'[x].times >= 1
  <2>1. ASSUME NEW x \in ToSet(expected'[d])
        PROVE  entries'[x].times >= 1
    <3>1. x \in Entry /\ x \in Made(d) /\ entries[x].times >= 1
      BY <1>11, <1>12 DEF EventOK, ListsAgree
    <3>2. CASE x = v
      BY <1>5, <1>11, <1>13, <2>1, <3>1, <3>2
    <3>3. CASE x # v
      BY <1>2, <3>1, <3>3
    <3>4. QED  BY <3>2, <3>3
  <2>2. QED  BY <2>1
\* An emit that is not current has nothing of what is expected.
<1>15. ASSUME ~(Top.current /\ d = Top.event)
       PROVE  expected'[d] = expected[d]
  <2>1. CASE d = Top.event
    <3>1. n \in Emits(d) /\ ~stack[n].current
      BY <1>6, <1>15, <2>1 DEF Emits
    <3>2. v \notin ToSet(ListOf(d))
      BY <1>2, <1>6, <3>1 DEF EventOK, ListsApart
    <3>3. v \notin ToSet(expected[d])
      BY <3>2, ExpectedAreListed
    <3>4. Without(expected[d], {v}) = expected[d]
      BY <1>10, <3>3, WithoutNone
    <3>5. QED  BY <1>9, <3>4
  <2>2. CASE d # Top.event
    BY <1>9, <2>2
  <2>3. QED  BY <2>1, <2>2
<1>16. ~IsEmitted(d)' => ListOf(d)' = expected'[d]
  <2>1. IsEmitted(d) \/ ~(Top.current /\ d = Top.event)
    <3>1. d = Top.event => n \in Emits(d)
      BY <1>6 DEF Emits
    <3>2. QED  BY <1>6, <3>1, EmittedIs
  <2>2. QED  BY <1>7, <1>15, <2>1 DEF EventOK, ListsAgree
<1>17. ASSUME NEW i \in Emits(d), stack[i].current
       PROVE  ListOf(d)' = stack'[i].list /\ Remains(expected[d], stack[i])'
  <2>1. /\ ListOf(d)' = stack'[i].list /\ Remains(expected[d], stack[i])
        /\ i \in 1 .. n
    BY <1>6, <1>7, <1>17 DEF EventOK, ListsAgree, SameShape, Emits
  <2>2. CASE i # n
    <3>1. ~(Top.current /\ d = Top.event)
      <4>1. d = Top.event => n \in Emits(d)
        BY <1>6 DEF Emits
      <4>2. QED  BY <1>6, <1>17, <2>2, <4>1 DEF EventOK, ListsApart
    <3>2. stack'[i] = stack[i] /\ expected'[d] = expected[d]
      BY <1>6, <1>15, <2>1, <2>2, <3>1 DEF SameShape
    <3>3. QED  BY <2>1, <3>2 DEF Remains
  <2>3. CASE i = n
    <3>1. PICK f \in Frame : f = Top
      BY <1>6
    <3>2. /\ stack'[i] = Gone(f, kept) /\ f = stack[i] /\ d = f.event
          /\ f.next <= Len(f.list) /\ v = f.list[f.next]
      BY <1>2, <1>5, <1>6, <1>17, <2>3, <3>1, GoOnIs DEF Emits
    <3>3. Remains(expected[d], f)
      BY <2>1, <3>2
    <3>4. Remains(expected'[d], Gone(f, kept))
      <4>1. CASE kept
        <5>1. Remains(expected[d], Gone(f, TRUE))
          BY <1>10, <3>2, <3>3, RemainsKept
        <5>2. QED  BY <1>9, <4>1, <5>1
      <4>2. CASE ~kept
        <5>1. \A k, l \in 1 .. Len(expected[d]) :
                expected[d][k] = expected[d][l] => k = l
          BY <1>10, ListIs DEF General, EmitsOK
        <5>2. Remains(Without(expected[d], {f.list[f.next]}), Gone(f, FALSE))
          BY <1>10, <3>2, <3>3, <5>1, RemainsDropped
        <5>3. QED  BY <1>9, <3>1, <3>2, <4>2, <5>2
      <4>3. QED  BY <4>1, <4>2
    <3>5. QED  BY <2>1, <3>2, <3>4 DEF Remains
  <2>4. QED  BY <2>2, <2>3
<1>18. ListsAgree(d)'
  <2>1. \A i \in Emits(d) : stack'[i].current = stack[i].current
    BY <1>6 DEF SameShape, Emits
  <2>2. QED  BY <1>7, <1>14, <1>16, <1>17, <2>1 DEF ListsAgree
<1>19. ASSUME NEW y \in Made(d)'
       PROVE  Counted(y, d)'
  <2>1. y \in Made(d) /\ Counted(y, d) /\ y \in Entry
    <3>1. y \in Entry /\ entries'[y] # Null /\ entries'[y].event = d
      BY DEF Made
    <3>2. entries[y] # Null /\ entries[y].event = d
      BY <1>1, <1>2, <3>1, ReturnEntry
    <3>3. QED  BY <3>1, <3>2 DEF Made, EventOK
  <2>2. CASE y # v
    <3>1. Called(y)' <=> Called(y)
      BY <1>1, <1>2, <1>6, <2>2, CalledStays
    <3>2. QED  BY <1>2, <1>7, <2>1, <2>2, <3>1, CountedStays
  <2>3. CASE y = v
    <3>1. d = Top.event
      BY <1>13, <2>1, <2>3
    <3>2. Called(v)
      BY <1>2, <1>6 DEF Called
    <3>3. ~Called(v)'
      <4> SUFFICES ASSUME NEW i \in 1 .. Len(stack'), stack'[i].calling,
                          stack'[i].list[stack'[i].next] = v
                   PROVE  FALSE
        BY DEF Called
      <4>1. i \in 1 .. n /\ i # n /\ stack'[i] = stack[i]
        BY <1>6 DEF SameShape
      <4>2. i = n
        BY <1>1, <1>2, <3>1, <4>1, OnlyTopCalls
      <4>3. QED  BY <4>1, <4>2
    <3>4. Live(v, d)
      <4>1. n \in Emits(d)
        BY <1>6, <3>1 DEF Emits
      <4>2. QED  BY <1>2, <1>6, <4>1 DEF Live
    <3>5. ASSUME entries[v].given # Infinity
          PROVE  /\ entries'[v].times >= 0
                 /\ calls[v] + entries'[v].times <= entries[v].given
                 /\ calls[v] <= entries[v].given
      <4>1. /\ calls[v] <= entries[v].given /\ entries[v].times >= 1
            /\ calls[v] + entries[v].times - 1 <= entries[v].given
        BY <2>1, <2>3, <3>2, <3>4, <3>5 DEF Counted
      <4>2. entries[v].times # Infinity
        BY <1>2, <3>5 DEF General, EntriesOK
      <4>3. entries'[v].times = entries[v].times - 1
        BY <1>2, <4>2, AfterIs
      <4>4. calls[v] \in Nat /\ entries[v].given \in Int
        BY <1>2, EntryIs DEF General, EmitterTypeOK
      <4>5. QED  BY <1>4, <4>1, <4>3, <4>4
    <3>6. Counted(v, d)'
      BY <1>2, <3>3, <3>5 DEF Counted
    <3>7. QED  BY <2>3, <3>6
  <2>4. QED  BY <2>2, <2>3
<1>20. QED  BY <1>8, <1>18, <1>19 DEF EventOK

-----------------------------------------------------------------------------
(* The invariant holds                                                     *)

\* No listener and no emit
LEMMA EmitterStarts == EmitterInit => EmitterInv
<1> SUFFICES ASSUME EmitterInit PROVE EmitterInv
  OBVIOUS
<1>1. EmitterTypeOK
  BY EmptyIs DEF EmitterInit, EmitterTypeOK
<1>2. /\ stack = <<>> /\ Len(stack) = 0 /\ 1 .. Len(stack) = {}
      /\ \A x \in Entry : entries[x] = Null /\ calls[x] = 0
      /\ \A e \in Event : ListOf(e) = <<>> /\ expected[e] = <<>>
  BY EmptyIs DEF EmitterInit, ListOf
<1>3. EmitsOK
  BY <1>2, EmptyIs DEF EmitsOK
<1>4. EntriesOK
  BY <1>2 DEF EntriesOK
<1>5. ASSUME NEW e \in Event
      PROVE  EventOK(e)
  <2>1. Emits(e) = {} /\ Made(e) = {}
    BY <1>2 DEF Emits, Made
  <2>2. ListsApart(e)
    BY <1>2, <2>1, EmptyIs DEF ListsApart
  <2>3. ListsAgree(e)
    BY <1>2, <2>1, EmptyIs DEF ListsAgree
  <2>4. QED  BY <2>1, <2>2, <2>3 DEF EventOK
<1>6. QED  BY <1>1, <1>3, <1>4, <1>5 DEF EmitterInv

\* Every use of a listener is one of these; which entries removeListener takes
\* out does not matter.
LEMMA UsesAre ==
  ASSUME Uses
  PROVE  \E e \in Event :
           \/ \E x \in Entry, func \in Func, context \in Context, times \in Times :
                AddListener(e, x, func, context, times)
           \/ \E gone : RemoveListener(e, gone)
           \/ Emit(e)
<1>1. PICK e \in Event :
        \/ \E x \in Entry, func \in Func, context \in Context, times \in Times :
             AddListener(e, x, func, context, times)
        \/ RemoveListener(e, Listed(e))
        \/ \E func \in Func : RemoveListener(e, OfFunc(e, func))
        \/ \E func \in Func, context \in Context :
             \/ RemoveListener(e, OfContext(e, func, context))
             \/ RemoveListener(e, WithTimes(e, func, context, 1))
        \/ Emit(e)
  BY DEF Uses
<1>2. ASSUME RemoveListener(e, Listed(e))
      PROVE  \E gone : RemoveListener(e, gone)
  <2>1. PICK gone : gone = Listed(e)
    OBVIOUS
  <2>2. RemoveListener(e, gone)
    BY <1>2, <2>1 DEF RemoveListener
  <2>3. QED  BY <2>2
<1>3. ASSUME NEW func \in Func, RemoveListener(e, OfFunc(e, func))
      PROVE  \E gone : RemoveListener(e, gone)
  <2>1. PICK gone : gone = OfFunc(e, func)
    OBVIOUS
  <2>2. RemoveListener(e, gone)
    BY <1>3, <2>1 DEF RemoveListener
  <2>3. QED  BY <2>2
<1>4. ASSUME NEW func \in Func, NEW context \in Context,
             RemoveListener(e, OfContext(e, func, context))
      PROVE  \E gone : RemoveListener(e, gone)
  <2>1. PICK gone : gone = OfContext(e, func, context)
    OBVIOUS
  <2>2. RemoveListener(e, gone)
    BY <1>4, <2>1 DEF RemoveListener
  <2>3. QED  BY <2>2
<1>5. ASSUME NEW func \in Func, NEW context \in Context,
             RemoveListener(e, WithTimes(e, func, context, 1))
      PROVE  \E gone : RemoveListener(e, gone)
  <2>1. PICK gone : gone = WithTimes(e, func, context, 1)
    OBVIOUS
  <2>2. RemoveListener(e, gone)
    BY <1>5, <2>1 DEF RemoveListener
  <2>3. QED  BY <2>2
<1>6. QED  BY <1>1, <1>2, <1>3, <1>4, <1>5

\* Each action of the emitter keeps the invariant.
LEMMA EmitterStep == EmitterInv /\ [EmitterNext]_emitterVars => EmitterInv'
<1> SUFFICES ASSUME EmitterInv, [EmitterNext]_emitterVars PROVE EmitterInv'
  OBVIOUS
<1> USE DEF EmitterInv
<1>0. General
  BY DEF General
<1> DEFINE Stays == /\ General'
                    /\ \A d \in Event \ disturbed' :
                         d \notin disturbed /\ (EventOK(d) => EventOK(d)')
<1>1. ASSUME NEW e \in Event, NEW x \in Entry, NEW func \in Func,
             NEW context \in Context, NEW times \in Times,
             AddListener(e, x, func, context, times)
      PROVE  Stays
  BY <1>0, <1>1, AddGeneral, AddEvent
<1>2. ASSUME NEW e \in Event, NEW gone, RemoveListener(e, gone)
      PROVE  Stays
  BY <1>0, <1>2, RemoveGeneral, RemoveEvent
<1>3. ASSUME NEW e \in Event, Emit(e)
      PROVE  Stays
  BY <1>0, <1>3, EmitGeneral, EmitEvent
<1>4. ASSUME RemoveAll
      PROVE  Stays
  BY <1>0, <1>4, RemoveAllGeneral, RemoveAllEvent
<1>5. ASSUME Call
      PROVE  Stays
  BY <1>0, <1>5, CallGeneral, CallEvent
<1>6. ASSUME Skip
      PROVE  Stays
  BY <1>0, <1>6, SkipGeneral, SkipEvent
<1>7. ASSUME Return
      PROVE  Stays
  BY <1>0, <1>7, ReturnGeneral, ReturnEvent
<1>8. ASSUME EmitEnds
      PROVE  Stays
  BY <1>0, <1>8, EmitEndsGeneral, EmitEndsEvent
<1>9. ASSUME Throws
      PROVE  Stays
  BY <1>0, <1>9, ThrowsGeneral, ThrowsEvent
<1>10. CASE UNCHANGED emitterVars
  <2>1. EmitterTypeOK' /\ EntriesOK' /\ disturbed' = disturbed
    BY <1>10 DEF emitterVars, EmitterTypeOK, EntriesOK
  <2>2. EmitsOK'
    <3>1. Older
      BY <1>10 DEF emitterVars, Older
    <3>2. \A e \in Event : /\ ToSet(ListOf(e)') \subseteq Made(e)'
                          /\ ToSet(expected'[e]) \subseteq Made(e)'
                          /\ IsInjective(expected'[e])
      BY <1>10 DEF emitterVars, EmitsOK, Made, ListOf
    <3>3. UNCHANGED stack
      BY <1>10 DEF emitterVars
    <3>4. /\ handlers' \in [Event -> Seq(Entry) \cup {Null}]
          /\ expected' \in [Event -> Seq(Entry)]
      BY <2>1 DEF EmitterTypeOK
    <3>5. QED  BY <1>0, <3>1, <3>2, <3>3, <3>4, OnlyLists
  <2>3. ASSUME NEW e \in Event, EventOK(e)
        PROVE  EventOK(e)'
    <3>1. ListsApart(e)'
      BY <1>10, <2>3 DEF emitterVars, EventOK, ListsApart, Emits, ListOf
    <3>2. ListsAgree(e)'
      BY <1>10, <2>3 DEF emitterVars, EventOK, ListsAgree, Emits, ListOf,
         Remains, IsEmitted
    <3>3. \A x \in Made(e)' : Counted(x, e)'
      BY <1>10, <2>3 DEF emitterVars, EventOK, Counted, Live, Called, Made,
         Emits, ListOf
    <3>4. QED  BY <3>1, <3>2, <3>3 DEF EventOK
  <2>4. QED  BY <2>1, <2>2, <2>3
<1>11. ASSUME Uses
       PROVE  Stays
  <2> HIDE DEF Stays
  <2>1. QED  BY <1>1, <1>2, <1>3, <1>11, UsesAre
<1>12. CASE Stays
  BY <1>12 DEF General
<1>13. QED
  <2> HIDE DEF Stays
  <2>1. QED
    BY <1>4, <1>5, <1>6, <1>7, <1>8, <1>9, <1>10, <1>11, <1>12 DEF EmitterNext

\* What EmitterInv says of every event that is not disturbed always holds.
THEOREM EmitterInvariant == EmitterSpec => []EmitterInv
<1>1. QED  BY EmitterStarts, EmitterStep, PTL DEF EmitterSpec

\* The variables keep their types: in every list there are entries that have
\* been made.
THEOREM EmitterIsTyped == EmitterSpec => []EmitterTypeOK
<1>1. EmitterInv => EmitterTypeOK
  BY DEF EmitterInv
<1>2. QED  BY <1>1, EmitterInvariant, PTL

\* Emitter.emit replaces the list of an event (Emitter.ts:124-133).  When no
\* emit runs, an event that no listener has used while it was emitted has the
\* listeners that were added and are neither removed nor used up, in the order
\* they were added.
THEOREM ListsAreAsExpected == EmitterSpec => []ListIsAsExpected
<1>1. EmitterInv => ListIsAsExpected
  <2> SUFFICES ASSUME EmitterInv, stack = <<>>, NEW e \in Event \ disturbed
               PROVE  ListOf(e) = expected[e]
    BY DEF ListIsAsExpected
  <2>1. DOMAIN stack = {}
    BY EmptyIs, StackIs DEF EmitterInv
  <2>2. ~IsEmitted(e)
    BY <2>1 DEF IsEmitted
  <2>3. QED  BY <2>2 DEF EmitterInv, EventOK, ListsAgree
<1>2. QED  BY <1>1, EmitterInvariant, PTL

\* EmitterEntry.callAndCheckTimes counts down after the call: a listener for n
\* emits is called n times at most, if no listener has used or left its event
\* while it was emitted.
THEOREM CallsAreCounted == EmitterSpec => []CalledAtMostItsTimes
<1>1. EmitterInv => CalledAtMostItsTimes
  <2> SUFFICES ASSUME EmitterInv, NEW x \in Entry, entries[x] # Null,
                      entries[x].event \notin disturbed,
                      entries[x].given # Infinity
               PROVE  calls[x] <= entries[x].given
    BY DEF CalledAtMostItsTimes
  <2>1. entries[x].event \in Event
    BY EntryIs DEF EmitterInv
  <2>2. x \in Made(entries[x].event)
    BY DEF Made
  <2>3. Counted(x, entries[x].event)
    BY <2>1, <2>2 DEF EmitterInv, EventOK
  <2>4. QED  BY <2>3 DEF Counted
<1>2. QED  BY <1>1, EmitterInvariant, PTL

\* Why a listener is no longer in its list; every action of the emitter has
\* one of these reasons.
Forgotten(x, e) ==
  \/ entries'[x].times < 1
  \/ x \notin ToSet(expected'[e])
  \/ stack # <<>> /\ ~Top.calling /\ Top.current /\ Top.event = e
     /\ x \notin ToSet(Top.list)

\* Adding forgets nobody.
LEMMA AddForgets ==
  ASSUME General, NEW e \in Event, NEW x \in Entry, NEW func \in Func,
         NEW context \in Context, NEW times \in Times,
         AddListener(e, x, func, context, times), NEW d \in Event
  PROVE  ToSet(ListOf(d)) \subseteq ToSet(ListOf(d)')
<1>1. CASE d # e
  BY <1>1, AddLists
<1>2. CASE d = e
  <2>1. ListOf(d) \in Seq(Entry) /\ ListOf(d)' = Append(ListOf(d), x)
    BY <1>2, AddLists, ListsAre DEF General
  <2>2. QED  BY <2>1, AppendIs
<1>3. QED  BY <1>1, <1>2

\* What a removal forgets is not expected any more.
LEMMA RemoveForgets ==
  ASSUME General, NEW e \in Event, NEW gone, RemoveListener(e, gone),
         NEW d \in Event, NEW x \in ToSet(ListOf(d)), x \notin ToSet(ListOf(d)')
  PROVE  x \notin ToSet(expected'[d])
<1>1. d = e
  BY RemoveLists
<1>2. /\ ListOf(d) \in Seq(Entry) /\ expected[d] \in Seq(Entry)
      /\ ListOf(d)' = Without(ListOf(d), gone)
      /\ expected'[d] = Without(expected[d], gone)
  BY <1>1, RemoveLists, ListsAre DEF General
<1>3. x \in gone
  BY <1>2, WithoutIs
<1>4. QED  BY <1>2, <1>3, WithoutIs

\* What an emit has visited and not kept is used up.
LEMMA EmitEndsForgets ==
  ASSUME General, EmitEnds, NEW d \in Event, NEW x \in ToSet(ListOf(d)),
         x \notin ToSet(ListOf(d)')
  PROVE  Forgotten(x, d)
<1>1. /\ stack # <<>> /\ ~Top.calling /\ Top.current /\ Top.event = d
      /\ Top \in Frame /\ FrameOK(Top) /\ Top.next = Len(Top.list) + 1
      /\ ListOf(d)' = Top.kept /\ UNCHANGED entries
  BY EmitEndsIs
<1>2. PICK f \in Frame : f = Top
  BY <1>1
<1>3. ASSUME x \in ToSet(f.list)
      PROVE  entries[x].times < 1
  <2>1. f.list \in Seq(Entry) /\ Len(f.list) \in Nat
    BY FrameIs
  <2>2. PICK k \in 1 .. Len(f.list) : f.list[k] = x
    BY <1>3, <2>1, ListIs
  <2>3. k \in 1 .. f.next - 1
    BY <1>1, <1>2, <2>1
  <2>4. QED  BY <1>1, <1>2, <2>2, <2>3 DEF FrameOK
<1>4. QED  BY <1>1, <1>2, <1>3 DEF Forgotten

\* Each action has one of the three reasons.
LEMMA StepForgets ==
  ASSUME General, [EmitterNext]_emitterVars, NEW d \in Event,
         NEW x \in ToSet(ListOf(d)) \ ToSet(ListOf(d)')
  PROVE  Forgotten(x, d)
<1>1. ASSUME NEW e \in Event, NEW y \in Entry, NEW func \in Func,
             NEW context \in Context, NEW times \in Times,
             AddListener(e, y, func, context, times)
      PROVE  Forgotten(x, d)
  BY <1>1, AddForgets
<1>2. ASSUME NEW e \in Event, NEW gone, RemoveListener(e, gone)
      PROVE  Forgotten(x, d)
  BY <1>2, RemoveForgets DEF Forgotten
<1>3. ASSUME UNCHANGED handlers
      PROVE  Forgotten(x, d)
  BY <1>3 DEF ListOf
<1>4. CASE RemoveAll
  BY <1>4, RemoveAllIs, EmptyIs DEF Forgotten
<1>5. CASE EmitEnds
  BY <1>5, EmitEndsForgets
<1>6. CASE (\E e \in Event : Emit(e)) \/ Call \/ Skip \/ Return \/ Throws
  BY <1>3, <1>6 DEF Emit, Call, Skip, Return, Throws
<1>7. CASE UNCHANGED emitterVars
  BY <1>3, <1>7 DEF emitterVars
<1>8. CASE Uses
  BY <1>1, <1>2, <1>6, <1>8, UsesAre
<1>9. QED  BY <1>4, <1>5, <1>6, <1>7, <1>8 DEF EmitterNext

\* emit replaces the list it began with (Emitter.ts:130).  Whatever listeners
\* do, a listener that nobody removed and that is not used up leaves its list
\* only at the end of an emit that had begun before it was added.
THEOREM ListenersAreForgottenByEmits == EmitterSpec => OnlyEmitsForgetListeners
<1>1. EmitterInv /\ [EmitterNext]_emitterVars =>
        [\A e \in Event :
           \A x \in ToSet(ListOf(e)) \ ToSet(ListOf(e)') :
             \/ entries'[x].times < 1
             \/ x \notin ToSet(expected'[e])
             \/ stack # <<>> /\ ~Top.calling /\ Top.current /\ Top.event = e
                /\ x \notin ToSet(Top.list)]_emitterVars
  BY StepForgets DEF EmitterInv, General, Forgotten
<1>2. QED
  BY <1>1, EmitterInvariant, PTL DEF EmitterSpec, OnlyEmitsForgetListeners
=============================================================================
