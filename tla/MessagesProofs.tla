----------------------------- MODULE MessagesProofs -----------------------------
(***************************************************************************)
(* What is proved of what travels over the bus: that no message vanishes   *)
(* and the outbox is a lossy channel (BusOutbox); that an acknowledgement  *)
(* goes astray only for a cause (CommandAcks); that everybody has the      *)
(* configuration that is on disk (ConfigEdits); that a service runs once   *)
(* (Launcher); and that their composition is a behaviour of each.          *)
(***************************************************************************)
EXTENDS Messages, TLAPS, FiniteSetTheorems, SequenceTheorems, WellFoundedInduction

Once(s) == \A i, j \in DOMAIN s : s[i] = s[j] => i = j

-------------------------------------------------------------------------------
(* What the operations on sequences do to their elements.                  *)

(* The empty sequence has none. *)
LEMMA EmptyElements == Elements(<<>>) = {} /\ Once(<<>>)
  BY DEF Elements, Once

(* One more at the end. *)
LEMMA AppendElements ==
  ASSUME NEW S, NEW s \in Seq(S), NEW m \in S
  PROVE  /\ Append(s, m) \in Seq(S)
         /\ Elements(Append(s, m)) = Elements(s) \cup {m}
         /\ Once(s) /\ m \notin Elements(s) => Once(Append(s, m))
<1>1. /\ Append(s, m) \in Seq(S) /\ Len(Append(s, m)) = Len(s) + 1
      /\ Append(s, m)[Len(s) + 1] = m
      /\ \A i \in 1..Len(s) : Append(s, m)[i] = s[i]
  OBVIOUS
<1>2. DOMAIN s = 1..Len(s) /\ Len(s) \in Nat /\ DOMAIN Append(s, m) = 1..(Len(s) + 1)
  BY <1>1
<1> HIDE DEF Elements
<1>3. Elements(Append(s, m)) = Elements(s) \cup {m}
  BY <1>1, <1>2 DEF Elements
<1>4. ASSUME Once(s), m \notin Elements(s) PROVE Once(Append(s, m))
  <2> SUFFICES ASSUME NEW i \in 1..(Len(s) + 1), NEW j \in 1..(Len(s) + 1),
                      Append(s, m)[i] = Append(s, m)[j]
               PROVE  i = j
    BY <1>2 DEF Once
  <2>1. \A k \in 1..Len(s) : s[k] # m
    BY <1>2, <1>4 DEF Elements
  <2> QED BY <1>1, <1>2, <1>4, <2>1 DEF Once
<1> QED BY <1>1, <1>3, <1>4

(* One less at the front. *)
LEMMA TailElements ==
  ASSUME NEW S, NEW s \in Seq(S), s # <<>>
  PROVE  /\ Head(s) \in S /\ Tail(s) \in Seq(S) /\ Len(Tail(s)) = Len(s) - 1
         /\ Elements(s) = Elements(Tail(s)) \cup {Head(s)}
         /\ Once(s) => Once(Tail(s)) /\ Head(s) \notin Elements(Tail(s))
<1>1. /\ Len(s) \in Nat \ {0} /\ DOMAIN s = 1..Len(s) /\ Head(s) = s[1] /\ Head(s) \in S
      /\ Tail(s) \in Seq(S) /\ Len(Tail(s)) = Len(s) - 1
      /\ DOMAIN Tail(s) = 1..(Len(s) - 1)
      /\ \A i \in 1..(Len(s) - 1) : Tail(s)[i] = s[i + 1]
  OBVIOUS
<1> DEFINE t == Tail(s)
           h == Head(s)
<1>2. /\ \A i \in 1..Len(s) : i = 1 \/ (i - 1 \in 1..(Len(s) - 1) /\ s[i] = t[i - 1])
      /\ \A i \in 1..(Len(s) - 1) : i + 1 \in 1..Len(s) /\ t[i] = s[i + 1]
      /\ 1 \in 1..Len(s) /\ s[1] = h /\ DOMAIN s = 1..Len(s) /\ DOMAIN t = 1..(Len(s) - 1)
  BY <1>1
<1> HIDE DEF t, h
<1>4. Elements(s) \subseteq Elements(t) \cup {h}
  <2> SUFFICES ASSUME NEW i \in 1..Len(s), s[i] # h PROVE s[i] \in Elements(t)
    BY <1>2 DEF Elements
  <2> i - 1 \in DOMAIN t /\ s[i] = t[i - 1]
    BY <1>2
  <2> QED BY DEF Elements
<1>5. Elements(t) \cup {h} \subseteq Elements(s)
  <2>1. h \in Elements(s)
    BY <1>2 DEF Elements
  <2>2. ASSUME NEW i \in DOMAIN t PROVE t[i] \in Elements(s)
    <3> i + 1 \in DOMAIN s /\ t[i] = s[i + 1]
      BY <1>2, <2>2
    <3> QED BY DEF Elements
  <2> QED BY <2>1, <2>2 DEF Elements
<1>6. Elements(s) = Elements(t) \cup {h}
  BY <1>4, <1>5
<1>3. ASSUME Once(s) PROVE Once(Tail(s)) /\ Head(s) \notin Elements(Tail(s))
  BY <1>1, <1>3 DEF Once, Elements
<1> QED BY <1>1, <1>3, <1>6 DEF t, h

(* Cut in two. *)
LEMMA CutElements ==
  ASSUME NEW S, NEW s \in Seq(S), NEW k \in 0..Len(s)
  PROVE  LET front == SubSeq(s, 1, k)
             rest == SubSeq(s, k + 1, Len(s))
         IN /\ front \in Seq(S)
            /\ Elements(s) = Elements(front) \cup Elements(rest)
            /\ Once(s) => Once(front) /\ Elements(front) \cap Elements(rest) = {}
<1> DEFINE front == SubSeq(s, 1, k)
           rest == SubSeq(s, k + 1, Len(s))
<1>1. /\ Len(s) \in Nat /\ k \in Nat /\ k <= Len(s) /\ DOMAIN s = 1..Len(s)
  OBVIOUS
<1>2. /\ front \in Seq(S) /\ DOMAIN front = 1..k
      /\ \A i \in 1..k : front[i] = s[i]
  BY <1>1
<1>3. /\ DOMAIN rest = 1..(Len(s) - k)
      /\ \A i \in 1..(Len(s) - k) : rest[i] = s[k + i]
  BY <1>1
<1> HIDE DEF front, rest
<1>4. Elements(s) = Elements(front) \cup Elements(rest)
  <2>1. ASSUME NEW i \in 1..Len(s) PROVE s[i] \in Elements(front) \cup Elements(rest)
    <3>1. CASE i <= k
      <4> i \in DOMAIN front /\ front[i] = s[i]
        BY <1>1, <1>2, <3>1
      <4> QED BY DEF Elements
    <3>2. CASE ~(i <= k)
      <4> i - k \in DOMAIN rest /\ rest[i - k] = s[i]
        BY <1>1, <1>3, <3>2
      <4> QED BY DEF Elements
    <3> QED BY <3>1, <3>2
  <2>2. ASSUME NEW i \in DOMAIN front PROVE front[i] \in Elements(s)
    <3> i \in DOMAIN s /\ front[i] = s[i]
      BY <1>1, <1>2, <2>2
    <3> QED BY DEF Elements
  <2>3. ASSUME NEW i \in DOMAIN rest PROVE rest[i] \in Elements(s)
    <3> k + i \in DOMAIN s /\ rest[i] = s[k + i]
      BY <1>1, <1>3, <2>3
    <3> QED BY DEF Elements
  <2>4. Elements(s) \subseteq Elements(front) \cup Elements(rest)
    BY <1>1, <2>1 DEF Elements
  <2>5. Elements(front) \subseteq Elements(s)
    BY <2>2 DEF Elements
  <2>6. Elements(rest) \subseteq Elements(s)
    BY <2>3 DEF Elements
  <2> QED BY <2>4, <2>5, <2>6
<1>5. ASSUME Once(s) PROVE Once(front) /\ Elements(front) \cap Elements(rest) = {}
  <2>1. Once(front)
    BY <1>1, <1>2, <1>5 DEF Once
  <2>2. \A i \in 1..k, j \in 1..(Len(s) - k) : front[i] # rest[j]
    BY <1>1, <1>2, <1>3, <1>5 DEF Once
  <2> QED BY <1>2, <1>3, <2>1, <2>2 DEF Elements
<1> QED BY <1>2, <1>4, <1>5 DEF front, rest

(* A set of numbers that is not empty has a least one ... *)
LEMMA LeastNatural ==
  ASSUME NEW T \in SUBSET Nat, T # {}
  PROVE  \E x \in T : \A y \in T : x <= y
<1> DEFINE R == OpToRel(<, Nat)
<1>1. \A x, y \in Nat : <<x, y>> \in R <=> x < y
  BY DEF OpToRel
<1>2. IsWellFoundedOn(R, Nat)
  BY NatLessThanWellFounded
<1> HIDE DEF R
<1>3. PICK x \in T : \A y \in T : ~(<<y, x>> \in R)
  BY <1>2, WFMin
<1>4. ASSUME NEW y \in T PROVE x <= y
  <2>1. x \in Nat /\ y \in Nat /\ ~(<<y, x>> \in R)
    BY <1>3
  <2>2. ~(y < x)
    BY <2>1, <1>1
  <2> HIDE DEF R
  <2> QED BY <2>1, <2>2
<1> QED BY <1>4

(* ... and so whatever holds of 0 and goes from one to the next holds of all. *)
LEMMA FromZero ==
  ASSUME NEW S, 0 \in S, \A n \in Nat : n \in S => n + 1 \in S
  PROVE  Nat \subseteq S
<1> SUFFICES ASSUME Nat \ S # {} PROVE FALSE
  OBVIOUS
<1> PICK x \in Nat \ S : \A y \in Nat \ S : x <= y
  BY LeastNatural
<1>1. x # 0 /\ x - 1 \in Nat
  OBVIOUS
<1>2. x - 1 \in S
  BY <1>1
<1> QED BY <1>1, <1>2

(* Without, by its recursive function: it keeps the order and leaves out   *)
(* what is discarded.                                                      *)
LEMMA WithoutElements ==
  ASSUME NEW S, NEW q \in Seq(S), NEW D
  PROVE  /\ C!Without(q, D) \in Seq(S) /\ Len(C!Without(q, D)) <= Len(q)
         /\ Elements(C!Without(q, D)) = Elements(q) \ D
         /\ Once(q) => Once(C!Without(q, D))
<1> DEFINE Next1(f, n) == IF n = 0 THEN <<>>
                         ELSE IF q[n] \in D THEN f[n - 1] ELSE Append(f[n - 1], q[n])
           Keeps(f, n) == f = [k \in 0..n |-> Next1(f, k)]
           Long == {n \in Nat : \E f : Keeps(f, n)}
           kept == CHOOSE f : Keeps(f, Len(q))
<1>1. /\ Len(q) \in Nat /\ DOMAIN q = 1..Len(q) /\ \A n \in 1..Len(q) : q[n] \in S
  OBVIOUS
<1>2. 0 \in Long
  <2> DEFINE f == [k \in 0..0 |-> <<>>]
  <2>1. Keeps(f, 0)
    OBVIOUS
  <2> QED BY <2>1
<1>3. ASSUME NEW n \in Nat, n \in Long PROVE n + 1 \in Long
  <2> PICK f : Keeps(f, n)
    BY <1>3
  <2>1. \A k \in 0..n : f[k] = Next1(f, k)
    OBVIOUS
  <2> DEFINE g == [k \in 0..(n + 1) |-> IF k = n + 1 THEN Next1(f, n + 1) ELSE f[k]]
  <2>2. \A k \in 0..(n + 1) : k # 0 => k - 1 \in 0..n
    OBVIOUS
  <2>3. \A k \in 0..n : g[k] = f[k]
    OBVIOUS
  <2>4. ASSUME NEW k \in 0..(n + 1) PROVE g[k] = Next1(g, k)
    <3>1. Next1(g, k) = Next1(f, k)
      BY <2>2, <2>3
    <3>2. g[k] = Next1(f, k)
      <4>1. CASE k = n + 1
        BY <4>1
      <4>2. CASE k \in 0..n
        BY <4>2, <2>1, <2>3
      <4> QED BY <4>1, <4>2
    <3> QED BY <3>1, <3>2
  <2>5. Keeps(g, n + 1)
    <3> HIDE DEF Next1
    <3>1. \A k \in 0..(n + 1) : g[k] = Next1(g, k)
      BY <2>4
    <3>2. g = [k \in 0..(n + 1) |-> g[k]]
      OBVIOUS
    <3> HIDE DEF g
    <3> QED BY <3>1, <3>2
  <2> HIDE DEF Keeps, g
  <2> QED BY <2>5
<1>4. Keeps(kept, Len(q))
  <2> HIDE DEF Keeps
  <2>1. Len(q) \in Long
    <3> HIDE DEF Long
    <3> QED BY <1>1, <1>2, <1>3, FromZero
  <2> QED BY <2>1
<1>5. C!Without(q, D) = kept[Len(q)]
  BY Zenon DEF C!Without
<1>6. \A n \in 0..Len(q) : kept[n] = Next1(kept, n)
  <2> HIDE DEF kept
  <2> QED BY <1>4
<1> HIDE DEF Keeps, kept, Long
<1> DEFINE Before(n) == {q[i] : i \in 1..n}
           Right(s, n) == /\ s \in Seq(S) /\ Len(s) <= n
                          /\ Elements(s) = Before(n) \ D
                          /\ Once(q) => Once(s)
           Good == {n \in Nat : n <= Len(q) => Right(kept[n], n)}
<1>7. 0 \in Good
  <2>1. kept[0] = <<>> /\ 0 <= Len(q)
    BY <1>1, <1>6
  <2>2. Right(<<>>, 0)
    BY EmptyElements
  <2> HIDE DEF Right
  <2> QED BY <2>1, <2>2
<1>8. ASSUME NEW n \in Nat, n \in Good PROVE n + 1 \in Good
  <2> SUFFICES ASSUME n + 1 <= Len(q) PROVE Right(kept[n + 1], n + 1)
    OBVIOUS
  <2>1. n + 1 \in 1..Len(q) /\ n <= Len(q) /\ (n + 1) - 1 = n /\ n + 1 # 0 /\ n + 1 \in 0..Len(q)
    BY <1>1
  <2> DEFINE s == kept[n]
             m == q[n + 1]
  <2>2. Right(s, n)
    BY <1>8, <2>1
  <2>3. kept[n + 1] = IF m \in D THEN s ELSE Append(s, m)
    BY <1>6, <2>1
  <2>4. Before(n + 1) = Before(n) \cup {m}
    <3>1. \A i \in 1..(n + 1) : i \in 1..n \/ i = n + 1
      OBVIOUS
    <3>2. 1..n \subseteq 1..(n + 1) /\ n + 1 \in 1..(n + 1)
      OBVIOUS
    <3> QED BY <3>1, <3>2
  <2>5. Once(q) => m \notin Before(n)
    <3>1. 1..n \subseteq DOMAIN q /\ n + 1 \in DOMAIN q /\ \A i \in 1..n : i # n + 1
      BY <1>1, <2>1
    <3> QED BY <3>1 DEF Once
  <2>6. m \in S
    BY <1>1, <2>1
  <2> HIDE DEF s, m, Before
  <2>7. CASE m \in D
    <3>1. Len(s) <= n + 1
      BY <2>2
    <3>2. Before(n + 1) \ D = Before(n) \ D
      BY <2>4, <2>7
    <3>3. kept[n + 1] = s
      BY <2>3, <2>7
    <3> QED BY <2>2, <3>1, <3>2, <3>3
  <2>8. CASE m \notin D
    <3>1. /\ Append(s, m) \in Seq(S) /\ Elements(Append(s, m)) = Elements(s) \cup {m}
          /\ Once(s) /\ m \notin Elements(s) => Once(Append(s, m))
      BY <2>2, <2>6, AppendElements
    <3>2. Len(Append(s, m)) <= n + 1
      BY <2>2, <2>6
    <3>3. Elements(Append(s, m)) = Before(n + 1) \ D
      BY <2>2, <2>4, <2>8, <3>1
    <3>4. Once(q) => Once(Append(s, m))
      BY <2>2, <2>5, <3>1
    <3>5. kept[n + 1] = Append(s, m)
      BY <2>3, <2>8
    <3> QED BY <3>1, <3>2, <3>3, <3>4, <3>5
  <2> QED BY <2>7, <2>8
<1>9. Right(kept[Len(q)], Len(q))
  <2> HIDE DEF Right
  <2>1. Len(q) \in Good
    <3> HIDE DEF Good
    <3> QED BY <1>1, <1>7, <1>8, FromZero
  <2> QED BY <2>1, <1>1
<1>10. Before(Len(q)) = Elements(q)
  BY <1>1 DEF Elements
<1> HIDE DEF Before
<1> QED BY <1>5, <1>9, <1>10

(* One less in the middle. *)
LEMMA RemovedElements ==
  ASSUME NEW S, NEW q \in Seq(S), NEW n \in DOMAIN q
  PROVE  /\ C!Removed(q, n) \in Seq(S) /\ Len(C!Removed(q, n)) <= Len(q)
         /\ Elements(C!Removed(q, n)) \subseteq Elements(q)
         /\ Once(q) => Once(C!Removed(q, n)) /\ q[n] \notin Elements(C!Removed(q, n))
<1> DEFINE r == C!Removed(q, n)
           From(i) == IF i < n THEN i ELSE i + 1
<1>1. /\ Len(q) \in Nat /\ DOMAIN q = 1..Len(q) /\ n \in 1..Len(q)
  OBVIOUS
<1> DEFINE a == SubSeq(q, 1, n - 1)
           b == SubSeq(q, n + 1, Len(q))
<1>2. /\ a \in Seq(S) /\ Len(a) = n - 1 /\ \A i \in 1..(n - 1) : a[i] = q[i]
  BY <1>1
<1>3. /\ b \in Seq(S) /\ Len(b) = Len(q) - n /\ \A i \in 1..(Len(q) - n) : b[i] = q[n + i]
  BY <1>1
<1> HIDE DEF a, b
<1>4. /\ a \o b \in Seq(S) /\ Len(a \o b) = Len(q) - 1
      /\ \A i \in 1..(Len(q) - 1) :
           (a \o b)[i] = IF i <= n - 1 THEN a[i] ELSE b[i - (n - 1)]
  <2>1. a \o b \in Seq(S) /\ Len(a \o b) = Len(a) + Len(b)
    BY <1>2, <1>3, ConcatProperties
  <2>2. \A i \in 1..(Len(a) + Len(b)) :
          (a \o b)[i] = IF i <= Len(a) THEN a[i] ELSE b[i - Len(a)]
    BY <1>2, <1>3, ConcatProperties
  <2>3. Len(a) + Len(b) = Len(q) - 1
    BY <1>1, <1>2, <1>3
  <2> QED BY <1>2, <2>1, <2>2, <2>3
<1>5. r = a \o b
  BY DEF C!Removed, a, b
<1> HIDE DEF r
<1>6. DOMAIN r = 1..(Len(q) - 1)
  BY <1>4, <1>5
<1>7. ASSUME NEW i \in DOMAIN r
      PROVE  From(i) \in DOMAIN q /\ r[i] = q[From(i)] /\ From(i) # n
  <2>1. i \in 1..(Len(q) - 1)
    BY <1>6
  <2>2. CASE i < n
    BY <1>1, <1>2, <1>4, <1>5, <2>1, <2>2
  <2>3. CASE ~(i < n)
    <3>1. i - (n - 1) \in 1..(Len(q) - n) /\ n + (i - (n - 1)) = i + 1
      BY <1>1, <2>1, <2>3
    <3>2. r[i] = b[i - (n - 1)]
      <4>1. r[i] = IF i <= n - 1 THEN a[i] ELSE b[i - (n - 1)]
        BY <1>4, <1>5, <2>1
      <4>2. ~(i <= n - 1)
        BY <1>1, <2>1, <2>3
      <4> QED BY <4>1, <4>2
    <3>3. b[i - (n - 1)] = q[i + 1]
      BY <1>3, <3>1
    <3>4. From(i) = i + 1 /\ i + 1 \in DOMAIN q /\ i + 1 # n
      BY <1>1, <2>1, <2>3
    <3> HIDE DEF From
    <3> QED BY <3>2, <3>3, <3>4
  <2> QED BY <2>2, <2>3
<1>8. ASSUME NEW i \in DOMAIN r, NEW j \in DOMAIN r, From(i) = From(j) PROVE i = j
  BY <1>1, <1>6, <1>8
<1> HIDE DEF From
<1>9. Elements(r) \subseteq Elements(q)
  BY <1>7 DEF Elements
<1>10. ASSUME Once(q) PROVE Once(r) /\ q[n] \notin Elements(r)
  <2>1. ASSUME NEW i \in DOMAIN r, NEW j \in DOMAIN r, r[i] = r[j] PROVE i = j
    <3>1. From(i) = From(j)
      BY <1>7, <1>10, <2>1 DEF Once
    <3> QED BY <3>1, <1>8
  <2>2. ASSUME NEW i \in DOMAIN r PROVE r[i] # q[n]
    BY <1>7, <1>10 DEF Once
  <2> QED BY <2>1, <2>2 DEF Once, Elements
<1> QED BY <1>1, <1>4, <1>5, <1>9, <1>10 DEF r

-------------------------------------------------------------------------------
(* Types. *)

(* What a publisher has in hand is a message, and no other publisher's. *)
LEMMA InHandTypes ==
  ASSUME TypeOK
  PROVE  /\ InHand \subseteq Messages
         /\ \A p \in Publishers : inPublish[p] # "out" => Current(p) \in Messages
         /\ \A p, q \in Publishers : Current(p) = Current(q) => p = q
<1>1. ASSUME NEW p \in Publishers, inPublish[p] # "out" PROVE Current(p) \in Messages
  <2>1. published[p] \in 1..MaxMessages
    BY <1>1, BusAssumption DEF TypeOK
  <2> QED BY <2>1 DEF Current, Messages
<1>2. \A p, q \in Publishers : Current(p) = Current(q) => p = q
  BY DEF Current
<1> QED BY <1>1, <1>2 DEF InHand

(* No action leaves the types. *)
LEMMA TypeStep ==
  ASSUME TypeOK, [Next]_vars
  PROVE  TypeOK'
<1> USE BusAssumption
<1>1. ASSUME NEW p \in Publishers, Publish(p) PROVE TypeOK'
  <2>1. published'[p] \in 1..MaxMessages /\ published' \in [Publishers -> 0..MaxMessages]
    BY <1>1 DEF Publish, TypeOK
  <2>2. inPublish' \in [Publishers -> {"out", "send", "store"}]
    BY <1>1 DEF Publish, TypeOK
  <2>3. \A q \in Publishers : inPublish'[q] # "out" => published'[q] > 0
    BY <1>1, <2>1 DEF Publish, TypeOK
  <2> QED BY <1>1, <2>1, <2>2, <2>3 DEF Publish, TypeOK
<1>2. ASSUME NEW p \in Publishers, Send(p) PROVE TypeOK'
  <2>1. Current(p) \in Messages
    BY <1>2, InHandTypes DEF Send
  <2>2. wire' \in Seq(Messages)
    <3>1. wire \in Seq(Messages)
      BY DEF TypeOK
    <3>2. Append(wire, Current(p)) \in Seq(Messages)
      BY <2>1, <3>1, AppendElements
    <3> QED BY <1>2, <3>1, <3>2 DEF Send
  <2>3. inPublish' \in [Publishers -> {"out", "send", "store"}]
    BY <1>2 DEF Send, TypeOK
  <2>4. \A q \in Publishers : inPublish'[q] # "out" => published'[q] > 0
    BY <1>2 DEF Send, TypeOK
  <2> QED BY <1>2, <2>2, <2>3, <2>4 DEF Send, TypeOK
<1>3. ASSUME NEW p \in Publishers, Store(p) PROVE TypeOK'
  <2>1. Current(p) \in Messages
    BY <1>3, InHandTypes DEF Store
  <2>2. buffer' \in Seq(Messages) /\ Len(buffer') <= BufferDepth
    <3>1. CASE Full
      <4>1. Tail(buffer) \in Seq(Messages) /\ Len(Tail(buffer)) = BufferDepth - 1
        BY <3>1 DEF Full, TypeOK
      <4> QED BY <1>3, <2>1, <3>1, <4>1 DEF Store, AppendBounded
    <3>2. CASE ~Full
      BY <1>3, <2>1, <3>2 DEF Store, AppendBounded, Full, TypeOK
    <3> QED BY <3>1, <3>2
  <2>3. Elements(buffer) \subseteq Messages
    BY DEF Elements, TypeOK
  <2>4. overflowed' \subseteq Messages
    BY <1>3, <2>1, <2>3 DEF Store, TypeOK
  <2>5. inPublish' \in [Publishers -> {"out", "send", "store"}]
    BY <1>3 DEF Store, TypeOK
  <2>6. \A q \in Publishers : inPublish'[q] # "out" => published'[q] > 0
    BY <1>3 DEF Store, TypeOK
  <2>7. dropped' \in Nat
    BY <1>3 DEF Store, TypeOK
  <2> QED BY <1>3, <2>2, <2>4, <2>5, <2>6, <2>7 DEF Store, TypeOK
<1>4. CASE OnConnect
  BY <1>4 DEF OnConnect, TypeOK
<1>5. CASE FlushSwap
  <2>1. pending' \in Seq(Messages) /\ buffer' = <<>>
    BY <1>5 DEF FlushSwap, AfterSwap, TypeOK
  <2> QED BY <1>5, <2>1 DEF FlushSwap, TypeOK
<1>6. CASE FlushOne
  <2>1. CASE Flushed
    BY <1>6, <2>1 DEF FlushOne, TypeOK
  <2>2. CASE ~Flushed
    <3>1. Head(pending) \in Messages /\ Tail(pending) \in Seq(Messages)
      BY <2>2, TailElements DEF Flushed, TypeOK
    <3>2. Append(wire, Head(pending)) \in Seq(Messages)
      BY <3>1, AppendElements DEF TypeOK
    <3>3. wire' \in Seq(Messages) /\ pending' \in Seq(Messages)
      BY <1>6, <2>2, <3>1, <3>2 DEF FlushOne
    <3> QED BY <1>6, <2>2, <3>3 DEF FlushOne, TypeOK
  <2> QED BY <2>1, <2>2
<1>7. CASE Disconnect
  <2> PICK kept \in 0..Len(wire) :
         /\ wire' = SubSeq(wire, 1, kept)
         /\ severed' = severed \cup Elements(SubSeq(wire, kept + 1, Len(wire)))
    BY <1>7 DEF Disconnect
  <2>1. wire' \in Seq(Messages) /\ Elements(SubSeq(wire, kept + 1, Len(wire))) \subseteq Elements(wire)
    <3>1. wire \in Seq(Messages)
      BY DEF TypeOK
    <3> QED BY <3>1, CutElements
  <2>2. Elements(wire) \subseteq Messages
    BY DEF Elements, TypeOK
  <2>3. severed' \subseteq Messages
    BY <2>1, <2>2 DEF TypeOK
  <2> QED BY <1>7, <2>1, <2>3 DEF Disconnect, TypeOK
<1>8. CASE OnDisconnect
  BY <1>8 DEF OnDisconnect, TypeOK
<1>9. CASE Deliver
  <2>1. Head(wire) \in Messages /\ Tail(wire) \in Seq(Messages)
    BY <1>9, TailElements DEF Deliver, TypeOK
  <2>2. Head(wire)[1] \in Publishers
    BY <2>1 DEF Messages
  <2>3. received' \in [Publishers -> Seq(Messages)]
    BY <1>9, <2>1, <2>2 DEF Deliver, TypeOK
  <2> QED BY <1>9, <2>1, <2>3 DEF Deliver, TypeOK
<1>10. CASE UNCHANGED vars
  BY <1>10 DEF vars, TypeOK
<1> QED BY <1>1, <1>2, <1>3, <1>4, <1>5, <1>6, <1>7, <1>8, <1>9, <1>10 DEF Next

(* The initial state has them. *)
LEMMA InitTypes == ASSUME Init PROVE TypeOK
<1>1. /\ buffer \in Seq(Messages) /\ pending \in Seq(Messages) /\ wire \in Seq(Messages)
      /\ Len(buffer) = 0
  BY DEF Init
<1>2. received \in [Publishers -> Seq(Messages)]
  <2> <<>> \in Seq(Messages)
    OBVIOUS
  <2> QED BY DEF Init
<1>3. /\ published \in [Publishers -> 0..MaxMessages]
      /\ inPublish \in [Publishers -> {"out", "send", "store"}]
      /\ \A p \in Publishers : inPublish[p] = "out"
      /\ outages \in 0..MaxOutages /\ Len(buffer) <= BufferDepth
  BY <1>1, BusAssumption DEF Init
<1> QED BY <1>1, <1>2, <1>3 DEF Init, TypeOK

(* TypeOK: whatever the number of publishers, messages and outages, and    *)
(* the depth of the buffer (bus.py, Bus).                                  *)
THEOREM TypeCorrect == Spec => []TypeOK
BY InitTypes, TypeStep, PTL DEF Spec

-------------------------------------------------------------------------------
(* Where each action moves a message. *)

(* _publish begins: a new one comes into a publisher's hand. *)
LEMMA PublishMoves ==
  ASSUME TypeOK, NEW p \in Publishers, Publish(p)
  PROVE  \E m \in Messages \ Offered : Offered' = Offered \cup {m} /\ InHand' = InHand \cup {m}
<1> DEFINE m == <<p, published[p] + 1>>
<1>1. /\ published[p] + 1 \in 1..MaxMessages
      /\ published' = [published EXCEPT ![p] = @ + 1]
      /\ inPublish[p] = "out"
  BY BusAssumption DEF Publish, TypeOK
<1>2. /\ published'[p] = published[p] + 1 /\ inPublish'[p] # "out"
      /\ \A q \in Publishers \ {p} : published'[q] = published[q] /\ inPublish'[q] = inPublish[q]
  BY DEF Publish, TypeOK
<1>3. m \in Messages \ Offered
  BY <1>1, BusAssumption DEF Messages, Offered, TypeOK
<1>4. Offered' = Offered \cup {m}
  <2>1. ASSUME NEW a \in Publishers, NEW n \in 1..MaxMessages
        PROVE  n <= published'[a] <=> n <= published[a] \/ <<a, n>> = m
    BY <1>1, <1>2 DEF TypeOK
  <2>2. ASSUME NEW x \in Messages
        PROVE  x[2] <= published'[x[1]] <=> x[2] <= published[x[1]] \/ x = m
    BY <2>1 DEF Messages
  <2> QED BY <1>3, <2>2 DEF Offered
<1>5. InHand' = InHand \cup {m}
  <2>1. Current(p)' = m /\ \A q \in Publishers \ {p} : Current(q)' = Current(q)
    BY <1>2 DEF Current
  <2> QED BY <1>1, <1>2, <2>1 DEF InHand
<1> QED BY <1>3, <1>4, <1>5

(* A publisher that is done has it in hand no more. *)
LEMMA HandEmptied ==
  ASSUME TypeOK, NEW p \in Publishers, inPublish[p] # "out", published' = published,
         inPublish' = [inPublish EXCEPT ![p] = "out"]
  PROVE  /\ Current(p) \in InHand /\ InHand' = InHand \ {Current(p)} /\ Offered' = Offered
<1>1. /\ inPublish'[p] = "out"
      /\ \A q \in Publishers \ {p} : inPublish'[q] = inPublish[q]
  BY DEF TypeOK
<1>2. \A q \in Publishers : Current(q)' = Current(q)
  BY DEF Current
<1>3. \A q \in Publishers : Current(p) = Current(q) => p = q
  BY InHandTypes
<1> QED BY <1>1, <1>2, <1>3 DEF InHand, Offered

(* Nothing else does. *)
LEMMA HandKept ==
  ASSUME published' = published, \A p \in Publishers : inPublish'[p] = "out" <=> inPublish[p] = "out"
  PROVE  InHand' = InHand /\ Offered' = Offered
<1> \A q \in Publishers : Current(q)' = Current(q)
  BY DEF Current
<1> QED BY DEF InHand, Offered

(* The buffer lets go of its oldest, if it is full. *)
LEMMA StoreMoves ==
  ASSUME TypeOK, NEW p \in Publishers, Store(p), Once(buffer), Current(p) \notin Elements(buffer)
  PROVE  \E lost \in SUBSET Elements(buffer) :
           /\ Elements(buffer') = (Elements(buffer) \ lost) \cup {Current(p)}
           /\ overflowed' = overflowed \cup lost
           /\ \/ lost = {} /\ dropped' = dropped
              \/ (\E m : lost = {m}) /\ dropped' = dropped + 1
           /\ Once(buffer')
<1> DEFINE c == Current(p)
<1>1. c \in Messages /\ buffer \in Seq(Messages) /\ inPublish[p] = "store"
  BY InHandTypes DEF Store, TypeOK
<1>2. /\ buffer' = AppendBounded(c)
      /\ overflowed' = overflowed \cup ((Elements(buffer) \cup {c}) \ Elements(buffer'))
      /\ dropped' = IF Full THEN dropped + 1 ELSE dropped
  BY DEF Store
<1> HIDE DEF c
<1>3. CASE Full
  <2>1. buffer # <<>>
    BY <1>3, BusAssumption DEF Full
  <2>2. /\ Tail(buffer) \in Seq(Messages)
        /\ Elements(buffer) = Elements(Tail(buffer)) \cup {Head(buffer)}
        /\ Once(Tail(buffer)) /\ Head(buffer) \notin Elements(Tail(buffer))
    BY <1>1, <2>1, TailElements
  <2>3. c \notin Elements(buffer)
    BY DEF c
  <2>4. /\ Elements(Append(Tail(buffer), c)) = Elements(Tail(buffer)) \cup {c}
        /\ Once(Append(Tail(buffer), c))
    <3> DEFINE t == Tail(buffer)
    <3>1. t \in Seq(Messages) /\ c \notin Elements(t) /\ Once(t)
      BY <2>2, <2>3
    <3> HIDE DEF t
    <3>2. Elements(Append(t, c)) = Elements(t) \cup {c} /\ Once(Append(t, c))
      BY <1>1, <3>1, AppendElements
    <3> QED BY <3>2 DEF t
  <2>5. buffer' = Append(Tail(buffer), c)
    BY <1>2, <1>3 DEF AppendBounded
  <2>6. /\ Elements(buffer') = (Elements(buffer) \ {Head(buffer)}) \cup {c}
        /\ overflowed' = overflowed \cup {Head(buffer)}
    BY <1>2, <2>2, <2>3, <2>4, <2>5
  <2> QED BY <1>2, <1>3, <2>2, <2>4, <2>5, <2>6 DEF c
<1>4. CASE ~Full
  <2>1. buffer' = Append(buffer, c)
    BY <1>2, <1>4 DEF AppendBounded
  <2>2. c \notin Elements(buffer)
    BY DEF c
  <2>3. Elements(buffer') = Elements(buffer) \cup {c} /\ Once(buffer')
    BY <1>1, <2>1, <2>2, AppendElements
  <2> QED BY <1>2, <1>4, <2>3 DEF c
<1> QED BY <1>3, <1>4

(* The broker has one more. *)
LEMMA DeliverMoves ==
  ASSUME TypeOK, Deliver, Once(wire)
  PROVE  /\ Head(wire) \in Messages
         /\ Elements(wire) = Elements(wire') \cup {Head(wire)}
         /\ Head(wire) \notin Elements(wire') /\ Once(wire')
         /\ Received' = Received \cup {Head(wire)}
<1> DEFINE m == Head(wire)
<1>1. /\ m \in Messages /\ wire' = Tail(wire)
      /\ Elements(wire) = Elements(wire') \cup {m}
      /\ m \notin Elements(wire') /\ Once(wire')
  BY TailElements DEF Deliver, TypeOK
<1>2. m[1] \in Publishers /\ received[m[1]] \in Seq(Messages)
  BY <1>1 DEF Messages, TypeOK
<1>3. received' = [received EXCEPT ![m[1]] = Append(@, m)]
  BY DEF Deliver
<1> HIDE DEF m
<1>4. /\ received'[m[1]] = Append(received[m[1]], m)
      /\ \A q \in Publishers \ {m[1]} : received'[q] = received[q]
  BY <1>2, <1>3 DEF TypeOK
<1>5. Elements(received'[m[1]]) = Elements(received[m[1]]) \cup {m}
  BY <1>1, <1>2, <1>4, AppendElements
<1>6. Received' = Received \cup {m}
  <2>1. ASSUME NEW x, NEW q \in Publishers
        PROVE  /\ x \in Elements(received'[q]) => x \in Elements(received[q]) \/ x = m
               /\ x \in Elements(received[q]) => x \in Elements(received'[q])
    BY <1>4, <1>5
  <2>2. m \in Elements(received'[m[1]])
    BY <1>5
  <2>3. \A x : x \in Received' <=> \E q \in Publishers : x \in Elements(received'[q])
    BY DEF Received
  <2>4. \A x : x \in Received <=> \E q \in Publishers : x \in Elements(received[q])
    BY DEF Received
  <2>5. \A x : x \in Received' <=> x \in Received \/ x = m
    BY <1>2, <2>1, <2>2, <2>3, <2>4
  <2> QED BY <2>5
<1> QED BY <1>1, <1>6 DEF m

-------------------------------------------------------------------------------
(* The invariant.  Seven places a message can be in, no two of them at     *)
(* once, and no sequence has it twice.                                     *)
Apart(A, B) == \A m \in A : m \notin B

InOnePlace(hand, kept, taken, posted, arrived, overrun, cut) ==
  /\ Apart(hand, kept \cup taken \cup posted \cup arrived \cup overrun \cup cut)
  /\ Apart(kept, taken \cup posted \cup arrived \cup overrun \cup cut)
  /\ Apart(taken, posted \cup arrived \cup overrun \cup cut)
  /\ Apart(posted, arrived \cup overrun \cup cut)
  /\ Apart(arrived, overrun \cup cut)
  /\ Apart(overrun, cut)

Placed ==
  InOnePlace(InHand, Elements(buffer), Elements(pending), Elements(wire), Received,
             overflowed, severed)

(* _flush has something to send only while it runs (bus.py, Bus._flush). *)
FlushOnly == network # "flushing" => pending = <<>>

Counted == IsFiniteSet(overflowed) /\ dropped = Cardinality(overflowed)

Everywhere == Offered = OnTheWay \cup Received \cup overflowed \cup severed

Single == Once(buffer) /\ Once(pending) /\ Once(wire)

IInv == TypeOK /\ Placed /\ Single /\ FlushOnly /\ Counted /\ Everywhere

(* At the start there is no message anywhere. *)
LEMMA Initially == Init => IInv
<1> SUFFICES ASSUME Init PROVE IInv
  OBVIOUS
<1>1. TypeOK
  BY InitTypes
<1>2. /\ InHand = {} /\ Elements(buffer) = {} /\ Elements(pending) = {} /\ Elements(wire) = {}
      /\ Single
  BY EmptyElements DEF Init, InHand, Single
<1>3. Received = {}
  BY EmptyElements DEF Init, Received
<1>4. Offered = {}
  BY BusAssumption DEF Init, Offered, Messages
<1>5. Counted
  BY FS_EmptySet DEF Init, Counted
<1>6. Placed
  BY <1>2, <1>3 DEF Init, Placed, InOnePlace, Apart
<1> QED BY <1>1, <1>2, <1>3, <1>4, <1>5, <1>6 DEF Init, IInv, FlushOnly, Everywhere, OnTheWay

(* An action that counts nothing. *)
LEMMA CountedKept ==
  ASSUME Counted, UNCHANGED <<dropped, overflowed>>
  PROVE  Counted'
BY DEF Counted

(* A new message is in nobody else's hand yet. *)
LEMMA PublishStep ==
  ASSUME IInv, TypeOK', NEW p \in Publishers, Publish(p)
  PROVE  IInv'
<1> PICK m \in Messages \ Offered : Offered' = Offered \cup {m} /\ InHand' = InHand \cup {m}
  BY PublishMoves DEF IInv
<1>1. UNCHANGED <<connected, network, buffer, pending, wire, received, dropped, outages,
                  overflowed, severed>>
  BY DEF Publish
<1>2. Received' = Received
  BY <1>1 DEF Received
<1>3. Placed' /\ Everywhere'
  BY <1>1, <1>2 DEF IInv, Placed, InOnePlace, Apart, Everywhere, OnTheWay
<1>4. Single' /\ FlushOnly' /\ Counted'
  BY <1>1, CountedKept DEF IInv, Single, FlushOnly
<1> QED BY <1>3, <1>4 DEF IInv

(* From the hand to the wire, or back to be stored. *)
LEMMA SendStep ==
  ASSUME IInv, TypeOK', NEW p \in Publishers, Send(p)
  PROVE  IInv'
<1> DEFINE c == Current(p)
<1>1. UNCHANGED <<published, connected, network, buffer, pending, received, dropped, outages,
                  overflowed, severed>>
  BY DEF Send
<1>2. Received' = Received
  BY <1>1 DEF Received
<1>3. CASE HasSocket
  <2>1. c \in InHand /\ InHand' = InHand \ {c} /\ Offered' = Offered
    BY <1>3, HandEmptied DEF Send, IInv
  <2>2. c \in Messages /\ wire' = Append(wire, c) /\ wire \in Seq(Messages)
    BY <1>3, InHandTypes DEF Send, IInv, TypeOK
  <2> HIDE DEF c
  <2>3. c \notin Elements(wire) /\ Once(wire)
    BY <2>1 DEF IInv, Placed, InOnePlace, Apart, Single
  <2>4. Elements(wire') = Elements(wire) \cup {c} /\ Once(wire')
    BY <2>2, <2>3, AppendElements
  <2>5. Placed' /\ Everywhere'
    BY <1>1, <1>2, <2>1, <2>4 DEF IInv, Placed, InOnePlace, Apart, Everywhere, OnTheWay
  <2>6. Single' /\ FlushOnly' /\ Counted'
    BY <1>1, <2>4, CountedKept DEF IInv, Single, FlushOnly
  <2> QED BY <2>5, <2>6 DEF IInv
<1>4. CASE ~HasSocket
  <2>1. wire' = wire /\ \A q \in Publishers : inPublish'[q] = "out" <=> inPublish[q] = "out"
    BY <1>4 DEF Send, IInv, TypeOK
  <2>2. InHand' = InHand /\ Offered' = Offered
    BY <1>1, <2>1, HandKept
  <2>3. Placed' /\ Everywhere'
    BY <1>1, <1>2, <2>1, <2>2 DEF IInv, Placed, Everywhere, OnTheWay
  <2>4. Single' /\ FlushOnly' /\ Counted'
    BY <1>1, <2>1, CountedKept DEF IInv, Single, FlushOnly
  <2> QED BY <2>3, <2>4 DEF IInv
<1> QED BY <1>3, <1>4

(* From the hand to the buffer, and the oldest out of it. *)
LEMMA StoreStep ==
  ASSUME IInv, TypeOK', NEW p \in Publishers, Store(p)
  PROVE  IInv'
<1> DEFINE c == Current(p)
<1>1. UNCHANGED <<published, connected, network, pending, wire, received, outages, severed>>
  BY DEF Store
<1>2. Received' = Received
  BY <1>1 DEF Received
<1>3. c \in InHand /\ InHand' = InHand \ {c} /\ Offered' = Offered
  BY HandEmptied DEF Store, IInv
<1>4. c \notin Elements(buffer) /\ Once(buffer)
  BY <1>3 DEF IInv, Placed, InOnePlace, Apart, Single
<1> PICK lost \in SUBSET Elements(buffer) :
           /\ Elements(buffer') = (Elements(buffer) \ lost) \cup {c}
           /\ overflowed' = overflowed \cup lost
           /\ \/ lost = {} /\ dropped' = dropped
              \/ (\E m : lost = {m}) /\ dropped' = dropped + 1
           /\ Once(buffer')
  BY <1>4, StoreMoves DEF IInv
<1> HIDE DEF c
<1>5. Placed' /\ Everywhere'
  BY <1>1, <1>2, <1>3 DEF IInv, Placed, InOnePlace, Apart, Everywhere, OnTheWay
<1>6. Counted'
  <2>1. CASE lost = {} /\ dropped' = dropped
    BY <2>1 DEF IInv, Counted
  <2>2. ASSUME NEW m, lost = {m}, dropped' = dropped + 1 PROVE Counted'
    <3>1. m \notin overflowed
      BY <2>2 DEF IInv, Placed, InOnePlace, Apart
    <3>2. IsFiniteSet(overflowed \cup {m}) /\ Cardinality(overflowed \cup {m}) = Cardinality(overflowed) + 1
      BY <3>1, FS_AddElement DEF IInv, Counted
    <3> QED BY <2>2, <3>2 DEF IInv, Counted
  <2> QED BY <2>1, <2>2
<1>7. Single' /\ FlushOnly'
  BY <1>1 DEF IInv, Single, FlushOnly, Store
<1> QED BY <1>5, <1>6, <1>7 DEF IInv

(* The network thread and the wire do not touch what publishers do. *)
LEMMA NetworkKeeps ==
  ASSUME UNCHANGED <<published, inPublish, dropped, overflowed>>, Counted
  PROVE  InHand' = InHand /\ Offered' = Offered /\ Counted'
<1>1. InHand' = InHand /\ Offered' = Offered
  BY HandKept
<1> QED BY <1>1, CountedKept

(* From the buffer to _flush ... *)
LEMMA FlushSwapStep ==
  ASSUME IInv, TypeOK', FlushSwap
  PROVE  IInv'
<1>1. UNCHANGED <<published, inPublish, connected, wire, received, dropped, outages, overflowed,
                  severed>>
  BY DEF FlushSwap
<1>2. /\ pending = <<>> /\ pending' = buffer /\ buffer' = <<>> /\ network' = "flushing"
  BY DEF IInv, FlushOnly, FlushSwap, AfterSwap
<1>3. /\ Elements(pending) = {} /\ Elements(buffer') = {} /\ Once(buffer')
      /\ Elements(pending') = Elements(buffer)
  BY <1>2, EmptyElements
<1>4. InHand' = InHand /\ Offered' = Offered /\ Counted' /\ Received' = Received
  BY <1>1, NetworkKeeps DEF IInv, Received
<1>5. Placed' /\ Everywhere'
  BY <1>1, <1>3, <1>4 DEF IInv, Placed, InOnePlace, Apart, Everywhere, OnTheWay
<1>6. Single' /\ FlushOnly'
  BY <1>1, <1>2, <1>3 DEF IInv, Single, FlushOnly
<1> QED BY <1>4, <1>5, <1>6 DEF IInv

(* ... and from there to the wire. *)
LEMMA FlushOneStep ==
  ASSUME IInv, TypeOK', FlushOne
  PROVE  IInv'
<1>1. UNCHANGED <<published, inPublish, connected, buffer, received, dropped, outages,
                  overflowed, severed>>
  BY DEF FlushOne
<1>2. InHand' = InHand /\ Offered' = Offered /\ Counted' /\ Received' = Received
  BY <1>1, NetworkKeeps DEF IInv, Received
<1>3. CASE pending = <<>>
  <2>1. UNCHANGED <<pending, wire>>
    BY <1>3 DEF FlushOne, Flushed
  <2>2. Placed' /\ Everywhere'
    BY <1>1, <1>2, <2>1 DEF IInv, Placed, Everywhere, OnTheWay
  <2>3. Single' /\ FlushOnly'
    BY <1>1, <1>3, <2>1 DEF IInv, Single, FlushOnly
  <2> QED BY <1>2, <2>2, <2>3 DEF IInv
<1>4. CASE pending # <<>>
  <2> DEFINE m == Head(pending)
  <2>1. wire' = Append(wire, m) /\ pending' = Tail(pending) /\ network' = "flushing"
    BY <1>4 DEF FlushOne, Flushed
  <2>2. /\ m \in Messages /\ Elements(pending) = Elements(pending') \cup {m}
        /\ Once(pending') /\ m \notin Elements(pending')
    BY <1>4, <2>1, TailElements DEF IInv, TypeOK, Single
  <2>3. wire \in Seq(Messages) /\ Once(wire)
    BY DEF IInv, TypeOK, Single
  <2> HIDE DEF m
  <2>4. m \notin Elements(wire)
    BY <2>2 DEF IInv, Placed, InOnePlace, Apart
  <2>5. Elements(wire') = Elements(wire) \cup {m} /\ Once(wire')
    BY <2>1, <2>2, <2>3, <2>4, AppendElements
  <2>6. Placed' /\ Everywhere'
    BY <1>1, <1>2, <2>2, <2>5 DEF IInv, Placed, InOnePlace, Apart, Everywhere, OnTheWay
  <2>7. Single' /\ FlushOnly'
    BY <1>1, <2>1, <2>2, <2>5 DEF IInv, Single, FlushOnly
  <2> QED BY <1>2, <2>6, <2>7 DEF IInv
<1> QED BY <1>3, <1>4

(* What the connection takes with it was on the wire. *)
LEMMA DisconnectMoves ==
  ASSUME IInv, Disconnect
  PROVE  \E rest \in SUBSET Elements(wire) :
           /\ Elements(wire') = Elements(wire) \ rest
           /\ severed' = severed \cup rest
           /\ Once(wire')
<1> PICK kept \in 0..Len(wire) :
       /\ wire' = SubSeq(wire, 1, kept)
       /\ severed' = severed \cup Elements(SubSeq(wire, kept + 1, Len(wire)))
  BY DEF Disconnect
<1>1. wire \in Seq(Messages) /\ Once(wire)
  BY DEF IInv, TypeOK, Single
<1> DEFINE rest == Elements(SubSeq(wire, kept + 1, Len(wire)))
<1>2. /\ Elements(wire) = Elements(wire') \cup rest
      /\ Once(wire') /\ Elements(wire') \cap rest = {}
  BY <1>1, CutElements
<1> HIDE DEF rest
<1>3. rest \in SUBSET Elements(wire) /\ Elements(wire') = Elements(wire) \ rest
  BY <1>2
<1> QED BY <1>2, <1>3 DEF rest

(* So the wire is cut. *)
LEMMA DisconnectStep ==
  ASSUME IInv, TypeOK', Disconnect
  PROVE  IInv'
<1>1. UNCHANGED <<published, inPublish, connected, buffer, pending, received, dropped, overflowed>>
  BY DEF Disconnect
<1>2. InHand' = InHand /\ Offered' = Offered /\ Counted' /\ Received' = Received
  BY <1>1, NetworkKeeps DEF IInv, Received
<1> PICK rest \in SUBSET Elements(wire) :
           /\ Elements(wire') = Elements(wire) \ rest
           /\ severed' = severed \cup rest
           /\ Once(wire')
  BY DisconnectMoves
<1>3. Placed' /\ Everywhere'
  BY <1>1, <1>2 DEF IInv, Placed, InOnePlace, Apart, Everywhere, OnTheWay
<1>4. Single' /\ FlushOnly'
  BY <1>1 DEF IInv, Single, FlushOnly, Disconnect
<1> QED BY <1>2, <1>3, <1>4 DEF IInv

(* From the wire to the broker. *)
LEMMA DeliverStep ==
  ASSUME IInv, TypeOK', Deliver
  PROVE  IInv'
<1>1. UNCHANGED <<published, inPublish, connected, network, buffer, pending, dropped, outages,
                  overflowed, severed>>
  BY DEF Deliver
<1>2. InHand' = InHand /\ Offered' = Offered /\ Counted'
  BY <1>1, NetworkKeeps DEF IInv
<1> DEFINE m == Head(wire)
<1>3. /\ Elements(wire) = Elements(wire') \cup {m} /\ m \notin Elements(wire')
      /\ Received' = Received \cup {m} /\ Once(wire')
  BY DeliverMoves DEF IInv, Single
<1> HIDE DEF m
<1>4. Placed' /\ Everywhere'
  BY <1>1, <1>2, <1>3 DEF IInv, Placed, InOnePlace, Apart, Everywhere, OnTheWay
<1>5. Single' /\ FlushOnly'
  BY <1>1, <1>3 DEF IInv, Single, FlushOnly
<1> QED BY <1>2, <1>4, <1>5 DEF IInv

(* Nothing moves. *)
LEMMA StillStep ==
  ASSUME IInv, TypeOK', OnConnect \/ OnDisconnect \/ UNCHANGED vars
  PROVE  IInv'
<1>1. UNCHANGED <<published, inPublish, buffer, pending, wire, received, dropped, overflowed, severed>>
  BY DEF OnConnect, OnDisconnect, vars
<1>2. InHand' = InHand /\ Offered' = Offered /\ Counted' /\ Received' = Received
  BY <1>1, NetworkKeeps DEF IInv, Received
<1>3. Placed' /\ Everywhere' /\ Single'
  BY <1>1, <1>2 DEF IInv, Placed, Everywhere, OnTheWay, Single
<1>4. FlushOnly'
  BY DEF IInv, FlushOnly, OnConnect, OnDisconnect, vars
<1> QED BY <1>2, <1>3, <1>4 DEF IInv

(* Every action keeps the invariant. *)
LEMMA Inductive ==
  ASSUME IInv, [Next]_vars
  PROVE  IInv'
<1>1. TypeOK'
  BY TypeStep DEF IInv
<1>2. CASE \E p \in Publishers : Publish(p) \/ Send(p) \/ Store(p)
  BY <1>1, <1>2, PublishStep, SendStep, StoreStep
<1>3. CASE FlushSwap \/ FlushOne \/ Disconnect \/ Deliver
  BY <1>1, <1>3, FlushSwapStep, FlushOneStep, DisconnectStep, DeliverStep
<1>4. CASE OnConnect \/ OnDisconnect \/ UNCHANGED vars
  BY <1>1, <1>4, StillStep
<1> QED BY <1>2, <1>3, <1>4 DEF Next

(* So it holds throughout. *)
LEMMA Invariant == Spec => []IInv
BY Initially, Inductive, PTL DEF Spec

(* NothingVanishes: whatever interleaving of publishers and the network    *)
(* thread, every message published is on its way, received, lost with the  *)
(* connection, or counted in _dropped (bus.py:17-20).                      *)
THEOREM NothingIsLostSilently == Spec => []NothingVanishes
<1>1. IInv => NothingVanishes
  BY DEF IInv, Counted, Everywhere, NothingVanishes
<1> QED BY <1>1, Invariant, PTL

-------------------------------------------------------------------------------
(* The outbox is a lossy channel.                                          *)

(* What has arrived in the channel is in `received`. *)
LEMMA ArrivedIsReceived ==
  ASSUME TypeOK
  PROVE  Channel!Arrived \subseteq Received
<1> SUFFICES ASSUME NEW m \in Messages,
                    NEW i \in DOMAIN received[m[1]], received[m[1]][i] = m
             PROVE  m \in Received
  BY DEF Channel!Arrived, Channel!TopicOf
<1>1. m[1] \in Publishers /\ m \in Elements(received[m[1]])
  BY DEF Messages, Elements
<1> QED BY <1>1 DEF Received

(* Initial states map to initial states. *)
LEMMA ChannelInit ==
  ASSUME Init
  PROVE  Channel!Init
<1>1. Offered = {}
  BY BusAssumption DEF Init, Offered, Messages
<1> QED BY <1>1 DEF Init, Channel!Init

(* What is neither received nor lost is underway. *)
LEMMA LoseStep ==
  ASSUME IInv, Offered' = Offered, received' = received,
         NEW S \in SUBSET Messages, S \subseteq Offered, Apart(S, Received \cup overflowed \cup severed),
         overflowed' \cup severed' = overflowed \cup severed \cup S
  PROVE  [Channel!Next]_(Channel!vars)
<1>1. S \subseteq Channel!Underway
  BY ArrivedIsReceived DEF Channel!Underway, Apart, IInv
<1>2. Channel!Lose(S)
  BY <1>1 DEF Channel!Lose
<1> QED BY <1>2 DEF Channel!Next

(* Every step maps to a step of the channel, or to a stutter: Publish to   *)
(* Offer, Store and Disconnect to Lose, Deliver to Arrive.                 *)
LEMMA Refines ==
  ASSUME IInv, [Next]_vars
  PROVE  [Channel!Next]_(Channel!vars)
<1>1. ASSUME NEW p \in Publishers, Publish(p) PROVE [Channel!Next]_(Channel!vars)
  <2> PICK m \in Messages \ Offered : Offered' = Offered \cup {m}
    BY <1>1, PublishMoves DEF IInv
  <2>1. Channel!Offer(m)
    BY <1>1 DEF Publish, Channel!Offer
  <2> QED BY <2>1 DEF Channel!Next
<1>2. ASSUME NEW p \in Publishers, Send(p) PROVE [Channel!Next]_(Channel!vars)
  <2>1. UNCHANGED <<published, received, overflowed, severed>>
    BY <1>2 DEF Send
  <2> QED BY <2>1 DEF Offered, Channel!vars
<1>3. ASSUME NEW p \in Publishers, Store(p) PROVE [Channel!Next]_(Channel!vars)
  <2>1. UNCHANGED <<published, received, severed>>
    BY <1>3 DEF Store
  <2>2. Current(p) \in InHand
    BY <1>3 DEF Store, InHand
  <2>3. Current(p) \notin Elements(buffer) /\ Once(buffer)
    BY <2>2 DEF IInv, Placed, InOnePlace, Apart, Single
  <2> PICK lost \in SUBSET Elements(buffer) : overflowed' = overflowed \cup lost
    BY <1>3, <2>3, StoreMoves DEF IInv
  <2>4. lost \subseteq Offered /\ Apart(lost, Received \cup overflowed \cup severed) /\ lost \in SUBSET Messages
    BY DEF IInv, Placed, InOnePlace, Apart, Everywhere, OnTheWay, Offered
  <2>5. Offered' = Offered /\ overflowed' \cup severed' = overflowed \cup severed \cup lost
    BY <2>1 DEF Offered
  <2> QED BY <2>1, <2>4, <2>5, LoseStep
<1>4. CASE Disconnect
  <2>1. UNCHANGED <<published, received, overflowed>>
    BY <1>4 DEF Disconnect
  <2> PICK lost \in SUBSET Elements(wire) : severed' = severed \cup lost
    BY <1>4, DisconnectMoves
  <2>2. lost \subseteq Offered /\ Apart(lost, Received \cup overflowed \cup severed) /\ lost \in SUBSET Messages
    BY DEF IInv, Placed, InOnePlace, Apart, Everywhere, OnTheWay, Offered
  <2>3. Offered' = Offered /\ overflowed' \cup severed' = overflowed \cup severed \cup lost
    BY <2>1 DEF Offered
  <2> QED BY <2>1, <2>2, <2>3, LoseStep
<1>5. CASE Deliver
  <2> DEFINE m == Head(wire)
  <2>1. UNCHANGED <<published, overflowed, severed>> /\ received' = [received EXCEPT ![m[1]] = Append(@, m)]
    BY <1>5 DEF Deliver
  <2>2. m \in Messages /\ m \in Elements(wire)
    BY <1>5, DeliverMoves DEF IInv, Single
  <2> HIDE DEF m
  <2>3. m \in Offered /\ m \notin Received \cup overflowed \cup severed
    BY <2>2 DEF IInv, Placed, InOnePlace, Apart, Everywhere, OnTheWay
  <2>4. m \in Channel!Underway
    BY <2>3, ArrivedIsReceived DEF Channel!Underway, IInv
  <2>5. Channel!Arrive(m)
    BY <2>1, <2>4 DEF Channel!Arrive, Channel!TopicOf, Offered
  <2> QED BY <2>2, <2>5 DEF Channel!Next
<1>6. CASE OnConnect \/ FlushSwap \/ FlushOne \/ OnDisconnect \/ UNCHANGED vars
  <2>1. UNCHANGED <<published, received, overflowed, severed>>
    BY <1>6 DEF OnConnect, FlushSwap, FlushOne, OnDisconnect, vars
  <2> QED BY <2>1 DEF Offered, Channel!vars
<1> QED BY <1>1, <1>2, <1>3, <1>4, <1>5, <1>6 DEF Next

(* ImplementsChannel: with any number of publishers, the client delivers a *)
(* message at most once and invents none; all it may do is lose it         *)
(* (bus.py, Bus._publish and _flush).                                      *)
THEOREM OutboxImplementsChannel == Spec => ImplementsChannel
<1>1. Init => Channel!Init
  BY ChannelInit
<1>2. IInv /\ [Next]_vars => [Channel!Next]_(Channel!vars)
  BY Refines
<1> QED BY <1>1, <1>2, Invariant, PTL DEF Spec, ImplementsChannel, Channel!Spec

-------------------------------------------------------------------------------
(* Commands and their answers.  The invariant behind what is said of them: *)
(* a command is carried out once, and its answer is in one place of every  *)
(* inbox: on its way to it, in it, or handed to one command.               *)

InboxOf(p) == HomeOf[p[1][1]]

(* Who has begun what, and where it is. *)
AckTypes ==
  /\ begun \in [Clients -> Nat] /\ \A c \in Clients : begun[c] <= MaxAsked[c]
  /\ current \in [Clients -> C!Commands \cup {C!NoCommand}]
  /\ \A c \in Clients : ~C!Idle(c) => current[c][1] = c /\ current[c][2] = begun[c]
  /\ sent \in SUBSET Clients /\ \A c \in sent : ~C!Idle(c)
  /\ requests \in SUBSET C!Commands /\ handled \in SUBSET C!Commands
  /\ givenUp \in SUBSET C!Commands /\ told \in SUBSET (C!Commands \X handled)
  /\ answers \in [Inboxes -> SUBSET handled]
  /\ queue \in [Inboxes -> Seq(handled)] /\ \A i \in Inboxes : Len(queue[i]) <= Depth

(* What a client is done with came before what it is busy with. *)
Numbered ==
  \A m \in givenUp \cup {p[1] : p \in told} :
    m[2] <= begun[m[1]] /\ (~C!Idle(m[1]) => m[2] < begun[m[1]])

SentWereBegun == requests \cup handled \subseteq C!Begun

(* The service gets a command once. *)
HandledOnce ==
  /\ requests \cap handled = {}
  /\ \A c \in Clients : ~C!Idle(c) /\ c \notin sent => current[c] \notin requests \cup handled

(* An acknowledgement is on its way to an inbox or in it, once, until it is *)
(* handed to somebody. *)
AckInOnePlace ==
  \A i \in Inboxes : Once(queue[i]) /\ answers[i] \cap Elements(queue[i]) = {}

ToldIsGone ==
  \A p \in told : p[2] \notin answers[InboxOf(p)] /\ p[2] \notin Elements(queue[InboxOf(p)])

AckInv ==
  /\ AckTypes /\ Numbered /\ SentWereBegun /\ HandledOnce /\ AckInOnePlace /\ ToldIsGone
  /\ C!HandedToOne /\ C!MixUpsHaveACause

(* What a command is. *)
LEMMA ACommand ==
  ASSUME C!CommandAssumption
  PROVE  /\ \A m \in C!Commands : /\ m[1] \in Clients /\ m[2] \in Nat /\ m[3] \in Targets
                                /\ m[2] \in 1..MaxAsked[m[1]]
                                /\ m = <<m[1], m[2], m[3]>>
         /\ \A c \in Clients, t \in Targets : \A n \in 1..MaxAsked[c] : <<c, n, t>> \in C!Commands
         /\ C!NoCommand \notin C!Commands
<1>1. ASSUME NEW m \in C!Commands
      PROVE  /\ m[1] \in Clients /\ m[2] \in 1..MaxAsked[m[1]] /\ m[3] \in Targets
             /\ m = <<m[1], m[2], m[3]>>
  <2> PICK c \in Clients : m \in {c} \X (1..MaxAsked[c]) \X Targets
    BY DEF C!Commands
  <2> PICK n \in 1..MaxAsked[c], t \in Targets : m = <<c, n, t>>
    OBVIOUS
  <2> QED OBVIOUS
<1>2. ASSUME NEW c \in Clients, NEW t \in Targets, NEW n \in 1..MaxAsked[c]
      PROVE  <<c, n, t>> \in C!Commands
  BY DEF C!Commands
<1>3. C!NoCommand \notin C!Commands
  <2> SUFFICES ASSUME C!NoCommand \in C!Commands PROVE FALSE
    OBVIOUS
  <2>1. <<>> = <<C!NoCommand[1], C!NoCommand[2], C!NoCommand[3]>>
    BY <1>1 DEF C!NoCommand
  <2> QED BY <2>1
<1>4. \A c \in Clients : 1..MaxAsked[c] \subseteq Nat
  BY DEF C!CommandAssumption
<1> QED BY <1>1, <1>2, <1>3, <1>4

(* The elements of a sequence are of its set. *)
LEMMA ElementsOf ==
  ASSUME NEW S, NEW s \in Seq(S) PROVE Elements(s) \subseteq S
  BY DEF Elements

(* Nothing is begun at the start. *)
LEMMA AckInitially == C!CommandAssumption /\ C!Init => AckInv
<1> SUFFICES ASSUME C!CommandAssumption, C!Init PROVE AckInv
  OBVIOUS
<1> USE DEF C!Init
<1>1. \A c \in Clients : C!Idle(c)
  BY DEF C!Idle
<1>2. AckTypes
  <2>1. \A i \in Inboxes : queue[i] = <<>>
    OBVIOUS
  <2>2. queue \in [Inboxes -> Seq(handled)] /\ \A i \in Inboxes : Len(queue[i]) <= Depth
    BY <2>1 DEF C!CommandAssumption
  <2>3. begun \in [Clients -> Nat] /\ \A c \in Clients : begun[c] <= MaxAsked[c]
    BY DEF C!CommandAssumption
  <2> QED BY <1>1, <2>2, <2>3 DEF AckTypes
<1>3. AckInOnePlace
  BY EmptyElements DEF AckInOnePlace
<1> QED BY <1>1, <1>2, <1>3 DEF AckInv, Numbered, SentWereBegun, HandledOnce, ToldIsGone,
       C!HandedToOne, C!MixUpsHaveACause

(* Rivals and given-up commands stay what they are. *)
LEMMA CausesStay ==
  ASSUME C!MixUpsHaveACause, C!Begun \subseteq C!Begun', givenUp \subseteq givenUp',
         NEW p \in told, p[1] # p[2]
  PROVE  /\ C!TargetOf(p[1]) = C!TargetOf(p[2])
         /\ (C!Rivals(p[1]))' # {} \/ (C!Abandoned(p[1]))' # {}
<1>1. C!TargetOf(p[1]) = C!TargetOf(p[2]) /\ (C!Rivals(p[1]) # {} \/ C!Abandoned(p[1]) # {})
  BY DEF C!MixUpsHaveACause
<1>2. C!Rivals(p[1]) \subseteq (C!Rivals(p[1]))'
  BY DEF C!Rivals
<1>3. C!Abandoned(p[1]) \subseteq (C!Abandoned(p[1]))'
  BY DEF C!Abandoned
<1> QED BY <1>1, <1>2, <1>3

(* open: a new number, and a queue with less in it. *)
LEMMA AckOpen ==
  ASSUME C!CommandAssumption, AckInv, NEW c \in Clients, NEW t \in Targets, C!Open(c, t)
  PROVE  AckInv'
<1> DEFINE cmd == <<c, begun[c] + 1, t>>
           i == HomeOf[c]
<1> USE DEF AckInv
<1>1. /\ C!Idle(c) /\ begun[c] < MaxAsked[c]
      /\ begun' = [begun EXCEPT ![c] = @ + 1]
      /\ current' = [current EXCEPT ![c] = cmd]
      /\ queue' = [queue EXCEPT ![i] = C!Opened(@, cmd)]
      /\ UNCHANGED <<sent, requests, answers, handled, told, givenUp>>
  BY DEF C!Open
<1>2. cmd \in C!Commands /\ cmd # C!NoCommand /\ cmd[1] = c /\ cmd[2] = begun[c] + 1 /\ i \in Inboxes
  <2>1. begun[c] \in Nat /\ MaxAsked[c] \in Nat /\ i \in Inboxes
    BY DEF C!CommandAssumption, AckTypes
  <2>2. begun[c] + 1 \in 1..MaxAsked[c]
    BY <1>1, <2>1
  <2> QED BY <2>1, <2>2, ACommand
<1> HIDE DEF cmd
<1>3. \A d \in Clients : /\ current'[d] = (IF d = c THEN cmd ELSE current[d])
                         /\ begun'[d] = (IF d = c THEN begun[c] + 1 ELSE begun[d])
  BY <1>1 DEF AckTypes
<1>4. \A d \in Clients : C!Idle(d)' <=> d # c /\ C!Idle(d)
  BY <1>2, <1>3 DEF C!Idle
<1>5. \A j \in Inboxes : /\ queue'[j] \in Seq(handled) /\ Len(queue'[j]) <= Depth
                         /\ Elements(queue'[j]) \subseteq Elements(queue[j])
                         /\ Once(queue'[j])
  <2> TAKE j \in Inboxes
  <2>1. CASE j = i
    <3> DEFINE D == {a \in C!Elements(queue[i]) : C!Matches(a, cmd)}
    <3>1. queue'[i] = C!Without(queue[i], D)
      BY <1>1, <1>2 DEF AckTypes, C!Opened
    <3> HIDE DEF D
    <3>2. queue[i] \in Seq(handled) /\ Len(queue[i]) <= Depth /\ Once(queue[i])
      BY <1>2 DEF AckTypes, AckInOnePlace
    <3>3. /\ C!Without(queue[i], D) \in Seq(handled)
          /\ Len(C!Without(queue[i], D)) <= Len(queue[i])
          /\ Elements(C!Without(queue[i], D)) \subseteq Elements(queue[i])
          /\ Once(C!Without(queue[i], D))
      BY <3>2, WithoutElements
    <3>4. Len(C!Without(queue[i], D)) <= Depth
      BY <3>2, <3>3 DEF C!CommandAssumption
    <3> QED BY <2>1, <3>1, <3>3, <3>4
  <2>2. CASE j # i
    BY <1>1, <2>2 DEF AckTypes, AckInOnePlace
  <2> QED BY <2>1, <2>2
<1>6. queue' \in [Inboxes -> Seq(handled)]
  BY <1>1, <1>5 DEF AckTypes
<1>7. AckTypes'
  <2>1. begun' \in [Clients -> Nat] /\ \A d \in Clients : begun'[d] <= MaxAsked[d]
    BY <1>1, <1>3 DEF AckTypes, C!CommandAssumption
  <2>2. current' \in [Clients -> C!Commands \cup {C!NoCommand}]
    BY <1>1, <1>2 DEF AckTypes
  <2>3. \A d \in Clients : ~C!Idle(d)' => current'[d][1] = d /\ current'[d][2] = begun'[d]
    BY <1>2, <1>3, <1>4 DEF AckTypes
  <2>4. \A d \in sent' : ~C!Idle(d)'
    BY <1>1, <1>4 DEF AckTypes
  <2> QED BY <1>1, <1>5, <1>6, <2>1, <2>2, <2>3, <2>4 DEF AckTypes
<1>8. C!Begun \subseteq C!Begun'
  BY <1>1, <1>3, <1>4 DEF C!Begun
<1>9. \A m \in C!Begun : m \in C!Commands /\ m[2] <= begun[m[1]]
  <2>1. \A d \in Clients : ~C!Idle(d) => current[d] \in C!Commands /\ current[d][2] <= begun[current[d][1]]
    BY DEF AckTypes, C!Idle
  <2>2. \A m \in givenUp : m \in C!Commands /\ m[2] <= begun[m[1]]
    BY DEF AckTypes, Numbered
  <2>3. \A p \in told : p[1] \in C!Commands /\ p[1][2] <= begun[p[1][1]]
    BY DEF AckTypes, Numbered
  <2> QED BY <2>1, <2>2, <2>3 DEF C!Begun
<1>10. cmd \notin C!Begun
  <2>1. begun[c] \in Nat
    BY DEF AckTypes
  <2> QED BY <1>2, <1>9, <2>1
<1>11. Numbered'
  <2> SUFFICES ASSUME NEW m \in givenUp \cup {p[1] : p \in told}
               PROVE  m[2] <= begun'[m[1]] /\ (~C!Idle(m[1])' => m[2] < begun'[m[1]])
    BY <1>1 DEF Numbered
  <2>1. m \in C!Commands /\ m[1] \in Clients /\ m[2] \in Nat
    BY ACommand DEF AckTypes
  <2>2. m[2] <= begun[m[1]] /\ (~C!Idle(m[1]) => m[2] < begun[m[1]]) /\ begun[m[1]] \in Nat
    BY <2>1 DEF Numbered, AckTypes
  <2>3. CASE m[1] = c
    BY <1>3, <2>1, <2>2, <2>3
  <2>4. CASE m[1] # c
    BY <1>3, <1>4, <2>1, <2>2, <2>4
  <2> QED BY <2>3, <2>4
<1>12. SentWereBegun'
  BY <1>1, <1>8 DEF SentWereBegun
<1>13. HandledOnce'
  BY <1>1, <1>3, <1>4, <1>10 DEF HandledOnce, SentWereBegun
<1>14. AckInOnePlace'
  BY <1>1, <1>5 DEF AckInOnePlace
<1>15. ToldIsGone'
  <2>1. \A p \in told : InboxOf(p) \in Inboxes
    BY ACommand DEF AckTypes, C!CommandAssumption, InboxOf
  <2> QED BY <1>1, <1>5, <2>1 DEF ToldIsGone, InboxOf
<1>16. C!HandedToOne'
  BY <1>1 DEF C!HandedToOne
<1>17. C!MixUpsHaveACause'
  <2> SUFFICES ASSUME NEW p \in told, p[1] # p[2]
               PROVE  /\ C!TargetOf(p[1]) = C!TargetOf(p[2])
                      /\ (C!Rivals(p[1]))' # {} \/ (C!Abandoned(p[1]))' # {}
    BY <1>1 DEF C!MixUpsHaveACause
  <2> QED BY <1>1, <1>8, CausesStay
<1> QED BY <1>7, <1>11, <1>12, <1>13, <1>14, <1>15, <1>16, <1>17

(* publish: the message is under way.                                      *)
LEMMA AckPublish ==
  ASSUME C!CommandAssumption, AckInv, NEW c \in Clients, C!Publish(c)
  PROVE  AckInv'
<1> USE DEF AckInv
<1>1. /\ ~C!Idle(c) /\ c \notin sent
      /\ sent' = sent \cup {c} /\ requests' = requests \cup {current[c]}
      /\ UNCHANGED <<begun, current, answers, queue, handled, told, givenUp>>
  BY DEF C!Publish, C!history
<1>2. current[c] \in C!Commands /\ current[c][1] = c /\ current[c] \in C!Begun
  BY <1>1 DEF AckTypes, C!Idle, C!Begun
<1>3. \A d \in Clients : C!Idle(d)' <=> C!Idle(d)
  BY <1>1 DEF C!Idle
<1>4. C!Begun' = C!Begun
  BY <1>1, <1>3 DEF C!Begun
<1>5. AckTypes'
  BY <1>1, <1>2, <1>3 DEF AckTypes
<1>6. Numbered'
  <2>1. \A m \in givenUp \cup {p[1] : p \in told} : m[1] \in Clients
    BY ACommand DEF AckTypes
  <2> QED BY <1>1, <1>3, <2>1 DEF Numbered
<1>7. SentWereBegun'
  BY <1>1, <1>2, <1>4 DEF SentWereBegun
<1>8. HandledOnce'
  <2>1. (requests \cap handled = {})'
    BY <1>1 DEF HandledOnce
  <2>2. ASSUME NEW d \in Clients, ~C!Idle(d), d \notin sent'
        PROVE  current[d] \notin requests' \cup handled
    <3>1. d # c /\ d \notin sent
      BY <1>1, <2>2
    <3>2. current[d] # current[c]
      BY <1>2, <2>2, <3>1 DEF AckTypes
    <3> QED BY <1>1, <2>2, <3>1, <3>2 DEF HandledOnce
  <2> QED BY <1>1, <1>3, <2>1, <2>2 DEF HandledOnce
<1>9. AckInOnePlace' /\ ToldIsGone' /\ C!HandedToOne'
  BY <1>1 DEF AckInOnePlace, ToldIsGone, C!HandedToOne, InboxOf
<1>10. C!MixUpsHaveACause'
  <2> SUFFICES ASSUME NEW p \in told, p[1] # p[2]
               PROVE  /\ C!TargetOf(p[1]) = C!TargetOf(p[2])
                      /\ (C!Rivals(p[1]))' # {} \/ (C!Abandoned(p[1]))' # {}
    BY <1>1 DEF C!MixUpsHaveACause
  <2> QED BY <1>1, <1>4, CausesStay
<1> QED BY <1>5, <1>6, <1>7, <1>8, <1>9, <1>10

(* The first that fits is one of those that fit.                           *)
LEMMA TheFirst ==
  ASSUME NEW c, queue[HomeOf[c]] \in Seq(handled), C!Fitting(c) # {}
  PROVE  /\ C!First(c) \in DOMAIN queue[HomeOf[c]]
         /\ C!Matches(queue[HomeOf[c]][C!First(c)], current[c])
<1>1. C!Fitting(c) \in SUBSET Nat
  BY DEF C!Fitting
<1>2. \E k \in C!Fitting(c) : \A l \in C!Fitting(c) : k <= l
  BY <1>1, LeastNatural
<1>3. C!First(c) \in C!Fitting(c)
  BY <1>2 DEF C!First
<1> QED BY <1>3 DEF C!Fitting

(* What a client has done, by an answer or without one.                    *)
LEMMA AckDone ==
  ASSUME C!CommandAssumption, AckInv, NEW c \in Clients, C!Waits(c), C!Done(c),
         UNCHANGED <<begun, requests, answers, handled>>,
         givenUp \subseteq givenUp', told \subseteq told',
         \/ givenUp' = givenUp \cup {current[c]} /\ told' = told
         \/ givenUp' = givenUp /\ \E ack : told' = told \cup {<<current[c], ack>>}
  PROVE  /\ current[c] \in C!Commands /\ current[c][1] = c /\ current[c][2] = begun[c]
         /\ current' \in [Clients -> C!Commands \cup {C!NoCommand}]
         /\ \A d \in Clients : ~C!Idle(d)' => current'[d][1] = d /\ current'[d][2] = begun'[d]
         /\ sent' \in SUBSET Clients /\ \A d \in sent' : ~C!Idle(d)'
         /\ Numbered' /\ SentWereBegun' /\ HandledOnce' /\ C!Begun \subseteq C!Begun'
<1> USE DEF AckInv
<1>1. ~C!Idle(c) /\ c \in sent /\ current' = [current EXCEPT ![c] = C!NoCommand]
      /\ sent' = sent \ {c}
  BY DEF C!Waits, C!Done
<1>2. /\ current[c] \in C!Commands /\ current[c][1] = c /\ current[c][2] = begun[c]
      /\ begun[c] \in Nat
  BY <1>1 DEF AckTypes, C!Idle
<1>3. \A d \in Clients : current'[d] = (IF d = c THEN C!NoCommand ELSE current[d])
  BY <1>1 DEF AckTypes
<1>4. \A d \in Clients : C!Idle(d)' <=> d = c \/ C!Idle(d)
  BY <1>3 DEF C!Idle
<1>5. {p[1] : p \in told'} \cup givenUp' = {p[1] : p \in told} \cup givenUp \cup {current[c]}
  <2>1. CASE givenUp' = givenUp \cup {current[c]} /\ told' = told
    BY <2>1
  <2>2. CASE givenUp' = givenUp /\ \E ack : told' = told \cup {<<current[c], ack>>}
    <3> PICK ack : told' = told \cup {<<current[c], ack>>}
      BY <2>2
    <3>1. \A p : p \in told' <=> p \in told \/ p = <<current[c], ack>>
      OBVIOUS
    <3>2. <<current[c], ack>>[1] = current[c]
      OBVIOUS
    <3>3. {p[1] : p \in told'} = {p[1] : p \in told} \cup {current[c]}
      BY <3>1, <3>2
    <3> QED BY <2>2, <3>3
  <2> QED BY <2>1, <2>2
<1>6. C!Begun \subseteq C!Begun'
  BY <1>3, <1>4, <1>5 DEF C!Begun
<1>7. Numbered'
  <2> SUFFICES ASSUME NEW m \in givenUp' \cup {p[1] : p \in told'}
               PROVE  m[2] <= begun[m[1]] /\ (~C!Idle(m[1])' => m[2] < begun[m[1]])
    BY DEF Numbered
  <2>1. CASE m = current[c]
    BY <1>2, <1>4, <2>1
  <2>2. CASE m \in givenUp \cup {p[1] : p \in told}
    <3>1. m[1] \in Clients
      BY <2>2, ACommand DEF AckTypes
    <3> QED BY <1>4, <2>2, <3>1 DEF Numbered
  <2> QED BY <1>5, <2>1, <2>2
<1>8. SentWereBegun'
  BY <1>6 DEF SentWereBegun
<1>9. HandledOnce'
  BY <1>1, <1>3, <1>4 DEF HandledOnce
<1>10. /\ current' \in [Clients -> C!Commands \cup {C!NoCommand}]
       /\ \A d \in Clients : ~C!Idle(d)' => current'[d][1] = d /\ current'[d][2] = begun'[d]
       /\ sent' \in SUBSET Clients /\ \A d \in sent' : ~C!Idle(d)'
  BY <1>1, <1>3, <1>4 DEF AckTypes
<1> QED BY <1>2, <1>6, <1>7, <1>8, <1>9, <1>10

(* claim: the cause of a mix-up is there when it happens.                  *)
LEMMA AckClaim ==
  ASSUME C!CommandAssumption, AckInv, NEW c \in Clients, C!Claim(c)
  PROVE  AckInv'
<1> USE DEF AckInv
<1> DEFINE i == HomeOf[c]
<1> PICK n, cmd, ack : n = C!First(c) /\ cmd = current[c] /\ ack = queue[i][n]
  OBVIOUS
<1>1. /\ C!Waits(c) /\ C!Fitting(c) # {} /\ C!Done(c)
      /\ queue' = [queue EXCEPT ![i] = C!Removed(@, n)]
      /\ told' = told \cup {<<cmd, ack>>}
      /\ UNCHANGED <<begun, requests, answers, handled, givenUp>>
  BY DEF C!Claim
<1>2. i \in Inboxes /\ queue[i] \in Seq(handled) /\ Len(queue[i]) <= Depth /\ Once(queue[i])
  BY DEF AckTypes, AckInOnePlace, C!CommandAssumption
<1>3. n \in DOMAIN queue[i] /\ C!Matches(ack, cmd)
  BY <1>1, <1>2, TheFirst
<1>4. ack \in handled /\ ack \in Elements(queue[i])
  BY <1>2, <1>3 DEF Elements
<1>5. /\ C!Removed(queue[i], n) \in Seq(handled) /\ Len(C!Removed(queue[i], n)) <= Len(queue[i])
      /\ Elements(C!Removed(queue[i], n)) \subseteq Elements(queue[i])
      /\ Once(C!Removed(queue[i], n)) /\ ack \notin Elements(C!Removed(queue[i], n))
  BY <1>2, <1>3, RemovedElements
<1>6. /\ cmd \in C!Commands /\ cmd[1] = c /\ cmd[2] = begun[c]
      /\ current' \in [Clients -> C!Commands \cup {C!NoCommand}]
      /\ \A d \in Clients : ~C!Idle(d)' => current'[d][1] = d /\ current'[d][2] = begun'[d]
      /\ sent' \in SUBSET Clients /\ \A d \in sent' : ~C!Idle(d)'
      /\ Numbered' /\ SentWereBegun' /\ HandledOnce' /\ C!Begun \subseteq C!Begun'
  BY <1>1, AckDone
<1>7. \A j \in Inboxes : /\ queue'[j] \in Seq(handled) /\ Len(queue'[j]) <= Depth
                         /\ Elements(queue'[j]) \subseteq Elements(queue[j])
                         /\ Once(queue'[j])
                         /\ j = i => ack \notin Elements(queue'[j])
  <2> TAKE j \in Inboxes
  <2>1. CASE j = i
    <3>1. queue'[i] = C!Removed(queue[i], n)
      BY <1>1, <1>2 DEF AckTypes
    <3>2. Len(C!Removed(queue[i], n)) <= Depth
      BY <1>2, <1>5 DEF C!CommandAssumption
    <3> QED BY <2>1, <3>1, <3>2, <1>5
  <2>2. CASE j # i
    BY <1>1, <2>2 DEF AckTypes, AckInOnePlace
  <2> QED BY <2>1, <2>2
<1>8. AckTypes'
  <2>1. queue' \in [Inboxes -> Seq(handled)]
    BY <1>1, <1>7 DEF AckTypes
  <2>2. told' \in SUBSET (C!Commands \X handled)
    BY <1>1, <1>4, <1>6 DEF AckTypes
  <2> QED BY <1>1, <1>6, <1>7, <2>1, <2>2 DEF AckTypes
<1>9. AckInOnePlace'
  BY <1>1, <1>7 DEF AckInOnePlace
<1>10. \A p \in told : InboxOf(p) \in Inboxes
  BY ACommand DEF AckTypes, C!CommandAssumption, InboxOf
<1>11. ToldIsGone'
  <2>1. ASSUME NEW p \in told
        PROVE  p[2] \notin answers[InboxOf(p)] /\ p[2] \notin Elements(queue'[InboxOf(p)])
    BY <1>7, <1>10 DEF ToldIsGone
  <2>2. ack \notin answers[i]
    BY <1>2, <1>4 DEF AckInOnePlace
  <2>3. ack \notin Elements(queue'[i])
    BY <1>2, <1>7
  <2>4. InboxOf(<<cmd, ack>>) = i
    BY <1>6 DEF InboxOf
  <2> QED BY <1>1, <2>1, <2>2, <2>3, <2>4 DEF ToldIsGone, InboxOf
<1>12. \A p \in told : InboxOf(p) = i => p[2] # ack
  BY <1>4 DEF ToldIsGone
<1>13. C!HandedToOne'
  <2>1. <<cmd, ack>>[1][1] = c
    BY <1>6
  <2> QED BY <1>1, <1>12, <2>1 DEF C!HandedToOne, InboxOf
<1>14. ASSUME cmd # ack
       PROVE  /\ C!TargetOf(cmd) = C!TargetOf(ack)
              /\ (C!Rivals(cmd))' # {} \/ (C!Abandoned(cmd))' # {}
  <2>1. C!TargetOf(ack) = C!TargetOf(cmd)
    BY <1>3 DEF C!Matches
  <2>2. ack \in C!Begun /\ ack \in C!Begun'
    BY <1>4, <1>6 DEF SentWereBegun
  <2>3. CASE ack[1] # c
    BY <1>6, <2>1, <2>2, <2>3 DEF C!Rivals
  <2>4. CASE ack[1] = c
    <3>1. \A d \in Clients : ~C!Idle(d) => current[d][1] = d
      BY DEF AckTypes
    <3>2. ack \in givenUp \/ \E p \in told : ack = p[1]
      BY <1>14, <2>2, <2>4, <3>1 DEF C!Begun
    <3>3. ack[2] < begun[c]
      BY <1>1, <2>4, <3>2 DEF Numbered, C!Waits
    <3>4. CASE ack \in givenUp
      BY <1>1, <1>6, <2>1, <2>4, <3>3, <3>4 DEF C!Abandoned
    <3>5. CASE \E p \in told : ack = p[1]
      <4> PICK p \in told : ack = p[1]
        BY <3>5
      <4>1. p[1] # p[2]
        BY <1>12, <2>4 DEF InboxOf
      <4>2. (C!Rivals(ack))' # {} \/ (C!Abandoned(ack))' # {}
        BY <1>1, <1>6, <4>1, CausesStay
      <4>3. (C!Rivals(ack))' \subseteq (C!Rivals(cmd))'
        BY <1>6, <2>1, <2>4 DEF C!Rivals
      <4>4. (C!Abandoned(ack))' \subseteq (C!Abandoned(cmd))'
        <5>1. \A m \in givenUp : m[2] \in Nat
          BY ACommand DEF AckTypes
        <5>2. ack[2] \in Nat /\ begun[c] \in Nat
          BY <1>4, ACommand DEF AckTypes
        <5>3. \A m \in givenUp : m[2] < ack[2] => m[2] < cmd[2]
          BY <1>6, <3>3, <5>1, <5>2
        <5> QED BY <1>1, <1>6, <2>1, <2>4, <5>3 DEF C!Abandoned
      <4> QED BY <2>1, <4>2, <4>3, <4>4
    <3> QED BY <2>1, <3>2, <3>4, <3>5
  <2> QED BY <2>3, <2>4
<1>15. C!MixUpsHaveACause'
  <2> SUFFICES ASSUME NEW p \in told', p[1] # p[2]
               PROVE  /\ C!TargetOf(p[1]) = C!TargetOf(p[2])
                      /\ (C!Rivals(p[1]))' # {} \/ (C!Abandoned(p[1]))' # {}
    BY DEF C!MixUpsHaveACause
  <2>1. CASE p \in told
    BY <1>1, <1>6, <2>1, CausesStay
  <2>2. CASE p = <<cmd, ack>>
    BY <1>14, <2>2
  <2> QED BY <1>1, <2>1, <2>2
<1> QED BY <1>6, <1>8, <1>9, <1>11, <1>13, <1>15

(* The deadline: the command goes to those that were given up.             *)
LEMMA AckTimeOut ==
  ASSUME C!CommandAssumption, AckInv, NEW c \in Clients, C!TimeOut(c)
  PROVE  AckInv'
<1> USE DEF AckInv
<1>1. /\ C!Waits(c) /\ C!Done(c) /\ givenUp' = givenUp \cup {current[c]}
      /\ UNCHANGED <<begun, requests, answers, queue, handled, told>>
  BY DEF C!TimeOut
<1>2. /\ current[c] \in C!Commands
      /\ current' \in [Clients -> C!Commands \cup {C!NoCommand}]
      /\ \A d \in Clients : ~C!Idle(d)' => current'[d][1] = d /\ current'[d][2] = begun'[d]
      /\ sent' \in SUBSET Clients /\ \A d \in sent' : ~C!Idle(d)'
      /\ Numbered' /\ SentWereBegun' /\ HandledOnce' /\ C!Begun \subseteq C!Begun'
  BY <1>1, AckDone
<1>3. AckTypes'
  BY <1>1, <1>2 DEF AckTypes
<1>4. AckInOnePlace' /\ ToldIsGone' /\ C!HandedToOne'
  BY <1>1 DEF AckInOnePlace, ToldIsGone, C!HandedToOne, InboxOf
<1>5. C!MixUpsHaveACause'
  <2> SUFFICES ASSUME NEW p \in told, p[1] # p[2]
               PROVE  /\ C!TargetOf(p[1]) = C!TargetOf(p[2])
                      /\ (C!Rivals(p[1]))' # {} \/ (C!Abandoned(p[1]))' # {}
    BY <1>1 DEF C!MixUpsHaveACause
  <2> QED BY <1>1, <1>2, CausesStay
<1> QED BY <1>2, <1>3, <1>4, <1>5

(* What a step leaves alone when it touches no client and hands nothing over. *)
LEMMA ClientsStay ==
  ASSUME C!CommandAssumption, AckInv,
         UNCHANGED <<begun, current, sent, told, givenUp>>
  PROVE  /\ Numbered' /\ C!HandedToOne' /\ C!MixUpsHaveACause' /\ C!Begun' = C!Begun
         /\ \A c \in Clients : C!Idle(c)' <=> C!Idle(c)
<1> USE DEF AckInv
<1>1. \A c : C!Idle(c)' <=> C!Idle(c)
  BY DEF C!Idle
<1>2. C!Begun' = C!Begun
  BY <1>1 DEF C!Begun
<1>3. Numbered' /\ C!HandedToOne'
  BY <1>1 DEF Numbered, C!HandedToOne
<1>4. C!MixUpsHaveACause'
  <2> SUFFICES ASSUME NEW p \in told, p[1] # p[2]
               PROVE  /\ C!TargetOf(p[1]) = C!TargetOf(p[2])
                      /\ (C!Rivals(p[1]))' # {} \/ (C!Abandoned(p[1]))' # {}
    BY DEF C!MixUpsHaveACause
  <2> QED BY <1>2, CausesStay
<1> QED BY <1>1, <1>2, <1>3, <1>4

(* The service: what it carries out is nowhere yet. *)
LEMMA AckHandle ==
  ASSUME C!CommandAssumption, AckInv, NEW cmd \in requests, C!Handle(cmd)
  PROVE  AckInv'
<1> USE DEF AckInv
<1>1. /\ requests' = requests \ {cmd} /\ handled' = handled \cup {cmd}
      /\ answers' = [i \in Inboxes |-> answers[i] \cup {cmd}]
      /\ UNCHANGED <<begun, current, sent, queue, told, givenUp>>
  BY DEF C!Handle
<1>2. /\ Numbered' /\ C!HandedToOne' /\ C!MixUpsHaveACause' /\ C!Begun' = C!Begun
      /\ \A c \in Clients : C!Idle(c)' <=> C!Idle(c)
  BY <1>1, ClientsStay
<1>3. cmd \in C!Commands /\ cmd \notin handled
  BY DEF AckTypes, HandledOnce
<1>4. AckTypes'
  <2>1. queue' \in [Inboxes -> Seq(handled')] /\ \A i \in Inboxes : Len(queue'[i]) <= Depth
    <3>1. \A i \in Inboxes : queue[i] \in Seq(handled')
      BY <1>1 DEF AckTypes
    <3> QED BY <1>1, <3>1 DEF AckTypes
  <2>2. answers' \in [Inboxes -> SUBSET handled']
    BY <1>1 DEF AckTypes
  <2>3. \A c \in sent' : ~C!Idle(c)'
    BY <1>1, <1>2 DEF AckTypes
  <2>4. told' \in SUBSET (C!Commands \X handled')
    BY <1>1 DEF AckTypes
  <2>5. \A c \in Clients : ~C!Idle(c)' => current'[c][1] = c /\ current'[c][2] = begun'[c]
    BY <1>1, <1>2 DEF AckTypes
  <2> QED BY <1>1, <1>3, <2>1, <2>2, <2>3, <2>4, <2>5 DEF AckTypes
<1>5. SentWereBegun'
  BY <1>1, <1>2 DEF SentWereBegun
<1>6. HandledOnce'
  BY <1>1, <1>2 DEF HandledOnce
<1>7. \A i \in Inboxes : Elements(queue[i]) \subseteq handled
  BY ElementsOf DEF AckTypes
<1>8. AckInOnePlace'
  BY <1>1, <1>3, <1>7 DEF AckInOnePlace
<1>9. ToldIsGone'
  <2>1. \A p \in told : InboxOf(p) \in Inboxes /\ p[2] \in handled
    BY ACommand DEF AckTypes, C!CommandAssumption, InboxOf
  <2> QED BY <1>1, <1>3, <2>1 DEF ToldIsGone, InboxOf
<1> QED BY <1>2, <1>4, <1>5, <1>6, <1>8, <1>9

(* deliver: a full inbox drops its oldest.                                 *)
LEMMA PushedElements ==
  ASSUME C!CommandAssumption, NEW S, NEW q \in Seq(S), NEW ack \in S, Len(q) <= Depth
  PROVE  /\ C!Pushed(q, ack) \in Seq(S) /\ Len(C!Pushed(q, ack)) <= Depth
         /\ Elements(C!Pushed(q, ack)) \subseteq Elements(q) \cup {ack}
         /\ Once(q) /\ ack \notin Elements(q) => Once(C!Pushed(q, ack))
<1>1. Depth \in Nat /\ Depth > 0 /\ Len(q) \in Nat
  BY DEF C!CommandAssumption
<1>2. CASE Len(q) = Depth
  <2>1. q # <<>>
    BY <1>1, <1>2
  <2>2. /\ Tail(q) \in Seq(S) /\ Len(Tail(q)) = Len(q) - 1
        /\ Elements(Tail(q)) \subseteq Elements(q) /\ (Once(q) => Once(Tail(q)))
    BY <2>1, TailElements
  <2>3. C!Pushed(q, ack) = Append(Tail(q), ack)
    BY <1>2 DEF C!Pushed
  <2>4. /\ Append(Tail(q), ack) \in Seq(S)
        /\ Elements(Append(Tail(q), ack)) = Elements(Tail(q)) \cup {ack}
        /\ Once(Tail(q)) /\ ack \notin Elements(Tail(q)) => Once(Append(Tail(q), ack))
    BY <2>2, AppendElements
  <2>5. Len(Append(Tail(q), ack)) = Len(Tail(q)) + 1
    BY <2>2
  <2> QED BY <1>1, <1>2, <2>2, <2>3, <2>4, <2>5
<1>3. CASE Len(q) # Depth
  <2>1. C!Pushed(q, ack) = Append(q, ack)
    BY <1>3 DEF C!Pushed
  <2>2. Len(Append(q, ack)) = Len(q) + 1
    OBVIOUS
  <2> QED BY <1>1, <1>3, <2>1, <2>2, AppendElements
<1> QED BY <1>2, <1>3

(* An acknowledgement arrives: it was on its way, and is in the inbox now. *)
LEMMA AckDeliver ==
  ASSUME C!CommandAssumption, AckInv, NEW i \in Inboxes, NEW ack \in answers[i], C!Deliver(i, ack)
  PROVE  AckInv'
<1> USE DEF AckInv
<1>1. /\ answers' = [answers EXCEPT ![i] = @ \ {ack}]
      /\ queue' = [queue EXCEPT ![i] = C!Pushed(@, ack)]
      /\ UNCHANGED <<begun, current, sent, requests, handled, told, givenUp>>
  BY DEF C!Deliver
<1>2. /\ Numbered' /\ C!HandedToOne' /\ C!MixUpsHaveACause' /\ C!Begun' = C!Begun
      /\ \A c \in Clients : C!Idle(c)' <=> C!Idle(c)
  BY <1>1, ClientsStay
<1>3. /\ queue[i] \in Seq(handled) /\ Len(queue[i]) <= Depth /\ ack \in handled
      /\ Once(queue[i]) /\ ack \notin Elements(queue[i])
  BY DEF AckTypes, AckInOnePlace
<1>4. \A j \in Inboxes : /\ queue'[j] \in Seq(handled) /\ Len(queue'[j]) <= Depth
                         /\ answers'[j] \subseteq answers[j]
                         /\ Once(queue'[j]) /\ answers'[j] \cap Elements(queue'[j]) = {}
                         /\ answers'[j] \cup Elements(queue'[j])
                              \subseteq answers[j] \cup Elements(queue[j])
  <2> TAKE j \in Inboxes
  <2>1. CASE j = i
    <3>1. queue'[i] = C!Pushed(queue[i], ack) /\ answers'[i] = answers[i] \ {ack}
      BY <1>1 DEF AckTypes
    <3>2. /\ C!Pushed(queue[i], ack) \in Seq(handled) /\ Len(C!Pushed(queue[i], ack)) <= Depth
          /\ Elements(C!Pushed(queue[i], ack)) \subseteq Elements(queue[i]) \cup {ack}
          /\ Once(C!Pushed(queue[i], ack))
      BY <1>3, PushedElements
    <3>3. answers[i] \cap Elements(queue[i]) = {}
      BY DEF AckInOnePlace
    <3> QED BY <2>1, <3>1, <3>2, <3>3
  <2>2. CASE j # i
    BY <1>1, <2>2 DEF AckTypes, AckInOnePlace
  <2> QED BY <2>1, <2>2
<1>5. AckTypes'
  <2>1. queue' \in [Inboxes -> Seq(handled)]
    BY <1>1, <1>4 DEF AckTypes
  <2>2. answers' \in [Inboxes -> SUBSET handled]
    BY <1>1 DEF AckTypes
  <2> QED BY <1>1, <1>2, <1>4, <2>1, <2>2 DEF AckTypes
<1>6. SentWereBegun' /\ HandledOnce'
  BY <1>1, <1>2 DEF SentWereBegun, HandledOnce
<1>7. AckInOnePlace'
  BY <1>4 DEF AckInOnePlace
<1>8. ToldIsGone'
  <2>1. \A p \in told : InboxOf(p) \in Inboxes
    BY ACommand DEF AckTypes, C!CommandAssumption, InboxOf
  <2> QED BY <1>1, <1>4, <2>1 DEF ToldIsGone, InboxOf
<1> QED BY <1>2, <1>5, <1>6, <1>7, <1>8

(* What is lost is only lost. *)
LEMMA AckLoss ==
  ASSUME C!CommandAssumption, AckInv,
         \/ \E cmd \in requests : C!LoseRequest(cmd)
         \/ \E i \in Inboxes : \E ack \in answers[i] : C!LoseAnswer(i, ack)
  PROVE  AckInv'
<1> USE DEF AckInv
<1>1. /\ requests' \subseteq requests
      /\ UNCHANGED <<begun, current, sent, queue, handled, told, givenUp>>
  BY DEF C!LoseRequest, C!LoseAnswer, C!history
<1>2. answers' \in [Inboxes -> SUBSET handled] /\ \A i \in Inboxes : answers'[i] \subseteq answers[i]
  BY DEF C!LoseRequest, C!LoseAnswer, C!history, AckTypes
<1>3. /\ Numbered' /\ C!HandedToOne' /\ C!MixUpsHaveACause' /\ C!Begun' = C!Begun
      /\ \A c \in Clients : C!Idle(c)' <=> C!Idle(c)
  BY <1>1, ClientsStay
<1>4. AckTypes'
  BY <1>1, <1>2, <1>3 DEF AckTypes
<1>5. SentWereBegun' /\ HandledOnce'
  BY <1>1, <1>3 DEF SentWereBegun, HandledOnce
<1>6. AckInOnePlace'
  BY <1>1, <1>2 DEF AckInOnePlace
<1>7. ToldIsGone'
  <2>1. \A p \in told : InboxOf(p) \in Inboxes
    BY ACommand DEF AckTypes, C!CommandAssumption, InboxOf
  <2> QED BY <1>1, <1>2, <2>1 DEF ToldIsGone, InboxOf
<1> QED BY <1>3, <1>4, <1>5, <1>6, <1>7

(* Every step keeps the invariant. *)
LEMMA AckInductive ==
  ASSUME C!CommandAssumption, AckInv, [C!Next]_(C!vars)
  PROVE  AckInv'
<1>1. CASE UNCHANGED C!vars
  <2>1. /\ UNCHANGED <<begun, current, sent, told, givenUp>>
        /\ UNCHANGED <<requests, answers, queue, handled>>
    BY <1>1 DEF C!vars
  <2>2. /\ Numbered' /\ C!HandedToOne' /\ C!MixUpsHaveACause' /\ C!Begun' = C!Begun
        /\ \A c \in Clients : C!Idle(c)' <=> C!Idle(c)
    BY <2>1, ClientsStay
  <2>3. AckTypes'
    BY <2>1, <2>2 DEF AckInv, AckTypes
  <2>4. SentWereBegun' /\ HandledOnce'
    BY <2>1, <2>2 DEF AckInv, SentWereBegun, HandledOnce
  <2>5. AckInOnePlace' /\ ToldIsGone'
    BY <2>1 DEF AckInv, AckInOnePlace, ToldIsGone, InboxOf
  <2> QED BY <2>2, <2>3, <2>4, <2>5 DEF AckInv
<1>2. ASSUME NEW c \in Clients, NEW t \in Targets, C!Open(c, t) PROVE AckInv'
  BY <1>2, AckOpen
<1>3. ASSUME NEW c \in Clients, C!Publish(c) \/ C!Claim(c) \/ C!TimeOut(c) PROVE AckInv'
  BY <1>3, AckPublish, AckClaim, AckTimeOut
<1>4. ASSUME NEW cmd \in requests, C!Handle(cmd) \/ C!LoseRequest(cmd) PROVE AckInv'
  BY <1>4, AckHandle, AckLoss
<1>5. ASSUME NEW i \in Inboxes, NEW ack \in answers[i], C!Deliver(i, ack) \/ C!LoseAnswer(i, ack)
      PROVE  AckInv'
  BY <1>5, AckDeliver, AckLoss
<1> QED BY <1>1, <1>2, <1>3, <1>4, <1>5 DEF C!Next

(* Types, in the words of the module. *)
LEMMA AckTypeOK == ASSUME C!CommandAssumption, AckInv PROVE C!TypeOK
<1>1. \A c \in Clients : begun[c] \in 0..MaxAsked[c]
  BY DEF AckInv, AckTypes, C!CommandAssumption
<1> QED BY <1>1 DEF AckInv, AckTypes, C!TypeOK

(* TypeOK of CommandAcks, for any number of clients, inboxes and targets   *)
(* and any depth of an inbox.                                              *)
THEOREM AckTypesHold == C!Spec => []C!TypeOK
<1>1. C!CommandAssumption
  BY PartsAssumption
<1> QED BY <1>1, AckInitially, AckInductive, AckTypeOK, PTL DEF C!Spec

(* HandedToOne of CommandAcks: no acknowledgement is handed to two         *)
(* commands that share an inbox (AckInbox.deliver and claim).              *)
THEOREM AnswersAreHandedOnce == C!Spec => []C!HandedToOne
<1>1. C!CommandAssumption
  BY PartsAssumption
<1>2. AckInv => C!HandedToOne
  BY DEF AckInv
<1> QED BY <1>1, <1>2, AckInitially, AckInductive, PTL DEF C!Spec

(* MixUpsHaveACause: however many clients share however many inboxes, and  *)
(* however late, lost and out of order the answers are, a command gets the *)
(* answer of another one only when somebody else has begun a command for   *)
(* the same target or its client has given up an earlier one               *)
(* (AckInbox.open, deliver and claim; CommandSession.send).                *)
THEOREM OnlyRivalsMixUp == C!Spec => []MixUpsHaveACause
<1>1. C!CommandAssumption
  BY PartsAssumption
<1>2. AckInv => MixUpsHaveACause
  BY DEF AckInv, MixUpsHaveACause
<1> QED BY <1>1, <1>2, AckInitially, AckInductive, PTL DEF C!Spec

-------------------------------------------------------------------------------
(* The configuration: whoever was told, or starts, has what is on disk.    *)

(* While no reload is missing or on its way, a service that could load     *)
(* the files has what they say.                                            *)
Follow ==
  /\ ~untold /\ ~toldService /\ E!Loads => service = E!OnDisk
  /\ ~untold /\ ~toldWeb /\ E!Loads => web = E!OnDisk

(* What is on disk, and whether it loads, depends on the two files only.   *)
LEMMA DiskStays ==
  ASSUME UNCHANGED <<limit, file>>
  PROVE  E!OnDisk' = E!OnDisk /\ (E!Loads' <=> E!Loads)
BY DEF E!OnDisk, E!Loads, E!Whole, E!Within

(* A service that takes a reload in has what is on disk, if it loads.      *)
LEMMA TakenIn ==
  ASSUME NEW config, E!Loads PROVE E!Reloaded(config) = E!OnDisk
BY DEF E!Reloaded

(* One step of a request: the files change, or the web UI reads them, or   *)
(* everybody is told.                                                      *)
LEMMA ServeFollows ==
  ASSUME Follow, NEW s \in Savers, E!Serve(s) PROVE Follow'
<1>1. CASE E!OpenTmp(s) \/ E!CloseTmp(s)
  <2>1. UNCHANGED <<limit, file, web, service, toldWeb, toldService, untold>>
    BY <1>1 DEF E!OpenTmp, E!CloseTmp, E!SaveStep
  <2> QED BY <2>1, DiskStays DEF Follow
<1>2. CASE E!Replace(s)
  <2>1. untold' = TRUE \/ UNCHANGED <<limit, file, web, service, toldWeb, toldService, untold>>
    BY <1>2 DEF E!Replace, E!SaveStep
  <2> QED BY <2>1, DiskStays DEF Follow
<1>3. CASE E!ReloadAfter(s)
  <2>1. /\ UNCHANGED <<limit, file, service, toldWeb, toldService, untold>>
        /\ E!Loads => web' = E!OnDisk
    BY <1>3 DEF E!ReloadAfter, E!TakesEffect, E!SaveStep
  <2> QED BY <2>1, DiskStays DEF Follow
<1>4. CASE E!Tell(s)
  BY <1>4 DEF E!Tell, E!Told, Follow
<1> QED BY <1>1, <1>2, <1>3, <1>4 DEF E!Serve

(* Every step keeps it.                                                    *)
LEMMA EditsFollow ==
  ASSUME Follow, [E!Next]_(E!vars) PROVE Follow'
<1>1. CASE UNCHANGED E!vars
  <2>1. UNCHANGED <<limit, file, web, service, toldWeb, toldService, untold>>
    BY <1>1 DEF E!vars, E!files
  <2> QED BY <2>1, DiskStays DEF Follow
<1>2. ASSUME NEW s \in Savers, NEW form \in SUBSET Channels, NEW typed \in E!Defaults,
             E!Save(s, form, typed)
      PROVE  Follow'
  <2>1. UNCHANGED <<limit, file, web, service, toldWeb, toldService, untold>>
    BY <1>2 DEF E!Save
  <2> QED BY <2>1, DiskStays DEF Follow
<1>3. CASE E!ReloadWeb
  <2>1. /\ UNCHANGED <<limit, file, service, toldService, untold>> /\ web' = E!Reloaded(web)
    BY <1>3 DEF E!ReloadWeb, E!files
  <2> QED BY <2>1, DiskStays, TakenIn DEF Follow
<1>4. CASE E!ReloadService
  <2>1. /\ UNCHANGED <<limit, file, web, toldWeb, untold>> /\ service' = E!Reloaded(service)
    BY <1>4 DEF E!ReloadService, E!files
  <2> QED BY <2>1, DiskStays, TakenIn DEF Follow
<1>5. CASE E!ReloadLost \/ (\E l \in Limits : E!EditLimit(l)) \/ E!CtlReload
  <2>1. untold' = TRUE \/ (toldWeb' = TRUE /\ toldService' = TRUE)
    BY <1>5 DEF E!ReloadLost, E!EditLimit, E!CtlReload, E!Told
  <2> QED BY <2>1 DEF Follow
<1>6. CASE E!RestartWeb
  <2>1. UNCHANGED <<limit, file, service, toldService, untold>> /\ web' = E!OnDisk
    BY <1>6 DEF E!RestartWeb
  <2> QED BY <2>1, DiskStays DEF Follow
<1>7. ASSUME NEW s \in Savers, E!Serve(s) PROVE Follow'
  BY <1>7, ServeFollows
<1> QED BY <1>1, <1>2, <1>3, <1>4, <1>5, <1>6, <1>7 DEF E!Next

(* EverybodyFollows: for any number of channels, requests, limits, hand    *)
(* edits, failures, lost reloads and restarts, once no reload is missing   *)
(* or on its way every service has the limits and the defaults that are on *)
(* disk, if they load (hv_defaults_save, reload_config, _handle_reload).   *)
THEOREM ReloadsReachEverybody == E!Spec => []EverybodyFollows
<1>1. E!Init => Follow
  BY DEF E!Init, Follow
<1>2. Follow /\ [E!Next]_(E!vars) => Follow'
  BY EditsFollow
<1>3. Follow => EverybodyFollows
  BY DEF Follow, EverybodyFollows, E!EverybodyFollows
<1> QED BY <1>1, <1>2, <1>3, PTL DEF E!Spec

(* The module counts with an instance of FiniteSets of its own.            *)
LEMMA CountIs == \A S : E!Cardinality(S) = Cardinality(S)
BY DEF E!Cardinality, Cardinality

(* What loads is limits and defaults.                                      *)
LEMMA DiskTypes ==
  ASSUME E!TypeOK, E!Loads
  PROVE  E!OnDisk \in [limit : Limits, defaults : E!Defaults]
<1>1. file # {} /\ file \subseteq E!Defaults
  <2>1. Cardinality(file) = 1
    BY CountIs DEF E!Loads, E!Whole
  <2>2. Cardinality({}) = 0
    BY FS_EmptySet
  <2>3. file # {}
    BY <2>1, <2>2
  <2>4. file \subseteq E!Defaults
    BY DEF E!TypeOK, E!Texts
  <2> QED BY <2>3, <2>4
<1>2. (CHOOSE defaults \in file : TRUE) \in E!Defaults
  BY <1>1
<1> QED BY <1>2 DEF E!OnDisk, E!TypeOK

(* A request at rest saves nothing.                                        *)
LEMMA RestTypes == [c \in Channels |-> E!NoDefault] \in E!Defaults
BY DEF E!Defaults

(* A request moves on, ends, or begins with values of its own.             *)
SaverType == [Savers -> [at : {"idle", "open", "close", "replace", "reload", "tell"},
                         values : E!Defaults]]

LEMMA SaverMoves ==
  ASSUME saver \in SaverType, NEW s \in Savers,
         \/ \E where \in {"open", "close", "replace", "reload", "tell"} : E!Goes(s, where)
         \/ E!Ends(s)
  PROVE  saver' \in SaverType
<1>1. CASE E!Ends(s)
  <2>1. E!NoSave \in [at : {"idle", "open", "close", "replace", "reload", "tell"},
                      values : E!Defaults]
    BY RestTypes DEF E!NoSave
  <2> QED BY <1>1, <2>1 DEF E!Ends, SaverType
<1>2. ASSUME NEW where \in {"open", "close", "replace", "reload", "tell"}, E!Goes(s, where)
      PROVE  saver' \in SaverType
  <2>1. [saver[s] EXCEPT !.at = where] \in
          [at : {"idle", "open", "close", "replace", "reload", "tell"}, values : E!Defaults]
    BY DEF SaverType
  <2>2. saver' = [saver EXCEPT ![s] = [saver[s] EXCEPT !.at = where]]
    BY <1>2 DEF E!Goes
  <2> QED BY <2>1, <2>2 DEF SaverType
<1> QED BY <1>1, <1>2

(* One step of a request.                                                  *)
LEMMA ServeTypes ==
  ASSUME E!TypeOK, NEW s \in Savers, E!Serve(s)
  PROVE  E!TypeOK'
<1> USE DEF E!TypeOK, E!SaveStep
<1>1. saver \in SaverType
  BY DEF SaverType
<1>2. ASSUME \/ \E where \in {"open", "close", "replace", "reload", "tell"} : E!Goes(s, where)
             \/ E!Ends(s)
      PROVE  saver' \in SaverType
  BY <1>1, <1>2, SaverMoves
<1>3. CASE E!OpenTmp(s)
  <2>1. tmp' \in [there : BOOLEAN, open : SUBSET Savers, text : E!Texts]
    BY <1>3 DEF E!OpenTmp, E!Texts
  <2>2. saver' \in SaverType
    BY <1>2, <1>3 DEF E!OpenTmp
  <2> QED BY <1>3, <2>1, <2>2 DEF E!OpenTmp, SaverType
<1>4. CASE E!CloseTmp(s)
  <2>1. PICK rest \in {{}, tmp.text} :
          tmp' = [tmp EXCEPT !.open = @ \ {s}, !.text = rest \cup {saver[s].values}]
    BY <1>4 DEF E!CloseTmp
  <2>2. rest \cup {saver[s].values} \in E!Texts
    BY <1>1 DEF E!Texts, SaverType
  <2>3. tmp' \in [there : BOOLEAN, open : SUBSET Savers, text : E!Texts]
    BY <2>1, <2>2
  <2>4. saver' \in SaverType
    BY <1>2, <1>4 DEF E!CloseTmp
  <2> QED BY <1>4, <2>3, <2>4 DEF E!CloseTmp, SaverType
<1>5. CASE E!Replace(s)
  <2>1. saver' \in SaverType
    BY <1>2, <1>5 DEF E!Replace
  <2>2. E!NoTmp \in [there : BOOLEAN, open : SUBSET Savers, text : E!Texts]
    BY DEF E!NoTmp, E!Texts
  <2>3. UNCHANGED <<file, tmp, untold>> \/ (file' = tmp.text /\ tmp' = E!NoTmp /\ untold' = TRUE)
    BY <1>5 DEF E!Replace
  <2> QED BY <1>5, <2>1, <2>2, <2>3 DEF E!Replace, SaverType
<1>6. CASE E!ReloadAfter(s)
  <2>1. saver' \in SaverType
    BY <1>2, <1>6 DEF E!ReloadAfter
  <2>2. web' \in [limit : Limits, defaults : E!Defaults]
    BY <1>6, DiskTypes DEF E!ReloadAfter, E!TakesEffect
  <2> QED BY <1>6, <2>1, <2>2 DEF E!ReloadAfter, SaverType
<1>7. CASE E!Tell(s)
  <2>1. saver' \in SaverType
    BY <1>2, <1>7 DEF E!Tell
  <2> QED BY <1>7, <2>1 DEF E!Tell, E!Told, SaverType
<1> QED BY <1>3, <1>4, <1>5, <1>6, <1>7 DEF E!Serve

(* A save is asked for.                                                    *)
LEMMA SaveTypes ==
  ASSUME E!TypeOK, NEW s \in Savers, NEW form \in SUBSET Channels, NEW typed \in E!Defaults,
         E!Save(s, form, typed)
  PROVE  E!TypeOK'
<1> DEFINE values == [c \in Channels |-> IF c \in form THEN typed[c] ELSE web.defaults[c]]
<1>1. web.defaults \in E!Defaults
  BY DEF E!TypeOK
<1>2. values \in E!Defaults
  BY <1>1 DEF E!Defaults
<1>3. /\ saver' = [saver EXCEPT ![s] = [at |-> "open", values |-> values]]
      /\ UNCHANGED <<limit, file, tmp, web, service, toldWeb, toldService, untold>>
  BY DEF E!Save
<1> HIDE DEF values
<1> QED BY <1>2, <1>3 DEF E!TypeOK

(* The other steps.                                                        *)
LEMMA OtherEditTypes ==
  ASSUME E!TypeOK,
         \/ E!ReloadWeb \/ E!ReloadService \/ E!ReloadLost
         \/ (\E l \in Limits : E!EditLimit(l)) \/ E!CtlReload \/ E!RestartWeb
  PROVE  E!TypeOK'
<1> DEFINE Config == [limit : Limits, defaults : E!Defaults]
<1>1. ASSUME NEW config \in Config PROVE E!Reloaded(config) \in Config
  BY DiskTypes DEF E!Reloaded
<1>2. CASE E!ReloadWeb \/ E!ReloadService
  <2>1. /\ UNCHANGED <<limit, file, tmp, saver, untold>>
        /\ web' = web \/ web' = E!Reloaded(web)
        /\ service' = service \/ service' = E!Reloaded(service)
        /\ toldWeb' \in {toldWeb, FALSE} /\ toldService' \in {toldService, FALSE}
    BY <1>2 DEF E!ReloadWeb, E!ReloadService, E!files
  <2>2. web' \in Config /\ service' \in Config
    BY <1>1, <2>1 DEF E!TypeOK
  <2> QED BY <2>1, <2>2 DEF E!TypeOK
<1>3. CASE E!ReloadLost \/ (\E l \in Limits : E!EditLimit(l)) \/ E!CtlReload
  BY <1>3 DEF E!ReloadLost, E!EditLimit, E!CtlReload, E!Told, E!files, E!TypeOK
<1>4. CASE E!RestartWeb
  <2>1. web' \in Config
    BY <1>4, DiskTypes DEF E!RestartWeb
  <2>2. saver' \in SaverType
    BY <1>4, RestTypes DEF E!RestartWeb, E!NoSave, SaverType
  <2>3. tmp' \in [there : BOOLEAN, open : SUBSET Savers, text : E!Texts]
    BY <1>4 DEF E!RestartWeb, E!TypeOK
  <2> QED BY <1>4, <2>1, <2>2, <2>3 DEF E!RestartWeb, E!TypeOK, SaverType
<1> QED BY <1>2, <1>3, <1>4

(* Nothing has been saved yet, and both files load or nobody started.      *)
LEMMA EditsInitially == E!Init => E!TypeOK
<1> SUFFICES ASSUME E!Init PROVE E!TypeOK
  OBVIOUS
<1>1. file \in E!Texts /\ E!OnDisk \in [limit : Limits, defaults : E!Defaults]
  BY RestTypes DEF E!Init, E!Texts, E!OnDisk
<1> QED BY <1>1, RestTypes DEF E!Init, E!TypeOK, E!NoSave, E!NoTmp, E!Texts

(* TypeOK of ConfigEdits, for any channels, requests and limits.           *)
THEOREM EditsTypesHold == E!Spec => []E!TypeOK
<1>1. E!TypeOK /\ [E!Next]_(E!vars) => E!TypeOK'
  <2> SUFFICES ASSUME E!TypeOK, [E!Next]_(E!vars) PROVE E!TypeOK'
    OBVIOUS
  <2>1. CASE UNCHANGED E!vars
    BY <2>1 DEF E!vars, E!files, E!TypeOK
  <2> QED BY <2>1, ServeTypes, SaveTypes, OtherEditTypes DEF E!Next
<1> QED BY <1>1, EditsInitially, PTL DEF E!Spec

-------------------------------------------------------------------------------
(* The processes of a service. *)

(* The invariant: who runs has the lock file open (SingleInstance._handle).*)
(* Nobody can remove it or create it then, so nobody else gets there.      *)
HolderRuns ==
  /\ at \in [Processes -> {"none", "new", "claim", "reopen", "running", "closing", "refused",
                           "gone"}]
  /\ \A p \in Processes : at[p] = "running" => lockFile = p

(* No process runs at the start. *)
LEMMA HolderInitially == L!Init => HolderRuns
<1> SUFFICES ASSUME L!Init PROVE HolderRuns
  OBVIOUS
<1>1. \A p \in Processes : at[p] = "none"
  BY DEF L!Init
<1> QED BY <1>1 DEF L!Init, HolderRuns

(* One process moves, and all others stay where they are. *)
LEMMA OneMoves ==
  ASSUME HolderRuns, NEW p \in Processes,
         NEW where \in {"new", "claim", "reopen", "running", "closing", "refused", "gone"},
         L!Moves(p, where),
         where = "running" => lockFile' = p,
         \A q \in Processes \ {p} : at[q] = "running" => lockFile' = q
  PROVE  HolderRuns'
<1>1. at'[p] = where /\ \A q \in Processes \ {p} : at'[q] = at[q]
  BY DEF L!Moves, HolderRuns
<1>2. at' \in [Processes -> {"none", "new", "claim", "reopen", "running", "closing", "refused",
                             "gone"}]
  BY DEF L!Moves, HolderRuns
<1> QED BY <1>1, <1>2 DEF HolderRuns

(* While one runs, the file is its own: it is not absent, not left over,   *)
(* and not another's.                                                      *)
LEMMA Its ==
  ASSUME L!LauncherAssumption, HolderRuns, NEW q \in Processes, at[q] = "running"
  PROVE  lockFile = q /\ lockFile # L!Absent /\ lockFile # L!Left
BY DEF L!LauncherAssumption, HolderRuns

(* What a process does keeps it so. *)
LEMMA ProcessKeeps ==
  ASSUME L!LauncherAssumption, HolderRuns, NEW p \in Processes, L!Process(p)
  PROVE  HolderRuns'
<1>1. CASE L!Acquire(p)
  <2>1. CASE lockFile = L!Absent
    <3>1. lockFile' = p /\ L!Moves(p, "running")
      BY <1>1, <2>1 DEF L!Acquire
    <3>2. \A q \in Processes : at[q] # "running"
      BY <2>1, Its
    <3> QED BY <3>1, <3>2, OneMoves
  <2>2. CASE lockFile # L!Absent
    <3>1. UNCHANGED lockFile /\ L!Moves(p, "claim")
      BY <1>1, <2>2 DEF L!Acquire
    <3> QED BY <3>1, Its, OneMoves
  <2> QED BY <2>1, <2>2
<1>2. CASE L!Claim(p)
  <2>1. CASE L!Removable
    <3>1. L!Moves(p, "reopen")
      BY <1>2, <2>1 DEF L!Claim
    <3>2. \A q \in Processes : at[q] # "running"
      BY <2>1, Its DEF L!Removable
    <3> QED BY <3>1, <3>2, OneMoves
  <2>2. CASE ~L!Removable
    <3>1. UNCHANGED lockFile /\ L!Moves(p, "refused")
      BY <1>2, <2>2 DEF L!Claim
    <3> QED BY <3>1, Its, OneMoves
  <2> QED BY <2>1, <2>2
<1>3. CASE L!Reopen(p)
  <2>1. CASE L!Retry
    <3>1. lockFile' = p /\ L!Moves(p, "running")
      BY <1>3, <2>1 DEF L!Reopen
    <3>2. \A q \in Processes : at[q] # "running"
      BY <2>1, Its DEF L!Retry
    <3> QED BY <3>1, <3>2, OneMoves
  <2>2. CASE ~L!Retry
    <3>1. UNCHANGED lockFile /\ L!Moves(p, "refused")
      BY <1>3, <2>2 DEF L!Reopen
    <3> QED BY <3>1, Its, OneMoves
  <2> QED BY <2>1, <2>2
<1>4. CASE L!Release(p)
  <2>1. at[p] = "running" /\ L!Moves(p, "closing")
    BY <1>4 DEF L!Release
  <2>2. \A q \in Processes \ {p} : at[q] # "running"
    BY <2>1, Its
  <2> QED BY <2>1, <2>2, OneMoves
<1>5. CASE L!Remove(p)
  <2>1. L!Moves(p, "gone") /\ lockFile' = IF lockFile = L!Left THEN L!Absent ELSE lockFile
    BY <1>5 DEF L!Remove
  <2>2. \A q \in Processes \ {p} : at[q] = "running" => lockFile' = q
    BY <2>1, Its
  <2> QED BY <2>1, <2>2, OneMoves
<1>6. CASE L!Dies(p)
  <2>1. L!Moves(p, "gone") /\ lockFile' = IF lockFile = p THEN L!Left ELSE lockFile
    BY <1>6 DEF L!Dies
  <2>2. \A q \in Processes \ {p} : at[q] = "running" => lockFile' = q
    BY <2>1, Its
  <2> QED BY <2>1, <2>2, OneMoves
<1> QED BY <1>1, <1>2, <1>3, <1>4, <1>5, <1>6 DEF L!Process

(* So does what the command line does: it starts processes, which do not   *)
(* run yet, and removes the file only when nobody has it open.             *)
LEMMA CommandLineKeeps ==
  ASSUME L!LauncherAssumption, HolderRuns, NEW c \in Operators, L!CommandLine(c)
  PROVE  HolderRuns'
<1>1. ASSUME NEW p \in Processes, L!Spawn(c, p) PROVE HolderRuns'
  <2>1. L!Moves(p, "new") /\ UNCHANGED lockFile
    BY <1>1 DEF L!Spawn
  <2> QED BY <2>1, Its, OneMoves
<1>2. CASE L!Wait(c)
  <2>1. lockFile \in {L!Absent, L!Left} /\ UNCHANGED at
    BY <1>2 DEF L!Wait
  <2>2. \A q \in Processes : at[q] # "running"
    BY <2>1, Its
  <2> QED BY <2>1, <2>2 DEF HolderRuns
<1>3. CASE L!StartCommand(c) \/ L!StopCommand(c) \/ L!NotePid(c) \/ L!Kill(c) \/ L!GiveUp(c) \/ L!SayReleased(c)
  <2>1. UNCHANGED <<at, lockFile>>
    BY <1>3 DEF L!StartCommand, L!StopCommand, L!Give, L!NotePid, L!Kill, L!GiveUp, L!SayReleased
  <2> QED BY <2>1 DEF HolderRuns
<1> QED BY <1>1, <1>2, <1>3 DEF L!CommandLine

(* Every step keeps the invariant. *)
LEMMA HolderInductive ==
  ASSUME L!LauncherAssumption, HolderRuns, [L!Next]_(L!vars)
  PROVE  HolderRuns'
<1>1. CASE UNCHANGED L!vars
  BY <1>1 DEF L!vars, HolderRuns
<1>2. ASSUME NEW p \in Processes, L!Process(p) PROVE HolderRuns'
  BY <1>2, ProcessKeeps
<1>3. ASSUME NEW c \in Operators, L!CommandLine(c) PROVE HolderRuns'
  BY <1>3, CommandLineKeeps
<1> QED BY <1>1, <1>2, <1>3 DEF L!Next

(* OneInstance: for any number of processes, command lines, kills and      *)
(* left-over files, no two processes of one service run at the same time   *)
(* (SingleInstance.acquire and release; start and stop of xams-ctl).       *)
THEOREM OnlyOne == L!Spec => []OneInstance
<1>1. L!LauncherAssumption
  BY PartsAssumption
<1>2. HolderRuns => OneInstance
  BY DEF HolderRuns, OneInstance, L!OneInstance
<1>3. HolderRuns /\ [L!Next]_(L!vars) => HolderRuns'
  BY <1>1, HolderInductive
<1> QED BY <1>2, <1>3, HolderInitially, PTL DEF L!Spec

(* What a process does is well typed.                                      *)
LEMMA ProcessTypes ==
  ASSUME L!TypeOK, NEW p \in Processes, L!Process(p)
  PROVE  L!TypeOK'
<1>1. /\ UNCHANGED <<asked, pidFile, ctl>>
      /\ lockFile' \in {lockFile, p, L!Absent, L!Left}
      /\ \E where \in {"claim", "reopen", "running", "closing", "refused", "gone"} :
           L!Moves(p, where)
  BY DEF L!Process, L!Acquire, L!Claim, L!Reopen, L!Release, L!Remove, L!Dies, L!ProcessStep
<1> QED BY <1>1 DEF L!TypeOK, L!Moves

(* So is what a command line does.                                         *)
LEMMA CommandLineTypes ==
  ASSUME L!TypeOK, NEW c \in Operators, L!CommandLine(c)
  PROVE  L!TypeOK'
<1> USE DEF L!TypeOK
<1>1. ASSUME NEW where \in {"idle", "start", "note", "stop", "wait", "released"},
             NEW p \in Processes \cup {L!Absent}, L!CtlStep(c, where, p)
      PROVE  ctl' \in [Operators -> [at : {"idle", "start", "note", "stop", "wait", "released"},
                                     process : Processes \cup {L!Absent}]]
  BY <1>1 DEF L!CtlStep
<1>2. ASSUME L!Ended(c)
      PROVE  ctl' \in [Operators -> [at : {"idle", "start", "note", "stop", "wait", "released"},
                                     process : Processes \cup {L!Absent}]]
  BY <1>2 DEF L!Ended, L!NoCommand
<1>3. ctl[c].process \in Processes \cup {L!Absent} /\ L!Known \in Processes \cup {L!Absent}
  BY DEF L!Known
<1>4. CASE L!StartCommand(c) \/ L!StopCommand(c)
  <2>1. /\ L!CtlStep(c, "start", L!Known) \/ L!CtlStep(c, "stop", L!Known)
        /\ UNCHANGED <<at, asked, lockFile, pidFile>>
    BY <1>4 DEF L!StartCommand, L!StopCommand, L!Give
  <2> QED BY <1>1, <1>3, <2>1
<1>5. ASSUME NEW p \in Processes, L!Spawn(c, p) PROVE L!TypeOK'
  <2>1. L!CtlStep(c, "note", p) /\ L!Moves(p, "new") /\ UNCHANGED <<asked, lockFile, pidFile>>
    BY <1>5 DEF L!Spawn
  <2> QED BY <1>1, <2>1 DEF L!Moves
<1>6. CASE L!NotePid(c) \/ L!GiveUp(c) \/ L!SayReleased(c)
  <2>1. /\ L!Ended(c) /\ pidFile' \in {pidFile, ctl[c].process}
        /\ UNCHANGED <<at, asked, lockFile>>
    BY <1>6 DEF L!NotePid, L!GiveUp, L!SayReleased
  <2> QED BY <1>2, <1>3, <2>1
<1>7. CASE L!Kill(c)
  <2>1. /\ pidFile' = L!Absent /\ UNCHANGED <<at, lockFile>>
        /\ \/ L!CtlStep(c, "released", L!Absent) /\ UNCHANGED asked
           \/ /\ L!CtlStep(c, "wait", ctl[c].process) /\ ctl[c].process # L!Absent
              /\ asked' = asked \cup {ctl[c].process}
    BY <1>7 DEF L!Kill
  <2> QED BY <1>1, <1>3, <2>1
<1>8. CASE L!Wait(c)
  <2>1. /\ lockFile' = L!Absent /\ L!CtlStep(c, "released", L!Absent)
        /\ UNCHANGED <<at, asked, pidFile>>
    BY <1>8 DEF L!Wait
  <2> QED BY <1>1, <2>1
<1> QED BY <1>4, <1>5, <1>6, <1>7, <1>8 DEF L!CommandLine

(* TypeOK of Launcher, for any processes and command lines.                *)
THEOREM LauncherTypesHold == L!Spec => []L!TypeOK
<1>1. L!Init => L!TypeOK
  BY DEF L!Init, L!TypeOK, L!NoCommand
<1>2. L!TypeOK /\ [L!Next]_(L!vars) => L!TypeOK'
  <2> SUFFICES ASSUME L!TypeOK, [L!Next]_(L!vars) PROVE L!TypeOK'
    OBVIOUS
  <2>1. CASE UNCHANGED L!vars
    BY <2>1 DEF L!vars, L!TypeOK
  <2> QED BY <2>1, ProcessTypes, CommandLineTypes DEF L!Next
<1> QED BY <1>1, <1>2, PTL DEF L!Spec

-------------------------------------------------------------------------------
(* The four together behave as each of them does.                          *)

(* A step of the composition is a step of each part, or none.              *)
LEMMA PartsStep ==
  ASSUME [AllNext]_<<part, vars, commands, edits, processes>>
  PROVE  [Next]_vars /\ [C!Next]_(C!vars) /\ [E!Next]_(E!vars) /\ [L!Next]_(L!vars)
<1>1. /\ UNCHANGED commands => UNCHANGED C!vars
      /\ UNCHANGED edits => UNCHANGED E!vars
      /\ UNCHANGED processes => UNCHANGED L!vars
  BY DEF commands, edits, processes, C!vars, E!vars, E!files, L!vars
<1>2. CASE InBus(Next)
  BY <1>1, <1>2 DEF InBus
<1>3. CASE InCommands(C!Next)
  BY <1>1, <1>3 DEF InCommands
<1>4. CASE InEdits(E!Next)
  BY <1>1, <1>4 DEF InEdits
<1>5. CASE InProcesses(L!Next)
  BY <1>1, <1>5 DEF InProcesses
<1>6. CASE UNCHANGED <<part, vars, commands, edits, processes>>
  BY <1>1, <1>6
<1> QED BY <1>2, <1>3, <1>4, <1>5, <1>6 DEF AllNext

(* The composition keeps the specification of every part: what is proved   *)
(* of one of them holds in what the runs explore.                          *)
THEOREM PartsKeepTheirSpecs == AllSpec => Spec /\ C!Spec /\ E!Spec /\ L!Spec
<1>1. AllInit => Init /\ C!Init /\ E!Init /\ L!Init
  BY DEF AllInit
<1> QED BY <1>1, PartsStep, PTL DEF AllSpec, Spec, C!Spec, E!Spec, L!Spec
===============================================================================
