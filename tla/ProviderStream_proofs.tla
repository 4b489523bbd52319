----------------------- MODULE ProviderStream_proofs -----------------------
(***************************************************************************)
(* Proofs about the calls of Provider.Stream, for any provider, any number *)
(* of retries, any capacity of the channel and any answers to which        *)
(* ReplyAssumption applies.                                                *)
(***************************************************************************)
EXTENDS ProviderStream, Recursion_proofs, SequenceTheorems, FiniteSetTheorems, TLAPS

(***************************************************************************)
(* The elements of a sequence that are in a set, in their order.  Kept     *)
(* is a recursive function: KeptFilters says that it is the one that       *)
(* starts with the empty sequence and adds element after element, and      *)
(* that rests on Recursion_proofs.                                         *)
(***************************************************************************)
\* f[k] has the elements of the first k of s that are in S.
Filters(f, s, S) ==
  /\ f[0] = <<>>
  /\ \A k \in 1 .. Len(s) : f[k] = IF s[k] \in S THEN Append(f[k - 1], s[k]) ELSE f[k - 1]

\* There is one, and it is what Kept goes by.
LEMMA KeptFilters ==
  ASSUME NEW T, NEW s \in Seq(T), NEW S
  PROVE  \E f \in [0 .. Len(s) -> Seq(T \cap S)] : Filters(f, s, S) /\ Kept(s, S) = f[Len(s)]
<1>. DEFINE X == Seq(T \cap S)
            step == [vk \in X \X (1 .. Len(s)) |->
                      IF s[vk[2]] \in S THEN Append(vk[1], s[vk[2]]) ELSE vk[1]]
            rule(r) == [i \in 0 .. Len(s) |->
                         IF i = 0 THEN <<>>
                         ELSE IF s[i] \in S THEN Append(r[i - 1], s[i]) ELSE r[i - 1]]
            Upto == CHOOSE r : r = rule(r)
<1>1. Len(s) \in Nat /\ \A k \in 1 .. Len(s) : s[k] \in T
  OBVIOUS
<1>2. \A v \in X, k \in 1 .. Len(s) :
        step[<<v, k>>] = (IF s[k] \in S THEN Append(v, s[k]) ELSE v)
  OBVIOUS
<1>3. step \in [X \X (1 .. Len(s)) -> X]
  <2>1. \A v \in X, k \in 1 .. Len(s) : (IF s[k] \in S THEN Append(v, s[k]) ELSE v) \in X
    BY <1>1
  <2>. QED BY <2>1
<1>4. PICK empty \in X : empty = <<>>
  <2>1. <<>> \in X
    BY EmptySeq, Zenon
  <2>. QED BY <2>1, Zenon
<1>5. PICK f \in [0 .. Len(s) -> X] : Iterates(f, empty, step, Len(s))
  <2>1. Len(s) \in Nat
    BY <1>1
  <2>. HIDE DEF step, X
  <2>. QED BY <1>3, <2>1, IterationExists
<1>6. Filters(f, s, S)
  <2>1. \A k \in 1 .. Len(s) : f[k - 1] \in X
    OBVIOUS
  <2>. HIDE DEF step, X
  <2>. QED BY <1>2, <1>4, <1>5, <2>1 DEF Iterates, Filters
<1>7. f = rule(f)
  <2>1. \A i \in 0 .. Len(s) : f[i] = rule(f)[i]
    <3>. SUFFICES ASSUME NEW i \in 0 .. Len(s) PROVE f[i] = rule(f)[i]
      OBVIOUS
    <3>1. CASE i = 0
      BY <1>6, <3>1 DEF Filters
    <3>2. CASE i # 0
      <4>1. i \in 1 .. Len(s)
        BY <1>1, <3>2
      <4>. QED BY <1>6, <3>2, <4>1 DEF Filters
    <3>. QED BY <3>1, <3>2
  <2>. HIDE DEF X
  <2>. QED BY <2>1
<1>8. Upto = rule(Upto)
  <2>. HIDE DEF rule
  <2>. QED BY <1>7, Zenon
<1>9. Filters(Upto, s, S)
  <2>. HIDE DEF Upto
  <2>1. \A i \in 0 .. Len(s) : Upto[i] = rule(Upto)[i]
    <3>. HIDE DEF rule
    <3>. QED BY <1>8
  <2>2. Upto[0] = <<>>
    BY <1>1, <2>1
  <2>3. \A k \in 1 .. Len(s) : Upto[k] = IF s[k] \in S THEN Append(Upto[k - 1], s[k]) ELSE Upto[k - 1]
    BY <1>1, <2>1
  <2>. QED BY <2>2, <2>3 DEF Filters
<1>10. Kept(s, S) = Upto[Len(s)]
  BY Zenon DEF Kept
<1>11. \A k \in 0 .. Len(s) : Agree(Upto, f, k)
  <2>. HIDE DEF Upto, X
  <2>1. Agree(Upto, f, 0) /\ \A k \in 1 .. Len(s) : Agree(Upto, f, k - 1) => Agree(Upto, f, k)
    BY <1>6, <1>9 DEF Filters, Agree
  <2>2. Len(s) \in Nat
    BY <1>1
  <2>. QED BY ONLY <2>2, <2>1, IterationUnique, Zenon
<1>. HIDE DEF Upto
<1>12. Upto[Len(s)] = f[Len(s)]
  BY <1>1, <1>11 DEF Agree
<1>. QED BY <1>6, <1>10, <1>12

\* Whatever filters s up to its end has what is kept of it.
LEMMA KeptIs ==
  ASSUME NEW T, NEW s \in Seq(T), NEW S, NEW g, Filters(g, s, S)
  PROVE  Kept(s, S) = g[Len(s)]
<1>1. PICK f \in [0 .. Len(s) -> Seq(T \cap S)] : Filters(f, s, S) /\ Kept(s, S) = f[Len(s)]
  BY KeptFilters
<1>2. Len(s) \in Nat
  OBVIOUS
<1>3. Agree(f, g, 0) /\ \A k \in 1 .. Len(s) : Agree(f, g, k - 1) => Agree(f, g, k)
  BY <1>1 DEF Filters, Agree
<1>4. \A k \in 0 .. Len(s) : Agree(f, g, k)
  BY ONLY <1>2, <1>3, IterationUnique, Zenon
<1>. QED BY <1>1, <1>2, <1>4 DEF Agree

\* What is kept is in both.
LEMMA KeptType ==
  ASSUME NEW T, NEW s \in Seq(T), NEW S
  PROVE  Kept(s, S) \in Seq(T \cap S)
<1>1. PICK f \in [0 .. Len(s) -> Seq(T \cap S)] : Filters(f, s, S) /\ Kept(s, S) = f[Len(s)]
  BY KeptFilters
<1>. QED BY <1>1

\* An element more.
LEMMA KeptAppend ==
  ASSUME NEW T, NEW s \in Seq(T), NEW x \in T, NEW S
  PROVE  Kept(Append(s, x), S) = IF x \in S THEN Append(Kept(s, S), x) ELSE Kept(s, S)
<1>. DEFINE t == Append(s, x)
<1>1. PICK f \in [0 .. Len(s) -> Seq(T \cap S)] : Filters(f, s, S) /\ Kept(s, S) = f[Len(s)]
  BY KeptFilters
<1>. DEFINE last == IF x \in S THEN Append(f[Len(s)], x) ELSE f[Len(s)]
            g == [k \in 0 .. Len(s) + 1 |-> IF k <= Len(s) THEN f[k] ELSE last]
<1>2. /\ t \in Seq(T) /\ Len(t) = Len(s) + 1 /\ t[Len(s) + 1] = x /\ Len(s) \in Nat
      /\ \A k \in 1 .. Len(s) : t[k] = s[k]
  OBVIOUS
<1>3. /\ \A k \in 0 .. Len(s) : g[k] = f[k]
      /\ g[Len(s) + 1] = last
  <2>. HIDE DEF last
  <2>. QED BY <1>2
<1>. HIDE DEF g, t
<1>4. Filters(g, t, S)
  <2>1. g[0] = <<>>
    BY <1>1, <1>2, <1>3 DEF Filters
  <2>2. ASSUME NEW k \in 1 .. Len(t)
        PROVE  g[k] = IF t[k] \in S THEN Append(g[k - 1], t[k]) ELSE g[k - 1]
    <3>1. CASE k <= Len(s)
      <4>1. k \in 1 .. Len(s) /\ k - 1 \in 0 .. Len(s) /\ k \in 0 .. Len(s)
        BY <1>2, <3>1
      <4>2. g[k] = f[k] /\ g[k - 1] = f[k - 1] /\ t[k] = s[k]
        BY <1>2, <1>3, <4>1
      <4>. QED BY <1>1, <4>1, <4>2 DEF Filters
    <3>2. CASE k = Len(s) + 1
      BY <1>2, <1>3, <3>2
    <3>. QED BY <1>2, <3>1, <3>2
  <2>. QED BY <2>1, <2>2 DEF Filters
<1>5. Kept(t, S) = g[Len(t)]
  BY ONLY <1>2, <1>4, KeptIs
<1>. QED BY <1>1, <1>2, <1>3, <1>5 DEF t

\* One sequence after another.
LEMMA KeptConcat ==
  ASSUME NEW T, NEW s \in Seq(T), NEW t \in Seq(T), NEW S
  PROVE  Kept(s \o t, S) = Kept(s, S) \o Kept(t, S)
<1>. DEFINE u == s \o t
<1>1. PICK f \in [0 .. Len(s) -> Seq(T \cap S)] : Filters(f, s, S) /\ Kept(s, S) = f[Len(s)]
  BY KeptFilters
<1>2. PICK h \in [0 .. Len(t) -> Seq(T \cap S)] : Filters(h, t, S) /\ Kept(t, S) = h[Len(t)]
  BY KeptFilters
<1>. DEFINE g == [k \in 0 .. Len(s) + Len(t) |->
                   IF k <= Len(s) THEN f[k] ELSE f[Len(s)] \o h[k - Len(s)]]
<1>3. /\ u \in Seq(T) /\ Len(u) = Len(s) + Len(t) /\ Len(s) \in Nat /\ Len(t) \in Nat
      /\ \A k \in 1 .. Len(s) : u[k] = s[k]
      /\ \A k \in 1 .. Len(t) : u[Len(s) + k] = t[k]
  OBVIOUS
<1>4. \A k \in 0 .. Len(s) : g[k] = f[k]
  BY <1>3
<1>5. \A k \in 0 .. Len(t) : g[Len(s) + k] = f[Len(s)] \o h[k]
  <2>1. g[Len(s) + 0] = f[Len(s)] \o h[0]
    <3>1. g[Len(s)] = f[Len(s)]
      BY <1>3, <1>4
    <3>2. h[0] = <<>> /\ f[Len(s)] \in Seq(T \cap S)
      BY <1>2, <1>3 DEF Filters
    <3>3. f[Len(s)] \o <<>> = f[Len(s)]
      BY <3>2
    <3>. QED BY <1>3, <3>1, <3>2, <3>3
  <2>2. \A k \in 1 .. Len(t) : g[Len(s) + k] = f[Len(s)] \o h[k]
    <3>. SUFFICES ASSUME NEW k \in 1 .. Len(t) PROVE g[Len(s) + k] = f[Len(s)] \o h[k]
      OBVIOUS
    <3>0. Len(s) + k \in 0 .. Len(s) + Len(t) /\ ~(Len(s) + k <= Len(s)) /\ (Len(s) + k) - Len(s) = k
      BY <1>3
    <3>1. PICK n \in 0 .. Len(s) + Len(t) : n = Len(s) + k /\ ~(n <= Len(s)) /\ n - Len(s) = k
      BY ONLY <3>0
    <3>2. g[n] = f[Len(s)] \o h[n - Len(s)]
      BY <3>1
    <3>. QED BY ONLY <3>1, <3>2
  <2>3. \A k \in 0 .. Len(t) : k = 0 \/ k \in 1 .. Len(t)
    BY <1>3
  <2>. QED BY ONLY <2>1, <2>2, <2>3, Zenon
<1>. HIDE DEF g, u
<1>6. Filters(g, u, S)
  <2>1. g[0] = <<>>
    BY <1>1, <1>3, <1>4 DEF Filters
  <2>2. ASSUME NEW k \in 1 .. Len(s)
        PROVE  g[k] = IF u[k] \in S THEN Append(g[k - 1], u[k]) ELSE g[k - 1]
    <3>1. k \in 0 .. Len(s) /\ k - 1 \in 0 .. Len(s)
      BY <1>3
    <3>2. g[k] = f[k] /\ g[k - 1] = f[k - 1] /\ u[k] = s[k]
      BY <1>3, <1>4, <3>1
    <3>. QED BY <1>1, <3>2 DEF Filters
  <2>3. ASSUME NEW k \in 1 .. Len(t)
        PROVE  g[Len(s) + k] = IF u[Len(s) + k] \in S THEN Append(g[Len(s) + k - 1], u[Len(s) + k])
                                                      ELSE g[Len(s) + k - 1]
    <3>1. k - 1 \in 0 .. Len(t) /\ Len(s) + k - 1 = Len(s) + (k - 1) /\ k \in 0 .. Len(t)
      BY <1>3
    <3>2. g[Len(s) + k] = f[Len(s)] \o h[k] /\ g[Len(s) + k - 1] = f[Len(s)] \o h[k - 1] /\ u[Len(s) + k] = t[k]
      BY <1>3, <1>5, <3>1
    <3>3. h[k] = IF t[k] \in S THEN Append(h[k - 1], t[k]) ELSE h[k - 1]
      BY <1>2 DEF Filters
    <3>4. CASE t[k] \in S
      <4>. DEFINE X == T \cap S
      <4>1. PICK a \in Seq(X), b \in Seq(X), x \in X : a = f[Len(s)] /\ b = h[k - 1] /\ x = t[k]
        <5>1. Len(s) \in 0 .. Len(s) /\ t[k] \in T
          BY <1>3
        <5>. QED BY <3>1, <3>4, <5>1
      <4>. HIDE DEF X
      <4>2. a \o Append(b, x) = Append(a \o b, x)
        BY ONLY x \in X, a \in Seq(X), b \in Seq(X)
      <4>. QED BY <3>2, <3>3, <3>4, <4>1, <4>2
    <3>5. CASE t[k] \notin S
      BY <3>2, <3>3, <3>5
    <3>. QED BY <3>4, <3>5
  <2>4. ASSUME NEW k \in 1 .. Len(u), k > Len(s)
        PROVE  g[k] = IF u[k] \in S THEN Append(g[k - 1], u[k]) ELSE g[k - 1]
    <3>1. PICK j \in 1 .. Len(t) : Len(s) + j = k /\ Len(s) + j - 1 = k - 1
      <4>1. k - Len(s) \in 1 .. Len(t) /\ Len(s) + (k - Len(s)) = k /\ Len(s) + (k - Len(s)) - 1 = k - 1
        BY <1>3, <2>4
      <4>. QED BY <4>1, Zenon
    <3>2. g[Len(s) + j] = IF u[Len(s) + j] \in S THEN Append(g[Len(s) + j - 1], u[Len(s) + j])
                                                ELSE g[Len(s) + j - 1]
      BY <2>3, Zenon
    <3>. QED BY ONLY <3>1, <3>2
  <2>5. ASSUME NEW k \in 1 .. Len(u)
        PROVE  g[k] = IF u[k] \in S THEN Append(g[k - 1], u[k]) ELSE g[k - 1]
    <3>1. CASE k \in 1 .. Len(s)
      BY <2>2, <3>1
    <3>2. CASE k > Len(s)
      BY <2>4, <3>2
    <3>. QED BY <1>3, <3>1, <3>2
  <2>. QED BY <2>1, <2>5 DEF Filters
<1>7. Kept(u, S) = g[Len(u)]
  BY ONLY <1>3, <1>6, KeptIs
<1>8. Len(t) \in 0 .. Len(t)
  BY <1>3
<1>. QED BY <1>1, <1>2, <1>3, <1>5, <1>7, <1>8 DEF u

\* All are kept, none are kept, all but the first are kept.
LEMMA KeptAll ==
  ASSUME NEW T, NEW s \in Seq(T), NEW S, \A i \in 1 .. Len(s) : s[i] \in S
  PROVE  Kept(s, S) = s
<1>. DEFINE g == [k \in 0 .. Len(s) |-> SubSeq(s, 1, k)]
<1>1. Filters(g, s, S)
  <2>1. g[0] = <<>>
    OBVIOUS
  <2>2. \A k \in 1 .. Len(s) : g[k] = Append(g[k - 1], s[k])
    <3>. SUFFICES ASSUME NEW k \in 1 .. Len(s) PROVE g[k] = Append(g[k - 1], s[k])
      OBVIOUS
    <3>1. g[k] = SubSeq(s, 1, k) /\ g[k - 1] = SubSeq(s, 1, k - 1)
      OBVIOUS
    <3>2. SubSeq(s, 1, k) = Append(SubSeq(s, 1, k - 1), s[k])
      OBVIOUS
    <3>. QED BY ONLY <3>1, <3>2
  <2>. HIDE DEF g
  <2>. QED BY <2>1, <2>2 DEF Filters
<1>2. g[Len(s)] = s
  OBVIOUS
<1>. HIDE DEF g
<1>. QED BY <1>1, <1>2, KeptIs

\* No element of s is in S.
LEMMA KeptNone ==
  ASSUME NEW T, NEW s \in Seq(T), NEW S, \A i \in 1 .. Len(s) : s[i] \notin S
  PROVE  Kept(s, S) = <<>>
<1>. DEFINE g == [k \in 0 .. Len(s) |-> <<>>]
<1>1. Filters(g, s, S)
  BY DEF Filters
<1>2. g[Len(s)] = <<>>
  OBVIOUS
<1>. HIDE DEF g
<1>. QED BY <1>1, <1>2, KeptIs

\* All but the first are.
LEMMA KeptTail ==
  ASSUME NEW T, NEW s \in Seq(T), NEW S, s # <<>>, s[1] \notin S,
         \A i \in 2 .. Len(s) : s[i] \in S
  PROVE  Kept(s, S) = Tail(s)
<1>1. PICK e \in Seq(T), t \in Seq(T) : e = <<s[1]>> /\ t = Tail(s) /\ s = e \o t
  <2>1. s[1] \in T /\ <<s[1]>> \in Seq(T) /\ Tail(s) \in Seq(T)
    OBVIOUS
  <2>2. s = <<s[1]>> \o Tail(s)
    OBVIOUS
  <2>. QED BY <2>1, <2>2, Zenon
<1>2. Kept(e, S) = <<>>
  <2>1. Len(e) = 1 /\ e[1] = s[1]
    BY <1>1
  <2>2. \A i \in 1 .. Len(e) : e[i] \notin S
    BY <2>1
  <2>. QED BY <2>2, KeptNone
<1>3. Kept(t, S) = t
  <2>1. \A i \in 1 .. Len(t) : t[i] \in S
    BY <1>1
  <2>. QED BY <2>1, KeptAll
<1>4. Kept(e \o t, S) = Kept(e, S) \o Kept(t, S)
  BY KeptConcat
<1>5. <<>> \o t = t
  OBVIOUS
<1>. QED BY <1>1, <1>2, <1>3, <1>4, <1>5

(***************************************************************************)
(* The pieces of arguments that lines bring to a call, likewise.           *)
(***************************************************************************)
\* The pieces of arguments that a line brings to the call with index idx.
Brings(l, idx) == IF l.t = "tool" /\ l.idx = idx THEN l.n ELSE 0

Adds(f, s, idx) == f[0] = 0 /\ \A k \in 1 .. Len(s) : f[k] = f[k - 1] + Brings(s[k], idx)

\* Pieces adds up what the lines bring.
LEMMA PiecesAdds ==
  ASSUME NEW s \in Seq(LineType), NEW idx
  PROVE  \E f \in [0 .. Len(s) -> Nat] : Adds(f, s, idx) /\ Pieces(s, idx) = f[Len(s)]
<1>. DEFINE step == [vk \in Nat \X (1 .. Len(s)) |-> vk[1] + Brings(s[vk[2]], idx)]
            rule(r) == [i \in 0 .. Len(s) |->
                         IF i = 0 THEN 0
                         ELSE r[i - 1] + IF s[i].t = "tool" /\ s[i].idx = idx THEN s[i].n ELSE 0]
            Upto == CHOOSE r : r = rule(r)
<1>1. Len(s) \in Nat /\ \A k \in 1 .. Len(s) : Brings(s[k], idx) \in Nat
  <2>1. \A k \in 1 .. Len(s) : s[k] \in LineType
    OBVIOUS
  <2>2. \A l \in LineType : Brings(l, idx) \in Nat
    BY DEF LineType, Brings
  <2>. QED BY <2>1, <2>2
<1>2. \A v \in Nat, k \in 1 .. Len(s) : step[<<v, k>>] = v + Brings(s[k], idx)
  OBVIOUS
<1>3. step \in [Nat \X (1 .. Len(s)) -> Nat]
  BY <1>1
<1>4. PICK f \in [0 .. Len(s) -> Nat] : Iterates(f, 0, step, Len(s))
  <2>1. Len(s) \in Nat
    BY <1>1
  <2>2. 0 \in Nat
    OBVIOUS
  <2>. HIDE DEF step
  <2>. QED BY <1>3, <2>1, <2>2, IterationExists
<1>5. Adds(f, s, idx)
  <2>. HIDE DEF step
  <2>1. \A k \in 1 .. Len(s) : f[k - 1] \in Nat
    OBVIOUS
  <2>. QED BY <1>2, <1>4, <2>1 DEF Iterates, Adds
<1>6. f = rule(f)
  <2>1. \A i \in 0 .. Len(s) : f[i] = rule(f)[i]
    <3>. SUFFICES ASSUME NEW i \in 0 .. Len(s) PROVE f[i] = rule(f)[i]
      OBVIOUS
    <3>1. CASE i = 0
      BY <1>5, <3>1 DEF Adds
    <3>2. CASE i # 0
      <4>1. i \in 1 .. Len(s)
        BY <1>1, <3>2
      <4>. QED BY <1>5, <3>2, <4>1 DEF Adds, Brings
    <3>. QED BY <3>1, <3>2
  <2>. QED BY <2>1
<1>7. Upto = rule(Upto)
  <2>. HIDE DEF rule
  <2>. QED BY <1>6, Zenon
<1>8. Adds(Upto, s, idx)
  <2>. HIDE DEF Upto
  <2>1. \A i \in 0 .. Len(s) : Upto[i] = rule(Upto)[i]
    <3>. HIDE DEF rule
    <3>. QED BY <1>7
  <2>2. Upto[0] = 0
    BY <1>1, <2>1
  <2>3. \A k \in 1 .. Len(s) : Upto[k] = Upto[k - 1] + Brings(s[k], idx)
    BY <1>1, <2>1 DEF Brings
  <2>. QED BY <2>2, <2>3 DEF Adds
<1>9. Pieces(s, idx) = Upto[Len(s)]
  BY Zenon DEF Pieces
<1>10. \A k \in 0 .. Len(s) : Agree(Upto, f, k)
  <2>. HIDE DEF Upto
  <2>1. Agree(Upto, f, 0) /\ \A k \in 1 .. Len(s) : Agree(Upto, f, k - 1) => Agree(Upto, f, k)
    BY <1>5, <1>8 DEF Adds, Agree
  <2>2. Len(s) \in Nat
    BY <1>1
  <2>. QED BY ONLY <2>2, <2>1, IterationUnique, Zenon
<1>. HIDE DEF Upto
<1>11. Upto[Len(s)] = f[Len(s)]
  BY <1>1, <1>10 DEF Agree
<1>. QED BY <1>5, <1>9, <1>11

\* Whatever adds up the pieces of s has their number at its end.
LEMMA PiecesIs ==
  ASSUME NEW s \in Seq(LineType), NEW idx, NEW g, Adds(g, s, idx)
  PROVE  Pieces(s, idx) = g[Len(s)]
<1>1. PICK f \in [0 .. Len(s) -> Nat] : Adds(f, s, idx) /\ Pieces(s, idx) = f[Len(s)]
  BY PiecesAdds
<1>2. Len(s) \in Nat
  OBVIOUS
<1>3. Agree(f, g, 0) /\ \A k \in 1 .. Len(s) : Agree(f, g, k - 1) => Agree(f, g, k)
  BY <1>1 DEF Adds, Agree
<1>4. \A k \in 0 .. Len(s) : Agree(f, g, k)
  BY ONLY <1>2, <1>3, IterationUnique, Zenon
<1>. QED BY <1>1, <1>2, <1>4 DEF Agree

\* It is a number.
LEMMA PiecesType ==
  ASSUME NEW s \in Seq(LineType), NEW idx
  PROVE  Pieces(s, idx) \in Nat
<1>1. PICK f \in [0 .. Len(s) -> Nat] : Adds(f, s, idx) /\ Pieces(s, idx) = f[Len(s)]
  BY PiecesAdds
<1>. QED BY <1>1

\* A line more.
LEMMA PiecesAppend ==
  ASSUME NEW s \in Seq(LineType), NEW x \in LineType, NEW idx
  PROVE  Pieces(Append(s, x), idx) = Pieces(s, idx) + Brings(x, idx)
<1>. DEFINE t == Append(s, x)
            more == Brings(x, idx)
<1>1. PICK f \in [0 .. Len(s) -> Nat] : Adds(f, s, idx) /\ Pieces(s, idx) = f[Len(s)]
  BY PiecesAdds
<1>. DEFINE g == [k \in 0 .. Len(s) + 1 |-> IF k <= Len(s) THEN f[k] ELSE f[Len(s)] + more]
<1>2. /\ t \in Seq(LineType) /\ Len(t) = Len(s) + 1 /\ t[Len(s) + 1] = x /\ Len(s) \in Nat
      /\ \A k \in 1 .. Len(s) : t[k] = s[k]
  OBVIOUS
<1>3. /\ \A k \in 0 .. Len(s) : g[k] = f[k]
      /\ g[Len(s) + 1] = f[Len(s)] + more
  <2>. HIDE DEF more
  <2>. QED BY <1>2
<1>. HIDE DEF g, t
<1>4. Adds(g, t, idx)
  <2>1. g[0] = 0
    BY <1>1, <1>2, <1>3 DEF Adds
  <2>2. ASSUME NEW k \in 1 .. Len(t)
        PROVE  g[k] = g[k - 1] + Brings(t[k], idx)
    <3>1. CASE k <= Len(s)
      <4>1. k \in 1 .. Len(s) /\ k - 1 \in 0 .. Len(s) /\ k \in 0 .. Len(s)
        BY <1>2, <3>1
      <4>2. g[k] = f[k] /\ g[k - 1] = f[k - 1] /\ t[k] = s[k]
        BY <1>2, <1>3, <4>1
      <4>. QED BY <1>1, <4>1, <4>2 DEF Adds
    <3>2. CASE k = Len(s) + 1
      BY <1>2, <1>3, <3>2
    <3>. QED BY <1>2, <3>1, <3>2
  <2>. QED BY <2>1, <2>2 DEF Adds
<1>5. Pieces(t, idx) = g[Len(t)]
  BY ONLY <1>2, <1>4, PiecesIs
<1>. QED BY <1>1, <1>2, <1>3, <1>5 DEF t

\* A call that no line is about has no pieces.
LEMMA PiecesNone ==
  ASSUME NEW s \in Seq(LineType), NEW idx,
         \A k \in 1 .. Len(s) : s[k].t = "tool" => s[k].idx # idx
  PROVE  Pieces(s, idx) = 0
<1>. DEFINE g == [k \in 0 .. Len(s) |-> 0]
<1>1. Adds(g, s, idx)
  <2>1. \A k \in 1 .. Len(s) : Brings(s[k], idx) = 0
    BY DEF Brings
  <2>2. g[0] = 0 /\ \A k \in 1 .. Len(s) : g[k] = 0 /\ g[k - 1] = 0
    OBVIOUS
  <2>. HIDE DEF g
  <2>. QED BY <2>1, <2>2 DEF Adds
<1>2. g[Len(s)] = 0
  OBVIOUS
<1>. HIDE DEF g
<1>. QED BY <1>1, <1>2, PiecesIs

(***************************************************************************)
(* Type correctness.  First the readers: what a line, and the end of the   *)
(* body, make of what a reader keeps.                                      *)
(***************************************************************************)
PendingType == SUBSET [idx : Nat, call : CallType]

\* The IDs that readers and APIs give are IDs.
LEMMA GivenAreSome == IDs \cup {None} \subseteq SomeID /\ \A name \in SomeName : MadeUpID(name) \in SomeID
BY DEF SomeID

\* The call that a line opens.
LEMMA LineCall ==
  ASSUME NEW l \in LineType
  PROVE  ToolCall(l.id, l.name, l.n) \in CallType
BY GivenAreSome DEF LineType, ToolCall, CallType

\* What a line makes of a gathered call with its index.
More(p, l) ==
  [p EXCEPT !.call = ToolCall(IF l.id = None THEN @.id ELSE l.id,
                              IF l.name = None THEN @.name ELSE l.name,
                              @.args + l.n)]

\* Gathering keeps the type, and finiteness.
LEMMA GatherFacts ==
  ASSUME NEW pending \in PendingType, NEW l \in LineType
  PROVE  /\ Gather(pending, l) \in PendingType
         /\ IsFiniteSet(pending) => IsFiniteSet(Gather(pending, l))
<1>. DEFINE new == [idx |-> l.idx, call |-> ToolCall(l.id, l.name, l.n)]
            f == [p \in pending |-> IF p.idx # l.idx THEN p ELSE More(p, l)]
            image == {f[p] : p \in pending}
<1>1. CASE \E p \in pending : p.idx = l.idx
  <2>1. Gather(pending, l) = image
    BY <1>1 DEF Gather, More
  <2>2. \A p \in [idx : Nat, call : CallType] : More(p, l) \in [idx : Nat, call : CallType]
    <3>. SUFFICES ASSUME NEW p \in [idx : Nat, call : CallType]
                  PROVE  More(p, l) \in [idx : Nat, call : CallType]
      OBVIOUS
    <3>1. p.call \in CallType /\ p.call.args \in Nat /\ l.n \in Nat /\ p.call.id \in SomeID
          /\ p.call.name \in SomeName /\ l.id \in SomeID /\ l.name \in SomeName
      BY GivenAreSome DEF CallType, LineType
    <3>2. ToolCall(IF l.id = None THEN p.call.id ELSE l.id,
                   IF l.name = None THEN p.call.name ELSE l.name, p.call.args + l.n) \in CallType
      BY <3>1 DEF ToolCall, CallType
    <3>. HIDE DEF CallType
    <3>. QED BY <3>2 DEF More
  <2>3. image \in PendingType
    BY <2>2 DEF PendingType
  <2>4. IsFiniteSet(pending) => IsFiniteSet(image)
    <3>1. f \in Surjection(pending, image)
      BY DEF Surjection
    <3>. HIDE DEF f, image
    <3>. QED BY <3>1, FS_Surjection
  <2>. HIDE DEF image
  <2>. QED BY <2>1, <2>3, <2>4
<1>2. CASE ~ \E p \in pending : p.idx = l.idx
  <2>1. Gather(pending, l) = pending \cup {new}
    BY <1>2 DEF Gather
  <2>2. new \in [idx : Nat, call : CallType]
    BY LineCall DEF LineType
  <2>. HIDE DEF new
  <2>3. IsFiniteSet(pending) => IsFiniteSet(pending \cup {new})
    BY FS_AddElement
  <2>. QED BY <2>1, <2>2, <2>3 DEF PendingType
<1>. QED BY <1>1, <1>2

\* The chunks that a flush adds: one for each call that has a name.
LEMMA FlushFacts ==
  ASSUME NEW r \in ReaderType, IsFiniteSet(r.pending), NEW f \in Flush(r)
  PROVE  /\ f \in ReaderType /\ f.pending = {} /\ f.usage = r.usage /\ f.over = r.over
         /\ \E walk \in SetToSeqs(Named(r.pending)), chunks \in Seq(ChunkType) :
              /\ chunks = [i \in DOMAIN walk |-> CallChunk(walk[i].call)]
              /\ f.out = r.out \o chunks
<1>1. PICK walk \in SetToSeqs(Named(r.pending)) :
        f = [r EXCEPT !.out = @ \o [i \in DOMAIN walk |-> CallChunk(walk[i].call)], !.pending = {}]
  BY DEF Flush
<1>2. /\ Named(r.pending) \subseteq r.pending /\ r.pending \subseteq [idx : Nat, call : CallType]
      /\ r.out \in Seq(ChunkType)
  BY DEF Named, ReaderType
<1>3. Cardinality(Named(r.pending)) \in Nat
  BY <1>2, FS_Subset, FS_CardinalityType
<1>4. walk \in [1 .. Cardinality(Named(r.pending)) -> Named(r.pending)]
  BY DEF SetToSeqs
<1>. DEFINE chunks == [i \in DOMAIN walk |-> CallChunk(walk[i].call)]
<1>5. chunks \in Seq(ChunkType)
  <2>1. \A c \in CallType : CallChunk(c) \in ChunkType
    BY DEF CallChunk, Chunk, ChunkType
  <2>2. \A i \in 1 .. Cardinality(Named(r.pending)) : walk[i].call \in CallType
    BY <1>2, <1>4
  <2>3. chunks \in [1 .. Cardinality(Named(r.pending)) -> ChunkType]
    BY <1>4, <2>1, <2>2
  <2>. HIDE DEF chunks
  <2>. QED BY <1>3, <2>3
<1>6. r.out \o chunks \in Seq(ChunkType)
  <2>. HIDE DEF chunks
  <2>. QED BY <1>2, <1>5
<1>. HIDE DEF chunks
<1>7. f = [r EXCEPT !.out = r.out \o chunks, !.pending = {}]
  BY <1>1 DEF chunks, ReaderType
<1>8. f \in ReaderType /\ f.pending = {} /\ f.usage = r.usage /\ f.over = r.over /\ f.out = r.out \o chunks
  BY <1>6, <1>7 DEF ReaderType
<1>. QED BY <1>5, <1>8 DEF chunks

\* A chunk more to send.
LEMMA EmitFacts ==
  ASSUME NEW r \in ReaderType, NEW c \in ChunkType
  PROVE  /\ Emit(r, c) \in ReaderType /\ Emit(r, c).out = Append(r.out, c)
         /\ Emit(r, c).pending = r.pending /\ Emit(r, c).usage = r.usage /\ Emit(r, c).over = r.over
<1>1. Append(r.out, c) \in Seq(ChunkType)
  BY DEF ReaderType
<1>. QED BY <1>1 DEF Emit, ReaderType

\* The chunks have their type.
LEMMA ChunkTypes ==
  /\ \A n \in Nat : TextChunk(n) \in ChunkType /\ DoneChunk(n) \in ChunkType
  /\ \A c \in CallType : CallChunk(c) \in ChunkType
<1>1. NoCall \in CallType
  BY DEF NoCall, ToolCall, CallType, SomeID, SomeName
<1>2. \A c \in CallType : CallChunk(c) \in ChunkType
  BY DEF CallChunk, Chunk, ChunkType
<1>3. \A n \in Nat : TextChunk(n) \in ChunkType /\ DoneChunk(n) \in ChunkType
  BY <1>1 DEF TextChunk, DoneChunk, Chunk, ChunkType
<1>. QED BY <1>2, <1>3

\* The last chunk.
LEMMA OverFacts ==
  ASSUME NEW r \in ReaderType
  PROVE  /\ Over(r) \in ReaderType /\ Over(r).out = Append(r.out, DoneChunk(r.usage))
         /\ Over(r).pending = r.pending /\ Over(r).usage = r.usage /\ Over(r).over = TRUE
<1>1. DoneChunk(r.usage) \in ChunkType
  BY ChunkTypes DEF ReaderType
<1>2. PICK e \in ReaderType : /\ e = Emit(r, DoneChunk(r.usage)) /\ e.out = Append(r.out, DoneChunk(r.usage))
                              /\ e.pending = r.pending /\ e.usage = r.usage
  BY <1>1, EmitFacts
<1>3. Over(r) = [e EXCEPT !.over = TRUE]
  BY <1>2 DEF Over
<1>. QED BY <1>2, <1>3 DEF ReaderType

Readers == {r \in ReaderType : IsFiniteSet(r.pending)}

\* Claude's reader keeps its type at every line.
LEMMA ClaudeLineType ==
  ASSUME NEW r \in Readers, NEW l \in LineType
  PROVE  ClaudeLine(r, l) \in Readers
<1>1. r \in ReaderType /\ IsFiniteSet(r.pending) /\ l.n \in Nat
  BY DEF Readers, LineType
<1>2. ToolCall(l.id, l.name, 0) \in CallType
  BY GivenAreSome DEF LineType, ToolCall, CallType
<1>3. Emit(r, TextChunk(l.n)) \in Readers /\ Emit(r, CallChunk(ToolCall(l.id, l.name, 0))) \in Readers
  BY <1>1, <1>2, ChunkTypes, EmitFacts DEF Readers
<1>4. [r EXCEPT !.usage = l.n] \in Readers
  BY <1>1 DEF Readers, ReaderType
<1>5. Over(r) \in Readers
  BY <1>1, OverFacts DEF Readers
<1>. QED BY <1>3, <1>4, <1>5 DEF ClaudeLine

\* Gemini's.
LEMMA GeminiLineType ==
  ASSUME NEW r \in Readers, NEW l \in LineType
  PROVE  GeminiLine(r, l) \in Readers
<1>1. r \in ReaderType /\ IsFiniteSet(r.pending) /\ l.n \in Nat
  BY DEF Readers, LineType
<1>2. ToolCall(MadeUpID(l.name), l.name, l.n) \in CallType
  BY GivenAreSome DEF LineType, ToolCall, CallType
<1>3. Emit(r, TextChunk(l.n)) \in Readers /\ Emit(r, CallChunk(ToolCall(MadeUpID(l.name), l.name, l.n))) \in Readers
  BY <1>1, <1>2, ChunkTypes, EmitFacts DEF Readers
<1>4. [r EXCEPT !.usage = l.n] \in Readers
  BY <1>1 DEF Readers, ReaderType
<1>. QED BY <1>3, <1>4 DEF GeminiLine

\* A flush keeps it, with the last chunk and without.
LEMMA FlushType ==
  ASSUME NEW r \in Readers, NEW f \in Flush(r)
  PROVE  f \in Readers /\ Over(f) \in Readers
<1>1. r \in ReaderType /\ IsFiniteSet(r.pending)
  BY DEF Readers
<1>2. f \in ReaderType /\ f.pending = {}
  BY <1>1, FlushFacts
<1>3. Over(f) \in ReaderType /\ Over(f).pending = {}
  BY <1>2, OverFacts
<1>. QED BY <1>2, <1>3, FS_EmptySet DEF Readers

\* The one of OpenAI's format.
LEMMA OpenAILineType ==
  ASSUME NEW r \in Readers, NEW l \in LineType, NEW x \in OpenAILine(r, l)
  PROVE  x \in Readers
<1>1. r \in ReaderType /\ IsFiniteSet(r.pending) /\ l.n \in Nat /\ r.pending \in PendingType
  BY DEF Readers, LineType, ReaderType, PendingType
<1>2. Emit(r, TextChunk(l.n)) \in Readers
  BY <1>1, ChunkTypes, EmitFacts DEF Readers
<1>3. [r EXCEPT !.usage = l.n] \in Readers
  BY <1>1 DEF Readers, ReaderType
<1>4. [r EXCEPT !.pending = Gather(@, l)] \in Readers
  <2>1. Gather(r.pending, l) \in PendingType /\ IsFiniteSet(Gather(r.pending, l))
    BY <1>1, GatherFacts
  <2>. QED BY <1>1, <2>1 DEF Readers, ReaderType, PendingType
<1>5. \A f \in Flush(r) : f \in Readers /\ Over(f) \in Readers
  BY FlushType
<1>. QED BY <1>2, <1>3, <1>4, <1>5 DEF OpenAILine

\* Every reader does, at every line ...
LEMMA ReadLineType ==
  ASSUME NEW k, NEW r \in Readers, NEW l \in LineType, NEW x \in ReadLine(k, r, l)
  PROVE  x \in Readers
BY ClaudeLineType, GeminiLineType, OpenAILineType DEF ReadLine, CopilotLine

\* ... and at the end of the body.
LEMMA AtEndType ==
  ASSUME NEW k, NEW r \in Readers, NEW failed, NEW x \in AtEnd(k, r, failed)
  PROVE  x \in Readers
<1>1. r \in ReaderType /\ IsFiniteSet(r.pending)
  BY DEF Readers
<1>2. Over(r) \in Readers
  BY <1>1, OverFacts DEF Readers
<1>3. [r EXCEPT !.over = TRUE] \in Readers
  BY <1>1 DEF Readers, ReaderType
<1>. QED BY <1>2, <1>3, FlushType DEF AtEnd

(***************************************************************************)
(* The bodies of requests.                                                 *)
(***************************************************************************)
Roles == {"system", "user", "assistant", "tool"}

\* The parts of an entry have their type.
LEMMA PartTypes ==
  /\ \A n \in Nat : TextPart(n) \in PartType /\ IfAny(n) \in Seq(PartType)
  /\ \A m \in MessageType :
       /\ ResultPart(m) \in PartType
       /\ CallParts(m) \in Seq(PartType) /\ GeminiCalls(m) \in Seq(PartType)
<1>1. ASSUME NEW n \in Nat PROVE TextPart(n) \in PartType /\ IfAny(n) \in Seq(PartType)
  <2>1. TextPart(n) \in PartType
    BY DEF TextPart, Part, PartType, SomeName
  <2>. HIDE DEF PartType
  <2>2. <<>> \in Seq(PartType) /\ <<TextPart(n)>> \in Seq(PartType)
    BY <2>1
  <2>. QED BY <2>1, <2>2 DEF IfAny
<1>2. ASSUME NEW m \in MessageType
      PROVE  /\ ResultPart(m) \in PartType
             /\ CallParts(m) \in Seq(PartType) /\ GeminiCalls(m) \in Seq(PartType)
  <2>1. m.text \in Nat /\ m.id \in SomeID /\ m.calls \in Seq(CallType)
    BY DEF MessageType
  <2>2. \A c \in CallType : CallPart(c) \in PartType /\ Part("call", c.name, c.args) \in PartType
    BY DEF CallType, CallPart, Part, PartType
  <2>3. \A i \in 1 .. Len(m.calls) : m.calls[i] \in CallType
    BY <2>1
  <2>4. ResultPart(m) \in PartType
    BY <2>1 DEF ResultPart, Part, PartType
  <2>5. DOMAIN m.calls = 1 .. Len(m.calls) /\ Len(m.calls) \in Nat
    BY <2>1
  <2>. HIDE DEF PartType
  <2>6. CallParts(m) \in [1 .. Len(m.calls) -> PartType] /\ GeminiCalls(m) \in [1 .. Len(m.calls) -> PartType]
    BY <2>2, <2>3, <2>5 DEF CallParts, GeminiCalls
  <2>. QED BY <2>4, <2>5, <2>6
<1>. QED BY <1>1, <1>2

\* So have the entries.
LEMMA EntryTypes ==
  ASSUME NEW m \in MessageType
  PROVE  /\ ClaudeEntry(m) \in EntryType /\ OpenAIEntry(m) \in EntryType
         /\ m.role # "system" => GeminiEntry(m) \in EntryType
<1>1. \A role \in {"system", "user", "assistant", "tool", "model"}, parts \in Seq(PartType) :
        Entry(role, parts) \in EntryType
  BY DEF Entry, EntryType
<1>2. m.role \in Roles /\ m.text \in Nat
  BY DEF MessageType, Roles
<1>3. /\ TextPart(m.text) \in PartType /\ IfAny(m.text) \in Seq(PartType) /\ ResultPart(m) \in PartType
      /\ CallParts(m) \in Seq(PartType) /\ GeminiCalls(m) \in Seq(PartType)
  BY <1>2, PartTypes
<1>4. <<TextPart(m.text)>> \in Seq(PartType) /\ <<ResultPart(m)>> \in Seq(PartType)
  BY <1>3
<1>5. /\ IfAny(m.text) \o CallParts(m) \in Seq(PartType) /\ IfAny(m.text) \o GeminiCalls(m) \in Seq(PartType)
      /\ <<TextPart(m.text)>> \o CallParts(m) \in Seq(PartType)
      /\ <<ResultPart(m)>> \o CallParts(m) \in Seq(PartType)
  BY <1>3, <1>4, ConcatProperties
<1>6. ClaudeEntry(m) \in EntryType
  BY <1>1, <1>2, <1>4, <1>5 DEF ClaudeEntry, Roles
<1>7. OpenAIEntry(m) \in EntryType
  BY <1>1, <1>2, <1>5 DEF OpenAIEntry, Roles
<1>8. m.role # "system" => GeminiEntry(m) \in EntryType
  BY <1>1, <1>2, <1>4, <1>5 DEF GeminiEntry, Roles
<1>. QED BY <1>6, <1>7, <1>8

\* The system's prompt is a text.
LEMMA SystemType ==
  ASSUME NEW h \in Seq(MessageType)
  PROVE  SystemOf(h) \in Nat
<1>. DEFINE S == {m \in MessageType : m.role = "system"}
            s == Kept(h, S)
<1>1. s \in Seq(MessageType)
  <2>1. s \in Seq(MessageType \cap S)
    <3>. HIDE DEF S
    <3>. QED BY KeptType
  <2>2. MessageType \cap S \subseteq MessageType
    OBVIOUS
  <2>. HIDE DEF s, S
  <2>. QED BY <2>1, <2>2, SeqMonotonic
<1>2. s # <<>> => s[Len(s)] \in MessageType
  <2>. HIDE DEF s
  <2>. QED BY <1>1
<1>3. \A m \in MessageType : m.text \in Nat
  BY DEF MessageType
<1>. HIDE DEF s
<1>4. (IF s = <<>> THEN 0 ELSE s[Len(s)].text) \in Nat
  BY <1>2, <1>3
<1>. QED BY <1>4, Zenon DEF SystemOf, s

\* A conversation is of messages, none of them the system's.
LEMMA ConversationType ==
  ASSUME NEW h \in Seq(MessageType)
  PROVE  /\ Conversation(h) \in Seq(MessageType)
         /\ \A i \in DOMAIN Conversation(h) : Conversation(h)[i].role # "system"
<1>. DEFINE S == {m \in MessageType : m.role # "system"}
<1>1. Conversation(h) \in Seq(MessageType \cap S)
  <2>. HIDE DEF S
  <2>1. Kept(h, S) \in Seq(MessageType \cap S)
    BY KeptType
  <2>. QED BY <2>1, Zenon DEF Conversation, S
<1>2. MessageType \cap S \subseteq MessageType /\ \A m \in MessageType \cap S : m.role # "system"
  OBVIOUS
<1>. HIDE DEF S
<1>3. \A i \in DOMAIN Conversation(h) : Conversation(h)[i] \in MessageType \cap S
  BY <1>1
<1>. QED BY <1>1, <1>2, <1>3, SeqMonotonic

\* A body has its type, whatever the history.
LEMMA BodyTypes ==
  ASSUME NEW k, NEW h \in Seq(MessageType)
  PROVE  Body(k, h) \in BodyType
<1>1. \A n \in Nat, entries \in Seq(EntryType) : [system |-> n, entries |-> entries] \in BodyType
  BY DEF BodyType
<1>2. SystemOf(h) \in Nat
  BY SystemType
<1>3. PICK c \in Seq(MessageType) : c = Conversation(h) /\ \A i \in DOMAIN c : c[i].role # "system"
  BY ConversationType
<1>4. /\ DOMAIN c = 1 .. Len(c) /\ Len(c) \in Nat /\ \A i \in 1 .. Len(c) : c[i] \in MessageType
      /\ DOMAIN h = 1 .. Len(h) /\ Len(h) \in Nat /\ \A i \in 1 .. Len(h) : h[i] \in MessageType
  OBVIOUS
<1>5. [i \in DOMAIN c |-> ClaudeEntry(c[i])] \in Seq(EntryType)
  <2>1. [i \in DOMAIN c |-> ClaudeEntry(c[i])] \in [1 .. Len(c) -> EntryType]
    BY <1>4, EntryTypes
  <2>. QED BY <1>4, <2>1
<1>6. [i \in DOMAIN c |-> GeminiEntry(c[i])] \in Seq(EntryType)
  <2>1. [i \in DOMAIN c |-> GeminiEntry(c[i])] \in [1 .. Len(c) -> EntryType]
    BY <1>3, <1>4, EntryTypes
  <2>. QED BY <1>4, <2>1
<1>7. [i \in DOMAIN h |-> OpenAIEntry(h[i])] \in Seq(EntryType)
  <2>1. [i \in DOMAIN h |-> OpenAIEntry(h[i])] \in [1 .. Len(h) -> EntryType]
    BY <1>4, EntryTypes
  <2>. QED BY <1>4, <2>1
<1>8. ClaudeBody(h) \in BodyType
  BY <1>1, <1>2, <1>3, <1>5 DEF ClaudeBody
<1>9. GeminiBody(h) \in BodyType
  BY <1>1, <1>2, <1>3, <1>6 DEF GeminiBody
<1>10. OpenAIBody(h) \in BodyType
  BY <1>1, <1>7 DEF OpenAIBody
<1>. QED BY <1>8, <1>9, <1>10, Zenon DEF Body, CopilotBody

(***************************************************************************)
(* The invariant.  A reader has a line left when it is to take one, and    *)
(* a chunk when it is to send one; what it gathers is finite; and a run    *)
(* that goes on has a turn left.                                           *)
(***************************************************************************)
TypeInv ==
  /\ TypeOK
  /\ IsFiniteSet(rd.pending)
  /\ reader = "line" => pos < fetched
  /\ reader = "send" => rd.out # <<>>
  /\ phase # "ended" => turn < MaxTurns

\* The parts of TypeOK that are about the reader and the answer it reads, and
\* those about the loop and its requests.
ReaderTypes ==
  /\ arriving \in Seq(LineType) /\ broken \in BOOLEAN
  /\ fetched \in 0 .. Len(arriving) /\ pos \in 0 .. fetched
  /\ reader \in {"off", "read", "line", "send", "close", "done"}
  /\ rd \in Readers
  /\ chan \in Seq(ChunkType) /\ Len(chan) <= Cap
  /\ body \in BOOLEAN
  /\ reader = "line" => pos < fetched
  /\ reader = "send" => rd.out # <<>>

LoopTypes ==
  /\ kind \in Providers /\ wrapped \in BOOLEAN /\ keyed \in BOOLEAN
  /\ cancelled \in BOOLEAN
  /\ phase \in {"request", "dial", "backoff", "collect", "ended"}
  /\ outcome \in {"none", "completed", "failed", "canceled", "exhausted"}
  /\ attempt \in 0 .. MaxRetries
  /\ history \in Seq(MessageType)
  /\ turn \in 0 .. MaxTurns /\ (phase # "ended" => turn < MaxTurns)
  /\ wire \in BodyType /\ sent \in Nat
  /\ got \in [text : Seq(Nat), calls : Seq(CallType), usage : Nat]

\* The two parts make the invariant.
LEMMA TypeParts == TypeInv <=> ReaderTypes /\ LoopTypes
BY DEF TypeInv, TypeOK, ReaderTypes, LoopTypes, Readers

\* A fresh reader has the type.
LEMMA FreshType == Fresh \in Readers
<1>1. <<>> \in Seq(ChunkType) /\ {} \in PendingType /\ IsFiniteSet({})
  BY EmptySeq, FS_EmptySet DEF PendingType
<1>. QED BY <1>1 DEF Fresh, Readers, ReaderType, PendingType

\* The invariant holds at the start.
LEMMA InitTypes == Init => TypeInv
<1>. SUFFICES ASSUME Init PROVE ReaderTypes /\ LoopTypes
  BY TypeParts
<1>1. rd \in Readers
  BY FreshType DEF Init
<1>2. history \in Seq(MessageType)
  <2>1. System \in MessageType /\ Prompt \in MessageType
    BY DEF System, Prompt, Message, MessageType, SomeID
  <2>. QED BY <2>1 DEF Init
<1>3. wire \in BodyType
  <2>1. <<>> \in Seq(EntryType)
    BY EmptySeq
  <2>. QED BY <2>1 DEF Init, BodyType
<1>4. got \in [text : Seq(Nat), calls : Seq(CallType), usage : Nat]
  <2>1. <<>> \in Seq(Nat) /\ <<>> \in Seq(CallType)
    BY EmptySeq
  <2>. QED BY <2>1 DEF Init, Nothing
<1>5. keyed \in BOOLEAN
  BY DEF Init
<1>6. ReaderTypes
  <2>1. /\ arriving = <<>> /\ chan = <<>> /\ broken = FALSE /\ body = FALSE
        /\ fetched = 0 /\ pos = 0 /\ reader = "off"
    BY DEF Init
  <2>2. arriving \in Seq(LineType) /\ chan \in Seq(ChunkType) /\ Len(arriving) = 0 /\ Len(chan) = 0
    BY <2>1, EmptySeq
  <2>3. broken \in BOOLEAN /\ body \in BOOLEAN
    BY <2>1, Zenon
  <2>4. Len(chan) <= Cap /\ fetched \in 0 .. Len(arriving) /\ pos \in 0 .. fetched
    BY ONLY <2>1, <2>2, StreamAssumption
  <2>. QED BY <1>1, <2>1, <2>2, <2>3, <2>4, Zenon DEF ReaderTypes
<1>7. LoopTypes
  <2>1. /\ kind \in Providers /\ wrapped \in BOOLEAN /\ cancelled = FALSE /\ phase = "request"
        /\ outcome = "none" /\ attempt = 0 /\ turn = 0 /\ sent = 0
    BY DEF Init
  <2>2. cancelled \in BOOLEAN
    BY <2>1, Zenon
  <2>3. attempt \in 0 .. MaxRetries /\ turn \in 0 .. MaxTurns /\ turn < MaxTurns /\ sent \in Nat
    BY ONLY <2>1, StreamAssumption
  <2>. QED BY <1>2, <1>3, <1>4, <1>5, <2>1, <2>2, <2>3, Zenon DEF LoopTypes
<1>. QED BY <1>6, <1>7

\* Where a reader goes on to.
LEMMA SendNextTypes ==
  ASSUME NEW r, SendNext(r), fetched' = fetched
  PROVE  /\ reader' \in {"off", "read", "line", "send", "close", "done"}
         /\ reader' = "line" => pos' < fetched'
         /\ reader' = "send" => r.out # <<>>
BY DEF SendNext

\* The reader's steps keep the invariant.
LEMMA ReaderKeepsTypes ==
  ASSUME ReaderTypes, LoopTypes, ReaderStep
  PROVE  ReaderTypes' /\ LoopTypes'
<1>1. LoopTypes'
  <2>1. UNCHANGED <<fixed, cancelled, callVars, loopVars>>
    BY DEF ReaderStep, ReaderStops, ReaderReads, ReaderTakesLine, ReaderAtEnd, ReaderSends, ReaderCloses
  <2>. QED BY <2>1 DEF LoopTypes, fixed, callVars, loopVars
<1>2. CASE ReaderStops
  <2>1. UNCHANGED <<arriving, broken, fetched, pos, rd, body, chan>> /\ reader' = "close"
    BY <1>2, Zenon DEF ReaderStops, apiVars
  <2>. QED BY <1>1, <2>1 DEF ReaderTypes
<1>3. CASE ReaderTakesLine
  <2>1. /\ reader = "line" /\ pos' = pos + 1 /\ SendNext(rd')
        /\ rd' \in ReadLine(kind, rd, arriving[pos + 1])
        /\ UNCHANGED <<arriving, broken, fetched, body, chan>>
    BY <1>3, Zenon DEF ReaderTakesLine, apiVars
  <2>2. pos + 1 \in 1 .. Len(arriving) /\ pos + 1 \in 0 .. fetched
    BY <2>1 DEF ReaderTypes
  <2>3. arriving[pos + 1] \in LineType
    BY <2>2 DEF ReaderTypes
  <2>4. rd' \in Readers
    BY <2>1, <2>3, ReadLineType DEF ReaderTypes
  <2>5. /\ reader' \in {"off", "read", "line", "send", "close", "done"}
        /\ reader' = "line" => pos' < fetched'
        /\ reader' = "send" => rd'.out # <<>>
    BY <2>1, SendNextTypes
  <2>. QED BY <1>1, <2>1, <2>2, <2>4, <2>5 DEF ReaderTypes
<1>4. CASE ReaderAtEnd
  <2>1. /\ pos' = pos /\ SendNext(rd')
        /\ rd' \in AtEnd(kind, rd, broken \/ cancelled)
        /\ UNCHANGED <<arriving, broken, fetched, body, chan>>
    BY <1>4, Zenon DEF ReaderAtEnd, apiVars
  <2>2. rd' \in Readers
    BY <2>1, AtEndType DEF ReaderTypes
  <2>3. /\ reader' \in {"off", "read", "line", "send", "close", "done"}
        /\ reader' = "line" => pos' < fetched'
        /\ reader' = "send" => rd'.out # <<>>
    BY <2>1, SendNextTypes
  <2>. QED BY <1>1, <2>1, <2>2, <2>3 DEF ReaderTypes
<1>5. CASE ReaderSends
  <2>1. /\ reader = "send" /\ Len(chan) < Cap /\ chan' = Append(chan, Head(rd.out))
        /\ rd' = [rd EXCEPT !.out = Tail(@)] /\ pos' = pos /\ SendNext(rd')
        /\ UNCHANGED <<arriving, broken, fetched, body>>
    BY <1>5, Zenon DEF ReaderSends, apiVars
  <2>2. rd \in ReaderType /\ IsFiniteSet(rd.pending) /\ rd.out \in Seq(ChunkType) /\ rd.out # <<>>
    BY <2>1 DEF ReaderTypes, Readers, ReaderType
  <2>3. Head(rd.out) \in ChunkType /\ Tail(rd.out) \in Seq(ChunkType)
    BY <2>2
  <2>4. rd' \in Readers
    BY <2>1, <2>2, <2>3 DEF Readers, ReaderType
  <2>5. chan' \in Seq(ChunkType) /\ Len(chan') <= Cap
    BY <2>1, <2>3, StreamAssumption DEF ReaderTypes
  <2>6. /\ reader' \in {"off", "read", "line", "send", "close", "done"}
        /\ reader' = "line" => pos' < fetched'
        /\ reader' = "send" => rd'.out # <<>>
    BY <2>1, SendNextTypes
  <2>. QED BY <1>1, <2>1, <2>4, <2>5, <2>6 DEF ReaderTypes
<1>6. CASE ReaderCloses
  <2>1. UNCHANGED <<arriving, broken, fetched, pos, rd, chan>>
    BY <1>6, Zenon DEF ReaderCloses, apiVars
  <2>2. reader' \in {"close", "done"} /\ body' \in BOOLEAN
    BY <1>6 DEF ReaderCloses, ReaderTypes
  <2>. QED BY <1>1, <2>1, <2>2 DEF ReaderTypes
<1>7. ASSUME NEW k \in 1 .. Len(arriving), ReaderReads(k) PROVE ReaderTypes'
  BY <1>7 DEF ReaderReads, ReaderTypes, apiVars
<1>. QED BY <1>1, <1>2, <1>3, <1>4, <1>5, <1>6, <1>7 DEF ReaderStep

\* A chunk more, collected.
LEMMA CollectedType ==
  ASSUME LoopTypes, NEW c \in ChunkType
  PROVE  Collected(c) \in [text : Seq(Nat), calls : Seq(CallType), usage : Nat]
<1>1. got.text \in Seq(Nat) /\ got.calls \in Seq(CallType) /\ got.usage \in Nat
  BY DEF LoopTypes
<1>2. c.n \in Nat /\ c.call \in CallType
  BY DEF ChunkType
<1>3. Append(got.text, c.n) \in Seq(Nat) /\ Append(got.calls, c.call) \in Seq(CallType)
  BY <1>1, <1>2
<1>. QED BY <1>1, <1>2, <1>3 DEF Collected, LoopTypes

\* A reply, and the results of its calls.
LEMMA RecordedType ==
  ASSUME LoopTypes
  PROVE  /\ Assistant \in MessageType /\ Results \in Seq(MessageType)
         /\ history \o <<Assistant>> \o Results \in Seq(MessageType)
<1>1. got.text \in Seq(Nat) /\ got.calls \in Seq(CallType) /\ history \in Seq(MessageType)
  BY DEF LoopTypes
<1>2. Assistant \in MessageType
  BY <1>1 DEF Assistant, Message, MessageType, SomeID
<1>3. \A c \in CallType : Result(c) \in MessageType
  BY DEF Result, Message, MessageType, CallType
<1>4. Results \in Seq(MessageType)
  <2>1. DOMAIN got.calls = 1 .. Len(got.calls) /\ Len(got.calls) \in Nat
        /\ \A i \in 1 .. Len(got.calls) : got.calls[i] \in CallType
    BY <1>1
  <2>2. Results \in [1 .. Len(got.calls) -> MessageType]
    BY <1>3, <2>1 DEF Results
  <2>. QED BY <2>1, <2>2
<1>5. history \o <<Assistant>> \o Results \in Seq(MessageType)
  BY <1>1, <1>2, <1>4
<1>. QED BY <1>2, <1>4, <1>5

\* The loop's steps keep it.
LEMMA LoopKeepsTypes ==
  ASSUME ReaderTypes, LoopTypes, LoopStep
  PROVE  ReaderTypes' /\ LoopTypes'
<1>1. CASE Request
  <2>1. got' \in [text : Seq(Nat), calls : Seq(CallType), usage : Nat]
    BY <1>1 DEF Request, Nothing
  <2>2. LoopTypes'
    BY <1>1, <2>1, StreamAssumption DEF Request, End, LoopTypes, fixed
  <2>3. ReaderTypes'
    BY <1>1 DEF Request, ReaderTypes, apiVars
  <2>. QED BY <2>2, <2>3
<1>2. CASE NotConfigured \/ Backoff
  <2>1. UNCHANGED <<fixed, cancelled, callVars, apiVars, readerVars, chan, history, turn, got>>
    BY <1>2 DEF NotConfigured, Backoff, Fail
  <2>2. phase' \in {"dial", "ended"} /\ outcome' \in {outcome, "failed"}
    BY <1>2 DEF NotConfigured, Backoff, Fail, End
  <2>3. phase # "ended"
    BY <1>2 DEF NotConfigured, Backoff
  <2>. QED BY <2>1, <2>2, <2>3 DEF LoopTypes, ReaderTypes, fixed, callVars, apiVars, readerVars
<1>3. ASSUME NEW e \in Errors, DialFails(e) PROVE ReaderTypes' /\ LoopTypes'
  <2>1. UNCHANGED <<fixed, cancelled, apiVars, readerVars, chan, history, turn, got>>
    BY <1>3 DEF DialFails, RetryOrFail, Fail
  <2>2. phase' \in {"backoff", "ended"} /\ outcome' \in {outcome, "failed"} /\ attempt' \in 0 .. MaxRetries
    BY <1>3, StreamAssumption DEF DialFails, RetryOrFail, Fail, End, LoopTypes
  <2>3. wire' \in BodyType /\ sent' \in Nat
    BY <1>3, BodyTypes DEF DialFails, LoopTypes
  <2>4. phase # "ended"
    BY <1>3 DEF DialFails
  <2>. QED BY <2>1, <2>2, <2>3, <2>4 DEF LoopTypes, ReaderTypes, fixed, apiVars, readerVars
<1>4. ASSUME NEW reply \in Replies[kind], NEW err \in BOOLEAN,
             NEW n \in 0 .. Len(reply), DialOpens(reply, n, err)
      PROVE  ReaderTypes' /\ LoopTypes'
  <2>1. reply \in Seq(LineType)
    BY ReplyAssumption DEF LoopTypes
  <2>2. SubSeq(reply, 1, n) \in Seq(LineType) /\ 0 \in 0 .. Len(SubSeq(reply, 1, n))
    BY <2>1
  <2>3. Fresh \in Readers
    BY FreshType
  <2>4. wire' \in BodyType /\ sent' \in Nat
    BY <1>4, BodyTypes DEF DialOpens, LoopTypes
  <2>5. ReaderTypes'
    BY <1>4, <2>2, <2>3 DEF DialOpens, ReaderTypes
  <2>6. LoopTypes'
    BY <1>4, <2>4, StreamAssumption DEF DialOpens, LoopTypes, fixed
  <2>. QED BY <2>5, <2>6
<1>5. CASE Collect
  <2>1. chan \in Seq(ChunkType) /\ chan # <<>> /\ chan' = Tail(chan)
    BY <1>5 DEF Collect, ReaderTypes
  <2>2. Head(chan) \in ChunkType /\ chan' \in Seq(ChunkType) /\ Len(chan') = Len(chan) - 1 /\ Len(chan) \in Nat
    BY <2>1
  <2>3. got' \in [text : Seq(Nat), calls : Seq(CallType), usage : Nat]
    BY <1>5, <2>2, CollectedType DEF Collect, LoopTypes
  <2>4. phase' \in {phase, "ended"} /\ outcome' \in {outcome, "canceled"}
    BY <1>5 DEF Collect, End
  <2>5. UNCHANGED <<fixed, cancelled, callVars, apiVars, readerVars, history, turn>>
    BY <1>5 DEF Collect
  <2>6. Len(chan') <= Cap
    BY <2>2, StreamAssumption DEF ReaderTypes
  <2>7. ReaderTypes'
    BY <2>2, <2>5, <2>6 DEF ReaderTypes, apiVars, readerVars
  <2>8. LoopTypes'
    BY <2>3, <2>4, <2>5 DEF LoopTypes, fixed, callVars
  <2>. QED BY <2>7, <2>8
<1>6. CASE Record
  <2>1. UNCHANGED <<fixed, cancelled, callVars, apiVars, readerVars, chan, got>>
    BY <1>6 DEF Record
  <2>2. phase' \in {"request", "ended"} /\ outcome' \in {outcome, "canceled", "completed", "exhausted"}
    BY <1>6 DEF Record, End
  <2>3. history' \in Seq(MessageType)
    BY <1>6, RecordedType DEF Record, LoopTypes
  <2>4. turn' \in 0 .. MaxTurns /\ (phase' # "ended" => turn' < MaxTurns)
    <3>1. CASE cancelled
      BY <1>6, <3>1 DEF Record, End, LoopTypes
    <3>2. CASE ~cancelled
      <4>1. turn < MaxTurns /\ turn' = turn + 1 /\ (phase' = "ended" \/ turn + 1 # MaxTurns)
        BY <1>6, <3>2 DEF Record, End, LoopTypes
      <4>. QED BY <4>1, StreamAssumption DEF LoopTypes
    <3>. QED BY <3>1, <3>2
  <2>. QED BY <2>1, <2>2, <2>3, <2>4 DEF LoopTypes, ReaderTypes, fixed, callVars, apiVars, readerVars
<1>. QED BY <1>1, <1>2, <1>3, <1>4, <1>5, <1>6 DEF LoopStep

\* So does every step.
LEMMA TypeStep == ASSUME TypeInv, [Next]_vars PROVE TypeInv'
<1>1. ReaderTypes /\ LoopTypes
  BY TypeParts
<1>2. CASE LoopStep \/ ReaderStep
  <2>1. ReaderTypes' /\ LoopTypes'
    BY <1>1, <1>2, LoopKeepsTypes, ReaderKeepsTypes
  <2>. QED BY <2>1, TypeParts, PTL
<1>3. CASE Cancel \/ UNCHANGED vars
  <2>1. /\ UNCHANGED <<kind, wrapped, keyed, phase, outcome, attempt, history, turn, wire, sent, got>>
        /\ UNCHANGED <<arriving, broken, fetched, pos, reader, rd, chan, body>>
        /\ cancelled' \in {cancelled, TRUE}
    BY <1>3 DEF Cancel, vars, fixed, callVars, apiVars, readerVars, loopVars
  <2>2. ReaderTypes'
    BY <1>1, <2>1 DEF ReaderTypes
  <2>3. LoopTypes'
    BY <1>1, <2>1 DEF LoopTypes
  <2>. QED BY <2>2, <2>3, TypeParts, PTL
<1>. QED BY <1>2, <1>3 DEF Next

\* The variables keep their types: the loop, its requests, the reader and the
\* channel, whose capacity is never exceeded.
THEOREM TypeCorrect == Spec => []TypeOK
<1>1. TypeInv => TypeOK
  BY DEF TypeInv
<1>. QED BY <1>1, InitTypes, TypeStep, PTL DEF Spec

(***************************************************************************)
(* What sequences of chunks and lines say.                                 *)
(***************************************************************************)
\* A function applied to every element of a sequence.
Mapped(s, g) == [i \in DOMAIN s |-> g[s[i]]]

IsMapped(m, s, g, U) ==
  m \in Seq(U) /\ Len(m) = Len(s) /\ \A i \in 1 .. Len(s) : m[i] = g[s[i]]

\* A function applied to a sequence gives one as long.
LEMMA MappedType ==
  ASSUME NEW T, NEW U, NEW g \in [T -> U], NEW s \in Seq(T)
  PROVE  IsMapped(Mapped(s, g), s, g, U)
<1>1. DOMAIN s = 1 .. Len(s) /\ Len(s) \in Nat /\ \A i \in 1 .. Len(s) : s[i] \in T
  OBVIOUS
<1>2. Mapped(s, g) \in [1 .. Len(s) -> U]
  BY <1>1 DEF Mapped
<1>. QED BY <1>1, <1>2 DEF Mapped, IsMapped

\* An element more.
LEMMA MappedAppend ==
  ASSUME NEW T, NEW U, NEW g \in [T -> U], NEW s \in Seq(T), NEW x \in T
  PROVE  Mapped(Append(s, x), g) = Append(Mapped(s, g), g[x])
<1>. DEFINE a == Append(s, x)
            b == Mapped(s, g)
            c == Mapped(a, g)
            d == Append(b, g[x])
<1>1. /\ a \in Seq(T) /\ Len(a) = Len(s) + 1 /\ a[Len(s) + 1] = x
      /\ \A i \in 1 .. Len(s) : a[i] = s[i]
  BY AppendProperties
<1>2. IsMapped(b, s, g, U)
  BY MappedType
<1>. HIDE DEF a, b
<1>3. IsMapped(c, a, g, U)
  BY <1>1, MappedType
<1>4. g[x] \in U
  OBVIOUS
<1>5. d \in Seq(U) /\ Len(d) = Len(b) + 1 /\ d[Len(b) + 1] = g[x] /\ \A i \in 1 .. Len(b) : d[i] = b[i]
  BY <1>2, <1>4, AppendProperties DEF IsMapped
<1>. HIDE DEF c, d
<1>6. Len(c) = Len(d) /\ Len(s) \in Nat
  BY <1>1, <1>2, <1>3, <1>5 DEF IsMapped
<1>7. ASSUME NEW i \in 1 .. Len(c) PROVE c[i] = d[i]
  <2>1. i \in 1 .. Len(s) \/ i = Len(s) + 1
    BY <1>1, <1>3, <1>6 DEF IsMapped
  <2>2. CASE i \in 1 .. Len(s)
    BY <1>1, <1>2, <1>3, <1>5, <1>6, <2>2 DEF IsMapped
  <2>3. CASE i = Len(s) + 1
    BY <1>1, <1>2, <1>3, <1>5, <1>6, <2>3 DEF IsMapped
  <2>. QED BY <2>1, <2>2, <2>3
<1>8. c = d
  BY <1>3, <1>5, <1>6, <1>7, SeqEqual DEF IsMapped
<1>. QED BY <1>8 DEF a, b, c, d

\* One sequence after another.
LEMMA MappedConcat ==
  ASSUME NEW T, NEW U, NEW g \in [T -> U], NEW s \in Seq(T), NEW t \in Seq(T)
  PROVE  Mapped(s \o t, g) = Mapped(s, g) \o Mapped(t, g)
<1>. DEFINE a == s \o t
            b == Mapped(s, g)
            e == Mapped(t, g)
            c == Mapped(a, g)
            d == b \o e
<1>1. /\ a \in Seq(T) /\ Len(a) = Len(s) + Len(t)
      /\ \A i \in 1 .. Len(s) + Len(t) : a[i] = IF i <= Len(s) THEN s[i] ELSE t[i - Len(s)]
  BY ConcatProperties
<1>2. IsMapped(b, s, g, U)
  BY MappedType
<1>3. IsMapped(e, t, g, U)
  BY MappedType
<1>. HIDE DEF a, b, e
<1>4. IsMapped(c, a, g, U)
  BY <1>1, MappedType
<1>5. /\ d \in Seq(U) /\ Len(d) = Len(b) + Len(e)
      /\ \A i \in 1 .. Len(b) + Len(e) : d[i] = IF i <= Len(b) THEN b[i] ELSE e[i - Len(b)]
  BY <1>2, <1>3, ConcatProperties DEF IsMapped
<1>. HIDE DEF c, d
<1>6. Len(c) = Len(s) + Len(t) /\ Len(d) = Len(s) + Len(t) /\ Len(s) \in Nat /\ Len(t) \in Nat
  BY <1>1, <1>2, <1>3, <1>4, <1>5 DEF IsMapped
<1>7. ASSUME NEW i \in 1 .. Len(s) + Len(t) PROVE c[i] = d[i]
  <2>1. c[i] = g[a[i]]
    BY <1>1, <1>4 DEF IsMapped
  <2>2. CASE i <= Len(s)
    <3>1. i \in 1 .. Len(s)
      BY <1>6, <2>2
    <3>2. a[i] = s[i] /\ d[i] = b[i] /\ b[i] = g[s[i]]
      BY <1>1, <1>2, <1>3, <1>5, <2>2, <3>1 DEF IsMapped
    <3>. QED BY <2>1, <3>2
  <2>3. CASE ~(i <= Len(s))
    <3>1. i - Len(s) \in 1 .. Len(t)
      BY <1>6, <2>3
    <3>2. a[i] = t[i - Len(s)] /\ d[i] = e[i - Len(s)] /\ e[i - Len(s)] = g[t[i - Len(s)]]
      BY <1>1, <1>2, <1>3, <1>5, <2>3, <3>1 DEF IsMapped
    <3>. QED BY <2>1, <3>2
  <2>. QED BY <2>2, <2>3
<1>8. c = d
  BY <1>4, <1>5, <1>6, <1>7, SeqEqual DEF IsMapped
<1>. QED BY <1>8 DEF a, b, c, d, e

-----------------------------------------------------------------------------
\* The texts and the calls that a sequence of chunks brings to the loop.
TextChunks == {c \in ChunkType : c.t = "text"}
CallChunks == {c \in ChunkType : c.t = "call"}
NumberOf == [c \in ChunkType |-> c.n]
CallOf == [c \in ChunkType |-> c.call]
TextsIn(s) == Mapped(Kept(s, TextChunks), NumberOf)
CallsIn(s) == Mapped(Kept(s, CallChunks), CallOf)

\* The functions are what their names say.
LEMMA ChunkFields ==
  /\ NumberOf \in [ChunkType -> Nat] /\ CallOf \in [ChunkType -> CallType]
  /\ \A c \in ChunkType : NumberOf[c] = c.n /\ CallOf[c] = c.call
BY DEF NumberOf, CallOf, ChunkType

\* What is kept of a sequence is one of the same elements.
LEMMA KeptOf ==
  ASSUME NEW T, NEW s \in Seq(T), NEW S
  PROVE  Kept(s, S) \in Seq(T)
<1>1. T \cap S \subseteq T
  OBVIOUS
<1>. QED BY <1>1, KeptType, SeqMonotonic

\* The functions of a chunk more, and of one sequence after another.
LEMMA NumbersAppend ==
  ASSUME NEW s \in Seq(ChunkType), NEW c \in ChunkType
  PROVE  Mapped(Append(s, c), NumberOf) = Append(Mapped(s, NumberOf), NumberOf[c])
<1>1. NumberOf \in [ChunkType -> Nat]
  BY ChunkFields
<1>. QED BY <1>1, MappedAppend

\* ... of one sequence after another.
LEMMA NumbersConcat ==
  ASSUME NEW s \in Seq(ChunkType), NEW t \in Seq(ChunkType)
  PROVE  Mapped(s \o t, NumberOf) = Mapped(s, NumberOf) \o Mapped(t, NumberOf)
<1>1. NumberOf \in [ChunkType -> Nat]
  BY ChunkFields
<1>. QED BY <1>1, MappedConcat

\* The calls likewise.
LEMMA CallOfAppend ==
  ASSUME NEW s \in Seq(ChunkType), NEW c \in ChunkType
  PROVE  Mapped(Append(s, c), CallOf) = Append(Mapped(s, CallOf), CallOf[c])
<1>1. CallOf \in [ChunkType -> CallType]
  BY ChunkFields
<1>. QED BY <1>1, MappedAppend

\* ... of one sequence after another.
LEMMA CallsConcat ==
  ASSUME NEW s \in Seq(ChunkType), NEW t \in Seq(ChunkType)
  PROVE  Mapped(s \o t, CallOf) = Mapped(s, CallOf) \o Mapped(t, CallOf)
<1>1. CallOf \in [ChunkType -> CallType]
  BY ChunkFields
<1>. QED BY <1>1, MappedConcat

\* What they are of no chunk, of one more, and of one sequence after another.
LEMMA InType ==
  ASSUME NEW s \in Seq(ChunkType)
  PROVE  TextsIn(s) \in Seq(Nat) /\ CallsIn(s) \in Seq(CallType)
<1>1. Kept(s, TextChunks) \in Seq(ChunkType) /\ Kept(s, CallChunks) \in Seq(ChunkType)
  BY KeptOf
<1>2. TextsIn(s) \in Seq(Nat)
  BY <1>1, ChunkFields, MappedType DEF TextsIn, IsMapped
<1>3. CallsIn(s) \in Seq(CallType)
  BY <1>1, ChunkFields, MappedType DEF CallsIn, IsMapped
<1>. QED BY <1>2, <1>3

\* A chunk more.
LEMMA InAppend ==
  ASSUME NEW s \in Seq(ChunkType), NEW c \in ChunkType
  PROVE  /\ TextsIn(Append(s, c)) = IF c.t = "text" THEN Append(TextsIn(s), c.n) ELSE TextsIn(s)
         /\ CallsIn(Append(s, c)) = IF c.t = "call" THEN Append(CallsIn(s), c.call) ELSE CallsIn(s)
<1>1. Kept(s, TextChunks) \in Seq(ChunkType) /\ Kept(s, CallChunks) \in Seq(ChunkType)
  BY KeptOf
<1>2. /\ Mapped(Append(Kept(s, TextChunks), c), NumberOf) = Append(TextsIn(s), c.n)
      /\ Mapped(Append(Kept(s, CallChunks), c), CallOf) = Append(CallsIn(s), c.call)
  <2>. DEFINE texts == Kept(s, TextChunks)
              calls == Kept(s, CallChunks)
  <2>0. texts \in Seq(ChunkType) /\ calls \in Seq(ChunkType)
    BY <1>1
  <2>. HIDE DEF texts, calls
  <2>1. Mapped(Append(texts, c), NumberOf) = Append(Mapped(texts, NumberOf), NumberOf[c])
    BY <2>0, NumbersAppend
  <2>2. Mapped(Append(calls, c), CallOf) = Append(Mapped(calls, CallOf), CallOf[c])
    BY <2>0, CallOfAppend
  <2>. QED BY <2>1, <2>2, ChunkFields DEF TextsIn, CallsIn, texts, calls
<1>3. /\ Kept(Append(s, c), TextChunks) = IF c \in TextChunks THEN Append(Kept(s, TextChunks), c) ELSE Kept(s, TextChunks)
      /\ Kept(Append(s, c), CallChunks) = IF c \in CallChunks THEN Append(Kept(s, CallChunks), c) ELSE Kept(s, CallChunks)
  BY KeptAppend
<1>4. (c \in TextChunks <=> c.t = "text") /\ (c \in CallChunks <=> c.t = "call")
  BY DEF TextChunks, CallChunks
<1>. QED BY <1>2, <1>3, <1>4 DEF TextsIn, CallsIn

\* One sequence of chunks after another.
LEMMA InConcat ==
  ASSUME NEW s \in Seq(ChunkType), NEW t \in Seq(ChunkType)
  PROVE  /\ TextsIn(s \o t) = TextsIn(s) \o TextsIn(t)
         /\ CallsIn(s \o t) = CallsIn(s) \o CallsIn(t)
<1>1. /\ Kept(s, TextChunks) \in Seq(ChunkType) /\ Kept(s, CallChunks) \in Seq(ChunkType)
      /\ Kept(t, TextChunks) \in Seq(ChunkType) /\ Kept(t, CallChunks) \in Seq(ChunkType)
  BY KeptOf
<1>2. TextsIn(s \o t) = TextsIn(s) \o TextsIn(t)
  <2>1. Kept(s \o t, TextChunks) = Kept(s, TextChunks) \o Kept(t, TextChunks)
    BY KeptConcat
  <2>2. Mapped(Kept(s, TextChunks) \o Kept(t, TextChunks), NumberOf)
          = Mapped(Kept(s, TextChunks), NumberOf) \o Mapped(Kept(t, TextChunks), NumberOf)
    BY <1>1, NumbersConcat
  <2>. QED BY <2>1, <2>2 DEF TextsIn
<1>3. CallsIn(s \o t) = CallsIn(s) \o CallsIn(t)
  <2>1. Kept(s \o t, CallChunks) = Kept(s, CallChunks) \o Kept(t, CallChunks)
    BY KeptConcat
  <2>2. Mapped(Kept(s, CallChunks) \o Kept(t, CallChunks), CallOf)
          = Mapped(Kept(s, CallChunks), CallOf) \o Mapped(Kept(t, CallChunks), CallOf)
    BY <1>1, CallsConcat
  <2>. QED BY <2>1, <2>2 DEF CallsIn
<1>. QED BY <1>2, <1>3

\* A sequence that has chunks of calls only.
LEMMA InCalls ==
  ASSUME NEW s \in Seq(ChunkType), \A i \in 1 .. Len(s) : s[i].t = "call"
  PROVE  /\ TextsIn(s) = <<>>
         /\ CallsIn(s) \in Seq(CallType) /\ Len(CallsIn(s)) = Len(s)
         /\ \A i \in 1 .. Len(s) : CallsIn(s)[i] = s[i].call
<1>1. \A i \in 1 .. Len(s) : s[i] \in ChunkType
  OBVIOUS
<1>2. \A i \in 1 .. Len(s) : s[i] \in CallChunks /\ s[i] \notin TextChunks
  BY <1>1 DEF CallChunks, TextChunks
<1>3. Kept(s, CallChunks) = s
  BY <1>2, KeptAll
<1>4. Kept(s, TextChunks) = <<>>
  BY <1>2, KeptNone
<1>5. CallsIn(s) = Mapped(s, CallOf)
  BY <1>3 DEF CallsIn
<1>6. TextsIn(s) = <<>>
  BY <1>4 DEF TextsIn, Mapped
<1>7. /\ Mapped(s, CallOf) \in Seq(CallType) /\ Len(Mapped(s, CallOf)) = Len(s)
      /\ \A i \in 1 .. Len(s) : Mapped(s, CallOf)[i] = CallOf[s[i]]
  <2>1. IsMapped(Mapped(s, CallOf), s, CallOf, CallType)
    BY ChunkFields, MappedType
  <2>. QED BY <2>1 DEF IsMapped
<1>. QED BY <1>1, <1>5, <1>6, <1>7, ChunkFields

\* No chunk brings anything.
LEMMA InNone == TextsIn(<<>>) = <<>> /\ CallsIn(<<>>) = <<>>
<1>1. PICK s \in Seq(ChunkType) : s = <<>>
  <2>1. <<>> \in Seq(ChunkType)
    BY EmptySeq
  <2>. QED BY <2>1, Zenon
<1>2. Len(s) = 0
  BY <1>1
<1>3. \A i \in 1 .. Len(s) : s[i].t = "call"
  BY <1>2
<1>4. TextsIn(s) = <<>> /\ CallsIn(s) \in Seq(CallType) /\ Len(CallsIn(s)) = 0
  BY <1>2, <1>3, InCalls
<1>5. CallsIn(s) = <<>>
  BY <1>4
<1>. QED BY <1>1, <1>4, <1>5

\* calls has the call of each p of S once.
Walks(calls, S) ==
  {calls[i] : i \in DOMAIN calls} = {p.call : p \in S} /\ Len(calls) = Cardinality(S)

\* An order in which Go may go through a map has every element once.
LEMMA WalkFacts ==
  ASSUME NEW S, IsFiniteSet(S), NEW walk \in SetToSeqs(S)
  PROVE  /\ walk \in [1 .. Cardinality(S) -> S] /\ Cardinality(S) \in Nat
         /\ \A p \in S : \E i \in 1 .. Cardinality(S) : walk[i] = p
<1>1. Cardinality(S) \in Nat
  BY FS_CardinalityType
<1>. DEFINE D == 1 .. Cardinality(S)
<1>2. walk \in [D -> S] /\ \A i, j \in D : i # j => walk[i] # walk[j]
  BY DEF SetToSeqs
<1>3. IsFiniteSet(D) /\ Cardinality(D) = Cardinality(S)
  BY <1>1, FS_Interval
<1>4. walk \in Injection(D, S)
  BY <1>2 DEF Injection, IsInjective
<1>. HIDE DEF D
<1>5. walk \in Surjection(D, S)
  BY <1>3, <1>4, FS_Injection
<1>6. \A p \in S : \E i \in D : walk[i] = p
  BY <1>5 DEF Surjection
<1>. QED BY <1>1, <1>2, <1>6 DEF D

\* A flush sends each call that has a name, once.
LEMMA FlushEmits ==
  ASSUME NEW r \in Readers, NEW f \in Flush(r)
  PROVE  \E new \in Seq(ChunkType) :
           f.out = r.out \o new /\ TextsIn(new) = <<>> /\ Walks(CallsIn(new), Named(r.pending))
<1>1. r \in ReaderType /\ IsFiniteSet(r.pending) /\ r.pending \subseteq [idx : Nat, call : CallType]
  BY DEF Readers, ReaderType
<1>2. PICK walk \in SetToSeqs(Named(r.pending)), new \in Seq(ChunkType) :
        new = [i \in DOMAIN walk |-> CallChunk(walk[i].call)] /\ f.out = r.out \o new
  BY <1>1, FlushFacts
<1>. DEFINE S == Named(r.pending)
            n == Cardinality(S)
<1>3. IsFiniteSet(S) /\ S \subseteq r.pending
  <2>1. S \in SUBSET r.pending
    BY DEF Named
  <2>. HIDE DEF S
  <2>. QED BY <1>1, <2>1, FS_Subset
<1>4. walk \in SetToSeqs(S)
  OBVIOUS
<1>. HIDE DEF S
<1>5. /\ walk \in [1 .. n -> S] /\ n \in Nat
      /\ \A p \in S : \E i \in 1 .. n : walk[i] = p
  BY <1>3, <1>4, WalkFacts
<1>. HIDE DEF n
<1>6. DOMAIN new = 1 .. n /\ Len(new) = n /\ \A i \in 1 .. n : new[i] = CallChunk(walk[i].call)
  BY <1>2, <1>5
<1>7. \A i \in 1 .. n : new[i].t = "call" /\ new[i].call = walk[i].call
  BY <1>6 DEF CallChunk, Chunk
<1>8. /\ TextsIn(new) = <<>>
      /\ CallsIn(new) \in Seq(CallType) /\ Len(CallsIn(new)) = Len(new)
      /\ \A i \in 1 .. Len(new) : CallsIn(new)[i] = new[i].call
  <2>1. \A i \in 1 .. Len(new) : new[i].t = "call"
    BY <1>6, <1>7
  <2>. QED BY <2>1, InCalls
<1>9. DOMAIN CallsIn(new) = 1 .. n /\ \A i \in 1 .. n : CallsIn(new)[i] = walk[i].call
  BY <1>6, <1>7, <1>8
<1>10. {CallsIn(new)[i] : i \in DOMAIN CallsIn(new)} = {p.call : p \in S}
  <2>. DEFINE calls == CallsIn(new)
  <2>1. DOMAIN calls = 1 .. n /\ \A i \in 1 .. n : calls[i] = walk[i].call
    BY <1>9
  <2>. HIDE DEF calls
  <2>2. ASSUME NEW i \in 1 .. n PROVE calls[i] \in {p.call : p \in S}
    <3>1. walk[i] \in S
      BY <1>5
    <3>. QED BY <2>1, <3>1
  <2>3. ASSUME NEW p \in S PROVE p.call \in {calls[i] : i \in 1 .. n}
    BY <1>5, <2>1
  <2>4. {calls[i] : i \in 1 .. n} = {p.call : p \in S}
    BY <2>2, <2>3, Zenon
  <2>. QED BY <2>1, <2>4 DEF calls
<1>11. Walks(CallsIn(new), S)
  BY <1>6, <1>8, <1>10 DEF Walks, n
<1>. QED BY <1>2, <1>8, <1>11 DEF S

-----------------------------------------------------------------------------
\* What the lines say, line by line.
TextLines == {l \in LineType : l.t = "text" /\ l.n > 0}
LineNumber == [l \in LineType |-> l.n]

\* Texts by Kept and Mapped.
LEMMA TextsMapped ==
  ASSUME NEW s \in Seq(LineType)
  PROVE  Texts(s) = Mapped(Kept(s, TextLines), LineNumber)
<1>1. PICK t \in Seq(LineType) : t = Kept(s, TextLines)
  BY KeptOf
<1>2. Texts(s) = [i \in DOMAIN t |-> t[i].n]
  BY <1>1 DEF Texts, TextLines
<1>3. \A i \in DOMAIN t : t[i].n = LineNumber[t[i]]
  BY DEF LineNumber
<1>. QED BY <1>1, <1>2, <1>3 DEF Mapped

\* They are numbers.
LEMMA TextsType ==
  ASSUME NEW s \in Seq(LineType)
  PROVE  Texts(s) \in Seq(Nat)
<1>1. PICK t \in Seq(LineType) : t = Kept(s, TextLines)
  BY KeptOf
<1>2. LineNumber \in [LineType -> Nat]
  BY DEF LineNumber, LineType
<1>3. IsMapped(Mapped(t, LineNumber), t, LineNumber, Nat)
  BY <1>2, MappedType
<1>. QED BY <1>1, <1>3, TextsMapped DEF IsMapped

\* A line more.
LEMMA TextsAppend ==
  ASSUME NEW s \in Seq(LineType), NEW l \in LineType
  PROVE  Texts(Append(s, l)) = IF l.t = "text" /\ l.n > 0 THEN Append(Texts(s), l.n) ELSE Texts(s)
<1>1. PICK t \in Seq(LineType) : t = Kept(s, TextLines)
  BY KeptOf
<1>2. LineNumber \in [LineType -> Nat] /\ LineNumber[l] = l.n
  BY DEF LineNumber, LineType
<1>3. Mapped(Append(t, l), LineNumber) = Append(Mapped(t, LineNumber), LineNumber[l])
  BY <1>2, MappedAppend
<1>4. Kept(Append(s, l), TextLines) = IF l \in TextLines THEN Append(t, l) ELSE t
  BY <1>1, KeptAppend
<1>5. l \in TextLines <=> l.t = "text" /\ l.n > 0
  BY DEF TextLines
<1>6. Append(s, l) \in Seq(LineType)
  OBVIOUS
<1>7. Texts(Append(s, l)) = Mapped(Kept(Append(s, l), TextLines), LineNumber)
  BY <1>6, TextsMapped
<1>8. Texts(s) = Mapped(t, LineNumber)
  BY <1>1, TextsMapped
<1>. QED BY <1>2, <1>3, <1>4, <1>5, <1>7, <1>8

\* No line says anything.
LEMMA TextsNone == Texts(<<>>) = <<>>
<1>1. PICK s \in Seq(LineType) : s = <<>>
  <2>1. <<>> \in Seq(LineType)
    BY EmptySeq
  <2>. QED BY <2>1, Zenon
<1>2. Kept(s, TextLines) = <<>>
  <2>1. \A i \in 1 .. Len(s) : s[i] \notin TextLines
    BY <1>1
  <2>. QED BY <2>1, KeptNone
<1>3. Texts(s) = Mapped(<<>>, LineNumber)
  BY <1>2, TextsMapped
<1>4. Mapped(<<>>, LineNumber) = <<>>
  BY DEF Mapped
<1>. QED BY <1>1, <1>3, <1>4

Opens(l) == l.t = "tool" /\ l.name # None

\* A line more opens a call or not.
LEMMA OpenedAppend ==
  ASSUME NEW s \in Seq(LineType), NEW l \in LineType
  PROVE  /\ Opened(Append(s, l)) = IF Opens(l) THEN Opened(s) \cup {Len(s) + 1} ELSE Opened(s)
         /\ IsFiniteSet(Opened(s)) /\ Cardinality(Opened(s)) \in Nat
         /\ Cardinality(Opened(Append(s, l)))
              = IF Opens(l) THEN Cardinality(Opened(s)) + 1 ELSE Cardinality(Opened(s))
<1>. DEFINE a == Append(s, l)
<1>1. /\ DOMAIN a = 1 .. Len(s) + 1 /\ DOMAIN s = 1 .. Len(s) /\ Len(s) \in Nat
      /\ a[Len(s) + 1] = l /\ \A i \in 1 .. Len(s) : a[i] = s[i]
  OBVIOUS
<1>. HIDE DEF a
<1>2. Opened(a) = IF Opens(l) THEN Opened(s) \cup {Len(s) + 1} ELSE Opened(s)
  <2>1. \A i : i \in 1 .. Len(s) + 1 <=> i \in 1 .. Len(s) \/ i = Len(s) + 1
    BY <1>1
  <2>. QED BY <1>1, <2>1 DEF Opened, Opens
<1>3. IsFiniteSet(Opened(s)) /\ Cardinality(Opened(s)) \in Nat /\ Len(s) + 1 \notin Opened(s)
  <2>1. Opened(s) \in SUBSET (1 .. Len(s)) /\ IsFiniteSet(1 .. Len(s))
    BY <1>1, FS_Interval DEF Opened
  <2>2. IsFiniteSet(Opened(s))
    BY <2>1, FS_Subset
  <2>. QED BY <1>1, <2>1, <2>2, FS_CardinalityType
<1>4. Cardinality(Opened(s) \cup {Len(s) + 1}) = Cardinality(Opened(s)) + 1
  BY <1>3, FS_AddElement
<1>. QED BY <1>2, <1>3, <1>4 DEF a

(***************************************************************************)
(* The calls that an OpenAI reader gathers.                                *)
(***************************************************************************)
OpenAIKind(k) == k \notin {"claude", "gemini"}

\* What OpenAI's readers have gathered of the lines they have taken.
GatheredAt(s, i) ==
  [idx |-> s[i].idx, call |-> ToolCall(s[i].id, s[i].name, Pieces(s, s[i].idx))]
Gathered(s) == {GatheredAt(s, i) : i \in Opened(s)}

\* A prefix of a reply is as well-formed as the reply.
LEMMA WellFormedPrefix ==
  ASSUME NEW k, NEW s \in Seq(LineType), WellFormed(k, s), NEW n \in 0 .. Len(s)
  PROVE  WellFormed(k, SubSeq(s, 1, n))
<1>. DEFINE t == SubSeq(s, 1, n)
<1>1. t \in Seq(LineType) /\ Len(t) = n /\ DOMAIN t = 1 .. n /\ DOMAIN s = 1 .. Len(s) /\ Len(s) \in Nat
      /\ \A i \in 1 .. n : t[i] = s[i]
  OBVIOUS
<1>. HIDE DEF t
<1>2. \A i \in 1 .. n : i \in 1 .. Len(s) /\ \A j \in 1 .. i - 1 : j \in 1 .. n
  BY <1>1
<1>3. \A i \in DOMAIN t : t[i].t = "done" => i = Len(t)
  BY <1>1, <1>2 DEF WellFormed
<1>4. k = "gemini" => \A i \in DOMAIN t : t[i].t = "tool" => t[i].name # None
  BY <1>1, <1>2 DEF WellFormed
<1>5. ASSUME k \notin {"claude", "gemini"}, NEW i \in DOMAIN t, t[i].t = "tool"
      PROVE  LET first == \A j \in 1 .. i - 1 : t[j].t = "tool" => t[j].idx # t[i].idx
             IN /\ first <=> t[i].name # None
                /\ first <=> t[i].id # None
                /\ \A j \in 1 .. i - 1 : t[j].t # "finish"
  <2>1. i \in DOMAIN s /\ s[i] = t[i] /\ \A j \in 1 .. i - 1 : s[j] = t[j]
    BY <1>1, <1>2
  <2>2. LET first == \A j \in 1 .. i - 1 : s[j].t = "tool" => s[j].idx # s[i].idx
        IN /\ first <=> s[i].name # None
           /\ first <=> s[i].id # None
           /\ \A j \in 1 .. i - 1 : s[j].t # "finish"
    BY <1>5, <2>1, Zenon DEF WellFormed
  <2>. QED BY <2>1, <2>2
<1>. QED BY <1>3, <1>4, <1>5, Zenon DEF WellFormed, t

\* What WellFormed says of the last line, in OpenAI's format, if it is about a call.
First(s, idx) == \A j \in 1 .. Len(s) : s[j].t = "tool" => s[j].idx # idx

\* If it is, then it is the first of its call or not.
LEMMA LastTool ==
  ASSUME NEW k, OpenAIKind(k), NEW s \in Seq(LineType), NEW l \in LineType,
         WellFormed(k, Append(s, l)), l.t = "tool"
  PROVE  /\ First(s, l.idx) <=> l.name # None
         /\ First(s, l.idx) <=> l.id # None
         /\ \A j \in 1 .. Len(s) : s[j].t # "finish"
<1>. DEFINE a == Append(s, l)
            i == Len(s) + 1
<1>1. /\ DOMAIN a = 1 .. Len(s) + 1 /\ Len(s) \in Nat /\ i \in DOMAIN a /\ i - 1 = Len(s)
      /\ a[i] = l /\ \A j \in 1 .. Len(s) : a[j] = s[j]
  OBVIOUS
<1>. HIDE DEF a
<1>2. LET first == \A j \in 1 .. i - 1 : a[j].t = "tool" => a[j].idx # a[i].idx
      IN /\ first <=> a[i].name # None
         /\ first <=> a[i].id # None
         /\ \A j \in 1 .. i - 1 : a[j].t # "finish"
  <2>1. WellFormed(k, a)
    BY DEF a
  <2>. HIDE DEF i
  <2>. QED BY <1>1, <2>1, Zenon DEF WellFormed, OpenAIKind
<1>. HIDE DEF i
<1>. QED BY <1>1, <1>2 DEF First

\* The same of a line with an index i.
LEMMA ToolAt ==
  ASSUME NEW k, OpenAIKind(k), NEW s \in Seq(LineType), WellFormed(k, s),
         NEW i \in 1 .. Len(s), s[i].t = "tool"
  PROVE  /\ (\A j \in 1 .. i - 1 : s[j].t = "tool" => s[j].idx # s[i].idx) <=> s[i].name # None
         /\ (\A j \in 1 .. i - 1 : s[j].t = "tool" => s[j].idx # s[i].idx) <=> s[i].id # None
         /\ \A j \in 1 .. i - 1 : s[j].t # "finish"
<1>1. i \in DOMAIN s
  OBVIOUS
<1>. QED BY <1>1, Zenon DEF WellFormed, OpenAIKind

\* Each line about a call is about one that has been opened.
LEMMA OpenedFirst ==
  ASSUME NEW k, OpenAIKind(k), NEW s \in Seq(LineType), WellFormed(k, s),
         NEW j \in 1 .. Len(s), s[j].t = "tool"
  PROVE  \E i \in Opened(s) : s[i].idx = s[j].idx
<1>. DEFINE S == {i \in 1 .. Len(s) : s[i].t = "tool" /\ s[i].idx = s[j].idx}
<1>1. S \in SUBSET Nat /\ S # {}
  OBVIOUS
<1>2. PICK i \in S : \A m \in S : i <= m
  <2>. HIDE DEF S
  <2>. QED BY <1>1, LeastNatural
<1>3. \A m \in 1 .. i - 1 : s[m].t = "tool" => s[m].idx # s[i].idx
  <2>. SUFFICES ASSUME NEW m \in 1 .. i - 1, s[m].t = "tool", s[m].idx = s[i].idx PROVE FALSE
    OBVIOUS
  <2>1. m \in 1 .. Len(s) /\ ~(i <= m)
    BY <1>2
  <2>2. m \in S
    BY <1>2, <2>1
  <2>. QED BY <1>2, <2>1, <2>2
<1>4. i \in 1 .. Len(s) /\ s[i].t = "tool" /\ s[i].idx = s[j].idx
  BY <1>2
<1>5. s[i].name # None
  <2>1. (\A m \in 1 .. i - 1 : s[m].t = "tool" => s[m].idx # s[i].idx) <=> s[i].name # None
    BY <1>4, ToolAt
  <2>. QED BY <1>3, <2>1
<1>. QED BY <1>4, <1>5 DEF Opened

\* Two lines open two calls with two indices.
LEMMA OpenedApart ==
  ASSUME NEW k, OpenAIKind(k), NEW s \in Seq(LineType), WellFormed(k, s),
         NEW i \in Opened(s), NEW j \in Opened(s), s[i].idx = s[j].idx
  PROVE  i = j
<1>1. /\ i \in 1 .. Len(s) /\ j \in 1 .. Len(s) /\ s[i].t = "tool" /\ s[j].t = "tool"
      /\ s[i].name # None /\ s[j].name # None
  BY DEF Opened
<1>2. \A m \in 1 .. i - 1 : s[m].t = "tool" => s[m].idx # s[i].idx
  <2>1. (\A m \in 1 .. i - 1 : s[m].t = "tool" => s[m].idx # s[i].idx) <=> s[i].name # None
    BY <1>1, ToolAt
  <2>. QED BY <1>1, <2>1
<1>3. \A m \in 1 .. j - 1 : s[m].t = "tool" => s[m].idx # s[j].idx
  <2>1. (\A m \in 1 .. j - 1 : s[m].t = "tool" => s[m].idx # s[j].idx) <=> s[j].name # None
    BY <1>1, ToolAt
  <2>. QED BY <1>1, <2>1
<1>4. ~ (i < j) /\ ~ (j < i)
  <2>1. i < j => i \in 1 .. j - 1
    BY <1>1
  <2>2. j < i => j \in 1 .. i - 1
    BY <1>1
  <2>. QED BY <1>1, <1>2, <1>3, <2>1, <2>2
<1>. QED BY <1>1, <1>4

\* Of a line more, the calls gathered are as before or as Gather makes them.
LEMMA GatheredOther ==
  ASSUME NEW s \in Seq(LineType), NEW l \in LineType, l.t # "tool"
  PROVE  Gathered(Append(s, l)) = Gathered(s)
<1>. DEFINE a == Append(s, l)
<1>1. Opened(a) = Opened(s)
  BY OpenedAppend DEF Opens
<1>2. ASSUME NEW i \in Opened(s) PROVE GatheredAt(a, i) = GatheredAt(s, i)
  <2>1. a[i] = s[i]
    BY DEF Opened
  <2>2. Pieces(a, s[i].idx) = Pieces(s, s[i].idx) + Brings(l, s[i].idx)
    BY PiecesAppend
  <2>3. Brings(l, s[i].idx) = 0 /\ Pieces(s, s[i].idx) \in Nat
    BY PiecesType DEF Brings
  <2>. HIDE DEF a
  <2>. QED BY <2>1, <2>2, <2>3 DEF GatheredAt
<1>. HIDE DEF a
<1>3. Gathered(a) = Gathered(s)
  BY <1>1, <1>2 DEF Gathered
<1>. QED BY <1>3 DEF a

\* A line about a call does to the calls gathered what Gather does.
LEMMA GatheredTool ==
  ASSUME NEW k, OpenAIKind(k), NEW s \in Seq(LineType), NEW l \in LineType,
         WellFormed(k, s), WellFormed(k, Append(s, l)), l.t = "tool"
  PROVE  Gathered(Append(s, l)) = Gather(Gathered(s), l)
<1>. DEFINE a == Append(s, l)
            n == Len(s) + 1
<1>1. a[n] = l /\ \A i \in 1 .. Len(s) : a[i] = s[i]
  OBVIOUS
<1>2. \A idx : Pieces(a, idx) = Pieces(s, idx) + Brings(l, idx) /\ Pieces(s, idx) \in Nat
  BY PiecesAppend, PiecesType
<1>3. \A i \in Opened(s) : i \in 1 .. Len(s) /\ s[i].t = "tool" /\ s[i].name # None
  BY DEF Opened
<1>4. Opened(a) = IF Opens(l) THEN Opened(s) \cup {n} ELSE Opened(s)
  BY OpenedAppend
<1>5. /\ First(s, l.idx) <=> l.name # None
      /\ First(s, l.idx) <=> l.id # None
  BY LastTool
<1>. HIDE DEF a, n
<1>6. CASE First(s, l.idx)
  <2>1. ~ \E p \in Gathered(s) : p.idx = l.idx
    <3>. SUFFICES ASSUME NEW i \in Opened(s), GatheredAt(s, i).idx = l.idx PROVE FALSE
      BY DEF Gathered
    <3>. QED BY <1>3, <1>6 DEF First, GatheredAt
  <2>2. Gather(Gathered(s), l)
          = Gathered(s) \cup {[idx |-> l.idx, call |-> ToolCall(l.id, l.name, l.n)]}
    BY <2>1 DEF Gather
  <2>3. Opened(a) = Opened(s) \cup {n}
    BY <1>4, <1>5, <1>6 DEF Opens
  <2>4. ASSUME NEW i \in Opened(s) PROVE GatheredAt(a, i) = GatheredAt(s, i)
    <3>1. a[i] = s[i] /\ s[i].idx # l.idx
      BY <1>1, <1>3, <1>6 DEF First
    <3>2. Brings(l, s[i].idx) = 0
      BY <3>1 DEF Brings
    <3>3. Pieces(a, s[i].idx) = Pieces(s, s[i].idx)
      BY <1>2, <3>2
    <3>. QED BY <3>1, <3>3 DEF GatheredAt
  <2>5. GatheredAt(a, n) = [idx |-> l.idx, call |-> ToolCall(l.id, l.name, l.n)]
    <3>1. Pieces(s, l.idx) = 0
      BY <1>6, PiecesNone DEF First
    <3>2. Brings(l, l.idx) = l.n /\ l.n \in Nat
      BY DEF Brings, LineType
    <3>3. Pieces(a, l.idx) = l.n
      BY <1>2, <3>1, <3>2
    <3>. QED BY <1>1, <3>3 DEF GatheredAt
  <2>6. Gathered(a) = Gathered(s) \cup {GatheredAt(a, n)}
    BY <2>3, <2>4 DEF Gathered
  <2>. QED BY <2>2, <2>5, <2>6 DEF a
<1>7. CASE ~First(s, l.idx)
  <2>1. l.name = None /\ l.id = None
    BY <1>5, <1>7
  <2>2. Opened(a) = Opened(s)
    BY <1>4, <2>1 DEF Opens
  <2>3. \E p \in Gathered(s) : p.idx = l.idx
    <3>1. PICK j \in 1 .. Len(s) : s[j].t = "tool" /\ s[j].idx = l.idx
      BY <1>7 DEF First
    <3>2. PICK i \in Opened(s) : s[i].idx = s[j].idx
      BY <3>1, OpenedFirst
    <3>3. GatheredAt(s, i) \in Gathered(s) /\ GatheredAt(s, i).idx = l.idx
      BY <3>1, <3>2 DEF Gathered, GatheredAt
    <3>. QED BY <3>3
  <2>. DEFINE f(p) == IF p.idx # l.idx THEN p ELSE More(p, l)
  <2>4. Gather(Gathered(s), l) = {f(p) : p \in Gathered(s)}
    BY <2>3 DEF Gather, More
  <2>5. ASSUME NEW i \in Opened(s) PROVE f(GatheredAt(s, i)) = GatheredAt(a, i)
    <3>1. a[i] = s[i]
      BY <1>1, <1>3
    <3>2. CASE s[i].idx # l.idx
      <4>1. Brings(l, s[i].idx) = 0
        BY <3>2 DEF Brings
      <4>2. Pieces(a, s[i].idx) = Pieces(s, s[i].idx)
        BY <1>2, <4>1
      <4>. QED BY <3>1, <3>2, <4>2 DEF GatheredAt
    <3>3. CASE s[i].idx = l.idx
      <4>1. Brings(l, s[i].idx) = l.n
        BY <3>3 DEF Brings
      <4>2. Pieces(a, s[i].idx) = Pieces(s, s[i].idx) + l.n
        BY <1>2, <4>1
      <4>3. More(GatheredAt(s, i), l)
              = [idx |-> s[i].idx, call |-> ToolCall(s[i].id, s[i].name, Pieces(s, s[i].idx) + l.n)]
        BY <2>1 DEF More, GatheredAt, ToolCall
      <4>. QED BY <3>1, <3>3, <4>2, <4>3 DEF GatheredAt
    <3>. QED BY <3>2, <3>3
  <2>. HIDE DEF f
  <2>6. {f(p) : p \in Gathered(s)} = Gathered(a)
    <3>1. \A p \in Gathered(s) : f(p) \in Gathered(a)
      BY <2>2, <2>5 DEF Gathered
    <3>2. \A q \in Gathered(a) : \E p \in Gathered(s) : q = f(p)
      BY <2>2, <2>5 DEF Gathered
    <3>. QED BY <3>1, <3>2, Zenon
  <2>. QED BY <2>4, <2>6 DEF a
<1>. QED BY <1>6, <1>7

(***************************************************************************)
(* What each kind of reader has to send after a line.                      *)
(***************************************************************************)
\* calls has each call of the lines s once.
Reported(k, calls, s) ==
  {calls[i] : i \in DOMAIN calls} = Calls(k, s) /\ Len(calls) = Cardinality(Opened(s))

\* The calls gathered are those that the lines say.
LEMMA GatheredReported ==
  ASSUME NEW k, OpenAIKind(k), NEW s \in Seq(LineType), WellFormed(k, s),
         NEW calls, Walks(calls, Named(Gathered(s)))
  PROVE  Reported(k, calls, s)
<1>. DEFINE f == [i \in Opened(s) |-> GatheredAt(s, i)]
<1>1. f \in Surjection(Opened(s), Gathered(s))
  BY DEF Surjection, Gathered
<1>2. f \in Injection(Opened(s), Gathered(s))
  <2>1. f \in [Opened(s) -> Gathered(s)]
    BY DEF Gathered
  <2>2. ASSUME NEW i \in Opened(s), NEW j \in Opened(s), f[i] = f[j] PROVE i = j
    <3>1. s[i].idx = s[j].idx
      BY <2>2 DEF GatheredAt
    <3>. QED BY <3>1, OpenedApart
  <2>. QED BY <2>1, <2>2 DEF Injection, IsInjective
<1>3. IsFiniteSet(Opened(s))
  <2>1. Opened(s) \in SUBSET (1 .. Len(s)) /\ IsFiniteSet(1 .. Len(s))
    BY FS_Interval DEF Opened
  <2>. QED BY <2>1, FS_Subset
<1>. HIDE DEF f
<1>4. Cardinality(Gathered(s)) = Cardinality(Opened(s))
  BY <1>1, <1>2, <1>3, FS_Surjection
<1>5. Named(Gathered(s)) = Gathered(s)
  <2>1. \A i \in Opened(s) : GatheredAt(s, i).call.name # None
    BY DEF Opened, GatheredAt, ToolCall
  <2>. QED BY <2>1 DEF Named, Gathered
<1>6. {p.call : p \in Gathered(s)} = Calls(k, s)
  <2>1. \A i \in Opened(s) : GatheredAt(s, i).call = CallAt(k, s, i)
    BY DEF GatheredAt, CallAt, OpenAIKind
  <2>. QED BY <2>1 DEF Gathered, Calls
<1>. QED BY <1>4, <1>5, <1>6 DEF Walks, Reported

\* The call that a line of Claude or Gemini opens.
NewCall(k, l) ==
  IF k = "claude" THEN ToolCall(l.id, l.name, 0) ELSE ToolCall(MadeUpID(l.name), l.name, l.n)

\* A line more of Claude or Gemini.
LEMMA CallsAppend ==
  ASSUME NEW k, ~OpenAIKind(k), NEW s \in Seq(LineType), NEW l \in LineType
  PROVE  Calls(k, Append(s, l)) = IF Opens(l) THEN Calls(k, s) \cup {NewCall(k, l)} ELSE Calls(k, s)
<1>. DEFINE a == Append(s, l)
            n == Len(s) + 1
<1>1. a[n] = l /\ \A i \in 1 .. Len(s) : a[i] = s[i]
  OBVIOUS
<1>2. Opened(a) = IF Opens(l) THEN Opened(s) \cup {n} ELSE Opened(s)
  BY OpenedAppend
<1>. HIDE DEF a, n
<1>3. ASSUME NEW i \in Opened(s) PROVE CallAt(k, a, i) = CallAt(k, s, i)
  <2>1. a[i] = s[i]
    BY <1>1 DEF Opened
  <2>. QED BY <2>1 DEF CallAt, OpenAIKind
<1>4. CallAt(k, a, n) = NewCall(k, l)
  BY <1>1 DEF CallAt, NewCall, OpenAIKind
<1>5. Calls(k, a) = IF Opens(l) THEN Calls(k, s) \cup {NewCall(k, l)} ELSE Calls(k, s)
  BY <1>2, <1>3, <1>4 DEF Calls
<1>. QED BY <1>5 DEF a

\* A line of OpenAI's format that is not about a call.
LEMMA CallsOther ==
  ASSUME NEW k, OpenAIKind(k), NEW s \in Seq(LineType), NEW l \in LineType, l.t # "tool"
  PROVE  Calls(k, Append(s, l)) = Calls(k, s) /\ Opened(Append(s, l)) = Opened(s)
<1>. DEFINE a == Append(s, l)
<1>1. Opened(a) = Opened(s)
  BY OpenedAppend DEF Opens
<1>2. ASSUME NEW i \in Opened(s) PROVE CallAt(k, a, i) = CallAt(k, s, i)
  <2>1. a[i] = s[i]
    BY DEF Opened
  <2>2. Pieces(a, s[i].idx) = Pieces(s, s[i].idx) + Brings(l, s[i].idx)
    BY PiecesAppend
  <2>3. Brings(l, s[i].idx) = 0 /\ Pieces(s, s[i].idx) \in Nat
    BY PiecesType DEF Brings
  <2>. HIDE DEF a
  <2>. QED BY <2>1, <2>2, <2>3 DEF CallAt, OpenAIKind
<1>. HIDE DEF a
<1>3. Calls(k, a) = Calls(k, s)
  BY <1>1, <1>2 DEF Calls
<1>. QED BY <1>1, <1>3 DEF a

\* What a reader that has nothing left to send has to send after a line, what it
\* has gathered, and whether it goes on.
LineText(l) == IF l.t = "text" /\ l.n > 0 THEN <<l.n>> ELSE <<>>

\* What one chunk brings.
LEMMA OneChunk ==
  ASSUME NEW c \in ChunkType, NEW q, q = Append(<<>>, c)
  PROVE  /\ q \in Seq(ChunkType)
         /\ TextsIn(q) = IF c.t = "text" THEN <<c.n>> ELSE <<>>
         /\ CallsIn(q) = IF c.t = "call" THEN <<c.call>> ELSE <<>>
<1>1. PICK e \in Seq(ChunkType) : e = <<>>
  <2>1. <<>> \in Seq(ChunkType)
    BY EmptySeq
  <2>. QED BY <2>1, Zenon
<1>2. q = Append(e, c)
  BY <1>1
<1>3. /\ TextsIn(q) = IF c.t = "text" THEN Append(TextsIn(e), c.n) ELSE TextsIn(e)
      /\ CallsIn(q) = IF c.t = "call" THEN Append(CallsIn(e), c.call) ELSE CallsIn(e)
  BY <1>2, InAppend
<1>4. TextsIn(e) = <<>> /\ CallsIn(e) = <<>>
  BY <1>1, InNone
<1>5. q \in Seq(ChunkType)
  BY <1>2
<1>6. Append(<<>>, c.n) = <<c.n>> /\ Append(<<>>, c.call) = <<c.call>>
  OBVIOUS
<1>. QED BY <1>3, <1>4, <1>5, <1>6

\* What Claude's reader has to send after a line.
LEMMA ClaudeEmits ==
  ASSUME NEW r \in Readers, r.out = <<>>, NEW l \in LineType, NEW x, x = ClaudeLine(r, l)
  PROVE  /\ TextsIn(x.out) = LineText(l)
         /\ CallsIn(x.out) = IF Opens(l) THEN <<NewCall("claude", l)>> ELSE <<>>
         /\ x.pending = r.pending /\ x.over = (r.over \/ l.t = "done")
<1>1. r \in ReaderType /\ l.n \in Nat /\ r.over \in BOOLEAN
  BY DEF Readers, ReaderType, LineType
<1>2. ToolCall(l.id, l.name, 0) \in CallType
  BY GivenAreSome DEF LineType, ToolCall, CallType
<1>3. CASE l.t = "text"
  <2>1. l.n = 0 => x = r
    BY <1>3 DEF ClaudeLine
  <2>2. CASE l.n = 0
    BY <1>1, <1>3, <2>1, <2>2, InNone DEF LineText, Opens
  <2>3. CASE l.n # 0
    <3>1. x = Emit(r, TextChunk(l.n))
      BY <1>3, <2>3 DEF ClaudeLine
    <3>2. TextChunk(l.n) \in ChunkType
      BY <1>1, ChunkTypes
    <3>3. x.out = Append(<<>>, TextChunk(l.n)) /\ x.pending = r.pending /\ x.over = r.over
      BY <1>1, <3>1, <3>2, EmitFacts
    <3>4. TextsIn(x.out) = <<l.n>> /\ CallsIn(x.out) = <<>>
      <4>1. TextChunk(l.n).t = "text" /\ TextChunk(l.n).n = l.n
        BY DEF TextChunk, Chunk
      <4>. QED BY <3>2, <3>3, <4>1, OneChunk
    <3>. QED BY <1>1, <1>3, <2>3, <3>3, <3>4 DEF LineText, Opens
  <2>. QED BY <2>2, <2>3
<1>4. CASE l.t = "tool"
  <2>1. CASE l.name = None
    <3>1. x = r
      BY <1>4, <2>1 DEF ClaudeLine
    <3>. QED BY <1>1, <1>4, <2>1, <3>1, InNone DEF LineText, Opens
  <2>2. CASE l.name # None
    <3>. DEFINE c == CallChunk(ToolCall(l.id, l.name, 0))
    <3>1. x = Emit(r, c)
      BY <1>4, <2>2 DEF ClaudeLine
    <3>2. c \in ChunkType /\ c.t = "call" /\ c.call = ToolCall(l.id, l.name, 0)
      BY <1>2, ChunkTypes DEF CallChunk, Chunk
    <3>. HIDE DEF c
    <3>3. x.out = Append(<<>>, c) /\ x.pending = r.pending /\ x.over = r.over
      BY <1>1, <3>1, <3>2, EmitFacts
    <3>4. TextsIn(x.out) = <<>> /\ CallsIn(x.out) = <<ToolCall(l.id, l.name, 0)>>
      BY <3>2, <3>3, OneChunk
    <3>. QED BY <1>1, <1>4, <2>2, <3>3, <3>4 DEF LineText, Opens, NewCall
  <2>. QED BY <2>1, <2>2
<1>5. CASE l.t = "done"
  <2>1. x = Over(r)
    BY <1>5 DEF ClaudeLine
  <2>. DEFINE c == DoneChunk(r.usage)
  <2>2. c \in ChunkType /\ c.t = "done"
    BY <1>1, ChunkTypes DEF DoneChunk, Chunk, ReaderType
  <2>3. x.out = Append(<<>>, c) /\ x.pending = r.pending /\ x.over = TRUE
    BY <1>1, <2>1, OverFacts
  <2>. HIDE DEF c
  <2>4. TextsIn(x.out) = <<>> /\ CallsIn(x.out) = <<>>
    BY <2>2, <2>3, OneChunk
  <2>. QED BY <1>5, <2>3, <2>4 DEF LineText, Opens
<1>6. CASE l.t \notin {"text", "tool", "done"}
  <2>1. x = r \/ x = [r EXCEPT !.usage = l.n]
    BY <1>6 DEF ClaudeLine
  <2>2. x.out = <<>> /\ x.pending = r.pending /\ x.over = r.over
    BY <1>1, <2>1 DEF ReaderType
  <2>. QED BY <1>1, <1>6, <2>2, InNone DEF LineText, Opens
<1>. QED BY <1>3, <1>4, <1>5, <1>6

\* Gemini's.
LEMMA GeminiEmits ==
  ASSUME NEW r \in Readers, r.out = <<>>, NEW l \in LineType, NEW x, x = GeminiLine(r, l),
         l.t = "tool" => l.name # None
  PROVE  /\ TextsIn(x.out) = LineText(l)
         /\ CallsIn(x.out) = IF Opens(l) THEN <<NewCall("gemini", l)>> ELSE <<>>
         /\ x.pending = r.pending /\ x.over = r.over
<1>1. r \in ReaderType /\ l.n \in Nat /\ r.over \in BOOLEAN
  BY DEF Readers, ReaderType, LineType
<1>2. ToolCall(MadeUpID(l.name), l.name, l.n) \in CallType
  BY GivenAreSome DEF LineType, ToolCall, CallType
<1>3. CASE l.t = "text"
  <2>1. l.n = 0 => x = r
    BY <1>3 DEF GeminiLine
  <2>2. CASE l.n = 0
    BY <1>1, <1>3, <2>1, <2>2, InNone DEF LineText, Opens
  <2>3. CASE l.n # 0
    <3>1. x = Emit(r, TextChunk(l.n))
      BY <1>3, <2>3 DEF GeminiLine
    <3>2. TextChunk(l.n) \in ChunkType
      BY <1>1, ChunkTypes
    <3>3. x.out = Append(<<>>, TextChunk(l.n)) /\ x.pending = r.pending /\ x.over = r.over
      BY <1>1, <3>1, <3>2, EmitFacts
    <3>4. TextsIn(x.out) = <<l.n>> /\ CallsIn(x.out) = <<>>
      <4>1. TextChunk(l.n).t = "text" /\ TextChunk(l.n).n = l.n
        BY DEF TextChunk, Chunk
      <4>. QED BY <3>2, <3>3, <4>1, OneChunk
    <3>. QED BY <1>1, <1>3, <2>3, <3>3, <3>4 DEF LineText, Opens
  <2>. QED BY <2>2, <2>3
<1>4. CASE l.t = "tool"
  <2>. DEFINE c == CallChunk(ToolCall(MadeUpID(l.name), l.name, l.n))
  <2>1. x = Emit(r, c)
    BY <1>4 DEF GeminiLine
  <2>2. c \in ChunkType /\ c.t = "call" /\ c.call = ToolCall(MadeUpID(l.name), l.name, l.n)
    BY <1>2, ChunkTypes DEF CallChunk, Chunk
  <2>. HIDE DEF c
  <2>3. x.out = Append(<<>>, c) /\ x.pending = r.pending /\ x.over = r.over
    BY <1>1, <2>1, <2>2, EmitFacts
  <2>4. TextsIn(x.out) = <<>> /\ CallsIn(x.out) = <<ToolCall(MadeUpID(l.name), l.name, l.n)>>
    BY <2>2, <2>3, OneChunk
  <2>. QED BY <1>4, <2>3, <2>4 DEF LineText, Opens, NewCall
<1>5. CASE l.t \notin {"text", "tool"}
  <2>1. x = r \/ x = [r EXCEPT !.usage = l.n]
    BY <1>5 DEF GeminiLine
  <2>2. x.out = <<>> /\ x.pending = r.pending /\ x.over = r.over
    BY <1>1, <2>1 DEF ReaderType
  <2>. QED BY <1>5, <2>2, InNone DEF LineText, Opens
<1>. QED BY <1>3, <1>4, <1>5

\* What is to be sent after a flush.
LEMMA FlushSends ==
  ASSUME NEW r \in Readers, r.out = <<>>, NEW f \in Flush(r)
  PROVE  /\ TextsIn(f.out) = <<>> /\ Walks(CallsIn(f.out), Named(r.pending))
         /\ f.pending = {} /\ f.over = r.over
         /\ TextsIn(Over(f).out) = <<>> /\ Walks(CallsIn(Over(f).out), Named(r.pending))
         /\ Over(f).pending = {} /\ Over(f).over = TRUE
<1>1. r \in ReaderType /\ IsFiniteSet(r.pending)
  BY DEF Readers
<1>2. f \in ReaderType /\ f.pending = {} /\ f.over = r.over /\ f.out \in Seq(ChunkType) /\ f.usage \in Nat
  <2>1. f \in ReaderType /\ f.pending = {} /\ f.over = r.over
    BY <1>1, FlushFacts
  <2>. QED BY <2>1 DEF ReaderType
<1>3. PICK new \in Seq(ChunkType) :
        f.out = r.out \o new /\ TextsIn(new) = <<>> /\ Walks(CallsIn(new), Named(r.pending))
  BY FlushEmits
<1>4. f.out = new
  BY <1>3
<1>. DEFINE c == DoneChunk(f.usage)
<1>5. c \in ChunkType /\ c.t = "done"
  BY <1>2, ChunkTypes DEF DoneChunk, Chunk
<1>6. Over(f).out = Append(new, c) /\ Over(f).pending = {} /\ Over(f).over = TRUE
  BY <1>2, <1>4, OverFacts
<1>. HIDE DEF c
<1>7. /\ TextsIn(Append(new, c)) = IF c.t = "text" THEN Append(TextsIn(new), c.n) ELSE TextsIn(new)
      /\ CallsIn(Append(new, c)) = IF c.t = "call" THEN Append(CallsIn(new), c.call) ELSE CallsIn(new)
  BY <1>5, InAppend
<1>8. TextsIn(Append(new, c)) = <<>> /\ CallsIn(Append(new, c)) = CallsIn(new)
  BY <1>3, <1>5, <1>7
<1>. QED BY <1>2, <1>3, <1>4, <1>6, <1>8

\* What the reader of OpenAI's format has to send after a line.
LEMMA OpenAIEmits ==
  ASSUME NEW r \in Readers, r.out = <<>>, ~r.over, NEW l \in LineType, NEW x \in OpenAILine(r, l)
  PROVE  /\ TextsIn(x.out) = LineText(l)
         /\ l.t \in {"finish", "done"} => Walks(CallsIn(x.out), Named(r.pending)) /\ x.pending = {}
         /\ l.t \notin {"finish", "done"} =>
              /\ CallsIn(x.out) = <<>>
              /\ x.pending = IF l.t = "tool" THEN Gather(r.pending, l) ELSE r.pending
         /\ x.over <=> l.t = "done"
<1>1. r \in ReaderType /\ l.n \in Nat /\ r.over \in BOOLEAN
  BY DEF Readers, ReaderType, LineType
<1>2. CASE l.t = "text"
  <2>1. x = IF l.n = 0 THEN r ELSE Emit(r, TextChunk(l.n))
    BY <1>2 DEF OpenAILine
  <2>2. CASE l.n = 0
    BY <1>1, <1>2, <2>1, <2>2, InNone DEF LineText
  <2>3. CASE l.n # 0
    <3>1. x = Emit(r, TextChunk(l.n))
      BY <2>1, <2>3
    <3>2. TextChunk(l.n) \in ChunkType
      BY <1>1, ChunkTypes
    <3>3. x.out = Append(<<>>, TextChunk(l.n)) /\ x.pending = r.pending /\ x.over = r.over
      BY <1>1, <3>1, <3>2, EmitFacts
    <3>4. TextsIn(x.out) = <<l.n>> /\ CallsIn(x.out) = <<>>
      <4>1. TextChunk(l.n).t = "text" /\ TextChunk(l.n).n = l.n
        BY DEF TextChunk, Chunk
      <4>. QED BY <3>2, <3>3, <4>1, OneChunk
    <3>. QED BY <1>1, <1>2, <2>3, <3>3, <3>4 DEF LineText
  <2>. QED BY <2>2, <2>3
<1>3. CASE l.t = "tool"
  <2>1. x = [r EXCEPT !.pending = Gather(@, l)]
    BY <1>3 DEF OpenAILine
  <2>2. x.out = <<>> /\ x.over = r.over /\ x.pending = Gather(r.pending, l)
    BY <1>1, <2>1 DEF ReaderType
  <2>. QED BY <1>1, <1>3, <2>2, InNone DEF LineText
<1>4. CASE l.t = "finish"
  <2>1. x \in Flush(r)
    BY <1>4 DEF OpenAILine
  <2>. QED BY <1>4, <2>1, FlushSends DEF LineText
<1>5. CASE l.t = "done"
  <2>1. PICK f \in Flush(r) : x = Over(f)
    BY <1>5 DEF OpenAILine
  <2>. QED BY <1>5, <2>1, FlushSends DEF LineText
<1>6. CASE l.t \notin {"text", "tool", "finish", "done"}
  <2>1. x = r \/ x = [r EXCEPT !.usage = l.n]
    BY <1>6 DEF OpenAILine
  <2>2. x.out = <<>> /\ x.pending = r.pending /\ x.over = r.over
    BY <1>1, <2>1 DEF ReaderType
  <2>. QED BY <1>1, <1>6, <2>2, InNone DEF LineText
<1>. QED BY <1>2, <1>3, <1>4, <1>5, <1>6

\* What is to be sent when the body has ended.
LEMMA AtEndEmits ==
  ASSUME NEW k, NEW r \in Readers, r.out = <<>>, NEW failed, NEW x \in AtEnd(k, r, failed)
  PROVE  /\ TextsIn(x.out) = <<>> /\ x.over
         /\ OpenAIKind(k) => Walks(CallsIn(x.out), Named(r.pending)) /\ x.pending = {}
         /\ ~OpenAIKind(k) => CallsIn(x.out) = <<>> /\ x.pending = r.pending
<1>1. r \in ReaderType
  BY DEF Readers
<1>2. CASE OpenAIKind(k)
  <2>1. PICK f \in Flush(r) : x = Over(f)
    BY <1>2 DEF AtEnd, OpenAIKind
  <2>. QED BY <1>2, <2>1, FlushSends
<1>3. CASE ~OpenAIKind(k)
  <2>1. x = Over(r) \/ x = [r EXCEPT !.over = TRUE]
    BY <1>3 DEF AtEnd, OpenAIKind
  <2>2. CASE x = Over(r)
    <3>. DEFINE c == DoneChunk(r.usage)
    <3>1. c \in ChunkType /\ c.t = "done"
      BY <1>1, ChunkTypes DEF DoneChunk, Chunk, ReaderType
    <3>2. x.out = Append(<<>>, c) /\ x.pending = r.pending /\ x.over = TRUE
      BY <1>1, <2>2, OverFacts
    <3>. HIDE DEF c
    <3>3. TextsIn(x.out) = <<>> /\ CallsIn(x.out) = <<>>
      BY <3>1, <3>2, OneChunk
    <3>. QED BY <1>3, <3>2, <3>3
  <2>3. CASE x = [r EXCEPT !.over = TRUE]
    BY <1>1, <1>3, <2>3, InNone DEF ReaderType
  <2>. QED BY <2>1, <2>2, <2>3
<1>. QED BY <1>2, <1>3

-----------------------------------------------------------------------------
(***************************************************************************)
(* The reader.                                                             *)
(***************************************************************************)
Taken == SubSeq(arriving, 1, pos)

\* The calls gathered have been sent.
Flushed == rd.over \/ \E i \in 1 .. pos : arriving[i].t = "finish"

ReadInv ==
  /\ reader \in {"read", "line"} => rd.out = <<>> /\ ~rd.over
  /\ (reader \in {"close", "done"} /\ ~cancelled) => rd.over /\ rd.out = <<>>
  /\ WellFormed(kind, arriving)
  /\ (rd.over /\ ~cancelled) => pos = Len(arriving)
  /\ rd.pending = IF OpenAIKind(kind) /\ ~Flushed THEN Gathered(Taken) ELSE {}

\* A line more is taken.
LEMMA TakenNext ==
  ASSUME TypeInv, pos < Len(arriving)
  PROVE  /\ Taken \in Seq(LineType) /\ arriving[pos + 1] \in LineType /\ Len(Taken) = pos
         /\ SubSeq(arriving, 1, pos + 1) = Append(Taken, arriving[pos + 1])
         /\ \A i \in 1 .. pos : Taken[i] = arriving[i]
<1>1. arriving \in Seq(LineType) /\ pos \in Nat /\ pos + 1 \in 1 .. Len(arriving)
  BY DEF TypeInv, TypeOK
<1>. QED BY <1>1 DEF Taken

\* Nothing gathered of no line.
LEMMA GatheredNone == ASSUME NEW s, s = <<>> PROVE Gathered(s) = {}
BY DEF Gathered, Opened

\* Nothing named in nothing.
LEMMA NamedNone == Named({}) = {}
BY DEF Named

\* A line: what the reader has gathered follows what has been taken.
LEMMA TakesLine ==
  ASSUME TypeInv, ReadInv, ReaderTakesLine
  PROVE  /\ pos' = pos + 1 /\ Taken' = Append(Taken, arriving[pos + 1])
         /\ rd' \in Readers /\ (rd'.over => pos' = Len(arriving))
         /\ rd'.over <=> (arriving[pos + 1].t = "done" /\ kind # "gemini")
         /\ TextsIn(rd'.out) = LineText(arriving[pos + 1])
         /\ ~OpenAIKind(kind) =>
              /\ CallsIn(rd'.out) = IF Opens(arriving[pos + 1]) THEN <<NewCall(kind, arriving[pos + 1])>> ELSE <<>>
              /\ rd'.pending = rd.pending
         /\ OpenAIKind(kind) =>
              LET l == arriving[pos + 1] IN
              /\ l.t \in {"finish", "done"} => Walks(CallsIn(rd'.out), Named(rd.pending)) /\ rd'.pending = {}
              /\ l.t \notin {"finish", "done"} =>
                   /\ CallsIn(rd'.out) = <<>>
                   /\ rd'.pending = IF l.t = "tool" THEN Gather(rd.pending, l) ELSE rd.pending
<1>. DEFINE l == arriving[pos + 1]
<1>1. /\ reader = "line" /\ pos' = pos + 1 /\ rd' \in ReadLine(kind, rd, l)
      /\ arriving' = arriving
  BY Zenon DEF ReaderTakesLine, apiVars
<1>2. /\ pos < Len(arriving) /\ rd \in Readers /\ rd.out = <<>> /\ ~rd.over
      /\ pos \in Nat /\ Len(arriving) \in Nat
  BY <1>1 DEF TypeInv, TypeOK, ReadInv, Readers
<1>3. l \in LineType
  BY <1>2, TakenNext
<1>4. rd' \in Readers
  BY <1>1, <1>2, <1>3, ReadLineType
<1>5. Taken' = Append(Taken, l)
  BY <1>1, <1>2, TakenNext DEF Taken
<1>6. /\ kind = "gemini" => (l.t = "tool" => l.name # None)
      /\ l.t = "done" => pos + 1 = Len(arriving)
  <2>1. pos + 1 \in DOMAIN arriving
    BY <1>2 DEF TypeInv, TypeOK
  <2>. QED BY <2>1 DEF ReadInv, WellFormed
<1>. HIDE DEF l
<1>7. CASE kind = "claude"
  <2>1. rd' = ClaudeLine(rd, l)
    BY <1>1, <1>7 DEF ReadLine
  <2>2. /\ TextsIn(rd'.out) = LineText(l)
        /\ CallsIn(rd'.out) = IF Opens(l) THEN <<NewCall("claude", l)>> ELSE <<>>
        /\ rd'.pending = rd.pending /\ rd'.over = (rd.over \/ l.t = "done")
    BY <1>2, <1>3, <2>1, ClaudeEmits
  <2>. QED BY <1>1, <1>2, <1>4, <1>5, <1>6, <1>7, <2>2 DEF OpenAIKind, l
<1>8. CASE kind = "gemini"
  <2>1. rd' = GeminiLine(rd, l)
    BY <1>1, <1>8 DEF ReadLine
  <2>2. /\ TextsIn(rd'.out) = LineText(l)
        /\ CallsIn(rd'.out) = IF Opens(l) THEN <<NewCall("gemini", l)>> ELSE <<>>
        /\ rd'.pending = rd.pending /\ rd'.over = rd.over
    BY <1>2, <1>3, <1>6, <1>8, <2>1, GeminiEmits
  <2>. QED BY <1>1, <1>2, <1>4, <1>5, <1>6, <1>8, <2>2 DEF OpenAIKind, l
<1>9. CASE OpenAIKind(kind)
  <2>1. rd' \in OpenAILine(rd, l)
    BY <1>1, <1>9 DEF ReadLine, CopilotLine, OpenAIKind
  <2>2. /\ TextsIn(rd'.out) = LineText(l)
        /\ l.t \in {"finish", "done"} => Walks(CallsIn(rd'.out), Named(rd.pending)) /\ rd'.pending = {}
        /\ l.t \notin {"finish", "done"} =>
             /\ CallsIn(rd'.out) = <<>>
             /\ rd'.pending = IF l.t = "tool" THEN Gather(rd.pending, l) ELSE rd.pending
        /\ rd'.over <=> l.t = "done"
    BY <1>2, <1>3, <2>1, OpenAIEmits
  <2>. QED BY <1>1, <1>2, <1>4, <1>5, <1>6, <1>9, <2>2 DEF OpenAIKind, l
<1>. QED BY <1>7, <1>8, <1>9 DEF OpenAIKind

\* Where a reader goes on after it has dealt with something.
LEMMA GoesOn ==
  ASSUME NEW r, SendNext(r)
  PROVE  /\ reader' \in {"read", "line"} => r.out = <<>> /\ ~r.over
         /\ reader' \in {"close", "done"} => r.out = <<>> /\ r.over
         /\ reader' \in {"read", "line", "send", "close"}
BY DEF SendNext

\* A step that leaves what has been taken and gathered.
LEMMA ReadSame ==
  ASSUME ReadInv, kind' = kind, arriving' = arriving, pos' = pos,
         rd'.over = rd.over, rd'.pending = rd.pending,
         reader' \in {"read", "line"} => rd'.out = <<>> /\ ~rd'.over,
         (reader' \in {"close", "done"} /\ ~cancelled') => rd'.over /\ rd'.out = <<>>,
         cancelled => cancelled'
  PROVE  ReadInv'
<1>1. Taken' = Taken
  BY DEF Taken
<1>2. Flushed' = Flushed
  BY DEF Flushed
<1>3. WellFormed(kind', arriving')
  BY DEF ReadInv
<1>4. rd'.pending = IF OpenAIKind(kind') /\ ~Flushed' THEN Gathered(Taken') ELSE {}
  BY <1>1, <1>2 DEF ReadInv
<1>5. (rd'.over /\ ~cancelled') => pos' = Len(arriving')
  BY DEF ReadInv
<1>. QED BY <1>3, <1>4, <1>5 DEF ReadInv

\* The calls that a line more leaves gathered.
LEMMA GatheredNext ==
  ASSUME TypeInv, ReadInv, ReaderTakesLine
  PROVE  /\ rd'.pending = IF OpenAIKind(kind) /\ ~Flushed' THEN Gathered(Taken') ELSE {}
         /\ WellFormed(kind, Taken) /\ WellFormed(kind, Taken')
         /\ Flushed' <=> Flushed \/ rd'.over \/ arriving[pos + 1].t = "finish"
         /\ ~rd.over
         /\ OpenAIKind(kind) /\ arriving[pos + 1].t = "tool" => ~Flushed
<1>. DEFINE l == arriving[pos + 1]
            s == Taken
<1>1. /\ reader = "line" /\ pos' = pos + 1 /\ arriving' = arriving
  BY Zenon DEF ReaderTakesLine, apiVars
<1>2. pos < Len(arriving) /\ ~rd.over /\ pos \in Nat /\ Len(arriving) \in Nat /\ arriving \in Seq(LineType)
  BY <1>1 DEF TypeInv, TypeOK, ReadInv
<1>3. /\ s \in Seq(LineType) /\ l \in LineType /\ Len(s) = pos
      /\ \A i \in 1 .. pos : s[i] = arriving[i]
  BY <1>2, TakenNext
<1>4. /\ Taken' = Append(s, l)
      /\ rd'.over <=> (l.t = "done" /\ kind # "gemini")
      /\ ~OpenAIKind(kind) => rd'.pending = rd.pending
      /\ OpenAIKind(kind) =>
           /\ l.t \in {"finish", "done"} => rd'.pending = {}
           /\ l.t \notin {"finish", "done"} =>
                rd'.pending = IF l.t = "tool" THEN Gather(rd.pending, l) ELSE rd.pending
  BY TakesLine
<1>5. WellFormed(kind, Taken)
  <2>1. WellFormed(kind, arriving) /\ pos \in 0 .. Len(arriving)
    BY <1>2 DEF ReadInv
  <2>. QED BY <1>2, <2>1, WellFormedPrefix DEF Taken
<1>6. WellFormed(kind, Taken')
  <2>1. WellFormed(kind, arriving) /\ pos + 1 \in 0 .. Len(arriving)
    BY <1>2 DEF ReadInv
  <2>2. WellFormed(kind, SubSeq(arriving, 1, pos + 1))
    BY <1>2, <2>1, WellFormedPrefix
  <2>. QED BY <1>1, <2>2 DEF Taken
<1>. HIDE DEF l, s
<1>7. Flushed' <=> Flushed \/ rd'.over \/ l.t = "finish"
  <2>1. \A i : i \in 1 .. pos + 1 <=> i \in 1 .. pos \/ i = pos + 1
    BY <1>2
  <2>2. (\E i \in 1 .. pos' : arriving'[i].t = "finish")
          <=> (\E i \in 1 .. pos : arriving[i].t = "finish") \/ l.t = "finish"
    BY <1>1, <2>1 DEF l
  <2>. QED BY <1>2, <2>2, Zenon DEF Flushed
<1>8. OpenAIKind(kind) /\ l.t = "tool" => ~Flushed
  <2>. SUFFICES ASSUME OpenAIKind(kind), l.t = "tool" PROVE ~Flushed
    OBVIOUS
  <2>1. WellFormed(kind, Append(s, l))
    BY <1>4, <1>6
  <2>2. \A j \in 1 .. Len(s) : s[j].t # "finish"
    BY <1>3, <2>1, LastTool
  <2>. QED BY <1>2, <1>3, <2>2 DEF Flushed
<1>9. rd'.pending = IF OpenAIKind(kind) /\ ~Flushed' THEN Gathered(Taken') ELSE {}
  <2>1. CASE ~OpenAIKind(kind)
    BY <1>4, <2>1 DEF ReadInv
  <2>2. CASE OpenAIKind(kind) /\ l.t \in {"finish", "done"}
    <3>1. Flushed'
      BY <1>4, <1>7, <2>2 DEF OpenAIKind
    <3>. QED BY <1>4, <2>2, <3>1
  <2>3. CASE OpenAIKind(kind) /\ l.t = "tool"
    <3>1. rd.pending = Gathered(s)
      BY <1>8, <2>3 DEF ReadInv, s
    <3>2. ~Flushed'
      BY <1>4, <1>7, <1>8, <2>3
    <3>3. WellFormed(kind, s) /\ WellFormed(kind, Append(s, l))
      BY <1>4, <1>5, <1>6 DEF s
    <3>4. Gathered(Append(s, l)) = Gather(Gathered(s), l)
      BY <1>3, <2>3, <3>3, GatheredTool
    <3>. QED BY <1>4, <2>3, <3>1, <3>2, <3>4
  <2>4. CASE OpenAIKind(kind) /\ l.t \notin {"finish", "done", "tool"}
    <3>1. Flushed' <=> Flushed
      BY <1>4, <1>7, <2>4
    <3>2. Gathered(Append(s, l)) = Gathered(s)
      BY <1>3, <2>4, GatheredOther
    <3>. QED BY <1>4, <2>4, <3>1, <3>2 DEF ReadInv, s
  <2>. QED BY <2>1, <2>2, <2>3, <2>4
<1>. QED BY <1>2, <1>5, <1>6, <1>7, <1>8, <1>9 DEF l

\* ReadInv holds at the start.
LEMMA ReadStart == Init => ReadInv
<1>. SUFFICES ASSUME Init PROVE ReadInv
  OBVIOUS
<1>1. reader = "off" /\ arriving = <<>> /\ pos = 0 /\ rd = Fresh
  BY DEF Init
<1>2. ~rd.over /\ rd.out = <<>> /\ rd.pending = {}
  BY <1>1 DEF Fresh
<1>3. WellFormed(kind, arriving)
  <2>1. DOMAIN arriving = {}
    BY <1>1
  <2>. QED BY <2>1, Zenon DEF WellFormed
<1>4. Gathered(Taken) = {}
  <2>1. arriving \in Seq(LineType) /\ Len(arriving) = 0
    BY InitTypes, <1>1 DEF TypeInv, TypeOK
  <2>2. Taken = <<>>
    BY <1>1, <2>1 DEF Taken
  <2>. QED BY <2>2, GatheredNone
<1>. QED BY <1>1, <1>2, <1>3, <1>4 DEF ReadInv

\* The reader's steps keep it.
LEMMA ReaderKeepsRead == ASSUME TypeInv, ReadInv, ReaderStep PROVE ReadInv'
<1>1. UNCHANGED <<kind, arriving, cancelled>>
  BY DEF ReaderStep, ReaderStops, ReaderReads, ReaderTakesLine, ReaderAtEnd, ReaderSends, ReaderCloses,
         fixed, apiVars
<1>2. CASE ReaderStops
  BY <1>1, <1>2, ReadSame DEF ReaderStops
<1>3. CASE ReaderTakesLine
  <2>1. SendNext(rd')
    BY <1>3, Zenon DEF ReaderTakesLine
  <2>2. rd'.over => pos' = Len(arriving)
    BY <1>3, TakesLine
  <2>3. rd'.pending = IF OpenAIKind(kind) /\ ~Flushed' THEN Gathered(Taken') ELSE {}
    BY <1>3, GatheredNext
  <2>4. WellFormed(kind', arriving')
    BY <1>1 DEF ReadInv
  <2>. QED BY <1>1, <2>1, <2>2, <2>3, <2>4, GoesOn DEF ReadInv
<1>4. CASE ReaderAtEnd
  <2>1. /\ reader = "read" /\ (pos = Len(arriving) \/ cancelled)
        /\ rd' \in AtEnd(kind, rd, broken \/ cancelled) /\ pos' = pos /\ SendNext(rd')
    BY <1>4, Zenon DEF ReaderAtEnd
  <2>2. rd \in Readers /\ rd.out = <<>> /\ ~rd.over
    BY <2>1 DEF TypeInv, TypeOK, ReadInv, Readers
  <2>3. /\ rd'.over /\ (OpenAIKind(kind) => rd'.pending = {}) /\ (~OpenAIKind(kind) => rd'.pending = rd.pending)
    BY <2>1, <2>2, AtEndEmits
  <2>4. rd'.pending = {} /\ Flushed'
    BY <2>3 DEF ReadInv, Flushed
  <2>5. WellFormed(kind', arriving')
    BY <1>1 DEF ReadInv
  <2>. QED BY <1>1, <2>1, <2>3, <2>4, <2>5, GoesOn DEF ReadInv
<1>5. CASE ReaderSends
  <2>1. rd' = [rd EXCEPT !.out = Tail(@)] /\ pos' = pos /\ SendNext(rd')
    BY <1>5, Zenon DEF ReaderSends
  <2>2. rd'.over = rd.over /\ rd'.pending = rd.pending
    BY <2>1 DEF TypeInv, TypeOK, ReaderType
  <2>3. /\ reader' \in {"read", "line"} => rd'.out = <<>> /\ ~rd'.over
        /\ reader' \in {"close", "done"} => rd'.out = <<>> /\ rd'.over
    BY <2>1, GoesOn
  <2>. QED BY <1>1, <2>1, <2>2, <2>3, ReadSame
<1>6. CASE ReaderCloses
  <2>1. UNCHANGED <<pos, rd>> /\ reader = "close" /\ reader' \in {"close", "done"}
    BY <1>6 DEF ReaderCloses
  <2>2. ~cancelled => rd.over /\ rd.out = <<>>
    BY <2>1 DEF ReadInv
  <2>. QED BY <1>1, <2>1, <2>2, ReadSame
<1>7. ASSUME NEW k \in 1 .. Len(arriving), ReaderReads(k) PROVE ReadInv'
  <2>1. UNCHANGED <<pos, rd>> /\ reader = "read" /\ reader' = "line"
    BY <1>7 DEF ReaderReads
  <2>2. ~rd.over /\ rd.out = <<>>
    BY <2>1 DEF ReadInv
  <2>. QED BY <1>1, <2>1, <2>2, ReadSame
<1>. QED BY <1>2, <1>3, <1>4, <1>5, <1>6, <1>7 DEF ReaderStep

\* The loop's steps do.
LEMMA LoopKeepsRead == ASSUME TypeInv, ReadInv, LoopStep PROVE ReadInv'
<1>1. CASE Request
  <2>1. /\ UNCHANGED <<kind, cancelled, arriving, pos, rd>>
        /\ reader' \in {reader, "off"}
    BY <1>1 DEF Request, fixed, apiVars
  <2>2. /\ reader' \in {"read", "line"} => rd'.out = <<>> /\ ~rd'.over
        /\ (reader' \in {"close", "done"} /\ ~cancelled') => rd'.over /\ rd'.out = <<>>
    BY <2>1 DEF ReadInv
  <2>. QED BY <2>1, <2>2, ReadSame
<1>2. ASSUME NEW reply \in Replies[kind], NEW err \in BOOLEAN,
             NEW n \in 0 .. Len(reply), DialOpens(reply, n, err)
      PROVE  ReadInv'
  <2>1. /\ kind' = kind /\ arriving' = SubSeq(reply, 1, n)
        /\ pos' = 0 /\ reader' = "read" /\ rd' = Fresh
    BY <1>2 DEF DialOpens, fixed
  <2>2. rd'.out = <<>> /\ ~rd'.over /\ rd'.pending = {}
    BY <2>1 DEF Fresh
  <2>3. kind \in Providers
    BY DEF TypeInv, TypeOK
  <2>4. reply \in Seq(LineType) /\ WellFormed(kind, reply)
    BY <2>3, ReplyAssumption
  <2>5. WellFormed(kind, SubSeq(reply, 1, n))
    BY <2>4, WellFormedPrefix
  <2>6. SubSeq(reply, 1, n) \in Seq(LineType)
    BY <2>4
  <2>7. Taken' = <<>>
    BY <2>1, <2>6 DEF Taken
  <2>8. Gathered(Taken') = {}
    BY <2>7, GatheredNone
  <2>. QED BY <2>1, <2>2, <2>5, <2>8 DEF ReadInv
<1>3. CASE NotConfigured \/ Backoff \/ Collect \/ Record \/ \E e \in Errors : DialFails(e)
  <2>1. UNCHANGED <<kind, cancelled, arriving, pos, rd, reader>>
    BY <1>3 DEF NotConfigured, Backoff, Collect, Record, DialFails, fixed, apiVars, readerVars
  <2>2. /\ reader' \in {"read", "line"} => rd'.out = <<>> /\ ~rd'.over
        /\ (reader' \in {"close", "done"} /\ ~cancelled') => rd'.over /\ rd'.out = <<>>
    BY <2>1 DEF ReadInv
  <2>. QED BY <2>1, <2>2, ReadSame
<1>. QED BY <1>1, <1>2, <1>3 DEF LoopStep

\* So does every step.
LEMMA ReadStep == ASSUME TypeInv, ReadInv, [Next]_vars PROVE ReadInv'
<1>1. CASE Cancel \/ UNCHANGED vars
  <2>1. UNCHANGED <<kind, arriving, pos, rd, reader>> /\ (cancelled => cancelled')
    BY <1>1 DEF Cancel, vars, fixed, apiVars, readerVars
  <2>2. /\ reader' \in {"read", "line"} => rd'.out = <<>> /\ ~rd'.over
        /\ (reader' \in {"close", "done"} /\ ~cancelled') => rd'.over /\ rd'.out = <<>>
    BY <2>1 DEF ReadInv
  <2>. QED BY <2>1, <2>2, ReadSame
<1>. QED BY <1>1, ReaderKeepsRead, LoopKeepsRead DEF Next

(***************************************************************************)
(* Cancel.                                                                 *)
(***************************************************************************)

\* Once the run is cancelled no request goes out any more.
THEOREM NothingSent == Spec => NoRequestAfterCancel
<1>1. [Next]_vars => [cancelled => sent' = sent]_vars
  <2> SUFFICES ASSUME Next, cancelled PROVE sent' = sent
    OBVIOUS
  <2>1. CASE Request
    BY <2>1 DEF Request
  <2>2. ASSUME NEW e \in Errors, DialFails(e) PROVE sent' = sent
    BY <2>2 DEF DialFails
  <2>3. ASSUME NEW reply \in Replies[kind], NEW err \in BOOLEAN,
               NEW n \in 0 .. Len(reply), DialOpens(reply, n, err)
        PROVE  FALSE
    BY <2>3 DEF DialOpens
  <2>4. CASE NotConfigured \/ Backoff \/ Collect \/ Record
    BY <2>4 DEF NotConfigured, Backoff, Collect, Record, callVars
  <2>5. CASE ReaderStep
    BY <2>5 DEF ReaderStep, ReaderStops, ReaderReads, ReaderTakesLine, ReaderAtEnd, ReaderSends, ReaderCloses,
                callVars
  <2>6. CASE Cancel
    BY <2>6 DEF Cancel, callVars
  <2>7. QED BY <2>1, <2>2, <2>3, <2>4, <2>5, <2>6 DEF Next, LoopStep
<1>2. QED BY <1>1, PTL DEF Spec, NoRequestAfterCancel

(***************************************************************************)
(* The reader at rest.  It works only while the loop collects, or after    *)
(* the loop has returned at a cancel, and it has closed the body before it *)
(* is done.                                                                *)
(***************************************************************************)
AtRest == reader \in {"off", "done"}

ReaderInv ==
  /\ AtRest => ~body
  /\ (phase # "collect" /\ outcome # "canceled") => AtRest
  /\ outcome = "canceled" => phase = "ended"

\* The reader's steps keep it.
LEMMA ReaderKeeps == ASSUME ReaderInv, ReaderStep PROVE ReaderInv'
<1>1. reader \in {"read", "line", "send", "close"} /\ ~AtRest /\ UNCHANGED <<phase, outcome>>
  BY DEF ReaderStep, ReaderStops, ReaderReads, ReaderTakesLine, ReaderAtEnd, ReaderSends, ReaderCloses, loopVars, AtRest
<1>2. CASE ReaderCloses
  BY <1>1, <1>2 DEF ReaderCloses, ReaderInv, AtRest
<1>3. CASE reader' \in {"read", "line", "send", "close"}
  BY <1>1, <1>3 DEF ReaderInv, AtRest
<1>4. ReaderCloses \/ reader' \in {"read", "line", "send", "close"}
  <2>1. CASE ReaderStops \/ \E k \in 1 .. Len(arriving) : ReaderReads(k)
    BY <2>1 DEF ReaderStops, ReaderReads
  <2>2. CASE ReaderSends \/ ReaderTakesLine \/ ReaderAtEnd
    <3>1. SendNext(rd')
      BY <2>2, Zenon DEF ReaderSends, ReaderAtEnd, ReaderTakesLine
    <3>. QED BY <3>1, GoesOn
  <2>3. QED BY <2>1, <2>2 DEF ReaderStep
<1>5. QED BY <1>2, <1>3, <1>4

\* The loop's steps do.
LEMMA LoopKeeps == ASSUME ReaderInv, LoopStep PROVE ReaderInv'
<1>1. CASE Request
  BY <1>1 DEF Request, End, ReaderInv, AtRest
<1>2. CASE NotConfigured \/ Backoff
  BY <1>2 DEF NotConfigured, Backoff, Fail, End, readerVars, ReaderInv, AtRest
<1>3. ASSUME NEW e \in Errors, DialFails(e) PROVE ReaderInv'
  BY <1>3 DEF DialFails, RetryOrFail, Fail, End, readerVars, ReaderInv, AtRest
<1>4. ASSUME NEW reply \in Replies[kind], NEW err \in BOOLEAN,
             NEW n \in 0 .. Len(reply), DialOpens(reply, n, err)
      PROVE  ReaderInv'
  BY <1>4 DEF DialOpens, ReaderInv, AtRest
<1>5. CASE Collect
  BY <1>5 DEF Collect, End, readerVars, ReaderInv, AtRest
<1>6. CASE Record
  BY <1>6 DEF Record, End, readerVars, ReaderInv, AtRest
<1>7. QED BY <1>1, <1>2, <1>3, <1>4, <1>5, <1>6 DEF LoopStep

\* It holds at the start.
LEMMA RestStart == Init => ReaderInv
BY DEF Init, ReaderInv, AtRest

\* So does every step.
LEMMA RestStep == ASSUME ReaderInv, [Next]_vars PROVE ReaderInv'
<1>1. CASE Cancel
  BY <1>1 DEF Cancel, readerVars, loopVars, ReaderInv, AtRest
<1>2. CASE UNCHANGED vars
  BY <1>2 DEF vars, readerVars, loopVars, ReaderInv, AtRest
<1>3. QED BY <1>1, <1>2, ReaderKeeps, LoopKeeps DEF Next

\* A run that ends leaves no reader and no open body behind, unless it was
\* cancelled.
THEOREM NoneStranded == Spec => []OnlyACancelStrands
<1>1. ReaderInv => OnlyACancelStrands
  BY DEF ReaderInv, AtRest, OnlyACancelStrands
<1>2. QED BY <1>1, RestStart, RestStep, PTL DEF Spec

(***************************************************************************)
(* What is collected, under way and to be sent, taken together, is what    *)
(* has been taken of the answer.                                           *)
(***************************************************************************)
QuietInv ==
  /\ phase \in {"request", "dial", "backoff"} => chan = <<>>
  /\ phase \in {"dial", "backoff"} => got = Nothing

\* The chunks on their way, and the calls in got and in them.
UnderWay == chan \o rd.out
AllCalls == got.calls \o CallsIn(UnderWay)

DeliveredInv == (phase = "collect" /\ ~cancelled) =>
  /\ got.text \o TextsIn(UnderWay) = Texts(Taken)
  /\ IF OpenAIKind(kind) /\ ~Flushed THEN AllCalls = <<>> ELSE Reported(kind, AllCalls, Taken)

\* An element between two sequences.
LEMMA ConcatKeepsFirst ==
  ASSUME NEW S, NEW c \in S, NEW s \in Seq(S), NEW t \in Seq(S), NEW q \in Seq(S), q = <<c>>
  PROVE  s \o (q \o t) = Append(s, c) \o t
<1>1. (s \o q) \o t = s \o (q \o t)
  BY ConcatAssociative
<1>2. s \o <<c>> = Append(s, c)
  OBVIOUS
<1>. QED BY <1>1, <1>2

\* A chunk that moves on the way, or from the way to the loop.
LEMMA FirstOff ==
  ASSUME NEW q \in Seq(ChunkType), q # <<>>, NEW t \in Seq(ChunkType),
         NEW one, one = Append(<<>>, Head(q))
  PROVE  /\ one \in Seq(ChunkType) /\ Tail(q) \in Seq(ChunkType) /\ Head(q) \in ChunkType
         /\ Tail(q) \o t \in Seq(ChunkType)
         /\ q \o t = one \o (Tail(q) \o t)
         /\ t \o q = Append(t, Head(q)) \o Tail(q)
<1>1. /\ Head(q) \in ChunkType /\ Tail(q) \in Seq(ChunkType) /\ one \in Seq(ChunkType)
      /\ q = one \o Tail(q) /\ one = <<Head(q)>>
  OBVIOUS
<1>2. (one \o Tail(q)) \o t = one \o (Tail(q) \o t)
  BY <1>1, ConcatAssociative
<1>3. t \o (one \o Tail(q)) = Append(t, Head(q)) \o Tail(q)
  BY <1>1, ConcatKeepsFirst
<1>4. Tail(q) \o t \in Seq(ChunkType)
  BY <1>1, ConcatProperties
<1>. QED BY <1>1, <1>2, <1>3, <1>4

\* A call more, of a line more.
LEMMA ReportedAppend ==
  ASSUME NEW k, ~OpenAIKind(k), NEW s \in Seq(LineType), NEW l \in LineType, Opens(l),
         NEW calls \in Seq(CallType), Reported(k, calls, s), NEW c \in CallType, c = NewCall(k, l)
  PROVE  Reported(k, Append(calls, c), Append(s, l))
<1>. DEFINE a == Append(calls, c)
<1>1. /\ DOMAIN a = 1 .. Len(calls) + 1 /\ DOMAIN calls = 1 .. Len(calls) /\ Len(calls) \in Nat
      /\ a[Len(calls) + 1] = c /\ \A i \in 1 .. Len(calls) : a[i] = calls[i]
      /\ Len(a) = Len(calls) + 1
  OBVIOUS
<1>. HIDE DEF a
<1>2. \A i : i \in 1 .. Len(calls) + 1 <=> i \in 1 .. Len(calls) \/ i = Len(calls) + 1
  BY <1>1
<1>3. {a[i] : i \in DOMAIN a} = {calls[i] : i \in DOMAIN calls} \cup {c}
  BY <1>1, <1>2
<1>4. Calls(k, Append(s, l)) = Calls(k, s) \cup {NewCall(k, l)}
  BY CallsAppend
<1>5. Cardinality(Opened(Append(s, l))) = Cardinality(Opened(s)) + 1
  BY OpenedAppend
<1>. QED BY <1>1, <1>3, <1>4, <1>5 DEF Reported, a

\* A line that opens no call.
LEMMA ReportedOther ==
  ASSUME NEW k, NEW s \in Seq(LineType), NEW l \in LineType, ~Opens(l),
         OpenAIKind(k) => l.t # "tool", NEW calls, Reported(k, calls, s)
  PROVE  Reported(k, calls, Append(s, l))
<1>1. CASE OpenAIKind(k)
  <2>1. Calls(k, Append(s, l)) = Calls(k, s) /\ Opened(Append(s, l)) = Opened(s)
    BY <1>1, CallsOther
  <2>. QED BY <2>1 DEF Reported
<1>2. CASE ~OpenAIKind(k)
  <2>1. Calls(k, Append(s, l)) = Calls(k, s)
    BY <1>2, CallsAppend
  <2>2. Opened(Append(s, l)) = Opened(s)
    BY OpenedAppend
  <2>. QED BY <2>1, <2>2 DEF Reported
<1>. QED BY <1>1, <1>2

\* No call of no line.
LEMMA ReportedNone ==
  ASSUME NEW k, NEW s, s = <<>>, NEW calls, calls = <<>>
  PROVE  Reported(k, calls, s)
<1>1. DOMAIN s = {} /\ DOMAIN calls = {} /\ Len(calls) = 0
  OBVIOUS
<1>2. Opened(s) = {} /\ Calls(k, s) = {} /\ {calls[i] : i \in DOMAIN calls} = {}
  BY <1>1 DEF Opened, Calls
<1>. QED BY <1>1, <1>2, FS_EmptySet DEF Reported

\* Nothing gathered, nothing sent.
LEMMA WalksNone ==
  ASSUME NEW calls \in Seq(CallType), Walks(calls, {})
  PROVE  calls = <<>>
<1>1. Len(calls) = 0
  BY FS_EmptySet DEF Walks
<1>. QED BY <1>1

\* The types of what is delivered.
LEMMA DeliveredTypes ==
  ASSUME TypeInv
  PROVE  /\ chan \in Seq(ChunkType) /\ rd.out \in Seq(ChunkType) /\ UnderWay \in Seq(ChunkType)
         /\ got.text \in Seq(Nat) /\ got.calls \in Seq(CallType)
         /\ TextsIn(UnderWay) \in Seq(Nat) /\ CallsIn(UnderWay) \in Seq(CallType)
         /\ AllCalls \in Seq(CallType)
         /\ Taken \in Seq(LineType)
<1>1. /\ chan \in Seq(ChunkType) /\ rd.out \in Seq(ChunkType) /\ got.text \in Seq(Nat) /\ got.calls \in Seq(CallType)
  BY DEF TypeInv, TypeOK, ReaderType
<1>2. UnderWay \in Seq(ChunkType)
  BY <1>1, ConcatProperties DEF UnderWay
<1>3. TextsIn(UnderWay) \in Seq(Nat) /\ CallsIn(UnderWay) \in Seq(CallType)
  BY <1>2, InType
<1>4. AllCalls \in Seq(CallType)
  BY <1>1, <1>3, ConcatProperties DEF AllCalls
<1>5. Taken \in Seq(LineType)
  <2>1. arriving \in Seq(LineType) /\ pos \in 0 .. Len(arriving)
    BY DEF TypeInv, TypeOK
  <2>. QED BY <2>1 DEF Taken
<1>. QED BY <1>1, <1>2, <1>3, <1>4, <1>5

\* Three sequences, one after another: of texts ...
LEMMA TextsAssociate ==
  ASSUME NEW a \in Seq(Nat), NEW b \in Seq(Nat), NEW c \in Seq(Nat)
  PROVE  a \o (b \o c) = (a \o b) \o c
<1>. DEFINE Number == Nat
<1>1. a \in Seq(Number) /\ b \in Seq(Number) /\ c \in Seq(Number)
  OBVIOUS
<1>. HIDE DEF Number
<1>. QED BY ONLY <1>1

\* ... and of calls.
LEMMA CallsAssociate ==
  ASSUME NEW a \in Seq(CallType), NEW b \in Seq(CallType), NEW c \in Seq(CallType)
  PROVE  a \o (b \o c) = (a \o b) \o c
BY SMT

\* The reader has nothing left to send and gets more.
LEMMA MoreUnderWay ==
  ASSUME TypeInv, rd.out = <<>>, NEW new \in Seq(ChunkType), chan' = chan, rd'.out = new, got' = got
  PROVE  /\ got'.text \o TextsIn(UnderWay') = (got.text \o TextsIn(UnderWay)) \o TextsIn(new)
         /\ AllCalls' = AllCalls \o CallsIn(new)
<1>1. /\ chan \in Seq(ChunkType) /\ got.text \in Seq(Nat) /\ got.calls \in Seq(CallType)
  BY DeliveredTypes
<1>2. UnderWay = chan
  BY <1>1, ConcatEmptySeq DEF UnderWay
<1>3. UnderWay' = chan \o new
  BY DEF UnderWay
<1>4. /\ TextsIn(chan \o new) = TextsIn(chan) \o TextsIn(new)
      /\ CallsIn(chan \o new) = CallsIn(chan) \o CallsIn(new)
  BY <1>1, InConcat
<1>5. /\ TextsIn(chan) \in Seq(Nat) /\ CallsIn(chan) \in Seq(CallType)
      /\ TextsIn(new) \in Seq(Nat) /\ CallsIn(new) \in Seq(CallType)
  BY <1>1, InType
<1>6. got.text \o (TextsIn(chan) \o TextsIn(new)) = (got.text \o TextsIn(chan)) \o TextsIn(new)
  <2>. DEFINE a == got.text
              b == TextsIn(chan)
              c == TextsIn(new)
  <2>1. a \in Seq(Nat) /\ b \in Seq(Nat) /\ c \in Seq(Nat)
    BY <1>1, <1>5
  <2>. HIDE DEF a, b, c
  <2>2. a \o (b \o c) = (a \o b) \o c
    BY ONLY <2>1, TextsAssociate
  <2>. QED BY <2>2 DEF a, b, c
<1>7. got.calls \o (CallsIn(chan) \o CallsIn(new)) = (got.calls \o CallsIn(chan)) \o CallsIn(new)
  <2>. DEFINE a == got.calls
              b == CallsIn(chan)
              c == CallsIn(new)
  <2>1. a \in Seq(CallType) /\ b \in Seq(CallType) /\ c \in Seq(CallType)
    BY <1>1, <1>5
  <2>. HIDE DEF a, b, c
  <2>2. a \o (b \o c) = (a \o b) \o c
    BY ONLY <2>1, CallsAssociate
  <2>. QED BY <2>2 DEF a, b, c
<1>8. AllCalls' = got.calls \o CallsIn(chan \o new)
  BY <1>3 DEF AllCalls
<1>9. AllCalls = got.calls \o CallsIn(chan)
  BY <1>2 DEF AllCalls
<1>. QED BY <1>2, <1>3, <1>4, <1>6, <1>7, <1>8, <1>9

\* What DeliveredInv promises.
Delivered ==
  /\ got.text \o TextsIn(UnderWay) = Texts(Taken)
  /\ IF OpenAIKind(kind) /\ ~Flushed THEN AllCalls = <<>> ELSE Reported(kind, AllCalls, Taken)

\* A sequence and an element more.
LEMMA ConcatOne ==
  ASSUME NEW S, NEW s \in Seq(S), NEW t, NEW c \in S, t = <<c>>
  PROVE  s \o t = Append(s, c)
OBVIOUS

\* The text of a line more.
LEMMA TextsNext ==
  ASSUME NEW s \in Seq(LineType), NEW l \in LineType, NEW t \in Seq(Nat), t = Texts(s)
  PROVE  t \o LineText(l) = Texts(Append(s, l))
<1>1. l.n \in Nat
  BY DEF LineType
<1>2. Texts(Append(s, l)) = IF l.t = "text" /\ l.n > 0 THEN Append(Texts(s), l.n) ELSE Texts(s)
  BY TextsAppend
<1>3. CASE l.t = "text" /\ l.n > 0
  <2>1. LineText(l) = <<l.n>>
    BY <1>3 DEF LineText
  <2>. QED BY <1>1, <1>2, <1>3, <2>1, ConcatOne
<1>4. CASE ~(l.t = "text" /\ l.n > 0)
  <2>1. LineText(l) = <<>>
    BY <1>4 DEF LineText
  <2>. QED BY <1>2, <1>4, <2>1, ConcatEmptySeq
<1>. QED BY <1>3, <1>4

\* Calls gathered before they are flushed, all of them at once, after none.
LEMMA FlushReports ==
  ASSUME NEW k, OpenAIKind(k), NEW s \in Seq(LineType), WellFormed(k, s), NEW flushed \in BOOLEAN,
         NEW calls \in Seq(CallType), NEW new \in Seq(CallType),
         IF flushed THEN Reported(k, calls, s) ELSE calls = <<>>,
         Walks(new, Named(IF flushed THEN {} ELSE Gathered(s)))
  PROVE  Reported(k, calls \o new, s)
<1>1. CASE flushed
  <2>1. Walks(new, {})
    BY <1>1, NamedNone
  <2>2. new = <<>>
    BY <2>1, WalksNone
  <2>3. calls \o new = calls
    BY <2>2, ConcatEmptySeq
  <2>. QED BY <1>1, <2>3
<1>2. CASE ~flushed
  <2>1. calls \o new = new
    BY <1>2, ConcatEmptySeq
  <2>2. Walks(new, Named(Gathered(s)))
    BY <1>2
  <2>3. Reported(k, new, s)
    BY <2>2, GatheredReported
  <2>. QED BY <2>1, <2>3
<1>. QED BY <1>1, <1>2

\* A line is taken.
LEMMA DeliversLine ==
  ASSUME TypeInv, ReadInv, ReaderTakesLine, Delivered
  PROVE  Delivered'
<1>. DEFINE l == arriving[pos + 1]
            s == Taken
            new == rd'.out
<1>1. /\ reader = "line" /\ kind' = kind /\ chan' = chan /\ got' = got
  BY Zenon DEF ReaderTakesLine, fixed, loopVars
<1>2. pos < Len(arriving) /\ rd.out = <<>> /\ Flushed \in BOOLEAN
  BY <1>1 DEF TypeInv, TypeOK, ReadInv, Flushed
<1>3. s \in Seq(LineType) /\ l \in LineType
  BY <1>2, TakenNext
<1>4. /\ Taken' = Append(s, l) /\ rd' \in Readers
      /\ rd'.over <=> (l.t = "done" /\ kind # "gemini")
      /\ TextsIn(new) = LineText(l)
      /\ ~OpenAIKind(kind) => CallsIn(new) = IF Opens(l) THEN <<NewCall(kind, l)>> ELSE <<>>
      /\ OpenAIKind(kind) =>
           /\ l.t \in {"finish", "done"} => Walks(CallsIn(new), Named(rd.pending))
           /\ l.t \notin {"finish", "done"} => CallsIn(new) = <<>>
  BY TakesLine
<1>5. new \in Seq(ChunkType)
  BY <1>4 DEF Readers, ReaderType
<1>6. /\ WellFormed(kind, s)
      /\ Flushed' <=> Flushed \/ rd'.over \/ l.t = "finish"
      /\ OpenAIKind(kind) /\ l.t = "tool" => ~Flushed
  BY GatheredNext
<1>7. rd.pending = IF OpenAIKind(kind) /\ ~Flushed THEN Gathered(s) ELSE {}
  BY DEF ReadInv
<1>8. /\ got'.text \o TextsIn(UnderWay') = (got.text \o TextsIn(UnderWay)) \o TextsIn(new)
      /\ AllCalls' = AllCalls \o CallsIn(new)
  BY <1>1, <1>2, <1>5, MoreUnderWay
<1>9. /\ TextsIn(UnderWay) \in Seq(Nat) /\ got.text \in Seq(Nat) /\ AllCalls \in Seq(CallType)
  BY DeliveredTypes
<1>10. CallsIn(new) \in Seq(CallType)
  BY <1>5, InType
<1>. DEFINE text == got.text \o TextsIn(UnderWay)
            calls == AllCalls
            more == CallsIn(new)
<1>11. text = Texts(s) /\ text \in Seq(Nat)
  BY <1>9, ConcatProperties DEF Delivered
<1>12. IF OpenAIKind(kind) /\ ~Flushed THEN calls = <<>> ELSE Reported(kind, calls, s)
  BY DEF Delivered
<1>. HIDE DEF l, s, new, text, calls, more
<1>13. got'.text \o TextsIn(UnderWay') = Texts(Taken')
  <2>1. text \o LineText(l) = Texts(Append(s, l))
    BY <1>3, <1>11, TextsNext
  <2>. QED BY <1>4, <1>8, <2>1 DEF text
<1>14. IF OpenAIKind(kind) /\ ~Flushed' THEN calls \o more = <<>> ELSE Reported(kind, calls \o more, Append(s, l))
  <2>0. calls \in Seq(CallType) /\ more \in Seq(CallType)
    BY <1>9, <1>10 DEF calls, more
  <2>1. CASE ~OpenAIKind(kind) /\ Opens(l)
    <3>1. more = <<NewCall(kind, l)>>
      BY <1>4, <2>1 DEF more
    <3>2. NewCall(kind, l) \in CallType
      BY <2>0, <3>1
    <3>3. calls \o more = Append(calls, NewCall(kind, l))
      BY <2>0, <3>1, <3>2, ConcatOne
    <3>4. Reported(kind, calls, s)
      BY <1>12, <2>1
    <3>5. Reported(kind, Append(calls, NewCall(kind, l)), Append(s, l))
      BY <1>3, <2>0, <2>1, <3>2, <3>4, ReportedAppend
    <3>. QED BY <2>1, <3>3, <3>5
  <2>2. CASE ~OpenAIKind(kind) /\ ~Opens(l)
    <3>1. calls \o more = calls
      BY <1>4, <2>0, <2>2, ConcatEmptySeq DEF more
    <3>2. Reported(kind, calls, s)
      BY <1>12, <2>2
    <3>3. Reported(kind, calls, Append(s, l))
      BY <1>3, <2>2, <3>2, ReportedOther
    <3>. QED BY <2>2, <3>1, <3>3
  <2>3. CASE OpenAIKind(kind) /\ l.t \in {"finish", "done"}
    <3>1. Flushed'
      BY <1>4, <1>6, <2>3 DEF OpenAIKind
    <3>2. Walks(more, Named(IF Flushed THEN {} ELSE Gathered(s)))
      BY <1>4, <1>7, <2>3 DEF more
    <3>3. IF Flushed THEN Reported(kind, calls, s) ELSE calls = <<>>
      BY <1>12, <2>3
    <3>. DEFINE f == Flushed
    <3>4. f \in BOOLEAN
      BY <1>2
    <3>5. Walks(more, Named(IF f THEN {} ELSE Gathered(s)))
      BY <3>2
    <3>6. IF f THEN Reported(kind, calls, s) ELSE calls = <<>>
      BY <3>3
    <3>. HIDE DEF f
    <3>7. Reported(kind, calls \o more, s)
      BY <1>3, <1>6, <2>0, <2>3, <3>4, <3>5, <3>6, FlushReports
    <3>8. ~Opens(l) /\ l.t # "tool"
      BY <2>3 DEF Opens
    <3>9. Reported(kind, calls \o more, Append(s, l))
      BY <1>3, <3>7, <3>8, ReportedOther
    <3>. QED BY <3>1, <3>9
  <2>4. CASE OpenAIKind(kind) /\ l.t = "tool"
    <3>1. ~Flushed /\ ~Flushed'
      BY <1>4, <1>6, <2>4
    <3>2. calls = <<>> /\ more = <<>>
      BY <1>4, <1>12, <2>4, <3>1 DEF more
    <3>3. calls \o more = <<>>
      BY <2>0, <3>2, ConcatEmptySeq
    <3>. QED BY <2>4, <3>1, <3>3
  <2>5. CASE OpenAIKind(kind) /\ l.t \notin {"finish", "done", "tool"}
    <3>1. Flushed' <=> Flushed
      BY <1>4, <1>6, <2>5
    <3>2. calls \o more = calls
      BY <1>4, <2>0, <2>5, ConcatEmptySeq DEF more
    <3>3. ~Opens(l) /\ l.t # "tool"
      BY <2>5 DEF Opens
    <3>4. Reported(kind, calls, s) => Reported(kind, calls, Append(s, l))
      BY <1>3, <3>3, ReportedOther
    <3>. QED BY <1>12, <2>5, <3>1, <3>2, <3>4
  <2>. QED BY <2>1, <2>2, <2>3, <2>4, <2>5
<1>. QED BY <1>1, <1>4, <1>8, <1>13, <1>14 DEF Delivered, calls, more

\* The body ends.
LEMMA DeliversAtEnd ==
  ASSUME TypeInv, ReadInv, ReaderAtEnd, Delivered
  PROVE  Delivered'
<1>. DEFINE s == Taken
            new == rd'.out
<1>1. /\ reader = "read" /\ kind' = kind /\ chan' = chan /\ got' = got /\ pos' = pos /\ arriving' = arriving
      /\ rd' \in AtEnd(kind, rd, broken \/ cancelled)
  BY Zenon DEF ReaderAtEnd, fixed, loopVars, apiVars
<1>2. rd \in Readers /\ rd.out = <<>> /\ Flushed \in BOOLEAN
  BY <1>1 DEF TypeInv, TypeOK, ReadInv, Flushed, Readers
<1>3. s \in Seq(LineType) /\ Taken' = s /\ WellFormed(kind, s)
  <2>1. WellFormed(kind, arriving) /\ arriving \in Seq(LineType) /\ pos \in 0 .. Len(arriving)
    BY DEF ReadInv, TypeInv, TypeOK
  <2>2. WellFormed(kind, SubSeq(arriving, 1, pos))
    BY <2>1, WellFormedPrefix
  <2>. QED BY <1>1, <2>2, DeliveredTypes DEF Taken
<1>4. /\ TextsIn(new) = <<>> /\ rd'.over
      /\ OpenAIKind(kind) => Walks(CallsIn(new), Named(rd.pending))
      /\ ~OpenAIKind(kind) => CallsIn(new) = <<>>
  BY <1>1, <1>2, AtEndEmits
<1>5. new \in Seq(ChunkType)
  <2>1. rd' \in Readers
    BY <1>1, <1>2, AtEndType
  <2>. QED BY <2>1 DEF Readers, ReaderType
<1>6. Flushed'
  BY <1>4 DEF Flushed
<1>7. rd.pending = IF OpenAIKind(kind) /\ ~Flushed THEN Gathered(s) ELSE {}
  BY DEF ReadInv
<1>8. /\ got'.text \o TextsIn(UnderWay') = (got.text \o TextsIn(UnderWay)) \o TextsIn(new)
      /\ AllCalls' = AllCalls \o CallsIn(new)
  BY <1>1, <1>2, <1>5, MoreUnderWay
<1>9. /\ TextsIn(UnderWay) \in Seq(Nat) /\ got.text \in Seq(Nat) /\ AllCalls \in Seq(CallType)
  BY DeliveredTypes
<1>10. CallsIn(new) \in Seq(CallType)
  BY <1>5, InType
<1>. DEFINE text == got.text \o TextsIn(UnderWay)
            calls == AllCalls
            more == CallsIn(new)
            f == Flushed
<1>11. text = Texts(s) /\ text \in Seq(Nat)
  BY <1>9, ConcatProperties DEF Delivered
<1>12. IF OpenAIKind(kind) /\ ~f THEN calls = <<>> ELSE Reported(kind, calls, s)
  BY DEF Delivered
<1>13. f \in BOOLEAN /\ calls \in Seq(CallType) /\ more \in Seq(CallType)
  BY <1>2, <1>9, <1>10
<1>14. OpenAIKind(kind) => Walks(more, Named(IF f THEN {} ELSE Gathered(s)))
  BY <1>4, <1>7
<1>. HIDE DEF s, new, text, calls, more, f
<1>15. text \o TextsIn(new) = text
  BY <1>4, <1>11, ConcatEmptySeq
<1>16. Reported(kind, calls \o more, s)
  <2>1. CASE OpenAIKind(kind)
    <3>1. IF f THEN Reported(kind, calls, s) ELSE calls = <<>>
      BY <1>12, <2>1
    <3>2. Walks(more, Named(IF f THEN {} ELSE Gathered(s)))
      BY <1>14, <2>1
    <3>. QED BY <1>3, <1>13, <2>1, <3>1, <3>2, FlushReports
  <2>2. CASE ~OpenAIKind(kind)
    <3>1. calls \o more = calls
      BY <1>4, <1>13, <2>2, ConcatEmptySeq DEF more
    <3>. QED BY <1>12, <2>2, <3>1
  <2>. QED BY <2>1, <2>2
<1>. QED BY <1>1, <1>3, <1>6, <1>8, <1>11, <1>15, <1>16 DEF Delivered, calls, more, text

\* A step that leaves the chunks on their way, and what has been taken.
LEMMA DeliveredSame ==
  ASSUME Delivered, kind' = kind, arriving' = arriving, pos' = pos, got' = got,
         rd'.over = rd.over, UnderWay' = UnderWay
  PROVE  Delivered'
<1>1. Taken' = Taken
  BY DEF Taken
<1>2. Flushed' = Flushed
  BY DEF Flushed
<1>3. AllCalls' = AllCalls
  BY DEF AllCalls
<1>. QED BY <1>1, <1>2, <1>3 DEF Delivered

\* A chunk goes from the reader to the channel.
LEMMA DeliversSend ==
  ASSUME TypeInv, ReaderSends, Delivered
  PROVE  Delivered'
<1>1. /\ reader = "send" /\ chan' = Append(chan, Head(rd.out)) /\ rd' = [rd EXCEPT !.out = Tail(@)]
      /\ pos' = pos /\ kind' = kind /\ arriving' = arriving /\ got' = got
  BY Zenon DEF ReaderSends, fixed, loopVars, apiVars
<1>2. rd.out # <<>> /\ rd.out \in Seq(ChunkType) /\ chan \in Seq(ChunkType)
  BY <1>1, DeliveredTypes DEF TypeInv
<1>3. rd'.over = rd.over /\ rd'.out = Tail(rd.out)
  BY <1>1 DEF TypeInv, TypeOK, ReaderType
<1>4. UnderWay' = UnderWay
  <2>. DEFINE one == Append(<<>>, Head(rd.out))
  <2>1. chan \o rd.out = Append(chan, Head(rd.out)) \o Tail(rd.out)
    BY <1>2, FirstOff
  <2>. QED BY <1>1, <1>3, <2>1 DEF UnderWay
<1>. QED BY <1>1, <1>3, <1>4, DeliveredSame

\* A chunk goes from the channel to the loop.
LEMMA DeliversCollect ==
  ASSUME TypeInv, Collect, ~cancelled, Delivered
  PROVE  Delivered'
<1>1. /\ chan # <<>> /\ chan' = Tail(chan) /\ got' = Collected(Head(chan))
      /\ kind' = kind /\ arriving' = arriving /\ pos' = pos /\ rd' = rd
  BY Zenon DEF Collect, fixed, apiVars, readerVars
<1>2. chan \in Seq(ChunkType) /\ rd.out \in Seq(ChunkType) /\ got.text \in Seq(Nat) /\ got.calls \in Seq(CallType)
  BY DeliveredTypes
<1>. DEFINE c == Head(chan)
            one == Append(<<>>, c)
            rest == Tail(chan) \o rd.out
<1>3. /\ one \in Seq(ChunkType) /\ c \in ChunkType
      /\ rest \in Seq(ChunkType)
      /\ UnderWay = one \o rest
  <2>1. one = Append(<<>>, Head(chan))
    OBVIOUS
  <2>. HIDE DEF one
  <2>2. /\ one \in Seq(ChunkType) /\ Head(chan) \in ChunkType
        /\ Tail(chan) \o rd.out \in Seq(ChunkType) /\ chan \o rd.out = one \o (Tail(chan) \o rd.out)
    BY <1>1, <1>2, <2>1, FirstOff
  <2>. QED BY <2>2 DEF UnderWay
<1>4. UnderWay' = rest
  BY <1>1 DEF UnderWay
<1>. HIDE DEF rest
<1>5. /\ TextsIn(one) = IF c.t = "text" THEN <<c.n>> ELSE <<>>
      /\ CallsIn(one) = IF c.t = "call" THEN <<c.call>> ELSE <<>>
  <2>1. one = Append(<<>>, c)
    OBVIOUS
  <2>. HIDE DEF one, c
  <2>. QED BY <1>3, <2>1, OneChunk
<1>6. c.n \in Nat /\ c.call \in CallType
  BY <1>3 DEF ChunkType
<1>7. /\ got'.text = IF c.t = "text" THEN Append(got.text, c.n) ELSE got.text
      /\ got'.calls = IF c.t = "call" THEN Append(got.calls, c.call) ELSE got.calls
  BY <1>1 DEF Collected, TypeInv, TypeOK
<1>. HIDE DEF one, c
<1>8. got'.text = got.text \o TextsIn(one)
  <2>1. CASE c.t = "text"
    <3>1. TextsIn(one) = <<c.n>> /\ got'.text = Append(got.text, c.n)
      BY <1>5, <1>7, <2>1
    <3>2. got.text \o TextsIn(one) = Append(got.text, c.n)
      BY <1>2, <1>6, <3>1, ConcatOne
    <3>. QED BY <3>1, <3>2
  <2>2. CASE c.t # "text"
    BY <1>2, <1>5, <1>7, <2>2, ConcatEmptySeq
  <2>. QED BY <2>1, <2>2
<1>9. got'.calls = got.calls \o CallsIn(one)
  <2>1. CASE c.t = "call"
    <3>1. CallsIn(one) = <<c.call>> /\ got'.calls = Append(got.calls, c.call)
      BY <1>5, <1>7, <2>1
    <3>2. got.calls \o CallsIn(one) = Append(got.calls, c.call)
      BY <1>2, <1>6, <3>1, ConcatOne
    <3>. QED BY <3>1, <3>2
  <2>2. CASE c.t # "call"
    BY <1>2, <1>5, <1>7, <2>2, ConcatEmptySeq
  <2>. QED BY <2>1, <2>2
<1>10. TextsIn(UnderWay) = TextsIn(one) \o TextsIn(rest) /\ CallsIn(UnderWay) = CallsIn(one) \o CallsIn(rest)
  BY <1>3, InConcat
<1>11. /\ TextsIn(one) \in Seq(Nat) /\ CallsIn(one) \in Seq(CallType)
       /\ TextsIn(rest) \in Seq(Nat) /\ CallsIn(rest) \in Seq(CallType)
  BY <1>3, InType
<1>12. got'.text \o TextsIn(rest) = got.text \o TextsIn(UnderWay)
  <2>. DEFINE x == got.text
              y == TextsIn(one)
              z == TextsIn(rest)
  <2>1. x \in Seq(Nat) /\ y \in Seq(Nat) /\ z \in Seq(Nat)
    BY <1>2, <1>11
  <2>. HIDE DEF x, y, z
  <2>2. x \o (y \o z) = (x \o y) \o z
    BY ONLY <2>1, TextsAssociate
  <2>. QED BY <1>8, <1>10, <2>2 DEF x, y, z
<1>13. got'.calls \o CallsIn(rest) = AllCalls
  <2>. DEFINE x == got.calls
              y == CallsIn(one)
              z == CallsIn(rest)
  <2>1. x \in Seq(CallType) /\ y \in Seq(CallType) /\ z \in Seq(CallType)
    BY <1>2, <1>11
  <2>. HIDE DEF x, y, z
  <2>2. x \o (y \o z) = (x \o y) \o z
    BY ONLY <2>1, CallsAssociate
  <2>. QED BY <1>9, <1>10, <2>2 DEF x, y, z, AllCalls
<1>14. Taken' = Taken /\ Flushed' = Flushed
  BY <1>1 DEF Taken, Flushed
<1>15. got'.text \o TextsIn(UnderWay') = Texts(Taken')
  BY <1>4, <1>12, <1>14 DEF Delivered
<1>16. AllCalls' = AllCalls
  BY <1>4, <1>13 DEF AllCalls
<1>. QED BY <1>1, <1>14, <1>15, <1>16 DEF Delivered

\* An answer begins: nothing is left of the one before.
LEMMA DeliversOpen ==
  ASSUME TypeInv, QuietInv, NEW reply \in Replies[kind], NEW err \in BOOLEAN,
         NEW n \in 0 .. Len(reply), DialOpens(reply, n, err)
  PROVE  Delivered'
<1>1. /\ phase = "dial" /\ arriving' = SubSeq(reply, 1, n)
      /\ pos' = 0 /\ rd' = Fresh /\ chan' = chan /\ got' = got
  BY DEF DialOpens
<1>2. chan = <<>> /\ got = Nothing
  BY <1>1 DEF QuietInv
<1>3. reply \in Seq(LineType)
  BY ReplyAssumption DEF TypeInv, TypeOK
<1>4. SubSeq(reply, 1, n) \in Seq(LineType)
  BY <1>3
<1>5. Taken' = <<>>
  BY <1>1, <1>4 DEF Taken
<1>6. rd'.out = <<>> /\ got'.text = <<>> /\ got'.calls = <<>>
  BY <1>1, <1>2 DEF Fresh, Nothing
<1>7. UnderWay' = <<>>
  BY <1>1, <1>2, <1>6 DEF UnderWay
<1>8. TextsIn(UnderWay') = <<>> /\ CallsIn(UnderWay') = <<>>
  BY <1>7, InNone
<1>9. AllCalls' = <<>> /\ got'.text \o TextsIn(UnderWay') = <<>>
  BY <1>6, <1>8 DEF AllCalls
<1>10. Texts(Taken') = <<>>
  BY <1>5, TextsNone
<1>11. Reported(kind', AllCalls', Taken')
  BY <1>5, <1>9, ReportedNone
<1>. QED BY <1>9, <1>10, <1>11 DEF Delivered

-----------------------------------------------------------------------------
RunInv == TypeInv /\ ReadInv /\ ReaderInv /\ QuietInv /\ DeliveredInv

\* Between two answers nothing is on its way.
LEMMA QuietStep == ASSUME TypeInv, ReaderInv, QuietInv, [Next]_vars PROVE QuietInv'
<1>1. CASE ReaderStep
  <2>1. UNCHANGED <<phase, outcome, got>>
    BY <1>1 DEF ReaderStep, ReaderStops, ReaderReads, ReaderTakesLine, ReaderAtEnd, ReaderSends, ReaderCloses, loopVars
  <2>2. ~AtRest
    BY <1>1 DEF ReaderStep, ReaderStops, ReaderReads, ReaderTakesLine, ReaderAtEnd, ReaderSends, ReaderCloses, AtRest
  <2>3. phase \notin {"request", "dial", "backoff"}
    BY <2>2 DEF ReaderInv
  <2>. QED BY <2>1, <2>3 DEF QuietInv
<1>2. CASE Request
  BY <1>2 DEF Request, End, QuietInv
<1>3. CASE NotConfigured \/ Backoff \/ \E e \in Errors : DialFails(e)
  <2>1. /\ phase \in {"dial", "backoff"} /\ phase' \in {"dial", "backoff", "ended"}
        /\ UNCHANGED <<chan, got>>
    BY <1>3 DEF NotConfigured, Backoff, DialFails, RetryOrFail, Fail, End
  <2>. QED BY <2>1 DEF QuietInv
<1>4. ASSUME NEW reply \in Replies[kind], NEW err \in BOOLEAN,
             NEW n \in 0 .. Len(reply), DialOpens(reply, n, err)
      PROVE  QuietInv'
  BY <1>4 DEF DialOpens, QuietInv
<1>5. CASE Collect
  <2>1. phase' \in {"collect", "ended"}
    BY <1>5 DEF Collect, End
  <2>. QED BY <2>1 DEF QuietInv
<1>6. CASE Record
  <2>1. phase' \in {"request", "ended"} /\ chan' = <<>>
    BY <1>6 DEF Record, End
  <2>. QED BY <2>1 DEF QuietInv
<1>7. CASE Cancel \/ UNCHANGED vars
  BY <1>7 DEF Cancel, vars, loopVars, QuietInv
<1>. QED BY <1>1, <1>2, <1>3, <1>4, <1>5, <1>6, <1>7 DEF Next, LoopStep

\* Every step keeps DeliveredInv.
LEMMA DeliveredStep == ASSUME RunInv, [Next]_vars PROVE DeliveredInv'
<1>. SUFFICES ASSUME phase' = "collect", ~cancelled' PROVE Delivered'
  BY DEF DeliveredInv, Delivered
<1>1. ~cancelled /\ ~Cancel
  BY DEF Next, LoopStep, Request, NotConfigured, Backoff, Collect, Record, DialFails, DialOpens, Cancel,
         ReaderStep, ReaderStops, ReaderReads, ReaderTakesLine, ReaderAtEnd, ReaderSends, ReaderCloses, vars
<1>2. ASSUME phase = "collect" PROVE Delivered
  BY <1>1, <1>2 DEF RunInv, DeliveredInv, Delivered
<1>3. CASE ReaderStep
  <2>1. phase = "collect" /\ UNCHANGED <<kind, arriving, got>>
    BY <1>3 DEF ReaderStep, ReaderStops, ReaderReads, ReaderTakesLine, ReaderAtEnd, ReaderSends, ReaderCloses,
                loopVars, apiVars, fixed
  <2>2. Delivered
    BY <1>2, <2>1
  <2>3. CASE ReaderTakesLine
    BY <2>2, <2>3, DeliversLine DEF RunInv
  <2>4. CASE ReaderAtEnd
    BY <2>2, <2>4, DeliversAtEnd DEF RunInv
  <2>5. CASE ReaderSends
    BY <2>2, <2>5, DeliversSend DEF RunInv
  <2>6. CASE ReaderStops \/ ReaderCloses \/ \E k \in 1 .. Len(arriving) : ReaderReads(k)
    <3>1. UNCHANGED <<pos, rd, chan>>
      BY <2>6 DEF ReaderStops, ReaderCloses, ReaderReads
    <3>2. UnderWay' = UnderWay
      BY <3>1 DEF UnderWay
    <3>. QED BY <2>1, <2>2, <3>1, <3>2, DeliveredSame
  <2>. QED BY <1>3, <2>3, <2>4, <2>5, <2>6 DEF ReaderStep
<1>4. CASE Collect
  <2>1. phase = "collect"
    BY <1>4 DEF Collect
  <2>. QED BY <1>1, <1>2, <1>4, <2>1, DeliversCollect DEF RunInv
<1>5. ASSUME NEW reply \in Replies[kind], NEW err \in BOOLEAN,
             NEW n \in 0 .. Len(reply), DialOpens(reply, n, err)
      PROVE  Delivered'
  BY <1>5, DeliversOpen DEF RunInv
<1>6. CASE Request \/ NotConfigured \/ Backoff \/ Record \/ \E e \in Errors : DialFails(e)
  BY <1>1, <1>6 DEF Request, NotConfigured, Backoff, Record, DialFails, RetryOrFail, Fail, End
<1>7. CASE UNCHANGED vars
  <2>1. UNCHANGED <<phase, kind, arriving, pos, got, rd, chan>>
    BY <1>7 DEF vars, fixed, apiVars, readerVars, loopVars
  <2>2. UnderWay' = UnderWay
    BY <2>1 DEF UnderWay
  <2>. QED BY <1>2, <2>1, <2>2, DeliveredSame
<1>. QED BY <1>1, <1>3, <1>4, <1>5, <1>6, <1>7 DEF Next, LoopStep

\* The invariant of the run holds at the start ...
LEMMA RunStart == Init => RunInv
<1>1. Init => QuietInv /\ DeliveredInv
  BY DEF Init, QuietInv, DeliveredInv
<1>. QED BY <1>1, InitTypes, ReadStart, RestStart DEF RunInv

\* ... and every step keeps it.
LEMMA RunStep == RunInv /\ [Next]_vars => RunInv'
<1>. SUFFICES ASSUME RunInv, [Next]_vars PROVE RunInv'
  OBVIOUS
<1>1. TypeInv' /\ ReadInv' /\ ReaderInv' /\ QuietInv' /\ DeliveredInv'
  BY TypeStep, ReadStep, RestStep, QuietStep, DeliveredStep DEF RunInv
<1>. QED BY <1>1 DEF RunInv

\* When the reader is done everything has been taken and collected.
LEMMA ArrivedIsRecorded == RunInv => RecordedIsWhatArrived
<1>. SUFFICES ASSUME RunInv, phase = "collect", chan = <<>>, reader = "done", ~cancelled
              PROVE  /\ got.text = Texts(arriving)
                     /\ Reported(kind, got.calls, arriving)
  BY DEF RecordedIsWhatArrived, Reported
<1>1. rd.over /\ rd.out = <<>> /\ pos = Len(arriving)
  BY DEF RunInv, ReadInv
<1>2. arriving \in Seq(LineType) /\ Taken = arriving
  BY <1>1 DEF RunInv, TypeInv, TypeOK, Taken
<1>3. UnderWay = <<>>
  BY <1>1 DEF UnderWay
<1>4. TextsIn(UnderWay) = <<>> /\ CallsIn(UnderWay) = <<>>
  BY <1>3, InNone
<1>5. got.text \in Seq(Nat) /\ got.calls \in Seq(CallType)
  BY DeliveredTypes DEF RunInv
<1>6. got.text \o TextsIn(UnderWay) = got.text
  BY <1>4, <1>5, ConcatEmptySeq
<1>7. AllCalls = got.calls
  BY <1>4, <1>5, ConcatEmptySeq DEF AllCalls
<1>8. Flushed
  BY <1>1 DEF Flushed
<1>. QED BY <1>2, <1>6, <1>7, <1>8 DEF RunInv, DeliveredInv

\* A reply that is about to be recorded is what arrived.
THEOREM ReplyIsWhatArrived == Spec => []RecordedIsWhatArrived
BY RunStart, RunStep, ArrivedIsRecorded, PTL DEF Spec

(***************************************************************************)
(* The history, and the requests made of it.                               *)
(***************************************************************************)

\* What the readers make of a call: an ID, which Gemini's makes of the name.
GoodCall(k, c) ==
  /\ k = "gemini" => c.id = MadeUpID(c.name)
  /\ OpenAIKind(k) => c.id # None

\* Only what the assistant says has calls, only a result an ID, and the calls
\* of a message are answered by the messages that follow it.
Sound(k, h) ==
  /\ \A p \in DOMAIN h : h[p].role # "assistant" => h[p].calls = <<>>
  /\ \A p \in DOMAIN h : h[p].role # "tool" => h[p].id = None
  /\ \A p \in DOMAIN h : \A i \in DOMAIN h[p].calls :
       /\ p + i \in DOMAIN h /\ h[p + i] = Result(h[p].calls[i])
       /\ GoodCall(k, h[p].calls[i])

\* The prompt of the system comes first, and is the only one.
SystemFirst(h) ==
  /\ h # <<>> /\ h[1].role = "system"
  /\ \A p \in 2 .. Len(h) : h[p].role # "system"

\* What RequestAnswersCalls says, of any body.
AnswersIn(k, b, q, id) ==
  /\ q \in DOMAIN b.entries
  /\ Len(b.entries[q].parts) = 1
  /\ b.entries[q].parts[1].type = "result"
  /\ b.entries[q].parts[1].id = IF k = "gemini" THEN MadeUpID(id) ELSE id

EntryAnswers(k, b, p, parts) ==
  \E first \in 1 .. Len(parts) + 1 :
    /\ \A i \in 1 .. first - 1 : parts[i].type # "call"
    /\ \A i \in first .. Len(parts) :
         parts[i].type = "call" /\ AnswersIn(k, b, p + i - first + 1, parts[i].id)

BodyAnswers(k, b) == \A p \in DOMAIN b.entries : EntryAnswers(k, b, p, b.entries[p].parts)

\* Parts that are calls, after parts that are not.
LEMMA PartsAnswer ==
  ASSUME NEW k, NEW b, NEW p \in Nat, NEW pre \in Seq(PartType), NEW calls \in Seq(PartType),
         \A i \in 1 .. Len(pre) : pre[i].type # "call",
         \A j \in 1 .. Len(calls) : calls[j].type = "call" /\ AnswersIn(k, b, p + j, calls[j].id)
  PROVE  EntryAnswers(k, b, p, pre \o calls)
<1>. DEFINE parts == pre \o calls
            first == Len(pre) + 1
<1>1. /\ Len(parts) = Len(pre) + Len(calls) /\ Len(pre) \in Nat /\ Len(calls) \in Nat
      /\ \A i \in 1 .. Len(pre) + Len(calls) : parts[i] = IF i <= Len(pre) THEN pre[i] ELSE calls[i - Len(pre)]
  BY ConcatProperties
<1>. HIDE DEF parts
<1>2. first \in 1 .. Len(parts) + 1
  BY <1>1
<1>3. ASSUME NEW i \in 1 .. first - 1 PROVE parts[i].type # "call"
  <2>1. i \in 1 .. Len(pre) /\ i \in 1 .. Len(pre) + Len(calls) /\ i <= Len(pre)
    BY <1>1
  <2>2. parts[i] = pre[i]
    BY <1>1, <2>1
  <2>. QED BY <2>1, <2>2
<1>4. ASSUME NEW i \in first .. Len(parts)
      PROVE  parts[i].type = "call" /\ AnswersIn(k, b, p + i - first + 1, parts[i].id)
  <2>. DEFINE j == i - Len(pre)
  <2>1. /\ j \in 1 .. Len(calls) /\ i \in 1 .. Len(pre) + Len(calls) /\ ~(i <= Len(pre))
        /\ p + i - first + 1 = p + j
    BY <1>1
  <2>2. parts[i] = calls[j]
    BY <1>1, <2>1
  <2>. HIDE DEF j, first
  <2>. QED BY <2>1, <2>2
<1>. HIDE DEF first
<1>5. EntryAnswers(k, b, p, parts)
  BY <1>2, <1>3, <1>4 DEF EntryAnswers
<1>. QED BY <1>5 DEF parts

\* Parts that are one that is not a call.
LEMMA OnePartAnswers ==
  ASSUME NEW k, NEW b, NEW p, NEW part, part.type # "call"
  PROVE  EntryAnswers(k, b, p, <<part>>)
<1>1. Len(<<part>>) = 1 /\ <<part>>[1] = part
  OBVIOUS
<1>2. 2 \in 1 .. Len(<<part>>) + 1 /\ \A i \in 1 .. 2 - 1 : <<part>>[i].type # "call"
  BY <1>1
<1>3. \A i \in 2 .. Len(<<part>>) : FALSE
  BY <1>1
<1>. QED BY <1>2, <1>3 DEF EntryAnswers

-----------------------------------------------------------------------------
\* Texts are no calls.
LEMMA TextPartIs ==
  ASSUME NEW n \in Nat
  PROVE  /\ TextPart(n).type # "call" /\ IfAny(n) \in Seq(PartType)
         /\ \A i \in 1 .. Len(IfAny(n)) : IfAny(n)[i].type # "call"
<1>1. TextPart(n).type # "call"
  BY DEF TextPart, Part
<1>2. \A i \in 1 .. Len(IfAny(n)) : IfAny(n)[i] = TextPart(n)
  BY DEF IfAny
<1>. QED BY <1>1, <1>2, PartTypes

\* A result has the ID of its message.
LEMMA ResultPartIs == \A m : ResultPart(m).type = "result" /\ ResultPart(m).id = m.id
BY DEF ResultPart, Part

\* The calls of a message, as parts.
LEMMA CallPartsAre ==
  ASSUME NEW m \in MessageType
  PROVE  /\ CallParts(m) \in Seq(PartType) /\ GeminiCalls(m) \in Seq(PartType)
         /\ Len(CallParts(m)) = Len(m.calls) /\ Len(GeminiCalls(m)) = Len(m.calls)
         /\ DOMAIN m.calls = 1 .. Len(m.calls)
         /\ \A j \in 1 .. Len(m.calls) :
              /\ CallParts(m)[j].type = "call" /\ CallParts(m)[j].id = m.calls[j].id
              /\ GeminiCalls(m)[j].type = "call" /\ GeminiCalls(m)[j].id = m.calls[j].name
<1>1. m.calls \in Seq(CallType)
  BY DEF MessageType
<1>2. DOMAIN m.calls = 1 .. Len(m.calls) /\ Len(m.calls) \in Nat
  BY <1>1
<1>3. DOMAIN CallParts(m) = 1 .. Len(m.calls) /\ DOMAIN GeminiCalls(m) = 1 .. Len(m.calls)
  BY <1>2 DEF CallParts, GeminiCalls
<1>4. CallParts(m) \in Seq(PartType) /\ GeminiCalls(m) \in Seq(PartType)
  BY PartTypes
<1>5. Len(CallParts(m)) = Len(m.calls) /\ Len(GeminiCalls(m)) = Len(m.calls)
  BY <1>2, <1>3, <1>4
<1>6. ASSUME NEW j \in 1 .. Len(m.calls)
      PROVE  /\ CallParts(m)[j].type = "call" /\ CallParts(m)[j].id = m.calls[j].id
             /\ GeminiCalls(m)[j].type = "call" /\ GeminiCalls(m)[j].id = m.calls[j].name
  BY <1>2, <1>6 DEF CallParts, GeminiCalls, CallPart, Part
<1>. QED BY <1>2, <1>4, <1>5, <1>6

\* A result as each API takes it.
LEMMA ResultEntries ==
  ASSUME NEW c \in CallType
  PROVE  /\ Result(c).role = "tool" /\ Result(c).id = c.id /\ Result(c) \in MessageType
         /\ ClaudeEntry(Result(c)).parts = <<ResultPart(Result(c))>>
         /\ GeminiEntry(Result(c)).parts = <<ResultPart(Result(c))>>
         /\ c.id # None => OpenAIEntry(Result(c)).parts = <<ResultPart(Result(c))>>
<1>1. /\ Result(c).role = "tool" /\ Result(c).id = c.id /\ Result(c) \in MessageType
      /\ Result(c).calls = <<>>
  <2>1. <<>> \in Seq(CallType)
    BY EmptySeq
  <2>. QED BY <2>1 DEF Result, Message, MessageType, CallType
<1>2. ClaudeEntry(Result(c)).parts = <<ResultPart(Result(c))>>
  BY <1>1 DEF ClaudeEntry, Entry
<1>3. GeminiEntry(Result(c)).parts = <<ResultPart(Result(c))>>
  BY <1>1 DEF GeminiEntry, Entry
<1>4. ASSUME c.id # None PROVE OpenAIEntry(Result(c)).parts = <<ResultPart(Result(c))>>
  <2>1. Len(CallParts(Result(c))) = 0 /\ CallParts(Result(c)) \in Seq(PartType)
    BY <1>1, CallPartsAre
  <2>2. CallParts(Result(c)) = <<>>
    BY <2>1
  <2>3. OpenAIEntry(Result(c)).parts = <<ResultPart(Result(c))>> \o <<>>
    BY <1>1, <1>4, <2>2 DEF OpenAIEntry, Entry
  <2>4. <<ResultPart(Result(c))>> \in Seq(PartType)
    BY <1>1, PartTypes
  <2>. QED BY <2>3, <2>4, ConcatEmptySeq
<1>. QED BY <1>1, <1>2, <1>3, <1>4

\* An entry that is the result of a call answers it.
LEMMA ResultAnswers ==
  ASSUME NEW k, NEW b, NEW q \in DOMAIN b.entries, NEW c, NEW id,
         b.entries[q].parts = <<ResultPart(Result(c))>>,
         c.id = IF k = "gemini" THEN MadeUpID(id) ELSE id
  PROVE  AnswersIn(k, b, q, id)
<1>. DEFINE part == ResultPart(Result(c))
            parts == b.entries[q].parts
<1>1. part.type = "result" /\ part.id = c.id
  BY ResultPartIs DEF Result, Message
<1>2. parts = <<part>>
  OBVIOUS
<1>. HIDE DEF part
<1>3. Len(parts) = 1 /\ parts[1] = part
  BY <1>2
<1>. QED BY <1>1, <1>3 DEF AnswersIn

\* A message of a sound sequence, and the one that answers its j-th call.
LEMMA SoundAt ==
  ASSUME NEW k, NEW h \in Seq(MessageType), Sound(k, h), NEW p \in DOMAIN h
  PROVE  /\ p \in Nat /\ h[p] \in MessageType
         /\ h[p].role # "assistant" => h[p].calls = <<>>
         /\ h[p].role # "tool" => h[p].id = None
         /\ \A j \in 1 .. Len(h[p].calls) :
              /\ p + j \in DOMAIN h /\ h[p + j] = Result(h[p].calls[j])
              /\ GoodCall(k, h[p].calls[j]) /\ h[p].calls[j] \in CallType
<1>1. p \in Nat /\ h[p] \in MessageType
  OBVIOUS
<1>2. h[p].calls \in Seq(CallType)
  BY <1>1 DEF MessageType
<1>3. DOMAIN h[p].calls = 1 .. Len(h[p].calls) /\ \A j \in 1 .. Len(h[p].calls) : h[p].calls[j] \in CallType
  BY <1>2
<1>. QED BY <1>1, <1>3 DEF Sound

\* A body in Claude's format answers its calls ...
LEMMA ClaudeAnswers ==
  ASSUME NEW h \in Seq(MessageType), Sound("claude", h), NEW b,
         b.entries = [i \in DOMAIN h |-> ClaudeEntry(h[i])]
  PROVE  BodyAnswers("claude", b)
<1>. SUFFICES ASSUME NEW p \in DOMAIN h PROVE EntryAnswers("claude", b, p, ClaudeEntry(h[p]).parts)
  BY DEF BodyAnswers
<1>. DEFINE m == h[p]
<1>1. /\ p \in Nat /\ m \in MessageType
      /\ m.role # "assistant" => m.calls = <<>>
      /\ \A j \in 1 .. Len(m.calls) :
           /\ p + j \in DOMAIN h /\ h[p + j] = Result(m.calls[j]) /\ m.calls[j] \in CallType
  BY SoundAt
<1>2. m.text \in Nat
  BY <1>1 DEF MessageType
<1>3. ASSUME NEW j \in 1 .. Len(m.calls) PROVE AnswersIn("claude", b, p + j, m.calls[j].id)
  <2>1. p + j \in DOMAIN h /\ h[p + j] = Result(m.calls[j]) /\ m.calls[j] \in CallType
    BY <1>1
  <2>2. ClaudeEntry(Result(m.calls[j])).parts = <<ResultPart(Result(m.calls[j]))>>
    BY <2>1, ResultEntries
  <2>3. p + j \in DOMAIN b.entries /\ b.entries[p + j].parts = <<ResultPart(Result(m.calls[j]))>>
    BY <2>1, <2>2
  <2>. HIDE DEF m
  <2>4. m.calls[j].id = IF "claude" = "gemini" THEN MadeUpID(m.calls[j].id) ELSE m.calls[j].id
    OBVIOUS
  <2>. QED BY <2>3, <2>4, ResultAnswers
<1>. HIDE DEF m
<1>4. CASE m.role = "tool"
  <2>1. ClaudeEntry(m).parts = <<ResultPart(m)>>
    BY <1>4 DEF ClaudeEntry, Entry
  <2>. QED BY <2>1, ResultPartIs, OnePartAnswers DEF m
<1>5. CASE m.role # "tool" /\ m.calls # <<>>
  <2>1. ClaudeEntry(m).parts = IfAny(m.text) \o CallParts(m)
    BY <1>5 DEF ClaudeEntry, Entry
  <2>2. IfAny(m.text) \in Seq(PartType) /\ \A i \in 1 .. Len(IfAny(m.text)) : IfAny(m.text)[i].type # "call"
    BY <1>2, TextPartIs
  <2>3. /\ CallParts(m) \in Seq(PartType) /\ Len(CallParts(m)) = Len(m.calls)
        /\ \A j \in 1 .. Len(m.calls) : CallParts(m)[j].type = "call" /\ CallParts(m)[j].id = m.calls[j].id
    BY <1>1, CallPartsAre
  <2>4. \A j \in 1 .. Len(CallParts(m)) :
          CallParts(m)[j].type = "call" /\ AnswersIn("claude", b, p + j, CallParts(m)[j].id)
    BY <1>3, <2>3
  <2>5. EntryAnswers("claude", b, p, IfAny(m.text) \o CallParts(m))
    BY <1>1, <2>2, <2>3, <2>4, PartsAnswer
  <2>. QED BY <2>1, <2>5 DEF m
<1>6. CASE m.role # "tool" /\ m.calls = <<>>
  <2>1. ClaudeEntry(m).parts = <<TextPart(m.text)>>
    BY <1>6 DEF ClaudeEntry, Entry
  <2>. QED BY <1>2, <2>1, TextPartIs, OnePartAnswers DEF m
<1>. QED BY <1>4, <1>5, <1>6

\* ... one in Gemini's, in which calls have names for IDs ...
LEMMA GeminiAnswers ==
  ASSUME NEW h \in Seq(MessageType), Sound("gemini", h), \A p \in DOMAIN h : h[p].role # "system",
         NEW b, b.entries = [i \in DOMAIN h |-> GeminiEntry(h[i])]
  PROVE  BodyAnswers("gemini", b)
<1>. SUFFICES ASSUME NEW p \in DOMAIN h PROVE EntryAnswers("gemini", b, p, GeminiEntry(h[p]).parts)
  BY DEF BodyAnswers
<1>. DEFINE m == h[p]
<1>1. /\ p \in Nat /\ m \in MessageType
      /\ \A j \in 1 .. Len(m.calls) :
           /\ p + j \in DOMAIN h /\ h[p + j] = Result(m.calls[j]) /\ m.calls[j] \in CallType
           /\ GoodCall("gemini", m.calls[j])
  BY SoundAt
<1>2. m.text \in Nat /\ m.role \in {"user", "assistant", "tool"}
  BY <1>1 DEF MessageType
<1>3. ASSUME NEW j \in 1 .. Len(m.calls) PROVE AnswersIn("gemini", b, p + j, m.calls[j].name)
  <2>1. p + j \in DOMAIN h /\ h[p + j] = Result(m.calls[j]) /\ m.calls[j] \in CallType
    BY <1>1
  <2>2. GeminiEntry(Result(m.calls[j])).parts = <<ResultPart(Result(m.calls[j]))>>
    BY <2>1, ResultEntries
  <2>3. p + j \in DOMAIN b.entries /\ b.entries[p + j].parts = <<ResultPart(Result(m.calls[j]))>>
    BY <2>1, <2>2
  <2>4. m.calls[j].id = IF "gemini" = "gemini" THEN MadeUpID(m.calls[j].name) ELSE m.calls[j].name
    BY <1>1 DEF GoodCall
  <2>. HIDE DEF m
  <2>. QED BY <2>3, <2>4, ResultAnswers
<1>. HIDE DEF m
<1>4. CASE m.role = "tool"
  <2>1. GeminiEntry(m).parts = <<ResultPart(m)>>
    BY <1>4 DEF GeminiEntry, Entry
  <2>. QED BY <2>1, ResultPartIs, OnePartAnswers DEF m
<1>5. CASE m.role = "assistant"
  <2>1. GeminiEntry(m).parts = IfAny(m.text) \o GeminiCalls(m)
    BY <1>5 DEF GeminiEntry, Entry
  <2>2. IfAny(m.text) \in Seq(PartType) /\ \A i \in 1 .. Len(IfAny(m.text)) : IfAny(m.text)[i].type # "call"
    BY <1>2, TextPartIs
  <2>3. /\ GeminiCalls(m) \in Seq(PartType) /\ Len(GeminiCalls(m)) = Len(m.calls)
        /\ \A j \in 1 .. Len(m.calls) : GeminiCalls(m)[j].type = "call" /\ GeminiCalls(m)[j].id = m.calls[j].name
    BY <1>1, CallPartsAre
  <2>4. \A j \in 1 .. Len(GeminiCalls(m)) :
          GeminiCalls(m)[j].type = "call" /\ AnswersIn("gemini", b, p + j, GeminiCalls(m)[j].id)
    BY <1>3, <2>3
  <2>5. EntryAnswers("gemini", b, p, IfAny(m.text) \o GeminiCalls(m))
    BY <1>1, <2>2, <2>3, <2>4, PartsAnswer
  <2>. QED BY <2>1, <2>5 DEF m
<1>6. CASE m.role = "user"
  <2>1. GeminiEntry(m).parts = <<TextPart(m.text)>>
    BY <1>6 DEF GeminiEntry, Entry
  <2>. QED BY <1>2, <2>1, TextPartIs, OnePartAnswers DEF m
<1>. QED BY <1>2, <1>4, <1>5, <1>6

\* ... and one in OpenAI's.
LEMMA OpenAIAnswers ==
  ASSUME NEW k, OpenAIKind(k), NEW h \in Seq(MessageType), Sound(k, h), NEW b,
         b.entries = [i \in DOMAIN h |-> OpenAIEntry(h[i])]
  PROVE  BodyAnswers(k, b)
<1>. SUFFICES ASSUME NEW p \in DOMAIN h PROVE EntryAnswers(k, b, p, OpenAIEntry(h[p]).parts)
  BY DEF BodyAnswers
<1>. DEFINE m == h[p]
            pre == IF m.id # None THEN <<ResultPart(m)>> ELSE <<TextPart(m.text)>>
<1>1. /\ p \in Nat /\ m \in MessageType
      /\ \A j \in 1 .. Len(m.calls) :
           /\ p + j \in DOMAIN h /\ h[p + j] = Result(m.calls[j]) /\ m.calls[j] \in CallType
           /\ GoodCall(k, m.calls[j])
  BY SoundAt
<1>2. m.text \in Nat
  BY <1>1 DEF MessageType
<1>3. ASSUME NEW j \in 1 .. Len(m.calls) PROVE AnswersIn(k, b, p + j, m.calls[j].id)
  <2>1. p + j \in DOMAIN h /\ h[p + j] = Result(m.calls[j]) /\ m.calls[j] \in CallType /\ m.calls[j].id # None
    BY <1>1 DEF GoodCall
  <2>2. OpenAIEntry(Result(m.calls[j])).parts = <<ResultPart(Result(m.calls[j]))>>
    BY <2>1, ResultEntries
  <2>3. p + j \in DOMAIN b.entries /\ b.entries[p + j].parts = <<ResultPart(Result(m.calls[j]))>>
    BY <2>1, <2>2
  <2>. HIDE DEF m
  <2>4. m.calls[j].id = IF k = "gemini" THEN MadeUpID(m.calls[j].id) ELSE m.calls[j].id
    BY DEF OpenAIKind
  <2>. QED BY <2>3, <2>4, ResultAnswers
<1>4. OpenAIEntry(m).parts = pre \o CallParts(m)
  BY DEF OpenAIEntry, Entry
<1>. HIDE DEF m
<1>5. pre \in Seq(PartType) /\ \A i \in 1 .. Len(pre) : pre[i].type # "call"
  <2>1. ResultPart(m) \in PartType /\ TextPart(m.text) \in PartType
    BY <1>1, <1>2, PartTypes
  <2>2. ResultPart(m).type # "call" /\ TextPart(m.text).type # "call"
    BY <1>2, ResultPartIs, TextPartIs
  <2>. QED BY <2>1, <2>2
<1>6. /\ CallParts(m) \in Seq(PartType) /\ Len(CallParts(m)) = Len(m.calls)
      /\ \A j \in 1 .. Len(m.calls) : CallParts(m)[j].type = "call" /\ CallParts(m)[j].id = m.calls[j].id
  BY <1>1, CallPartsAre
<1>7. \A j \in 1 .. Len(CallParts(m)) :
        CallParts(m)[j].type = "call" /\ AnswersIn(k, b, p + j, CallParts(m)[j].id)
  BY <1>3, <1>6
<1>. HIDE DEF pre
<1>8. EntryAnswers(k, b, p, pre \o CallParts(m))
  BY <1>1, <1>5, <1>6, <1>7, PartsAnswer
<1>. QED BY <1>4, <1>8 DEF m

\* Without the prompt of the system the conversation is as sound.
LEMMA ConversationSound ==
  ASSUME NEW k, NEW h \in Seq(MessageType), Sound(k, h), SystemFirst(h)
  PROVE  /\ Conversation(h) \in Seq(MessageType) /\ Sound(k, Conversation(h))
         /\ \A p \in DOMAIN Conversation(h) : Conversation(h)[p].role # "system"
<1>. DEFINE S == {m \in MessageType : m.role # "system"}
            t == Tail(h)
<1>1. h # <<>> /\ h[1] \notin S /\ \A i \in 2 .. Len(h) : h[i] \in S
  <2>1. \A i \in 2 .. Len(h) : h[i] \in MessageType
    OBVIOUS
  <2>. QED BY <2>1 DEF SystemFirst
<1>2. Conversation(h) = t
  <2>1. Kept(h, S) = Tail(h)
    <3>. HIDE DEF S
    <3>. QED BY <1>1, KeptTail
  <2>. QED BY <2>1 DEF Conversation
<1>3. /\ t \in Seq(MessageType) /\ Len(h) \in Nat /\ DOMAIN h = 1 .. Len(h) /\ DOMAIN t = 1 .. Len(h) - 1
      /\ \A i \in 1 .. Len(h) - 1 : t[i] = h[i + 1]
  BY <1>1
<1>. HIDE DEF t
<1>4. ASSUME NEW p \in DOMAIN t
      PROVE  p + 1 \in DOMAIN h /\ t[p] = h[p + 1] /\ p + 1 \in 2 .. Len(h) /\ p \in Nat
  BY <1>3
<1>5. \A p \in DOMAIN t : t[p].role # "assistant" => t[p].calls = <<>>
  BY <1>4 DEF Sound
<1>6. \A p \in DOMAIN t : t[p].role # "tool" => t[p].id = None
  BY <1>4 DEF Sound
<1>7. ASSUME NEW p \in DOMAIN t, NEW i \in DOMAIN t[p].calls
      PROVE  p + i \in DOMAIN t /\ t[p + i] = Result(t[p].calls[i]) /\ GoodCall(k, t[p].calls[i])
  <2>1. p + 1 \in DOMAIN h /\ t[p] = h[p + 1] /\ p \in Nat
    BY <1>4
  <2>2. /\ (p + 1) + i \in DOMAIN h /\ h[(p + 1) + i] = Result(t[p].calls[i])
        /\ GoodCall(k, t[p].calls[i])
    BY <2>1 DEF Sound
  <2>3. t[p].calls \in Seq(CallType)
    <3>1. h[p + 1] \in MessageType
      BY <1>3, <2>1
    <3>. QED BY <2>1, <3>1 DEF MessageType
  <2>4. i \in Nat /\ i >= 1
    BY <2>3
  <2>5. p + i \in 1 .. Len(h) - 1 /\ (p + i) + 1 = (p + 1) + i
    BY <1>3, <1>4, <2>2, <2>4
  <2>6. t[p + i] = h[(p + i) + 1]
    BY <1>3, <2>5
  <2>. QED BY <1>3, <2>2, <2>5, <2>6
<1>8. Sound(k, t)
  BY <1>5, <1>6, <1>7 DEF Sound
<1>9. \A p \in DOMAIN t : t[p].role # "system"
  BY <1>4 DEF SystemFirst
<1>. QED BY <1>2, <1>3, <1>8, <1>9

\* The body of a request that is made of a sound history.
LEMMA BodyOfSound ==
  ASSUME NEW k \in Kinds, NEW h \in Seq(MessageType), Sound(k, h), SystemFirst(h)
  PROVE  BodyAnswers(k, Body(k, h))
<1>. DEFINE b == Body(k, h)
            t == Conversation(h)
<1>1. /\ t \in Seq(MessageType) /\ Sound(k, t)
      /\ \A p \in DOMAIN t : t[p].role # "system"
  BY ConversationSound
<1>2. CASE k = "claude"
  <2>1. b.entries = [i \in DOMAIN t |-> ClaudeEntry(t[i])]
    BY <1>2 DEF Body, ClaudeBody
  <2>. HIDE DEF b, t
  <2>2. Sound("claude", t)
    BY <1>1, <1>2
  <2>3. BodyAnswers("claude", b)
    BY <1>1, <2>1, <2>2, ClaudeAnswers
  <2>. QED BY <1>2, <2>3 DEF b
<1>3. CASE k = "gemini"
  <2>1. b.entries = [i \in DOMAIN t |-> GeminiEntry(t[i])]
    BY <1>3 DEF Body, GeminiBody
  <2>. HIDE DEF b, t
  <2>2. Sound("gemini", t)
    BY <1>1, <1>3
  <2>3. BodyAnswers("gemini", b)
    BY <1>1, <2>1, <2>2, GeminiAnswers
  <2>. QED BY <1>3, <2>3 DEF b
<1>4. CASE OpenAIKind(k)
  <2>1. b.entries = [i \in DOMAIN h |-> OpenAIEntry(h[i])]
    BY <1>4 DEF Body, OpenAIKind, CopilotBody, OpenAIBody
  <2>. HIDE DEF b
  <2>2. BodyAnswers(k, b)
    BY <1>4, <2>1, OpenAIAnswers
  <2>. QED BY <2>2 DEF b
<1>. QED BY <1>2, <1>3, <1>4 DEF OpenAIKind

\* Every call of the answer that has been read is one the readers make.
LEMMA CallsAreGood ==
  ASSUME NEW k, NEW s \in Seq(LineType), WellFormed(k, s), NEW c \in Calls(k, s)
  PROVE  GoodCall(k, c)
<1>1. PICK i \in Opened(s) : c = CallAt(k, s, i)
  BY DEF Calls
<1>2. i \in 1 .. Len(s) /\ s[i].t = "tool" /\ s[i].name # None
  BY DEF Opened
<1>3. ASSUME k = "gemini" PROVE c.id = MadeUpID(c.name)
  BY <1>1, <1>3 DEF CallAt, ToolCall
<1>4. ASSUME OpenAIKind(k) PROVE c.id # None
  <2>1. s[i].id # None
    <3>1. /\ (\A j \in 1 .. i - 1 : s[j].t = "tool" => s[j].idx # s[i].idx) <=> s[i].name # None
          /\ (\A j \in 1 .. i - 1 : s[j].t = "tool" => s[j].idx # s[i].idx) <=> s[i].id # None
      BY <1>2, <1>4, ToolAt
    <3>. QED BY <1>2, <3>1
  <2>2. c.id = s[i].id
    BY <1>1, <1>4 DEF CallAt, ToolCall, OpenAIKind
  <2>. QED BY <2>1, <2>2
<1>. QED BY <1>3, <1>4 DEF GoodCall

\* Where the elements of three sequences are in their concatenation.
LEMMA ThreeParts ==
  ASSUME NEW T, NEW h \in Seq(T), NEW a \in T, NEW r \in Seq(T), NEW g, g = h \o <<a>> \o r
  PROVE  /\ g \in Seq(T) /\ Len(g) = Len(h) + 1 + Len(r)
         /\ \A p \in 1 .. Len(h) : g[p] = h[p]
         /\ g[Len(h) + 1] = a
         /\ \A i \in 1 .. Len(r) : g[Len(h) + 1 + i] = r[i]
OBVIOUS

\* A reply and the results of its calls, after a sound history.
LEMMA RecordedSound ==
  ASSUME NEW k, NEW h \in Seq(MessageType), Sound(k, h), SystemFirst(h),
         NEW a \in MessageType, a.role = "assistant", a.id = None,
         NEW results \in Seq(MessageType), Len(results) = Len(a.calls),
         \A i \in 1 .. Len(a.calls) : results[i] = Result(a.calls[i]) /\ GoodCall(k, a.calls[i])
  PROVE  Sound(k, h \o <<a>> \o results) /\ SystemFirst(h \o <<a>> \o results)
<1>. DEFINE g == h \o <<a>> \o results
            N == Len(h)
            M == Len(a.calls)
            n == N + 1
<1>1. a.calls \in Seq(CallType)
  BY DEF MessageType
<1>2. /\ N \in Nat /\ M \in Nat /\ N >= 1
      /\ DOMAIN a.calls = 1 .. M /\ DOMAIN h = 1 .. N
  BY <1>1 DEF SystemFirst
<1>3. /\ g \in Seq(MessageType) /\ Len(g) = n + M
      /\ \A p \in 1 .. N : g[p] = h[p]
      /\ g[n] = a
      /\ \A i \in 1 .. M : g[n + i] = Result(a.calls[i])
  <2>1. /\ g \in Seq(MessageType) /\ Len(g) = Len(h) + 1 + Len(results)
        /\ \A p \in 1 .. Len(h) : g[p] = h[p]
        /\ g[Len(h) + 1] = a
        /\ \A i \in 1 .. Len(results) : g[Len(h) + 1 + i] = results[i]
    <3>1. g = h \o <<a>> \o results /\ h \in Seq(MessageType) /\ results \in Seq(MessageType)
      OBVIOUS
    <3>. HIDE DEF g, N, M, n
    <3>2. g = h \o <<a>> \o results
      BY <3>1
    <3>. QED BY ONLY <3>2, h \in Seq(MessageType), a \in MessageType, results \in Seq(MessageType), ThreeParts
  <2>. HIDE DEF g
  <2>. QED BY <2>1
<1>4. DOMAIN g = 1 .. n + M /\ g # <<>>
  <2>1. n + M \in Nat /\ n + M >= 1
    <3>. HIDE DEF N, M
    <3>. QED BY <1>2
  <2>. HIDE DEF g, M, n
  <2>. QED BY <1>3, <2>1
<1>41. \A p \in 2 .. N : h[p].role # "system"
  BY DEF SystemFirst
<1>. HIDE DEF g, N, M
<1>5. ASSUME NEW p \in DOMAIN g
      PROVE  \/ p \in 1 .. N /\ g[p] = h[p]
             \/ p = n /\ g[p] = a
             \/ \E i \in 1 .. M : p = n + i /\ g[p] = Result(a.calls[i])
  <2>1. CASE p \in 1 .. N
    BY <1>3, <2>1
  <2>2. CASE p = n
    BY <1>3, <2>2
  <2>3. CASE p \in n + 1 .. n + M
    <3>1. PICK i \in 1 .. M : p = n + i
      <4>1. p - n \in 1 .. M /\ p = n + (p - n)
        BY <1>2, <2>3
      <4>. QED BY <4>1
    <3>. QED BY <1>3, <3>1
  <2>. QED BY <1>2, <1>4, <2>1, <2>2, <2>3
<1>6. \A c : Result(c).role = "tool" /\ Result(c).calls = <<>>
  BY DEF Result, Message
<1>7. \A p \in DOMAIN g : g[p].role # "assistant" => g[p].calls = <<>>
  BY <1>2, <1>5, <1>6 DEF Sound
<1>8. \A p \in DOMAIN g : g[p].role # "tool" => g[p].id = None
  BY <1>2, <1>5, <1>6 DEF Sound
<1>9. ASSUME NEW p \in DOMAIN g, NEW i \in DOMAIN g[p].calls
      PROVE  p + i \in DOMAIN g /\ g[p + i] = Result(g[p].calls[i]) /\ GoodCall(k, g[p].calls[i])
  <2>1. CASE p \in 1 .. N /\ g[p] = h[p]
    <3>1. p + i \in DOMAIN h /\ h[p + i] = Result(h[p].calls[i]) /\ GoodCall(k, h[p].calls[i])
      BY <1>2, <2>1 DEF Sound
    <3>2. p + i \in 1 .. N /\ p + i \in DOMAIN g
      BY <1>2, <1>4, <3>1
    <3>. QED BY <1>3, <2>1, <3>1, <3>2
  <2>2. CASE p = n /\ g[p] = a
    <3>1. i \in 1 .. M
      BY <1>2, <2>2
    <3>2. n + i \in DOMAIN g
      BY <1>2, <1>4, <3>1
    <3>. QED BY <1>3, <2>2, <3>1, <3>2
  <2>3. CASE \E j \in 1 .. M : p = n + j /\ g[p] = Result(a.calls[j])
    <3>1. g[p].calls = <<>>
      BY <1>6, <2>3
    <3>2. DOMAIN g[p].calls = {}
      BY <3>1
    <3>. QED BY <3>2
  <2>. QED BY <1>5, <2>1, <2>2, <2>3
<1>10. Sound(k, g)
  BY <1>7, <1>8, <1>9 DEF Sound
<1>11. SystemFirst(g)
  <2>1. g # <<>> /\ g[1].role = "system"
    <3>1. 1 \in 1 .. N
      BY <1>2
    <3>. QED BY <1>3, <1>4, <3>1 DEF SystemFirst
  <2>2. ASSUME NEW p \in 2 .. Len(g) PROVE g[p].role # "system"
    <3>1. p \in DOMAIN g /\ (p \in 1 .. N => p \in 2 .. N)
      BY <1>2, <1>3, <1>4
    <3>. QED BY <1>41, <1>5, <1>6, <3>1
  <2>. QED BY <2>1, <2>2 DEF SystemFirst
<1>. QED BY <1>10, <1>11 DEF g

-----------------------------------------------------------------------------
HistoryInv == Sound(kind, history) /\ SystemFirst(history) /\ BodyAnswers(kind, wire)

\* The invariant holds at the start.
LEMMA HistoryStart == Init => HistoryInv
<1>. SUFFICES ASSUME Init PROVE HistoryInv
  OBVIOUS
<1>1. history = <<System, Prompt>> /\ wire.entries = <<>>
  BY DEF Init
<1>2. /\ DOMAIN history = {1, 2} /\ Len(history) = 2 /\ history[1] = System /\ history[2] = Prompt
      /\ DOMAIN wire.entries = {}
  BY <1>1
<1>3. \A p \in {1, 2} : history[p].role \in {"system", "user"} /\ history[p].calls = <<>> /\ history[p].id = None
  BY <1>2 DEF System, Prompt, Message
<1>4. \A p \in {1, 2} : DOMAIN history[p].calls = {}
  BY <1>3
<1>5. Sound(kind, history)
  BY <1>2, <1>3, <1>4 DEF Sound
<1>6. SystemFirst(history)
  <2>1. history[1].role = "system" /\ history[2].role = "user" /\ history # <<>>
    BY <1>1, <1>2 DEF System, Prompt, Message
  <2>2. \A p \in 2 .. Len(history) : p = 2
    BY <1>2
  <2>. QED BY <2>1, <2>2 DEF SystemFirst
<1>. QED BY <1>2, <1>5, <1>6 DEF HistoryInv, BodyAnswers

\* A reply is recorded.
LEMMA RecordKeepsHistory ==
  ASSUME RunInv, HistoryInv, Record
  PROVE  HistoryInv'
<1>1. /\ phase = "collect" /\ chan = <<>> /\ reader = "done" /\ kind' = kind /\ wire' = wire
      /\ IF cancelled THEN history' = history ELSE history' = history \o <<Assistant>> \o Results
  BY DEF Record, fixed, callVars
<1>2. CASE cancelled
  BY <1>1, <1>2 DEF HistoryInv
<1>3. CASE ~cancelled
  <2>1. {got.calls[i] : i \in DOMAIN got.calls} = Calls(kind, arriving)
    BY <1>1, <1>3, ArrivedIsRecorded DEF RecordedIsWhatArrived
  <2>2. arriving \in Seq(LineType) /\ WellFormed(kind, arriving) /\ history \in Seq(MessageType)
    BY DEF RunInv, ReadInv, TypeInv, TypeOK
  <2>3. LoopTypes
    BY TypeParts DEF RunInv
  <2>4. /\ Assistant \in MessageType /\ Results \in Seq(MessageType)
    BY <2>3, RecordedType
  <2>5. got.calls \in Seq(CallType)
    BY <2>3 DEF LoopTypes
  <2>6. DOMAIN got.calls = 1 .. Len(got.calls) /\ Len(got.calls) \in Nat
    BY <2>5
  <2>. DEFINE a == Assistant
              results == Results
  <2>7. a.role = "assistant" /\ a.id = None /\ a.calls = got.calls
    BY DEF Assistant, Message
  <2>8. Len(results) = Len(got.calls) /\ \A i \in 1 .. Len(got.calls) : results[i] = Result(got.calls[i])
    BY <2>4, <2>6 DEF Results
  <2>9. \A i \in 1 .. Len(got.calls) : GoodCall(kind, got.calls[i])
    BY <2>1, <2>2, <2>6, CallsAreGood
  <2>10. Sound(kind, history) /\ SystemFirst(history)
    BY DEF HistoryInv
  <2>11. a \in MessageType /\ results \in Seq(MessageType)
    BY <2>4
  <2>. HIDE DEF a, results
  <2>12. \A i \in 1 .. Len(a.calls) : results[i] = Result(a.calls[i]) /\ GoodCall(kind, a.calls[i])
    BY <2>7, <2>8, <2>9
  <2>13. Len(results) = Len(a.calls)
    BY <2>7, <2>8
  <2>14. Sound(kind, history \o <<a>> \o results) /\ SystemFirst(history \o <<a>> \o results)
    BY <2>2, <2>7, <2>10, <2>11, <2>12, <2>13, RecordedSound
  <2>15. Sound(kind, history') /\ SystemFirst(history')
    BY <1>1, <1>3, <2>14 DEF a, results
  <2>. QED BY <1>1, <2>15 DEF HistoryInv
<1>. QED BY <1>2, <1>3

\* Every step keeps it, and makes requests that answer their calls.
LEMMA HistoryStep == ASSUME RunInv, HistoryInv, [Next]_vars PROVE HistoryInv'
<1>1. ASSUME kind' = kind, history' = history, wire' \in {wire, Body(kind, history)} PROVE HistoryInv'
  <2>1. kind \in Kinds /\ history \in Seq(MessageType)
    BY StreamAssumption DEF RunInv, TypeInv, TypeOK
  <2>2. Sound(kind, history) /\ SystemFirst(history)
    BY DEF HistoryInv
  <2>3. BodyAnswers(kind, Body(kind, history))
    BY <2>1, <2>2, BodyOfSound
  <2>4. BodyAnswers(kind, wire')
    BY <1>1, <2>3 DEF HistoryInv
  <2>. QED BY <1>1, <2>2, <2>4 DEF HistoryInv
<1>2. CASE Record
  BY <1>2, RecordKeepsHistory
<1>3. CASE ReaderStep \/ Request \/ NotConfigured \/ Backoff \/ Collect \/ Cancel \/ UNCHANGED vars
  <2>1. UNCHANGED <<kind, history, wire>>
    BY <1>3 DEF ReaderStep, ReaderStops, ReaderReads, ReaderTakesLine, ReaderAtEnd, ReaderSends, ReaderCloses,
         Request, NotConfigured, Backoff, Fail, Collect, Cancel, vars, fixed, callVars, loopVars
  <2>. QED BY <1>1, <2>1
<1>4. ASSUME NEW e \in Errors, DialFails(e) PROVE HistoryInv'
  <2>1. kind' = kind /\ history' = history /\ wire' = Body(kind, history)
    BY <1>4 DEF DialFails, RetryOrFail, Fail, fixed
  <2>. QED BY <1>1, <2>1
<1>5. ASSUME NEW reply \in Replies[kind], NEW err \in BOOLEAN,
             NEW n \in 0 .. Len(reply), DialOpens(reply, n, err)
      PROVE  HistoryInv'
  <2>1. kind' = kind /\ history' = history /\ wire' = Body(kind, history)
    BY <1>5 DEF DialOpens, fixed
  <2>. QED BY <1>1, <2>1
<1>. QED BY <1>2, <1>3, <1>4, <1>5 DEF Next, LoopStep

\* In every request that is sent each tool call is answered.
THEOREM RequestsAnswerCalls == Spec => []RequestAnswersCalls
<1>1. HistoryInv => RequestAnswersCalls
  BY DEF HistoryInv, BodyAnswers, EntryAnswers, AnswersIn, RequestAnswersCalls, Answers
<1>. QED BY <1>1, RunStart, RunStep, HistoryStart, HistoryStep, PTL DEF Spec
=============================================================================
