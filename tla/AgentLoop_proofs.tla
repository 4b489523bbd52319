-------------------------- MODULE AgentLoop_proofs --------------------------
(***************************************************************************)
(* Proofs about the conversation of a session, for any budget, any sizes   *)
(* of messages and any numbers of calls, rounds and runs.                  *)
(*                                                                         *)
(* First what the recursive functions of AgentLoop compute, by induction   *)
(* over the sequence they go through: the sums of a context, what adding a *)
(* message leaves of it, what Engine.Start restores, and the calls a       *)
(* history leaves open.  Then an inductive invariant in four parts, one    *)
(* lemma each for the steps, and the theorems.                             *)
(***************************************************************************)
EXTENDS AgentLoop, Recursion_proofs, SequenceTheorems

\* Sums is defined, and by the equations it is written with.
LEMMA SumsDef ==
  ASSUME NEW s \in Seq(Message)
  PROVE  /\ Sums(s) \in [0 .. Len(s) -> Nat]
         /\ Sums(s)[0] = 0
         /\ \A k \in 1 .. Len(s) : Sums(s)[k] = Sums(s)[k - 1] + s[k].size
<1>. DEFINE step == [vk \in Nat \X (1 .. Len(s)) |-> vk[1] + s[vk[2]].size]
            body(f) == [k \in 0 .. Len(s) |-> IF k = 0 THEN 0 ELSE f[k - 1] + s[k].size]
<1>1. step \in [Nat \X (1 .. Len(s)) -> Nat]
  <2>1. \A k \in 1 .. Len(s) : s[k].size \in Nat
    <3>1. \A k \in 1 .. Len(s) : s[k] \in Message
      OBVIOUS
    <3>2. \A x \in Message : x.size \in Nat
      BY DEF Message
    <3>. QED BY <3>1, <3>2
  <2>. QED BY <2>1
<1>2. Len(s) \in Nat
  OBVIOUS
<1>3. \E f \in [0 .. Len(s) -> Nat] : Iterates(f, 0, step, Len(s))
  <2>. HIDE DEF step
  <2>. QED BY <1>1, <1>2, IterationExists
<1>4. PICK f \in [0 .. Len(s) -> Nat] : Iterates(f, 0, step, Len(s))
  BY <1>3
<1>5. f = body(f)
  <2>1. f[0] = 0 /\ \A k \in 1 .. Len(s) : f[k] = f[k - 1] + s[k].size
    <3>1. \A k \in 1 .. Len(s) : step[<<f[k - 1], k>>] = f[k - 1] + s[k].size
      OBVIOUS
    <3>. HIDE DEF step
    <3>. QED BY <1>4, <3>1 DEF Iterates
  <2>. QED BY <2>1
<1>6. Sums(s) = body(Sums(s))
  BY <1>5, Zenon DEF Sums
<1>7. /\ DOMAIN Sums(s) = 0 .. Len(s)
      /\ Sums(s)[0] = 0
      /\ \A k \in 1 .. Len(s) : Sums(s)[k] = Sums(s)[k - 1] + s[k].size
  <2>1. \A g : g = body(g) =>
           /\ DOMAIN g = 0 .. Len(s)
           /\ g[0] = 0
           /\ \A k \in 1 .. Len(s) : g[k] = g[k - 1] + s[k].size
    OBVIOUS
  <2>. QED BY <1>6, <2>1, Zenon
<1>8. \A k \in 0 .. Len(s) : Sums(s)[k] = f[k]
  <2>1. f[0] = 0 /\ \A k \in 1 .. Len(s) : f[k] = f[k - 1] + s[k].size
    <3>1. \A k \in 1 .. Len(s) : body(f)[k] = f[k - 1] + s[k].size
      OBVIOUS
    <3>2. body(f)[0] = 0
      OBVIOUS
    <3>. QED BY <1>5, <3>1, <3>2, Zenon
  <2>2. Sums(s)[0] = f[0] /\ \A k \in 1 .. Len(s) : Sums(s)[k - 1] = f[k - 1] => Sums(s)[k] = f[k]
    BY <1>7, <2>1
  <2>3. \A k \in 1 .. Len(s) : Sums(s)[k - 1] = f[k - 1] => Sums(s)[k] = f[k]
    BY <2>2
  <2>4. Sums(s)[0] = f[0]
    BY <2>2
  <2>. HIDE DEF step, body
  <2>5. Agree(Sums(s), f, 0) /\ \A k \in 1 .. Len(s) : Agree(Sums(s), f, k - 1) => Agree(Sums(s), f, k)
    BY <2>3, <2>4 DEF Agree
  <2>6. \A k \in 0 .. Len(s) : Agree(Sums(s), f, k)
    BY ONLY <1>2, <2>5, IterationUnique, Zenon
  <2>. QED BY <2>6 DEF Agree
<1>. QED BY <1>2, <1>6, <1>7, <1>8

\* The tokens of a sequence of messages.
LEMMA TotalType ==
  ASSUME NEW s \in Seq(Message)
  PROVE  Total(s) \in Nat /\ Total(s) = Sums(s)[Len(s)]
BY SumsDef DEF Total

LEMMA TotalEmpty == Total(<<>>) = 0
<1>1. <<>> \in Seq(Message) /\ Len(<<>>) = 0
  OBVIOUS
<1>. QED BY <1>1, SumsDef DEF Total

\* The total of a part is a difference of two sums.
LEMMA TotalNewest ==
  ASSUME NEW s \in Seq(Message), NEW d \in 0 .. Len(s)
  PROVE  /\ Newest(s, Len(s) - d) = SubSeq(s, d + 1, Len(s))
         /\ SubSeq(s, d + 1, Len(s)) \in Seq(Message)
         /\ Total(SubSeq(s, d + 1, Len(s))) = Total(s) - Sums(s)[d]
<1>. DEFINE t == SubSeq(s, d + 1, Len(s))
<1>. PICK rest : rest = [k \in 0 .. Len(s) - d |-> Sums(s)[d + k] - Sums(s)[d]]
  OBVIOUS
<1>1. /\ t \in Seq(Message) /\ Len(t) = Len(s) - d
      /\ \A k \in 1 .. Len(t) : t[k] = s[d + k]
  OBVIOUS
<1>2. Newest(s, Len(s) - d) = t
  BY DEF Newest
<1>3. /\ Sums(s) \in [0 .. Len(s) -> Nat] /\ Sums(t) \in [0 .. Len(t) -> Nat] /\ Sums(t)[0] = 0
      /\ \A k \in 1 .. Len(s) : Sums(s)[k] = Sums(s)[k - 1] + s[k].size
      /\ \A k \in 1 .. Len(t) : Sums(t)[k] = Sums(t)[k - 1] + t[k].size
  BY <1>1, SumsDef
<1>4. Len(t) \in Nat
  BY <1>1
<1>5. Sums(t)[0] = rest[0]
  <2>1. 0 \in 0 .. Len(s) - d /\ d + 0 = d
    OBVIOUS
  <2>2. rest[0] = Sums(s)[d] - Sums(s)[d]
    BY <2>1
  <2>3. Sums(s)[d] \in Nat
    BY <1>3
  <2>. QED BY ONLY <1>3, <2>2, <2>3
<1>6. \A k \in 1 .. Len(t) : Sums(t)[k - 1] = rest[k - 1] => Sums(t)[k] = rest[k]
  <2>. SUFFICES ASSUME NEW k \in 1 .. Len(t), Sums(t)[k - 1] = rest[k - 1] PROVE Sums(t)[k] = rest[k]
    OBVIOUS
  <2>. HIDE DEF t
  <2>1. Sums(t)[k] = Sums(t)[k - 1] + s[d + k].size
    BY <1>1, <1>3
  <2>2. Sums(s)[d + k] = Sums(s)[d + k - 1] + s[d + k].size
    BY <1>1, <1>3
  <2>3. rest[k] = Sums(s)[d + k] - Sums(s)[d] /\ rest[k - 1] = Sums(s)[d + (k - 1)] - Sums(s)[d]
    BY <1>1
  <2>4. s[d + k].size \in Nat
    <3>1. s[d + k] \in Message
      BY <1>1
    <3>. QED BY <3>1 DEF Message
  <2>5. Sums(s)[d + k] \in Nat /\ Sums(s)[d + k - 1] \in Nat /\ Sums(s)[d] \in Nat
    <3>1. d + k \in 0 .. Len(s) /\ d + k - 1 \in 0 .. Len(s) /\ d \in 0 .. Len(s)
      BY <1>1
    <3>. QED BY <1>3, <3>1
  <2>6. d + (k - 1) = d + k - 1
    OBVIOUS
  <2>7. rest[k] = rest[k - 1] + s[d + k].size
    <3>. DEFINE before == Sums(s)[d + k - 1]
                after == Sums(s)[d + k]
                dropped == Sums(s)[d]
                size == s[d + k].size
    <3>1. rest[k] = after - dropped /\ rest[k - 1] = before - dropped
      BY ONLY <2>3, <2>6
    <3>2. after = before + size /\ before \in Nat /\ dropped \in Nat /\ size \in Nat
      BY ONLY <2>2, <2>4, <2>5
    <3>. HIDE DEF before, after, dropped, size
    <3>3. after - dropped = before - dropped + size
      BY ONLY <3>2
    <3>. QED BY ONLY <3>1, <3>3 DEF size
  <2>. QED BY <2>1, <2>7
<1>7. \A k \in 0 .. Len(t) : Sums(t)[k] = rest[k]
  <2>. HIDE DEF t
  <2>2. Agree(Sums(t), rest, 0) /\ \A k \in 1 .. Len(t) : Agree(Sums(t), rest, k - 1) => Agree(Sums(t), rest, k)
    BY ONLY <1>5, <1>6 DEF Agree
  <2>3. \A k \in 0 .. Len(t) : Agree(Sums(t), rest, k)
    BY ONLY <1>4, <2>2, IterationUnique, Zenon
  <2>. QED BY <2>3 DEF Agree
<1>8. Sums(t)[Len(t)] = Sums(s)[Len(s)] - Sums(s)[d]
  <2>. HIDE DEF t
  <2>. QED BY <1>1, <1>7
<1>. QED BY <1>1, <1>2, <1>8 DEF Total

\* The sum of a beginning is the whole without the rest: no more than it.
LEMMA SumsAtMost ==
  ASSUME NEW s \in Seq(Message), NEW d \in 0 .. Len(s)
  PROVE  Sums(s)[d] \in Nat /\ Sums(s)[d] <= Total(s)
<1>1. Total(SubSeq(s, d + 1, Len(s))) \in Nat
  <2>1. SubSeq(s, d + 1, Len(s)) \in Seq(Message)
    BY TotalNewest
  <2>. QED BY <2>1, TotalType
<1>2. Total(SubSeq(s, d + 1, Len(s))) = Total(s) - Sums(s)[d]
  BY TotalNewest
<1>3. Sums(s)[d] \in Nat /\ Total(s) \in Nat
  BY TotalType, SumsDef
<1>. QED BY <1>1, <1>2, <1>3

\* A message more.
LEMMA TotalAppend ==
  ASSUME NEW s \in Seq(Message), NEW x \in Message
  PROVE  /\ Append(s, x) \in Seq(Message)
         /\ Total(Append(s, x)) = Total(s) + x.size
<1>. DEFINE t == Append(s, x)
<1>1. /\ t \in Seq(Message) /\ Len(t) = Len(s) + 1 /\ t[Len(s) + 1] = x
      /\ \A k \in 1 .. Len(s) : t[k] = s[k]
  OBVIOUS
<1>. HIDE DEF t
<1>2. /\ Sums(s)[0] = 0 /\ Sums(t)[0] = 0
      /\ \A k \in 1 .. Len(s) : Sums(s)[k] = Sums(s)[k - 1] + s[k].size
      /\ \A k \in 1 .. Len(t) : Sums(t)[k] = Sums(t)[k - 1] + t[k].size
  BY <1>1, SumsDef
<1>3. Len(s) \in Nat
  OBVIOUS
<1>4. Sums(t)[0] = Sums(s)[0]
  BY <1>2
<1>5. \A k \in 1 .. Len(s) : Sums(t)[k - 1] = Sums(s)[k - 1] => Sums(t)[k] = Sums(s)[k]
  BY <1>1, <1>2
<1>6. \A k \in 0 .. Len(s) : Sums(t)[k] = Sums(s)[k]
  <2>1. Agree(Sums(t), Sums(s), 0)
        /\ \A k \in 1 .. Len(s) : Agree(Sums(t), Sums(s), k - 1) => Agree(Sums(t), Sums(s), k)
    BY ONLY <1>4, <1>5 DEF Agree
  <2>2. \A k \in 0 .. Len(s) : Agree(Sums(t), Sums(s), k)
    BY ONLY <1>3, <2>1, IterationUnique, Zenon
  <2>. QED BY <2>2 DEF Agree
<1>7. Sums(t)[Len(s) + 1] = Sums(s)[Len(s)] + x.size
  <2>1. Len(s) + 1 \in 1 .. Len(t) /\ Len(s) + 1 - 1 = Len(s) /\ Len(s) \in 0 .. Len(s)
    BY <1>1
  <2>. QED BY ONLY <1>1, <1>2, <1>6, <2>1
<1>8. Total(t) = Total(s) + x.size
  BY <1>1, <1>7 DEF Total
<1>. QED BY <1>1, <1>8 DEF t

-----------------------------------------------------------------------------
\* What AddMessage returns for a manager whose count is right.
Managers == [messages : Seq(Message), used : Nat]
Counted(m) == m \in Managers /\ m.used = Total(m.messages)
Fits(m) == m.used <= Budget \/ Len(m.messages) <= 2

\* trim stops: the loop of AddMessage finds how much to drop, keeps the count
\* right, and leaves an end of the context with the new message, which fits.
LEMMA AddMessageFacts ==
  ASSUME NEW m, Counted(m), NEW x \in Message
  PROVE  /\ Counted(AddMessage(m, x))
         /\ Fits(AddMessage(m, x))
         /\ \E d \in 0 .. Len(m.messages) :
              AddMessage(m, x).messages = SubSeq(Append(m.messages, x), d + 1, Len(m.messages) + 1)
<1>. DEFINE s == Append(m.messages, x)
            Left(k) == m.used + x.size - Sums(s)[k]
            Stop(k) == Left(k) <= Budget \/ Len(s) - k <= 2
            K == {k \in 0 .. Len(s) : Stop(k)}
            dropped == CHOOSE k \in 0 .. Len(s) :
              /\ Left(k) <= Budget \/ Len(s) - k <= 2
              /\ \A j \in 0 .. k - 1 : Left(j) > Budget /\ Len(s) - j > 2
<1>1. m.messages \in Seq(Message) /\ m.used \in Nat /\ m.used = Total(m.messages)
  BY DEF Counted, Managers
<1>2. s \in Seq(Message) /\ Len(s) = Len(m.messages) + 1
  BY <1>1
<1>3. Total(s) = m.used + x.size /\ Total(s) \in Nat /\ x.size \in Nat
  <2>1. x.size \in Nat
    BY DEF Message
  <2>. QED BY <1>1, <1>2, <2>1, TotalAppend, TotalType
<1>4. \A k \in 0 .. Len(s) : Left(k) = Total(s) - Sums(s)[k] /\ Left(k) \in Nat
  <2>. SUFFICES ASSUME NEW k \in 0 .. Len(s)
                PROVE  Left(k) = Total(s) - Sums(s)[k] /\ Left(k) \in Nat
    OBVIOUS
  <2>. HIDE DEF s
  <2>1. Sums(s)[k] \in Nat /\ Sums(s)[k] <= Total(s)
    BY <1>2, SumsAtMost
  <2>2. Left(k) = Total(s) - Sums(s)[k]
    BY ONLY <1>1, <1>3, <2>1
  <2>. HIDE DEF Left
  <2>. QED BY <1>3, <2>1, <2>2
<1>5. Budget \in Nat
  BY BudgetAssumption DEF Budget
<1>6. \E k \in 0 .. Len(s) : /\ Left(k) <= Budget \/ Len(s) - k <= 2
                             /\ \A j \in 0 .. k - 1 : Left(j) > Budget /\ Len(s) - j > 2
  <2>. HIDE DEF s, Left
  <2>1. K \in SUBSET Nat /\ K # {}
    <3>1. Len(s) \in K
      BY <1>2
    <3>. QED BY <3>1
  <2>2. PICK k \in K : \A j \in K : k <= j
    <3>. HIDE DEF K
    <3>. QED BY <2>1, LeastNatural
  <2>3. ASSUME NEW j \in 0 .. k - 1 PROVE Left(j) > Budget /\ Len(s) - j > 2
    <3>1. k \in 0 .. Len(s)
      OBVIOUS
    <3>2. j \in 0 .. Len(s) /\ ~ (k <= j)
      BY <1>2, <3>1
    <3>3. j \notin K
      <4>. HIDE DEF K
      <4>. QED BY <2>2, <3>2
    <3>4. ~ Stop(j)
      BY <3>2, <3>3
    <3>. QED BY <1>2, <1>4, <1>5, <3>2, <3>4
  <2>. QED BY <2>2, <2>3
<1>7. /\ dropped \in 0 .. Len(s)
      /\ Left(dropped) <= Budget \/ Len(s) - dropped <= 2
      /\ \A j \in 0 .. dropped - 1 : Left(j) > Budget /\ Len(s) - j > 2
  <2>. HIDE DEF s, Left
  <2>. QED BY <1>6
<1>8. AddMessage(m, x) = [messages |-> Newest(s, Len(s) - dropped), used |-> Left(dropped)]
  BY Zenon DEF AddMessage, Add
<1>9. dropped <= Len(m.messages)
  <2>. HIDE DEF dropped, s, Left
  <2>1. CASE dropped = Len(s)
    <3>1. dropped - 1 \in 0 .. dropped - 1
      BY <1>2, <2>1
    <3>2. Len(s) - (dropped - 1) > 2
      BY <1>7, <3>1
    <3>. QED BY <1>2, <2>1, <3>2
  <2>. QED BY <1>2, <1>7, <2>1
<1>. HIDE DEF dropped
<1>10. /\ Newest(s, Len(s) - dropped) = SubSeq(s, dropped + 1, Len(s))
       /\ SubSeq(s, dropped + 1, Len(s)) \in Seq(Message)
       /\ Total(SubSeq(s, dropped + 1, Len(s))) = Left(dropped)
       /\ Len(SubSeq(s, dropped + 1, Len(s))) = Len(s) - dropped
  <2>. HIDE DEF s
  <2>1. /\ Newest(s, Len(s) - dropped) = SubSeq(s, dropped + 1, Len(s))
        /\ SubSeq(s, dropped + 1, Len(s)) \in Seq(Message)
        /\ Total(SubSeq(s, dropped + 1, Len(s))) = Total(s) - Sums(s)[dropped]
    BY <1>2, <1>7, TotalNewest
  <2>2. Total(SubSeq(s, dropped + 1, Len(s))) = Left(dropped)
    <3>. HIDE DEF Left
    <3>. QED BY <1>4, <1>7, <2>1
  <2>3. Len(SubSeq(s, dropped + 1, Len(s))) = Len(s) - dropped
    <3>. HIDE DEF Left
    <3>. QED BY <1>2, <1>7
  <2>. QED BY <2>1, <2>2, <2>3
<1>. HIDE DEF s, Left
<1>11. Counted(AddMessage(m, x)) /\ Fits(AddMessage(m, x))
  <2>1. Left(dropped) \in Nat
    BY <1>4, <1>7
  <2>. DEFINE a == AddMessage(m, x)
  <2>2. /\ a = [messages |-> a.messages, used |-> a.used]
        /\ a.messages = SubSeq(s, dropped + 1, Len(s)) /\ a.used = Left(dropped)
    BY <1>8, <1>10
  <2>. HIDE DEF a
  <2>3. Counted(a)
    BY <1>10, <2>1, <2>2 DEF Counted, Managers
  <2>4. Fits(a)
    BY <1>7, <1>10, <2>1, <2>2 DEF Fits
  <2>. QED BY <2>3, <2>4 DEF a
<1>12. dropped \in 0 .. Len(m.messages)
       /\ AddMessage(m, x).messages = SubSeq(s, dropped + 1, Len(m.messages) + 1)
  BY <1>1, <1>2, <1>7, <1>8, <1>9, <1>10
<1>. QED BY <1>11, <1>12 DEF s

-----------------------------------------------------------------------------
\* A part of a sequence up to its end.
LEMMA EndOf ==
  ASSUME NEW s \in Seq(Message), NEW d \in 0 .. Len(s)
  PROVE  /\ SubSeq(s, d + 1, Len(s)) \in Seq(Message)
         /\ Len(SubSeq(s, d + 1, Len(s))) = Len(s) - d
         /\ \A i \in 1 .. Len(s) - d : SubSeq(s, d + 1, Len(s))[i] = s[d + i]
OBVIOUS

\* IsSuffix, which is defined with Reverse, says the same.
LEMMA SuffixIsEnd ==
  ASSUME NEW s \in Seq(Message), NEW t \in Seq(Message)
  PROVE  IsSuffix(s, t) <=> \E d \in 0 .. Len(t) : s = SubSeq(t, d + 1, Len(t))
<1>1. ASSUME NEW u \in Seq(Message)
      PROVE  /\ Reverse(u) \in Seq(Message) /\ Len(Reverse(u)) = Len(u)
             /\ \A i \in 1 .. Len(u) : Reverse(u)[i] = u[Len(u) - i + 1]
  <2>1. Reverse(u) \in [1 .. Len(u) -> Message]
    BY DEF Reverse
  <2>. QED BY <2>1 DEF Reverse
<1>2. ASSUME IsSuffix(s, t)
      PROVE  Len(s) <= Len(t) /\ s = SubSeq(t, Len(t) - Len(s) + 1, Len(t))
  <2>1. Len(s) <= Len(t) /\ SubSeq(Reverse(s), 1, Len(s)) = SubSeq(Reverse(t), 1, Len(s))
    BY <1>1, <1>2 DEF IsSuffix, IsPrefix
  <2>2. \A i \in 1 .. Len(s) : Reverse(s)[i] = Reverse(t)[i]
    <3>1. \A u \in Seq(Message) : Len(s) <= Len(u) =>
            \A i \in 1 .. Len(s) : SubSeq(u, 1, Len(s))[i] = u[i]
      OBVIOUS
    <3>. QED BY <1>1, <2>1, <3>1
  <2>3. \A i \in 1 .. Len(s) : s[i] = t[Len(t) - Len(s) + i]
    <3>. SUFFICES ASSUME NEW i \in 1 .. Len(s) PROVE s[i] = t[Len(t) - Len(s) + i]
      OBVIOUS
    <3>1. Len(s) - i + 1 \in 1 .. Len(s) /\ Len(s) - i + 1 \in 1 .. Len(t)
      BY <2>1
    <3>2. Reverse(s)[Len(s) - i + 1] = s[Len(s) - (Len(s) - i + 1) + 1]
      BY <1>1, <3>1
    <3>3. Reverse(t)[Len(s) - i + 1] = t[Len(t) - (Len(s) - i + 1) + 1]
      BY <1>1, <3>1
    <3>4. Len(s) - (Len(s) - i + 1) + 1 = i /\ Len(t) - (Len(s) - i + 1) + 1 = Len(t) - Len(s) + i
      OBVIOUS
    <3>. QED BY <2>2, <3>1, <3>2, <3>3, <3>4
  <2>4. Len(t) - Len(s) \in 0 .. Len(t)
    BY <2>1
  <2>. QED BY <2>1, <2>3, <2>4, EndOf, SeqEqual
<1>3. ASSUME NEW d \in 0 .. Len(t), s = SubSeq(t, d + 1, Len(t)) PROVE IsSuffix(s, t)
  <2>0. Len(Reverse(s)) = Len(s) /\ Len(Reverse(t)) = Len(t) /\ Len(s) \in Nat /\ Len(t) \in Nat
    BY ONLY s \in Seq(Message), t \in Seq(Message), <1>1
  <2>1. Len(s) = Len(t) - d /\ \A i \in 1 .. Len(s) : s[i] = t[d + i]
    BY <1>3, EndOf
  <2>2. \A i \in 1 .. Len(s) : Reverse(s)[i] = Reverse(t)[i]
    <3>. SUFFICES ASSUME NEW i \in 1 .. Len(s) PROVE Reverse(s)[i] = Reverse(t)[i]
      OBVIOUS
    <3>1. Reverse(s)[i] = s[Len(s) - i + 1] /\ Reverse(t)[i] = t[Len(t) - i + 1]
      <4>1. Len(s) \in Nat /\ Len(t) \in Nat
        OBVIOUS
      <4>2. i \in 1 .. Len(t)
        BY ONLY <2>1, <4>1
      <4>. QED BY ONLY <4>2, <1>1
    <3>2. s[Len(s) - i + 1] = t[d + (Len(s) - i + 1)]
      BY <2>1
    <3>3. d + (Len(s) - i + 1) = Len(t) - i + 1
      BY <2>1
    <3>. QED BY <3>1, <3>2, <3>3
  <2>3. Len(Reverse(s)) = Len(s) /\ Len(Reverse(t)) = Len(t) /\ Len(s) <= Len(t)
    BY ONLY <2>0, <2>1
  <2>4. SubSeq(Reverse(s), 1, Len(s)) = SubSeq(Reverse(t), 1, Len(s))
    <3>1. Reverse(s) \in Seq(Message) /\ Reverse(t) \in Seq(Message)
      BY <1>1
    <3>. QED BY <2>2, <2>3, <3>1
  <2>. QED BY <2>3, <2>4 DEF IsSuffix, IsPrefix
<1>4. (IsSuffix(s, t)) => \E d \in 0 .. Len(t) : s = SubSeq(t, d + 1, Len(t))
  <2>1. IsSuffix(s, t) => Len(t) - Len(s) \in 0 .. Len(t)
    BY <1>2
  <2>. QED BY <1>2, <2>1
<1>. QED BY <1>3, <1>4

\* An end of an end, with a message more, is an end with a message more.
LEMMA EndOfAppend ==
  ASSUME NEW h \in Seq(Message), NEW x \in Message, NEW d \in 0 .. Len(h),
         NEW t, t = SubSeq(h, d + 1, Len(h)), NEW e \in 0 .. Len(t)
  PROVE  SubSeq(Append(t, x), e + 1, Len(t) + 1) = SubSeq(Append(h, x), d + e + 1, Len(h) + 1)
<1>0. x \in Message /\ d \in 0 .. Len(h) /\ Len(h) \in Nat
  OBVIOUS
<1>1. /\ t \in Seq(Message) /\ Len(t) = Len(h) - d /\ e \in 0 .. Len(t)
      /\ \A i \in 1 .. Len(t) : t[i] = h[d + i]
  BY EndOf
<1>2. d + e \in 0 .. Len(h)
  BY <1>1
<1>. DEFINE a == SubSeq(Append(t, x), e + 1, Len(t) + 1)
            b == SubSeq(Append(h, x), d + e + 1, Len(h) + 1)
<1>3. /\ Append(h, x) \in Seq(Message) /\ Len(Append(h, x)) = Len(h) + 1
      /\ Append(h, x)[Len(h) + 1] = x /\ \A i \in 1 .. Len(h) : Append(h, x)[i] = h[i]
  BY AppendProperties
<1>4. /\ Append(t, x) \in Seq(Message) /\ Len(Append(t, x)) = Len(t) + 1
      /\ Append(t, x)[Len(t) + 1] = x /\ \A i \in 1 .. Len(t) : Append(t, x)[i] = t[i]
  BY ONLY <1>0, <1>1, AppendProperties
<1>5. /\ a \in Seq(Message) /\ Len(a) = Len(t) + 1 - e
      /\ \A i \in 1 .. Len(a) : a[i] = Append(t, x)[e + i]
  <2>1. e \in 0 .. Len(Append(t, x))
    BY ONLY <1>0, <1>1, <1>4
  <2>. QED BY ONLY <1>4, <2>1, EndOf
<1>6. /\ b \in Seq(Message) /\ Len(b) = Len(h) + 1 - (d + e)
      /\ \A i \in 1 .. Len(b) : b[i] = Append(h, x)[d + e + i]
  <2>. DEFINE n == d + e
              y == Append(h, x)
              l == Len(h) + 1
  <2>1. n \in 0 .. l /\ y \in Seq(Message) /\ Len(y) = l
    BY ONLY <1>0, <1>2, <1>3
  <2>2. /\ SubSeq(y, n + 1, l) \in Seq(Message)
        /\ Len(SubSeq(y, n + 1, l)) = l - n
        /\ \A i \in 1 .. l - n : SubSeq(y, n + 1, l)[i] = y[n + i]
    <3>. HIDE DEF n, y, l
    <3>. QED BY ONLY <2>1, EndOf
  <2>. QED BY ONLY <2>2
<1>. HIDE DEF a, b
<1>7. Len(a) = Len(b)
  BY <1>1, <1>5, <1>6
<1>8. ASSUME NEW i \in 1 .. Len(a) PROVE a[i] = b[i]
  <2>1. a[i] = Append(t, x)[e + i] /\ b[i] = Append(h, x)[d + e + i]
    BY <1>5, <1>6, <1>7
  <2>2. CASE e + i = Len(t) + 1
    <3>1. d + e + i = Len(h) + 1
      BY ONLY <1>0, <1>1, <2>2, i \in 1 .. Len(a), <1>5
    <3>. QED BY <1>3, <1>4, <2>1, <2>2, <3>1
  <2>3. CASE e + i # Len(t) + 1
    <3>1. e + i \in 1 .. Len(t) /\ d + e + i \in 1 .. Len(h) /\ d + (e + i) = d + e + i
      <4>1. Len(t) \in Nat /\ Len(t) = Len(h) - d /\ e \in 0 .. Len(t) /\ Len(a) = Len(t) + 1 - e
        BY <1>1, <1>5
      <4>. QED BY ONLY <1>0, <2>3, <4>1, i \in 1 .. Len(a)
    <3>2. Append(t, x)[e + i] = t[e + i] /\ t[e + i] = h[d + (e + i)] /\ Append(h, x)[d + e + i] = h[d + e + i]
      <4>1. Append(t, x)[e + i] = t[e + i] /\ Append(h, x)[d + e + i] = h[d + e + i]
        BY ONLY <1>3, <1>4, <3>1
      <4>2. t[e + i] = h[d + (e + i)]
        BY ONLY <1>1, <3>1
      <4>. QED BY <4>1, <4>2
    <3>. QED BY <2>1, <3>1, <3>2
  <2>. QED BY <2>2, <2>3
<1>9. a = b
  BY <1>5, <1>6, <1>7, <1>8, SeqEqual
<1>. QED BY <1>9 DEF a, b

\* The loop of Engine.Start that fills the manager is defined, and by its equations.
LEMMA RestoredDef ==
  ASSUME NEW h \in Seq(Message)
  PROVE  /\ Restored(h)[0] = EmptyManager
         /\ \A k \in 1 .. Len(h) : Restored(h)[k] = AddMessage(Restored(h)[k - 1], h[k])
<1>. DEFINE X == {m \in Managers : Counted(m)}
            step == [vk \in X \X (1 .. Len(h)) |-> AddMessage(vk[1], h[vk[2]])]
            body(f) == [k \in 0 .. Len(h) |-> IF k = 0 THEN EmptyManager ELSE AddMessage(f[k - 1], h[k])]
<1>1. \A m : m \in X <=> Counted(m)
  BY DEF Counted
<1>2. \A k \in 1 .. Len(h) : h[k] \in Message
  OBVIOUS
<1>3. EmptyManager \in X
  <2>1. <<>> \in Seq(Message)
    OBVIOUS
  <2>. QED BY <1>1, <2>1, TotalEmpty DEF Counted, Managers, EmptyManager
<1>4. step \in [X \X (1 .. Len(h)) -> X]
  <2>. SUFFICES ASSUME NEW v \in X, NEW k \in 1 .. Len(h) PROVE AddMessage(v, h[k]) \in X
    OBVIOUS
  <2>. HIDE DEF X
  <2>. QED BY <1>1, <1>2, AddMessageFacts
<1>5. Len(h) \in Nat
  OBVIOUS
<1>6. PICK f \in [0 .. Len(h) -> X] : Iterates(f, EmptyManager, step, Len(h))
  <2>. HIDE DEF step, X
  <2>. QED BY <1>3, <1>4, <1>5, IterationExists
<1>7. f = body(f)
  <2>1. f[0] = EmptyManager /\ \A k \in 1 .. Len(h) : f[k] = AddMessage(f[k - 1], h[k])
    <3>1. \A k \in 1 .. Len(h) : step[<<f[k - 1], k>>] = AddMessage(f[k - 1], h[k])
      <4>. HIDE DEF X
      <4>. QED OBVIOUS
    <3>. HIDE DEF step
    <3>. QED BY <1>6, <3>1 DEF Iterates
  <2>. HIDE DEF X
  <2>. QED BY <2>1
<1>8. Restored(h) = body(Restored(h))
  BY <1>7, Zenon DEF Restored
<1>9. \A r : r = body(r) =>
        r[0] = EmptyManager /\ \A k \in 1 .. Len(h) : r[k] = AddMessage(r[k - 1], h[k])
  OBVIOUS
<1>. HIDE DEF body
<1>. QED BY <1>8, <1>9, Zenon

\* It leaves an end of the history, counted right.
LEMMA RestoredFacts ==
  ASSUME NEW h \in Seq(Message)
  PROVE  /\ Counted(Restored(h)[Len(h)])
         /\ \E d \in 0 .. Len(h) : Restored(h)[Len(h)].messages = SubSeq(h, d + 1, Len(h))
<1>. DEFINE P(k) == SubSeq(h, 1, k)
            R == Restored(h)
            S == {k \in 0 .. Len(h) : /\ Counted(R[k])
                                      /\ \E d \in 0 .. k : R[k].messages = SubSeq(P(k), d + 1, k)}
<1>1. \A k \in 0 .. Len(h) : P(k) \in Seq(Message) /\ Len(P(k)) = k
  OBVIOUS
<1>2. \A k \in 1 .. Len(h) : h[k] \in Message /\ P(k) = Append(P(k - 1), h[k])
  OBVIOUS
<1>3. R[0] = EmptyManager /\ \A k \in 1 .. Len(h) : R[k] = AddMessage(R[k - 1], h[k])
  BY RestoredDef
<1>4. 0 \in S
  <2>1. <<>> \in Seq(Message)
    OBVIOUS
  <2>2. Counted(EmptyManager)
    BY <2>1, TotalEmpty DEF Counted, Managers, EmptyManager
  <2>3. SubSeq(P(0), 0 + 1, 0) = <<>>
    OBVIOUS
  <2>4. R[0].messages = SubSeq(P(0), 0 + 1, 0)
    BY <1>3, <2>3 DEF EmptyManager
  <2>5. 0 \in 0 .. Len(h) /\ 0 \in 0 .. 0
    OBVIOUS
  <2>. HIDE DEF P, R
  <2>. QED BY <1>3, <2>2, <2>4, <2>5
<1>5. ASSUME NEW k \in 1 .. Len(h), k - 1 \in S PROVE k \in S
  <2>1. PICK d \in 0 .. k - 1 : R[k - 1].messages = SubSeq(P(k - 1), d + 1, k - 1)
    BY <1>5
  <2>. DEFINE p == P(k - 1)
              m == R[k - 1]
              t == m.messages
              x == h[k]
  <2>2. Counted(m) /\ x \in Message
    BY <1>2, <1>5
  <2>3. t \in Seq(Message) /\ p \in Seq(Message) /\ Len(p) = k - 1 /\ k - 1 \in Nat
    BY <1>1, <2>2 DEF Counted, Managers
  <2>4. t = SubSeq(p, d + 1, Len(p)) /\ d \in 0 .. Len(p)
    BY <2>1, <2>3
  <2>5. Len(t) = Len(p) - d
    <3>. HIDE DEF t, p
    <3>. QED BY <2>3, <2>4, EndOf
  <2>6. PICK e \in 0 .. Len(t) : AddMessage(m, x).messages = SubSeq(Append(t, x), e + 1, Len(t) + 1)
    <3>. HIDE DEF m, x
    <3>. QED BY <2>2, AddMessageFacts
  <2>7. SubSeq(Append(t, x), e + 1, Len(t) + 1) = SubSeq(Append(p, x), d + e + 1, Len(p) + 1)
    <3>. HIDE DEF t, p, x
    <3>. QED BY ONLY <2>2, <2>3, <2>4, <2>6, EndOfAppend
  <2>8. /\ R[k] = AddMessage(m, x) /\ P(k) = Append(p, x) /\ Len(p) + 1 = k
        /\ d + e \in 0 .. k
    <3>1. R[k] = AddMessage(m, x) /\ P(k) = Append(p, x)
      BY <1>2, <1>3
    <3>. HIDE DEF t, p, x
    <3>. QED BY <2>3, <2>4, <2>5, <3>1
  <2>9. R[k].messages = SubSeq(P(k), (d + e) + 1, k)
    <3>. HIDE DEF t, p, x, R, P
    <3>. QED BY ONLY <2>6, <2>7, <2>8
  <2>10. Counted(R[k])
    <3>. HIDE DEF m, x, R, P
    <3>. QED BY <2>2, <2>8, AddMessageFacts
  <2>11. \E n \in 0 .. k : R[k].messages = SubSeq(P(k), n + 1, k)
    <3>. DEFINE n == d + e
    <3>. HIDE DEF R, P, n
    <3>1. n \in 0 .. k /\ R[k].messages = SubSeq(P(k), n + 1, k)
      BY <2>8, <2>9 DEF n
    <3>. QED BY <3>1
  <2>. HIDE DEF R, P
  <2>. QED BY <2>10, <2>11
<1>6. Len(h) \in S
  <2>1. Len(h) \in Nat
    OBVIOUS
  <2>2. \A k \in 1 .. Len(h) : k - 1 \in S => k \in S
    BY <1>5
  <2>. HIDE DEF S
  <2>3. \A k \in 0 .. Len(h) : k \in S
    BY ONLY <1>4, <2>1, <2>2, Induct, Zenon
  <2>. QED BY <2>1, <2>3
<1>7. P(Len(h)) = h
  OBVIOUS
<1>. HIDE DEF P
<1>. QED BY <1>6, <1>7

-----------------------------------------------------------------------------
\* The calls open after each message, by their equations.
LEMMA UnansweredDef ==
  ASSUME NEW h \in Seq(Message)
  PROVE  /\ Unanswered(h) \in [0 .. Len(h) -> Int]
         /\ Unanswered(h)[0] = 0
         /\ \A p \in 1 .. Len(h) : Unanswered(h)[p] = Open(Unanswered(h)[p - 1], h[p])
<1>. DEFINE step == [vk \in Int \X (1 .. Len(h)) |-> Open(vk[1], h[vk[2]])]
            body(f) == [p \in 0 .. Len(h) |-> IF p = 0 THEN 0 ELSE Open(f[p - 1], h[p])]
<1>1. \A p \in 1 .. Len(h) : h[p] \in Message
  OBVIOUS
<1>2. \A n \in Int, x \in Message : Open(n, x) \in Int
  BY BoundAssumption DEF Open, Message
<1>3. step \in [Int \X (1 .. Len(h)) -> Int]
  BY <1>1, <1>2
<1>4. Len(h) \in Nat
  OBVIOUS
<1>5. PICK f \in [0 .. Len(h) -> Int] : Iterates(f, 0, step, Len(h))
  <2>1. 0 \in Int
    OBVIOUS
  <2>. HIDE DEF step
  <2>. QED BY <1>3, <1>4, <2>1, IterationExists
<1>6. f[0] = 0 /\ \A p \in 1 .. Len(h) : f[p] = Open(f[p - 1], h[p])
  <2>1. \A p \in 1 .. Len(h) : step[<<f[p - 1], p>>] = Open(f[p - 1], h[p])
    OBVIOUS
  <2>. HIDE DEF step
  <2>. QED BY <1>5, <2>1 DEF Iterates
<1>7. f = body(f)
  BY <1>6
<1>8. Unanswered(h) = body(Unanswered(h))
  BY <1>7, Zenon DEF Unanswered
<1>9. /\ DOMAIN Unanswered(h) = 0 .. Len(h)
      /\ Unanswered(h)[0] = 0
      /\ \A p \in 1 .. Len(h) : Unanswered(h)[p] = Open(Unanswered(h)[p - 1], h[p])
  <2>1. \A g : g = body(g) =>
           /\ DOMAIN g = 0 .. Len(h)
           /\ g[0] = 0
           /\ \A p \in 1 .. Len(h) : g[p] = Open(g[p - 1], h[p])
    OBVIOUS
  <2>. HIDE DEF body
  <2>. QED BY <1>8, <2>1, Zenon
<1>10. \A p \in 0 .. Len(h) : Unanswered(h)[p] = f[p]
  <2>1. Unanswered(h)[0] = f[0]
    BY <1>6, <1>9
  <2>2. \A p \in 1 .. Len(h) : Unanswered(h)[p - 1] = f[p - 1] => Unanswered(h)[p] = f[p]
    BY <1>6, <1>9
  <2>3. Agree(Unanswered(h), f, 0)
        /\ \A p \in 1 .. Len(h) : Agree(Unanswered(h), f, p - 1) => Agree(Unanswered(h), f, p)
    BY ONLY <2>1, <2>2 DEF Agree
  <2>4. \A p \in 0 .. Len(h) : Agree(Unanswered(h), f, p)
    BY ONLY <1>4, <2>3, IterationUnique, Zenon
  <2>. QED BY <2>4 DEF Agree
<1>11. Unanswered(h) = [p \in 0 .. Len(h) |-> Unanswered(h)[p]]
  BY <1>8
<1>. QED BY <1>9, <1>10, <1>11

\* What is open up to a message does not depend on later ones.
LEMMA UnansweredAppend ==
  ASSUME NEW h \in Seq(Message), NEW x \in Message
  PROVE  /\ \A p \in 0 .. Len(h) : Unanswered(Append(h, x))[p] = Unanswered(h)[p]
         /\ Unanswered(Append(h, x))[Len(h) + 1] = Open(Unanswered(h)[Len(h)], x)
<1>. DEFINE t == Append(h, x)
<1>1. /\ t \in Seq(Message) /\ Len(t) = Len(h) + 1 /\ t[Len(h) + 1] = x /\ Len(h) \in Nat
      /\ \A p \in 1 .. Len(h) : t[p] = h[p]
  OBVIOUS
<1>. HIDE DEF t
<1>2. /\ Unanswered(h)[0] = 0
      /\ \A p \in 1 .. Len(h) : Unanswered(h)[p] = Open(Unanswered(h)[p - 1], h[p])
  BY UnansweredDef
<1>3. /\ Unanswered(t)[0] = 0
      /\ \A p \in 1 .. Len(t) : Unanswered(t)[p] = Open(Unanswered(t)[p - 1], t[p])
  BY <1>1, UnansweredDef
<1>4. Len(h) \in Nat
  BY <1>1
<1>5. Unanswered(t)[0] = Unanswered(h)[0]
  BY <1>2, <1>3
<1>6. \A p \in 1 .. Len(h) : Unanswered(t)[p - 1] = Unanswered(h)[p - 1] => Unanswered(t)[p] = Unanswered(h)[p]
  BY <1>1, <1>2, <1>3
<1>7. \A p \in 0 .. Len(h) : Unanswered(t)[p] = Unanswered(h)[p]
  <2>1. Agree(Unanswered(t), Unanswered(h), 0)
        /\ \A p \in 1 .. Len(h) :
             Agree(Unanswered(t), Unanswered(h), p - 1) => Agree(Unanswered(t), Unanswered(h), p)
    BY ONLY <1>5, <1>6 DEF Agree
  <2>2. \A p \in 0 .. Len(h) : Agree(Unanswered(t), Unanswered(h), p)
    BY ONLY <1>4, <2>1, IterationUnique, Zenon
  <2>. QED BY <2>2 DEF Agree
<1>8. Unanswered(t)[Len(h) + 1] = Open(Unanswered(h)[Len(h)], x)
  <2>1. Len(h) + 1 \in 1 .. Len(t) /\ Len(h) + 1 - 1 = Len(h) /\ Len(h) \in 0 .. Len(h)
    BY <1>1
  <2>. QED BY <1>1, <1>3, <1>7, <2>1
<1>. QED BY <1>7, <1>8 DEF t

(***************************************************************************)
(* The invariant.                                                          *)
(***************************************************************************)
LoopInv ==
  /\ Counted(Manager)
  /\ pc \notin {"idle", "done"} => round < MaxRounds
  /\ pc = "tools" => call <= reply.call
  /\ pc # "idle" => messages # <<>>
  /\ pc # "idle" /\ ~wiped => exists

\* Adding a message makes the context fit, and compaction adds a summary at most.
FitInv ==
  /\ pc = "compact" => Fits(Manager)
  /\ pc \in {"check", "request"} => used <= Budget + SummarySize \/ Len(messages) <= 2

OpenCalls == Unanswered(history)[Len(history)]

\* Calls are open while a reply's calls are executed, and after a run that
\* ended there, and at no other time.
AnswerInv == ~wiped =>
  /\ pc = "tools" => OpenCalls = reply.call - call + 1
  /\ pc \notin {"idle", "tools"} => OpenCalls = 0
  /\ pc = "idle" /\ OpenCalls > 0 => cut
  /\ pc = "idle" /\ exists /\ sessState = "completed" => OpenCalls = 0
  /\ pc # "idle" => sessState = "active"

\* The messages the engine makes are messages.
LEMMA MessageTypes ==
  /\ \A n \in TextSizes : User(n) \in Message
  /\ \A n \in TextSizes, c \in 0 .. MaxCalls : Reply(n, c) \in Message
  /\ \A n \in ResultSizes, c \in 0 .. MaxCalls : Result(n, c) \in Message
  /\ Summary \in Message
BY SizeAssumption, BoundAssumption DEF User, Reply, Result, Summary, Message, Roles

LEMMA EmptyCounted == Counted(EmptyManager)
<1>1. <<>> \in Seq(Message)
  OBVIOUS
<1>. QED BY <1>1, TotalEmpty DEF Counted, Managers, EmptyManager

\* What SetManager sets.
LEMMA ManagerSet ==
  ASSUME NEW m, Counted(m), SetManager(m)
  PROVE  /\ Manager' = m /\ messages' \in Seq(Message) /\ used' \in Nat
         /\ messages' = m.messages /\ used' = m.used
BY DEF Counted, Managers, SetManager, Manager

\* A context after a message more.
LEMMA Added ==
  ASSUME NEW m, Counted(m), NEW x \in Message, SetManager(AddMessage(m, x))
  PROVE  /\ Counted(Manager') /\ Fits(Manager') /\ messages' \in Seq(Message) /\ used' \in Nat
         /\ messages' # <<>>
         /\ messages' = AddMessage(m, x).messages
<1>. DEFINE a == AddMessage(m, x)
<1>1. /\ Counted(a) /\ Fits(a) /\ m.messages \in Seq(Message)
      /\ \E d \in 0 .. Len(m.messages) : a.messages = SubSeq(Append(m.messages, x), d + 1, Len(m.messages) + 1)
  BY AddMessageFacts DEF Counted, Managers
<1>2. a.messages # <<>>
  <2>1. PICK d \in 0 .. Len(m.messages) : a.messages = SubSeq(Append(m.messages, x), d + 1, Len(m.messages) + 1)
    BY <1>1
  <2>. HIDE DEF a
  <2>. DEFINE y == Append(m.messages, x)
              l == Len(m.messages) + 1
  <2>2. y \in Seq(Message) /\ Len(y) = l /\ d \in 0 .. l /\ l - d > 0
    BY ONLY <1>1, x \in Message, d \in 0 .. Len(m.messages)
  <2>3. a.messages \in Seq(Message) /\ Len(a.messages) = l - d
    <3>. HIDE DEF y, l
    <3>1. SubSeq(y, d + 1, l) \in Seq(Message) /\ Len(SubSeq(y, d + 1, l)) = l - d
      BY ONLY <2>2, EndOf
    <3>. QED BY <2>1, <3>1 DEF y, l
  <2>. HIDE DEF y, l
  <2>. QED BY <2>2, <2>3
<1>. HIDE DEF a
<1>3. SetManager(a)
  BY DEF a
<1>. QED BY <1>1, <1>2, <1>3, ManagerSet DEF a

\* The context of a resumed session, with its prompt.
LEMMA RestoredAdded ==
  ASSUME TypeOK, NEW n \in TextSizes,
         SetManager(AddMessage(Restored(history)[Len(history)], User(n)))
  PROVE  /\ Counted(Manager') /\ Fits(Manager') /\ messages' \in Seq(Message) /\ used' \in Nat
         /\ messages' # <<>>
BY MessageTypes, RestoredFacts, Added DEF TypeOK

\* Compact leaves a summary and the newest messages, counted anew.
LEMMA CompactFacts ==
  ASSUME TypeOK, LoopInv, Compact
  PROVE  /\ Counted(Manager') /\ messages' \in Seq(Message) /\ used' \in Nat
         /\ messages' # <<>>
         /\ messages' = <<Summary>> \o SubSeq(messages, Len(messages) - ProtectRecent + 1, Len(messages))
         /\ Len(messages') = ProtectRecent + 1
         /\ used' <= used + SummarySize
<1>. DEFINE d == Len(messages) - ProtectRecent
            t == SubSeq(messages, d + 1, Len(messages))
            s == <<Summary>> \o t
<1>1. messages \in Seq(Message) /\ used = Total(messages) /\ used \in Nat
  BY DEF LoopInv, Counted, Manager, Managers
<1>2. d \in 0 .. Len(messages) /\ Len(messages) - d = ProtectRecent /\ ProtectRecent \in Nat
  BY <1>1, BudgetAssumption DEF Compact
<1>3. /\ Newest(messages, ProtectRecent) = t /\ t \in Seq(Message)
      /\ Total(t) = Total(messages) - Sums(messages)[d] /\ Len(t) = ProtectRecent
      /\ Sums(messages)[d] \in Nat
  <2>. HIDE DEF d
  <2>1. /\ Newest(messages, Len(messages) - d) = t /\ t \in Seq(Message)
        /\ Total(t) = Total(messages) - Sums(messages)[d]
    BY <1>1, <1>2, TotalNewest
  <2>2. Len(t) = Len(messages) - d
    BY <1>1, <1>2, EndOf
  <2>3. Sums(messages)[d] \in Nat
    BY <1>1, <1>2, SumsAtMost
  <2>. QED BY <1>2, <2>1, <2>2, <2>3
<1>. HIDE DEF d, t
<1>4. messages' = s /\ used' = Total(s)
  BY <1>3 DEF Compact
<1>5. s \in Seq(Message) /\ Len(s) = ProtectRecent + 1 /\ s[1] = Summary /\ SubSeq(s, 1 + 1, Len(s)) = t
  <2>1. /\ s \in Seq(Message) /\ Len(s) = 1 + Len(t) /\ s[1] = Summary
        /\ \A i \in 1 .. Len(t) : s[1 + i] = t[i]
    BY <1>3, MessageTypes
  <2>. HIDE DEF s
  <2>2. /\ SubSeq(s, 1 + 1, Len(s)) \in Seq(Message) /\ Len(SubSeq(s, 1 + 1, Len(s))) = Len(s) - 1
        /\ \A i \in 1 .. Len(s) - 1 : SubSeq(s, 1 + 1, Len(s))[i] = s[1 + i]
    <3>1. 1 \in 0 .. Len(s)
      BY <1>2, <1>3, <2>1
    <3>. QED BY <2>1, <3>1, EndOf
  <2>3. SubSeq(s, 1 + 1, Len(s)) = t
    <3>1. Len(s) - 1 = Len(t)
      BY <1>2, <1>3, <2>1
    <3>. QED BY <1>3, <2>1, <2>2, <3>1, SeqEqual
  <2>. QED BY <1>2, <1>3, <2>1, <2>3
<1>. HIDE DEF s
<1>6. Total(s) = SummarySize + Total(t)
  <2>1. 1 \in 0 .. Len(s) /\ 1 \in 1 .. Len(s)
    BY <1>2, <1>5
  <2>2. Total(SubSeq(s, 1 + 1, Len(s))) = Total(s) - Sums(s)[1]
    BY <1>5, <2>1, TotalNewest
  <2>3. Sums(s)[1] = SummarySize
    <3>1. Sums(s)[1] = Sums(s)[1 - 1] + s[1].size /\ Sums(s)[0] = 0
      BY <1>5, <2>1, SumsDef
    <3>2. s[1].size = SummarySize
      BY <1>5 DEF Summary
    <3>. QED BY <3>1, <3>2, SizeAssumption
  <2>4. Total(s) \in Nat /\ Total(t) \in Nat
    BY <1>3, <1>5, TotalType
  <2>5. Total(t) = Total(s) - SummarySize
    BY <1>5, <2>2, <2>3
  <2>. QED BY ONLY <2>4, <2>5, SizeAssumption
<1>7. Total(s) \in Nat /\ Total(t) \in Nat
  BY <1>3, <1>5, TotalType
<1>8. used' <= used + SummarySize
  BY <1>1, <1>3, <1>4, <1>6, <1>7, SizeAssumption
<1>9. Counted(Manager')
  BY <1>4, <1>5, <1>7 DEF Counted, Managers, Manager
<1>10. messages' # <<>>
  BY <1>2, <1>4, <1>5
<1>. QED BY <1>4, <1>5, <1>7, <1>8, <1>9, <1>10 DEF s, t, d

TypeInv == TypeOK /\ LoopInv

LEMMA HistoryType ==
  ASSUME TypeOK, NEW x \in Message, Persist(x) PROVE history' \in Seq(Message)
BY DEF TypeOK, Persist

LEMMA TypeInit == Init => TypeInv
<1>. SUFFICES ASSUME Init PROVE TypeInv
  OBVIOUS
<1>1. TypeOK
  <2>1. Reply(1, 0) \in Message /\ <<>> \in Seq(Message)
    BY BoundAssumption DEF Reply, Message, Roles
  <2>2. 0 \in 0 .. MaxRounds /\ 1 \in 1 .. MaxCalls + 1 /\ 0 \in 0 .. MaxRuns /\ 0 \in Nat
    BY BoundAssumption
  <2>. QED BY <2>1, <2>2 DEF Init, TypeOK
<1>2. Manager = EmptyManager
  BY DEF Init, Manager, EmptyManager
<1>. QED BY <1>1, <1>2, EmptyCounted DEF Init, TypeInv, LoopInv

\* The steps that leave the context as it is.
LEMMA TypeQuiet ==
  ASSUME TypeInv, UNCHANGED mgrVars, history' \in Seq(Message),
         SkipCompact \/ Canceled \/ Check \/ Stream \/ ProviderError \/ Complete
           \/ Cancel \/ ClearMessages \/ Delete \/ UNCHANGED vars
  PROVE  TypeInv'
<1>1. Manager' = Manager
  BY DEF mgrVars, Manager
<1>2. TypeOK'
  <2>. USE DEF TypeInv, TypeOK, mgrVars
  <2>1. CASE ClearMessages \/ Delete
    BY <2>1 DEF loopVars, ClearMessages, Delete
  <2>2. CASE Canceled \/ ProviderError \/ Complete
    <3>1. /\ sessState' \in {"active", "completed", "canceled", "failed"}
          /\ pc' = "idle" /\ cut' = (cut \/ Outstanding)
          /\ UNCHANGED <<exists, round, reply, call, ctxDone, runs, wiped>>
      BY <2>2 DEF Canceled, ProviderError, Complete, Finish, UpdateState
    <3>2. cut' \in BOOLEAN
      BY <3>1, Zenon DEF Outstanding
    <3>. QED BY <3>1, <3>2
  <2>3. CASE SkipCompact \/ Check \/ Stream \/ Cancel
    BY <2>3 DEF sessVars, SkipCompact, Check, Stream, Cancel
  <2>4. CASE UNCHANGED vars
    BY <2>4 DEF sessVars, loopVars, vars
  <2>. QED BY <2>1, <2>2, <2>3, <2>4
<1>3. /\ UNCHANGED <<messages, round, reply, call>>
      /\ (pc' \notin {"idle", "done"} => pc \notin {"idle", "done"})
      /\ (pc' = "tools" => pc = "tools") /\ (pc' # "idle" => pc # "idle")
      /\ (pc' # "idle" /\ ~wiped' => ~wiped /\ exists' = exists)
  <2>1. CASE ClearMessages \/ Delete
    BY <2>1 DEF mgrVars, loopVars, ClearMessages, Delete
  <2>2. CASE Canceled \/ ProviderError \/ Complete
    BY <2>2 DEF mgrVars, Canceled, ProviderError, Complete, Finish
  <2>3. CASE SkipCompact \/ Check \/ Stream \/ Cancel
    BY <2>3 DEF mgrVars, sessVars, SkipCompact, Check, Stream, Cancel
  <2>4. CASE UNCHANGED vars
    BY <2>4 DEF mgrVars, sessVars, loopVars, vars
  <2>. QED BY <2>1, <2>2, <2>3, <2>4
<1>. QED BY <1>1, <1>2, <1>3 DEF TypeInv, LoopInv

LEMMA TypeNextRound ==
  ASSUME TypeInv, pc = "tools", NextRound
  PROVE  /\ round' \in 0 .. MaxRounds /\ pc' \in {"compact", "done"}
         /\ pc' = "compact" => round' < MaxRounds
BY BoundAssumption DEF TypeInv, TypeOK, LoopInv, NextRound

BeginTypes ==
  /\ pc' = "compact" /\ round' = 0 /\ round' \in 0 .. MaxRounds
  /\ ctxDone' = FALSE /\ runs' \in 0 .. MaxRuns /\ UNCHANGED <<reply, call>>

LEMMA BeginType == ASSUME TypeOK, Begin PROVE BeginTypes
BY BoundAssumption DEF TypeOK, Begin, BeginTypes

\* The step of the first part: types, the count of tokens, the bound on rounds.
LEMMA TypeStep == ASSUME TypeInv, [Next]_vars PROVE TypeInv'
<1>. USE DEF TypeInv
<1>1. ASSUME NEW n \in TextSizes, Resume(n) PROVE TypeInv'
  <2>1. /\ Counted(Manager') /\ messages' \in Seq(Message) /\ used' \in Nat /\ messages' # <<>>
    BY <1>1, RestoredAdded DEF Resume
  <2>2. history' \in Seq(Message)
    BY <1>1, MessageTypes, HistoryType DEF Resume
  <2>3. TypeOK'
    <3>1. BeginTypes
      BY <1>1, BeginType DEF Resume
    <3>. QED BY <1>1, <2>1, <2>2, <3>1 DEF Resume, BeginTypes, UpdateState, TypeOK
  <2>. QED BY <1>1, <2>1, <2>3, BoundAssumption DEF Resume, Begin, LoopInv
<1>2. ASSUME NEW n \in TextSizes, Create(n) PROVE TypeInv'
  <2>1. /\ Counted(Manager') /\ messages' \in Seq(Message) /\ used' \in Nat /\ messages' # <<>>
    BY <1>2, EmptyCounted, MessageTypes, Added DEF Create
  <2>2. history' \in Seq(Message)
    BY <1>2, MessageTypes DEF Create
  <2>3. TypeOK'
    <3>1. BeginTypes
      BY <1>2, BeginType DEF Create
    <3>. QED BY <1>2, <2>1, <2>2, <3>1 DEF Create, BeginTypes, TypeOK
  <2>. QED BY <1>2, <2>1, <2>3, BoundAssumption DEF Create, Begin, LoopInv
<1>3. CASE Compact
  <2>1. /\ Counted(Manager') /\ messages' \in Seq(Message) /\ used' \in Nat /\ messages' # <<>>
    BY <1>3, CompactFacts
  <2>2. TypeOK'
    BY <1>3, <2>1 DEF Compact, TypeOK, sessVars
  <2>. QED BY <1>3, <2>1, <2>2 DEF Compact, LoopInv, sessVars
<1>4. ASSUME NEW n \in TextSizes, NEW c \in 0 .. MaxCalls, Collect(n, c)
      PROVE  /\ Counted(Manager') /\ messages' \in Seq(Message) /\ used' \in Nat /\ messages' # <<>>
             /\ history' \in Seq(Message)
  BY <1>4, MessageTypes, HistoryType, Added DEF Collect, LoopInv
<1>5. ASSUME NEW n \in TextSizes, NEW c \in 1 .. MaxCalls, ToolCalls(n, c) PROVE TypeInv'
  <2>1. c \in 0 .. MaxCalls /\ 1 \in 1 .. MaxCalls + 1
    BY BoundAssumption
  <2>2. /\ Counted(Manager') /\ messages' \in Seq(Message) /\ used' \in Nat /\ messages' # <<>>
        /\ history' \in Seq(Message)
    BY <1>4, <1>5, <2>1 DEF ToolCalls
  <2>3. TypeOK'
    BY <1>5, <2>1, <2>2, MessageTypes DEF ToolCalls, TypeOK
  <2>. QED BY <1>5, <2>2, <2>3 DEF ToolCalls, Collect, Reply, LoopInv
<1>6. ASSUME NEW n \in TextSizes, Done(n) PROVE TypeInv'
  <2>1. 0 \in 0 .. MaxCalls
    BY BoundAssumption
  <2>2. /\ Counted(Manager') /\ messages' \in Seq(Message) /\ used' \in Nat /\ messages' # <<>>
        /\ history' \in Seq(Message)
    BY <1>4, <1>6, <2>1 DEF Done
  <2>3. TypeOK'
    BY <1>6, <2>2 DEF Done, TypeOK
  <2>. QED BY <1>6, <2>2, <2>3 DEF Done, Collect, LoopInv
<1>7. ASSUME NEW n \in ResultSizes, ToolResult(n) PROVE TypeInv'
  <2>1. call \in 1 .. MaxCalls /\ reply.call \in 0 .. MaxCalls
    BY <1>7, BoundAssumption DEF ToolResult, LoopInv, TypeOK, Message
  <2>2. Result(n, call) \in Message
    BY <2>1, MessageTypes
  <2>3. /\ Counted(Manager') /\ messages' \in Seq(Message) /\ used' \in Nat /\ messages' # <<>>
        /\ history' \in Seq(Message)
    BY <1>7, <2>2, HistoryType, Added DEF ToolResult, LoopInv
  <2>4. CASE call < reply.call
    <3>1. call' = call + 1 /\ call' \in 1 .. MaxCalls + 1 /\ call' <= reply.call
      BY <1>7, <2>1, <2>4, BoundAssumption DEF ToolResult
    <3>2. TypeOK'
      BY <1>7, <2>3, <2>4, <3>1 DEF ToolResult, TypeOK
    <3>. QED BY <1>7, <2>3, <2>4, <3>1, <3>2 DEF ToolResult, LoopInv
  <2>5. CASE ~ (call < reply.call)
    <3>1. /\ round' \in 0 .. MaxRounds /\ pc' \in {"compact", "done"} /\ UNCHANGED call
          /\ pc' = "compact" => round' < MaxRounds
      BY <1>7, <2>5, TypeNextRound DEF ToolResult
    <3>2. TypeOK'
      BY <1>7, <2>3, <3>1 DEF ToolResult, TypeOK
    <3>. QED BY <1>7, <2>3, <3>1, <3>2 DEF ToolResult, LoopInv
  <2>. QED BY <2>4, <2>5
<1>8. CASE Restart
  <2>1. /\ Counted(Manager') /\ messages' \in Seq(Message) /\ used' \in Nat
    BY <1>8, EmptyCounted, ManagerSet DEF Restart
  <2>2. TypeOK'
    BY <1>8, <2>1 DEF Restart, TypeOK, sessVars
  <2>. QED BY <1>8, <2>1, <2>2 DEF Restart, LoopInv
<1>9. CASE SkipCompact \/ Canceled \/ Check \/ Stream \/ ProviderError \/ Complete
             \/ Cancel \/ ClearMessages \/ Delete \/ UNCHANGED vars
  <2>1. UNCHANGED mgrVars /\ history' \in Seq(Message)
    <3>1. UNCHANGED mgrVars /\ (history' = history \/ history' = <<>>)
      BY <1>9 DEF sessVars, vars, mgrVars, SkipCompact, Canceled, Check, Stream,
         ProviderError, Complete, Cancel, ClearMessages, Delete
    <3>2. history \in Seq(Message) /\ <<>> \in Seq(Message)
      BY DEF TypeOK
    <3>. QED BY <3>1, <3>2
  <2>. QED BY <1>9, <2>1, TypeQuiet
<1>. QED BY <1>1, <1>2, <1>3, <1>5, <1>6, <1>7, <1>8, <1>9 DEF Next, Start

-----------------------------------------------------------------------------
\* The step of the second: what a context is over the budget by.
LEMMA FitStep == ASSUME TypeInv, FitInv, [Next]_vars PROVE FitInv'
<1>0. used \in Nat /\ Budget \in Nat /\ SummarySize \in Nat /\ Len(messages) \in Nat /\ ProtectRecent \in Nat \ {0}
  BY BudgetAssumption, SizeAssumption DEF TypeInv, TypeOK, Budget
<1>1. ASSUME NEW n \in TextSizes, Resume(n) \/ Create(n) PROVE FitInv'
  <2>1. Fits(Manager') /\ pc' = "compact"
    BY <1>1, RestoredAdded, EmptyCounted, MessageTypes, Added DEF Resume, Create, Begin, TypeInv
  <2>. QED BY <2>1 DEF FitInv
<1>2. ASSUME NEW n \in ResultSizes, ToolResult(n) PROVE FitInv'
  <2>1. call \in 0 .. MaxCalls
    BY <1>2, BoundAssumption DEF ToolResult, TypeInv, LoopInv, TypeOK, Message
  <2>2. Fits(Manager')
    BY <1>2, <2>1, MessageTypes, Added DEF ToolResult, TypeInv, LoopInv
  <2>3. pc' \notin {"check", "request"}
    BY <1>2 DEF ToolResult, NextRound
  <2>. QED BY <2>2, <2>3 DEF FitInv
<1>3. CASE SkipCompact
  <2>1. Fits(Manager) /\ UNCHANGED <<used, messages>> /\ pc' = "check"
    BY <1>3 DEF SkipCompact, FitInv, mgrVars
  <2>. QED BY <1>0, <2>1 DEF FitInv, Fits, Manager
<1>4. CASE Compact
  <2>1. /\ used' \in Nat /\ used' <= used + SummarySize /\ Len(messages') = ProtectRecent + 1
        /\ pc' = "check" /\ Len(messages) > ProtectRecent
    BY <1>4, CompactFacts DEF Compact, TypeInv
  <2>2. used <= Budget \/ Len(messages) <= 2
    BY <1>4 DEF Compact, FitInv, Fits, Manager
  <2>. QED BY <1>0, <2>1, <2>2 DEF FitInv
<1>5. CASE Check
  BY <1>5 DEF Check, FitInv, mgrVars
<1>6. CASE Stream
  BY <1>6 DEF Stream, FitInv
<1>7. CASE Canceled \/ ProviderError \/ Complete
  BY <1>7 DEF Canceled, ProviderError, Complete, Finish, FitInv
<1>8. ASSUME NEW n \in TextSizes, NEW c \in 1 .. MaxCalls, ToolCalls(n, c) PROVE FitInv'
  BY <1>8 DEF ToolCalls, FitInv
<1>9. ASSUME NEW n \in TextSizes, Done(n) PROVE FitInv'
  BY <1>9 DEF Done, FitInv
<1>10. CASE Restart
  BY <1>10 DEF Restart, FitInv
<1>11. CASE Cancel \/ ClearMessages \/ Delete \/ UNCHANGED vars
  BY <1>11 DEF Cancel, ClearMessages, Delete, vars, loopVars, mgrVars, FitInv, Fits, Manager
<1>. QED BY <1>1, <1>2, <1>3, <1>4, <1>5, <1>6, <1>7, <1>8, <1>9, <1>10, <1>11 DEF Next, Start

-----------------------------------------------------------------------------
\* Calls and results.
Answers(h, c) ==
  \A p \in 1 .. Len(h) :
    /\ h[p].role = "assistant" => Unanswered(h)[p - 1] = 0
    /\ h[p].role = "tool" => Unanswered(h)[p] >= 0
    /\ h[p].role = "user" /\ Unanswered(h)[p - 1] > 0 => c

LEMMA AnswersIs == HistoryAnswersCalls <=> (~wiped => Answers(history, cut))
BY DEF HistoryAnswersCalls, Answers

LEMMA AnswersEmpty == \A c : Answers(<<>>, c) /\ Unanswered(<<>>)[Len(<<>>)] = 0
<1>1. <<>> \in Seq(Message) /\ Len(<<>>) = 0 /\ 1 .. Len(<<>>) = {}
  OBVIOUS
<1>2. \A c : Answers(<<>>, c)
  BY ONLY <1>1 DEF Answers
<1>3. Unanswered(<<>>)[0] = 0
  BY <1>1, UnansweredDef
<1>. QED BY <1>1, <1>2, <1>3

\* A message more keeps what is answered answered, if it is one that may follow.
LEMMA AnswersAppend ==
  ASSUME NEW h \in Seq(Message), NEW x \in Message, NEW c \in BOOLEAN, NEW b \in BOOLEAN,
         Answers(h, c), c => b,
         x.role = "assistant" => Unanswered(h)[Len(h)] = 0,
         x.role = "tool" => Unanswered(h)[Len(h)] > 0,
         x.role = "user" /\ Unanswered(h)[Len(h)] > 0 => b
  PROVE  /\ Answers(Append(h, x), b)
         /\ Unanswered(Append(h, x))[Len(Append(h, x))] = Open(Unanswered(h)[Len(h)], x)
<1>. DEFINE t == Append(h, x)
            l == Len(h)
<1>1. /\ t \in Seq(Message) /\ Len(t) = l + 1 /\ t[l + 1] = x /\ l \in Nat
      /\ \A p \in 1 .. l : t[p] = h[p]
  OBVIOUS
<1>2. /\ \A p \in 0 .. l : Unanswered(t)[p] = Unanswered(h)[p]
      /\ Unanswered(t)[l + 1] = Open(Unanswered(h)[l], x)
  BY UnansweredAppend
<1>3. Unanswered(h)[l] \in Int
  BY UnansweredDef
<1>4. ASSUME NEW p \in 1 .. Len(t)
      PROVE  /\ t[p].role = "assistant" => Unanswered(t)[p - 1] = 0
             /\ t[p].role = "tool" => Unanswered(t)[p] >= 0
             /\ t[p].role = "user" /\ Unanswered(t)[p - 1] > 0 => b
  <2>. HIDE DEF t
  <2>1. CASE p = l + 1
    <3>1. t[p] = x /\ p - 1 = l /\ l \in 0 .. l
      BY <1>1, <2>1
    <3>2. Unanswered(t)[p - 1] = Unanswered(h)[l] /\ Unanswered(t)[p] = Open(Unanswered(h)[l], x)
      BY <1>2, <2>1, <3>1
    <3>3. x.role = "tool" => Open(Unanswered(h)[l], x) = Unanswered(h)[l] - 1
      BY DEF Open
    <3>. QED BY <1>3, <3>1, <3>2, <3>3
  <2>2. CASE p # l + 1
    <3>1. p \in 1 .. l /\ p \in 0 .. l /\ p - 1 \in 0 .. l
      BY <1>1, <2>2
    <3>2. t[p] = h[p] /\ Unanswered(t)[p - 1] = Unanswered(h)[p - 1] /\ Unanswered(t)[p] = Unanswered(h)[p]
      BY <1>1, <1>2, <3>1
    <3>. QED BY <3>1, <3>2 DEF Answers
  <2>. QED BY <2>1, <2>2
<1>5. Answers(t, b)
  <2>. HIDE DEF t
  <2>. QED BY <1>4 DEF Answers
<1>6. Unanswered(t)[Len(t)] = Open(Unanswered(h)[l], x)
  <2>. HIDE DEF t, l
  <2>. QED BY <1>1, <1>2
<1>. QED BY <1>5, <1>6

\* The prompt of a session that was empty.
LEMMA AnswersFirst ==
  ASSUME NEW x \in Message, x.role = "user", Open(0, x) = 0, NEW t, t = Append(<<>>, x)
  PROVE  Answers(t, FALSE) /\ Unanswered(t)[Len(t)] = 0
<1>0. <<>> \in Seq(Message)
  OBVIOUS
<1>1. PICK h \in Seq(Message) : h = <<>>
  BY ONLY <1>0, Zenon
<1>2. Answers(h, FALSE) /\ Unanswered(h)[Len(h)] = 0
  <2>1. Answers(<<>>, FALSE) /\ Unanswered(<<>>)[Len(<<>>)] = 0
    BY ONLY AnswersEmpty, Zenon
  <2>. QED BY ONLY <1>1, <2>1, Zenon
<1>3. /\ x.role = "assistant" => Unanswered(h)[Len(h)] = 0
      /\ x.role = "tool" => Unanswered(h)[Len(h)] > 0
      /\ x.role = "user" /\ Unanswered(h)[Len(h)] > 0 => FALSE
      /\ FALSE \in BOOLEAN
      /\ FALSE => FALSE
  BY <1>2
<1>4. /\ Answers(Append(h, x), FALSE)
      /\ Unanswered(Append(h, x))[Len(Append(h, x))] = Open(Unanswered(h)[Len(h)], x)
  BY ONLY <1>2, <1>3, x \in Message, h \in Seq(Message), AnswersAppend
<1>5. Open(Unanswered(h)[Len(h)], x) = 0
  BY <1>2
<1>6. t = Append(h, x)
  BY <1>1
<1>. QED BY ONLY <1>4, <1>5, <1>6, Zenon

AnsweredInv == HistoryAnswersCalls /\ AnswerInv

\* What each kind of message opens.
LEMMA OpenOf ==
  /\ \A n, i : Open(i, User(n)) = 0
  /\ \A n, c, i : Open(i, Reply(n, c)) = c
  /\ \A n, c, i : Open(i, Result(n, c)) = i - 1
BY DEF Open, User, Reply, Result

\* The step of the third: what the history leaves open, from where the loop is.
LEMMA AnsweredStep == ASSUME TypeInv, AnsweredInv, [Next]_vars PROVE AnsweredInv'
<1>0. /\ history \in Seq(Message) /\ cut \in BOOLEAN /\ wiped \in BOOLEAN
      /\ OpenCalls \in Int /\ call \in Nat /\ reply.call \in Nat
      /\ ~wiped => Answers(history, cut)
  <2>1. history \in Seq(Message) /\ cut \in BOOLEAN /\ wiped \in BOOLEAN /\ call \in Nat /\ reply.call \in Nat
    BY BoundAssumption DEF TypeInv, TypeOK, Message
  <2>. QED BY <2>1, UnansweredDef, AnswersIs DEF OpenCalls, AnsweredInv
<1>1. ASSUME NEW n \in TextSizes, Resume(n) PROVE AnsweredInv'
  <2>1. /\ history' = Append(history, User(n)) /\ UNCHANGED <<cut, wiped, exists>> /\ pc = "idle"
        /\ pc' = "compact" /\ exists /\ sessState' = "active"
    BY <1>1 DEF Resume, Persist, UpdateState, Begin
  <2>2. ASSUME ~wiped
        PROVE  Answers(history', cut') /\ OpenCalls' = 0
    <3>1. /\ User(n) \in Message /\ User(n).role = "user" /\ Open(OpenCalls, User(n)) = 0
          /\ OpenCalls > 0 => cut'
      BY <2>1, <2>2, MessageTypes, OpenOf DEF User, AnsweredInv, AnswerInv
    <3>. QED BY <1>0, <2>1, <2>2, <3>1, AnswersAppend DEF OpenCalls
  <2>3. HistoryAnswersCalls'
    BY <2>1, <2>2, AnswersIs DEF HistoryAnswersCalls, Answers
  <2>. QED BY <2>1, <2>2, <2>3 DEF AnsweredInv, AnswerInv
<1>2. ASSUME NEW n \in TextSizes, Create(n) PROVE AnsweredInv'
  <2>1. /\ history' = Append(<<>>, User(n)) /\ cut' = FALSE /\ wiped' = FALSE
        /\ pc' = "compact" /\ sessState' = "active"
    BY <1>2 DEF Create, Begin
  <2>2. Answers(history', cut') /\ OpenCalls' = 0
    <3>. DEFINE x == User(n)
    <3>1. x \in Message /\ x.role = "user" /\ Open(0, x) = 0
      BY MessageTypes, OpenOf DEF User
    <3>2. history' = Append(<<>>, x)
      BY <2>1
    <3>. HIDE DEF x
    <3>3. Answers(history', FALSE) /\ Unanswered(history')[Len(history')] = 0
      BY ONLY <3>1, <3>2, AnswersFirst
    <3>. QED BY <2>1, <3>3, Zenon DEF OpenCalls
  <2>3. HistoryAnswersCalls'
    BY <2>1, <2>2 DEF HistoryAnswersCalls, Answers
  <2>. QED BY <2>1, <2>2, <2>3 DEF AnsweredInv, AnswerInv
<1>3. ASSUME NEW n \in TextSizes, NEW c \in 0 .. MaxCalls, Collect(n, c),
             UNCHANGED <<cut, wiped, sessState>>
      PROVE  HistoryAnswersCalls' /\ (~wiped => OpenCalls' = c /\ sessState' = "active")
  <2>1. ASSUME ~wiped
        PROVE  Answers(history', cut') /\ OpenCalls' = c /\ sessState' = "active"
    <3>1. history' = Append(history, Reply(n, c)) /\ OpenCalls = 0 /\ sessState = "active"
      BY <1>3, <2>1 DEF Collect, Persist, TypeInv, LoopInv, AnsweredInv, AnswerInv
    <3>2. Reply(n, c) \in Message /\ Reply(n, c).role = "assistant" /\ Open(OpenCalls, Reply(n, c)) = c
      BY MessageTypes, OpenOf DEF Reply
    <3>. QED BY <1>0, <1>3, <2>1, <3>1, <3>2, AnswersAppend DEF OpenCalls
  <2>. QED BY <1>3, <2>1 DEF HistoryAnswersCalls, Answers
<1>4. ASSUME NEW n \in TextSizes, NEW c \in 1 .. MaxCalls, ToolCalls(n, c) PROVE AnsweredInv'
  <2>1. /\ HistoryAnswersCalls' /\ (~wiped => OpenCalls' = c /\ sessState' = "active")
        /\ UNCHANGED wiped /\ pc' = "tools" /\ reply'.call = c /\ call' = 1
    BY <1>3, <1>4 DEF ToolCalls, Reply
  <2>. QED BY <2>1 DEF AnsweredInv, AnswerInv
<1>5. ASSUME NEW n \in TextSizes, Done(n) PROVE AnsweredInv'
  <2>1. /\ HistoryAnswersCalls' /\ (~wiped => OpenCalls' = 0 /\ sessState' = "active")
        /\ UNCHANGED wiped /\ pc' = "done"
    <3>1. 0 \in 0 .. MaxCalls
      BY BoundAssumption
    <3>. QED BY <1>3, <1>5, <3>1 DEF Done
  <2>. QED BY <2>1 DEF AnsweredInv, AnswerInv
<1>6. ASSUME NEW n \in ResultSizes, ToolResult(n) PROVE AnsweredInv'
  <2>1. /\ pc = "tools" /\ UNCHANGED <<cut, wiped, sessState, reply>> /\ call <= reply.call
        /\ call \in 0 .. MaxCalls
    BY <1>6, BoundAssumption DEF ToolResult, TypeInv, TypeOK, LoopInv, Message
  <2>2. ASSUME ~wiped
        PROVE  Answers(history', cut') /\ OpenCalls' = reply.call - call /\ sessState' = "active"
    <3>1. /\ history' = Append(history, Result(n, call)) /\ OpenCalls = reply.call - call + 1
          /\ sessState = "active"
      BY <1>6, <2>1, <2>2 DEF ToolResult, Persist, TypeInv, LoopInv, AnsweredInv, AnswerInv
    <3>2. /\ Result(n, call) \in Message /\ Result(n, call).role = "tool"
          /\ Open(OpenCalls, Result(n, call)) = OpenCalls - 1
      BY <2>1, MessageTypes, OpenOf DEF Result
    <3>3. OpenCalls > 0 /\ OpenCalls - 1 = reply.call - call
      BY <1>0, <2>1, <3>1
    <3>. QED BY <1>0, <2>1, <2>2, <3>1, <3>2, <3>3, AnswersAppend DEF OpenCalls
  <2>3. HistoryAnswersCalls'
    BY <2>1, <2>2 DEF HistoryAnswersCalls, Answers
  <2>4. CASE call < reply.call
    <3>1. call' = call + 1 /\ pc' = "tools"
      BY <1>6, <2>1, <2>4 DEF ToolResult
    <3>. QED BY <1>0, <2>1, <2>2, <2>3, <3>1 DEF AnsweredInv, AnswerInv
  <2>5. CASE ~ (call < reply.call)
    <3>1. pc' \in {"compact", "done"} /\ reply.call - call = 0
      BY <1>0, <1>6, <2>1, <2>5 DEF ToolResult, NextRound
    <3>. QED BY <2>1, <2>2, <2>3, <3>1 DEF AnsweredInv, AnswerInv
  <2>. QED BY <2>4, <2>5
<1>7. ASSUME NEW st \in {"canceled", "failed", "completed"}, Finish(st), UNCHANGED history,
             st = "completed" => pc = "done", pc # "idle"
      PROVE  AnsweredInv'
  <2>1. /\ pc' = "idle" /\ cut' = (cut \/ Outstanding) /\ UNCHANGED <<wiped, exists, history>>
        /\ sessState' = IF exists THEN st ELSE sessState
    BY <1>7 DEF Finish, UpdateState
  <2>2. ~wiped => Answers(history', cut')
    BY <1>0, <2>1 DEF Answers
  <2>3. HistoryAnswersCalls'
    BY <2>1, <2>2 DEF HistoryAnswersCalls, Answers
  <2>4. OpenCalls' = OpenCalls
    BY <2>1 DEF OpenCalls
  <2>5. ~wiped => /\ OpenCalls > 0 => cut'
                  /\ exists /\ sessState' = "completed" => OpenCalls = 0
    <3>1. pc = "tools" => cut'
      BY <2>1, Zenon DEF Outstanding
    <3>2. ~wiped => /\ pc # "tools" => OpenCalls = 0
                    /\ pc # "idle" /\ sessState = "active"
      BY <1>7 DEF AnsweredInv, AnswerInv
    <3>3. OpenCalls = 0 => ~ (OpenCalls > 0)
      OBVIOUS
    <3>4. exists /\ sessState' = "completed" => pc # "tools"
      BY <1>7, <2>1
    <3>. QED BY <3>1, <3>2, <3>3, <3>4
  <2>. QED BY <2>1, <2>3, <2>4, <2>5 DEF AnsweredInv, AnswerInv
<1>8. CASE Canceled \/ ProviderError \/ Complete
  BY <1>7, <1>8 DEF Canceled, ProviderError, Complete
<1>9. CASE Restart
  <2>1. /\ pc' = "idle" /\ pc # "idle" /\ cut' = (cut \/ Outstanding)
        /\ UNCHANGED <<wiped, exists, history, sessState>>
    BY <1>9 DEF Restart, sessVars
  <2>2. ~wiped => Answers(history', cut')
    BY <1>0, <2>1 DEF Answers
  <2>3. HistoryAnswersCalls'
    BY <2>1, <2>2 DEF HistoryAnswersCalls, Answers
  <2>4. OpenCalls' = OpenCalls
    BY <2>1 DEF OpenCalls
  <2>5. ~wiped => /\ OpenCalls > 0 => cut'
                  /\ sessState' # "completed"
    <3>1. pc = "tools" => cut'
      BY <2>1, Zenon DEF Outstanding
    <3>2. ~wiped => /\ pc # "tools" => OpenCalls = 0
                    /\ sessState = "active"
      BY <2>1 DEF AnsweredInv, AnswerInv
    <3>3. OpenCalls = 0 => ~ (OpenCalls > 0)
      OBVIOUS
    <3>. QED BY <2>1, <3>1, <3>2, <3>3
  <2>. QED BY <2>1, <2>3, <2>4, <2>5 DEF AnsweredInv, AnswerInv
<1>10. CASE ClearMessages \/ Delete
  <2>1. /\ history' = <<>> /\ cut' = FALSE /\ (~wiped' => pc = "idle") /\ pc' = pc
        /\ exists' => sessState' = "active"
    BY <1>10 DEF ClearMessages, Delete, loopVars
  <2>2. Answers(history', cut') /\ OpenCalls' = 0
    BY <2>1, AnswersEmpty DEF OpenCalls
  <2>3. HistoryAnswersCalls'
    BY <2>2 DEF HistoryAnswersCalls, Answers
  <2>. QED BY <2>1, <2>2, <2>3 DEF AnsweredInv, AnswerInv
<1>11. CASE SkipCompact \/ Compact \/ Check \/ Stream \/ Cancel \/ UNCHANGED vars
  <2>1. /\ UNCHANGED <<history, exists, sessState, cut, wiped, reply, call>>
        /\ (pc' \notin {"idle", "tools"} /\ pc \notin {"idle", "tools"}) \/ pc' = pc
    BY <1>11 DEF SkipCompact, Compact, Check, Stream, Cancel, vars, sessVars, loopVars
  <2>2. OpenCalls' = OpenCalls
    BY <2>1 DEF OpenCalls
  <2>3. HistoryAnswersCalls'
    BY <2>1 DEF AnsweredInv, HistoryAnswersCalls
  <2>. QED BY <2>1, <2>2, <2>3 DEF AnsweredInv, AnswerInv
<1>. QED BY <1>1, <1>2, <1>4, <1>5, <1>6, <1>8, <1>9, <1>10, <1>11 DEF Next, Start

-----------------------------------------------------------------------------
\* Ends of sequences, element by element.
End(t, h) ==
  Len(t) <= Len(h) /\ \A i \in 1 .. Len(t) : t[i] = h[Len(h) - Len(t) + i]

\* The three ways to say it agree.
LEMMA EndIs ==
  ASSUME NEW s \in Seq(Message), NEW t \in Seq(Message)
  PROVE  /\ IsSuffix(s, t) <=> End(s, t)
         /\ \A d \in 0 .. Len(t) : s = SubSeq(t, d + 1, Len(t)) => End(s, t)
<1>1. Len(s) \in Nat /\ Len(t) \in Nat
  OBVIOUS
<1>2. ASSUME NEW d \in 0 .. Len(t), s = SubSeq(t, d + 1, Len(t)) PROVE End(s, t)
  <2>1. Len(s) = Len(t) - d /\ \A i \in 1 .. Len(t) - d : s[i] = t[d + i]
    BY <1>2, EndOf
  <2>2. d = Len(t) - Len(s) /\ Len(s) <= Len(t)
    BY ONLY <1>1, <2>1, d \in 0 .. Len(t)
  <2>. QED BY <2>1, <2>2 DEF End
<1>3. ASSUME End(s, t) PROVE \E d \in 0 .. Len(t) : s = SubSeq(t, d + 1, Len(t))
  <2>. DEFINE d == Len(t) - Len(s)
              u == SubSeq(t, d + 1, Len(t))
  <2>1. d \in 0 .. Len(t) /\ Len(t) - d = Len(s)
    BY <1>1, <1>3 DEF End
  <2>2. \A i \in 1 .. Len(s) : s[i] = t[d + i]
    BY <1>3 DEF End
  <2>. HIDE DEF d
  <2>3. u \in Seq(Message) /\ Len(u) = Len(t) - d /\ \A i \in 1 .. Len(t) - d : u[i] = t[d + i]
    BY ONLY <2>1, t \in Seq(Message), EndOf
  <2>. HIDE DEF u
  <2>4. s = u
    BY <2>1, <2>2, <2>3, SeqEqual
  <2>. QED BY <2>1, <2>4 DEF u
<1>4. (\E d \in 0 .. Len(t) : s = SubSeq(t, d + 1, Len(t))) <=> End(s, t)
  BY <1>2, <1>3
<1>. QED BY <1>2, <1>4, SuffixIsEnd

LEMMA EndOfEnd ==
  ASSUME NEW a \in Seq(Message), NEW b \in Seq(Message), NEW c \in Seq(Message),
         End(a, b), End(b, c)
  PROVE  End(a, c)
<1>1. Len(a) \in Nat /\ Len(b) \in Nat /\ Len(c) \in Nat /\ Len(a) <= Len(b) /\ Len(b) <= Len(c)
  BY DEF End
<1>2. ASSUME NEW i \in 1 .. Len(a) PROVE a[i] = c[Len(c) - Len(a) + i]
  <2>. DEFINE j == Len(b) - Len(a) + i
  <2>1. j \in 1 .. Len(b) /\ Len(c) - Len(b) + j = Len(c) - Len(a) + i
    BY <1>1
  <2>2. a[i] = b[j]
    BY DEF End
  <2>. HIDE DEF j
  <2>3. b[j] = c[Len(c) - Len(b) + j]
    BY <2>1 DEF End
  <2>. QED BY <2>1, <2>2, <2>3
<1>. QED BY <1>1, <1>2 DEF End

\* Both with a message more.
LEMMA EndAppend ==
  ASSUME NEW a \in Seq(Message), NEW b \in Seq(Message), NEW x \in Message, End(a, b)
  PROVE  End(Append(a, x), Append(b, x))
<1>. DEFINE s == Append(a, x)
            t == Append(b, x)
<1>1. Len(a) \in Nat /\ Len(b) \in Nat /\ Len(a) <= Len(b)
  BY DEF End
<1>2. /\ Len(s) = Len(a) + 1 /\ s[Len(a) + 1] = x /\ \A i \in 1 .. Len(a) : s[i] = a[i]
      /\ Len(t) = Len(b) + 1 /\ t[Len(b) + 1] = x /\ \A i \in 1 .. Len(b) : t[i] = b[i]
  OBVIOUS
<1>. HIDE DEF s, t
<1>3. ASSUME NEW i \in 1 .. Len(s) PROVE s[i] = t[Len(t) - Len(s) + i]
  <2>. DEFINE j == Len(b) - Len(a) + i
  <2>1. Len(t) - Len(s) + i = j
    BY <1>1, <1>2
  <2>2. CASE i = Len(a) + 1
    <3>1. j = Len(b) + 1
      BY <1>1, <2>2
    <3>. QED BY <1>2, <2>1, <2>2, <3>1
  <2>3. CASE i # Len(a) + 1
    <3>1. i \in 1 .. Len(a) /\ j \in 1 .. Len(b)
      BY <1>1, <1>2, <2>3
    <3>2. a[i] = b[j]
      BY <3>1 DEF End
    <3>. HIDE DEF j
    <3>. QED BY <1>2, <2>1, <3>1, <3>2
  <2>. QED BY <2>2, <2>3
<1>4. Len(s) <= Len(t)
  BY <1>1, <1>2
<1>5. End(s, t)
  BY <1>3, <1>4 DEF End
<1>. QED BY <1>5 DEF s, t

\* A shorter end does not reach the first element.
LEMMA EndOfTail ==
  ASSUME NEW a \in Seq(Message), NEW b \in Seq(Message), End(a, b), Len(a) < Len(b)
  PROVE  Tail(b) \in Seq(Message) /\ End(a, Tail(b))
<1>. DEFINE t == Tail(b)
<1>1. /\ Len(a) \in Nat /\ Len(b) \in Nat
      /\ t \in Seq(Message) /\ Len(t) = Len(b) - 1 /\ \A i \in 1 .. Len(b) - 1 : t[i] = b[i + 1]
  BY HeadTailProperties
<1>. HIDE DEF t
<1>2. ASSUME NEW i \in 1 .. Len(a) PROVE a[i] = t[Len(t) - Len(a) + i]
  <2>. DEFINE j == Len(t) - Len(a) + i
  <2>1. j \in 1 .. Len(b) - 1 /\ j + 1 = Len(b) - Len(a) + i
    BY <1>1
  <2>2. a[i] = b[Len(b) - Len(a) + i]
    BY DEF End
  <2>. HIDE DEF j
  <2>. QED BY <1>1, <2>1, <2>2 DEF j
<1>3. Len(a) <= Len(t)
  BY <1>1
<1>4. End(a, t)
  BY <1>2, <1>3 DEF End
<1>. QED BY <1>1, <1>4 DEF t

\* The context is an end of the history, or a summary and one.
Follows(ms, h) ==
  \/ End(ms, h)
  \/ ms # <<>> /\ ms[1] = Summary /\ End(Tail(ms), h)

EndInv == pc # "idle" /\ ~wiped => Follows(messages, history)

\* AddMessage keeps it: what it drops, the summary first, is at the front.
LEMMA FollowsAdded ==
  ASSUME NEW m, Counted(m), NEW h \in Seq(Message), NEW x \in Message,
         Follows(m.messages, h), NEW g, g = Append(h, x),
         SetManager(AddMessage(m, x))
  PROVE  Follows(messages', g)
<1>. DEFINE ms == m.messages
            s == Append(ms, x)
            a == messages'
<1>1. /\ ms \in Seq(Message) /\ a \in Seq(Message) /\ a # <<>> /\ s \in Seq(Message)
      /\ Len(s) = Len(ms) + 1 /\ Len(ms) \in Nat
      /\ g \in Seq(Message)
  BY Added DEF Counted, Managers
<1>2. PICK d \in 0 .. Len(ms) : a = SubSeq(s, d + 1, Len(ms) + 1)
  BY AddMessageFacts, Added
<1>. HIDE DEF ms, s, a
<1>3. d \in 0 .. Len(s) /\ a = SubSeq(s, d + 1, Len(s)) /\ Len(a) = Len(s) - d
  <2>1. d \in 0 .. Len(s) /\ a = SubSeq(s, d + 1, Len(s))
    BY <1>1, <1>2
  <2>. QED BY ONLY <1>1, <2>1, EndOf
<1>4. End(a, s)
  BY ONLY <1>1, <1>3, EndIs
<1>5. CASE End(ms, h)
  <2>1. End(s, g)
    BY <1>1, <1>5, EndAppend DEF s
  <2>2. End(a, g)
    BY ONLY <1>1, <1>4, <2>1, EndOfEnd
  <2>. QED BY <2>2 DEF Follows, a
<1>6. CASE ms # <<>> /\ ms[1] = Summary /\ End(Tail(ms), h)
  <2>1. /\ Tail(ms) \in Seq(Message) /\ Tail(s) = Append(Tail(ms), x) /\ Tail(s) \in Seq(Message)
        /\ s[1] = Summary
    <3>. DEFINE u == Tail(ms)
                v == Append(u, x)
                w == Tail(s)
    <3>1. Len(ms) > 0 /\ s[Len(ms) + 1] = x /\ \A i \in 1 .. Len(ms) : s[i] = ms[i]
      BY <1>1, <1>6 DEF s
    <3>2. u \in Seq(Message) /\ Len(u) = Len(ms) - 1 /\ \A i \in 1 .. Len(ms) - 1 : u[i] = ms[i + 1]
      BY ONLY <1>1, <3>1, HeadTailProperties
    <3>3. w \in Seq(Message) /\ Len(w) = Len(ms) /\ \A i \in 1 .. Len(ms) : w[i] = s[i + 1]
      BY ONLY <1>1, <3>1, HeadTailProperties
    <3>. HIDE DEF u, w
    <3>4. /\ v \in Seq(Message) /\ Len(v) = Len(u) + 1 /\ v[Len(u) + 1] = x
          /\ \A i \in 1 .. Len(u) : v[i] = u[i]
      BY <3>2
    <3>. HIDE DEF v
    <3>5. \A i \in 1 .. Len(ms) : w[i] = v[i]
      <4>. SUFFICES ASSUME NEW i \in 1 .. Len(ms) PROVE w[i] = v[i]
        OBVIOUS
      <4>1. CASE i = Len(ms)
        BY <1>1, <3>1, <3>2, <3>3, <3>4, <4>1
      <4>2. CASE i # Len(ms)
        <5>1. i \in 1 .. Len(u) /\ i + 1 \in 1 .. Len(ms) /\ i \in 1 .. Len(ms) - 1
          BY <1>1, <3>2, <4>2
        <5>. QED BY <3>1, <3>2, <3>3, <3>4, <5>1
      <4>. QED BY <4>1, <4>2
    <3>6. w = v
      BY <1>1, <3>2, <3>3, <3>4, <3>5, SeqEqual
    <3>7. s[1] = ms[1]
      BY <1>1, <3>1
    <3>. QED BY <1>6, <3>2, <3>3, <3>6, <3>7 DEF u, v, w
  <2>2. End(Tail(s), g)
    BY ONLY <2>1, <1>6, h \in Seq(Message), x \in Message, g = Append(h, x), EndAppend
  <2>3. CASE d = 0
    <3>1. a = s
      BY <1>1, <1>3, <2>3
    <3>. QED BY <1>1, <2>1, <2>2, <3>1 DEF Follows, a
  <2>4. CASE d # 0
    <3>1. Len(a) < Len(s)
      BY <1>1, <1>3, <2>4
    <3>2. End(a, Tail(s))
      BY ONLY <1>1, <1>4, <3>1, EndOfTail
    <3>3. End(a, g)
      BY ONLY <1>1, <2>1, <2>2, <3>2, EndOfEnd
    <3>. QED BY <3>3 DEF Follows, a
  <2>. QED BY <2>3, <2>4
<1>. QED BY <1>5, <1>6 DEF Follows, ms

\* Compact keeps it: the old summary and what followed it make way for a new one.
LEMMA FollowsCompacted ==
  ASSUME TypeInv, Compact, Follows(messages, history)
  PROVE  Follows(messages', history)
<1>. DEFINE d == Len(messages) - ProtectRecent
            t == SubSeq(messages, d + 1, Len(messages))
<1>1. messages \in Seq(Message) /\ history \in Seq(Message) /\ Len(messages) \in Nat
  BY DEF TypeInv, TypeOK
<1>2. d \in 0 .. Len(messages) /\ d > 0
  BY <1>1, BudgetAssumption DEF Compact
<1>3. messages' = <<Summary>> \o t
  BY CompactFacts DEF TypeInv
<1>. HIDE DEF d
<1>4. t \in Seq(Message) /\ Len(t) = Len(messages) - d
  BY <1>1, <1>2, EndOf
<1>. HIDE DEF t
<1>5. messages' # <<>> /\ messages'[1] = Summary /\ Tail(messages') = t
  <2>1. Summary \in Message
    BY MessageTypes
  <2>. QED BY <1>3, <1>4, <2>1
<1>6. End(t, messages) /\ Len(t) < Len(messages)
  <2>1. End(t, messages)
    BY ONLY <1>1, <1>2, <1>4, EndIs DEF t
  <2>. QED BY <1>1, <1>2, <1>4, <2>1
<1>7. End(t, history)
  <2>1. CASE End(messages, history)
    BY ONLY <1>1, <1>4, <1>6, <2>1, EndOfEnd
  <2>2. CASE End(Tail(messages), history)
    <3>1. Tail(messages) \in Seq(Message) /\ End(t, Tail(messages))
      BY ONLY <1>1, <1>4, <1>6, EndOfTail
    <3>. QED BY ONLY <1>1, <1>4, <2>2, <3>1, EndOfEnd
  <2>. QED BY <2>1, <2>2 DEF Follows
<1>. QED BY <1>5, <1>7 DEF Follows

\* The step of the fourth part.
LEMMA EndStep == ASSUME TypeInv, EndInv, [Next]_vars PROVE EndInv'
<1>0. messages \in Seq(Message) /\ history \in Seq(Message) /\ Counted(Manager) /\ Manager.messages = messages
  BY DEF TypeInv, TypeOK, LoopInv, Manager
<1>1. ASSUME NEW n \in TextSizes, Resume(n) PROVE EndInv'
  <2>. DEFINE m == Restored(history)[Len(history)]
  <2>1. Counted(m) /\ Follows(m.messages, history)
    <3>1. Counted(m) /\ \E d \in 0 .. Len(history) : m.messages = SubSeq(history, d + 1, Len(history))
      BY <1>0, RestoredFacts
    <3>. HIDE DEF m
    <3>2. m.messages \in Seq(Message)
      BY <3>1 DEF Counted, Managers
    <3>3. End(m.messages, history)
      BY <1>0, <3>1, <3>2, EndIs
    <3>. QED BY <3>1, <3>3 DEF Follows
  <2>2. history' = Append(history, User(n)) /\ SetManager(AddMessage(m, User(n)))
    BY <1>1 DEF Resume, Persist
  <2>3. User(n) \in Message
    BY MessageTypes
  <2>. HIDE DEF m
  <2>4. Follows(messages', history')
    BY ONLY <1>0, <2>1, <2>2, <2>3, FollowsAdded
  <2>. QED BY <2>4 DEF EndInv
<1>2. ASSUME NEW n \in TextSizes, Create(n) PROVE EndInv'
  <2>1. Counted(EmptyManager) /\ Follows(EmptyManager.messages, history)
    <3>1. history = <<>> /\ EmptyManager.messages = <<>>
      BY <1>2 DEF Create, EmptyManager
    <3>. QED BY <3>1, EmptyCounted DEF Follows, End
  <2>2. history' = Append(history, User(n)) /\ SetManager(AddMessage(EmptyManager, User(n)))
    BY <1>2 DEF Create
  <2>3. User(n) \in Message
    BY MessageTypes
  <2>4. Follows(messages', history')
    BY ONLY <1>0, <2>1, <2>2, <2>3, FollowsAdded
  <2>. QED BY <2>4 DEF EndInv
<1>3. ASSUME NEW x \in Message, SetManager(AddMessage(Manager, x)), Persist(x), pc # "idle",
             UNCHANGED wiped
      PROVE  EndInv'
  <2>. SUFFICES ASSUME ~wiped PROVE Follows(messages', history')
    BY <1>3 DEF EndInv
  <2>1. history' = Append(history, x) /\ Follows(Manager.messages, history)
    BY <1>0, <1>3 DEF Persist, EndInv, TypeInv, LoopInv
  <2>. QED BY ONLY <1>0, <1>3, <2>1, FollowsAdded
<1>4. ASSUME NEW n \in TextSizes, NEW c \in 1 .. MaxCalls, ToolCalls(n, c) PROVE EndInv'
  <2>1. c \in 0 .. MaxCalls
    BY BoundAssumption
  <2>. QED BY <1>3, <1>4, <2>1, MessageTypes DEF ToolCalls, Collect
<1>5. ASSUME NEW n \in TextSizes, Done(n) PROVE EndInv'
  <2>1. 0 \in 0 .. MaxCalls
    BY BoundAssumption
  <2>. QED BY <1>3, <1>5, <2>1, MessageTypes DEF Done, Collect
<1>6. ASSUME NEW n \in ResultSizes, ToolResult(n) PROVE EndInv'
  <2>1. call \in 0 .. MaxCalls
    BY <1>6, BoundAssumption DEF ToolResult, TypeInv, LoopInv, TypeOK, Message
  <2>. QED BY <1>3, <1>6, <2>1, MessageTypes DEF ToolResult
<1>7. CASE Compact
  BY <1>7, FollowsCompacted DEF Compact, EndInv, sessVars
<1>8. CASE Canceled \/ ProviderError \/ Complete \/ Restart
  BY <1>8 DEF Canceled, ProviderError, Complete, Finish, Restart, EndInv
<1>9. CASE ClearMessages \/ Delete
  BY <1>9 DEF ClearMessages, Delete, loopVars, EndInv
<1>10. CASE SkipCompact \/ Check \/ Stream \/ Cancel \/ UNCHANGED vars
  BY <1>10 DEF SkipCompact, Check, Stream, Cancel, vars, mgrVars, sessVars, loopVars, EndInv
<1>. QED BY <1>1, <1>2, <1>4, <1>5, <1>6, <1>7, <1>8, <1>9, <1>10 DEF Next, Start

-----------------------------------------------------------------------------
Inv == TypeInv /\ FitInv /\ AnsweredInv /\ EndInv

LEMMA InvInit == Init => Inv
<1>. SUFFICES ASSUME Init PROVE Inv
  OBVIOUS
<1>4. FitInv /\ EndInv
  BY DEF Init, FitInv, EndInv
<1>5. Answers(history, cut) /\ OpenCalls = 0
  BY AnswersEmpty DEF Init, OpenCalls
<1>6. AnsweredInv
  BY <1>5, AnswersIs DEF Init, AnsweredInv, AnswerInv
<1>. QED BY <1>4, <1>6, TypeInit DEF Inv

LEMMA InvStep == Inv /\ [Next]_vars => Inv'
BY TypeStep, FitStep, AnsweredStep, EndStep DEF Inv

LEMMA Invariance == Spec => []Inv
BY InvInit, InvStep, PTL DEF Spec

\* The types of the variables.
THEOREM TypeCorrect == Spec => []TypeOK
<1>1. Inv => TypeOK
  BY DEF Inv, TypeInv
<1>. QED BY <1>1, Invariance, PTL

\* Manager.usedTokens, which AddMessage, trim and Compact change by
\* differences, is at every step the sum over Manager.messages.
THEOREM SumKept == Spec => []UsedIsTheSum
<1>1. Inv => UsedIsTheSum
  BY DEF Inv, TypeInv, LoopInv, Counted, Manager, UsedIsTheSum
<1>. QED BY <1>1, Invariance, PTL

\* A request of runLoop is over the budget by a summary at most, or by the
\* two messages that trim never drops, whatever the sizes of the messages.
THEOREM Fitting == Spec => []RequestFits
<1>1. Inv => RequestFits
  BY DEF Inv, FitInv, RequestFits
<1>. QED BY <1>1, Invariance, PTL

\* What the model is sent is the newest part of the persisted history, behind
\* a summary or not: in a run of any length, over any number of trims,
\* compactions, restorations by Engine.Start and restarts of the daemon.
THEOREM ContextIsRecent == Spec => []ContextEndsTheHistory
<1>1. ASSUME Inv PROVE ContextEndsTheHistory
  <2>. SUFFICES ASSUME pc # "idle", ~wiped
                PROVE  \/ IsSuffix(messages, history)
                       \/ messages[1] = Summary /\ IsSuffix(Tail(messages), history)
    BY DEF ContextEndsTheHistory
  <2>1. Follows(messages, history) /\ messages # <<>>
        /\ messages \in Seq(Message) /\ history \in Seq(Message)
    BY <1>1 DEF Inv, EndInv, TypeInv, LoopInv, TypeOK
  <2>2. CASE End(messages, history)
    BY ONLY <2>1, <2>2, EndIs
  <2>3. CASE messages[1] = Summary /\ End(Tail(messages), history)
    <3>1. Tail(messages) \in Seq(Message)
      BY ONLY <2>1, HeadTailProperties
    <3>. QED BY ONLY <2>1, <2>3, <3>1, EndIs
  <2>. QED BY <2>1, <2>2, <2>3 DEF Follows
<1>. QED BY <1>1, Invariance, PTL

\* The engine persists a result for each call of a reply, in order, before
\* anything else, unless the run was cancelled or the daemon died there.
THEOREM CallsAnswered == Spec => []HistoryAnswersCalls
<1>1. Inv => HistoryAnswersCalls
  BY DEF Inv, AnsweredInv
<1>. QED BY <1>1, Invariance, PTL

\* A session the engine marked completed has every call answered.
THEOREM CompletedAnswered == Spec => []CompletedIsAnswered
<1>1. Inv => CompletedIsAnswered
  BY DEF Inv, AnsweredInv, AnswerInv, OpenCalls, CompletedIsAnswered
<1>. QED BY <1>1, Invariance, PTL
=============================================================================
