------------------------ MODULE SessionStore_proofs ------------------------
(***************************************************************************)
(* Proofs about the session store, for any sets of sessions and callers.   *)
(***************************************************************************)
EXTENDS SessionStore, TLAPS

(***************************************************************************)
(* Type correctness.  TypeOK alone is not inductive: what a caller marshals *)
(* and writes must be a session, which depends on where the caller is.     *)
(***************************************************************************)

Placed ==
  \A g \in Callers :
    /\ pc[g] # "idle" => on[g] \in Sessions
    /\ pc[g] \in {"idle", "create", "unlink"} => held[g] = None
    /\ pc[g] \in {"open", "write", "lost"} => held[g] \in Session
    /\ pc[g] = "marshal" /\ held[g] = None => cache[on[g]] \in Session

TypeInv == TypeOK /\ Placed

LEMMA FileKinds ==
  /\ None \notin Session \cup {Absent, Empty, Torn}
  /\ Absent \notin Session /\ Empty \notin Session /\ Torn \notin Session
  BY FileAssumption DEF FileAssumption

\* What the operations make of a session is a session.
LEMMA SessionType ==
  ASSUME NEW s \in Session, NEW g \in Callers, NEW st \in States, NEW n \in Nat
  PROVE  /\ [s EXCEPT !.messages = Append(@, g)] \in Session
         /\ [s EXCEPT !.state = st] \in Session
         /\ [s EXCEPT !.tokens = n] \in Session
         /\ [s EXCEPT !.compactions = @ + 1] \in Session
         /\ [s EXCEPT !.messages = <<>>, !.tokens = 0, !.state = "active"] \in Session
         /\ NewSession \in Session
<1>1. /\ Append(s.messages, g) \in Seq(Callers)
      /\ s.compactions + 1 \in Nat
      /\ <<>> \in Seq(Callers)
  BY DEF Session
<1>2. [s EXCEPT !.messages = Append(@, g)] \in Session
  BY <1>1 DEF Session
<1>3. [s EXCEPT !.state = st] \in Session /\ [s EXCEPT !.tokens = n] \in Session
  BY DEF Session
<1>4. [s EXCEPT !.compactions = @ + 1] \in Session
  BY <1>1 DEF Session
<1>5. [s EXCEPT !.messages = <<>>, !.tokens = 0, !.state = "active"] \in Session
  BY <1>1, StatesAssumption DEF Session
<1>6. NewSession \in Session
  BY <1>1, StatesAssumption DEF Session, NewSession
<1>7. QED
  BY <1>2, <1>3, <1>4, <1>5, <1>6

\* An operation's locked part that puts session s into the cache, or takes
\* it out, leaves every pointer on a session.
LEMMA BeginType ==
  ASSUME TypeInv, NEW g \in Callers, NEW i \in Sessions, NEW p \in {"marshal", "unlink"},
         pc[g] = "idle" \/ pc[g] = "create", Begin(g, i, p),
         NEW s \in Session \cup {None}, cache' = [cache EXCEPT ![i] = s],
         \/ s \in Session /\ UNCHANGED held
         \/ TakeOut(i),
         p = "marshal" => s \in Session,
         appended' \in [Sessions -> BOOLEAN]
  PROVE  TypeInv'
<1>1. TypeOK'
  <2>1. held' \in [Callers -> Session \cup {None}]
    BY DEF TypeInv, TypeOK, TakeOut
  <2>2. /\ cache' \in [Sessions -> Session \cup {None}]
        /\ pc' \in [Callers -> Busy \cup {"idle", "create"}]
        /\ on' \in [Callers -> Sessions \cup {None}]
        /\ alone' \in [Callers -> BOOLEAN]
    BY DEF TypeInv, TypeOK, Begin, Busy, InFlight
  <2>3. QED
    BY <2>1, <2>2 DEF TypeInv, TypeOK, Begin
<1>2. ASSUME NEW h \in Callers, h # g
      PROVE  /\ pc'[h] = pc[h] /\ on'[h] = on[h]
             /\ held'[h] = held[h] \/ (pc[h] = "marshal" /\ held'[h] \in Session)
             /\ pc'[h] = "marshal" /\ held'[h] = None => cache'[on[h]] \in Session
  <2>1. pc'[h] = pc[h] /\ on'[h] = on[h]
    BY <1>2 DEF TypeInv, TypeOK, Begin
  <2>2. pc[h] = "marshal" /\ held[h] = None => on[h] \in Sessions /\ cache[on[h]] \in Session
    BY DEF TypeInv, Placed
  <2>3. cache'[i] = s /\ \A j \in Sessions \ {i} : cache'[j] = cache[j]
    BY DEF TypeInv, TypeOK
  <2>4. CASE s \in Session /\ UNCHANGED held
    BY <2>1, <2>2, <2>3, <2>4
  <2>5. CASE TakeOut(i)
    BY <2>1, <2>2, <2>3, <2>5, FileKinds DEF TakeOut
  <2>6. QED
    BY <2>4, <2>5
<1>3. /\ pc'[g] = p /\ on'[g] = i
      /\ held'[g] = None
      /\ p = "marshal" => cache'[i] \in Session
  BY DEF TypeInv, TypeOK, Placed, Begin, TakeOut
<1>4. Placed'
  <2> SUFFICES ASSUME NEW h \in Callers
               PROVE  /\ pc'[h] # "idle" => on'[h] \in Sessions
                      /\ pc'[h] \in {"idle", "create", "unlink"} => held'[h] = None
                      /\ pc'[h] \in {"open", "write", "lost"} => held'[h] \in Session
                      /\ pc'[h] = "marshal" /\ held'[h] = None => cache'[on'[h]] \in Session
    BY DEF Placed
  <2>1. CASE h = g
    BY <1>3, <2>1
  <2>2. CASE h # g
    BY <1>2, <2>2 DEF TypeInv, Placed
  <2>3. QED
    BY <2>1, <2>2
<1>5. QED
  BY <1>1, <1>4 DEF TypeInv

\* What happens to caller g's file leaves the other callers' pointers alone.
LEMMA ReturnType ==
  ASSUME TypeInv, NEW g \in Callers, NEW ok \in BOOLEAN, pc[g] \in Busy, Return(g, ok),
         file' \in [Sessions -> Session \cup {Absent, Empty, Torn}],
         pc' \in [Callers -> Busy \cup {"idle", "create"}], pc'[g] = "idle",
         \A h \in Callers \ {g} : pc'[h] = pc[h] \/ (pc[h] = "write" /\ pc'[h] = "lost")
  PROVE  TypeInv'
<1>1. TypeOK'
  BY DEF TypeInv, TypeOK, Return
<1>2. Placed'
  BY DEF TypeInv, TypeOK, Placed, Return, Busy
<1>3. QED
  BY <1>1, <1>2 DEF TypeInv

LEMMA OverwrittenType ==
  ASSUME NEW old, NEW new \in Session
  PROVE  Overwritten(old, new) \subseteq Session \cup {Torn}
  BY DEF Overwritten

LEMMA NextType ==
  ASSUME TypeInv, [Next]_vars
  PROVE  TypeInv'
<1>1. ASSUME NEW g \in Callers, NEW i \in Sessions, Operation(g, i)
      PROVE  TypeInv'
  <2>1. ASSUME NEW s \in Session, Change(g, i, s), appended' \in [Sessions -> BOOLEAN]
        PROVE  TypeInv'
    BY <2>1, BeginType DEF Change
  <2>2. UNCHANGED appended => appended' \in [Sessions -> BOOLEAN]
    BY DEF TypeInv, TypeOK
  <2>3. cache[i] # None => cache[i] \in Session
    BY DEF TypeInv, TypeOK
  <2>4. CASE AppendMessage(g, i)
    BY <2>1, <2>2, <2>3, <2>4, SessionType, StatesAssumption DEF AppendMessage
  <2>5. ASSUME NEW st \in States, UpdateState(g, i, st)
        PROVE  TypeInv'
    BY <2>1, <2>2, <2>3, <2>5, SessionType DEF UpdateState
  <2>6. ASSUME NEW n \in 0 .. MaxTokens, UpdateTokens(g, i, n)
        PROVE  TypeInv'
    <3>1. n \in Nat
      BY <2>6, BoundAssumption
    <3>2. [cache[i] EXCEPT !.tokens = n] \in Session
      BY <2>3, <2>6, <3>1, SessionType, StatesAssumption DEF UpdateTokens
    <3>3. QED
      BY <2>1, <2>2, <2>6, <3>2 DEF UpdateTokens
  <2>7. CASE IncrementCompaction(g, i)
    BY <2>1, <2>2, <2>3, <2>7, SessionType, StatesAssumption DEF IncrementCompaction
  <2>8. CASE ClearMessages(g, i)
    <3>1. appended' \in [Sessions -> BOOLEAN]
      BY <2>8 DEF ClearMessages, TypeInv, TypeOK
    <3>2. QED
      BY <2>1, <2>3, <2>8, <3>1, SessionType, StatesAssumption DEF ClearMessages
  <2>9. CASE Get(g, i)
    <3>1. TypeOK'
      BY <2>9 DEF Get, TypeInv, TypeOK
    <3>2. Placed'
      BY <2>9 DEF Get, TypeInv, TypeOK, Placed
    <3>3. QED
      BY <3>1, <3>2 DEF TypeInv
  <2>10. CASE Delete(g, i)
    <3>1. appended' \in [Sessions -> BOOLEAN]
      BY <2>10 DEF Delete, TypeInv, TypeOK
    <3>2. QED
      BY <2>10, <3>1, BeginType DEF Delete
  <2>11. QED
    BY <1>1, <2>4, <2>5, <2>6, <2>7, <2>8, <2>9, <2>10 DEF Operation
<1>2. ASSUME NEW g \in Callers, Continue(g)
      PROVE  TypeInv'
  <2>1. CASE Create(g)
    <3>1. on[g] \in Sessions
      BY <2>1 DEF Create, TypeInv, Placed
    <3>2. NewSession \in Session
      BY StatesAssumption DEF Session, NewSession
    <3>3. PICK b \in BOOLEAN : appended' = [appended EXCEPT ![on[g]] = b]
      BY <2>1 DEF Create
    <3>4. appended' \in [Sessions -> BOOLEAN]
      BY <3>3 DEF TypeInv, TypeOK
    <3>5. QED
      BY <2>1, <3>1, <3>2, <3>4, BeginType DEF Create
  <2>2. CASE Marshal(g)
    BY <2>2, FileKinds DEF Marshal, TypeInv, TypeOK, Placed, Busy
  <2>3. CASE Open(g)
    BY <2>3 DEF Open, TypeInv, TypeOK, Placed, Busy
  <2>4. CASE Write(g)
    <3>1. held[g] \in Session
      BY <2>4 DEF Write, TypeInv, Placed
    <3>2. PICK f \in Session \cup {Torn} : file' = [file EXCEPT ![on[g]] = f]
      BY <2>4, <3>1, OverwrittenType DEF Write
    <3>3. file' \in [Sessions -> Session \cup {Absent, Empty, Torn}]
      BY <3>2 DEF TypeInv, TypeOK
    <3>4. /\ pc' \in [Callers -> Busy \cup {"idle", "create"}]
          /\ pc'[g] = "idle" /\ \A h \in Callers \ {g} : pc'[h] = pc[h]
      BY <2>4 DEF Write, TypeInv, TypeOK
    <3>5. QED
      BY <2>4, <3>3, <3>4, ReturnType DEF Write, Busy
  <2>5. CASE WriteFails(g)
    <3>1. on[g] \in Sessions
      BY <2>5 DEF WriteFails, TypeInv, Placed
    <3>2. file' \in [Sessions -> Session \cup {Absent, Empty, Torn}]
      BY <2>5, <3>1 DEF WriteFails, TypeInv, TypeOK
    <3>3. /\ pc' \in [Callers -> Busy \cup {"idle", "create"}]
          /\ pc'[g] = "idle" /\ \A h \in Callers \ {g} : pc'[h] = pc[h]
      BY <2>5 DEF WriteFails, TypeInv, TypeOK
    <3>4. QED
      BY <2>5, <3>2, <3>3, ReturnType DEF WriteFails, Busy
  <2>6. CASE WriteUnlinked(g)
    <3>1. /\ pc' \in [Callers -> Busy \cup {"idle", "create"}]
          /\ pc'[g] = "idle" /\ \A h \in Callers \ {g} : pc'[h] = pc[h]
          /\ file' \in [Sessions -> Session \cup {Absent, Empty, Torn}]
      BY <2>6 DEF WriteUnlinked, TypeInv, TypeOK
    <3>2. QED
      BY <2>6, <3>1, ReturnType DEF WriteUnlinked, Busy
  <2>7. CASE Remove(g)
    <3>1. /\ pc' \in [Callers -> Busy \cup {"idle", "create"}]
          /\ pc'[g] = "idle"
          /\ \A h \in Callers \ {g} : pc'[h] = pc[h] \/ (pc[h] = "write" /\ pc'[h] = "lost")
      BY <2>7 DEF Remove, TypeInv, TypeOK, Busy
    <3>2. file' \in [Sessions -> Session \cup {Absent, Empty, Torn}]
      BY <2>7 DEF Remove, TypeInv, TypeOK
    <3>3. QED
      BY <2>7, <3>1, <3>2, ReturnType DEF Remove, Busy
  <2>8. QED
    BY <1>2, <2>1, <2>2, <2>3, <2>4, <2>5, <2>6, <2>7 DEF Continue
<1>3. CASE Restart
  BY <1>3 DEF Restart, Loaded, TypeInv, TypeOK, Placed
<1>4. CASE UNCHANGED vars
  BY <1>4 DEF vars, TypeInv, TypeOK, Placed
<1>5. QED
  BY <1>1, <1>2, <1>3, <1>4 DEF Next

\* Cache and files hold sessions whatever the callers' operations do.
THEOREM TypeCorrect == Spec => []TypeOK
<1>1. Init => TypeInv
  BY DEF Init, TypeInv, TypeOK, Placed
<1>2. TypeInv => TypeOK
  BY DEF TypeInv
<1>3. QED
  BY <1>1, <1>2, NextType, PTL DEF Spec

LEMMA TypeInvariant == Spec => []TypeInv
<1>1. Init => TypeInv
  BY DEF Init, TypeInv, TypeOK, Placed
<1>2. QED
  BY <1>1, NextType, PTL DEF Spec

-----------------------------------------------------------------------------
(***************************************************************************)
(* LoneOperationPersists.  While an operation is alone on its session, the *)
(* next step of its writeToDisk brings it closer to a file level with the  *)
(* cache: nobody else changes either.                                      *)
(***************************************************************************)

OnTrack(g) ==
  LET i == on[g] IN
  /\ \A h \in Callers : InFlight(h, i) => h = g
  /\ pc[g] = "marshal" => held[g] = None
  /\ pc[g] \in {"open", "write"} => held[g] = cache[i]
  /\ pc[g] = "write" => file[i] = Empty
  /\ pc[g] = "unlink" => cache[i] = None
  /\ pc[g] # "lost"

LoneInv ==
  /\ \A g \in Callers : pc[g] \in Busy /\ alone[g] => OnTrack(g)
  /\ LoneOperationPersists

LEMMA BeginLone ==
  ASSUME TypeInv, LoneInv, NEW g \in Callers, NEW i \in Sessions, NEW p \in {"marshal", "unlink"},
         pc[g] = "idle" \/ pc[g] = "create", Begin(g, i, p),
         NEW s \in Session \cup {None}, cache' = [cache EXCEPT ![i] = s],
         UNCHANGED held \/ TakeOut(i),
         p = "unlink" => s = None
  PROVE  LoneInv'
<1>1. /\ \A h \in Callers : h # g => pc'[h] = pc[h] /\ on'[h] = on[h]
      /\ pc'[g] = p /\ on'[g] = i /\ held'[g] = None /\ cache'[i] = s
      /\ \A j \in Sessions : j # i => cache'[j] = cache[j]
  BY DEF TypeInv, TypeOK, Placed, Begin, TakeOut
<1>2. \A h \in Callers : on[h] # i => held'[h] = held[h]
  BY DEF TakeOut
<1>3. UNCHANGED <<file, clean>>
  BY DEF Begin
<1>4. /\ \A h \in Callers : h # g /\ alone'[h] => alone[h] /\ ~InFlight(h, i)
      /\ alone'[g] => \A h \in Callers : ~InFlight(h, i)
  BY DEF Begin
<1>5. ASSUME NEW h \in Callers, pc'[h] \in Busy, alone'[h]
      PROVE  OnTrack(h)'
  <2>1. CASE h = g
    <3>1. \A k \in Callers : ~InFlight(k, i)
      BY <1>4, <1>5, <2>1
    <3>2. \A k \in Callers : k # g => ~InFlight(k, i)'
      BY <1>1, <3>1 DEF InFlight
    <3>3. QED
      BY <1>1, <2>1, <3>2 DEF OnTrack, InFlight
  <2>2. CASE h # g
    <3>1. pc[h] \in Busy /\ alone[h] /\ on[h] # i
      BY <1>1, <1>4, <1>5, <2>2 DEF InFlight
    <3>2. OnTrack(h) /\ on[h] \in Sessions
      BY <3>1 DEF LoneInv, TypeInv, Placed, Busy
    <3>3. QED
      BY <1>1, <1>2, <1>3, <2>2, <3>1, <3>2 DEF OnTrack, InFlight
  <2>3. QED
    BY <2>1, <2>2
<1>6. ASSUME NEW j \in Sessions, Quiet(j)', clean'[j]
      PROVE  Loaded(j)' = cache'[j]
  <2>1. j # i
    BY <1>1, <1>6 DEF Quiet, InFlight, Busy
  <2>2. Quiet(j)
    BY <1>1, <1>6 DEF Quiet, InFlight, Busy
  <2>3. QED
    BY <1>1, <1>3, <1>6, <2>1, <2>2 DEF LoneInv, LoneOperationPersists, Loaded
<1>7. QED
  BY <1>5, <1>6 DEF LoneInv, LoneOperationPersists

\* The steps after the lock: only g's place, pointer and file change.
LEMMA ContinueLone ==
  ASSUME TypeInv, LoneInv, NEW g \in Callers, pc[g] \in Busy, UNCHANGED <<cache, on>>,
         Marshal(g) \/ Open(g) \/ Write(g) \/ WriteFails(g) \/ WriteUnlinked(g) \/ Remove(g)
  PROVE  LoneInv'
<1>1. /\ \A h \in Callers : h # g =>
           /\ pc'[h] = pc[h] \/ (pc[h] = "write" /\ pc'[h] = "lost" /\ on[h] = on[g])
           /\ held'[h] = held[h] /\ alone'[h] = alone[h]
      /\ \A i \in Sessions : i # on[g] => file'[i] = file[i] /\ clean'[i] = clean[i]
      /\ on[g] \in Sessions
      /\ pc'[g] = "idle" \/ alone'[g] = alone[g]
  BY DEF Marshal, Open, Write, WriteFails, WriteUnlinked, Remove, Return, TypeInv, TypeOK, Placed, Busy
<1>2. ASSUME NEW h \in Callers, pc'[h] \in Busy, alone'[h]
      PROVE  OnTrack(h)'
  <2>1. CASE h = g
    <3>1. alone[g] /\ OnTrack(g)
      BY <1>1, <1>2, <2>1 DEF LoneInv, Busy
    <3>2. /\ pc[g] = "marshal" /\ pc'[g] = "open" /\ held'[g] = cache[on[g]]
          \/ /\ pc[g] = "open" /\ pc'[g] = "write" /\ held'[g] = held[g]
             /\ file'[on[g]] = Empty
      BY <1>2, <2>1, <3>1 DEF Marshal, Open, Write, WriteFails, WriteUnlinked, Remove,
         TypeInv, TypeOK, Placed, OnTrack, Busy
    <3>3. \A k \in Callers : k # g => ~InFlight(k, on[g])'
      BY <1>1, <3>1 DEF OnTrack, InFlight, Busy
    <3>4. QED
      BY <2>1, <3>1, <3>2, <3>3 DEF OnTrack, InFlight
  <2>2. CASE h # g
    <3>1. pc[h] \in Busy /\ alone[h]
      BY <1>1, <1>2, <2>2 DEF Busy
    <3>2. OnTrack(h) /\ on[h] \in Sessions
      BY <3>1 DEF LoneInv, TypeInv, Placed, Busy
    <3>3. on[g] # on[h]
      BY <2>2, <3>2 DEF OnTrack, InFlight
    <3>4. pc'[h] = pc[h] /\ held'[h] = held[h] /\ file'[on[h]] = file[on[h]]
      BY <1>1, <2>2, <3>2, <3>3
    <3>5. \A k \in Callers : InFlight(k, on[h])' => InFlight(k, on[h])
      BY <1>1 DEF InFlight, Busy
    <3>6. QED
      BY <3>2, <3>4, <3>5 DEF OnTrack
  <2>3. QED
    BY <2>1, <2>2
<1>3. ASSUME NEW j \in Sessions, Quiet(j)', clean'[j]
      PROVE  Loaded(j)' = cache'[j]
  <2>1. CASE j # on[g]
    <3>1. Quiet(j)
      BY <1>1, <1>3, <2>1 DEF Quiet, InFlight, Busy
    <3>2. QED
      BY <1>1, <1>3, <2>1, <3>1 DEF LoneInv, LoneOperationPersists, Loaded
  <2>2. CASE j = on[g]
    <3>1. pc'[g] = "idle"
      BY <1>3, <2>2 DEF Quiet, InFlight, Marshal, Open, Write, WriteFails, WriteUnlinked, Remove,
         TypeInv, TypeOK, Busy
    <3>2. ~WriteFails(g) /\ alone[g]
      BY <1>3, <2>2, <3>1 DEF Marshal, Open, Write, WriteFails, WriteUnlinked, Remove, Return,
         TypeInv, TypeOK
    <3>3. OnTrack(g)
      BY <3>2 DEF LoneInv
    <3>4. \/ file'[j] = held[g] /\ held[g] = cache[j] /\ held[g] \in Session
          \/ file'[j] = Absent /\ cache[j] = None
      <4>1. CASE Write(g)
        <5>1. held[g] = cache[j] /\ held[g] \in Session /\ file[j] = Empty
          BY <2>2, <3>3, <4>1 DEF Write, OnTrack, TypeInv, Placed
        <5>2. file'[j] \in Overwritten(Empty, held[g])
          BY <2>2, <4>1, <5>1 DEF Write, TypeInv, TypeOK
        <5>3. QED
          BY <5>1, <5>2 DEF Overwritten
      <4>2. CASE Remove(g)
        BY <2>2, <3>3, <4>2 DEF Remove, OnTrack, TypeInv, TypeOK
      <4>3. ~Marshal(g) /\ ~Open(g) /\ ~WriteUnlinked(g)
        BY <3>1, <3>3 DEF Marshal, Open, WriteUnlinked, OnTrack, TypeInv, TypeOK
      <4>4. QED
        BY <3>2, <4>1, <4>2, <4>3
    <3>5. QED
      BY <3>4, FileKinds DEF Loaded
  <2>3. QED
    BY <2>1, <2>2
<1>4. QED
  BY <1>2, <1>3 DEF LoneInv, LoneOperationPersists

LEMMA NextLone ==
  ASSUME TypeInv, LoneInv, [Next]_vars
  PROVE  LoneInv'
<1>1. ASSUME NEW g \in Callers, NEW i \in Sessions, Operation(g, i)
      PROVE  LoneInv'
  <2>1. ASSUME NEW s \in Session, Change(g, i, s)
        PROVE  LoneInv'
    BY <2>1, BeginLone DEF Change
  <2>2. cache[i] # None => cache[i] \in Session
    BY DEF TypeInv, TypeOK
  <2>3. ASSUME cache[i] # None,
               NEW st \in States, NEW n \in Nat
        PROVE  /\ [cache[i] EXCEPT !.messages = Append(@, g)] \in Session
               /\ [cache[i] EXCEPT !.state = st] \in Session
               /\ [cache[i] EXCEPT !.tokens = n] \in Session
               /\ [cache[i] EXCEPT !.compactions = @ + 1] \in Session
               /\ [cache[i] EXCEPT !.messages = <<>>, !.tokens = 0, !.state = "active"] \in Session
    BY <2>2, <2>3, SessionType
  <2>4. CASE \/ AppendMessage(g, i) \/ IncrementCompaction(g, i) \/ ClearMessages(g, i)
    BY <2>1, <2>3, <2>4, StatesAssumption DEF AppendMessage, IncrementCompaction, ClearMessages
  <2>5. ASSUME NEW st \in States, UpdateState(g, i, st)
        PROVE  LoneInv'
    BY <2>1, <2>3, <2>5 DEF UpdateState
  <2>6. ASSUME NEW n \in 0 .. MaxTokens, UpdateTokens(g, i, n)
        PROVE  LoneInv'
    <3>1. n \in Nat
      BY <2>6, BoundAssumption
    <3>2. [cache[i] EXCEPT !.tokens = n] \in Session
      BY <2>3, <2>6, <3>1, StatesAssumption DEF UpdateTokens
    <3>3. QED
      BY <2>1, <2>6, <3>2 DEF UpdateTokens
  <2>7. CASE Get(g, i)
    <3>1. /\ \A h \in Callers : pc'[h] \in Busy =>
               h # g /\ pc'[h] = pc[h] /\ on'[h] = on[h]
          /\ \A h \in Callers : pc[h] \in Busy => pc'[h] \in Busy /\ on'[h] = on[h]
          /\ UNCHANGED <<cache, file, held, alone, clean>>
      BY <2>7 DEF Get, TypeInv, TypeOK, Busy
    <3>2. \A h \in Callers, j \in Sessions : InFlight(h, j)' <=> InFlight(h, j)
      BY <3>1 DEF InFlight
    <3>3. \A h \in Callers : pc[h] \in Busy => on[h] \in Sessions
      BY DEF TypeInv, Placed, Busy
    <3>4. QED
      BY <3>1, <3>2, <3>3 DEF LoneInv, LoneOperationPersists, OnTrack, Quiet, Loaded
  <2>8. CASE Delete(g, i)
    BY <2>8, BeginLone DEF Delete
  <2>9. QED
    BY <1>1, <2>4, <2>5, <2>6, <2>7, <2>8 DEF Operation
<1>2. ASSUME NEW g \in Callers, Continue(g)
      PROVE  LoneInv'
  <2>1. CASE Create(g)
    <3>1. on[g] \in Sessions /\ NewSession \in Session
      BY <2>1, StatesAssumption DEF Create, TypeInv, Placed, Session, NewSession
    <3>2. QED
      BY <2>1, <3>1, BeginLone DEF Create
  <2>2. CASE ~Create(g)
    <3>1. /\ pc[g] \in Busy /\ UNCHANGED <<cache, on>>
          /\ Marshal(g) \/ Open(g) \/ Write(g) \/ WriteFails(g) \/ WriteUnlinked(g) \/ Remove(g)
      BY <1>2, <2>2 DEF Continue, Marshal, Open, Write, WriteFails, WriteUnlinked, Remove, Return, Busy
    <3>2. QED
      BY <3>1, ContinueLone
  <2>3. QED
    BY <2>1, <2>2
<1>3. CASE Restart
  BY <1>3 DEF Restart, LoneInv, LoneOperationPersists, Loaded, Busy
<1>4. CASE UNCHANGED vars
  BY <1>4 DEF vars, LoneInv, LoneOperationPersists, OnTrack, Quiet, InFlight, Loaded
<1>5. QED
  BY <1>1, <1>2, <1>3, <1>4 DEF Next

\* What an undisturbed operation has left of a session, a restart restores.
THEOREM LonePersists == Spec => []LoneOperationPersists
<1>1. Init => LoneInv
  BY FileKinds DEF Init, LoneInv, LoneOperationPersists, Loaded, Busy
<1>2. LoneInv => LoneOperationPersists
  BY DEF LoneInv
<1>3. QED
  BY <1>1, <1>2, NextLone, TypeInvariant, PTL DEF Spec

-----------------------------------------------------------------------------
(***************************************************************************)
(* FileLagsHistory.  What is written later is in callers' hands already,   *)
(* so their snapshots are beginnings of the history too.                   *)
(***************************************************************************)

Lags(i) ==
  /\ file[i] \in Session => Beginning(file[i].messages, cache[i].messages)
  /\ \A g \in Callers : pc[g] \in {"marshal", "open", "write"} /\ on[g] = i /\ held[g] # None =>
       Beginning(held[g].messages, cache[i].messages)

LagInv == \A i \in Sessions : appended[i] /\ cache[i] # None => Lags(i)

LEMMA BeginningOfItself ==
  ASSUME NEW a \in Seq(Callers)
  PROVE  Beginning(a, a)
  BY DEF Beginning

LEMMA BeginningOfMore ==
  ASSUME NEW a \in Seq(Callers), NEW b \in Seq(Callers), NEW g \in Callers, Beginning(a, b)
  PROVE  Beginning(a, Append(b, g))
  BY DEF Beginning

\* A change that leaves the messages, or adds one, keeps the snapshots behind.
LEMMA ChangeLags ==
  ASSUME TypeInv, LagInv, NEW g \in Callers, NEW i \in Sessions, NEW s \in Session, Change(g, i, s),
         cache[i] # None,
         s.messages = cache[i].messages \/ s.messages = Append(cache[i].messages, g),
         UNCHANGED appended
  PROVE  LagInv'
<1>1. /\ \A h \in Callers : h # g => pc'[h] = pc[h] /\ on'[h] = on[h]
      /\ held'[g] = None /\ cache'[i] = s
      /\ \A j \in Sessions : j # i => cache'[j] = cache[j]
      /\ UNCHANGED <<file, held>>
  BY DEF Change, Begin, TypeInv, TypeOK, Placed
<1>2. cache[i].messages \in Seq(Callers)
  BY DEF TypeInv, TypeOK, Session
<1>3. ASSUME NEW a \in Seq(Callers), Beginning(a, cache[i].messages)
      PROVE  Beginning(a, s.messages)
  BY <1>2, <1>3, BeginningOfMore
<1>4. \A t \in Session : t.messages \in Seq(Callers)
  BY DEF Session
<1>5. /\ file[i] \in Session => file[i].messages \in Seq(Callers)
      /\ \A h \in Callers : held[h] # None => held[h].messages \in Seq(Callers)
  BY <1>4 DEF TypeInv, TypeOK
<1>6. ASSUME NEW j \in Sessions, appended'[j], cache'[j] # None
      PROVE  Lags(j)'
  <2>1. Lags(j)
    BY <1>1, <1>6 DEF LagInv
  <2>2. CASE j = i
    BY <1>1, <1>3, <1>5, <2>1, <2>2 DEF Lags
  <2>3. CASE j # i
    BY <1>1, <2>1, <2>3 DEF Lags
  <2>4. QED
    BY <2>2, <2>3
<1>7. QED
  BY <1>6 DEF LagInv

\* A session out of step leaves the others as they are.
LEMMA ResetLags ==
  ASSUME TypeInv, LagInv, NEW g \in Callers, NEW i \in Sessions, NEW p \in {"marshal", "unlink"},
         pc[g] = "idle" \/ pc[g] = "create", Begin(g, i, p),
         NEW s \in Session \cup {None}, cache' = [cache EXCEPT ![i] = s],
         UNCHANGED held \/ TakeOut(i),
         NEW b \in BOOLEAN, appended' = [appended EXCEPT ![i] = b],
         b => file[i] = Absent /\ \A h \in Callers : ~InFlight(h, i)
  PROVE  LagInv'
<1>1. /\ \A h \in Callers : h # g => pc'[h] = pc[h] /\ on'[h] = on[h]
      /\ pc'[g] = p /\ on'[g] = i /\ held'[g] = None
      /\ \A j \in Sessions : j # i => cache'[j] = cache[j] /\ appended'[j] = appended[j]
      /\ appended'[i] = b
      /\ UNCHANGED file
  BY DEF Begin, TakeOut, TypeInv, TypeOK, Placed
<1>2. \A h \in Callers : on[h] # i => held'[h] = held[h]
  BY DEF TakeOut
<1>3. ASSUME NEW j \in Sessions, appended'[j], cache'[j] # None
      PROVE  Lags(j)'
  <2>1. CASE j = i
    <3>1. file[i] = Absent /\ \A h \in Callers : ~InFlight(h, i)
      BY <1>1, <1>3, <2>1
    <3>2. \A h \in Callers : h # g => ~InFlight(h, i)'
      BY <1>1, <3>1 DEF InFlight
    <3>3. QED
      BY <1>1, <2>1, <3>1, <3>2, FileKinds DEF Lags, InFlight, Busy
  <2>2. CASE j # i
    BY <1>1, <1>2, <1>3, <2>2 DEF LagInv, Lags
  <2>3. QED
    BY <2>1, <2>2
<1>4. QED
  BY <1>3 DEF LagInv

LEMMA ContinueLags ==
  ASSUME TypeInv, LagInv, NEW g \in Callers, pc[g] \in Busy, UNCHANGED <<cache, on, appended>>,
         Marshal(g) \/ Open(g) \/ Write(g) \/ WriteFails(g) \/ WriteUnlinked(g) \/ Remove(g)
  PROVE  LagInv'
<1> DEFINE Snapshot(h) == pc[h] \in {"marshal", "open", "write"} /\ held[h] # None
<1>1. /\ \A h \in Callers : h # g /\ Snapshot(h)' => Snapshot(h) /\ held'[h] = held[h]
      /\ Snapshot(g)' => \/ Snapshot(g) /\ held'[g] = held[g]
                         \/ held'[g] = cache[on[g]] /\ held'[g] \in Session
  BY FileKinds DEF Marshal, Open, Write, WriteFails, WriteUnlinked, Remove, Return,
     TypeInv, TypeOK, Placed
<1>2. ASSUME NEW j \in Sessions, file'[j] \in Session
      PROVE  \/ file'[j] = file[j]
             \/ Snapshot(g) /\ on[g] = j /\ file'[j] = held[g]
  <2>1. CASE Write(g)
    <3>1. held[g] \in Session /\ on[g] \in Sessions
      BY <2>1 DEF Write, TypeInv, Placed
    <3>2. PICK f \in Overwritten(file[on[g]], held[g]) : file' = [file EXCEPT ![on[g]] = f]
      BY <2>1 DEF Write
    <3>3. f = held[g] \/ f = Torn
      BY <3>2 DEF Overwritten
    <3>4. QED
      BY <1>2, <2>1, <3>1, <3>2, <3>3, FileKinds DEF Write, TypeInv, TypeOK
  <2>2. CASE ~Write(g)
    BY <1>2, <2>2, FileKinds DEF Marshal, Open, WriteFails, WriteUnlinked, Remove, TypeInv, TypeOK
  <2>3. QED
    BY <2>1, <2>2
<1>3. \A t \in Session : t.messages \in Seq(Callers)
  BY DEF Session
<1>4. ASSUME NEW j \in Sessions, appended'[j], cache'[j] # None
      PROVE  Lags(j)'
  <2>1. Lags(j)
    BY <1>4 DEF LagInv
  <2>2. cache[j] \in Session
    BY <1>4 DEF TypeInv, TypeOK
  <2>3. file'[j] \in Session => Beginning(file'[j].messages, cache[j].messages)
    BY <1>2, <2>1 DEF Lags
  <2>4. ASSUME NEW h \in Callers, Snapshot(h)', on[h] = j
        PROVE  Beginning(held'[h].messages, cache[j].messages)
    <3>1. CASE Snapshot(h) /\ held'[h] = held[h]
      BY <2>1, <2>4, <3>1 DEF Lags
    <3>2. CASE held'[h] = cache[j]
      BY <1>3, <2>2, <3>2, BeginningOfItself
    <3>3. QED
      BY <1>1, <2>4, <3>1, <3>2
  <2>5. QED
    BY <2>3, <2>4 DEF Lags
<1>5. QED
  BY <1>4 DEF LagInv

LEMMA NextLag ==
  ASSUME TypeInv, LagInv, [Next]_vars
  PROVE  LagInv'
<1>1. ASSUME NEW g \in Callers, NEW i \in Sessions, Operation(g, i)
      PROVE  LagInv'
  <2>1. cache[i] # None => cache[i] \in Session
    BY DEF TypeInv, TypeOK
  <2>2. CASE AppendMessage(g, i)
    <3> DEFINE s == [cache[i] EXCEPT !.messages = Append(@, g)]
    <3>1. s \in Session /\ s.messages = Append(cache[i].messages, g)
      BY <2>1, <2>2, SessionType, StatesAssumption DEF AppendMessage, Session
    <3>2. QED
      BY <2>2, <3>1, ChangeLags DEF AppendMessage
  <2>3. ASSUME NEW st \in States, UpdateState(g, i, st)
        PROVE  LagInv'
    <3> DEFINE s == [cache[i] EXCEPT !.state = st]
    <3>1. s \in Session /\ s.messages = cache[i].messages
      BY <2>1, <2>3, SessionType DEF UpdateState, Session
    <3>2. QED
      BY <2>3, <3>1, ChangeLags DEF UpdateState
  <2>4. ASSUME NEW n \in 0 .. MaxTokens, UpdateTokens(g, i, n)
        PROVE  LagInv'
    <3> DEFINE s == [cache[i] EXCEPT !.tokens = n]
    <3>1. n \in Nat
      BY <2>4, BoundAssumption
    <3>2. s \in Session /\ s.messages = cache[i].messages
      BY <2>1, <2>4, <3>1, SessionType, StatesAssumption DEF UpdateTokens, Session
    <3>3. QED
      BY <2>4, <3>2, ChangeLags DEF UpdateTokens
  <2>5. CASE IncrementCompaction(g, i)
    <3> DEFINE s == [cache[i] EXCEPT !.compactions = @ + 1]
    <3>1. s \in Session /\ s.messages = cache[i].messages
      BY <2>1, <2>5, SessionType, StatesAssumption DEF IncrementCompaction, Session
    <3>2. QED
      BY <2>5, <3>1, ChangeLags DEF IncrementCompaction
  <2>6. CASE ClearMessages(g, i)
    <3> DEFINE s == [cache[i] EXCEPT !.messages = <<>>, !.tokens = 0, !.state = "active"]
    <3>1. s \in Session
      BY <2>1, <2>6, SessionType, StatesAssumption DEF ClearMessages
    <3>2. QED
      BY <2>6, <3>1, ResetLags DEF ClearMessages, Change
  <2>7. CASE Get(g, i)
    <3>1. /\ \A h \in Callers : pc'[h] \in {"marshal", "open", "write"} =>
               pc'[h] = pc[h] /\ on'[h] = on[h]
          /\ UNCHANGED <<cache, file, held, appended>>
      BY <2>7 DEF Get, TypeInv, TypeOK
    <3>2. QED
      BY <3>1 DEF LagInv, Lags
  <2>8. CASE Delete(g, i)
    BY <2>8, ResetLags DEF Delete
  <2>9. QED
    BY <1>1, <2>2, <2>3, <2>4, <2>5, <2>6, <2>7, <2>8 DEF Operation
<1>2. ASSUME NEW g \in Callers, Continue(g)
      PROVE  LagInv'
  <2>1. CASE Create(g)
    <3>1. on[g] \in Sessions /\ NewSession \in Session
      BY <2>1, StatesAssumption DEF Create, TypeInv, Placed, Session, NewSession
    <3> DEFINE b == file[on[g]] = Absent /\ \A h \in Callers : ~InFlight(h, on[g])
    <3>2. b \in BOOLEAN /\ appended' = [appended EXCEPT ![on[g]] = b]
      BY <2>1 DEF Create
    <3> HIDE DEF b
    <3>3. b => file[on[g]] = Absent /\ \A h \in Callers : ~InFlight(h, on[g])
      BY DEF b
    <3>4. QED
      BY <2>1, <3>1, <3>2, <3>3, ResetLags DEF Create
  <2>2. CASE ~Create(g)
    <3>1. /\ pc[g] \in Busy /\ UNCHANGED <<cache, on, appended>>
          /\ Marshal(g) \/ Open(g) \/ Write(g) \/ WriteFails(g) \/ WriteUnlinked(g) \/ Remove(g)
      BY <1>2, <2>2 DEF Continue, Marshal, Open, Write, WriteFails, WriteUnlinked, Remove, Return, Busy
    <3>2. QED
      BY <3>1, ContinueLags
  <2>3. QED
    BY <2>1, <2>2
<1>3. CASE Restart
  <2>1. \A i \in Sessions : file[i] \in Session => file[i].messages \in Seq(Callers)
    BY DEF Session
  <2>2. QED
    BY <1>3, <2>1, BeginningOfItself DEF Restart, LagInv, Lags, Loaded
<1>4. CASE UNCHANGED vars
  BY <1>4 DEF vars, LagInv, Lags
<1>5. QED
  BY <1>1, <1>2, <1>3, <1>4 DEF Next

\* However writes are ordered, a growing session's file holds a beginning
\* of its history.
THEOREM FileLags == Spec => []FileLagsHistory
<1>1. Init => LagInv
  BY DEF Init, LagInv
<1>2. LagInv => FileLagsHistory
  BY DEF LagInv, Lags, FileLagsHistory
<1>3. QED
  BY <1>1, <1>2, NextLag, TypeInvariant, PTL DEF Spec
==============================================================================
