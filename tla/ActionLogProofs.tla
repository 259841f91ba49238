-------------------------- MODULE ActionLogProofs --------------------------
(***************************************************************************)
(* What the operators of ActionLog compute, for every log, history and     *)
(* generation that is well formed, and for a table with several storage    *)
(* generations.                                                            *)
(***************************************************************************)
EXTENDS ActionLog, TLAPS, SequenceTheorems, WellFoundedInduction

-----------------------------------------------------------------------------
(* Numbers and loops.                                                      *)

\* The pairs of the library's order on Nat.
LEMMA LessRel == \A x, y \in Nat : x < y => <<x, y>> \in OpToRel(<, Nat)
<1> SUFFICES ASSUME NEW x \in Nat, NEW y \in Nat, x < y
             PROVE  <<x, y>> \in {ss \in Nat \X Nat : ss[1] < ss[2]}
  BY Zenon DEF OpToRel
<1> QED OBVIOUS

\* A set of numbers has a least member: induction, as the provers can use it.
LEMMA LeastNat ==
  ASSUME NEW T, T \subseteq Nat, T # {}
  PROVE  \E x \in T : \A y \in T : x <= y
<1>1. PICK x \in T : \A y \in T : ~ (<<y, x>> \in OpToRel(<, Nat))
  BY Zenon, NatLessThanWellFounded, WFMin
<1>2. \A y \in T : ~(y < x)
  BY Zenon, <1>1, LessRel
<1>3. QED
  BY <1>2

\* A bounded set of numbers has a greatest member.
LEMMA GreatestNat ==
  ASSUME NEW n \in Nat, NEW T, T \subseteq 0..n, T # {}
  PROVE  \E x \in T : \A y \in T : y <= x
<1> DEFINE U == {n - y : y \in T}
<1>1. U \subseteq Nat /\ U # {}
  <2>1. \A y \in T : n - y \in Nat
    OBVIOUS
  <2>2. PICK y \in T : TRUE
    BY Zenon
  <2>3. n - y \in U
    BY <2>2
  <2> QED BY <2>1, <2>3
<1>2. PICK u \in U : \A v \in U : u <= v
  <2> HIDE DEF U
  <2> QED BY Zenon, <1>1, LeastNat
<1>3. PICK x \in T : u = n - x
  BY <1>2
<1>4. \A y \in T : n - x <= n - y
  BY Zenon, <1>2, <1>3
<1> QED BY <1>4

\* T[i] is the state after i turns of a loop that repeats f from base.
IsLoop(T, n, base, f) ==
  \A i \in 0..n : T[i] = IF i = 0 THEN base ELSE f[T[i-1]]

\* A loop has one result.
LEMMA LoopResult ==
  ASSUME NEW n \in Nat, NEW base, NEW f, NEW G, NEW T,
         IsLoop(G, n, base, f), IsLoop(T, n, base, f)
  PROVE  T[n] = G[n]
<1>1. /\ \A i \in 0..n : T[i] = IF i = 0 THEN base ELSE f[T[i-1]]
      /\ \A i \in 0..n : G[i] = IF i = 0 THEN base ELSE f[G[i-1]]
  BY DEF IsLoop
<1> DEFINE Bad == {i \in 0..n : T[i] # G[i]}
<1>2. SUFFICES ASSUME Bad # {} PROVE FALSE
  <2>1. n \in 0..n
    OBVIOUS
  <2> QED BY <2>1, Zenon
<1>3. Bad \subseteq Nat
  OBVIOUS
<1>4. PICK m \in Bad : \A y \in Bad : m <= y
  <2> HIDE DEF Bad
  <2> QED BY Zenon, <1>2, <1>3, LeastNat
<1>5. m \in 0..n /\ T[m] # G[m]
  BY Zenon
<1>6. m # 0
  BY <1>1, <1>5, Zenon
<1>7. m - 1 \in 0..n /\ ~(m <= m - 1)
  BY <1>5, <1>6
<1>8. T[m-1] = G[m-1]
  BY <1>4, <1>7, Zenon
<1> QED BY <1>1, <1>5, <1>6, <1>7, <1>8, Zenon

-----------------------------------------------------------------------------
(* Sequences.                                                              *)

\* Retaining an initial segment of the indices truncates the sequence.
LEMMA RetainPrefix ==
  ASSUME NEW S, NEW s \in Seq(S), NEW k \in 0..Len(s)
  PROVE  Retain(s, 1..k) = SubSeq(s, 1, k)
<1> DEFINE G == [i \in 0..Len(s) |-> SubSeq(s, 1, IF i <= k THEN i ELSE k)]
           Step(F, i) == IF i = 0 THEN <<>>
                         ELSE IF i \in 1..k THEN Append(F[i-1], s[i]) ELSE F[i-1]
           Fix(F) == F = [i \in 0..Len(s) |-> Step(F, i)]
           T == CHOOSE F : Fix(F)
<1>0. Len(s) \in Nat
  OBVIOUS
<1>1. \A i \in 0..Len(s) : G[i] = Step(G, i)
  <2> SUFFICES ASSUME NEW i \in 0..Len(s) PROVE G[i] = Step(G, i)
    BY Zenon
  <2>1. CASE i = 0
    BY <2>1
  <2>2. CASE i \in 1..k
    <3>1. G[i] = SubSeq(s, 1, i) /\ G[i-1] = SubSeq(s, 1, i-1)
      BY <2>2, <1>0
    <3>2. Append(SubSeq(s, 1, i-1), s[i]) = SubSeq(s, 1, i)
      BY <2>2, <1>0
    <3> QED BY <3>1, <3>2, <2>2
  <2>3. CASE i > k
    BY SMTT(60), <2>3, <1>0
  <2>4. i = 0 \/ i \in 1..k \/ i > k
    BY <1>0
  <2> HIDE DEF G, Step
  <2> QED BY <2>1, <2>2, <2>3, <2>4
<1>2. Fix(T)
  <2>1. Fix(G)
    <3> HIDE DEF Step
    <3> QED BY <1>1, Zenon
  <2> HIDE DEF Fix
  <2> QED BY <2>1, Zenon
<1>3. \A i \in 0..Len(s) : T[i] = Step(T, i)
  <2> HIDE DEF T, Step
  <2> QED BY <1>2, Zenon
<1>4. T[Len(s)] = G[Len(s)]
  <2> HIDE DEF T, G
  <2> DEFINE Bad == {i \in 0..Len(s) : T[i] # G[i]}
  <2>1. SUFFICES ASSUME Bad # {} PROVE FALSE
    <3>1. Len(s) \in 0..Len(s)
      BY <1>0
    <3> QED BY <3>1, Zenon
  <2>2. Bad \subseteq Nat
    BY <1>0
  <2>3. PICK m \in Bad : \A y \in Bad : m <= y
    <3> HIDE DEF Bad
    <3> QED BY Zenon, <2>1, <2>2, LeastNat
  <2>4. m \in 0..Len(s) /\ T[m] # G[m]
    BY Zenon
  <2>5. m # 0
    BY <1>1, <1>3, <2>4, Zenon
  <2>6. m - 1 \in 0..Len(s) /\ ~(m <= m - 1)
    <3> HIDE DEF Bad
    <3> QED BY <1>0, <2>4, <2>5
  <2>7. T[m-1] = G[m-1]
    BY <2>3, <2>6, Zenon
  <2> QED BY <1>1, <1>3, <2>4, <2>7, Zenon
<1>5. Retain(s, 1..k) = T[Len(s)]
  BY Zenon DEF Retain
<1>6. G[Len(s)] = SubSeq(s, 1, k)
  BY <1>0
<1> QED
  <2> HIDE DEF T, G
  <2> QED BY <1>4, <1>5, <1>6

\* Vec::truncate on a length the vector has.
LEMMA TruncatedPrefix ==
  ASSUME NEW S, NEW s \in Seq(S), NEW n \in 0..Len(s)
  PROVE  /\ Truncated(s, n) = SubSeq(s, 1, n)
         /\ Truncated(s, n) \in Seq(S)
         /\ Len(Truncated(s, n)) = n
         /\ \A i \in 1..n : Truncated(s, n)[i] = s[i]
<1>1. SubSeq(s, 1, Len(s)) = s
  OBVIOUS
<1>2. Truncated(s, n) = SubSeq(s, 1, n)
  BY <1>1 DEF Truncated
<1>3. /\ SubSeq(s, 1, n) \in Seq(S)
      /\ Len(SubSeq(s, 1, n)) = n
      /\ \A i \in 1..n : SubSeq(s, 1, n)[i] = s[i]
  OBVIOUS
<1> QED BY <1>2, <1>3

-----------------------------------------------------------------------------
(* Logs and markers.                                                       *)

\* The action a valid marker leaves at index i.
CutAction(a, last, m) ==
  IF last /\ a.kind = "data"
  THEN [kind |-> "data", batches |-> SubSeq(a.batches, 1, m.epoch), tag |-> a.tag]
  ELSE a

\* TxTableActionLog::truncate, element by element, for a marker of the log.
LEMMA TruncateToElements ==
  ASSUME NEW log \in Seq(Action), NEW m \in Marker, ValidMark(log, m)
  PROVE  /\ TruncateTo(log, m) \in Seq(Action)
         /\ Len(TruncateTo(log, m)) = m.len
         /\ \A i \in 1..m.len :
              TruncateTo(log, m)[i] = CutAction(log[i], i = m.len, m)
<1> DEFINE kept == Truncated(log, m.len)
<1>1. m.len \in 0..Len(log) /\ Len(log) \in Nat
  BY DEF ValidMark
<1>2. /\ kept \in Seq(Action)
      /\ Len(kept) = m.len
      /\ \A i \in 1..m.len : kept[i] = log[i]
  BY ZenonT(60), <1>1, TruncatedPrefix
<1> HIDE DEF kept
<1>3. CASE m.len > 0 /\ log[m.len].kind = "data"
  <2>1. m.epoch \in 1..Len(log[m.len].batches) /\ m.len \in 1..Len(log)
    BY <1>1, <1>3 DEF ValidMark
  <2>2. log[m.len] \in Action
    BY <2>1
  <2>3. log[m.len].batches \in Seq(Batch) /\ m.epoch \in 0..Len(log[m.len].batches)
    BY <2>1, <2>2 DEF Action
  <2>4. /\ Truncated(log[m.len].batches, m.epoch) = SubSeq(log[m.len].batches, 1, m.epoch)
        /\ Truncated(log[m.len].batches, m.epoch) \in Seq(Batch)
    BY ZenonT(60), <2>3, TruncatedPrefix
  <2> DEFINE bs == Truncated(log[m.len].batches, m.epoch)
             cut == [log[m.len] EXCEPT !.batches = bs]
  <2>5. cut \in Action /\ cut = [kind |-> "data", batches |-> bs, tag |-> log[m.len].tag]
    <3> HIDE DEF bs
    <3>1. bs \in Seq(Batch)
      BY <2>4 DEF bs
    <3> QED BY SMTT(60), <1>3, <2>2, <3>1 DEF Action
  <2>6. EndsIn(kept, "data") /\ m.epoch # NoEpoch /\ kept[m.len] = log[m.len]
    BY <1>2, <1>3, <2>1 DEF EndsIn, LastOf, NoEpoch
  <2>7. TruncateTo(log, m) = [kept EXCEPT ![m.len] = cut]
    BY <1>2, <2>6 DEF TruncateTo, kept
  <2>8. cut = CutAction(log[m.len], TRUE, m)
    BY <1>3, <2>4, <2>5, ZenonT(60) DEF CutAction
  <2> HIDE DEF cut
  <2>9. /\ TruncateTo(log, m) \in Seq(Action)
        /\ Len(TruncateTo(log, m)) = m.len
        /\ \A i \in 1..m.len :
             TruncateTo(log, m)[i] = IF i = m.len THEN cut ELSE kept[i]
    BY <1>2, <2>1, <2>5, <2>7
  <2>10. \A i \in 1..m.len : i # m.len => CutAction(log[i], i = m.len, m) = log[i]
    BY DEF CutAction
  <2> QED BY ZenonT(60), <1>2, <2>8, <2>9, <2>10
<1>4. CASE ~(m.len > 0 /\ log[m.len].kind = "data")
  <2>1. TruncateTo(log, m) = kept
    BY <1>4 DEF TruncateTo, ValidMark, kept
  <2>2. \A i \in 1..m.len : CutAction(log[i], i = m.len, m) = log[i]
    BY <1>4, <1>1 DEF CutAction
  <2> QED BY <1>2, <2>1, <2>2
<1> QED BY <1>3, <1>4

\* Undoing to a later and then to an earlier marker is undoing to the earlier
\* one: rollback_to_level truncates once per frame it pops.
LEMMA TruncateTwice ==
  ASSUME NEW log \in Seq(Action), NEW m \in Marker, NEW n \in Marker,
         ValidMark(log, m), ValidMark(log, n), NotAfter(m, n)
  PROVE  /\ ValidMark(TruncateTo(log, n), m)
         /\ TruncateTo(TruncateTo(log, n), m) = TruncateTo(log, m)
<1> DEFINE r == TruncateTo(log, n)
<1>1. /\ r \in Seq(Action)
      /\ Len(r) = n.len
      /\ \A i \in 1..n.len : r[i] = CutAction(log[i], i = n.len, n)
  BY TruncateToElements
<1>2. /\ m.len \in 0..Len(log) /\ n.len \in 0..Len(log) /\ m.len <= n.len
      /\ Len(log) \in Nat
  BY DEF ValidMark, NotAfter, Marker
<1> HIDE DEF r
<1>3. \A i \in 1..m.len : i < n.len => r[i] = log[i]
  <2> SUFFICES ASSUME NEW i \in 1..m.len, i < n.len PROVE r[i] = log[i]
    OBVIOUS
  <2>1. r[i] = CutAction(log[i], i = n.len, n) /\ i # n.len
    BY <1>1, <1>2
  <2> QED BY <2>1 DEF CutAction
<1>4. \A i \in 1..m.len : log[i] \in Action
  BY <1>2
<1>5. /\ ValidMark(r, m)
      /\ \A i \in 1..m.len : CutAction(r[i], i = m.len, m) = CutAction(log[i], i = m.len, m)
  <2>1. CASE m.len < n.len \/ m.len = 0
    BY SMTT(60), <1>1, <1>2, <1>3, <2>1 DEF ValidMark
  <2>2. CASE m.len = n.len /\ m.len > 0 /\ log[m.len].kind # "data"
    <3>0. m.len \in 1..n.len
      BY <1>2, <2>2
    <3>1. r[m.len] = log[m.len]
      BY Zenon, <1>1, <3>0, <2>2 DEF CutAction
    <3>2. \A i \in 1..m.len : r[i] = log[i]
      BY <1>2, <1>3, <2>2, <3>1
    <3> QED BY <1>1, <1>2, <2>2, <3>2 DEF ValidMark
  <2>3. CASE m.len = n.len /\ m.len > 0 /\ log[m.len].kind = "data"
    <3>1. m.len \in 1..n.len /\ m.len \in 1..Len(log)
      BY <1>2, <2>3
    <3>2. r[m.len] = [kind |-> "data", batches |-> SubSeq(log[m.len].batches, 1, n.epoch),
                      tag |-> log[m.len].tag]
      BY SMTT(60), <1>1, <3>1, <2>3 DEF CutAction
    <3> DEFINE bs == log[m.len].batches
    <3>3. bs \in Seq(Batch)
      <4>1. log[m.len] \in Action
        BY <3>1
      <4> QED BY <4>1 DEF Action
    <3>4. m.epoch \in 1..Len(bs) /\ n.epoch \in 1..Len(bs) /\ m.epoch <= n.epoch
      BY <2>3 DEF ValidMark, NotAfter
    <3> HIDE DEF bs
    <3>5. Len(SubSeq(bs, 1, n.epoch)) = n.epoch
      BY <3>3, <3>4
    <3>6. SubSeq(SubSeq(bs, 1, n.epoch), 1, m.epoch) = SubSeq(bs, 1, m.epoch)
      BY SMTT(60), <3>3, <3>4
    <3>7. ValidMark(r, m)
      BY SMTT(60), <1>1, <2>3, <3>2, <3>4, <3>5, <1>2 DEF ValidMark, bs
    <3>8. CutAction(r[m.len], TRUE, m) = CutAction(log[m.len], TRUE, m)
      <4>1. r[m.len].kind = "data"
        BY <3>2
      <4>2. r[m.len].tag = log[m.len].tag
        BY <3>2
      <4> DEFINE cut == SubSeq(log[m.len].batches, 1, n.epoch)
      <4>3. r[m.len].batches = cut
        <5>1. r[m.len] = [kind |-> "data", batches |-> cut, tag |-> log[m.len].tag]
          BY <3>2, ZenonT(60)
        <5> HIDE DEF cut
        <5> QED BY <5>1
      <4> QED BY ZenonT(60), <2>3, <4>1, <4>2, <4>3, <3>6 DEF CutAction, bs, cut
    <3>9. \A i \in 1..m.len : i # m.len => r[i] = log[i]
      BY SMTT(60), <1>2, <1>3, <2>3
    <3> QED BY Zenon, <3>7, <3>8, <3>9
  <2> QED BY SMTT(60), <1>2, <2>1, <2>2, <2>3
<1>6. /\ TruncateTo(r, m) \in Seq(Action)
      /\ Len(TruncateTo(r, m)) = m.len
      /\ \A i \in 1..m.len : TruncateTo(r, m)[i] = CutAction(r[i], i = m.len, m)
  BY <1>1, <1>5, TruncateToElements
<1>7. /\ TruncateTo(log, m) \in Seq(Action)
      /\ Len(TruncateTo(log, m)) = m.len
      /\ \A i \in 1..m.len : TruncateTo(log, m)[i] = CutAction(log[i], i = m.len, m)
  BY TruncateToElements
<1>8. TruncateTo(r, m) = TruncateTo(log, m)
  BY SMTT(60), <1>5, <1>6, <1>7, SeqEqual
<1> QED BY <1>5, <1>8 DEF r

\* A marker cuts no data epoch down to nothing.
LEMMA TruncateKeepsLogInv ==
  ASSUME NEW log \in Seq(Action), NEW m \in Marker, ValidMark(log, m), LogInv(log)
  PROVE  LogInv(TruncateTo(log, m))
<1> DEFINE r == TruncateTo(log, m)
<1>1. /\ r \in Seq(Action)
      /\ Len(r) = m.len
      /\ \A i \in 1..m.len : r[i] = CutAction(log[i], i = m.len, m)
  BY TruncateToElements
<1>2. m.len \in 0..Len(log) /\ Len(log) \in Nat
  BY DEF ValidMark
<1> HIDE DEF r
<1> SUFFICES ASSUME NEW i \in 1..m.len
             PROVE  (r[i].kind = "data") <=> (r[i].batches # <<>>)
  BY <1>1 DEF LogInv, r
<1>3. log[i] \in Action /\ ((log[i].kind = "data") <=> (log[i].batches # <<>>))
  BY <1>2 DEF LogInv
<1>4. CASE i = m.len /\ log[i].kind = "data"
  <2> DEFINE cut == SubSeq(log[i].batches, 1, m.epoch)
  <2>1. r[i] = [kind |-> "data", batches |-> cut, tag |-> log[i].tag]
    BY <1>1, <1>4, ZenonT(60) DEF CutAction
  <2>2. log[i].batches \in Seq(Batch)
    BY <1>3 DEF Action
  <2>3. m.epoch \in 1..Len(log[i].batches)
    BY <1>2, <1>4 DEF ValidMark
  <2>4. Len(cut) = m.epoch
    BY <2>2, <2>3
  <2>5. cut # <<>>
    BY <2>3, <2>4
  <2> HIDE DEF cut
  <2> QED BY <2>1, <2>5
<1>5. CASE ~(i = m.len /\ log[i].kind = "data")
  <2>1. r[i] = log[i]
    BY <1>1, <1>5, Zenon DEF CutAction
  <2> QED BY <1>3, <2>1
<1> QED BY <1>4, <1>5

\* mark() of a log is a marker of it, the latest one, and undoes nothing.
LEMMA MarkOfLog ==
  ASSUME NEW log \in Seq(Action), LogInv(log)
  PROVE  /\ Mark(log) \in Marker
         /\ ValidMark(log, Mark(log))
         /\ TruncateTo(log, Mark(log)) = log
         /\ \A m \in Marker : ValidMark(log, m) => NotAfter(m, Mark(log))
<1> DEFINE m == Mark(log)
<1>1. m.len = Len(log) /\ Len(log) \in Nat
  BY DEF Mark
<1>2. CASE log # <<>> /\ log[Len(log)].kind = "data"
  <2> DEFINE bs == log[Len(log)].batches
  <2>1. log[Len(log)] \in Action /\ Len(log) \in 1..Len(log)
    BY <1>1, <1>2
  <2>2. bs \in Seq(Batch)
    BY <2>1 DEF Action
  <2>3. bs # <<>>
    BY <1>2, <2>1 DEF LogInv
  <2>4. m.epoch = Len(bs)
    BY <1>2 DEF Mark, EndsIn, LastOf
  <2>5. Len(bs) \in Nat /\ Len(bs) # 0
    BY <2>2, <2>3
  <2>6. ValidMark(log, m) /\ m \in Marker
    <3>1. m \in Marker
      BY <1>1, <2>4, <2>5 DEF Marker, Mark
    <3>2. ValidMark(log, m)
      BY <1>1, <1>2, <2>1, <2>4, <2>5 DEF ValidMark
    <3> QED BY <3>1, <3>2
  <2>7. \A n \in Marker : ValidMark(log, n) => NotAfter(n, m)
    BY <1>1, <1>2, <2>1, <2>4, <2>5 DEF ValidMark, NotAfter, Marker
  <2>8. log[Len(log)] = [kind |-> "data", batches |-> bs, tag |-> log[Len(log)].tag]
    BY <2>1, <1>2 DEF Action
  <2>9. SubSeq(bs, 1, Len(bs)) = bs
    BY <2>2
  <2>10. CutAction(log[Len(log)], TRUE, m) = log[Len(log)]
    BY <1>2, <2>4, <2>8, <2>9 DEF CutAction
  <2>11. \A i \in 1..Len(log) : CutAction(log[i], i = m.len, m) = log[i]
    BY Zenon, <1>1, <2>10 DEF CutAction
  <2> HIDE DEF m, bs
  <2>12. TruncateTo(log, m) = log
    BY <1>1, <2>6, <2>11, TruncateToElements, SeqEqual
  <2> QED BY <2>6, <2>7, <2>12 DEF m
<1>3. CASE ~(log # <<>> /\ log[Len(log)].kind = "data")
  <2>1. m.epoch = NoEpoch
    BY <1>3 DEF Mark, EndsIn, LastOf
  <2>2. m \in Marker
    BY <1>1, <2>1 DEF Mark, Marker
  <2>3. ValidMark(log, m)
    BY <1>1, <1>3, <2>1 DEF ValidMark
  <2>4. \A n \in Marker : ValidMark(log, n) => NotAfter(n, m)
    BY <1>1, <1>3, <2>1 DEF ValidMark, NotAfter, Marker, NoEpoch
  <2>5. TruncateTo(log, m) = log
    BY <1>1, <2>1 DEF TruncateTo, Truncated
  <2> QED BY <2>2, <2>3, <2>4, <2>5
<1> QED BY <1>2, <1>3

\* A staged action leaves every marker of the log usable.
Grows(log, after) ==
  /\ after \in Seq(Action)
  /\ LogInv(after)
  /\ \A m \in Marker :
       ValidMark(log, m) => /\ ValidMark(after, m)
                            /\ TruncateTo(after, m) = TruncateTo(log, m)

\* One action more at the end of the log.
LEMMA AppendedGrows ==
  ASSUME NEW log \in Seq(Action), NEW after \in Seq(Action), LogInv(after),
         Len(after) = Len(log) + 1, \A i \in 1..Len(log) : after[i] = log[i]
  PROVE  Grows(log, after)
<1>1. ASSUME NEW m \in Marker, ValidMark(log, m)
      PROVE  ValidMark(after, m) /\ TruncateTo(after, m) = TruncateTo(log, m)
  <2>1. m.len \in 0..Len(log) /\ Len(log) \in Nat
    BY <1>1 DEF ValidMark
  <2>2. ValidMark(after, m)
    BY <1>1, <2>1 DEF ValidMark
  <2>3. \A i \in 1..m.len : after[i] = log[i]
    BY <2>1
  <2>4. /\ TruncateTo(after, m) \in Seq(Action) /\ Len(TruncateTo(after, m)) = m.len
        /\ \A i \in 1..m.len : TruncateTo(after, m)[i] = CutAction(after[i], i = m.len, m)
    BY <2>2, TruncateToElements
  <2>5. /\ TruncateTo(log, m) \in Seq(Action) /\ Len(TruncateTo(log, m)) = m.len
        /\ \A i \in 1..m.len : TruncateTo(log, m)[i] = CutAction(log[i], i = m.len, m)
    BY <1>1, TruncateToElements
  <2>6. TruncateTo(after, m) = TruncateTo(log, m)
    BY <2>3, <2>4, <2>5, SeqEqual
  <2> QED BY <2>2, <2>6
<1> QED BY <1>1 DEF Grows

\* stage_schema, stage_properties, stage_truncate, stage_drop, stage_exclusive.
LEMMA ActionGrows ==
  ASSUME NEW log \in Seq(Action), LogInv(log),
         NEW k \in ActionKinds, k # "data", NEW t \in Tag \cup {NoTag}
  PROVE  Grows(log, WithAction(log, k, t))
<1> DEFINE after == WithAction(log, k, t)
           a == PlainAction(k, t)
<1>1. a \in Action /\ a.kind = k /\ a.batches = <<>>
  BY DEF PlainAction, Action
<1>2. after = Append(log, a)
  BY DEF WithAction
<1> HIDE DEF a
<1>3. /\ after \in Seq(Action)
      /\ Len(after) = Len(log) + 1
      /\ Len(log) \in Nat
      /\ after[Len(log) + 1] = a
      /\ \A i \in 1..Len(log) : after[i] = log[i]
  BY <1>1, <1>2
<1> HIDE DEF after
<1>4. LogInv(after)
  BY <1>1, <1>3 DEF LogInv
<1> QED BY <1>3, <1>4, AppendedGrows DEF after

\* record_batch, whether it joins the last epoch or opens one.
LEMMA BatchGrows ==
  ASSUME NEW log \in Seq(Action), LogInv(log), NEW b \in Batch
  PROVE  Grows(log, WithBatch(log, b))
<1> DEFINE after == WithBatch(log, b)
<1>0. Len(log) \in Nat
  OBVIOUS
<1>1. CASE EndsIn(log, "data")
  <2> DEFINE n == Len(log)
             bs == log[n].batches
             a == [log[n] EXCEPT !.batches = Append(bs, b)]
  <2>1. n \in 1..Len(log) /\ log[n].kind = "data" /\ log[n] \in Action
    BY <1>0, <1>1 DEF EndsIn, LastOf
  <2>2. bs \in Seq(Batch)
    BY <2>1 DEF Action
  <2>3. Append(bs, b) \in Seq(Batch) /\ Append(bs, b) # <<>>
    BY <2>2
  <2>4. a \in Action /\ a.kind = "data" /\ a.batches = Append(bs, b) /\ a.tag = log[n].tag
    BY Zenon, <2>1, <2>3 DEF Action
  <2>5. after = [log EXCEPT ![n] = a]
    BY <1>1 DEF WithBatch
  <2>a. Len(Append(bs, b)) = Len(bs) + 1 /\ Len(bs) \in Nat
    BY <2>2
  <2>b. \A e \in 1..Len(bs) : SubSeq(Append(bs, b), 1, e) = SubSeq(bs, 1, e)
    BY <2>2
  <2> HIDE DEF a
  <2>6. /\ after \in Seq(Action)
        /\ Len(after) = Len(log)
        /\ after[n] = a
        /\ \A i \in 1..Len(log) : i # n => after[i] = log[i]
    BY <2>1, <2>4, <2>5
  <2> HIDE DEF after
  <2>7. LogInv(after)
    BY <2>1, <2>3, <2>4, <2>6 DEF LogInv
  <2>8. ASSUME NEW m \in Marker, ValidMark(log, m)
        PROVE  ValidMark(after, m) /\ TruncateTo(after, m) = TruncateTo(log, m)
    <3>1. m.len \in 0..Len(log)
      BY <2>8 DEF ValidMark
    <3>2. m.len = n => m.epoch \in 1..Len(bs)
      BY <2>1, <2>8 DEF ValidMark
    <3>3. ValidMark(after, m)
      <4>1. CASE m.len = n
        BY SMTT(60), <2>1, <2>4, <2>6, <2>a, <3>1, <3>2, <4>1 DEF ValidMark
      <4>2. CASE m.len # n
        BY SMTT(60), <1>0, <2>6, <2>8, <3>1, <4>2 DEF ValidMark
      <4> QED BY <4>1, <4>2
    <3>4. \A i \in 1..m.len :
             CutAction(after[i], i = m.len, m) = CutAction(log[i], i = m.len, m)
      <4> SUFFICES ASSUME NEW i \in 1..m.len
                   PROVE  CutAction(after[i], i = m.len, m) = CutAction(log[i], i = m.len, m)
        OBVIOUS
      <4>1. CASE i # n
        <5>1. after[i] = log[i]
          BY SMTT(60), <1>0, <2>6, <3>1, <4>1
        <5> QED BY SMTT(60), <5>1
      <4>2. CASE i = n
        <5>1. i = m.len /\ m.len = n
          BY <1>0, <3>1, <4>2
        <5>2. SubSeq(Append(bs, b), 1, m.epoch) = SubSeq(bs, 1, m.epoch)
          BY <2>b, <3>2, <5>1
        <5> QED BY Zenon, <2>1, <2>4, <2>6, <4>2, <5>1, <5>2 DEF CutAction
      <4> QED BY <4>1, <4>2
    <3>5. /\ TruncateTo(after, m) \in Seq(Action) /\ Len(TruncateTo(after, m)) = m.len
          /\ \A i \in 1..m.len : TruncateTo(after, m)[i] = CutAction(after[i], i = m.len, m)
      BY <2>6, <3>3, TruncateToElements
    <3>6. /\ TruncateTo(log, m) \in Seq(Action) /\ Len(TruncateTo(log, m)) = m.len
          /\ \A i \in 1..m.len : TruncateTo(log, m)[i] = CutAction(log[i], i = m.len, m)
      BY <2>8, TruncateToElements
    <3>7. TruncateTo(after, m) = TruncateTo(log, m)
      BY <3>4, <3>5, <3>6, SeqEqual
    <3> QED BY <3>3, <3>7
  <2> QED BY <2>6, <2>7, <2>8 DEF Grows, after
<1>2. CASE ~EndsIn(log, "data")
  <2> DEFINE a == DataAction(<<b>>)
  <2>1. a \in Action /\ a.kind = "data" /\ a.batches = <<b>> /\ <<b>> # <<>>
    BY DEF DataAction, Action, ActionKinds
  <2>2. after = Append(log, a)
    BY <1>2 DEF WithBatch
  <2> HIDE DEF a
  <2>3. /\ after \in Seq(Action)
        /\ Len(after) = Len(log) + 1
        /\ after[Len(log) + 1] = a
        /\ \A i \in 1..Len(log) : after[i] = log[i]
    BY <1>0, <2>1, <2>2
  <2> HIDE DEF after
  <2>4. ASSUME NEW i \in 1..Len(after)
        PROVE  after[i].kind = "data" <=> after[i].batches # <<>>
    <3>1. CASE i \in 1..Len(log)
      BY <1>0, <2>3, <3>1 DEF LogInv
    <3>2. CASE i = Len(log) + 1
      <4>1. after[i] = a
        BY <2>3, <3>2
      <4>2. a.kind = "data" /\ a.batches # <<>>
        BY <2>1
      <4> QED BY <4>1, <4>2
    <3>3. Len(log) \in Nat
      BY <1>0
    <3> QED BY <2>3, <2>4, <3>1, <3>2, <3>3
  <2>5. LogInv(after)
    BY <2>4 DEF LogInv
  <2> QED BY <2>3, <2>5, AppendedGrows DEF after
<1> QED BY <1>1, <1>2

-----------------------------------------------------------------------------
(* Savepoint history.                                                      *)

\* The transaction once only the k oldest frames are left.
Undone(txn, k) ==
  [log  |-> IF k = Len(txn.hist) THEN txn.log
            ELSE TruncateTo(txn.log, txn.hist[k + 1].mark),
   hist |-> SubSeq(txn.hist, 1, k)]

\* Frames 1..k survive a rollback to level, the others are popped.
IsCut(frames, level, k) ==
  /\ k \in 0..Len(frames)
  /\ k = 0 \/ frames[k].level < level
  /\ \A j \in 1..Len(frames) : j > k => frames[j].level >= level

WellFormed(txn, top) == txn \in Txn /\ LogInv(txn.log) /\ HistInv(txn, top)

\* The frames and marks of a well-formed history, one by one.
LEMMA HistoryParts ==
  ASSUME NEW txn, NEW top \in Nat, WellFormed(txn, top)
  PROVE  /\ txn.log \in Seq(Action) /\ txn.hist \in Seq(Frame)
         /\ txn = [log |-> txn.log, hist |-> txn.hist]
         /\ Len(txn.hist) \in Nat
         /\ \A i \in 1..Len(txn.hist) :
              /\ txn.hist[i] \in Frame
              /\ txn.hist[i].mark \in Marker
              /\ txn.hist[i].level \in 2..top
              /\ ValidMark(txn.log, txn.hist[i].mark)
         /\ \A i, j \in 1..Len(txn.hist) : i < j =>
              /\ txn.hist[i].level <= txn.hist[j].level
              /\ NotAfter(txn.hist[i].mark, txn.hist[j].mark)
<1>1. /\ txn.log \in Seq(Action) /\ txn.hist \in Seq(Frame)
      /\ txn = [log |-> txn.log, hist |-> txn.hist]
  BY DEF WellFormed, Txn
<1>2. Len(txn.hist) \in Nat /\ \A i \in 1..Len(txn.hist) : txn.hist[i] \in Frame
  BY <1>1
<1>3. \A i \in 1..Len(txn.hist) : txn.hist[i].mark \in Marker
  BY <1>2 DEF Frame
<1> QED BY <1>1, <1>2, <1>3 DEF WellFormed, HistInv

\* Every history has a cut at every level.
LEMMA FramesCut ==
  ASSUME NEW h, Len(h) \in Nat, \A i \in 1..Len(h) : h[i].level \in Nat, NEW level \in Nat
  PROVE  \E k : IsCut(h, level, k)
<1> DEFINE K == {k \in 0..Len(h) : k = 0 \/ h[k].level < level}
<1>1. K \subseteq 0..Len(h) /\ 0 \in K
  OBVIOUS
<1>2. PICK k \in K : \A y \in K : y <= k
  <2> HIDE DEF K
  <2> QED BY Zenon, <1>1, GreatestNat
<1>3. ASSUME NEW j \in 1..Len(h), j > k PROVE h[j].level >= level
  <2>1. j \notin K
    BY <1>2, <1>3
  <2> QED BY <2>1
<1> QED BY <1>2, <1>3 DEF IsCut

\* The same for the frames of a transaction.
LEMMA CutExists ==
  ASSUME NEW txn, NEW top \in Nat, WellFormed(txn, top), NEW level \in Nat
  PROVE  \E k : IsCut(txn.hist, level, k)
<1>1. Len(txn.hist) \in Nat /\ \A i \in 1..Len(txn.hist) : txn.hist[i].level \in Nat
  BY HistoryParts
<1> QED BY SMTT(60), <1>1, FramesCut

\* What rollback leaves is well formed again.
LEMMA UndoneWellFormed ==
  ASSUME NEW txn, NEW top \in Nat, WellFormed(txn, top), NEW k \in 0..Len(txn.hist)
  PROVE  /\ WellFormed(Undone(txn, k), top)
         /\ Len(Undone(txn, k).hist) = k
         /\ \A i \in 1..k : Undone(txn, k).hist[i] = txn.hist[i]
<1> DEFINE h == txn.hist
           log == txn.log
           u == Undone(txn, k)
<1>1. /\ log \in Seq(Action) /\ h \in Seq(Frame) /\ Len(h) \in Nat
      /\ \A i \in 1..Len(h) : /\ h[i].mark \in Marker
                              /\ h[i].level \in 2..top
                              /\ ValidMark(log, h[i].mark)
      /\ \A i, j \in 1..Len(h) : i < j => /\ h[i].level <= h[j].level
                                         /\ NotAfter(h[i].mark, h[j].mark)
  BY HistoryParts
<1>2. LogInv(log)
  BY DEF WellFormed
<1>3. u.hist = SubSeq(h, 1, k)
  BY DEF Undone
<1>4. u.hist \in Seq(Frame) /\ Len(u.hist) = k /\ \A i \in 1..k : u.hist[i] = h[i]
  <2> HIDE DEF u, h
  <2> QED BY <1>1, <1>3 DEF h
<1>5. /\ u.log \in Seq(Action) /\ LogInv(u.log)
      /\ \A i \in 1..k : ValidMark(u.log, h[i].mark)
  <2>1. CASE k = Len(h)
    <3>1. u.log = log
      BY Zenon, <2>1 DEF Undone
    <3> QED BY <1>1, <1>2, <2>1, <3>1
  <2>2. CASE k # Len(h)
    <3>1. u.log = TruncateTo(log, h[k+1].mark)
      BY <2>2 DEF Undone
    <3>2. k + 1 \in 1..Len(h)
      BY <1>1, <2>2
    <3>3. h[k+1].mark \in Marker /\ ValidMark(log, h[k+1].mark)
      BY <1>1, <3>2
    <3>4. u.log \in Seq(Action) /\ LogInv(u.log)
      <4> HIDE DEF u, h, log
      <4> QED BY SMTT(60), <1>1, <1>2, <3>1, <3>3, TruncateToElements, TruncateKeepsLogInv
    <3>5. ASSUME NEW i \in 1..k PROVE ValidMark(u.log, h[i].mark)
      <4>1. i \in 1..Len(h) /\ i < k + 1
        BY <1>1
      <4>2. h[i].mark \in Marker /\ ValidMark(log, h[i].mark) /\ NotAfter(h[i].mark, h[k+1].mark)
        BY <1>1, <3>2, <4>1
      <4> HIDE DEF u, h, log
      <4> QED BY SMTT(60), <1>1, <3>1, <3>3, <4>2, TruncateTwice
    <3> QED BY <3>4, <3>5
  <2> QED BY <2>1, <2>2
<1>6. u = [log |-> u.log, hist |-> u.hist]
  BY DEF Undone
<1> HIDE DEF u
<1>7. u \in Txn
  <2>1. [log |-> u.log, hist |-> u.hist] \in Txn
    BY SMTT(60), <1>4, <1>5 DEF Txn
  <2> QED BY SMTT(60), <1>6, <2>1
<1>8. HistInv(u, top)
  <2>1. \A i \in 1..k : i \in 1..Len(h)
    BY <1>1
  <2> HIDE DEF h, log
  <2> QED BY Zenon, <1>1, <1>4, <1>5, <2>1 DEF HistInv
<1> QED BY SMTT(60), <1>4, <1>5, <1>7, <1>8 DEF WellFormed, u, h

\* rollback_to_level's loop ends with exactly the frames below the level, and
\* the log as it was when the oldest popped frame was pushed.
LEMMA RollbackTxnIs ==
  ASSUME NEW txn, NEW top \in Nat, WellFormed(txn, top),
         NEW level \in Nat, NEW k, IsCut(txn.hist, level, k)
  PROVE  RollbackTxn(txn, level) = Undone(txn, k)
<1> DEFINE h == txn.hist
           n == Len(txn.hist)
           log == txn.log
           Left(i) == IF n - i >= k THEN n - i ELSE k
           G == [i \in 0..n |-> Undone(txn, Left(i))]
           f == PopFrame(level)
<1>1. /\ log \in Seq(Action) /\ h \in Seq(Frame) /\ n \in Nat
      /\ txn = [log |-> log, hist |-> h]
      /\ \A i \in 1..n : /\ h[i].mark \in Marker
                         /\ h[i].level \in 2..top
                         /\ ValidMark(log, h[i].mark)
      /\ \A i, j \in 1..n : i < j => NotAfter(h[i].mark, h[j].mark)
  BY HistoryParts
<1>2. k \in 0..n /\ (k = 0 \/ h[k].level < level) /\ \A j \in 1..n : j > k => h[j].level >= level
  BY DEF IsCut
<1>3. G[0] = txn
  <2>1. Left(0) = n /\ 0 \in 0..n
    BY <1>1, <1>2
  <2>2. G[0] = Undone(txn, n)
    BY <2>1, Zenon
  <2>3. SubSeq(h, 1, n) = h
    BY <1>1
  <2>4. Undone(txn, n) = [log |-> log, hist |-> SubSeq(h, 1, n)]
    BY ZenonT(60) DEF Undone
  <2> QED BY <1>1, <2>2, <2>3, <2>4
<1>4. ASSUME NEW j \in 0..n
      PROVE  /\ Undone(txn, j) \in Txn
             /\ Undone(txn, j).hist \in Seq(Frame)
             /\ Len(Undone(txn, j).hist) = j
             /\ \A i \in 1..j : Undone(txn, j).hist[i] = h[i]
  BY ZenonT(60), UndoneWellFormed DEF WellFormed, Txn
<1>5. ASSUME NEW j \in 1..n, j > k
      PROVE  f[Undone(txn, j)] = Undone(txn, j - 1)
  <2> DEFINE u == Undone(txn, j)
  <2>0. j \in 0..n /\ j - 1 \in 0..n
    BY <1>1
  <2>1. /\ u \in Txn /\ Len(u.hist) = j /\ u.hist[j] = h[j]
    BY <1>4, <2>0
  <2>2. u.hist # <<>> /\ LastOf(u.hist).level >= level /\ LastOf(u.hist) = h[j]
    BY <1>2, <1>5, <2>1 DEF LastOf
  <2>3. f[u] = [log |-> TruncateTo(u.log, h[j].mark), hist |-> SubSeq(u.hist, 1, j - 1)]
    BY <2>1, <2>2, Zenon DEF PopFrame
  <2>4. u.hist = SubSeq(h, 1, j)
    BY Zenon DEF Undone
  <2>5. SubSeq(u.hist, 1, j - 1) = SubSeq(h, 1, j - 1)
    <3> HIDE DEF u, h
    <3> QED BY SMTT(60), <1>1, <2>0, <2>4 DEF h
  <2>6. TruncateTo(u.log, h[j].mark) = TruncateTo(log, h[j].mark)
    <3>1. CASE j = n
      BY <3>1, ZenonT(60) DEF Undone
    <3>2. CASE j # n
      <4>1. u.log = TruncateTo(log, h[j+1].mark)
        BY <3>2, ZenonT(60) DEF Undone
      <4>2. j + 1 \in 1..n /\ j < j + 1
        BY <1>1, <3>2
      <4>3. /\ h[j].mark \in Marker /\ ValidMark(log, h[j].mark)
            /\ h[j+1].mark \in Marker /\ ValidMark(log, h[j+1].mark)
            /\ NotAfter(h[j].mark, h[j+1].mark)
        BY <1>1, <4>2
      <4> HIDE DEF u, h, log
      <4> QED BY <1>1, <4>1, <4>3, TruncateTwice
    <3> QED BY <3>1, <3>2
  <2>7. Undone(txn, j - 1) = [log |-> TruncateTo(log, h[j].mark), hist |-> SubSeq(h, 1, j - 1)]
    <3>1. j - 1 # n /\ (j - 1) + 1 = j
      BY <1>1
    <3> QED BY <3>1, ZenonT(60) DEF Undone
  <2> QED BY <2>3, <2>5, <2>6, <2>7, Zenon
<1>6. f[Undone(txn, k)] = Undone(txn, k)
  <2> DEFINE u == Undone(txn, k)
  <2>1. u \in Txn /\ u.hist \in Seq(Frame) /\ Len(u.hist) = k /\ \A i \in 1..k : u.hist[i] = h[i]
    BY <1>2, <1>4
  <2> HIDE DEF u
  <2>2. ~(u.hist # <<>> /\ LastOf(u.hist).level >= level)
    <3>1. CASE k = 0
      BY <2>1, <3>1
    <3>2. CASE k # 0
      <4>1. k \in 1..n /\ k \in 1..k
        BY <1>1, <1>2, <3>2
      <4>2. LastOf(u.hist) = h[k] /\ h[k].level \in 2..top /\ h[k].level < level
        BY <1>1, <1>2, <2>1, <4>1 DEF LastOf
      <4> QED BY <4>2
    <3> QED BY <3>1, <3>2
  <2>3. f[u] = u
    BY <2>1, <2>2, ZenonT(60) DEF PopFrame
  <2> QED BY <2>3 DEF u
<1>7. ASSUME NEW i \in 1..n PROVE G[i] = f[G[i-1]]
  <2>1. i \in 0..n /\ i - 1 \in 0..n
    BY <1>1
  <2>2. G[i] = Undone(txn, Left(i)) /\ G[i-1] = Undone(txn, Left(i-1))
    BY <2>1, ZenonT(60)
  <2> HIDE DEF G, f
  <2>3. CASE n - i >= k
    <3> DEFINE j == Left(i-1)
    <3>1. j \in 1..n /\ j > k /\ Left(i) = j - 1
      BY SMTT(60), <1>1, <1>2, <2>3
    <3> HIDE DEF j
    <3>2. f[Undone(txn, j)] = Undone(txn, j - 1)
      BY <1>5, <3>1
    <3> QED BY <2>2, <3>1, <3>2 DEF j
  <2>4. CASE ~(n - i >= k)
    <3>1. Left(i) = k /\ Left(i-1) = k
      BY SMTT(60), <1>1, <1>2, <2>4
    <3> HIDE DEF Left
    <3> QED BY SMTT(60), <1>6, <2>2, <3>1
  <2> QED BY <2>3, <2>4
<1>8. G[n] = Undone(txn, k)
  <2>1. Left(n) = k /\ n \in 0..n
    BY <1>1, <1>2
  <2> QED BY <2>1, ZenonT(60)
<1>9. RollbackTxn(txn, level) = G[n]
  <2> DEFINE Fix(g) == g = [i \in 0..n |-> IF i = 0 THEN txn ELSE f[g[i-1]]]
             T == CHOOSE g : Fix(g)
  <2>1. RollbackTxn(txn, level) = T[n]
    BY Zenon DEF RollbackTxn
  <2>2. G = [i \in 0..n |-> G[i]]
    BY ZenonT(60)
  <2> HIDE DEF G, f
  <2>3. ASSUME NEW i \in 0..n PROVE G[i] = IF i = 0 THEN txn ELSE f[G[i-1]]
    <3>1. CASE i = 0
      BY <1>3, <3>1, Zenon
    <3>2. CASE i # 0
      <4>1. i \in 1..n
        BY <1>1, <3>2
      <4> QED BY <1>7, <3>2, <4>1, ZenonT(60)
    <3> QED BY <3>1, <3>2
  <2>4. Fix(G)
    BY <2>2, <2>3, Zenon
  <2>5. Fix(T)
    BY <2>4, Zenon
  <2>6. IsLoop(G, n, txn, f)
    BY <2>3, Zenon DEF IsLoop
  <2>7. IsLoop(T, n, txn, f)
    <3> HIDE DEF T
    <3> QED BY <2>5, Zenon DEF IsLoop
  <2>8. T[n] = G[n]
    <3> HIDE DEF n, T
    <3> QED BY <1>1, <2>6, <2>7, LoopResult
  <2> QED BY <2>1, <2>8
<1> QED BY SMTT(60), <1>8, <1>9

\* A rollback leaves a well-formed transaction of the enclosing level.
LEMMA RollbackWellFormed ==
  ASSUME NEW txn, NEW top \in Nat, WellFormed(txn, top), NEW level \in Nat, level >= 1
  PROVE  WellFormed(RollbackTxn(txn, level), level - 1)
<1>1. PICK k : IsCut(txn.hist, level, k)
  BY Zenon, CutExists
<1> DEFINE u == Undone(txn, k)
<1>2. RollbackTxn(txn, level) = u
  BY <1>1, RollbackTxnIs
<1>3. k \in 0..Len(txn.hist) /\ (k = 0 \/ txn.hist[k].level < level)
  BY <1>1 DEF IsCut
<1>4. WellFormed(u, top) /\ Len(u.hist) = k /\ \A i \in 1..k : u.hist[i] = txn.hist[i]
  BY <1>3, UndoneWellFormed
<1>5. /\ Len(txn.hist) \in Nat
      /\ \A i \in 1..Len(txn.hist) : txn.hist[i].level \in 2..top
      /\ \A i, j \in 1..Len(txn.hist) : i < j => txn.hist[i].level <= txn.hist[j].level
  BY HistoryParts
<1>6. ASSUME NEW i \in 1..k PROVE txn.hist[i].level \in 2..(level - 1)
  <2>1. k \in 1..Len(txn.hist) /\ i \in 1..Len(txn.hist) /\ (i = k \/ i < k)
    BY <1>3, <1>5
  <2>2. /\ txn.hist[i].level \in 2..top /\ txn.hist[k].level \in 2..top
        /\ txn.hist[i].level <= txn.hist[k].level
    BY <1>5, <2>1
  <2>3. txn.hist[k].level < level
    BY <1>3, <2>1
  <2> QED BY <2>2, <2>3
<1> HIDE DEF u
<1>7. WellFormed(u, level - 1)
  <2>1. HistInv(u, level - 1)
    BY SMTT(60), <1>4, <1>6 DEF WellFormed, HistInv
  <2> QED BY <1>4, <2>1 DEF WellFormed
<1> QED BY <1>2, <1>7

\* A level no frame reaches is rolled back by doing nothing.
LEMMA RollbackNothing ==
  ASSUME NEW txn, NEW top \in Nat, WellFormed(txn, top), NEW level \in Nat, level > top
  PROVE  RollbackTxn(txn, level) = txn
<1> DEFINE n == Len(txn.hist)
<1>1. /\ txn.hist \in Seq(Frame) /\ n \in Nat /\ txn = [log |-> txn.log, hist |-> txn.hist]
      /\ \A i \in 1..n : txn.hist[i].level \in 2..top
  BY HistoryParts
<1>2. IsCut(txn.hist, level, n)
  BY <1>1 DEF IsCut
<1>3. RollbackTxn(txn, level) = Undone(txn, n)
  BY <1>2, RollbackTxnIs
<1>4. SubSeq(txn.hist, 1, n) = txn.hist
  BY <1>1
<1>5. Undone(txn, n) = [log |-> txn.log, hist |-> SubSeq(txn.hist, 1, n)]
  BY Zenon DEF Undone
<1> QED BY <1>1, <1>3, <1>4, <1>5

\* Aborting an inner and then an outer subtransaction restores what aborting
\* the outer one alone restores.
LEMMA RollbackTwice ==
  ASSUME NEW txn, NEW top \in Nat, WellFormed(txn, top),
         NEW outer \in Nat, NEW inner \in Nat, outer <= inner
  PROVE  RollbackTxn(RollbackTxn(txn, inner), outer).log = RollbackTxn(txn, outer).log
<1> DEFINE h == txn.hist
<1>1. PICK ki : IsCut(h, inner, ki)
  BY CutExists
<1>2. PICK ko : IsCut(h, outer, ko)
  BY CutExists
<1> DEFINE u == Undone(txn, ki)
<1>3. RollbackTxn(txn, inner) = u /\ RollbackTxn(txn, outer) = Undone(txn, ko)
  BY <1>1, <1>2, RollbackTxnIs
<1>4. /\ txn.log \in Seq(Action) /\ Len(h) \in Nat
      /\ \A i \in 1..Len(h) : /\ h[i].level \in 2..top /\ h[i].mark \in Marker
                              /\ ValidMark(txn.log, h[i].mark)
      /\ \A i, j \in 1..Len(h) : i < j => NotAfter(h[i].mark, h[j].mark)
  BY HistoryParts
<1>5. /\ ki \in 0..Len(h) /\ ko \in 0..Len(h)
      /\ ko = 0 \/ h[ko].level < outer
      /\ \A j \in 1..Len(h) : j > ki => h[j].level >= inner
      /\ \A j \in 1..Len(h) : j > ko => h[j].level >= outer
  BY <1>1, <1>2 DEF IsCut
<1>6. ko <= ki
  <2> SUFFICES ASSUME ko > ki PROVE FALSE
    BY <1>4, <1>5
  <2>1. ko \in 1..Len(h)
    BY <1>4, <1>5
  <2>2. h[ko].level >= inner /\ h[ko].level < outer /\ h[ko].level \in Nat
    BY <1>4, <1>5, <2>1
  <2> QED BY <2>2
<1>7. /\ WellFormed(u, top) /\ Len(u.hist) = ki /\ \A i \in 1..ki : u.hist[i] = h[i]
  BY <1>5, UndoneWellFormed
<1>8. IsCut(u.hist, outer, ko)
  <2> HIDE DEF u, h
  <2>1. ko \in 0..ki /\ \A j \in 1..ki : j \in 1..Len(h)
    BY <1>4, <1>5, <1>6
  <2>2. ko = 0 \/ u.hist[ko].level < outer
    BY <1>5, <1>7, <2>1
  <2>3. \A j \in 1..ki : j > ko => u.hist[j].level >= outer
    BY <1>5, <1>7, <2>1
  <2> QED BY <1>7, <2>1, <2>2, <2>3 DEF IsCut
<1>9. RollbackTxn(u, outer) = Undone(u, ko)
  <2> HIDE DEF u
  <2> QED BY <1>7, <1>8, RollbackTxnIs
<1>10. Undone(u, ko).log = Undone(txn, ko).log
  <2>1. CASE ko = ki
    <3>1. Undone(u, ko).log = u.log
      BY <1>7, <2>1, Zenon DEF Undone
    <3> QED BY <2>1, <3>1
  <2>2. CASE ko # ki
    <3>1. /\ ko + 1 \in 1..ki /\ ko + 1 \in 1..Len(h)
      BY <1>4, <1>5, <1>6, <2>2
    <3>2. Undone(u, ko).log = TruncateTo(u.log, h[ko+1].mark)
      BY <1>7, <2>2, <3>1, ZenonT(60) DEF Undone
    <3>3. ko # Len(h)
      BY <1>4, <1>5, <1>6, <2>2
    <3>4. Undone(txn, ko).log = TruncateTo(txn.log, h[ko+1].mark)
      BY <3>3, Zenon DEF Undone
    <3>5. CASE ki = Len(h)
      <4>1. u.log = txn.log
        BY <3>5, ZenonT(60) DEF Undone
      <4> QED BY <3>2, <3>4, <4>1
    <3>6. CASE ki # Len(h)
      <4>1. u.log = TruncateTo(txn.log, h[ki+1].mark)
        BY <3>6, ZenonT(60) DEF Undone
      <4>2. ki + 1 \in 1..Len(h) /\ ko + 1 < ki + 1
        BY SMTT(60), <1>4, <1>5, <1>6, <2>2, <3>6
      <4>3. /\ h[ko+1].mark \in Marker /\ ValidMark(txn.log, h[ko+1].mark)
            /\ h[ki+1].mark \in Marker /\ ValidMark(txn.log, h[ki+1].mark)
            /\ NotAfter(h[ko+1].mark, h[ki+1].mark)
        BY <1>4, <3>1, <4>2
      <4> HIDE DEF u, h
      <4> QED BY SMTT(60), <1>4, <3>2, <3>4, <4>1, <4>3, TruncateTwice
    <3> QED BY <3>5, <3>6
  <2> QED BY <2>1, <2>2
<1> QED BY <1>3, <1>9, <1>10

\* A statement at the current level adds to what that level would undo and to
\* nothing else: every rollback still restores the same log.
LEMMA RecordedRollback ==
  ASSUME NEW txn, NEW level \in Nat, level >= 1, WellFormed(txn, level),
         NEW after, Grows(txn.log, after)
  PROVE  /\ WellFormed(Recorded(txn, level, after), level)
         /\ \A to \in 2..level :
              RollbackTxn(Recorded(txn, level, after), to).log = RollbackTxn(txn, to).log
<1> DEFINE h == txn.hist
           n == Len(txn.hist)
           log == txn.log
           r == Recorded(txn, level, after)
           f == [level |-> level, mark |-> Mark(log)]
<1>1. /\ log \in Seq(Action) /\ h \in Seq(Frame) /\ n \in Nat
      /\ \A i \in 1..n : /\ h[i] \in Frame /\ h[i].mark \in Marker
                         /\ h[i].level \in 2..level /\ ValidMark(log, h[i].mark)
      /\ \A i, j \in 1..n : i < j => /\ h[i].level <= h[j].level
                                     /\ NotAfter(h[i].mark, h[j].mark)
  BY HistoryParts
<1>2. LogInv(log)
  BY DEF WellFormed
<1>3. /\ after \in Seq(Action) /\ LogInv(after)
      /\ \A m \in Marker : ValidMark(log, m) => /\ ValidMark(after, m)
                                               /\ TruncateTo(after, m) = TruncateTo(log, m)
  BY DEF Grows
<1>4. /\ Mark(log) \in Marker /\ ValidMark(log, Mark(log)) /\ TruncateTo(log, Mark(log)) = log
      /\ \A m \in Marker : ValidMark(log, m) => NotAfter(m, Mark(log))
  BY <1>1, <1>2, MarkOfLog
<1>5. r.log = after /\ r.hist = (IF level > 1 THEN Append(h, f) ELSE h)
      /\ r = [log |-> r.log, hist |-> r.hist]
  BY DEF Recorded
<1>6. f \in Frame /\ f.level = level /\ f.mark = Mark(log)
  BY <1>4 DEF Frame
<1> HIDE DEF r, f, log, h, n
<1>n. n = Len(h)
  BY DEF n, h
<1>7. CASE level = 1
  <2>1. n = 0
    <3> SUFFICES ASSUME n # 0 PROVE FALSE
      OBVIOUS
    <3>1. 1 \in 1..n
      BY <1>1
    <3>2. h[1].level \in 2..level
      BY <1>1, <3>1
    <3> QED BY <1>7, <3>2
  <2>2. r.hist = h /\ r \in Txn
    <3>1. r.hist = h
      BY <1>5, <1>7
    <3>2. [log |-> r.log, hist |-> r.hist] \in Txn
      BY <1>1, <1>3, <1>5, <3>1 DEF Txn
    <3> QED BY <1>5, <3>1, <3>2
  <2>3. HistInv(r, level)
    <3>1. Len(r.hist) = 0
      BY Zenon, <1>n, <2>1, <2>2
    <3>2. 1..0 = {}
      OBVIOUS
    <3> QED BY <3>1, <3>2 DEF HistInv
  <2>4. 2..level = {}
    BY <1>7
  <2> QED BY <1>3, <1>5, <2>2, <2>3, <2>4 DEF WellFormed, r
<1>8. CASE level > 1
  <2>1. r.hist = Append(h, f)
    BY <1>5, <1>8
  <2>2. /\ r.hist \in Seq(Frame) /\ Len(r.hist) = n + 1
        /\ r.hist[n + 1] = f /\ \A i \in 1..n : r.hist[i] = h[i]
    BY <1>1, <1>6, <1>n, <2>1
  <2>3. r \in Txn
    <3>1. [log |-> r.log, hist |-> r.hist] \in Txn
      BY <1>3, <1>5, <2>2 DEF Txn
    <3> QED BY <1>5, <3>1
  <2>4. HistInv(r, level)
    <3>1. ASSUME NEW i \in 1..(n + 1)
          PROVE  r.hist[i].level \in 2..level /\ ValidMark(after, r.hist[i].mark)
      <4>1. CASE i = n + 1
        BY <1>3, <1>4, <1>6, <1>8, <2>2, <4>1
      <4>2. CASE i \in 1..n
        BY <1>1, <1>3, <2>2, <4>2
      <4> QED BY <1>1, <4>1, <4>2
    <3>2. ASSUME NEW i \in 1..(n + 1), NEW j \in 1..(n + 1), i < j
          PROVE  /\ r.hist[i].level <= r.hist[j].level
                 /\ NotAfter(r.hist[i].mark, r.hist[j].mark)
      <4>0. i \in 1..n
        BY <1>1, <3>2
      <4>1. CASE j = n + 1
        <5>1. r.hist[i] = h[i] /\ r.hist[j].mark = Mark(log) /\ r.hist[j].level = level
          BY <1>6, <2>2, <4>0, <4>1
        <5> QED BY <1>1, <1>4, <4>0, <5>1
      <4>2. CASE j \in 1..n
        BY Zenon, <1>1, <2>2, <3>2, <4>0, <4>2
      <4> QED BY <1>1, <4>1, <4>2
    <3> QED BY <1>5, <2>2, <3>1, <3>2 DEF HistInv
  <2>5. WellFormed(r, level)
    BY <1>3, <1>5, <2>3, <2>4 DEF WellFormed
  <2>6. ASSUME NEW to \in 2..level
        PROVE  RollbackTxn(r, to).log = RollbackTxn(txn, to).log
    <3>1. PICK k : IsCut(h, to, k)
      BY CutExists DEF h
    <3>2. k \in 0..n /\ (k = 0 \/ h[k].level < to) /\ \A j \in 1..n : j > k => h[j].level >= to
      BY <1>n, <3>1 DEF IsCut
    <3>3. IsCut(r.hist, to, k)
      <4>1. k \in 0..(n + 1)
        BY <1>1, <3>2
      <4>2. k = 0 \/ r.hist[k].level < to
        BY <1>1, <2>2, <3>2
      <4>3. ASSUME NEW j \in 1..(n + 1), j > k PROVE r.hist[j].level >= to
        <5>1. CASE j = n + 1
          BY <1>6, <2>2, <5>1
        <5>2. CASE j \in 1..n
          BY <2>2, <3>2, <4>3, <5>2
        <5> QED BY <1>1, <5>1, <5>2
      <4> QED BY <2>2, <4>1, <4>2, <4>3 DEF IsCut
    <3>4. RollbackTxn(txn, to) = Undone(txn, k)
      BY <3>1, RollbackTxnIs DEF h
    <3>5. RollbackTxn(r, to) = Undone(r, k)
      BY <2>5, <3>3, RollbackTxnIs
    <3>6. k # n + 1
      BY <1>1, <3>2
    <3>7. Undone(r, k).log = TruncateTo(after, r.hist[k+1].mark)
      BY <1>5, <2>2, <3>6, Zenon DEF Undone
    <3>8. CASE k = n
      <4>1. r.hist[k+1].mark = Mark(log)
        BY <1>6, <2>2, <3>8
      <4>2. TruncateTo(after, Mark(log)) = log
        BY <1>3, <1>4
      <4>3. Undone(txn, k).log = log
        BY <3>8, Zenon DEF Undone, n, log
      <4> QED BY <3>4, <3>5, <3>7, <4>1, <4>2, <4>3
    <3>9. CASE k # n
      <4>1. k + 1 \in 1..n
        BY <1>1, <3>2, <3>9
      <4>2. r.hist[k+1].mark = h[k+1].mark
        BY <2>2, <4>1
      <4>3. TruncateTo(after, h[k+1].mark) = TruncateTo(log, h[k+1].mark)
        BY <1>1, <1>3, <4>1
      <4>4. Undone(txn, k).log = TruncateTo(log, h[k+1].mark)
        BY <3>9, Zenon DEF Undone, n, log, h
      <4> QED BY <3>4, <3>5, <3>7, <4>2, <4>3, <4>4
    <3> QED BY <3>8, <3>9
  <2> QED BY <2>5, <2>6 DEF r
<1> QED BY <1>7, <1>8

\* The frames promote_to_level reparents, before it drops the top-level ones.
PromotedFrames(txn, from) ==
  [i \in 1..Len(txn.hist) |->
     [level |-> Reparented(txn.hist[i].level, from), mark |-> txn.hist[i].mark]]

\* promote_to_level keeps all frames, unless it releases the outermost
\* savepoint: then it keeps none.
LEMMA PromoteTxnIs ==
  ASSUME NEW txn, NEW from \in Nat, from >= 2, WellFormed(txn, from)
  PROVE  PromoteTxn(txn, from) =
           [log  |-> txn.log,
            hist |-> IF from = 2 THEN <<>> ELSE PromotedFrames(txn, from)]
<1> DEFINE F == PromotedFrames(txn, from)
           I == {i \in 1..Len(F) : F[i].level > 1}
<1>1. /\ Len(txn.hist) \in Nat
      /\ \A i \in 1..Len(txn.hist) : txn.hist[i].mark \in Marker /\ txn.hist[i].level \in 2..from
  BY HistoryParts
<1>2. ASSUME NEW i \in 1..Len(txn.hist)
      PROVE  /\ F[i] = [level |-> Reparented(txn.hist[i].level, from), mark |-> txn.hist[i].mark]
             /\ F[i].level = Reparented(txn.hist[i].level, from)
             /\ F[i].level \in 1..(from - 1)
             /\ from > 2 => F[i].level > 1
             /\ F[i] \in Frame
  <2>1. F[i] = [level |-> Reparented(txn.hist[i].level, from), mark |-> txn.hist[i].mark]
    BY DEF PromotedFrames
  <2>2. txn.hist[i].mark \in Marker /\ txn.hist[i].level \in 2..from
    BY <1>1
  <2>3. /\ Reparented(txn.hist[i].level, from) \in 1..(from - 1)
        /\ from > 2 => Reparented(txn.hist[i].level, from) > 1
    BY <2>2 DEF Reparented
  <2> QED BY <2>1, <2>2, <2>3 DEF Frame
<1>3. F \in Seq(Frame) /\ Len(F) = Len(txn.hist)
  <2>1. F \in [1..Len(txn.hist) -> Frame]
    BY Zenon, <1>2 DEF PromotedFrames
  <2> HIDE DEF F
  <2> QED BY <1>1, <2>1
<1>4. PromoteTxn(txn, from) = [log |-> txn.log, hist |-> Retain(F, I)]
  BY Zenon DEF PromoteTxn, PromotedFrames
<1> HIDE DEF F
<1>5. CASE from = 2
  <2>1. I = 1..0
    <3>1. ASSUME NEW i \in 1..Len(F) PROVE ~(F[i].level > 1)
      <4>1. i \in 1..Len(txn.hist)
        BY <1>3
      <4>2. F[i].level \in 1..(from - 1)
        BY Zenon, <1>2, <4>1
      <4> QED BY <1>5, <4>2
    <3>2. 1..0 = {}
      OBVIOUS
    <3> QED BY <3>1, <3>2, Zenon
  <2>2. Retain(F, 1..0) = SubSeq(F, 1, 0)
    <3>1. 0 \in 0..Len(F)
      BY <1>3
    <3> QED BY <1>3, <3>1, RetainPrefix
  <2>3. SubSeq(F, 1, 0) = <<>>
    BY <1>3
  <2> HIDE DEF I
  <2> QED BY <1>4, <1>5, <2>1, <2>2, <2>3
<1>6. CASE from # 2
  <2>1. I = 1..Len(F)
    <3>1. ASSUME NEW i \in 1..Len(F) PROVE F[i].level > 1
      <4>1. i \in 1..Len(txn.hist) /\ from > 2
        BY <1>3, <1>6
      <4> QED BY Zenon, <1>2, <4>1
    <3> QED BY <3>1, Zenon
  <2>2. Retain(F, 1..Len(F)) = SubSeq(F, 1, Len(F))
    <3>1. Len(F) \in 0..Len(F)
      BY <1>1, <1>3
    <3> QED BY <1>3, <3>1, RetainPrefix
  <2>3. SubSeq(F, 1, Len(F)) = F
    BY <1>3
  <2> HIDE DEF I
  <2> QED BY <1>4, <1>6, <2>1, <2>2, <2>3 DEF F
<1> QED BY <1>5, <1>6

\* RELEASE SAVEPOINT: the log stays, and every enclosing savepoint would still
\* restore the same log.
LEMMA PromoteTxnRollback ==
  ASSUME NEW txn, NEW from \in Nat, from >= 2, WellFormed(txn, from)
  PROVE  /\ WellFormed(PromoteTxn(txn, from), from - 1)
         /\ PromoteTxn(txn, from).log = txn.log
         /\ \A to \in 2..(from - 1) :
              RollbackTxn(PromoteTxn(txn, from), to).log = RollbackTxn(txn, to).log
<1> DEFINE h == txn.hist
           n == Len(txn.hist)
           log == txn.log
           p == PromoteTxn(txn, from)
           F == PromotedFrames(txn, from)
<1>1. /\ log \in Seq(Action) /\ h \in Seq(Frame) /\ n \in Nat /\ n = Len(h)
      /\ \A i \in 1..n : /\ h[i].mark \in Marker
                         /\ h[i].level \in 2..from /\ ValidMark(log, h[i].mark)
      /\ \A i, j \in 1..n : i < j => /\ h[i].level <= h[j].level
                                     /\ NotAfter(h[i].mark, h[j].mark)
  BY HistoryParts
<1>2. LogInv(log)
  BY DEF WellFormed
<1>3. p = [log |-> log, hist |-> IF from = 2 THEN <<>> ELSE F]
  BY PromoteTxnIs
<1>4. CASE from = 2
  <2>1. p.log = log /\ p.hist = <<>> /\ p \in Txn
    BY <1>1, <1>3, <1>4 DEF Txn
  <2> HIDE DEF p, log
  <2>2. HistInv(p, from - 1)
    <3>1. Len(p.hist) = 0
      BY <2>1
    <3>2. 1..0 = {}
      OBVIOUS
    <3> QED BY <3>1, <3>2 DEF HistInv
  <2>3. 2..(from - 1) = {}
    BY <1>4
  <2> QED BY <1>2, <2>1, <2>2, <2>3 DEF WellFormed, p, log
<1>5. CASE from > 2
  <2>1. ASSUME NEW i \in 1..n
        PROVE  /\ F[i] \in Frame
               /\ F[i].mark = h[i].mark
               /\ F[i].level = Reparented(h[i].level, from)
    <3>1. F[i] = [level |-> Reparented(h[i].level, from), mark |-> h[i].mark]
      BY DEF PromotedFrames
    <3>2. Reparented(h[i].level, from) \in Nat /\ h[i].mark \in Marker
      BY <1>1 DEF Reparented
    <3> QED BY <3>1, <3>2 DEF Frame
  <2>2. F \in Seq(Frame) /\ Len(F) = n
    <3>1. F \in [1..n -> Frame]
      BY Zenon, <2>1 DEF PromotedFrames
    <3> HIDE DEF F
    <3> QED BY <1>1, <3>1
  <2> HIDE DEF F
  <2>3. p.log = log /\ p.hist = F /\ p = [log |-> log, hist |-> F]
    BY <1>3, <1>5
  <2>4. p \in Txn
    <3>1. [log |-> log, hist |-> F] \in Txn
      BY <1>1, <2>2 DEF Txn
    <3> QED BY <2>3, <3>1
  <2> HIDE DEF p, h, n, log
  <2>5. HistInv(p, from - 1)
    <3>1. ASSUME NEW i \in 1..n
          PROVE  F[i].level \in 2..(from - 1) /\ ValidMark(log, F[i].mark)
      <4>1. h[i].level \in 2..from /\ ValidMark(log, h[i].mark)
        BY <1>1
      <4> QED BY <1>5, <2>1, <4>1 DEF Reparented
    <3>2. ASSUME NEW i \in 1..n, NEW j \in 1..n, i < j
          PROVE  F[i].level <= F[j].level /\ NotAfter(F[i].mark, F[j].mark)
      <4>1. /\ h[i].level \in 2..from /\ h[j].level \in 2..from
            /\ h[i].level <= h[j].level /\ NotAfter(h[i].mark, h[j].mark)
        BY <1>1, <3>2
      <4>2. Reparented(h[i].level, from) <= Reparented(h[j].level, from)
        BY <4>1 DEF Reparented
      <4> QED BY <2>1, <4>1, <4>2
    <3> QED BY Zenon, <2>2, <2>3, <3>1, <3>2 DEF HistInv
  <2>6. WellFormed(p, from - 1)
    BY <1>2, <2>3, <2>4, <2>5 DEF WellFormed
  <2>7. ASSUME NEW to \in 2..(from - 1)
        PROVE  RollbackTxn(p, to).log = RollbackTxn(txn, to).log
    <3>0. to \in Nat /\ from - 1 \in Nat
      BY <1>5
    <3>1. PICK k : IsCut(h, to, k)
      BY <3>0, CutExists DEF h
    <3>2. k \in 0..n /\ (k = 0 \/ h[k].level < to) /\ \A j \in 1..n : j > k => h[j].level >= to
      BY <1>1, <3>1 DEF IsCut
    <3>3. IsCut(F, to, k)
      <4>1. k = 0 \/ F[k].level < to
        <5> SUFFICES ASSUME k # 0 PROVE F[k].level < to
          OBVIOUS
        <5>1. k \in 1..n /\ h[k].level < to
          BY <1>1, <3>2
        <5>2. h[k].level \in 2..from /\ F[k].level = Reparented(h[k].level, from)
          BY <1>1, <2>1, <5>1
        <5> QED BY <5>1, <5>2 DEF Reparented
      <4>2. ASSUME NEW j \in 1..n, j > k PROVE F[j].level >= to
        <5>1. h[j].level >= to /\ h[j].level \in 2..from
          BY <1>1, <3>2, <4>2
        <5> QED BY <2>1, <5>1 DEF Reparented
      <4> QED BY <2>2, <3>2, <4>1, <4>2 DEF IsCut
    <3>4. RollbackTxn(txn, to) = Undone(txn, k)
      BY <3>0, <3>1, RollbackTxnIs DEF h
    <3>5. RollbackTxn(p, to) = Undone(p, k)
      BY <2>3, <2>6, <3>0, <3>3, RollbackTxnIs
    <3>6. CASE k = n
      <4>1. Undone(txn, k).log = log /\ Undone(p, k).log = log
        BY <2>2, <2>3, <3>6, Zenon DEF Undone, n, log
      <4> QED BY <3>4, <3>5, <4>1
    <3>7. CASE k # n
      <4>1. k + 1 \in 1..n
        BY <1>1, <3>2, <3>7
      <4>2. F[k+1].mark = h[k+1].mark
        BY <2>1, <4>1
      <4>3. /\ Undone(txn, k).log = TruncateTo(log, h[k+1].mark)
            /\ Undone(p, k).log = TruncateTo(log, F[k+1].mark)
        BY <2>2, <2>3, <3>7, Zenon DEF Undone, n, log, h
      <4> QED BY <3>4, <3>5, <4>2, <4>3
    <3> QED BY <3>6, <3>7
  <2> QED BY <2>3, <2>6, <2>7 DEF p, log
<1> QED BY <1>4, <1>5

-----------------------------------------------------------------------------
(* Storage generations: what rollback, release and rebuild do to a tracked *)
(* table with several of them (ManagedTableState).                         *)

\* Every generation is well formed for the level that retired it.
TableWellFormed(t, top) ==
  /\ t \in ManagedTableState
  /\ WellFormed(t.txn, top)
  /\ \A i \in 1..Len(t.rebuilds) :
       /\ t.rebuilds[i].level \in 2..top
       /\ WellFormed(t.rebuilds[i].txn, t.rebuilds[i].level)
  /\ \A i, j \in 1..Len(t.rebuilds) :
       i < j => t.rebuilds[i].level < t.rebuilds[j].level
  /\ OwnerInv(t)

\* The table once only the k oldest rebuild frames are left.
UndoneTable(t, level, k) ==
  IF k = Len(t.rebuilds)
  THEN [txn |-> RollbackTxn(t.txn, level), fileIo |-> t.fileIo,
        rebuildLevel |-> t.rebuildLevel, rebuilds |-> t.rebuilds]
  ELSE [txn |-> RollbackTxn(t.rebuilds[k+1].txn, level), fileIo |-> t.rebuilds[k+1].fileIo,
        rebuildLevel |-> t.rebuilds[k+1].previous, rebuilds |-> SubSeq(t.rebuilds, 1, k)]

\* The fields and frames of a well-formed table, one by one.
LEMMA TableParts ==
  ASSUME NEW t, NEW top \in Nat, TableWellFormed(t, top)
  PROVE  /\ t = [txn |-> t.txn, fileIo |-> t.fileIo,
                 rebuildLevel |-> t.rebuildLevel, rebuilds |-> t.rebuilds]
         /\ t.txn \in Txn /\ t.fileIo \in BOOLEAN /\ t.rebuildLevel \in Nat
         /\ t.rebuilds \in Seq(RebuildFrame) /\ Len(t.rebuilds) \in Nat
         /\ \A i \in 1..Len(t.rebuilds) :
              /\ t.rebuilds[i] \in RebuildFrame
              /\ t.rebuilds[i].fileIo \in BOOLEAN
              /\ t.rebuilds[i].txn \in Txn
              /\ t.rebuilds[i].level \in Nat
              /\ t.rebuilds[i].previous \in Nat
<1>1. /\ t = [txn |-> t.txn, fileIo |-> t.fileIo,
              rebuildLevel |-> t.rebuildLevel, rebuilds |-> t.rebuilds]
      /\ t.txn \in Txn /\ t.fileIo \in BOOLEAN /\ t.rebuildLevel \in Nat
      /\ t.rebuilds \in Seq(RebuildFrame)
  BY DEF TableWellFormed, ManagedTableState
<1>2. Len(t.rebuilds) \in Nat /\ \A i \in 1..Len(t.rebuilds) : t.rebuilds[i] \in RebuildFrame
  BY <1>1
<1>3. \A i \in 1..Len(t.rebuilds) :
        /\ t.rebuilds[i].fileIo \in BOOLEAN /\ t.rebuilds[i].txn \in Txn
        /\ t.rebuilds[i].level \in Nat /\ t.rebuilds[i].previous \in Nat
  BY <1>2 DEF RebuildFrame
<1> QED BY <1>1, <1>2, <1>3

\* What a rollback leaves has the shape of a table.
LEMMA UndoneTableTyped ==
  ASSUME NEW t, NEW top \in Nat, TableWellFormed(t, top),
         NEW level \in Nat, level >= 1, NEW k \in 0..Len(t.rebuilds)
  PROVE  /\ UndoneTable(t, level, k) \in ManagedTableState
         /\ UndoneTable(t, level, k).rebuilds = SubSeq(t.rebuilds, 1, k)
         /\ Len(UndoneTable(t, level, k).rebuilds) = k
         /\ \A i \in 1..k : UndoneTable(t, level, k).rebuilds[i] = t.rebuilds[i]
<1> DEFINE r == t.rebuilds
           u == UndoneTable(t, level, k)
<1>1. /\ t.fileIo \in BOOLEAN /\ t.rebuildLevel \in Nat
      /\ r \in Seq(RebuildFrame) /\ Len(r) \in Nat
      /\ \A i \in 1..Len(r) : r[i].fileIo \in BOOLEAN /\ r[i].level \in Nat /\ r[i].previous \in Nat
  BY TableParts
<1>2. WellFormed(t.txn, top) /\ \A i \in 1..Len(r) : WellFormed(r[i].txn, r[i].level)
  BY DEF TableWellFormed
<1>3. SubSeq(r, 1, Len(r)) = r
  BY <1>1
<1>4. /\ SubSeq(r, 1, k) \in Seq(RebuildFrame) /\ Len(SubSeq(r, 1, k)) = k
      /\ \A i \in 1..k : SubSeq(r, 1, k)[i] = r[i]
  BY <1>1
<1>5. CASE k = Len(r)
  <2>1. u = [txn |-> RollbackTxn(t.txn, level), fileIo |-> t.fileIo,
             rebuildLevel |-> t.rebuildLevel, rebuilds |-> r]
    BY <1>5, Zenon DEF UndoneTable
  <2>2. RollbackTxn(t.txn, level) \in Txn
    BY <1>2, RollbackWellFormed DEF WellFormed
  <2> HIDE DEF u, r
  <2>3. u \in ManagedTableState
    BY <1>1, <2>1, <2>2 DEF ManagedTableState
  <2>4. u.rebuilds = r
    BY <2>1
  <2> QED BY <1>3, <1>4, <1>5, <2>3, <2>4 DEF u, r
<1>6. CASE k # Len(r)
  <2>1. k + 1 \in 1..Len(r)
    BY <1>1, <1>6
  <2>2. u = [txn |-> RollbackTxn(r[k+1].txn, level), fileIo |-> r[k+1].fileIo,
             rebuildLevel |-> r[k+1].previous, rebuilds |-> SubSeq(r, 1, k)]
    BY <1>6, Zenon DEF UndoneTable
  <2>3. RollbackTxn(r[k+1].txn, level) \in Txn
    <3>1. WellFormed(r[k+1].txn, r[k+1].level) /\ r[k+1].level \in Nat
      BY <1>1, <1>2, <2>1
    <3> QED BY <3>1, RollbackWellFormed DEF WellFormed
  <2>4. r[k+1].fileIo \in BOOLEAN /\ r[k+1].previous \in Nat
    BY <1>1, <2>1
  <2> HIDE DEF u, r
  <2>5. u \in ManagedTableState
    BY <1>4, <2>2, <2>3, <2>4 DEF ManagedTableState
  <2>6. u.rebuilds = SubSeq(r, 1, k)
    BY <2>2, Zenon
  <2> QED BY <1>4, <2>5, <2>6 DEF u, r
<1> QED BY <1>5, <1>6

\* ManagedTableState::rollback_to_level in closed form.
LEMMA RollbackTableIs ==
  ASSUME NEW t, NEW top \in Nat, TableWellFormed(t, top),
         NEW level \in Nat, level >= 1, NEW k, IsCut(t.rebuilds, level, k)
  PROVE  RollbackTable(t, level) = UndoneTable(t, level, k)
<1> DEFINE r == t.rebuilds
           n == Len(t.rebuilds)
           U(j) == UndoneTable(t, level, j)
           Left(i) == IF n - i >= k THEN n - i ELSE k
           G == [i \in 0..n |-> U(Left(i))]
           f == PopRebuild(level)
           base == [t EXCEPT !.txn = RollbackTxn(@, level)]
<1>1. /\ t = [txn |-> t.txn, fileIo |-> t.fileIo,
              rebuildLevel |-> t.rebuildLevel, rebuilds |-> r]
      /\ r \in Seq(RebuildFrame) /\ n \in Nat
      /\ \A i \in 1..n : r[i].level \in Nat
  BY TableParts
<1>2. k \in 0..n /\ (k = 0 \/ r[k].level < level) /\ \A j \in 1..n : j > k => r[j].level >= level
  BY DEF IsCut
<1>3. G[0] = base
  <2>1. Left(0) = n /\ 0 \in 0..n
    BY <1>1, <1>2
  <2>2. G[0] = U(n)
    BY <2>1, Zenon
  <2>3. U(n) = [txn |-> RollbackTxn(t.txn, level), fileIo |-> t.fileIo,
                rebuildLevel |-> t.rebuildLevel, rebuilds |-> r]
    BY Zenon DEF UndoneTable
  <2>4. base = [txn |-> RollbackTxn(t.txn, level), fileIo |-> t.fileIo,
                rebuildLevel |-> t.rebuildLevel, rebuilds |-> r]
    BY <1>1
  <2> QED BY <2>2, <2>3, <2>4, Zenon
<1>4. ASSUME NEW j \in 0..n
      PROVE  /\ U(j) \in ManagedTableState
             /\ U(j).rebuilds = SubSeq(r, 1, j)
             /\ Len(U(j).rebuilds) = j
             /\ \A i \in 1..j : U(j).rebuilds[i] = r[i]
  BY UndoneTableTyped
<1>5. ASSUME NEW j \in 1..n, j > k
      PROVE  f[U(j)] = U(j - 1)
  <2> DEFINE u == U(j)
  <2>0. j \in 0..n /\ j - 1 \in 0..n
    BY <1>1
  <2>1. u \in ManagedTableState /\ Len(u.rebuilds) = j /\ u.rebuilds[j] = r[j]
        /\ u.rebuilds = SubSeq(r, 1, j)
    BY <1>4, <2>0
  <2> HIDE DEF u
  <2>2. u.rebuilds # <<>> /\ LastOf(u.rebuilds).level >= level /\ LastOf(u.rebuilds) = r[j]
    BY <1>2, <1>5, <2>1 DEF LastOf
  <2>3. f[u] = [txn |-> RollbackTxn(r[j].txn, level), fileIo |-> r[j].fileIo,
                rebuildLevel |-> r[j].previous, rebuilds |-> SubSeq(u.rebuilds, 1, j - 1)]
    BY <2>1, <2>2, Zenon DEF PopRebuild
  <2>4. SubSeq(u.rebuilds, 1, j - 1) = SubSeq(r, 1, j - 1)
    <3> HIDE DEF r
    <3> QED BY <1>1, <2>0, <2>1 DEF r
  <2>5. U(j - 1) = [txn |-> RollbackTxn(r[j].txn, level), fileIo |-> r[j].fileIo,
                    rebuildLevel |-> r[j].previous, rebuilds |-> SubSeq(r, 1, j - 1)]
    <3>1. j - 1 # n /\ (j - 1) + 1 = j
      BY <1>1
    <3> QED BY <3>1, Zenon DEF UndoneTable
  <2>6. f[u] = U(j - 1)
    BY <2>3, <2>4, <2>5, Zenon
  <2> QED BY <2>6 DEF u
<1>6. f[U(k)] = U(k)
  <2> DEFINE u == U(k)
  <2>1. u \in ManagedTableState /\ Len(u.rebuilds) = k /\ \A i \in 1..k : u.rebuilds[i] = r[i]
    BY <1>2, <1>4
  <2>0. u.rebuilds \in Seq(RebuildFrame)
    BY <2>1 DEF ManagedTableState
  <2> HIDE DEF u
  <2>2. ~(u.rebuilds # <<>> /\ LastOf(u.rebuilds).level >= level)
    <3>1. CASE k = 0
      BY <2>0, <2>1, <3>1
    <3>2. CASE k # 0
      <4>1. k \in 1..n /\ k \in 1..k
        BY <1>1, <1>2, <3>2
      <4>2. LastOf(u.rebuilds) = r[k] /\ r[k].level \in Nat /\ r[k].level < level
        BY <1>1, <1>2, <2>1, <4>1 DEF LastOf
      <4> QED BY <4>2
    <3> QED BY <3>1, <3>2
  <2>3. f[u] = u
    BY <2>1, <2>2, Zenon DEF PopRebuild
  <2> QED BY <2>3 DEF u
<1>7. ASSUME NEW i \in 1..n PROVE G[i] = f[G[i-1]]
  <2>1. i \in 0..n /\ i - 1 \in 0..n
    BY <1>1
  <2>2. G[i] = U(Left(i)) /\ G[i-1] = U(Left(i-1))
    BY <2>1, Zenon
  <2> HIDE DEF G, f, U
  <2>3. CASE n - i >= k
    <3> DEFINE j == Left(i-1)
    <3>1. j \in 1..n /\ j > k /\ Left(i) = j - 1
      BY <1>1, <1>2, <2>3
    <3> HIDE DEF j
    <3>2. f[U(j)] = U(j - 1)
      BY <1>5, <3>1
    <3> QED BY <2>2, <3>1, <3>2 DEF j
  <2>4. CASE ~(n - i >= k)
    <3>1. Left(i) = k /\ Left(i-1) = k
      BY <1>1, <1>2, <2>4
    <3> HIDE DEF Left
    <3> QED BY <1>6, <2>2, <3>1
  <2> QED BY <2>3, <2>4
<1>8. G[n] = U(k)
  <2>1. Left(n) = k /\ n \in 0..n
    BY <1>1, <1>2
  <2> QED BY <2>1, Zenon
<1>9. RollbackTable(t, level) = G[n]
  <2> DEFINE Fix(g) == g = [i \in 0..n |-> IF i = 0 THEN base ELSE f[g[i-1]]]
             T == CHOOSE g : Fix(g)
  <2>1. RollbackTable(t, level) = T[n]
    BY Zenon DEF RollbackTable
  <2>2. G = [i \in 0..n |-> G[i]]
    BY Zenon
  <2> HIDE DEF G, f, base
  <2>3. ASSUME NEW i \in 0..n PROVE G[i] = IF i = 0 THEN base ELSE f[G[i-1]]
    <3>1. CASE i = 0
      BY <1>3, <3>1, Zenon
    <3>2. CASE i # 0
      <4>1. i \in 1..n
        BY <1>1, <3>2
      <4> QED BY <1>7, <3>2, <4>1, Zenon
    <3> QED BY <3>1, <3>2
  <2>4. Fix(G)
    BY <2>2, <2>3, Zenon
  <2>5. Fix(T)
    BY <2>4, Zenon
  <2>6. IsLoop(G, n, base, f)
    BY <2>3, Zenon DEF IsLoop
  <2>7. IsLoop(T, n, base, f)
    <3> HIDE DEF T
    <3> QED BY <2>5, Zenon DEF IsLoop
  <2>8. T[n] = G[n]
    <3> HIDE DEF n, T
    <3> QED BY <1>1, <2>6, <2>7, LoopResult
  <2> QED BY <2>1, <2>8
<1> QED BY <1>8, <1>9

\* A savepoint that no rebuild frame outlived is restored from the current
\* generation.
LEMMA SavedInCurrent ==
  ASSUME NEW t, NEW top \in Nat, TableWellFormed(t, top), NEW level \in Nat, level >= 1,
         IsCut(t.rebuilds, level, Len(t.rebuilds))
  PROVE  ContentOf(RollbackTable(t, level)) =
           [log |-> RollbackTxn(t.txn, level).log, rebuilt |-> t.rebuildLevel # NoLevel]
<1> DEFINE x == RollbackTxn(t.txn, level)
           o == t.rebuildLevel
<1>1. RollbackTable(t, level) = UndoneTable(t, level, Len(t.rebuilds))
  BY RollbackTableIs
<1>2. UndoneTable(t, level, Len(t.rebuilds)) =
        [txn |-> x, fileIo |-> t.fileIo, rebuildLevel |-> o, rebuilds |-> t.rebuilds]
  BY Zenon DEF UndoneTable
<1> HIDE DEF x, o
<1>3. RollbackTable(t, level).txn = x /\ RollbackTable(t, level).rebuildLevel = o
  BY <1>1, <1>2
<1>4. ContentOf(RollbackTable(t, level)) = [log |-> x.log, rebuilt |-> o # NoLevel]
  BY <1>3, Zenon DEF ContentOf, WasRebuilt
<1> QED BY <1>4 DEF x, o

\* Any other savepoint is restored from the frame after its cut.
LEMMA SavedInFrame ==
  ASSUME NEW t, NEW top \in Nat, TableWellFormed(t, top), NEW level \in Nat, level >= 1,
         NEW k, IsCut(t.rebuilds, level, k), k # Len(t.rebuilds)
  PROVE  ContentOf(RollbackTable(t, level)) =
           [log     |-> RollbackTxn(t.rebuilds[k+1].txn, level).log,
            rebuilt |-> t.rebuilds[k+1].previous # NoLevel]
<1> DEFINE x == RollbackTxn(t.rebuilds[k+1].txn, level)
           o == t.rebuilds[k+1].previous
           io == t.rebuilds[k+1].fileIo
           kept == SubSeq(t.rebuilds, 1, k)
<1>1. RollbackTable(t, level) = UndoneTable(t, level, k)
  BY RollbackTableIs
<1>2. UndoneTable(t, level, k) =
        [txn |-> x, fileIo |-> io, rebuildLevel |-> o, rebuilds |-> kept]
  BY Zenon DEF UndoneTable
<1> HIDE DEF x, o, io, kept
<1>3. RollbackTable(t, level).txn = x /\ RollbackTable(t, level).rebuildLevel = o
  BY <1>1, <1>2
<1>4. ContentOf(RollbackTable(t, level)) = [log |-> x.log, rebuilt |-> o # NoLevel]
  BY <1>3, Zenon DEF ContentOf, WasRebuilt
<1> QED BY <1>4 DEF x, o

\* The frames of a well-formed table have cuts.
LEMMA RebuildCut ==
  ASSUME NEW t, NEW top \in Nat, TableWellFormed(t, top), NEW level \in Nat
  PROVE  \E k : IsCut(t.rebuilds, level, k)
<1>1. Len(t.rebuilds) \in Nat /\ \A i \in 1..Len(t.rebuilds) : t.rebuilds[i].level \in Nat
  BY TableParts
<1> QED BY <1>1, FramesCut

\* Staging into the current generation disturbs no savepoint that the change
\* of the log does not disturb.
LEMMA SavedUnderStaging ==
  ASSUME NEW t, NEW u, NEW top \in Nat, TableWellFormed(t, top), TableWellFormed(u, top),
         u.rebuilds = t.rebuilds, u.rebuildLevel = t.rebuildLevel,
         NEW level \in Nat, level >= 1,
         RollbackTxn(u.txn, level).log = RollbackTxn(t.txn, level).log
  PROVE  ContentOf(RollbackTable(u, level)) = ContentOf(RollbackTable(t, level))
<1>1. PICK k : IsCut(t.rebuilds, level, k)
  BY RebuildCut
<1>2. IsCut(u.rebuilds, level, k)
  BY <1>1
<1>3. CASE k = Len(t.rebuilds)
  <2>1. ContentOf(RollbackTable(t, level)) =
          [log |-> RollbackTxn(t.txn, level).log, rebuilt |-> t.rebuildLevel # NoLevel]
    BY <1>1, <1>3, SavedInCurrent
  <2>2. ContentOf(RollbackTable(u, level)) =
          [log |-> RollbackTxn(u.txn, level).log, rebuilt |-> u.rebuildLevel # NoLevel]
    BY <1>2, <1>3, SavedInCurrent
  <2> QED BY <2>1, <2>2, Zenon
<1>4. CASE k # Len(t.rebuilds)
  <2>1. ContentOf(RollbackTable(t, level)) =
          [log |-> RollbackTxn(t.rebuilds[k+1].txn, level).log,
           rebuilt |-> t.rebuilds[k+1].previous # NoLevel]
    BY <1>1, <1>4, SavedInFrame
  <2>2. ContentOf(RollbackTable(u, level)) =
          [log |-> RollbackTxn(u.rebuilds[k+1].txn, level).log,
           rebuilt |-> u.rebuilds[k+1].previous # NoLevel]
    BY <1>2, <1>4, SavedInFrame
  <2> QED BY <2>1, <2>2, Zenon
<1> QED BY <1>3, <1>4

\* A table that takes a new transaction state of the same level stays well
\* formed.
LEMMA StagedWellFormed ==
  ASSUME NEW t, NEW top \in Nat, TableWellFormed(t, top),
         NEW x, WellFormed(x, top), NEW io \in BOOLEAN
  PROVE  TableWellFormed([t EXCEPT !.fileIo = io, !.txn = x], top)
<1> DEFINE u == [t EXCEPT !.fileIo = io, !.txn = x]
<1>1. x \in Txn
  BY DEF WellFormed
<1>2. t \in ManagedTableState
  BY DEF TableWellFormed
<1>3. /\ u \in ManagedTableState /\ u.txn = x
      /\ u.rebuilds = t.rebuilds /\ u.rebuildLevel = t.rebuildLevel
  BY Zenon, <1>1, <1>2 DEF ManagedTableState
<1> HIDE DEF u
<1>4. OwnerInv(u) <=> OwnerInv(t)
  BY <1>3, Zenon DEF OwnerInv
<1>5. TableWellFormed(u, top)
  BY <1>3, <1>4 DEF TableWellFormed
<1> QED BY <1>5 DEF u

\* The owner of each generation, frame by frame.
LEMMA OwnerParts ==
  ASSUME NEW t, NEW top \in Nat, TableWellFormed(t, top)
  PROVE  /\ t.rebuilds = <<>> => t.rebuildLevel \in {NoLevel, 1}
         /\ t.rebuilds # <<>> => t.rebuildLevel = t.rebuilds[Len(t.rebuilds)].level
         /\ Len(t.rebuilds) >= 1 => t.rebuilds[1].previous \in {NoLevel, 1}
         /\ \A i \in 2..Len(t.rebuilds) : t.rebuilds[i].previous = t.rebuilds[i-1].level
<1> DEFINE Owner(n) == IF n = Len(t.rebuilds) THEN t.rebuildLevel ELSE t.rebuilds[n+1].previous
<1>1. Len(t.rebuilds) \in Nat /\ t.rebuilds \in Seq(RebuildFrame)
  BY TableParts
<1>2. \A n \in 0..Len(t.rebuilds) :
        IF n = 0 THEN Owner(n) \in {NoLevel, 1} ELSE Owner(n) = t.rebuilds[n].level
  BY Zenon DEF TableWellFormed, OwnerInv
<1>3. t.rebuilds = <<>> => t.rebuildLevel \in {NoLevel, 1}
  <2> HAVE t.rebuilds = <<>>
  <2>1. Len(t.rebuilds) = 0 /\ 0 \in 0..Len(t.rebuilds)
    OBVIOUS
  <2> QED BY <1>2, <2>1, Zenon
<1>4. t.rebuilds # <<>> => t.rebuildLevel = t.rebuilds[Len(t.rebuilds)].level
  <2> HAVE t.rebuilds # <<>>
  <2>1. Len(t.rebuilds) # 0 /\ Len(t.rebuilds) \in 0..Len(t.rebuilds)
    BY <1>1
  <2> QED BY <1>2, <2>1, Zenon
<1>5. Len(t.rebuilds) >= 1 => t.rebuilds[1].previous \in {NoLevel, 1}
  <2> HAVE Len(t.rebuilds) >= 1
  <2>1. 0 # Len(t.rebuilds) /\ 0 \in 0..Len(t.rebuilds) /\ 0 + 1 = 1
    BY <1>1
  <2> QED BY <1>2, <2>1, Zenon
<1>6. ASSUME NEW i \in 2..Len(t.rebuilds) PROVE t.rebuilds[i].previous = t.rebuilds[i-1].level
  <2>1. i - 1 # Len(t.rebuilds) /\ i - 1 # 0 /\ i - 1 \in 0..Len(t.rebuilds) /\ (i - 1) + 1 = i
    BY <1>1
  <2> QED BY <1>2, <2>1, Zenon
<1> QED BY <1>3, <1>4, <1>5, <1>6

\* The converse, for showing that a table is well formed.
LEMMA OwnerFromParts ==
  ASSUME NEW t, Len(t.rebuilds) \in Nat,
         Len(t.rebuilds) = 0 => t.rebuildLevel \in {NoLevel, 1},
         Len(t.rebuilds) # 0 => t.rebuildLevel = t.rebuilds[Len(t.rebuilds)].level,
         Len(t.rebuilds) >= 1 => t.rebuilds[1].previous \in {NoLevel, 1},
         \A i \in 2..Len(t.rebuilds) : t.rebuilds[i].previous = t.rebuilds[i-1].level
  PROVE  OwnerInv(t)
<1> DEFINE Owner(n) == IF n = Len(t.rebuilds) THEN t.rebuildLevel ELSE t.rebuilds[n+1].previous
<1>1. ASSUME NEW n \in 0..Len(t.rebuilds)
      PROVE  IF n = 0 THEN Owner(n) \in {NoLevel, 1} ELSE Owner(n) = t.rebuilds[n].level
  <2>1. CASE n = Len(t.rebuilds)
    BY <2>1
  <2>2. CASE n # Len(t.rebuilds) /\ n = 0
    <3>1. Len(t.rebuilds) >= 1 /\ n + 1 = 1
      BY <2>2
    <3>2. Owner(n) = t.rebuilds[1].previous
      BY <2>2, <3>1, Zenon
    <3> QED BY <2>2, <3>1, <3>2, Zenon
  <2>3. CASE n # Len(t.rebuilds) /\ n # 0
    <3>1. n + 1 \in 2..Len(t.rebuilds) /\ (n + 1) - 1 = n
      BY <2>3
    <3>2. Owner(n) = t.rebuilds[n+1].previous
      BY <2>3, Zenon
    <3>3. t.rebuilds[n+1].previous = t.rebuilds[(n+1)-1].level
      BY <3>1
    <3> QED BY <2>3, <3>1, <3>2, <3>3, Zenon
  <2> QED BY <2>1, <2>2, <2>3
<1> QED BY <1>1, Zenon DEF OwnerInv

\* A fresh transaction is well formed at every level.
LEMMA NewTxnWellFormed ==
  ASSUME NEW top \in Nat
  PROVE  WellFormed(NewTxn, top)
<1>1. NewTxn.log = <<>> /\ NewTxn.hist = <<>> /\ NewTxn \in Txn
  BY DEF NewTxn, Txn
<1>2. Len(<<>>) = 0 /\ 1..0 = {}
  OBVIOUS
<1>3. LogInv(NewTxn.log)
  BY <1>1, <1>2 DEF LogInv
<1>4. HistInv(NewTxn, top)
  BY <1>1, <1>2 DEF HistInv
<1> QED BY <1>1, <1>3, <1>4 DEF WellFormed

\* record_rebuild keeps the table well formed, and every open savepoint would
\* still restore the same contents.
LEMMA RebuildSaved ==
  ASSUME NEW t, NEW level \in Nat, level >= 1, TableWellFormed(t, level)
  PROVE  /\ TableWellFormed(WithRebuild(t, level), level)
         /\ \A to \in 2..level :
              ContentOf(RollbackTable(WithRebuild(t, level), to)) = ContentOf(RollbackTable(t, to))
<1> DEFINE r == t.rebuilds
           n == Len(t.rebuilds)
           F == [level |-> level, txn |-> t.txn, fileIo |-> t.fileIo, previous |-> t.rebuildLevel]
           u == WithRebuild(t, level)
           keep == level = 1 \/ (r # <<>> /\ LastOf(r).level = level)
           r2 == IF keep THEN r ELSE Append(r, F)
<1>1. /\ t.txn \in Txn /\ t.fileIo \in BOOLEAN /\ t.rebuildLevel \in Nat
      /\ r \in Seq(RebuildFrame) /\ n \in Nat
  BY TableParts
<1>2. /\ WellFormed(t.txn, level)
      /\ \A i \in 1..n : r[i].level \in 2..level /\ WellFormed(r[i].txn, r[i].level)
      /\ \A i, j \in 1..n : i < j => r[i].level < r[j].level
  BY DEF TableWellFormed
<1>3. /\ r = <<>> => t.rebuildLevel \in {NoLevel, 1}
      /\ r # <<>> => t.rebuildLevel = r[n].level
      /\ n >= 1 => r[1].previous \in {NoLevel, 1}
      /\ \A i \in 2..n : r[i].previous = r[i-1].level
  BY OwnerParts
<1>4. u = [txn |-> NewTxn, fileIo |-> TRUE, rebuildLevel |-> level, rebuilds |-> r2]
  <2>1. (level > 1 /\ ~(r # <<>> /\ LastOf(r).level = level)) <=> ~keep
    BY SMT
  <2> QED BY <2>1, Zenon DEF WithRebuild
<1>5. F \in RebuildFrame /\ F.level = level /\ F.txn = t.txn /\ F.previous = t.rebuildLevel
  BY <1>1 DEF RebuildFrame
<1> HIDE DEF F, keep
<1>6. r2 \in Seq(RebuildFrame)
  BY <1>1, <1>5
<1>7. NewTxn \in Txn
  BY NewTxnWellFormed DEF WellFormed
<1> HIDE DEF r2, u
<1>8. u \in ManagedTableState /\ u.txn = NewTxn /\ u.rebuildLevel = level /\ u.rebuilds = r2
  BY <1>4, <1>6, <1>7 DEF ManagedTableState
<1>9. WellFormed(u.txn, level)
  BY <1>8, NewTxnWellFormed
<1>10. CASE keep
  <2>1. r2 = r
    BY <1>10 DEF r2
  <2>2. /\ r = <<>> => level = 1
        /\ r # <<>> => r[n].level = level
    <3>1. CASE level = 1
      <4>1. n = 0
        <5>1. n # 0 => 1 \in 1..n
          BY <1>1
        <5>2. 1 \in 1..n => r[1].level \in 2..level
          BY <1>2
        <5> QED BY <3>1, <5>1, <5>2
      <4>2. r = <<>>
        BY <1>1, <4>1
      <4> QED BY <3>1, <4>2
    <3>2. CASE r # <<>> /\ LastOf(r).level = level
      BY <3>2 DEF LastOf
    <3> QED BY <1>10, <3>1, <3>2 DEF keep
  <2>3. TableWellFormed(u, level)
    <3>1. Len(u.rebuilds) = n /\ (n = 0 <=> r = <<>>)
      BY <1>1, <1>8, <2>1
    <3>2. OwnerInv(u)
      <4> HIDE DEF r, n
      <4> QED BY <1>1, <1>3, <1>8, <2>1, <2>2, <3>1, OwnerFromParts
    <3> QED BY <1>2, <1>8, <1>9, <2>1, <3>1, <3>2 DEF TableWellFormed
  <2>4. ASSUME NEW to \in 2..level
        PROVE  ContentOf(RollbackTable(u, to)) = ContentOf(RollbackTable(t, to))
    <3>0. to \in Nat /\ to >= 1 /\ level # 1 /\ to <= level
      OBVIOUS
    <3>1. PICK k : IsCut(r, to, k)
      BY <3>0, RebuildCut
    <3>2. k # n
      <4>1. r # <<>> /\ r[n].level = level /\ n \in 1..n
        BY <1>1, <2>2, <3>0
      <4>2. k = n => r[n].level < to
        BY <3>1, <4>1 DEF IsCut
      <4> QED BY <3>0, <4>1, <4>2
    <3>3. ContentOf(RollbackTable(t, to)) =
            [log |-> RollbackTxn(r[k+1].txn, to).log, rebuilt |-> r[k+1].previous # NoLevel]
      BY <3>0, <3>1, <3>2, SavedInFrame
    <3>4. ContentOf(RollbackTable(u, to)) =
            [log |-> RollbackTxn(u.rebuilds[k+1].txn, to).log,
             rebuilt |-> u.rebuilds[k+1].previous # NoLevel]
      <4>1. IsCut(u.rebuilds, to, k) /\ k # Len(u.rebuilds)
        BY <1>8, <2>1, <3>1, <3>2
      <4> QED BY <2>3, <3>0, <4>1, SavedInFrame
    <3> QED BY <1>8, <2>1, <3>3, <3>4, Zenon
  <2> QED BY <2>3, <2>4 DEF u
<1>11. CASE ~keep
  <2>1. r2 = Append(r, F)
    BY <1>11 DEF r2
  <2>2. Len(r2) = n + 1 /\ r2[n+1] = F /\ \A i \in 1..n : r2[i] = r[i]
    BY <1>1, <1>5, <2>1
  <2>3. level >= 2 /\ \A i \in 1..n : r[i].level < level
    <3>1. level # 1 /\ ~(r # <<>> /\ LastOf(r).level = level)
      BY <1>11 DEF keep
    <3>2. ASSUME NEW i \in 1..n PROVE r[i].level < level
      <4>1. r # <<>> /\ n \in 1..n /\ (i = n \/ i < n)
        BY <1>1
      <4>2. r[n].level # level
        BY <3>1, <4>1 DEF LastOf
      <4> QED BY <1>2, <4>1, <4>2
    <3> QED BY <3>1, <3>2
  <2>4. \A i \in 1..(n+1) : r2[i].level \in 2..level /\ WellFormed(r2[i].txn, r2[i].level)
    <3> TAKE i \in 1..(n+1)
    <3>1. CASE i = n + 1
      BY <1>2, <1>5, <2>2, <2>3, <3>1
    <3>2. CASE i # n + 1
      <4>1. i \in 1..n
        BY <1>1, <3>2
      <4> QED BY <1>2, <2>2, <4>1
    <3> QED BY <3>1, <3>2
  <2>5. \A i, j \in 1..(n+1) : i < j => r2[i].level < r2[j].level
    <3> TAKE i, j \in 1..(n+1)
    <3> HAVE i < j
    <3>1. i \in 1..n
      BY <1>1
    <3>2. CASE j = n + 1
      BY <1>5, <2>2, <2>3, <3>1, <3>2
    <3>3. CASE j # n + 1
      <4>1. j \in 1..n
        BY <1>1, <3>3
      <4> QED BY <1>2, <2>2, <3>1, <4>1
    <3> QED BY <3>2, <3>3
  <2>6. OwnerInv(u)
    <3>1. Len(u.rebuilds) = n + 1 /\ u.rebuilds[n+1].level = level
      BY <1>5, <1>8, <2>2
    <3>2. u.rebuilds[1].previous \in {NoLevel, 1}
      <4>1. CASE n = 0
        <5>1. r = <<>>
          BY <1>1, <4>1
        <5> QED BY <1>3, <1>5, <1>8, <2>2, <4>1, <5>1
      <4>2. CASE n # 0
        <5>1. 1 \in 1..n /\ n >= 1
          BY <1>1, <4>2
        <5> QED BY <1>3, <1>8, <2>2, <5>1
      <4> QED BY <4>1, <4>2
    <3>3. ASSUME NEW i \in 2..(n+1) PROVE u.rebuilds[i].previous = u.rebuilds[i-1].level
      <4>1. i - 1 \in 1..n
        BY <1>1
      <4>2. CASE i = n + 1
        <5>1. r # <<>> /\ i - 1 = n
          BY <1>1, <4>1, <4>2
        <5> QED BY <1>3, <1>5, <1>8, <2>2, <4>1, <4>2, <5>1
      <4>3. CASE i # n + 1
        <5>1. i \in 2..n /\ i \in 1..n
          BY <1>1, <4>3
        <5> QED BY <1>3, <1>8, <2>2, <4>1, <5>1
      <4> QED BY <4>2, <4>3
    <3>4. Len(u.rebuilds) \in Nat
      BY <1>1, <3>1
    <3>5. u.rebuildLevel = u.rebuilds[Len(u.rebuilds)].level /\ Len(u.rebuilds) # 0
      BY <1>1, <1>8, <3>1
    <3> QED BY <3>1, <3>2, <3>3, <3>4, <3>5, OwnerFromParts
  <2>7. TableWellFormed(u, level)
    BY <1>8, <1>9, <2>2, <2>4, <2>5, <2>6 DEF TableWellFormed
  <2>8. ASSUME NEW to \in 2..level
        PROVE  ContentOf(RollbackTable(u, to)) = ContentOf(RollbackTable(t, to))
    <3>0. to \in Nat /\ to >= 1 /\ to <= level
      OBVIOUS
    <3>1. PICK k : IsCut(r, to, k)
      BY <3>0, RebuildCut
    <3>2. k \in 0..n /\ (k = 0 \/ r[k].level < to) /\ \A j \in 1..n : j > k => r[j].level >= to
      BY <3>1 DEF IsCut
    <3>3. IsCut(u.rebuilds, to, k)
      <4>1. k \in 0..(n+1)
        BY <1>1, <3>2
      <4>2. k = 0 \/ r2[k].level < to
        BY <1>1, <2>2, <3>2
      <4>3. ASSUME NEW j \in 1..(n+1), j > k PROVE r2[j].level >= to
        <5>1. CASE j = n + 1
          BY <1>5, <2>2, <3>0, <5>1
        <5>2. CASE j # n + 1
          <6>1. j \in 1..n
            BY <1>1, <5>2
          <6> QED BY <2>2, <3>2, <4>3, <6>1
        <5> QED BY <5>1, <5>2
      <4> QED BY <1>8, <2>2, <4>1, <4>2, <4>3 DEF IsCut
    <3>4. k # Len(u.rebuilds)
      BY <1>1, <1>8, <2>2, <3>2
    <3>5. ContentOf(RollbackTable(u, to)) =
            [log |-> RollbackTxn(r2[k+1].txn, to).log, rebuilt |-> r2[k+1].previous # NoLevel]
      <4>1. ContentOf(RollbackTable(u, to)) =
              [log |-> RollbackTxn(u.rebuilds[k+1].txn, to).log,
               rebuilt |-> u.rebuilds[k+1].previous # NoLevel]
        BY <2>7, <3>0, <3>3, <3>4, SavedInFrame
      <4> QED BY <1>8, <4>1, Zenon
    <3>6. CASE k = n
      <4>1. ContentOf(RollbackTable(t, to)) =
              [log |-> RollbackTxn(t.txn, to).log, rebuilt |-> t.rebuildLevel # NoLevel]
        BY <3>0, <3>1, <3>6, SavedInCurrent
      <4>2. r2[k+1].txn = t.txn /\ r2[k+1].previous = t.rebuildLevel
        BY <1>5, <2>2, <3>6
      <4> QED BY <3>5, <4>1, <4>2, Zenon
    <3>7. CASE k # n
      <4>1. ContentOf(RollbackTable(t, to)) =
              [log |-> RollbackTxn(r[k+1].txn, to).log, rebuilt |-> r[k+1].previous # NoLevel]
        BY <3>0, <3>1, <3>7, SavedInFrame
      <4>2. r2[k+1] = r[k+1]
        BY <1>1, <2>2, <3>2, <3>7
      <4> QED BY <3>5, <4>1, <4>2, Zenon
    <3> QED BY <3>6, <3>7
  <2> QED BY <2>7, <2>8 DEF u
<1> QED BY <1>10, <1>11

\* A transaction of a level is one of every deeper level.
LEMMA WellFormedDeeper ==
  ASSUME NEW txn, NEW top \in Nat, NEW deeper \in Nat, top <= deeper, WellFormed(txn, top)
  PROVE  WellFormed(txn, deeper)
<1>1. ASSUME NEW i \in 1..Len(txn.hist), txn.hist[i].level \in 2..top
      PROVE  txn.hist[i].level \in 2..deeper
  BY <1>1
<1>2. HistInv(txn, deeper)
  BY <1>1 DEF WellFormed, HistInv
<1> QED BY <1>2 DEF WellFormed

\* Releasing a level deeper than a transaction's own changes nothing in it.
LEMMA PromoteNothing ==
  ASSUME NEW txn, NEW top \in Nat, NEW from \in Nat, from >= 2, top < from, WellFormed(txn, top)
  PROVE  PromoteTxn(txn, from) = txn
<1> DEFINE F == PromotedFrames(txn, from)
<1>1. WellFormed(txn, from)
  BY WellFormedDeeper
<1>2. PromoteTxn(txn, from) = [log |-> txn.log, hist |-> IF from = 2 THEN <<>> ELSE F]
  BY <1>1, PromoteTxnIs
<1>3. /\ txn = [log |-> txn.log, hist |-> txn.hist] /\ txn.hist \in Seq(Frame)
      /\ Len(txn.hist) \in Nat
      /\ \A i \in 1..Len(txn.hist) : txn.hist[i].level \in 2..top
  BY HistoryParts
<1>4. CASE from = 2
  <2>1. Len(txn.hist) = 0
    <3>1. Len(txn.hist) # 0 => 1 \in 1..Len(txn.hist)
      BY <1>3
    <3>2. 1 \in 1..Len(txn.hist) => txn.hist[1].level \in 2..top
      BY <1>3
    <3> QED BY <1>4, <3>1, <3>2
  <2>2. txn.hist = <<>>
    BY <1>3, <2>1
  <2> QED BY <1>2, <1>3, <1>4, <2>2, Zenon
<1>5. CASE from # 2
  <2>1. ASSUME NEW i \in 1..Len(txn.hist) PROVE F[i] = txn.hist[i]
    <3>1. F[i] = [level |-> Reparented(txn.hist[i].level, from), mark |-> txn.hist[i].mark]
      BY DEF PromotedFrames
    <3>2. txn.hist[i].level \in 2..top /\ txn.hist[i] \in Frame
      BY <1>3
    <3>3. Reparented(txn.hist[i].level, from) = txn.hist[i].level
      BY <3>2 DEF Reparented
    <3>4. txn.hist[i] = [level |-> txn.hist[i].level, mark |-> txn.hist[i].mark]
      BY <3>2 DEF Frame
    <3> QED BY <3>1, <3>3, <3>4, Zenon
  <2>2. F = [i \in 1..Len(txn.hist) |-> F[i]]
    BY Zenon DEF PromotedFrames
  <2>3. txn.hist = [i \in 1..Len(txn.hist) |-> txn.hist[i]]
    BY <1>3
  <2> HIDE DEF F
  <2>4. F = txn.hist
    BY <2>1, <2>2, <2>3, Zenon
  <2> QED BY <1>2, <1>3, <1>5, <2>4, Zenon
<1> QED BY <1>4, <1>5

\* What releasing a level does to the frame of a rebuild.
LEMMA PromotedFrameParts ==
  ASSUME NEW f \in RebuildFrame, NEW from \in Nat, from >= 2,
         f.level \in 2..from, WellFormed(f.txn, f.level)
  PROVE  /\ PromotedFrame(f, from) \in RebuildFrame
         /\ PromotedFrame(f, from).level = Reparented(f.level, from)
         /\ PromotedFrame(f, from).txn = PromoteTxn(f.txn, from)
         /\ PromotedFrame(f, from).previous = Reparented(f.previous, from)
         /\ WellFormed(PromoteTxn(f.txn, from), Reparented(f.level, from))
         /\ \A to \in 2..(from - 1) :
              RollbackTxn(PromoteTxn(f.txn, from), to).log = RollbackTxn(f.txn, to).log
<1> DEFINE x == PromoteTxn(f.txn, from)
           l == Reparented(f.level, from)
           p == Reparented(f.previous, from)
           io == f.fileIo
<1>1. PromotedFrame(f, from) = [level |-> l, txn |-> x, fileIo |-> io, previous |-> p]
  BY Zenon DEF PromotedFrame
<1>2. f.level \in Nat /\ f.previous \in Nat /\ io \in BOOLEAN
  BY DEF RebuildFrame
<1>3. l \in Nat /\ p \in Nat
  BY <1>2 DEF Reparented
<1>4. WellFormed(f.txn, from)
  BY <1>2, WellFormedDeeper
<1>5. /\ WellFormed(x, from - 1)
      /\ \A to \in 2..(from - 1) : RollbackTxn(x, to).log = RollbackTxn(f.txn, to).log
  BY <1>4, PromoteTxnRollback
<1>6. WellFormed(x, l)
  <2>1. CASE f.level = from
    <3>1. l = from - 1
      BY <2>1 DEF Reparented
    <3> HIDE DEF l, x
    <3> QED BY <1>5, <3>1
  <2>2. CASE f.level # from
    <3>1. l = f.level /\ f.level < from
      BY <1>2, <2>2 DEF Reparented
    <3>2. x = f.txn
      BY <1>2, <3>1, PromoteNothing
    <3> HIDE DEF l, x
    <3> QED BY <3>1, <3>2
  <2> QED BY <2>1, <2>2
<1>7. x \in Txn
  BY <1>5 DEF WellFormed
<1> HIDE DEF x, l, p, io
<1>8. PromotedFrame(f, from) \in RebuildFrame
  BY <1>1, <1>2, <1>3, <1>7 DEF RebuildFrame
<1>9. /\ PromotedFrame(f, from).level = l /\ PromotedFrame(f, from).txn = x
      /\ PromotedFrame(f, from).previous = p
  BY <1>1
<1> QED BY <1>5, <1>6, <1>8, <1>9 DEF x, l, p

\* The frames of a table after a release, before any is dropped.
PromotedRebuilds(t, from) == [i \in 1..Len(t.rebuilds) |-> PromotedFrame(t.rebuilds[i], from)]

\* The newest frame joins the one below it when their levels meet.
Meet(t, from) ==
  LET n == Len(t.rebuilds)
  IN  n >= 2 /\ t.rebuilds[n].level = from /\ t.rebuilds[n-1].level = from - 1

\* How many frames survive a release.
Survivors(t, from) ==
  IF from = 2 THEN 0 ELSE IF Meet(t, from) THEN Len(t.rebuilds) - 1 ELSE Len(t.rebuilds)

\* ManagedTableState::promote_to_level in closed form: frames are dropped only
\* at the end of the history.
LEMMA PromoteTableIs ==
  ASSUME NEW t, NEW from \in Nat, from >= 2, TableWellFormed(t, from)
  PROVE  /\ Survivors(t, from) \in 0..Len(t.rebuilds)
         /\ PromotedRebuilds(t, from) \in Seq(RebuildFrame)
         /\ Len(PromotedRebuilds(t, from)) = Len(t.rebuilds)
         /\ PromoteTable(t, from) =
              [txn |-> PromoteTxn(t.txn, from), fileIo |-> t.fileIo,
               rebuildLevel |-> Reparented(t.rebuildLevel, from),
               rebuilds |-> SubSeq(PromotedRebuilds(t, from), 1, Survivors(t, from))]
<1> DEFINE r == t.rebuilds
           n == Len(t.rebuilds)
           F == PromotedRebuilds(t, from)
           m == Survivors(t, from)
           I == {i \in 1..Len(F) : F[i].level > 1}
           N == Retain(F, I)
           J == {i \in 1..Len(N) : i = 1 \/ N[i].level # N[i-1].level}
<1>1. r \in Seq(RebuildFrame) /\ n \in Nat /\ \A i \in 1..n : r[i] \in RebuildFrame
  BY TableParts
<1>2. /\ \A i \in 1..n : r[i].level \in 2..from /\ WellFormed(r[i].txn, r[i].level)
      /\ \A i, j \in 1..n : i < j => r[i].level < r[j].level
  BY DEF TableWellFormed
<1>3. ASSUME NEW i \in 1..n
      PROVE  F[i] \in RebuildFrame /\ F[i].level = Reparented(r[i].level, from)
  <2>1. F[i] = PromotedFrame(r[i], from)
    BY Zenon DEF PromotedRebuilds
  <2> HIDE DEF F
  <2>2. r[i] \in RebuildFrame /\ r[i].level \in 2..from /\ WellFormed(r[i].txn, r[i].level)
    BY <1>1, <1>2
  <2> QED BY <2>1, <2>2, PromotedFrameParts
<1>4. F \in Seq(RebuildFrame) /\ Len(F) = n
  <2>1. F \in [1..n -> RebuildFrame]
    BY <1>3, Zenon DEF PromotedRebuilds
  <2> HIDE DEF F
  <2> QED BY <1>1, <2>1
<1>5. m \in 0..n
  <2>1. Meet(t, from) => n >= 2
    BY Zenon DEF Meet
  <2>2. m = IF from = 2 THEN 0 ELSE IF Meet(t, from) THEN n - 1 ELSE n
    BY Zenon DEF Survivors
  <2>3. n \in Nat
    BY <1>1
  <2> HIDE DEF n, m
  <2> QED BY <2>1, <2>2, <2>3
<1>6. PromoteTable(t, from) =
        [txn |-> PromoteTxn(t.txn, from), fileIo |-> t.fileIo,
         rebuildLevel |-> Reparented(t.rebuildLevel, from), rebuilds |-> Retain(N, J)]
  BY Zenon DEF PromoteTable, PromotedRebuilds
<1> HIDE DEF F, m
<1>7. Retain(N, J) = SubSeq(F, 1, m)
  <2>1. CASE from = 2
    <3>1. m = 0
      BY <2>1, Zenon DEF m, Survivors
    <3>2. 1..0 = {}
      OBVIOUS
    <3>3. I = 1..0
      <4>1. ASSUME NEW i \in 1..Len(F) PROVE ~(F[i].level > 1)
        <5>1. i \in 1..n
          BY <1>4
        <5>2. F[i].level = Reparented(r[i].level, from) /\ r[i].level \in 2..from
          BY <1>2, <1>3, <5>1
        <5> QED BY <2>1, <5>2 DEF Reparented
      <4> QED BY <3>2, <4>1, Zenon
    <3> HIDE DEF I
    <3>4. N = SubSeq(F, 1, 0)
      <4>1. 0 \in 0..Len(F)
        BY <1>1, <1>4
      <4> QED BY <1>4, <3>3, <4>1, RetainPrefix
    <3>5. SubSeq(F, 1, 0) = <<>>
      BY <1>4
    <3> HIDE DEF N
    <3>6. N = <<>> /\ Len(N) = 0 /\ N \in Seq(RebuildFrame)
      BY <3>4, <3>5
    <3>7. J = 1..0
      BY <3>2, <3>6, Zenon
    <3> HIDE DEF J
    <3>8. Retain(N, 1..0) = SubSeq(N, 1, 0)
      <4>1. 0 \in 0..Len(N)
        BY <3>6
      <4> QED BY Zenon, <3>6, <4>1, RetainPrefix
    <3>9. SubSeq(N, 1, 0) = <<>>
      BY <3>6
    <3> QED BY <3>1, <3>5, <3>7, <3>8, <3>9
  <2>2. CASE from # 2
    <3>1. I = 1..Len(F)
      <4>1. ASSUME NEW i \in 1..Len(F) PROVE F[i].level > 1
        <5>1. i \in 1..n
          BY <1>4
        <5>2. F[i].level = Reparented(r[i].level, from) /\ r[i].level \in 2..from
          BY <1>2, <1>3, <5>1
        <5> QED BY <2>2, <5>2 DEF Reparented
      <4> QED BY <4>1, Zenon
    <3> HIDE DEF I
    <3>2. N = SubSeq(F, 1, Len(F))
      <4>1. Len(F) \in 0..Len(F)
        BY <1>1, <1>4
      <4> QED BY <1>4, <3>1, <4>1, RetainPrefix
    <3>3. SubSeq(F, 1, Len(F)) = F
      BY <1>4
    <3> HIDE DEF N
    <3>4. N = F
      BY <3>2, <3>3
    <3>5. ASSUME NEW i \in 1..n, i # 1
          PROVE  F[i].level = F[i-1].level <=> (i = n /\ Meet(t, from))
      <4>1. i - 1 \in 1..n /\ i - 1 < i
        BY <1>1, <3>5
      <4>2. /\ F[i].level = Reparented(r[i].level, from)
            /\ F[i-1].level = Reparented(r[i-1].level, from)
            /\ r[i].level \in 2..from /\ r[i-1].level \in 2..from
            /\ r[i-1].level < r[i].level
        BY <1>2, <1>3, <4>1
      <4>3. F[i].level = F[i-1].level <=> r[i].level = from /\ r[i-1].level = from - 1
        BY <4>2 DEF Reparented
      <4>4. i # n => r[i].level # from
        <5>1. i # n => n \in 1..n /\ i < n
          BY <1>1
        <5>2. i # n => r[i].level < r[n].level /\ r[n].level \in 2..from /\ r[i].level \in 2..from
          BY <1>2, <5>1
        <5> QED BY <5>2
      <4>5. i = n => (Meet(t, from) <=> r[i].level = from /\ r[i-1].level = from - 1)
        <5>1. i = n => n >= 2
          <6>1. n \in Nat /\ i - 1 \in 1..n
            BY <1>1, <4>1
          <6> HIDE DEF n
          <6> QED BY <6>1
        <5> QED BY <5>1, Zenon DEF Meet
      <4> QED BY <4>3, <4>4, <4>5, Zenon
    <3>6. J = 1..m
      <4>1. ASSUME NEW i \in 1..n
            PROVE  (i = 1 \/ F[i].level # F[i-1].level) <=> i \in 1..m
        <5>1. CASE Meet(t, from)
          <6>1. m = n - 1 /\ n >= 2
            BY <2>2, <5>1, Zenon DEF m, Survivors, Meet
          <6>2. CASE i = 1
            BY <1>1, <6>1, <6>2
          <6>3. CASE i # 1
            <7>1. F[i].level = F[i-1].level <=> i = n
              BY <3>5, <5>1, <6>3, Zenon
            <7>2. i \in 1..m <=> i # n
              BY <1>1, <6>1
            <7> QED BY <6>3, <7>1, <7>2, Zenon
          <6> QED BY <6>2, <6>3
        <5>2. CASE ~Meet(t, from)
          <6>1. m = n
            BY <2>2, <5>2, Zenon DEF m, Survivors
          <6>2. i # 1 => F[i].level # F[i-1].level
            BY <3>5, <5>2, Zenon
          <6> QED BY <6>1, <6>2, Zenon
        <5> QED BY <5>1, <5>2
      <4>2. J = {i \in 1..n : i = 1 \/ F[i].level # F[i-1].level}
        BY <1>4, <3>4, Zenon
      <4>3. ASSUME NEW i \in 1..m PROVE i \in 1..n
        BY <1>1, <1>5
      <4> HIDE DEF J
      <4> QED BY <4>1, <4>2, <4>3, Zenon
    <3> HIDE DEF J
    <3>7. Retain(F, 1..m) = SubSeq(F, 1, m)
      BY <1>4, <1>5, RetainPrefix
    <3> QED BY <3>4, <3>6, <3>7
  <2> QED BY <2>1, <2>2
<1>8. PromoteTable(t, from) =
        [txn |-> PromoteTxn(t.txn, from), fileIo |-> t.fileIo,
         rebuildLevel |-> Reparented(t.rebuildLevel, from), rebuilds |-> SubSeq(F, 1, m)]
  <2> HIDE DEF N, J
  <2> QED BY <1>6, <1>7, Zenon
<1> QED BY <1>4, <1>5, <1>8 DEF F, m

\* RELEASE SAVEPOINT keeps the table well formed, its contents, and what every
\* enclosing savepoint would restore.
LEMMA PromoteSaved ==
  ASSUME NEW t, NEW from \in Nat, from >= 2, TableWellFormed(t, from)
  PROVE  /\ TableWellFormed(PromoteTable(t, from), from - 1)
         /\ ContentOf(PromoteTable(t, from)) = ContentOf(t)
         /\ \A to \in 2..(from - 1) :
              ContentOf(RollbackTable(PromoteTable(t, from), to)) = ContentOf(RollbackTable(t, to))
<1> DEFINE r == t.rebuilds
           n == Len(t.rebuilds)
           F == PromotedRebuilds(t, from)
           m == Survivors(t, from)
           R == SubSeq(F, 1, m)
           x == PromoteTxn(t.txn, from)
           o == Reparented(t.rebuildLevel, from)
           io == t.fileIo
           u == PromoteTable(t, from)
<1>1. /\ r \in Seq(RebuildFrame) /\ n \in Nat /\ t.rebuildLevel \in Nat /\ io \in BOOLEAN
      /\ \A i \in 1..n : r[i] \in RebuildFrame /\ r[i].previous \in Nat
  BY TableParts
<1>2. /\ WellFormed(t.txn, from)
      /\ \A i \in 1..n : r[i].level \in 2..from /\ WellFormed(r[i].txn, r[i].level)
      /\ \A i, j \in 1..n : i < j => r[i].level < r[j].level
  BY DEF TableWellFormed
<1>3. /\ r = <<>> => t.rebuildLevel \in {NoLevel, 1}
      /\ r # <<>> => t.rebuildLevel = r[n].level
      /\ n >= 1 => r[1].previous \in {NoLevel, 1}
      /\ \A i \in 2..n : r[i].previous = r[i-1].level
  BY OwnerParts
<1>4. /\ m \in 0..n /\ F \in Seq(RebuildFrame) /\ Len(F) = n
      /\ u = [txn |-> x, fileIo |-> io, rebuildLevel |-> o, rebuilds |-> R]
  BY PromoteTableIs
<1>5. ASSUME NEW i \in 1..n
      PROVE  /\ F[i].level = Reparented(r[i].level, from)
             /\ F[i].txn = PromoteTxn(r[i].txn, from)
             /\ F[i].previous = Reparented(r[i].previous, from)
             /\ WellFormed(F[i].txn, F[i].level)
             /\ \A to \in 2..(from - 1) :
                  RollbackTxn(F[i].txn, to).log = RollbackTxn(r[i].txn, to).log
  <2>1. F[i] = PromotedFrame(r[i], from)
    BY Zenon DEF PromotedRebuilds
  <2>2. r[i] \in RebuildFrame /\ r[i].level \in 2..from /\ WellFormed(r[i].txn, r[i].level)
    BY <1>1, <1>2
  <2> HIDE DEF F, r
  <2>3. /\ PromotedFrame(r[i], from).level = Reparented(r[i].level, from)
        /\ PromotedFrame(r[i], from).txn = PromoteTxn(r[i].txn, from)
        /\ PromotedFrame(r[i], from).previous = Reparented(r[i].previous, from)
        /\ WellFormed(PromoteTxn(r[i].txn, from), Reparented(r[i].level, from))
        /\ \A to \in 2..(from - 1) :
             RollbackTxn(PromoteTxn(r[i].txn, from), to).log = RollbackTxn(r[i].txn, to).log
    BY <2>2, PromotedFrameParts
  <2> QED BY <2>1, <2>3, Zenon
<1>6. /\ WellFormed(x, from - 1) /\ x.log = t.txn.log
      /\ \A to \in 2..(from - 1) : RollbackTxn(x, to).log = RollbackTxn(t.txn, to).log
  BY <1>2, PromoteTxnRollback
<1>7. /\ from = 2 => m = 0
      /\ from # 2 /\ Meet(t, from) => m = n - 1
      /\ from # 2 /\ ~Meet(t, from) => m = n
  BY Zenon DEF Survivors
<1>8. Meet(t, from) <=> n >= 2 /\ r[n].level = from /\ r[n-1].level = from - 1
  BY Zenon DEF Meet
<1>9. o \in Nat /\ (o # NoLevel <=> t.rebuildLevel # NoLevel)
  BY <1>1 DEF Reparented, NoLevel
<1>10. x \in Txn
  BY <1>6 DEF WellFormed
<1> HIDE DEF F, m, x
<1>11. R \in Seq(RebuildFrame) /\ Len(R) = m /\ \A i \in 1..m : R[i] = F[i]
  BY <1>1, <1>4
<1> HIDE DEF R, o, io, u
<1>12. /\ u \in ManagedTableState /\ u.txn = x /\ u.rebuildLevel = o /\ u.rebuilds = R
  BY <1>1, <1>4, <1>9, <1>10, <1>11 DEF ManagedTableState
<1>13. ASSUME NEW i \in 1..m PROVE i \in 1..n /\ from > 2
  <2>1. m # 0
    BY <1>1, <1>4
  <2> QED BY <1>1, <1>4, <1>7, <2>1
<1>14. \A i \in 1..m : R[i].level \in 2..(from - 1) /\ WellFormed(R[i].txn, R[i].level)
  <2> TAKE i \in 1..m
  <2>1. i \in 1..n /\ from > 2
    BY <1>13
  <2>2. /\ R[i].level = Reparented(r[i].level, from) /\ r[i].level \in 2..from
        /\ WellFormed(R[i].txn, R[i].level)
    BY <1>2, <1>5, <1>11, <2>1
  <2> QED BY <2>1, <2>2 DEF Reparented
<1>15. \A i, j \in 1..m : i < j => R[i].level < R[j].level
  <2> TAKE i, j \in 1..m
  <2> HAVE i < j
  <2>1. i \in 1..n /\ j \in 1..n /\ from > 2
    BY <1>13
  <2>2. /\ R[i].level = Reparented(r[i].level, from) /\ r[i].level \in 2..from
        /\ R[j].level = Reparented(r[j].level, from) /\ r[j].level \in 2..from
        /\ r[i].level < r[j].level
    BY <1>2, <1>5, <1>11, <2>1
  <2>3. CASE r[j].level # from
    BY <2>2, <2>3 DEF Reparented
  <2>4. CASE r[j].level = from
    <3>1. j = n
      <4>1. j # n => n \in 1..n /\ j < n
        BY <1>1, <2>1
      <4>2. j # n => r[j].level < r[n].level /\ r[n].level \in 2..from
        BY <1>2, <2>1, <4>1
      <4> QED BY <2>4, <4>2
    <3>2. m = n /\ ~Meet(t, from) /\ n >= 2
      BY <1>1, <1>4, <1>7, <2>1, <3>1
    <3>3. n - 1 \in 1..n /\ (i = n - 1 \/ i < n - 1) /\ n - 1 < n /\ n \in 1..n
      BY SMTT(60), <1>1, <2>1, <3>1, <3>2
    <3>4. /\ r[n-1].level \in 2..from /\ r[n-1].level < r[n].level
          /\ i < n - 1 => r[i].level < r[n-1].level
      BY SMTT(60), <1>2, <2>1, <3>3
    <3>5. r[n-1].level # from - 1
      BY <1>8, <2>4, <3>1, <3>2
    <3>6. r[i].level <= r[n-1].level
      BY <2>2, <3>3, <3>4
    <3>7. r[i].level < from - 1
      BY <2>2, <2>4, <3>1, <3>4, <3>5, <3>6
    <3> QED BY <2>2, <2>4, <3>7 DEF Reparented
  <2> QED BY <2>3, <2>4
<1>16. OwnerInv(u)
  <2>1. m = 0 => o \in {NoLevel, 1}
    <3> HAVE m = 0
    <3>1. CASE r = <<>>
      <4>1. t.rebuildLevel \in {NoLevel, 1}
        BY <1>3, <3>1
      <4> QED BY <4>1 DEF o, Reparented, NoLevel
    <3>2. CASE r # <<>>
      <4>1. n >= 1 /\ n \in 1..n
        BY <1>1, <3>2
      <4>2. from = 2
        BY <1>1, <1>7, <1>8, <4>1
      <4>3. t.rebuildLevel \in 2..from
        BY <1>2, <1>3, <3>2, <4>1
      <4> QED BY <4>2, <4>3 DEF o, Reparented, NoLevel
    <3> QED BY <3>1, <3>2
  <2>2. m # 0 => o = R[m].level
    <3> HAVE m # 0
    <3>1. m \in 1..m /\ m \in 1..n /\ n \in 1..n /\ from > 2 /\ r # <<>>
      <4>1. m \in 1..m
        BY <1>1, <1>4
      <4>2. m \in 1..n /\ from > 2
        BY <1>13, <4>1
      <4>3. n \in 1..n
        BY <1>1, <4>2
      <4> QED BY <1>1, <4>1, <4>2, <4>3
    <3>2. /\ R[m].level = Reparented(r[m].level, from) /\ r[m].level \in 2..from
          /\ t.rebuildLevel = r[n].level /\ r[n].level \in 2..from
      <4>1. R[m] = F[m]
        BY <1>11, <3>1
      <4>2. F[m].level = Reparented(r[m].level, from)
        BY <1>5, <3>1
      <4>3. r[m].level \in 2..from /\ r[n].level \in 2..from
        BY <1>2, <3>1
      <4>4. t.rebuildLevel = r[n].level
        BY <1>3, <3>1
      <4> QED BY <4>1, <4>2, <4>3, <4>4
    <3>3. CASE Meet(t, from)
      <4>1. m = n - 1 /\ r[n].level = from /\ r[m].level = from - 1
        BY <1>7, <1>8, <3>1, <3>3
      <4> QED BY <3>2, <4>1 DEF o, Reparented
    <3>4. CASE ~Meet(t, from)
      <4>1. m = n
        BY <1>7, <3>1, <3>4
      <4> QED BY <3>2, <4>1 DEF o
    <3> QED BY <3>3, <3>4
  <2>3. m >= 1 => R[1].previous \in {NoLevel, 1}
    <3> HAVE m >= 1
    <3>1. 1 \in 1..m /\ 1 \in 1..n /\ n >= 1
      BY <1>1, <1>4
    <3>2. R[1].previous = Reparented(r[1].previous, from) /\ r[1].previous \in {NoLevel, 1}
      BY <1>3, <1>5, <1>11, <3>1
    <3> QED BY <3>2 DEF Reparented, NoLevel
  <2>4. \A i \in 2..m : R[i].previous = R[i-1].level
    <3> TAKE i \in 2..m
    <3>1. i \in 1..m /\ i - 1 \in 1..m /\ i \in 2..n /\ i \in 1..n /\ i - 1 \in 1..n
      BY <1>1, <1>4
    <3>2. R[i].previous = Reparented(r[i].previous, from)
          /\ R[i-1].level = Reparented(r[i-1].level, from)
      BY <1>5, <1>11, <3>1
    <3>3. r[i].previous = r[i-1].level
      BY <1>3, <3>1
    <3> QED BY <3>2, <3>3
  <2>5. m \in Nat
    BY <1>1, <1>4
  <2> QED BY <1>11, <1>12, <2>1, <2>2, <2>3, <2>4, <2>5, OwnerFromParts
<1>17. TableWellFormed(u, from - 1)
  BY <1>6, <1>11, <1>12, <1>14, <1>15, <1>16 DEF TableWellFormed
<1>18. ContentOf(u) = ContentOf(t)
  BY <1>6, <1>9, <1>12, Zenon DEF ContentOf, WasRebuilt
<1>19. ASSUME NEW to \in 2..(from - 1)
       PROVE  ContentOf(RollbackTable(u, to)) = ContentOf(RollbackTable(t, to))
  <2>0. to \in Nat /\ to >= 1 /\ to < from /\ from > 2 /\ from - 1 \in Nat
    OBVIOUS
  <2>1. PICK k : IsCut(r, to, k)
    BY <2>0, RebuildCut
  <2>2. k \in 0..n /\ (k = 0 \/ r[k].level < to) /\ \A j \in 1..n : j > k => r[j].level >= to
    BY <2>1 DEF IsCut
  <2>3. k <= m /\ (k = m <=> k = n)
    <3>1. CASE Meet(t, from)
      <4>1. m = n - 1 /\ n - 1 \in 1..n /\ n \in 1..n
            /\ r[n-1].level = from - 1 /\ r[n].level = from
        BY <1>1, <1>7, <1>8, <2>0, <3>1
      <4>2. k # n /\ k # n - 1
        BY SMTT(60), <2>0, <2>2, <4>1
      <4> QED BY <1>1, <2>2, <4>1, <4>2
    <3>2. CASE ~Meet(t, from)
      BY <1>1, <1>7, <2>0, <2>2, <3>2
    <3> QED BY <3>1, <3>2
  <2>4. IsCut(R, to, k)
    <3>1. k \in 0..m
      BY <1>1, <1>4, <2>2, <2>3
    <3>2. ASSUME NEW i \in 1..m PROVE (R[i].level < to <=> r[i].level < to) /\ (R[i].level >= to <=> r[i].level >= to)
      <4>1. R[i].level = Reparented(r[i].level, from) /\ r[i].level \in 2..from
        BY <1>2, <1>5, <1>11, <1>13
      <4> QED BY <2>0, <4>1 DEF Reparented
    <3>3. k = 0 \/ R[k].level < to
      <4>1. k # 0 => k \in 1..m
        BY <1>1, <1>4, <3>1
      <4> QED BY <2>2, <3>2, <4>1
    <3>4. \A j \in 1..m : j > k => R[j].level >= to
      BY <1>13, <2>2, <3>2
    <3> QED BY <1>11, <3>1, <3>3, <3>4 DEF IsCut
  <2>5. CASE k = n
    <3>1. ContentOf(RollbackTable(t, to)) =
            [log |-> RollbackTxn(t.txn, to).log, rebuilt |-> t.rebuildLevel # NoLevel]
      BY <2>0, <2>1, <2>5, SavedInCurrent
    <3>2. ContentOf(RollbackTable(u, to)) =
            [log |-> RollbackTxn(u.txn, to).log, rebuilt |-> u.rebuildLevel # NoLevel]
      <4>1. IsCut(u.rebuilds, to, Len(u.rebuilds))
        BY <1>11, <1>12, <2>3, <2>4, <2>5
      <4> QED BY <1>17, <2>0, <4>1, SavedInCurrent
    <3>3. RollbackTxn(u.txn, to).log = RollbackTxn(t.txn, to).log
      BY <1>6, <1>12
    <3> QED BY <1>9, <1>12, <3>1, <3>2, <3>3, Zenon
  <2>6. CASE k # n
    <3>1. ContentOf(RollbackTable(t, to)) =
            [log |-> RollbackTxn(r[k+1].txn, to).log, rebuilt |-> r[k+1].previous # NoLevel]
      BY <2>0, <2>1, <2>6, SavedInFrame
    <3>2. ContentOf(RollbackTable(u, to)) =
            [log |-> RollbackTxn(u.rebuilds[k+1].txn, to).log,
             rebuilt |-> u.rebuilds[k+1].previous # NoLevel]
      <4>1. IsCut(u.rebuilds, to, k) /\ k # Len(u.rebuilds)
        BY <1>11, <1>12, <2>3, <2>4, <2>6
      <4> QED BY <1>17, <2>0, <4>1, SavedInFrame
    <3>3. k + 1 \in 1..m /\ k + 1 \in 1..n
      BY <1>1, <1>4, <2>2, <2>3, <2>6
    <3>4. /\ RollbackTxn(u.rebuilds[k+1].txn, to).log = RollbackTxn(r[k+1].txn, to).log
          /\ u.rebuilds[k+1].previous = Reparented(r[k+1].previous, from)
      BY <1>5, <1>11, <1>12, <3>3
    <3>5. u.rebuilds[k+1].previous # NoLevel <=> r[k+1].previous # NoLevel
      <4>1. r[k+1].previous \in Nat
        BY <1>1, <3>3
      <4> QED BY <3>4, <4>1 DEF Reparented, NoLevel
    <3> QED BY <3>1, <3>2, <3>4, <3>5, ZenonT(60)
  <2> QED BY <2>5, <2>6
<1> QED BY <1>17, <1>18, <1>19 DEF u

\* A table of a level is one of every deeper level.
LEMMA TableDeeper ==
  ASSUME NEW t, NEW top \in Nat, NEW deeper \in Nat, top <= deeper, TableWellFormed(t, top)
  PROVE  TableWellFormed(t, deeper)
<1>1. WellFormed(t.txn, deeper)
  <2>1. WellFormed(t.txn, top)
    BY DEF TableWellFormed
  <2> QED BY <2>1, WellFormedDeeper
<1>2. ASSUME NEW i \in 1..Len(t.rebuilds) PROVE t.rebuilds[i].level \in 2..deeper
  <2>1. t.rebuilds[i].level \in 2..top
    BY DEF TableWellFormed
  <2> QED BY <2>1
<1> QED BY <1>1, <1>2 DEF TableWellFormed

\* SAVEPOINT: aborting a level nothing was staged at restores the contents
\* there are.
LEMMA OpenSaved ==
  ASSUME NEW t, NEW top \in Nat, TableWellFormed(t, top), NEW level \in Nat, level > top
  PROVE  ContentOf(RollbackTable(t, level)) = ContentOf(t)
<1>1. /\ WellFormed(t.txn, top)
      /\ \A i \in 1..Len(t.rebuilds) : t.rebuilds[i].level \in 2..top
  BY DEF TableWellFormed
<1>2. Len(t.rebuilds) \in Nat
  BY TableParts
<1>3. IsCut(t.rebuilds, level, Len(t.rebuilds))
  BY <1>1, <1>2 DEF IsCut
<1>4. RollbackTxn(t.txn, level) = t.txn
  BY <1>1, RollbackNothing
<1>5. level >= 1
  OBVIOUS
<1>6. ContentOf(RollbackTable(t, level)) =
        [log |-> RollbackTxn(t.txn, level).log, rebuilt |-> t.rebuildLevel # NoLevel]
  BY <1>3, <1>5, SavedInCurrent
<1> QED BY <1>4, <1>6, Zenon DEF ContentOf, WasRebuilt

\* ROLLBACK TO SAVEPOINT keeps the table well formed, and what every enclosing
\* savepoint would restore.
LEMMA RollbackSaved ==
  ASSUME NEW t, NEW level \in Nat, level >= 2, TableWellFormed(t, level)
  PROVE  /\ TableWellFormed(RollbackTable(t, level), level - 1)
         /\ \A to \in 2..(level - 1) :
              ContentOf(RollbackTable(RollbackTable(t, level), to)) = ContentOf(RollbackTable(t, to))
<1> DEFINE r == t.rebuilds
           n == Len(t.rebuilds)
           u == RollbackTable(t, level)
<1>1. /\ r \in Seq(RebuildFrame) /\ n \in Nat /\ t.rebuildLevel \in Nat
      /\ \A i \in 1..n : r[i] \in RebuildFrame /\ r[i].previous \in Nat
  BY TableParts
<1>2. /\ WellFormed(t.txn, level)
      /\ \A i \in 1..n : r[i].level \in 2..level /\ WellFormed(r[i].txn, r[i].level)
      /\ \A i, j \in 1..n : i < j => r[i].level < r[j].level
  BY DEF TableWellFormed
<1>3. /\ r = <<>> => t.rebuildLevel \in {NoLevel, 1}
      /\ r # <<>> => t.rebuildLevel = r[n].level
      /\ n >= 1 => r[1].previous \in {NoLevel, 1}
      /\ \A i \in 2..n : r[i].previous = r[i-1].level
  BY OwnerParts
<1>4. PICK k : IsCut(r, level, k)
  BY RebuildCut
<1>5. k \in 0..n /\ (k = 0 \/ r[k].level < level) /\ \A j \in 1..n : j > k => r[j].level >= level
  BY <1>4 DEF IsCut
<1> DEFINE src == IF k = n THEN t.txn ELSE r[k+1].txn
           own == IF k = n THEN t.rebuildLevel ELSE r[k+1].previous
<1>6. u = UndoneTable(t, level, k)
  BY <1>4, RollbackTableIs
<1>7. /\ u \in ManagedTableState /\ u.rebuilds = SubSeq(r, 1, k)
      /\ Len(u.rebuilds) = k /\ \A i \in 1..k : u.rebuilds[i] = r[i]
  BY <1>5, <1>6, UndoneTableTyped
<1>8. u.txn = RollbackTxn(src, level) /\ u.rebuildLevel = own
  <2> DEFINE x == RollbackTxn(src, level)
             io == IF k = n THEN t.fileIo ELSE r[k+1].fileIo
             s == IF k = n THEN r ELSE SubSeq(r, 1, k)
  <2>1. UndoneTable(t, level, k) = [txn |-> x, fileIo |-> io, rebuildLevel |-> own, rebuilds |-> s]
    BY Zenon DEF UndoneTable
  <2>2. u = [txn |-> x, fileIo |-> io, rebuildLevel |-> own, rebuilds |-> s]
    BY <1>6, <2>1
  <2> HIDE DEF x, io, s, own, u
  <2>3. u.txn = x /\ u.rebuildLevel = own
    BY <2>2
  <2> QED BY <2>3 DEF x
<1> HIDE DEF u
<1>9. WellFormed(src, level)
  <2>1. CASE k = n
    BY <1>2, <2>1
  <2>2. CASE k # n
    <3>1. k + 1 \in 1..n
      BY <1>1, <1>5, <2>2
    <3>2. r[k+1].level \in 2..level /\ WellFormed(r[k+1].txn, r[k+1].level)
      BY <1>2, <3>1
    <3>3. WellFormed(r[k+1].txn, level)
      BY <3>2, WellFormedDeeper
    <3> QED BY <2>2, <3>3
  <2> QED BY <2>1, <2>2
<1>10. WellFormed(u.txn, level - 1)
  <2> HIDE DEF src
  <2> QED BY <1>8, <1>9, RollbackWellFormed
<1>11. \A i \in 1..k : u.rebuilds[i].level \in 2..(level - 1) /\ WellFormed(u.rebuilds[i].txn, u.rebuilds[i].level)
  <2> TAKE i \in 1..k
  <2>1. i \in 1..n /\ k \in 1..n /\ (i = k \/ i < k)
    BY <1>1, <1>5
  <2>2. /\ r[i].level \in 2..level /\ WellFormed(r[i].txn, r[i].level)
        /\ r[k].level \in 2..level /\ r[k].level < level
        /\ i < k => r[i].level < r[k].level
    BY <1>2, <1>5, <2>1
  <2>3. r[i].level \in 2..(level - 1)
    BY <2>1, <2>2
  <2> QED BY Zenon, <1>7, <2>2, <2>3
<1>12. \A i, j \in 1..k : i < j => u.rebuilds[i].level < u.rebuilds[j].level
  <2> TAKE i, j \in 1..k
  <2> HAVE i < j
  <2>1. i \in 1..n /\ j \in 1..n
    BY <1>1, <1>5
  <2> QED BY Zenon, <1>2, <1>7, <2>1
<1>13. OwnerInv(u)
  <2>1. k = 0 => own \in {NoLevel, 1}
    <3> HAVE k = 0
    <3>1. CASE k = n
      <4>1. r = <<>>
        BY <1>1, <3>1
      <4> QED BY <1>3, <3>1, <4>1
    <3>2. CASE k # n
      <4>1. n >= 1 /\ k + 1 = 1
        BY <1>1, <3>2
      <4> QED BY <1>3, <3>2, <4>1
    <3> QED BY <3>1, <3>2
  <2>2. k # 0 => own = u.rebuilds[k].level
    <3> HAVE k # 0
    <3>0. k \in 1..k /\ u.rebuilds[k] = r[k]
      BY SMTT(60), <1>1, <1>5, <1>7
    <3>1. CASE k = n
      <4>1. r # <<>>
        BY <1>1, <3>1
      <4> QED BY SMTT(60), <1>3, <3>0, <3>1, <4>1
    <3>2. CASE k # n
      <4>1. k + 1 \in 2..n /\ (k + 1) - 1 = k
        BY <1>1, <1>5, <3>2
      <4>2. r[k+1].previous = r[(k+1)-1].level
        BY SMTT(60), <1>3, <4>1
      <4> QED BY SMTT(60), <3>0, <3>2, <4>1, <4>2
    <3> QED BY <3>1, <3>2
  <2>3. k >= 1 => u.rebuilds[1].previous \in {NoLevel, 1}
    <3> HAVE k >= 1
    <3>1. 1 \in 1..k /\ n >= 1
      BY SMTT(60), <1>1, <1>5
    <3> QED BY ZenonT(60), <1>3, <1>7, <3>1
  <2>4. \A i \in 2..k : u.rebuilds[i].previous = u.rebuilds[i-1].level
    <3> TAKE i \in 2..k
    <3>1. i \in 1..k /\ i - 1 \in 1..k /\ i \in 2..n
      BY <1>1, <1>5
    <3> QED BY ZenonT(60), <1>3, <1>7, <3>1
  <2>5. k \in Nat
    BY SMTT(60), <1>5
  <2> HIDE DEF own
  <2> QED BY ZenonT(60), <1>7, <1>8, <2>1, <2>2, <2>3, <2>4, <2>5, OwnerFromParts
<1>14. TableWellFormed(u, level - 1)
  BY ZenonT(60), <1>7, <1>10, <1>11, <1>12, <1>13 DEF TableWellFormed
<1>15. ASSUME NEW to \in 2..(level - 1)
       PROVE  ContentOf(RollbackTable(u, to)) = ContentOf(RollbackTable(t, to))
  <2>0. to \in Nat /\ to >= 1 /\ to <= level /\ level - 1 \in Nat
    OBVIOUS
  <2>1. PICK q : IsCut(r, to, q)
    BY SMTT(60), <2>0, RebuildCut
  <2>2. q \in 0..n /\ (q = 0 \/ r[q].level < to) /\ \A j \in 1..n : j > q => r[j].level >= to
    BY <2>1 DEF IsCut
  <2>3. q <= k
    <3>1. q > k => q \in 1..n /\ q # 0
      BY SMTT(60), <1>1, <1>5, <2>2
    <3>2. q > k => r[q].level >= level /\ r[q].level < to /\ r[q].level \in 2..level
      BY SMTT(60), <1>2, <1>5, <2>2, <3>1
    <3> QED BY SMTT(60), <1>5, <2>0, <2>2, <3>2
  <2>4. IsCut(u.rebuilds, to, q)
    <3>1. q \in 0..k
      BY <1>5, <2>2, <2>3
    <3>2. q = 0 \/ u.rebuilds[q].level < to
      <4>1. q # 0 => q \in 1..k
        BY <1>5, <3>1
      <4> QED BY ZenonT(60), <1>7, <2>2, <4>1
    <3>3. \A j \in 1..k : j > q => u.rebuilds[j].level >= to
      <4> TAKE j \in 1..k
      <4>1. j \in 1..n
        BY SMTT(60), <1>1, <1>5
      <4> QED BY ZenonT(60), <1>7, <2>2, <4>1
    <3> QED BY ZenonT(60), <1>7, <3>1, <3>2, <3>3 DEF IsCut
  <2>5. CASE q = k
    <3>1. ContentOf(RollbackTable(u, to)) =
            [log |-> RollbackTxn(u.txn, to).log, rebuilt |-> u.rebuildLevel # NoLevel]
      <4>1. IsCut(u.rebuilds, to, Len(u.rebuilds))
        BY ZenonT(60), <1>7, <2>4, <2>5
      <4> QED BY SMTT(60), <1>14, <2>0, <4>1, SavedInCurrent
    <3>2. RollbackTxn(u.txn, to).log = RollbackTxn(src, to).log
      <4>1. RollbackTxn(RollbackTxn(src, level), to).log = RollbackTxn(src, to).log
        <5> HIDE DEF src
        <5> QED BY SMTT(60), <1>9, <2>0, RollbackTwice
      <4> QED BY <1>8, <4>1
    <3>3. ContentOf(RollbackTable(t, to)) =
            [log |-> RollbackTxn(src, to).log, rebuilt |-> own # NoLevel]
      <4>1. CASE k = n
        <5>1. ContentOf(RollbackTable(t, to)) =
                [log |-> RollbackTxn(t.txn, to).log, rebuilt |-> t.rebuildLevel # NoLevel]
          BY SMTT(60), <2>0, <2>1, <2>5, <4>1, SavedInCurrent
        <5> QED BY <4>1, <5>1, ZenonT(60)
      <4>2. CASE k # n
        <5>1. ContentOf(RollbackTable(t, to)) =
                [log |-> RollbackTxn(r[q+1].txn, to).log, rebuilt |-> r[q+1].previous # NoLevel]
          BY SMTT(60), <2>0, <2>1, <2>5, <4>2, SavedInFrame
        <5> QED BY <2>5, <4>2, <5>1, ZenonT(60)
      <4> QED BY <4>1, <4>2
    <3> QED BY <1>8, <3>1, <3>2, <3>3, ZenonT(60)
  <2>6. CASE q # k
    <3>1. ContentOf(RollbackTable(u, to)) =
            [log |-> RollbackTxn(u.rebuilds[q+1].txn, to).log,
             rebuilt |-> u.rebuilds[q+1].previous # NoLevel]
      <4>1. q # Len(u.rebuilds)
        BY ZenonT(60), <1>7, <2>6
      <4> QED BY SMTT(60), <1>14, <2>0, <2>4, <4>1, SavedInFrame
    <3>2. ContentOf(RollbackTable(t, to)) =
            [log |-> RollbackTxn(r[q+1].txn, to).log, rebuilt |-> r[q+1].previous # NoLevel]
      <4>1. q # n
        BY SMTT(60), <1>5, <2>2, <2>3, <2>6
      <4> QED BY <2>0, <2>1, <4>1, SavedInFrame
    <3>3. u.rebuilds[q+1] = r[q+1]
      <4>1. q + 1 \in 1..k
        BY <1>5, <2>2, <2>3, <2>6
      <4> QED BY ZenonT(60), <1>7, <4>1
    <3> QED BY <3>1, <3>2, <3>3, ZenonT(60)
  <2> QED BY <2>5, <2>6
<1> QED BY <1>14, <1>15 DEF u
=============================================================================
