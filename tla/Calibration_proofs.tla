-------------------------- MODULE Calibration_proofs --------------------------
(***************************************************************************)
(* Proofs about the calibration of an expert, for every window, number of  *)
(* samples and band, and any number of signals and updates.                *)
(***************************************************************************)
EXTENDS MCCalibration, SequenceTheorems, FiniteSetTheorems, TLAPS

\* What the proofs use of the parameters.
LEMMA Parameters ==
  /\ Window \in Nat /\ Window >= 1 /\ MinSamples \in Nat
  /\ PromoteAt \in Nat /\ PromoteAt <= 1000
  /\ DemoteAt \in Nat /\ DemoteAt <= 1000
BY CalibrationAssumption DEF CalibrationAssumption

Signals == Seq({"open"} \cup Flags)

-----------------------------------------------------------------------------
(* The score.                                                              *)

LEMMA Places ==
  ASSUME NEW s \in Signals
  PROVE  /\ IsFiniteSet(Committed(s)) /\ Cardinality(Committed(s)) \in Nat
         /\ Committed(s) \subseteq 1 .. Len(s)
         /\ IsFiniteSet(Recent(s)) /\ Recent(s) \subseteq Committed(s)
         /\ Samples(s) \in Nat /\ Agreed(s) \in 0 .. Samples(s)
<1>1. Len(s) \in Nat /\ DOMAIN s = 1 .. Len(s)
  BY LenProperties DEF Signals
<1>2. IsFiniteSet(1 .. Len(s))
  BY <1>1, FS_Interval
<1>3. Committed(s) \subseteq 1 .. Len(s) /\ Recent(s) \subseteq Committed(s)
  BY <1>1 DEF Committed, Recent
<1>4. IsFiniteSet(Committed(s)) /\ IsFiniteSet(Recent(s))
  BY <1>2, <1>3, FS_Subset
<1> DEFINE A == {i \in Recent(s) : s[i] = "agree"}
<1>5. A \subseteq Recent(s)
  OBVIOUS
<1>6. IsFiniteSet(A) /\ Cardinality(A) <= Cardinality(Recent(s))
  BY <1>4, <1>5, FS_Subset
<1>7. Cardinality(A) \in Nat /\ Cardinality(Recent(s)) \in Nat /\ Cardinality(Committed(s)) \in Nat
  BY <1>4, <1>6, FS_CardinalityType
<1>8. Agreed(s) = Cardinality(A) /\ Samples(s) = Cardinality(Recent(s))
  BY DEF Agreed, Samples
<1> HIDE DEF A
<1> QED
  BY <1>3, <1>4, <1>6, <1>7, <1>8

LEMMA Fraction ==
  ASSUME NEW n \in Nat \ {0}, NEW a \in 0 .. n
  PROVE  (a * 1000) \div n \in 0 .. 1000
<1> DEFINE q == (a * 1000) \div n
<1>1. q \in Int /\ n * q <= a * 1000 /\ a * 1000 < n * q + n
  BY SMT
<1> HIDE DEF q
<1>2. q >= 0
  BY <1>1, SMTT(30)
<1>3. q <= 1000
  BY <1>1, SMTT(30)
<1> QED
  BY <1>1, <1>2, <1>3 DEF q

LEMMA RateType == ASSUME NEW s \in Signals PROVE Rate(s) \in Rates
<1>1. Samples(s) \in Nat /\ Agreed(s) \in 0 .. Samples(s)
  BY Places
<1>2. CASE Samples(s) = 0
  BY <1>2 DEF Rate, Rates
<1>3. CASE Samples(s) # 0
  <2>1. Samples(s) \in Nat \ {0}
    BY <1>1, <1>3
  <2> DEFINE n == Samples(s)
             a == Agreed(s)
  <2>2. n \in Nat \ {0} /\ a \in 0 .. n
    BY <1>1, <2>1
  <2> HIDE DEF n, a
  <2>3. (a * 1000) \div n \in 0 .. 1000
    BY <2>2, Fraction
  <2>4. (Agreed(s) * 1000) \div Samples(s) \in 0 .. 1000
    BY <2>3 DEF n, a
  <2> QED
    BY <1>3, <2>4 DEF Rate, Rates
<1> QED
  BY <1>2, <1>3

\* A move is one step, and the signals clear the edge of the band that it passes.
LEMMA TargetIsStep ==
  ASSUME NEW t \in Tiers, NEW s
  PROVE  /\ Target(t, s) \in Tiers
         /\ \/ Target(t, s) = t
            \/ Target(t, s) = t + 1 /\ Promotes(s)
            \/ Target(t, s) = t - 1 /\ Demotes(s)
BY DEF Target, Step, Tiers

\* A signal that is not committed does not count.
LEMMA OpenSignal ==
  ASSUME NEW s \in Signals
  PROVE  LET t == Append(s, "open")
         IN /\ t \in Signals
            /\ Committed(t) = Committed(s) /\ Samples(t) = Samples(s) /\ Agreed(t) = Agreed(s)
<1> DEFINE t == Append(s, "open")
<1>1. /\ t \in Signals /\ Len(t) = Len(s) + 1 /\ Len(s) \in Nat
      /\ t[Len(s) + 1] = "open" /\ \A i \in 1 .. Len(s) : t[i] = s[i]
      /\ DOMAIN s = 1 .. Len(s) /\ DOMAIN t = 1 .. Len(s) + 1
  BY AppendProperties, LenProperties DEF Signals
<1> HIDE DEF t
<1>2. Committed(t) = Committed(s)
  BY <1>1 DEF Committed
<1>3. Recent(t) = Recent(s)
  BY <1>2 DEF Recent
<1>4. \A i \in Recent(s) : t[i] = s[i]
  BY <1>1 DEF Recent, Committed
<1>5. {i \in Recent(t) : t[i] = "agree"} = {i \in Recent(s) : s[i] = "agree"}
  BY <1>3, <1>4
<1> QED
  BY <1>1, <1>2, <1>3, <1>5 DEF Samples, Agreed, t

\* The places of the newer signals among C.
Newer(C, i) == {j \in C : j > i}

\* No two places have equally many newer ones.
LEMMA NewerOrder ==
  ASSUME NEW C, C \subseteq Nat, IsFiniteSet(C), NEW i \in C, NEW j \in C,
         Cardinality(Newer(C, i)) = Cardinality(Newer(C, j))
  PROVE  i = j
<1>1. ASSUME NEW k \in C, NEW l \in C, k < l
      PROVE  Cardinality(Newer(C, l)) # Cardinality(Newer(C, k))
  <2>1. Newer(C, l) \subseteq Newer(C, k) /\ l \in Newer(C, k) /\ l \notin Newer(C, l)
    <3>1. k \in Nat /\ l \in Nat /\ \A x \in C : x \in Nat
      OBVIOUS
    <3>2. \A x : x \in Newer(C, l) => x \in C /\ x > l
      BY DEF Newer
    <3>3. \A x \in C : x > k => x \in Newer(C, k)
      BY DEF Newer
    <3>4. l \in Newer(C, k) /\ l \notin Newer(C, l)
      BY <1>1, <3>1, <3>2, <3>3
    <3>5. ASSUME NEW x \in Newer(C, l) PROVE x \in Newer(C, k)
      <4>1. x \in C /\ x > l /\ x \in Nat
        BY <3>1, <3>2
      <4> QED
        BY <1>1, <3>1, <3>3, <4>1
    <3> QED
      BY <3>4, <3>5
  <2>2. IsFiniteSet(Newer(C, k))
    BY FS_Subset DEF Newer
  <2> QED
    BY <2>1, <2>2, FS_Subset
<1> QED
  BY <1>1

\* A set with one more element.
LEMMA OneIn ==
  ASSUME NEW S, IsFiniteSet(S), NEW x, x \notin S
  PROVE  /\ IsFiniteSet(S \cup {x}) /\ Cardinality(S) \in Nat
         /\ Cardinality(S \cup {x}) = Cardinality(S) + 1
<1>1. /\ IsFiniteSet(S \cup {x})
      /\ Cardinality(S \cup {x}) = IF x \in S THEN Cardinality(S) ELSE Cardinality(S) + 1
  BY FS_AddElement
<1>2. Cardinality(S) \in Nat
  BY FS_CardinalityType, Zenon
<1> QED
  BY <1>1, <1>2

\* A set with one element less.
LEMMA OneOut ==
  ASSUME NEW S, IsFiniteSet(S), NEW x, x \in S
  PROVE  /\ IsFiniteSet(S \ {x}) /\ Cardinality(S) \in Nat
         /\ Cardinality(S \ {x}) = Cardinality(S) - 1
<1>1. /\ IsFiniteSet(S \ {x})
      /\ Cardinality(S \ {x}) = IF x \in S THEN Cardinality(S) - 1 ELSE Cardinality(S)
  BY FS_RemoveElement
<1>2. Cardinality(S) \in Nat
  BY FS_CardinalityType
<1> QED
  BY <1>1, <1>2

\* The newest signal, at place m, is committed: s becomes t.
NewestCommits(s, t, m) ==
  /\ s \in Signals /\ t \in Signals /\ m \in Nat \ {0}
  /\ DOMAIN s = 1 .. m /\ DOMAIN t = 1 .. m
  /\ s[m] = "open" /\ t[m] # "open"
  /\ \A i \in 1 .. m : i # m => t[i] = s[i]

LEMMA CommitOfNewest ==
  ASSUME NEW s \in Signals, Len(s) # 0, s[Len(s)] = "open", NEW f \in Flags
  PROVE  NewestCommits(s, [s EXCEPT ![Len(s)] = f], Len(s))
<1> DEFINE m == Len(s)
           t == [s EXCEPT ![m] = f]
<1>1. m \in Nat \ {0} /\ DOMAIN s = 1 .. m
  BY LenProperties DEF Signals
<1>2. t \in Signals
  BY <1>1, ExceptSeq DEF Signals
<1>3. DOMAIN t = 1 .. m
  BY <1>1
<1>4. t[m] # "open" /\ \A i \in 1 .. m : i # m => t[i] = s[i]
  <2>1. t[m] = f
    BY <1>1
  <2>2. ASSUME NEW i \in 1 .. m, i # m PROVE t[i] = s[i]
    <3>1. i \in DOMAIN s
      BY <1>1
    <3> HIDE DEF m
    <3> QED
      BY <2>2, <3>1
  <2> HIDE DEF t, m
  <2> QED
    BY <2>1, <2>2 DEF Flags
<1>5. s[m] = "open" /\ s \in Signals
  OBVIOUS
<1> HIDE DEF t, m
<1>6. NewestCommits(s, t, m)
  BY <1>1, <1>2, <1>3, <1>4, <1>5 DEF NewestCommits
<1> QED
  BY <1>6 DEF t, m

\* The commit of the newest signal: it joins the window, and at most the oldest one there
\* leaves it.
LEMMA WindowMoves ==
  ASSUME NEW s, NEW t, NEW m, NewestCommits(s, t, m)
  PROVE  /\ m \notin Committed(s) /\ Committed(t) = Committed(s) \cup {m}
         /\ \/ Recent(t) = Recent(s) \cup {m}
            \/ \E i \in Recent(s) : Recent(t) = (Recent(s) \ {i}) \cup {m}
<1> DEFINE C == Committed(s)
<1>1. m \in Nat /\ m \in 1 .. m
  BY DEF NewestCommits
<1>2. DOMAIN s = 1 .. m /\ DOMAIN t = 1 .. m /\ s \in Signals
  BY DEF NewestCommits
<1>3. s[m] = "open" /\ t[m] # "open" /\ \A i \in 1 .. m : i # m => t[i] = s[i]
  BY DEF NewestCommits
<1>4. m \notin C /\ Committed(t) = C \cup {m}
  <2>1. C = {i \in 1 .. m : s[i] # "open"} /\ Committed(t) = {i \in 1 .. m : t[i] # "open"}
    BY <1>1, <1>2 DEF Committed
  <2> HIDE DEF C
  <2>3. m \notin C
    BY <1>3, <2>1
  <2>4. m \in Committed(t)
    BY <1>1, <1>3, <2>1
  <2>5. ASSUME NEW i \in 1 .. m, i # m PROVE i \in Committed(t) <=> i \in C
    BY <1>3, <2>1, <2>5
  <2>6. Committed(t) \subseteq 1 .. m /\ C \subseteq 1 .. m
    BY <2>1
  <2> QED
    <3>1. m \in 1 .. m
      BY <1>1
    <3>2. Committed(t) \subseteq C \cup {m}
      BY <2>5, <2>6
    <3>3. C \subseteq Committed(t)
      <4> SUFFICES ASSUME NEW i \in C PROVE i \in Committed(t)
        OBVIOUS
      <4>1. i \in 1 .. m /\ i # m
        BY <2>3, <2>6
      <4> QED
        BY <2>5, <4>1
    <3> QED
      BY <2>3, <2>4, <3>2, <3>3
<1>5. IsFiniteSet(C) /\ C \subseteq 1 .. m
  <2>1. IsFiniteSet(C)
    BY <1>2, Places
  <2>2. C \subseteq 1 .. m
    BY <1>2 DEF Committed
  <2> QED
    BY <2>1, <2>2
<1>6. \A i \in C : i \in 1 .. m /\ i < m
  BY <1>1, <1>4, <1>5
<1> DEFINE n(i) == Cardinality(Newer(C, i))
<1>7. ASSUME NEW i \in C
      PROVE  n(i) \in Nat /\ Cardinality({j \in C \cup {m} : j > i}) = n(i) + 1
  <2>1. {j \in C \cup {m} : j > i} = Newer(C, i) \cup {m} /\ m \notin Newer(C, i)
    BY <1>4, <1>6 DEF Newer
  <2>2. IsFiniteSet(Newer(C, i))
    BY <1>5, FS_Subset DEF Newer
  <2> DEFINE N == Newer(C, i)
  <2>3. IsFiniteSet(N) /\ m \notin N
    BY <2>1, <2>2
  <2> HIDE DEF N, C, n
  <2>4. Cardinality(N \cup {m}) = Cardinality(N) + 1 /\ Cardinality(N) \in Nat
    BY <2>3, OneIn
  <2> QED
    BY <2>1, <2>4 DEF N, n
<1>8. Cardinality({j \in C \cup {m} : j > m}) = 0
  <2>1. {j \in C \cup {m} : j > m} = {}
    BY <1>1, <1>6
  <2> QED
    BY <2>1, FS_EmptySet
<1>9. Recent(s) = {i \in C : n(i) < Window}
  BY DEF Recent, Newer
<1>10. Recent(t) = {i \in C \cup {m} : Cardinality({j \in C \cup {m} : j > i}) < Window}
  BY <1>4 DEF Recent
<1>11. \A i \in C : i \in Recent(t) <=> n(i) + 1 < Window
  BY <1>7, <1>10
<1>12. m \in Recent(t) /\ Recent(t) \subseteq C \cup {m}
  BY <1>8, <1>10, Parameters
<1>13. \A i, j \in C : n(i) = n(j) => i = j
  BY <1>1, <1>5, NewerOrder
<1> HIDE DEF n, C
<1>14. \A i \in C : n(i) \in Nat
  BY <1>7
<1>15. CASE \E i \in C : n(i) = Window - 1
  <2> PICK i \in C : n(i) = Window - 1
    BY <1>15
  <2>1. i \in Recent(s)
    BY <1>9, Parameters
  <2>2. \A j \in C : j \in Recent(t) <=> j \in Recent(s) /\ j # i
    BY <1>9, <1>11, <1>13, <1>14, Parameters
  <2>3. Recent(t) = (Recent(s) \ {i}) \cup {m}
    BY <1>4, <1>9, <1>12, <2>2
  <2> QED
    BY <1>2, <1>4, <2>1, <2>3 DEF C
<1>16. CASE \A i \in C : n(i) # Window - 1
  <2>1. \A j \in C : j \in Recent(t) <=> j \in Recent(s)
    BY <1>9, <1>11, <1>14, <1>16, Parameters
  <2>2. Recent(t) = Recent(s) \cup {m}
    BY <1>4, <1>9, <1>12, <2>1
  <2> QED
    BY <1>2, <1>4, <2>2 DEF C
<1> QED
  BY <1>15, <1>16

\* One more signal counts: the samples grow by it or stay, and the rate of agreement moves
\* by one signal at most.
LEMMA OneMore ==
  ASSUME NEW s, NEW t, NEW m, NewestCommits(s, t, m)
  PROVE  /\ Cardinality(Committed(t)) = Cardinality(Committed(s)) + 1
         /\ \/ Samples(t) = Samples(s) + 1 /\ Agreed(t) \in {Agreed(s), Agreed(s) + 1}
            \/ Samples(t) = Samples(s) /\ Agreed(t) \in (Agreed(s) - 1) .. (Agreed(s) + 1)
<1> DEFINE R == Recent(s)
           A == {i \in R : s[i] = "agree"}
           B == {i \in Recent(t) : t[i] = "agree"}
<1>1. /\ m \notin Committed(s) /\ Committed(t) = Committed(s) \cup {m}
      /\ \/ Recent(t) = R \cup {m}
         \/ \E i \in R : Recent(t) = (R \ {i}) \cup {m}
  BY WindowMoves
<1>2. /\ IsFiniteSet(Committed(s)) /\ Cardinality(Committed(s)) \in Nat
      /\ IsFiniteSet(R) /\ R \subseteq Committed(s) /\ Cardinality(R) \in Nat
      /\ m \in Nat
  <2>1. s \in Signals /\ m \in Nat
    BY DEF NewestCommits
  <2>2. /\ IsFiniteSet(Committed(s)) /\ Cardinality(Committed(s)) \in Nat
        /\ IsFiniteSet(Recent(s)) /\ Recent(s) \subseteq Committed(s)
    BY <2>1, Places
  <2> HIDE DEF A, B
  <2>3. Cardinality(R) \in Nat
    BY <2>2, FS_CardinalityType
  <2> QED
    BY <2>1, <2>2, <2>3
<1>3. \A i \in R : t[i] = s[i]
  <2>1. \A i \in Committed(s) : i \in 1 .. m /\ i # m
    BY <1>1 DEF Committed, NewestCommits
  <2>2. \A i \in 1 .. m : i # m => t[i] = s[i]
    BY DEF NewestCommits
  <2> QED
    BY <1>2, <2>1, <2>2
<1>4. m \notin R /\ A \subseteq R /\ IsFiniteSet(A) /\ m \notin A /\ Cardinality(A) \in Nat
  <2>1. m \notin R /\ A \subseteq R
    BY <1>1, <1>2
  <2>2. IsFiniteSet(A)
    BY <1>2, <2>1, FS_Subset
  <2> QED
    BY <2>1, <2>2, FS_CardinalityType
<1>5. /\ Samples(s) = Cardinality(R) /\ Agreed(s) = Cardinality(A)
      /\ Samples(t) = Cardinality(Recent(t)) /\ Agreed(t) = Cardinality(B)
  BY DEF Samples, Agreed
<1>6. /\ B = {i \in Recent(t) : t[i] = "agree"}
      /\ A = {i \in R : s[i] = "agree"}
  OBVIOUS
<1> HIDE DEF R, A, B
<1>7. Cardinality(Committed(t)) = Cardinality(Committed(s)) + 1
  <2>1. Cardinality(Committed(s) \cup {m}) = Cardinality(Committed(s)) + 1
    BY <1>1, <1>2, OneIn
  <2> QED
    BY <1>1, <2>1
<1>8. CASE Recent(t) = R \cup {m}
  <2>1. Cardinality(Recent(t)) = Cardinality(R) + 1
    <3>1. Cardinality(R \cup {m}) = Cardinality(R) + 1
      BY <1>2, <1>4, OneIn
    <3> QED
      BY <1>8, <3>1
  <2>2. B = A \/ B = A \cup {m}
    BY <1>3, <1>8, <1>6
  <2>3. Cardinality(A \cup {m}) = Cardinality(A) + 1
    BY <1>4, OneIn
  <2>4. Cardinality(B) \in {Cardinality(A), Cardinality(A) + 1}
    BY <2>2, <2>3
  <2> QED
    BY <1>1, <1>7, <1>5, <2>1, <2>4
<1>9. ASSUME NEW i \in R, Recent(t) = (R \ {i}) \cup {m}
      PROVE  Samples(t) = Samples(s) /\ Agreed(t) \in (Agreed(s) - 1) .. (Agreed(s) + 1)
  <2>1. Cardinality(Recent(t)) = Cardinality(R)
    <3>1. IsFiniteSet(R \ {i}) /\ Cardinality(R \ {i}) = Cardinality(R) - 1
      BY <1>2, OneOut
    <3>2. Cardinality((R \ {i}) \cup {m}) = Cardinality(R \ {i}) + 1
      <4>1. m \notin R \ {i}
        BY <1>4
      <4> QED
        BY <3>1, <4>1, OneIn
    <3> QED
      BY <1>2, <1>9, <3>1, <3>2
  <2>2. B = A \ {i} \/ B = (A \ {i}) \cup {m}
    BY <1>3, <1>9, <1>6
  <2>3. /\ IsFiniteSet(A \ {i})
        /\ Cardinality(A \ {i}) \in {Cardinality(A) - 1, Cardinality(A)}
    <3>1. CASE i \in A
      BY <1>4, <3>1, OneOut
    <3>2. CASE i \notin A
      <4>1. A \ {i} = A
        BY <3>2
      <4>2. Cardinality(A \ {i}) = Cardinality(A)
        BY <4>1
      <4>3. IsFiniteSet(A \ {i})
        BY <1>4, <4>1
      <4> QED
        BY <4>2, <4>3
    <3> QED
      BY <3>1, <3>2
  <2>4. Cardinality((A \ {i}) \cup {m}) = Cardinality(A \ {i}) + 1
    <3>1. m \notin A \ {i}
      BY <1>4
    <3> QED
      BY <2>3, <3>1, OneIn
  <2>5. Cardinality(B) = Cardinality(A \ {i}) \/ Cardinality(B) = Cardinality(A \ {i}) + 1
    BY <2>2, <2>4
  <2>6. Cardinality(B) \in (Cardinality(A) - 1) .. (Cardinality(A) + 1)
    BY <1>4, <2>3, <2>5
  <2> QED
    BY <1>5, <2>1, <2>6
<1> QED
  BY <1>1, <1>7, <1>8, <1>9

-----------------------------------------------------------------------------
(* Types, whatever overlaps.                                               *)

\* An update refers to a signal that exists.
IInv ==
  /\ TypeOK
  /\ IsFiniteSet(updates)
  /\ \A x \in updates : x.slot <= Len(signals)

LEMMA InitIInv == Init => IInv
<1> SUFFICES ASSUME Init PROVE IInv
  OBVIOUS
<1>1. /\ tier \in Tiers /\ rate = NoRate /\ samples = 0
      /\ signals = <<>> /\ history = <<>> /\ updates = {}
  BY DEF Init
<1>2. signals \in Seq({"open"} \cup Flags) /\ history \in Seq(Change)
  BY <1>1, EmptySeq
<1>3. IsFiniteSet(updates)
  BY <1>1, FS_EmptySet
<1> QED
  BY <1>1, <1>2, <1>3 DEF IInv, TypeOK, Rates

LEMMA LoadedType == TypeOK => Loaded \in Columns
BY DEF TypeOK, Loaded, Columns

\* A transaction that begins, with or without a signal.
LEMMA BeginIInv ==
  ASSUME IInv, NEW slot \in Nat, NEW flag \in Flags, Begin(slot, flag),
         signals' \in Signals, Len(signals') \in Nat, Len(signals') >= Len(signals),
         slot <= Len(signals'), UNCHANGED <<tier, rate, samples, history>>
  PROVE  IInv'
<1> DEFINE n == [slot |-> slot, flag |-> flag, loaded |-> Loaded, new |-> Loaded, read |-> -1]
<1>1. updates' = updates \cup {n}
  BY DEF Begin
<1>2. TypeOK /\ IsFiniteSet(updates) /\ \A x \in updates : x.slot <= Len(signals)
  BY DEF IInv
<1>3. n \in UpdateTx /\ n.slot = slot
  BY <1>2, LoadedType DEF UpdateTx
<1> HIDE DEF n
<1>4. IsFiniteSet(updates')
  BY <1>1, <1>2, FS_AddElement
<1>5. TypeOK'
  BY <1>1, <1>2, <1>3 DEF TypeOK, Signals
<1>6. \A x \in updates' : x.slot <= Len(signals')
  <2>1. \A x \in updates : x.slot \in Nat
    BY <1>2 DEF TypeOK, UpdateTx
  <2>2. Len(signals) \in Nat
    BY <1>2, LenProperties DEF TypeOK
  <2> QED
    BY <1>1, <1>2, <1>3, <2>1, <2>2
<1> QED
  BY <1>4, <1>5, <1>6 DEF IInv

LEMMA BeginSignalIInv ==
  ASSUME IInv, NEW flag \in Flags, BeginSignal(flag)
  PROVE  IInv'
<1>1. signals \in Signals
  BY DEF IInv, TypeOK, Signals
<1>2. /\ signals' = Append(signals, "open") /\ Begin(Len(signals) + 1, flag)
      /\ UNCHANGED <<tier, rate, samples, history>>
  BY DEF BeginSignal
<1>3. signals' \in Signals
  BY <1>1, <1>2, OpenSignal
<1>4. Len(signals) \in Nat /\ Len(signals') = Len(signals) + 1
  BY <1>1, <1>2, AppendProperties, LenProperties DEF Signals
<1> QED
  BY <1>2, <1>3, <1>4, BeginIInv

LEMMA BeginTickIInv == ASSUME IInv, BeginTick PROVE IInv'
<1>1. signals \in Signals /\ Len(signals) \in Nat
  BY LenProperties DEF IInv, TypeOK, Signals
<1>2. Begin(NoSlot, "agree") /\ UNCHANGED <<tier, rate, samples, signals, history>>
  BY DEF BeginTick
<1> QED
  BY <1>1, <1>2, BeginIInv DEF NoSlot, Flags

\* What an update makes of the signals.
LEMMA WithSignalType ==
  ASSUME IInv, NEW x \in updates
  PROVE  WithSignal(x) \in Signals /\ Len(WithSignal(x)) = Len(signals)
<1>1. /\ signals \in Signals /\ x.slot \in Nat /\ x.flag \in Flags
      /\ x.slot <= Len(signals) /\ Len(signals) \in Nat
  BY LenProperties DEF IInv, TypeOK, Signals, UpdateTx
<1>2. CASE x.slot = NoSlot
  BY <1>1, <1>2 DEF WithSignal
<1>3. CASE x.slot # NoSlot
  <2>1. x.slot \in 1 .. Len(signals)
    BY <1>1, <1>3 DEF NoSlot
  <2> QED
    BY <1>1, <1>3, <2>1, ExceptSeq DEF WithSignal, Signals
<1> QED
  BY <1>2, <1>3

LEMMA UpdateIInv == ASSUME IInv, NEW x \in updates, Update(x) PROVE IInv'
<1> DEFINE seen == WithSignal(x)
           n == [x EXCEPT !.read = Cardinality(Committed(seen)),
                          !.new = [tier |-> Target(x.loaded.tier, seen), rate |-> Rate(seen),
                                   samples |-> Samples(seen)]]
<1>1. /\ updates' = (updates \ {x}) \cup {n}
      /\ UNCHANGED <<tier, rate, samples, signals, history>>
  BY DEF Update, Visible
<1>2. TypeOK /\ IsFiniteSet(updates) /\ \A y \in updates : y.slot <= Len(signals)
  BY DEF IInv
<1>3. x \in UpdateTx /\ x.loaded.tier \in Tiers
  BY <1>2 DEF TypeOK, UpdateTx, Columns
<1>4. Cardinality(Committed(seen)) \in Nat /\ Rate(seen) \in Rates /\ Samples(seen) \in Nat
  BY WithSignalType, Places, RateType
<1>5. Target(x.loaded.tier, seen) \in Tiers
  BY <1>3, TargetIsStep
<1>6. n \in UpdateTx /\ n.slot = x.slot
  BY <1>3, <1>4, <1>5 DEF UpdateTx, Columns
<1> HIDE DEF n, seen
<1>7. IsFiniteSet(updates')
  <2>1. IsFiniteSet(updates \ {x})
    BY <1>2, FS_RemoveElement
  <2>2. IsFiniteSet((updates \ {x}) \cup {n})
    BY <2>1, FS_AddElement
  <2> QED
    BY <1>1, <2>2
<1>8. TypeOK'
  BY <1>1, <1>2, <1>6 DEF TypeOK
<1>9. \A y \in updates' : y.slot <= Len(signals')
  BY <1>1, <1>2, <1>6
<1> QED
  BY <1>7, <1>8, <1>9 DEF IInv

LEMMA CommitIInv == ASSUME IInv, NEW x \in updates, Commit(x) PROVE IInv'
<1>1. TypeOK /\ IsFiniteSet(updates) /\ \A y \in updates : y.slot <= Len(signals)
  BY DEF IInv
<1>2. /\ x.read # -1 /\ x.read \in Nat \cup {-1} /\ x.loaded \in Columns /\ x.new \in Columns
  BY <1>1 DEF Commit, TypeOK, UpdateTx
<1>3. /\ updates' = updates \ {x} /\ signals' = WithSignal(x)
      /\ rate' = StoredRate(x)
      /\ samples' = Written(samples, x.loaded.samples, x.new.samples)
      /\ tier' = Written(tier, x.loaded.tier, x.new.tier)
      /\ history' = IF x.new.tier = x.loaded.tier THEN history
                    ELSE Append(history, [from |-> x.loaded.tier, to |-> x.new.tier,
                                          read |-> x.read])
  BY DEF Commit
<1>4. signals' \in Signals /\ Len(signals') = Len(signals)
  BY <1>3, WithSignalType
<1>5. rate' \in Rates /\ samples' \in Nat /\ tier' \in Tiers
  BY <1>1, <1>2, <1>3 DEF TypeOK, Columns, StoredRate, Written
<1>6. history' \in Seq(Change)
  <2>1. [from |-> x.loaded.tier, to |-> x.new.tier, read |-> x.read] \in Change
    BY <1>2 DEF Columns, Change
  <2>2. history \in Seq(Change)
    BY <1>1 DEF TypeOK
  <2> QED
    BY <1>3, <2>1, <2>2, AppendProperties
<1>7. TypeOK'
  BY <1>1, <1>3, <1>4, <1>5, <1>6 DEF TypeOK, Signals
<1>8. IsFiniteSet(updates')
  BY <1>1, <1>3, FS_RemoveElement
<1> QED
  BY <1>1, <1>3, <1>4, <1>7, <1>8 DEF IInv

LEMMA RollbackIInv == ASSUME IInv, NEW x \in updates, Rollback(x) PROVE IInv'
<1>1. updates' = updates \ {x} /\ UNCHANGED <<tier, rate, samples, signals, history>>
  BY DEF Rollback
<1>2. IsFiniteSet(updates')
  BY <1>1, FS_RemoveElement DEF IInv
<1> QED
  BY <1>1, <1>2 DEF IInv, TypeOK

LEMMA NextIInv == IInv /\ [Next]_vars => IInv'
<1> SUFFICES ASSUME IInv, [Next]_vars PROVE IInv'
  OBVIOUS
<1>1. CASE UNCHANGED vars
  BY <1>1 DEF vars, IInv, TypeOK
<1>2. CASE Next
  BY <1>2, BeginSignalIInv, BeginTickIInv, UpdateIInv, CommitIInv, RollbackIInv DEF Next
<1> QED
  BY <1>1, <1>2

\* Every column, every row of tier_changes and every open update has values that exist:
\* the tier of an expert is one of the three, their score between nothing and all, also
\* when updates overlap (update, score).
THEOREM TypeInvariant == Spec => []TypeOK
<1>1. IInv => TypeOK
  BY DEF IInv
<1> QED
  BY <1>1, InitIInv, NextIInv, PTL DEF Spec
-----------------------------------------------------------------------------
(* As long as updates do not overlap (AloneSpec).                          *)

\* What the open update has loaded is still so, its signal is the newest, and it has read
\* what its commit is going to leave.
Undisturbed ==
  /\ HistoryExplains
  /\ \A x \in updates :
       /\ x.loaded = Loaded
       /\ x.slot # NoSlot => x.slot = Len(signals) /\ signals[Len(signals)] = "open"
       /\ x.read # -1 => /\ x.read = Cardinality(Committed(WithSignal(x)))
                         /\ x.new.tier = Target(tier, WithSignal(x))

AloneInv ==
  /\ IInv
  /\ alone \in BOOLEAN
  /\ alone => Cardinality(updates) <= 1 /\ Undisturbed

LEMMA AtMostOne ==
  ASSUME NEW S, IsFiniteSet(S), Cardinality(S) <= 1, NEW x \in S
  PROVE  S = {x}
<1>1. {x} \subseteq S /\ Cardinality({x}) = 1 /\ IsFiniteSet({x})
  <2>1. IsFiniteSet({x}) /\ Cardinality({x}) = 1
    BY FS_Singleton
  <2> QED
    BY <2>1
<1>2. Cardinality({x}) <= Cardinality(S) /\ (Cardinality({x}) = Cardinality(S) => {x} = S)
  BY <1>1, FS_Subset
<1>3. Cardinality(S) \in Nat
  BY FS_CardinalityType
<1> QED
  BY <1>1, <1>2, <1>3

\* A transaction that begins beside no other one.
LEMMA BeginUndisturbed ==
  ASSUME Undisturbed, NEW slot, NEW flag, Begin(slot, flag), \A y, z \in updates' : y = z,
         slot # NoSlot => slot = Len(signals') /\ signals'[Len(signals')] = "open",
         UNCHANGED <<tier, rate, samples, history>>
  PROVE  Undisturbed'
<1> DEFINE n == [slot |-> slot, flag |-> flag, loaded |-> Loaded, new |-> Loaded, read |-> -1]
<1>1. updates' = updates \cup {n}
  BY DEF Begin
<1>2. n.loaded = Loaded /\ n.slot = slot /\ n.read = -1
  OBVIOUS
<1> HIDE DEF n
<1>3. \A y \in updates' : y = n
  BY <1>1
<1>4. Loaded' = Loaded /\ HistoryExplains'
  BY DEF Undisturbed, HistoryExplains, Loaded
<1> QED
  BY <1>2, <1>3, <1>4 DEF Undisturbed

LEMMA UpdateUndisturbed ==
  ASSUME IInv, Undisturbed, NEW x \in updates, updates = {x}, Update(x)
  PROVE  Undisturbed'
<1> DEFINE seen == WithSignal(x)
           new == [tier |-> Target(x.loaded.tier, seen), rate |-> Rate(seen),
                   samples |-> Samples(seen)]
           n == [x EXCEPT !.read = Cardinality(Committed(seen)), !.new = new]
<1>1. /\ updates' = (updates \ {x}) \cup {n}
      /\ UNCHANGED <<tier, rate, samples, signals, history>>
  BY DEF Update, Visible
<1>2. x \in UpdateTx
  BY DEF IInv, TypeOK
<1>3. /\ n.loaded = x.loaded /\ n.slot = x.slot /\ n.flag = x.flag
      /\ n.read = Cardinality(Committed(seen)) /\ n.new = new
      /\ new.tier = Target(x.loaded.tier, seen)
  BY <1>2 DEF UpdateTx
<1> HIDE DEF n, new
<1>4. \A y \in updates' : y = n
  BY <1>1
<1>5. Loaded' = Loaded /\ HistoryExplains'
  BY <1>1 DEF Undisturbed, HistoryExplains, Loaded
<1>6. x.loaded = Loaded /\ x.loaded.tier = tier
  BY DEF Undisturbed, Loaded
<1>7. x.slot # NoSlot => x.slot = Len(signals) /\ signals[Len(signals)] = "open"
  BY DEF Undisturbed
<1>8. ASSUME NEW y, y.slot = x.slot, y.flag = x.flag PROVE WithSignal(y)' = seen
  BY <1>1, <1>8 DEF WithSignal
<1>9. \A y \in updates' : WithSignal(y)' = seen
  BY <1>3, <1>4, <1>8
<1> HIDE DEF seen
<1> QED
  BY <1>1, <1>3, <1>4, <1>5, <1>6, <1>7, <1>9 DEF Undisturbed

\* The tier after the commit, and the row that it adds.
LEMMA CommitMoves ==
  ASSUME IInv, Undisturbed, NEW x \in updates, Commit(x)
  PROVE  LET h == [from |-> tier, to |-> tier', read |-> x.read]
         IN /\ signals' = WithSignal(x) /\ x.read = Cardinality(Committed(signals'))
            /\ x.read \in Nat /\ tier \in Tiers
            /\ tier' = Target(tier, signals')
            /\ h \in Change
            /\ history' = IF tier' = tier THEN history ELSE Append(history, h)
<1>1. /\ x.read # -1 /\ signals' = WithSignal(x)
      /\ tier' = Written(tier, x.loaded.tier, x.new.tier)
      /\ history' = IF x.new.tier = x.loaded.tier THEN history
                    ELSE Append(history, [from |-> x.loaded.tier, to |-> x.new.tier,
                                          read |-> x.read])
  BY DEF Commit
<1>2. /\ x.loaded.tier = tier /\ x.read = Cardinality(Committed(WithSignal(x)))
      /\ x.new.tier = Target(tier, WithSignal(x))
  BY <1>1 DEF Undisturbed, Loaded
<1>3. tier' = x.new.tier
  BY <1>1, <1>2 DEF Written
<1>4. x \in UpdateTx /\ tier \in Tiers
  BY DEF IInv, TypeOK
<1>5. x.read \in Nat /\ x.new.tier \in Tiers
  BY <1>1, <1>4 DEF UpdateTx, Columns
<1> QED
  BY <1>1, <1>2, <1>3, <1>4, <1>5 DEF Change

LEMMA CommitUndisturbed ==
  ASSUME IInv, Undisturbed, NEW x \in updates, updates = {x}, Commit(x)
  PROVE  Undisturbed'
<1> DEFINE h == [from |-> tier, to |-> tier', read |-> x.read]
<1>1. updates' = {}
  BY DEF Commit
<1>2. /\ tier' = Target(tier, signals') /\ tier \in Tiers /\ h \in Change
      /\ history' = IF tier' = tier THEN history ELSE Append(history, h)
  BY CommitMoves
<1>3. HistoryExplains /\ history \in Seq(Change)
  BY DEF Undisturbed, IInv, TypeOK
<1>4. HistoryExplains'
  <2>1. CASE tier' = tier
    BY <1>2, <1>3, <2>1 DEF HistoryExplains
  <2>2. CASE tier' # tier
    <3>1. tier' \in {tier - 1, tier + 1}
      BY <1>2, <2>2, TargetIsStep
    <3>2. h.from = tier /\ h.to = tier'
      OBVIOUS
    <3> HIDE DEF h
    <3>3. /\ history' = Append(history, h) /\ Len(history) \in Nat
          /\ Len(history') = Len(history) + 1
          /\ history'[Len(history) + 1] = h
          /\ \A i \in 1 .. Len(history) : history'[i] = history[i]
          /\ DOMAIN history = 1 .. Len(history) /\ DOMAIN history' = 1 .. Len(history')
      BY <1>2, <1>3, <2>2, AppendProperties, LenProperties
    <3>4. \A i \in DOMAIN history' :
            history'[i].to \in {history'[i].from - 1, history'[i].from + 1}
      BY <1>3, <3>1, <3>2, <3>3 DEF HistoryExplains
    <3>5. \A i \in 2 .. Len(history') : history'[i].from = history'[i - 1].to
      <4> SUFFICES ASSUME NEW i \in 2 .. Len(history')
                   PROVE  history'[i].from = history'[i - 1].to
        OBVIOUS
      <4>1. CASE i <= Len(history)
        BY <1>3, <3>3, <4>1 DEF HistoryExplains
      <4>2. CASE i = Len(history) + 1
        <5>1. history # <<>>
          BY <1>3, <3>3, <4>2, EmptySeq
        <5>2. history[Len(history)].to = tier
          BY <1>3, <5>1 DEF HistoryExplains
        <5>3. i - 1 = Len(history) /\ i - 1 \in 1 .. Len(history)
          BY <3>3, <4>2
        <5>4. history'[i] = h /\ history'[i - 1] = history[Len(history)]
          BY <3>3, <4>2, <5>3
        <5> QED
          BY <3>2, <5>2, <5>4
      <4> QED
        BY <3>3, <4>1, <4>2
    <3>6. history'[Len(history')].to = tier'
      BY <3>2, <3>3
    <3> QED
      BY <3>4, <3>5, <3>6 DEF HistoryExplains
  <2> QED
    BY <2>1, <2>2
<1> QED
  BY <1>1, <1>4 DEF Undisturbed

LEMMA AloneInit == MCInit => AloneInv
<1> SUFFICES ASSUME MCInit PROVE AloneInv
  OBVIOUS
<1>1. Init /\ alone = TRUE /\ IInv
  BY InitIInv DEF MCInit
<1>2. updates = {} /\ history = <<>> /\ Cardinality(updates) = 0
  BY <1>1, FS_EmptySet DEF Init
<1>3. Undisturbed
  BY <1>2 DEF Undisturbed, HistoryExplains
<1> QED
  BY <1>1, <1>2, <1>3 DEF AloneInv

\* Without overlap, the updates before and after a step are at most one.
LEMMA AloneStep ==
  ASSUME AloneInv, AloneNext, alone'
  PROVE  /\ alone /\ Next /\ IInv /\ IInv' /\ Undisturbed /\ Cardinality(updates') <= 1
         /\ \A x \in updates : updates = {x}
         /\ \A x, y \in updates' : x = y
<1>1. alone /\ Next /\ IInv /\ Undisturbed /\ Cardinality(updates) <= 1 /\ Cardinality(updates') <= 1
  <2>1. Next /\ alone /\ Cardinality(updates') <= 1
    BY Zenon DEF AloneNext
  <2> QED
    BY <2>1, Zenon DEF AloneInv
<1>2. IInv'
  BY <1>1, NextIInv
<1>3. IsFiniteSet(updates) /\ IsFiniteSet(updates')
  BY <1>1, <1>2 DEF IInv
<1>4. \A x \in updates : updates = {x}
  BY <1>1, <1>3, AtMostOne
<1>5. \A x \in updates' : updates' = {x}
  BY <1>1, <1>3, AtMostOne
<1> QED
  BY <1>1, <1>2, <1>4, <1>5

LEMMA NextUndisturbed ==
  ASSUME AloneInv, AloneNext, alone'
  PROVE  Undisturbed'
<1>1. /\ Next /\ IInv /\ Undisturbed
      /\ \A x \in updates : updates = {x}
      /\ \A x, y \in updates' : x = y
  BY AloneStep
<1>2. ASSUME NEW flag \in Flags, BeginSignal(flag) PROVE Undisturbed'
  <2>1. signals' = Append(signals, "open") /\ Begin(Len(signals) + 1, flag)
    BY <1>2 DEF BeginSignal
  <2>2. Len(signals') = Len(signals) + 1 /\ signals'[Len(signals')] = "open"
    BY <1>1, <2>1, AppendProperties DEF IInv, TypeOK
  <2> QED
    BY <1>1, <1>2, <2>1, <2>2, BeginUndisturbed DEF BeginSignal
<1>3. CASE BeginTick
  BY <1>1, <1>3, BeginUndisturbed DEF BeginTick
<1>4. ASSUME NEW x \in updates, Update(x) \/ Commit(x) PROVE Undisturbed'
  BY <1>1, <1>4, UpdateUndisturbed, CommitUndisturbed
<1>5. ASSUME NEW x \in updates, Rollback(x) PROVE Undisturbed'
  <2>1. updates' = {} /\ UNCHANGED <<tier, history>>
    BY <1>1, <1>5 DEF Rollback
  <2> QED
    BY <1>1, <2>1 DEF Undisturbed, HistoryExplains
<1> QED
  BY <1>1, <1>2, <1>3, <1>4, <1>5 DEF Next

LEMMA AloneNextInv == AloneInv /\ [AloneNext]_<<vars, alone>> => AloneInv'
<1> SUFFICES ASSUME AloneInv, [AloneNext]_<<vars, alone>> PROVE AloneInv'
  OBVIOUS
<1>1. CASE UNCHANGED <<vars, alone>>
  <2>1. IInv' = IInv
    BY <1>1 DEF IInv, TypeOK, vars
  <2>2. Undisturbed' = Undisturbed
    BY <1>1 DEF Undisturbed, HistoryExplains, Loaded, WithSignal, vars
  <2>3. alone' = alone /\ updates' = updates
    BY <1>1 DEF vars
  <2> QED
    BY <2>1, <2>2, <2>3 DEF AloneInv
<1>2. CASE AloneNext
  <2>1. IInv' /\ alone' \in BOOLEAN
    BY <1>2, NextIInv DEF AloneInv, AloneNext
  <2>2. alone' => Cardinality(updates') <= 1 /\ Undisturbed'
    BY <1>2, AloneStep, NextUndisturbed
  <2> QED
    BY <2>1, <2>2 DEF AloneInv
<1> QED
  BY <1>1, <1>2

LEMMA AloneHolds == AloneSpec => []AloneInv
BY AloneInit, AloneNextInv, PTL DEF AloneSpec

\* As long as updates do not overlap, the rows of tier_changes lead step by step from one
\* tier to the next and end in the tier that the expert has; overlapping updates lead to no
\* tier that does not exist (update).
THEOREM HistoryExplainsTier == AloneSpec => []AloneHistoryExplains
<1>1. AloneInv => AloneHistoryExplains
  BY DEF AloneInv, IInv, Undisturbed, AloneHistoryExplains
<1> QED
  BY <1>1, AloneHolds, PTL

-----------------------------------------------------------------------------
(* Hysteresis.                                                             *)

\* Among the fewest samples that count, one signal weighs less than the band is wide.
WideBand == (PromoteAt - DemoteAt) * MinSamples > 1000

\* What the signals s, those that the move h has counted and newer ones, say of h: with
\* none newer they support it, with one newer they do not support the opposite.
Supports(s, h) ==
  LET newer == Cardinality(Committed(s)) - h.read
  IN /\ newer >= 0
     /\ h.to > h.from => /\ newer = 0 => Promotes(s)
                         /\ newer = 1 => ~Demotes(s)
     /\ h.to < h.from => /\ newer = 0 => Demotes(s)
                         /\ newer = 1 => ~Promotes(s)

LastSupported == history # <<>> => Supports(signals, history[Len(history)])

LEMMA Gap ==
  ASSUME WideBand, NEW n \in Nat, n >= MinSamples
  PROVE  PromoteAt * n > DemoteAt * n + 1000
<1> DEFINE d == PromoteAt - DemoteAt
           m == MinSamples
           e == n - MinSamples
<1>1. d \in Int /\ m \in Nat /\ e \in Nat /\ d * m > 1000
  BY Parameters DEF WideBand
<1>2. n = m + e /\ PromoteAt * n = DemoteAt * n + d * n
  BY Parameters
<1> HIDE DEF d, m, e
<1>3. d > 0
  <2>1. CASE d <= 0
    <3>1. d * m <= 0
      BY <1>1, <2>1, SMTT(30)
    <3> QED
      BY <1>1, <3>1
  <2> QED
    BY <1>1, <2>1
<1>4. d * e >= 0
  BY <1>1, <1>3, SMTT(30)
<1>5. d * n = d * m + d * e
  BY <1>1, <1>2, SMTT(30)
<1>6. d * n > 1000
  BY <1>1, <1>4, <1>5
<1> DEFINE p == PromoteAt * n
           q == DemoteAt * n
           r == d * n
<1>7. p \in Int /\ q \in Int /\ r \in Int /\ p = q + r /\ r > 1000
  BY <1>1, <1>2, <1>6, Parameters
<1> HIDE DEF p, q, r
<1>8. p > q + 1000
  BY <1>7
<1> QED
  BY <1>8 DEF p, q

\* What one more signal can do to a rate that clears an edge of the band.
LEMMA OneMoreKeepsSide ==
  ASSUME WideBand, NEW s \in Signals, NEW t \in Signals,
         \/ Samples(t) = Samples(s) + 1 /\ Agreed(t) \in {Agreed(s), Agreed(s) + 1}
         \/ Samples(t) = Samples(s) /\ Agreed(t) \in (Agreed(s) - 1) .. (Agreed(s) + 1)
  PROVE  /\ Promotes(s) => ~Demotes(s) /\ ~Demotes(t)
         /\ Demotes(s) => ~Promotes(s) /\ ~Promotes(t)
<1> DEFINE n == Samples(s)
           a == Agreed(s)
           k == Samples(t)
           b == Agreed(t)
<1>1. n \in Nat /\ k \in Nat /\ a \in Nat /\ b \in Nat
  BY Places
<1>2. \/ k = n + 1 /\ b >= a /\ b <= a + 1
      \/ k = n /\ b >= a - 1 /\ b <= a + 1
  BY <1>1
<1>3. n >= MinSamples => PromoteAt * n > DemoteAt * n + 1000
  <2>1. WideBand /\ n \in Nat
    BY <1>1
  <2> HIDE DEF n
  <2> QED
    BY <2>1, Gap
<1>4. /\ Promotes(s) <=> n # 0 /\ n >= MinSamples /\ a * 1000 >= PromoteAt * n
      /\ Demotes(s) <=> n # 0 /\ n >= MinSamples /\ a * 1000 <= DemoteAt * n
      /\ Promotes(t) => b * 1000 >= PromoteAt * k
      /\ Demotes(t) => b * 1000 <= DemoteAt * k
  BY DEF Promotes, Demotes, Enough
<1> HIDE DEF n, a, k, b
<1>5. /\ k = n + 1 => PromoteAt * k = PromoteAt * n + PromoteAt
      /\ k = n + 1 => DemoteAt * k = DemoteAt * n + DemoteAt
  BY <1>1, Parameters
<1> DEFINE pn == PromoteAt * n
           dn == DemoteAt * n
           pk == PromoteAt * k
           dk == DemoteAt * k
<1>6. /\ pn \in Nat /\ dn \in Nat
      /\ k = n + 1 => pk = pn + PromoteAt /\ dk = dn + DemoteAt
      /\ k = n => pk = pn /\ dk = dn
  BY <1>1, <1>5, Parameters
<1>7. /\ n >= MinSamples => pn > dn + 1000
      /\ Promotes(s) <=> n # 0 /\ n >= MinSamples /\ a * 1000 >= pn
      /\ Demotes(s) <=> n # 0 /\ n >= MinSamples /\ a * 1000 <= dn
      /\ Promotes(t) => b * 1000 >= pk
      /\ Demotes(t) => b * 1000 <= dk
  BY <1>3, <1>4
<1> HIDE DEF pn, dn, pk, dk
<1>8. k = n => /\ Promotes(s) => ~Demotes(s) /\ ~Demotes(t)
               /\ Demotes(s) => ~Promotes(s) /\ ~Promotes(t)
  BY <1>1, <1>2, <1>6, <1>7
<1>9. k = n + 1 => /\ Promotes(s) => ~Demotes(s) /\ ~Demotes(t)
                   /\ Demotes(s) => ~Promotes(s) /\ ~Promotes(t)
  BY <1>1, <1>2, <1>6, <1>7, Parameters
<1> QED
  BY <1>2, <1>8, <1>9

LEMMA OneSide == ASSUME WideBand, NEW s \in Signals PROVE Promotes(s) => ~Demotes(s)
<1>1. Samples(s) = Samples(s) /\ Agreed(s) \in (Agreed(s) - 1) .. (Agreed(s) + 1)
  BY Places
<1> QED
  BY <1>1, OneMoreKeepsSide

\* The signals that support a move go on doing so while at most one more is committed.
LEMMA StillSupports ==
  ASSUME WideBand, NEW s \in Signals, NEW t \in Signals, NEW h \in Change, Supports(s, h),
         \/ t = s
         \/ /\ Cardinality(Committed(t)) = Cardinality(Committed(s)) + 1
            /\ \/ Samples(t) = Samples(s) + 1 /\ Agreed(t) \in {Agreed(s), Agreed(s) + 1}
               \/ Samples(t) = Samples(s) /\ Agreed(t) \in (Agreed(s) - 1) .. (Agreed(s) + 1)
  PROVE  Supports(t, h)
<1>1. CASE t = s
  BY <1>1
<1>2. CASE /\ Cardinality(Committed(t)) = Cardinality(Committed(s)) + 1
           /\ \/ Samples(t) = Samples(s) + 1 /\ Agreed(t) \in {Agreed(s), Agreed(s) + 1}
              \/ Samples(t) = Samples(s) /\ Agreed(t) \in (Agreed(s) - 1) .. (Agreed(s) + 1)
  <2>1. /\ Promotes(s) => ~Demotes(t)
        /\ Demotes(s) => ~Promotes(t)
    BY <1>2, OneMoreKeepsSide
  <2>2. Cardinality(Committed(s)) \in Nat /\ h.read \in Nat
    BY Places DEF Change
  <2>3. /\ Cardinality(Committed(t)) - h.read = Cardinality(Committed(s)) - h.read + 1
        /\ Cardinality(Committed(s)) - h.read \in Int
    BY <1>2, <2>2
  <2> QED
    BY <2>1, <2>3 DEF Supports
<1> QED
  BY <1>1, <1>2

SteadyInv == alone => NoFlapping /\ LastSupported

\* A step that commits no signal and moves no tier.
LEMMA SteadyKept ==
  ASSUME NoFlapping, LastSupported, UNCHANGED history,
         Cardinality(Committed(signals'))  = Cardinality(Committed(signals)),
         Samples(signals') = Samples(signals), Agreed(signals') = Agreed(signals)
  PROVE  NoFlapping' /\ LastSupported'
BY DEF NoFlapping, LastSupported, Supports, Promotes, Demotes, Enough

LEMMA CommitSteady ==
  ASSUME WideBand, IInv, Undisturbed, NoFlapping, LastSupported,
         NEW x \in updates, Commit(x)
  PROVE  NoFlapping' /\ LastSupported'
<1> DEFINE h == [from |-> tier, to |-> tier', read |-> x.read]
           l == history[Len(history)]
<1>1. /\ signals' = WithSignal(x) /\ x.read = Cardinality(Committed(signals'))
      /\ x.read \in Nat /\ tier \in Tiers /\ tier' = Target(tier, signals') /\ h \in Change
      /\ history' = IF tier' = tier THEN history ELSE Append(history, h)
  BY CommitMoves
<1>2. history \in Seq(Change) /\ signals \in Signals
  BY DEF IInv, TypeOK, Signals
<1>3. Len(history) \in Nat /\ (history # <<>> => Len(history) # 0 /\ l \in Change)
  BY <1>2, LenProperties, ElementOfSeq, EmptySeq
<1>4. /\ signals' \in Signals
      /\ \/ signals' = signals
         \/ /\ Cardinality(Committed(signals')) = Cardinality(Committed(signals)) + 1
            /\ \/ /\ Samples(signals') = Samples(signals) + 1
                  /\ Agreed(signals') \in {Agreed(signals), Agreed(signals) + 1}
               \/ /\ Samples(signals') = Samples(signals)
                  /\ Agreed(signals') \in (Agreed(signals) - 1) .. (Agreed(signals) + 1)
  <2>1. CASE x.slot = NoSlot
    BY <1>1, <1>2, <2>1 DEF WithSignal
  <2>2. CASE x.slot # NoSlot
    <3>1. x.slot = Len(signals) /\ signals[Len(signals)] = "open" /\ Len(signals) # 0
      BY <2>2 DEF Undisturbed, NoSlot
    <3>2. x.flag \in Flags
      BY DEF IInv, TypeOK, UpdateTx
    <3>3. signals' = [signals EXCEPT ![Len(signals)] = x.flag]
      BY <1>1, <2>2, <3>1 DEF WithSignal
    <3>4. NewestCommits(signals, signals', Len(signals))
      BY <1>2, <3>1, <3>2, <3>3, CommitOfNewest
    <3>5. signals' \in Signals
      BY <1>1, WithSignalType
    <3> QED
      BY <3>4, <3>5, OneMore
  <2> QED
    BY <2>1, <2>2
<1>5. history # <<>> => Supports(signals', l)
  BY <1>2, <1>3, <1>4, StillSupports DEF LastSupported
<1>6. CASE tier' = tier
  BY <1>1, <1>5, <1>6 DEF NoFlapping, LastSupported
<1>7. CASE tier' # tier
  <2>1. \/ tier' = tier + 1 /\ Promotes(signals')
        \/ tier' = tier - 1 /\ Demotes(signals')
    BY <1>1, <1>7, TargetIsStep
  <2>2. Promotes(signals') => ~Demotes(signals')
    BY <1>4, OneSide
  <2>3. tier \in Int /\ tier' \in Int
    BY <1>1, <2>1 DEF Tiers
  <2>4. /\ h.from = tier /\ h.to = tier' /\ h.read = Cardinality(Committed(signals'))
    BY <1>1
  <2> HIDE DEF h
  <2>5. /\ history' = Append(history, h)
        /\ Len(history') = Len(history) + 1 /\ history'[Len(history) + 1] = h
        /\ \A i \in 1 .. Len(history) : history'[i] = history[i]
    BY <1>1, <1>2, <1>7, AppendProperties
  <2>6. Supports(signals', h)
    <3>1. Cardinality(Committed(signals')) - h.read = 0
      BY <1>1, <2>4
    <3> QED
      BY <2>1, <2>3, <2>4, <3>1 DEF Supports
  <2>7. LastSupported'
    BY <2>5, <2>6 DEF LastSupported
  <2>8. ASSUME history # <<>>, (l.to > l.from) # (h.to > h.from)
        PROVE  h.read >= l.read + 2
    <3>1. Supports(signals', l) /\ l \in Change
      BY <1>3, <1>5, <2>8
    <3>2. l.to # l.from
      BY <1>2, <1>3, <2>8, LenProperties DEF Undisturbed, HistoryExplains, Change, Tiers
    <3>3. l.to \in Int /\ l.from \in Int /\ l.read \in Nat /\ h.read \in Nat
      BY <1>1, <2>4, <3>1 DEF Change, Tiers
    <3>4. h.read - l.read \in Int /\ h.read - l.read >= 0
      BY <2>4, <3>1, <3>3 DEF Supports
    <3>5. h.read - l.read # 0 /\ h.read - l.read # 1
      BY <2>1, <2>2, <2>3, <2>4, <2>8, <3>1, <3>2, <3>3 DEF Supports
    <3> QED
      BY <3>3, <3>4, <3>5
  <2>9. NoFlapping'
    <3> SUFFICES ASSUME NEW i \in 2 .. Len(history'),
                        (history'[i - 1].to > history'[i - 1].from)
                          # (history'[i].to > history'[i].from)
                 PROVE  history'[i].read >= history'[i - 1].read + 2
      BY DEF NoFlapping
    <3>1. CASE i <= Len(history)
      <4>1. i \in 2 .. Len(history) /\ history'[i] = history[i] /\ history'[i - 1] = history[i - 1]
        BY <1>3, <2>5, <3>1
      <4> QED
        BY <4>1 DEF NoFlapping
    <3>2. CASE i = Len(history) + 1
      <4>1. history # <<>>
        BY <1>2, <3>2, EmptySeq
      <4>2. i - 1 = Len(history) /\ i - 1 \in 1 .. Len(history)
        BY <1>3, <2>5, <3>2
      <4>3. history'[i] = h /\ history'[i - 1] = l
        BY <2>5, <3>2, <4>2
      <4> QED
        BY <2>8, <4>1, <4>3
    <3> QED
      BY <1>3, <2>5, <3>1, <3>2
  <2> QED
    BY <2>7, <2>9
<1> QED
  BY <1>6, <1>7

LEMMA NextSteady == WideBand /\ AloneInv /\ SteadyInv /\ [AloneNext]_<<vars, alone>> => SteadyInv'
<1> SUFFICES ASSUME WideBand, AloneInv, SteadyInv, [AloneNext]_<<vars, alone>>
             PROVE  SteadyInv'
  OBVIOUS
<1>0. AloneNext \/ UNCHANGED <<vars, alone>>
  OBVIOUS
<1> SUFFICES ASSUME alone' PROVE NoFlapping' /\ LastSupported'
  BY DEF SteadyInv
<1>1. CASE UNCHANGED <<vars, alone>>
  <2>1. NoFlapping /\ LastSupported /\ UNCHANGED <<signals, history>>
    BY <1>1 DEF SteadyInv, vars
  <2> QED
    BY <2>1, SteadyKept
<1>2. CASE AloneNext
  <2>1. NoFlapping /\ LastSupported /\ IInv /\ Undisturbed /\ Next
    BY <1>2, AloneStep DEF SteadyInv
  <2>2. ASSUME NEW flag \in Flags, BeginSignal(flag) PROVE NoFlapping' /\ LastSupported'
    <3>1. signals \in Signals /\ signals' = Append(signals, "open") /\ UNCHANGED history
      BY <2>1, <2>2 DEF IInv, TypeOK, Signals, BeginSignal
    <3>2. /\ Committed(signals') = Committed(signals)
          /\ Samples(signals') = Samples(signals) /\ Agreed(signals') = Agreed(signals)
      BY <3>1, OpenSignal
    <3> QED
      BY <2>1, <3>1, <3>2, SteadyKept
  <2>3. CASE BeginTick \/ \E x \in updates : Update(x) \/ Rollback(x)
    <3>1. UNCHANGED <<signals, history>>
      <4>1. CASE BeginTick
        BY <4>1 DEF BeginTick
      <4>2. CASE \E x \in updates : Update(x)
        BY <4>2 DEF Update
      <4>3. CASE \E x \in updates : Rollback(x)
        BY <4>3 DEF Rollback
      <4> QED
        BY <2>3, <4>1, <4>2, <4>3
    <3> QED
      BY <2>1, <3>1, SteadyKept
  <2>4. CASE \E x \in updates : Commit(x)
    BY <2>1, <2>4, CommitSteady
  <2> QED
    BY <2>1, <2>2, <2>3, <2>4 DEF Next
<1> QED
  BY <1>0, <1>1, <1>2

\* As long as updates do not overlap, it takes more than one new signal to take a move
\* back, whenever the band is wider than one signal weighs among the fewest samples that
\* count: so it is with the code's defaults, 0.9, 0.6 and 5 (update).
THEOREM OneSignalTakesNothingBack == ASSUME WideBand PROVE AloneSpec => []AloneNoFlapping
<1>1. MCInit => SteadyInv
  BY DEF MCInit, Init, SteadyInv, NoFlapping, LastSupported
<1>2. AloneInv /\ SteadyInv /\ [AloneNext]_<<vars, alone>> => SteadyInv'
  BY NextSteady
<1>3. SteadyInv => AloneNoFlapping
  BY DEF SteadyInv, AloneNoFlapping
<1> QED
  BY <1>1, <1>2, <1>3, AloneHolds, PTL DEF AloneSpec

\* The runs check instances of AloneSpec: what bounds them only takes steps away.
LEMMA InstancesAreAlone == MCSpec => AloneSpec
<1>1. [MCNext]_<<vars, alone>> => [AloneNext]_<<vars, alone>>
  BY DEF MCNext
<1> QED
  BY <1>1, PTL DEF MCSpec, AloneSpec

==============================================================================
