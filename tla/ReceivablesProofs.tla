------------------------ MODULE ReceivablesProofs -------------------------
(***************************************************************************)
(* The receivables module, for every number of clients, parties, invoices, *)
(* payments, modes and amounts, every interleaving of requests and every   *)
(* failure: its types, its journals, and the bank against its rows.  Then, *)
(* when requests come one at a time and none fails, balances and paid      *)
(* amounts against the payments, and with one method of payment the rows   *)
(* against them.                                                           *)
(***************************************************************************)
EXTENDS Receivables, FoldTheorems, SequenceTheorems

-----------------------------------------------------------------------------
(* Payment splits: what merging, clamping, adjusting and resolving return *)

\* Splits of positive amounts, and those among them with one split for a mode.
SentSplit(M)   == [mode : M, amt : Int]
UsableSplit(M) == [mode : M, amt : Nat \ {0}]
Sent(M)   == Seq(SentSplit(M))
Usable(M) == Seq(UsableSplit(M))
OnePerMode(splits) == \A j, k \in DOMAIN splits : splits[j].mode = splits[k].mode => j = k
Tidy(M)   == {splits \in Usable(M) : OnePerMode(splits)}

\* MergedWith
LEMMA MergedWithTidy ==
    ASSUME NEW M, NEW out \in Tidy(M), NEW s \in [mode : M, amt : Int]
    PROVE  MergedWith(out, s) \in Tidy(M)
  <1>1. CASE s.amt <= 0 BY <1>1 DEF MergedWith
  <1>2. CASE s.amt > 0 /\ s.mode \in ModesOf(out)
    <2> DEFINE new == [k \in DOMAIN out |-> IF out[k].mode = s.mode THEN [out[k] EXCEPT !.amt = @ + s.amt] ELSE out[k]]
    <2>1. MergedWith(out, s) = new BY <1>2 DEF MergedWith
    <2>2. out \in Seq([mode : M, amt : Nat \ {0}]) /\ DOMAIN out = 1 .. Len(out) /\ Len(out) \in Nat
      BY DEF Tidy, Usable, UsableSplit
    <2>3. ASSUME NEW k \in DOMAIN out
          PROVE  new[k] \in [mode : M, amt : Nat \ {0}] /\ new[k].mode = out[k].mode
      <3>1. out[k] \in [mode : M, amt : Nat \ {0}] BY <2>2, ElementOfSeq
      <3>2. out[k].amt + s.amt \in Nat \ {0} BY <1>2, <3>1
      <3> QED BY <3>1, <3>2
    <2>4. new \in Seq([mode : M, amt : Nat \ {0}]) BY <2>2, <2>3
    <2>5. OnePerMode(new) BY <2>3 DEF Tidy, OnePerMode
    <2> QED BY <2>1, <2>4, <2>5 DEF Tidy, Usable, UsableSplit
  <1>3. CASE s.amt > 0 /\ s.mode \notin ModesOf(out)
    <2>1. MergedWith(out, s) = Append(out, s) BY <1>3 DEF MergedWith
    <2>2. out \in Seq([mode : M, amt : Nat \ {0}]) /\ s \in [mode : M, amt : Nat \ {0}]
      BY <1>3 DEF Tidy, Usable, UsableSplit
    <2>3. Append(out, s) \in Seq([mode : M, amt : Nat \ {0}]) BY <2>2
    <2>4. OnePerMode(Append(out, s)) BY <2>2, <1>3 DEF ModesOf, OnePerMode, Tidy
    <2> QED BY <2>1, <2>3, <2>4 DEF Tidy, Usable, UsableSplit
  <1> QED BY <1>1, <1>2, <1>3

\* mergePaymentSplits adds the splits one at a time.
LEMMA MergedRuns ==
    ASSUME NEW M, NEW splits \in Sent(M)
    PROVE  \E acc \in [0 .. Len(splits) -> Tidy(M)] :
               /\ acc[0] = << >>
               /\ \A k \in 1 .. Len(splits) : acc[k] = MergedWith(acc[k - 1], splits[k])
               /\ Merged(splits) = acc[Len(splits)]
  <1> DEFINE n     == Len(splits)
             T     == Tidy(M)
             h     == [k \in 1 .. n |-> [t \in T |-> MergedWith(t, splits[k])]]
             Eq(i) == i = [s \in SUBSET (1 .. n) |->
                             IF s = {} THEN << >> ELSE MergedWith(i[s \ {Max(s)}], splits[Max(s)])]
             iter  == CHOOSE i : Eq(i)
  <1>1. n \in Nat /\ DOMAIN splits = 1 .. n /\ \A k \in 1 .. n : splits[k] \in [mode : M, amt : Int]
    <2>1. splits \in Seq([mode : M, amt : Int]) BY DEF Sent, SentSplit
    <2> QED BY <2>1, ElementOfSeq, LenProperties
  <1>2. << >> \in T BY DEF Tidy, Usable, OnePerMode
  <1>3. h \in [1 .. n -> [T -> T]] BY <1>1, MergedWithTidy
  <1>4. Merged(splits) = iter[1 .. n] BY <1>1 DEF Merged, FoldLeft, MapThenFoldSet
  <1>5. PICK g \in [SUBSET (1 .. n) -> T] : Folding(g, << >>, h, n, T)
    <2> HIDE DEF n, T, h
    <2> QED BY <1>1, <1>2, <1>3, FoldExists
  <1>6. ASSUME NEW t \in T, NEW s \in SUBSET (1 .. n), s # {}
        PROVE  h[Max(s)][t] = MergedWith(t, splits[Max(s)])
    <2>1. Max(s) \in 1 .. n BY <1>1, <1>6, MaxIsIn
    <2> HIDE DEF T, n
    <2> QED BY <2>1
  <1>7. Eq(iter)
    <2>1. Eq(g)
      <3> HIDE DEF T, n, h
      <3>1. g[{}] = << >> BY <1>5 DEF Folding
      <3>2. ASSUME NEW s \in SUBSET (1 .. n), s # {}
            PROVE  g[s] = MergedWith(g[s \ {Max(s)}], splits[Max(s)])
        <4>1. g[s \ {Max(s)}] \in T BY <1>5
        <4> QED BY <1>5, <1>6, <3>2, <4>1 DEF Folding
      <3> QED BY <1>5, <3>1, <3>2
    <2> QED BY <2>1
  <1>8. Folding(iter, << >>, h, n, T)
    <2> HIDE DEF iter, T, n, h
    <2>1. iter[{}] = << >> BY <1>7
    <2>2. ASSUME NEW s \in SUBSET (1 .. n), s # {}, iter[s \ {Max(s)}] \in T
          PROVE  iter[s] = h[Max(s)][iter[s \ {Max(s)}]]
      BY <1>6, <1>7, <2>2
    <2> QED BY <1>1, <1>2, <1>3, <2>1, <2>2 DEF Folding
  <1>9. PICK acc : Run(acc, << >>, h, n, T) /\ iter[1 .. n] = acc[n]
    <2> HIDE DEF iter, h, T, n
    <2> QED BY <1>8, FoldRuns
  <1>10. \A k \in 1 .. n : acc[k] = MergedWith(acc[k - 1], splits[k])
    <2> SUFFICES ASSUME NEW k \in 1 .. n PROVE acc[k] = MergedWith(acc[k - 1], splits[k]) OBVIOUS
    <2>1. acc[k - 1] \in T /\ acc[k] = h[k][acc[k - 1]]
      <3> HIDE DEF T, h, n
      <3> QED BY <1>1, <1>9 DEF Run
    <2> HIDE DEF T, n
    <2> QED BY <2>1
  <1> QED BY <1>4, <1>9, <1>10 DEF Run

\* Totals
Amts(splits) == [k \in DOMAIN splits |-> splits[k].amt]

\* sumPaymentSplits is the sum of the amounts.
LEMMA SplitsTotalIs == ASSUME NEW splits PROVE SplitsTotal(splits) = SumFunctionOnSet(Amts(splits), DOMAIN splits)
  BY DEF SplitsTotal, SumFunction, Amts

\* What a client may send as splits.
LEMMA SentFacts ==
    ASSUME NEW M, NEW splits \in Sent(M)
    PROVE  /\ Len(splits) \in Nat /\ DOMAIN splits = 1 .. Len(splits) /\ IsFiniteSet(DOMAIN splits)
           /\ \A k \in DOMAIN splits : splits[k] \in [mode : M, amt : Int]
                                     /\ Amts(splits)[k] = splits[k].amt /\ Amts(splits)[k] \in Int
           /\ SplitsTotal(splits) \in Int
  <1>1. splits \in Seq([mode : M, amt : Int]) BY DEF Sent, SentSplit
  <1>2. Len(splits) \in Nat /\ DOMAIN splits = 1 .. Len(splits) BY <1>1, LenProperties
  <1>3. \A k \in DOMAIN splits : splits[k] \in [mode : M, amt : Int] BY <1>1, <1>2, ElementOfSeq
  <1>4. IsFiniteSet(DOMAIN splits) BY <1>2, FS_Interval
  <1>5. \A k \in DOMAIN splits : Amts(splits)[k] = splits[k].amt /\ Amts(splits)[k] \in Int BY <1>3 DEF Amts
  <1>6. SplitsTotal(splits) \in Int BY <1>4, <1>5, SplitsTotalIs, SumInt
  <1> QED BY <1>2, <1>3, <1>4, <1>5, <1>6

\* Splits with positive amounts add up to a natural number, and to zero only
\* when there are none.
LEMMA UsableFacts ==
    ASSUME NEW M, NEW splits \in Usable(M)
    PROVE  /\ splits \in Sent(M)
           /\ Len(splits) \in Nat /\ DOMAIN splits = 1 .. Len(splits) /\ IsFiniteSet(DOMAIN splits)
           /\ \A k \in DOMAIN splits : splits[k] \in [mode : M, amt : Nat \ {0}]
           /\ SplitsTotal(splits) \in Nat
  <1>1. splits \in Seq(UsableSplit(M)) BY DEF Usable
  <1>2. UsableSplit(M) \subseteq SentSplit(M) BY DEF UsableSplit, SentSplit
  <1>3. splits \in Sent(M) BY <1>1, <1>2, SeqMonotonic DEF Sent
  <1>4. \A k \in DOMAIN splits : splits[k] \in [mode : M, amt : Nat \ {0}]
    <2>1. \A k \in DOMAIN splits : splits[k] \in UsableSplit(M) BY <1>1, LenProperties, ElementOfSeq
    <2> QED BY <2>1 DEF UsableSplit
  <1>5. \A k \in DOMAIN splits : Amts(splits)[k] \in Nat BY <1>4 DEF Amts
  <1>6. SplitsTotal(splits) \in Nat BY <1>3, <1>5, SentFacts, SplitsTotalIs, SumNat
  <1> QED BY <1>3, <1>4, <1>6, SentFacts

\* What the first k splits come to
LEMMA PrefixTotal ==
    ASSUME NEW M, NEW splits \in Sent(M), NEW k \in 1 .. Len(splits)
    PROVE  /\ SumFunctionOnSet(Amts(splits), 1 .. k) = splits[k].amt + SumFunctionOnSet(Amts(splits), 1 .. (k - 1))
           /\ SumFunctionOnSet(Amts(splits), 1 .. (k - 1)) \in Int
  <1>1. k \in Nat /\ k \in DOMAIN splits /\ k - 1 \in Nat BY SentFacts
  <1>2. (1 .. (k - 1)) \cup {k} = 1 .. k /\ k \notin 1 .. (k - 1) BY <1>1
  <1>3. IsFiniteSet(1 .. (k - 1)) BY <1>1, FS_Interval
  <1>4. \A j \in 1 .. k : Amts(splits)[j] \in Int BY <1>1, SentFacts
  <1>5. SumFunctionOnSet(Amts(splits), 1 .. (k - 1)) \in Int BY <1>2, <1>3, <1>4, SumInt
  <1>6. SumFunctionOnSet(Amts(splits), (1 .. (k - 1)) \cup {k}) = Amts(splits)[k] + SumFunctionOnSet(Amts(splits), 1 .. (k - 1))
    BY <1>2, <1>3, <1>4, SumAdds
  <1> QED BY <1>1, <1>2, <1>5, <1>6, SentFacts

\* No splits come to nothing.
LEMMA TotalOfEmpty == SplitsTotal(<< >>) = 0
  BY SplitsTotalIs, SumEmpty

\* One more split adds its amount.
LEMMA TotalOfAppend ==
    ASSUME NEW M, NEW splits \in Sent(M), NEW s \in [mode : M, amt : Int]
    PROVE  SplitsTotal(Append(splits, s)) = SplitsTotal(splits) + s.amt
  <1> DEFINE new == Append(splits, s)
             n   == Len(splits)
  <1>1. new \in Sent(M) /\ Len(new) = n + 1 /\ (\A k \in 1 .. n : new[k] = splits[k]) /\ new[n + 1] = s
    BY AppendProperties DEF Sent, SentSplit
  <1>2. n \in Nat /\ DOMAIN splits = 1 .. n /\ DOMAIN new = 1 .. (n + 1) BY <1>1, SentFacts
  <1>3. SplitsTotal(new) = s.amt + SumFunctionOnSet(Amts(new), 1 .. n)
    <2>1. n + 1 \in 1 .. Len(new) /\ (n + 1) - 1 = n BY <1>1, <1>2
    <2>2. SplitsTotal(new) = SumFunctionOnSet(Amts(new), 1 .. (n + 1)) BY <1>2, SplitsTotalIs
    <2> HIDE DEF new
    <2> QED BY <1>1, <2>1, <2>2, PrefixTotal
  <1>4. SumFunctionOnSet(Amts(new), 1 .. n) = SumFunctionOnSet(Amts(splits), 1 .. n)
    <2>1. \A k \in 1 .. n : Amts(new)[k] \in Int /\ Amts(new)[k] = Amts(splits)[k]
      <3> HIDE DEF new
      <3>1. \A k \in 1 .. n : k \in DOMAIN new /\ k \in DOMAIN splits BY <1>2
      <3>2. \A k \in DOMAIN new : Amts(new)[k] = new[k].amt /\ Amts(new)[k] \in Int BY <1>1, SentFacts
      <3>3. \A k \in DOMAIN splits : Amts(splits)[k] = splits[k].amt BY SentFacts
      <3> QED BY <1>1, <3>1, <3>2, <3>3
    <2>2. IsFiniteSet(1 .. n) BY <1>2, SentFacts
    <2> HIDE DEF new, n
    <2> QED BY <2>1, <2>2, SumAgrees
  <1>5. SplitsTotal(splits) = SumFunctionOnSet(Amts(splits), 1 .. n) /\ SplitsTotal(splits) \in Int
    BY <1>2, SplitsTotalIs, SentFacts
  <1> QED BY <1>3, <1>4, <1>5

\* Only the k-th split is another one.
LEMMA TotalOfChange ==
    ASSUME NEW M, NEW splits \in Sent(M), NEW new \in Sent(M), Len(new) = Len(splits),
           NEW k \in 1 .. Len(splits), \A j \in 1 .. Len(splits) : j # k => new[j] = splits[j]
    PROVE  SplitsTotal(new) = SplitsTotal(splits) - splits[k].amt + new[k].amt
  <1>1. /\ DOMAIN splits = 1 .. Len(splits) /\ DOMAIN new = DOMAIN splits /\ IsFiniteSet(DOMAIN splits)
        /\ k \in DOMAIN splits
    BY SentFacts
  <1>2. \A j \in DOMAIN splits : /\ Amts(splits)[j] \in Int /\ Amts(new)[j] \in Int
                                 /\ Amts(splits)[j] = splits[j].amt /\ Amts(new)[j] = new[j].amt
                                 /\ (j # k => Amts(splits)[j] = Amts(new)[j])
    BY <1>1, SentFacts
  <1>3. SumFunctionOnSet(Amts(new), DOMAIN splits) = SumFunctionOnSet(Amts(splits), DOMAIN splits) - Amts(splits)[k] + Amts(new)[k]
    <2> DEFINE S == DOMAIN splits
               f == Amts(splits)
               g == Amts(new)
    <2> SUFFICES SumFunctionOnSet(g, S) = SumFunctionOnSet(f, S) - f[k] + g[k] OBVIOUS
    <2>1. k \in S BY <1>1
    <2>2. IsFiniteSet(S) BY <1>1
    <2>3. \A y \in S : f[y] \in Int /\ g[y] \in Int /\ (y # k => f[y] = g[y]) BY <1>2
    <2> HIDE DEF S, f, g
    <2>4. ChangedAt(f, g, k, S) BY <2>1, <2>2, <2>3 DEF ChangedAt
    <2> QED BY <2>4, SumChanges
  <1> QED BY <1>1, <1>2, <1>3, SplitsTotalIs

\* Merged splits are usable, one per mode.
LEMMA TidyFacts == ASSUME NEW M, NEW splits \in Tidy(M) PROVE splits \in Usable(M) /\ OnePerMode(splits)
  BY DEF Tidy

\* Merging one more split adds its amount, when it is positive.
LEMMA MergedWithTotal ==
    ASSUME NEW M, NEW out \in Tidy(M), NEW s \in [mode : M, amt : Nat \ {0}]
    PROVE  SplitsTotal(MergedWith(out, s)) = SplitsTotal(out) + s.amt
  <1>1. out \in Sent(M) /\ s \in [mode : M, amt : Int] /\ s.amt > 0 BY TidyFacts, UsableFacts
  <1>2. CASE s.mode \in ModesOf(out)
    <2> DEFINE new == [k \in DOMAIN out |-> IF out[k].mode = s.mode THEN [out[k] EXCEPT !.amt = @ + s.amt] ELSE out[k]]
    <2>1. MergedWith(out, s) = new BY <1>1, <1>2 DEF MergedWith
    <2>2. new \in Sent(M) BY <1>1, <2>1, MergedWithTidy, TidyFacts, UsableFacts
    <2>3. PICK k \in DOMAIN out : out[k].mode = s.mode BY <1>2 DEF ModesOf
    <2>4. DOMAIN new = DOMAIN out OBVIOUS
    <2>5. new[k].amt = out[k].amt + s.amt /\ out[k].amt \in Int BY <2>3, <1>1, SentFacts
    <2>6. \A j \in DOMAIN out : j # k => new[j] = out[j] BY <2>3, TidyFacts DEF OnePerMode
    <2> HIDE DEF new
    <2>7. Len(new) = Len(out) /\ DOMAIN out = 1 .. Len(out) BY <1>1, <2>2, SentFacts, <2>4
    <2>8. SplitsTotal(new) = SplitsTotal(out) - out[k].amt + new[k].amt
      <3>1. k \in 1 .. Len(out) /\ \A j \in 1 .. Len(out) : j # k => new[j] = out[j] BY <2>3, <2>6, <2>7
      <3> QED BY <1>1, <2>2, <2>7, <3>1, TotalOfChange
    <2>9. SplitsTotal(out) \in Int BY <1>1, SentFacts
    <2> QED BY <1>1, <2>1, <2>5, <2>8, <2>9
  <1>3. CASE s.mode \notin ModesOf(out) BY <1>1, <1>3, TotalOfAppend DEF MergedWith
  <1> QED BY <1>2, <1>3

\* Merged: one split for a mode, and as much in all
LEMMA MergedTidy == ASSUME NEW M, NEW splits \in Sent(M) PROVE Merged(splits) \in Tidy(M)
  <1>1. Len(splits) \in Nat BY SentFacts
  <1> QED BY <1>1, MergedRuns

\* Merging keeps the total.
LEMMA MergedTotal == ASSUME NEW M, NEW splits \in Usable(M) PROVE SplitsTotal(Merged(splits)) = SplitsTotal(splits)
  <1> DEFINE n    == Len(splits)
             A(k) == SumFunctionOnSet(Amts(splits), 1 .. k)
  <1>1. splits \in Sent(M) /\ n \in Nat /\ DOMAIN splits = 1 .. n BY UsableFacts
  <1>2. PICK acc \in [0 .. n -> Tidy(M)] :
            /\ acc[0] = << >>
            /\ \A k \in 1 .. n : acc[k] = MergedWith(acc[k - 1], splits[k])
            /\ Merged(splits) = acc[n]
    BY <1>1, MergedRuns
  <1> DEFINE Good == {k \in 0 .. n : SplitsTotal(acc[k]) = A(k)}
  <1>3. 0 \in Good
    <2>1. 1 .. 0 = {} OBVIOUS
    <2> QED BY <1>1, <1>2, <2>1, TotalOfEmpty, SumEmpty
  <1>4. ASSUME NEW k \in 1 .. n, k - 1 \in Good PROVE k \in Good
    <2>1. acc[k - 1] \in Tidy(M) /\ splits[k] \in [mode : M, amt : Nat \ {0}] BY <1>1, <1>2, UsableFacts
    <2>2. SplitsTotal(acc[k]) = SplitsTotal(acc[k - 1]) + splits[k].amt BY <1>2, <2>1, MergedWithTotal
    <2>3. A(k) = splits[k].amt + A(k - 1) /\ A(k - 1) \in Int BY <1>1, PrefixTotal
    <2>4. SplitsTotal(acc[k - 1]) = A(k - 1) BY <1>4
    <2>5. k \in 0 .. n BY <1>1
    <2> HIDE DEF A
    <2> QED BY <2>1, <2>2, <2>3, <2>4, <2>5
  <1>5. n \in Good
    <2>1. \A k \in 0 .. n : k \in Good
      <3> HIDE DEF Good, n
      <3> QED BY <1>1, <1>3, <1>4, UpTo
    <2> QED BY <1>1, <2>1
  <1> QED BY <1>1, <1>2, <1>5, SplitsTotalIs

\* Splits that do not go beyond a total
Fits(M, total) == {splits \in Usable(M) : SplitsTotal(splits) <= total}

\* Splits that fit under a cap.
LEMMA FitsFacts ==
    ASSUME NEW M, NEW total \in Nat, NEW splits \in Fits(M, total)
    PROVE  splits \in Usable(M) /\ splits \in Sent(M) /\ SplitsTotal(splits) \in Nat /\ SplitsTotal(splits) <= total
  BY UsableFacts DEF Fits

\* No splits fit under any cap.
LEMMA FitsEmpty == ASSUME NEW M, NEW total \in Nat PROVE << >> \in Fits(M, total)
  BY TotalOfEmpty DEF Fits, Usable

\* The smaller of two numbers.
LEMMA LesserIs ==
    ASSUME NEW a \in Int, NEW b \in Int
    PROVE  /\ Lesser(a, b) \in Int /\ Lesser(a, b) <= a /\ Lesser(a, b) <= b
           /\ a <= b => Lesser(a, b) = a
           /\ b <= a => Lesser(a, b) = b
  BY DEF Lesser

\* One more split, cut to what the cap leaves, still fits.
LEMMA TakenFits ==
    ASSUME NEW M, NEW total \in Nat, NEW out \in Fits(M, total), NEW s \in UsableSplit(M)
    PROVE  /\ Taken(out, s, total) \in Fits(M, total)
           /\ SplitsTotal(Taken(out, s, total)) = Lesser(total, SplitsTotal(out) + s.amt)
  <1> DEFINE left == total - SplitsTotal(out)
             t    == [s EXCEPT !.amt = Lesser(s.amt, left)]
  <1>1. /\ out \in Usable(M) /\ out \in Sent(M) /\ SplitsTotal(out) \in Nat /\ SplitsTotal(out) <= total
        /\ s \in [mode : M, amt : Nat \ {0}] /\ left \in Nat
    BY FitsFacts DEF UsableSplit
  <1>2. CASE left > 0
    <2>1. Taken(out, s, total) = Append(out, t) BY <1>1, <1>2 DEF Taken
    <2>2. Lesser(s.amt, left) \in Nat \ {0} BY <1>1, <1>2 DEF Lesser
    <2>3. t \in [mode : M, amt : Nat \ {0}] /\ t.amt = Lesser(s.amt, left) BY <1>1, <2>2
    <2>4. Append(out, t) \in Usable(M) BY <1>1, <2>3, AppendProperties DEF Usable, UsableSplit
    <2>5. SplitsTotal(Append(out, t)) = SplitsTotal(out) + t.amt BY <2>3, <1>1, TotalOfAppend
    <2>6. SplitsTotal(out) + Lesser(s.amt, left) = Lesser(total, SplitsTotal(out) + s.amt) BY <1>1 DEF Lesser
    <2>7. Lesser(total, SplitsTotal(out) + s.amt) <= total BY <1>1 DEF Lesser
    <2> HIDE DEF t, left
    <2> QED BY <2>1, <2>3, <2>4, <2>5, <2>6, <2>7 DEF Fits
  <1>3. CASE left = 0 BY <1>1, <1>3 DEF Taken, Lesser
  <1> QED BY <1>1, <1>2, <1>3

\* clampPaymentSplits takes the splits one at a time.
LEMMA ClampedRuns ==
    ASSUME NEW M, NEW total \in Nat, NEW splits \in Usable(M)
    PROVE  \E acc \in [0 .. Len(splits) -> Fits(M, total)] :
               /\ acc[0] = << >>
               /\ \A k \in 1 .. Len(splits) : acc[k] = Taken(acc[k - 1], splits[k], total)
               /\ Clamped(splits, total) = acc[Len(splits)]
  <1> DEFINE n     == Len(splits)
             T     == Fits(M, total)
             h     == [k \in 1 .. n |-> [t \in T |-> Taken(t, splits[k], total)]]
             Eq(i) == i = [s \in SUBSET (1 .. n) |->
                             IF s = {} THEN << >> ELSE Taken(i[s \ {Max(s)}], splits[Max(s)], total)]
             iter  == CHOOSE i : Eq(i)
  <1>1. n \in Nat /\ DOMAIN splits = 1 .. n /\ \A k \in 1 .. n : splits[k] \in UsableSplit(M)
    <2>1. splits \in Seq(UsableSplit(M)) BY DEF Usable
    <2> QED BY <2>1, ElementOfSeq, LenProperties
  <1>2. << >> \in T BY FitsEmpty
  <1>3. h \in [1 .. n -> [T -> T]] BY <1>1, TakenFits
  <1>4. Clamped(splits, total) = iter[1 .. n] BY <1>1 DEF Clamped, FoldLeft, MapThenFoldSet
  <1>5. PICK g \in [SUBSET (1 .. n) -> T] : Folding(g, << >>, h, n, T)
    <2> HIDE DEF n, T, h
    <2> QED BY <1>1, <1>2, <1>3, FoldExists
  <1>6. ASSUME NEW t \in T, NEW s \in SUBSET (1 .. n), s # {}
        PROVE  h[Max(s)][t] = Taken(t, splits[Max(s)], total)
    <2>1. Max(s) \in 1 .. n BY <1>1, <1>6, MaxIsIn
    <2> HIDE DEF T, n
    <2> QED BY <2>1
  <1>7. Eq(iter)
    <2>1. Eq(g)
      <3> HIDE DEF T, n, h
      <3>1. g[{}] = << >> BY <1>5 DEF Folding
      <3>2. ASSUME NEW s \in SUBSET (1 .. n), s # {}
            PROVE  g[s] = Taken(g[s \ {Max(s)}], splits[Max(s)], total)
        <4>1. g[s \ {Max(s)}] \in T BY <1>5
        <4> QED BY <1>5, <1>6, <3>2, <4>1 DEF Folding
      <3> QED BY <1>5, <3>1, <3>2
    <2> QED BY <2>1
  <1>8. Folding(iter, << >>, h, n, T)
    <2> HIDE DEF iter, T, n, h
    <2>1. iter[{}] = << >> BY <1>7
    <2>2. ASSUME NEW s \in SUBSET (1 .. n), s # {}, iter[s \ {Max(s)}] \in T
          PROVE  iter[s] = h[Max(s)][iter[s \ {Max(s)}]]
      BY <1>6, <1>7, <2>2
    <2> QED BY <1>1, <1>2, <1>3, <2>1, <2>2 DEF Folding
  <1>9. PICK acc : Run(acc, << >>, h, n, T) /\ iter[1 .. n] = acc[n]
    <2> HIDE DEF iter, h, T, n
    <2> QED BY <1>8, FoldRuns
  <1>10. \A k \in 1 .. n : acc[k] = Taken(acc[k - 1], splits[k], total)
    <2> SUFFICES ASSUME NEW k \in 1 .. n PROVE acc[k] = Taken(acc[k - 1], splits[k], total) OBVIOUS
    <2>1. acc[k - 1] \in T /\ acc[k] = h[k][acc[k - 1]]
      <3> HIDE DEF T, h, n
      <3> QED BY <1>1, <1>9 DEF Run
    <2> HIDE DEF T, n
    <2> QED BY <2>1
  <1> QED BY <1>4, <1>9, <1>10 DEF Run


\* Clamped: as much as there is, up to the total
LEMMA ClampedTotal ==
    ASSUME NEW M, NEW total \in Nat, NEW splits \in Usable(M)
    PROVE  /\ Clamped(splits, total) \in Usable(M)
           /\ SplitsTotal(Clamped(splits, total)) = Lesser(total, SplitsTotal(splits))
  <1> DEFINE n    == Len(splits)
             A(k) == SumFunctionOnSet(Amts(splits), 1 .. k)
  <1>1. splits \in Sent(M) /\ n \in Nat /\ DOMAIN splits = 1 .. n /\ SplitsTotal(splits) = A(n)
    BY UsableFacts, SplitsTotalIs
  <1>2. PICK acc \in [0 .. n -> Fits(M, total)] :
            /\ acc[0] = << >>
            /\ \A k \in 1 .. n : acc[k] = Taken(acc[k - 1], splits[k], total)
            /\ Clamped(splits, total) = acc[n]
    BY ClampedRuns
  <1> DEFINE Good == {k \in 0 .. n : SplitsTotal(acc[k]) = Lesser(total, A(k))}
  <1>3. 0 \in Good
    <2>1. A(0) = 0
      <3>1. 1 .. 0 = {} OBVIOUS
      <3> QED BY <3>1, SumEmpty
    <2>2. Lesser(total, 0) = 0 BY DEF Lesser
    <2> QED BY <1>1, <1>2, <2>1, <2>2, TotalOfEmpty
  <1>4. ASSUME NEW k \in 1 .. n, k - 1 \in Good PROVE k \in Good
    <2>1. acc[k - 1] \in Fits(M, total) /\ splits[k] \in UsableSplit(M) /\ splits[k].amt \in Nat
      BY <1>1, <1>2, UsableFacts DEF UsableSplit
    <2>2. SplitsTotal(acc[k]) = Lesser(total, SplitsTotal(acc[k - 1]) + splits[k].amt) BY <1>2, <2>1, TakenFits
    <2>3. A(k) = splits[k].amt + A(k - 1) /\ A(k - 1) \in Int BY <1>1, PrefixTotal
    <2>4. SplitsTotal(acc[k - 1]) = Lesser(total, A(k - 1)) BY <1>4
    <2>5. k \in 0 .. n BY <1>1
    <2> HIDE DEF A
    <2>6. Lesser(total, Lesser(total, A(k - 1)) + splits[k].amt) = Lesser(total, A(k)) BY <2>1, <2>3 DEF Lesser
    <2> QED BY <2>2, <2>4, <2>5, <2>6
  <1>5. n \in Good
    <2>1. \A k \in 0 .. n : k \in Good
      <3> HIDE DEF Good, n
      <3> QED BY <1>1, <1>3, <1>4, UpTo
    <2> QED BY <1>1, <2>1
  <1>6. acc[n] \in Usable(M) BY <1>1, <1>2 DEF Fits
  <1> QED BY <1>1, <1>2, <1>5, <1>6

\* Merging splits of which one is positive leaves something.
LEMMA SomethingThere ==
    ASSUME NEW M, NEW splits \in Usable(M), splits # << >>
    PROVE  SplitsTotal(splits) > 0
  <1> DEFINE S == DOMAIN splits
  <1>1. 1 \in S /\ IsFiniteSet(S) /\ \A k \in S : Amts(splits)[k] \in Nat \ {0}
    BY EmptySeq, UsableFacts DEF Usable, Amts
  <1> HIDE DEF S
  <1>2. SumFunctionOnSet(Amts(splits), S) = Amts(splits)[1] + SumFunctionOnSet(Amts(splits), S \ {1})
    BY <1>1, SumTakes
  <1>3. SumFunctionOnSet(Amts(splits), S \ {1}) \in Nat
    <2>1. IsFiniteSet(S \ {1}) BY <1>1, FS_RemoveElement
    <2> QED BY <1>1, <2>1, SumNat
  <1> QED BY <1>1, <1>2, <1>3, SplitsTotalIs DEF S


\* GrowLast
LEMMA GrowLastTotal ==
    ASSUME NEW M, NEW splits \in Usable(M), splits # << >>, NEW extra \in Nat
    PROVE  /\ GrowLast(splits, extra) \in Usable(M)
           /\ SplitsTotal(GrowLast(splits, extra)) = SplitsTotal(splits) + extra
  <1> DEFINE n   == Len(splits)
             s   == [splits[n] EXCEPT !.amt = @ + extra]
             new == [splits EXCEPT ![n] = s]
  <1>1. GrowLast(splits, extra) = new BY DEF GrowLast
  <1>2. splits \in Seq(UsableSplit(M)) /\ splits \in Sent(M) /\ SplitsTotal(splits) \in Nat
    BY UsableFacts DEF Usable
  <1>3. n \in 1 .. Len(splits) /\ DOMAIN splits = 1 .. n BY <1>2, EmptySeq, UsableFacts
  <1>4. splits[n] \in [mode : M, amt : Nat \ {0}] BY <1>3, UsableFacts
  <1>5. s \in [mode : M, amt : Nat \ {0}] /\ s.amt = splits[n].amt + extra BY <1>4
  <1>6. s \in UsableSplit(M) BY <1>5 DEF UsableSplit
  <1> HIDE DEF s, n
  <1>7. /\ new \in Seq(UsableSplit(M)) /\ Len(new) = Len(splits)
        /\ \A j \in 1 .. Len(splits) : new[j] = IF j = n THEN s ELSE splits[j]
    BY <1>2, <1>3, <1>6, ExceptSeq
  <1>8. new \in Usable(M) /\ new \in Sent(M) BY <1>7, UsableFacts DEF Usable
  <1> HIDE DEF new
  <1>9. SplitsTotal(new) = SplitsTotal(splits) - splits[n].amt + new[n].amt
    BY <1>2, <1>3, <1>7, <1>8, TotalOfChange
  <1>10. new[n] = s BY <1>3, <1>7
  <1> QED BY <1>1, <1>2, <1>4, <1>5, <1>8, <1>9, <1>10

\* The total of a single split.
LEMMA TotalOfOne ==
    ASSUME NEW M, NEW mode \in M, NEW amount \in Nat \ {0}
    PROVE  /\ << [mode |-> mode, amt |-> amount] >> \in Usable(M)
           /\ << [mode |-> mode, amt |-> amount] >> # << >>
           /\ SplitsTotal(<< [mode |-> mode, amt |-> amount] >>) = amount
  <1> DEFINE s == [mode |-> mode, amt |-> amount]
  <1>1. s \in [mode : M, amt : Nat \ {0}] /\ s \in [mode : M, amt : Int] /\ s.amt = amount OBVIOUS
  <1>2. << s >> = Append(<< >>, s) OBVIOUS
  <1>3. << >> \in Sent(M) BY DEF Sent
  <1> HIDE DEF s
  <1>4. SplitsTotal(Append(<< >>, s)) = SplitsTotal(<< >>) + s.amt BY <1>1, <1>3, TotalOfAppend
  <1>5. << s >> \in Usable(M) /\ << s >> # << >> BY <1>1 DEF Usable, UsableSplit
  <1>6. SplitsTotal(<< s >>) = amount BY <1>1, <1>2, <1>4, TotalOfEmpty
  <1> QED BY <1>5, <1>6 DEF s

\* Merging keeps only usable splits.
LEMMA MergedUsable ==
    ASSUME NEW M, NEW splits \in Sent(M)
    PROVE  Merged(splits) \in Usable(M) /\ SplitsTotal(Merged(splits)) \in Nat
  BY MergedTidy, TidyFacts, UsableFacts

\* Adjusted: the amount, whatever was there
LEMMA AdjustedTotal ==
    ASSUME NEW M, NEW splits \in Sent(M), "cash" \in M \/ Merged(splits) # << >>, NEW amount \in Int
    PROVE  /\ Adjusted(splits, amount) \in Usable(M)
           /\ SplitsTotal(Adjusted(splits, amount)) = IF amount <= 0 THEN 0 ELSE amount
  <1> DEFINE merged == Merged(splits)
             sum    == SplitsTotal(merged)
  <1>1. merged \in Usable(M) /\ sum \in Nat BY MergedUsable
  <1>2. CASE amount <= 0 BY <1>2, TotalOfEmpty DEF Adjusted, Usable
  <1>3. CASE amount > 0 /\ merged = << >> BY <1>3, TotalOfOne DEF Adjusted
  <1>4. CASE amount > 0 /\ merged # << >> /\ amount >= sum BY <1>1, <1>4, GrowLastTotal DEF Adjusted, sum
  <1>5. CASE amount > 0 /\ merged # << >> /\ amount < sum BY <1>1, <1>5, ClampedTotal DEF Adjusted, Lesser
  <1> QED BY <1>1, <1>2, <1>3, <1>4, <1>5

\* Resolved
LEMMA ResolvedTotal ==
    ASSUME NEW M, NEW splits \in Usable(M), NEW mode \in M, NEW amount \in Int
    PROVE  /\ Resolved(splits, mode, amount) \in Usable(M)
           /\ SplitsTotal(Resolved(splits, mode, amount)) =
                  IF SplitsTotal(splits) = 0 /\ amount > 0 THEN amount ELSE SplitsTotal(splits)
  BY MergedUsable, MergedTotal, UsableFacts, TotalOfEmpty, TotalOfOne, SomethingThere DEF Resolved

\* Selected: not beyond the amount
LEMMA SelectedTotal ==
    ASSUME NEW M, NEW input \in Sent(M), NEW existing \in Sent(M), NEW amount \in Nat
    PROVE  /\ Selected(input, existing, amount) \in Usable(M)
           /\ SplitsTotal(Selected(input, existing, amount)) <= amount
           /\ input = << >> /\ SplitsTotal(Selected(input, existing, amount)) # 0 =>
                  SplitsTotal(Selected(input, existing, amount)) = amount
  <1>1. CASE input # << >> BY <1>1, MergedUsable, ClampedTotal DEF Selected, Lesser
  <1>2. CASE input = << >> /\ Merged(existing) = << >> BY <1>2, TotalOfEmpty DEF Selected, Usable
  <1>3. CASE input = << >> /\ Merged(existing) # << >> BY <1>3, AdjustedTotal DEF Selected
  <1> QED BY <1>1, <1>2, <1>3

\* FinalSplits: never beyond the document's total, and all of it once paid
LEMMA FinalSplitsTotal ==
    ASSUME NEW M, NEW input \in Sent(M), NEW existing \in Sent(M),
           NEW status, NEW total \in Nat, NEW paid \in Int, NEW mode \in M
    PROVE  /\ FinalSplits(status, total, paid, mode, input, existing) \in Usable(M)
           /\ SplitsTotal(FinalSplits(status, total, paid, mode, input, existing)) <= total
           /\ status = "paid" => SplitsTotal(FinalSplits(status, total, paid, mode, input, existing)) = total
           /\ input = << >> => SplitsTotal(FinalSplits(status, total, paid, mode, input, existing)) = FinalAmount(status, total, paid)
  <1> DEFINE amount   == FinalAmount(status, total, paid)
             selected == Selected(input, existing, amount)
             resolved == Resolved(selected, mode, amount)
             short    == total - SplitsTotal(resolved)
  <1>1. amount \in Nat /\ amount <= total /\ (status = "paid" => amount = total) BY DEF FinalAmount
  <1> HIDE DEF amount
  <1>2. /\ selected \in Usable(M) /\ SplitsTotal(selected) <= amount /\ SplitsTotal(selected) \in Nat
        /\ input = << >> /\ SplitsTotal(selected) # 0 => SplitsTotal(selected) = amount
    BY <1>1, SelectedTotal, UsableFacts
  <1> HIDE DEF selected
  <1>3. /\ resolved \in Usable(M)
        /\ SplitsTotal(resolved) = IF SplitsTotal(selected) = 0 /\ amount > 0 THEN amount ELSE SplitsTotal(selected)
    BY <1>1, <1>2, ResolvedTotal
  <1>4. /\ SplitsTotal(resolved) \in Nat /\ SplitsTotal(resolved) <= total /\ short \in Nat
        /\ input = << >> => SplitsTotal(resolved) = amount
    BY <1>1, <1>2, <1>3
  <1>5. CASE status = "paid" /\ short > 0 /\ resolved = << >>
    <2>1. FinalSplits(status, total, paid, mode, input, existing) = Resolved(<< >>, mode, total)
      BY <1>5 DEF FinalSplits, amount, selected
    <2>2. << >> \in Usable(M) /\ SplitsTotal(<< >>) = 0 /\ total > 0 BY <1>4, <1>5, TotalOfEmpty DEF Usable
    <2>3. Resolved(<< >>, mode, total) \in Usable(M) /\ SplitsTotal(Resolved(<< >>, mode, total)) = total
      BY <2>2, ResolvedTotal
    <2> QED BY <1>1, <1>5, <2>1, <2>3 DEF amount
  <1>6. CASE status = "paid" /\ short > 0 /\ resolved # << >>
    <2>1. FinalSplits(status, total, paid, mode, input, existing) = GrowLast(resolved, short)
      BY <1>6 DEF FinalSplits, amount, selected
    <2>2. GrowLast(resolved, short) \in Usable(M) /\ SplitsTotal(GrowLast(resolved, short)) = SplitsTotal(resolved) + short
      <3> HIDE DEF resolved, short
      <3> QED BY <1>3, <1>4, <1>6, GrowLastTotal
    <2>3. SplitsTotal(resolved) + short = total BY <1>4
    <2> QED BY <1>1, <1>6, <2>1, <2>2, <2>3 DEF amount
  <1>7. CASE ~ (status = "paid" /\ short > 0) BY <1>7, <1>4, <1>3 DEF FinalSplits, amount, selected
  <1> QED BY <1>5, <1>6, <1>7

\* The mode an invoice shows is a payment mode.
LEMMA FirstModeIn ==
    ASSUME NEW M, NEW splits \in Usable(M), NEW mode \in M
    PROVE  FirstMode(splits, mode) \in M
  BY EmptySeq, UsableFacts DEF FirstMode, Usable

\* Something is left after merging.
LEMMA MergedNonEmpty ==
    ASSUME NEW M, NEW splits \in Usable(M), splits # << >>
    PROVE  Merged(splits) # << >>
  <1>1. SplitsTotal(Merged(splits)) > 0 BY SomethingThere, MergedTotal
  <1> QED BY <1>1, TotalOfEmpty

-----------------------------------------------------------------------------
(* Payment ids in order *)

\* The rank of a payment id in a set counts it and the smaller ones: ranks are
\* distinct numbers up to the size of the set.
LEMMA RankFacts ==
    ASSUME NEW P, P \subseteq PayIds
    PROVE  /\ IsFiniteSet(P) /\ Cardinality(P) \in Nat
           /\ \A p \in P : Rank(P, p) \in 1 .. Cardinality(P)
           /\ \A p, n \in P : n < p => Rank(P, n) < Rank(P, p)
           /\ \A p, n \in P : Rank(P, p) = Rank(P, n) => p = n
  <1>1. IsFiniteSet(PayIds) /\ PayIds \subseteq Int
    BY ReceivablesAssumption, FS_Interval DEF PayIds, ReceivablesAssumption
  <1>2. IsFiniteSet(P) /\ Cardinality(P) \in Nat BY <1>1, FS_Subset, FS_CardinalityType
  <1> DEFINE Low(p) == {n \in P : n <= p}
  <1>3. ASSUME NEW p \in P
        PROVE  /\ Rank(P, p) = Cardinality(Low(p)) /\ IsFiniteSet(Low(p))
               /\ Rank(P, p) \in 1 .. Cardinality(P)
    <2>1. IsFiniteSet(Low(p)) /\ Cardinality(Low(p)) <= Cardinality(P) /\ Cardinality(Low(p)) \in Nat
      <3>1. Low(p) \subseteq P OBVIOUS
      <3> QED BY <1>2, <3>1, FS_Subset, FS_CardinalityType
    <2>2. p \in Low(p) BY <1>1
    <2>3. Cardinality(Low(p)) # 0 BY <2>1, <2>2, FS_EmptySet
    <2> QED BY <1>2, <2>1, <2>3 DEF Rank
  <1>4. ASSUME NEW p \in P, NEW n \in P, n < p
        PROVE  Rank(P, n) < Rank(P, p)
    <2>1. Low(n) \subseteq Low(p) /\ p \in Low(p) /\ p \notin Low(n)
      <3>1. p \in Int /\ n \in Int /\ n < p /\ \A x \in P : x \in Int BY <1>1, <1>4
      <3>2. \A x \in P : x <= n => x <= p BY <3>1
      <3>3. p <= p /\ ~ (p <= n) BY <3>1
      <3> QED BY <3>2, <3>3
    <2>2. Low(n) # Low(p) BY <2>1
    <2>3. IsFiniteSet(Low(p)) /\ IsFiniteSet(Low(n)) BY <1>3
    <2> HIDE DEF Low
    <2>4. Cardinality(Low(n)) < Cardinality(Low(p)) BY <2>1, <2>2, <2>3, FS_Subset, FS_CardinalityType
    <2> QED BY <1>3, <2>4
  <1>5. \A p, n \in P : Rank(P, p) = Rank(P, n) => p = n
    <2> SUFFICES ASSUME NEW p \in P, NEW n \in P, Rank(P, p) = Rank(P, n), p # n PROVE FALSE OBVIOUS
    <2>1. Rank(P, p) \in Int /\ Rank(P, n) \in Int /\ p \in Int /\ n \in Int
      <3>1. /\ Rank(P, p) \in 1 .. Cardinality(P) /\ Rank(P, n) \in 1 .. Cardinality(P)
            /\ Cardinality(P) \in Nat
        BY <1>2, <1>3
      <3> QED BY <1>1, <3>1
    <2>2. n < p \/ p < n BY <2>1
    <2> QED BY <1>4, <2>1, <2>2
  <1> QED BY <1>2, <1>3, <1>4, <1>5

\* Every place is taken.
LEMMA RankOnto ==
    ASSUME NEW P, P \subseteq PayIds, NEW k \in 1 .. Cardinality(P)
    PROVE  \E p \in P : Rank(P, p) = k
  <1> DEFINE S == 1 .. Cardinality(P)
             m == [p \in P |-> Rank(P, p)]
  <1>1. IsFiniteSet(S) /\ Cardinality(S) = Cardinality(P)
    <2>1. Cardinality(P) \in Nat BY RankFacts
    <2> QED BY <2>1, FS_Interval
  <1>2. m \in Injection(P, S) BY RankFacts DEF Injection, IsInjective
  <1>3. m \in Surjection(P, S)
    <2> HIDE DEF m, S
    <2> QED BY <1>1, <1>2, FS_Injection
  <1>4. \E p \in P : m[p] = k BY <1>3 DEF Surjection
  <1> QED BY <1>4

\* Every such number is the rank of one member.
LEMMA NthIs ==
    ASSUME NEW P, P \subseteq PayIds
    PROVE  /\ \A k \in 1 .. Cardinality(P) : Nth(P, k) \in P /\ Rank(P, Nth(P, k)) = k
           /\ \A p \in P : Nth(P, Rank(P, p)) = p
  BY RankOnto, RankFacts DEF Nth

\* The first n in a set take the places up to n.
LEMMA FirstPlaces ==
    ASSUME NEW P, P \subseteq PayIds, NEW n \in Nat, n <= Cardinality(P)
    PROVE  {Rank(P, p) : p \in {x \in P : Rank(P, x) <= n}} = 1 .. n
  <1>1. \A p \in P : Rank(P, p) \in 1 .. Cardinality(P) BY RankFacts
  <1>2. ASSUME NEW k \in 1 .. n PROVE \E p \in P : Rank(P, p) = k
    <2>1. k \in 1 .. Cardinality(P) BY RankFacts
    <2> QED BY <2>1, RankOnto
  <1> QED BY <1>1, <1>2

-----------------------------------------------------------------------------
(* Types of the tables and of the requests, and the bank *)

(* Constant-level laws of the tables *)

PaysTyped(table) ==
    /\ DOMAIN table \subseteq PayIds
    /\ \A p \in DOMAIN table : table[p] \in PaymentType

\* The payment ids are finitely many integers.
LEMMA PayIdsFinite == IsFiniteSet(PayIds) /\ PayIds \subseteq Int /\ MaxPay \in Nat
  BY ReceivablesAssumption, FS_Interval DEF PayIds, ReceivablesAssumption

\* What payments come to
NetsOf(table) == [p \in DOMAIN table |-> table[p].net]

\* The net amounts of a table of payments, as a sum.
LEMMA NetInIs == ASSUME NEW table PROVE NetIn(table) = SumFunctionOnSet(NetsOf(table), DOMAIN table)
  BY DEF NetIn, Sum, SumFunction, NetsOf

\* Payments come to a natural number.
LEMMA NetInNat ==
    ASSUME NEW table, PaysTyped(table)
    PROVE  NetIn(table) \in Nat
  BY PayIdsFinite, FS_Subset, SumNat, NetInIs DEF PaysTyped, PaymentType, NetsOf

NumbersTyped(table) ==
    \A p \in PayIds : table[p].st \in {"active", "cancelled"} => table[p].num \in Nat \ {0}

\* allocateUniquePaymentInNumber returns a positive number.
LEMMA NextNumberIs ==
    ASSUME NEW table, NumbersTyped(table)
    PROVE  NextNumber(table) \in Nat \ {0}
  <1> DEFINE W == {n \in PayIds : table[n].st \in {"active", "cancelled"}}
             f == [p \in W |-> table[p].num]
             used == {f[p] : p \in W}
  <1>1. NextNumber(table) = 1 + (IF used = {} THEN 0 ELSE Max(used)) BY DEF NextNumber
  <1>2. used \subseteq Nat BY DEF NumbersTyped
  <1>3. IsFiniteSet(used)
    <2>1. IsFiniteSet(W) BY PayIdsFinite, FS_Subset
    <2> HIDE DEF W, f
    <2> QED BY <2>1, ImageFinite
  <1> HIDE DEF used
  <1>4. used # {} => Max(used) \in Nat
    <2> SUFFICES ASSUME used # {} PROVE Max(used) \in Nat OBVIOUS
    <2>1. used \subseteq Int BY <1>2
    <2>2. Max(used) \in used BY <1>3, <2>1, MaxOfFinite
    <2> QED BY <1>2, <2>2
  <1> QED BY <1>1, <1>4

\* What the bank rows R of a table come to
RowsTyped(rows) ==
    /\ DOMAIN rows = PayIds
    /\ \A p \in PayIds : rows[p] = NoRow \/ rows[p] \in RowType
PostedIn(rows)  == {p \in PayIds : rows[p].st = "posted"}
InBank(rows)    == [p \in PayIds |-> IF rows[p].mode = "bank" THEN rows[p].amt ELSE 0]
BankIn(rows, R) == SumFunctionOnSet(InBank(rows), R)

\* Posted rows are of the row type.
LEMMA PostedTyped ==
    ASSUME NEW rows, RowsTyped(rows)
    PROVE  /\ \A p \in PostedIn(rows) : rows[p] \in RowType /\ rows[p].amt \in Nat \ {0}
           /\ IsFiniteSet(PostedIn(rows)) /\ PostedIn(rows) \subseteq PayIds
           /\ \A p \in PostedIn(rows) : InBank(rows)[p] \in Nat
  <1>1. ASSUME NEW p \in PostedIn(rows) PROVE rows[p] \in RowType /\ rows[p].amt \in Nat \ {0}
    <2>1. rows[p] \in RowType BY DEF RowsTyped, PostedIn, NoRow
    <2> QED BY <2>1 DEF RowType
  <1>2. IsFiniteSet(PostedIn(rows)) /\ PostedIn(rows) \subseteq PayIds BY PayIdsFinite, FS_Subset DEF PostedIn
  <1>3. \A p \in PostedIn(rows) : InBank(rows)[p] \in Nat BY <1>1, <1>2 DEF InBank
  <1> QED BY <1>1, <1>2, <1>3

\* What bank rows come to is a natural number.
LEMMA BankInNat ==
    ASSUME NEW rows, RowsTyped(rows), NEW R, R \subseteq PostedIn(rows)
    PROVE  BankIn(rows, R) \in Nat /\ IsFiniteSet(R)
  BY PostedTyped, FS_Subset, SumNat DEF BankIn

\* The rows R go and the rows of the ids in `new` come.
RowsChange(old, rows, R, new) ==
    /\ RowsTyped(old) /\ RowsTyped(rows)
    /\ R \subseteq PostedIn(old) /\ new \cap PostedIn(old) = {}
    /\ PostedIn(rows) = (PostedIn(old) \ R) \cup new
    /\ \A p \in PostedIn(old) \ R : rows[p] = old[p]

\* The bank rows after some rows have gone and others have come.
LEMMA BankAfter ==
    ASSUME NEW old, NEW rows, NEW R, NEW new, RowsChange(old, rows, R, new)
    PROVE  BankIn(rows, PostedIn(rows)) = BankIn(old, PostedIn(old)) - BankIn(old, R) + BankIn(rows, new)
  <1> DEFINE Kept == PostedIn(old) \ R
             f    == InBank(rows)
             g    == InBank(old)
  <1>0. /\ RowsTyped(old) /\ RowsTyped(rows)
        /\ R \subseteq PostedIn(old) /\ new \cap PostedIn(old) = {}
        /\ PostedIn(rows) = (PostedIn(old) \ R) \cup new
        /\ \A p \in PostedIn(old) \ R : rows[p] = old[p]
    BY DEF RowsChange
  <1>1. /\ Kept \subseteq PostedIn(rows) /\ new \subseteq PostedIn(rows) /\ Kept \cap new = {}
        /\ PostedIn(rows) = Kept \cup new
    BY <1>0
  <1>2. IsFiniteSet(Kept) /\ IsFiniteSet(new) /\ IsFiniteSet(PostedIn(old)) /\ \A p \in Kept \cup new : f[p] \in Int
    BY <1>0, <1>1, BankInNat, PostedTyped
  <1>3. \A p \in Kept : f[p] = g[p] /\ g[p] \in Int BY <1>0, PostedTyped DEF InBank
  <1>3a. \A p \in PostedIn(old) : g[p] \in Int BY <1>0, PostedTyped
  <1> HIDE DEF f, g
  <1>4. SumFunctionOnSet(f, Kept \cup new) = SumFunctionOnSet(f, Kept) + SumFunctionOnSet(f, new)
    <2> HIDE DEF Kept
    <2> QED BY <1>1, <1>2, SumUnion
  <1>5. SumFunctionOnSet(f, Kept) = SumFunctionOnSet(g, Kept)
    <2> HIDE DEF Kept
    <2> QED BY <1>2, <1>3, SumAgrees
  <1>6. SumFunctionOnSet(g, Kept) = SumFunctionOnSet(g, PostedIn(old)) - SumFunctionOnSet(g, R)
    <2>1. R \in SUBSET PostedIn(old) BY <1>0
    <2> QED BY <1>2, <1>3a, <2>1, SumWithout
  <1> QED BY <1>1, <1>4, <1>5, <1>6 DEF BankIn, f, g

\* BankOf(R) and Posted, for the rows table
LEMMA BankOfIs ==
    ASSUME NEW R, R \subseteq Posted, RowsTyped(row)
    PROVE  BankOf(R) = BankIn(row, R)
  <1> DEFINE f == [r \in R |-> BankAmt(r)]
             g == InBank(row)
  <1>1. BankOf(R) = SumFunctionOnSet(f, R) BY DEF BankOf, Sum, SumFunction
  <1>2. PostedIn(row) = Posted /\ IsFiniteSet(R) BY BankInNat DEF PostedIn, Posted
  <1>3. \A r \in R : f[r] \in Int /\ f[r] = g[r] BY <1>2, PostedTyped DEF BankAmt, InBank
  <1> HIDE DEF f, g
  <1>4. SumFunctionOnSet(f, R) = SumFunctionOnSet(g, R) BY <1>2, <1>3, SumAgrees
  <1> QED BY <1>1, <1>4 DEF BankIn, g

(* Types of the tables and of the requests *)

Typed(r, fields) == fields \subseteq DOMAIN r

Creating(r) ==
    /\ r.op = "create_invoice" /\ r.step \in {"loyalty", "journal", "pay", "party"}
    /\ Typed(r, {"op", "step", "i", "v", "splits"})
    /\ r.i \in Invoices /\ r.v \in InvoiceType /\ r.splits \in Usable(Modes)
Editing(r) ==
    /\ r.op = "update_invoice" /\ r.step = "save"
    /\ Typed(r, {"op", "step", "i", "prev", "had"})
    /\ r.i \in Invoices /\ r.prev \in InvoiceType /\ r.had \in Usable(Modes)
Patching(r) ==
    /\ r.op = "patch_status" /\ r.step = "save"
    /\ Typed(r, {"op", "step", "i", "prev"})
    /\ r.i \in Invoices /\ r.prev \in InvoiceType
Saved(r) ==
    /\ r.op \in {"update_invoice", "patch_status"} /\ r.step \in {"ledger", "find", "cancel", "party"}
    /\ Typed(r, {"op", "step", "i", "prev", "v"})
    /\ r.i \in Invoices /\ r.prev \in InvoiceType /\ r.v \in InvoiceType
    /\ r.op = "update_invoice" =>
         Typed(r, {"had", "splits"}) /\ r.had \in Usable(Modes) /\ r.splits \in Usable(Modes)
    /\ r.step = "cancel" => Typed(r, {"read"})
Writing(r) ==
    /\ r.op = "patch_status" /\ r.step = "write"
    /\ Typed(r, {"op", "step", "q", "balance"})
    /\ r.q \in Parties /\ r.balance \in Int
Erasing(r) ==
    /\ r.op = "delete_invoice" /\ r.step = "erase"
    /\ Typed(r, {"op", "step", "i", "v"})
    /\ r.i \in Invoices /\ r.v \in InvoiceType
Recording(r) ==
    /\ r.op = "create_payment" /\ r.step = "record"
    /\ Typed(r, {"op", "step", "i", "q", "net", "mode", "num", "owed"})
    /\ r.i \in Invoices \cup {None} /\ r.q \in Parties /\ r.net \in Amounts /\ r.mode \in Modes
    /\ r.num \in Nat \ {0} /\ r.owed \in Int
    /\ r.i # None => Typed(r, {"v"}) /\ r.v \in InvoiceType
Reversing(r) ==
    /\ r.op \in {"delete_payment", "cancel_payment"} /\ r.step = "reverse"
    /\ Typed(r, {"op", "step", "read"})
Marking(r) ==
    /\ r.op = "sync_overdue" /\ r.step = "mark"
    /\ Typed(r, {"op", "step", "ids"})
    /\ r.ids \subseteq Invoices

RequestTyped(r) ==
    /\ \/ r = Idle
       \/ Creating(r) \/ Editing(r) \/ Patching(r) \/ Saved(r) \/ Writing(r)
       \/ Erasing(r) \/ Recording(r) \/ Reversing(r) \/ Marking(r)
    /\ "read" \in DOMAIN r => PaysTyped(r.read)

InvTyped(table) ==
    /\ DOMAIN table = Invoices
    /\ \A i \in Invoices : table[i].doc \in {"unused", "deleted"} \/ table[i] \in InvoiceType
Unused == [st |-> "unused"]
PayTyped(table) ==
    /\ DOMAIN table = PayIds
    /\ \A p \in PayIds : table[p] \in {Unused, Gone} \/ table[p] \in PaymentType
BalTyped(balances) == balances \in [Parties -> Int]
TablesTyped == InvTyped(inv) /\ PayTyped(pay) /\ RowsTyped(row) /\ bank \in Int /\ BalTyped(bal)
RequestsTyped == DOMAIN req = Clients /\ \A c \in Clients : RequestTyped(req[c])

Types == TablesTyped /\ RequestsTyped

\* The initial tables are of their types.
LEMMA TypesInit == Init => Types
  BY DEF Init, Types, TablesTyped, RequestsTyped, InvTyped, PayTyped, Unused, RowsTyped, BalTyped, RequestTyped, Idle

\* A live invoice is an invoice record.
LEMMA LiveTyped ==
    ASSUME InvTyped(inv), NEW i \in Invoices, Live(i)
    PROVE  /\ inv[i] \in InvoiceType /\ inv[i].party \in Parties /\ inv[i].total \in Totals /\ inv[i].total \in Nat
           /\ inv[i].paid \in Nat /\ inv[i].status \in AllStatuses /\ inv[i].mode \in Modes /\ inv[i].late \in BOOLEAN
  <1>1. inv[i] \in InvoiceType BY DEF InvTyped, Live
  <1> QED BY <1>1, ReceivablesAssumption DEF InvoiceType, ReceivablesAssumption

\* Payments that are active or cancelled are payment records.
LEMMA OfTyped ==
    ASSUME PayTyped(pay), NEW P, P \subseteq PayIds, \A p \in P : pay[p].st \notin {"unused", "deleted"}
    PROVE  PaysTyped(Of(P)) /\ DOMAIN Of(P) = P
  BY DEF PayTyped, PaysTyped, Of, Unused, Gone

\* So are the active payments of an invoice.
LEMMA ActiveTyped ==
    ASSUME PayTyped(pay), NEW i
    PROVE  /\ ActiveOf(i) \subseteq PayIds /\ PaysTyped(Of(ActiveOf(i))) /\ DOMAIN Of(ActiveOf(i)) = ActiveOf(i)
           /\ NetOf(ActiveOf(i)) \in Nat
  BY OfTyped, NetInNat DEF ActiveOf, NetOf

\* normalizeInvoicePaymentStatus and invoiceStatusForPaidAmount return a status.
LEMMA StatusIn ==
    ASSUME NEW v \in InvoiceType, NEW paid \in Nat
    PROVE  /\ Normalised(v) \in AllStatuses /\ StatusForPaid(v, paid) \in AllStatuses
           /\ WithPaid(v, paid) \in InvoiceType
  BY DEF InvoiceType, Normalised, StatusForPaid, AllStatuses, WithPaid

\* The splits of payments on file, merged
LEMMA SplitsOfTyped ==
    ASSUME PayTyped(pay), NEW P, P \subseteq PayIds, \A p \in P : pay[p].st = "active"
    PROVE  SplitsOf(P) \in Tidy(Modes) /\ SplitsOf(P) \in Usable(Modes) /\ SplitsTotal(SplitsOf(P)) = NetOf(P)
  <1> DEFINE n == Cardinality(P)
             s == [k \in 1 .. n |-> LET p == Nth(P, k) IN [mode |-> pay[p].mode, amt |-> pay[p].net]]
  <1>1. n \in Nat /\ IsFiniteSet(P) BY RankFacts
  <1>2. \A p \in P : pay[p].mode \in Modes /\ pay[p].net \in Nat \ {0}
    BY DEF PayTyped, PaymentType, Unused, Gone
  <1>3. ASSUME NEW k \in 1 .. n
        PROVE  /\ Nth(P, k) \in P /\ s[k] \in UsableSplit(Modes)
               /\ s[k].mode = pay[Nth(P, k)].mode /\ s[k].amt = pay[Nth(P, k)].net
    BY <1>2, NthIs DEF UsableSplit
  <1>4. s \in Seq(UsableSplit(Modes)) /\ s \in Usable(Modes) /\ DOMAIN s = 1 .. n BY <1>3, <1>1 DEF Usable
  <1>5. SplitsOf(P) = Merged(s) BY DEF SplitsOf
  <1>6. SplitsTotal(s) = NetOf(P)
    <2> DEFINE S == 1 .. n
               m == [p \in P |-> Rank(P, p)]
               f == NetsOf(Of(P))
               g == Amts(s)
    <2>1. IsFiniteSet(S) /\ m \in [P -> S] /\ (\A p, q \in P : m[p] = m[q] => p = q)
      <3>1. IsFiniteSet(S) BY <1>1, FS_Interval
      <3> QED BY <3>1, RankFacts
    <2>2. ASSUME NEW p \in P PROVE f[p] \in Int /\ g[m[p]] = f[p]
      BY RankFacts, NthIs, <1>4, <1>2, <1>3 DEF NetsOf, Of, Amts
    <2>3. {m[p] : p \in P} = S
      <3>1. {Rank(P, p) : p \in P} = S BY RankFacts, RankOnto
      <3> QED BY <3>1
    <2>4. SumFunctionOnSet(f, P) = SumFunctionOnSet(g, {m[p] : p \in P})
      <3> HIDE DEF f, g, m, S
      <3> QED BY <1>1, <2>1, <2>2, SumReindexed
    <2>5. NetOf(P) = SumFunctionOnSet(f, P) BY NetInIs DEF NetOf, Of
    <2>6. SplitsTotal(s) = SumFunctionOnSet(g, S) BY <1>4, SplitsTotalIs
    <2> QED BY <2>3, <2>4, <2>5, <2>6
  <1> HIDE DEF s
  <1>7. s \in Sent(Modes) BY <1>4, UsableFacts
  <1> QED BY <1>4, <1>5, <1>6, <1>7, MergedTidy, TidyFacts, MergedTotal

\* attachInvoicePaymentSplits returns usable splits.
LEMMA AttachedTyped ==
    ASSUME PayTyped(pay), InvTyped(inv), NEW i \in Invoices, Live(i)
    PROVE  Attached(i) \in Usable(Modes)
  BY SplitsOfTyped, LiveTyped, TotalOfOne DEF ActiveOf, Attached

\* ledgerSplitsForInvoice returns usable splits, and for a patch splits that
\* come to the amount paid.
LEMMA LedgerSplitsTyped ==
    ASSUME PayTyped(pay), NEW r, Saved(r)
    PROVE  /\ LedgerSplits(r) \in Usable(Modes)
           /\ r.op = "patch_status" \/ r.v.paid = SplitsTotal(r.splits) => SplitsTotal(LedgerSplits(r)) = r.v.paid
  <1> DEFINE found == SplitsOf(ActiveOf(r.i))
             kept  == IF r.op = "update_invoice" THEN Clamped(Merged(r.splits), r.v.paid)
                      ELSE IF r.prev.mode # r.v.mode \/ found = << >> THEN << >>
                      ELSE Adjusted(found, r.v.paid)
  <1>1. /\ r.v.paid \in Nat /\ r.v.mode \in Modes
        /\ r.op = "update_invoice" => r.splits \in Usable(Modes)
    BY DEF Saved, InvoiceType
  <1>2. found \in Usable(Modes) /\ found \in Sent(Modes) BY SplitsOfTyped, UsableFacts DEF ActiveOf
  <1>3. << >> \in Usable(Modes) BY DEF Usable
  <1>4. /\ kept \in Usable(Modes)
        /\ r.op = "patch_status" \/ r.v.paid = SplitsTotal(r.splits) => SplitsTotal(kept) \in {0, r.v.paid}
    <2>1. CASE r.op = "update_invoice"
      <3>1. Merged(r.splits) \in Usable(Modes) BY <1>1, <2>1, UsableFacts, MergedUsable
      <3>2. /\ kept = Clamped(Merged(r.splits), r.v.paid) /\ kept \in Usable(Modes)
            /\ SplitsTotal(kept) = Lesser(r.v.paid, SplitsTotal(Merged(r.splits)))
        <4> HIDE DEF found
        <4> QED BY <1>1, <2>1, <3>1, ClampedTotal
      <3>3. SplitsTotal(Merged(r.splits)) = SplitsTotal(r.splits) BY <1>1, <2>1, MergedTotal
      <3>4. r.v.paid = SplitsTotal(r.splits) => SplitsTotal(kept) = r.v.paid BY <1>1, <3>2, <3>3 DEF Lesser
      <3> QED BY <2>1, <3>2, <3>4
    <2>2. CASE r.op # "update_invoice" /\ (r.prev.mode # r.v.mode \/ found = << >>) BY <1>3, <2>2, TotalOfEmpty
    <2>3. CASE r.op # "update_invoice" /\ ~ (r.prev.mode # r.v.mode \/ found = << >>)
      <3>1. Merged(found) # << >> BY <1>2, <2>3, MergedNonEmpty
      <3>2. /\ Adjusted(found, r.v.paid) \in Usable(Modes)
            /\ SplitsTotal(Adjusted(found, r.v.paid)) = IF r.v.paid <= 0 THEN 0 ELSE r.v.paid
        <4> HIDE DEF found
        <4> QED BY <1>1, <1>2, <3>1, AdjustedTotal
      <3> QED BY <1>1, <2>3, <3>2
    <2> QED BY <2>1, <2>2, <2>3
  <1>5. LedgerSplits(r) = IF r.v.paid <= 0 THEN << >> ELSE Resolved(kept, r.v.mode, r.v.paid)
    BY DEF LedgerSplits
  <1> HIDE DEF kept
  <1>6. CASE r.v.paid = 0 BY <1>3, <1>5, <1>6, TotalOfEmpty
  <1>7. CASE r.v.paid # 0 BY <1>1, <1>4, ResolvedTotal, <1>5, <1>7
  <1> QED BY <1>6, <1>7

(* The steps that move money *)

\* Fresh payment ids are unused.
LEMMA FreshFacts == Fresh \subseteq PayIds /\ (\A p \in Fresh : pay[p].st = "unused") /\ Cardinality(Fresh) \in Nat
  BY PayIdsFinite, RankFacts DEF Fresh

\* The fresh payments a sale is split over
LEMMA NewPayments ==
    ASSUME NEW splits \in Usable(Modes), Cardinality(Fresh) >= Len(splits),
           NEW new, new = {p \in Fresh : Place(p) <= Len(splits)}
    PROVE  /\ IsFiniteSet(new)
           /\ \A p \in new : /\ p \in PayIds /\ pay[p].st = "unused"
                              /\ Place(p) \in Nat \ {0} /\ Place(p) \in DOMAIN splits
                              /\ splits[Place(p)] \in UsableSplit(Modes)
                              /\ splits[Place(p)].mode \in Modes /\ splits[Place(p)].amt \in Nat \ {0}
           /\ SumFunctionOnSet([p \in new |-> splits[Place(p)].amt], new) = SplitsTotal(splits)
  <1> DEFINE n == Len(splits)
  <1>1. n \in Nat /\ DOMAIN splits = 1 .. n BY UsableFacts
  <1>2. Fresh \subseteq PayIds /\ (\A p \in Fresh : pay[p].st = "unused") /\ Cardinality(Fresh) \in Nat
    BY FreshFacts
  <1>3. IsFiniteSet(new) BY <1>2, RankFacts, FS_Subset
  <1>4. ASSUME NEW p \in new
        PROVE  /\ p \in PayIds /\ pay[p].st = "unused" /\ p \in Fresh
               /\ Place(p) \in Nat \ {0} /\ Place(p) \in DOMAIN splits /\ Place(p) \in 1 .. n
               /\ splits[Place(p)] \in UsableSplit(Modes)
               /\ splits[Place(p)].mode \in Modes /\ splits[Place(p)].amt \in Nat \ {0}
    BY <1>2, RankFacts, <1>1, UsableFacts DEF Place, UsableSplit
  <1>5. SumFunctionOnSet([p \in new |-> splits[Place(p)].amt], new) = SplitsTotal(splits)
    <2> DEFINE S == 1 .. n
               m == [p \in new |-> Place(p)]
               f == [p \in new |-> splits[Place(p)].amt]
               g == Amts(splits)
    <2>1. IsFiniteSet(S) /\ m \in [new -> S] BY <1>1, <1>4, FS_Interval
    <2>2. \A p, q \in new : m[p] = m[q] => p = q BY <1>2, <1>4, RankFacts DEF Place
    <2>3. \A p \in new : f[p] \in Int /\ g[m[p]] = f[p] BY <1>4 DEF Amts
    <2>4. {m[p] : p \in new} = S BY <1>1, <1>2, FirstPlaces DEF Place
    <2>5. SumFunctionOnSet(f, new) = SumFunctionOnSet(g, {m[p] : p \in new})
      <3> HIDE DEF f, g, m, S
      <3> QED BY <1>3, <2>1, <2>2, <2>3, SumReindexed
    <2> QED BY <1>1, <2>4, <2>5, SplitsTotalIs
  <1> QED BY <1>3, <1>4, <1>5

\* Keeping the bank in step with its rows
Banked == bank = BankIn(row, PostedIn(row))

BankStep(R) == R \subseteq Posted /\ row' = RowsWithout(R) /\ bank' = bank - BankOf(R)

\* Taking rows away leaves rows.
LEMMA RowsWithoutTyped ==
    ASSUME RowsTyped(row), NEW R, R \subseteq Posted
    PROVE  /\ RowsTyped(RowsWithout(R))
           /\ PostedIn(RowsWithout(R)) = PostedIn(row) \ R
           /\ \A p \in PayIds \ R : RowsWithout(R)[p] = row[p]
  BY DEF RowsTyped, RowsWithout, PostedIn, NoRow

\* reverseCashAddTransaction takes rows away and their amounts off the bank.
LEMMA BankStepKeeps ==
    ASSUME RowsTyped(row), bank \in Int, NEW R, BankStep(R)
    PROVE  RowsTyped(row') /\ bank' \in Int /\ (Banked => Banked')
  <1> DEFINE rows == RowsWithout(R)
  <1>1. RowsTyped(rows) /\ PostedIn(rows) = (PostedIn(row) \ R) \cup {} /\ \A p \in PostedIn(row) \ R : rows[p] = row[p]
    BY RowsWithoutTyped DEF BankStep, PostedIn
  <1>2. R \subseteq PostedIn(row) /\ BankOf(R) = BankIn(row, R) /\ BankIn(row, R) \in Nat
    <2>1. Posted = PostedIn(row) BY DEF Posted, PostedIn
    <2> QED BY <2>1, BankOfIs, BankInNat DEF BankStep
  <1> HIDE DEF rows
  <1>3. BankIn(rows, PostedIn(rows)) = BankIn(row, PostedIn(row)) - BankIn(row, R) + BankIn(rows, {})
    <2>1. RowsChange(row, rows, R, {}) BY <1>1, <1>2 DEF RowsChange
    <2> QED BY <2>1, BankAfter
  <1>4. BankIn(rows, {}) = 0 BY SumEmpty DEF BankIn
  <1>5. BankIn(row, PostedIn(row)) \in Nat BY BankInNat
  <1>6. row' = rows /\ bank' = bank - BankOf(R) BY DEF BankStep, rows
  <1>7. BankIn(rows, PostedIn(rows)) = BankIn(row, PostedIn(row)) - BankIn(row, R) BY <1>2, <1>3, <1>4, <1>5
  <1>8. Banked => bank' = BankIn(row', PostedIn(row')) BY <1>2, <1>6, <1>7 DEF Banked
  <1> QED BY <1>1, <1>2, <1>6, <1>8 DEF Banked

PaysKept == \A p \in PayIds : pay[p].st # "unused" => pay'[p].st # "unused"

MoneyKept ==
    /\ PayTyped(pay') /\ RowsTyped(row') /\ bank' \in Int /\ BalTyped(bal')
    /\ Banked => Banked'
    /\ PaysKept

\* A balance incremented by an integer is an integer.
LEMMA CreditedTyped ==
    ASSUME NEW balances, BalTyped(balances), NEW q \in Parties, NEW n \in Int
    PROVE  BalTyped(Credited(balances, q, n))
  BY DEF BalTyped, Credited

\* createLinkedSalePaymentIn, after deletions or without, leaves tables of their
\* types, the bank equal to its rows, and moves the balances by what the old
\* and the new payments come to.
LEMMA RepostKeepsMoney ==
    ASSUME TablesTyped, NEW P, PaysTyped(Of(P)), NEW R, R \subseteq Posted, NEW freed \in Parties,
           \A p \in PayIds : pay[p].st = "unused" => row[p].st # "posted",
           NEW splits \in Usable(Modes), NEW i \in Invoices, NEW q \in Parties,
           Repost(P, R, freed, splits, i, q)
    PROVE  /\ MoneyKept
           /\ bal' = Credited(Credited(bal, freed, NetOf(P)), q, - SplitsTotal(splits))
  <1> DEFINE new       == {p \in Fresh : Place(p) <= Len(splits)}
             kept      == PayDeleted(P)
             mode(p)   == splits[Place(p)].mode
             amt(p)    == splits[Place(p)].amt
             cash      == {p \in new : ~ EquityMode(mode(p))}
             toBank(p) == IF mode(p) = "bank" THEN amt(p) ELSE 0
             rows      == [p \in PayIds |->
                             IF p \in cash
                             THEN [st |-> "posted", origin |-> "sale", inv |-> i, mode |-> mode(p), amt |-> amt(p)]
                             ELSE RowsWithout(R)[p]]
             pays      == [p \in PayIds |->
                             IF p \in new
                             THEN [st |-> "active", inv |-> i, party |-> q, net |-> amt(p), mode |-> mode(p),
                                   num |-> NextNumber(kept) + Place(p) - 1, origin |-> "sale"]
                             ELSE kept[p]]
  <1>1. /\ Cardinality(Fresh) >= Len(splits) /\ pay' = pays /\ row' = rows
        /\ bank' = bank - BankOf(R) + Sum(toBank, new)
        /\ bal' = Credited(Credited(bal, freed, NetOf(P)), q, - Sum(amt, new))
    BY DEF Repost
  <1>2. /\ IsFiniteSet(new)
        /\ \A p \in new : /\ p \in PayIds /\ pay[p].st = "unused"
                           /\ Place(p) \in Nat \ {0}
                           /\ mode(p) \in Modes /\ amt(p) \in Nat \ {0}
        /\ SumFunctionOnSet([p \in new |-> amt(p)], new) = SplitsTotal(splits)
    BY <1>1, NewPayments
  <1>3. Sum(amt, new) = SplitsTotal(splits) BY <1>2 DEF Sum, SumFunction
  <1>4. RowsTyped(rows) BY RowsWithoutTyped, <1>2 DEF TablesTyped, RowType, RowsTyped
  <1>5. PayTyped(pays)
    <2>1. PayTyped(kept) BY DEF TablesTyped, PayTyped, PayDeleted, Gone
    <2>2. NumbersTyped(kept) BY <2>1 DEF NumbersTyped, PayTyped, PaymentType, Unused, Gone
    <2>3. NextNumber(kept) \in Nat \ {0} BY <2>2, NextNumberIs
    <2> HIDE DEF kept
    <2>4. ASSUME NEW p \in new
          PROVE  [st |-> "active", inv |-> i, party |-> q, net |-> amt(p), mode |-> mode(p),
                  num |-> NextNumber(kept) + Place(p) - 1, origin |-> "sale"] \in PaymentType
      BY <1>2, <2>3 DEF PaymentType
    <2> HIDE DEF mode, amt, new
    <2> QED BY <2>1, <2>4 DEF PayTyped
  <1>6. BankOf(R) = BankIn(row, R) /\ BankIn(row, R) \in Nat /\ Posted = PostedIn(row)
    <2>1. Posted = PostedIn(row) BY DEF Posted, PostedIn
    <2> QED BY <2>1, BankOfIs, BankInNat DEF TablesTyped
  <1>7. RowsChange(row, rows, R, cash)
    BY <1>2, <1>4, <1>6 DEF RowsWithout, PostedIn, NoRow, RowsChange, TablesTyped
  <1>8. Sum(toBank, new) = BankIn(rows, cash) /\ BankIn(rows, cash) \in Int
    <2> DEFINE f == [p \in new |-> toBank(p)]
               g == InBank(rows)
    <2>1. Sum(toBank, new) = SumFunctionOnSet(f, new) BY DEF Sum, SumFunction
    <2>2. IsFiniteSet(cash) /\ IsFiniteSet(new \ cash) /\ cash \cap (new \ cash) = {} /\ cash \cup (new \ cash) = new
      BY <1>2, FS_Subset
    <2>3. \A p \in new : f[p] \in Int BY <1>2
    <2>4. \A p \in new \ cash : f[p] = 0 BY DEF EquityMode
    <2>5. \A p \in cash : f[p] \in Int /\ f[p] = g[p]
      <3>1. ASSUME NEW p \in cash PROVE rows[p].mode = mode(p) /\ rows[p].amt = amt(p) /\ p \in new /\ p \in PayIds
        <4>1. p \in PayIds BY <1>2
        <4> QED BY <4>1
      <3> HIDE DEF rows, cash
      <3> QED BY <2>3, <3>1 DEF InBank
    <2> HIDE DEF f, g, cash, new
    <2>6. SumFunctionOnSet(f, new) = SumFunctionOnSet(f, cash) + SumFunctionOnSet(f, new \ cash)
      BY <2>2, <2>3, SumUnion
    <2>7. SumFunctionOnSet(f, new \ cash) = 0 BY <2>2, <2>4, SumZero
    <2>8. SumFunctionOnSet(f, cash) = SumFunctionOnSet(g, cash) /\ SumFunctionOnSet(f, cash) \in Int
      BY <2>2, <2>5, SumAgrees, SumInt
    <2>9. SumFunctionOnSet(f, new) = SumFunctionOnSet(g, cash) /\ SumFunctionOnSet(g, cash) \in Int
      BY <2>6, <2>7, <2>8
    <2> QED BY <2>1, <2>9 DEF BankIn, g
  <1>9. BalTyped(bal')
    <2>1. NetOf(P) \in Int /\ - SplitsTotal(splits) \in Int BY NetInNat, UsableFacts DEF NetOf
    <2> QED BY <1>1, <1>3, <2>1, CreditedTyped DEF TablesTyped
  <1>10. BankIn(rows, PostedIn(rows)) = BankIn(row, PostedIn(row)) - BankIn(row, R) + BankIn(rows, cash)
    <2> HIDE DEF rows, cash
    <2> QED BY <1>7, BankAfter
  <1>11. bank' \in Int /\ (Banked => Banked')
    <2>1. bank' = bank - BankIn(row, R) + BankIn(rows, cash) BY <1>1, <1>6, <1>8
    <2>2. BankIn(row, PostedIn(row)) \in Nat /\ bank \in Int BY BankInNat DEF TablesTyped
    <2>2a. BankIn(rows, cash) \in Int /\ BankIn(row, R) \in Nat BY <1>6, <1>8
    <2> HIDE DEF rows, cash
    <2>3. bank' \in Int BY <2>1, <2>2, <2>2a
    <2>4. Banked => bank' = BankIn(rows, PostedIn(rows)) BY <1>10, <2>1, <2>2, <2>2a DEF Banked
    <2>5. Banked' <=> bank' = BankIn(rows, PostedIn(rows))
      <3>1. row' = rows BY <1>1
      <3> QED BY <3>1 DEF Banked
    <2> HIDE DEF Banked
    <2> QED BY <2>3, <2>4, <2>5
  <1> QED
    <2>1. PaysKept BY <1>2, <1>1 DEF PayDeleted, PaysKept, Gone
    <2> QED BY <1>1, <1>3, <1>4, <1>5, <1>9, <1>11, <2>1 DEF MoneyKept

\* reversePaymentEffects
LEMMA ReversalKeepsMoney ==
    ASSUME TablesTyped, NEW read, PaysTyped(read), \A p \in DOMAIN read : pay[p].st # "unused",
           NEW R, R \subseteq Posted, ReversePayments(read, R),
           pay' = PayDeleted(DOMAIN read) \/ pay' = PayCancelled(DOMAIN read)
    PROVE  MoneyKept /\ InvTyped(inv')
  <1>1. BankStep(R) BY DEF ReversePayments, BankStep
  <1>2. RowsTyped(row') /\ bank' \in Int /\ (Banked => Banked') BY <1>1, BankStepKeeps DEF TablesTyped
  <1>3. PayTyped(pay')
    <2>1. CASE pay' = PayDeleted(DOMAIN read) BY <2>1 DEF TablesTyped, PayTyped, PayDeleted, Gone
    <2>2. CASE pay' = PayCancelled(DOMAIN read)
      <3>1. /\ DOMAIN pay' = PayIds
            /\ \A p \in PayIds : pay'[p] = IF p \in DOMAIN read /\ pay[p] # Gone
                                           THEN [pay[p] EXCEPT !.st = "cancelled"] ELSE pay[p]
        BY <2>2 DEF PayCancelled
      <3>2. ASSUME NEW p \in PayIds, p \in DOMAIN read, pay[p] # Gone
            PROVE  [pay[p] EXCEPT !.st = "cancelled"] \in PaymentType
        <4>1. pay[p] \in PaymentType BY <3>2 DEF TablesTyped, PayTyped, Unused
        <4> QED BY <4>1 DEF PaymentType
      <3> QED BY <3>1, <3>2 DEF TablesTyped, PayTyped
    <2> QED BY <2>1, <2>2
  <1>4. InvTyped(inv') BY LiveTyped, NetInNat, StatusIn DEF ReversePayments, TablesTyped, AtLeast0, InvTyped
  <1>5. BalTyped(bal') BY NetInNat DEF ReversePayments, PaysTyped, TablesTyped, BalTyped
  <1>6. PaysKept
    <2>1. \A p \in PayIds :
            \/ pay'[p] = pay[p] \/ pay'[p] = Gone
            \/ p \in DOMAIN read /\ pay'[p] = [pay[p] EXCEPT !.st = "cancelled"] /\ pay[p] # Gone
      BY DEF PayDeleted, PayCancelled
    <2>2. ASSUME NEW p \in PayIds, p \in DOMAIN read, pay[p] # Gone
          PROVE  [pay[p] EXCEPT !.st = "cancelled"].st = "cancelled"
      <3>1. pay[p] \in PaymentType BY <2>2 DEF TablesTyped, PayTyped, Unused
      <3> QED BY <3>1 DEF PaymentType
    <2> SUFFICES ASSUME NEW p \in PayIds, pay[p].st # "unused" PROVE pay'[p].st # "unused" BY DEF PaysKept
    <2>3. CASE pay'[p] = pay[p] \/ pay'[p] = Gone BY <2>3 DEF Gone
    <2>4. CASE p \in DOMAIN read /\ pay'[p] = [pay[p] EXCEPT !.st = "cancelled"] /\ pay[p] # Gone BY <2>2, <2>4
    <2> QED BY <2>1, <2>3, <2>4
  <1> QED BY <1>2, <1>3, <1>4, <1>5, <1>6 DEF MoneyKept

\* recordPaymentEffects: one payment, with a row unless it is equity
LEMMA RecordKeepsMoney ==
    ASSUME TablesTyped, NEW r, Recording(r), NEW p \in PayIds, pay[p].st = "unused", row[p].st # "posted",
           pay' = [pay EXCEPT ![p] = [st |-> "active", inv |-> r.i, party |-> r.q, net |-> r.net,
                                      mode |-> r.mode, num |-> r.num, origin |-> "receipt"]],
           row' = IF EquityMode(r.mode) THEN row
                  ELSE [row EXCEPT ![p] = [st |-> "posted", origin |-> "receipt", inv |-> r.i,
                                           num |-> r.num, mode |-> r.mode, amt |-> r.net]],
           bank' = IF r.mode = "bank" THEN bank + r.net ELSE bank,
           bal' = [bal EXCEPT ![r.q] = r.owed - r.net]
    PROVE  MoneyKept
  <1>1. /\ r.i \in Invoices \cup {None} /\ r.q \in Parties /\ r.net \in Nat \ {0} /\ r.mode \in Modes
        /\ r.num \in Nat \ {0} /\ r.owed \in Int
    BY ReceivablesAssumption DEF Recording, ReceivablesAssumption
  <1>2. PayTyped(pay') BY <1>1 DEF TablesTyped, PayTyped, PaymentType
  <1>3. BalTyped(bal') BY <1>1 DEF TablesTyped, BalTyped
  <1>3a. PaysKept BY DEF PaysKept, TablesTyped, PayTyped
  <1> DEFINE new  == [st |-> "posted", origin |-> "receipt", inv |-> r.i, num |-> r.num, mode |-> r.mode, amt |-> r.net]
             rows == [row EXCEPT ![p] = new]
  <1>4. CASE EquityMode(r.mode) BY <1>4, <1>2, <1>3, <1>3a DEF EquityMode, Banked, TablesTyped, MoneyKept
  <1>5. CASE ~ EquityMode(r.mode)
    <2>1. row' = rows /\ new \in RowType /\ new.mode = r.mode /\ new.amt = r.net /\ new.st = "posted"
      BY <1>1, <1>5 DEF RowType
    <2> HIDE DEF new
    <2>2. RowsTyped(rows) /\ rows[p] = new /\ \A n \in PayIds : n # p => rows[n] = row[n]
      BY <2>1 DEF TablesTyped, RowsTyped
    <2> HIDE DEF rows
    <2>3. PostedIn(rows) = (PostedIn(row) \ {}) \cup {p} /\ {p} \cap PostedIn(row) = {}
      BY <2>1, <2>2 DEF PostedIn
    <2>4. RowsChange(row, rows, {}, {p}) BY <2>2, <2>3 DEF RowsChange, TablesTyped, PostedIn
    <2>5. BankIn(rows, PostedIn(rows)) = BankIn(row, PostedIn(row)) - BankIn(row, {}) + BankIn(rows, {p})
      BY <2>4, BankAfter
    <2>6. BankIn(row, {}) = 0 BY SumEmpty DEF BankIn
    <2>7. BankIn(rows, {p}) = IF r.mode = "bank" THEN r.net ELSE 0
      BY <1>1, <2>1, <2>2, SumOne DEF InBank, BankIn
    <2>8. BankIn(row, PostedIn(row)) \in Nat /\ bank \in Int BY BankInNat DEF TablesTyped
    <2>9. Banked => bank' = BankIn(rows, PostedIn(rows)) BY <1>1, <2>5, <2>6, <2>7, <2>8 DEF Banked
    <2>10. Banked' <=> bank' = BankIn(rows, PostedIn(rows)) BY <2>1 DEF Banked
    <2>11. bank' \in Int BY <1>1, <2>8
    <2> QED BY <1>2, <1>3, <1>3a, <2>1, <2>2, <2>9, <2>10, <2>11 DEF MoneyKept
  <1> QED BY <1>4, <1>5

(* How requests move *)

ReadsUsed ==
    \A c \in Clients : "read" \in DOMAIN req[c] => \A p \in DOMAIN req[c].read : pay[p].st # "unused"

\* A request that goes on keeps everything but its step.
LEMMA ThenIs ==
    ASSUME NEW r, "step" \in DOMAIN r, NEW s
    PROVE  /\ [r EXCEPT !.step = s].step = s /\ DOMAIN [r EXCEPT !.step = s] = DOMAIN r
           /\ \A f \in DOMAIN r : f # "step" => [r EXCEPT !.step = s][f] = r[f]
  OBVIOUS

\* A creation that goes on is a creation.
LEMMA CreatingThen ==
    ASSUME NEW r, Creating(r), NEW s \in {"loyalty", "journal", "pay", "party"}
    PROVE  Creating([r EXCEPT !.step = s])
  BY ThenIs DEF Creating, Typed

\* An edit or a patch that goes on is one.
LEMMA SavedThen ==
    ASSUME NEW r, Saved(r), NEW s \in {"ledger", "find", "party"}
    PROVE  Saved([r EXCEPT !.step = s])
  BY ThenIs DEF Saved, Typed

\* And it keeps what it read.
LEMMA ReadThen ==
    ASSUME NEW r, "step" \in DOMAIN r, NEW s
    PROVE  /\ DOMAIN [r EXCEPT !.step = s] = DOMAIN r
           /\ "read" \in DOMAIN r => [r EXCEPT !.step = s].read = r.read
  BY ThenIs

\* The request of one client is another one; payments stay used.
LEMMA RequestsMove ==
    ASSUME RequestsTyped, ReadsUsed, NEW c \in Clients, NEW x, RequestTyped(x),
           req' = [req EXCEPT ![c] = x], PaysKept,
           "read" \in DOMAIN x => \A p \in DOMAIN x.read : pay[p].st # "unused"
    PROVE  RequestsTyped' /\ ReadsUsed'
  BY DEF RequestsTyped, ReadsUsed, RequestTyped, PaysTyped, PaysKept

\* A request ends.
LEMMA DoneMoves ==
    ASSUME RequestsTyped, ReadsUsed, NEW c \in Clients, Done(c), PaysKept
    PROVE  RequestsTyped' /\ ReadsUsed'
  BY RequestsMove DEF RequestTyped, Idle, Done

\* A request goes on with what it has.
LEMMA ThenMoves ==
    ASSUME RequestsTyped, ReadsUsed, NEW c \in Clients, NEW s, Then(c, s), PaysKept,
           \/ Creating(req[c]) /\ s \in {"loyalty", "journal", "pay", "party"}
           \/ Saved(req[c]) /\ s \in {"ledger", "find", "party"}
    PROVE  RequestsTyped' /\ ReadsUsed'
  <1> DEFINE r == req[c]
             x == [r EXCEPT !.step = s]
  <1>1. req' = [req EXCEPT ![c] = x] BY DEF Then, RequestsTyped
  <1>2. "step" \in DOMAIN r BY DEF Creating, Saved, Typed
  <1>3. DOMAIN x = DOMAIN r /\ ("read" \in DOMAIN r => x.read = r.read) BY <1>2, ReadThen
  <1>4. Creating(x) \/ Saved(x) BY CreatingThen, SavedThen
  <1> HIDE DEF x
  <1>5. RequestTyped(x) BY <1>3, <1>4 DEF RequestsTyped, RequestTyped
  <1>6. "read" \in DOMAIN x => \A p \in DOMAIN x.read : pay[p].st # "unused" BY <1>3 DEF ReadsUsed
  <1> QED BY <1>1, <1>5, <1>6, RequestsMove

TInv ==
    /\ Types /\ ReadsUsed /\ Banked
    /\ \A p \in PayIds : pay[p].st = "unused" => row[p].st # "posted"
TKept == Types' /\ ReadsUsed' /\ Banked'

\* A step that leaves the books alone leaves payments, rows and bank.
LEMMA BooksSameIs ==
    ASSUME BooksSame
    PROVE  PaysKept /\ pay' = pay /\ row' = row /\ bank' = bank /\ (Banked => Banked')
  BY DEF BooksSame, PaysKept, Banked

\* A step that leaves payments, rows and the bank alone
LEMMA QuietKeeps ==
    ASSUME TInv, UNCHANGED << pay, row, bank >>, InvTyped(inv'), BalTyped(bal'), RequestsTyped', ReadsUsed'
    PROVE  TKept
  <1>1. Banked' BY DEF TInv, Banked
  <1> QED BY <1>1 DEF TInv, Types, TablesTyped, TKept

\* A request begins, or goes on with another record.
LEMMA NowKeeps ==
    ASSUME TInv, BooksSame, NEW c \in Clients, NEW x, Now(c, x), RequestTyped(x),
           "read" \in DOMAIN x => \A p \in DOMAIN x.read : pay[p].st # "unused",
           InvTyped(inv'), BalTyped(bal')
    PROVE  TKept
  <1>1. RequestsTyped' /\ ReadsUsed' BY BooksSameIs, RequestsMove DEF Now, TInv, Types
  <1> QED BY <1>1, BooksSameIs, QuietKeeps

\* A request ends without touching the books.
LEMMA DoneKeeps ==
    ASSUME TInv, BooksSame, NEW c \in Clients, Done(c), InvTyped(inv'), BalTyped(bal')
    PROVE  TKept
  <1>1. RequestsTyped' /\ ReadsUsed' BY BooksSameIs, DoneMoves DEF TInv, Types
  <1> QED BY <1>1, BooksSameIs, QuietKeeps

\* The parts of the invariant, one by one.
LEMMA TInvFacts ==
    ASSUME TInv
    PROVE  /\ TablesTyped /\ InvTyped(inv) /\ PayTyped(pay) /\ RowsTyped(row) /\ bank \in Int /\ BalTyped(bal)
           /\ RequestsTyped /\ ReadsUsed
           /\ \A c \in Clients : RequestTyped(req[c])
           /\ \A p \in PayIds : pay[p].st = "unused" => row[p].st # "posted"
  BY DEF TInv, Types, TablesTyped, RequestsTyped

\* What the request of an operation at a step is
LEMMA AtTyped ==
    ASSUME TInv, NEW c \in Clients
    PROVE  /\ req[c].op = "create_invoice" /\ req[c] # Idle => Creating(req[c])
           /\ At(c, "update_invoice", "save") => Editing(req[c])
           /\ At(c, "patch_status", "save") => Patching(req[c])
           /\ At(c, "update_invoice", "party") => Saved(req[c])
           /\ At(c, "patch_status", "party") => Saved(req[c])
           /\ At(c, "patch_status", "write") => Writing(req[c])
           /\ At(c, "delete_invoice", "erase") => Erasing(req[c])
           /\ At(c, "create_payment", "record") => Recording(req[c])
           /\ At(c, "delete_payment", "reverse") => Reversing(req[c])
           /\ At(c, "cancel_payment", "reverse") => Reversing(req[c])
           /\ At(c, "sync_overdue", "mark") => Marking(req[c])
           /\ req[c] # Idle /\ req[c].step \in {"find", "cancel", "ledger"} => Saved(req[c])
  <1> DEFINE r == req[c]
  <1>1. r = Idle \/ Creating(r) \/ Editing(r) \/ Patching(r) \/ Saved(r) \/ Writing(r)
          \/ Erasing(r) \/ Recording(r) \/ Reversing(r) \/ Marking(r)
    BY TInvFacts DEF RequestTyped
  <1>2. Idle.op = "idle" BY DEF Idle
  <1>3. /\ Creating(r) => r.op = "create_invoice" /\ r.step \in {"loyalty", "journal", "pay", "party"}
        /\ Editing(r) => r.op = "update_invoice" /\ r.step = "save"
        /\ Patching(r) => r.op = "patch_status" /\ r.step = "save"
        /\ Saved(r) => r.op \in {"update_invoice", "patch_status"} /\ r.step \in {"ledger", "find", "cancel", "party"}
        /\ Writing(r) => r.op = "patch_status" /\ r.step = "write"
        /\ Erasing(r) => r.op = "delete_invoice" /\ r.step = "erase"
        /\ Recording(r) => r.op = "create_payment" /\ r.step = "record"
        /\ Reversing(r) => r.op \in {"delete_payment", "cancel_payment"} /\ r.step = "reverse"
        /\ Marking(r) => r.op = "sync_overdue" /\ r.step = "mark"
    BY DEF Creating, Editing, Patching, Saved, Writing, Erasing, Recording, Reversing, Marking
  <1> HIDE DEF r
  <1> QED BY <1>1, <1>2, <1>3 DEF At, r

\* One invoice is written.
LEMMA InvSet ==
    ASSUME InvTyped(inv), NEW i \in Invoices, NEW v, v.doc \in {"unused", "deleted"} \/ v \in InvoiceType,
           inv' = [inv EXCEPT ![i] = v]
    PROVE  InvTyped(inv')
  BY DEF InvTyped

\* invoicePartyDebit returns a natural number.
LEMMA DebitIs ==
    ASSUME NEW v \in InvoiceType
    PROVE  Debit(v) \in Nat /\ v.party \in Parties
  BY ReceivablesAssumption DEF Debit, InvoiceType, ReceivablesAssumption

\* The invoice CreateInvoice and UpdateInvoice save is an invoice record, its
\* paid amount is at most its total, and equal to it when the status asked for
\* is "paid".
LEMMA SavedInvoice ==
    ASSUME NEW q \in Parties, NEW total \in Totals, NEW paid \in Nat, NEW status \in Statuses, NEW mode \in Modes,
           NEW input \in SplitInputs, NEW late \in Lates, NEW existing \in Usable(Modes),
           NEW splits, splits = FinalSplits(status, total, paid, mode, input, existing),
           NEW new, new = [doc |-> "live", party |-> q, total |-> total, paid |-> SplitsTotal(splits),
                           status |-> status, mode |-> FirstMode(splits, mode), late |-> late]
    PROVE  /\ splits \in Usable(Modes)
           /\ [new EXCEPT !.status = Normalised(new)] \in InvoiceType
           /\ SplitsTotal(splits) \in Nat /\ SplitsTotal(splits) <= total
           /\ status = "paid" => SplitsTotal(splits) = total
  <1>1. /\ total \in Nat /\ status \in AllStatuses /\ late \in BOOLEAN /\ input \in Sent(Modes) /\ existing \in Sent(Modes)
    BY ReceivablesAssumption, UsableFacts DEF ReceivablesAssumption, Sent, SentSplit
  <1>2. /\ splits \in Usable(Modes) /\ SplitsTotal(splits) <= total
        /\ status = "paid" => SplitsTotal(splits) = total
    BY <1>1, FinalSplitsTotal
  <1>3. SplitsTotal(splits) \in Nat /\ FirstMode(splits, mode) \in Modes BY <1>2, UsableFacts, FirstModeIn
  <1>4. new \in InvoiceType BY <1>1, <1>3 DEF InvoiceType
  <1>5. [new EXCEPT !.status = Normalised(new)] \in InvoiceType BY <1>4, StatusIn DEF InvoiceType
  <1> QED BY <1>2, <1>3, <1>5

\* CreateInvoice keeps types, reads and bank.
LEMMA CreateInvoiceTyped == ASSUME TInv, NEW c \in Clients, CreateInvoice(c) PROVE TKept
  <1>1. PICK i \in Invoices, q \in Parties, total \in Totals, paid \in Amounts \cup {0},
          status \in Statuses, mode \in Modes, input \in SplitInputs, late \in Lates :
         LET splits == FinalSplits(status, total, paid, mode, input, << >>)
             new    == [doc |-> "live", party |-> q, total |-> total,
                        paid |-> SplitsTotal(splits), status |-> status,
                        mode |-> FirstMode(splits, mode), late |-> late]
             saved  == [new EXCEPT !.status = Normalised(new)]
         IN  /\ inv[i].doc = "unused"
             /\ inv' = [inv EXCEPT ![i] = saved]
             /\ Now(c, [op |-> "create_invoice", step |-> "loyalty", i |-> i,
                        v |-> saved, splits |-> splits, owed |-> bal[q]])
    BY DEF CreateInvoice
  <1> DEFINE splits == FinalSplits(status, total, paid, mode, input, << >>)
             new    == [doc |-> "live", party |-> q, total |-> total,
                        paid |-> SplitsTotal(splits), status |-> status,
                        mode |-> FirstMode(splits, mode), late |-> late]
             saved  == [new EXCEPT !.status = Normalised(new)]
             x      == [op |-> "create_invoice", step |-> "loyalty", i |-> i,
                        v |-> saved, splits |-> splits, owed |-> bal[q]]
  <1>2. BooksSame /\ bal' = bal /\ inv' = [inv EXCEPT ![i] = saved] /\ Now(c, x) BY <1>1 DEF CreateInvoice
  <1>3. splits \in Usable(Modes) /\ saved \in InvoiceType
    <2>1. paid \in Nat /\ << >> \in Usable(Modes) BY ReceivablesAssumption DEF ReceivablesAssumption, Usable
    <2> QED BY <2>1, SavedInvoice
  <1> HIDE DEF splits, saved
  <1>4. RequestTyped(x) /\ "read" \notin DOMAIN x BY <1>3 DEF RequestTyped, Creating, Typed
  <1>5. InvTyped(inv') /\ BalTyped(bal') BY <1>2, <1>3, TInvFacts, InvSet
  <1> HIDE DEF x
  <1> QED BY <1>2, <1>4, <1>5, NowKeeps

\* ApplyLoyalty keeps them.
LEMMA ApplyLoyaltyTyped == ASSUME TInv, NEW c \in Clients, ApplyLoyalty(c) PROVE TKept
  <1>1. Creating(req[c]) /\ BooksSame /\ bal' = bal BY AtTyped DEF ApplyLoyalty, At, Idle
  <1>2. CASE Then(c, "journal") /\ UNCHANGED inv BY <1>1, <1>2, BooksSameIs, TInvFacts, ThenMoves, QuietKeeps
  <1>3. CASE inv' = [inv EXCEPT ![req[c].i] = [doc |-> "deleted"]] /\ Done(c)
    <2>1. InvTyped(inv') BY <1>1, <1>3, TInvFacts, InvSet DEF Creating
    <2> QED BY <1>1, <1>3, <2>1, TInvFacts, DoneKeeps
  <1> QED BY <1>2, <1>3 DEF ApplyLoyalty

\* PostInvoiceJournal keeps them.
LEMMA PostInvoiceJournalTyped == ASSUME TInv, NEW c \in Clients, PostInvoiceJournal(c) PROVE TKept
  BY AtTyped, TInvFacts, ThenMoves, QuietKeeps DEF PostInvoiceJournal, At, Idle, PaysKept

\* A step that moves money keeps the invariant.
LEMMA MoneyTyped ==
    ASSUME TInv, MoneyKept, InvTyped(inv'), RequestsTyped', ReadsUsed'
    PROVE  TKept
  BY DEF TInv, MoneyKept, Types, TablesTyped, TKept

\* PayInvoice keeps them.
LEMMA PayInvoiceTyped == ASSUME TInv, NEW c \in Clients, PayInvoice(c) PROVE TKept
  <1> DEFINE r == req[c]
  <1>1. Creating(r) /\ Then(c, "party") /\ inv' = inv BY AtTyped DEF PayInvoice, At, Idle
  <1>2. r.i \in Invoices /\ r.v.party \in Parties /\ r.splits \in Usable(Modes)
    BY <1>1 DEF Creating, InvoiceType
  <1>3. CASE Repost({}, {}, r.v.party, r.splits, r.i, r.v.party)
    <2>1. PaysTyped(Of({})) BY DEF PaysTyped, Of
    <2>2. MoneyKept
      <3> HIDE DEF r
      <3> QED BY <1>2, <1>3, <2>1, TInvFacts, RepostKeepsMoney
    <2>3. RequestsTyped' /\ ReadsUsed' BY <1>1, <2>2, TInvFacts, ThenMoves DEF MoneyKept
    <2> QED BY <1>1, <2>2, <2>3, TInvFacts, MoneyTyped
  <1>4. CASE UNCHANGED bal /\ BooksSame BY <1>1, <1>4, BooksSameIs, TInvFacts, ThenMoves, QuietKeeps
  <1> QED BY <1>3, <1>4 DEF PayInvoice

\* DebitParty keeps them.
LEMMA DebitPartyTyped == ASSUME TInv, NEW c \in Clients, DebitParty(c) PROVE TKept
  <1>1. Creating(req[c]) /\ BooksSame /\ inv' = inv /\ Done(c) /\ bal' = Credited(bal, req[c].v.party, Debit(req[c].v))
    BY AtTyped DEF DebitParty, At, Idle
  <1>2. BalTyped(bal') BY <1>1, DebitIs, TInvFacts, CreditedTyped DEF Creating
  <1> QED BY <1>1, <1>2, TInvFacts, DoneKeeps

\* UpdateInvoice keeps them.
LEMMA UpdateInvoiceTyped == ASSUME TInv, NEW c \in Clients, UpdateInvoice(c) PROVE TKept
  BY TInvFacts, AttachedTyped, LiveTyped, NowKeeps DEF UpdateInvoice, RequestTyped, Editing, Typed

\* Where an edit or a patch goes on after it saved the invoice
LEMMA AfterSaveIs == ASSUME NEW prev, NEW v PROVE AfterSave(prev, v) \in {"ledger", "find", "party"}
  BY DEF AfterSave

\* SaveUpdatedInvoice keeps them.
LEMMA SaveUpdatedInvoiceTyped == ASSUME TInv, NEW c \in Clients, SaveUpdatedInvoice(c) PROVE TKept
  <1> DEFINE r == req[c]
  <1>0. Editing(r) BY AtTyped DEF SaveUpdatedInvoice
  <1>1. PICK q \in Parties, total \in Totals, paid \in Amounts \cup {0},
          status \in Statuses, mode \in Modes, input \in SplitInputs, late \in Lates :
         LET splits == FinalSplits(status, total, paid, mode, input, r.had)
             new    == [doc |-> "live", party |-> q, total |-> total,
                        paid |-> SplitsTotal(splits), status |-> status,
                        mode |-> FirstMode(splits, mode), late |-> late]
             saved  == [new EXCEPT !.status = Normalised(new)]
         IN  /\ status = "cancelled" =>
                  "amount_with_cancel" \in Habits \/ saved.paid <= r.prev.paid
             /\ inv' = [inv EXCEPT ![r.i] = saved]
             /\ Now(c, [op |-> "update_invoice", step |-> AfterSave(r.prev, saved),
                        i |-> r.i, prev |-> r.prev, had |-> r.had,
                        v |-> saved, splits |-> splits])
    BY DEF SaveUpdatedInvoice
  <1> DEFINE splits == FinalSplits(status, total, paid, mode, input, r.had)
             new    == [doc |-> "live", party |-> q, total |-> total,
                        paid |-> SplitsTotal(splits), status |-> status,
                        mode |-> FirstMode(splits, mode), late |-> late]
             saved  == [new EXCEPT !.status = Normalised(new)]
             s      == AfterSave(r.prev, saved)
             x      == [op |-> "update_invoice", step |-> s, i |-> r.i, prev |-> r.prev, had |-> r.had,
                        v |-> saved, splits |-> splits]
  <1>2. BooksSame /\ bal' = bal /\ inv' = [inv EXCEPT ![r.i] = saved] /\ Now(c, x)
    BY <1>1 DEF SaveUpdatedInvoice
  <1>2a. r.i \in Invoices /\ r.prev \in InvoiceType /\ r.had \in Usable(Modes) BY <1>0 DEF Editing
  <1> HIDE DEF r
  <1>3. splits \in Usable(Modes) /\ saved \in InvoiceType
    <2>1. paid \in Nat BY ReceivablesAssumption DEF ReceivablesAssumption
    <2> QED BY <1>2a, <2>1, SavedInvoice
  <1>3a. s \in {"ledger", "find", "party"} BY AfterSaveIs
  <1> HIDE DEF splits, saved, s
  <1>4. RequestTyped(x) /\ "read" \notin DOMAIN x BY <1>2a, <1>3, <1>3a DEF RequestTyped, Saved, Typed
  <1>5. InvTyped(inv') /\ BalTyped(bal') BY <1>2, <1>2a, <1>3, TInvFacts, InvSet
  <1> HIDE DEF x
  <1> QED BY <1>2, <1>4, <1>5, NowKeeps

\* MoveDebit keeps them.
LEMMA MoveDebitTyped == ASSUME TInv, NEW c \in Clients, MoveDebit(c) PROVE TKept
  BY AtTyped, DebitIs, TInvFacts, CreditedTyped, DoneKeeps DEF MoveDebit, Saved

\* UpdateInvoiceStatus keeps them.
LEMMA UpdateInvoiceStatusTyped == ASSUME TInv, NEW c \in Clients, UpdateInvoiceStatus(c) PROVE TKept
  BY TInvFacts, LiveTyped, NowKeeps DEF UpdateInvoiceStatus, RequestTyped, Patching, Typed

\* SavePatchedStatus keeps them.
LEMMA SavePatchedStatusTyped == ASSUME TInv, NEW c \in Clients, SavePatchedStatus(c) PROVE TKept
  <1> DEFINE r == req[c]
  <1>0. Patching(r) BY AtTyped DEF SavePatchedStatus
  <1>1. PICK status \in Statuses, paid \in Amounts \cup {0, r.prev.paid} :
         LET sent  == paid # r.prev.paid
             new   == [r.prev EXCEPT
                         !.status = status,
                         !.late   = IF Live(r.i) THEN inv[r.i].late ELSE @,
                         !.paid   = IF status = "paid" THEN @
                                    ELSE IF sent THEN Lesser(paid, r.prev.total) ELSE @]
             full  == IF status = "paid" THEN [new EXCEPT !.paid = new.total] ELSE new
             saved == [full EXCEPT !.status = Normalised(full)]
         IN  /\ status = "cancelled" => "amount_with_cancel" \in Habits \/ ~sent
             /\ inv' = [inv EXCEPT ![r.i] = saved]
             /\ Now(c, [op |-> "patch_status", step |-> AfterSave(r.prev, saved),
                        i |-> r.i, prev |-> r.prev, v |-> saved])
    BY Zenon DEF SavePatchedStatus
  <1>1a. paid \in Amounts \/ paid \in {0, r.prev.paid} OBVIOUS
  <1> DEFINE sent  == paid # r.prev.paid
             late  == IF Live(r.i) THEN inv[r.i].late ELSE r.prev.late
             new   == [r.prev EXCEPT
                         !.status = status,
                         !.late   = late,
                         !.paid   = IF status = "paid" THEN @
                                    ELSE IF sent THEN Lesser(paid, r.prev.total) ELSE @]
             full  == IF status = "paid" THEN [new EXCEPT !.paid = new.total] ELSE new
             saved == [full EXCEPT !.status = Normalised(full)]
             s     == AfterSave(r.prev, saved)
             x     == [op |-> "patch_status", step |-> s, i |-> r.i, prev |-> r.prev, v |-> saved]
  <1>2. BooksSame /\ bal' = bal BY DEF SavePatchedStatus
  <1>2a. r.i \in Invoices /\ r.prev \in InvoiceType BY <1>0 DEF Patching
  <1> HIDE DEF r
  <1>2b. inv' = [inv EXCEPT ![r.i] = saved] /\ Now(c, x) BY <1>1, Zenon
  <1>3. saved \in InvoiceType
    <2>1. late \in BOOLEAN
      <3>1. CASE Live(r.i) BY <1>2a, <3>1, TInvFacts, LiveTyped
      <3>2. CASE ~ Live(r.i)
        <4>1. late = r.prev.late BY <3>2
        <4> QED BY <1>2a, <4>1 DEF InvoiceType
      <3> QED BY <3>1, <3>2
    <2>2. /\ r.prev.total \in Totals /\ r.prev.total \in Nat /\ r.prev.paid \in Nat /\ paid \in Nat
          /\ status \in AllStatuses
      <3>1. r.prev.total \in Totals /\ r.prev.paid \in Nat BY <1>2a DEF InvoiceType
      <3>2. Totals \subseteq Nat /\ Amounts \subseteq Nat /\ Statuses \subseteq AllStatuses
        BY ReceivablesAssumption DEF ReceivablesAssumption
      <3> HIDE DEF x, saved, full, new, sent, late, s
      <3>3. r.prev.total \in Nat /\ status \in AllStatuses BY <3>1, <3>2
      <3>4. paid \in Nat BY <3>2, <3>1, <1>1a
      <3> QED BY <3>1, <3>3, <3>4
    <2>3. Lesser(paid, r.prev.total) \in Nat BY <2>2 DEF Lesser
    <2> HIDE DEF late, sent
    <2>4. new \in InvoiceType /\ new.total \in Nat BY <1>2a, <2>1, <2>2, <2>3 DEF InvoiceType
    <2> HIDE DEF new
    <2>5. full \in InvoiceType BY <2>4 DEF InvoiceType
    <2> HIDE DEF full
    <2> QED BY <2>5, StatusIn DEF InvoiceType
  <1>3a. s \in {"ledger", "find", "party"} BY AfterSaveIs
  <1> HIDE DEF saved, s
  <1>4. RequestTyped(x) /\ "read" \notin DOMAIN x BY <1>2a, <1>3, <1>3a DEF RequestTyped, Saved, Typed
  <1>5. InvTyped(inv') /\ BalTyped(bal') BY <1>2, <1>2a, <1>2b, <1>3, TInvFacts, InvSet
  <1> HIDE DEF x
  <1> QED BY <1>2, <1>2b, <1>4, <1>5, NowKeeps

\* ReadBalance keeps them.
LEMMA ReadBalanceTyped == ASSUME TInv, NEW c \in Clients, ReadBalance(c) PROVE TKept
  <1> DEFINE r == req[c]
             delta == Debit(r.v) - Debit(r.prev)
             x == [op |-> "patch_status", step |-> "write", q |-> r.v.party, balance |-> bal[r.v.party] + delta]
  <1>1. Saved(r) /\ BooksSame /\ inv' = inv /\ bal' = bal BY AtTyped DEF ReadBalance
  <1>2. Done(c) \/ Now(c, x) BY DEF ReadBalance
  <1> HIDE DEF r
  <1>3. RequestTyped(x) /\ "read" \notin DOMAIN x
    BY <1>1, DebitIs, TInvFacts DEF Saved, BalTyped, RequestTyped, Writing, Typed
  <1> HIDE DEF x
  <1> QED BY <1>1, <1>2, <1>3, TInvFacts, NowKeeps, DoneKeeps

\* WriteBalance keeps them.
LEMMA WriteBalanceTyped == ASSUME TInv, NEW c \in Clients, WriteBalance(c) PROVE TKept
  BY AtTyped, TInvFacts, DoneKeeps DEF WriteBalance, BalTyped, Writing

\* FindLinkedPayments keeps them.
LEMMA FindLinkedPaymentsTyped == ASSUME TInv, NEW c \in Clients, FindLinkedPayments(c) PROVE TKept
  <1> DEFINE r    == req[c]
             s    == [r EXCEPT !.step = "cancel"]
             read == Of(ActiveOf(r.i))
             x    == With(s, "read", read)
  <1>1. Saved(r) /\ BooksSame /\ inv' = inv /\ bal' = bal /\ Now(c, x) BY AtTyped DEF FindLinkedPayments
  <1>2. PaysTyped(read) /\ \A p \in DOMAIN read : pay[p].st # "unused"
    <2>1. PaysTyped(read) /\ DOMAIN read = ActiveOf(r.i) BY TInvFacts, ActiveTyped
    <2>2. \A p \in ActiveOf(r.i) : pay[p].st # "unused" BY DEF ActiveOf
    <2> QED BY <2>1, <2>2
  <1>3. /\ Typed(r, {"op", "step", "i", "prev", "v"}) /\ (r.op = "update_invoice" => Typed(r, {"had", "splits"}))
    BY <1>1 DEF Saved
  <1> HIDE DEF read, r
  <1>4. /\ DOMAIN x = DOMAIN r \cup {"read"} /\ x.step = "cancel"
        /\ \A f \in DOMAIN r : f \notin {"step", "read"} => x[f] = r[f]
        /\ x.read = read
    BY <1>3, ThenIs DEF Typed, With
  <1> HIDE DEF x
  <1>5. "read" \in DOMAIN x /\ PaysTyped(x.read) /\ \A p \in DOMAIN x.read : pay[p].st # "unused" BY <1>2, <1>4
  <1>6. Saved(x) BY <1>3, <1>4, <1>1 DEF Typed, Saved
  <1>7. RequestTyped(x) BY <1>5, <1>6 DEF RequestTyped
  <1> QED BY <1>1, <1>5, <1>7, TInvFacts, NowKeeps

\* Rows found by invoice, by number or by amount are posted.
LEMMA RowsArePosted ==
    /\ \A i : InvoiceRows(i) \subseteq Posted
    /\ \A s : NumberRows(s) \subseteq Posted
    /\ \A s : RowsFor(s) \subseteq Posted
  BY DEF InvoiceRows, NumberRows, RowsFor, FirstOf

\* CancelLinkedPayments keeps them.
LEMMA CancelLinkedPaymentsTyped == ASSUME TInv, NEW c \in Clients, CancelLinkedPayments(c) PROVE TKept
  <1> DEFINE r    == req[c]
             read == r.read
             R    == InvoiceRows(r.i) \cup UNION {NumberRows(read[p]) : p \in DOMAIN read}
  <1>1. Saved(r) /\ Then(c, "party") /\ ReversePayments(read, R) /\ pay' = PayCancelled(DOMAIN read)
    BY AtTyped DEF CancelLinkedPayments
  <1>2. PaysTyped(read) /\ \A p \in DOMAIN read : pay[p].st # "unused"
    BY <1>1, TInvFacts DEF RequestTyped, ReadsUsed, CancelLinkedPayments, Saved, Typed
  <1>3. R \subseteq Posted BY RowsArePosted
  <1>4. MoneyKept /\ InvTyped(inv')
    <2> HIDE DEF R, read
    <2> QED BY <1>1, <1>2, <1>3, TInvFacts, ReversalKeepsMoney
  <1>5. RequestsTyped' /\ ReadsUsed' BY <1>1, <1>4, TInvFacts, ThenMoves DEF MoneyKept
  <1> QED BY <1>4, <1>5, MoneyTyped

\* ResyncLedger keeps them.
LEMMA ResyncLedgerTyped == ASSUME TInv, NEW c \in Clients, ResyncLedger(c) PROVE TKept
  <1> DEFINE r == req[c]
  <1>1. Saved(r) /\ Then(c, "party") /\ inv' = inv BY AtTyped DEF ResyncLedger
  <1>2. CASE Repost(ActiveOf(r.i), InvoiceRows(r.i), r.prev.party, LedgerSplits(r), r.i, r.v.party)
    <2>1. r.i \in Invoices /\ r.prev.party \in Parties /\ r.v.party \in Parties BY <1>1 DEF Saved, InvoiceType
    <2>2. LedgerSplits(r) \in Usable(Modes) BY <1>1, TInvFacts, LedgerSplitsTyped
    <2>3. PaysTyped(Of(ActiveOf(r.i))) /\ InvoiceRows(r.i) \subseteq Posted
      BY TInvFacts, ActiveTyped, RowsArePosted
    <2> HIDE DEF r
    <2>4. MoneyKept BY <1>2, <2>1, <2>2, <2>3, TInvFacts, RepostKeepsMoney
    <2> USE DEF r
    <2>5. RequestsTyped' /\ ReadsUsed' BY <1>1, <2>4, TInvFacts, ThenMoves DEF MoneyKept
    <2> QED BY <1>1, <2>4, <2>5, TInvFacts, MoneyTyped
  <1>3. CASE UNCHANGED bal /\ BooksSame BY <1>1, <1>3, BooksSameIs, TInvFacts, ThenMoves, QuietKeeps
  <1> QED BY <1>2, <1>3 DEF ResyncLedger

\* DeleteInvoice keeps them.
LEMMA DeleteInvoiceTyped == ASSUME TInv, NEW c \in Clients, DeleteInvoice(c) PROVE TKept
  BY TInvFacts, LiveTyped, NowKeeps DEF DeleteInvoice, RequestTyped, Erasing, Typed

\* EraseInvoice keeps them.
LEMMA EraseInvoiceTyped == ASSUME TInv, NEW c \in Clients, EraseInvoice(c) PROVE TKept
  <1> DEFINE r == req[c]
             P == ActiveOf(r.i)
             R == InvoiceRows(r.i)
  <1>1. /\ Erasing(r) /\ Done(c) /\ pay' = PayDeleted(P) /\ row' = RowsWithout(R) /\ bank' = bank - BankOf(R)
        /\ bal' = Credited(bal, r.v.party, NetOf(P) - Debit(r.v)) /\ inv' = [inv EXCEPT ![r.i] = [doc |-> "deleted"]]
    BY AtTyped DEF EraseInvoice
  <1>2. RowsTyped(row') /\ bank' \in Int /\ (Banked => Banked')
    BY <1>1, RowsArePosted, BankStepKeeps, TInvFacts DEF BankStep
  <1>3. PayTyped(pay') /\ PaysKept BY <1>1, TInvFacts DEF PayTyped, PayDeleted, Gone, PaysKept
  <1>4. BalTyped(bal') BY <1>1, TInvFacts, ActiveTyped, DebitIs, CreditedTyped DEF Erasing
  <1>5. InvTyped(inv') BY <1>1, TInvFacts, InvSet DEF Erasing
  <1>6. RequestsTyped' /\ ReadsUsed' BY <1>1, <1>3, TInvFacts, DoneMoves
  <1> QED BY <1>2, <1>3, <1>4, <1>5, <1>6, MoneyTyped DEF MoneyKept

\* CreatePayment keeps them.
LEMMA CreatePaymentTyped == ASSUME TInv, NEW c \in Clients, CreatePayment(c) PROVE TKept
  <1>1. PICK q \in Parties, i \in Invoices \cup {None}, net \in Amounts, mode \in Modes :
         LET r == [op |-> "create_payment", step |-> "record", i |-> i, q |-> q,
                   net |-> net, mode |-> mode, num |-> NextNumber(pay), owed |-> bal[q]]
         IN  /\ i # None => Live(i) /\ inv[i].party = q
             /\ Now(c, IF i = None THEN r ELSE With(r, "v", inv[i]))
    BY DEF CreatePayment
  <1> DEFINE s == [op |-> "create_payment", step |-> "record", i |-> i, q |-> q,
                   net |-> net, mode |-> mode, num |-> NextNumber(pay), owed |-> bal[q]]
             x == IF i = None THEN s ELSE With(s, "v", inv[i])
  <1>2. BooksSame /\ inv' = inv /\ bal' = bal /\ Now(c, x) BY <1>1 DEF CreatePayment
  <1>3. NextNumber(pay) \in Nat \ {0} /\ bal[q] \in Int
    <2>1. NumbersTyped(pay) BY TInvFacts DEF NumbersTyped, PayTyped, PaymentType, Unused, Gone
    <2> QED BY <2>1, TInvFacts, NextNumberIs DEF BalTyped
  <1>4. i # None => i \in Invoices /\ inv[i] \in InvoiceType BY <1>1, TInvFacts, LiveTyped
  <1>5. /\ DOMAIN x = DOMAIN s \cup (IF i = None THEN {} ELSE {"v"})
        /\ \A f \in DOMAIN s : x[f] = s[f]
        /\ i # None => x.v = inv[i]
    BY DEF With
  <1>6. /\ DOMAIN s = {"op", "step", "i", "q", "net", "mode", "num", "owed"}
        /\ x.op = "create_payment" /\ x.step = "record" /\ x.i = i /\ x.q = q /\ x.net = net /\ x.mode = mode
        /\ x.num = NextNumber(pay) /\ x.owed = bal[q]
    BY <1>5
  <1> HIDE DEF x, s
  <1>7. Recording(x) /\ "read" \notin DOMAIN x BY <1>3, <1>4, <1>5, <1>6 DEF Recording, Typed
  <1>8. RequestTyped(x) BY <1>7 DEF RequestTyped
  <1> QED BY <1>2, <1>7, <1>8, TInvFacts, NowKeeps

\* RecordPayment keeps them.
LEMMA RecordPaymentTyped == ASSUME TInv, NEW c \in Clients, RecordPayment(c) PROVE TKept
  <1> DEFINE r == req[c]
             new == [st |-> "active", inv |-> r.i, party |-> r.q, net |-> r.net,
                     mode |-> r.mode, num |-> r.num, origin |-> "receipt"]
             v == WithPaid([r.v EXCEPT !.late = inv[r.i].late], r.v.paid + r.net)
  <1>1. PICK p \in FirstOf(Fresh) :
          /\ pay'  = [pay EXCEPT ![p] = new]
          /\ gl'   = gl \cup {Journal("payment_in_record", p, r.net)}
          /\ row'  = IF EquityMode(r.mode) THEN row
                     ELSE [row EXCEPT ![p] =
                             [st |-> "posted", origin |-> "receipt", inv |-> r.i,
                              num |-> r.num, mode |-> r.mode, amt |-> r.net]]
          /\ bank' = IF r.mode = "bank" THEN bank + r.net ELSE bank
          /\ inv'  = IF r.i # None /\ Live(r.i)
                     THEN [inv EXCEPT ![r.i].paid = v.paid, ![r.i].status = v.status]
                     ELSE inv
          /\ bal'  = [bal EXCEPT ![r.q] = r.owed - r.net]
    BY Zenon DEF RecordPayment
  <1>2. Recording(r) /\ Done(c) BY AtTyped DEF RecordPayment
  <1>3. p \in PayIds /\ pay[p].st = "unused" /\ row[p].st # "posted" BY FreshFacts, TInvFacts DEF FirstOf
  <1>4. MoneyKept
    <2> HIDE DEF r, v
    <2> QED BY <1>1, <1>2, <1>3, TInvFacts, RecordKeepsMoney
  <1>5. InvTyped(inv')
    <2>1. CASE r.i # None /\ Live(r.i)
      <3>1. r.i \in Invoices /\ r.v \in InvoiceType /\ r.net \in Nat
        BY <1>2, <2>1, ReceivablesAssumption DEF Recording, ReceivablesAssumption
      <3>2. inv[r.i] \in InvoiceType /\ inv[r.i].late \in BOOLEAN BY <2>1, <3>1, TInvFacts, LiveTyped
      <3>3. [r.v EXCEPT !.late = inv[r.i].late] \in InvoiceType /\ r.v.paid + r.net \in Nat
        BY <3>1, <3>2 DEF InvoiceType
      <3>4. v \in InvoiceType BY <3>3, StatusIn
      <3> HIDE DEF v
      <3> DEFINE n == [inv[r.i] EXCEPT !.paid = v.paid, !.status = v.status]
      <3>5. n \in InvoiceType BY <3>2, <3>4 DEF InvoiceType
      <3>6. inv' = [inv EXCEPT ![r.i] = n] BY <1>1, <2>1, <3>1, TInvFacts DEF InvTyped
      <3> QED BY <3>1, <3>5, <3>6, TInvFacts, InvSet
    <2>2. CASE ~ (r.i # None /\ Live(r.i))
      <3>1. inv' = inv BY <1>1, <2>2
      <3> QED BY <3>1, TInvFacts
    <2> QED BY <2>1, <2>2
  <1>6. RequestsTyped' /\ ReadsUsed' BY <1>2, <1>4, TInvFacts, DoneMoves DEF MoneyKept
  <1> QED BY <1>4, <1>5, <1>6, MoneyTyped

\* So do the reads of DeletePayment and CancelPayment,
LEMMA EndPaymentTyped == ASSUME TInv, NEW c \in Clients, DeletePayment(c) \/ CancelPayment(c) PROVE TKept
  <1>1. PICK p \in PayIds, op \in {"delete_payment", "cancel_payment"} :
          /\ pay[p].st \in {"active", "cancelled"}
          /\ Now(c, [op |-> op, step |-> "reverse", read |-> Of({p})])
    BY DEF DeletePayment, CancelPayment
  <1> DEFINE x == [op |-> op, step |-> "reverse", read |-> Of({p})]
  <1>2. PaysTyped(Of({p})) /\ DOMAIN Of({p}) = {p} BY <1>1, TInvFacts, OfTyped
  <1>3. RequestTyped(x) /\ \A n \in DOMAIN x.read : pay[n].st # "unused"
    BY <1>1, <1>2 DEF RequestTyped, Reversing, Typed
  <1>4. BooksSame /\ inv' = inv /\ bal' = bal /\ Now(c, x) BY <1>1 DEF DeletePayment, CancelPayment
  <1> HIDE DEF x
  <1> QED BY <1>3, <1>4, TInvFacts, NowKeeps

\* their transactions,
LEMMA ReverseTyped == ASSUME TInv, NEW c \in Clients, ReverseDeleted(c) \/ ReverseCancelled(c) PROVE TKept
  <1> DEFINE read == req[c].read
  <1>1. PICK p \in DOMAIN read : ReversePayments(read, RowsFor(read[p])) BY DEF ReverseDeleted, ReverseCancelled
  <1>2. /\ Reversing(req[c]) /\ Done(c)
        /\ pay' = PayDeleted(DOMAIN read) \/ pay' = PayCancelled(DOMAIN read)
    BY AtTyped DEF ReverseDeleted, ReverseCancelled
  <1>3. PaysTyped(read) /\ \A n \in DOMAIN read : pay[n].st # "unused"
    BY <1>2, TInvFacts DEF RequestTyped, ReadsUsed, Reversing, Typed
  <1>4. MoneyKept /\ InvTyped(inv') BY RowsArePosted, <1>1, <1>2, <1>3, TInvFacts, ReversalKeepsMoney
  <1>5. RequestsTyped' /\ ReadsUsed' BY <1>2, <1>4, TInvFacts, DoneMoves DEF MoneyKept
  <1> QED BY <1>4, <1>5, MoneyTyped

\* syncOverdueInvoices,
LEMMA OverdueTyped == ASSUME TInv, NEW c \in Clients, FindOverdue(c) \/ MarkOverdue(c) PROVE TKept
  <1>1. CASE FindOverdue(c) BY <1>1, TInvFacts, NowKeeps DEF FindOverdue, RequestTyped, Marking, Typed
  <1>2. CASE MarkOverdue(c)
    BY <1>2, TInvFacts, LiveTyped, DoneKeeps DEF MarkOverdue, InvoiceType, AllStatuses, InvTyped
  <1> QED BY <1>1, <1>2

\* DueDatePasses keeps them.
LEMMA DueDatePassesTyped == ASSUME TInv, DueDatePasses PROVE TKept
  <1>1. PICK i \in Invoices : Live(i) /\ inv' = [inv EXCEPT ![i].late = TRUE] BY DEF DueDatePasses
  <1> DEFINE v == [inv[i] EXCEPT !.late = TRUE]
  <1>2. inv[i] \in InvoiceType BY <1>1, TInvFacts, LiveTyped
  <1>3. v \in InvoiceType BY <1>2 DEF InvoiceType
  <1>4. inv' = [inv EXCEPT ![i] = v] BY <1>1
  <1> HIDE DEF v
  <1>5. InvTyped(inv') BY <1>3, <1>4, TInvFacts, InvSet
  <1>6. UNCHANGED << pay, row, bank, bal, req >> BY DEF DueDatePasses, BooksSame
  <1>7. RequestsTyped' /\ ReadsUsed' BY <1>6, TInvFacts DEF RequestsTyped, ReadsUsed
  <1> QED BY <1>5, <1>6, <1>7, TInvFacts, QuietKeeps

\* Abort keeps them.
LEMMA AbortTyped == ASSUME TInv, NEW c \in Clients, Abort(c) PROVE TKept
  BY TInvFacts, DoneKeeps DEF Abort

\* and a step that changes nothing.
LEMMA StutterTyped == ASSUME TInv, UNCHANGED vars PROVE TKept
  BY TInvFacts, QuietKeeps DEF RequestsTyped, ReadsUsed, vars

\* Every step keeps the types, the knowledge of the requests and the bank.
THEOREM NextTyped == TInv /\ [Next]_vars => TKept
  <1> SUFFICES ASSUME TInv, [Next]_vars PROVE TKept OBVIOUS
  <1>1. ASSUME NEW c \in Clients, Step(c) PROVE TKept
    BY <1>1, CreateInvoiceTyped, ApplyLoyaltyTyped, PostInvoiceJournalTyped, PayInvoiceTyped, DebitPartyTyped,
       UpdateInvoiceTyped, SaveUpdatedInvoiceTyped, MoveDebitTyped, UpdateInvoiceStatusTyped,
       SavePatchedStatusTyped, ReadBalanceTyped, WriteBalanceTyped, FindLinkedPaymentsTyped,
       CancelLinkedPaymentsTyped, ResyncLedgerTyped, DeleteInvoiceTyped, EraseInvoiceTyped,
       CreatePaymentTyped, RecordPaymentTyped, EndPaymentTyped, ReverseTyped, OverdueTyped, AbortTyped
    DEF Step
  <1> QED BY <1>1, DueDatePassesTyped, StutterTyped DEF Next

-----------------------------------------------------------------------------
(* Journals *)

\* The two tables are functions on the payment ids, every payment has a
\* state, and a payment id nobody has used has no row and no journal.
Tables ==
    /\ DOMAIN pay = PayIds
    /\ DOMAIN row = PayIds
    /\ \A p \in PayIds : "st" \in DOMAIN pay[p]
    /\ \A p \in PayIds : pay[p].st = "unused" => row[p].st # "posted"

IInv == Tables /\ JournalsExact

\* A fresh id is unused (the definition of Fresh, taken at the id itself).
LEMMA FreshUnused ==
    ASSUME NEW p \in Fresh, PayIds \subseteq Int
    PROVE  p \in PayIds /\ pay[p].st = "unused"
  BY DEF Fresh

LEMMA PayIdsInt == PayIds \subseteq Int
  BY ReceivablesAssumption DEF PayIds, ReceivablesAssumption

\* createLinkedSalePaymentIn, after any deletion of payments and rows.
LEMMA RepostKeepsIInv ==
    ASSUME IInv, NEW P, NEW R, NEW freed,
           NEW splits, NEW i, NEW q,
           Repost(P, R, freed, splits, i, q)
    PROVE  IInv'
  <1> DEFINE new     == {p \in Fresh : Place(p) <= Len(splits)}
             mode(p) == splits[Place(p)].mode
             amt(p)  == splits[Place(p)].amt
             cash    == {p \in new : ~ EquityMode(mode(p))}
             num(p)  == NextNumber(PayDeleted(P)) + Place(p) - 1
  <1>1. pay' = [p \in PayIds |->
                  IF p \in new
                  THEN [st |-> "active", inv |-> i, party |-> q, net |-> amt(p),
                        mode |-> mode(p), num |-> num(p), origin |-> "sale"]
                  ELSE PayDeleted(P)[p]]
    BY DEF Repost
  <1>2. row' = [p \in PayIds |->
                  IF p \in cash
                  THEN [st |-> "posted", origin |-> "sale", inv |-> i,
                        mode |-> mode(p), amt |-> amt(p)]
                  ELSE RowsWithout(R)[p]]
    BY DEF Repost
  <1>3. gl' = GlWithout(R, P)
                \cup {Journal("payment_in", p, amt(p)) : p \in cash}
                \cup {Journal("payment_in_record", p, amt(p)) : p \in new \ cash}
    BY DEF Repost
  <1>4. \A p \in new : p \in PayIds /\ pay[p].st = "unused" BY FreshUnused, PayIdsInt
  <1>5. cash \subseteq new /\ \A p \in new : p \in cash <=> ~ EquityMode(mode(p)) OBVIOUS
  <1> HIDE DEF new, mode, amt, cash, num
  <1>6. /\ \A p \in new : /\ "st" \in DOMAIN pay'[p]
                          /\ pay'[p].st = "active" /\ pay'[p].origin = "sale"
                          /\ pay'[p].mode = mode(p) /\ pay'[p].net = amt(p)
        /\ \A p \in PayIds \ new : pay'[p] = IF p \in P THEN Gone ELSE pay[p]
        /\ \A p \in cash : /\ row'[p].st = "posted" /\ row'[p].origin = "sale"
                           /\ row'[p].amt = amt(p)
        /\ \A p \in PayIds \ cash : row'[p] = IF p \in R THEN NoRow ELSE row[p]
    <2>1. \A p \in PayIds : pay'[p] =
            IF p \in new
            THEN [st |-> "active", inv |-> i, party |-> q, net |-> amt(p),
                  mode |-> mode(p), num |-> num(p), origin |-> "sale"]
            ELSE IF p \in P THEN Gone ELSE pay[p]
      BY <1>1 DEF PayDeleted
    <2>2. \A p \in PayIds : row'[p] =
            IF p \in cash
            THEN [st |-> "posted", origin |-> "sale", inv |-> i,
                  mode |-> mode(p), amt |-> amt(p)]
            ELSE IF p \in R THEN NoRow ELSE row[p]
      BY <1>2 DEF RowsWithout
    <2>3. ASSUME NEW p \in new
          PROVE  /\ "st" \in DOMAIN pay'[p]
                 /\ pay'[p].st = "active" /\ pay'[p].origin = "sale"
                 /\ pay'[p].mode = mode(p) /\ pay'[p].net = amt(p)
      <3>1. pay'[p] = [st |-> "active", inv |-> i, party |-> q, net |-> amt(p),
                       mode |-> mode(p), num |-> num(p), origin |-> "sale"]
        BY <2>1, <1>4
      <3> QED BY <3>1
    <2>4. ASSUME NEW p \in cash
          PROVE  row'[p].st = "posted" /\ row'[p].origin = "sale" /\ row'[p].amt = amt(p)
      <3>1. row'[p] = [st |-> "posted", origin |-> "sale", inv |-> i,
                       mode |-> mode(p), amt |-> amt(p)]
        BY <2>2, <1>4, <1>5
      <3> QED BY <3>1
    <2>5. \A p \in PayIds \ new : pay'[p] = IF p \in P THEN Gone ELSE pay[p] BY <2>1
    <2>6. \A p \in PayIds \ cash : row'[p] = IF p \in R THEN NoRow ELSE row[p] BY <2>2
    <2> QED BY <2>3, <2>4, <2>5, <2>6
  <1>7. Tables' BY <1>1, <1>2, <1>6, <1>5 DEF Gone, IInv, Tables, NoRow
  <1>8. PaymentJournalsExact'
    <2> SUFFICES ASSUME NEW p \in PayIds
                 PROVE  JournalsOf("payment_in_record", p)' =
                          IF pay'[p].st = "active" /\
                             (pay'[p].origin = "receipt" \/ EquityMode(pay'[p].mode))
                          THEN {Journal("payment_in_record", p, pay'[p].net)} ELSE {}
      BY DEF PaymentJournalsExact, EquityMode
    <2> DEFINE before == JournalsOf("payment_in_record", p)
    <2>1. before = IF pay[p].st = "active" /\
                      (pay[p].origin = "receipt" \/ EquityMode(pay[p].mode))
                   THEN {Journal("payment_in_record", p, pay[p].net)} ELSE {}
      BY DEF IInv, JournalsExact, PaymentJournalsExact
    <2>2. JournalsOf("payment_in_record", p)' =
            (IF p \in P THEN {} ELSE before)
              \cup (IF p \in new \ cash THEN {Journal("payment_in_record", p, amt(p))} ELSE {})
      BY <1>3 DEF JournalsOf, Journal, GlWithout
    <2>3. CASE p \in new BY <1>4, <2>1, <2>3, <1>6, <1>5, <2>2
    <2>4. CASE p \notin new BY <1>6, <2>1, <2>2, <2>4 DEF Gone
    <2> QED BY <2>3, <2>4
  <1>9. RowJournalsExact'
    <2> SUFFICES ASSUME NEW p \in PayIds
                 PROVE  JournalsOf("payment_in", p)' =
                          IF row'[p].st = "posted" /\ row'[p].origin = "sale"
                          THEN {Journal("payment_in", p, row'[p].amt)} ELSE {}
      BY DEF RowJournalsExact
    <2> DEFINE before == JournalsOf("payment_in", p)
    <2>1. before = IF row[p].st = "posted" /\ row[p].origin = "sale"
                   THEN {Journal("payment_in", p, row[p].amt)} ELSE {}
      BY DEF IInv, JournalsExact, RowJournalsExact
    <2>2. JournalsOf("payment_in", p)' =
            (IF p \in R THEN {} ELSE before)
              \cup (IF p \in cash THEN {Journal("payment_in", p, amt(p))} ELSE {})
      BY <1>3 DEF JournalsOf, Journal, GlWithout
    <2>3. CASE p \in cash BY <1>4, <1>5, <2>1, <2>3, <1>6, <2>2 DEF IInv, Tables
    <2>4. CASE p \notin cash BY <1>6, <2>1, <2>2, <2>4 DEF NoRow
    <2> QED BY <2>3, <2>4
  <1> QED BY <1>7, <1>8, <1>9 DEF IInv, JournalsExact

\* Taking payments P and rows R off the books, by whatever is left of the
\* payments' records.
LEMMA RemovalKeepsIInv ==
    ASSUME IInv, NEW P, NEW R,
           pay' = PayDeleted(P) \/ pay' = PayCancelled(P),
           row' = RowsWithout(R),
           \A kind \in {"payment_in", "payment_in_record"}, p \in PayIds :
               JournalsOf(kind, p)' = {j \in GlWithout(R, P) : j.kind = kind /\ j.id = p}
    PROVE  IInv'
  <1>1. /\ DOMAIN pay' = PayIds
        /\ \A p \in P \cap PayIds : pay'[p] = Gone \/ pay'[p] = [pay[p] EXCEPT !.st = "cancelled"]
        /\ \A p \in PayIds \ P : pay'[p] = pay[p]
    BY DEF PayDeleted, PayCancelled
  <1>2. /\ DOMAIN row' = PayIds
        /\ \A p \in PayIds : row'[p] = IF p \in R THEN NoRow ELSE row[p]
    BY DEF RowsWithout
  <1>3. \A p \in PayIds : "st" \in DOMAIN pay[p] BY DEF IInv, Tables
  <1>4. \A p \in P \cap PayIds : /\ "st" \in DOMAIN pay'[p]
                                 /\ pay'[p].st \in {"deleted", "cancelled"}
    BY <1>1, <1>3 DEF Gone
  <1>5. Tables' BY <1>1, <1>3, <1>4, <1>2 DEF IInv, Tables, NoRow
  <1>6. PaymentJournalsExact'
    BY <1>4, <1>1 DEF PaymentJournalsExact, EquityMode, JournalsOf, GlWithout, IInv, JournalsExact
  <1>7. RowJournalsExact' BY <1>2 DEF RowJournalsExact, JournalsOf, GlWithout, IInv, JournalsExact, NoRow
  <1> QED BY <1>5, <1>6, <1>7 DEF IInv, JournalsExact

\* reversePaymentEffects, followed by the payments' deletion or cancellation.
LEMMA ReversalKeepsIInv ==
    ASSUME IInv, NEW read, NEW R,
           ReversePayments(read, R),
           pay' = PayDeleted(DOMAIN read) \/ pay' = PayCancelled(DOMAIN read)
    PROVE  IInv'
  BY RemovalKeepsIInv DEF ReversePayments, JournalsOf

\* A step that touches neither table nor the payments' journals.
LEMMA OtherKeepsIInv ==
    ASSUME IInv, UNCHANGED << pay, row >>,
           gl' = gl \/ \E i, t : gl' = gl \cup {Journal("invoice", i, t)}
    PROVE  IInv'
  BY DEF JournalsOf, Journal, IInv, Tables, JournalsExact, PaymentJournalsExact, EquityMode, RowJournalsExact

THEOREM InitIInv == Init => IInv
  BY DEF Init, IInv, Tables, JournalsExact, PaymentJournalsExact, RowJournalsExact,
         JournalsOf, NoRow

\* RecordPayment: a fresh payment, its record's journal and, unless it is
\* equity, its row.
LEMMA RecordKeepsIInv ==
    ASSUME IInv, NEW p \in Fresh,
           NEW i, NEW q, NEW net, NEW mode, NEW num,
           pay' = [pay EXCEPT ![p] = [st |-> "active", inv |-> i, party |-> q, net |-> net,
                                      mode |-> mode, num |-> num, origin |-> "receipt"]],
           gl' = gl \cup {Journal("payment_in_record", p, net)},
           \/ row' = row
           \/ row' = [row EXCEPT ![p] = [st |-> "posted", origin |-> "receipt", inv |-> i,
                                         num |-> num, mode |-> mode, amt |-> net]]
    PROVE  IInv'
  <1>1. p \in PayIds /\ pay[p].st = "unused" BY FreshUnused, PayIdsInt
  <1>2. /\ DOMAIN pay' = PayIds
        /\ pay'[p] = [st |-> "active", inv |-> i, party |-> q, net |-> net,
                      mode |-> mode, num |-> num, origin |-> "receipt"]
        /\ \A n \in PayIds \ {p} : pay'[n] = pay[n]
    BY <1>1 DEF IInv, Tables
  <1>3. /\ DOMAIN row' = PayIds
        /\ \/ row'[p] = row[p]
           \/ row'[p] = [st |-> "posted", origin |-> "receipt", inv |-> i,
                         num |-> num, mode |-> mode, amt |-> net]
        /\ \A n \in PayIds \ {p} : row'[n] = row[n]
    BY <1>1 DEF IInv, Tables
  <1>4. /\ "st" \in DOMAIN pay'[p] /\ pay'[p].st = "active"
        /\ pay'[p].origin = "receipt" /\ pay'[p].net = net
    BY <1>2
  <1>5. row[p].st # "posted" BY <1>1 DEF IInv, Tables
  <1>6. Tables' BY <1>2, <1>3, <1>4 DEF IInv, Tables
  <1>7. PaymentJournalsExact'
    <2> SUFFICES ASSUME NEW n \in PayIds
                 PROVE  JournalsOf("payment_in_record", n)' =
                          IF pay'[n].st = "active" /\
                             (pay'[n].origin = "receipt" \/ EquityMode(pay'[n].mode))
                          THEN {Journal("payment_in_record", n, pay'[n].net)} ELSE {}
      BY DEF PaymentJournalsExact, EquityMode
    <2> DEFINE before == JournalsOf("payment_in_record", n)
    <2>1. before = IF pay[n].st = "active" /\
                      (pay[n].origin = "receipt" \/ EquityMode(pay[n].mode))
                   THEN {Journal("payment_in_record", n, pay[n].net)} ELSE {}
      BY DEF IInv, JournalsExact, PaymentJournalsExact
    <2>2. JournalsOf("payment_in_record", n)' =
            before \cup (IF n = p THEN {Journal("payment_in_record", p, net)} ELSE {})
      BY DEF JournalsOf, Journal
    <2>3. CASE n = p BY <1>1, <1>4, <2>1, <2>2, <2>3
    <2>4. CASE n # p BY <1>2, <2>1, <2>2, <2>4
    <2> QED BY <2>3, <2>4
  <1>8. RowJournalsExact' BY <1>5, <1>3 DEF RowJournalsExact, IInv, JournalsExact, JournalsOf, Journal
  <1> QED BY <1>6, <1>7, <1>8 DEF IInv, JournalsExact

\* Steps of requests that write payments, rows or their journals.
LEMMA PayInvoiceStep ==
    ASSUME IInv, NEW c \in Clients, PayInvoice(c)
    PROVE  IInv'
  BY RepostKeepsIInv, OtherKeepsIInv DEF BooksSame, PayInvoice

LEMMA ResyncStep ==
    ASSUME IInv, NEW c \in Clients, ResyncLedger(c)
    PROVE  IInv'
  BY RepostKeepsIInv, OtherKeepsIInv DEF ResyncLedger, BooksSame

LEMMA RecordStep ==
    ASSUME IInv, NEW c \in Clients, RecordPayment(c)
    PROVE  IInv'
  <1> DEFINE r == req[c]
  <1>1. PICK p \in FirstOf(Fresh) :
         /\ pay' = [pay EXCEPT ![p] =
                      [st |-> "active", inv |-> r.i, party |-> r.q, net |-> r.net,
                       mode |-> r.mode, num |-> r.num, origin |-> "receipt"]]
         /\ gl' = gl \cup {Journal("payment_in_record", p, r.net)}
         /\ row' = IF EquityMode(r.mode) THEN row
                   ELSE [row EXCEPT ![p] =
                           [st |-> "posted", origin |-> "receipt", inv |-> r.i,
                            num |-> r.num, mode |-> r.mode, amt |-> r.net]]
    BY Zenon DEF RecordPayment
  <1>2. PICK i, q, net, mode, num :
         i = r.i /\ q = r.q /\ net = r.net /\ mode = r.mode /\ num = r.num
    OBVIOUS
  <1>3. p \in Fresh BY DEF FirstOf
  <1>4. \/ row' = row
        \/ row' = [row EXCEPT ![p] = [st |-> "posted", origin |-> "receipt", inv |-> i,
                                      num |-> num, mode |-> mode, amt |-> net]]
    BY <1>1, <1>2
  <1>5. /\ pay' = [pay EXCEPT ![p] = [st |-> "active", inv |-> i, party |-> q, net |-> net,
                                      mode |-> mode, num |-> num, origin |-> "receipt"]]
        /\ gl' = gl \cup {Journal("payment_in_record", p, net)}
    BY <1>1, <1>2
  <1> QED BY <1>3, <1>4, <1>5, RecordKeepsIInv

LEMMA EraseStep ==
    ASSUME IInv, NEW c \in Clients, EraseInvoice(c)
    PROVE  IInv'
  BY RemovalKeepsIInv DEF EraseInvoice, JournalsOf

LEMMA ReversalStep ==
    ASSUME IInv, NEW c \in Clients,
           CancelLinkedPayments(c) \/ ReverseDeleted(c) \/ ReverseCancelled(c)
    PROVE  IInv'
  BY ReversalKeepsIInv DEF CancelLinkedPayments, ReverseDeleted, ReverseCancelled

\* Every step of the system keeps the invariant.
THEOREM NextKeepsIInv == IInv /\ [Next]_vars => IInv'
  <1> SUFFICES ASSUME IInv, [Next]_vars PROVE IInv' OBVIOUS
  <1>1. ASSUME NEW c \in Clients, Step(c) PROVE IInv'
    <2>1. CASE PayInvoice(c) BY <2>1, PayInvoiceStep
    <2>2. CASE ResyncLedger(c) BY <2>2, ResyncStep
    <2>3. CASE RecordPayment(c) BY <2>3, RecordStep
    <2>4. CASE EraseInvoice(c) BY <2>4, EraseStep
    <2>5. CASE CancelLinkedPayments(c) \/ ReverseDeleted(c) \/ ReverseCancelled(c) BY <2>5, ReversalStep
    <2>6. CASE PostInvoiceJournal(c) BY <2>6, OtherKeepsIInv DEF PostInvoiceJournal
    <2>7. CASE \/ CreateInvoice(c) \/ ApplyLoyalty(c) \/ DebitParty(c)
               \/ UpdateInvoice(c) \/ SaveUpdatedInvoice(c) \/ MoveDebit(c)
               \/ UpdateInvoiceStatus(c) \/ SavePatchedStatus(c)
      <3>1. BooksSame
        BY <2>7 DEF CreateInvoice, ApplyLoyalty, DebitParty, UpdateInvoice,
                    SaveUpdatedInvoice, MoveDebit, UpdateInvoiceStatus, SavePatchedStatus
      <3> QED BY <3>1, OtherKeepsIInv DEF BooksSame
    <2>8. CASE \/ ReadBalance(c) \/ WriteBalance(c) \/ FindLinkedPayments(c)
               \/ DeleteInvoice(c) \/ CreatePayment(c) \/ DeletePayment(c)
               \/ CancelPayment(c) \/ FindOverdue(c) \/ MarkOverdue(c) \/ Abort(c)
      <3>1. BooksSame
        BY <2>8 DEF ReadBalance, WriteBalance, FindLinkedPayments, DeleteInvoice,
                    CreatePayment, DeletePayment, CancelPayment, FindOverdue,
                    MarkOverdue, Abort
      <3> QED BY <3>1, OtherKeepsIInv DEF BooksSame
    <2> QED BY <1>1, <2>1, <2>2, <2>3, <2>4, <2>5, <2>6, <2>7, <2>8 DEF Step
  <1>2. CASE DueDatePasses BY <1>2, OtherKeepsIInv DEF DueDatePasses, BooksSame
  <1>3. CASE UNCHANGED vars BY <1>3, OtherKeepsIInv DEF vars
  <1> QED BY <1>1, <1>2, <1>3 DEF Next

\* Whatever requests run together, fail or die half-way, the receivable
\* journals of payments are those of the payments and rows on file.
THEOREM JournalsExactHolds == Spec => []JournalsExact
  <1>1. IInv => JournalsExact BY DEF IInv
  <1> QED BY <1>1, InitIInv, NextKeepsIInv, PTL DEF Spec

-----------------------------------------------------------------------------
(* The theorems *)

\* The types, the requests' knowledge, the bank and the journals together.
Inv == TInv /\ IInv

\* The tables begin empty.
LEMMA InvInit == Init => Inv
  <1> SUFFICES ASSUME Init PROVE Inv OBVIOUS
  <1>1. IInv /\ Types BY InitIInv, TypesInit
  <1>2. ReadsUsed /\ \A p \in PayIds : pay[p].st = "unused" => row[p].st # "posted"
    BY DEF Init, ReadsUsed, Idle, NoRow
  <1>3. Banked
    <2>1. PostedIn(row) = {} /\ bank = 0 BY DEF Init, PostedIn, NoRow
    <2> QED BY <2>1, SumEmpty DEF Banked, BankIn
  <1> QED BY <1>1, <1>2, <1>3 DEF Inv, TInv

\* Every step of the system keeps the whole invariant.
LEMMA NextInv == Inv /\ [Next]_vars => Inv'
  BY NextTyped, NextKeepsIInv DEF Inv, IInv, Tables, TInv, TKept

\* So it holds throughout.
LEMMA InvHolds == Spec => []Inv
  BY InvInit, NextInv, PTL DEF Spec

\* Whatever requests run together, fail or die half-way, the tables keep
\* their types.
THEOREM TypeOKHolds == Spec => []TypeOK
  <1>1. Inv => TypeOK
    <2> SUFFICES ASSUME Inv PROVE TypeOK OBVIOUS
    <2>1. InvTyped(inv) /\ PayTyped(pay) /\ RowsTyped(row) /\ bank \in Int /\ BalTyped(bal) BY TInvFacts DEF Inv
    <2>2. \A p \in PayIds : pay[p].st \in {"unused", "deleted"} \/ pay[p] \in PaymentType
      BY <2>1 DEF PayTyped, Unused, Gone
    <2> QED BY <2>1, <2>2 DEF TypeOK, InvTyped, RowsTyped, BalTyped
  <1> QED BY <1>1, InvHolds, PTL

\* And the stored bank balance stays the sum of the bank rows on file.
THEOREM BankMatchesRowsHolds == Spec => []BankMatchesRows
  <1>1. Inv => BankMatchesRows BY TInvFacts, BankOfIs DEF Posted, PostedIn, Inv, TInv, Banked, BankMatchesRows
  <1> QED BY <1>1, InvHolds, PTL

-----------------------------------------------------------------------------
(* One request at a time: balances and amounts paid *)

\* What an invoice adds to a party's debits, and a payment to a party's
\* credits and to the amount paid of an invoice.
DebtIn(v, q)   == IF v.doc = "live" /\ v.party = q THEN Debit(v) ELSE 0
CreditIn(s, q) == IF s.st = "active" /\ s.party = q THEN s.net ELSE 0
GivenIn(s, i)  == IF s.st = "active" /\ s.inv = i THEN s.net ELSE 0

DebtTable(I, q)   == [i \in Invoices |-> DebtIn(I[i], q)]
CreditTable(P, q) == [p \in PayIds |-> CreditIn(P[p], q)]
GivenTable(P, i)  == [p \in PayIds |-> GivenIn(P[p], i)]

DebtsIn(I, q)   == SumFunctionOnSet(DebtTable(I, q), Invoices)
CreditsIn(P, q) == SumFunctionOnSet(CreditTable(P, q), PayIds)
GivenTo(P, i)   == SumFunctionOnSet(GivenTable(P, i), PayIds)

\* A sum in which only the elements of A count
LEMMA SumWhere ==
    ASSUME NEW S, IsFiniteSet(S), NEW A \in SUBSET S, NEW f, NEW g,
           \A x \in A : f[x] = g[x] /\ g[x] \in Int, \A x \in S \ A : f[x] = 0
    PROVE  SumFunctionOnSet(f, S) = SumFunctionOnSet(g, A) /\ SumFunctionOnSet(g, A) \in Int
  <1>1. IsFiniteSet(A) /\ IsFiniteSet(S \ A) BY FS_Subset
  <1>2. SumFunctionOnSet(f, A \cup (S \ A)) = SumFunctionOnSet(f, A) + SumFunctionOnSet(f, S \ A)
    BY <1>1, SumUnion
  <1>3. SumFunctionOnSet(f, S \ A) = 0 BY <1>1, SumZero
  <1>4. SumFunctionOnSet(f, A) = SumFunctionOnSet(g, A) /\ SumFunctionOnSet(g, A) \in Int
    BY <1>1, SumAgrees, SumInt
  <1>5. A \cup (S \ A) = S OBVIOUS
  <1> QED BY <1>2, <1>3, <1>4, <1>5

\* The elements of A stop counting, those of B begin to.
Swapped(f, g, S, A, B) ==
    /\ IsFiniteSet(S) /\ A \subseteq S /\ B \subseteq S /\ A \cap B = {}
    /\ \A x \in S : f[x] \in Int /\ g[x] \in Int
    /\ \A x \in A : g[x] = 0
    /\ \A x \in B : f[x] = 0
    /\ \A x \in S \ (A \cup B) : g[x] = f[x]

\* The sum moves by what A was and B is.
LEMMA SumSwaps ==
    ASSUME NEW f, NEW g, NEW S, NEW A, NEW B, Swapped(f, g, S, A, B)
    PROVE  /\ SumFunctionOnSet(g, S) = SumFunctionOnSet(f, S) - SumFunctionOnSet(f, A) + SumFunctionOnSet(g, B)
           /\ SumFunctionOnSet(f, S) \in Int /\ SumFunctionOnSet(f, A) \in Int /\ SumFunctionOnSet(g, B) \in Int
  <1> DEFINE K == S \ (A \cup B)
  <1>0. /\ IsFiniteSet(S) /\ A \subseteq S /\ B \subseteq S /\ A \cap B = {}
        /\ \A x \in S : f[x] \in Int /\ g[x] \in Int
        /\ \A x \in A : g[x] = 0
        /\ \A x \in B : f[x] = 0
        /\ \A x \in K : g[x] = f[x]
    BY DEF Swapped
  <1>1. /\ A \cup B \in SUBSET S /\ IsFiniteSet(A) /\ IsFiniteSet(B) /\ IsFiniteSet(K) /\ K \subseteq S
    BY <1>0, FS_Subset
  <1>2. SumFunctionOnSet(f, K) = SumFunctionOnSet(f, S) - SumFunctionOnSet(f, A \cup B)
    BY <1>0, <1>1, SumWithout
  <1>3. SumFunctionOnSet(g, K) = SumFunctionOnSet(g, S) - SumFunctionOnSet(g, A \cup B)
    BY <1>0, <1>1, SumWithout
  <1>4. SumFunctionOnSet(f, A \cup B) = SumFunctionOnSet(f, A) + SumFunctionOnSet(f, B)
    <2>1. \A x \in A \cup B : f[x] \in Int BY <1>0
    <2> QED BY <1>0, <1>1, <2>1, SumUnion
  <1>5. SumFunctionOnSet(g, A \cup B) = SumFunctionOnSet(g, A) + SumFunctionOnSet(g, B)
    <2>1. \A x \in A \cup B : g[x] \in Int BY <1>0
    <2> QED BY <1>0, <1>1, <2>1, SumUnion
  <1>6. SumFunctionOnSet(f, B) = 0 /\ SumFunctionOnSet(g, A) = 0 BY <1>0, <1>1, SumZero
  <1>7. SumFunctionOnSet(f, K) = SumFunctionOnSet(g, K) BY <1>0, <1>1, SumAgrees
  <1>8. /\ SumFunctionOnSet(f, S) \in Int /\ SumFunctionOnSet(g, S) \in Int
        /\ SumFunctionOnSet(f, A) \in Int /\ SumFunctionOnSet(g, B) \in Int
    BY <1>0, <1>1, SumInt
  <1> QED BY <1>2, <1>3, <1>4, <1>5, <1>6, <1>7, <1>8

\* A summand that counts only for one key
OnlyFor(x, y, n) == IF x = y THEN n ELSE 0

\* What an invoice adds to a debit is an integer (invoicePartyDebit).
LEMMA DebtInt ==
    ASSUME NEW I, InvTyped(I), NEW q, NEW i \in Invoices
    PROVE  DebtTable(I, q)[i] \in Int /\ DebtTable(I, q)[i] = DebtIn(I[i], q)
  <1>1. DebtIn(I[i], q) \in Int
    <2>1. CASE I[i].doc = "live"
      <3>1. I[i] \in InvoiceType BY <2>1 DEF InvTyped
      <3> QED BY <3>1, DebitIs DEF DebtIn
    <2>2. CASE I[i].doc # "live" BY <2>2 DEF DebtIn
    <2> QED BY <2>1, <2>2
  <1> QED BY <1>1 DEF DebtTable

\* One invoice is written.
LEMMA DebtsChange ==
    ASSUME NEW I, NEW J, InvTyped(I), InvTyped(J), NEW i \in Invoices,
           \A j \in Invoices \ {i} : J[j] = I[j], NEW q
    PROVE  /\ DebtsIn(J, q) = DebtsIn(I, q) - DebtIn(I[i], q) + DebtIn(J[i], q)
           /\ DebtsIn(I, q) \in Int /\ DebtIn(I[i], q) \in Int /\ DebtIn(J[i], q) \in Int
  <1> DEFINE f == DebtTable(I, q)
             g == DebtTable(J, q)
  <1>1. IsFiniteSet(Invoices) BY ReceivablesAssumption DEF ReceivablesAssumption
  <1>2. \A j \in Invoices : f[j] \in Int /\ g[j] \in Int BY DebtInt
  <1>3. \A j \in Invoices \ {i} : g[j] = f[j] BY DEF DebtTable
  <1>4. f[i] = DebtIn(I[i], q) /\ g[i] = DebtIn(J[i], q) BY DebtInt
  <1> HIDE DEF f, g
  <1>5. ChangedAt(f, g, i, Invoices) BY <1>1, <1>2, <1>3 DEF ChangedAt
  <1>6. SumFunctionOnSet(g, Invoices) = SumFunctionOnSet(f, Invoices) - f[i] + g[i] BY <1>5, SumChanges
  <1>7. SumFunctionOnSet(f, Invoices) \in Int BY <1>1, <1>2, SumInt
  <1>8. DebtIn(I[i], q) \in Int /\ DebtIn(J[i], q) \in Int BY <1>2, <1>4
  <1> QED BY <1>4, <1>6, <1>7, <1>8 DEF DebtsIn, f, g

\* No invoice changes in what counts as a debit.
LEMMA DebtsSame ==
    ASSUME NEW I, NEW J, InvTyped(I), \A j \in Invoices, q \in Parties : DebtIn(J[j], q) = DebtIn(I[j], q)
    PROVE  \A q \in Parties : DebtsIn(J, q) = DebtsIn(I, q)
  BY DEF DebtTable, DebtsIn

\* The payments S of a table come to
NetsAt(P)     == [p \in PayIds |-> P[p].net]
NetsIn(P, S)  == SumFunctionOnSet(NetsAt(P), S)

\* The payments `gone`, of party f for invoice i, stop counting; the payments
\* `new`, of party q for invoice j, begin to.
PaysMove(P, N, gone, f, i, new, q, j) ==
    /\ PayTyped(P) /\ PayTyped(N)
    /\ gone \subseteq PayIds /\ new \subseteq PayIds /\ gone \cap new = {}
    /\ \A p \in gone : P[p].st = "active" /\ P[p].party = f /\ P[p].inv = i /\ N[p].st # "active"
    /\ \A p \in new : P[p].st # "active" /\ N[p].st = "active" /\ N[p].party = q /\ N[p].inv = j
    /\ \A p \in PayIds \ (gone \cup new) : N[p] = P[p]

\* What a payment adds to a credit or a paid amount is a natural number.
LEMMA CreditInt ==
    ASSUME NEW P, PayTyped(P), NEW p \in PayIds
    PROVE  /\ \A q : CreditTable(P, q)[p] \in Nat
           /\ \A i : GivenTable(P, i)[p] \in Nat
           /\ P[p].st = "active" => P[p].net \in Nat \ {0} /\ NetsAt(P)[p] = P[p].net
                                    /\ P[p] \in PaymentType
  <1>1. CASE P[p].st = "active"
    <2>1. P[p] \in PaymentType BY <1>1 DEF PayTyped, Unused, Gone
    <2>2. P[p].net \in Nat \ {0} BY <2>1 DEF PaymentType
    <2> QED BY <2>1, <2>2 DEF CreditTable, CreditIn, GivenTable, GivenIn, NetsAt
  <1>2. CASE P[p].st # "active" BY <1>2 DEF CreditTable, CreditIn, GivenTable, GivenIn
  <1> QED BY <1>1, <1>2

\* The net amounts of active payments add up to a natural number.
LEMMA NetsNat ==
    ASSUME NEW P, PayTyped(P), NEW S \in SUBSET PayIds, \A p \in S : P[p].st = "active"
    PROVE  NetsIn(P, S) \in Nat /\ IsFiniteSet(S) /\ \A p \in S : NetsAt(P)[p] \in Nat /\ NetsAt(P)[p] = P[p].net
  BY PayIdsFinite, FS_Subset, CreditInt, SumNat DEF NetsIn

\* A table of which only a set of payments counts, for one key
LEMMA NetsFor ==
    ASSUME NEW P, PayTyped(P), NEW S \in SUBSET PayIds, NEW f, NEW x, NEW y,
           \A p \in S : P[p].st = "active" /\ f[p] = OnlyFor(x, y, P[p].net)
    PROVE  SumFunctionOnSet(f, S) = OnlyFor(x, y, NetsIn(P, S)) /\ NetsIn(P, S) \in Nat
  <1>1. IsFiniteSet(S) /\ NetsIn(P, S) \in Nat BY NetsNat
  <1>2. \A p \in S : NetsAt(P)[p] \in Nat /\ NetsAt(P)[p] = P[p].net BY NetsNat
  <1>4. CASE x = y BY <1>2, <1>4, <1>1, SumAgrees DEF OnlyFor, NetsIn
  <1>5. CASE x # y BY <1>5, <1>1, SumZero DEF OnlyFor
  <1> QED BY <1>1, <1>4, <1>5

\* Credits and paid amounts follow the payments a transaction ends and makes.
LEMMA PaysMoved ==
    ASSUME NEW P, NEW N, NEW gone, NEW f, NEW i, NEW new, NEW q, NEW j,
           PaysMove(P, N, gone, f, i, new, q, j)
    PROVE  /\ NetsIn(P, gone) \in Nat /\ NetsIn(N, new) \in Nat
           /\ \A x : /\ CreditsIn(P, x) \in Nat
                     /\ CreditsIn(N, x) = CreditsIn(P, x) - OnlyFor(x, f, NetsIn(P, gone)) + OnlyFor(x, q, NetsIn(N, new))
           /\ \A x : /\ GivenTo(P, x) \in Nat
                     /\ GivenTo(N, x) = GivenTo(P, x) - OnlyFor(x, i, NetsIn(P, gone)) + OnlyFor(x, j, NetsIn(N, new))
  <1>0. /\ PayTyped(P) /\ PayTyped(N)
        /\ gone \subseteq PayIds /\ new \subseteq PayIds /\ gone \cap new = {}
        /\ \A p \in gone : P[p].st = "active" /\ P[p].party = f /\ P[p].inv = i /\ N[p].st # "active"
        /\ \A p \in new : P[p].st # "active" /\ N[p].st = "active" /\ N[p].party = q /\ N[p].inv = j
        /\ \A p \in PayIds \ (gone \cup new) : N[p] = P[p]
    BY DEF PaysMove
  <1>1. IsFiniteSet(PayIds) /\ gone \in SUBSET PayIds /\ new \in SUBSET PayIds BY <1>0, PayIdsFinite
  <1>2. ASSUME NEW x
        PROVE  /\ CreditsIn(P, x) \in Nat
               /\ CreditsIn(N, x) = CreditsIn(P, x) - OnlyFor(x, f, NetsIn(P, gone)) + OnlyFor(x, q, NetsIn(N, new))
    <2> DEFINE u == CreditTable(P, x)
               v == CreditTable(N, x)
    <2>1. \A p \in PayIds : u[p] \in Nat /\ v[p] \in Nat BY <1>0, CreditInt
    <2>2. \A p \in gone : u[p] = OnlyFor(x, f, P[p].net) /\ v[p] = 0 BY <1>0 DEF CreditTable, CreditIn, OnlyFor
    <2>3. \A p \in new : v[p] = OnlyFor(x, q, N[p].net) /\ u[p] = 0 BY <1>0 DEF CreditTable, CreditIn, OnlyFor
    <2>4. \A p \in PayIds \ (gone \cup new) : v[p] = u[p] BY <1>0 DEF CreditTable
    <2> HIDE DEF u, v
    <2>5. Swapped(u, v, PayIds, gone, new) BY <1>0, <1>1, <2>1, <2>2, <2>3, <2>4 DEF Swapped
    <2>6. SumFunctionOnSet(v, PayIds) = SumFunctionOnSet(u, PayIds) - SumFunctionOnSet(u, gone) + SumFunctionOnSet(v, new)
      BY <2>5, SumSwaps
    <2>7. SumFunctionOnSet(u, gone) = OnlyFor(x, f, NetsIn(P, gone)) BY <1>0, <1>1, <2>2, NetsFor
    <2>8. SumFunctionOnSet(v, new) = OnlyFor(x, q, NetsIn(N, new)) BY <1>0, <1>1, <2>3, NetsFor
    <2>9. SumFunctionOnSet(u, PayIds) \in Nat BY <1>1, <2>1, SumNat
    <2> QED BY <2>6, <2>7, <2>8, <2>9 DEF CreditsIn, u, v
  <1>3. ASSUME NEW x
        PROVE  /\ GivenTo(P, x) \in Nat
               /\ GivenTo(N, x) = GivenTo(P, x) - OnlyFor(x, i, NetsIn(P, gone)) + OnlyFor(x, j, NetsIn(N, new))
    <2> DEFINE u == GivenTable(P, x)
               v == GivenTable(N, x)
    <2>1. \A p \in PayIds : u[p] \in Nat /\ v[p] \in Nat BY <1>0, CreditInt
    <2>2. \A p \in gone : u[p] = OnlyFor(x, i, P[p].net) /\ v[p] = 0 BY <1>0 DEF GivenTable, GivenIn, OnlyFor
    <2>3. \A p \in new : v[p] = OnlyFor(x, j, N[p].net) /\ u[p] = 0 BY <1>0 DEF GivenTable, GivenIn, OnlyFor
    <2>4. \A p \in PayIds \ (gone \cup new) : v[p] = u[p] BY <1>0 DEF GivenTable
    <2> HIDE DEF u, v
    <2>5. Swapped(u, v, PayIds, gone, new) BY <1>0, <1>1, <2>1, <2>2, <2>3, <2>4 DEF Swapped
    <2>6. SumFunctionOnSet(v, PayIds) = SumFunctionOnSet(u, PayIds) - SumFunctionOnSet(u, gone) + SumFunctionOnSet(v, new)
      BY <2>5, SumSwaps
    <2>7. SumFunctionOnSet(u, gone) = OnlyFor(x, i, NetsIn(P, gone)) BY <1>0, <1>1, <2>2, NetsFor
    <2>8. SumFunctionOnSet(v, new) = OnlyFor(x, j, NetsIn(N, new)) BY <1>0, <1>1, <2>3, NetsFor
    <2>9. SumFunctionOnSet(u, PayIds) \in Nat BY <1>1, <2>1, SumNat
    <2> QED BY <2>6, <2>7, <2>8, <2>9 DEF GivenTo, u, v
  <1>4. NetsIn(P, gone) \in Nat /\ NetsIn(N, new) \in Nat BY <1>0, <1>1, NetsNat
  <1> QED BY <1>2, <1>3, <1>4

-----------------------------------------------------------------------------
\* The sums of the properties are the sums of the tables.
LEMMA NetOfIs ==
    ASSUME PayTyped(pay), NEW S \in SUBSET PayIds, \A p \in S : pay[p].st = "active"
    PROVE  NetOf(S) = NetsIn(pay, S) /\ NetOf(S) \in Nat
  <1>1. NetsIn(pay, S) \in Nat /\ IsFiniteSet(S) /\ \A p \in S : NetsAt(pay)[p] \in Nat /\ NetsAt(pay)[p] = pay[p].net
    BY NetsNat
  <1>2. DOMAIN Of(S) = S /\ \A p \in S : NetsOf(Of(S))[p] = pay[p].net BY DEF Of, NetsOf
  <1>3. NetOf(S) = SumFunctionOnSet(NetsOf(Of(S)), S) BY <1>2, NetInIs DEF NetOf
  <1>4. \A p \in S : NetsOf(Of(S))[p] \in Int /\ NetsOf(Of(S))[p] = NetsAt(pay)[p] BY <1>1, <1>2
  <1>5. SumFunctionOnSet(NetsOf(Of(S)), S) = SumFunctionOnSet(NetsAt(pay), S) BY <1>1, <1>4, SumAgrees
  <1> QED BY <1>1, <1>3, <1>5 DEF NetsIn

\* What an invoice or a party was given is what its active payments net.
LEMMA GivenIs ==
    ASSUME PayTyped(pay)
    PROVE  /\ \A i : GivenTo(pay, i) = NetOf(ActiveOf(i))
           /\ \A q : CreditsIn(pay, q) = NetOf(PaymentsOf(q))
  <1>1. IsFiniteSet(PayIds) BY PayIdsFinite
  <1>2. ASSUME NEW i PROVE GivenTo(pay, i) = NetOf(ActiveOf(i))
    <2> DEFINE f == GivenTable(pay, i)
               g == NetsAt(pay)
    <2>1. ActiveOf(i) \in SUBSET PayIds /\ \A p \in ActiveOf(i) : pay[p].st = "active" BY DEF ActiveOf
    <2>2. \A p \in ActiveOf(i) : g[p] \in Int /\ g[p] = pay[p].net BY <2>1, CreditInt
    <2>3. \A p \in ActiveOf(i) : f[p] = g[p] BY <2>1, <2>2 DEF GivenTable, GivenIn, ActiveOf
    <2>4. \A p \in PayIds \ ActiveOf(i) : f[p] = 0 BY DEF GivenTable, GivenIn, ActiveOf
    <2> HIDE DEF f, g
    <2>5. SumFunctionOnSet(f, PayIds) = SumFunctionOnSet(g, ActiveOf(i))
      BY <1>1, <2>1, <2>2, <2>3, <2>4, SumWhere
    <2>6. NetOf(ActiveOf(i)) = NetsIn(pay, ActiveOf(i)) BY <2>1, NetOfIs
    <2> QED BY <2>5, <2>6 DEF GivenTo, NetsIn, f, g
  <1>3. ASSUME NEW q PROVE CreditsIn(pay, q) = NetOf(PaymentsOf(q))
    <2> DEFINE f == CreditTable(pay, q)
               g == NetsAt(pay)
    <2>1. PaymentsOf(q) \in SUBSET PayIds /\ \A p \in PaymentsOf(q) : pay[p].st = "active" BY DEF PaymentsOf
    <2>2. \A p \in PaymentsOf(q) : g[p] \in Int /\ g[p] = pay[p].net BY <2>1, CreditInt
    <2>3. \A p \in PaymentsOf(q) : f[p] = g[p] BY <2>1, <2>2 DEF CreditTable, CreditIn, PaymentsOf
    <2>4. \A p \in PayIds \ PaymentsOf(q) : f[p] = 0 BY DEF CreditTable, CreditIn, PaymentsOf
    <2> HIDE DEF f, g
    <2>5. SumFunctionOnSet(f, PayIds) = SumFunctionOnSet(g, PaymentsOf(q))
      BY <1>1, <2>1, <2>2, <2>3, <2>4, SumWhere
    <2>6. NetOf(PaymentsOf(q)) = NetsIn(pay, PaymentsOf(q)) BY <2>1, NetOfIs
    <2> QED BY <2>5, <2>6 DEF CreditsIn, NetsIn, f, g
  <1> QED BY <1>2, <1>3

\* The debits PartyBalanced adds up, invoice by invoice.
LEMMA DebtsIs ==
    ASSUME InvTyped(inv), NEW q \in Parties
    PROVE  Sum(DebitOf, OwedInvoices(q)) = DebtsIn(inv, q)
  <1> DEFINE f == DebtTable(inv, q)
             g == [i \in OwedInvoices(q) |-> DebitOf(i)]
  <1>1. Sum(DebitOf, OwedInvoices(q)) = SumFunctionOnSet(g, OwedInvoices(q)) BY DEF Sum, SumFunction
  <1>2. IsFiniteSet(Invoices) /\ OwedInvoices(q) \in SUBSET Invoices
    BY ReceivablesAssumption DEF ReceivablesAssumption, OwedInvoices
  <1>3. \A i \in Invoices : f[i] \in Int BY DebtInt
  <1>4. \A i \in OwedInvoices(q) : f[i] = g[i] /\ g[i] \in Int
    <2>1. \A i \in OwedInvoices(q) : f[i] = g[i] BY DEF OwedInvoices, DebtTable, DebtIn, DebitOf, Live
    <2> QED BY <1>2, <1>3, <2>1
  <1>5. \A i \in Invoices \ OwedInvoices(q) : f[i] = 0 BY DEF OwedInvoices, DebtTable, DebtIn, Live
  <1> HIDE DEF f, g
  <1>6. SumFunctionOnSet(f, Invoices) = SumFunctionOnSet(g, OwedInvoices(q)) BY <1>2, <1>4, <1>5, SumWhere
  <1> QED BY <1>1, <1>6 DEF DebtsIn, f

(* What the tables and the request tell together *)

\* The handler has saved the invoice; until its payments follow, what they
\* say is what the invoice was.
Written(r) == r.op \in {"update_invoice", "patch_status"} /\ r.step \in {"ledger", "find", "cancel", "party"}
Behind(r)  == Written(r) /\ r.step # "party"

\* What the request has yet to add to the balance of q
DueTo(v, q) == IF v.party = q THEN Debit(v) ELSE 0
Due(r, q, B) ==
    IF r.op = "create_invoice" THEN DueTo(r.v, q)
    ELSE IF Written(r) THEN DueTo(r.v, q) - DueTo(r.prev, q)
    ELSE IF r.op = "patch_status" /\ r.step = "write" /\ r.q = q THEN r.balance - B[q]
    ELSE 0

\* What the payments of invoice i come to, and who made them
Expected(r, I, i) ==
    IF r.op = "create_invoice" /\ r.step # "party" /\ r.i = i THEN 0
    ELSE IF Behind(r) /\ r.i = i THEN r.prev.paid ELSE I[i].paid
Payer(r, I, i) == IF Behind(r) /\ r.i = i THEN r.prev.party ELSE I[i].party

\* The due date aside
Same(v, w) ==
    /\ v.doc = "live" /\ v.party = w.party /\ v.total = w.total
    /\ v.paid = w.paid /\ v.status = w.status /\ v.mode = w.mode
Covered(v) == v.status \notin {"draft", "cancelled"} => (v.status = "paid" <=> v.paid >= v.total)

\* What the request read is still so.
KnowsCreated(r, I) == r.op = "create_invoice" => Same(I[r.i], r.v) /\ r.v.paid = SplitsTotal(r.splits)
KnowsEdited(r, I) ==
    r.op \in {"update_invoice", "patch_status"} /\ r.step = "save" =>
        Same(I[r.i], r.prev) /\ (r.op = "update_invoice" => r.prev.status # "cancelled")
KnowsWritten(r, I, P) ==
    Written(r) =>
        /\ I[r.i].doc = "live" /\ I[r.i].party = r.v.party /\ Debit(I[r.i]) = Debit(r.v)
        /\ r.step # "party" => Same(I[r.i], r.v)
        /\ r.step = "ledger" => r.v.status # "cancelled"
        /\ r.step \in {"find", "cancel"} => r.v.status = "cancelled" /\ r.v.paid <= r.prev.paid
        /\ r.op = "update_invoice" => r.v.paid = SplitsTotal(r.splits)
        /\ r.op = "patch_status" => r.v.party = r.prev.party
        /\ r.step = "cancel" => r.read = [p \in {n \in PayIds : P[n].st = "active" /\ P[n].inv = r.i} |-> P[p]]
KnowsDeleted(r, I) == r.op = "delete_invoice" => Same(I[r.i], r.v)
KnowsPaid(r, I, B) ==
    r.op = "create_payment" =>
        r.owed = B[r.q] /\ (r.i # None => Same(I[r.i], r.v) /\ I[r.i].party = r.q)
KnowsPayment(r, P) ==
    r.op \in {"delete_payment", "cancel_payment"} =>
        \E p \in PayIds : P[p].st = "active" /\ r.read = [n \in {p} |-> P[n]]
KnowsOverdue(r, I) ==
    r.op = "sync_overdue" =>
        \A i \in r.ids : I[i].doc = "live" /\ I[i].status \in {"sent", "partial"} /\ I[i].total > I[i].paid
Knows(r, I, P, B) ==
    /\ KnowsCreated(r, I) /\ KnowsEdited(r, I) /\ KnowsWritten(r, I, P) /\ KnowsDeleted(r, I)
    /\ KnowsPaid(r, I, B) /\ KnowsPayment(r, P) /\ KnowsOverdue(r, I)

BalancesTold(r, I, P, B) == \A q \in Parties : B[q] + Due(r, q, B) = DebtsIn(I, q) - CreditsIn(P, q)
AmountsTold(r, I, P)     == \A i \in Invoices : I[i].doc = "live" => GivenTo(P, i) = Expected(r, I, i)
PayersTold(r, I, P) ==
    \A p \in PayIds : P[p].st = "active" /\ P[p].inv # None =>
        I[P[p].inv].doc = "live" /\ P[p].party = Payer(r, I, P[p].inv)
StatusesTold(I) == \A i \in Invoices : I[i].doc = "live" => Covered(I[i])

Story(r, I, P, B) ==
    /\ BalancesTold(r, I, P, B) /\ AmountsTold(r, I, P) /\ PayersTold(r, I, P) /\ StatusesTold(I)
    /\ Knows(r, I, P, B)

Told(c) == Story(req[c], inv, pay, bal)

\* One client, none of whose requests fails
Alone(c)   == Clients = {c} /\ ~ Faults /\ Habits = {}
OneAtATime == \E c : Alone(c)

\* A step of that client
Taking(c) == TInv /\ Types' /\ Told(c) /\ Alone(c)

-----------------------------------------------------------------------------
\* What a step of the one client starts from and leaves behind.
LEMMA TakingFacts ==
    ASSUME NEW c, Taking(c)
    PROVE  /\ c \in Clients /\ DOMAIN req = Clients /\ ~ Faults /\ Habits = {}
           /\ InvTyped(inv) /\ PayTyped(pay) /\ BalTyped(bal) /\ RequestTyped(req[c])
           /\ InvTyped(inv') /\ PayTyped(pay') /\ BalTyped(bal')
           /\ Story(req[c], inv, pay, bal)
  BY TInvFacts DEF Taking, Alone, Types, TablesTyped, Told, RequestsTyped

\* A request with nothing left to write down
Aside(r) == r.op # "create_invoice" /\ ~ Written(r) /\ ~ (r.op = "patch_status" /\ r.step = "write")

\* A request that only reads, or is over, owes nothing and shifts nothing.
LEMMA AsideIs ==
    ASSUME NEW r, Aside(r)
    PROVE  /\ \A q, B : Due(r, q, B) = 0
           /\ \A I, i : Expected(r, I, i) = I[i].paid /\ Payer(r, I, i) = I[i].party
  BY DEF Aside, Due, Expected, Payer, Behind

\* An idle client has read nothing.
LEMMA IdleKnows ==
    /\ Aside(Idle)
    /\ \A I, P, B : Knows(Idle, I, P, B)
  BY DEF Aside, Idle, Written, Knows, KnowsCreated, KnowsEdited, KnowsWritten, KnowsDeleted, KnowsPaid,
         KnowsPayment, KnowsOverdue

\* Only the request moves, and what is due, expected and known stays.
LEMMA PlainTold ==
    ASSUME NEW r, NEW x, NEW I, NEW P, NEW B, PayTyped(P), Story(r, I, P, B),
           \A q \in Parties : Due(x, q, B) = Due(r, q, B),
           \A i \in Invoices : I[i].doc = "live" =>
               Expected(x, I, i) = Expected(r, I, i) /\ Payer(x, I, i) = Payer(r, I, i),
           Knows(x, I, P, B)
    PROVE  Story(x, I, P, B)
  BY CreditInt DEF PaymentType, Story, BalancesTold, AmountsTold, PayersTold

\* A client that had nothing to write down goes on with something new to know.
LEMMA ReadTold ==
    ASSUME NEW c, Taking(c), NEW x, Now(c, x), UNCHANGED << inv, pay, bal >>,
           Aside(req[c]), Aside(x), Knows(x, inv, pay, bal)
    PROVE  Told(c)'
  BY TakingFacts, AsideIs, PlainTold DEF Now, Told

\* A live invoice is whole.
LEMMA LiveIn ==
    ASSUME InvTyped(inv), NEW i \in Invoices, Live(i)
    PROVE  inv[i] \in InvoiceType /\ Same(inv[i], inv[i])
  BY LiveTyped DEF Same, Live

\* UpdateInvoice reads the invoice and its splits.
LEMMA UpdateInvoiceTold == ASSUME NEW c, Taking(c), UpdateInvoice(c) PROVE Told(c)'
  <1>0. req[c] = Idle /\ UNCHANGED << inv, pay, bal >> BY DEF UpdateInvoice, Begin, BooksSame
  <1>1. PICK i \in Invoices : Live(i) /\ inv[i].status # "cancelled"
          /\ Now(c, [op |-> "update_invoice", step |-> "save", i |-> i, prev |-> inv[i], had |-> Attached(i)])
    BY DEF UpdateInvoice
  <1> DEFINE x == [op |-> "update_invoice", step |-> "save", i |-> i, prev |-> inv[i], had |-> Attached(i)]
  <1>2. Same(inv[i], inv[i]) BY <1>1, TakingFacts, LiveIn
  <1>3. Aside(x) BY DEF Aside, Written
  <1>4. Knows(x, inv, pay, bal)
    BY <1>1, <1>2 DEF Knows, KnowsCreated, KnowsEdited, KnowsWritten, Written, KnowsDeleted, KnowsPaid,
         KnowsPayment, KnowsOverdue
  <1> HIDE DEF x
  <1> QED BY <1>0, <1>1, <1>3, <1>4, IdleKnows, ReadTold DEF x

\* UpdateInvoiceStatus reads the invoice.
LEMMA UpdateInvoiceStatusTold == ASSUME NEW c, Taking(c), UpdateInvoiceStatus(c) PROVE Told(c)'
  <1>0. req[c] = Idle /\ UNCHANGED << inv, pay, bal >> BY DEF UpdateInvoiceStatus, Begin, BooksSame
  <1>1. PICK i \in Invoices : Live(i)
          /\ Now(c, [op |-> "patch_status", step |-> "save", i |-> i, prev |-> inv[i]])
    BY DEF UpdateInvoiceStatus
  <1> DEFINE x == [op |-> "patch_status", step |-> "save", i |-> i, prev |-> inv[i]]
  <1>2. Same(inv[i], inv[i]) BY <1>1, TakingFacts, LiveIn
  <1>3. Aside(x) BY DEF Aside, Written
  <1>4. Knows(x, inv, pay, bal)
    BY <1>1, <1>2 DEF Knows, KnowsCreated, KnowsEdited, KnowsWritten, Written, KnowsDeleted, KnowsPaid,
         KnowsPayment, KnowsOverdue
  <1> HIDE DEF x
  <1> QED BY <1>0, <1>1, <1>3, <1>4, IdleKnows, ReadTold DEF x

\* DeleteInvoice reads the invoice.
LEMMA DeleteInvoiceTold == ASSUME NEW c, Taking(c), DeleteInvoice(c) PROVE Told(c)'
  <1>0. req[c] = Idle /\ UNCHANGED << inv, pay, bal >> BY DEF DeleteInvoice, Begin, BooksSame
  <1>1. PICK i \in Invoices : Live(i)
          /\ Now(c, [op |-> "delete_invoice", step |-> "erase", i |-> i, v |-> inv[i]])
    BY DEF DeleteInvoice
  <1> DEFINE x == [op |-> "delete_invoice", step |-> "erase", i |-> i, v |-> inv[i]]
  <1>2. Same(inv[i], inv[i]) BY <1>1, TakingFacts, LiveIn
  <1>3. Aside(x) BY DEF Aside, Written
  <1>4. Knows(x, inv, pay, bal)
    BY <1>1, <1>2 DEF Knows, KnowsCreated, KnowsEdited, KnowsWritten, Written, KnowsDeleted, KnowsPaid,
         KnowsPayment, KnowsOverdue
  <1> HIDE DEF x
  <1> QED BY <1>0, <1>1, <1>3, <1>4, IdleKnows, ReadTold DEF x

\* CreatePayment reads the party and the linked invoice.
LEMMA CreatePaymentTold == ASSUME NEW c, Taking(c), CreatePayment(c) PROVE Told(c)'
  <1>0. req[c] = Idle /\ UNCHANGED << inv, pay, bal >> BY DEF CreatePayment, Begin, BooksSame
  <1>1. PICK q \in Parties, i \in Invoices \cup {None}, net \in Amounts, mode \in Modes :
         LET r == [op |-> "create_payment", step |-> "record", i |-> i, q |-> q,
                   net |-> net, mode |-> mode, num |-> NextNumber(pay), owed |-> bal[q]]
         IN  /\ i # None => Live(i) /\ inv[i].party = q
             /\ Now(c, IF i = None THEN r ELSE With(r, "v", inv[i]))
    BY DEF CreatePayment
  <1> DEFINE r == [op |-> "create_payment", step |-> "record", i |-> i, q |-> q,
                   net |-> net, mode |-> mode, num |-> NextNumber(pay), owed |-> bal[q]]
             x == IF i = None THEN r ELSE With(r, "v", inv[i])
  <1>2. x.op = "create_payment" /\ x.step = "record" /\ x.i = i /\ x.q = q /\ x.owed = bal[q] /\ (i # None => x.v = inv[i])
    BY DEF With
  <1>3. Now(c, x) /\ (i # None => Live(i) /\ inv[i].party = q) BY <1>1
  <1> HIDE DEF x
  <1>4. i # None => Same(inv[i], inv[i]) BY <1>3, TakingFacts, LiveIn
  <1>5. Aside(x) BY <1>2 DEF Aside, Written
  <1>6. Knows(x, inv, pay, bal)
    BY <1>2, <1>3, <1>4 DEF Knows, KnowsCreated, KnowsEdited, KnowsWritten, Written, KnowsDeleted, KnowsPaid,
         KnowsPayment, KnowsOverdue
  <1> QED BY <1>0, <1>3, <1>5, <1>6, IdleKnows, ReadTold

\* DeletePayment and CancelPayment read an active payment.
LEMMA EndPaymentTold == ASSUME NEW c, Taking(c), DeletePayment(c) \/ CancelPayment(c) PROVE Told(c)'
  <1>0. req[c] = Idle /\ UNCHANGED << inv, pay, bal >> BY DEF DeletePayment, CancelPayment, Begin, BooksSame
  <1>1. PICK op \in {"delete_payment", "cancel_payment"}, p \in PayIds :
           pay[p].st = "active" /\ Now(c, [op |-> op, step |-> "reverse", read |-> Of({p})])
    <2>1. Habits = {} BY TakingFacts
    <2> QED BY <2>1 DEF DeletePayment, CancelPayment
  <1> DEFINE x == [op |-> op, step |-> "reverse", read |-> Of({p})]
  <1>3. Aside(x) BY DEF Aside, Written
  <1>4. KnowsPayment(x, pay) BY <1>1 DEF KnowsPayment, Of
  <1>5. Knows(x, inv, pay, bal)
    BY <1>4 DEF Knows, KnowsCreated, KnowsEdited, KnowsWritten, Written, KnowsDeleted, KnowsPaid, KnowsOverdue
  <1> HIDE DEF x
  <1> QED BY <1>0, <1>1, <1>3, <1>5, IdleKnows, ReadTold DEF x

\* syncOverdueInvoices picks invoices that are not covered.
LEMMA FindOverdueTold == ASSUME NEW c, Taking(c), FindOverdue(c) PROVE Told(c)'
  <1>0. req[c] = Idle /\ UNCHANGED << inv, pay, bal >> BY DEF FindOverdue, Begin, BooksSame
  <1> DEFINE stale == {i \in Invoices : /\ Live(i) /\ inv[i].late
                                        /\ inv[i].status \in {"sent", "partial"}
                                        /\ inv[i].total > inv[i].paid}
             x == [op |-> "sync_overdue", step |-> "mark", ids |-> stale]
  <1>1. Now(c, x) BY DEF FindOverdue
  <1>2. \A i \in stale : inv[i].doc = "live" /\ inv[i].status \in {"sent", "partial"} /\ inv[i].total > inv[i].paid
    BY DEF Live
  <1> HIDE DEF stale
  <1>3. Aside(x) BY DEF Aside, Written
  <1>5. Knows(x, inv, pay, bal)
    BY <1>2 DEF Knows, KnowsCreated, KnowsEdited, KnowsWritten, Written, KnowsDeleted, KnowsPaid, KnowsPayment, KnowsOverdue
  <1> HIDE DEF x
  <1> QED BY <1>0, <1>1, <1>3, <1>5, IdleKnows, ReadTold

-----------------------------------------------------------------------------
\* A request goes on to step s with all it has.
GoesOn(r, x, s) ==
    /\ x.step = s /\ x.op = r.op /\ x.i = r.i /\ x.v = r.v
    /\ r.op \in {"create_invoice", "update_invoice"} => x.splits = r.splits
    /\ r.op \in {"update_invoice", "patch_status"} => x.prev = r.prev

\* CreateInvoice carries its invoice and splits along.
LEMMA CreatingGoesOn ==
    ASSUME NEW c, Taking(c), req[c].op = "create_invoice", NEW s, Then(c, s)
    PROVE  GoesOn(req[c], req'[c], s) /\ Creating(req[c])
  <1>1. Creating(req[c])
    <2>1. req[c] # Idle BY DEF Idle
    <2> QED BY <2>1, TakingFacts, AtTyped DEF Taking
  <1> DEFINE r == req[c]
             x == [r EXCEPT !.step = s]
  <1>2. req'[c] = x BY TakingFacts DEF Then
  <1>3. {"op", "step", "i", "v", "splits"} \subseteq DOMAIN r BY <1>1 DEF Creating, Typed
  <1> HIDE DEF r
  <1>4. x.step = s /\ \A f \in DOMAIN r : f # "step" => x[f] = r[f] BY <1>3, ThenIs
  <1>5. x.op = r.op /\ x.i = r.i /\ x.v = r.v /\ x.splits = r.splits BY <1>3, <1>4
  <1> HIDE DEF x
  <1> QED BY <1>1, <1>2, <1>4, <1>5 DEF GoesOn, r

\* An edit that was saved carries both versions of the invoice along.
LEMMA SavedGoesOn ==
    ASSUME NEW c, Taking(c), Saved(req[c]), NEW s, Then(c, s)
    PROVE  GoesOn(req[c], req'[c], s)
  BY TakingFacts, ThenIs DEF Then, Saved, Typed, GoesOn

\* CreateInvoice knows only its own invoice.
LEMMA CreatingKnows ==
    ASSUME NEW r, r.op = "create_invoice", NEW I, NEW P, NEW B
    PROVE  Knows(r, I, P, B) <=> KnowsCreated(r, I)
  BY DEF Knows, KnowsEdited, KnowsWritten, Written, KnowsDeleted, KnowsPaid, KnowsPayment, KnowsOverdue

\* A saved edit knows its own invoice, and the payments it read.
LEMMA WrittenKnows ==
    ASSUME NEW r, Written(r), NEW I, NEW P, NEW B
    PROVE  Knows(r, I, P, B) <=> KnowsWritten(r, I, P)
  BY DEF Knows, KnowsCreated, KnowsEdited, Written, KnowsDeleted, KnowsPaid, KnowsPayment, KnowsOverdue

\* The loyalty transaction touches no balance.
LEMMA ApplyLoyaltyTold == ASSUME NEW c, Taking(c), ApplyLoyalty(c) PROVE Told(c)'
  <1>1. /\ req[c].op = "create_invoice" /\ req[c].step = "loyalty"
        /\ Then(c, "journal") /\ UNCHANGED << inv, pay, bal >>
    BY TakingFacts DEF ApplyLoyalty, At, BooksSame
  <1> DEFINE r == req[c]
             x == req'[c]
  <1>2. GoesOn(r, x, "journal") /\ PayTyped(pay) /\ Story(r, inv, pay, bal) BY <1>1, CreatingGoesOn, TakingFacts
  <1>3. KnowsCreated(x, inv) BY <1>1, <1>2 DEF GoesOn, Story, Knows, KnowsCreated
  <1>4. x.op = "create_invoice" /\ Knows(x, inv, pay, bal)
    <2>1. x.op = "create_invoice" BY <1>1, <1>2 DEF GoesOn
    <2> QED BY <1>3, <2>1, CreatingKnows
  <1>5. /\ \A q \in Parties : Due(x, q, bal) = Due(r, q, bal)
        /\ \A i \in Invoices : Expected(x, inv, i) = Expected(r, inv, i) /\ Payer(x, inv, i) = Payer(r, inv, i)
    BY <1>1, <1>2 DEF GoesOn, Due, Expected, Payer, Behind, Written
  <1> HIDE DEF r, x
  <1>6. Story(x, inv, pay, bal) BY <1>2, <1>4, <1>5, PlainTold
  <1> QED BY <1>1, <1>6 DEF Told, x

\* CreateInvoice skips the payment step only when nothing was paid.
LEMMA PostInvoiceJournalTold == ASSUME NEW c, Taking(c), PostInvoiceJournal(c) PROVE Told(c)'
  <1> DEFINE r == req[c]
             x == req'[c]
             s == IF r.v.paid > 0 THEN "pay" ELSE "party"
  <1>1. /\ r.op = "create_invoice" /\ r.step = "journal"
        /\ Then(c, s) /\ UNCHANGED << inv, pay, bal >>
    BY DEF PostInvoiceJournal, At
  <1>2. GoesOn(r, x, s) /\ PayTyped(pay) /\ Story(r, inv, pay, bal) /\ Creating(r)
    BY <1>1, CreatingGoesOn, TakingFacts
  <1>3. KnowsCreated(x, inv) /\ KnowsCreated(r, inv) BY <1>1, <1>2 DEF GoesOn, Story, Knows, KnowsCreated
  <1>4. x.op = "create_invoice" /\ Knows(x, inv, pay, bal)
    <2>1. x.op = "create_invoice" BY <1>1, <1>2 DEF GoesOn
    <2> QED BY <1>3, <2>1, CreatingKnows
  <1>5. s = "party" => inv[r.i].paid = 0 BY <1>2, <1>1, <1>3 DEF Creating, InvoiceType, KnowsCreated, Same
  <1>6. \A q \in Parties : Due(x, q, bal) = Due(r, q, bal) BY <1>1, <1>2 DEF GoesOn, Due
  <1>7. \A i \in Invoices : Expected(x, inv, i) = Expected(r, inv, i) /\ Payer(x, inv, i) = Payer(r, inv, i)
    BY <1>1, <1>2, <1>5 DEF GoesOn, Expected, Payer, Behind, Written
  <1> HIDE DEF r, x, s
  <1>8. Story(x, inv, pay, bal) BY <1>2, <1>4, <1>6, <1>7, PlainTold
  <1> QED BY <1>1, <1>8 DEF Told, x

\* What a step on a saved edit starts from
LEMMA WrittenFacts ==
    ASSUME NEW c, Taking(c), req[c] # Idle, req[c].step \in {"find", "cancel", "ledger"}
    PROVE  Saved(req[c]) /\ Written(req[c]) /\ KnowsWritten(req[c], inv, pay)
  <1>1. Saved(req[c]) BY TakingFacts, AtTyped DEF Taking
  <1> QED BY <1>1, TakingFacts DEF Saved, Written, Story, Knows

\* cancelLinkedInvoicePayments reads the active payments of the invoice.
LEMMA FindLinkedPaymentsTold == ASSUME NEW c, Taking(c), FindLinkedPayments(c) PROVE Told(c)'
  <1> DEFINE r == req[c]
             y == [r EXCEPT !.step = "cancel"]
             read == Of(ActiveOf(r.i))
             x == With(y, "read", read)
  <1>1. /\ r # Idle /\ r.step = "find" /\ Now(c, x) /\ UNCHANGED << inv, pay, bal >>
    BY DEF FindLinkedPayments, BooksSame
  <1>2. Saved(r) /\ Written(r) /\ KnowsWritten(r, inv, pay) BY <1>1, WrittenFacts
  <1>3. /\ {"op", "step", "i", "v", "prev"} \subseteq DOMAIN r /\ r.op \in {"update_invoice", "patch_status"}
        /\ r.op = "update_invoice" => "splits" \in DOMAIN r
    BY <1>2 DEF Saved, Typed
  <1>4. PayTyped(pay) /\ Story(r, inv, pay, bal) /\ req'[c] = x BY <1>1, TakingFacts DEF Now
  <1>5. read = [p \in {n \in PayIds : pay[n].st = "active" /\ pay[n].inv = r.i} |-> pay[p]] BY DEF Of, ActiveOf
  <1>6. /\ y.step = "cancel" /\ DOMAIN y = DOMAIN r /\ \A f \in DOMAIN r : f # "step" => y[f] = r[f]
    <2> HIDE DEF r
    <2> QED BY <1>3, ThenIs
  <1>7. /\ y.op = r.op /\ y.i = r.i /\ y.v = r.v /\ y.prev = r.prev /\ (r.op = "update_invoice" => y.splits = r.splits)
        /\ {"op", "step", "i", "v", "prev"} \subseteq DOMAIN y /\ (r.op = "update_invoice" => "splits" \in DOMAIN y)
    BY <1>3, <1>6
  <1> HIDE DEF y, read
  <1>8. GoesOn(r, x, "cancel") /\ x.read = read BY <1>3, <1>6, <1>7 DEF GoesOn, With
  <1> HIDE DEF x, r
  <1>9. Written(x) /\ KnowsWritten(x, inv, pay) BY <1>1, <1>2, <1>5, <1>8 DEF GoesOn, Written, KnowsWritten
  <1>10. Knows(x, inv, pay, bal) BY <1>9, WrittenKnows
  <1>11. \A q \in Parties : Due(x, q, bal) = Due(r, q, bal) BY <1>2, <1>8, <1>9 DEF GoesOn, Due, Written
  <1>12. \A i \in Invoices : Expected(x, inv, i) = Expected(r, inv, i) /\ Payer(x, inv, i) = Payer(r, inv, i)
    BY <1>1, <1>2, <1>8, <1>9 DEF GoesOn, Expected, Payer, Behind, Written
  <1>13. Story(x, inv, pay, bal) BY <1>4, <1>10, <1>11, <1>12, PlainTold
  <1> QED BY <1>1, <1>4, <1>13 DEF Told

\* adjustPartyBalance reads the balance it will write.
LEMMA ReadBalanceTold == ASSUME NEW c, Taking(c), ReadBalance(c) PROVE Told(c)'
  <1> DEFINE r == req[c]
             delta == Debit(r.v) - Debit(r.prev)
             x == req'[c]
             w == [op |-> "patch_status", step |-> "write", q |-> r.v.party, balance |-> bal[r.v.party] + delta]
  <1>1. /\ r.op = "patch_status" /\ r.step = "party" /\ UNCHANGED << inv, pay, bal >>
        /\ IF delta = 0 THEN x = Idle ELSE x = w
    BY TakingFacts DEF ReadBalance, At, Done, Now, BooksSame
  <1>2. Saved(r) BY TakingFacts, AtTyped, <1>1 DEF Taking, At
  <1>3. PayTyped(pay) /\ Story(r, inv, pay, bal) BY TakingFacts
  <1>4. Written(r) /\ r.v.party = r.prev.party BY <1>1, <1>3 DEF Written, Story, Knows, KnowsWritten
  <1>5. delta \in Int /\ r.v.party \in Parties /\ Debit(r.v) \in Int /\ Debit(r.prev) \in Int /\ bal[r.v.party] \in Int
    BY <1>2, DebitIs, TakingFacts DEF Saved, BalTyped
  <1>6. \A q \in Parties : Due(r, q, bal) = IF q = r.v.party THEN delta ELSE 0
    BY <1>1, <1>4, <1>5 DEF Due, DueTo
  <1>7. \A i \in Invoices : Expected(r, inv, i) = inv[i].paid /\ Payer(r, inv, i) = inv[i].party
    BY <1>1 DEF Expected, Payer, Behind
  <1>8. CASE delta = 0
    <2>1. x = Idle BY <1>1, <1>8
    <2>2. \A q \in Parties : Due(x, q, bal) = Due(r, q, bal) BY <1>6, <1>8, <2>1, IdleKnows, AsideIs
    <2>3. \A i \in Invoices : Expected(x, inv, i) = inv[i].paid /\ Payer(x, inv, i) = inv[i].party
      BY <2>1, IdleKnows, AsideIs
    <2>4. Knows(x, inv, pay, bal) BY <2>1, IdleKnows
    <2> HIDE DEF x, r
    <2>5. Story(x, inv, pay, bal) BY <1>3, <1>7, <2>2, <2>3, <2>4, PlainTold
    <2> QED BY <1>1, <2>5 DEF Told, x
  <1>9. CASE delta # 0
    <2>1. x = w BY <1>1, <1>9
    <2> HIDE DEF delta
    <2>2. x.op = "patch_status" /\ x.step = "write" /\ x.q = r.v.party /\ x.balance = bal[r.v.party] + delta
      BY <2>1
    <2> HIDE DEF x, w
    <2>3. \A q \in Parties : Due(x, q, bal) = Due(r, q, bal) BY <1>5, <1>6, <2>2 DEF Due, Written
    <2>4. \A i \in Invoices : Expected(x, inv, i) = inv[i].paid /\ Payer(x, inv, i) = inv[i].party
      BY <2>2 DEF Expected, Payer, Behind, Written
    <2>5. Knows(x, inv, pay, bal)
      BY <2>2 DEF Knows, KnowsCreated, KnowsEdited, KnowsWritten, Written, KnowsDeleted, KnowsPaid, KnowsPayment, KnowsOverdue
    <2> HIDE DEF r
    <2>6. Story(x, inv, pay, bal) BY <1>3, <1>7, <2>3, <2>4, <2>5, PlainTold
    <2> QED BY <1>1, <2>6 DEF Told, x
  <1> QED BY <1>8, <1>9

-----------------------------------------------------------------------------
\* The balances are written and the request is over.
LEMMA BalanceTold ==
    ASSUME NEW c, Taking(c), Done(c), UNCHANGED << inv, pay >>,
           \A q \in Parties : bal'[q] = bal[q] + Due(req[c], q, bal),
           \A i \in Invoices : Expected(req[c], inv, i) = inv[i].paid /\ Payer(req[c], inv, i) = inv[i].party
    PROVE  Told(c)'
  <1>1. PayTyped(pay) /\ Story(req[c], inv, pay, bal) /\ req'[c] = Idle /\ BalTyped(bal')
    BY TakingFacts DEF Done
  <1>2. \A q \in Parties : bal'[q] \in Int /\ Due(Idle, q, bal') = 0 BY <1>1, IdleKnows, AsideIs DEF BalTyped
  <1>3. BalancesTold(Idle, inv, pay, bal') BY <1>1, <1>2 DEF Story, BalancesTold
  <1>4. \A i \in Invoices : Expected(Idle, inv, i) = inv[i].paid /\ Payer(Idle, inv, i) = inv[i].party
    BY IdleKnows, AsideIs
  <1>5. \A p \in PayIds : pay[p].st = "active" /\ pay[p].inv # None => pay[p].inv \in Invoices
    BY <1>1, CreditInt DEF PaymentType
  <1>6. AmountsTold(Idle, inv, pay) /\ PayersTold(Idle, inv, pay)
    BY <1>1, <1>4, <1>5 DEF Story, AmountsTold, PayersTold
  <1> QED BY <1>1, <1>3, <1>6, IdleKnows DEF Told, Story

\* CreateInvoice debits the party with the invoice.
LEMMA DebitPartyTold == ASSUME NEW c, Taking(c), DebitParty(c) PROVE Told(c)'
  <1> DEFINE r == req[c]
  <1>1. /\ r.op = "create_invoice" /\ r.step = "party" /\ Done(c) /\ UNCHANGED << inv, pay >>
        /\ bal' = Credited(bal, r.v.party, Debit(r.v))
    BY DEF DebitParty, At, BooksSame
  <1>2. Creating(r)
    <2>1. r # Idle BY <1>1 DEF Idle
    <2> QED BY <1>1, <2>1, TakingFacts, AtTyped DEF Taking
  <1>3. Debit(r.v) \in Nat /\ r.v.party \in Parties /\ BalTyped(bal) BY <1>2, DebitIs, TakingFacts DEF Creating
  <1>4. \A q \in Parties : bal'[q] = bal[q] + Due(r, q, bal) BY <1>1, <1>3 DEF Credited, Due, DueTo, BalTyped
  <1>5. \A i \in Invoices : Expected(r, inv, i) = inv[i].paid /\ Payer(r, inv, i) = inv[i].party
    BY <1>1 DEF Expected, Payer, Behind, Written
  <1> QED BY <1>1, <1>4, <1>5, BalanceTold

\* UpdateInvoice moves the debit from the old party and total to the new.
LEMMA MoveDebitTold == ASSUME NEW c, Taking(c), MoveDebit(c) PROVE Told(c)'
  <1> DEFINE r == req[c]
  <1>1. /\ r.op = "update_invoice" /\ r.step = "party" /\ Done(c) /\ UNCHANGED << inv, pay >>
        /\ bal' = Credited(Credited(bal, r.prev.party, - Debit(r.prev)), r.v.party, Debit(r.v))
    BY DEF MoveDebit, At, BooksSame
  <1>2. Saved(r) BY <1>1, TakingFacts, AtTyped DEF Taking, At
  <1>3. /\ Debit(r.v) \in Nat /\ r.v.party \in Parties /\ Debit(r.prev) \in Nat /\ r.prev.party \in Parties
        /\ BalTyped(bal)
    BY <1>2, DebitIs, TakingFacts DEF Saved
  <1>4. \A q \in Parties : bal'[q] = bal[q] + Due(r, q, bal)
    BY <1>1, <1>3 DEF Due, Written, BalTyped, Credited, DueTo
  <1>5. \A i \in Invoices : Expected(r, inv, i) = inv[i].paid /\ Payer(r, inv, i) = inv[i].party
    BY <1>1 DEF Expected, Payer, Behind, Written
  <1> QED BY <1>1, <1>4, <1>5, BalanceTold

\* adjustPartyBalance writes the balance it read, which nobody changed.
LEMMA WriteBalanceTold == ASSUME NEW c, Taking(c), WriteBalance(c) PROVE Told(c)'
  <1> DEFINE r == req[c]
  <1>1. /\ r.op = "patch_status" /\ r.step = "write" /\ Done(c) /\ UNCHANGED << inv, pay >>
        /\ bal' = [bal EXCEPT ![r.q] = r.balance]
    BY DEF WriteBalance, At, BooksSame
  <1>2. Writing(r) BY <1>1, TakingFacts, AtTyped DEF Taking, At
  <1>3. r.q \in Parties /\ r.balance \in Int /\ BalTyped(bal) BY <1>2, TakingFacts DEF Writing
  <1>4. \A q \in Parties : bal'[q] = bal[q] + Due(r, q, bal) BY <1>1, <1>3 DEF Due, Written, BalTyped
  <1>5. \A i \in Invoices : Expected(r, inv, i) = inv[i].paid /\ Payer(r, inv, i) = inv[i].party
    BY <1>1 DEF Expected, Payer, Behind, Written
  <1> QED BY <1>1, <1>4, <1>5, BalanceTold

\* An invoice on which nothing changes that counts
Alike(v, w) ==
    \/ v = w
    \/ /\ v.doc = "live" /\ w.doc = "live" /\ Debit(v) = Debit(w)
       /\ v.party = w.party /\ v.paid = w.paid

\* Debits, paid amounts and parties do not depend on due dates and statuses
\* other than cancelled.
LEMMA AlikeIs ==
    ASSUME NEW I, NEW J, InvTyped(I), \A i \in Invoices : Alike(J[i], I[i])
    PROVE  /\ \A q \in Parties : DebtsIn(J, q) = DebtsIn(I, q)
           /\ \A i \in Invoices : (J[i].doc = "live" <=> I[i].doc = "live") /\ J[i].party = I[i].party /\ J[i].paid = I[i].paid
           /\ \A r, i : i \in Invoices => Expected(r, J, i) = Expected(r, I, i) /\ Payer(r, J, i) = Payer(r, I, i)
  BY DebtsSame DEF DebtIn, Alike, Expected, Payer

\* Only what does not count changes on invoices.
LEMMA AlikeTold ==
    ASSUME NEW r, NEW I, NEW J, NEW P, NEW B, InvTyped(I), PayTyped(P), Story(r, I, P, B),
           \A i \in Invoices : Alike(J[i], I[i]), StatusesTold(J), Knows(r, J, P, B)
    PROVE  Story(r, J, P, B)
  BY CreditInt, AlikeIs DEF PaymentType, Story, BalancesTold, AmountsTold, PayersTold

\* syncOverdueInvoices marks invoices that are still not covered.
LEMMA MarkOverdueTold == ASSUME NEW c, Taking(c), MarkOverdue(c) PROVE Told(c)'
  <1> DEFINE r == req[c]
  <1>1. /\ r.op = "sync_overdue" /\ r.step = "mark" /\ Done(c) /\ UNCHANGED << pay, bal >>
        /\ inv' = [i \in Invoices |-> IF i \in r.ids /\ Live(i) THEN [inv[i] EXCEPT !.status = "overdue"] ELSE inv[i]]
    BY DEF MarkOverdue, At, BooksSame
  <1>2. Marking(r) BY <1>1, TakingFacts, AtTyped DEF Taking, At
  <1>3. /\ InvTyped(inv) /\ PayTyped(pay) /\ Story(r, inv, pay, bal) /\ req'[c] = Idle
    BY <1>1, TakingFacts DEF Done
  <1>4. Aside(r) /\ KnowsOverdue(r, inv) BY <1>1, <1>3 DEF Aside, Written, Story, Knows
  <1>5. Story(Idle, inv, pay, bal) BY <1>3, <1>4, AsideIs, IdleKnows, PlainTold
  <1>6. ASSUME NEW i \in Invoices
        PROVE  Alike(inv'[i], inv[i]) /\ (inv'[i].doc = "live" => Covered(inv'[i]))
    <2>1. CASE i \in r.ids /\ Live(i)
      <3>1. inv[i] \in InvoiceType BY <1>3, <2>1, LiveTyped
      <3>2. inv[i].status \in {"sent", "partial"} /\ inv[i].total > inv[i].paid /\ inv[i].total \in Nat /\ inv[i].paid \in Nat
        BY <1>1, <1>3, <1>4, <2>1, LiveTyped DEF KnowsOverdue
      <3>3. inv'[i] = [inv[i] EXCEPT !.status = "overdue"] BY <1>1, <2>1
      <3>4. /\ inv'[i].status = "overdue" /\ inv'[i].doc = "live" /\ inv[i].doc = "live" /\ inv'[i].party = inv[i].party
            /\ inv'[i].paid = inv[i].paid /\ inv'[i].total = inv[i].total
        BY <3>1, <3>3 DEF InvoiceType
      <3> QED BY <3>2, <3>4 DEF Alike, Debit, Covered
    <2>2. CASE ~ (i \in r.ids /\ Live(i))
      <3>1. inv'[i] = inv[i] BY <1>1, <2>2
      <3> QED BY <1>3, <3>1 DEF Alike, Story, StatusesTold
    <2> QED BY <2>1, <2>2
  <1>7. StatusesTold(inv') BY <1>6 DEF StatusesTold
  <1>8. Story(Idle, inv', pay, bal) BY <1>3, <1>5, <1>6, <1>7, IdleKnows, AlikeTold
  <1> QED BY <1>1, <1>3, <1>8 DEF Told

\* What a request knows does not depend on due dates.
LEMMA DueDatesUnknown ==
    ASSUME NEW r, RequestTyped(r), NEW I, NEW J, NEW P, NEW B, Knows(r, I, P, B),
           \A i \in Invoices : J[i] = I[i] \/ (I[i].doc = "live" /\ Same(J[i], I[i]))
    PROVE  Knows(r, J, P, B)
  <1>0. \A i \in Invoices : J[i].doc = I[i].doc /\ J[i].status = I[i].status /\ J[i].total = I[i].total
                            /\ J[i].paid = I[i].paid /\ J[i].party = I[i].party /\ J[i].mode = I[i].mode
    BY DEF Same
  <1>1. CASE r = Idle BY <1>1, IdleKnows
  <1>2. CASE /\ r # Idle /\ (r.op = "create_payment" => r.i # None)
             /\ r.op \in {"create_invoice", "update_invoice", "patch_status", "delete_invoice", "create_payment"} /\ r.step # "write"
    <2>1. r.i \in Invoices
      BY <1>2 DEF RequestTyped, Creating, Editing, Patching, Saved, Writing, Erasing, Recording, Reversing, Marking
    <2>2. /\ KnowsCreated(r, J) /\ KnowsEdited(r, J) /\ KnowsDeleted(r, J) /\ KnowsPaid(r, J, B)
      BY <1>0, <2>1 DEF Knows, KnowsCreated, KnowsEdited, KnowsDeleted, KnowsPaid, Same
    <2>3. KnowsWritten(r, J, P) BY <1>0, <2>1 DEF Debit, Knows, KnowsWritten, Same
    <2> QED BY <1>2, <2>2, <2>3 DEF Knows, KnowsPayment, KnowsOverdue
  <1>3. CASE /\ r # Idle
             /\ \/ r.op = "create_payment" /\ r.i = None
                \/ r.op = "patch_status" /\ r.step = "write"
                \/ r.op \in {"delete_payment", "cancel_payment"}
    BY <1>3 DEF Knows, KnowsCreated, KnowsEdited, KnowsWritten, Written, KnowsDeleted, KnowsPaid, KnowsPayment, KnowsOverdue
  <1>4. CASE r # Idle /\ r.op = "sync_overdue"
    <2>1. r.ids \subseteq Invoices
      BY <1>4 DEF RequestTyped, Creating, Editing, Patching, Saved, Writing, Erasing, Recording, Reversing, Marking
    <2> QED
      BY <1>0, <1>4, <2>1 DEF Knows, KnowsCreated, KnowsEdited, KnowsWritten, Written, KnowsDeleted, KnowsPaid, KnowsPayment, KnowsOverdue
  <1>5. \/ r = Idle
        \/ /\ r.op \in {"create_invoice", "update_invoice", "patch_status", "delete_invoice", "create_payment",
                        "delete_payment", "cancel_payment", "sync_overdue"}
           /\ r.step = "write" => r.op = "patch_status"
    BY DEF RequestTyped, Creating, Editing, Patching, Saved, Writing, Erasing, Recording, Reversing, Marking
  <1> QED BY <1>1, <1>2, <1>3, <1>4, <1>5

\* A due date passes.
LEMMA DueDatePassesTold == ASSUME NEW c, Taking(c), DueDatePasses PROVE Told(c)'
  <1>1. UNCHANGED << pay, bal, req >> BY DEF DueDatePasses, BooksSame
  <1>2. PICK k \in Invoices : Live(k) /\ ~ inv[k].late /\ inv' = [inv EXCEPT ![k].late = TRUE]
    BY DEF DueDatePasses
  <1>3. InvTyped(inv) /\ PayTyped(pay) /\ RequestTyped(req[c]) /\ Story(req[c], inv, pay, bal) BY TakingFacts
  <1>4. ASSUME NEW i \in Invoices
        PROVE  inv'[i] = inv[i] \/ (inv[i].doc = "live" /\ Same(inv'[i], inv[i]) /\ inv'[i].doc = "live")
    BY <1>2, <1>3, LiveTyped DEF InvTyped, InvoiceType, Same
  <1>5. \A i \in Invoices : Alike(inv'[i], inv[i]) BY <1>4 DEF Alike, Same, Debit
  <1>6. StatusesTold(inv') BY <1>3, <1>4 DEF StatusesTold, Same, Covered, Story
  <1>7. Knows(req[c], inv', pay, bal) BY <1>3, <1>4, DueDatesUnknown DEF Story
  <1>8. Story(req[c], inv', pay, bal) BY <1>3, <1>5, <1>6, <1>7, AlikeTold
  <1> QED BY <1>1, <1>8 DEF Told

-----------------------------------------------------------------------------
\* What saving an invoice v, and going on with request x, must get right
Saving(c, i, v, x) ==
    /\ Aside(req[c]) /\ i \in Invoices /\ v \in InvoiceType /\ Covered(v)
    /\ inv' = [inv EXCEPT ![i] = v] /\ UNCHANGED << pay, bal >> /\ req'[c] = x
    /\ \A q \in Parties : Due(x, q, bal) = DebtIn(v, q) - DebtIn(inv[i], q)
    /\ GivenTo(pay, i) = Expected(x, inv', i)
    /\ Live(i) => Payer(x, inv', i) = inv[i].party
    /\ \A j \in Invoices \ {i} : Expected(x, inv', j) = inv[j].paid /\ Payer(x, inv', j) = inv[j].party
    /\ Knows(x, inv', pay, bal)

\* Saving an invoice keeps the story when the request goes on to settle what changed.
LEMMA SavingTold == ASSUME NEW c, Taking(c), NEW i, NEW v, NEW x, Saving(c, i, v, x) PROVE Told(c)'
  <1>0. /\ Aside(req[c]) /\ i \in Invoices /\ v \in InvoiceType /\ Covered(v)
        /\ inv' = [inv EXCEPT ![i] = v] /\ UNCHANGED << pay, bal >> /\ req'[c] = x
        /\ \A q \in Parties : Due(x, q, bal) = DebtIn(v, q) - DebtIn(inv[i], q)
        /\ GivenTo(pay, i) = Expected(x, inv', i)
        /\ Live(i) => Payer(x, inv', i) = inv[i].party
        /\ \A j \in Invoices \ {i} : Expected(x, inv', j) = inv[j].paid /\ Payer(x, inv', j) = inv[j].party
        /\ Knows(x, inv', pay, bal)
    BY DEF Saving
  <1>1. InvTyped(inv) /\ InvTyped(inv') /\ PayTyped(pay) /\ BalTyped(bal) /\ Story(req[c], inv, pay, bal)
    BY TakingFacts
  <1>2. inv'[i] = v /\ \A j \in Invoices \ {i} : inv'[j] = inv[j] BY <1>0, <1>1 DEF InvTyped
  <1>3. BalancesTold(x, inv', pay, bal)
    <2> SUFFICES ASSUME NEW q \in Parties PROVE bal[q] + Due(x, q, bal) = DebtsIn(inv', q) - CreditsIn(pay, q)
      BY DEF BalancesTold
    <2>1. /\ DebtsIn(inv', q) = DebtsIn(inv, q) - DebtIn(inv[i], q) + DebtIn(v, q)
          /\ DebtsIn(inv, q) \in Int /\ DebtIn(inv[i], q) \in Int /\ DebtIn(v, q) \in Int
      <3>1. /\ DebtsIn(inv', q) = DebtsIn(inv, q) - DebtIn(inv[i], q) + DebtIn(inv'[i], q)
            /\ DebtsIn(inv, q) \in Int /\ DebtIn(inv[i], q) \in Int /\ DebtIn(inv'[i], q) \in Int
        <4>1. i \in Invoices /\ \A j \in Invoices \ {i} : inv'[j] = inv[j] BY <1>0, <1>2
        <4>2. InvTyped(inv) /\ InvTyped(inv') BY <1>1
        <4> QED BY <4>1, <4>2, DebtsChange
      <3> QED BY <1>2, <3>1
    <2>2. bal[q] = DebtsIn(inv, q) - CreditsIn(pay, q) /\ bal[q] \in Int
      BY <1>1, <1>0, AsideIs DEF Story, BalancesTold, BalTyped
    <2>3. CreditsIn(pay, q) \in Int
      <3>1. PaysMove(pay, pay, {}, q, i, {}, q, i) BY <1>1 DEF PaysMove
      <3> QED BY <3>1, PaysMoved
    <2>4. Due(x, q, bal) = DebtIn(v, q) - DebtIn(inv[i], q) BY <1>0
    <2> QED BY <2>1, <2>2, <2>3, <2>4
  <1>4. AmountsTold(x, inv', pay)
    <2> SUFFICES ASSUME NEW j \in Invoices, inv'[j].doc = "live" PROVE GivenTo(pay, j) = Expected(x, inv', j)
      BY DEF AmountsTold
    <2>1. CASE j = i BY <1>0, <2>1
    <2>2. CASE j # i
      <3>1. inv[j].doc = "live" /\ Expected(x, inv', j) = inv[j].paid BY <1>0, <1>2, <2>2
      <3>2. GivenTo(pay, j) = Expected(req[c], inv, j) BY <1>1, <3>1 DEF Story, AmountsTold
      <3>3. Expected(req[c], inv, j) = inv[j].paid BY <1>0, AsideIs
      <3> QED BY <3>1, <3>2, <3>3
    <2> QED BY <2>1, <2>2
  <1>5. PayersTold(x, inv', pay)
    <2> SUFFICES ASSUME NEW p \in PayIds, pay[p].st = "active", pay[p].inv # None
                 PROVE  inv'[pay[p].inv].doc = "live" /\ pay[p].party = Payer(x, inv', pay[p].inv)
      BY DEF PayersTold
    <2> DEFINE j == pay[p].inv
    <2>1. j \in Invoices BY <1>1, CreditInt DEF PaymentType
    <2>2. inv[j].doc = "live" /\ pay[p].party = inv[j].party BY <1>1, <1>0, AsideIs DEF Story, PayersTold
    <2>3. v.doc = "live" BY <1>0 DEF InvoiceType
    <2> HIDE DEF j
    <2>4. CASE j = i
      <3>1. Live(i) BY <2>2, <2>4 DEF Live
      <3> QED BY <1>0, <1>2, <2>2, <2>3, <2>4, <3>1 DEF j
    <2>5. CASE j # i BY <1>0, <1>2, <2>1, <2>2, <2>5 DEF j
    <2> QED BY <2>4, <2>5
  <1>6. StatusesTold(inv') BY <1>0, <1>1, <1>2 DEF Story, StatusesTold
  <1>7. Story(x, inv', pay, bal) BY <1>0, <1>3, <1>4, <1>5, <1>6 DEF Story
  <1> QED BY <1>0, <1>7 DEF Told

\* An invoice nobody has used has no payments.
LEMMA UnusedUnpaid ==
    ASSUME NEW r, NEW I, NEW P, PayTyped(P), PayersTold(r, I, P), NEW i \in Invoices, I[i].doc # "live"
    PROVE  GivenTo(P, i) = 0
  <1>1. \A p \in PayIds : P[p].st = "active" => P[p].inv # i
    BY ReceivablesAssumption DEF PayersTold, ReceivablesAssumption
  <1>2. \A p \in PayIds : GivenTable(P, i)[p] = 0 BY <1>1 DEF GivenTable, GivenIn
  <1> QED BY <1>2, PayIdsFinite, SumZero DEF GivenTo

\* normalizeInvoicePaymentStatus
LEMMA NormalisedIs ==
    ASSUME NEW new, NEW saved, saved = [new EXCEPT !.status = Normalised(new)], saved \in InvoiceType,
           {"doc", "party", "total", "paid", "status", "mode", "late"} \subseteq DOMAIN new,
           new.status = "paid" => new.paid >= new.total
    PROVE  /\ Covered(saved) /\ saved.party = new.party /\ saved.total = new.total /\ saved.paid = new.paid
           /\ saved.status = "cancelled" <=> new.status = "cancelled"
           /\ saved.doc = "live" /\ Same(saved, saved)
  BY ReceivablesAssumption DEF InvoiceType, ReceivablesAssumption, Covered, Normalised, Same

\* CreateInvoice saves an invoice its payments are still to follow.
LEMMA CreateInvoiceTold == ASSUME NEW c, Taking(c), CreateInvoice(c) PROVE Told(c)'
  <1>0. req[c] = Idle /\ UNCHANGED << pay, bal >> BY DEF CreateInvoice, Begin, BooksSame
  <1>1. PICK i \in Invoices, q \in Parties, total \in Totals, paid \in Amounts \cup {0},
          status \in Statuses, mode \in Modes, input \in SplitInputs, late \in Lates :
         LET splits == FinalSplits(status, total, paid, mode, input, << >>)
             new    == [doc |-> "live", party |-> q, total |-> total,
                        paid |-> SplitsTotal(splits), status |-> status,
                        mode |-> FirstMode(splits, mode), late |-> late]
             saved  == [new EXCEPT !.status = Normalised(new)]
         IN  /\ inv[i].doc = "unused"
             /\ inv' = [inv EXCEPT ![i] = saved]
             /\ Now(c, [op |-> "create_invoice", step |-> "loyalty", i |-> i,
                        v |-> saved, splits |-> splits, owed |-> bal[q]])
    BY Zenon DEF CreateInvoice
  <1> DEFINE splits == FinalSplits(status, total, paid, mode, input, << >>)
             new    == [doc |-> "live", party |-> q, total |-> total,
                        paid |-> SplitsTotal(splits), status |-> status,
                        mode |-> FirstMode(splits, mode), late |-> late]
             saved  == [new EXCEPT !.status = Normalised(new)]
             x      == [op |-> "create_invoice", step |-> "loyalty", i |-> i,
                        v |-> saved, splits |-> splits, owed |-> bal[q]]
  <1>2. inv[i].doc = "unused" /\ inv' = [inv EXCEPT ![i] = saved] /\ Now(c, x) BY <1>1
  <1>3. /\ q \in Parties /\ total \in Totals /\ paid \in Nat /\ status \in Statuses /\ mode \in Modes
        /\ input \in SplitInputs /\ late \in Lates /\ << >> \in Usable(Modes) /\ total \in Nat
    BY ReceivablesAssumption DEF ReceivablesAssumption, Usable
  <1> HIDE DEF splits
  <1>4. new.paid = SplitsTotal(splits) /\ new.status = status /\ new.total = total
        /\ {"doc", "party", "total", "paid", "status", "mode", "late"} \subseteq DOMAIN new
    OBVIOUS
  <1> HIDE DEF new
  <1>5. saved \in InvoiceType /\ SplitsTotal(splits) \in Nat /\ (status = "paid" => SplitsTotal(splits) = total)
    BY <1>3, SavedInvoice DEF splits, new
  <1>6. Covered(saved) /\ saved.paid = SplitsTotal(splits) /\ saved.doc = "live" /\ Same(saved, saved)
    BY <1>3, <1>4, <1>5, NormalisedIs
  <1>7. x.op = "create_invoice" /\ x.step = "loyalty" /\ x.i = i /\ x.v = saved /\ x.splits = splits OBVIOUS
  <1> HIDE DEF x, saved
  <1>8. InvTyped(inv) /\ PayTyped(pay) /\ Story(req[c], inv, pay, bal) /\ req'[c] = x
    BY <1>2, TakingFacts DEF Now
  <1>9. inv'[i] = saved /\ \A j \in Invoices \ {i} : inv'[j] = inv[j] BY <1>2, <1>8 DEF InvTyped
  <1>10. Knows(x, inv', pay, bal)
    <2>1. KnowsCreated(x, inv') BY <1>6, <1>7, <1>9 DEF KnowsCreated
    <2> QED BY <1>7, <2>1, CreatingKnows
  <1>11. \A p \in Parties : Due(x, p, bal) = DebtIn(saved, p) - DebtIn(inv[i], p)
    BY <1>5, DebitIs, <1>2, <1>6, <1>7 DEF DebtIn, Due, DueTo
  <1>12. GivenTo(pay, i) = Expected(x, inv', i)
    <2>1. GivenTo(pay, i) = 0 BY <1>2, <1>8, UnusedUnpaid DEF Story
    <2> QED BY <1>7, <2>1 DEF Expected
  <1>13. \A j \in Invoices \ {i} : Expected(x, inv', j) = inv[j].paid /\ Payer(x, inv', j) = inv[j].party
    BY <1>7, <1>9 DEF Expected, Payer, Behind, Written
  <1>14. Saving(c, i, saved, x)
    BY <1>0, <1>2, <1>5, <1>6, <1>8, <1>10, <1>11, <1>12, <1>13, IdleKnows DEF Saving, Live
  <1> QED BY <1>14, SavingTold

\* What an edit or a patch that saved the invoice goes on with
GoesAhead(x, i, prev, v) ==
    /\ x.op \in {"update_invoice", "patch_status"} /\ x.step = AfterSave(prev, v)
    /\ x.i = i /\ x.prev = prev /\ x.v = v
    /\ i \in Invoices /\ prev \in InvoiceType /\ v \in InvoiceType /\ Covered(v)
    /\ v.status = "cancelled" => v.paid <= prev.paid
    /\ x.op = "update_invoice" => v.paid = SplitsTotal(x.splits) /\ prev.status # "cancelled"
    /\ x.op = "patch_status" => v.party = prev.party /\ (v.status = "cancelled" => v.paid = prev.paid)

\* An edit or a patch saves an invoice whose payments still follow what it was.
LEMMA AheadTold ==
    ASSUME NEW c, Taking(c), NEW x, NEW i, NEW prev, NEW v, GoesAhead(x, i, prev, v),
           Aside(req[c]), Same(inv[i], prev), inv' = [inv EXCEPT ![i] = v], UNCHANGED << pay, bal >>, req'[c] = x
    PROVE  Told(c)'
  <1>0. /\ x.op \in {"update_invoice", "patch_status"} /\ x.step = AfterSave(prev, v)
        /\ x.i = i /\ x.prev = prev /\ x.v = v
        /\ i \in Invoices /\ prev \in InvoiceType /\ v \in InvoiceType /\ Covered(v)
        /\ v.status = "cancelled" => v.paid <= prev.paid
        /\ x.op = "update_invoice" => v.paid = SplitsTotal(x.splits) /\ prev.status # "cancelled"
        /\ x.op = "patch_status" => v.party = prev.party /\ (v.status = "cancelled" => v.paid = prev.paid)
    BY DEF GoesAhead
  <1>1. /\ InvTyped(inv) /\ PayTyped(pay) /\ Story(req[c], inv, pay, bal) BY TakingFacts
  <1>2. inv'[i] = v /\ \A j \in Invoices \ {i} : inv'[j] = inv[j] BY <1>0, <1>1 DEF InvTyped
  <1>3. /\ Written(x) /\ x.step \in {"ledger", "find", "party"}
        /\ x.step = "ledger" => v.status # "cancelled"
        /\ x.step \in {"find", "party"} => v.status = "cancelled"
        /\ x.step = "party" => prev.status = "cancelled" /\ x.op = "patch_status"
    BY <1>0 DEF Written, AfterSave
  <1>4. Live(i) /\ inv[i].party = prev.party /\ inv[i].paid = prev.paid /\ Debit(inv[i]) = Debit(prev) /\ v.doc = "live"
    BY <1>0 DEF Same, Live, Debit, InvoiceType
  <1>5. KnowsWritten(x, inv', pay) BY <1>0, <1>2, <1>3, <1>4 DEF KnowsWritten, Same
  <1>6. Knows(x, inv', pay, bal) BY <1>3, <1>5, WrittenKnows
  <1>7. \A q \in Parties : Due(x, q, bal) = DebtIn(v, q) - DebtIn(inv[i], q)
    BY <1>0, <1>3, <1>4 DEF Due, DueTo, DebtIn, Live
  <1>8. GivenTo(pay, i) = prev.paid BY <1>0, <1>1, <1>4, AsideIs DEF Story, AmountsTold, Live
  <1>9. Expected(x, inv', i) = prev.paid /\ Payer(x, inv', i) = inv[i].party
    BY <1>0, <1>2, <1>3, <1>4 DEF Expected, Payer, Behind
  <1>10. \A j \in Invoices \ {i} : Expected(x, inv', j) = inv[j].paid /\ Payer(x, inv', j) = inv[j].party
    BY <1>0, <1>2 DEF Expected, Payer
  <1>11. Saving(c, i, v, x) BY <1>0, <1>6, <1>7, <1>8, <1>9, <1>10 DEF Saving
  <1> QED BY <1>11, SavingTold

\* UpdateInvoice saves the edited invoice.
LEMMA SaveUpdatedInvoiceTold == ASSUME NEW c, Taking(c), SaveUpdatedInvoice(c) PROVE Told(c)'
  <1> DEFINE r == req[c]
  <1>0. r.op = "update_invoice" /\ r.step = "save" /\ UNCHANGED << pay, bal >>
    BY DEF SaveUpdatedInvoice, At, BooksSame
  <1>1. PICK q \in Parties, total \in Totals, paid \in Amounts \cup {0},
          status \in Statuses, mode \in Modes, input \in SplitInputs, late \in Lates :
         LET splits == FinalSplits(status, total, paid, mode, input, r.had)
             new    == [doc |-> "live", party |-> q, total |-> total,
                        paid |-> SplitsTotal(splits), status |-> status,
                        mode |-> FirstMode(splits, mode), late |-> late]
             saved  == [new EXCEPT !.status = Normalised(new)]
         IN  /\ status = "cancelled" =>
                  "amount_with_cancel" \in Habits \/ saved.paid <= r.prev.paid
             /\ inv' = [inv EXCEPT ![r.i] = saved]
             /\ Now(c, [op |-> "update_invoice", step |-> AfterSave(r.prev, saved),
                        i |-> r.i, prev |-> r.prev, had |-> r.had,
                        v |-> saved, splits |-> splits])
    BY DEF SaveUpdatedInvoice
  <1> DEFINE splits == FinalSplits(status, total, paid, mode, input, r.had)
             new    == [doc |-> "live", party |-> q, total |-> total,
                        paid |-> SplitsTotal(splits), status |-> status,
                        mode |-> FirstMode(splits, mode), late |-> late]
             saved  == [new EXCEPT !.status = Normalised(new)]
             s      == AfterSave(r.prev, saved)
             x      == [op |-> "update_invoice", step |-> s, i |-> r.i, prev |-> r.prev, had |-> r.had,
                        v |-> saved, splits |-> splits]
  <1>2. /\ inv' = [inv EXCEPT ![r.i] = saved] /\ Now(c, x)
        /\ status = "cancelled" => "amount_with_cancel" \in Habits \/ saved.paid <= r.prev.paid
    BY <1>1
  <1>3. Editing(r) /\ KnowsEdited(r, inv) /\ Aside(r)
    BY <1>0, TakingFacts, AtTyped DEF Taking, At, Story, Knows, Aside, Written
  <1>4. /\ r.i \in Invoices /\ r.prev \in InvoiceType /\ r.had \in Usable(Modes)
        /\ Same(inv[r.i], r.prev) /\ r.prev.status # "cancelled"
    BY <1>0, <1>3 DEF Editing, KnowsEdited
  <1>5. req'[c] = x /\ Habits = {} BY <1>2, TakingFacts DEF Now
  <1>6. /\ q \in Parties /\ total \in Totals /\ paid \in Nat /\ status \in Statuses /\ mode \in Modes
        /\ input \in SplitInputs /\ late \in Lates /\ total \in Nat
    BY ReceivablesAssumption DEF ReceivablesAssumption
  <1> HIDE DEF r, splits
  <1>7. new.paid = SplitsTotal(splits) /\ new.status = status /\ new.total = total
        /\ {"doc", "party", "total", "paid", "status", "mode", "late"} \subseteq DOMAIN new
    OBVIOUS
  <1> HIDE DEF new
  <1>8. saved \in InvoiceType /\ SplitsTotal(splits) \in Nat /\ (status = "paid" => SplitsTotal(splits) = total)
    BY <1>4, <1>6, SavedInvoice DEF splits, new
  <1>9. Covered(saved) /\ saved.paid = SplitsTotal(splits) /\ (saved.status = "cancelled" <=> status = "cancelled")
    BY <1>6, <1>7, <1>8, NormalisedIs
  <1>10. x.op = "update_invoice" /\ x.step = AfterSave(r.prev, saved) /\ x.i = r.i /\ x.prev = r.prev /\ x.v = saved /\ x.splits = splits
    OBVIOUS
  <1>11. saved.status = "cancelled" => saved.paid <= r.prev.paid BY <1>2, <1>5, <1>9
  <1> HIDE DEF x, saved, s
  <1>12. GoesAhead(x, r.i, r.prev, saved) BY <1>4, <1>8, <1>9, <1>10, <1>11 DEF GoesAhead
  <1> QED BY <1>0, <1>2, <1>3, <1>4, <1>5, <1>12, AheadTold DEF r

\* UpdateInvoiceStatus saves the patched invoice.
LEMMA SavePatchedStatusTold == ASSUME NEW c, Taking(c), SavePatchedStatus(c) PROVE Told(c)'
  <1> DEFINE r == req[c]
  <1>0. r.op = "patch_status" /\ r.step = "save" /\ UNCHANGED << pay, bal >>
    BY DEF SavePatchedStatus, At, BooksSame
  <1>1. PICK status \in Statuses, paid \in Amounts \cup {0, r.prev.paid} :
         LET sent  == paid # r.prev.paid
             new   == [r.prev EXCEPT
                         !.status = status,
                         !.late   = IF Live(r.i) THEN inv[r.i].late ELSE @,
                         !.paid   = IF status = "paid" THEN @
                                    ELSE IF sent THEN Lesser(paid, r.prev.total) ELSE @]
             full  == IF status = "paid" THEN [new EXCEPT !.paid = new.total] ELSE new
             saved == [full EXCEPT !.status = Normalised(full)]
         IN  /\ status = "cancelled" => "amount_with_cancel" \in Habits \/ ~sent
             /\ inv' = [inv EXCEPT ![r.i] = saved]
             /\ Now(c, [op |-> "patch_status", step |-> AfterSave(r.prev, saved),
                        i |-> r.i, prev |-> r.prev, v |-> saved])
    BY Zenon DEF SavePatchedStatus
  <1> DEFINE sent  == paid # r.prev.paid
             late  == IF Live(r.i) THEN inv[r.i].late ELSE r.prev.late
             new   == [r.prev EXCEPT
                         !.status = status,
                         !.late   = late,
                         !.paid   = IF status = "paid" THEN @
                                    ELSE IF sent THEN Lesser(paid, r.prev.total) ELSE @]
             full  == IF status = "paid" THEN [new EXCEPT !.paid = new.total] ELSE new
             saved == [full EXCEPT !.status = Normalised(full)]
             s     == AfterSave(r.prev, saved)
             x     == [op |-> "patch_status", step |-> s, i |-> r.i, prev |-> r.prev, v |-> saved]
  <1>2. /\ inv' = [inv EXCEPT ![r.i] = saved] /\ Now(c, x)
        /\ status = "cancelled" => "amount_with_cancel" \in Habits \/ ~sent
    BY <1>1, Zenon
  <1>3. Patching(r) /\ KnowsEdited(r, inv) /\ Aside(r)
    BY <1>0, TakingFacts, AtTyped DEF Taking, At, Story, Knows, Aside, Written
  <1>4. r.i \in Invoices /\ r.prev \in InvoiceType /\ Same(inv[r.i], r.prev)
    BY <1>0, <1>3 DEF Patching, KnowsEdited
  <1>5. req'[c] = x /\ Habits = {} /\ InvTyped(inv') /\ InvTyped(inv) BY <1>2, TakingFacts DEF Now
  <1> HIDE DEF r
  <1>6. saved = inv'[r.i]
    <2> HIDE DEF saved, x
    <2>1. DOMAIN inv = Invoices BY <1>5 DEF InvTyped
    <2> QED BY <1>2, <1>4, <2>1
  <1>7. /\ {"doc", "party", "total", "paid", "status", "mode", "late"} \subseteq DOMAIN r.prev
        /\ r.prev.total \in Nat /\ r.prev.paid \in Nat
    BY <1>4, ReceivablesAssumption DEF InvoiceType, ReceivablesAssumption
  <1>8. /\ DOMAIN new = DOMAIN r.prev /\ new.status = status /\ new.party = r.prev.party /\ new.total = r.prev.total
        /\ new.doc = r.prev.doc
        /\ status = "cancelled" => new.paid = r.prev.paid
    BY <1>2, <1>5, <1>7
  <1> HIDE DEF late, sent, new
  <1>9. /\ DOMAIN full = DOMAIN r.prev /\ full.status = status /\ full.party = r.prev.party /\ full.total = r.prev.total
        /\ full.doc = r.prev.doc
        /\ status = "paid" => full.paid = full.total
        /\ status = "cancelled" => full.paid = r.prev.paid
    BY <1>7, <1>8
  <1> HIDE DEF full
  <1>10. x.op = "patch_status" /\ x.step = AfterSave(r.prev, saved) /\ x.i = r.i /\ x.prev = r.prev /\ x.v = saved
    OBVIOUS
  <1>10a. saved = [full EXCEPT !.status = Normalised(full)] OBVIOUS
  <1>10b. saved.doc = full.doc BY <1>7, <1>9
  <1> HIDE DEF x, saved, s
  <1>11. saved \in InvoiceType
    <2>1. saved.doc = "live" BY <1>4, <1>9, <1>10b DEF InvoiceType
    <2> QED BY <1>4, <1>5, <1>6, <2>1 DEF InvTyped
  <1>12. /\ Covered(saved) /\ saved.paid = full.paid /\ saved.party = full.party
         /\ saved.status = "cancelled" <=> status = "cancelled"
    BY <1>7, <1>9, <1>10a, <1>11, NormalisedIs
  <1>13. GoesAhead(x, r.i, r.prev, saved) BY <1>4, <1>7, <1>9, <1>10, <1>11, <1>12 DEF GoesAhead
  <1> QED BY <1>0, <1>2, <1>3, <1>4, <1>5, <1>13, AheadTold DEF r

-----------------------------------------------------------------------------
\* Credits and paid amounts are natural numbers.
LEMMA CountsNat ==
    ASSUME NEW P, PayTyped(P)
    PROVE  \A x : CreditsIn(P, x) \in Nat /\ GivenTo(P, x) \in Nat
  <1>1. PaysMove(P, P, {}, 0, 0, {}, 0, 0) BY DEF PaysMove
  <1> QED BY <1>1, PaysMoved

\* Debits are integers.
LEMMA DebtsInt == ASSUME NEW I, InvTyped(I), NEW q PROVE DebtsIn(I, q) \in Int
  BY ReceivablesAssumption, DebtInt, SumInt DEF ReceivablesAssumption, DebtsIn

\* What a step that moves payments of one invoice, and goes on with request x,
\* must get right
MovesBalances(c, x, gone, f, new, q) ==
    \A p \in Parties :
        /\ Due(req[c], p, bal) \in Int /\ Due(x, p, bal') \in Int
        /\ (bal'[p] + Due(x, p, bal')) - DebtsIn(inv', p)
             = (bal[p] + Due(req[c], p, bal)) - DebtsIn(inv, p)
               + OnlyFor(p, f, NetsIn(pay, gone)) - OnlyFor(p, q, NetsIn(pay', new))
MovesInvoice(c, x, gone, i, new, q) ==
    /\ inv'[i].doc = "live" =>
         /\ Covered(inv'[i]) /\ GivenTo(pay, i) - NetsIn(pay, gone) + NetsIn(pay', new) = Expected(x, inv', i)
    /\ new # {} => inv'[i].doc = "live" /\ q = Payer(x, inv', i)
    /\ \A p \in PayIds \ gone : pay[p].st = "active" /\ pay[p].inv = i =>
         inv'[i].doc = "live" /\ Payer(x, inv', i) = Payer(req[c], inv, i)
Moving(c, x, gone, f, i, new, q) ==
    /\ PaysMove(pay, pay', gone, f, i, new, q, i)
    /\ \A k \in Invoices \ {i} : /\ inv'[k] = inv[k] /\ Expected(x, inv', k) = Expected(req[c], inv, k)
                                 /\ Payer(x, inv', k) = Payer(req[c], inv, k)
    /\ i \in Invoices => MovesInvoice(c, x, gone, i, new, q)
    /\ req'[c] = x /\ Knows(x, inv', pay', bal')

\* A transaction that ends and makes payments of one invoice keeps the story when
\* the balances and the invoice move by as much.
LEMMA MovingTold ==
    ASSUME NEW c, Taking(c), NEW x, NEW gone, NEW f, NEW i, NEW new, NEW q, Moving(c, x, gone, f, i, new, q),
           MovesBalances(c, x, gone, f, new, q)
    PROVE  Told(c)'
  <1>0. /\ PaysMove(pay, pay', gone, f, i, new, q, i)
        /\ \A k \in Invoices \ {i} : /\ inv'[k] = inv[k] /\ Expected(x, inv', k) = Expected(req[c], inv, k)
                                     /\ Payer(x, inv', k) = Payer(req[c], inv, k)
        /\ i \in Invoices => MovesInvoice(c, x, gone, i, new, q)
        /\ req'[c] = x /\ Knows(x, inv', pay', bal')
    BY DEF Moving
  <1>1. /\ InvTyped(inv) /\ InvTyped(inv') /\ PayTyped(pay) /\ PayTyped(pay') /\ BalTyped(bal) /\ BalTyped(bal')
        /\ Story(req[c], inv, pay, bal)
    BY TakingFacts
  <1>2. /\ NetsIn(pay, gone) \in Nat /\ NetsIn(pay', new) \in Nat
        /\ \A y : /\ CreditsIn(pay, y) \in Nat
                  /\ CreditsIn(pay', y) = CreditsIn(pay, y) - OnlyFor(y, f, NetsIn(pay, gone)) + OnlyFor(y, q, NetsIn(pay', new))
        /\ \A y : /\ GivenTo(pay, y) \in Nat
                  /\ GivenTo(pay', y) = GivenTo(pay, y) - OnlyFor(y, i, NetsIn(pay, gone)) + OnlyFor(y, i, NetsIn(pay', new))
    BY <1>0, PaysMoved
  <1>3. BalancesTold(x, inv', pay', bal')
    <2> SUFFICES ASSUME NEW p \in Parties PROVE bal'[p] + Due(x, p, bal') = DebtsIn(inv', p) - CreditsIn(pay', p)
      BY DEF BalancesTold
    <2>1. DebtsIn(inv, p) \in Int /\ DebtsIn(inv', p) \in Int /\ bal[p] \in Int /\ bal'[p] \in Int
      BY <1>1, DebtsInt DEF BalTyped
    <2>2. OnlyFor(p, f, NetsIn(pay, gone)) \in Nat /\ OnlyFor(p, q, NetsIn(pay', new)) \in Nat
      BY <1>2 DEF OnlyFor
    <2>3. bal[p] + Due(req[c], p, bal) = DebtsIn(inv, p) - CreditsIn(pay, p) BY <1>1 DEF Story, BalancesTold
    <2>4. /\ Due(req[c], p, bal) \in Int /\ Due(x, p, bal') \in Int
          /\ (bal'[p] + Due(x, p, bal')) - DebtsIn(inv', p)
               = (bal[p] + Due(req[c], p, bal)) - DebtsIn(inv, p)
                 + OnlyFor(p, f, NetsIn(pay, gone)) - OnlyFor(p, q, NetsIn(pay', new))
      BY DEF MovesBalances
    <2>5. /\ CreditsIn(pay, p) \in Nat
          /\ CreditsIn(pay', p) = CreditsIn(pay, p) - OnlyFor(p, f, NetsIn(pay, gone)) + OnlyFor(p, q, NetsIn(pay', new))
      BY <1>2
    <2> QED BY <2>1, <2>2, <2>3, <2>4, <2>5
  <1>4. AmountsTold(x, inv', pay') BY <1>0, <1>2, <1>1 DEF AmountsTold, OnlyFor, MovesInvoice, Story
  <1>5. PayersTold(x, inv', pay')
    BY <1>1, CreditInt, <1>0 DEF PayersTold, PaymentType, PaysMove, MovesInvoice, Story
  <1>6. StatusesTold(inv') BY <1>0, <1>1 DEF StatusesTold, MovesInvoice, Story
  <1>7. Story(x, inv', pay', bal') BY <1>0, <1>3, <1>4, <1>5, <1>6 DEF Story
  <1> QED BY <1>0, <1>7 DEF Told

\* The payments a step takes off the books, all of one party for one invoice
Theirs(P, f, i) == P \subseteq PayIds /\ \A p \in P : pay[p].st = "active" /\ pay[p].party = f /\ pay[p].inv = i

\* What payments of one party for one invoice come to.
LEMMA TheirsFacts ==
    ASSUME PayTyped(pay), NEW P, NEW f, NEW i, Theirs(P, f, i)
    PROVE  /\ PaysTyped(Of(P)) /\ DOMAIN Of(P) = P /\ NetOf(P) = NetsIn(pay, P) /\ NetsIn(pay, P) \in Nat
           /\ NetIn(Of(P)) = NetsIn(pay, P)
  BY OfTyped, NetOfIs DEF Theirs, NetOf

\* createLinkedSalePaymentIn makes payments that come to the splits, and moves the
\* two balances by them.
LEMMA RepostMoves ==
    ASSUME TInv, PayTyped(pay'), NEW P, NEW freed \in Parties, NEW i \in Invoices, Theirs(P, freed, i),
           NEW R, R \subseteq Posted, NEW splits \in Usable(Modes), NEW q \in Parties,
           Repost(P, R, freed, splits, i, q)
    PROVE  /\ \E new : PaysMove(pay, pay', P, freed, i, new, q, i) /\ NetsIn(pay', new) = SplitsTotal(splits)
           /\ bal' = Credited(Credited(bal, freed, NetsIn(pay, P)), q, - SplitsTotal(splits))
  <1>1. /\ TablesTyped /\ PayTyped(pay) /\ \A p \in PayIds : pay[p].st = "unused" => row[p].st # "posted"
    BY TInvFacts
  <1>2. PaysTyped(Of(P)) /\ NetOf(P) = NetsIn(pay, P) BY <1>1, TheirsFacts
  <1>3. bal' = Credited(Credited(bal, freed, NetsIn(pay, P)), q, - SplitsTotal(splits))
    BY <1>1, <1>2, RepostKeepsMoney
  <1> DEFINE new == {p \in Fresh : Place(p) <= Len(splits)}
             a   == [p \in new |-> splits[Place(p)].amt]
  <1>4. /\ Cardinality(Fresh) >= Len(splits)
        /\ pay' = [p \in PayIds |->
                     IF p \in new
                     THEN [st |-> "active", inv |-> i, party |-> q,
                           net |-> splits[Place(p)].amt, mode |-> splits[Place(p)].mode,
                           num |-> NextNumber(PayDeleted(P)) + Place(p) - 1,
                           origin |-> "sale"]
                     ELSE PayDeleted(P)[p]]
    BY DEF Repost
  <1>5. /\ IsFiniteSet(new)
        /\ \A p \in new : p \in PayIds /\ pay[p].st = "unused" /\ splits[Place(p)].amt \in Nat \ {0}
        /\ SumFunctionOnSet(a, new) = SplitsTotal(splits)
    BY <1>4, NewPayments
  <1> HIDE DEF new
  <1>6. \A p \in new : /\ pay'[p].st = "active" /\ pay'[p].inv = i /\ pay'[p].party = q
                       /\ pay'[p].net = splits[Place(p)].amt
    BY <1>4, <1>5
  <1>7. \A p \in PayIds \ new : pay'[p] = IF p \in P THEN Gone ELSE pay[p] BY <1>4 DEF PayDeleted
  <1>8. P \cap new = {} /\ P \subseteq PayIds /\ new \subseteq PayIds BY <1>5 DEF Theirs
  <1>9. PaysMove(pay, pay', P, freed, i, new, q, i) BY <1>7, <1>8, <1>5, <1>6, <1>1 DEF Theirs, Gone, PaysMove
  <1>10. NetsIn(pay', new) = SplitsTotal(splits) BY <1>5, <1>6, <1>8, SumAgrees DEF NetsAt, NetsIn
  <1> QED BY <1>3, <1>9, <1>10

\* reversePaymentEffects, for payments of one party and one invoice
LEMMA ReverseMoves ==
    ASSUME TInv, PayTyped(pay'), NEW P, NEW f, NEW i, Theirs(P, f, i), NEW R, ReversePayments(Of(P), R),
           pay' = PayDeleted(P) \/ pay' = PayCancelled(P)
    PROVE  /\ PaysMove(pay, pay', P, f, i, {}, f, i)
           /\ \A q \in Parties : bal'[q] = bal[q] + OnlyFor(q, f, NetsIn(pay, P))
           /\ \A k \in Invoices \ {i} : inv'[k] = inv[k]
           /\ i \in Invoices => inv'[i] = IF P # {} /\ Live(i)
                                          THEN WithPaid(inv[i], AtLeast0(inv[i].paid - NetsIn(pay, P))) ELSE inv[i]
  <1> DEFINE read    == Of(P)
             of(k)   == {p \in P : read[p].inv = k}
             from(q) == [p \in {n \in P : read[n].party = q} |-> read[p]]
  <1>1. /\ PayTyped(pay) /\ DOMAIN read = P /\ NetIn(read) = NetsIn(pay, P) /\ P \subseteq PayIds
        /\ \A p \in P : read[p] = pay[p] /\ pay[p].st = "active" /\ pay[p].party = f /\ pay[p].inv = i
    BY TInvFacts, TheirsFacts DEF Theirs, Of
  <1>2. /\ inv' = [k \in Invoices |-> IF of(k) # {} /\ Live(k)
                                      THEN WithPaid(inv[k], AtLeast0(inv[k].paid - NetIn(read))) ELSE inv[k]]
        /\ bal' = [q \in Parties |-> bal[q] + NetIn(from(q))]
    BY <1>1 DEF ReversePayments
  <1>3. PaysMove(pay, pay', P, f, i, {}, f, i)
    BY <1>1 DEF PayDeleted, PayCancelled, Gone, PayTyped, PaymentType, Unused, PaysMove
  <1>4. of(i) = P /\ \A k \in Invoices \ {i} : of(k) = {} BY <1>1
  <1>5. \A q \in Parties : NetIn(from(q)) = OnlyFor(q, f, NetsIn(pay, P))
    BY <1>1, NetInIs, SumEmpty DEF Of, OnlyFor
  <1> HIDE DEF of, from, read
  <1> QED BY <1>1, <1>2, <1>3, <1>4, <1>5

\* invoiceStatusForPaidAmount keeps everything but the amount and the status.
LEMMA WithPaidIs ==
    ASSUME NEW v \in InvoiceType, NEW n \in Nat
    PROVE  /\ WithPaid(v, n).paid = n /\ WithPaid(v, n).doc = "live" /\ WithPaid(v, n).party = v.party
           /\ Debit(WithPaid(v, n)) = Debit(v) /\ Covered(WithPaid(v, n))
           /\ WithPaid(v, n).total = v.total /\ WithPaid(v, n).status = StatusForPaid(v, n)
  BY ReceivablesAssumption DEF WithPaid, InvoiceType, ReceivablesAssumption, Covered, StatusForPaid, Debit

-----------------------------------------------------------------------------
\* What is due for an invoice is an integer.
LEMMA CreatedDueInt ==
    ASSUME NEW v \in InvoiceType, NEW q
    PROVE  DueTo(v, q) \in Int
  BY DebitIs DEF DueTo

\* CreateInvoice records the payments of the splits it was saved with.
LEMMA PayInvoiceTold == ASSUME NEW c, Taking(c), PayInvoice(c) PROVE Told(c)'
  <1> DEFINE r == req[c]
             x == req'[c]
             i == r.i
             q == r.v.party
  <1>1. /\ r.op = "create_invoice" /\ r.step = "pay" /\ Then(c, "party") /\ inv' = inv
        /\ Repost({}, {}, q, r.splits, i, q)
    BY TakingFacts DEF PayInvoice, At
  <1>2. /\ GoesOn(r, x, "party") /\ Creating(r) /\ InvTyped(inv) /\ PayTyped(pay) /\ PayTyped(pay') /\ BalTyped(bal)
        /\ BalTyped(bal') /\ Story(r, inv, pay, bal) /\ TInv
    BY <1>1, CreatingGoesOn, TakingFacts DEF Taking
  <1>3. i \in Invoices /\ r.v \in InvoiceType /\ q \in Parties /\ r.splits \in Usable(Modes) /\ Theirs({}, q, i)
    BY <1>2 DEF Creating, InvoiceType, Theirs
  <1>4. x.op = "create_invoice" /\ x.step = "party" /\ x.i = i /\ x.v = r.v /\ x.splits = r.splits
    BY <1>1, <1>2 DEF GoesOn
  <1>5. Same(inv[i], r.v) /\ r.v.paid = SplitsTotal(r.splits) BY <1>1, <1>2 DEF Story, Knows, KnowsCreated
  <1> HIDE DEF x, q, i, r
  <1>6. /\ \E new : PaysMove(pay, pay', {}, q, i, new, q, i) /\ NetsIn(pay', new) = SplitsTotal(r.splits)
        /\ bal' = Credited(Credited(bal, q, NetsIn(pay, {})), q, - SplitsTotal(r.splits))
    BY <1>1, <1>2, <1>3, RepostMoves
  <1>7. PICK new : PaysMove(pay, pay', {}, q, i, new, q, i) /\ NetsIn(pay', new) = SplitsTotal(r.splits) BY <1>6
  <1>8. NetsIn(pay, {}) = 0 BY SumEmpty DEF NetsIn
  <1>9. SplitsTotal(r.splits) \in Nat BY <1>3, UsableFacts
  <1>10. Knows(x, inv', pay', bal')
    <2>1. KnowsCreated(x, inv') BY <1>1, <1>4, <1>5 DEF KnowsCreated
    <2> QED BY <1>4, <2>1, CreatingKnows
  <1>11. \A p \in Parties : Due(r, p, bal) = DueTo(r.v, p) /\ Due(x, p, bal') = DueTo(r.v, p) /\ DueTo(r.v, p) \in Int
    BY <1>1, <1>3, <1>4, CreatedDueInt DEF Due
  <1>12. MovesBalances(c, x, {}, q, new, q)
    <2> SUFFICES ASSUME NEW p \in Parties
                 PROVE  /\ Due(r, p, bal) \in Int /\ Due(x, p, bal') \in Int
                        /\ (bal'[p] + Due(x, p, bal')) - DebtsIn(inv', p)
                             = (bal[p] + Due(r, p, bal)) - DebtsIn(inv, p)
                               + OnlyFor(p, q, NetsIn(pay, {})) - OnlyFor(p, q, NetsIn(pay', new))
      BY DEF MovesBalances, r
    <2>1. DebtsIn(inv, p) \in Int /\ DebtsIn(inv', p) = DebtsIn(inv, p) /\ bal[p] \in Int
      BY <1>1, <1>2, DebtsInt DEF BalTyped
    <2>2. bal'[p] = bal[p] - OnlyFor(p, q, SplitsTotal(r.splits))
      BY <1>2, <1>3, <1>6, <1>8, <1>9, <2>1 DEF Credited, OnlyFor, BalTyped
    <2>3. OnlyFor(p, q, NetsIn(pay, {})) = 0 /\ OnlyFor(p, q, NetsIn(pay', new)) = OnlyFor(p, q, SplitsTotal(r.splits))
          /\ OnlyFor(p, q, SplitsTotal(r.splits)) \in Int
      BY <1>7, <1>8, <1>9 DEF OnlyFor
    <2> QED BY <1>11, <2>1, <2>2, <2>3
  <1>13. \A k : Payer(r, inv, k) = inv[k].party /\ Payer(x, inv, k) = inv[k].party
    BY <1>1, <1>4 DEF Payer, Behind, Written
  <1>14. /\ Expected(r, inv, i) = 0 /\ Expected(x, inv, i) = inv[i].paid
         /\ \A k \in Invoices \ {i} : Expected(x, inv, k) = Expected(r, inv, k)
    BY <1>1, <1>4 DEF Expected, Behind, Written, i
  <1>15. MovesInvoice(c, x, {}, i, new, q)
    <2>1. inv[i].doc = "live" /\ inv[i].party = q /\ inv[i].paid = SplitsTotal(r.splits) BY <1>5 DEF Same, q
    <2>2. Covered(inv[i]) /\ GivenTo(pay, i) = 0 BY <1>2, <1>3, <1>14, <2>1 DEF Story, StatusesTold, AmountsTold
    <2>3. GivenTo(pay, i) - NetsIn(pay, {}) + NetsIn(pay', new) = Expected(x, inv', i)
      BY <1>1, <1>7, <1>8, <1>9, <1>14, <2>1, <2>2
    <2>4. q = Payer(x, inv', i) /\ Payer(x, inv', i) = Payer(req[c], inv, i) BY <1>1, <1>13, <2>1 DEF r
    <2> QED BY <1>1, <2>1, <2>2, <2>3, <2>4 DEF MovesInvoice
  <1>16. Moving(c, x, {}, q, i, new, q)
    <2>1. \A k \in Invoices \ {i} : /\ inv'[k] = inv[k] /\ Expected(x, inv', k) = Expected(req[c], inv, k)
                                    /\ Payer(x, inv', k) = Payer(req[c], inv, k)
      BY <1>1, <1>13, <1>14 DEF r
    <2> QED BY <1>7, <1>10, <1>15, <2>1 DEF Moving, x
  <1> QED BY <1>12, <1>16, MovingTold

\* The payments a request on a saved edit finds are those of the party the
\* invoice had, and come to what it counted as paid.
LEMMA BehindFacts ==
    ASSUME NEW c, Taking(c), NEW r, r = req[c], Saved(r), Behind(r)
    PROVE  /\ r.i \in Invoices /\ r.v \in InvoiceType /\ r.prev \in InvoiceType
           /\ r.v.party \in Parties /\ r.prev.party \in Parties /\ r.v.paid \in Nat /\ r.prev.paid \in Nat
           /\ Written(r) /\ KnowsWritten(r, inv, pay) /\ Same(inv[r.i], r.v)
           /\ Theirs(ActiveOf(r.i), r.prev.party, r.i)
           /\ NetsIn(pay, ActiveOf(r.i)) = r.prev.paid /\ GivenTo(pay, r.i) = r.prev.paid
           /\ Expected(r, inv, r.i) = r.prev.paid /\ Payer(r, inv, r.i) = r.prev.party
  <1>1. /\ r.i \in Invoices /\ r.v \in InvoiceType /\ r.prev \in InvoiceType
        /\ r.v.party \in Parties /\ r.prev.party \in Parties /\ r.v.paid \in Nat /\ r.prev.paid \in Nat
    BY DEF Saved, InvoiceType
  <1>2. Story(r, inv, pay, bal) /\ PayTyped(pay) BY TakingFacts
  <1>3. Written(r) /\ KnowsWritten(r, inv, pay) /\ Same(inv[r.i], r.v)
    BY <1>2 DEF Behind, Story, Knows, KnowsWritten
  <1>4. Expected(r, inv, r.i) = r.prev.paid /\ Payer(r, inv, r.i) = r.prev.party
    BY <1>3 DEF Expected, Payer, Written
  <1>5. GivenTo(pay, r.i) = r.prev.paid BY <1>1, <1>2, <1>3, <1>4 DEF Story, AmountsTold, Same
  <1>6. r.i # None BY <1>1, ReceivablesAssumption DEF ReceivablesAssumption
  <1>7. Theirs(ActiveOf(r.i), r.prev.party, r.i) BY <1>2, <1>4, <1>6 DEF Story, PayersTold, Theirs, ActiveOf
  <1>8. NetsIn(pay, ActiveOf(r.i)) = r.prev.paid BY <1>2, <1>5, GivenIs, NetOfIs DEF ActiveOf
  <1> QED BY <1>1, <1>3, <1>4, <1>5, <1>7, <1>8

\* resyncLinkedInvoicePayments replaces the payments by those of the saved amount.
LEMMA ResyncLedgerTold == ASSUME NEW c, Taking(c), ResyncLedger(c) PROVE Told(c)'
  <1> DEFINE r == req[c]
             x == req'[c]
             i == r.i
             P == ActiveOf(i)
             f == r.prev.party
             q == r.v.party
  <1>1. /\ r # Idle /\ r.step = "ledger" /\ Then(c, "party") /\ inv' = inv
        /\ IF NeedsResync(r) THEN Repost(P, InvoiceRows(i), f, LedgerSplits(r), i, q)
           ELSE UNCHANGED bal /\ BooksSame
    BY DEF ResyncLedger
  <1>2. Saved(r) /\ Behind(r) BY <1>1, WrittenFacts DEF Behind
  <1>3. /\ GoesOn(r, x, "party") /\ InvTyped(inv) /\ PayTyped(pay) /\ PayTyped(pay') /\ BalTyped(bal)
        /\ BalTyped(bal') /\ Story(r, inv, pay, bal) /\ TInv /\ req'[c] = x
    BY <1>1, <1>2, SavedGoesOn, TakingFacts DEF Taking
  <1>4. /\ i \in Invoices /\ r.v \in InvoiceType /\ r.prev \in InvoiceType
        /\ q \in Parties /\ f \in Parties /\ r.v.paid \in Nat /\ r.prev.paid \in Nat
        /\ Written(r) /\ KnowsWritten(r, inv, pay) /\ Same(inv[i], r.v)
        /\ Theirs(P, f, i) /\ NetsIn(pay, P) = r.prev.paid /\ GivenTo(pay, i) = r.prev.paid
        /\ Expected(r, inv, i) = r.prev.paid /\ Payer(r, inv, i) = f
    BY <1>2, BehindFacts
  <1>5. /\ x.op = r.op /\ x.step = "party" /\ x.i = i /\ x.v = r.v /\ x.prev = r.prev
        /\ r.op = "update_invoice" => x.splits = r.splits
        /\ r.op \in {"update_invoice", "patch_status"}
    BY <1>3, <1>4 DEF GoesOn, Written
  <1>6. InvoiceRows(i) \subseteq Posted /\ (r.op = "patch_status" \/ r.v.paid = SplitsTotal(r.splits))
    BY <1>4, <1>5, RowsArePosted DEF KnowsWritten
  <1>7. LedgerSplits(r) \in Usable(Modes) /\ SplitsTotal(LedgerSplits(r)) = r.v.paid
    BY <1>2, <1>3, <1>6, LedgerSplitsTyped
  <1>8. inv[i].doc = "live" /\ inv[i].party = q /\ inv[i].paid = r.v.paid /\ Debit(inv[i]) = Debit(r.v)
    BY <1>4 DEF Same, Debit
  <1>9. Written(x) /\ KnowsWritten(x, inv, pay') BY <1>4, <1>5, <1>8 DEF Written, KnowsWritten
  <1>10. Knows(x, inv, pay', bal') BY <1>9, WrittenKnows
  <1> HIDE DEF x, r, i, P, f, q
  <1>11. \A B : \A p \in Parties : Due(r, p, B) = DueTo(r.v, p) - DueTo(r.prev, p) /\ Due(x, p, B) = DueTo(r.v, p) - DueTo(r.prev, p)
    BY <1>4, <1>5, <1>9 DEF Due, Written
  <1>12. /\ Expected(x, inv, i) = inv[i].paid /\ \A k : Payer(x, inv, k) = inv[k].party
         /\ \A k \in Invoices \ {i} : Expected(x, inv, k) = Expected(r, inv, k) /\ Payer(x, inv, k) = Payer(r, inv, k)
    BY <1>5 DEF Behind, Expected, Payer, i
  <1>13. CASE ~ NeedsResync(r)
    <2>1. bal' = bal /\ pay' = pay BY <1>1, <1>13 DEF BooksSame
    <2>2. r.prev.paid = r.v.paid /\ f = q BY <1>13 DEF NeedsResync, f, q
    <2>3. \A k \in Invoices : Expected(x, inv, k) = Expected(r, inv, k) /\ Payer(x, inv, k) = Payer(r, inv, k)
      BY <1>4, <1>8, <1>12, <2>2
    <2>4. Story(x, inv, pay, bal) BY <1>3, <1>10, <1>11, <2>1, <2>3, PlainTold
    <2> QED BY <1>1, <1>3, <2>1, <2>4 DEF Told
  <1>14. CASE NeedsResync(r)
    <2> DEFINE splits == LedgerSplits(r)
    <2>1. Repost(P, InvoiceRows(i), f, splits, i, q) BY <1>1, <1>14
    <2> HIDE DEF splits
    <2>2. splits \in Usable(Modes) /\ SplitsTotal(splits) = r.v.paid BY <1>7 DEF splits
    <2>3. /\ \E new : PaysMove(pay, pay', P, f, i, new, q, i) /\ NetsIn(pay', new) = SplitsTotal(splits)
          /\ bal' = Credited(Credited(bal, f, NetsIn(pay, P)), q, - SplitsTotal(splits))
      <3> DEFINE R == InvoiceRows(i)
      <3>1. /\ TInv /\ PayTyped(pay') /\ f \in Parties /\ i \in Invoices /\ Theirs(P, f, i) /\ R \subseteq Posted
            /\ splits \in Usable(Modes) /\ q \in Parties /\ Repost(P, R, f, splits, i, q)
        BY <1>3, <1>4, <1>6, <2>1, <2>2
      <3> HIDE DEF R
      <3> QED BY <3>1, RepostMoves
    <2>4. PICK new : PaysMove(pay, pay', P, f, i, new, q, i) /\ NetsIn(pay', new) = SplitsTotal(splits) BY <2>3
    <2>5. MovesBalances(c, x, P, f, new, q)
      <3> SUFFICES ASSUME NEW p \in Parties
                   PROVE  /\ Due(r, p, bal) \in Int /\ Due(x, p, bal') \in Int
                          /\ (bal'[p] + Due(x, p, bal')) - DebtsIn(inv', p)
                               = (bal[p] + Due(r, p, bal)) - DebtsIn(inv, p)
                                 + OnlyFor(p, f, NetsIn(pay, P)) - OnlyFor(p, q, NetsIn(pay', new))
        BY DEF MovesBalances, r
      <3>1. DebtsIn(inv, p) \in Int /\ DebtsIn(inv', p) = DebtsIn(inv, p) /\ bal[p] \in Int
        BY <1>1, <1>3, DebtsInt DEF BalTyped
      <3>2. bal' = Credited(Credited(bal, f, r.prev.paid), q, - r.v.paid) BY <1>4, <2>2, <2>3
      <3>3. bal'[p] = bal[p] + OnlyFor(p, f, r.prev.paid) - OnlyFor(p, q, r.v.paid)
        BY <1>3, <1>4, <3>1, <3>2 DEF Credited, OnlyFor, BalTyped
      <3>4. /\ OnlyFor(p, f, NetsIn(pay, P)) = OnlyFor(p, f, r.prev.paid)
            /\ OnlyFor(p, q, NetsIn(pay', new)) = OnlyFor(p, q, r.v.paid)
            /\ OnlyFor(p, f, r.prev.paid) \in Int /\ OnlyFor(p, q, r.v.paid) \in Int
        BY <1>4, <2>2, <2>4 DEF OnlyFor
      <3>5. DueTo(r.v, p) \in Int /\ DueTo(r.prev, p) \in Int BY <1>4, CreatedDueInt
      <3>6. Due(r, p, bal) = Due(x, p, bal') /\ Due(r, p, bal) \in Int BY <1>11, <3>5
      <3> QED BY <3>1, <3>3, <3>4, <3>6
    <2>6. MovesInvoice(c, x, P, i, new, q)
      <3>1. Covered(inv[i]) BY <1>3, <1>4, <1>8 DEF Story, StatusesTold
      <3>2. GivenTo(pay, i) - NetsIn(pay, P) + NetsIn(pay', new) = Expected(x, inv, i)
        BY <1>4, <1>8, <1>12, <2>2, <2>4
      <3>3. q = Payer(x, inv, i) BY <1>8, <1>12
      <3>4. \A p \in PayIds \ P : ~ (pay[p].st = "active" /\ pay[p].inv = i) BY DEF P, ActiveOf
      <3> QED BY <1>1, <1>8, <3>1, <3>2, <3>3, <3>4 DEF MovesInvoice
    <2>7. Moving(c, x, P, f, i, new, q) BY <1>1, <1>3, <1>10, <1>12, <2>4, <2>6 DEF Moving, r
    <2> QED BY <2>5, <2>7, MovingTold
  <1> QED BY <1>13, <1>14

-----------------------------------------------------------------------------
\* cancelLinkedInvoicePayments ends them all, and the invoice counts nothing as paid.
LEMMA CancelLinkedPaymentsTold == ASSUME NEW c, Taking(c), CancelLinkedPayments(c) PROVE Told(c)'
  <1> DEFINE r == req[c]
             x == req'[c]
             i == r.i
             P == ActiveOf(i)
             f == r.prev.party
             R == InvoiceRows(i) \cup UNION {NumberRows(r.read[p]) : p \in DOMAIN r.read}
  <1>1. /\ r # Idle /\ r.step = "cancel" /\ Then(c, "party")
        /\ ReversePayments(r.read, R) /\ pay' = PayCancelled(DOMAIN r.read)
    BY DEF CancelLinkedPayments
  <1>2. Saved(r) /\ Behind(r) BY <1>1, WrittenFacts DEF Behind
  <1>3. /\ GoesOn(r, x, "party") /\ InvTyped(inv) /\ InvTyped(inv') /\ PayTyped(pay) /\ PayTyped(pay') /\ BalTyped(bal)
        /\ BalTyped(bal') /\ Story(r, inv, pay, bal) /\ TInv /\ req'[c] = x
    BY <1>1, <1>2, SavedGoesOn, TakingFacts DEF Taking
  <1>4. /\ i \in Invoices /\ r.v \in InvoiceType /\ r.prev \in InvoiceType
        /\ f \in Parties /\ r.v.paid \in Nat /\ r.prev.paid \in Nat
        /\ Written(r) /\ KnowsWritten(r, inv, pay) /\ Same(inv[i], r.v)
        /\ Theirs(P, f, i) /\ NetsIn(pay, P) = r.prev.paid /\ GivenTo(pay, i) = r.prev.paid
        /\ Expected(r, inv, i) = r.prev.paid /\ Payer(r, inv, i) = f
    BY <1>2, BehindFacts
  <1>5. /\ x.op = r.op /\ x.step = "party" /\ x.i = i /\ x.v = r.v /\ x.prev = r.prev
        /\ r.op = "update_invoice" => x.splits = r.splits
        /\ r.op \in {"update_invoice", "patch_status"}
    BY <1>3, <1>4 DEF GoesOn, Written
  <1>6. r.read = Of(P) /\ r.v.status = "cancelled" /\ r.v.paid <= r.prev.paid
    BY <1>1, <1>4 DEF KnowsWritten, Of, ActiveOf
  <1>7. DOMAIN r.read = P BY <1>6 DEF Of
  <1>8. ReversePayments(Of(P), R) /\ pay' = PayCancelled(P) BY <1>1, <1>6, <1>7
  <1> HIDE DEF x, r, i, P, f, R
  <1>9. /\ PaysMove(pay, pay', P, f, i, {}, f, i)
        /\ \A q \in Parties : bal'[q] = bal[q] + OnlyFor(q, f, NetsIn(pay, P))
        /\ \A k \in Invoices \ {i} : inv'[k] = inv[k]
        /\ inv'[i] = IF P # {} /\ Live(i) THEN WithPaid(inv[i], AtLeast0(inv[i].paid - NetsIn(pay, P))) ELSE inv[i]
    BY <1>3, <1>4, <1>8, ReverseMoves
  <1>10. /\ inv[i] \in InvoiceType /\ inv[i].doc = "live" /\ inv[i].party = r.v.party /\ inv[i].paid = r.v.paid
         /\ inv[i].status = "cancelled" /\ Debit(inv[i]) = Debit(r.v) /\ Live(i)
    BY <1>3, <1>4, <1>6, LiveTyped DEF Same, Live, Debit
  <1>11. /\ inv'[i].doc = "live" /\ inv'[i].party = r.v.party /\ inv'[i].paid = 0
         /\ Debit(inv'[i]) = Debit(r.v) /\ Covered(inv'[i])
    <2>1. AtLeast0(inv[i].paid - NetsIn(pay, P)) = 0 BY <1>4, <1>6, <1>10 DEF AtLeast0
    <2>2. CASE P # {} BY <1>9, <1>10, <2>1, <2>2, WithPaidIs
    <2>3. CASE P = {} BY <1>9, <2>3, SumEmpty, <1>4, <1>6, <1>10 DEF NetsIn, Covered
    <2> QED BY <2>2, <2>3
  <1>12. Written(x) /\ KnowsWritten(x, inv', pay') BY <1>4, <1>5, <1>11 DEF Written, KnowsWritten, i
  <1>13. Knows(x, inv', pay', bal') BY <1>12, WrittenKnows
  <1>14. \A B : \A p \in Parties : Due(r, p, B) = DueTo(r.v, p) - DueTo(r.prev, p) /\ Due(x, p, B) = DueTo(r.v, p) - DueTo(r.prev, p)
    BY <1>4, <1>5, <1>12 DEF Due, Written
  <1>15. /\ \A k : Expected(x, inv', k) = inv'[k].paid /\ Payer(x, inv', k) = inv'[k].party
         /\ \A k \in Invoices \ {i} : Expected(r, inv, k) = inv[k].paid /\ Payer(r, inv, k) = inv[k].party
    BY <1>5 DEF Behind, Expected, Payer, i
  <1>16. NetsIn(pay', {}) = 0 BY SumEmpty DEF NetsIn
  <1>17. MovesBalances(c, x, P, f, {}, f)
    <2> SUFFICES ASSUME NEW p \in Parties
                 PROVE  /\ Due(r, p, bal) \in Int /\ Due(x, p, bal') \in Int
                        /\ (bal'[p] + Due(x, p, bal')) - DebtsIn(inv', p)
                             = (bal[p] + Due(r, p, bal)) - DebtsIn(inv, p)
                               + OnlyFor(p, f, NetsIn(pay, P)) - OnlyFor(p, f, NetsIn(pay', {}))
      BY DEF MovesBalances, r
    <2>1. DebtsIn(inv, p) \in Int /\ bal[p] \in Int BY <1>3, DebtsInt DEF BalTyped
    <2>2. DebtsIn(inv', p) = DebtsIn(inv, p) BY <1>9, <1>10, <1>11 DEF DebtIn, DebtTable, DebtsIn
    <2>3. bal'[p] = bal[p] + OnlyFor(p, f, NetsIn(pay, P)) /\ OnlyFor(p, f, NetsIn(pay, P)) \in Int /\ OnlyFor(p, f, NetsIn(pay', {})) = 0
      BY <1>4, <1>9, <1>16 DEF OnlyFor
    <2>4. Due(r, p, bal) = Due(x, p, bal') /\ Due(r, p, bal) \in Int BY <1>4, <1>14, CreatedDueInt
    <2> QED BY <2>1, <2>2, <2>3, <2>4
  <1>18. MovesInvoice(c, x, P, i, {}, f) BY <1>4, <1>11, <1>15, <1>16 DEF P, ActiveOf, MovesInvoice
  <1>19. Moving(c, x, P, f, i, {}, f) BY <1>9, <1>15, <1>3, <1>13, <1>18 DEF r, Moving
  <1> QED BY <1>17, <1>19, MovingTold

\* DeleteInvoice takes the invoice and its payments off the balance at once.
LEMMA EraseInvoiceTold == ASSUME NEW c, Taking(c), EraseInvoice(c) PROVE Told(c)'
  <1> DEFINE r == req[c]
             i == r.i
             P == ActiveOf(i)
             q == r.v.party
  <1>1. /\ r.op = "delete_invoice" /\ r.step = "erase" /\ Done(c)
        /\ pay' = PayDeleted(P) /\ bal' = Credited(bal, q, NetOf(P) - Debit(r.v))
        /\ inv' = [inv EXCEPT ![i] = [doc |-> "deleted"]]
    BY DEF EraseInvoice, At
  <1>2. Erasing(r) /\ Aside(r) BY <1>1, TakingFacts, AtTyped DEF Taking, At, Aside, Written
  <1>3. /\ InvTyped(inv) /\ InvTyped(inv') /\ PayTyped(pay) /\ PayTyped(pay') /\ BalTyped(bal)
        /\ BalTyped(bal') /\ Story(r, inv, pay, bal) /\ req'[c] = Idle
    BY <1>1, TakingFacts DEF Done
  <1>4. i \in Invoices /\ r.v \in InvoiceType /\ q \in Parties /\ Debit(r.v) \in Nat /\ i # None
    BY <1>2, DebitIs, ReceivablesAssumption DEF Erasing, ReceivablesAssumption
  <1>5. Same(inv[i], r.v) BY <1>1, <1>3 DEF Story, Knows, KnowsDeleted
  <1>6. /\ inv[i].doc = "live" /\ inv[i].party = q /\ Debit(inv[i]) = Debit(r.v) BY <1>5 DEF Same, Debit
  <1>7. \A k : Expected(r, inv, k) = inv[k].paid /\ Payer(r, inv, k) = inv[k].party BY <1>2, AsideIs
  <1>8. Theirs(P, q, i) BY <1>3, <1>4, <1>6, <1>7 DEF Story, PayersTold, Theirs, ActiveOf
  <1>9. NetOf(P) = NetsIn(pay, P) /\ NetsIn(pay, P) \in Nat BY <1>3, <1>8, TheirsFacts
  <1>10. inv'[i].doc = "deleted" /\ \A k \in Invoices \ {i} : inv'[k] = inv[k] BY <1>1, <1>3, <1>4 DEF InvTyped
  <1> HIDE DEF r, i, P, q
  <1>11. PaysMove(pay, pay', P, q, i, {}, q, i) BY <1>1, <1>8, <1>3 DEF PayDeleted, Gone, Theirs, PaysMove
  <1>12. NetsIn(pay', {}) = 0 BY SumEmpty DEF NetsIn
  <1>13. MovesBalances(c, Idle, P, q, {}, q)
    <2> SUFFICES ASSUME NEW p \in Parties
                 PROVE  /\ Due(r, p, bal) \in Int /\ Due(Idle, p, bal') \in Int
                        /\ (bal'[p] + Due(Idle, p, bal')) - DebtsIn(inv', p)
                             = (bal[p] + Due(r, p, bal)) - DebtsIn(inv, p)
                               + OnlyFor(p, q, NetsIn(pay, P)) - OnlyFor(p, q, NetsIn(pay', {}))
      BY DEF MovesBalances, r
    <2>1. DebtsIn(inv, p) \in Int /\ bal[p] \in Int BY <1>3, DebtsInt DEF BalTyped
    <2>2. DebtsIn(inv', p) = DebtsIn(inv, p) - DebtIn(inv[i], p) + DebtIn(inv'[i], p)
      BY <1>3, <1>4, <1>10, DebtsChange
    <2>3. DebtIn(inv'[i], p) = 0 /\ DebtIn(inv[i], p) = OnlyFor(p, q, Debit(r.v))
      BY <1>6, <1>10 DEF DebtIn, OnlyFor
    <2>4. bal'[p] = bal[p] + OnlyFor(p, q, NetsIn(pay, P)) - OnlyFor(p, q, Debit(r.v))
      BY <1>1, <1>3, <1>4, <1>9, <2>1 DEF Credited, BalTyped, OnlyFor
    <2>5. /\ OnlyFor(p, q, NetsIn(pay, P)) \in Int /\ OnlyFor(p, q, Debit(r.v)) \in Int /\ OnlyFor(p, q, NetsIn(pay', {})) = 0
      BY <1>4, <1>9, <1>12 DEF OnlyFor
    <2>6. Due(r, p, bal) = 0 /\ Due(Idle, p, bal') = 0 BY <1>2, IdleKnows, AsideIs
    <2> QED BY <2>1, <2>2, <2>3, <2>4, <2>5, <2>6
  <1>14. MovesInvoice(c, Idle, P, i, {}, q) BY <1>10 DEF P, ActiveOf, MovesInvoice
  <1>15. Moving(c, Idle, P, q, i, {}, q)
    <2>1. \A k \in Invoices \ {i} : /\ inv'[k] = inv[k] /\ Expected(Idle, inv', k) = Expected(req[c], inv, k)
                                    /\ Payer(Idle, inv', k) = Payer(req[c], inv, k)
      BY <1>7, <1>10, IdleKnows, AsideIs DEF r
    <2> QED BY <1>3, <1>11, <1>14, <2>1, IdleKnows DEF Moving
  <1> QED BY <1>13, <1>15, MovingTold

\* Deleting or cancelling a payment gives it back to the party and takes it off the
\* invoice.
LEMMA ReverseTold == ASSUME NEW c, Taking(c), ReverseDeleted(c) \/ ReverseCancelled(c) PROVE Told(c)'
  <1> DEFINE r == req[c]
  <1>1. /\ r.op \in {"delete_payment", "cancel_payment"} /\ r.step = "reverse" /\ Done(c)
        /\ pay' = PayDeleted(DOMAIN r.read) \/ pay' = PayCancelled(DOMAIN r.read)
        /\ \E s \in DOMAIN r.read : ReversePayments(r.read, RowsFor(r.read[s]))
    BY DEF ReverseDeleted, ReverseCancelled, At
  <1>2. Aside(r) BY <1>1 DEF Aside, Written
  <1>3. /\ InvTyped(inv) /\ InvTyped(inv') /\ PayTyped(pay) /\ PayTyped(pay') /\ BalTyped(bal)
        /\ BalTyped(bal') /\ Story(r, inv, pay, bal) /\ req'[c] = Idle /\ TInv
    BY <1>1, TakingFacts DEF Done, Taking
  <1>4. PICK p \in PayIds : pay[p].st = "active" /\ r.read = [n \in {p} |-> pay[n]]
    BY <1>1, <1>3 DEF Story, Knows, KnowsPayment
  <1> DEFINE P == {p}
             f == pay[p].party
             i == pay[p].inv
  <1>5. r.read = Of(P) /\ DOMAIN r.read = P BY <1>4 DEF Of
  <1>6. PICK R : ReversePayments(r.read, R) BY <1>1
  <1>7. ReversePayments(Of(P), R) /\ (pay' = PayDeleted(P) \/ pay' = PayCancelled(P)) /\ Theirs(P, f, i)
    BY <1>1, <1>4, <1>5, <1>6 DEF Theirs
  <1>8. pay[p] \in PaymentType /\ f \in Parties /\ i \in Invoices \cup {None}
    BY <1>3, <1>4, CreditInt DEF PaymentType
  <1>9. \A k : Expected(r, inv, k) = inv[k].paid /\ Payer(r, inv, k) = inv[k].party BY <1>2, AsideIs
  <1>10. i \in Invoices => inv[i].doc = "live" /\ inv[i].party = f /\ GivenTo(pay, i) = inv[i].paid
    <2>1. i \in Invoices => i # None BY ReceivablesAssumption DEF ReceivablesAssumption
    <2> QED BY <1>3, <1>4, <1>9, <2>1 DEF Story, PayersTold, AmountsTold
  <1> HIDE DEF P, f, i, r
  <1>11. /\ PaysMove(pay, pay', P, f, i, {}, f, i)
         /\ \A q \in Parties : bal'[q] = bal[q] + OnlyFor(q, f, NetsIn(pay, P))
         /\ \A k \in Invoices \ {i} : inv'[k] = inv[k]
         /\ i \in Invoices => inv'[i] = IF P # {} /\ Live(i)
                                        THEN WithPaid(inv[i], AtLeast0(inv[i].paid - NetsIn(pay, P))) ELSE inv[i]
    BY <1>3, <1>7, ReverseMoves
  <1>12. NetsIn(pay', {}) = 0 BY SumEmpty DEF NetsIn
  <1>13. NetsIn(pay, P) \in Nat /\ GivenTo(pay', i) = GivenTo(pay, i) - NetsIn(pay, P) /\ GivenTo(pay', i) \in Nat /\ GivenTo(pay, i) \in Nat
    BY <1>11, PaysMoved, <1>3, CountsNat, <1>12 DEF OnlyFor
  <1>14. ASSUME i \in Invoices
         PROVE  /\ inv'[i].doc = "live" /\ inv'[i].party = f /\ Debit(inv'[i]) = Debit(inv[i]) /\ Covered(inv'[i])
                /\ inv'[i].paid = GivenTo(pay, i) - NetsIn(pay, P)
    <2>1. inv[i] \in InvoiceType /\ Live(i) /\ P # {} BY <1>3, <1>10, <1>14, LiveTyped DEF Live, P
    <2>2. AtLeast0(inv[i].paid - NetsIn(pay, P)) = GivenTo(pay, i) - NetsIn(pay, P)
          /\ GivenTo(pay, i) - NetsIn(pay, P) \in Nat
      BY <1>10, <1>13, <1>14 DEF AtLeast0
    <2>3. inv'[i] = WithPaid(inv[i], GivenTo(pay, i) - NetsIn(pay, P)) BY <1>11, <1>14, <2>1, <2>2
    <2> QED BY <1>10, <1>14, <2>1, <2>2, <2>3, WithPaidIs
  <1>15. MovesBalances(c, Idle, P, f, {}, f)
    <2> SUFFICES ASSUME NEW q \in Parties
                 PROVE  /\ Due(r, q, bal) \in Int /\ Due(Idle, q, bal') \in Int
                        /\ (bal'[q] + Due(Idle, q, bal')) - DebtsIn(inv', q)
                             = (bal[q] + Due(r, q, bal)) - DebtsIn(inv, q)
                               + OnlyFor(q, f, NetsIn(pay, P)) - OnlyFor(q, f, NetsIn(pay', {}))
      BY DEF MovesBalances, r
    <2>1. DebtsIn(inv, q) \in Int /\ bal[q] \in Int BY <1>3, DebtsInt DEF BalTyped
    <2>2. DebtsIn(inv', q) = DebtsIn(inv, q) BY <1>10, <1>11, <1>14 DEF DebtIn, DebtTable, DebtsIn
    <2>3. /\ bal'[q] = bal[q] + OnlyFor(q, f, NetsIn(pay, P)) /\ OnlyFor(q, f, NetsIn(pay, P)) \in Int
          /\ OnlyFor(q, f, NetsIn(pay', {})) = 0
      BY <1>11, <1>12, <1>13 DEF OnlyFor
    <2>4. Due(r, q, bal) = 0 /\ Due(Idle, q, bal') = 0 BY <1>2, IdleKnows, AsideIs
    <2> QED BY <2>1, <2>2, <2>3, <2>4
  <1>16. i \in Invoices => MovesInvoice(c, Idle, P, i, {}, f)
    <2> SUFFICES ASSUME i \in Invoices PROVE MovesInvoice(c, Idle, P, i, {}, f) OBVIOUS
    <2>1. GivenTo(pay, i) - NetsIn(pay, P) + NetsIn(pay', {}) = Expected(Idle, inv', i)
      BY <1>12, <1>13, <1>14, IdleKnows, AsideIs
    <2>2. Payer(Idle, inv', i) = Payer(req[c], inv, i) BY <1>9, <1>10, <1>14, IdleKnows, AsideIs DEF r
    <2> QED BY <1>14, <2>1, <2>2 DEF MovesInvoice
  <1>17. Moving(c, Idle, P, f, i, {}, f) BY <1>9, <1>11, IdleKnows, AsideIs, <1>3, <1>16 DEF r, Moving
  <1> QED BY <1>15, <1>17, MovingTold

\* CreatePayment adds the payment to the invoice and takes it off the balance.
LEMMA RecordPaymentTold == ASSUME NEW c, Taking(c), RecordPayment(c) PROVE Told(c)'
  <1> DEFINE r == req[c]
             i == r.i
             q == r.q
             w == WithPaid([r.v EXCEPT !.late = inv[i].late], r.v.paid + r.net)
  <1>1. PICK p \in FirstOf(Fresh) :
          /\ pay'  = [pay EXCEPT ![p] =
                        [st |-> "active", inv |-> i, party |-> q, net |-> r.net,
                         mode |-> r.mode, num |-> r.num, origin |-> "receipt"]]
          /\ inv'  = IF i # None /\ Live(i) THEN [inv EXCEPT ![i].paid = w.paid, ![i].status = w.status] ELSE inv
          /\ bal'  = [bal EXCEPT ![q] = r.owed - r.net]
    BY DEF RecordPayment
  <1>2. r.op = "create_payment" /\ r.step = "record" /\ Done(c) BY DEF RecordPayment, At
  <1>3. Recording(r) /\ Aside(r) BY <1>2, TakingFacts, AtTyped DEF Taking, At, Aside, Written
  <1>4. /\ InvTyped(inv) /\ InvTyped(inv') /\ PayTyped(pay) /\ PayTyped(pay') /\ BalTyped(bal)
        /\ BalTyped(bal') /\ Story(r, inv, pay, bal) /\ req'[c] = Idle
    BY <1>2, TakingFacts DEF Done
  <1>5. /\ i \in Invoices \cup {None} /\ q \in Parties /\ r.net \in Nat \ {0} /\ (i # None => r.v \in InvoiceType)
        /\ None \notin Invoices
    BY <1>3, ReceivablesAssumption DEF Recording, ReceivablesAssumption
  <1>6. r.owed = bal[q] /\ (i # None => Same(inv[i], r.v) /\ inv[i].party = q)
    BY <1>2, <1>4 DEF Story, Knows, KnowsPaid
  <1>7. p \in PayIds /\ pay[p].st = "unused" BY FreshFacts DEF FirstOf
  <1> DEFINE new == {p}
  <1>8. \A k : Expected(r, inv, k) = inv[k].paid /\ Payer(r, inv, k) = inv[k].party BY <1>3, AsideIs
  <1> HIDE DEF i, q, r, w
  <1>9. PaysMove(pay, pay', {}, q, i, new, q, i) BY <1>1, <1>4, <1>7 DEF PayTyped, PaysMove
  <1>10. NetsIn(pay', new) = r.net
    <2>1. NetsAt(pay')[p] = r.net BY <1>1, <1>4, <1>7 DEF NetsAt, PayTyped
    <2> QED BY <1>5, <2>1, SumOne DEF NetsIn
  <1>11. NetsIn(pay, {}) = 0 BY SumEmpty DEF NetsIn
  <1>12. \A k \in Invoices \ {i} : inv'[k] = inv[k] BY <1>1, <1>4 DEF InvTyped
  <1>13. ASSUME i \in Invoices
         PROVE  /\ inv[i].doc = "live" /\ inv'[i].doc = "live" /\ inv'[i].party = q /\ inv[i].party = q
                /\ Debit(inv'[i]) = Debit(inv[i]) /\ Covered(inv'[i]) /\ inv'[i].paid = inv[i].paid + r.net
                /\ inv[i].paid \in Nat
    <2>1. /\ i # None /\ Same(inv[i], r.v) /\ inv[i].party = q /\ r.v \in InvoiceType /\ inv[i].doc = "live"
      BY <1>5, <1>6, <1>13 DEF Same
    <2>2. inv[i] \in InvoiceType /\ inv[i].late \in BOOLEAN /\ inv[i].paid \in Nat /\ Live(i)
      BY <1>4, <1>13, <2>1, LiveTyped DEF Live
    <2> DEFINE v == [r.v EXCEPT !.late = inv[i].late]
    <2>3. /\ v \in InvoiceType /\ v.paid = inv[i].paid /\ v.total = inv[i].total /\ v.status = inv[i].status
          /\ r.v.paid = inv[i].paid
      BY <2>1, <2>2 DEF InvoiceType, Same
    <2>4. w = WithPaid(v, inv[i].paid + r.net) BY <2>3 DEF w
    <2> HIDE DEF v
    <2>5. inv[i].paid + r.net \in Nat BY <1>5, <2>2
    <2>6. /\ w.paid = inv[i].paid + r.net /\ Covered(w) /\ Debit(w) = Debit(v) /\ w.total = inv[i].total
      BY <2>3, <2>4, <2>5, WithPaidIs
    <2>7. inv'[i] = [inv[i] EXCEPT !.paid = w.paid, !.status = w.status]
      BY <1>1, <1>4, <1>13, <2>1, <2>2 DEF InvTyped
    <2>8. /\ inv'[i].doc = "live" /\ inv'[i].party = q /\ inv'[i].paid = w.paid /\ inv'[i].status = w.status
          /\ inv'[i].total = inv[i].total
      BY <2>1, <2>2, <2>7 DEF InvoiceType
    <2>9. Debit(inv'[i]) = Debit(inv[i]) /\ Covered(inv'[i]) BY <2>3, <2>6, <2>8 DEF Debit, Covered
    <2> QED BY <2>1, <2>2, <2>6, <2>8, <2>9
  <1>14. MovesBalances(c, Idle, {}, q, new, q)
    <2> SUFFICES ASSUME NEW k \in Parties
                 PROVE  /\ Due(r, k, bal) \in Int /\ Due(Idle, k, bal') \in Int
                        /\ (bal'[k] + Due(Idle, k, bal')) - DebtsIn(inv', k)
                             = (bal[k] + Due(r, k, bal)) - DebtsIn(inv, k)
                               + OnlyFor(k, q, NetsIn(pay, {})) - OnlyFor(k, q, NetsIn(pay', new))
      BY DEF MovesBalances, r
    <2>1. DebtsIn(inv, k) \in Int /\ bal[k] \in Int BY <1>4, DebtsInt DEF BalTyped
    <2>2. DebtsIn(inv', k) = DebtsIn(inv, k) BY <1>12, <1>13 DEF DebtIn, DebtTable, DebtsIn
    <2>3. bal'[k] = bal[k] - OnlyFor(k, q, r.net) BY <1>1, <1>4, <1>5, <1>6, <2>1 DEF BalTyped, OnlyFor
    <2>4. OnlyFor(k, q, NetsIn(pay, {})) = 0 /\ OnlyFor(k, q, NetsIn(pay', new)) = OnlyFor(k, q, r.net) /\ OnlyFor(k, q, r.net) \in Int
      BY <1>5, <1>10, <1>11 DEF OnlyFor
    <2>5. Due(r, k, bal) = 0 /\ Due(Idle, k, bal') = 0 BY <1>3, IdleKnows, AsideIs
    <2> QED BY <2>1, <2>2, <2>3, <2>4, <2>5
  <1>15. i \in Invoices => MovesInvoice(c, Idle, {}, i, new, q)
    <2> SUFFICES ASSUME i \in Invoices PROVE MovesInvoice(c, Idle, {}, i, new, q) OBVIOUS
    <2>1. GivenTo(pay, i) = inv[i].paid BY <1>4, <1>8, <1>13 DEF Story, AmountsTold
    <2>2. GivenTo(pay, i) - NetsIn(pay, {}) + NetsIn(pay', new) = Expected(Idle, inv', i)
      BY <1>5, <1>10, <1>11, <1>13, <2>1, IdleKnows, AsideIs
    <2>3. q = Payer(Idle, inv', i) /\ Payer(Idle, inv', i) = Payer(req[c], inv, i)
      BY <1>8, <1>13, IdleKnows, AsideIs DEF r
    <2> QED BY <1>13, <2>2, <2>3 DEF MovesInvoice
  <1>16. Moving(c, Idle, {}, q, i, new, q)
    <2>1. \A k \in Invoices \ {i} : /\ inv'[k] = inv[k] /\ Expected(Idle, inv', k) = Expected(req[c], inv, k)
                                    /\ Payer(Idle, inv', k) = Payer(req[c], inv, k)
      BY <1>8, <1>12, IdleKnows, AsideIs DEF r
    <2> QED BY <1>4, <1>9, <1>15, <2>1, IdleKnows DEF Moving
  <1> QED BY <1>14, <1>16, MovingTold

-----------------------------------------------------------------------------
\* The one client's request and the tables tell one story throughout.
OneStory == Inv /\ \A c \in Clients : Told(c)

\* Empty tables and an idle client tell one story.
LEMMA StoryInit == Init /\ OneAtATime => OneStory
  <1> SUFFICES ASSUME Init, NEW c \in Clients PROVE Inv /\ Told(c) BY InvInit DEF OneAtATime, Alone, OneStory
  <1>1. Inv BY InvInit
  <1>2. /\ InvTyped(inv) /\ PayTyped(pay) /\ req[c] = Idle BY <1>1, TInvFacts DEF Inv, Init
  <1>3. \A q \in Parties : DebtsIn(inv, q) = 0
    BY ReceivablesAssumption, SumZero DEF ReceivablesAssumption, Init, DebtTable, DebtIn, DebtsIn
  <1>4. \A q : CreditsIn(pay, q) = 0 BY PayIdsFinite, SumZero DEF Init, CreditTable, CreditIn, CreditsIn
  <1>5. BalancesTold(Idle, inv, pay, bal) BY IdleKnows, AsideIs, <1>3, <1>4 DEF Init, BalancesTold
  <1>6. AmountsTold(Idle, inv, pay) /\ PayersTold(Idle, inv, pay) /\ StatusesTold(inv)
    BY DEF Init, AmountsTold, PayersTold, StatusesTold
  <1>7. Story(Idle, inv, pay, bal) BY <1>5, <1>6, IdleKnows DEF Story
  <1> QED BY <1>1, <1>2, <1>7 DEF Told

\* Every step of the one client keeps it.
LEMMA StoryStep ==
    ASSUME NEW c, Taking(c), [Next]_vars
    PROVE  Told(c)'
  <1>1. CASE Step(c)
    <2>1. ~ Abort(c) BY TakingFacts DEF Abort
    <2> QED
      BY <1>1, <2>1, CreateInvoiceTold, ApplyLoyaltyTold, PostInvoiceJournalTold, PayInvoiceTold, DebitPartyTold,
         UpdateInvoiceTold, SaveUpdatedInvoiceTold, MoveDebitTold, UpdateInvoiceStatusTold,
         SavePatchedStatusTold, ReadBalanceTold, WriteBalanceTold, FindLinkedPaymentsTold,
         CancelLinkedPaymentsTold, ResyncLedgerTold, DeleteInvoiceTold, EraseInvoiceTold,
         CreatePaymentTold, RecordPaymentTold, EndPaymentTold, ReverseTold, FindOverdueTold, MarkOverdueTold
      DEF Step
  <1>2. CASE DueDatePasses BY <1>2, DueDatePassesTold
  <1>3. CASE UNCHANGED vars BY <1>3 DEF vars, Taking, Told
  <1>4. Clients = {c} BY DEF Taking, Alone
  <1> QED BY <1>1, <1>2, <1>3, <1>4 DEF Next

\* So does every step of the system, when there is one client and nothing fails.
LEMMA StoryNext == OneAtATime /\ OneStory /\ [Next]_vars => OneStory'
  BY NextInv, StoryStep DEF OneAtATime, Alone, OneStory, Taking, Inv, TInv

\* It is told in every state.
LEMMA StoryHolds == ASSUME OneAtATime PROVE Spec => []OneStory
  <1>1. Init => OneStory BY StoryInit
  <1>2. OneStory /\ [Next]_vars => OneStory' BY StoryNext
  <1> QED BY <1>1, <1>2, PTL DEF Spec

\* Between requests it says that balances, paid amounts, statuses and journals are exact.
LEMMA StoryMeans ==
    ASSUME OneAtATime, OneStory
    PROVE  PartyBalanced /\ PaidExact /\ JournalsExact
  <1>1. PICK c : Alone(c) BY DEF OneAtATime
  <1>2. c \in Clients /\ Story(req[c], inv, pay, bal) /\ Inv BY <1>1 DEF Alone, OneStory, Told
  <1>3. InvTyped(inv) /\ PayTyped(pay) /\ BalTyped(bal) BY <1>2, TInvFacts DEF Inv
  <1>4. JournalsExact BY <1>2 DEF Inv, IInv
  <1>5. ASSUME Quiet PROVE req[c] = Idle BY <1>2, <1>5 DEF Quiet
  <1>6. PartyBalanced
    <2> SUFFICES ASSUME Quiet, NEW q \in Parties
                 PROVE  bal[q] = Sum(DebitOf, OwedInvoices(q)) - NetOf(PaymentsOf(q))
      BY DEF PartyBalanced
    <2>1. bal[q] + Due(Idle, q, bal) = DebtsIn(inv, q) - CreditsIn(pay, q) /\ Due(Idle, q, bal) = 0
      BY <1>2, <1>5, IdleKnows, AsideIs DEF Story, BalancesTold
    <2>2. bal[q] \in Int BY <1>3 DEF BalTyped
    <2>3. Sum(DebitOf, OwedInvoices(q)) = DebtsIn(inv, q) BY <1>3, DebtsIs
    <2>4. CreditsIn(pay, q) = NetOf(PaymentsOf(q)) BY <1>3, GivenIs
    <2>5. bal[q] = DebtsIn(inv, q) - CreditsIn(pay, q) BY <2>1, <2>2
    <2> QED BY <2>3, <2>4, <2>5
  <1>7. PaidMatchesPayments
    <2> SUFFICES ASSUME Quiet, NEW i \in Invoices, Live(i) PROVE inv[i].paid = NetOf(ActiveOf(i))
      BY DEF PaidMatchesPayments
    <2>1. GivenTo(pay, i) = Expected(Idle, inv, i) /\ Expected(Idle, inv, i) = inv[i].paid
      BY <1>2, <1>5, IdleKnows, AsideIs DEF Story, AmountsTold, Live
    <2> QED BY <1>3, <2>1, GivenIs
  <1>8. PaidMeansCovered BY <1>2 DEF Story, StatusesTold, Covered, PaidMeansCovered, Live
  <1> QED BY <1>4, <1>6, <1>7, <1>8 DEF PaidExact

\* One request at a time, without failures: a party owes the debits of its
\* live invoices less what its active payments brought.
THEOREM PartyBalancedHolds ==
    ASSUME OneAtATime
    PROVE  Spec => []PartyBalanced
  <1>1. OneStory => PartyBalanced BY StoryMeans
  <1>2. Spec => []OneStory BY StoryHolds
  <1> QED BY <1>1, <1>2, PTL

\* So do the amounts paid and the statuses follow the payments, whatever the
\* payment methods and however edits, patches, payments and reversals follow
\* one another ...
THEOREM PaidExactHolds ==
    ASSUME OneAtATime
    PROVE  Spec => []PaidExact
  <1>1. OneStory => PaidExact BY StoryMeans
  <1>2. Spec => []OneStory BY StoryHolds
  <1> QED BY <1>1, <1>2, PTL

\* ... and with them the journals.
THEOREM PaymentsExactHolds ==
    ASSUME OneAtATime
    PROVE  Spec => []PaymentsExact
  <1>1. OneStory => PaymentsExact BY StoryMeans DEF PaymentsExact
  <1>2. Spec => []OneStory BY StoryHolds
  <1> QED BY <1>1, <1>2, PTL

-----------------------------------------------------------------------------
(* Rows and payments *)

\* Payments have one method, one that has cash rows.
OneMode == \E m : Modes = {m} /\ ~ EquityMode(m)

ActiveIn(P) == {p \in PayIds : P[p].st = "active"}
OnFile(P)   == {p \in PayIds : P[p].st \in {"active", "cancelled"}}

\* Rows and active payments can be paired, invoice for invoice and amount for
\* amount: a sale's payment may have been reversed with another's row.
Pairs(m, P, W) ==
    /\ m \in [PostedIn(W) -> ActiveIn(P)]
    /\ \A r, s \in PostedIn(W) : m[r] = m[s] => r = s
    /\ \A p \in ActiveIn(P) : \E r \in PostedIn(W) : m[r] = p
    /\ \A r \in PostedIn(W) : W[r].inv = P[m[r]].inv /\ W[r].amt = P[m[r]].net
Paired(P, W) == \E m : Pairs(m, P, W)

\* Payment numbers are used once, and a receipt's row is that of its payment.
NumbersTold(P) == \A p, n \in OnFile(P) : P[p].num = P[n].num => p = n
OwnRow(P, W, r) ==
    /\ P[r].st = "active" /\ P[r].origin = "receipt"
    /\ P[r].num = W[r].num /\ P[r].inv = W[r].inv /\ P[r].net = W[r].amt
ReceiptsTold(P, W) == \A r \in PostedIn(W) : W[r].origin = "receipt" => OwnRow(P, W, r)
AdvancesTold(P, W) ==
    \A p \in ActiveIn(P) : P[p].inv = None => p \in PostedIn(W) /\ W[p].origin = "receipt"
RowsTold(P, W) == Paired(P, W) /\ NumbersTold(P) /\ ReceiptsTold(P, W) /\ AdvancesTold(P, W)

\* The number a request allocated is still free.
FreeNumber(P, n)  == \A p \in OnFile(P) : P[p].num # n
KnowsNumber(r, P) == r.op = "create_payment" => FreeNumber(P, r.num)

\* Any row may be paired with any payment of its invoice and amount.
LEMMA PairsWith ==
    ASSUME NEW P, NEW W, Paired(P, W), NEW r \in PostedIn(W), NEW p \in ActiveIn(P),
           W[r].inv = P[p].inv, W[r].amt = P[p].net
    PROVE  \E m : Pairs(m, P, W) /\ m[r] = p
  <1>1. PICK m : Pairs(m, P, W) BY DEF Paired
  <1> DEFINE D == PostedIn(W)
             A == ActiveIn(P)
  <1>2. /\ m \in [D -> A] /\ \A x, y \in D : m[x] = m[y] => x = y
        /\ \A q \in A : \E x \in D : m[x] = q
        /\ \A x \in D : W[x].inv = P[m[x]].inv /\ W[x].amt = P[m[x]].net
    BY <1>1 DEF Pairs
  <1>3. PICK s \in D : m[s] = p BY <1>2
  <1> DEFINE n == [x \in D |-> IF x = r THEN p ELSE IF x = s THEN m[r] ELSE m[x]]
  <1>4. n \in [D -> A] /\ n[r] = p BY <1>2
  <1>5. ASSUME NEW x \in D, NEW y \in D, n[x] = n[y] PROVE x = y BY <1>2, <1>3, <1>5
  <1>6. ASSUME NEW q \in A PROVE \E x \in D : n[x] = q BY <1>2, <1>4, <1>3
  <1>7. ASSUME NEW x \in D PROVE W[x].inv = P[n[x]].inv /\ W[x].amt = P[n[x]].net
    <2>1. CASE x = r BY <1>4, <2>1
    <2>2. CASE x # r /\ x = s
      <3>1. n[x] = m[r] BY <2>2
      <3> QED BY <1>2, <1>3, <2>2, <3>1
    <2>3. CASE x # r /\ x # s
      <3>1. n[x] = m[x] BY <2>3
      <3> QED BY <1>2, <3>1
    <2> QED BY <2>1, <2>2, <2>3
  <1>8. Pairs(n, P, W)
    <2> HIDE DEF n
    <2> QED BY <1>4, <1>5, <1>6, <1>7 DEF Pairs
  <1> QED BY <1>4, <1>8

\* The payments `gone` end, and the rows R with them.
Ending(P, W, Q, V, gone, R) ==
    /\ gone \subseteq ActiveIn(P) /\ R \subseteq PostedIn(W)
    /\ \A p \in PayIds \ gone : Q[p] = P[p]
    /\ \A p \in gone : Q[p].st # "active" /\ (Q[p].st = "cancelled" => Q[p].num = P[p].num)
    /\ \A r \in PayIds : V[r] = IF r \in R THEN NoRow ELSE W[r]

\* They end in pairs, no receipt's row outlives it, and no advance outlives its row.
EndingPairs(P, W, gone, R) ==
    /\ \E m : Pairs(m, P, W) /\ {m[r] : r \in R} = gone
    /\ \A r \in PostedIn(W) \ R : W[r].origin = "receipt" => r \notin gone
    /\ \A p \in ActiveIn(P) \ gone : P[p].inv = None => p \notin R

\* Ended payments and removed rows that make pairs leave the rest in pairs.
LEMMA EndingKeeps ==
    ASSUME NEW P, NEW W, NEW Q, NEW V, NEW gone, NEW R,
           RowsTold(P, W), Ending(P, W, Q, V, gone, R), EndingPairs(P, W, gone, R)
    PROVE  RowsTold(Q, V)
  <1> DEFINE D == PostedIn(W)
             A == ActiveIn(P)
  <1>1. /\ gone \subseteq A /\ R \subseteq D
        /\ \A p \in PayIds \ gone : Q[p] = P[p]
        /\ \A p \in gone : Q[p].st # "active" /\ (Q[p].st = "cancelled" => Q[p].num = P[p].num)
        /\ \A r \in PayIds : V[r] = IF r \in R THEN NoRow ELSE W[r]
    BY DEF Ending
  <1>2. ActiveIn(Q) = A \ gone /\ \A p \in ActiveIn(Q) : Q[p] = P[p] BY <1>1 DEF ActiveIn
  <1>3. PostedIn(V) = D \ R /\ \A r \in PostedIn(V) : V[r] = W[r] BY <1>1 DEF PostedIn, NoRow
  <1>4. PICK m : Pairs(m, P, W) /\ {m[r] : r \in R} = gone BY DEF EndingPairs
  <1>5. /\ m \in [D -> A] /\ \A x, y \in D : m[x] = m[y] => x = y
        /\ \A q \in A : \E x \in D : m[x] = q
        /\ \A x \in D : W[x].inv = P[m[x]].inv /\ W[x].amt = P[m[x]].net
    BY <1>4 DEF Pairs
  <1> DEFINE n == [r \in D \ R |-> m[r]]
  <1>6. \A r \in D \ R : m[r] \in A \ gone BY <1>1, <1>4, <1>5
  <1>7. \A q \in A \ gone : \E x \in D \ R : m[x] = q BY <1>4, <1>5
  <1>8. Paired(Q, V)
    <2>1. Pairs(n, Q, V) BY <1>6, <1>2, <1>3, <1>5, <1>7 DEF Pairs
    <2> QED BY <2>1 DEF Paired
  <1>9. NumbersTold(Q) BY <1>1 DEF OnFile, ActiveIn, RowsTold, NumbersTold
  <1>10. ReceiptsTold(Q, V) BY <1>3, <1>1 DEF ReceiptsTold, RowsTold, EndingPairs, PostedIn, OwnRow
  <1>11. AdvancesTold(Q, V) BY <1>2, <1>3 DEF AdvancesTold, RowsTold, EndingPairs
  <1> QED BY <1>8, <1>9, <1>10, <1>11 DEF RowsTold

\* The payments `new` are made, each with its row.
Making(P, W, Q, V, new) ==
    /\ new \subseteq PayIds
    /\ \A p \in new : P[p].st \notin {"active", "cancelled"} /\ W[p].st # "posted"
    /\ \A p \in PayIds \ new : Q[p] = P[p] /\ V[p] = W[p]
    /\ \A p \in new :
         /\ Q[p].st = "active" /\ V[p].st = "posted"
         /\ V[p].inv = Q[p].inv /\ V[p].amt = Q[p].net
         /\ V[p].origin = "receipt" => OwnRow(Q, V, p)
         /\ Q[p].inv = None => V[p].origin = "receipt"
         /\ FreeNumber(P, Q[p].num)
    /\ \A p, n \in new : Q[p].num = Q[n].num => p = n

\* Payments and rows that are made in pairs join those on file.
LEMMA MakingKeeps ==
    ASSUME NEW P, NEW W, NEW Q, NEW V, NEW new,
           RowsTold(P, W), Making(P, W, Q, V, new)
    PROVE  RowsTold(Q, V)
  <1> DEFINE D == PostedIn(W)
             A == ActiveIn(P)
  <1>1. /\ new \subseteq PayIds /\ new \cap D = {} /\ new \cap A = {}
        /\ \A p \in PayIds \ new : Q[p] = P[p] /\ V[p] = W[p]
    BY DEF Making, ActiveIn, PostedIn
  <1>2. ActiveIn(Q) = A \cup new /\ PostedIn(V) = D \cup new BY <1>1 DEF Making, ActiveIn, PostedIn
  <1>2a. (\A p \in A : Q[p] = P[p]) /\ (\A p \in D : V[p] = W[p]) BY <1>1 DEF ActiveIn, PostedIn
  <1>3. PICK m : Pairs(m, P, W) BY DEF RowsTold, Paired
  <1>4. /\ m \in [D -> A] /\ \A x, y \in D : m[x] = m[y] => x = y
        /\ \A q \in A : \E x \in D : m[x] = q
        /\ \A x \in D : W[x].inv = P[m[x]].inv /\ W[x].amt = P[m[x]].net
    BY <1>3 DEF Pairs
  <1> DEFINE n == [r \in D \cup new |-> IF r \in new THEN r ELSE m[r]]
  <1>5. /\ n \in [D \cup new -> A \cup new]
        /\ \A r \in new : n[r] = r
        /\ \A r \in D : n[r] = m[r]
    BY <1>1, <1>4
  <1>6. Paired(Q, V)
    <2> HIDE DEF n, D, A
    <2>1. \A x, y \in D \cup new : n[x] = n[y] => x = y BY <1>1, <1>4, <1>5
    <2>2. \A q \in A \cup new : \E x \in D \cup new : n[x] = q BY <1>4, <1>5
    <2>3. \A r \in D \cup new : V[r].inv = Q[n[r]].inv /\ V[r].amt = Q[n[r]].net BY <1>5, <1>2a, <1>4 DEF Making
    <2> QED BY <1>2, <1>5, <2>1, <2>2, <2>3 DEF Paired, Pairs
  <1>7. NumbersTold(Q) BY <1>1 DEF OnFile, Making, FreeNumber, RowsTold, NumbersTold
  <1>8. ReceiptsTold(Q, V) BY <1>2, <1>2a, <1>1 DEF ReceiptsTold, Making, RowsTold, PostedIn, OwnRow
  <1>9. AdvancesTold(Q, V) BY <1>2, <1>2a DEF AdvancesTold, Making, RowsTold
  <1> QED BY <1>6, <1>7, <1>8, <1>9 DEF RowsTold

\* A new number is larger than those on file.
LEMMA NextNumberFree ==
    ASSUME NEW table, NumbersTyped(table), NEW k \in Nat
    PROVE  FreeNumber(table, NextNumber(table) + k)
  <1> DEFINE F == OnFile(table)
             f == [p \in F |-> table[p].num]
             used == {f[p] : p \in F}
  <1>1. NextNumber(table) = 1 + (IF used = {} THEN 0 ELSE Max(used)) BY DEF NextNumber, OnFile
  <1>2. used \subseteq Int
    <2>1. \A p \in F : f[p] \in Int BY DEF NumbersTyped, OnFile
    <2> HIDE DEF f
    <2> QED BY <2>1
  <1>3. IsFiniteSet(used)
    <2>1. IsFiniteSet(F) BY PayIdsFinite, FS_Subset DEF OnFile
    <2> HIDE DEF F, f
    <2> QED BY <2>1, ImageFinite
  <1>4. \A p \in F : table[p].num \in used OBVIOUS
  <1> HIDE DEF used, F
  <1>5. ASSUME NEW p \in F PROVE table[p].num # NextNumber(table) + k
    <2>1. Max(used) \in used /\ \A y \in used : y <= Max(used) BY <1>2, <1>3, <1>4, MaxOfFinite
    <2>2. NextNumber(table) = 1 + Max(used) BY <1>1, <1>4
    <2>3. table[p].num <= Max(used) /\ table[p].num \in Int /\ Max(used) \in Int BY <1>2, <1>4, <2>1
    <2> QED BY <2>2, <2>3
  <1> QED BY <1>5 DEF FreeNumber, F

\* Of some rows one is the oldest.
LEMMA FirstOfOne ==
    ASSUME NEW R, R \subseteq PayIds, R # {}
    PROVE  \E r \in R : FirstOf(R) = {r}
  <1> DEFINE f == [r \in R |-> - r]
             S == {f[r] : r \in R}
  <1>1. IsFiniteSet(R) /\ R \subseteq Int BY PayIdsFinite, FS_Subset
  <1>2. S \subseteq Int /\ S # {}
    <2>1. \A r \in R : f[r] \in Int BY <1>1
    <2> HIDE DEF f
    <2> QED BY <2>1
  <1>3. IsFiniteSet(S)
    <2> HIDE DEF f
    <2> QED BY <1>1, ImageFinite
  <1>4. Max(S) \in S /\ \A y \in S : y <= Max(S)
    <2> HIDE DEF S
    <2> QED BY <1>2, <1>3, MaxOfFinite
  <1>5. PICK r \in R : Max(S) = - r BY <1>4
  <1>6. \A s \in R : r <= s
    <2> SUFFICES ASSUME NEW s \in R PROVE r <= s OBVIOUS
    <2>1. f[s] \in S /\ f[s] = - s OBVIOUS
    <2>2. - s <= - r /\ s \in Int /\ r \in Int BY <1>1, <1>4, <1>5, <2>1
    <2> QED BY <2>2
  <1>7. FirstOf(R) = {r}
    <2>1. ASSUME NEW s \in R, \A t \in R : s <= t PROVE s = r BY <1>1, <1>6, <2>1
    <2> QED BY <1>6, <2>1 DEF FirstOf
  <1> QED BY <1>7

\* What is so of payments and rows before a reversal
Whole == PayTyped(pay) /\ RowsTyped(row) /\ RowsTold(pay, row)

\* The rows of the model, of any table
LEMMA PostedIs == Posted = PostedIn(row) /\ \A i : InvoiceRows(i) = {r \in PostedIn(row) : row[r].inv = i}
  BY DEF Posted, PostedIn, InvoiceRows

\* findPaymentCashTransactions finds the payment's own row, or none.
LEMMA NumberRowsAre ==
    ASSUME Whole, NEW p \in ActiveIn(pay)
    PROVE  NumberRows(pay[p]) = IF p \in PostedIn(row) /\ row[p].origin = "receipt" THEN {p} ELSE {}
  <1>1. p \in OnFile(pay) /\ p \in PayIds BY DEF ActiveIn, OnFile
  <1>2. ASSUME NEW r \in NumberRows(pay[p]) PROVE r = p /\ r \in PostedIn(row) /\ row[r].origin = "receipt"
    <2>1. r \in PostedIn(row) /\ row[r].origin = "receipt" /\ row[r].num = pay[p].num BY PostedIs DEF NumberRows
    <2>2. OwnRow(pay, row, r) /\ r \in PayIds BY <2>1 DEF Whole, RowsTold, ReceiptsTold, PostedIn
    <2>3. r \in OnFile(pay) /\ pay[r].num = pay[p].num BY <2>1, <2>2 DEF OwnRow, OnFile
    <2>4. r = p BY <1>1, <2>3 DEF Whole, RowsTold, NumbersTold
    <2> QED BY <2>1, <2>4
  <1>3. ASSUME p \in PostedIn(row), row[p].origin = "receipt" PROVE p \in NumberRows(pay[p])
    <2>1. OwnRow(pay, row, p) BY <1>3 DEF Whole, RowsTold, ReceiptsTold
    <2> QED BY <1>3, <2>1, PostedIs DEF OwnRow, NumberRows
  <1> QED BY <1>2, <1>3

\* reversePaymentEffects takes one row, of the payment's invoice and amount; the
\* two make a pair.
LEMMA RowsForIs ==
    ASSUME Whole, NEW p \in ActiveIn(pay), pay[p].inv # None => Live(pay[p].inv)
    PROVE  \E r \in PostedIn(row) : RowsFor(pay[p]) = {r} /\ EndingPairs(pay, row, {p}, {r})
  <1> DEFINE D == PostedIn(row)
             own == p \in D /\ row[p].origin = "receipt"
             s == pay[p]
  <1>1. NumberRows(s) = IF own THEN {p} ELSE {} BY NumberRowsAre
  <1>2. RowsTold(pay, row) /\ Paired(pay, row) /\ p \in PayIds BY DEF Whole, RowsTold, ActiveIn
  <1>3. ASSUME NEW r \in D, row[r].inv = s.inv, row[r].amt = s.net, own => r = p
        PROVE  EndingPairs(pay, row, {p}, {r})
    BY <1>2, <1>3, PairsWith DEF RowsTold, AdvancesTold, ReceiptsTold, OwnRow, EndingPairs
  <1>4. CASE own BY <1>1, <1>4, <1>2, <1>3 DEF RowsFor, RowsTold, ReceiptsTold, OwnRow
  <1>5. CASE ~ own
    <2>1. s.inv # None /\ NumberRows(s) = {} BY <1>1, <1>2, <1>5 DEF RowsTold, AdvancesTold
    <2> DEFINE R == {r \in InvoiceRows(s.inv) : row[r].amt = s.net}
    <2>2. RowsFor(s) = FirstOf(R) BY <2>1 DEF RowsFor
    <2>3. R \subseteq D /\ \A r \in R : row[r].inv = s.inv /\ row[r].amt = s.net BY PostedIs
    <2>4. R # {} BY <1>2, PostedIs DEF Paired, Pairs
    <2> HIDE DEF R
    <2>5. PICK r \in R : FirstOf(R) = {r}
      <3>1. R \subseteq PayIds BY <2>3 DEF PostedIn
      <3> QED BY <2>4, <3>1, FirstOfOne
    <2>6. EndingPairs(pay, row, {p}, {r}) BY <1>3, <1>5, <2>3
    <2> QED BY <2>2, <2>3, <2>5, <2>6
  <1> QED BY <1>4, <1>5

\* The rows and the payments of an invoice make pairs.
LEMMA InvoicePairs ==
    ASSUME Whole, NEW i, i # None
    PROVE  EndingPairs(pay, row, ActiveOf(i), InvoiceRows(i))
  <1> DEFINE D == PostedIn(row)
             A == ActiveIn(pay)
             P == ActiveOf(i)
             R == InvoiceRows(i)
  <1>1. P = {p \in A : pay[p].inv = i} /\ R = {r \in D : row[r].inv = i} BY PostedIs DEF ActiveOf, ActiveIn
  <1>2. PICK m : Pairs(m, pay, row) BY DEF Whole, RowsTold, Paired
  <1>3. {m[r] : r \in R} = P BY <1>1, <1>2 DEF Pairs
  <1>4. ASSUME NEW r \in D \ R, row[r].origin = "receipt" PROVE r \notin P
    BY <1>1, <1>4 DEF Whole, RowsTold, ReceiptsTold, OwnRow
  <1>5. ASSUME NEW p \in A \ P, pay[p].inv = None PROVE p \notin R
    BY <1>5, <1>1 DEF Whole, RowsTold, AdvancesTold, ReceiptsTold, OwnRow
  <1> QED BY <1>2, <1>3, <1>4, <1>5 DEF EndingPairs

\* cancelLinkedInvoicePayments finds no rows by number but the invoice's own.
LEMMA LinkedRows ==
    ASSUME Whole, NEW i, i # None
    PROVE  InvoiceRows(i) \cup UNION {NumberRows(Of(ActiveOf(i))[p]) : p \in ActiveOf(i)} = InvoiceRows(i)
  <1> SUFFICES ASSUME NEW p \in ActiveOf(i) PROVE NumberRows(Of(ActiveOf(i))[p]) \subseteq InvoiceRows(i)
    OBVIOUS
  <1>1. p \in ActiveIn(pay) /\ pay[p].inv = i /\ Of(ActiveOf(i))[p] = pay[p] BY DEF ActiveOf, ActiveIn, Of
  <1>2. NumberRows(pay[p]) = IF p \in PostedIn(row) /\ row[p].origin = "receipt" THEN {p} ELSE {}
    BY <1>1, NumberRowsAre
  <1>3. ASSUME p \in PostedIn(row), row[p].origin = "receipt" PROVE p \in InvoiceRows(i)
    <2>1. OwnRow(pay, row, p) BY <1>3 DEF Whole, RowsTold, ReceiptsTold
    <2> QED BY <1>1, <1>3, <2>1, PostedIs DEF OwnRow
  <1> QED BY <1>1, <1>2, <1>3

\* Payments and rows make pairs, and a number that was allocated is free.
Counted(c) == RowsTold(pay, row) /\ KnowsNumber(req[c], pay)

\* A step of the one client, who pays in one way
Counting(c) == Taking(c) /\ OneMode /\ Counted(c)

\* What a step of the one client starts from
LEMMA CountingFacts ==
    ASSUME NEW c, Counting(c)
    PROVE  Whole /\ TInv /\ PayTyped(pay) /\ RowsTyped(row) /\ RowsTold(pay, row) /\ KnowsNumber(req[c], pay)
           /\ None \notin Invoices
  BY TInvFacts, ReceivablesAssumption DEF Counting, Counted, Taking, Whole, ReceivablesAssumption

\* Payments that end with their rows
LEMMA EndsCounted ==
    ASSUME Whole, NEW P, NEW R, P \subseteq ActiveIn(pay), R \subseteq PostedIn(row), EndingPairs(pay, row, P, R),
           pay' = PayDeleted(P) \/ pay' = PayCancelled(P), row' = RowsWithout(R)
    PROVE  RowsTold(pay', row')
  <1>1. \A p \in PayIds \ P : pay'[p] = pay[p] BY DEF PayDeleted, PayCancelled
  <1>2. ASSUME NEW p \in P PROVE pay'[p].st # "active" /\ (pay'[p].st = "cancelled" => pay'[p].num = pay[p].num)
    BY DEF ActiveIn, Whole, PayTyped, Unused, Gone, PayDeleted, PayCancelled, PaymentType
  <1>3. \A r \in PayIds : row'[r] = IF r \in R THEN NoRow ELSE row[r] BY DEF RowsWithout
  <1>4. Ending(pay, row, pay', row', P, R) BY <1>1, <1>2, <1>3 DEF Ending
  <1> QED BY <1>4, EndingKeeps DEF Whole

\* createLinkedSalePaymentIn, after the payments P ended with the rows R
LEMMA RepostCounted ==
    ASSUME Whole, TInv, OneMode, NEW P, NEW R, P \subseteq ActiveIn(pay), R \subseteq PostedIn(row),
           EndingPairs(pay, row, P, R), NEW freed, NEW splits \in Usable(Modes), NEW i \in Invoices, NEW q,
           Repost(P, R, freed, splits, i, q)
    PROVE  RowsTold(pay', row')
  <1> DEFINE new     == {p \in Fresh : Place(p) <= Len(splits)}
             kept    == PayDeleted(P)
             rows    == RowsWithout(R)
             mode(p) == splits[Place(p)].mode
             amt(p)  == splits[Place(p)].amt
             num(p)  == NextNumber(kept) + Place(p) - 1
             cash    == {p \in new : ~ EquityMode(mode(p))}
  <1>1. /\ Cardinality(Fresh) >= Len(splits)
        /\ pay' = [p \in PayIds |->
                     IF p \in new
                     THEN [st |-> "active", inv |-> i, party |-> q, net |-> amt(p), mode |-> mode(p),
                           num |-> num(p), origin |-> "sale"]
                     ELSE kept[p]]
        /\ row' = [p \in PayIds |->
                     IF p \in cash
                     THEN [st |-> "posted", origin |-> "sale", inv |-> i, mode |-> mode(p), amt |-> amt(p)]
                     ELSE rows[p]]
    BY DEF Repost
  <1>2. \A p \in new : /\ p \in PayIds /\ pay[p].st = "unused" /\ Place(p) \in Nat \ {0} /\ mode(p) \in Modes
    BY <1>1, NewPayments
  <1>3. cash = new BY <1>2 DEF OneMode
  <1>4. i # None BY ReceivablesAssumption DEF ReceivablesAssumption
  <1>5. \A p, n \in new : Place(p) = Place(n) => p = n BY FreshFacts, RankFacts DEF Place
  <1>6. RowsTold(kept, rows) /\ NumbersTyped(kept) /\ (\A p \in new : kept[p] = pay[p] /\ rows[p].st # "posted")
    <2>1. /\ \A p \in PayIds : kept[p] = IF p \in P THEN Gone ELSE pay[p]
          /\ \A r \in PayIds : rows[r] = IF r \in R THEN NoRow ELSE row[r]
      BY DEF PayDeleted, RowsWithout
    <2> HIDE DEF kept, rows
    <2>2. Ending(pay, row, kept, rows, P, R) BY <2>1 DEF ActiveIn, Gone, Ending
    <2>3. RowsTold(kept, rows) BY <2>2, EndingKeeps DEF Whole
    <2>4. NumbersTyped(kept) BY <2>1 DEF NumbersTyped, Gone, Whole, PayTyped, Unused, PaymentType
    <2>5. \A p \in new : kept[p] = pay[p] BY <1>2, <2>1 DEF ActiveIn
    <2>6. \A p \in new : rows[p].st # "posted" BY <1>2, <2>1, TInvFacts DEF NoRow
    <2> QED BY <2>3, <2>4, <2>5, <2>6
  <1>7. NextNumber(kept) \in Nat \ {0} /\ \A k \in Nat : FreeNumber(kept, NextNumber(kept) + k)
    BY <1>6, NextNumberIs, NextNumberFree
  <1>8. ASSUME NEW p \in new
        PROVE  /\ pay'[p].st = "active" /\ row'[p].st = "posted" /\ row'[p].origin = "sale"
               /\ pay'[p].inv = i /\ row'[p].inv = i /\ row'[p].amt = pay'[p].net
               /\ pay'[p].num = num(p) /\ FreeNumber(kept, num(p))
    BY <1>1, <1>2, <1>3, <1>7
  <1>9. \A p \in PayIds \ new : pay'[p] = kept[p] /\ row'[p] = rows[p] BY <1>1, <1>3
  <1>10. \A p, n \in new : pay'[p].num = pay'[n].num => p = n BY <1>2, <1>5, <1>7, <1>8
  <1> HIDE DEF new, kept, rows, num
  <1>11. Making(kept, rows, pay', row', new) BY <1>2, <1>4, <1>6, <1>8, <1>9, <1>10 DEF Making
  <1> QED BY <1>6, <1>11, MakingKeeps

\* A request that allocates no number knows none.
LEMMA OtherCounted ==
    ASSUME NEW c, Counting(c), UNCHANGED << pay, row >>, req'[c].op # "create_payment" \/ req'[c] = req[c]
    PROVE  Counted(c)'
  BY DEF Counting, Counted, KnowsNumber

\* Nor does one that goes on.
LEMMA OnCounted ==
    ASSUME NEW c, Counting(c), RowsTold(pay', row'), NEW s, Then(c, s) \/ Done(c),
           req[c].op # "create_payment", req[c] # Idle
    PROVE  Counted(c)'
  <1>1. /\ c \in Clients /\ DOMAIN req = Clients /\ "op" \in DOMAIN req[c] /\ "step" \in DOMAIN req[c]
    <2>1. c \in Clients /\ DOMAIN req = Clients /\ RequestTyped(req[c]) BY TakingFacts DEF Counting
    <2> QED
      BY <2>1 DEF RequestTyped, Creating, Editing, Patching, Saved, Writing, Erasing, Recording, Reversing, Marking, Typed
  <1>2. req'[c].op # "create_payment" BY <1>1, ThenIs DEF Done, Idle, Then
  <1> QED BY <1>2 DEF Counted, KnowsNumber

\* A request begins, or goes on with a record of its own.
LEMMA NowCounted ==
    ASSUME NEW c, Counting(c), UNCHANGED << pay, row >>, NEW x, Now(c, x), x.op # "create_payment"
    PROVE  Counted(c)'
  <1>1. req'[c] = x BY TakingFacts DEF Now, Counting
  <1> QED BY <1>1, OtherCounted

\* A client without a request
LEMMA IdleOp == Idle.op = "idle"
  BY DEF Idle

\* Steps that read, or write invoices and balances only
LEMMA PlainCounted ==
    ASSUME NEW c, Counting(c),
           \/ CreateInvoice(c) \/ ApplyLoyalty(c) \/ PostInvoiceJournal(c) \/ DebitParty(c)
           \/ UpdateInvoice(c) \/ SaveUpdatedInvoice(c) \/ MoveDebit(c)
           \/ UpdateInvoiceStatus(c) \/ SavePatchedStatus(c) \/ ReadBalance(c) \/ WriteBalance(c)
           \/ DeleteInvoice(c) \/ DeletePayment(c) \/ CancelPayment(c) \/ FindOverdue(c) \/ MarkOverdue(c)
    PROVE  Counted(c)'
  <1>0. UNCHANGED << pay, row >>
    BY DEF BooksSame, CreateInvoice, ApplyLoyalty, PostInvoiceJournal, DebitParty, UpdateInvoice, SaveUpdatedInvoice,
           MoveDebit, UpdateInvoiceStatus, SavePatchedStatus, ReadBalance, WriteBalance, DeleteInvoice,
           DeletePayment, CancelPayment, FindOverdue, MarkOverdue
  <1>1. RowsTold(pay', row') BY <1>0, CountingFacts
  <1>2. CASE \/ CreateInvoice(c) \/ UpdateInvoice(c) \/ UpdateInvoiceStatus(c) \/ DeleteInvoice(c)
             \/ DeletePayment(c) \/ CancelPayment(c) \/ FindOverdue(c)
    <2>1. \E x : Now(c, x) /\ x.op # "create_payment"
      <3>1. CASE CreateInvoice(c) BY <3>1 DEF CreateInvoice
      <3>2. CASE UpdateInvoice(c) BY <3>2 DEF UpdateInvoice
      <3>3. CASE UpdateInvoiceStatus(c) BY <3>3 DEF UpdateInvoiceStatus
      <3>4. CASE DeleteInvoice(c) BY <3>4 DEF DeleteInvoice
      <3>5. CASE DeletePayment(c) BY <3>5 DEF DeletePayment
      <3>6. CASE CancelPayment(c) BY <3>6 DEF CancelPayment
      <3>7. CASE FindOverdue(c) BY <3>7 DEF FindOverdue
      <3> QED BY <1>2, <3>1, <3>2, <3>3, <3>4, <3>5, <3>6, <3>7
    <2> QED BY <1>0, <2>1, NowCounted
  <1>3. CASE SaveUpdatedInvoice(c) BY <1>3, <1>0, NowCounted DEF SaveUpdatedInvoice
  <1>4. CASE SavePatchedStatus(c)
    <2>1. PICK step, i, prev, v : Now(c, [op |-> "patch_status", step |-> step, i |-> i, prev |-> prev, v |-> v])
      <3> DEFINE r == req[c]
      <3>1. PICK status \in Statuses, paid \in Amounts \cup {0, r.prev.paid} :
              LET sent  == paid # r.prev.paid
                  new   == [r.prev EXCEPT
                              !.status = status,
                              !.late   = IF Live(r.i) THEN inv[r.i].late ELSE @,
                              !.paid   = IF status = "paid" THEN @
                                         ELSE IF sent THEN Lesser(paid, r.prev.total) ELSE @]
                  full  == IF status = "paid" THEN [new EXCEPT !.paid = new.total] ELSE new
                  saved == [full EXCEPT !.status = Normalised(full)]
              IN  /\ status = "cancelled" => "amount_with_cancel" \in Habits \/ ~sent
                  /\ inv' = [inv EXCEPT ![r.i] = saved]
                  /\ Now(c, [op |-> "patch_status", step |-> AfterSave(r.prev, saved),
                             i |-> r.i, prev |-> r.prev, v |-> saved])
        BY <1>4, Zenon DEF SavePatchedStatus
      <3> DEFINE sent  == paid # r.prev.paid
                 new   == [r.prev EXCEPT
                             !.status = status,
                             !.late   = IF Live(r.i) THEN inv[r.i].late ELSE @,
                             !.paid   = IF status = "paid" THEN @
                                        ELSE IF sent THEN Lesser(paid, r.prev.total) ELSE @]
                 full  == IF status = "paid" THEN [new EXCEPT !.paid = new.total] ELSE new
                 saved == [full EXCEPT !.status = Normalised(full)]
      <3>2. Now(c, [op |-> "patch_status", step |-> AfterSave(r.prev, saved), i |-> r.i, prev |-> r.prev, v |-> saved])
        BY <3>1, Zenon
      <3> HIDE DEF saved
      <3> QED BY <3>2
    <2>2. [op |-> "patch_status", step |-> step, i |-> i, prev |-> prev, v |-> v].op # "create_payment" OBVIOUS
    <2>3. \E x : Now(c, x) /\ x.op # "create_payment" BY <2>1, <2>2
    <2> QED BY <1>0, <2>3, NowCounted
  <1>5. CASE ApplyLoyalty(c) \/ PostInvoiceJournal(c)
    BY <1>5, <1>1, OnCounted, IdleOp DEF ApplyLoyalty, PostInvoiceJournal, At
  <1>6. CASE DebitParty(c) \/ MoveDebit(c) \/ WriteBalance(c) \/ MarkOverdue(c)
    <2>1. req[c].op \notin {"create_payment", "idle"} /\ Done(c)
      BY <1>6 DEF DebitParty, MoveDebit, WriteBalance, MarkOverdue, At
    <2> QED BY <1>1, <2>1, OnCounted, IdleOp
  <1>7. CASE ReadBalance(c) BY <1>7, <1>0, <1>1, NowCounted, OnCounted, IdleOp DEF ReadBalance, At
  <1> QED BY <1>2, <1>3, <1>4, <1>5, <1>6, <1>7

\* The payments of a cancelled invoice are looked for.
LEMMA FindCounted == ASSUME NEW c, Counting(c), FindLinkedPayments(c) PROVE Counted(c)'
  <1> DEFINE r == req[c]
             y == [r EXCEPT !.step = "cancel"]
             read == Of(ActiveOf(r.i))
             x == With(y, "read", read)
  <1>1. r # Idle /\ r.step = "find" /\ Now(c, x) /\ UNCHANGED << pay, row >>
    BY DEF FindLinkedPayments, BooksSame
  <1>2. Saved(r) BY <1>1, WrittenFacts DEF Counting
  <1>3. "op" \in DOMAIN r /\ "step" \in DOMAIN r /\ r.op # "create_payment" BY <1>2 DEF Saved, Typed
  <1>4. DOMAIN y = DOMAIN r /\ y.op = r.op
    <2> HIDE DEF r
    <2> QED BY <1>3, ThenIs
  <1> HIDE DEF y, read
  <1>5. x.op = r.op BY <1>3, <1>4 DEF With
  <1> QED BY <1>1, <1>3, <1>5, NowCounted

\* CreatePayment allocates a number.
LEMMA CreatePaymentCounted == ASSUME NEW c, Counting(c), CreatePayment(c) PROVE Counted(c)'
  <1>0. UNCHANGED << pay, row >> BY DEF CreatePayment, BooksSame
  <1>1. PICK q \in Parties, i \in Invoices \cup {None}, net \in Amounts, mode \in Modes :
         LET r == [op |-> "create_payment", step |-> "record", i |-> i, q |-> q,
                   net |-> net, mode |-> mode, num |-> NextNumber(pay), owed |-> bal[q]]
         IN  Now(c, IF i = None THEN r ELSE With(r, "v", inv[i]))
    BY DEF CreatePayment
  <1> DEFINE r == [op |-> "create_payment", step |-> "record", i |-> i, q |-> q,
                   net |-> net, mode |-> mode, num |-> NextNumber(pay), owed |-> bal[q]]
             x == IF i = None THEN r ELSE With(r, "v", inv[i])
  <1>2. x.num = NextNumber(pay) BY DEF With
  <1>3. Now(c, x) BY <1>1
  <1> HIDE DEF x
  <1>4. req'[c] = x BY <1>3, TakingFacts DEF Now, Counting
  <1>5. NumbersTyped(pay) BY CountingFacts DEF NumbersTyped, PayTyped, PaymentType, Unused, Gone
  <1>6. FreeNumber(pay, NextNumber(pay) + 0) /\ NextNumber(pay) \in Nat BY <1>5, NextNumberFree, NextNumberIs
  <1>7. FreeNumber(pay, NextNumber(pay)) BY <1>6
  <1> QED BY <1>0, <1>2, <1>4, <1>7, CountingFacts DEF Counted, KnowsNumber

\* The payments of a sale come with their rows.
LEMMA PayInvoiceCounted == ASSUME NEW c, Counting(c), PayInvoice(c) PROVE Counted(c)'
  <1> DEFINE r == req[c]
  <1>1. /\ r.op = "create_invoice" /\ Then(c, "party") /\ Repost({}, {}, r.v.party, r.splits, r.i, r.v.party)
    BY TakingFacts DEF PayInvoice, At, Counting
  <1>2. r # Idle BY <1>1 DEF Idle
  <1>3. Creating(r) BY <1>1, <1>2, TakingFacts, AtTyped DEF Counting, Taking
  <1>4. r.i \in Invoices /\ r.splits \in Usable(Modes) BY <1>3 DEF Creating
  <1>5. EndingPairs(pay, row, {}, {}) BY CountingFacts DEF RowsTold, Paired, EndingPairs, ReceiptsTold
  <1> HIDE DEF r
  <1>6. RowsTold(pay', row')
    <2>1. Whole /\ TInv /\ OneMode BY CountingFacts DEF Counting
    <2> QED BY <1>1, <1>4, <1>5, <2>1, RepostCounted
  <1> QED BY <1>1, <1>2, <1>6, OnCounted DEF r

\* A saved edit replaces all of the invoice's, payments and rows.
LEMMA ResyncCounted == ASSUME NEW c, Counting(c), ResyncLedger(c) PROVE Counted(c)'
  <1> DEFINE r == req[c]
             P == ActiveOf(r.i)
             R == InvoiceRows(r.i)
             splits == LedgerSplits(r)
  <1>1. /\ r # Idle /\ r.step = "ledger" /\ Then(c, "party")
        /\ IF NeedsResync(r) THEN Repost(P, R, r.prev.party, splits, r.i, r.v.party)
           ELSE UNCHANGED bal /\ BooksSame
    BY DEF ResyncLedger
  <1>2. Saved(r) /\ KnowsWritten(r, inv, pay) /\ Written(r) BY <1>1, WrittenFacts DEF Counting
  <1>3. r.i \in Invoices /\ r.i # None /\ r.op \in {"update_invoice", "patch_status"} /\ r.v.paid \in Nat
    BY <1>2, CountingFacts DEF Saved, InvoiceType
  <1>4. splits \in Usable(Modes) BY <1>2, <1>3, CountingFacts, LedgerSplitsTyped DEF KnowsWritten
  <1>5. EndingPairs(pay, row, P, R) /\ P \subseteq ActiveIn(pay) /\ R \subseteq PostedIn(row)
    BY <1>3, CountingFacts, InvoicePairs, PostedIs DEF ActiveOf, ActiveIn
  <1>6. Whole /\ TInv /\ OneMode BY CountingFacts DEF Counting
  <1> HIDE DEF r, P, R, splits
  <1>7. CASE NeedsResync(r)
    <2>1. Repost(P, R, r.prev.party, splits, r.i, r.v.party) BY <1>1, <1>7
    <2>2. RowsTold(pay', row') BY <1>3, <1>4, <1>5, <1>6, <2>1, RepostCounted
    <2> QED BY <1>1, <1>3, <2>2, OnCounted DEF r
  <1>8. CASE ~ NeedsResync(r)
    <2>1. RowsTold(pay', row') BY <1>1, <1>8, CountingFacts DEF BooksSame
    <2> QED BY <1>1, <1>3, <2>1, OnCounted DEF r
  <1> QED BY <1>7, <1>8

\* A cancelled invoice's payments are cancelled, and its rows go.
LEMMA CancelLinkedCounted == ASSUME NEW c, Counting(c), CancelLinkedPayments(c) PROVE Counted(c)'
  <1> DEFINE r == req[c]
             P == ActiveOf(r.i)
             R == InvoiceRows(r.i)
             all == R \cup UNION {NumberRows(r.read[p]) : p \in DOMAIN r.read}
  <1>1. /\ r # Idle /\ r.step = "cancel" /\ Then(c, "party") /\ row' = RowsWithout(all)
        /\ pay' = PayCancelled(DOMAIN r.read)
    BY DEF CancelLinkedPayments, ReversePayments
  <1>2. Saved(r) /\ Written(r) /\ KnowsWritten(r, inv, pay) BY <1>1, WrittenFacts DEF Counting
  <1>3. r.i # None /\ r.op \in {"update_invoice", "patch_status"} BY <1>2, CountingFacts DEF Saved
  <1>4. r.read = Of(P) BY <1>1, <1>2 DEF KnowsWritten, Of, ActiveOf
  <1>5. DOMAIN r.read = P BY <1>4 DEF Of
  <1>6. all = R BY <1>4, <1>5, <1>3, CountingFacts, LinkedRows
  <1>7. EndingPairs(pay, row, P, R) /\ P \subseteq ActiveIn(pay) /\ R \subseteq PostedIn(row)
    BY <1>3, CountingFacts, InvoicePairs, PostedIs DEF ActiveOf, ActiveIn
  <1> HIDE DEF r, P, R, all
  <1>8. RowsTold(pay', row') BY <1>1, <1>5, <1>6, <1>7, CountingFacts, EndsCounted
  <1> QED BY <1>1, <1>3, <1>8, OnCounted DEF r

\* So they do when the invoice is deleted.
LEMMA EraseCounted == ASSUME NEW c, Counting(c), EraseInvoice(c) PROVE Counted(c)'
  <1> DEFINE r == req[c]
             P == ActiveOf(r.i)
             R == InvoiceRows(r.i)
  <1>1. r.op = "delete_invoice" /\ r.step = "erase" /\ Done(c) /\ pay' = PayDeleted(P) /\ row' = RowsWithout(R)
    BY DEF EraseInvoice, At
  <1>2. Erasing(r) BY <1>1, TakingFacts, AtTyped DEF Taking, At, Counting
  <1>3. r.i # None /\ r # Idle BY <1>1, <1>2, CountingFacts DEF Erasing, Idle
  <1>4. EndingPairs(pay, row, P, R) /\ P \subseteq ActiveIn(pay) /\ R \subseteq PostedIn(row)
    BY <1>3, CountingFacts, InvoicePairs, PostedIs DEF ActiveOf, ActiveIn
  <1> HIDE DEF P, R
  <1>5. RowsTold(pay', row') BY <1>1, <1>4, CountingFacts, EndsCounted
  <1> QED BY <1>1, <1>3, <1>5, OnCounted

\* A payment that is deleted or cancelled takes one row with it.
LEMMA ReverseCounted == ASSUME NEW c, Counting(c), ReverseDeleted(c) \/ ReverseCancelled(c) PROVE Counted(c)'
  <1> DEFINE r == req[c]
  <1>1. /\ r.op \in {"delete_payment", "cancel_payment"} /\ r.step = "reverse" /\ Done(c)
        /\ pay' = PayDeleted(DOMAIN r.read) \/ pay' = PayCancelled(DOMAIN r.read)
        /\ \E s \in DOMAIN r.read : row' = RowsWithout(RowsFor(r.read[s]))
    BY DEF ReverseDeleted, ReverseCancelled, At, ReversePayments
  <1>2. r # Idle BY <1>1 DEF Idle
  <1>3. Story(r, inv, pay, bal) /\ PayTyped(pay) BY TakingFacts DEF Counting
  <1>4. PICK p \in PayIds : pay[p].st = "active" /\ r.read = [n \in {p} |-> pay[n]]
    BY <1>1, <1>3 DEF Story, Knows, KnowsPayment
  <1>5. DOMAIN r.read = {p} /\ row' = RowsWithout(RowsFor(pay[p])) /\ p \in ActiveIn(pay)
    BY <1>1, <1>4 DEF ActiveIn
  <1>6. pay[p].inv # None => Live(pay[p].inv) BY <1>3, <1>4 DEF Story, PayersTold, Live
  <1>7. PICK n \in PostedIn(row) : RowsFor(pay[p]) = {n} /\ EndingPairs(pay, row, {p}, {n})
    BY <1>5, <1>6, CountingFacts, RowsForIs
  <1>8. RowsTold(pay', row') BY <1>1, <1>5, <1>7, CountingFacts, EndsCounted
  <1> QED BY <1>1, <1>2, <1>8, OnCounted

\* A receipt is recorded with its row, under the number that was allocated.
LEMMA RecordCounted == ASSUME NEW c, Counting(c), RecordPayment(c) PROVE Counted(c)'
  <1> DEFINE r == req[c]
  <1>1. PICK p \in FirstOf(Fresh) :
          /\ pay' = [pay EXCEPT ![p] =
                       [st |-> "active", inv |-> r.i, party |-> r.q, net |-> r.net,
                        mode |-> r.mode, num |-> r.num, origin |-> "receipt"]]
          /\ row' = IF EquityMode(r.mode) THEN row
                    ELSE [row EXCEPT ![p] =
                            [st |-> "posted", origin |-> "receipt", inv |-> r.i,
                             num |-> r.num, mode |-> r.mode, amt |-> r.net]]
    BY Zenon DEF RecordPayment
  <1>2. At(c, "create_payment", "record") /\ Done(c) BY DEF RecordPayment
  <1>3. Recording(r) /\ r.op = "create_payment" BY <1>2, TakingFacts, AtTyped DEF Taking, At, Counting
  <1>4. ~ EquityMode(r.mode) BY <1>3 DEF Recording, Counting, OneMode
  <1>5. p \in PayIds /\ pay[p].st = "unused" /\ row[p].st # "posted"
    BY FreshFacts, CountingFacts, TInvFacts DEF FirstOf
  <1>6. FreeNumber(pay, r.num) BY <1>3, CountingFacts DEF KnowsNumber
  <1>7. DOMAIN pay = PayIds /\ DOMAIN row = PayIds BY CountingFacts DEF PayTyped, RowsTyped
  <1> HIDE DEF r
  <1>8. /\ pay'[p] = [st |-> "active", inv |-> r.i, party |-> r.q, net |-> r.net,
                      mode |-> r.mode, num |-> r.num, origin |-> "receipt"]
        /\ row'[p] = [st |-> "posted", origin |-> "receipt", inv |-> r.i,
                      num |-> r.num, mode |-> r.mode, amt |-> r.net]
        /\ \A n \in PayIds \ {p} : pay'[n] = pay[n] /\ row'[n] = row[n]
    BY <1>1, <1>4, <1>5, <1>7
  <1>9. Making(pay, row, pay', row', {p}) BY <1>8, <1>5, <1>6 DEF OwnRow, Making
  <1>10. RowsTold(pay', row') BY <1>9, CountingFacts, MakingKeeps
  <1>11. req'[c] = Idle BY <1>2, TakingFacts DEF Done, Counting
  <1> QED BY <1>10, <1>11, IdleOp DEF Counted, KnowsNumber

\* Every step of the one client keeps the pairs.
LEMMA StepCounted ==
    ASSUME NEW c, Counting(c), [Next]_vars
    PROVE  Counted(c)'
  <1>1. CASE Step(c)
    <2>1. ~ Abort(c) BY TakingFacts DEF Abort, Counting
    <2> QED
      BY <1>1, <2>1, PlainCounted, FindCounted, CreatePaymentCounted, PayInvoiceCounted, ResyncCounted,
         CancelLinkedCounted, EraseCounted, ReverseCounted, RecordCounted
      DEF Step
  <1>2. CASE DueDatePasses BY <1>2, OtherCounted DEF DueDatePasses, BooksSame
  <1>3. CASE UNCHANGED vars BY <1>3, OtherCounted DEF vars
  <1>4. Clients = {c} BY DEF Counting, Taking, Alone
  <1> QED BY <1>1, <1>2, <1>3, <1>4 DEF Next

\* The story, with its rows
Account == OneStory /\ \A c \in Clients : Counted(c)

\* Before the first request there is nothing to pair.
LEMMA AccountInit == ASSUME OneAtATime PROVE Init => Account
  <1> SUFFICES ASSUME Init PROVE Account OBVIOUS
  <1>1. OneStory BY StoryInit
  <1>2. ActiveIn(pay) = {} /\ OnFile(pay) = {} /\ PostedIn(row) = {}
    BY DEF Init, ActiveIn, OnFile, PostedIn, NoRow
  <1>3. Paired(pay, row)
    <2>1. Pairs([r \in {} |-> r], pay, row) BY <1>2 DEF Pairs
    <2> QED BY <2>1 DEF Paired
  <1>4. RowsTold(pay, row) BY <1>2, <1>3 DEF RowsTold, NumbersTold, ReceiptsTold, AdvancesTold
  <1>5. \A c \in Clients : KnowsNumber(req[c], pay) BY DEF Init, KnowsNumber, Idle
  <1> QED BY <1>1, <1>4, <1>5 DEF Account, Counted

\* Every step keeps the account.
LEMMA AccountNext == ASSUME OneAtATime, OneMode PROVE Account /\ [Next]_vars => Account'
  <1> SUFFICES ASSUME Account, [Next]_vars PROVE Account' OBVIOUS
  <1>1. PICK c : Alone(c) BY DEF OneAtATime
  <1>2. Clients = {c} /\ OneStory /\ OneStory' /\ Told(c) /\ Inv /\ Inv' /\ Counted(c)
    BY <1>1, StoryNext DEF Account, Alone, OneStory
  <1>3. Counting(c) BY <1>1, <1>2 DEF Counting, Taking, Inv, TInv
  <1>4. Counted(c)' BY <1>3, StepCounted
  <1> QED BY <1>2, <1>4 DEF Account

\* Rows and payments in pairs come to the same.
LEMMA PairsAddUp ==
    ASSUME PayTyped(pay), RowsTyped(row), Paired(pay, row)
    PROVE  SumFunctionOnSet([r \in PostedIn(row) |-> row[r].amt], PostedIn(row)) = NetOf(ActiveIn(pay))
  <1> DEFINE D == PostedIn(row)
             A == ActiveIn(pay)
             f == [r \in D |-> row[r].amt]
             g == NetsOf(Of(A))
  <1>1. PICK m : Pairs(m, pay, row) BY DEF Paired
  <1>2. /\ m \in [D -> A] /\ \A x, y \in D : m[x] = m[y] => x = y
        /\ \A q \in A : \E x \in D : m[x] = q
        /\ \A x \in D : row[x].inv = pay[m[x]].inv /\ row[x].amt = pay[m[x]].net
    BY <1>1 DEF Pairs
  <1>3. IsFiniteSet(D) /\ IsFiniteSet(A) BY PayIdsFinite, FS_Subset DEF PostedIn, ActiveIn
  <1>4. NetOf(A) = SumFunctionOnSet(g, A) BY NetInIs DEF NetOf, Of
  <1>5. \A x \in D : f[x] \in Int /\ g[m[x]] = f[x] BY PostedTyped, <1>2 DEF NetsOf, Of
  <1>6. {m[x] : x \in D} = A BY <1>2
  <1> HIDE DEF D, A, f, g
  <1>7. SumFunctionOnSet(f, D) = SumFunctionOnSet(g, {m[x] : x \in D}) BY <1>2, <1>3, <1>5, SumReindexed
  <1> QED BY <1>4, <1>6, <1>7 DEF D, A, f

\* One request at a time, without failures, and one method of payment: the cash
\* and bank rows on file add up to the active payments, with the types, the
\* journals and the bank balance as above.
THEOREM BooksExactHolds ==
    ASSUME OneAtATime, OneMode
    PROVE  Spec => []BooksExact
  <1>1. Init => Account BY AccountInit
  <1>2. Account /\ [Next]_vars => Account' BY AccountNext
  <1>3. Account => RowsMatchPayments
    <2> SUFFICES ASSUME Account, NEW m \in Modes \ {"initial_investment"}
                 PROVE  Sum(AmtOf, RowsInMode(m)) = NetOf(PaymentsInMode(m))
      BY DEF RowsMatchPayments
    <2>1. Modes = {m} BY DEF OneMode
    <2>2. PayTyped(pay) /\ RowsTyped(row) /\ Paired(pay, row)
      BY TInvFacts DEF OneAtATime, Alone, Account, OneStory, Inv, Counted, RowsTold
    <2>3. RowsInMode(m) = PostedIn(row) BY <2>1, <2>2, PostedTyped, PostedIs DEF RowType, RowsInMode
    <2>4. PaymentsInMode(m) = ActiveIn(pay)
      BY <2>1, <2>2 DEF ActiveIn, PayTyped, PaymentType, Unused, Gone, PaymentsInMode
    <2> QED BY <2>2, <2>3, <2>4, PairsAddUp DEF Sum, SumFunction, AmtOf
  <1> QED BY <1>1, <1>2, <1>3, TypeOKHolds, JournalsExactHolds, BankMatchesRowsHolds, PTL DEF Spec, BooksExact

=============================================================================
