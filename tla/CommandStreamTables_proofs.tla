---------------------- MODULE CommandStreamTables_proofs ----------------------
(***************************************************************************)
(* Facts about the tables of a module file and about the operators of      *)
(* their validators.                                                       *)
(***************************************************************************)
EXTENDS CommandStreamTables, WellFoundedInduction, TLAPS

-----------------------------------------------------------------------------
(* Induction.  A property that fails for some number fails for a least     *)
(* one: this is the form in which the proofs below use it.                 *)

LessThan == {p \in Nat \X Nat : p[1] < p[2]}

LEMMA LeastNumber ==
    ASSUME NEW S, S \subseteq Nat, S # {}
    PROVE  \E n \in S : \A m \in S : n <= m
<1>1. IsWellFoundedOn(LessThan, Nat)
  <2>1. OpToRel(<, Nat) = LessThan
    BY DEF OpToRel, LessThan
  <2> QED BY <2>1, NatLessThanWellFounded
<1>2. PICK n \in S : \A m \in S : <<m, n>> \notin LessThan
  BY <1>1, WFMin
<1>3. \A m \in S : n <= m
  <2> TAKE m \in S
  <2>1. n \in Nat /\ m \in Nat /\ <<m, n>> \notin LessThan
    BY <1>2
  <2> QED BY <2>1 DEF LessThan
<1> QED BY <1>3

-----------------------------------------------------------------------------
(* A chain of tests finds nothing exactly when none of them applies.       *)

LEMMA FirstOfFails ==
    ASSUME NEW tests, NEW k \in Nat, DOMAIN tests = 1 .. k,
           \A n \in 1 .. k : tests[n][2] # "none",
           FirstOf(tests) = "none"
    PROVE  \A n \in 1 .. k : ~tests[n][1]
<1> DEFINE failing == {n \in DOMAIN tests : tests[n][1]}
<1> SUFFICES ASSUME failing # {} PROVE FALSE
  OBVIOUS
<1>1. \E n \in failing : \A m \in failing : n <= m
  <2>1. failing \subseteq Nat
    OBVIOUS
  <2> QED BY <2>1, LeastNumber
<1> DEFINE least == CHOOSE n \in failing : \A m \in failing : n <= m
<1>2. least \in failing
  BY <1>1
<1>3. FirstOf(tests) = tests[least][2]
  BY DEF FirstOf
<1> QED BY <1>2, <1>3

LEMMA FirstErrorFails ==
    ASSUME NEW errors, NEW k \in Nat, DOMAIN errors = 1 .. k,
           FirstError(errors) = "none"
    PROVE  \A n \in 1 .. k : errors[n] = "none"
<1> DEFINE tests == [n \in DOMAIN errors |-> <<errors[n] # "none", errors[n]>>]
           failing == {n \in DOMAIN tests : tests[n][1]}
<1> SUFFICES ASSUME failing # {} PROVE FALSE
  OBVIOUS
<1>1. \E n \in failing : \A m \in failing : n <= m
  <2>1. failing \subseteq Nat
    OBVIOUS
  <2> QED BY <2>1, LeastNumber
<1> DEFINE least == CHOOSE n \in failing : \A m \in failing : n <= m
<1>2. least \in failing
  BY <1>1
<1>3. FirstOf(tests) = tests[least][2]
  BY DEF FirstOf
<1>4. FirstError(errors) = FirstOf(tests)
  BY DEF FirstError
<1> QED BY <1>2, <1>3, <1>4

\* The other way round: tests none of which applies find nothing.
LEMMA FirstOfPasses ==
    ASSUME NEW tests, \A n \in DOMAIN tests : ~tests[n][1]
    PROVE  FirstOf(tests) = "none"
BY DEF FirstOf

LEMMA FirstErrorPasses ==
    ASSUME NEW errors, \A n \in DOMAIN errors : errors[n] = "none"
    PROVE  FirstError(errors) = "none"
<1> DEFINE tests == [n \in DOMAIN errors |-> <<errors[n] # "none", errors[n]>>]
<1>1. \A n \in DOMAIN tests : ~tests[n][1]
  OBVIOUS
<1>2. FirstError(errors) = FirstOf(tests)
  BY DEF FirstError
<1> QED BY <1>1, <1>2, FirstOfPasses

\* Chains of a given length.
LEMMA ThreeTests ==
    ASSUME NEW a, NEW b, NEW c, NEW aa, NEW bb, NEW cc,
           aa # "none", bb # "none", cc # "none"
    PROVE  FirstOf(<< <<a, aa>>, <<b, bb>>, <<c, cc>> >>) = "none"
                <=> ~a /\ ~b /\ ~c
<1> DEFINE tests == << <<a, aa>>, <<b, bb>>, <<c, cc>> >>
<1>1. DOMAIN tests = 1 .. 3
  OBVIOUS
<1>2. \A x \in 1 .. 3 : tests[x][2] # "none"
  OBVIOUS
<1>3. (\A x \in 1 .. 3 : ~tests[x][1])
        <=> ~a /\ ~b /\ ~c
  OBVIOUS
<1> HIDE DEF tests
<1>4. FirstOf(tests) = "none" <=> \A x \in 1 .. 3 : ~tests[x][1]
  BY <1>1, <1>2, FirstOfFails, FirstOfPasses
<1> QED BY <1>3, <1>4 DEF tests

LEMMA FourTests ==
    ASSUME NEW a, NEW b, NEW c, NEW d, NEW aa, NEW bb, NEW cc, NEW dd,
           aa # "none", bb # "none", cc # "none", dd # "none"
    PROVE  FirstOf(<< <<a, aa>>, <<b, bb>>, <<c, cc>>, <<d, dd>> >>) = "none"
                <=> ~a /\ ~b /\ ~c /\ ~d
<1> DEFINE tests == << <<a, aa>>, <<b, bb>>, <<c, cc>>, <<d, dd>> >>
<1>1. DOMAIN tests = 1 .. 4
  OBVIOUS
<1>2. \A x \in 1 .. 4 : tests[x][2] # "none"
  OBVIOUS
<1>3. (\A x \in 1 .. 4 : ~tests[x][1])
        <=> ~a /\ ~b /\ ~c /\ ~d
  OBVIOUS
<1> HIDE DEF tests
<1>4. FirstOf(tests) = "none" <=> \A x \in 1 .. 4 : ~tests[x][1]
  BY <1>1, <1>2, FirstOfFails, FirstOfPasses
<1> QED BY <1>3, <1>4 DEF tests

LEMMA FiveTests ==
    ASSUME NEW a, NEW b, NEW c, NEW d, NEW e, NEW aa, NEW bb, NEW cc, NEW dd, NEW ee,
           aa # "none", bb # "none", cc # "none", dd # "none", ee # "none"
    PROVE  FirstOf(<< <<a, aa>>, <<b, bb>>, <<c, cc>>, <<d, dd>>, <<e, ee>> >>) = "none"
                <=> ~a /\ ~b /\ ~c /\ ~d /\ ~e
<1> DEFINE tests == << <<a, aa>>, <<b, bb>>, <<c, cc>>, <<d, dd>>, <<e, ee>> >>
<1>1. DOMAIN tests = 1 .. 5
  OBVIOUS
<1>2. \A x \in 1 .. 5 : tests[x][2] # "none"
  OBVIOUS
<1>3. (\A x \in 1 .. 5 : ~tests[x][1])
        <=> ~a /\ ~b /\ ~c /\ ~d /\ ~e
  OBVIOUS
<1> HIDE DEF tests
<1>4. FirstOf(tests) = "none" <=> \A x \in 1 .. 5 : ~tests[x][1]
  BY <1>1, <1>2, FirstOfFails, FirstOfPasses
<1> QED BY <1>3, <1>4 DEF tests

LEMMA SixTests ==
    ASSUME NEW a, NEW b, NEW c, NEW d, NEW e, NEW f, NEW aa, NEW bb, NEW cc, NEW dd,
           NEW ee, NEW ff,
           aa # "none", bb # "none", cc # "none", dd # "none", ee # "none", ff # "none"
    PROVE  FirstOf(<< <<a, aa>>, <<b, bb>>, <<c, cc>>, <<d, dd>>, <<e, ee>>, <<f, ff>> >>) = "none"
                <=> ~a /\ ~b /\ ~c /\ ~d /\ ~e /\ ~f
<1> DEFINE tests == << <<a, aa>>, <<b, bb>>, <<c, cc>>, <<d, dd>>, <<e, ee>>, <<f, ff>> >>
<1>1. DOMAIN tests = 1 .. 6
  OBVIOUS
<1>2. \A x \in 1 .. 6 : tests[x][2] # "none"
  OBVIOUS
<1>3. (\A x \in 1 .. 6 : ~tests[x][1])
        <=> ~a /\ ~b /\ ~c /\ ~d /\ ~e /\ ~f
  OBVIOUS
<1> HIDE DEF tests
<1>4. FirstOf(tests) = "none" <=> \A x \in 1 .. 6 : ~tests[x][1]
  BY <1>1, <1>2, FirstOfFails, FirstOfPasses
<1> QED BY <1>3, <1>4 DEF tests

LEMMA FifteenTests ==
    ASSUME NEW a, NEW b, NEW c, NEW d, NEW e, NEW f, NEW g, NEW h, NEW i, NEW j, NEW k,
           NEW l, NEW m, NEW n, NEW o, NEW aa, NEW bb, NEW cc, NEW dd, NEW ee, NEW ff,
           NEW gg, NEW hh, NEW ii, NEW jj, NEW kk, NEW ll, NEW mm, NEW nn, NEW oo,
           aa # "none", bb # "none", cc # "none", dd # "none", ee # "none", ff # "none",
           gg # "none", hh # "none", ii # "none", jj # "none", kk # "none", ll # "none",
           mm # "none", nn # "none", oo # "none"
    PROVE  FirstOf(<< <<a, aa>>, <<b, bb>>, <<c, cc>>, <<d, dd>>, <<e, ee>>, <<f, ff>>,
                      <<g, gg>>, <<h, hh>>, <<i, ii>>, <<j, jj>>, <<k, kk>>, <<l, ll>>,
                      <<m, mm>>, <<n, nn>>, <<o, oo>> >>) = "none"
                <=> ~a /\ ~b /\ ~c /\ ~d /\ ~e /\ ~f /\ ~g /\ ~h /\ ~i /\ ~j /\ ~k /\ ~l
                    /\ ~m /\ ~n /\ ~o
<1> DEFINE tests == << <<a, aa>>, <<b, bb>>, <<c, cc>>, <<d, dd>>, <<e, ee>>, <<f, ff>>,
                       <<g, gg>>, <<h, hh>>, <<i, ii>>, <<j, jj>>, <<k, kk>>, <<l, ll>>,
                       <<m, mm>>, <<n, nn>>, <<o, oo>> >>
<1>1. DOMAIN tests = 1 .. 15
  OBVIOUS
<1>2. \A x \in 1 .. 15 : tests[x][2] # "none"
  OBVIOUS
<1>3. (\A x \in 1 .. 15 : ~tests[x][1])
        <=> ~a /\ ~b /\ ~c /\ ~d /\ ~e /\ ~f /\ ~g /\ ~h /\ ~i /\ ~j /\ ~k /\ ~l /\ ~m
            /\ ~n /\ ~o
  OBVIOUS
<1> HIDE DEF tests
<1>4. FirstOf(tests) = "none" <=> \A x \in 1 .. 15 : ~tests[x][1]
  BY <1>1, <1>2, FirstOfFails, FirstOfPasses
<1> QED BY <1>3, <1>4 DEF tests

-----------------------------------------------------------------------------
(* The cursor of a writer.                                                 *)

\* The recursion over the parts of an entry: it has one solution.
IsPartsSum(sum, kind, f, i) ==
    sum = [j \in 0 .. i |-> IF j = 0 THEN 0 ELSE sum[j - 1] + PartByteSize(kind, f, j)]

LEMMA PartsSumExists ==
    ASSUME NEW kind, NEW f, NEW i \in Nat
    PROVE  \E sum : IsPartsSum(sum, kind, f, i)
<1> DEFINE without == {n \in Nat : ~\E sum : IsPartsSum(sum, kind, f, n)}
<1> SUFFICES ASSUME without # {} PROVE FALSE
  OBVIOUS
<1>1. PICK n \in without : \A m \in without : n <= m
  <2>1. without \subseteq Nat
    OBVIOUS
  <2> HIDE DEF without
  <2> QED BY <2>1, LeastNumber
<1>2. CASE n = 0
  <2> DEFINE sum == [j \in 0 .. 0 |-> 0]
  <2>1. IsPartsSum(sum, kind, f, 0)
    BY DEF IsPartsSum
  <2> QED BY <1>2, <2>1
<1>3. CASE n # 0
  <2>1. PICK sum : IsPartsSum(sum, kind, f, n - 1)
    BY <1>1, <1>3
  <2> DEFINE longer == [j \in 0 .. n |->
                            IF j = n THEN sum[n - 1] + PartByteSize(kind, f, n) ELSE sum[j]]
  <2>2. \A j \in 0 .. n - 1 :
            sum[j] = IF j = 0 THEN 0 ELSE sum[j - 1] + PartByteSize(kind, f, j)
    BY <2>1 DEF IsPartsSum
  <2>3. \A j \in 0 .. n :
            longer[j] = IF j = 0 THEN 0 ELSE longer[j - 1] + PartByteSize(kind, f, j)
    <3> TAKE j \in 0 .. n
    <3>1. CASE j = n
      BY <1>3, <3>1
    <3>2. CASE j # n
      BY <2>2, <3>2
    <3> QED BY <3>1, <3>2
  <2>4. IsPartsSum(longer, kind, f, n)
    BY <2>3 DEF IsPartsSum
  <2> QED BY <2>4
<1> QED BY <1>2, <1>3

\* Each part counts with its size.
LEMMA PartsByteSizeSteps ==
    ASSUME NEW kind, NEW f
    PROVE  /\ PartsByteSize(kind, f, 0) = 0
           /\ \A i \in Nat : PartsByteSize(kind, f, i + 1) =
                PartsByteSize(kind, f, i) + PartByteSize(kind, f, i + 1)
<1> DEFINE sumOf(i) == CHOOSE sum : IsPartsSum(sum, kind, f, i)
<1>1. \A i \in Nat : PartsByteSize(kind, f, i) = sumOf(i)[i]
  BY DEF PartsByteSize, IsPartsSum
<1>2. \A i \in Nat : IsPartsSum(sumOf(i), kind, f, i)
  BY PartsSumExists
<1>3. \A i \in Nat : \A j \in 0 .. i : sumOf(i)[j] =
        IF j = 0 THEN 0 ELSE sumOf(i)[j - 1] + PartByteSize(kind, f, j)
  <2>1. ASSUME NEW sum, NEW i \in Nat, IsPartsSum(sum, kind, f, i)
        PROVE  \A j \in 0 .. i :
                    sum[j] = IF j = 0 THEN 0 ELSE sum[j - 1] + PartByteSize(kind, f, j)
    <3>1. sum = [j \in 0 .. i |->
                    IF j = 0 THEN 0 ELSE sum[j - 1] + PartByteSize(kind, f, j)]
      BY <2>1 DEF IsPartsSum
    <3> QED BY <3>1
  <2> HIDE DEF sumOf
  <2> QED BY <1>2, <2>1
<1> HIDE DEF sumOf
<1>4. ASSUME NEW i \in Nat
      PROVE  \A j \in 0 .. i : sumOf(i)[j] = sumOf(i + 1)[j]
  <2> DEFINE different == {j \in 0 .. i : sumOf(i)[j] # sumOf(i + 1)[j]}
  <2> SUFFICES ASSUME different # {} PROVE FALSE
    OBVIOUS
  <2>1. PICK j \in different : \A m \in different : j <= m
    <3>1. different \subseteq Nat
      OBVIOUS
    <3> HIDE DEF different
    <3> QED BY <3>1, LeastNumber
  <2>2. sumOf(i)[j] = IF j = 0 THEN 0 ELSE sumOf(i)[j - 1] + PartByteSize(kind, f, j)
    BY <1>3
  <2>3. sumOf(i + 1)[j] = IF j = 0 THEN 0 ELSE sumOf(i + 1)[j - 1] + PartByteSize(kind, f, j)
    BY <1>3
  <2>4. j # 0 => sumOf(i)[j - 1] = sumOf(i + 1)[j - 1]
    BY <2>1
  <2> QED BY <2>1, <2>2, <2>3, <2>4
<1>5. PartsByteSize(kind, f, 0) = 0
  BY <1>1, <1>3
<1>6. ASSUME NEW i \in Nat
      PROVE  PartsByteSize(kind, f, i + 1) =
                PartsByteSize(kind, f, i) + PartByteSize(kind, f, i + 1)
  BY <1>1, <1>3, <1>4
<1> QED BY <1>5, <1>6

\* The recursion over the entries of a table.
IsEntriesEnd(end, kind, entries, n) ==
    end = [m \in 0 .. n |->
            IF m = 0 THEN DirectoryEnd(kind, Len(entries))
            ELSE AlignUp(end[m - 1] + PartsByteSize(kind, entries[m].fields,
                                                    Len(entries[m].parts)))]

LEMMA EntriesEndExists ==
    ASSUME NEW kind, NEW entries, NEW i \in Nat
    PROVE  \E end : IsEntriesEnd(end, kind, entries, i)
<1> DEFINE without == {n \in Nat : ~\E end : IsEntriesEnd(end, kind, entries, n)}
           sizeOf(m) == PartsByteSize(kind, entries[m].fields, Len(entries[m].parts))
           start == DirectoryEnd(kind, Len(entries))
<1> SUFFICES ASSUME without # {} PROVE FALSE
  OBVIOUS
<1>1. PICK n \in without : \A m \in without : n <= m
  <2>1. without \subseteq Nat
    OBVIOUS
  <2> HIDE DEF without
  <2> QED BY <2>1, LeastNumber
<1>2. CASE n = 0
  <2> DEFINE end == [m \in 0 .. 0 |-> start]
  <2>1. IsEntriesEnd(end, kind, entries, 0)
    BY DEF IsEntriesEnd
  <2> QED BY <1>2, <2>1
<1>3. CASE n # 0
  <2>1. PICK end : IsEntriesEnd(end, kind, entries, n - 1)
    BY <1>1, <1>3
  <2> DEFINE longer == [m \in 0 .. n |->
                            IF m = n THEN AlignUp(end[n - 1] + sizeOf(n)) ELSE end[m]]
  <2>2. \A m \in 0 .. n - 1 :
            end[m] = IF m = 0 THEN start ELSE AlignUp(end[m - 1] + sizeOf(m))
    BY <2>1 DEF IsEntriesEnd
  <2>3. \A m \in 0 .. n :
            longer[m] = IF m = 0 THEN start ELSE AlignUp(longer[m - 1] + sizeOf(m))
    <3> HIDE DEF start, sizeOf
    <3> TAKE m \in 0 .. n
    <3>1. CASE m = n
      BY <1>3, <3>1
    <3>2. CASE m # n
      BY <2>2, <3>2
    <3> QED BY <3>1, <3>2
  <2>4. IsEntriesEnd(longer, kind, entries, n)
    BY <2>3 DEF IsEntriesEnd
  <2> QED BY <2>4
<1> QED BY <1>2, <1>3

\* Behind its parts an entry ends at the next multiple of eight.
LEMMA EntriesEndSteps ==
    ASSUME NEW kind, NEW entries
    PROVE  /\ EntriesEnd(kind, entries, 0) = DirectoryEnd(kind, Len(entries))
           /\ \A n \in Nat : EntriesEnd(kind, entries, n + 1) =
                AlignUp(EntriesEnd(kind, entries, n)
                            + PartsByteSize(kind, entries[n + 1].fields,
                                            Len(entries[n + 1].parts)))
<1> DEFINE endOf(n) == CHOOSE end : IsEntriesEnd(end, kind, entries, n)
           sizeOf(m) == PartsByteSize(kind, entries[m].fields, Len(entries[m].parts))
           start == DirectoryEnd(kind, Len(entries))
<1>1. \A n \in Nat : EntriesEnd(kind, entries, n) = endOf(n)[n]
  BY DEF EntriesEnd, IsEntriesEnd
<1>2. \A n \in Nat : IsEntriesEnd(endOf(n), kind, entries, n)
  BY EntriesEndExists
<1>3. \A n \in Nat : \A m \in 0 .. n : endOf(n)[m] =
        IF m = 0 THEN start ELSE AlignUp(endOf(n)[m - 1] + sizeOf(m))
  <2>1. ASSUME NEW end, NEW n \in Nat, IsEntriesEnd(end, kind, entries, n)
        PROVE  \A m \in 0 .. n :
                    end[m] = IF m = 0 THEN start ELSE AlignUp(end[m - 1] + sizeOf(m))
    <3>1. end = [m \in 0 .. n |->
                    IF m = 0 THEN start ELSE AlignUp(end[m - 1] + sizeOf(m))]
      BY <2>1 DEF IsEntriesEnd
    <3> HIDE DEF start, sizeOf
    <3> QED BY <3>1
  <2> HIDE DEF endOf, sizeOf, start
  <2> QED BY <1>2, <2>1
<1> HIDE DEF endOf, sizeOf, start
<1>4. ASSUME NEW n \in Nat
      PROVE  \A m \in 0 .. n : endOf(n)[m] = endOf(n + 1)[m]
  <2> DEFINE different == {m \in 0 .. n : endOf(n)[m] # endOf(n + 1)[m]}
  <2> SUFFICES ASSUME different # {} PROVE FALSE
    OBVIOUS
  <2>1. PICK m \in different : \A other \in different : m <= other
    <3>1. different \subseteq Nat
      OBVIOUS
    <3> HIDE DEF different
    <3> QED BY <3>1, LeastNumber
  <2>2. endOf(n)[m] = IF m = 0 THEN start ELSE AlignUp(endOf(n)[m - 1] + sizeOf(m))
    BY <1>3
  <2>3. endOf(n + 1)[m] =
            IF m = 0 THEN start ELSE AlignUp(endOf(n + 1)[m - 1] + sizeOf(m))
    BY <1>3
  <2>4. m # 0 => endOf(n)[m - 1] = endOf(n + 1)[m - 1]
    BY <2>1
  <2> QED BY <2>1, <2>2, <2>3, <2>4
<1>5. EntriesEnd(kind, entries, 0) = start
  BY <1>1, <1>3
<1>6. ASSUME NEW n \in Nat
      PROVE  EntriesEnd(kind, entries, n + 1) =
                AlignUp(EntriesEnd(kind, entries, n) + sizeOf(n + 1))
  BY <1>1, <1>3, <1>4
<1> QED BY <1>5, <1>6 DEF sizeOf, start

-----------------------------------------------------------------------------
(* The writer, which advances a cursor, and the view, which computes where *)
(* a part is, agree.                                                       *)

LEMMA WordsAreNumbers == \A word \in Word : word \in Nat
BY ModulusAssumption DEF Word

\* The sum over the first i parts in closed form; a shader has one part.
SumOfParts(kind, f, i) ==
    IF kind = "ShaderModule" THEN IF i = 0 THEN 0 ELSE f.byteSize
    ELSE IF kind = "RenderingTemplate" \/ i <= f.globalCount THEN 32 * i
    ELSE IF i <= f.globalCount + f.bufferCount
         THEN 32 * f.globalCount + 56 * (i - f.globalCount)
    ELSE 32 * f.globalCount + 56 * f.bufferCount + 64 * (i - f.globalCount - f.bufferCount)

LEMMA FieldsOfRegions ==
    ASSUME NEW kind \in RegionKinds, NEW f \in [EntryFields[kind] -> Word]
    PROVE  /\ kind = "ShaderModule" => f.byteSize \in Nat
           /\ kind = "RenderingTemplate" => f.colorCount \in Nat /\ f.depthPresent \in Nat
           /\ kind = "BarrierBatch" =>
                f.globalCount \in Nat /\ f.bufferCount \in Nat /\ f.imageCount \in Nat
BY WordsAreNumbers DEF EntryFields, RegionKinds

\* A barrier is of one of the three kinds, each with its size.
LEMMA BarrierSizes ==
    ASSUME NEW f, f.globalCount \in Nat, f.bufferCount \in Nat, NEW i \in Nat
    PROVE  /\ IsGlobal(f, i) <=> i <= f.globalCount
           /\ IsBuffer(f, i) <=> i > f.globalCount /\ i <= f.globalCount + f.bufferCount
           /\ IsImage(f, i) <=> i > f.globalCount + f.bufferCount
           /\ IsGlobal(f, i) => PartByteSize("BarrierBatch", f, i) = 32
           /\ IsBuffer(f, i) => PartByteSize("BarrierBatch", f, i) = 56
           /\ IsImage(f, i) => PartByteSize("BarrierBatch", f, i) = 64
<1>1. /\ IsGlobal(f, i) <=> i <= f.globalCount
      /\ IsBuffer(f, i) <=> i > f.globalCount /\ i <= f.globalCount + f.bufferCount
      /\ IsImage(f, i) <=> i > f.globalCount + f.bufferCount
  BY DEF IsGlobal, IsBuffer, IsImage
<1>2. /\ IsBuffer(f, i) => ~IsGlobal(f, i)
      /\ IsImage(f, i) => ~IsGlobal(f, i) /\ ~IsBuffer(f, i)
  BY <1>1
<1>3. IsGlobal(f, i) => PartByteSize("BarrierBatch", f, i) = 32
  BY <1>2 DEF PartByteSize
<1>4. IsBuffer(f, i) => PartByteSize("BarrierBatch", f, i) = 56
  BY <1>2 DEF PartByteSize
<1>5. IsImage(f, i) => PartByteSize("BarrierBatch", f, i) = 64
  BY <1>2 DEF PartByteSize
<1> QED BY <1>1, <1>3, <1>4, <1>5

\* With one barrier more, the sum grows by the size of that barrier.
LEMMA BarrierSumSteps ==
    ASSUME NEW f, f.globalCount \in Nat, f.bufferCount \in Nat, NEW i \in Nat \ {0}
    PROVE  SumOfParts("BarrierBatch", f, i) =
                SumOfParts("BarrierBatch", f, i - 1) + PartByteSize("BarrierBatch", f, i)
<1> DEFINE g == f.globalCount
           b == f.bufferCount
           sum(j) == SumOfParts("BarrierBatch", f, j)
<1>1. \A j \in Nat : sum(j) = IF j <= g THEN 32 * j
                             ELSE IF j <= g + b THEN 32 * g + 56 * (j - g)
                             ELSE 32 * g + 56 * b + 64 * (j - g - b)
  BY DEF SumOfParts
<1>2. /\ i <= g => PartByteSize("BarrierBatch", f, i) = 32
      /\ i > g /\ i <= g + b => PartByteSize("BarrierBatch", f, i) = 56
      /\ i > g + b => PartByteSize("BarrierBatch", f, i) = 64
  BY BarrierSizes
<1>3. g \in Nat /\ b \in Nat /\ i - 1 \in Nat
  OBVIOUS
<1> HIDE DEF g, b, sum
<1>4. CASE i <= g
  <2>1. sum(i) = 32 * i /\ sum(i - 1) = 32 * (i - 1)
    BY <1>1, <1>3, <1>4
  <2> QED BY <1>2, <1>4, <2>1 DEF sum
<1>5. CASE i > g /\ i <= g + b
  <2>1. sum(i) = 32 * g + 56 * (i - g)
    BY <1>1, <1>3, <1>5
  <2>2. CASE i - 1 <= g
    <3>1. i - 1 = g /\ sum(i - 1) = 32 * g
      BY <1>1, <1>3, <1>5, <2>2
    <3> QED BY <1>2, <1>3, <1>5, <2>1, <3>1 DEF sum
  <2>3. CASE ~(i - 1 <= g)
    <3>1. sum(i - 1) = 32 * g + 56 * (i - 1 - g)
      BY <1>1, <1>3, <1>5, <2>3
    <3> QED BY <1>2, <1>3, <1>5, <2>1, <3>1 DEF sum
  <2> QED BY <2>2, <2>3
<1>6. CASE i > g + b
  <2>1. sum(i) = 32 * g + 56 * b + 64 * (i - g - b)
    BY <1>1, <1>3, <1>6
  <2>2. sum(i - 1) = 32 * g + 56 * b + 64 * (i - 1 - g - b)
    <3>1. CASE i - 1 > g + b
      BY <1>1, <1>3, <1>6, <3>1
    <3>2. CASE i - 1 = g + b /\ b = 0
      BY <1>1, <1>3, <3>2
    <3>3. CASE i - 1 = g + b /\ b # 0
      BY <1>1, <1>3, <3>3
    <3> QED BY <1>3, <1>6, <3>1, <3>2, <3>3
  <2> QED BY <1>2, <1>3, <1>6, <2>1, <2>2 DEF sum
<1> QED BY <1>3, <1>4, <1>5, <1>6

LEMMA PartsSumClosed ==
    ASSUME NEW kind \in RegionKinds, NEW f \in [EntryFields[kind] -> Word], NEW k \in Nat,
           kind = "ShaderModule" => k <= 1
    PROVE  \A i \in 0 .. k : PartsByteSize(kind, f, i) = SumOfParts(kind, f, i)
<1> DEFINE different == {i \in 0 .. k : PartsByteSize(kind, f, i) # SumOfParts(kind, f, i)}
<1> SUFFICES ASSUME different # {} PROVE FALSE
  OBVIOUS
<1>1. PICK i \in different : \A m \in different : i <= m
  <2>1. different \subseteq Nat
    OBVIOUS
  <2> HIDE DEF different
  <2> QED BY <2>1, LeastNumber
<1>2. /\ kind = "ShaderModule" => f.byteSize \in Nat
      /\ kind = "BarrierBatch" => f.globalCount \in Nat /\ f.bufferCount \in Nat
  BY FieldsOfRegions
<1>3. SumOfParts(kind, f, 0) = 0
  BY <1>2 DEF SumOfParts, RegionKinds
<1>4. i # 0
  BY <1>1, <1>3, PartsByteSizeSteps
<1>5. PartsByteSize(kind, f, i - 1) = SumOfParts(kind, f, i - 1)
  BY <1>1, <1>4
<1>6. PartsByteSize(kind, f, i) = PartsByteSize(kind, f, i - 1) + PartByteSize(kind, f, i)
  <2>1. i - 1 \in Nat /\ (i - 1) + 1 = i
    BY <1>1, <1>4
  <2> HIDE DEF different
  <2> QED BY <2>1, PartsByteSizeSteps
<1>7. SumOfParts(kind, f, i) = SumOfParts(kind, f, i - 1) + PartByteSize(kind, f, i)
  <2>1. CASE kind = "ShaderModule"
    <3>1. i = 1
      BY <1>1, <1>4, <2>1
    <3> QED BY <1>2, <2>1, <3>1 DEF SumOfParts, PartByteSize
  <2>2. CASE kind = "RenderingTemplate"
    BY <1>1, <1>4, <2>2 DEF SumOfParts, PartByteSize
  <2>3. CASE kind = "BarrierBatch"
    <3>1. i \in Nat \ {0}
      BY <1>1, <1>4
    <3> QED BY <1>2, <2>3, <3>1, BarrierSumSteps
  <2> QED BY <2>1, <2>2, <2>3 DEF RegionKinds
<1> QED BY <1>1, <1>5, <1>6, <1>7
-----------------------------------------------------------------------------
(* The parts of an entry lie one behind the other.                         *)

\* What is known of an entry that a writer took.
IsTaken(kind, entry) == IsEntry(kind, entry) /\ Writable(kind, entry)

\* An entry has the parts that the counts of its record promise.
LEMMA PartsOfTaken ==
    ASSUME NEW kind \in RegionKinds, NEW entry, IsTaken(kind, entry)
    PROVE  /\ entry.fields \in [EntryFields[kind] -> Word]
           /\ Len(entry.parts) \in Nat
           /\ DOMAIN entry.parts = 1 .. Len(entry.parts)
           /\ Len(entry.parts) = PartCount(kind, entry.fields)
           /\ kind = "ShaderModule" => Len(entry.parts) = 1 /\ entry.fields.byteSize >= 20
<1> DEFINE f == entry.fields
           parts == entry.parts
<1>1. IsEntry(kind, entry) /\ Writable(kind, entry)
  BY DEF IsTaken
<1>2. f \in [EntryFields[kind] -> Word] /\ parts \in Seq(Range(parts))
  BY <1>1 DEF IsEntry
<1>3. Len(parts) \in Nat /\ DOMAIN parts = 1 .. Len(parts)
  BY <1>2
<1>4. CASE kind = "ShaderModule"
  <2>1. Len(parts) = 1
    BY <1>1, <1>4 DEF IsEntry
  <2>2. ShaderModuleWritable(f, parts)
    BY <1>1, <1>4 DEF Writable
  <2> QED BY <1>2, <1>3, <1>4, <2>1, <2>2 DEF ShaderModuleWritable, PartCount
<1>5. CASE kind = "RenderingTemplate"
  <2>1. RenderingTemplateWritable(f, parts)
    BY <1>1, <1>5 DEF Writable
  <2> QED BY <1>2, <1>3, <1>5, <2>1 DEF RenderingTemplateWritable, PartCount
<1>6. CASE kind = "BarrierBatch"
  <2>1. BarrierBatchWritable(f, parts)
    BY <1>1, <1>6 DEF Writable
  <2> QED BY <1>2, <1>3, <1>6, <2>1 DEF BarrierBatchWritable, PartCount
<1> QED BY <1>4, <1>5, <1>6 DEF RegionKinds

\* The closed form grows with every part, and ends where the view takes the
\* region to end.
LEMMA SumGrows ==
    ASSUME NEW kind \in RegionKinds, NEW f \in [EntryFields[kind] -> Word],
           kind = "ShaderModule" => f.byteSize >= 20
    PROVE  /\ \A i \in 0 .. PartCount(kind, f) : SumOfParts(kind, f, i) \in Nat
           /\ \A i, j \in 0 .. PartCount(kind, f) :
                i < j => SumOfParts(kind, f, i) < SumOfParts(kind, f, j)
           /\ PartCount(kind, f) \in Nat
           /\ SumOfParts(kind, f, PartCount(kind, f)) = RegionByteSize(kind, f)
<1>1. CASE kind = "ShaderModule"
  <2>1. f.byteSize \in Nat /\ f.byteSize >= 20 /\ PartCount(kind, f) = 1
    BY <1>1, FieldsOfRegions DEF PartCount
  <2>2. /\ SumOfParts(kind, f, 0) = 0 /\ SumOfParts(kind, f, 1) = f.byteSize
        /\ RegionByteSize(kind, f) = f.byteSize
    BY <1>1 DEF SumOfParts, RegionByteSize
  <2> QED BY <2>1, <2>2
<1>2. CASE kind = "RenderingTemplate"
  <2> DEFINE k == f.colorCount + f.depthPresent
  <2>1. k \in Nat /\ PartCount(kind, f) = k /\ RegionByteSize(kind, f) = 32 * k
    BY <1>2, FieldsOfRegions DEF PartCount, RegionByteSize
  <2>2. \A i \in 0 .. k : SumOfParts(kind, f, i) = 32 * i
    BY <1>2 DEF SumOfParts
  <2> HIDE DEF k
  <2> QED BY <2>1, <2>2
<1>3. CASE kind = "BarrierBatch"
  <2> DEFINE g == f.globalCount
             b == f.bufferCount
             c == f.imageCount
  <2>1. g \in Nat /\ b \in Nat /\ c \in Nat
    BY <1>3, FieldsOfRegions
  <2>2. PartCount(kind, f) = g + b + c
    BY <1>3 DEF PartCount
  <2>3. RegionByteSize(kind, f) = 32 * g + 56 * b + 64 * c
    BY <1>3 DEF RegionByteSize
  <2>4. \A i \in Nat : SumOfParts(kind, f, i) =
            IF i <= g THEN 32 * i
            ELSE IF i <= g + b THEN 32 * g + 56 * (i - g)
            ELSE 32 * g + 56 * b + 64 * (i - g - b)
    BY <1>3 DEF SumOfParts
  <2> HIDE DEF g, b, c
  <2>5. SumOfParts(kind, f, g + b + c) = 32 * g + 56 * b + 64 * c
    BY <2>1, <2>4
  <2>6. \A i \in Nat : SumOfParts(kind, f, i) \in Nat
    BY <2>1, <2>4
  <2>7. \A i, j \in Nat : i < j => SumOfParts(kind, f, i) < SumOfParts(kind, f, j)
    BY <2>1, <2>4
  <2> QED BY <2>1, <2>2, <2>3, <2>5, <2>6, <2>7
<1> QED BY <1>1, <1>2, <1>3 DEF RegionKinds

\* The view looks for a part where the cursor was.
LEMMA ViewFollowsCursor ==
    ASSUME NEW kind \in RegionKinds, NEW record,
           record.fields \in [EntryFields[kind] -> Word], record.byteOffset \in Nat,
           kind = "ShaderModule" => record.fields.byteSize >= 20,
           NEW i \in 1 .. PartCount(kind, record.fields)
    PROVE  PartOffset(kind, record, i)
                = record.byteOffset + PartsByteSize(kind, record.fields, i - 1)
<1> DEFINE f == record.fields
<1>1. PartCount(kind, f) \in Nat /\ i \in Nat \ {0}
  BY SumGrows
<1>2. PartsByteSize(kind, f, i - 1) = SumOfParts(kind, f, i - 1)
  <2>1. kind = "ShaderModule" => PartCount(kind, f) = 1
    BY DEF PartCount
  <2> QED BY <1>1, <2>1, PartsSumClosed
<1>3. CASE kind = "ShaderModule"
  <2>1. i = 1
    BY <1>3 DEF PartCount
  <2> QED BY <1>2, <1>3, <2>1 DEF PartOffset, SumOfParts
<1>4. CASE kind = "RenderingTemplate"
  BY <1>1, <1>2, <1>4 DEF PartOffset, SumOfParts
<1>5. CASE kind = "BarrierBatch"
  <2> DEFINE g == f.globalCount
             b == f.bufferCount
  <2>1. g \in Nat /\ b \in Nat
    BY <1>5, FieldsOfRegions
  <2>2. SumOfParts(kind, f, i - 1) =
            IF i - 1 <= g THEN 32 * (i - 1)
            ELSE IF i - 1 <= g + b THEN 32 * g + 56 * ((i - 1) - g)
            ELSE 32 * g + 56 * b + 64 * ((i - 1) - g - b)
    BY <1>5 DEF SumOfParts
  <2>3. /\ IsGlobal(f, i) <=> i <= g
        /\ IsBuffer(f, i) <=> i > g /\ i <= g + b
    BY <1>1, <2>1, BarrierSizes
  <2>4. PartOffset(kind, record, i) = record.byteOffset +
            IF IsGlobal(f, i) THEN 32 * (i - 1)
            ELSE IF IsBuffer(f, i) THEN 32 * g + 56 * (i - 1 - g)
            ELSE 32 * g + 56 * b + 64 * (i - 1 - g - b)
    BY <1>5 DEF PartOffset
  <2> HIDE DEF g, b
  <2>5. CASE i <= g
    BY <1>1, <1>2, <2>1, <2>2, <2>3, <2>4, <2>5
  <2>6. CASE i > g /\ i <= g + b
    BY <1>1, <1>2, <2>1, <2>2, <2>3, <2>4, <2>6
  <2>7. CASE i > g + b
    BY <1>1, <1>2, <2>1, <2>2, <2>3, <2>4, <2>7
  <2> QED BY <1>1, <2>1, <2>5, <2>6, <2>7
<1> QED BY <1>3, <1>4, <1>5 DEF RegionKinds

-----------------------------------------------------------------------------
(* The entries of a table lie one behind the other.                        *)

LEMMA AlignUpIsNext ==
    ASSUME NEW x \in Nat
    PROVE  /\ AlignUp(x) \in Nat /\ x <= AlignUp(x) /\ AlignUp(x) % 8 = 0
           /\ x % 8 = 0 => AlignUp(x) = x
BY DEF AlignUp

LEMMA DirectoryEndAligned ==
    ASSUME NEW kind \in Kinds, NEW count \in Nat
    PROVE  /\ DirectoryEnd(kind, count) \in Nat
           /\ DirectoryEnd(kind, count) % 8 = 0
<1>1. EntryByteSize[kind] \in {16, 24, 32, 40, 80}
  BY DEF Kinds, EntryByteSize
<1>2. DirectoryEnd(kind, count) = 8 + count * EntryByteSize[kind]
  BY DEF DirectoryEnd
<1>3. CASE EntryByteSize[kind] = 16
  BY <1>2, <1>3
<1>4. CASE EntryByteSize[kind] = 24
  BY <1>2, <1>4
<1>5. CASE EntryByteSize[kind] = 32
  BY <1>2, <1>5
<1>6. CASE EntryByteSize[kind] = 40
  BY <1>2, <1>6
<1>7. CASE EntryByteSize[kind] = 80
  BY <1>2, <1>7
<1> QED BY <1>1, <1>3, <1>4, <1>5, <1>6, <1>7
\* What the writer emits for a table, its entries with or without parts.
LEMMA SizeOfEntry ==
    ASSUME NEW kind \in Kinds, NEW entry, IsTaken(kind, entry)
    PROVE  /\ PartsByteSize(kind, entry.fields, Len(entry.parts)) \in Nat
           /\ kind \notin RegionKinds =>
                PartsByteSize(kind, entry.fields, Len(entry.parts)) = 0
           /\ kind \in RegionKinds =>
                PartsByteSize(kind, entry.fields, Len(entry.parts))
                    = RegionByteSize(kind, entry.fields)
<1>1. CASE kind \in RegionKinds
  <2> DEFINE count == PartCount(kind, entry.fields)
  <2>1. /\ entry.fields \in [EntryFields[kind] -> Word]
        /\ Len(entry.parts) = count
        /\ kind = "ShaderModule" => count = 1 /\ entry.fields.byteSize >= 20
    BY <1>1, PartsOfTaken
  <2>2. /\ count \in Nat
        /\ SumOfParts(kind, entry.fields, count) \in Nat
        /\ SumOfParts(kind, entry.fields, count) = RegionByteSize(kind, entry.fields)
    BY <1>1, <2>1, SumGrows
  <2>3. PartsByteSize(kind, entry.fields, count) = SumOfParts(kind, entry.fields, count)
    <3> HIDE DEF count
    <3>1. kind = "ShaderModule" => count <= 1
      BY <2>1
    <3>2. \A i \in 0 .. count :
            PartsByteSize(kind, entry.fields, i) = SumOfParts(kind, entry.fields, i)
      BY <1>1, <2>1, <2>2, <3>1, PartsSumClosed
    <3> QED BY <2>2, <3>2
  <2> QED BY <1>1, <2>1, <2>2, <2>3
<1>2. CASE kind \notin RegionKinds
  <2>1. entry.parts = <<>>
    BY <1>2 DEF IsTaken, IsEntry
  <2> QED BY <1>2, <2>1, PartsByteSizeSteps
<1> QED BY <1>1, <1>2

\* Ends of entries are multiples of eight and do not decrease; without parts
\* they stay at the end of the directory.
LEMMA EndsOfEntries ==
    ASSUME NEW kind \in Kinds, NEW S, NEW entries \in Seq(S),
           \A n \in 1 .. Len(entries) : IsTaken(kind, entries[n])
    PROVE  /\ \A n \in 0 .. Len(entries) :
                /\ EntriesEnd(kind, entries, n) \in Nat
                /\ EntriesEnd(kind, entries, n) % 8 = 0
                /\ EntriesEnd(kind, entries, n) >= DirectoryEnd(kind, Len(entries))
                /\ kind \notin RegionKinds =>
                    EntriesEnd(kind, entries, n) = DirectoryEnd(kind, Len(entries))
           /\ \A n \in 1 .. Len(entries) :
                EntriesEnd(kind, entries, n - 1)
                    + PartsByteSize(kind, entries[n].fields, Len(entries[n].parts))
                    <= EntriesEnd(kind, entries, n)
<1> DEFINE end(n) == EntriesEnd(kind, entries, n)
           size(n) == PartsByteSize(kind, entries[n].fields, Len(entries[n].parts))
           start == DirectoryEnd(kind, Len(entries))
           Good(n) == /\ end(n) \in Nat /\ end(n) % 8 = 0 /\ end(n) >= start
                      /\ kind \notin RegionKinds => end(n) = start
           bad == {n \in 0 .. Len(entries) : ~Good(n)}
<1>1. Len(entries) \in Nat /\ start \in Nat /\ start % 8 = 0
  BY DirectoryEndAligned
<1>2. end(0) = start
  BY EntriesEndSteps
<1>3. \A n \in 1 .. Len(entries) : end(n) = AlignUp(end(n - 1) + size(n))
  <2>1. \A n \in Nat : end(n + 1) = AlignUp(end(n) + size(n + 1))
    BY EntriesEndSteps
  <2> TAKE n \in 1 .. Len(entries)
  <2>2. n - 1 \in Nat /\ (n - 1) + 1 = n
    BY <1>1
  <2> HIDE DEF end, size
  <2> QED BY <2>1, <2>2
<1>4. \A n \in 1 .. Len(entries) :
        size(n) \in Nat /\ (kind \notin RegionKinds => size(n) = 0)
  BY SizeOfEntry
<1> HIDE DEF end, size, start
<1>5. bad = {}
  <2> SUFFICES ASSUME bad # {} PROVE FALSE
    OBVIOUS
  <2>1. PICK n \in bad : \A m \in bad : n <= m
    <3>1. bad \subseteq Nat
      BY <1>1
    <3> HIDE DEF bad
    <3> QED BY <3>1, LeastNumber
  <2>2. n # 0
    BY <1>1, <1>2, <2>1
  <2>3. n \in 1 .. Len(entries) /\ n - 1 \in 0 .. Len(entries)
    BY <1>1, <2>1, <2>2
  <2>4. Good(n - 1)
    BY <1>1, <2>1, <2>3
  <2>5. end(n - 1) + size(n) \in Nat
    BY <1>4, <2>3, <2>4
  <2>6. /\ end(n) \in Nat /\ end(n) % 8 = 0 /\ end(n - 1) + size(n) <= end(n)
        /\ (end(n - 1) + size(n)) % 8 = 0 => end(n) = end(n - 1) + size(n)
    BY <1>3, <2>3, <2>5, AlignUpIsNext
  <2>7. end(n) >= start
    <3>1. /\ end(n - 1) \in Nat /\ end(n - 1) >= start
          /\ size(n) \in Nat /\ end(n) \in Nat
          /\ end(n - 1) + size(n) <= end(n)
      BY <1>4, <2>3, <2>4, <2>6
    <3>2. start \in Nat
      BY <1>1
    <3>3. \A a, b, c, d \in Nat : a >= d /\ a + b <= c => c >= d
      OBVIOUS
    <3> QED BY <3>1, <3>2, <3>3
  <2>8. kind \notin RegionKinds => end(n) = start
    BY <1>1, <1>4, <2>3, <2>4, <2>6
  <2>9. Good(n)
    BY <2>6, <2>7, <2>8
  <2> QED BY <2>1, <2>9
<1>6. \A n \in 0 .. Len(entries) : Good(n)
  BY <1>5
<1>7. ASSUME NEW n \in 1 .. Len(entries)
      PROVE  end(n - 1) + size(n) <= end(n)
  <2>1. n - 1 \in 0 .. Len(entries)
    BY <1>1
  <2>2. end(n - 1) + size(n) \in Nat
    <3>1. end(n - 1) \in Nat
      BY <1>6, <2>1
    <3>2. size(n) \in Nat
      BY <1>4
    <3> QED BY <3>1, <3>2
  <2> QED BY <1>3, <2>2, AlignUpIsNext
<1> QED BY <1>6, <1>7 DEF end, size, start

LEMMA EndsDoNotDecrease ==
    ASSUME NEW kind \in Kinds, NEW S, NEW entries \in Seq(S),
           \A n \in 1 .. Len(entries) : IsTaken(kind, entries[n])
    PROVE  \A m, n \in 0 .. Len(entries) :
            m <= n => EntriesEnd(kind, entries, m) <= EntriesEnd(kind, entries, n)
<1> DEFINE end(n) == EntriesEnd(kind, entries, n)
<1>1. /\ Len(entries) \in Nat
      /\ \A n \in 0 .. Len(entries) : end(n) \in Nat
  BY EndsOfEntries
<1>2. \A n \in 1 .. Len(entries) : end(n - 1) <= end(n)
  <2> TAKE n \in 1 .. Len(entries)
  <2> DEFINE size == PartsByteSize(kind, entries[n].fields, Len(entries[n].parts))
  <2>1. end(n - 1) + size <= end(n)
    BY EndsOfEntries
  <2>2. size \in Nat
    BY SizeOfEntry
  <2>3. end(n - 1) \in Nat /\ end(n) \in Nat
    BY <1>1
  <2> HIDE DEF end, size
  <2> QED BY <2>1, <2>2, <2>3
<1> HIDE DEF end
<1> SUFFICES ASSUME NEW m \in 0 .. Len(entries)
             PROVE  \A n \in 0 .. Len(entries) : m <= n => end(m) <= end(n)
  BY DEF end
<1> DEFINE bad == {n \in 0 .. Len(entries) : m <= n /\ ~(end(m) <= end(n))}
<1> SUFFICES ASSUME bad # {} PROVE FALSE
  OBVIOUS
<1>3. PICK n \in bad : \A other \in bad : n <= other
  <2>1. bad \subseteq Nat
    BY <1>1
  <2> HIDE DEF bad
  <2> QED BY <2>1, LeastNumber
<1>4. n # m
  BY <1>1, <1>3
<1>5. n - 1 \in 0 .. Len(entries) /\ m <= n - 1 /\ n \in 1 .. Len(entries)
  BY <1>1, <1>3, <1>4
<1>6. end(m) <= end(n - 1)
  BY <1>1, <1>3, <1>5
<1>7. end(n - 1) <= end(n) /\ end(n - 1) \in Nat /\ end(n) \in Nat /\ end(m) \in Nat
  BY <1>1, <1>2, <1>5
<1>8. ~(end(m) <= end(n))
  BY <1>3
<1> QED BY <1>6, <1>7, <1>8
-----------------------------------------------------------------------------
(* A view decodes what was written.                                        *)

\* A part lies between the ends of its entry and of the entry before it.
LEMMA CursorWithinEntry ==
    ASSUME NEW kind \in RegionKinds, NEW S, NEW entries \in Seq(S),
           \A n \in 1 .. Len(entries) : IsTaken(kind, entries[n]),
           NEW n \in 1 .. Len(entries), NEW i \in 1 .. Len(entries[n].parts)
    PROVE  /\ Cursor(kind, entries, n, i - 1) \in Nat
           /\ EntriesEnd(kind, entries, n - 1) <= Cursor(kind, entries, n, i - 1)
           /\ Cursor(kind, entries, n, i - 1) < EntriesEnd(kind, entries, n)
           /\ \A j \in 1 .. Len(entries[n].parts) :
                Cursor(kind, entries, n, i - 1) = Cursor(kind, entries, n, j - 1) => i = j
<1> DEFINE f == entries[n].fields
           k == Len(entries[n].parts)
           sum(j) == SumOfParts(kind, f, j)
           start == EntriesEnd(kind, entries, n - 1)
           end == EntriesEnd(kind, entries, n)
<1>1. kind \in Kinds /\ Len(entries) \in Nat
  BY DEF RegionKinds, Kinds, EntryByteSize
<1>2. /\ f \in [EntryFields[kind] -> Word] /\ k \in Nat /\ k = PartCount(kind, f)
      /\ kind = "ShaderModule" => k = 1 /\ f.byteSize >= 20
  BY PartsOfTaken
<1>3. /\ \A j \in 0 .. k : sum(j) \in Nat
      /\ \A j, m \in 0 .. k : j < m => sum(j) < sum(m)
  BY <1>2, SumGrows
<1>4. \A j \in 0 .. k : PartsByteSize(kind, f, j) = sum(j)
  <2>1. kind = "ShaderModule" => k <= 1
    BY <1>2
  <2> HIDE DEF f, k
  <2> QED BY <1>2, <2>1, PartsSumClosed
<1>5. \A j \in 0 .. k : Cursor(kind, entries, n, j) = start + sum(j)
  BY <1>4 DEF Cursor
<1>6. start \in Nat /\ end \in Nat
  BY <1>1, EndsOfEntries
<1>7. start + sum(k) <= end
  <2>1. start + PartsByteSize(kind, f, k) <= end
    BY <1>1, EndsOfEntries
  <2> QED BY <1>2, <1>4, <2>1
<1> HIDE DEF f, k, sum, start, end
<1>8. i \in 1 .. k /\ i - 1 \in 0 .. k /\ k \in 0 .. k
  BY <1>2 DEF k
<1>9. sum(i - 1) < sum(k)
  BY <1>2, <1>3, <1>8
<1>10. \A j \in 1 .. k : sum(i - 1) = sum(j - 1) => i = j
  <2> TAKE j \in 1 .. k
  <2>1. j - 1 \in 0 .. k
    BY <1>2
  <2> QED BY <1>2, <1>3, <1>8, <2>1
<1>11. /\ Cursor(kind, entries, n, i - 1) = start + sum(i - 1)
       /\ sum(i - 1) \in Nat /\ sum(k) \in Nat
  BY <1>3, <1>5, <1>8
<1>12. \A j \in 1 .. k :
        Cursor(kind, entries, n, i - 1) = Cursor(kind, entries, n, j - 1) => i = j
  <2> TAKE j \in 1 .. k
  <2>1. j - 1 \in 0 .. k
    BY <1>2
  <2>2. Cursor(kind, entries, n, j - 1) = start + sum(j - 1) /\ sum(j - 1) \in Nat
    BY <1>3, <1>5, <2>1
  <2> QED BY <1>6, <1>10, <1>11, <2>2
<1>13. start + sum(i - 1) < end
  BY <1>6, <1>7, <1>9, <1>11
<1> QED BY <1>6, <1>11, <1>12, <1>13 DEF start, end, k

LEMMA PartsAreApart ==
    ASSUME NEW kind \in RegionKinds, NEW S, NEW entries \in Seq(S),
           \A n \in 1 .. Len(entries) : IsTaken(kind, entries[n]),
           NEW n \in 1 .. Len(entries), NEW i \in 1 .. Len(entries[n].parts),
           NEW m \in 1 .. Len(entries), NEW j \in 1 .. Len(entries[m].parts),
           Cursor(kind, entries, n, i - 1) = Cursor(kind, entries, m, j - 1)
    PROVE  n = m /\ i = j
<1> DEFINE end(x) == EntriesEnd(kind, entries, x)
           cursor == Cursor(kind, entries, n, i - 1)
<1>1. kind \in Kinds /\ Len(entries) \in Nat
  BY DEF RegionKinds, Kinds, EntryByteSize
<1>2. /\ cursor \in Nat /\ end(n - 1) <= cursor /\ cursor < end(n)
      /\ end(m - 1) <= cursor /\ cursor < end(m)
  BY CursorWithinEntry
<1>3. \A x, y \in 0 .. Len(entries) : x <= y => end(x) <= end(y)
  BY <1>1, EndsDoNotDecrease
<1>4. \A x \in 0 .. Len(entries) : end(x) \in Nat
  BY <1>1, EndsOfEntries
<1> HIDE DEF end, cursor
<1>5. ASSUME n < m PROVE FALSE
  <2>1. end(n) <= end(m - 1)
    BY <1>1, <1>3, <1>5
  <2>2. end(n) \in Nat /\ end(m - 1) \in Nat
    BY <1>1, <1>4
  <2> QED BY <1>2, <2>1, <2>2
<1>6. ASSUME m < n PROVE FALSE
  <2>1. end(m) <= end(n - 1)
    BY <1>1, <1>3, <1>6
  <2>2. end(m) \in Nat /\ end(n - 1) \in Nat
    BY <1>1, <1>4
  <2> QED BY <1>2, <2>1, <2>2
<1>7. n = m
  BY <1>1, <1>5, <1>6
<1> QED BY <1>7, CursorWithinEntry

LEMMA PartAtCursor ==
    ASSUME NEW kind \in RegionKinds, NEW S, NEW entries \in Seq(S),
           \A n \in 1 .. Len(entries) : IsTaken(kind, entries[n]),
           NEW n \in 1 .. Len(entries), NEW i \in 1 .. Len(entries[n].parts)
    PROVE  PartAt(Written(kind, entries), PartFields(kind, entries[n].fields, i),
                  Cursor(kind, entries, n, i - 1)) = entries[n].parts[i]
<1> DEFINE cursor(x, y) == Cursor(kind, entries, x, y - 1)
           placed == UNION {{[byteOffset |-> cursor(x, y), part |-> entries[x].parts[y]] :
                                y \in DOMAIN entries[x].parts} : x \in DOMAIN entries}
           fields == PartFields(kind, entries[n].fields, i)
           there == {p \in placed : p.byteOffset = cursor(n, i) /\ DOMAIN p.part = fields}
           found == CHOOSE p \in there : TRUE
<1>1. PartAt(Written(kind, entries), fields, cursor(n, i)) =
        IF there = {} THEN [field \in fields |-> Stray[field]] ELSE found.part
  BY DEF PartAt, Written
<1>2. \A x \in 1 .. Len(entries) : DOMAIN entries[x].parts = 1 .. Len(entries[x].parts)
  BY PartsOfTaken
<1>3. \A x \in 1 .. Len(entries) : \A y \in 1 .. Len(entries[x].parts) :
        cursor(n, i) = cursor(x, y) => n = x /\ i = y
  BY PartsAreApart
<1>4. DOMAIN entries = 1 .. Len(entries)
  OBVIOUS
<1>5. DOMAIN entries[n].parts[i] = fields
  <2>1. entries[n].parts[i] \in [fields -> Word]
    BY <1>2 DEF IsTaken, IsEntry
  <2> HIDE DEF fields
  <2> QED BY <2>1
<1> HIDE DEF cursor, fields
<1>6. [byteOffset |-> cursor(n, i), part |-> entries[n].parts[i]] \in there
  <2> DEFINE own == [byteOffset |-> cursor(n, i), part |-> entries[n].parts[i]]
  <2>1. own \in placed
    BY <1>2, <1>4
  <2>2. own.byteOffset = cursor(n, i) /\ own.part = entries[n].parts[i]
    OBVIOUS
  <2> HIDE DEF own, placed
  <2>3. own \in there
    BY <1>5, <2>1, <2>2
  <2> QED BY <2>3 DEF own
<1>7. found \in there
  BY <1>6
<1>8. found \in placed /\ found.byteOffset = cursor(n, i)
  BY <1>7
<1> HIDE DEF found
<1>9. PICK x \in DOMAIN entries :
        found \in {[byteOffset |-> cursor(x, y), part |-> entries[x].parts[y]] :
                    y \in DOMAIN entries[x].parts}
  BY <1>8
<1>10. PICK y \in DOMAIN entries[x].parts :
        found = [byteOffset |-> cursor(x, y), part |-> entries[x].parts[y]]
  BY <1>9
<1>11. n = x /\ i = y
  <2>1. found.byteOffset = cursor(x, y)
    BY <1>10
  <2>2. x \in 1 .. Len(entries) /\ y \in 1 .. Len(entries[x].parts)
    BY <1>2, <1>4
  <2> QED BY <1>3, <1>8, <2>1, <2>2
<1>12. found.part = entries[n].parts[i]
  BY <1>10, <1>11
<1>13. there # {}
  BY <1>6
<1> HIDE DEF there
<1> QED BY <1>1, <1>12, <1>13 DEF cursor, fields

LEMMA DecodedIsWritten ==
    ASSUME NEW kind \in Kinds, NEW S, NEW entries \in Seq(S),
           \A n \in 1 .. Len(entries) : IsTaken(kind, entries[n]),
           NEW n \in 1 .. Len(entries)
    PROVE  Decoded(kind, Written(kind, entries), n) = entries[n]
<1> DEFINE table == Written(kind, entries)
           record == [fields |-> entries[n].fields,
                      byteOffset |-> Cursor(kind, entries, n, 0)]
           parts == entries[n].parts
           at(i) == PartAt(table, PartFields(kind, entries[n].fields, i),
                           PartOffset(kind, record, i))
<1>1. table.directory[n] = record
  BY DEF Written
<1>2. entries[n] = [fields |-> entries[n].fields, parts |-> parts]
  BY DEF IsTaken, IsEntry
<1>3. CASE kind \notin RegionKinds
  <2>1. parts = <<>>
    BY <1>3 DEF IsTaken, IsEntry
  <2> QED BY <1>1, <1>2, <1>3, <2>1 DEF Decoded
<1>4. CASE kind \in RegionKinds
  <2>1. /\ entries[n].fields \in [EntryFields[kind] -> Word]
        /\ Len(parts) \in Nat
        /\ DOMAIN parts = 1 .. Len(parts)
        /\ Len(parts) = PartCount(kind, entries[n].fields)
        /\ kind = "ShaderModule" => entries[n].fields.byteSize >= 20
    BY <1>4, PartsOfTaken
  <2>2. record.byteOffset = EntriesEnd(kind, entries, n - 1) /\ record.byteOffset \in Nat
    <3>1. EntriesEnd(kind, entries, n - 1) \in Nat
      BY EndsOfEntries
    <3> QED BY <3>1, PartsByteSizeSteps DEF Cursor
  <2>3. \A i \in 1 .. Len(parts) :
            PartOffset(kind, record, i) = Cursor(kind, entries, n, i - 1)
    <3> TAKE i \in 1 .. Len(parts)
    <3>1. PartOffset(kind, record, i)
            = record.byteOffset + PartsByteSize(kind, entries[n].fields, i - 1)
      BY <1>4, <2>1, <2>2, ViewFollowsCursor
    <3> QED BY <2>2, <3>1 DEF Cursor
  <2>4. \A i \in 1 .. Len(parts) : at(i) = parts[i]
    <3> TAKE i \in 1 .. Len(parts)
    <3>1. PartAt(table, PartFields(kind, entries[n].fields, i),
                 Cursor(kind, entries, n, i - 1)) = parts[i]
      BY <1>4, PartAtCursor
    <3> QED BY <2>3, <3>1
  <2>5. Decoded(kind, table, n) =
            [fields |-> entries[n].fields,
             parts |-> [i \in 1 .. Len(parts) |-> at(i)]]
    BY <1>1, <1>4, <2>1 DEF Decoded
  <2>6. [i \in 1 .. Len(parts) |-> at(i)] = parts
    <3>1. parts \in Seq(Range(parts))
      BY DEF IsTaken, IsEntry
    <3>2. parts = [i \in 1 .. Len(parts) |-> parts[i]]
      BY <3>1
    <3> HIDE DEF parts, at
    <3> QED BY <2>4, <3>2
  <2> QED BY <1>2, <2>5, <2>6
<1> QED BY <1>3, <1>4
-----------------------------------------------------------------------------
(* Each validator accepts what its writer takes, and nothing else in which *)
(* Java reads no negative number.  The tests of a validator are named one  *)
(* by one, so that a chain of them falls under the lemmas about chains.    *)

LEMMA FieldsInWord ==
    ASSUME NEW fields, NEW f \in [fields -> Word], ~HasNegative(f)
    PROVE  \A field \in fields : f[field] \in Nat /\ ~Negative(f[field])
BY WordsAreNumbers DEF HasNegative

LEMMA PositiveIsBelow ==
    ASSUME NEW field \in Word
    PROVE  /\ Positive(field) => field # 0 /\ field # Modulus - 1
           /\ ~Negative(field) /\ field # 0 => Positive(field)
BY ModulusAssumption DEF Positive, Negative, Word

LEMMA BuffersAgree ==
    ASSUME NEW f \in [EntryFields["Buffer"] -> Word]
    PROVE  /\ BufferWritable(f) => BufferError(f) = "none"
           /\ BufferError(f) = "none" /\ ~HasNegative(f) /\ f.importIdentifier = 0
                => BufferWritable(f)
<1> DEFINE t1 == f.reservedFlags # 0
           t2 == f.usageFlags > 255
           t3 == f.memoryKind > 3
           t4 == /\ f.importIdentifier = 0
                 /\ (f.byteSize = 0 \/ f.usageFlags = 0 \/ f.memoryKind = 0)
           t5 == f.importIdentifier # 0 /\ f.memoryKind # 0
<1>1. BufferError(f) = FirstOf(<<
            <<t1, "NonZeroReservedFlags">>, <<t2, "UnknownUsageFlags">>,
            <<t3, "UnknownMemoryKind">>, <<t4, "InvalidCreatedBufferDescription">>,
            <<t5, "InvalidImportedBufferDescription">> >>)
  BY DEF BufferError
<1> HIDE DEF t1, t2, t3, t4, t5
<1>2. BufferError(f) = "none" <=> ~t1 /\ ~t2 /\ ~t3 /\ ~t4 /\ ~t5
  BY <1>1, FiveTests
<1>3. /\ f.byteSize \in Word /\ f.usageFlags \in Nat
      /\ f.memoryKind \in Nat /\ f.importIdentifier \in Nat
  BY WordsAreNumbers DEF EntryFields
<1>4. ASSUME BufferWritable(f) PROVE ~t1 /\ ~t2 /\ ~t3 /\ ~t4 /\ ~t5
  <2>1. f.importIdentifier = 0 =>
            f.byteSize # 0 /\ f.usageFlags \in 1 .. 255 /\ f.memoryKind # 0
    BY <1>3, <1>4, PositiveIsBelow DEF BufferWritable
  <2>2. f.importIdentifier # 0 => f.usageFlags = 0 /\ f.memoryKind = 0
    BY <1>4 DEF BufferWritable
  <2>3. f.reservedFlags = 0 /\ f.memoryKind \in 0 .. 3
    BY <1>4 DEF BufferWritable
  <2> QED BY <1>3, <2>1, <2>2, <2>3 DEF t1, t2, t3, t4, t5
<1>5. ASSUME ~t1, ~t2, ~t3, ~t4, ~HasNegative(f), f.importIdentifier = 0
      PROVE  BufferWritable(f)
  <2>1. f.reservedFlags = 0 /\ f.usageFlags \in 0 .. 255 /\ f.memoryKind \in 0 .. 3
    BY <1>3, <1>5 DEF t1, t2, t3
  <2>2. f.byteSize # 0 /\ f.usageFlags # 0 /\ f.memoryKind # 0
    BY <1>5 DEF t4
  <2>3. Positive(f.byteSize)
    BY <1>3, <1>5, <2>2, FieldsInWord, PositiveIsBelow DEF EntryFields
  <2> QED BY <1>5, <2>1, <2>2, <2>3 DEF BufferWritable
<1> QED BY <1>2, <1>4, <1>5

LEMMA ImagesAgree ==
    ASSUME NEW f \in [EntryFields["Image"] -> Word]
    PROVE  /\ ImageWritable(f) => ImageError(f) = "none"
           /\ ImageError(f) = "none" /\ ~HasNegative(f) => ImageWritable(f)
<1> DEFINE t1 == f.imageKind \notin 1 .. 3
           t2 == f.format \notin 1 .. 6
           t3 == f.sampleCount \notin {1, 2, 4, 8}
           t4 == \/ 0 \in {f.width, f.height, f.depth, f.mipLevelCount, f.arrayLayerCount}
                 \/ f.imageKind = 3 /\ f.arrayLayerCount # 1
           t5 == f.usageFlags > 63
           t6 == f.importIdentifier = 0 /\ f.usageFlags = 0
           dimensions == {"width", "height", "depth", "mipLevelCount", "arrayLayerCount"}
<1>1. ImageError(f) = FirstOf(<<
            <<t1, "UnknownImageKind">>, <<t2, "UnknownImageFormat">>,
            <<t3, "UnknownSampleCount">>, <<t4, "InvalidImageDimensions">>,
            <<t5, "UnknownUsageFlags">>, <<t6, "InvalidCreatedImageDescription">> >>)
  BY DEF ImageError
<1> HIDE DEF t1, t2, t3, t4, t5, t6
<1>2. ImageError(f) = "none" <=> ~t1 /\ ~t2 /\ ~t3 /\ ~t4 /\ ~t5 /\ ~t6
  BY <1>1, SixTests
<1>3. f.usageFlags \in Nat /\ \A dimension \in dimensions : f[dimension] \in Word
  BY WordsAreNumbers DEF EntryFields
<1>4. ASSUME ImageWritable(f) PROVE ~t1 /\ ~t2 /\ ~t3 /\ ~t4 /\ ~t5 /\ ~t6
  <2>1. \A dimension \in dimensions : f[dimension] # 0
    BY <1>4 DEF ImageWritable, Positive
  <2>2. f.imageKind = 3 => f.arrayLayerCount = 1
    BY <1>4 DEF ImageWritable
  <2>3. ~t4
    BY <2>1, <2>2 DEF t4
  <2>4. ~t1 /\ ~t2 /\ ~t3
    BY <1>4 DEF ImageWritable, t1, t2, t3
  <2>5. ~t5 /\ ~t6
    BY <1>3, <1>4 DEF ImageWritable, t5, t6
  <2> QED BY <2>3, <2>4, <2>5
<1>5. ASSUME ~t1, ~t2, ~t3, ~t4, ~t5, ~t6, ~HasNegative(f)
      PROVE  ImageWritable(f)
  <2>1. \A dimension \in dimensions : f[dimension] # 0
    BY <1>5 DEF t4
  <2>2. \A dimension \in dimensions : ~Negative(f[dimension])
    BY <1>5, FieldsInWord DEF EntryFields
  <2>3. \A dimension \in dimensions : Positive(f[dimension])
    BY <1>3, <2>1, <2>2, PositiveIsBelow
  <2>4. f.imageKind = 3 => f.arrayLayerCount = 1
    BY <1>5 DEF t4
  <2>5. f.imageKind \in 1 .. 3 /\ f.format \in 1 .. 6 /\ f.sampleCount \in {1, 2, 4, 8}
    BY <1>5 DEF t1, t2, t3
  <2>6. f.usageFlags \in 0 .. 63 /\ (f.importIdentifier = 0 => f.usageFlags # 0)
    BY <1>3, <1>5 DEF t5, t6
  <2> QED BY <2>3, <2>4, <2>5, <2>6 DEF ImageWritable
<1> QED BY <1>2, <1>4, <1>5

LEMMA ImageViewsAgree ==
    ASSUME NEW f \in [EntryFields["ImageView"] -> Word]
    PROVE  /\ ImageViewWritable(f) => ImageViewError(f) = "none"
           /\ ImageViewError(f) = "none" /\ ~HasNegative(f) => ImageViewWritable(f)
<1> DEFINE t1 == f.imageViewKind \notin 1 .. 3
           t2 == f.format \notin 1 .. 6
           t3 == f.aspectMask \notin 1 .. 7
           t4 == \/ f.mipLevelCount \in {0, Modulus - 1}
                 \/ f.arrayLayerCount # 1
                 \/ f.imageViewKind = 3 /\ f.baseArrayLayer # 0
<1>1. ImageViewError(f) = FirstOf(<<
            <<t1, "UnknownImageViewKind">>, <<t2, "UnknownImageFormat">>,
            <<t3, "UnusableImageAspectMask">>,
            <<t4, "InvalidImageViewSubresourceCounts">> >>)
  BY DEF ImageViewError
<1> HIDE DEF t1, t2, t3, t4
<1>2. ImageViewError(f) = "none" <=> ~t1 /\ ~t2 /\ ~t3 /\ ~t4
  BY <1>1, FourTests
<1>3. f.mipLevelCount \in Word
  BY DEF EntryFields
<1>4. ASSUME ImageViewWritable(f) PROVE ~t1 /\ ~t2 /\ ~t3 /\ ~t4
  <2>1. f.mipLevelCount \notin {0, Modulus - 1}
    BY <1>3, <1>4, PositiveIsBelow DEF ImageViewWritable
  <2> QED BY <1>4, <2>1 DEF ImageViewWritable, t1, t2, t3, t4
<1>5. ASSUME ~t1, ~t2, ~t3, ~t4, ~HasNegative(f) PROVE ImageViewWritable(f)
  <2>1. \A field \in {"imageSlot", "baseMipLevel", "mipLevelCount", "baseArrayLayer"} :
            ~Negative(f[field])
    BY <1>5, FieldsInWord DEF EntryFields
  <2>2. Positive(f.mipLevelCount)
    BY <1>3, <1>5, <2>1, PositiveIsBelow DEF t4
  <2>3. f.imageViewKind \in 1 .. 3 /\ f.format \in 1 .. 6 /\ f.aspectMask \in 1 .. 7
    BY <1>5 DEF t1, t2, t3
  <2>4. f.arrayLayerCount = 1 /\ (f.imageViewKind = 3 => f.baseArrayLayer = 0)
    BY <1>5 DEF t4
  <2> QED BY <2>1, <2>2, <2>3, <2>4 DEF ImageViewWritable
<1> QED BY <1>2, <1>4, <1>5
LEMMA PipelinesAgree ==
    ASSUME NEW f \in [EntryFields["Pipeline"] -> Word]
    PROVE  /\ PipelineWritable(f) => PipelineError(f) = "none"
           /\ PipelineError(f) = "none" /\ ~HasNegative(f) => PipelineWritable(f)
<1> DEFINE t1 == f.reservedFlags # 0
           t2 == f.pipelineKind # 1
           t3 == f.pushConstantByteSize \notin PushConstantByteSizes
<1>1. PipelineError(f) = FirstOf(<<
            <<t1, "NonZeroReservedFlags">>, <<t2, "UnknownPipelineKind">>,
            <<t3, "InvalidPushConstantByteSize">> >>)
  BY DEF PipelineError
<1> HIDE DEF t1, t2, t3
<1>2. PipelineError(f) = "none" <=> ~t1 /\ ~t2 /\ ~t3
  BY <1>1, ThreeTests
<1>3. ~HasNegative(f) => ~Negative(f.shaderModuleSlot)
  BY FieldsInWord DEF EntryFields
<1> QED BY <1>2, <1>3 DEF PipelineWritable, t1, t2, t3

LEMMA GraphicsPipelinesAgree ==
    ASSUME NEW f \in [EntryFields["GraphicsPipeline"] -> Word]
    PROVE  GraphicsPipelineWritable(f) <=> GraphicsPipelineError(f) = "none"
<1> DEFINE t1 == f.reservedFlags # 0
           t2 == f.topology \notin 1 .. 5
           t3 == f.cullMode \notin 1 .. 4
           t4 == f.frontFace \notin 1 .. 2
           t5 == f.pushConstantByteSize \notin PushConstantByteSizes
           t6 == f.colorCount > 8
           t7 == f.colorCount = 0 /\ f.depthFormat = 0
           t8 == f.colorCount > 1 \/ (f.colorCount = 1 /\ f.colorFormat \notin ColorFormats)
           t9 == f.colorCount = 0 /\ f.colorFormat # 0
           t10 == f.depthFormat \notin DepthFormats \cup {0}
           t11 == f.depthTest > 1 \/ f.depthWrite > 1
           t12 == f.depthWrite = 1 /\ f.depthTest = 0
           t13 == f.depthTest = 1 /\ f.depthFormat = 0
           t14 == f.depthTest = 1 /\ f.depthCompare \notin 1 .. 8
           t15 == f.depthTest = 0 /\ f.depthCompare # 0
           none == /\ ~t1 /\ ~t2 /\ ~t3 /\ ~t4 /\ ~t5 /\ ~t6 /\ ~t7 /\ ~t8
                   /\ ~t9 /\ ~t10 /\ ~t11 /\ ~t12 /\ ~t13 /\ ~t14 /\ ~t15
<1>1. GraphicsPipelineError(f) = FirstOf(<<
            <<t1, "NonZeroRecordReservedFlags">>, <<t2, "UnknownTopology">>,
            <<t3, "UnknownCullMode">>, <<t4, "UnknownFrontFace">>,
            <<t5, "InvalidPushConstantByteSize">>, <<t6, "TooManyColorAttachments">>,
            <<t7, "EmptyAttachmentSet">>, <<t8, "UnknownColorAttachmentFormat">>,
            <<t9, "NonZeroUnusedColorFormat">>, <<t10, "InvalidDepthAttachmentFormat">>,
            <<t11, "InvalidDepthEnableFlag">>, <<t12, "DepthWriteWithoutDepthTest">>,
            <<t13, "DepthStateWithoutDepthAttachment">>,
            <<t14, "UnknownDepthCompareOperation">>,
            <<t15, "NonZeroDisabledDepthCompareOperation">> >>)
  BY DEF GraphicsPipelineError
<1> HIDE DEF t1, t2, t3, t4, t5, t6, t7, t8, t9, t10, t11, t12, t13, t14, t15
<1>2. GraphicsPipelineError(f) = "none" <=> none
  BY <1>1, FifteenTests
<1>3. /\ f.colorCount \in Nat /\ f.depthTest \in Nat /\ f.depthWrite \in Nat
  BY WordsAreNumbers DEF EntryFields
<1>4. ASSUME GraphicsPipelineWritable(f) PROVE none
  <2>1. f.colorCount \in 0 .. 1 /\ f.depthTest \in 0 .. 1 /\ f.depthWrite \in 0 .. 1
    BY <1>4 DEF GraphicsPipelineWritable
  <2>2. ~t1 /\ ~t2 /\ ~t3 /\ ~t4 /\ ~t5 /\ ~t10
    BY <1>4 DEF GraphicsPipelineWritable, t1, t2, t3, t4, t5, t10
  <2>3. ~t6 /\ ~t11
    BY <2>1 DEF t6, t11
  <2>4. ~t7 /\ ~t8 /\ ~t9
    BY <1>4, <2>1 DEF GraphicsPipelineWritable, t7, t8, t9
  <2>5. ~t12 /\ ~t13 /\ ~t14 /\ ~t15
    BY <1>4, <2>1 DEF GraphicsPipelineWritable, t12, t13, t14, t15
  <2> QED BY <2>2, <2>3, <2>4, <2>5
<1>5. ASSUME none PROVE GraphicsPipelineWritable(f)
  <2>1. /\ f.reservedFlags = 0
        /\ f.pushConstantByteSize \in PushConstantByteSizes
        /\ f.topology \in 1 .. 5 /\ f.cullMode \in 1 .. 4 /\ f.frontFace \in 1 .. 2
        /\ f.depthFormat \in DepthFormats \cup {0}
    BY <1>5 DEF t1, t2, t3, t4, t5, t10
  <2>2. f.colorCount \in 0 .. 1 /\ (f.colorCount = 1 => f.colorFormat \in ColorFormats)
    BY <1>3, <1>5 DEF t8
  <2>3. f.colorCount = 0 => f.colorFormat = 0 /\ f.depthFormat # 0
    BY <1>5 DEF t7, t9
  <2>4. f.depthTest \in 0 .. 1 /\ f.depthWrite \in 0 .. 1
    BY <1>3, <1>5 DEF t11
  <2>5. /\ f.depthFormat = 0 => f.depthTest = 0
        /\ f.depthWrite = 1 => f.depthTest = 1
        /\ IF f.depthTest = 1 THEN f.depthCompare \in 1 .. 8 ELSE f.depthCompare = 0
    BY <1>5, <2>4 DEF t12, t13, t14, t15
  <2> QED BY <2>1, <2>2, <2>3, <2>4, <2>5 DEF GraphicsPipelineWritable
<1> QED BY <1>2, <1>4, <1>5

LEMMA AttachmentsAgree ==
    ASSUME NEW part, part.layout \in Nat, part.loadOp \in Nat, part.storeOp \in Nat
    PROVE  AttachmentError(part) = "none" <=>
            part.layout \in 0 .. 7 /\ part.loadOp \in 0 .. 2 /\ part.storeOp \in 0 .. 1
<1> DEFINE t1 == part.layout > 7
           t2 == part.loadOp > 2
           t3 == part.storeOp > 1
<1>1. AttachmentError(part) = FirstOf(<<
            <<t1, "UnknownAttachmentLayout">>, <<t2, "UnknownAttachmentLoadOp">>,
            <<t3, "UnknownAttachmentStoreOp">> >>)
  BY DEF AttachmentError
<1> HIDE DEF t1, t2, t3
<1>2. AttachmentError(part) = "none" <=> ~t1 /\ ~t2 /\ ~t3
  BY <1>1, ThreeTests
<1> QED BY <1>2 DEF t1, t2, t3

\* The validator asks of a barrier what the writer does, and that an image
\* barrier has known layouts and aspects.
LEMMA BarriersAgree ==
    ASSUME NEW f, NEW i, NEW part
    PROVE  BarrierError(f, i, part) = "none" <=>
            /\ StagesGiven(part)
            /\ IsBuffer(f, i) => part.reservedFlags = 0
            /\ IsImage(f, i) =>
                /\ ~(part.oldLayout > 7) /\ ~(part.newLayout > 7)
                /\ part.aspectMask \in 1 .. 7
                /\ part.mipCount # 0 /\ part.layerCount # 0
<1> DEFINE t1 == IsBuffer(f, i) /\ part.reservedFlags # 0
           t2 == ~StagesGiven(part)
           t3 == IsImage(f, i) /\ (part.oldLayout > 7 \/ part.newLayout > 7)
           t4 == IsImage(f, i) /\ part.aspectMask \notin 1 .. 7
           t5 == IsImage(f, i) /\ (part.mipCount = 0 \/ part.layerCount = 0)
<1>1. BarrierError(f, i, part) = FirstOf(<<
            <<t1, "NonZeroReservedFlags">>, <<t2, "ZeroStageMask">>,
            <<t3, "UnknownImageLayout">>, <<t4, "UnusableImageAspectMask">>,
            <<t5, "EmptyImageSubresourceRange">> >>)
  BY DEF BarrierError
<1> HIDE DEF t1, t2, t3, t4, t5
<1>2. BarrierError(f, i, part) = "none" <=> ~t1 /\ ~t2 /\ ~t3 /\ ~t4 /\ ~t5
  BY <1>1, FiveTests
<1> QED BY <1>2 DEF t1, t2, t3, t4, t5
-----------------------------------------------------------------------------
(* Entries with parts, of any table: what the validator asks of the record *)
(* and the parts the view decodes.                                         *)

RegionInPlace(kind, table, n) ==
    /\ table.directory[n].byteOffset % 8 = 0
    /\ ~RegionMisplaced(kind, table, table.directory[n])

LEMMA ShaderModuleErrorNone ==
    ASSUME NEW table, NEW n
    PROVE  EntryError("ShaderModule", table, n) = "none" <=>
            LET record == table.directory[n]
            IN  /\ RegionInPlace("ShaderModule", table, n)
                /\ ~(record.fields.byteSize < 20) /\ record.fields.byteSize % 4 = 0
                /\ Decoded("ShaderModule", table, n).parts[1].isSpirv = 1
<1> DEFINE record == table.directory[n]
           t1 == record.byteOffset % 8 # 0
           t2 == RegionMisplaced("ShaderModule", table, record)
           t3 == record.fields.byteSize < 20 \/ record.fields.byteSize % 4 # 0
<1>1. ShaderModuleError(table, n) = FirstOf(<<
            <<t1, "MisalignedShaderBlob">>, <<t2, "ShaderBlobOutOfBounds">>,
            <<t3, "InvalidShaderBlobByteSize">> >>)
  BY DEF ShaderModuleError
<1>2. EntryError("ShaderModule", table, n) =
        IF ShaderModuleError(table, n) # "none" THEN ShaderModuleError(table, n)
        ELSE ShaderMagicError(table, n)
  BY DEF EntryError
<1>3. ShaderMagicError(table, n) = "none"
        <=> Decoded("ShaderModule", table, n).parts[1].isSpirv = 1
  BY DEF ShaderMagicError
<1> HIDE DEF t1, t2, t3
<1>4. ShaderModuleError(table, n) = "none" <=> ~t1 /\ ~t2 /\ ~t3
  BY <1>1, ThreeTests
<1> QED BY <1>2, <1>3, <1>4 DEF t1, t2, t3, RegionInPlace

LEMMA RenderingTemplateErrorNone ==
    ASSUME NEW table, NEW n,
           NEW k \in Nat, PartCount("RenderingTemplate", table.directory[n].fields) = k
    PROVE  EntryError("RenderingTemplate", table, n) = "none" <=>
            LET f == table.directory[n].fields
            IN  /\ RegionInPlace("RenderingTemplate", table, n)
                /\ ~(f.depthPresent > 1) /\ k # 0
                /\ f.width # 0 /\ f.height # 0 /\ f.layerCount # 0
                /\ \A i \in 1 .. k :
                    AttachmentError(Decoded("RenderingTemplate", table, n).parts[i]) = "none"
<1> DEFINE record == table.directory[n]
           f == record.fields
           parts == Decoded("RenderingTemplate", table, n).parts
           errors == [i \in DOMAIN parts |-> AttachmentError(parts[i])]
           t1 == f.depthPresent > 1
           t2 == f.colorCount + f.depthPresent = 0
           t3 == f.width = 0 \/ f.height = 0
           t4 == f.layerCount = 0
           t5 == record.byteOffset % 8 # 0
           t6 == RegionMisplaced("RenderingTemplate", table, record)
<1>1. RenderingTemplateError(table, n) = FirstOf(<<
            <<t1, "InvalidDepthAttachmentFlag">>, <<t2, "EmptyAttachmentSet">>,
            <<t3, "EmptyRenderArea">>, <<t4, "ZeroLayerCount">>,
            <<t5, "MisalignedAttachmentRegion">>, <<t6, "AttachmentRegionOutOfBounds">> >>)
  BY DEF RenderingTemplateError
<1>2. EntryError("RenderingTemplate", table, n) =
        IF RenderingTemplateError(table, n) # "none" THEN RenderingTemplateError(table, n)
        ELSE FirstError(errors)
  BY DEF EntryError
<1>3. DOMAIN parts = 1 .. k
  BY DEF Decoded, RegionKinds
<1>4. t2 <=> k = 0
  BY DEF PartCount
<1> HIDE DEF parts
<1>5. FirstError(errors) = "none" <=> \A i \in 1 .. k : AttachmentError(parts[i]) = "none"
  <2>1. DOMAIN errors = 1 .. k /\ \A i \in 1 .. k : errors[i] = AttachmentError(parts[i])
    BY <1>3
  <2> HIDE DEF errors
  <2> QED BY <2>1, FirstErrorFails, FirstErrorPasses
<1> HIDE DEF t1, t2, t3, t4, t5, t6, errors
<1>6. RenderingTemplateError(table, n) = "none" <=> ~t1 /\ ~t2 /\ ~t3 /\ ~t4 /\ ~t5 /\ ~t6
  BY <1>1, SixTests
<1> QED BY <1>2, <1>4, <1>5, <1>6 DEF t1, t3, t4, t5, t6, parts, RegionInPlace

LEMMA BarrierBatchErrorNone ==
    ASSUME NEW table, NEW n,
           NEW k \in Nat, PartCount("BarrierBatch", table.directory[n].fields) = k
    PROVE  EntryError("BarrierBatch", table, n) = "none" <=>
            LET f == table.directory[n].fields
            IN  /\ RegionInPlace("BarrierBatch", table, n)
                /\ f.reservedFlags = 0
                /\ \A i \in 1 .. k :
                    BarrierError(f, i, Decoded("BarrierBatch", table, n).parts[i]) = "none"
<1> DEFINE record == table.directory[n]
           f == record.fields
           parts == Decoded("BarrierBatch", table, n).parts
           errors == [i \in DOMAIN parts |-> BarrierError(f, i, parts[i])]
           t1 == f.reservedFlags # 0
           t2 == record.byteOffset % 8 # 0
           t3 == RegionMisplaced("BarrierBatch", table, record)
<1>1. BarrierBatchError(table, n) = FirstOf(<<
            <<t1, "NonZeroReservedFlags">>, <<t2, "MisalignedBarrierRegion">>,
            <<t3, "BarrierRegionOutOfBounds">> >>)
  BY DEF BarrierBatchError
<1>2. EntryError("BarrierBatch", table, n) =
        IF BarrierBatchError(table, n) # "none" THEN BarrierBatchError(table, n)
        ELSE FirstError(errors)
  BY DEF EntryError
<1>3. DOMAIN parts = 1 .. k
  BY DEF Decoded, RegionKinds
<1> HIDE DEF parts
<1>4. FirstError(errors) = "none" <=> \A i \in 1 .. k : BarrierError(f, i, parts[i]) = "none"
  <2>1. DOMAIN errors = 1 .. k /\ \A i \in 1 .. k : errors[i] = BarrierError(f, i, parts[i])
    BY <1>3
  <2> HIDE DEF errors
  <2> QED BY <2>1, FirstErrorFails, FirstErrorPasses
<1> HIDE DEF t1, t2, t3, errors
<1>5. BarrierBatchError(table, n) = "none" <=> ~t1 /\ ~t2 /\ ~t3
  BY <1>1, ThreeTests
<1> QED BY <1>2, <1>4, <1>5 DEF t1, t2, t3, parts, RegionInPlace

-----------------------------------------------------------------------------
(* A written table is accepted.                                            *)

\* A region is where the writer put it: behind the directory, inside the table.
LEMMA WrittenInPlace ==
    ASSUME NEW kind \in RegionKinds, NEW S, NEW entries \in Seq(S),
           \A n \in 1 .. Len(entries) : IsTaken(kind, entries[n]),
           NEW n \in 1 .. Len(entries)
    PROVE  RegionInPlace(kind, Written(kind, entries), n)
<1> DEFINE table == Written(kind, entries)
           record == table.directory[n]
           end(x) == EntriesEnd(kind, entries, x)
           region == RegionByteSize(kind, entries[n].fields)
<1>1. kind \in Kinds /\ Len(entries) \in Nat
  BY DEF RegionKinds, Kinds, EntryByteSize
<1>2. /\ record.fields = entries[n].fields
      /\ record.byteOffset = Cursor(kind, entries, n, 0)
      /\ table.byteSize = end(Len(entries))
      /\ table.count = Len(entries)
  BY DEF Written
<1>3. \A x \in 0 .. Len(entries) :
        end(x) \in Nat /\ end(x) % 8 = 0 /\ end(x) >= DirectoryEnd(kind, Len(entries))
  BY <1>1, EndsOfEntries
<1>4. record.byteOffset = end(n - 1)
  <2>1. Cursor(kind, entries, n, 0) = end(n - 1) + 0
    BY PartsByteSizeSteps DEF Cursor
  <2>2. end(n - 1) \in Nat
    BY <1>1, <1>3
  <2> HIDE DEF end
  <2> QED BY <1>2, <2>1, <2>2
<1>5. region \in Nat /\ end(n - 1) + region <= end(n)
  <2>1. /\ PartsByteSize(kind, entries[n].fields, Len(entries[n].parts)) = region
        /\ region \in Nat
    BY <1>1, SizeOfEntry
  <2>2. end(n - 1) + PartsByteSize(kind, entries[n].fields, Len(entries[n].parts)) <= end(n)
    BY <1>1, EndsOfEntries
  <2> QED BY <2>1, <2>2
<1>6. end(n) <= end(Len(entries))
  BY <1>1, EndsDoNotDecrease
<1>7. DirectoryEnd(kind, Len(entries)) \in Nat
  BY <1>1, DirectoryEndAligned
<1>8. RegionMisplaced(kind, table, record) =
        (\/ end(n - 1) < DirectoryEnd(kind, Len(entries))
         \/ end(n - 1) > end(Len(entries))
         \/ region > end(Len(entries)) - end(n - 1))
  <2> HIDE DEF table, end
  <2> QED BY <1>2, <1>4 DEF RegionMisplaced
<1> HIDE DEF table, end, region
<1>9. /\ end(n - 1) \in Nat /\ end(n - 1) % 8 = 0
      /\ end(n - 1) >= DirectoryEnd(kind, Len(entries))
      /\ end(n) \in Nat /\ end(Len(entries)) \in Nat
  BY <1>1, <1>3
<1>10. ~RegionMisplaced(kind, table, record)
  BY <1>5, <1>6, <1>7, <1>8, <1>9
<1> QED BY <1>4, <1>9, <1>10 DEF RegionInPlace, table
LEMMA TakenPasses ==
    ASSUME NEW kind \in Kinds, NEW S, NEW entries \in Seq(S),
           \A n \in 1 .. Len(entries) : IsTaken(kind, entries[n]),
           NEW n \in 1 .. Len(entries), ~UnknownToValidator(kind, entries[n])
    PROVE  EntryError(kind, Written(kind, entries), n) = "none"
<1> DEFINE table == Written(kind, entries)
           entry == entries[n]
           f == entry.fields
           k == Len(entry.parts)
<1>1. table.directory[n].fields = f
  BY DEF Written
<1>2. Decoded(kind, table, n) = entry
  BY DecodedIsWritten
<1>3. f \in [EntryFields[kind] -> Word] /\ Writable(kind, entry)
  BY DEF IsTaken, IsEntry
<1>4. kind \in RegionKinds =>
        /\ RegionInPlace(kind, table, n)
        /\ k \in Nat /\ k = PartCount(kind, f)
        /\ DOMAIN entry.parts = 1 .. k
        /\ \A i \in 1 .. k : entry.parts[i] \in [PartFields(kind, f, i) -> Word]
        /\ kind = "ShaderModule" => k = 1
  <2> SUFFICES ASSUME kind \in RegionKinds
               PROVE  /\ RegionInPlace(kind, table, n)
                      /\ k \in Nat /\ k = PartCount(kind, f)
                      /\ DOMAIN entry.parts = 1 .. k
                      /\ \A i \in 1 .. k : entry.parts[i] \in [PartFields(kind, f, i) -> Word]
                      /\ kind = "ShaderModule" => k = 1
    OBVIOUS
  <2>1. RegionInPlace(kind, table, n)
    BY WrittenInPlace
  <2>2. /\ k \in Nat /\ k = PartCount(kind, f) /\ DOMAIN entry.parts = 1 .. k
        /\ kind = "ShaderModule" => k = 1
    BY PartsOfTaken
  <2>3. \A i \in 1 .. k : entry.parts[i] \in [PartFields(kind, f, i) -> Word]
    BY <2>2 DEF IsTaken, IsEntry
  <2> QED BY <2>1, <2>2, <2>3
<1> HIDE DEF table, entry, f, k
<1>5. CASE kind = "Buffer"
  <2>1. BufferWritable(f)
    BY <1>3, <1>5 DEF Writable, f
  <2>2. BufferError(f) = "none"
    BY <1>3, <1>5, <2>1, BuffersAgree
  <2> QED BY <1>1, <1>5, <2>2 DEF EntryError, table
<1>6. CASE kind = "Image"
  <2>1. ImageWritable(f)
    BY <1>3, <1>6 DEF Writable, f
  <2>2. ImageError(f) = "none"
    BY <1>3, <1>6, <2>1, ImagesAgree
  <2> QED BY <1>1, <1>6, <2>2 DEF EntryError, table
<1>7. CASE kind = "ImageView"
  <2>1. ImageViewWritable(f)
    BY <1>3, <1>7 DEF Writable, f
  <2>2. ImageViewError(f) = "none"
    BY <1>3, <1>7, <2>1, ImageViewsAgree
  <2> QED BY <1>1, <1>7, <2>2 DEF EntryError, table
<1>8. CASE kind = "Pipeline"
  <2>1. PipelineWritable(f)
    BY <1>3, <1>8 DEF Writable, f
  <2>2. PipelineError(f) = "none"
    BY <1>3, <1>8, <2>1, PipelinesAgree
  <2> QED BY <1>1, <1>8, <2>2 DEF EntryError, table
<1>9. CASE kind = "GraphicsPipeline"
  <2>1. GraphicsPipelineWritable(f)
    BY <1>3, <1>9 DEF Writable, f
  <2>2. GraphicsPipelineError(f) = "none"
    BY <1>3, <1>9, <2>1, GraphicsPipelinesAgree
  <2> QED BY <1>1, <1>9, <2>2 DEF EntryError, table
<1>10. CASE kind = "ShaderModule"
  <2>1. ShaderModuleWritable(f, entry.parts)
    BY <1>3, <1>10 DEF Writable, f
  <2>2. RegionInPlace("ShaderModule", table, n) /\ k = 1 /\ k = PartCount(kind, f)
    BY <1>4, <1>10 DEF RegionKinds
  <2>3. f.byteSize \in Nat /\ f.byteSize >= 20 /\ f.byteSize % 4 = 0
    BY <1>3, <1>10, <2>1, FieldsOfRegions DEF ShaderModuleWritable, RegionKinds
  <2>4. EntryError("ShaderModule", table, n) = "none"
    <3>1. entry.parts[1].isSpirv = 1
      BY <2>1 DEF ShaderModuleWritable
    <3>2. Decoded("ShaderModule", table, n) = entry
      BY <1>2, <1>10
    <3> HIDE DEF table, entry, f, k
    <3> QED BY <1>1, <2>2, <2>3, <3>1, <3>2, ShaderModuleErrorNone
  <2> QED BY <1>10, <2>4 DEF table
<1>11. CASE kind = "RenderingTemplate"
  <2>1. RenderingTemplateWritable(f, entry.parts)
    BY <1>3, <1>11 DEF Writable, f
  <2>2. /\ RegionInPlace("RenderingTemplate", table, n)
        /\ k \in Nat /\ k = PartCount("RenderingTemplate", f)
        /\ DOMAIN entry.parts = 1 .. k
        /\ \A i \in 1 .. k : entry.parts[i] \in [PartFields("RenderingTemplate", f, i) -> Word]
    BY <1>4, <1>11 DEF RegionKinds
  <2>3. \A i \in 1 .. k : AttachmentError(entry.parts[i]) = "none"
    <3> TAKE i \in 1 .. k
    <3>1. /\ entry.parts[i].layout \in 0 .. 7 /\ entry.parts[i].loadOp \in 0 .. 2
          /\ entry.parts[i].storeOp \in 0 .. 1
      BY <2>1, <2>2 DEF RenderingTemplateWritable
    <3> QED BY <3>1, AttachmentsAgree
  <2>4. f.depthPresent \in 0 .. 1 /\ f.width # 0 /\ f.height # 0 /\ f.layerCount # 0
    BY <2>1 DEF RenderingTemplateWritable, Positive
  <2>5. k # 0
    <3>1. entry.parts # <<>>
      BY <2>1 DEF RenderingTemplateWritable
    <3>2. entry.parts \in Seq(Range(entry.parts))
      BY DEF IsTaken, IsEntry, entry
    <3> QED BY <3>1, <3>2 DEF k
  <2>6. EntryError("RenderingTemplate", table, n) = "none"
    BY <1>1, <1>2, <1>11, <2>2, <2>3, <2>4, <2>5, RenderingTemplateErrorNone
  <2> QED BY <1>11, <2>6 DEF table
<1>12. CASE kind = "BarrierBatch"
  <2>1. BarrierBatchWritable(f, entry.parts)
    BY <1>3, <1>12 DEF Writable, f
  <2>2. /\ RegionInPlace("BarrierBatch", table, n)
        /\ k \in Nat /\ k = PartCount("BarrierBatch", f)
        /\ DOMAIN entry.parts = 1 .. k
    BY <1>4, <1>12 DEF RegionKinds
  <2>3. \A i \in 1 .. k : IsImage(f, i) =>
            /\ ~(entry.parts[i].oldLayout > 7) /\ ~(entry.parts[i].newLayout > 7)
            /\ entry.parts[i].aspectMask \in 1 .. 7
    BY <1>12, <2>2 DEF UnknownToValidator, entry, f
  <2>4. \A i \in 1 .. k : BarrierError(f, i, entry.parts[i]) = "none"
    <3> TAKE i \in 1 .. k
    <3>1. /\ StagesGiven(entry.parts[i])
          /\ IsBuffer(f, i) => entry.parts[i].reservedFlags = 0
          /\ IsImage(f, i) =>
                entry.parts[i].mipCount # 0 /\ entry.parts[i].layerCount # 0
      BY <2>1, <2>2 DEF BarrierBatchWritable
    <3> QED BY <2>3, <3>1, BarriersAgree
  <2>5. f.reservedFlags = 0
    BY <2>1 DEF BarrierBatchWritable
  <2>6. EntryError("BarrierBatch", table, n) = "none"
    BY <1>1, <1>2, <1>12, <2>2, <2>4, <2>5, BarrierBatchErrorNone
  <2> QED BY <1>12, <2>6 DEF table
<1>13. kind \in {"Buffer", "Image", "ImageView", "Pipeline", "GraphicsPipeline",
                "ShaderModule", "RenderingTemplate", "BarrierBatch"}
  BY DEF Kinds, EntryByteSize
<1> QED
  BY <1>5, <1>6, <1>7, <1>8, <1>9, <1>10, <1>11, <1>12, <1>13

LEMMA WrittenPasses ==
    ASSUME NEW kind \in Kinds, NEW S, NEW entries \in Seq(S),
           \A n \in 1 .. Len(entries) : IsTaken(kind, entries[n]),
           \A n \in 1 .. Len(entries) : ~UnknownToValidator(kind, entries[n])
    PROVE  TableError(kind, Written(kind, entries)) = "none"
<1> DEFINE table == Written(kind, entries)
           errors == [n \in 1 .. table.count |-> EntryError(kind, table, n)]
<1>1. /\ table.reservedFlags = 0 /\ table.count = Len(entries)
      /\ table.byteSize = EntriesEnd(kind, entries, Len(entries))
  BY DEF Written
<1>2. ~DirectoryMisplaced(kind, table)
  <2>1. /\ Len(entries) \in Nat
        /\ EntriesEnd(kind, entries, Len(entries)) \in Nat
        /\ EntriesEnd(kind, entries, Len(entries)) >= DirectoryEnd(kind, Len(entries))
        /\ kind \notin RegionKinds =>
            EntriesEnd(kind, entries, Len(entries)) = DirectoryEnd(kind, Len(entries))
    BY EndsOfEntries
  <2>2. DirectoryEnd(kind, Len(entries)) \in Nat
    BY DirectoryEndAligned
  <2> HIDE DEF table
  <2> QED BY <1>1, <2>1, <2>2 DEF DirectoryMisplaced
<1>3. \A n \in DOMAIN errors : errors[n] = "none"
  BY <1>1, TakenPasses
<1>4. TableError(kind, table) = FirstError(errors)
  BY <1>1, <1>2 DEF TableError
<1> HIDE DEF errors
<1> QED BY <1>3, <1>4, FirstErrorPasses
-----------------------------------------------------------------------------
(* An accepted table could have been written, whatever happened to it.     *)

\* What is left of a table that was damaged in one place.  A count that is too
\* large is refused because the first region, or the end, is where it was.
Formed(kind, entries, table) ==
    /\ table.byteSize \in Nat /\ table.count \in Nat
    /\ \A n \in 1 .. Len(entries) :
        /\ table.directory[n].fields \in [EntryFields[kind] -> Word]
        /\ table.directory[n].byteOffset \in Nat
    /\ \A p \in table.placed : p.part \in [DOMAIN p.part -> Word]
    /\ \/ table.count <= Len(entries)
       \/ IF kind \in RegionKinds
          THEN /\ Len(entries) > 0
               /\ table.directory[1].byteOffset = DirectoryEnd(kind, Len(entries))
          ELSE table.byteSize = DirectoryEnd(kind, Len(entries))

LEMMA DecodedParts ==
    ASSUME NEW kind \in RegionKinds, NEW table, NEW n,
           table.directory[n].fields \in [EntryFields[kind] -> Word],
           \A p \in table.placed : p.part \in [DOMAIN p.part -> Word]
    PROVE  LET f == table.directory[n].fields
               parts == Decoded(kind, table, n).parts
           IN  /\ Decoded(kind, table, n).fields = f
               /\ PartCount(kind, f) \in Nat
               /\ DOMAIN parts = 1 .. PartCount(kind, f)
               /\ Len(parts) = PartCount(kind, f)
               /\ \A i \in 1 .. PartCount(kind, f) : parts[i] \in [PartFields(kind, f, i) -> Word]
<1> DEFINE f == table.directory[n].fields
           k == PartCount(kind, f)
           parts == Decoded(kind, table, n).parts
           at(i) == PartAt(table, PartFields(kind, f, i), PartOffset(kind, table.directory[n], i))
<1>1. Decoded(kind, table, n) = [fields |-> f, parts |-> [i \in 1 .. k |-> at(i)]]
  BY DEF Decoded
<1>2. k \in Nat
  BY FieldsOfRegions DEF PartCount, RegionKinds
<1>3. \A i \in 1 .. k : PartFields(kind, f, i) \subseteq PartFieldNames
  <2> TAKE i \in 1 .. k
  <2>1. CASE kind = "ShaderModule"
    BY <2>1 DEF PartFields, PartFieldNames
  <2>2. CASE kind = "RenderingTemplate"
    BY <2>2 DEF PartFields, PartFieldNames
  <2>3. CASE kind = "BarrierBatch"
    <3>1. /\ IsGlobal(f, i) <=> i <= f.globalCount
          /\ IsBuffer(f, i) <=> i > f.globalCount /\ i <= f.globalCount + f.bufferCount
          /\ IsImage(f, i) <=> i > f.globalCount + f.bufferCount
          /\ f.globalCount \in Nat /\ f.bufferCount \in Nat
      BY <1>2, <2>3, FieldsOfRegions, BarrierSizes
    <3>2. CASE i <= f.globalCount
      <4>1. IsGlobal(f, i) /\ ~IsBuffer(f, i) /\ ~IsImage(f, i)
        BY <1>2, <3>1, <3>2
      <4> QED BY <2>3, <4>1 DEF PartFields, PartFieldNames
    <3>3. CASE i > f.globalCount /\ i <= f.globalCount + f.bufferCount
      <4>1. ~IsGlobal(f, i) /\ IsBuffer(f, i) /\ ~IsImage(f, i)
        BY <1>2, <3>1, <3>3
      <4> QED BY <2>3, <4>1 DEF PartFields, PartFieldNames
    <3>4. CASE i > f.globalCount + f.bufferCount
      <4>1. ~IsGlobal(f, i) /\ ~IsBuffer(f, i) /\ IsImage(f, i)
        BY <1>2, <3>1, <3>4
      <4> QED BY <2>3, <4>1 DEF PartFields, PartFieldNames
    <3> QED BY <1>2, <3>1, <3>2, <3>3, <3>4
  <2> QED BY <2>1, <2>2, <2>3 DEF RegionKinds
<1>4. \A i \in 1 .. k : at(i) \in [PartFields(kind, f, i) -> Word]
  <2> TAKE i \in 1 .. k
  <2> DEFINE fields == PartFields(kind, f, i)
             offset == PartOffset(kind, table.directory[n], i)
             there == {p \in table.placed : p.byteOffset = offset /\ DOMAIN p.part = fields}
             found == CHOOSE p \in there : TRUE
  <2>1. at(i) = IF there = {} THEN [field \in fields |-> Stray[field]] ELSE found.part
    BY DEF PartAt
  <2>2. fields \subseteq PartFieldNames
    BY <1>3
  <2>3. \A p \in there : p.part \in [fields -> Word]
    BY DEF there
  <2> HIDE DEF fields, there, offset
  <2>4. CASE there = {}
    <3>1. at(i) = [field \in fields |-> Stray[field]]
      BY <2>1, <2>4
    <3>2. \A field \in fields : Stray[field] \in Word
      BY <2>2, StrayAssumption
    <3> HIDE DEF at
    <3>3. at(i) \in [fields -> Word]
      BY <3>1, <3>2
    <3> QED BY <3>3 DEF fields
  <2>5. CASE there # {}
    <3>1. found \in there
      BY <2>5
    <3> HIDE DEF found, at
    <3>2. at(i) \in [fields -> Word]
      BY <2>1, <2>3, <2>5, <3>1
    <3> QED BY <3>2 DEF fields
  <2> QED BY <2>4, <2>5
<1> HIDE DEF at
<1>5. parts = [i \in 1 .. k |-> at(i)] /\ Decoded(kind, table, n).fields = f
  BY <1>1
<1> HIDE DEF parts, k
<1>6. DOMAIN parts = 1 .. k /\ Len(parts) = k /\ \A i \in 1 .. k : parts[i] = at(i)
  <2>1. parts \in Seq({at(i) : i \in 1 .. k})
    BY <1>2, <1>5
  <2> QED BY <1>2, <1>5, <2>1
<1> QED BY <1>2, <1>4, <1>5, <1>6 DEF parts, k
LEMMA AcceptedRegionInPlace ==
    ASSUME NEW kind \in RegionKinds, NEW table, NEW n,
           table.directory[n].fields \in [EntryFields[kind] -> Word],
           EntryError(kind, table, n) = "none"
    PROVE  RegionInPlace(kind, table, n)
<1>1. PartCount(kind, table.directory[n].fields) \in Nat
  BY FieldsOfRegions DEF PartCount, RegionKinds
<1>2. CASE kind = "ShaderModule"
  BY <1>2, ShaderModuleErrorNone
<1>3. CASE kind = "RenderingTemplate"
  BY <1>1, <1>3, RenderingTemplateErrorNone
<1>4. CASE kind = "BarrierBatch"
  BY <1>1, <1>4, BarrierBatchErrorNone
<1> QED BY <1>2, <1>3, <1>4 DEF RegionKinds

LEMMA DirectoryEndGrows ==
    ASSUME NEW kind \in Kinds, NEW m \in Nat, NEW n \in Nat, m < n
    PROVE  DirectoryEnd(kind, m) < DirectoryEnd(kind, n)
<1>1. EntryByteSize[kind] \in {16, 24, 32, 40, 80}
  BY DEF Kinds, EntryByteSize
<1>2. CASE EntryByteSize[kind] = 16
  BY <1>2 DEF DirectoryEnd
<1>3. CASE EntryByteSize[kind] = 24
  BY <1>3 DEF DirectoryEnd
<1>4. CASE EntryByteSize[kind] = 32
  BY <1>4 DEF DirectoryEnd
<1>5. CASE EntryByteSize[kind] = 40
  BY <1>5 DEF DirectoryEnd
<1>6. CASE EntryByteSize[kind] = 80
  BY <1>6 DEF DirectoryEnd
<1> QED BY <1>1, <1>2, <1>3, <1>4, <1>5, <1>6

\* An accepted table has no more slots than were written, all of them accepted.
LEMMA AcceptedEntries ==
    ASSUME NEW kind \in Kinds, NEW S, NEW entries \in Seq(S), NEW table,
           Formed(kind, entries, table), TableError(kind, table) = "none"
    PROVE  /\ table.count <= Len(entries)
           /\ \A n \in 1 .. table.count : EntryError(kind, table, n) = "none"
<1> DEFINE errors == [n \in 1 .. table.count |-> EntryError(kind, table, n)]
           k == table.count
<1>1. Len(entries) \in Nat /\ k \in Nat /\ table.byteSize \in Nat
  BY DEF Formed
<1>2. /\ ~DirectoryMisplaced(kind, table)
      /\ FirstError(errors) = "none"
  BY DEF TableError
<1>3. \A n \in 1 .. k : EntryError(kind, table, n) = "none"
  <2>1. DOMAIN errors = 1 .. k /\ \A n \in 1 .. k : errors[n] = EntryError(kind, table, n)
    OBVIOUS
  <2> HIDE DEF errors, k
  <2> QED BY <1>1, <1>2, <2>1, FirstErrorFails
<1>4. ASSUME k > Len(entries) PROVE FALSE
  <2>1. /\ DirectoryEnd(kind, Len(entries)) < DirectoryEnd(kind, k)
        /\ DirectoryEnd(kind, Len(entries)) \in Nat /\ DirectoryEnd(kind, k) \in Nat
    <3> HIDE DEF k
    <3> QED BY <1>1, <1>4, DirectoryEndGrows, DirectoryEndAligned
  <2>2. CASE kind \notin RegionKinds
    <3>1. table.byteSize = DirectoryEnd(kind, Len(entries))
      BY <1>1, <1>4, <2>2 DEF Formed
    <3>2. table.byteSize = DirectoryEnd(kind, k)
      BY <1>2, <2>2 DEF DirectoryMisplaced
    <3> QED BY <2>1, <3>1, <3>2
  <2>3. CASE kind \in RegionKinds
    <3>1. Len(entries) > 0 /\ table.directory[1].byteOffset = DirectoryEnd(kind, Len(entries))
      BY <1>1, <1>4, <2>3 DEF Formed
    <3>2. table.directory[1].fields \in [EntryFields[kind] -> Word]
      BY <1>1, <3>1 DEF Formed
    <3>3. EntryError(kind, table, 1) = "none"
      BY <1>1, <1>3, <1>4, <3>1
    <3>4. ~RegionMisplaced(kind, table, table.directory[1])
      BY <2>3, <3>2, <3>3, AcceptedRegionInPlace DEF RegionInPlace
    <3>5. ~(table.directory[1].byteOffset < DirectoryEnd(kind, k))
      BY <3>4 DEF RegionMisplaced
    <3> QED BY <2>1, <3>1, <3>5
  <2> QED BY <2>2, <2>3
<1> QED BY <1>1, <1>3, <1>4

\* Why an accepted entry may not have been writable.
NotFromJava(kind, entry) ==
    \/ HasNegative(entry.fields)
    \/ \E i \in DOMAIN entry.parts : HasNegative(entry.parts[i])
    \/ kind = "Buffer" /\ entry.fields.importIdentifier # 0

LEMMA AcceptedEntryWritable ==
    ASSUME NEW kind \in Kinds, NEW table, NEW n,
           table.directory[n].fields \in [EntryFields[kind] -> Word],
           \A p \in table.placed : p.part \in [DOMAIN p.part -> Word],
           EntryError(kind, table, n) = "none",
           ~NotFromJava(kind, Decoded(kind, table, n))
    PROVE  Writable(kind, Decoded(kind, table, n))
<1> DEFINE entry == Decoded(kind, table, n)
           f == table.directory[n].fields
           parts == entry.parts
           k == PartCount(kind, f)
<1>1. entry.fields = f
  BY DEF Decoded
<1>2. f \in [EntryFields[kind] -> Word] /\ ~HasNegative(f)
  BY <1>1 DEF NotFromJava
<1>3. kind \in RegionKinds =>
        /\ k \in Nat /\ DOMAIN parts = 1 .. k /\ Len(parts) = k
        /\ \A i \in 1 .. k : parts[i] \in [PartFields(kind, f, i) -> Word]
        /\ \A i \in 1 .. k : ~HasNegative(parts[i])
  <2> SUFFICES ASSUME kind \in RegionKinds
               PROVE  /\ k \in Nat /\ DOMAIN parts = 1 .. k /\ Len(parts) = k
                      /\ \A i \in 1 .. k : parts[i] \in [PartFields(kind, f, i) -> Word]
                      /\ \A i \in 1 .. k : ~HasNegative(parts[i])
    OBVIOUS
  <2>1. /\ k \in Nat /\ DOMAIN parts = 1 .. k /\ Len(parts) = k
        /\ \A i \in 1 .. k : parts[i] \in [PartFields(kind, f, i) -> Word]
    BY DecodedParts
  <2> QED BY <2>1 DEF NotFromJava
<1>4. EntryError(kind, table, n) = "none"
  OBVIOUS
<1>5. CASE kind = "Buffer"
  <2>1. BufferError(f) = "none"
    BY <1>4, <1>5 DEF EntryError
  <2>2. f.importIdentifier = 0
    BY <1>1, <1>5 DEF NotFromJava
  <2>3. BufferWritable(f)
    BY <1>2, <1>5, <2>1, <2>2, BuffersAgree
  <2> QED BY <1>1, <1>5, <2>3 DEF Writable
<1>6. CASE kind = "Image"
  <2>1. ImageError(f) = "none"
    BY <1>4, <1>6 DEF EntryError
  <2>2. ImageWritable(f)
    BY <1>2, <1>6, <2>1, ImagesAgree
  <2> QED BY <1>1, <1>6, <2>2 DEF Writable
<1>7. CASE kind = "ImageView"
  <2>1. ImageViewError(f) = "none"
    BY <1>4, <1>7 DEF EntryError
  <2>2. ImageViewWritable(f)
    BY <1>2, <1>7, <2>1, ImageViewsAgree
  <2> QED BY <1>1, <1>7, <2>2 DEF Writable
<1>8. CASE kind = "Pipeline"
  <2>1. PipelineError(f) = "none"
    BY <1>4, <1>8 DEF EntryError
  <2>2. PipelineWritable(f)
    BY <1>2, <1>8, <2>1, PipelinesAgree
  <2> QED BY <1>1, <1>8, <2>2 DEF Writable
<1>9. CASE kind = "GraphicsPipeline"
  <2>1. GraphicsPipelineError(f) = "none"
    BY <1>4, <1>9 DEF EntryError
  <2>2. GraphicsPipelineWritable(f)
    BY <1>2, <1>9, <2>1, GraphicsPipelinesAgree
  <2> QED BY <1>1, <1>9, <2>2 DEF Writable
<1> HIDE DEF entry, f, k
<1>10. CASE kind = "ShaderModule"
  <2>1. ~(f.byteSize < 20) /\ f.byteSize % 4 = 0 /\ parts[1].isSpirv = 1
    BY <1>4, <1>10, ShaderModuleErrorNone DEF f, entry
  <2>2. f.byteSize \in Nat
    BY <1>2, <1>10, FieldsOfRegions DEF RegionKinds
  <2>3. ShaderModuleWritable(f, parts)
    BY <2>1, <2>2 DEF ShaderModuleWritable
  <2> QED BY <1>1, <1>10, <2>3 DEF Writable, entry
<1>11. CASE kind = "RenderingTemplate"
  <2>1. /\ k \in Nat /\ DOMAIN parts = 1 .. k /\ Len(parts) = k
        /\ k = f.colorCount + f.depthPresent
        /\ \A i \in 1 .. k : parts[i] \in [PartFields(kind, f, i) -> Word]
    BY <1>3, <1>11 DEF RegionKinds, PartCount, k
  <2>2. /\ ~(f.depthPresent > 1) /\ k # 0
        /\ f.width # 0 /\ f.height # 0 /\ f.layerCount # 0
        /\ \A i \in 1 .. k : AttachmentError(parts[i]) = "none"
    BY <1>4, <1>11, <2>1, RenderingTemplateErrorNone DEF f, k, entry
  <2>3. f.depthPresent \in 0 .. 1
    BY <1>2, <1>11, <2>2, FieldsOfRegions DEF RegionKinds
  <2>4. Positive(f.width) /\ Positive(f.height) /\ Positive(f.layerCount)
    <3>1. /\ f.width \in Word /\ f.height \in Word /\ f.layerCount \in Word
          /\ ~Negative(f.width) /\ ~Negative(f.height) /\ ~Negative(f.layerCount)
      BY <1>2, <1>11, FieldsInWord DEF EntryFields
    <3> QED BY <2>2, <3>1, PositiveIsBelow
  <2>5. \A i \in DOMAIN parts :
            /\ parts[i].layout \in 0 .. 7 /\ parts[i].loadOp \in 0 .. 2
            /\ parts[i].storeOp \in 0 .. 1
    <3> TAKE i \in DOMAIN parts
    <3>1. i \in 1 .. k /\ parts[i] \in [{"layout", "loadOp", "storeOp"} -> Word]
      BY <1>11, <2>1 DEF PartFields
    <3>2. parts[i].layout \in Nat /\ parts[i].loadOp \in Nat /\ parts[i].storeOp \in Nat
      BY <3>1, WordsAreNumbers
    <3> QED BY <2>2, <3>1, <3>2, AttachmentsAgree
  <2>6. parts # <<>>
    BY <2>1, <2>2
  <2>7. RenderingTemplateWritable(f, parts)
    BY <2>1, <2>3, <2>4, <2>5, <2>6 DEF RenderingTemplateWritable
  <2> QED BY <1>1, <1>11, <2>7 DEF Writable, entry
<1>12. CASE kind = "BarrierBatch"
  <2>1. /\ k \in Nat /\ DOMAIN parts = 1 .. k /\ Len(parts) = k
        /\ k = f.globalCount + f.bufferCount + f.imageCount
        /\ \A i \in 1 .. k : parts[i] \in [PartFields(kind, f, i) -> Word]
        /\ \A i \in 1 .. k : ~HasNegative(parts[i])
    BY <1>3, <1>12 DEF RegionKinds, PartCount, k
  <2>2. f.reservedFlags = 0 /\ \A i \in 1 .. k : BarrierError(f, i, parts[i]) = "none"
    BY <1>4, <1>12, <2>1, BarrierBatchErrorNone DEF f, k, entry
  <2>3. f.globalCount \in Nat /\ f.bufferCount \in Nat
    BY <1>2, <1>12, FieldsOfRegions DEF RegionKinds
  <2>4. \A i \in DOMAIN parts :
            /\ StagesGiven(parts[i])
            /\ IsBuffer(f, i) => parts[i].reservedFlags = 0 /\ ~Negative(parts[i].bufferSlot)
            /\ IsImage(f, i) =>
                /\ ~Negative(parts[i].imageSlot)
                /\ parts[i].mipCount # 0 /\ parts[i].layerCount # 0
    <3> TAKE i \in DOMAIN parts
    <3>1. i \in 1 .. k /\ i \in Nat
      BY <2>1
    <3>2. /\ StagesGiven(parts[i])
          /\ IsBuffer(f, i) => parts[i].reservedFlags = 0
          /\ IsImage(f, i) => parts[i].mipCount # 0 /\ parts[i].layerCount # 0
      BY <2>2, <3>1, BarriersAgree
    <3>3. /\ IsBuffer(f, i) => ~IsGlobal(f, i) /\ ~IsImage(f, i)
          /\ IsImage(f, i) => ~IsGlobal(f, i) /\ ~IsBuffer(f, i)
      BY <2>3, <3>1, BarrierSizes
    <3>4. ASSUME IsBuffer(f, i) PROVE ~Negative(parts[i].bufferSlot)
      <4>1. PartFields(kind, f, i) = BarrierFields \cup {"reservedFlags", "bufferSlot"}
        BY <1>12, <3>3, <3>4 DEF PartFields
      <4>2. "bufferSlot" \in DOMAIN parts[i]
        BY <2>1, <3>1, <4>1
      <4> QED BY <2>1, <3>1, <4>2 DEF HasNegative
    <3>5. ASSUME IsImage(f, i) PROVE ~Negative(parts[i].imageSlot)
      <4>1. "imageSlot" \in PartFields(kind, f, i)
        BY <1>12, <3>3, <3>5 DEF PartFields
      <4>2. "imageSlot" \in DOMAIN parts[i]
        BY <2>1, <3>1, <4>1
      <4> QED BY <2>1, <3>1, <4>2 DEF HasNegative
    <3> QED BY <3>2, <3>4, <3>5
  <2>5. BarrierBatchWritable(f, parts)
    BY <2>1, <2>2, <2>4 DEF BarrierBatchWritable
  <2> QED BY <1>1, <1>12, <2>5 DEF Writable, entry
<1>13. kind \in {"Buffer", "Image", "ImageView", "Pipeline", "GraphicsPipeline",
                "ShaderModule", "RenderingTemplate", "BarrierBatch"}
  BY DEF Kinds, EntryByteSize
<1> QED
  BY <1>5, <1>6, <1>7, <1>8, <1>9, <1>10, <1>11, <1>12, <1>13 DEF entry
\* What its writer emits is formed, and stays so with one field, part, offset or
\* count changed.
LEMMA WrittenIsFormed ==
    ASSUME NEW kind \in Kinds, NEW S, NEW entries \in Seq(S),
           \A n \in 1 .. Len(entries) : IsTaken(kind, entries[n])
    PROVE  /\ Formed(kind, entries, Written(kind, entries))
           /\ DOMAIN Written(kind, entries).directory = 1 .. Len(entries)
           /\ Written(kind, entries).placed # {} => kind \in RegionKinds
           /\ Len(entries) > 0 /\ kind \in RegionKinds =>
                Written(kind, entries).directory[1].byteOffset = DirectoryEnd(kind, Len(entries))
           /\ kind \notin RegionKinds =>
                Written(kind, entries).byteSize = DirectoryEnd(kind, Len(entries))
<1> DEFINE table == Written(kind, entries)
           end(n) == EntriesEnd(kind, entries, n)
<1>1. Len(entries) \in Nat /\ DOMAIN entries = 1 .. Len(entries)
  OBVIOUS
<1>2. /\ table.byteSize = end(Len(entries)) /\ table.count = Len(entries)
      /\ DOMAIN table.directory = 1 .. Len(entries)
      /\ \A n \in 1 .. Len(entries) :
            /\ table.directory[n].fields = entries[n].fields
            /\ table.directory[n].byteOffset = Cursor(kind, entries, n, 0)
  BY DEF Written
<1>3. \A n \in 0 .. Len(entries) : end(n) \in Nat
  BY EndsOfEntries
<1>4. \A n \in 1 .. Len(entries) : Cursor(kind, entries, n, 0) = end(n - 1)
  <2> TAKE n \in 1 .. Len(entries)
  <2>1. Cursor(kind, entries, n, 0) = end(n - 1) + 0
    BY PartsByteSizeSteps DEF Cursor
  <2>2. end(n - 1) \in Nat
    BY <1>1, <1>3
  <2> HIDE DEF end
  <2> QED BY <2>1, <2>2
<1>5. \A n \in 1 .. Len(entries) :
        /\ table.directory[n].fields \in [EntryFields[kind] -> Word]
        /\ table.directory[n].byteOffset \in Nat
  <2> TAKE n \in 1 .. Len(entries)
  <2>1. entries[n].fields \in [EntryFields[kind] -> Word]
    BY DEF IsTaken, IsEntry
  <2>2. end(n - 1) \in Nat
    BY <1>1, <1>3
  <2> HIDE DEF table, end
  <2> QED BY <1>2, <1>4, <2>1, <2>2
<1>6. \A p \in table.placed :
        kind \in RegionKinds /\ p.part \in [DOMAIN p.part -> Word]
  <2> TAKE p \in table.placed
  <2> DEFINE placedOf(n) == {[byteOffset |-> Cursor(kind, entries, n, i - 1),
                              part |-> entries[n].parts[i]] : i \in DOMAIN entries[n].parts}
  <2>1. p \in UNION {placedOf(n) : n \in DOMAIN entries}
    BY DEF Written
  <2>2. PICK n \in DOMAIN entries : p \in placedOf(n)
    BY <2>1
  <2>3. PICK i \in DOMAIN entries[n].parts :
            p = [byteOffset |-> Cursor(kind, entries, n, i - 1), part |-> entries[n].parts[i]]
    BY <2>2
  <2>4. IsEntry(kind, entries[n])
    BY <1>1 DEF IsTaken
  <2>5. kind \in RegionKinds
    BY <2>3, <2>4 DEF IsEntry
  <2>6. p.part \in [PartFields(kind, entries[n].fields, i) -> Word]
    BY <2>3, <2>4 DEF IsEntry
  <2> QED BY <2>5, <2>6
<1>7. Len(entries) > 0 =>
        table.directory[1].byteOffset = DirectoryEnd(kind, Len(entries))
  <2> HAVE Len(entries) > 0
  <2>1. end(0) = DirectoryEnd(kind, Len(entries))
    BY EntriesEndSteps
  <2> HIDE DEF table, end
  <2> QED BY <1>1, <1>2, <1>4, <2>1
<1>8. kind \notin RegionKinds => table.byteSize = DirectoryEnd(kind, Len(entries))
  BY <1>1, <1>2, EndsOfEntries
<1>9. table.byteSize \in Nat /\ table.count \in Nat /\ table.count <= Len(entries)
  BY <1>1, <1>2, <1>3
<1>10. Formed(kind, entries, table)
  BY <1>5, <1>6, <1>9 DEF Formed
<1> HIDE DEF table
<1>11. table.placed # {} => kind \in RegionKinds
  BY <1>6
<1> QED BY <1>2, <1>7, <1>8, <1>10, <1>11 DEF table

LEMMA DamagedIsFormed ==
    ASSUME NEW kind \in Kinds, NEW S, NEW entries \in Seq(S), entries # <<>>,
           \A n \in 1 .. Len(entries) : IsTaken(kind, entries[n]),
           NEW table, table = Written(kind, entries)
    PROVE  /\ Formed(kind, entries, [table EXCEPT !.reservedFlags = 1])
           /\ \A n \in Nat : Formed(kind, entries, [table EXCEPT !.count = n])
           /\ \A n \in 1 .. Len(entries) : \A field \in DOMAIN FieldValues[kind] :
                \A v \in FieldValues[kind][field] :
                    Formed(kind, entries, [table EXCEPT !.directory[n].fields[field] = v])
           /\ \A n \in 1 .. Len(entries) : \A v \in Nat :
                Formed(kind, entries, [table EXCEPT !.directory[n].byteOffset = v])
           /\ \A p \in table.placed : \A field \in DOMAIN PartValues[kind] \cap DOMAIN p.part :
                \A v \in PartValues[kind][field] :
                    Formed(kind, entries, [table EXCEPT !.placed =
                                            (@ \ {p}) \cup {[p EXCEPT !.part[field] = v]}])
<1>1. /\ Formed(kind, entries, table)
      /\ DOMAIN table.directory = 1 .. Len(entries)
      /\ table.placed # {} => kind \in RegionKinds
      /\ Len(entries) > 0 /\ kind \in RegionKinds =>
            table.directory[1].byteOffset = DirectoryEnd(kind, Len(entries))
      /\ kind \notin RegionKinds => table.byteSize = DirectoryEnd(kind, Len(entries))
  BY WrittenIsFormed
<1>2. table = [byteSize |-> table.byteSize, count |-> Len(entries),
               reservedFlags |-> table.reservedFlags, directory |-> table.directory,
               placed |-> table.placed]
  BY DEF Written
<1>3. Len(entries) \in Nat /\ Len(entries) > 0
  OBVIOUS
<1>4. \A n \in 1 .. Len(entries) :
        table.directory[n] = [fields |-> table.directory[n].fields,
                              byteOffset |-> table.directory[n].byteOffset]
  BY DEF Written
<1>5. \A p \in table.placed : p = [byteOffset |-> p.byteOffset, part |-> p.part]
  <2> TAKE p \in table.placed
  <2> DEFINE placedOf(n) == {[byteOffset |-> Cursor(kind, entries, n, i - 1),
                              part |-> entries[n].parts[i]] : i \in DOMAIN entries[n].parts}
  <2>1. p \in UNION {placedOf(n) : n \in DOMAIN entries}
    BY DEF Written
  <2>2. PICK n \in DOMAIN entries : p \in placedOf(n)
    BY <2>1
  <2> QED BY <2>2
<1>6. ASSUME NEW changed,
             changed.byteSize = table.byteSize, changed.count = table.count,
             \A n \in 1 .. Len(entries) :
                /\ changed.directory[n].fields \in [EntryFields[kind] -> Word]
                /\ changed.directory[n].byteOffset \in Nat,
             \A p \in changed.placed : p.part \in [DOMAIN p.part -> Word]
      PROVE  Formed(kind, entries, changed)
  <2>1. changed.count <= Len(entries) /\ changed.byteSize \in Nat /\ changed.count \in Nat
    BY <1>1, <1>2, <1>3, <1>6 DEF Formed
  <2> QED BY <1>6, <2>1 DEF Formed
<1>7. /\ \A n \in 1 .. Len(entries) :
            /\ table.directory[n].fields \in [EntryFields[kind] -> Word]
            /\ table.directory[n].byteOffset \in Nat
      /\ \A p \in table.placed : p.part \in [DOMAIN p.part -> Word]
      /\ table.byteSize \in Nat
  BY <1>1 DEF Formed
<1>8. Formed(kind, entries, [table EXCEPT !.reservedFlags = 1])
  <2> DEFINE changed == [table EXCEPT !.reservedFlags = 1]
  <2>1. /\ changed.byteSize = table.byteSize /\ changed.count = table.count
        /\ changed.directory = table.directory /\ changed.placed = table.placed
    BY <1>2
  <2> HIDE DEF changed
  <2>2. Formed(kind, entries, changed)
    BY <1>6, <1>7, <2>1
  <2> QED BY <2>2 DEF changed
<1>9. ASSUME NEW n \in Nat
      PROVE  Formed(kind, entries, [table EXCEPT !.count = n])
  <2> DEFINE changed == [table EXCEPT !.count = n]
  <2>1. /\ changed.byteSize = table.byteSize /\ changed.count = n
        /\ changed.directory = table.directory /\ changed.placed = table.placed
    BY <1>2
  <2> HIDE DEF changed
  <2>2. Formed(kind, entries, changed)
    BY <1>1, <1>3, <1>7, <2>1 DEF Formed
  <2> QED BY <2>2 DEF changed
<1>10. ASSUME NEW n \in 1 .. Len(entries), NEW field \in DOMAIN FieldValues[kind],
              NEW v \in FieldValues[kind][field]
       PROVE  Formed(kind, entries, [table EXCEPT !.directory[n].fields[field] = v])
  <2> DEFINE changed == [table EXCEPT !.directory[n].fields[field] = v]
             record == [table.directory[n] EXCEPT !.fields[field] = v]
  <2>1. v \in Word /\ field \in EntryFields[kind]
    BY DamageAssumption
  <2>2. /\ changed.byteSize = table.byteSize /\ changed.count = table.count
        /\ changed.directory = [table.directory EXCEPT ![n] = record]
        /\ changed.placed = table.placed
    BY <1>2
  <2>3. /\ record.fields = [table.directory[n].fields EXCEPT ![field] = v]
        /\ record.byteOffset = table.directory[n].byteOffset
    BY <1>4
  <2>4. record.fields \in [EntryFields[kind] -> Word]
    BY <1>7, <2>1, <2>3
  <2> HIDE DEF changed, record
  <2>5. \A m \in 1 .. Len(entries) :
            changed.directory[m] = IF m = n THEN record ELSE table.directory[m]
    BY <1>1, <2>2
  <2>6. Formed(kind, entries, changed)
    BY <1>6, <1>7, <2>2, <2>3, <2>4, <2>5
  <2> QED BY <2>6 DEF changed
<1>11. ASSUME NEW n \in 1 .. Len(entries), NEW v \in Nat
       PROVE  Formed(kind, entries, [table EXCEPT !.directory[n].byteOffset = v])
  <2> DEFINE changed == [table EXCEPT !.directory[n].byteOffset = v]
             record == [table.directory[n] EXCEPT !.byteOffset = v]
  <2>1. /\ changed.byteSize = table.byteSize /\ changed.count = table.count
        /\ changed.directory = [table.directory EXCEPT ![n] = record]
        /\ changed.placed = table.placed
    BY <1>2
  <2>2. record.fields = table.directory[n].fields /\ record.byteOffset = v
    BY <1>4
  <2> HIDE DEF changed, record
  <2>3. \A m \in 1 .. Len(entries) :
            changed.directory[m] = IF m = n THEN record ELSE table.directory[m]
    BY <1>1, <2>1
  <2>4. Formed(kind, entries, changed)
    BY <1>6, <1>7, <2>1, <2>2, <2>3
  <2> QED BY <2>4 DEF changed
<1>12. ASSUME NEW p \in table.placed, NEW field \in DOMAIN PartValues[kind] \cap DOMAIN p.part,
              NEW v \in PartValues[kind][field]
       PROVE  Formed(kind, entries, [table EXCEPT !.placed =
                                        (@ \ {p}) \cup {[p EXCEPT !.part[field] = v]}])
  <2> DEFINE other == [p EXCEPT !.part[field] = v]
             changed == [table EXCEPT !.placed = (@ \ {p}) \cup {other}]
  <2>1. v \in Word
    BY <1>1, DamageAssumption
  <2>2. /\ changed.byteSize = table.byteSize /\ changed.count = table.count
        /\ changed.directory = table.directory
        /\ changed.placed = (table.placed \ {p}) \cup {other}
    BY <1>2
  <2>3. other.part = [p.part EXCEPT ![field] = v]
    BY <1>5
  <2>4. other.part \in [DOMAIN other.part -> Word]
    <3>1. p.part \in [DOMAIN p.part -> Word]
      BY <1>7
    <3> HIDE DEF other
    <3> QED BY <2>1, <2>3, <3>1
  <2> HIDE DEF changed, other
  <2>5. Formed(kind, entries, changed)
    BY <1>6, <1>7, <2>2, <2>4
  <2> QED BY <2>5 DEF changed, other
<1> QED BY <1>8, <1>9, <1>10, <1>11, <1>12
=============================================================================
