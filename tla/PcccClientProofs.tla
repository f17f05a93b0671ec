--------------------------- MODULE PcccClientProofs ---------------------------
(***************************************************************************)
(* What the PCCC client returns is true of the PLC, for any number of      *)
(* goroutines, any data files, addresses, values and file directory.       *)
(***************************************************************************)
EXTENDS PcccClient, FoldTheorems, FiniteSetTheorems, SequenceTheorems, TLAPS

Fields == {"at", "kind", "ok", "addrs", "results", "jobs", "put", "dir"}

AddressFields == {"ok", "type", "file", "elem", "sub", "bit"}

PutFields == {"addr", "value", "len", "word", "seen", "before", "done"}

DirFields == {"layout", "size", "asked", "data", "cut"}

-----------------------------------------------------------------------------
(* Addresses *)

\* Every name of a sub-element stands for a word and a bit, or no bit.
LEMMA NamedBits == \A type : \A n \in SubNames(type) : n[2] \in Nat /\ n[3] \in Int
<1> SUFFICES ASSUME NEW type, NEW n \in SubNames(type)
             PROVE  n[2] \in Nat /\ n[3] \in Int
  OBVIOUS
<1>1. CASE type = "T"
  BY <1>1 DEF SubNames
<1>2. CASE type = "C"
  BY <1>2 DEF SubNames
<1>3. CASE type = "R"
  BY <1>3 DEF SubNames
<1>4. CASE type \notin {"T", "C", "R"}
  BY <1>4 DEF SubNames
<1> QED
  BY <1>1, <1>2, <1>3, <1>4

\* What ParseAddress gives.
Address(a) == /\ DOMAIN a = AddressFields
              /\ a.ok => a.elem \in Nat /\ a.sub \in Nat /\ a.bit \in Int

\* Whatever an address is spelled like, ParseAddress refuses it or gives numbers.
LEMMA ParsedAddress ==
  ASSUME NEW a
  PROVE  Address(ParseAddress(a))
<1> DEFINE file == IF a.file = None \/ a.file < 0 THEN DefaultFile(a.type) ELSE a.file % 65536
           here == [ok |-> TRUE, type |-> a.type, file |-> file, elem |-> a.elem, sub |-> 0, bit |-> -1]
           Named(x) == x[1] = a.arg
           m == CHOOSE x \in SubNames(a.type) : Named(x)
           named == [here EXCEPT !.sub = m[2], !.bit = m[3]]
<1>1. UInt16 \subseteq Nat
  BY DEF UInt16
<1>2. Address(BadAddress)
  BY DEF BadAddress, Address, AddressFields
<1>3. CASE file = None \/ a.elem \notin UInt16
  BY <1>2, <1>3 DEF ParseAddress
<1>4. CASE file # None /\ a.elem \in UInt16
  <2> HIDE DEF file
  <2>1. 0 \in Nat /\ -1 \in Int
    OBVIOUS
  <2>2. Address(here)
    BY <1>1, <1>4, <2>1, Zenon DEF Address, AddressFields
  <2>3. a.arg \in 0..15 => Address([here EXCEPT !.bit = a.arg])
    BY <1>1, <1>4 DEF Address, AddressFields
  <2>4. a.arg \in UInt16 => Address([here EXCEPT !.sub = a.arg])
    BY <1>1, <1>4 DEF Address, AddressFields
  <2>5. (\E x \in SubNames(a.type) : Named(x)) => Address(named)
    <3>1. (\E x \in SubNames(a.type) : Named(x)) => m[2] \in Nat /\ m[3] \in Int
      BY NamedBits
    <3> HIDE DEF m
    <3> QED
      BY <1>1, <1>4, <3>1 DEF Address, AddressFields
  <2>6. ParseAddress(a) =
          CASE a.mod = "none" -> here
            [] a.mod = "bit" -> IF a.arg \in 0..15 THEN [here EXCEPT !.bit = a.arg] ELSE BadAddress
            [] a.mod = "sub" -> IF a.arg \in UInt16 THEN [here EXCEPT !.sub = a.arg] ELSE BadAddress
            [] OTHER -> IF \E x \in SubNames(a.type) : Named(x) THEN named ELSE BadAddress
    BY <1>4 DEF ParseAddress, file
  <2> HIDE DEF here, named, Named
  <2> QED
    BY <1>2, <2>2, <2>3, <2>4, <2>5, <2>6
<1> QED
  BY <1>3, <1>4

-----------------------------------------------------------------------------
(* The bulk requests *)

\* Requests for consecutive elements, among some.
RunsOf(addrs, mine) ==
  {run \in Seq(mine) :
     run # <<>> /\ \A j \in 1..Len(run) : addrs[run[j]].elem = addrs[run[1]].elem + (j - 1)}

\* What one bulk request may ask for: whole consecutive elements of one file.
Chunks(addrs) ==
  {chunk \in RunsOf(addrs, DOMAIN addrs) :
     \A j \in 1..Len(chunk) :
       LET a == addrs[chunk[j]]
           first == addrs[chunk[1]]
       IN  Bulkable(a) /\ a.type = first.type /\ a.file = first.file}

\* Any requests that are positions of parsed addresses.
Requests(addrs) == /\ Len(addrs) \in Nat /\ DOMAIN addrs = 1..Len(addrs)
                   /\ \A i \in DOMAIN addrs : Address(addrs[i])

\* One request more.
Grown(addrs, runs, i) ==
  IF runs # <<>> /\ Follows(addrs[Last(Last(runs))].elem, addrs[i].elem)
  THEN Append(Front(runs), Append(Last(runs), i)) ELSE Append(runs, <<i>>)

\* A request joins the last run if it follows it, and begins one of its own otherwise.
LEMMA GrownType ==
  ASSUME NEW addrs, NEW mine, \A i \in mine : addrs[i].elem \in Nat,
         NEW runs \in Seq(RunsOf(addrs, mine)), NEW i \in mine
  PROVE  Grown(addrs, runs, i) \in Seq(RunsOf(addrs, mine))
<1> DEFINE R == RunsOf(addrs, mine)
           last == Last(runs)
<1>1. <<i>> \in R
  <2>1. <<i>> \in Seq(mine) /\ <<i>> # <<>> /\ Len(<<i>>) = 1 /\ <<i>>[1] = i
    OBVIOUS
  <2> QED
    BY <2>1 DEF RunsOf
<1>2. CASE ~(runs # <<>> /\ Follows(addrs[Last(Last(runs))].elem, addrs[i].elem))
  <2> HIDE DEF R
  <2>1. Append(runs, <<i>>) \in Seq(R)
    BY <1>1 DEF R
  <2> QED
    BY <1>2, <2>1 DEF Grown, R
<1>3. CASE runs # <<>> /\ Follows(addrs[Last(Last(runs))].elem, addrs[i].elem)
  <2>1. last \in R /\ Front(runs) \in Seq(R)
    <3> HIDE DEF R
    <3>1. runs \in Seq(R) /\ runs # <<>>
      BY <1>3 DEF R
    <3> QED
      BY <3>1 DEF Last, Front
  <2> HIDE DEF last
  <2>2. last \in Seq(mine) /\ last # <<>> /\ Len(last) \in Nat /\ Len(last) >= 1
    BY <2>1 DEF RunsOf
  <2> DEFINE run == Append(last, i)
  <2>3. /\ run \in Seq(mine) /\ run # <<>> /\ Len(run) = Len(last) + 1 /\ run[Len(last) + 1] = i
        /\ \A j \in 1..Len(last) : run[j] = last[j]
    BY <2>2
  <2>4. addrs[i].elem = addrs[last[Len(last)]].elem + 1
    BY <1>3 DEF Follows, last, Last
  <2>5. \A j \in 1..Len(last) : last[j] \in mine /\ addrs[last[j]].elem = addrs[last[1]].elem + (j - 1)
    BY <2>1, <2>2 DEF RunsOf
  <2> HIDE DEF run
  <2>6. addrs[last[1]].elem \in Nat /\ 1 \in 1..Len(last) /\ Len(last) \in 1..Len(last)
    BY <2>2, <2>5
  <2>7. ASSUME NEW j \in 1..Len(run)
        PROVE  addrs[run[j]].elem = addrs[run[1]].elem + (j - 1)
    <3>1. run[1] = last[1]
      BY <2>3, <2>6
    <3>2. CASE j = Len(last) + 1
      <4>1. addrs[run[j]].elem = addrs[last[1]].elem + (Len(last) - 1) + 1
        BY <2>3, <2>4, <2>5, <2>6, <3>2
      <4>2. \A e, l \in Nat : e + (l - 1) + 1 = e + ((l + 1) - 1)
        OBVIOUS
      <4>3. addrs[run[j]].elem = addrs[last[1]].elem + ((Len(last) + 1) - 1)
        BY <2>2, <2>6, <4>1, <4>2, Zenon
      <4> QED
        BY <3>1, <3>2, <4>3, Zenon
    <3>3. CASE j \in 1..Len(last)
      BY <2>3, <2>5, <3>1, <3>3
    <3> QED
      BY <2>2, <2>3, <3>2, <3>3
  <2>8. run \in R
    BY <2>3, <2>7 DEF RunsOf
  <2> HIDE DEF R
  <2>9. Append(Front(runs), run) \in Seq(R)
    BY <2>1, <2>8
  <2> QED
    BY <1>3, <2>9 DEF Grown, last, run, R
<1> QED
  BY <1>2, <1>3

\* pcccContiguousRuns gives runs of consecutive elements.
LEMMA RunsType ==
  ASSUME NEW addrs, NEW mine, \A i \in mine : addrs[i].elem \in Nat, NEW sorted \in Seq(mine)
  PROVE  Runs(addrs, sorted) \in Seq(RunsOf(addrs, mine))
<1> DEFINE R == Seq(RunsOf(addrs, mine))
           n == Len(sorted)
           Made(f) == f = [s \in SUBSET (1..n) |->
                             IF s = {} THEN <<>> ELSE Grown(addrs, f[s \ {Max(s)}], sorted[Max(s)])]
           F == CHOOSE f : Made(f)
<1>1. n \in Nat /\ DOMAIN sorted = 1..n /\ \A k \in 1..n : sorted[k] \in mine
  OBVIOUS
<1>2. Runs(addrs, sorted) = F[1..n]
  <2>1. Runs(addrs, sorted) = FoldLeft(LAMBDA runs, i : Grown(addrs, runs, i), <<>>, sorted)
    BY DEF Runs, Grown
  <2> QED
    BY <1>1, <2>1 DEF FoldLeft, MapThenFoldSet
<1>3. <<>> \in R
  OBVIOUS
<1>4. \A runs \in R, i \in mine : Grown(addrs, runs, i) \in R
  BY GrownType
<1> HIDE DEF R, n
<1>5. Made(F)
  <2> DEFINE g == [x \in R \X (1..n) |-> Grown(addrs, x[1], sorted[x[2]])]
  <2>1. g \in [R \X (1..n) -> R]
    BY <1>1, <1>4
  <2>2. \A runs \in R, k \in 1..n : g[<<runs, k>>] = Grown(addrs, runs, sorted[k])
    OBVIOUS
  <2> HIDE DEF g
  <2>3. PICK f \in [SUBSET (1..n) -> R] : Folds(f, n, <<>>, g)
    BY <1>1, <1>3, <2>1, FoldExists
  <2>4. \A s \in SUBSET (1..n) : s # {} => /\ Max(s) \in 1..n /\ s \ {Max(s)} \in SUBSET (1..n)
    BY <1>1, MaxOf
  <2>5. \A s \in SUBSET (1..n) : s # {} =>
          g[<<f[s \ {Max(s)}], Max(s)>>] = Grown(addrs, f[s \ {Max(s)}], sorted[Max(s)])
    BY <2>2, <2>4
  <2>6. Made(f)
    BY <2>3, <2>5 DEF Folds
  <2> HIDE DEF Made
  <2> QED
    BY <2>6
<1> HIDE DEF F
<1> DEFINE S == {k \in 0..n : F[1..k] \in R}
<1>6. 0 \in S
  <2>1. F[1..0] = <<>>
    BY <1>5, NoPrefix, <1>1
  <2> QED
    BY <1>1, <1>3, <2>1
<1>7. ASSUME NEW k \in 1..n, k - 1 \in S
      PROVE  k \in S
  <2>1. 1..k \in SUBSET (1..n) /\ 1..k # {} /\ Max(1..k) = k
    BY <1>1, PrefixMax
  <2>2. (1..k) \ {Max(1..k)} = 1..(k - 1)
    BY <1>1, PrefixLess
  <2>3. F[1..k] = Grown(addrs, F[(1..k) \ {Max(1..k)}], sorted[Max(1..k)])
    BY <1>5, <2>1
  <2>4. F[1..k] = Grown(addrs, F[1..(k - 1)], sorted[k])
    BY <2>1, <2>2, <2>3
  <2> QED
    BY <1>1, <1>4, <1>7, <2>4
<1>8. n \in S
  <2> HIDE DEF S
  <2>1. \A k \in 1..n : k - 1 \in S => k \in S
    BY <1>7
  <2>2. \A k \in 0..n : k \in S
    BY <1>1, <1>6, <2>1, PrefixInduction
  <2> QED
    BY <1>1, <2>2
<1> QED
  BY <1>2, <1>8 DEF R

\* A run cut into the requests it takes.
LEMMA CutType ==
  ASSUME NEW addrs, NEW mine \in SUBSET (DOMAIN addrs), NEW run \in RunsOf(addrs, mine),
         \A i \in mine : /\ Bulkable(addrs[i]) /\ addrs[i].elem \in Nat
                         /\ \A j \in mine : addrs[i].type = addrs[j].type /\ addrs[i].file = addrs[j].file
  PROVE  Cut(addrs, run) \in Seq(Chunks(addrs))
<1> DEFINE size == ElementSize(addrs[run[1]].type)
           most == BulkBytes \div size
           l == Len(run)
           n == (l + most - 2) \div most
           End_(k) == IF k * most < l THEN k * most ELSE l
           From(k) == (k - 1) * most + 1
           chunk(k) == SubSeq(run, From(k), End_(k))
<1>1. size \in {2, 4, 6, 46, 50, 84}
  BY DEF ElementSize, Complex
<1>2. most \in Nat /\ most >= 2
  <2> HIDE DEF size
  <2>1. BulkBytes \in Nat /\ BulkBytes >= 168
    BY RoomAssumption
  <2> QED
    BY <1>1, <2>1
<1>3. l \in Nat /\ l >= 1 /\ run \in Seq(mine)
  BY DEF RunsOf
<1> HIDE DEF most, l
<1>4. n \in Nat /\ n * most <= l + most - 2
  BY <1>2, <1>3
<1> HIDE DEF n
<1>5. ASSUME NEW k \in 1..n
      PROVE  chunk(k) \in Chunks(addrs)
  <2> DEFINE b == (k - 1) * most
  <2>1. b \in Nat /\ k * most = b + most
    BY <1>2
  <2>2. k * most <= n * most
    BY <1>2, <1>4, Times
  <2>3. n * most \in Nat
    BY <1>2, <1>4
  <2> HIDE DEF b
  <2>4. b <= l - 2
    BY <1>2, <1>3, <1>4, <2>1, <2>2, <2>3
  <2>5. From(k) = b + 1 /\ End_(k) \in Nat /\ End_(k) > b /\ End_(k) <= l
    BY <1>2, <1>3, <2>1, <2>4 DEF b
  <2> DEFINE m == End_(k) - b
  <2> HIDE DEF End_, From
  <2>6. m \in Nat /\ m >= 1
    BY <2>1, <2>5
  <2>7. /\ chunk(k) \in Seq(mine) /\ Len(chunk(k)) = m
        /\ \A j \in 1..m : chunk(k)[j] = run[b + j]
    <3>1. From(k) \in 1..(l + 1) /\ End_(k) \in 0..l
      BY <1>3, <2>1, <2>5
    <3> QED
      BY <1>3, <2>1, <2>5, <2>6, <3>1, SubSeqProperties DEF l
  <2> HIDE DEF chunk, m
  <2>8. \A j \in 1..m : b + j \in 1..l
    BY <1>3, <2>1, <2>5 DEF m
  <2>9. \A j \in 1..l : run[j] \in mine /\ addrs[run[j]].elem = addrs[run[1]].elem + (j - 1)
    BY <1>3 DEF RunsOf, l
  <2>10. 1 \in 1..m /\ 1 \in 1..l /\ addrs[run[1]].elem \in Nat
    BY <1>3, <2>6, <2>9
  <2>11. ASSUME NEW j \in 1..m
         PROVE  addrs[chunk(k)[j]].elem = addrs[chunk(k)[1]].elem + (j - 1)
    <3>1. /\ addrs[chunk(k)[j]].elem = addrs[run[1]].elem + ((b + j) - 1)
          /\ addrs[chunk(k)[1]].elem = addrs[run[1]].elem + ((b + 1) - 1)
      BY <2>7, <2>8, <2>9, <2>10
    <3>2. \A e \in Nat : e + ((b + j) - 1) = (e + ((b + 1) - 1)) + (j - 1)
      BY <2>1, <2>6
    <3> QED
      BY <2>10, <3>1, <3>2, Zenon
  <2>12. chunk(k) \in RunsOf(addrs, DOMAIN addrs)
    <3>1. chunk(k) \in Seq(DOMAIN addrs) /\ chunk(k) # <<>>
      BY <2>6, <2>7
    <3> QED
      BY <2>7, <2>11, <3>1 DEF RunsOf
  <2>13. \A j \in 1..m : chunk(k)[j] \in mine
    BY <2>7
  <2> QED
    BY <2>7, <2>10, <2>12, <2>13 DEF Chunks
<1>6. Cut(addrs, run) = [k \in 1..n |-> chunk(k)]
  BY DEF Cut, n, l, most
<1> HIDE DEF chunk
<1> QED
  BY <1>4, <1>5, <1>6

\* The requests of the runs of a file, one run after another.
AllOf(addrs, jobs, run) == jobs \o Cut(addrs, run)

JobsOf(addrs, runs) == FoldLeft(LAMBDA jobs, run : jobs \o Cut(addrs, run), <<>>, runs)

\* All runs of a file, cut into requests, are requests for consecutive elements.
LEMMA JobsType ==
  ASSUME NEW addrs, NEW runs, Len(runs) \in Nat, DOMAIN runs = 1..Len(runs),
         \A k \in 1..Len(runs) : Cut(addrs, runs[k]) \in Seq(Chunks(addrs))
  PROVE  JobsOf(addrs, runs) \in Seq(Chunks(addrs))
<1> DEFINE R == Seq(Chunks(addrs))
           n == Len(runs)
           Made(f) == f = [s \in SUBSET (1..n) |->
                             IF s = {} THEN <<>> ELSE AllOf(addrs, f[s \ {Max(s)}], runs[Max(s)])]
           F == CHOOSE f : Made(f)
<1>1. n \in Nat /\ DOMAIN runs = 1..n /\ \A k \in 1..n : Cut(addrs, runs[k]) \in R
  OBVIOUS
<1>2. JobsOf(addrs, runs) = F[1..n]
  BY <1>1 DEF JobsOf, AllOf, FoldLeft, MapThenFoldSet
<1>3. <<>> \in R
  OBVIOUS
<1>4. \A jobs \in R, k \in 1..n : AllOf(addrs, jobs, runs[k]) \in R
  BY <1>1 DEF AllOf
<1> HIDE DEF R, n
<1>5. Made(F)
  <2> DEFINE g == [x \in R \X (1..n) |-> AllOf(addrs, x[1], runs[x[2]])]
  <2>1. g \in [R \X (1..n) -> R]
    BY <1>4
  <2>2. \A jobs \in R, k \in 1..n : g[<<jobs, k>>] = AllOf(addrs, jobs, runs[k])
    OBVIOUS
  <2> HIDE DEF g
  <2>3. PICK f \in [SUBSET (1..n) -> R] : Folds(f, n, <<>>, g)
    BY <1>1, <1>3, <2>1, FoldExists
  <2>4. \A s \in SUBSET (1..n) : s # {} => /\ Max(s) \in 1..n /\ s \ {Max(s)} \in SUBSET (1..n)
    BY <1>1, MaxOf
  <2>5. \A s \in SUBSET (1..n) : s # {} =>
          g[<<f[s \ {Max(s)}], Max(s)>>] = AllOf(addrs, f[s \ {Max(s)}], runs[Max(s)])
    BY <2>2, <2>4
  <2>6. Made(f)
    BY <2>3, <2>5 DEF Folds
  <2> HIDE DEF Made
  <2> QED
    BY <2>6
<1> HIDE DEF F
<1> DEFINE S == {k \in 0..n : F[1..k] \in R}
<1>6. 0 \in S
  <2>1. F[1..0] = <<>>
    BY <1>1, <1>5, NoPrefix
  <2> QED
    BY <1>1, <1>3, <2>1
<1>7. ASSUME NEW k \in 1..n, k - 1 \in S
      PROVE  k \in S
  <2>1. 1..k \in SUBSET (1..n) /\ 1..k # {} /\ Max(1..k) = k
    BY <1>1, PrefixMax
  <2>2. (1..k) \ {Max(1..k)} = 1..(k - 1)
    BY <1>1, PrefixLess
  <2>3. F[1..k] = AllOf(addrs, F[(1..k) \ {Max(1..k)}], runs[Max(1..k)])
    BY <1>5, <2>1
  <2>4. F[1..k] = AllOf(addrs, F[1..(k - 1)], runs[k])
    BY <2>1, <2>2, <2>3
  <2> QED
    BY <1>4, <1>7, <2>4
<1>8. n \in S
  <2> HIDE DEF S
  <2>1. \A k \in 1..n : k - 1 \in S => k \in S
    BY <1>7
  <2>2. \A k \in 0..n : k \in S
    BY <1>1, <1>6, <2>1, PrefixInduction
  <2> QED
    BY <1>1, <2>2
<1> QED
  BY <1>2, <1>8 DEF R

\* The orders of a set of positions, or of the files they name, are sequences.
LEMMA OrdersType ==
  ASSUME NEW S, IsFiniteSet(S), NEW s \in SetToSeqs(S)
  PROVE  s \in Seq(S)
<1>1. Cardinality(S) \in Nat
  BY FS_CardinalityType
<1> QED
  BY <1>1 DEF SetToSeqs

\* The bulk requests of a file ask for whole consecutive elements of that file.
LEMMA FileJobsType ==
  ASSUME NEW addrs, Requests(addrs), NEW file
  PROVE  FileJobs(addrs, file) \subseteq Seq(Chunks(addrs))
<1> DEFINE mine == {i \in DOMAIN addrs : Bulkable(addrs[i]) /\ <<addrs[i].type, addrs[i].file>> = file}
           sorted == {s \in SetToSeqs(mine) : \A j \in 1..(Len(s) - 1) : addrs[s[j]].elem <= addrs[s[j + 1]].elem}
<1>1. IsFiniteSet(mine) /\ mine \in SUBSET (DOMAIN addrs)
  <2>1. IsFiniteSet(DOMAIN addrs)
    BY FS_Interval DEF Requests
  <2>2. mine \in SUBSET (DOMAIN addrs)
    OBVIOUS
  <2> HIDE DEF mine
  <2> QED
    BY <2>1, <2>2, FS_Subset
<1>2. \A i \in mine : /\ Bulkable(addrs[i]) /\ addrs[i].elem \in Nat
                      /\ \A j \in mine : addrs[i].type = addrs[j].type /\ addrs[i].file = addrs[j].file
  BY DEF Requests, Address, Bulkable
<1>3. FileJobs(addrs, file) = {JobsOf(addrs, Runs(addrs, s)) : s \in sorted}
  BY DEF FileJobs, JobsOf
<1> HIDE DEF mine
<1>4. ASSUME NEW s \in sorted
      PROVE  JobsOf(addrs, Runs(addrs, s)) \in Seq(Chunks(addrs))
  <2>1. s \in Seq(mine)
    BY <1>1, OrdersType
  <2>2. Runs(addrs, s) \in Seq(RunsOf(addrs, mine))
    BY <1>2, <2>1, RunsType
  <2> DEFINE runs == Runs(addrs, s)
  <2> HIDE DEF runs
  <2>3. Len(runs) \in Nat /\ DOMAIN runs = 1..Len(runs) /\ \A k \in 1..Len(runs) : runs[k] \in RunsOf(addrs, mine)
    BY <2>2 DEF runs
  <2>4. \A k \in 1..Len(runs) : Cut(addrs, runs[k]) \in Seq(Chunks(addrs))
    BY <1>1, <1>2, <2>3, CutType
  <2> QED
    BY <2>3, <2>4, JobsType DEF runs
<1> HIDE DEF sorted
<1> QED
  BY <1>3, <1>4

\* The plans for one file more.
Planned(addrs, plans, file) == {plan \o jobs : plan \in plans, jobs \in FileJobs(addrs, file)}

NoPlan == {<<>>}

\* The bulk requests of one file after those of others.
LEMMA PlannedType ==
  ASSUME NEW addrs, Requests(addrs), NEW plans \in SUBSET Seq(Chunks(addrs)), NEW file
  PROVE  Planned(addrs, plans, file) \in SUBSET Seq(Chunks(addrs))
<1>1. ASSUME NEW x \in Planned(addrs, plans, file)
      PROVE  x \in Seq(Chunks(addrs))
  <2>1. PICK plan \in plans, jobs \in FileJobs(addrs, file) : x = plan \o jobs
    BY DEF Planned
  <2>2. plan \in Seq(Chunks(addrs)) /\ jobs \in Seq(Chunks(addrs))
    BY FileJobsType
  <2> QED
    BY <2>1, <2>2
<1> QED
  BY <1>1

\* In whatever order the files come, each bulk request is for one file.
LEMMA InOrderType ==
  ASSUME NEW addrs, Requests(addrs), NEW order, Len(order) \in Nat, DOMAIN order = 1..Len(order)
  PROVE  InOrder(addrs, order) \in SUBSET Seq(Chunks(addrs))
<1> DEFINE R == SUBSET Seq(Chunks(addrs))
           n == Len(order)
           Made(f) == f = [s \in SUBSET (1..n) |->
                             IF s = {} THEN NoPlan ELSE Planned(addrs, f[s \ {Max(s)}], order[Max(s)])]
           F == CHOOSE f : Made(f)
<1>1. n \in Nat /\ DOMAIN order = 1..n
  OBVIOUS
<1>2. InOrder(addrs, order) = F[1..n]
  BY <1>1 DEF InOrder, Planned, NoPlan, FoldLeft, MapThenFoldSet
<1>3. NoPlan \in R
  BY DEF NoPlan
<1>4. \A plans \in R, k \in 1..n : Planned(addrs, plans, order[k]) \in R
  BY PlannedType
<1> HIDE DEF R, n
<1>5. Made(F)
  <2> DEFINE g == [x \in R \X (1..n) |-> Planned(addrs, x[1], order[x[2]])]
  <2>1. g \in [R \X (1..n) -> R]
    BY <1>4
  <2>2. \A plans \in R, k \in 1..n : g[<<plans, k>>] = Planned(addrs, plans, order[k])
    OBVIOUS
  <2> HIDE DEF g
  <2>3. PICK f \in [SUBSET (1..n) -> R] : Folds(f, n, NoPlan, g)
    BY <1>1, <1>3, <2>1, FoldExists
  <2>4. \A s \in SUBSET (1..n) : s # {} => /\ Max(s) \in 1..n /\ s \ {Max(s)} \in SUBSET (1..n)
    BY <1>1, MaxOf
  <2>5. \A s \in SUBSET (1..n) : s # {} =>
          g[<<f[s \ {Max(s)}], Max(s)>>] = Planned(addrs, f[s \ {Max(s)}], order[Max(s)])
    BY <2>2, <2>4
  <2>6. Made(f)
    BY <2>3, <2>5 DEF Folds
  <2> HIDE DEF Made
  <2> QED
    BY <2>6
<1> HIDE DEF F
<1> DEFINE S == {k \in 0..n : F[1..k] \in R}
<1>6. 0 \in S
  <2>1. F[1..0] = NoPlan
    BY <1>1, <1>5, NoPrefix
  <2> QED
    BY <1>1, <1>3, <2>1
<1>7. ASSUME NEW k \in 1..n, k - 1 \in S
      PROVE  k \in S
  <2>1. 1..k \in SUBSET (1..n) /\ 1..k # {} /\ Max(1..k) = k
    BY <1>1, PrefixMax
  <2>2. (1..k) \ {Max(1..k)} = 1..(k - 1)
    BY <1>1, PrefixLess
  <2>3. F[1..k] = Planned(addrs, F[(1..k) \ {Max(1..k)}], order[Max(1..k)])
    BY <1>5, <2>1
  <2>4. F[1..k] = Planned(addrs, F[1..(k - 1)], order[k])
    BY <2>1, <2>2, <2>3
  <2> QED
    BY <1>4, <1>7, <2>4
<1>8. n \in S
  <2> HIDE DEF S
  <2>1. \A k \in 1..n : k - 1 \in S => k \in S
    BY <1>7
  <2>2. \A k \in 0..n : k \in S
    BY <1>1, <1>6, <2>1, PrefixInduction
  <2> QED
    BY <1>1, <2>2
<1> QED
  BY <1>2, <1>8 DEF R

\* Every way a Read may plan its bulk requests asks for whole consecutive elements of one file.
LEMMA PlansType ==
  ASSUME NEW addrs, Requests(addrs), NEW plan \in Plans(addrs)
  PROVE  plan \in Seq(Chunks(addrs))
<1> DEFINE bulk == {i \in DOMAIN addrs : Bulkable(addrs[i])}
           files == {<<addrs[i].type, addrs[i].file>> : i \in bulk}
<1>1. IsFiniteSet(files)
  <2>1. IsFiniteSet(DOMAIN addrs)
    BY FS_Interval DEF Requests
  <2>2. IsFiniteSet(bulk)
    BY <2>1, FS_Subset
  <2> DEFINE g == [i \in bulk |-> <<addrs[i].type, addrs[i].file>>]
  <2>3. g \in Surjection(bulk, files)
    BY DEF Surjection
  <2> HIDE DEF g, bulk, files
  <2> QED
    BY <2>2, <2>3, FS_Surjection
<1>2. PICK order \in SetToSeqs(files) : plan \in InOrder(addrs, order)
  <2>1. Plans(addrs) = UNION {InOrder(addrs, order) : order \in SetToSeqs(files)}
    BY DEF Plans
  <2> HIDE DEF files
  <2> QED
    BY <2>1
<1> HIDE DEF files
<1>3. order \in Seq(files)
  BY <1>1, OrdersType
<1>4. Len(order) \in Nat /\ DOMAIN order = 1..Len(order)
  BY <1>3
<1> QED
  BY <1>2, <1>4, InOrderType

-----------------------------------------------------------------------------
(* What a call knows on its way *)

\* A bit write that has its word changes one bit of what it has seen.
Writing(o) ==
  /\ o.at \in {"word", "put"} => o.kind = "write"
  /\ o.kind = "write" =>
       LET put == o.put
       IN  /\ o.at \in {"word", "put", "return"}
           /\ DOMAIN put = PutFields /\ DOMAIN put.addr = AddressFields
           /\ o.at = "put" /\ put.addr.bit >= 0 =>
                put.word = IF put.value.bits # {} THEN put.seen \cup {put.addr.bit} ELSE put.seen \ {put.addr.bit}
           /\ o.at = "return" /\ o.ok => WritesInPlace(put)

\* A result that is there: an error, or what the address names.
Exact(a, r) ==
  \/ r = Failure
  \/ a.ok /\ \E d \in Contents(a) : r = Value(d)

Listing(o) ==
  /\ o.results = [i \in DOMAIN o.addrs |-> o.results[i]]
  /\ \A i \in DOMAIN o.addrs : (o.results[i] = None /\ o.addrs[i].ok) \/ Exact(o.addrs[i], o.results[i])

Reading(o) ==
  /\ o.at \in {"bulk", "rest", "one", "check"} => o.kind \in {"read", "each"}
  /\ o.kind \in {"read", "each"} =>
       /\ o.at \in {"bulk", "rest", "one", "check", "return"} /\ Requests(o.addrs)
       /\ o.at # "return" => Listing(o) /\ o.jobs \in Seq(Chunks(o.addrs))
       /\ o.at = "bulk" => o.jobs # <<>>
       /\ o.at \in {"rest", "one"} => Pending(o) # {}
       /\ o.at = "rest" => o.kind = "read"
       /\ o.at = "check" => Pending(o) = {}
       /\ o.at = "return" => ReadsInPlace(o)

\* The directories that there are, and the sections asked for so far, end to end.
Layouts == {Layout(prefix) : prefix \in {"1747", "1761", "1762", "1766"}}

Sections(dir) ==
  LET m == Len(dir.data)
      Rest(k) == dir.size - 80 * (k - 1)
  IN  /\ dir.layout \in Layouts /\ dir.size = Len(Rows) * dir.layout.row
      /\ m \in Nat /\ dir.data = [k \in 1..m |-> dir.data[k]]
      /\ dir.asked = IF 80 * m < dir.size THEN 80 * m ELSE dir.size
      /\ \A k \in 1..m :
           /\ Rest(k) > 0
           /\ dir.data[k] = Stretch("sys", 0, dir.layout.start + 80 * (k - 1), IF Rest(k) < 80 THEN Rest(k) ELSE 80)

Discovering(o) ==
  /\ o.at \in {"diagnose", "identify", "size", "section"} => o.kind \in {"discover", "identity"}
  /\ o.kind \in {"discover", "identity"} =>
       LET dir == o.dir
       IN  /\ o.at \in {"diagnose", "identify", "size", "section", "return"} /\ DOMAIN dir = DirFields
           /\ o.at \in {"diagnose", "identify", "size"} => dir.asked = 0 /\ dir.data = <<>>
           /\ o.at = "size" => dir.layout \in Layouts
           /\ o.at = "section" /\ ~dir.cut => Sections(dir) /\ dir.asked < dir.size
           /\ o.at = "return" /\ o.kind = "discover" /\ o.ok /\ ~dir.cut =>
                Sections(dir) /\ dir.asked = dir.size /\ dir.size > 0

Steady(o) == Writing(o) /\ Reading(o) /\ Discovering(o)

\* A call that has not begun knows nothing, whatever strayed.
Resting(o) == DOMAIN o = Fields /\ (o.at = "idle" => o = Idle)

Inv ==
  /\ DOMAIN op = Procs /\ DOMAIN memory = Words /\ strayed \in BOOLEAN
  /\ \A p \in Procs : Resting(op[p])
  /\ ~strayed => wire = <<>> /\ \A p \in Procs : Steady(op[p])

-----------------------------------------------------------------------------
(* Exchanges *)

\* What a reply is, if nothing strays.
Heard(answer, reply, seen) ==
  /\ strayed' \in BOOLEAN
  /\ ~strayed' => /\ ~strayed /\ wire' = <<>>
                  /\ reply.status = "ok" => reply = answer /\ seen

\* Without a socket there is an error.
LEMMA UnsentHeard ==
  ASSUME Inv, Unsent, NEW answer
  PROVE  Heard(answer, Failing("down"), FALSE)
BY DEF Inv, Unsent, Heard, Failing

\* A link that breaks leaves an error.
LEMMA DroppedHeard ==
  ASSUME Inv, Dropped, NEW answer, NEW seen
  PROVE  Heard(answer, Failing("broken"), seen)
BY DEF Inv, Dropped, Heard, Failing

\* A reply that arrives alone on an empty wire is the answer, or a refusal.
LEMMA ReceivedHeard ==
  ASSUME Inv, NEW answer, NEW arrival \in Arrivals(answer), Received(arrival)
  PROVE  Heard(answer, Head(wire \o arrival), arrival # <<Refusal>>)
<1>1. strayed' = (strayed \/ Len(arrival) > 1) /\ wire' = Tail(wire \o arrival) /\ strayed \in BOOLEAN
  BY DEF Received, Inv
<1>2. ASSUME ~strayed'
      PROVE  /\ ~strayed /\ wire' = <<>>
             /\ Head(wire \o arrival).status = "ok" =>
                  Head(wire \o arrival) = answer /\ arrival # <<Refusal>>
  <2>1. ~strayed /\ ~(Len(arrival) > 1) /\ wire = <<>>
    BY <1>1, <1>2 DEF Inv
  <2>2. PICK reply : arrival = <<reply>> /\ reply \in {answer, Refusal}
    BY <2>1 DEF Arrivals
  <2>3. Head(<<>> \o <<reply>>) = reply /\ Tail(<<>> \o <<reply>>) = <<>>
    OBVIOUS
  <2>4. Refusal.status = "error"
    BY DEF Refusal, Failing
  <2>5. reply.status = "ok" => reply = answer /\ <<reply>> # <<Refusal>>
    BY <2>2, <2>4
  <2> QED
    BY <1>1, <2>1, <2>2, <2>3, <2>5
<1> QED
  BY <1>1, <1>2 DEF Heard

\* A call that goes on leaves the others as they are.
LEMMA Step ==
  ASSUME Inv, NEW p \in Procs, NEW o, Become(p, o), Resting(o), DOMAIN memory' = Words,
         strayed' \in BOOLEAN, ~strayed' => ~strayed /\ wire' = <<>> /\ Steady(o)
  PROVE  Inv'
<1>1. /\ DOMAIN op' = Procs /\ op'[p] = o
      /\ \A q \in Procs : q # p => op'[q] = op[q]
  BY DEF Inv, Become
<1>2. \A q \in Procs : Resting(op'[q])
  BY <1>1 DEF Inv
<1>3. ~strayed' => \A q \in Procs : Steady(op'[q])
  BY <1>1 DEF Inv
<1>4. ~strayed' => wire' = <<>>
  OBVIOUS
<1> HIDE DEF Inv
<1>5. /\ DOMAIN op' = Procs /\ DOMAIN memory' = Words /\ strayed' \in BOOLEAN
      /\ \A q \in Procs : Resting(op'[q])
      /\ ~strayed' => wire' = <<>> /\ \A q \in Procs : Steady(op'[q])
  BY <1>1, <1>2, <1>3, <1>4
<1> QED
  BY <1>5 DEF Inv, Resting, Steady

-----------------------------------------------------------------------------
(* Writes *)

\* The end of a call leaves what it has found as it is.
LEMMA EndFields ==
  ASSUME NEW o, DOMAIN o = Fields, NEW ok
  PROVE  LET e == End(o, ok)
         IN  /\ DOMAIN e = Fields /\ e.at = "return" /\ e.ok = ok /\ e.jobs = <<>>
             /\ e.kind = o.kind /\ e.addrs = o.addrs /\ e.results = o.results
             /\ e.put = o.put /\ e.dir = o.dir
BY DEF End, Fields

\* A write neither reads nor discovers.
LEMMA WritesOnly ==
  ASSUME NEW o, o.kind = "write", o.at \in {"word", "put", "return"}
  PROVE  Reading(o) /\ Discovering(o)
BY DEF Reading, Discovering

\* Write keeps the invariant: what it encodes is what it goes on with.
LEMMA BeginWriteInv ==
  ASSUME Inv, NEW p \in Procs, BeginWrite(p)
  PROVE  Inv'
<1>1. PICK w \in Writes :
        LET a == ParseAddress(w.name)
            o == [Call("write") EXCEPT !.put = [addr |-> a, value |-> w.value, len |-> Encoded(a, w.value),
                                                word |-> w.value.bits \cap 0..15, seen |-> {}, before |-> {},
                                                done |-> FALSE]]
        IN  Become(p, IF ~a.ok THEN End(o, FALSE)
                      ELSE IF a.bit >= 0
                      THEN IF w.value.kind \in {"bool", "int", "uint16", "float"} THEN [o EXCEPT !.at = "word", !.put.len = 2]
                           ELSE End(o, FALSE)
                      ELSE IF o.put.len = 0 THEN End(o, FALSE) ELSE [o EXCEPT !.at = "put"])
  BY DEF BeginWrite
<1> DEFINE a == ParseAddress(w.name)
           put == [addr |-> a, value |-> w.value, len |-> Encoded(a, w.value),
                   word |-> w.value.bits \cap 0..15, seen |-> {}, before |-> {}, done |-> FALSE]
           o == [Call("write") EXCEPT !.put = put]
           next == IF ~a.ok THEN End(o, FALSE)
                   ELSE IF a.bit >= 0
                   THEN IF w.value.kind \in {"bool", "int", "uint16", "float"} THEN [o EXCEPT !.at = "word", !.put.len = 2]
                        ELSE End(o, FALSE)
                   ELSE IF o.put.len = 0 THEN End(o, FALSE) ELSE [o EXCEPT !.at = "put"]
<1>2. Become(p, next)
  BY <1>1
<1>3. DOMAIN a = AddressFields
  BY ParsedAddress DEF Address
<1>4. DOMAIN put = PutFields /\ put.addr = a
  BY DEF PutFields
<1>5. DOMAIN o = Fields /\ o.kind = "write" /\ o.put = put
  BY DEF Call, Idle, Fields
<1> HIDE DEF a, put, o
<1>6. Resting(next) /\ Steady(next)
  <2>1. DOMAIN End(o, FALSE) = Fields /\ End(o, FALSE).at = "return" /\ ~End(o, FALSE).ok
        /\ End(o, FALSE).kind = "write" /\ End(o, FALSE).put = put
    BY <1>5, EndFields
  <2>2. Resting(End(o, FALSE)) /\ Steady(End(o, FALSE))
    BY <1>3, <1>4, <2>1, WritesOnly DEF Resting, Steady, Writing
  <2>3. LET e == [o EXCEPT !.at = "word", !.put.len = 2]
        IN  DOMAIN e = Fields /\ e.at = "word" /\ e.kind = "write" /\ DOMAIN e.put = PutFields /\ e.put.addr = a
    BY <1>4, <1>5 DEF Fields, PutFields
  <2>4. LET e == [o EXCEPT !.at = "word", !.put.len = 2] IN Resting(e) /\ Steady(e)
    BY <1>3, <2>3, WritesOnly DEF Resting, Steady, Writing
  <2>5. LET e == [o EXCEPT !.at = "put"]
        IN  DOMAIN e = Fields /\ e.at = "put" /\ e.kind = "write" /\ e.put = put
    BY <1>5 DEF Fields
  <2>6. ~(a.bit >= 0) => LET e == [o EXCEPT !.at = "put"] IN Resting(e) /\ Steady(e)
    BY <1>3, <1>4, <2>5, WritesOnly DEF Resting, Steady, Writing
  <2> QED
    BY <2>2, <2>4, <2>6
<1> HIDE DEF next
<1>7. UNCHANGED <<wire, memory, strayed>>
  BY DEF BeginWrite
<1> QED
  BY <1>2, <1>6, <1>7, Step DEF Inv

\* The read of writeBit keeps the invariant: it changes its bit in the word it has seen.
LEMMA ReadWordInv ==
  ASSUME Inv, NEW p \in Procs, ReadWord(p)
  PROVE  Inv'
<1> DEFINE o == op[p]
           a == [o.put.addr EXCEPT !.bit = -1]
           Changed(bits) == IF o.put.value.bits # {} THEN bits \cup {o.put.addr.bit} ELSE bits \ {o.put.addr.bit}
           Next_(reply) == IF ~Good(reply, "typed") \/ reply.data = None THEN End(o, FALSE)
                           ELSE [o EXCEPT !.at = "put", !.put.seen = reply.bits, !.put.word = Changed(reply.bits)]
<1>1. PICK answer, reply, seen : Become(p, Next_(reply)) /\ UNCHANGED memory /\ Heard(answer, reply, seen)
  BY UnsentHeard, ReceivedHeard, DroppedHeard DEF ReadWord, Ask
<1>2. /\ DOMAIN o = Fields /\ o.at = "word"
      /\ ~strayed => o.kind = "write" /\ DOMAIN o.put = PutFields /\ DOMAIN o.put.addr = AddressFields
  BY DEF ReadWord, At, Inv, Resting, Steady, Writing
<1> HIDE DEF o
<1>3. Resting(Next_(reply))
  <2>1. Resting(End(o, FALSE))
    BY <1>2, EndFields DEF Resting
  <2>2. LET e == [o EXCEPT !.at = "put", !.put.seen = reply.bits, !.put.word = Changed(reply.bits)]
        IN  DOMAIN e = Fields /\ e.at = "put"
    BY <1>2 DEF Fields
  <2> QED
    BY <2>1, <2>2 DEF Resting
<1>4. ASSUME ~strayed
      PROVE  Steady(Next_(reply))
  <2>1. Steady(End(o, FALSE))
    BY <1>2, <1>4, EndFields, WritesOnly DEF Steady, Writing
  <2> DEFINE e == [o EXCEPT !.at = "put", !.put.seen = reply.bits, !.put.word = Changed(reply.bits)]
             put == [o.put EXCEPT !.seen = reply.bits, !.word = Changed(reply.bits)]
  <2> HIDE DEF Changed
  <2>2. /\ DOMAIN e = Fields /\ e.at = "put" /\ e.kind = "write" /\ e.put = put
    BY <1>2, <1>4 DEF Fields
  <2>3. /\ DOMAIN put = PutFields /\ put.addr = o.put.addr /\ put.value = o.put.value
        /\ put.seen = reply.bits /\ put.word = Changed(reply.bits)
    BY <1>2, <1>4 DEF PutFields
  <2> HIDE DEF e, put
  <2> USE DEF Changed
  <2>4. Steady(e)
    BY <1>2, <1>4, <2>2, <2>3, WritesOnly DEF Steady, Writing
  <2> QED
    BY <2>1, <2>4 DEF e
<1> HIDE DEF Next_
<1>5. strayed' \in BOOLEAN /\ (~strayed' => ~strayed /\ wire' = <<>>) /\ DOMAIN memory' = Words
  BY <1>1 DEF Heard, Inv
<1> QED
  BY <1>1, <1>3, <1>4, <1>5, Step

\* WriteAddress keeps the invariant: a success means that the PLC has the value.
LEMMA PutInv ==
  ASSUME Inv, NEW p \in Procs, Put(p)
  PROVE  Inv'
<1> DEFINE o == op[p]
           place == Place(o.put.addr)
           answer == IF Reachable(o.put.addr, o.put.len) THEN Reply("typed", None, {}) ELSE Refusal
           Done(seen) == seen /\ answer # Refusal
           Followed(seen) == Done(seen) /\ place \in Words
           Next_(reply, seen) ==
             End([o EXCEPT !.put.done = Done(seen), !.put.before = IF Followed(seen) THEN memory[place] ELSE {}],
                 Good(reply, "typed"))
<1>1. PICK reply, seen :
        /\ Become(p, Next_(reply, seen)) /\ Heard(answer, reply, seen)
        /\ memory' = IF Followed(seen) THEN [memory EXCEPT ![place] = o.put.word] ELSE memory
  BY UnsentHeard, ReceivedHeard, DroppedHeard DEF Put, Ask
<1>2. /\ DOMAIN o = Fields /\ o.at = "put"
      /\ ~strayed => /\ o.kind = "write" /\ DOMAIN o.put = PutFields /\ DOMAIN o.put.addr = AddressFields
                     /\ o.put.addr.bit >= 0 =>
                          o.put.word = IF o.put.value.bits # {} THEN o.put.seen \cup {o.put.addr.bit}
                                       ELSE o.put.seen \ {o.put.addr.bit}
  BY DEF Put, At, Inv, Resting, Steady, Writing
<1> DEFINE before == IF Followed(seen) THEN memory[place] ELSE {}
           c == [o EXCEPT !.put.done = Done(seen), !.put.before = before]
           put == [o.put EXCEPT !.done = Done(seen), !.before = before]
<1>3. strayed' \in BOOLEAN /\ (~strayed' => ~strayed /\ wire' = <<>>) /\ DOMAIN memory' = Words
  BY <1>1 DEF Heard, Inv
<1>4. ~strayed' /\ Good(reply, "typed") => Done(seen) /\ (place \in Words => before = memory[place])
  <2>1. Refusal.status = "error"
    BY DEF Refusal, Failing
  <2> QED
    BY <1>1, <2>1 DEF Heard, Good
<1> HIDE DEF o, Done, Followed, before
<1>5. DOMAIN c = Fields /\ c.kind = o.kind /\ c.put = put
  BY <1>2 DEF Fields
<1>6. ~strayed => /\ DOMAIN put = PutFields /\ put.addr = o.put.addr /\ put.value = o.put.value
                  /\ put.word = o.put.word /\ put.seen = o.put.seen
                  /\ put.done = Done(seen) /\ put.before = before
  BY <1>2 DEF PutFields
<1> HIDE DEF c, put
<1>7. LET e == Next_(reply, seen)
      IN  /\ DOMAIN e = Fields /\ e.at = "return" /\ e.kind = o.kind /\ e.put = put
          /\ e.ok = Good(reply, "typed")
  <2>1. Next_(reply, seen) = End(c, Good(reply, "typed"))
    BY DEF c, before
  <2> HIDE DEF Next_
  <2> QED
    BY <1>5, <2>1, EndFields
<1> HIDE DEF Next_
<1>8. Resting(Next_(reply, seen))
  BY <1>7 DEF Resting
<1>9. ~strayed' => Steady(Next_(reply, seen))
  <2> SUFFICES ASSUME ~strayed'
               PROVE  Steady(Next_(reply, seen))
    OBVIOUS
  <2>1. ~strayed
    BY <1>3
  <2>2. Good(reply, "typed") => WritesInPlace(put)
    <3> SUFFICES ASSUME Good(reply, "typed")
                 PROVE  WritesInPlace(put)
      OBVIOUS
    <3>1. put.done /\ (place \in Words => put.before = memory[place])
      BY <1>4, <1>6, <2>1
    <3>2. put.addr.bit >= 0 =>
            LET b == put.addr.bit
            IN  /\ b \in put.word <=> put.value.bits # {}
                /\ put.before = put.seen => put.word \ {b} = put.before \ {b}
      BY <1>2, <1>6, <2>1
    <3> QED
      BY <3>1, <3>2 DEF WritesInPlace
  <2> QED
    BY <1>2, <1>6, <1>7, <2>1, <2>2, WritesOnly DEF Steady, Writing
<1> QED
  BY <1>1, <1>3, <1>8, <1>9, Step

-----------------------------------------------------------------------------
(* Reads *)

\* The length of a function over 1..n.
LEMMA LenOf ==
  ASSUME NEW n \in Nat, NEW f, f = [i \in 1..n |-> f[i]]
  PROVE  Len(f) = n
<1>1. f \in Seq({f[i] : i \in 1..n})
  OBVIOUS
<1>2. DOMAIN f = 1..n /\ DOMAIN f = 1..Len(f) /\ Len(f) \in Nat
  BY <1>1
<1> QED
  BY <1>2

\* A read neither writes nor discovers.
LEMMA ReadsOnly ==
  ASSUME NEW o, o.kind \in {"read", "each"}, o.at \in {"bulk", "rest", "one", "check", "return"}
  PROVE  Writing(o) /\ Discovering(o)
BY DEF Writing, Discovering

\* Results that are all there are the results of a read.
LEMMA ListingEnds ==
  ASSUME NEW o, Requests(o.addrs), Listing(o), Pending(o) = {}, o.kind = "read" => o.ok
  PROVE  ReadsInPlace(o)
<1>1. Len(o.results) = Len(o.addrs) /\ DOMAIN o.results = DOMAIN o.addrs
  BY LenOf DEF Requests, Listing
<1>2. \A i \in DOMAIN o.results : o.results[i] # None
  BY DEF Pending
<1>3. ASSUME NEW i \in DOMAIN o.results, o.results[i].ok
      PROVE  LET a == o.addrs[i]
             IN  a.ok /\ o.results[i].data \in Contents(a)
  <2>1. Exact(o.addrs[i], o.results[i])
    BY <1>1, <1>2 DEF Listing
  <2>2. ~Failure.ok
    BY DEF Failure
  <2>3. \A d : Value(d).data = d
    BY DEF Value
  <2> QED
    BY <1>3, <2>1, <2>2, <2>3 DEF Exact
<1> QED
  BY <1>1, <1>2, <1>3 DEF ReadsInPlace

\* A read that knows what it should goes on so, and ends with every result in place.
LEMMA GoOnReads ==
  ASSUME NEW o, DOMAIN o = Fields, o.kind \in {"read", "each"}, Requests(o.addrs), Listing(o),
         o.jobs \in Seq(Chunks(o.addrs))
  PROVE  Resting(GoOn(o)) /\ Steady(GoOn(o))
<1> DEFINE At_(place) == [o EXCEPT !.at = place]
<1>1. ASSUME NEW place \in {"bulk", "rest", "one", "check"}
      PROVE  LET e == At_(place)
             IN  /\ DOMAIN e = Fields /\ e.at = place /\ e.kind = o.kind /\ e.addrs = o.addrs
                 /\ e.results = o.results /\ e.jobs = o.jobs
  BY DEF Fields
<1>2. ASSUME NEW place \in {"bulk", "rest", "one", "check"}, place = "bulk" => o.jobs # <<>>,
             place \in {"rest", "one"} => Pending(o) # {}, place = "check" => Pending(o) = {},
             place = "rest" => o.kind = "read"
      PROVE  Resting(At_(place)) /\ Steady(At_(place))
  <2> DEFINE e == At_(place)
  <2>1. /\ DOMAIN e = Fields /\ e.at = place /\ e.kind = o.kind /\ e.addrs = o.addrs
        /\ e.results = o.results /\ e.jobs = o.jobs
    BY <1>1
  <2> HIDE DEF e
  <2>2. Listing(e) /\ Pending(e) = Pending(o)
    BY <2>1 DEF Listing, Pending
  <2>3. Reading(e)
    BY <1>2, <2>1, <2>2 DEF Reading
  <2>4. Resting(e)
    BY <2>1 DEF Resting
  <2>5. Writing(e) /\ Discovering(e)
    BY <2>1, ReadsOnly
  <2> QED
    BY <2>3, <2>4, <2>5 DEF Steady, e
<1>3. CASE o.jobs # <<>>
  <2>1. GoOn(o) = At_("bulk")
    BY <1>3 DEF GoOn
  <2> QED
    BY <1>2, <1>3, <2>1
<1>4. CASE o.jobs = <<>> /\ Pending(o) # {}
  <2> DEFINE place == IF o.kind = "read" /\ o.at \in {"idle", "bulk"} THEN "rest" ELSE "one"
  <2>1. GoOn(o) = At_(place)
    BY <1>4 DEF GoOn
  <2>2. place \in {"rest", "one"} /\ (place = "rest" => o.kind = "read")
    OBVIOUS
  <2> HIDE DEF place, At_
  <2> QED
    BY <1>2, <1>4, <2>1, <2>2
<1>5. CASE o.jobs = <<>> /\ Pending(o) = {} /\ o.kind = "read" /\ o.at \in {"idle", "bulk"}
  <2> DEFINE e == End(o, TRUE)
  <2>1. GoOn(o) = e
    BY <1>5 DEF GoOn
  <2>2. /\ DOMAIN e = Fields /\ e.at = "return" /\ e.ok = TRUE /\ e.kind = o.kind /\ e.addrs = o.addrs
        /\ e.results = o.results
    BY DEF End, Fields
  <2> HIDE DEF e
  <2>3. Listing(e) /\ Pending(e) = Pending(o)
    BY <2>2 DEF Listing, Pending
  <2>4. ReadsInPlace(e)
    BY <1>5, <2>2, <2>3, ListingEnds
  <2>5. Reading(e) /\ Resting(e)
    BY <2>2, <2>4 DEF Reading, Resting
  <2> QED
    BY <2>1, <2>2, <2>5, ReadsOnly DEF Steady
<1>6. CASE o.jobs = <<>> /\ Pending(o) = {} /\ ~(o.kind = "read" /\ o.at \in {"idle", "bulk"})
  <2>1. GoOn(o) = At_("check")
    BY <1>6 DEF GoOn
  <2> QED
    BY <1>2, <1>6, <2>1
<1> QED
  BY <1>3, <1>4, <1>5, <1>6

\* Whatever a read knows, it goes on.
LEMMA GoOnRests ==
  ASSUME NEW o, DOMAIN o = Fields
  PROVE  Resting(GoOn(o))
BY DEF GoOn, End, Resting, Fields

\* Read keeps the invariant, of the adapter and of the client.
LEMMA BeginReadInv ==
  ASSUME Inv, NEW p \in Procs, BeginRead(p)
  PROVE  Inv'
<1>1. PICK names \in Reads, kind \in {"read", "each"} :
        LET addrs == [i \in DOMAIN names |-> ParseAddress(names[i])]
            o == [Call(kind) EXCEPT !.addrs = addrs,
                                    !.results = [i \in DOMAIN addrs |-> IF addrs[i].ok THEN None ELSE Failure]]
        IN  \E plan \in IF kind = "read" THEN Plans(addrs) ELSE {<<>>} :
              Become(p, GoOn([o EXCEPT !.jobs = plan]))
  BY DEF BeginRead
<1> DEFINE addrs == [i \in DOMAIN names |-> ParseAddress(names[i])]
           results == [i \in DOMAIN addrs |-> IF addrs[i].ok THEN None ELSE Failure]
           o == [Call(kind) EXCEPT !.addrs = addrs, !.results = results]
<1>2. PICK plan \in (IF kind = "read" THEN Plans(addrs) ELSE {<<>>}) : Become(p, GoOn([o EXCEPT !.jobs = plan]))
  BY <1>1
<1>3. Requests(addrs)
  <2>1. Len(names) \in Nat /\ DOMAIN names = 1..Len(names)
    BY ListsAssumption
  <2>2. addrs = [i \in 1..Len(names) |-> addrs[i]] /\ DOMAIN addrs = 1..Len(names)
    BY <2>1
  <2>3. \A i \in DOMAIN addrs : Address(addrs[i])
    BY ParsedAddress
  <2> HIDE DEF addrs
  <2> QED
    BY <2>1, <2>2, <2>3, LenOf DEF Requests
<1> HIDE DEF addrs
<1>4. plan \in Seq(Chunks(addrs))
  <2>1. <<>> \in Seq(Chunks(addrs))
    OBVIOUS
  <2> QED
    BY <1>2, <1>3, <2>1, PlansType
<1> DEFINE c == [o EXCEPT !.jobs = plan]
<1>5. DOMAIN c = Fields /\ c.kind = kind /\ c.addrs = addrs /\ c.results = results /\ c.jobs = plan
  BY DEF Call, Idle, Fields
<1>6. results = [i \in DOMAIN addrs |-> results[i]]
      /\ \A i \in DOMAIN addrs : (results[i] = None /\ addrs[i].ok) \/ Exact(addrs[i], results[i])
  BY DEF Exact
<1> HIDE DEF c, results
<1>7. Listing(c)
  BY <1>5, <1>6 DEF Listing
<1>8. Resting(GoOn(c)) /\ Steady(GoOn(c))
  BY <1>3, <1>4, <1>5, <1>7, GoOnReads
<1>9. Become(p, GoOn(c)) /\ UNCHANGED <<wire, memory, strayed>>
  BY <1>2 DEF BeginRead, c, results
<1> QED
  BY <1>8, <1>9, Step DEF Inv

\* The end of a client Read keeps the invariant, with the link up and down.
LEMMA EndReadInv ==
  ASSUME Inv, NEW p \in Procs, EndRead(p)
  PROVE  Inv'
<1> DEFINE o == op[p]
           e == End(o, conn)
           next == IF conn \/ e.kind = "each" THEN e ELSE [e EXCEPT !.results = <<>>]
<1>1. Become(p, next) /\ UNCHANGED <<wire, memory, strayed>>
  BY DEF EndRead
<1>2. /\ DOMAIN o = Fields
      /\ ~strayed => /\ o.kind \in {"read", "each"} /\ Requests(o.addrs) /\ Listing(o) /\ Pending(o) = {}
  BY DEF EndRead, At, Inv, Resting, Steady, Reading
<1> HIDE DEF o
<1>3. /\ DOMAIN e = Fields /\ e.at = "return" /\ e.ok = conn /\ e.kind = o.kind /\ e.addrs = o.addrs
      /\ e.results = o.results
  BY <1>2, EndFields
<1> HIDE DEF e
<1> DEFINE none == [e EXCEPT !.results = <<>>]
<1>4. /\ DOMAIN none = Fields /\ none.at = "return" /\ none.ok = conn /\ none.kind = o.kind
      /\ none.addrs = o.addrs /\ none.results = <<>>
  BY <1>3 DEF Fields
<1>5. \/ next = e /\ (conn \/ o.kind = "each")
      \/ next = none /\ ~conn /\ o.kind # "each"
  <2>1. conn \/ e.kind = "each" => next = e
    OBVIOUS
  <2>2. ~(conn \/ e.kind = "each") => next = none
    OBVIOUS
  <2>3. e.kind = o.kind
    BY <1>3
  <2> HIDE DEF none, next
  <2> QED
    BY <2>1, <2>2, <2>3
<1> HIDE DEF none, next
<1>6. Resting(next)
  BY <1>3, <1>4, <1>5 DEF Resting
<1>7. ASSUME ~strayed
      PROVE  Steady(next)
  <2>1. CASE next = e /\ (conn \/ o.kind = "each")
    <3>1. Listing(e) /\ Pending(e) = {}
      BY <1>2, <1>3, <1>7 DEF Listing, Pending
    <3>2. ReadsInPlace(e)
      <4>1. e.kind = "read" => e.ok
        BY <1>3, <2>1
      <4>2. Requests(e.addrs)
        BY <1>2, <1>3, <1>7
      <4> QED
        BY <3>1, <4>1, <4>2, ListingEnds
    <3>3. Reading(e)
      BY <1>2, <1>3, <1>7, <3>2 DEF Reading
    <3> QED
      BY <1>2, <1>3, <1>7, <2>1, <3>3, ReadsOnly DEF Steady
  <2>2. CASE next = none /\ ~conn /\ o.kind # "each"
    <3>1. ReadsInPlace(none)
      BY <1>2, <1>4, <1>7, <2>2 DEF ReadsInPlace
    <3>2. Reading(none)
      BY <1>2, <1>4, <1>7, <3>1 DEF Reading
    <3> QED
      BY <1>2, <1>4, <1>7, <2>2, <3>2, ReadsOnly DEF Steady
  <2> QED
    BY <1>5, <2>1, <2>2
<1> QED
  BY <1>1, <1>6, <1>7, Step DEF Inv

-----------------------------------------------------------------------------
(* Replies to reads *)

\* A set of naturals has a least.
LEMMA LeastOf ==
  ASSUME NEW s \in SUBSET Nat, s # {}
  PROVE  \E i \in s : \A j \in s : i <= j
<1>1. PICK x \in s : \A y \in s : ~(<<y, x>> \in OpToRel(<, Nat))
  BY NatLessThanWellFounded, WFMin
<1>2. ASSUME NEW y \in s
      PROVE  x <= y
  <2>1. ~(y < x)
    BY <1>1 DEF OpToRel
  <2> QED
    BY <2>1
<1> QED
  BY <1>2

\* What the PLC answers.
LEMMA PlcAnswers ==
  ASSUME NEW a, NEW size \in Nat, NEW answer \in ReadAnswers(a, size), answer.status = "ok"
  PROVE  \E n \in Lengths(size) : n \in Nat /\ answer.data = Stretch(a.type, a.file, Offset(a), n)
<1>1. Refusal.status = "error"
  BY DEF Refusal, Failing
<1>2. \A n \in Lengths(size) : n \in Nat
  BY RoomAssumption DEF Lengths
<1> DEFINE bits == IF Place(a) \in Words THEN memory[Place(a)] ELSE {}
           Data(n) == Reply("typed", Stretch(a.type, a.file, Offset(a), n), bits)
<1>3. answer \in IF Reachable(a, size) THEN {Data(n) : n \in Lengths(size)} ELSE {Refusal}
  BY DEF ReadAnswers
<1>4. \A n : Data(n).data = Stretch(a.type, a.file, Offset(a), n)
  BY DEF Reply
<1> HIDE DEF Data
<1>5. \E n \in Lengths(size) : answer = Data(n)
  BY <1>1, <1>3
<1> QED
  BY <1>2, <1>4, <1>5

\* An element has 2 to 84 bytes.
LEMMA SizesOf ==
  ASSUME NEW a
  PROVE  ElementSize(a.type) \in 1..84 /\ ReadSize(a) \in 1..84
<1>1. ElementSize(a.type) \in 1..84
  BY DEF ElementSize, Complex
<1> QED
  BY <1>1 DEF ReadSize

\* ReadAddress keeps the invariant: its reply is what the address names.
LEMMA ReadOneInv ==
  ASSUME Inv, NEW p \in Procs, ReadOne(p)
  PROVE  Inv'
<1> DEFINE o == op[p]
           i == CHOOSE i \in Pending(o) : \A j \in Pending(o) : i <= j
           a == o.addrs[i]
           Result(reply) == IF Good(reply, "typed") THEN Value(reply.data) ELSE Failure
<1>1. PICK answer, reply, seen :
        /\ answer \in ReadAnswers(a, ReadSize(a))
        /\ Become(p, GoOn([o EXCEPT !.results[i] = Result(reply)]))
        /\ UNCHANGED memory /\ Heard(answer, reply, seen)
  BY UnsentHeard, ReceivedHeard, DroppedHeard DEF ReadOne, Ask
<1>2. /\ DOMAIN o = Fields /\ o.at \in {"rest", "one"}
      /\ ~strayed => /\ o.kind \in {"read", "each"} /\ Requests(o.addrs) /\ Listing(o)
                     /\ o.jobs \in Seq(Chunks(o.addrs)) /\ Pending(o) # {}
  BY DEF ReadOne, At, Inv, Resting, Steady, Reading
<1>3. strayed' \in BOOLEAN /\ (~strayed' => ~strayed /\ wire' = <<>>) /\ DOMAIN memory' = Words
  BY <1>1 DEF Heard, Inv
<1> DEFINE c == [o EXCEPT !.results[i] = Result(reply)]
           results == [o.results EXCEPT ![i] = Result(reply)]
<1> HIDE DEF o, i, Result
<1>4. DOMAIN c = Fields /\ c.kind = o.kind /\ c.addrs = o.addrs /\ c.jobs = o.jobs /\ c.results = results
  BY <1>2 DEF Fields
<1> HIDE DEF c, results
<1>5. Resting(GoOn(c))
  BY <1>2, <1>4, GoOnRests
<1>6. ASSUME ~strayed'
      PROVE  Steady(GoOn(c))
  <2>1. /\ o.kind \in {"read", "each"} /\ Requests(o.addrs) /\ Listing(o)
        /\ o.jobs \in Seq(Chunks(o.addrs)) /\ Pending(o) # {}
    BY <1>2, <1>3, <1>6
  <2>2. DOMAIN o.results = DOMAIN o.addrs /\ DOMAIN o.addrs \subseteq Nat
    BY <2>1 DEF Listing, Requests
  <2>3. i \in Pending(o)
    <3>1. Pending(o) \in SUBSET Nat
      BY <2>2 DEF Pending
    <3>2. \E k \in Pending(o) : \A j \in Pending(o) : k <= j
      BY <2>1, <3>1, LeastOf
    <3> QED
      BY <3>2 DEF i
  <2>4. i \in DOMAIN o.addrs /\ o.results[i] = None
    BY <2>2, <2>3 DEF Pending
  <2>5. Exact(a, Result(reply))
    <3>1. CASE Good(reply, "typed")
      <4>1. reply = answer /\ answer.status = "ok"
        BY <1>1, <1>6, <3>1 DEF Heard, Good
      <4>2. ReadSize(a) \in Nat
        BY SizesOf
      <4>3. answer.data \in Contents(a)
        BY <1>1, <4>1, <4>2, PlcAnswers DEF Contents
      <4>4. a.ok
        BY <2>1, <2>4, MissingAssumption DEF Listing, Exact
      <4> QED
        BY <3>1, <4>1, <4>3, <4>4 DEF Exact, Result
    <3>2. CASE ~Good(reply, "typed")
      BY <3>2 DEF Result, Exact
    <3> QED
      BY <3>1, <3>2
  <2>6. /\ results = [j \in DOMAIN o.addrs |-> results[j]]
        /\ \A j \in DOMAIN o.addrs : results[j] = IF j = i THEN Result(reply) ELSE o.results[j]
    BY <2>2 DEF results
  <2>7. Listing(c)
    BY <1>4, <2>1, <2>5, <2>6 DEF Listing
  <2> QED
    BY <1>2, <1>4, <2>1, <2>7, GoOnReads
<1>7. Become(p, GoOn(c))
  BY <1>1 DEF c
<1> QED
  BY <1>3, <1>5, <1>6, <1>7, Step

\* The elements of a bulk reply lie where their addresses say.
LEMMA ChunkPlaces ==
  ASSUME NEW addrs, Requests(addrs), NEW chunk \in Chunks(addrs), NEW j \in DOMAIN chunk
  PROVE  LET a == addrs[chunk[j]]
             first == addrs[chunk[1]]
             size == ElementSize(first.type)
         IN  /\ a.ok /\ a.type = first.type /\ a.file = first.file /\ ReadSize(a) = size
             /\ Offset(first) + size * (j - 1) = Offset(a)
<1> DEFINE a == addrs[chunk[j]]
           first == addrs[chunk[1]]
           size == ElementSize(first.type)
<1>1. /\ chunk \in Seq(DOMAIN addrs) /\ chunk # <<>> /\ j \in 1..Len(chunk) /\ 1 \in 1..Len(chunk)
      /\ chunk[j] \in DOMAIN addrs /\ chunk[1] \in DOMAIN addrs
  BY DEF Chunks, RunsOf
<1>2. /\ Bulkable(a) /\ Bulkable(first) /\ a.type = first.type /\ a.file = first.file
      /\ a.elem = first.elem + (j - 1)
  BY <1>1 DEF Chunks, RunsOf
<1>3. /\ a.ok /\ a.bit \in Int /\ a.bit < 0 /\ a.sub = 0 /\ first.sub = 0 /\ first.elem \in Nat
  BY <1>1, <1>2 DEF Bulkable, Requests, Address
<1>4. ElementSize(a.type) = size /\ size \in Nat
  BY <1>2, SizesOf
<1>5. j \in Nat /\ j >= 1
  BY <1>1
<1> HIDE DEF a, first, size
<1>6. ReadSize(a) = size
  BY <1>3, <1>4 DEF ReadSize
<1>7. Offset(first) = first.elem * size /\ Offset(a) = (first.elem + (j - 1)) * size
  BY <1>2, <1>3, <1>4, <1>5 DEF Offset, size
<1>8. \A e, k, n \in Nat : e * n + n * k = (e + k) * n
  OBVIOUS
<1>9. Offset(first) + size * (j - 1) = Offset(a)
  BY <1>3, <1>4, <1>5, <1>7, <1>8
<1> QED
  BY <1>2, <1>3, <1>6, <1>9 DEF a, first, size

\* A part of a reply, by where it begins in it and how long it is.
Shift(s, y, l) == [s EXCEPT !.off = @ + y, !.len = l]

\* A part of a stretch is the stretch at its place.
LEMMA Shifted ==
  ASSUME NEW t, NEW f, NEW x, NEW n, NEW y, NEW l
  PROVE  Shift(Stretch(t, f, x, n), y, l) = Stretch(t, f, x + y, l)
<1> DEFINE s == Stretch(t, f, x, n)
<1>1. s.off = x /\ s = [type |-> t, file |-> f, off |-> x, len |-> n]
  BY DEF Stretch
<1>2. [s EXCEPT !.off = x + y] = [type |-> t, file |-> f, off |-> x + y, len |-> n]
  BY <1>1
<1>3. [[s EXCEPT !.off = x + y] EXCEPT !.len = l] = [type |-> t, file |-> f, off |-> x + y, len |-> l]
  <2> DEFINE z == [s EXCEPT !.off = x + y]
  <2>1. z = [type |-> t, file |-> f, off |-> x + y, len |-> n]
    BY <1>2
  <2> HIDE DEF z
  <2>2. [z EXCEPT !.len = l] = [type |-> t, file |-> f, off |-> x + y, len |-> l]
    BY <2>1
  <2> QED
    BY <2>2 DEF z
<1>4. [s EXCEPT !.off = @ + y, !.len = l] = [[s EXCEPT !.off = x + y] EXCEPT !.len = l]
  BY <1>1
<1> QED
  BY <1>3, <1>4 DEF Stretch, Shift

\* ReadAddressN keeps the invariant: each part of the reply is the element it is taken for.
LEMMA ReadBulkInv ==
  ASSUME Inv, NEW p \in Procs, ReadBulk(p)
  PROVE  Inv'
<1> DEFINE o == op[p]
           chunk == Head(o.jobs)
           first == o.addrs[chunk[1]]
           size == ElementSize(first.type)
           Rank(i) == CHOOSE j \in DOMAIN chunk : chunk[j] = i
           Arrived(reply, i) ==
             /\ Good(reply, "typed") /\ reply.data # None
             /\ i \in ToSet(chunk) /\ size * Rank(i) <= reply.data.len
           Part(reply, i) == [reply.data EXCEPT !.off = @ + size * (Rank(i) - 1), !.len = size]
           results(reply) == [i \in DOMAIN o.results |->
                                IF Arrived(reply, i) THEN Value(Part(reply, i)) ELSE o.results[i]]
           c(reply) == [o EXCEPT !.jobs = Tail(@), !.results = results(reply)]
<1>1. PICK answer, reply, seen :
        /\ answer \in ReadAnswers(first, size * Len(chunk))
        /\ Become(p, GoOn([o EXCEPT !.jobs = Tail(@),
                                    !.results = [i \in DOMAIN @ |->
                                       IF Arrived(reply, i) THEN Value(Part(reply, i)) ELSE @[i]]]))
        /\ UNCHANGED memory /\ Heard(answer, reply, seen)
  BY UnsentHeard, ReceivedHeard, DroppedHeard DEF ReadBulk, Ask
<1>2. /\ DOMAIN o = Fields /\ o.at = "bulk"
      /\ ~strayed => /\ o.kind \in {"read", "each"} /\ Requests(o.addrs) /\ Listing(o)
                     /\ o.jobs \in Seq(Chunks(o.addrs)) /\ o.jobs # <<>>
  BY DEF ReadBulk, At, Inv, Resting, Steady, Reading
<1>3. strayed' \in BOOLEAN /\ (~strayed' => ~strayed /\ wire' = <<>>) /\ DOMAIN memory' = Words
  BY <1>1 DEF Heard, Inv
<1>4. Become(p, GoOn(c(reply)))
  BY <1>1
<1> HIDE DEF o, Arrived, Part
<1> DEFINE rs == results(reply)
           d == c(reply)
<1>5. /\ DOMAIN d = Fields /\ d.kind = o.kind /\ d.addrs = o.addrs /\ d.jobs = Tail(o.jobs)
      /\ d.results = rs
  BY <1>2 DEF Fields
<1> HIDE DEF d
<1>6. Resting(GoOn(d))
  BY <1>5, GoOnRests
<1>7. ASSUME ~strayed'
      PROVE  Steady(GoOn(d))
  <2>1. /\ o.kind \in {"read", "each"} /\ Requests(o.addrs) /\ Listing(o)
        /\ o.jobs \in Seq(Chunks(o.addrs)) /\ o.jobs # <<>>
    BY <1>2, <1>3, <1>7
  <2>2. DOMAIN o.results = DOMAIN o.addrs
    BY <2>1 DEF Listing
  <2>3. chunk \in Chunks(o.addrs) /\ Tail(o.jobs) \in Seq(Chunks(o.addrs))
    <3>1. \A C : \A s \in Seq(C) : s # <<>> => Head(s) \in C /\ Tail(s) \in Seq(C)
      OBVIOUS
    <3> QED
      BY <2>1, <3>1
  <2> HIDE DEF chunk
  <2>4. ASSUME NEW i \in DOMAIN o.addrs, Arrived(reply, i)
        PROVE  Exact(o.addrs[i], Value(Part(reply, i)))
    <3>1. Good(reply, "typed") /\ i \in ToSet(chunk)
      BY <2>4 DEF Arrived
    <3> DEFINE j == Rank(i)
    <3>2. j \in DOMAIN chunk /\ chunk[j] = i
      BY <3>1 DEF ToSet
    <3> HIDE DEF Rank, j
    <3>3. reply = answer /\ answer.status = "ok"
      BY <1>1, <1>7, <3>1 DEF Heard, Good
    <3>4. size * Len(chunk) \in Nat
      <4>1. Len(chunk) \in Nat /\ size \in Nat
        <5>1. size \in 1..84
          BY SizesOf
        <5>2. chunk \in Seq(DOMAIN o.addrs)
          BY <2>3 DEF Chunks, RunsOf
        <5> HIDE DEF size
        <5> QED
          BY <5>1, <5>2
      <4> HIDE DEF size
      <4> QED
        BY <4>1
    <3>5. PICK n : answer.data = Stretch(first.type, first.file, Offset(first), n)
      BY <1>1, <3>3, <3>4, PlcAnswers
    <3>6. Part(reply, i) = Stretch(first.type, first.file, Offset(first) + size * (j - 1), size)
      <4>1. Part(reply, i) = [answer.data EXCEPT !.off = @ + size * (j - 1), !.len = size]
        BY <3>3 DEF Part, j
      <4> DEFINE y == size * (j - 1)
      <4>2. Part(reply, i) = Shift(answer.data, y, size)
        BY <4>1 DEF Shift
      <4> HIDE DEF first, size, y
      <4>3. Part(reply, i) = Stretch(first.type, first.file, Offset(first) + y, size)
        <5>1. Shift(Stretch(first.type, first.file, Offset(first), n), y, size)
                = Stretch(first.type, first.file, Offset(first) + y, size)
          BY Shifted
        <5> QED
          BY <3>5, <4>2, <5>1
      <4> QED
        BY <4>3 DEF y
    <3>7. LET a == o.addrs[i]
          IN  /\ a.ok /\ a.type = first.type /\ a.file = first.file /\ ReadSize(a) = size
              /\ Offset(first) + size * (j - 1) = Offset(a)
      BY <2>1, <2>3, <3>2, ChunkPlaces
    <3> HIDE DEF first, size
    <3>8. Part(reply, i) \in Contents(o.addrs[i])
      <4>1. Part(reply, i) = LET a == o.addrs[i] IN Stretch(a.type, a.file, Offset(a), ReadSize(a))
        BY <3>6, <3>7
      <4>2. \A a : Stretch(a.type, a.file, Offset(a), ReadSize(a)) \in Contents(a)
        BY DEF Contents, Lengths
      <4> QED
        BY <4>1, <4>2
    <3> QED
      BY <3>7, <3>8 DEF Exact
  <2>5. /\ rs = [i \in DOMAIN o.addrs |-> rs[i]]
        /\ \A i \in DOMAIN o.addrs : rs[i] = IF Arrived(reply, i) THEN Value(Part(reply, i)) ELSE o.results[i]
    BY <2>2
  <2> HIDE DEF rs, c, results
  <2>6. Listing(d)
    <3>1. \A i \in DOMAIN o.addrs : (rs[i] = None /\ o.addrs[i].ok) \/ Exact(o.addrs[i], rs[i])
      <4> SUFFICES ASSUME NEW i \in DOMAIN o.addrs
                   PROVE  (rs[i] = None /\ o.addrs[i].ok) \/ Exact(o.addrs[i], rs[i])
        OBVIOUS
      <4>1. (o.results[i] = None /\ o.addrs[i].ok) \/ Exact(o.addrs[i], o.results[i])
        BY <2>1 DEF Listing
      <4>2. CASE Arrived(reply, i)
        BY <2>4, <2>5, <4>2
      <4>3. CASE ~Arrived(reply, i)
        BY <2>5, <4>1, <4>3
      <4> QED
        BY <4>2, <4>3
    <3>2. d.results = rs /\ d.addrs = o.addrs /\ rs = [i \in DOMAIN o.addrs |-> rs[i]]
      BY <1>5, <2>5
    <3> HIDE DEF Exact
    <3> QED
      BY <3>1, <3>2 DEF Listing
  <2> QED
    BY <1>5, <2>1, <2>3, <2>6, GoOnReads
<1> QED
  BY <1>3, <1>4, <1>6, <1>7, Step DEF d

-----------------------------------------------------------------------------
(* Discoveries *)

\* A discovery neither reads values nor writes.
LEMMA DiscoversOnly ==
  ASSUME NEW o, o.kind \in {"discover", "identity"}, o.at \in {"diagnose", "identify", "size", "section", "return"}
  PROVE  Writing(o) /\ Reading(o)
BY DEF Writing, Reading

\* The five catalogs know four layouts.
LEMMA LayoutsAreThese ==
  ASSUME NEW prefix, Layout(prefix) # None
  PROVE  Layout(prefix) \in Layouts
<1>1. CASE prefix \in {"1747", "1761", "1762", "1766"}
  BY <1>1 DEF Layouts
<1>2. CASE prefix \in {"1763", "1764"}
  <2>1. Layout(prefix) = Layout("1762")
    BY <1>2 DEF Layout
  <2> QED
    BY <2>1 DEF Layouts
<1>3. CASE prefix \notin {"1747", "1761", "1762", "1763", "1764", "1766"}
  BY <1>3 DEF Layout
<1> QED
  BY <1>1, <1>2, <1>3

\* In every layout the type lies in the row, and the number of elements outside it.
LEMMA LayoutFields ==
  ASSUME NEW layout \in Layouts
  PROVE  /\ layout.start \in Nat /\ layout.row \in {8, 10} /\ layout.const \in Nat
         /\ layout.type \in 0..3 /\ layout.size > layout.row
<1>1. PICK prefix \in {"1747", "1761", "1762", "1766"} : layout = Layout(prefix)
  BY DEF Layouts
<1>2. CASE prefix = "1747"
  BY <1>1, <1>2 DEF Layout
<1>3. CASE prefix = "1761"
  BY <1>1, <1>3 DEF Layout
<1>4. CASE prefix = "1762"
  BY <1>1, <1>4 DEF Layout
<1>5. CASE prefix = "1766"
  BY <1>1, <1>5 DEF Layout
<1> QED
  BY <1>1, <1>2, <1>3, <1>4, <1>5

\* A discovery that fails, or an identity that is found, ends well.
LEMMA DiscoveryEnds ==
  ASSUME NEW o, DOMAIN o = Fields, NEW ok \in BOOLEAN
  PROVE  LET e == End(o, ok)
         IN  /\ Resting(e)
             /\ /\ o.kind \in {"discover", "identity"} /\ DOMAIN o.dir = DirFields
                /\ o.kind = "discover" => ~ok
                => Steady(e)
<1> DEFINE e == End(o, ok)
<1>1. DOMAIN e = Fields /\ e.at = "return" /\ e.ok = ok /\ e.kind = o.kind /\ e.dir = o.dir
  BY EndFields
<1> HIDE DEF e
<1>2. Resting(e)
  BY <1>1 DEF Resting
<1>3. ASSUME o.kind \in {"discover", "identity"}, DOMAIN o.dir = DirFields, o.kind = "discover" => ~ok
      PROVE  Steady(e)
  <2>1. Discovering(e)
    BY <1>1, <1>3 DEF Discovering
  <2> QED
    BY <1>1, <1>3, <2>1, DiscoversOnly DEF Steady
<1> QED
  BY <1>2, <1>3 DEF e

\* DiscoverDataFiles and GetIdentity keep the invariant as they begin.
LEMMA BeginDiscoverInv ==
  ASSUME Inv, NEW p \in Procs, BeginDiscover(p)
  PROVE  Inv'
<1> DEFINE dir == [layout |-> None, size |-> 0, asked |-> 0, data |-> <<>>, cut |-> FALSE]
           o(kind) == [Call(kind) EXCEPT !.at = IF kind = "discover" THEN "diagnose" ELSE "identify", !.dir = dir]
<1>1. PICK kind \in {"discover", "identity"} : Become(p, o(kind))
  BY DEF BeginDiscover
<1> DEFINE e == o(kind)
<1>2. /\ DOMAIN e = Fields /\ e.kind = kind /\ e.at \in {"diagnose", "identify"}
      /\ e.dir = dir
  BY DEF Call, Idle, Fields
<1>3. DOMAIN dir = DirFields /\ dir.asked = 0 /\ dir.data = <<>>
  BY DEF DirFields
<1>4. Become(p, e)
  BY <1>1
<1> HIDE DEF e, dir
<1>5. Discovering(e)
  BY <1>1, <1>2, <1>3 DEF Discovering
<1>6. Resting(e) /\ Steady(e)
  BY <1>1, <1>2, <1>5, DiscoversOnly DEF Resting, Steady
<1>7. UNCHANGED <<wire, memory, strayed>>
  BY DEF BeginDiscover
<1> QED
  BY <1>4, <1>6, <1>7, Step DEF Inv

\* A catalog that is known gives the layout to go on with.
LEMMA KnownGoesOn ==
  ASSUME NEW o, DOMAIN o = Fields, NEW prefix, o.at \in {"diagnose", "identify"}
  PROVE  /\ Resting(Known(o, prefix))
         /\ o.kind \in {"discover", "identity"} /\ Discovering(o) => Steady(Known(o, prefix))
<1>1. CASE Layout(prefix) = None
  <2>1. Known(o, prefix) = End(o, FALSE)
    BY <1>1 DEF Known
  <2> QED
    BY <2>1, DiscoveryEnds DEF Discovering
<1>2. CASE Layout(prefix) # None
  <2> DEFINE layout == Layout(prefix)
             e == [o EXCEPT !.at = "size", !.dir.layout = layout]
             dir == [o.dir EXCEPT !.layout = layout]
  <2>1. Known(o, prefix) = e
    BY <1>2 DEF Known
  <2>2. layout \in Layouts
    BY <1>2, LayoutsAreThese
  <2> HIDE DEF layout
  <2>3. DOMAIN e = Fields /\ e.at = "size" /\ e.kind = o.kind /\ e.dir = dir
    BY DEF Fields
  <2> HIDE DEF e
  <2>4. ASSUME o.kind \in {"discover", "identity"}, Discovering(o)
        PROVE  Steady(e)
    <3>1. DOMAIN o.dir = DirFields /\ o.dir.asked = 0 /\ o.dir.data = <<>>
      BY <2>4 DEF Discovering
    <3>2. DOMAIN dir = DirFields /\ dir.asked = 0 /\ dir.data = <<>> /\ dir.layout = layout
      BY <3>1 DEF DirFields
    <3> HIDE DEF dir
    <3>3. Discovering(e)
      BY <2>2, <2>3, <2>4, <3>2 DEF Discovering
    <3> QED
      BY <2>3, <2>4, <3>3, DiscoversOnly DEF Steady
  <2> QED
    BY <2>1, <2>3, <2>4 DEF Resting
<1> QED
  BY <1>1, <1>2

\* GetProcessorType keeps the invariant.
LEMMA DiagnoseInv ==
  ASSUME Inv, NEW p \in Procs, Diagnose(p)
  PROVE  Inv'
<1> DEFINE o == op[p]
           Next_(prefix, reply) == IF Good(reply, "diagnostic") THEN Known(o, prefix) ELSE [o EXCEPT !.at = "identify"]
<1>1. PICK prefix, answer, reply, seen :
        Become(p, Next_(prefix, reply)) /\ UNCHANGED memory /\ Heard(answer, reply, seen)
  BY UnsentHeard, ReceivedHeard, DroppedHeard DEF Diagnose, Ask
<1>2. /\ DOMAIN o = Fields /\ o.at = "diagnose"
      /\ ~strayed => o.kind \in {"discover", "identity"} /\ Discovering(o)
  BY DEF Diagnose, At, Inv, Resting, Steady, Discovering
<1> HIDE DEF o
<1> DEFINE e == [o EXCEPT !.at = "identify"]
<1>3. DOMAIN e = Fields /\ e.at = "identify" /\ e.kind = o.kind /\ e.dir = o.dir
  BY <1>2 DEF Fields
<1> HIDE DEF e
<1>4. Resting(e) /\ (~strayed => Steady(e))
  BY <1>2, <1>3, DiscoversOnly DEF Resting, Steady, Discovering
<1>5. Resting(Known(o, prefix)) /\ (~strayed => Steady(Known(o, prefix)))
  BY <1>2, KnownGoesOn
<1>6. Resting(Next_(prefix, reply)) /\ (~strayed => Steady(Next_(prefix, reply)))
  BY <1>4, <1>5 DEF e
<1> HIDE DEF Next_
<1>7. strayed' \in BOOLEAN /\ (~strayed' => ~strayed /\ wire' = <<>>) /\ DOMAIN memory' = Words
  BY <1>1 DEF Heard, Inv
<1> QED
  BY <1>1, <1>6, <1>7, Step

\* The identity request keeps the invariant.
LEMMA IdentifyInv ==
  ASSUME Inv, NEW p \in Procs, Identify(p)
  PROVE  Inv'
<1> DEFINE o == op[p]
           Next_(prefix, reply) == IF ~Good(reply, "identity") THEN End(o, FALSE)
                                   ELSE IF o.kind = "identity" THEN End(o, TRUE) ELSE Known(o, prefix)
<1>1. PICK prefix, answer, reply, seen :
        Become(p, Next_(prefix, reply)) /\ UNCHANGED memory /\ Heard(answer, reply, seen)
  BY UnsentHeard, ReceivedHeard, DroppedHeard DEF Identify, Ask
<1>2. /\ DOMAIN o = Fields /\ o.at = "identify"
      /\ ~strayed => o.kind \in {"discover", "identity"} /\ Discovering(o)
  BY DEF Identify, At, Inv, Resting, Steady, Discovering
<1> HIDE DEF o
<1>3. ~strayed => DOMAIN o.dir = DirFields
  BY <1>2 DEF Discovering
<1>4. Resting(End(o, FALSE)) /\ (~strayed => Steady(End(o, FALSE)))
  BY <1>2, <1>3, DiscoveryEnds
<1>5. o.kind = "identity" => Resting(End(o, TRUE)) /\ (~strayed => Steady(End(o, TRUE)))
  BY <1>2, <1>3, DiscoveryEnds
<1>6. Resting(Known(o, prefix)) /\ (~strayed => Steady(Known(o, prefix)))
  BY <1>2, KnownGoesOn
<1>7. Resting(Next_(prefix, reply)) /\ (~strayed => Steady(Next_(prefix, reply)))
  BY <1>4, <1>5, <1>6
<1> HIDE DEF Next_
<1>8. strayed' \in BOOLEAN /\ (~strayed' => ~strayed /\ wire' = <<>>) /\ DOMAIN memory' = Words
  BY <1>1 DEF Heard, Inv
<1> QED
  BY <1>1, <1>7, <1>8, Step

\* What is left of the size of the directory in the PLC's header is its rows'.
LEMMA HeaderLeaves ==
  ASSUME NEW layout \in Layouts
  PROVE  /\ HeaderSize(layout) - layout.const - layout.start = Len(Rows) * layout.row
         /\ Len(Rows) * layout.row \in Nat
<1>1. layout.start \in Nat /\ layout.const \in Nat /\ layout.row \in Nat
  <2>1. layout.row \in {8, 10}
    BY LayoutFields
  <2> QED
    BY <2>1, LayoutFields
<1>2. Len(Rows) \in Nat
  BY ListsAssumption
<1> DEFINE m == Len(Rows)
           r == layout.row
           c == layout.const
           s == layout.start
           n == m * r
<1>3. n \in Nat
  BY <1>1, <1>2
<1> HIDE DEF n
<1>4. (s + n + c) - c - s = n
  BY <1>1, <1>3
<1>5. HeaderSize(layout) = s + n + c
  BY DEF HeaderSize, n
<1> QED
  BY <1>3, <1>4, <1>5 DEF n

\* The read of the size of the directory keeps the invariant.
LEMMA AskSizeInv ==
  ASSUME Inv, NEW p \in Procs, AskSize(p)
  PROVE  Inv'
<1> DEFINE o == op[p]
           layout == o.dir.layout
           Headers(reply) == IF reply.data = Section(0, 2).data THEN {HeaderSize(layout)} ELSE {0, HeaderSize(layout)}
           Size(header) == header - layout.const - layout.start
           Next_(header, reply) ==
             IF ~Good(reply, "typed") \/ reply.data = None \/ Size(header) <= 0 THEN End(o, FALSE)
             ELSE [o EXCEPT !.at = "section", !.dir.size = Size(header)]
<1>1. PICK reply, seen :
        /\ \E header \in Headers(reply) : Become(p, Next_(header, reply))
        /\ UNCHANGED memory /\ Heard(Section(0, 2), reply, seen)
  BY UnsentHeard, ReceivedHeard, DroppedHeard DEF AskSize, Ask
<1>2. PICK header \in Headers(reply) : Become(p, Next_(header, reply))
  BY <1>1
<1>3. /\ DOMAIN o = Fields /\ o.at = "size"
      /\ ~strayed => /\ o.kind \in {"discover", "identity"} /\ DOMAIN o.dir = DirFields
                     /\ o.dir.asked = 0 /\ o.dir.data = <<>> /\ layout \in Layouts
  BY DEF AskSize, At, Inv, Resting, Steady, Discovering
<1>4. strayed' \in BOOLEAN /\ (~strayed' => ~strayed /\ wire' = <<>>) /\ DOMAIN memory' = Words
  BY <1>1 DEF Heard, Inv
<1>5. ~strayed' /\ Good(reply, "typed") => header = HeaderSize(layout)
  BY <1>1, <1>2 DEF Heard, Good
<1> HIDE DEF o
<1> DEFINE size == Size(header)
           e == [o EXCEPT !.at = "section", !.dir.size = size]
           dir == [o.dir EXCEPT !.size = size]
<1> HIDE DEF size
<1>6. DOMAIN e = Fields /\ e.at = "section" /\ e.kind = o.kind /\ e.dir = dir
  BY <1>3 DEF Fields
<1> HIDE DEF e
<1>7. ASSUME ~strayed', Good(reply, "typed"), ~(size <= 0)
      PROVE  Steady(e)
  <2>1. /\ o.kind \in {"discover", "identity"} /\ DOMAIN o.dir = DirFields
        /\ o.dir.asked = 0 /\ o.dir.data = <<>> /\ layout \in Layouts
    BY <1>3, <1>4, <1>7
  <2>2. /\ DOMAIN dir = DirFields /\ dir.asked = 0 /\ dir.data = <<>> /\ dir.layout = layout /\ dir.size = size
    BY <2>1 DEF DirFields
  <2> HIDE DEF dir
  <2>3. size = Len(Rows) * layout.row /\ size \in Nat
    BY <1>5, <1>7, <2>1, HeaderLeaves DEF size
  <2> HIDE DEF layout
  <2>4. Len(<<>>) = 0 /\ 1..0 = {} /\ <<>> = [k \in 1..0 |-> <<>>[k]]
    OBVIOUS
  <2>5. 0 < size
    BY <1>7, <2>3
  <2>6. Sections(dir)
    BY <2>1, <2>2, <2>3, <2>4, <2>5 DEF Sections
  <2>7. Discovering(e)
    BY <1>6, <2>1, <2>2, <2>5, <2>6 DEF Discovering
  <2> QED
    BY <1>6, <2>1, <2>7, DiscoversOnly DEF Steady
<1>8. Resting(End(o, FALSE)) /\ (~strayed' => Steady(End(o, FALSE)))
  BY <1>3, <1>4, DiscoveryEnds
<1>9. Resting(Next_(header, reply)) /\ (~strayed' => Steady(Next_(header, reply)))
  BY <1>6, <1>7, <1>8 DEF Resting, e, size
<1> HIDE DEF Next_
<1> QED
  BY <1>1, <1>2, <1>4, <1>9, Step

\* The part of the directory that is asked for next.
NextPart(dir) == IF dir.size - dir.asked < 80 THEN dir.size - dir.asked ELSE 80

\* The directory with that part at its end, whole or cut.
WithPart(dir, data, cut) == [dir EXCEPT !.asked = @ + NextPart(dir), !.data = data, !.cut = @ \/ cut]

\* What the directory is with one more part.
LEMMA PartFields ==
  ASSUME NEW dir, DOMAIN dir = DirFields, NEW data, NEW cut
  PROVE  LET e == WithPart(dir, data, cut)
         IN  /\ DOMAIN e = DirFields /\ e.asked = dir.asked + NextPart(dir) /\ e.data = data
             /\ e.layout = dir.layout /\ e.size = dir.size /\ e.cut = (dir.cut \/ cut)
<1> DEFINE n == dir.asked + NextPart(dir)
           c == dir.cut \/ cut
           e == WithPart(dir, data, cut)
<1>1. e = [dir EXCEPT !.asked = n, !.data = data, !.cut = c]
  BY DEF WithPart
<1> HIDE DEF n, c, e
<1>2. /\ DOMAIN e = DirFields /\ e.asked = n /\ e.data = data /\ e.layout = dir.layout /\ e.size = dir.size
      /\ e.cut = c
  BY <1>1 DEF DirFields
<1> QED
  BY <1>2 DEF n, c, e

\* One more part keeps the sections end to end, and does not go beyond the directory.
LEMMA SectionsGrow ==
  ASSUME NEW dir, DOMAIN dir = DirFields, Sections(dir), dir.asked < dir.size, NEW cut
  PROVE  LET s == Section(dir.layout.start + dir.asked, NextPart(dir)).data
         IN  /\ s # None /\ Sections(WithPart(dir, Append(dir.data, s), cut))
             /\ dir.size \in Nat /\ dir.asked \in Nat /\ dir.asked + NextPart(dir) <= dir.size
<1> DEFINE m == Len(dir.data)
           size == dir.size
           start == dir.layout.start
           n == NextPart(dir)
           s == Section(start + dir.asked, n).data
           data == Append(dir.data, s)
           e == WithPart(dir, data, cut)
<1>1. /\ dir.layout \in Layouts /\ m \in Nat /\ dir.data = [k \in 1..m |-> dir.data[k]]
      /\ size = Len(Rows) * dir.layout.row
      /\ \A k \in 1..m :
           /\ size - 80 * (k - 1) > 0
           /\ dir.data[k] = Stretch("sys", 0, start + 80 * (k - 1),
                                    IF size - 80 * (k - 1) < 80 THEN size - 80 * (k - 1) ELSE 80)
  BY DEF Sections
<1>2. size \in Nat /\ start \in Nat
  BY <1>1, HeaderLeaves, LayoutFields
<1>3. dir.asked = IF 80 * m < size THEN 80 * m ELSE size
  BY DEF Sections
<1>4. dir.asked < size
  OBVIOUS
<1>5. n = IF size - dir.asked < 80 THEN size - dir.asked ELSE 80
  BY DEF NextPart
<1>6. s = Stretch("sys", 0, start + dir.asked, n)
  BY DEF Section, Reply
<1>7. /\ DOMAIN e = DirFields /\ e.asked = dir.asked + n /\ e.data = data
      /\ e.layout = dir.layout /\ e.size = size
  <2> HIDE DEF data
  <2> QED
    BY PartFields
<1>8. /\ Len(data) = m + 1 /\ data = [k \in 1..(m + 1) |-> data[k]]
      /\ data[m + 1] = s /\ \A k \in 1..m : data[k] = dir.data[k]
  <2> DEFINE old == dir.data
             D == {old[k] : k \in 1..m}
  <2>1. old = [k \in 1..m |-> old[k]] /\ m \in Nat
    BY <1>1
  <2>2. \A k \in 1..m : old[k] \in D
    OBVIOUS
  <2> HIDE DEF D, s, m, old
  <2>3. old \in Seq(D) /\ Len(old) = m
    BY <2>1, <2>2
  <2>4. /\ Append(old, s) \in Seq(D \cup {s}) /\ Len(Append(old, s)) = m + 1
        /\ Append(old, s)[m + 1] = s /\ \A k \in 1..m : Append(old, s)[k] = old[k]
    BY <2>3
  <2> DEFINE new == Append(old, s)
             D1 == D \cup {s}
  <2>5. new = [k \in 1..(m + 1) |-> new[k]]
    <3>1. new \in Seq(D1) /\ Len(new) = m + 1
      BY <2>4
    <3> HIDE DEF new, D1
    <3> QED
      BY <3>1
  <2> QED
    BY <2>4, <2>5 DEF old
<1> HIDE DEF n, s, data, e, m, size, start
<1>9. dir.asked = 80 * m /\ size - 80 * m > 0 /\ n \in Nat
  BY <1>1, <1>2, <1>3, <1>4, <1>5
<1>10. s # None
  <2>1. s \in [type : {"sys"}, file : {0}, off : Nat, len : Nat]
    BY <1>2, <1>6, <1>9, <1>1 DEF Stretch
  <2> QED
    BY <2>1, MissingAssumption
<1>11. dir.asked + n = IF 80 * (m + 1) < size THEN 80 * (m + 1) ELSE size
  <2>1. 80 * (m + 1) = 80 * m + 80
    BY <1>1
  <2> DEFINE b == 80 * m
  <2>2. b \in Nat /\ dir.asked = b /\ size - b > 0 /\ n = (IF size - b < 80 THEN size - b ELSE 80)
    BY <1>1, <1>5, <1>9
  <2> HIDE DEF b
  <2>3. b + n = IF b + 80 < size THEN b + 80 ELSE size
    BY <1>2, <2>2
  <2> QED
    BY <2>1, <2>2, <2>3 DEF b
<1>12. ASSUME NEW k \in 1..(m + 1)
       PROVE  /\ size - 80 * (k - 1) > 0
              /\ data[k] = Stretch("sys", 0, start + 80 * (k - 1),
                                    IF size - 80 * (k - 1) < 80 THEN size - 80 * (k - 1) ELSE 80)
  <2>1. CASE k \in 1..m
    BY <1>1, <1>8, <2>1
  <2>2. CASE k = m + 1
    <3>1. (m + 1) - 1 = m
      BY <1>1
    <3> QED
      BY <1>5, <1>6, <1>8, <1>9, <2>2, <3>1
  <2> QED
    BY <1>1, <2>1, <2>2
<1>13. Sections(e)
  <2>1. Len(e.data) = m + 1 /\ m + 1 \in Nat /\ e.layout = dir.layout /\ e.size = size /\ e.layout.start = start
    BY <1>1, <1>7, <1>8 DEF start
  <2>2. e.layout \in Layouts /\ e.size = Len(Rows) * e.layout.row
    BY <1>1, <2>1
  <2>3. e.data = [k \in 1..(m + 1) |-> e.data[k]]
    BY <1>7, <1>8
  <2>4. e.asked = IF 80 * (m + 1) < e.size THEN 80 * (m + 1) ELSE e.size
    BY <1>7, <1>11
  <2>5. \A k \in 1..(m + 1) :
          /\ e.size - 80 * (k - 1) > 0
          /\ e.data[k] = Stretch("sys", 0, e.layout.start + 80 * (k - 1),
                                IF e.size - 80 * (k - 1) < 80 THEN e.size - 80 * (k - 1) ELSE 80)
    BY <1>7, <1>12, <2>1
  <2> QED
    BY <2>1, <2>2, <2>3, <2>4, <2>5 DEF Sections
<1>14. dir.asked + n <= size /\ dir.asked \in Nat
  BY <1>1, <1>2, <1>9, <1>11
<1> QED
  BY <1>2, <1>10, <1>13, <1>14 DEF e, data, s, n, start, size

\* A section that has all that was asked for is what was asked for.
LEMMA WholeSection ==
  ASSUME NEW off, NEW n, NEW answer \in SectionAnswers(off, n), answer.data.len = n
  PROVE  answer.data = Section(off, n).data
<1>1. PICK l : answer = Section(off, l)
  BY DEF SectionAnswers
<1>2. Section(off, l).data.len = l
  BY DEF Section, Reply, Stretch
<1> QED
  BY <1>1, <1>2

\* readSection keeps the invariant.
LEMMA AskSectionInv ==
  ASSUME Inv, NEW p \in Procs, AskSection(p)
  PROVE  Inv'
<1> DEFINE o == op[p]
           d == o.dir
           n == IF d.size - d.asked < 80 THEN d.size - d.asked ELSE 80
           Data(reply) == IF reply.data = None THEN d.data ELSE Append(d.data, reply.data)
           Cut_(reply) == reply.data = None \/ reply.data.len # n
           More(reply) == [o EXCEPT !.dir.asked = @ + n, !.dir.data = Data(reply), !.dir.cut = @ \/ Cut_(reply)]
           Next_(reply) == IF ~Good(reply, "typed") THEN End(o, FALSE)
                           ELSE IF More(reply).dir.asked < d.size THEN More(reply) ELSE End(More(reply), TRUE)
           Got(reply, seen) == Become(p, Next_(reply)) /\ UNCHANGED memory
<1>0. PICK asked \in SectionAnswers(d.layout.start + d.asked, n) :
        \/ Unsent /\ Got(Failing("down"), FALSE)
        \/ \E arrival \in Arrivals(asked) : Received(arrival) /\ Got(Head(wire \o arrival), arrival # <<Refusal>>)
        \/ \E seen \in BOOLEAN : Dropped /\ Got(Failing("broken"), seen)
  BY DEF AskSection, Ask
<1>1. PICK answer, reply, seen :
        /\ answer \in SectionAnswers(d.layout.start + d.asked, n)
        /\ Become(p, Next_(reply)) /\ UNCHANGED memory /\ Heard(answer, reply, seen)
  <2> HIDE DEF Next_, n, d
  <2> QED
    BY <1>0, UnsentHeard, ReceivedHeard, DroppedHeard
<1>2. /\ DOMAIN o = Fields /\ o.at = "section"
      /\ ~strayed => /\ o.kind \in {"discover", "identity"} /\ DOMAIN o.dir = DirFields
                     /\ ~o.dir.cut => Sections(o.dir) /\ o.dir.asked < o.dir.size
  BY DEF AskSection, At, Inv, Resting, Steady, Discovering
<1>3. strayed' \in BOOLEAN /\ (~strayed' => ~strayed /\ wire' = <<>>) /\ DOMAIN memory' = Words
  BY <1>1 DEF Heard, Inv
<1>4. ~strayed' /\ Good(reply, "typed") => reply = answer
  BY <1>1 DEF Heard, Good
<1>5. Resting(End(o, FALSE)) /\ (~strayed' => Steady(End(o, FALSE)))
  BY <1>2, <1>3, DiscoveryEnds
<1> DEFINE e == More(reply)
           dir == [d EXCEPT !.asked = @ + n, !.data = Data(reply), !.cut = @ \/ Cut_(reply)]
<1> HIDE DEF o, n, Data, Cut_
<1>6. DOMAIN e = Fields /\ e.at = o.at /\ e.kind = o.kind /\ e.dir = dir
  BY <1>2 DEF Fields
<1>7. DOMAIN End(e, TRUE) = Fields /\ End(e, TRUE).at = "return" /\ End(e, TRUE).ok = TRUE
      /\ End(e, TRUE).kind = o.kind /\ End(e, TRUE).dir = dir
  <2> HIDE DEF e, dir
  <2> QED
    BY <1>6 DEF End, Fields
<1>8. Resting(e) /\ Resting(End(e, TRUE))
  BY <1>2, <1>6, <1>7 DEF Resting
<1>9. ASSUME ~strayed', Good(reply, "typed")
      PROVE  /\ dir.asked < d.size => Steady(e)
             /\ ~(dir.asked < d.size) => Steady(End(e, TRUE))
  <2>1. /\ o.kind \in {"discover", "identity"} /\ DOMAIN d = DirFields
        /\ ~d.cut => Sections(d) /\ d.asked < d.size
    BY <1>2, <1>3, <1>9
  <2>2. n = NextPart(d)
    BY DEF n, NextPart
  <2>3. dir = WithPart(d, Data(reply), Cut_(reply))
    BY <2>2 DEF WithPart
  <2> HIDE DEF e, dir, d
  <2>4. /\ DOMAIN dir = DirFields /\ dir.size = d.size /\ dir.asked = d.asked + NextPart(d)
        /\ dir.cut = (d.cut \/ Cut_(reply))
    BY <2>1, <2>3, PartFields
  <2>5. ASSUME ~dir.cut
        PROVE  /\ Sections(dir) /\ d.asked < d.size
               /\ d.size \in Nat /\ d.asked \in Nat /\ d.asked + NextPart(d) <= d.size
    <3>1. ~d.cut /\ ~Cut_(reply)
      BY <2>4, <2>5
    <3>2. reply.data # None /\ reply.data.len = n
      BY <3>1 DEF Cut_
    <3>3. reply.data = Section(d.layout.start + d.asked, NextPart(d)).data
      BY <1>1, <1>4, <1>9, <2>2, <3>2, WholeSection
    <3>4. /\ Sections(WithPart(d, Append(d.data, reply.data), Cut_(reply)))
          /\ d.size \in Nat /\ d.asked \in Nat /\ d.asked + NextPart(d) <= d.size
      BY <2>1, <3>1, <3>3, SectionsGrow
    <3>5. Data(reply) = Append(d.data, reply.data)
      BY <3>2 DEF Data
    <3> QED
      BY <2>1, <2>3, <3>1, <3>4, <3>5
  <2>6. dir.asked < dir.size => Discovering(e)
    BY <1>2, <1>6, <2>1, <2>4, <2>5 DEF Discovering
  <2>7. ASSUME ~(dir.asked < dir.size)
        PROVE  Discovering(End(e, TRUE))
    <3>1. ~dir.cut => dir.asked = dir.size /\ dir.size > 0
      <4> SUFFICES ASSUME ~dir.cut
                   PROVE  dir.asked = dir.size /\ dir.size > 0
        OBVIOUS
      <4>1. /\ d.size \in Nat /\ d.asked \in Nat /\ d.asked < d.size /\ dir.size = d.size
            /\ dir.asked = d.asked + NextPart(d) /\ d.asked + NextPart(d) <= d.size
        BY <2>4, <2>5
      <4>2. NextPart(d) \in Nat
        BY <4>1 DEF NextPart
      <4> QED
        BY <2>7, <4>1, <4>2
    <3> QED
      BY <1>7, <2>1, <2>4, <2>5, <3>1 DEF Discovering
  <2>8. Writing(e) /\ Reading(e)
    BY <1>2, <1>6, <2>1, DiscoversOnly
  <2>9. Writing(End(e, TRUE)) /\ Reading(End(e, TRUE))
    <3> DEFINE g == End(e, TRUE)
    <3>1. g.kind \in {"discover", "identity"} /\ g.at = "return"
      BY <1>7, <2>1
    <3> HIDE DEF g
    <3>2. Writing(g) /\ Reading(g)
      BY <3>1, DiscoversOnly
    <3> QED
      BY <3>2 DEF g
  <2> QED
    BY <2>4, <2>6, <2>7, <2>8, <2>9 DEF Steady
<1>10. Resting(Next_(reply)) /\ (~strayed' => Steady(Next_(reply)))
  <2>1. CASE ~Good(reply, "typed")
    BY <1>5, <2>1
  <2>2. CASE Good(reply, "typed")
    <3>1. Next_(reply) = IF dir.asked < d.size THEN e ELSE End(e, TRUE)
      <4>1. Next_(reply) = IF e.dir.asked < d.size THEN e ELSE End(e, TRUE)
        BY <2>2
      <4> HIDE DEF Next_, e, dir
      <4> QED
        BY <1>6, <4>1
    <3> HIDE DEF Next_, e, dir
    <3> QED
      BY <1>8, <1>9, <2>2, <3>1
  <2> QED
    BY <2>1, <2>2
<1> HIDE DEF Next_
<1> QED
  BY <1>1, <1>3, <1>10, Step

-----------------------------------------------------------------------------
(* The invariant *)

\* A goroutine without a call has nothing to keep.
LEMMA IdleIsSteady == Resting(Idle) /\ Steady(Idle)
BY DEF Resting, Steady, Writing, Reading, Discovering, Idle, Fields

\* A call that neither reads, writes nor discovers has nothing to keep.
LEMMA OthersEnd ==
  ASSUME NEW kind \in {"keepalive", "close"}, NEW ok
  PROVE  Resting(End(Call(kind), ok)) /\ Steady(End(Call(kind), ok))
<1> DEFINE o == Call(kind)
           e == End(o, ok)
<1>1. DOMAIN o = Fields /\ o.kind = kind
  BY DEF Call, Idle, Fields
<1> HIDE DEF o
<1>2. DOMAIN e = Fields /\ e.at = "return" /\ e.kind = kind
  BY <1>1 DEF End, Fields
<1> HIDE DEF e
<1>3. Resting(e) /\ Steady(e)
  BY <1>2 DEF Resting, Steady, Writing, Reading, Discovering
<1> QED
  BY <1>3 DEF e, o

\* Nothing runs at first.
LEMMA InitInv == Init => Inv
<1> SUFFICES ASSUME Init PROVE Inv
  OBVIOUS
<1>1. /\ DOMAIN op = Procs /\ DOMAIN memory = Words /\ strayed = FALSE /\ wire = <<>>
      /\ \A p \in Procs : op[p] = Idle
  BY DEF Init
<1> QED
  BY <1>1, IdleIsSteady DEF Inv

\* Connect leaves no call and an empty wire.
LEMMA ConnectInv ==
  ASSUME Inv, Connect
  PROVE  Inv'
<1>1. \A p \in Procs : op[p] = Idle
  BY DEF Connect, At, Inv, Resting
<1>2. DOMAIN op' = Procs /\ DOMAIN memory' = Words /\ strayed' = FALSE /\ wire' = <<>>
  BY DEF Connect, Inv
<1>3. \A p \in Procs : op'[p] = Idle
  BY <1>1 DEF Connect
<1>4. \A p \in Procs : Resting(op'[p]) /\ Steady(op'[p])
  BY <1>3, IdleIsSteady
<1>5. /\ DOMAIN op' = Procs /\ DOMAIN memory' = Words /\ strayed' \in BOOLEAN
      /\ \A q \in Procs : Resting(op'[q])
      /\ ~strayed' => wire' = <<>> /\ \A q \in Procs : Steady(op'[q])
  BY <1>2, <1>4
<1> QED
  BY <1>5 DEF Inv, Resting, Steady

\* Calls that are all gone keep the invariant.
LEMMA AllGone ==
  ASSUME Inv, op' = [q \in Procs |-> Idle], UNCHANGED <<memory, strayed>>, ~strayed => wire' = <<>>
  PROVE  Inv'
<1>1. DOMAIN op' = Procs /\ DOMAIN memory' = Words /\ strayed' \in BOOLEAN /\ (~strayed' => wire' = <<>>)
  BY DEF Inv
<1>2. \A q \in Procs : op'[q] = Idle
  OBVIOUS
<1>3. \A q \in Procs : Resting(op'[q]) /\ Steady(op'[q])
  BY <1>2, IdleIsSteady
<1>4. /\ DOMAIN op' = Procs /\ DOMAIN memory' = Words /\ strayed' \in BOOLEAN
      /\ \A q \in Procs : Resting(op'[q])
      /\ ~strayed' => wire' = <<>> /\ \A q \in Procs : Steady(op'[q])
  BY <1>1, <1>3
<1> QED
  BY <1>4 DEF Inv, Resting, Steady

\* No call outlives a panic.
LEMMA PanicInv ==
  ASSUME Inv, NEW p \in Procs, Panic(p)
  PROVE  Inv'
<1>1. op' = [q \in Procs |-> Idle] /\ UNCHANGED <<memory, strayed>> /\ wire' = <<>>
  BY DEF Panic
<1> QED
  BY <1>1, AllGone

\* A Read that finds its client gone ends with the process, or with an error and no results.
LEMMA NilClientInv ==
  ASSUME Inv, NEW p \in Procs, NilClient(p)
  PROVE  Inv'
<1>1. UNCHANGED <<memory, strayed, wire>>
  BY DEF NilClient
<1>2. CASE op' = [q \in Procs |-> Idle]
  BY <1>1, <1>2, AllGone DEF Inv
<1>3. CASE At(p, "rest") /\ Become(p, [End(op[p], FALSE) EXCEPT !.results = <<>>])
  <2> DEFINE o == op[p]
             e == End(o, FALSE)
             none == [e EXCEPT !.results = <<>>]
  <2>1. /\ DOMAIN o = Fields
        /\ ~strayed => o.kind = "read" /\ Requests(o.addrs)
    BY <1>3 DEF At, Inv, Resting, Steady, Reading
  <2> HIDE DEF o
  <2>2. DOMAIN e = Fields /\ e.at = "return" /\ e.ok = FALSE /\ e.kind = o.kind /\ e.addrs = o.addrs
    BY <2>1, EndFields
  <2> HIDE DEF e
  <2>3. /\ DOMAIN none = Fields /\ none.at = "return" /\ none.ok = FALSE /\ none.kind = o.kind
        /\ none.addrs = o.addrs /\ none.results = <<>>
    BY <2>2 DEF Fields
  <2>4. Become(p, none)
    BY <1>3 DEF o, e
  <2> HIDE DEF none
  <2>5. Resting(none)
    BY <2>3 DEF Resting
  <2>6. ASSUME ~strayed
        PROVE  Steady(none)
    <3>1. ReadsInPlace(none)
      BY <2>1, <2>3, <2>6 DEF ReadsInPlace
    <3>2. Reading(none)
      BY <2>1, <2>3, <2>6, <3>1 DEF Reading
    <3> QED
      BY <2>1, <2>3, <2>6, <3>2, ReadsOnly DEF Steady
  <2> QED
    BY <1>1, <2>4, <2>5, <2>6, Step DEF Inv
<1> QED
  BY <1>2, <1>3 DEF NilClient

\* A step that leaves the calls and the wire alone keeps the invariant.
LEMMA CallsAsTheyWere ==
  ASSUME Inv, UNCHANGED <<op, wire, strayed>>, DOMAIN memory' = Words
  PROVE  Inv'
<1>1. DOMAIN op' = Procs /\ strayed' \in BOOLEAN
  BY DEF Inv
<1>2. \A q \in Procs : op'[q] = op[q]
  OBVIOUS
<1>3. \A q \in Procs : Resting(op'[q])
  BY <1>2 DEF Inv
<1>4. ~strayed' => wire' = <<>> /\ \A q \in Procs : Steady(op'[q])
  BY <1>2 DEF Inv
<1>5. /\ DOMAIN op' = Procs /\ DOMAIN memory' = Words /\ strayed' \in BOOLEAN
      /\ \A q \in Procs : Resting(op'[q])
      /\ ~strayed' => wire' = <<>> /\ \A q \in Procs : Steady(op'[q])
  BY <1>1, <1>3, <1>4
<1> QED
  BY <1>5 DEF Inv, Resting, Steady

\* No call relies on what the PLC's program changes.
LEMMA ProgramInv ==
  ASSUME Inv, Program
  PROVE  Inv'
<1>1. DOMAIN memory' = Words
  BY DEF Program, Inv
<1>2. UNCHANGED <<op, wire, strayed>>
  BY DEF Program
<1> QED
  BY <1>1, <1>2, CallsAsTheyWere

\* Keepalive, Close and the return of a call keep the invariant.
LEMMA SessionInv ==
  ASSUME Inv, NEW p \in Procs, Keepalive(p) \/ Close(p) \/ Return(p)
  PROVE  Inv'
<1>1. /\ strayed' = strayed /\ strayed \in BOOLEAN /\ memory' = memory /\ DOMAIN memory' = Words
      /\ wire' \in {wire, <<>>} /\ (~strayed => wire' = <<>>)
  BY DEF Keepalive, Close, Return, Inv
<1>2. CASE Keepalive(p)
  <2>1. PICK ok : Become(p, End(Call("keepalive"), ok))
    BY <1>2 DEF Keepalive
  <2> QED
    BY <1>1, <2>1, OthersEnd, Step
<1>3. CASE Close(p)
  <2>1. PICK ok : Become(p, End(Call("close"), ok))
    BY <1>3 DEF Close
  <2> QED
    BY <1>1, <2>1, OthersEnd, Step
<1>4. CASE Return(p)
  <2>1. Become(p, Idle)
    BY <1>4 DEF Return
  <2> QED
    BY <1>1, <2>1, IdleIsSteady, Step
<1> QED
  BY <1>2, <1>3, <1>4

\* Every step keeps the invariant.
LEMMA NextInv == Inv /\ [Next]_vars => Inv'
<1> SUFFICES ASSUME Inv, [Next]_vars PROVE Inv'
  OBVIOUS
<1>1. CASE Connect
  BY <1>1, ConnectInv
<1>2. CASE Program
  BY <1>2, ProgramInv
<1>3. ASSUME NEW p \in Procs, BeginRead(p) PROVE Inv'
  BY <1>3, BeginReadInv
<1>4. ASSUME NEW p \in Procs, ReadBulk(p) PROVE Inv'
  BY <1>4, ReadBulkInv
<1>5. ASSUME NEW p \in Procs, ReadOne(p) PROVE Inv'
  BY <1>5, ReadOneInv
<1>6. ASSUME NEW p \in Procs, EndRead(p) PROVE Inv'
  BY <1>6, EndReadInv
<1>7. ASSUME NEW p \in Procs, BeginWrite(p) PROVE Inv'
  BY <1>7, BeginWriteInv
<1>8. ASSUME NEW p \in Procs, ReadWord(p) PROVE Inv'
  BY <1>8, ReadWordInv
<1>9. ASSUME NEW p \in Procs, Put(p) PROVE Inv'
  BY <1>9, PutInv
<1>10. ASSUME NEW p \in Procs, BeginDiscover(p) PROVE Inv'
  BY <1>10, BeginDiscoverInv
<1>11. ASSUME NEW p \in Procs, Diagnose(p) PROVE Inv'
  BY <1>11, DiagnoseInv
<1>12. ASSUME NEW p \in Procs, Identify(p) PROVE Inv'
  BY <1>12, IdentifyInv
<1>13. ASSUME NEW p \in Procs, AskSize(p) PROVE Inv'
  BY <1>13, AskSizeInv
<1>14. ASSUME NEW p \in Procs, AskSection(p) PROVE Inv'
  BY <1>14, AskSectionInv
<1>15. ASSUME NEW p \in Procs, Keepalive(p) \/ Close(p) \/ Return(p) PROVE Inv'
  BY <1>15, SessionInv
<1>16. ASSUME NEW p \in Procs, Panic(p) PROVE Inv'
  BY <1>16, PanicInv
<1>17. ASSUME NEW p \in Procs, NilClient(p) PROVE Inv'
  BY <1>17, NilClientInv
<1>18. CASE UNCHANGED vars
  BY <1>18, CallsAsTheyWere DEF vars, Inv
<1> QED
  BY <1>1, <1>2, <1>3, <1>4, <1>5, <1>6, <1>7, <1>8, <1>9, <1>10, <1>11, <1>12, <1>13, <1>14, <1>15,
     <1>16, <1>17, <1>18 DEF Next

\* The inductive invariant.
THEOREM Invariant == Spec => []Inv
<1>1. Init => Inv
  BY InitInv
<1>2. Inv /\ [Next]_vars => Inv'
  BY NextInv
<1> QED
  BY <1>1, <1>2, PTL DEF Spec

-----------------------------------------------------------------------------
(* The directory in its sections *)

\* How many of so many bytes have come with the first k sections.
Come(size, k) == IF 80 * k < size THEN 80 * k ELSE size

\* So many sections of 80 bytes, the last of them cut.
InSections(data, n, size) ==
  /\ DOMAIN data = 1..n
  /\ \A k \in 1..n : /\ size - 80 * (k - 1) > 0
                     /\ data[k].len = IF size - 80 * (k - 1) < 80 THEN size - 80 * (k - 1) ELSE 80

\* They amount to what has been asked for.
LEMMA BytesOf ==
  ASSUME NEW n \in Nat, NEW data, NEW size \in Nat, InSections(data, n, size)
  PROVE  Bytes(data) = Come(size, n)
<1> DEFINE g == [k \in 1..n |-> data[k].len]
<1>1. DOMAIN data = 1..n /\ \A k \in 1..n : data[k].len \in Nat
  BY DEF InSections
<1>2. g \in [1..n -> Int] /\ \A k \in 1..n : g[k] = data[k].len
  BY <1>1
<1>3. Bytes(data) = RunningSum(n, 0, g)[1..n]
  <2> DEFINE G == CHOOSE f : f = [s \in SUBSET DOMAIN data |->
                     IF s = {} THEN 0 ELSE f[s \ {Max(s)}] + data[Max(s)].len]
  <2>1. Bytes(data) = G[DOMAIN data]
    BY DEF Bytes, FoldLeft, MapThenFoldSet
  <2>2. \A s \in SUBSET (1..n) : s # {} => data[Max(s)].len = g[Max(s)]
    <3>1. \A s \in SUBSET (1..n) : s # {} => Max(s) \in 1..n
      BY MaxOf
    <3> QED
      BY <1>2, <3>1
  <2> HIDE DEF g
  <2>3. \A f : SumsUp(f, n, 0, g)
               <=> f = [s \in SUBSET DOMAIN data |->
                     IF s = {} THEN 0 ELSE f[s \ {Max(s)}] + data[Max(s)].len]
    BY <1>1, <2>2 DEF SumsUp
  <2>4. RunningSum(n, 0, g) = G
    BY <2>3 DEF RunningSum
  <2> HIDE DEF G
  <2> QED
    BY <1>1, <2>1, <2>4
<1> HIDE DEF g
<1>4. PICK F : /\ F = RunningSum(n, 0, g)
               /\ F[1..0] = 0
               /\ \A k \in 0..n : F[1..k] \in Int
               /\ \A k \in 1..n : F[1..k] = F[1..(k - 1)] + g[k]
  <2> DEFINE base == 0
  <2>1. base \in Int
    OBVIOUS
  <2> HIDE DEF base
  <2>2. \E F : /\ F = RunningSum(n, base, g)
               /\ F[1..0] = base
               /\ \A k \in 0..n : F[1..k] \in Int
               /\ \A k \in 1..n : F[1..k] = F[1..(k - 1)] + g[k]
    BY <1>2, <2>1, SumFold
  <2> QED
    BY <2>2 DEF base
<1> DEFINE S == {k \in 0..n : F[1..k] = Come(size, k)}
<1>5. 0 \in S
  BY <1>4 DEF Come
<1>6. ASSUME NEW k \in 1..n, k - 1 \in S
      PROVE  k \in S
  <2>1. F[1..(k - 1)] = Come(size, k - 1) /\ F[1..k] = F[1..(k - 1)] + g[k]
    BY <1>4, <1>6
  <2>2. /\ size - 80 * (k - 1) > 0
        /\ g[k] = IF size - 80 * (k - 1) < 80 THEN size - 80 * (k - 1) ELSE 80
    BY <1>2 DEF InSections
  <2>3. Come(size, k - 1) = 80 * (k - 1)
    BY <2>2 DEF Come
  <2>4. 80 * (k - 1) + g[k] = Come(size, k)
    BY <2>2 DEF Come
  <2> QED
    BY <2>1, <2>3, <2>4
<1>7. n \in S
  <2> HIDE DEF S
  <2>1. \A k \in 1..n : k - 1 \in S => k \in S
    BY <1>6
  <2>2. \A k \in 0..n : k \in S
    BY <1>5, <2>1, PrefixInduction
  <2> QED
    BY <2>2
<1> QED
  BY <1>3, <1>4, <1>7

\* Every byte of the directory is where it is in the system file.
LEMMA BytesInPlace ==
  ASSUME NEW dir, Sections(dir), dir.asked = dir.size, NEW k \in Nat, k < dir.size
  PROVE  ByteAt(dir.data, k) = dir.layout.start + k
<1> DEFINE data == dir.data
           m == Len(data)
           size == dir.size
           start == dir.layout.start
           Before(i) == Bytes(SubSeq(data, 1, i))
           Here(i) == Before(i - 1) <= k /\ k < Before(i)
           place == CHOOSE i \in DOMAIN data : Here(i)
<1>1. /\ dir.layout \in Layouts /\ m \in Nat /\ DOMAIN data = 1..m /\ size = Len(Rows) * dir.layout.row
      /\ \A i \in 1..m :
           /\ size - 80 * (i - 1) > 0
           /\ data[i] = Stretch("sys", 0, start + 80 * (i - 1),
                                IF size - 80 * (i - 1) < 80 THEN size - 80 * (i - 1) ELSE 80)
      /\ dir.asked = IF 80 * m < size THEN 80 * m ELSE size
  BY DEF Sections
<1>2. size \in Nat /\ start \in Nat /\ k < size
  BY <1>1, HeaderLeaves, LayoutFields
<1>3. ~(80 * m < size)
  <2> HIDE DEF m, data
  <2> QED
    BY <1>1, <1>2
<1>4. \A i \in 1..m : /\ data[i].type = "sys" /\ data[i].off = start + 80 * (i - 1)
                      /\ data[i].len = IF size - 80 * (i - 1) < 80 THEN size - 80 * (i - 1) ELSE 80
  <2>1. \A off, len : LET s == Stretch("sys", 0, off, len)
                     IN  s.type = "sys" /\ s.off = off /\ s.len = len
    BY DEF Stretch
  <2> HIDE DEF data, m, size, start
  <2> QED
    BY <1>1, <2>1
<1> HIDE DEF data, m, size, start
<1>5. ASSUME NEW i \in 0..m
      PROVE  Before(i) = Come(size, i)
  <2> DEFINE d == SubSeq(data, 1, i)
  <2>1. i \in Nat /\ i <= m
    BY <1>1
  <2>2. \A j \in 1..i : j \in 1..m /\ d[j] = data[j]
    BY <1>1, <2>1 DEF SubSeq
  <2>3. DOMAIN d = 1..i
    BY <2>1 DEF SubSeq
  <2> HIDE DEF d
  <2>4. \A j \in 1..i : /\ size - 80 * (j - 1) > 0
                        /\ d[j].len = IF size - 80 * (j - 1) < 80 THEN size - 80 * (j - 1) ELSE 80
    BY <1>1, <1>4, <2>2
  <2> QED
    <3>1. InSections(d, i, size)
      BY <2>3, <2>4 DEF InSections
    <3>2. Bytes(d) = Come(size, i)
      BY <1>2, <2>1, <3>1, BytesOf
    <3> QED
      BY <3>2 DEF d, Before
<1> HIDE DEF Before
<1>6. \E i \in 1..m : Here(i)
  <2> DEFINE i == (k \div 80) + 1
  <2>1. i \in Nat /\ i - 1 \in Nat /\ 80 * (i - 1) <= k /\ k < 80 * i
    OBVIOUS
  <2> HIDE DEF i
  <2>2. i \in 1..m /\ i \in 0..m /\ i - 1 \in 0..m
    BY <1>1, <1>2, <1>3, <2>1
  <2>3. Come(size, i - 1) <= k /\ k < Come(size, i)
    BY <1>2, <2>1 DEF Come
  <2> QED
    BY <1>5, <2>2, <2>3
<1>7. place \in 1..m /\ Here(place)
  <2>1. DOMAIN data = 1..m
    BY <1>1
  <2> HIDE DEF Here
  <2> QED
    BY <1>6, <2>1
<1>8. ByteAt(data, k) = IF data[place].type = "sys" THEN data[place].off + k - Before(place - 1) ELSE -1
  BY DEF ByteAt, Before
<1> HIDE DEF place
<1>9. Before(place - 1) = 80 * (place - 1)
  <2>1. place - 1 \in 0..m /\ size - 80 * (place - 1) > 0
    BY <1>1, <1>7
  <2>2. Before(place - 1) = Come(size, place - 1)
    BY <1>5, <2>1
  <2>3. Come(size, place - 1) = 80 * (place - 1)
    BY <1>2, <2>1 DEF Come
  <2> QED
    BY <2>2, <2>3
<1>10. ByteAt(data, k) = (start + 80 * (place - 1)) + k - 80 * (place - 1)
  BY <1>4, <1>7, <1>8, <1>9
<1>11. (start + 80 * (place - 1)) + k - 80 * (place - 1) = start + k
  BY <1>2, <1>7, <1>1
<1> QED
  BY <1>10, <1>11 DEF data, start

\* A place in a row, and the row it is in.
LEMMA RowOf ==
  ASSUME NEW r \in Nat, NEW n \in Nat, NEW row \in {8, 10}, NEW t \in 0..3, r < n
  PROVE  /\ r * row + t \in Nat /\ r * row + t < n * row
         /\ (r * row + t) % row = t /\ (r * row + t) \div row = r
<1>1. CASE row = 8
  BY <1>1
<1>2. CASE row = 10
  BY <1>2
<1> QED
  BY <1>1, <1>2

\* Whole rows, counted.
LEMMA RowsOf ==
  ASSUME NEW n \in Nat, NEW row \in {8, 10}
  PROVE  (n * row) \div row = n
<1>1. CASE row = 8
  BY <1>1
<1>2. CASE row = 10
  BY <1>2
<1> QED
  BY <1>1, <1>2

\* A directory whose sections are all there is found to have the files it has.
LEMMA SectionsFound ==
  ASSUME NEW dir, Sections(dir), dir.asked = dir.size
  PROVE  FilesFound(dir)
<1> DEFINE layout == dir.layout
           n == Len(Rows)
           Byte(r) == ByteAt(dir.data, r * layout.row + layout.type) - layout.start
           Type(r) == IF Byte(r) >= 0 /\ Byte(r) % layout.row = layout.type
                      THEN Rows[Byte(r) \div layout.row + 1] ELSE "unknown"
           Count(r) == IF layout.size < layout.row THEN Files[<<Type(r), r>>] ELSE 0
           rows == {r \in 0..(Bytes(dir.data) \div layout.row - 1) : Type(r) # "hole"}
<1>1. Entries(dir) = {[file |-> r, type |-> Type(r), count |-> Count(r)] : r \in rows}
  BY DEF Entries
<1>2. layout \in Layouts /\ dir.size = n * layout.row
  BY DEF Sections
<1>3. layout.start \in Nat /\ layout.row \in {8, 10} /\ layout.type \in 0..3
  BY <1>2, LayoutFields
<1>4. n \in Nat /\ DOMAIN Rows = 1..n
  BY ListsAssumption
<1>5. Bytes(dir.data) = n * layout.row
  <2> DEFINE data == dir.data
             m == Len(data)
             size == dir.size
  <2>1. /\ m \in Nat /\ DOMAIN data = 1..m
        /\ \A i \in 1..m :
             /\ size - 80 * (i - 1) > 0
             /\ data[i] = Stretch("sys", 0, layout.start + 80 * (i - 1),
                                  IF size - 80 * (i - 1) < 80 THEN size - 80 * (i - 1) ELSE 80)
        /\ dir.asked = IF 80 * m < size THEN 80 * m ELSE size
    BY DEF Sections
  <2>2. \A i \in 1..m : data[i].len = IF size - 80 * (i - 1) < 80 THEN size - 80 * (i - 1) ELSE 80
    <3>1. \A off, len : Stretch("sys", 0, off, len).len = len
      BY DEF Stretch
    <3> HIDE DEF data, m, size
    <3> QED
      BY <2>1, <3>1
  <2>3. size \in Nat
    BY <1>2, HeaderLeaves
  <2> HIDE DEF data, m, size
  <2>4. Bytes(data) = Come(size, m)
    <3>1. InSections(data, m, size)
      BY <2>1, <2>2 DEF InSections
    <3> QED
      BY <2>1, <2>3, <3>1, BytesOf
  <2>5. Come(size, m) = size
    BY <2>1 DEF Come, size
  <2> QED
    BY <1>2, <2>4, <2>5 DEF data, size
<1> HIDE DEF layout, n
<1>6. \A r \in 0..(n - 1) : Type(r) = Rows[r + 1]
  <2> SUFFICES ASSUME NEW r \in 0..(n - 1) PROVE Type(r) = Rows[r + 1]
    OBVIOUS
  <2> DEFINE b == r * layout.row + layout.type
  <2>1. r \in Nat /\ r < n
    BY <1>4
  <2>2. b \in Nat /\ b < n * layout.row /\ b % layout.row = layout.type /\ b \div layout.row = r
    <3> DEFINE row == layout.row
               t == layout.type
    <3>1. row \in {8, 10} /\ t \in 0..3
      BY <1>3
    <3> HIDE DEF row, t
    <3>2. /\ r * row + t \in Nat /\ r * row + t < n * row
          /\ (r * row + t) % row = t /\ (r * row + t) \div row = r
      BY <1>4, <2>1, <3>1, RowOf
    <3> QED
      BY <3>2 DEF row, t
  <2>3. Byte(r) = b
    <3>1. ByteAt(dir.data, b) = layout.start + b
      <4> HIDE DEF b
      <4> QED
        BY <1>2, <2>2, BytesInPlace DEF layout
    <3> HIDE DEF b
    <3>2. (layout.start + b) - layout.start = b
      BY <1>3, <2>2
    <3> QED
      BY <3>1, <3>2 DEF b
  <2> HIDE DEF Byte, b
  <2>4. b >= 0
    BY <2>2
  <2> QED
    BY <2>2, <2>3, <2>4
<1> HIDE DEF Type, Count
<1>7. rows = {r \in 0..(n - 1) : Rows[r + 1] # "hole"}
  <2>1. Bytes(dir.data) \div layout.row = n
    BY <1>3, <1>4, <1>5, RowsOf
  <2> QED
    BY <1>6, <2>1
<1> HIDE DEF rows
<1>8. {[file |-> e.file, type |-> e.type] : e \in Entries(dir)}
        = {[file |-> r, type |-> Rows[r + 1]] : r \in rows}
  <2> DEFINE Entry(r) == [file |-> r, type |-> Type(r), count |-> Count(r)]
             Short(e) == [file |-> e.file, type |-> e.type]
  <2>1. Entries(dir) = {Entry(r) : r \in rows}
    BY <1>1
  <2>2. \A r : Short(Entry(r)) = [file |-> r, type |-> Type(r)]
    OBVIOUS
  <2> HIDE DEF Entry, Short
  <2>3. {Short(e) : e \in Entries(dir)} = {Short(Entry(r)) : r \in rows}
    BY <2>1
  <2>4. {[file |-> e.file, type |-> e.type] : e \in Entries(dir)} = {[file |-> r, type |-> Type(r)] : r \in rows}
    <3>1. {[file |-> e.file, type |-> e.type] : e \in Entries(dir)} = {Short(e) : e \in Entries(dir)}
      BY DEF Short
    <3>2. {Short(Entry(r)) : r \in rows} = {[file |-> r, type |-> Type(r)] : r \in rows}
      BY <2>2
    <3> QED
      BY <2>3, <3>1, <3>2
  <2>5. \A r \in rows : Type(r) = Rows[r + 1]
    BY <1>6, <1>7
  <2> QED
    BY <2>4, <2>5
<1>9. {[file |-> r, type |-> Rows[r + 1]] : r \in rows}
        = {[file |-> r - 1, type |-> Rows[r]] : r \in {r \in DOMAIN Rows : Rows[r] # "hole"}}
  <2> DEFINE Found(r) == [file |-> r, type |-> Rows[r + 1]]
             There == {r \in DOMAIN Rows : Rows[r] # "hole"}
             Named(r) == [file |-> r - 1, type |-> Rows[r]]
  <2>1. \A r \in rows : r + 1 \in There /\ Found(r) = Named(r + 1)
    BY <1>4, <1>7
  <2>2. \A r \in There : r - 1 \in rows /\ Found(r - 1) = Named(r)
    BY <1>4, <1>7
  <2> HIDE DEF Found, There, Named
  <2>3. {Found(r) : r \in rows} = {Named(r) : r \in There}
    BY <2>1, <2>2
  <2> QED
    BY <2>3 DEF Found, There, Named
<1> QED
  BY <1>8, <1>9 DEF FilesFound

-----------------------------------------------------------------------------
(* What calls return *)

\* What a call returns is true of the PLC (Read of driver/pccc.go and pccc/client.go, Write and
\* writeBit, GetFileDirectory), whatever the other calls and the PLC's program do between its
\* exchanges, until a reply has been taken for another's.
THEOREM CallsStayTruthful == Spec => []CallsTruthful
<1>1. Inv => CallsTruthful
  <2> SUFFICES ASSUME Inv, ~strayed, NEW p \in Procs, op[p].at = "return"
               PROVE  /\ op[p].kind \in {"read", "each"} => ReadsInPlace(op[p])
                      /\ op[p].kind = "write" /\ op[p].ok => WritesInPlace(op[p].put)
                      /\ op[p].kind = "discover" /\ op[p].ok /\ ~op[p].dir.cut => FilesFound(op[p].dir)
    BY DEF CallsTruthful
  <2>1. Writing(op[p]) /\ Reading(op[p]) /\ Discovering(op[p])
    BY DEF Inv, Steady
  <2>2. op[p].kind = "discover" /\ op[p].ok /\ ~op[p].dir.cut =>
          Sections(op[p].dir) /\ op[p].dir.asked = op[p].dir.size
    BY <2>1 DEF Discovering
  <2> QED
    BY <2>1, <2>2, SectionsFound DEF Writing, Reading
<1> QED
  BY <1>1, Invariant, PTL

=============================================================================
