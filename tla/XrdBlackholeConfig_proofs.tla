---------------------- MODULE XrdBlackholeConfig_proofs ----------------------
(***************************************************************************)
(* Configure() for any configuration file: the types it keeps, and that    *)
(* the files it makes are those its accepted directives ask for.           *)
(***************************************************************************)
EXTENDS XrdBlackholeConfig, BlackholeFS_proofs, SequenceTheorems

Targets == Paths \cup {TooLong}

\* The seed() calls of a directive, and the files it promises.
SeedCalls == [path : Targets, size : FileSizes, type : ReadTypes]
Requests  == [path : Targets, size : Int, type : ReadTypes]

\* The number of files asked for that the handlers are done with.
Done == Len(asked) - Len(job)

\* What a file was asked for with, as far as its stub can hold it.
MadeAs(p, r) ==
    /\ r.size \in FileSizes => stub[m_files[p]].m_size = r.size
    /\ r.size \in 0..OffMax => stub[m_files[p]].st_size = r.size
    /\ m_readtype[m_files[p]] = r.type

\* asked[i] is the first request for p.
First(i, p) == asked[i].path = p /\ \A j \in 1..(i - 1) : asked[j].path # p

ConfigTypes ==
    /\ FSInv
    /\ ConfigTypeOK
    /\ job \in Seq(SeedCalls)
    /\ asked \in Seq(Requests)

\* The calls left are those of the last files asked for.
JobIsRest ==
    /\ Len(job) <= Len(asked)
    /\ \A k \in 1..Len(job) :
          /\ job[k].path = asked[Done + k].path
          /\ job[k].type = asked[Done + k].type
          /\ asked[Done + k].size \in FileSizes => job[k].size = asked[Done + k].size

\* Past a path that is too long there are only such paths.
TooLongLast ==
    \A k, l \in 1..Len(job) : k < l /\ job[k].path = TooLong => job[l].path = TooLong

\* The files done with are there, but for the paths that were too long, and
\* those have been reported.
DoneMade ==
    \A i \in 1..Done :
        /\ asked[i].path # TooLong => exists(asked[i].path)
        /\ NoGo = 0 => asked[i].path # TooLong

\* A file that is there was made for the first that asked for it.
MadeForFirst ==
    \A p \in Paths : exists(p) => \E i \in 1..Done : First(i, p) /\ MadeAs(p, asked[i])

ConfigInv == ConfigTypes /\ JobIsRest /\ TooLongLast /\ DoneMade /\ MadeForFirst

-----------------------------------------------------------------------------
(* Numbers *)

LEMMA Remainder ==
    ASSUME NEW n \in Int, NEW w \in Nat \ {0}
    PROVE  n % w \in 0..(w - 1) /\ (n \in 0..(w - 1) => n % w = n)
OBVIOUS

LEMMA Positive == ASSUME NEW m \in Nat \ {0}, NEW n \in Nat \ {0} PROVE m * n \in Nat \ {0}
OBVIOUS

LEMMA IntProduct == ASSUME NEW m \in Int, NEW n \in Int PROVE m * n \in Int
OBVIOUS

\* A factor of a product that is small is small itself.
LEMMA SmallFactor ==
    ASSUME NEW n \in Int, NEW u \in Nat \ {0}, NEW w \in Nat, n * u \in 0..w
    PROVE  n \in 0..w
<1>1. n >= 0
  <2> SUFFICES ASSUME n < 0 PROVE FALSE
    OBVIOUS
  <2>1. n * u < 0
    OBVIOUS
  <2> QED
    BY <2>1, IntProduct
<1>2. n <= n * u
  BY <1>1
<1> QED
  BY <1>1, <1>2, IntProduct

\* A word strtoull() finds digits in.
LEMMA WordNumber ==
    ASSUME NEW word \in Seq(Int), word # <<>>
    PROVE  word[1] \in Int /\ strtoull(word) \in 0..(Word - 1)
<1>1. Len(word) \in Nat \ {0}
  BY EmptySeq
<1>2. word[1] \in Int
  BY <1>1, ElementOfSeq
<1> QED
  BY <1>2, Remainder, ConfigAssumption DEF strtoull

LEMMA UnitPositive == ASSUME NEW x \in Suffixes PROVE Unit(x) \in Nat \ {0}
<1>1. /\ Kilo \in Nat \ {0} /\ Kilo * Kilo \in Nat \ {0} /\ Kilo * Kilo * Kilo \in Nat \ {0}
      /\ Kilo * Kilo * Kilo * Kilo \in Nat \ {0}
  BY Positive, ConfigAssumption
<1> DEFINE k2 == Kilo * Kilo
           k3 == Kilo * Kilo * Kilo
           k4 == Kilo * Kilo * Kilo * Kilo
<1>2. Unit(x) = CASE x = NoSuffix -> 1 [] x = "k" -> Kilo [] x = "m" -> k2 [] x = "g" -> k3 [] x = "t" -> k4
  BY DEF Unit
<1>3. k2 \in Nat \ {0} /\ k3 \in Nat \ {0} /\ k4 \in Nat \ {0}
  BY <1>1
<1> HIDE DEF k2, k3, k4
<1>4. x = NoSuffix \/ x = "k" \/ x = "m" \/ x = "g" \/ x = "t"
  BY DEF Suffixes
<1> QED
  BY <1>1, <1>2, <1>3, <1>4

-----------------------------------------------------------------------------
(* Directives *)

\* The seed() calls of an accepted seedfile directive.
CallsOf(a) ==
    [i \in DOMAIN seedPaths(a) |->
        [path |-> seedPaths(a)[i], size |-> seedSize(a), type |-> a.type]]

LEMMA AcceptedNumbers ==
    ASSUME NEW a \in SeedArgs, ~seedRejected(a)
    PROVE  /\ a.size[1] \in Int /\ Count(a) \in Nat \ {0}
           /\ Unit(a.suffix) \in Nat \ {0} /\ a.type \in ReadTypes
           /\ a.path.text \in Paths /\ a.path.expand \in Seq(Targets)
           /\ Count(a) > 1 => a.path.expand # <<>>
           /\ a.path.expand # <<>> => Count(a) \in 1..Len(a.path.expand)
<1>1. /\ a.size \in Seq(Int) /\ a.count \in Seq(Int) /\ a.path.text \in Paths
      /\ a.path.expand \in Seq(Targets)
  BY ConfigAssumption DEF Targets
<1>2. /\ a.size # <<>> /\ a.count # <<>> /\ a.suffix \in Suffixes /\ Count(a) # 0
      /\ a.type \in ReadTypes /\ ~(Count(a) > 1 /\ a.path.expand = <<>>)
  BY DEF seedRejected, parses, NoNumber
<1>3. a.size[1] \in Int /\ strtoull(a.count) \in 0..(Word - 1)
  BY <1>1, <1>2, WordNumber
<1>4. Count(a) \in Nat \ {0}
  BY <1>2, <1>3, ConfigAssumption DEF Count
<1>5. Unit(a.suffix) \in Nat \ {0}
  BY <1>2, UnitPositive
<1>6. a.path.expand # <<>> => Count(a) <= Len(a.path.expand)
  BY SeedAssumption
<1>7. Len(a.path.expand) \in Nat
  BY <1>1, LenProperties
<1> QED
  BY <1>1, <1>2, <1>3, <1>4, <1>5, <1>6, <1>7

\* The size a stub is given is the one written, if the word can hold that.
LEMMA SeedSizeAsked ==
    ASSUME NEW a \in SeedArgs, ~seedRejected(a)
    PROVE  /\ seedSize(a) \in FileSizes
           /\ a.size[1] * Unit(a.suffix) \in Int
           /\ a.size[1] * Unit(a.suffix) \in FileSizes => seedSize(a) = a.size[1] * Unit(a.suffix)
<1> DEFINE n == a.size[1]
           u == Unit(a.suffix)
<1>1. n \in Int /\ u \in Nat \ {0} /\ Word \in Nat \ {0} /\ FileSizes = 0..(Word - 1)
  BY AcceptedNumbers, ConfigAssumption
<1>2. seedSize(a) = ((n % Word) * u) % Word
  BY DEF seedSize, strtoull
<1> HIDE DEF n, u
<1>3. n % Word \in Nat /\ (n % Word) * u \in Int
  BY <1>1, Remainder, IntProduct
<1>4. ((n % Word) * u) % Word \in 0..(Word - 1)
  BY <1>1, <1>3, Remainder
<1>5. ASSUME n * u \in 0..(Word - 1) PROVE ((n % Word) * u) % Word = n * u
  <2>1. Word - 1 \in Nat
    BY <1>1
  <2>2. n \in 0..(Word - 1)
    BY <1>1, <1>5, <2>1, SmallFactor
  <2>3. n % Word = n
    BY <1>1, <2>2, Remainder
  <2>4. (n * u) % Word = n * u
    <3> DEFINE m == n * u
    <3>1. m \in Int /\ m \in 0..(Word - 1)
      BY <1>1, <1>5, IntProduct
    <3> HIDE DEF m
    <3>2. m % Word = m
      BY <1>1, <3>1, Remainder
    <3> QED
      BY <3>2 DEF m
  <2> QED
    BY <2>3, <2>4
<1>6. n * u \in Int
  BY <1>1, IntProduct
<1> QED
  BY <1>1, <1>2, <1>4, <1>5, <1>6 DEF n, u

\* The paths of the loop.
LEMMA SeedPathsAre ==
    ASSUME NEW a \in SeedArgs, ~seedRejected(a)
    PROVE  /\ DOMAIN seedPaths(a) = 1..Count(a)
           /\ \A i \in 1..Count(a) : /\ seedPaths(a)[i] \in Targets
                                     /\ Count(a) = 1 => seedPaths(a)[i] = a.path.text
                                     /\ Count(a) > 1 => seedPaths(a)[i] = a.path.expand[i]
<1> DEFINE n == Count(a)
           e == a.path.expand
<1>1. /\ n \in Nat \ {0} /\ a.path.text \in Paths /\ e \in Seq(Targets)
      /\ n > 1 => n \in 1..Len(e)
  BY AcceptedNumbers
<1>2. CASE n = 1
  <2>1. seedPaths(a) = <<a.path.text>>
    BY <1>2 DEF seedPaths
  <2> QED
    BY <1>1, <1>2, <2>1 DEF Targets
<1>3. CASE n > 1
  <2>1. seedPaths(a) = SubSeq(e, 1, n)
    BY <1>1, <1>3 DEF seedPaths
  <2>2. n \in 1..Len(e) /\ Len(e) \in Nat
    BY <1>1, <1>3, LenProperties
  <2>3. \A i \in 1..n : e[i] \in Targets
    <3> SUFFICES ASSUME NEW i \in 1..n PROVE e[i] \in Targets
      OBVIOUS
    <3>1. i \in 1..Len(e)
      BY <1>1, <2>2
    <3> QED
      BY <1>1, <3>1, ElementOfSeq
  <2> HIDE DEF n, e
  <2>4. /\ SubSeq(e, 1, n) \in Seq(Targets)
        /\ Len(SubSeq(e, 1, n)) = IF 1 <= n THEN n - 1 + 1 ELSE 0
        /\ \A i \in 1..(n - 1 + 1) : SubSeq(e, 1, n)[i] = e[1 + i - 1]
    BY <1>1, <2>3, SubSeqProperties
  <2> DEFINE p == seedPaths(a)
  <2>5. /\ p \in Seq(Targets) /\ Len(p) = IF 1 <= n THEN n - 1 + 1 ELSE 0
        /\ \A i \in 1..(n - 1 + 1) : p[i] = e[1 + i - 1]
    BY <2>1, <2>4
  <2> HIDE DEF p
  <2>6. Len(p) = n /\ \A i \in 1..n : p[i] = e[i]
    BY <1>1, <2>5
  <2>7. DOMAIN p = 1..n
    BY <2>5, <2>6, LenProperties
  <2> QED
    BY <1>3, <2>3, <2>6, <2>7 DEF p, n, e
<1> QED
  BY <1>1, <1>2, <1>3

\* The calls make what is promised, file by file.
Matches(calls, promised) ==
    /\ Len(calls) = Len(promised)
    /\ \A k \in 1..Len(calls) :
          /\ calls[k].path = promised[k].path
          /\ calls[k].type = promised[k].type
          /\ promised[k].size \in FileSizes => calls[k].size = promised[k].size
    /\ \A k, l \in 1..Len(calls) : k < l /\ calls[k].path = TooLong => calls[l].path = TooLong

\* A function from 1..n is a sequence.
LEMMA FunctionSeq ==
    ASSUME NEW S, NEW n \in Nat, NEW f \in [1..n -> S]
    PROVE  f \in Seq(S) /\ Len(f) = n
<1>1. f \in Seq(S)
  BY SeqDef
<1>2. DOMAIN f = 1..Len(f) /\ Len(f) \in Nat
  BY <1>1, LenProperties
<1> QED
  BY <1>1, <1>2

LEMMA SeedfileTypes ==
    ASSUME NEW a \in SeedArgs, ~seedRejected(a)
    PROVE  /\ CallsOf(a) \in Seq(SeedCalls) /\ Len(CallsOf(a)) = Count(a)
           /\ Promised(a) \in Seq(Requests) /\ Len(Promised(a)) = Count(a)
<1> DEFINE n == Count(a)
<1>1. n \in Nat /\ n # 0 /\ a.type \in ReadTypes
  BY AcceptedNumbers
<1>2. CallsOf(a) \in [1..n -> SeedCalls]
  <2>1. DOMAIN seedPaths(a) = 1..n /\ \A i \in 1..n : seedPaths(a)[i] \in Targets
    BY SeedPathsAre
  <2>2. seedSize(a) \in FileSizes
    BY SeedSizeAsked
  <2> QED
    BY <1>1, <2>1, <2>2 DEF CallsOf, SeedCalls
<1>3. Promised(a) \in [1..n -> Requests]
  <2>1. a.size[1] * Unit(a.suffix) \in Int
    BY SeedSizeAsked
  <2>2. ASSUME NEW i \in 1..n
        PROVE  (IF a.path.expand = <<>> THEN a.path.text ELSE a.path.expand[i]) \in Targets
    <3>1. CASE a.path.expand = <<>>
      BY <3>1, AcceptedNumbers DEF Targets
    <3>2. CASE a.path.expand # <<>>
      <4>1. a.path.expand \in Seq(Targets) /\ n \in 1..Len(a.path.expand)
        BY <3>2, AcceptedNumbers
      <4>2. Len(a.path.expand) \in Nat
        BY <4>1, LenProperties
      <4>3. i \in 1..Len(a.path.expand)
        BY <1>1, <4>1, <4>2
      <4> QED
        BY <3>2, <4>1, <4>3, ElementOfSeq
    <3> QED
      BY <3>1, <3>2
  <2> DEFINE s == a.size[1] * Unit(a.suffix)
             p(i) == IF a.path.expand = <<>> THEN a.path.text ELSE a.path.expand[i]
  <2>3. Promised(a) = [i \in 1..n |-> [path |-> p(i), size |-> s, type |-> a.type]]
    BY DEF Promised
  <2>4. s \in Int /\ \A i \in 1..n : p(i) \in Targets
    BY <2>1, <2>2
  <2> HIDE DEF s, p, n
  <2> QED
    BY <1>1, <2>3, <2>4 DEF Requests
<1> QED
  BY <1>1, <1>2, <1>3, FunctionSeq

LEMMA SeedfileMatches ==
    ASSUME SinglesPlain, NEW a \in SeedArgs, ~seedRejected(a)
    PROVE  Matches(CallsOf(a), Promised(a))
<1> DEFINE n == Count(a)
           e == a.path.expand
           s == a.size[1] * Unit(a.suffix)
           p(i) == IF e = <<>> THEN a.path.text ELSE e[i]
<1>1. /\ Len(CallsOf(a)) = n /\ Len(Promised(a)) = n /\ n \in Nat \ {0}
      /\ DOMAIN seedPaths(a) = 1..n
      /\ n > 1 => e # <<>> /\ n \in 1..Len(e)
      /\ e \in Seq(Targets)
  BY SeedfileTypes, AcceptedNumbers, SeedPathsAre
<1>2. \A k \in 1..n : CallsOf(a)[k] = [path |-> seedPaths(a)[k], size |-> seedSize(a), type |-> a.type]
  BY <1>1 DEF CallsOf
<1>3. \A k \in 1..n : Promised(a)[k] = [path |-> p(k), size |-> s, type |-> a.type]
  BY DEF Promised
<1>4. \A k \in 1..n : seedPaths(a)[k] = p(k)
  <2>1. CASE n = 1
    <3>1. e = <<>>
      BY <2>1 DEF SinglesPlain
    <3> QED
      BY <2>1, <3>1, SeedPathsAre
  <2>2. CASE n > 1
    BY <1>1, <2>2, SeedPathsAre
  <2> QED
    BY <1>1, <2>1, <2>2
<1>5. s \in FileSizes => seedSize(a) = s
  BY SeedSizeAsked
<1>6. ASSUME NEW k \in 1..n, NEW l \in 1..n, k < l, p(k) = TooLong PROVE p(l) = TooLong
  <2>1. n > 1
    BY <1>1, <1>6
  <2>2. DOMAIN e = 1..Len(e) /\ Len(e) \in Nat /\ n <= Len(e) /\ e # <<>>
    BY <1>1, <2>1, LenProperties
  <2>3. k \in DOMAIN e /\ l \in DOMAIN e
    BY <1>1, <2>2
  <2>4. e[k] = TooLong
    BY <1>6, <2>2
  <2>5. e[l] = TooLong
    BY <1>6, <2>3, <2>4, SeedAssumption
  <2> QED
    BY <2>2, <2>5
<1> HIDE DEF n, e, s, p
<1> DEFINE c == CallsOf(a)
           r == Promised(a)
<1>7. \A k \in 1..n : /\ c[k].path = p(k) /\ c[k].size = seedSize(a) /\ c[k].type = a.type
                      /\ r[k].path = p(k) /\ r[k].size = s /\ r[k].type = a.type
  <2> SUFFICES ASSUME NEW k \in 1..n
               PROVE  /\ c[k].path = p(k) /\ c[k].size = seedSize(a) /\ c[k].type = a.type
                      /\ r[k].path = p(k) /\ r[k].size = s /\ r[k].type = a.type
    OBVIOUS
  <2>1. c[k] = [path |-> p(k), size |-> seedSize(a), type |-> a.type]
    BY <1>2, <1>4
  <2>2. r[k] = [path |-> p(k), size |-> s, type |-> a.type]
    BY <1>3
  <2> QED
    BY <2>1, <2>2
<1>8. Len(c) = n /\ Len(r) = n
  BY <1>1
<1> HIDE DEF c, r
<1>9. Matches(c, r)
  BY <1>5, <1>6, <1>7, <1>8 DEF Matches
<1> QED
  BY <1>9 DEF c, r

LEMMA DefaultsMatch ==
    ASSUME NEW path \in DefaultsArgs
    PROVE  /\ create_defaults(path) \in Seq(SeedCalls) /\ create_defaults(path) \in Seq(Requests)
           /\ Matches(create_defaults(path), create_defaults(path))
<1> DEFINE size == <<Kilo * Kilo, Kilo * Kilo * Kilo, 10 * Kilo * Kilo * Kilo>>
           d == create_defaults(path)
<1>1. path \in [1..3 -> Paths] /\ TooLong \notin Paths /\ FileSizes = 0..(Word - 1)
  BY ConfigAssumption
<1>2. \A i \in 1..3 : size[i] \in FileSizes
  <2>1. Kilo * Kilo \in Nat \ {0} /\ Kilo * Kilo * Kilo \in Nat \ {0} /\ 10 * Kilo * Kilo * Kilo < Word
    BY Positive, FSAssumption, ConfigAssumption
  <2> DEFINE k2 == Kilo * Kilo
             k3 == k2 * Kilo
  <2>2. k3 >= k2 /\ 10 * Kilo * Kilo * Kilo = 10 * k3
    BY <2>1, ConfigAssumption
  <2>3. size = <<k2, k3, 10 * k3>> /\ k2 \in Nat /\ k3 \in Nat /\ 10 * k3 < Word
    BY <2>1, <2>2
  <2>4. k2 <= k3
    BY <2>2, <2>3
  <2> HIDE DEF k2, k3, size
  <2>5. k2 \in 0..(Word - 1) /\ k3 \in 0..(Word - 1) /\ 10 * k3 \in 0..(Word - 1)
    BY <2>3, <2>4, ConfigAssumption
  <2>6. size[1] = k2 /\ size[2] = k3 /\ size[3] = 10 * k3
    BY <2>3
  <2> QED
    BY <1>1, <2>5, <2>6
<1>3. d = [i \in 1..3 |-> [path |-> path[i], size |-> size[i], type |-> "zeros"]]
  BY DEF create_defaults
<1> HIDE DEF size, d
<1>4. d \in [1..3 -> SeedCalls] /\ d \in [1..3 -> Requests]
  BY <1>1, <1>2, <1>3 DEF SeedCalls, Requests, Targets, ReadTypes
<1>5. d \in Seq(SeedCalls) /\ d \in Seq(Requests) /\ Len(d) = 3
  BY <1>4, FunctionSeq
<1>6. \A i \in 1..3 : d[i].path # TooLong
  BY <1>1, <1>3
<1>7. Matches(d, d)
  BY <1>5, <1>6 DEF Matches
<1> QED
  BY <1>5, <1>7 DEF d

-----------------------------------------------------------------------------
(* Types *)

LEMMA ConfigTypesInit == ConfigInit => ConfigTypes
<1> SUFFICES ASSUME ConfigInit PROVE ConfigTypes
  OBVIOUS
<1>1. FSInv
  BY FSInvInit DEF ConfigInit
<1>2. ConfigTypeOK
  <2>1. 0 \in 0..(IntMax - 1) /\ 0 \in 0..MaxLines
    BY FSAssumption, ConfigAssumption
  <2>2. m_readtype \in [Inodes -> ReadTypes]
    BY DEF ConfigInit, ReadTypes
  <2> QED
    BY <1>1, <2>1, <2>2 DEF ConfigInit, ConfigTypeOK, FSInv
<1>3. job \in Seq(SeedCalls) /\ asked \in Seq(Requests)
  BY EmptySeq DEF ConfigInit
<1> QED
  BY <1>1, <1>2, <1>3 DEF ConfigTypes

\* The next call of a handler.
LEMMA JobHead ==
    ASSUME ConfigTypes, job # <<>>
    PROVE  /\ Len(job) \in Nat \ {0} /\ Head(job) = job[1] /\ job[1] \in SeedCalls
           /\ Tail(job) \in Seq(SeedCalls) /\ Len(Tail(job)) = Len(job) - 1
           /\ \A k \in 1..(Len(job) - 1) : Tail(job)[k] = job[k + 1]
<1>1. job \in Seq(SeedCalls)
  BY DEF ConfigTypes
<1>2. Len(job) \in Nat \ {0}
  BY <1>1, EmptySeq
<1>3. job[1] \in SeedCalls
  BY <1>1, <1>2, ElementOfSeq
<1>4. Head(job) = job[1]
  BY <1>1
<1>5. /\ Tail(job) \in Seq(SeedCalls) /\ Len(Tail(job)) = Len(job) - 1
      /\ \A k \in 1..Len(Tail(job)) : Tail(job)[k] = job[k + 1]
  BY <1>1, HeadTailProperties
<1> QED
  BY <1>2, <1>3, <1>4, <1>5

\* A step that makes no file.
LEMMA NoFileTypes ==
    ASSUME ConfigTypes, UNCHANGED <<fsvars, m_readtype>>,
           m_writespeedMiBs' \in 0..(IntMax - 1), NoGo' \in {0, 1}, lines' \in 0..MaxLines,
           served' \in BOOLEAN, job' \in Seq(SeedCalls), asked' \in Seq(Requests)
    PROVE  ConfigTypes'
<1>1. FSInv' /\ m_readtype' = m_readtype
  BY FSInvNext DEF ConfigTypes
<1> QED
  BY <1>1 DEF ConfigTypes, ConfigTypeOK, FSInv

LEMMA LineRead ==
    ASSUME ConfigTypes, ReadLine
    PROVE  lines' \in 0..MaxLines /\ served' \in BOOLEAN /\ served' = served /\ job = <<>>
BY ConfigAssumption DEF ConfigTypes, ConfigTypeOK, ReadLine

LEMMA RejectTypes ==
    ASSUME ConfigTypes, Reject, lines' \in 0..MaxLines, served' \in BOOLEAN
    PROVE  ConfigTypes'
<1>1. /\ UNCHANGED <<fsvars, m_readtype, m_writespeedMiBs, asked>> /\ NoGo' = 1 /\ job' = <<>>
  BY DEF Reject
<1>2. m_writespeedMiBs' \in 0..(IntMax - 1) /\ NoGo' \in {0, 1} /\ asked' \in Seq(Requests)
  BY <1>1 DEF ConfigTypes, ConfigTypeOK
<1>3. job' \in Seq(SeedCalls)
  BY <1>1, EmptySeq
<1> QED
  BY <1>1, <1>2, <1>3, NoFileTypes

LEMMA AcceptTypes ==
    ASSUME ConfigTypes, ReadLine, NEW calls \in Seq(SeedCalls), NEW promised \in Seq(Requests),
           Accept(calls, promised)
    PROVE  ConfigTypes'
<1>1. /\ UNCHANGED <<fsvars, m_readtype, m_writespeedMiBs, NoGo>>
      /\ job' = calls /\ asked' = asked \o promised
  BY DEF Accept
<1>2. m_writespeedMiBs' \in 0..(IntMax - 1) /\ NoGo' \in {0, 1} /\ asked \in Seq(Requests)
  BY <1>1 DEF ConfigTypes, ConfigTypeOK
<1>3. asked' \in Seq(Requests)
  BY <1>1, <1>2, ConcatProperties
<1> QED
  BY <1>1, <1>2, <1>3, NoFileTypes, LineRead

\* One call of seed(): a file that is not there gets the next inode.
LEMMA SeedOneStep ==
    ASSUME ConfigTypes, SeedOne
    PROVE  /\ job # <<>> /\ job[1].path \in Paths /\ job[1].size \in FileSizes
           /\ job[1].type \in ReadTypes
           /\ seed(job[1].path, job[1].size)
           /\ m_readtype' = IF exists(job[1].path) THEN m_readtype
                            ELSE [m_readtype EXCEPT ![m_fd_last'] = job[1].type]
           /\ job' = Tail(job)
           /\ UNCHANGED <<m_writespeedMiBs, NoGo, lines, served, asked>>
<1>1. job # <<>> /\ Head(job).path # TooLong
  BY DEF SeedOne
<1>2. Head(job) = job[1] /\ job[1] \in SeedCalls
  BY <1>1, JobHead
<1>3. job[1].path \in Paths /\ job[1].size \in FileSizes /\ job[1].type \in ReadTypes
  BY <1>1, <1>2 DEF SeedCalls, Targets
<1> QED
  BY <1>1, <1>2, <1>3 DEF SeedOne

LEMMA SeedOneTypes == ASSUME ConfigTypes, SeedOne PROVE ConfigTypes'
<1> DEFINE p == job[1].path
           n == job[1].size
<1>1. /\ p \in Paths /\ n \in FileSizes /\ job[1].type \in ReadTypes /\ seed(p, n)
      /\ m_readtype' = IF exists(p) THEN m_readtype
                       ELSE [m_readtype EXCEPT ![m_fd_last'] = job[1].type]
      /\ job # <<>> /\ job' = Tail(job)
      /\ UNCHANGED <<m_writespeedMiBs, NoGo, lines, served, asked>>
  BY SeedOneStep
<1>2. FSInv'
  BY <1>1, FSInvNext DEF FSNext, ConfigTypes
<1>3. m_readtype' \in [Inodes -> ReadTypes]
  BY <1>1 DEF ConfigTypes, ConfigTypeOK
<1>4. job' \in Seq(SeedCalls)
  BY <1>1, JobHead
<1> QED
  BY <1>1, <1>2, <1>3, <1>4 DEF ConfigTypes, ConfigTypeOK, FSInv

\* What a directive or a turn of a loop does, by outcome.
LEMMA ConfigStep ==
    ASSUME ConfigTypes, [Configure]_configvars
    PROVE  \/ SeedOne
           \/ SeedTooLong
           \/ Reject /\ job = <<>> /\ lines' \in 0..MaxLines /\ served' = served
           \/ \E a \in SeedArgs : ReadLine /\ ~seedRejected(a) /\ Accept(CallsOf(a), Promised(a))
           \/ \E path \in DefaultsArgs : ReadLine /\ Accept(create_defaults(path), create_defaults(path))
           \/ /\ UNCHANGED <<fsvars, m_readtype, NoGo, job, asked>>
              /\ m_writespeedMiBs' \in 0..(IntMax - 1) /\ lines' \in 0..MaxLines /\ served' \in BOOLEAN
<1>1. CASE UNCHANGED configvars
  BY <1>1 DEF configvars, cfgvars, ConfigTypes, ConfigTypeOK
<1>2. ASSUME NEW word \in SpeedArgs, cfg_writespeedMiBps(word)
      PROVE  \/ Reject /\ job = <<>> /\ lines' \in 0..MaxLines /\ served' = served
             \/ /\ UNCHANGED <<fsvars, m_readtype, NoGo, job, asked>>
                /\ m_writespeedMiBs' \in 0..(IntMax - 1) /\ lines' \in 0..MaxLines /\ served' \in BOOLEAN
  <2>1. ReadLine
    BY <1>2 DEF cfg_writespeedMiBps
  <2>2. ASSUME parses(word), strtoull(word) < IntMax PROVE strtoull(word) \in 0..(IntMax - 1)
    <3>1. strtoull(word) \in 0..(Word - 1)
      BY <2>2, WordNumber, ConfigAssumption DEF parses, NoNumber
    <3> QED
      BY <2>2, <3>1, FSAssumption, ConfigAssumption
  <2> QED
    BY <1>2, <2>1, <2>2, LineRead DEF cfg_writespeedMiBps
<1>3. ASSUME NEW type \in ReadtypeArgs, cfg_readtype(type)
      PROVE  \/ Reject /\ job = <<>> /\ lines' \in 0..MaxLines /\ served' = served
             \/ /\ UNCHANGED <<fsvars, m_readtype, NoGo, job, asked>>
                /\ m_writespeedMiBs' \in 0..(IntMax - 1) /\ lines' \in 0..MaxLines /\ served' \in BOOLEAN
  BY <1>3, LineRead DEF cfg_readtype, ConfigTypes, ConfigTypeOK
<1>4. ASSUME NEW path \in DefaultsArgs \cup {<<>>}, cfg_defaultspath(path)
      PROVE  \/ Reject /\ job = <<>> /\ lines' \in 0..MaxLines /\ served' = served
             \/ path \in DefaultsArgs /\ ReadLine /\ Accept(create_defaults(path), create_defaults(path))
  BY <1>4, LineRead DEF cfg_defaultspath
<1>5. ASSUME NEW a \in SeedArgs, cfg_seedfile(a)
      PROVE  \/ Reject /\ job = <<>> /\ lines' \in 0..MaxLines /\ served' = served
             \/ ReadLine /\ ~seedRejected(a) /\ Accept(CallsOf(a), Promised(a))
  BY <1>5, LineRead DEF cfg_seedfile, CallsOf
<1>6. ASSUME ReadError
      PROVE  Reject /\ job = <<>> /\ lines' \in 0..MaxLines /\ served' = served
  BY <1>6, ConfigAssumption DEF ReadError
<1>7. ASSUME Serve
      PROVE  /\ UNCHANGED <<fsvars, m_readtype, NoGo, job, asked>>
             /\ m_writespeedMiBs' \in 0..(IntMax - 1) /\ lines' \in 0..MaxLines /\ served' \in BOOLEAN
  BY <1>7 DEF Serve, ConfigTypes, ConfigTypeOK
<1> QED
  BY <1>1, <1>2, <1>3, <1>4, <1>5, <1>6, <1>7 DEF Configure

LEMMA ConfigTypesNext == ASSUME ConfigTypes, [Configure]_configvars PROVE ConfigTypes'
<1>1. CASE SeedTooLong
  BY <1>1, RejectTypes DEF SeedTooLong, ConfigTypes, ConfigTypeOK
<1>2. CASE Reject /\ job = <<>> /\ lines' \in 0..MaxLines /\ served' = served
  BY <1>2, RejectTypes DEF ConfigTypes, ConfigTypeOK
<1>3. ASSUME NEW a \in SeedArgs, ReadLine, ~seedRejected(a), Accept(CallsOf(a), Promised(a))
      PROVE  ConfigTypes'
  BY <1>3, AcceptTypes, SeedfileTypes
<1>4. ASSUME NEW path \in DefaultsArgs, ReadLine, Accept(create_defaults(path), create_defaults(path))
      PROVE  ConfigTypes'
  BY <1>4, AcceptTypes, DefaultsMatch
<1>5. CASE /\ UNCHANGED <<fsvars, m_readtype, NoGo, job, asked>>
           /\ m_writespeedMiBs' \in 0..(IntMax - 1) /\ lines' \in 0..MaxLines /\ served' \in BOOLEAN
  <2>1. NoGo' \in {0, 1} /\ job' \in Seq(SeedCalls) /\ asked' \in Seq(Requests)
    BY <1>5 DEF ConfigTypes, ConfigTypeOK
  <2> QED
    BY <1>5, <2>1, NoFileTypes
<1> QED
  BY <1>1, <1>2, <1>3, <1>4, <1>5, SeedOneTypes, ConfigStep

\* Whatever the configuration file says, Configure() and the handlers keep the
\* members' types: m_writespeedMiBs is below INT_MAX, stubs have an unsigned size
\* of 64 bits for reads, a signed one for Stat, and a fill pattern Read() knows.
THEOREM ConfigTypeCorrect == ConfigSpec => []ConfigTypeOK
<1>1. ConfigTypes /\ [Configure]_configvars => ConfigTypes'
  BY ConfigTypesNext
<1>2. ConfigTypes => ConfigTypeOK
  BY DEF ConfigTypes
<1> QED
  BY <1>1, <1>2, ConfigTypesInit, PTL DEF ConfigSpec

-----------------------------------------------------------------------------
(* Files *)

LEMMA Lengths ==
    ASSUME ConfigTypes
    PROVE  /\ Len(asked) \in Nat /\ Len(job) \in Nat /\ Done \in Int
           /\ DOMAIN asked = 1..Len(asked)
           /\ \A i \in 1..Len(asked) : asked[i] \in Requests
<1>1. asked \in Seq(Requests) /\ job \in Seq(SeedCalls)
  BY DEF ConfigTypes
<1>2. Len(asked) \in Nat /\ Len(job) \in Nat /\ DOMAIN asked = 1..Len(asked)
  BY <1>1, LenProperties
<1>3. \A i \in 1..Len(asked) : asked[i] \in Requests
  BY <1>1, ElementOfSeq
<1> QED
  BY <1>2, <1>3 DEF Done

LEMMA ConfigInvInit == ConfigInit => ConfigInv
<1> SUFFICES ASSUME ConfigInit PROVE ConfigInv
  OBVIOUS
<1>1. ConfigTypes
  BY ConfigTypesInit
<1>2. job = <<>> /\ asked = <<>> /\ Len(<<>>) = 0
  BY DEF ConfigInit
<1>3. Len(job) = 0 /\ Len(asked) = 0 /\ Done = 0
  BY <1>2 DEF Done
<1>4. JobIsRest /\ TooLongLast /\ DoneMade
  BY <1>3 DEF JobIsRest, TooLongLast, DoneMade
<1>5. MadeForFirst
  BY DEF MadeForFirst, exists, ConfigInit, FSInit
<1> QED
  BY <1>1, <1>4, <1>5 DEF ConfigInv

\* A step that leaves files, requests and calls alone.
LEMMA QuietKeeps ==
    ASSUME ConfigInv, ConfigTypes', UNCHANGED <<fsvars, m_readtype, NoGo, job, asked>>
    PROVE  ConfigInv'
BY DEF ConfigInv, JobIsRest, TooLongLast, DoneMade, MadeForFirst, Done, First, MadeAs, exists, fsvars

\* A handler that fails leaves nothing but paths that were too long.
LEMMA RejectKeeps ==
    ASSUME ConfigInv, ConfigTypes', Reject, \A k \in 1..Len(job) : job[k].path = TooLong
    PROVE  ConfigInv'
<1>1. /\ UNCHANGED <<m_files, stub, m_fd_last, m_readtype, asked>> /\ NoGo' = 1 /\ job' = <<>>
  BY DEF Reject, fsvars
<1>2. ConfigTypes /\ Len(asked) \in Nat /\ Len(job) \in Nat /\ Len(job) <= Len(asked)
  BY Lengths DEF ConfigInv, JobIsRest
<1>3. Len(job') = 0
  BY <1>1, EmptySeq
<1>4. Done \in 0..Len(asked) /\ Done' = Len(asked)
  BY <1>1, <1>2, <1>3 DEF Done
<1>5. JobIsRest' /\ TooLongLast'
  BY <1>1, <1>2, <1>3 DEF JobIsRest, TooLongLast
<1>6. \A i \in 1..Len(asked) : i <= Done \/ asked[i].path = TooLong
  <2> SUFFICES ASSUME NEW i \in 1..Len(asked), ~(i <= Done) PROVE asked[i].path = TooLong
    OBVIOUS
  <2>1. i - Done \in 1..Len(job) /\ Done + (i - Done) = i
    BY <1>2, <1>4 DEF Done
  <2>2. job[i - Done].path = asked[Done + (i - Done)].path
    BY <2>1 DEF ConfigInv, JobIsRest
  <2> QED
    BY <2>1, <2>2
<1>7. DoneMade'
  <2> SUFFICES ASSUME NEW i \in 1..Len(asked), asked[i].path # TooLong PROVE exists(asked[i].path)
    BY <1>1, <1>4 DEF DoneMade, exists
  <2>1. i \in 1..Done
    BY <1>2, <1>4, <1>6
  <2> QED
    BY <2>1 DEF ConfigInv, DoneMade
<1>8. MadeForFirst'
  <2> SUFFICES ASSUME NEW p \in Paths, exists(p)
               PROVE  \E i \in 1..Len(asked) : First(i, p) /\ MadeAs(p, asked[i])
    BY <1>1, <1>4 DEF MadeForFirst, First, MadeAs, exists
  <2>1. PICK i \in 1..Done : First(i, p) /\ MadeAs(p, asked[i])
    BY DEF ConfigInv, MadeForFirst
  <2> QED
    BY <1>2, <1>4, <2>1
<1> QED
  BY <1>5, <1>7, <1>8 DEF ConfigInv

\* An accepted directive leaves all it promises to its calls.
LEMMA AcceptKeeps ==
    ASSUME ConfigInv, ConfigTypes', job = <<>>,
           NEW calls \in Seq(SeedCalls), NEW promised \in Seq(Requests),
           Matches(calls, promised), Accept(calls, promised)
    PROVE  ConfigInv'
<1>1. /\ UNCHANGED <<m_files, stub, m_fd_last, m_readtype, NoGo>>
      /\ job' = calls /\ asked' = asked \o promised
  BY DEF Accept, fsvars
<1>2. /\ ConfigTypes /\ asked \in Seq(Requests) /\ Len(asked) \in Nat /\ Len(job) = 0
      /\ Len(calls) \in Nat /\ Len(promised) = Len(calls)
  BY EmptySeq, LenProperties DEF ConfigInv, ConfigTypes, Matches
<1> DEFINE n == Len(asked)
           m == Len(calls)
<1>3. /\ Len(asked') = n + m
      /\ \A i \in 1..(n + m) : asked'[i] = IF i <= n THEN asked[i] ELSE promised[i - n]
  <2> DEFINE cat == asked \o promised
  <2>1. /\ Len(cat) = Len(asked) + Len(promised)
        /\ \A i \in 1..Len(asked) + Len(promised) :
              cat[i] = IF i <= Len(asked) THEN asked[i] ELSE promised[i - Len(asked)]
    BY <1>2, ConcatProperties
  <2>2. asked' = cat /\ Len(promised) = m
    BY <1>1, <1>2
  <2> HIDE DEF cat
  <2> QED
    BY <2>1, <2>2
<1>4. Len(job') = m /\ Done = n /\ Done' = n /\ n \in Nat /\ m \in Nat
  BY <1>1, <1>2, <1>3 DEF Done
<1> HIDE DEF n, m
<1>5. \A i \in 1..n : asked'[i] = asked[i]
  BY <1>3, <1>4
<1>6. \A k \in 1..m : asked'[n + k] = promised[k]
  <2> SUFFICES ASSUME NEW k \in 1..m PROVE asked'[n + k] = promised[k]
    OBVIOUS
  <2> DEFINE i == n + k
  <2>1. i \in 1..(n + m) /\ ~(i <= n) /\ i - n = k
    BY <1>4
  <2> HIDE DEF i
  <2>2. asked'[i] = promised[i - n]
    BY <1>3, <2>1
  <2>3. asked'[i] = promised[k]
    BY <2>1, <2>2
  <2> QED
    BY <2>3 DEF i
<1>7. JobIsRest'
  <2>1. Len(job') <= Len(asked')
    BY <1>3, <1>4
  <2>2. ASSUME NEW k \in 1..m
        PROVE  /\ job'[k].path = asked'[n + k].path
               /\ job'[k].type = asked'[n + k].type
               /\ asked'[n + k].size \in FileSizes => job'[k].size = asked'[n + k].size
    BY <1>1, <1>6 DEF Matches, m
  <2> QED
    BY <1>4, <2>1, <2>2 DEF JobIsRest
<1>8. TooLongLast'
  BY <1>1, <1>4 DEF TooLongLast, Matches, m
<1>9. DoneMade'
  BY <1>1, <1>4, <1>5 DEF ConfigInv, DoneMade, exists
<1>10. MadeForFirst'
  <2> SUFFICES ASSUME NEW p \in Paths, exists(p)
               PROVE  \E i \in 1..n : (First(i, p) /\ MadeAs(p, asked[i]))'
    BY <1>1, <1>4 DEF MadeForFirst, exists
  <2>1. PICK i \in 1..n : First(i, p) /\ MadeAs(p, asked[i])
    BY <1>4 DEF ConfigInv, MadeForFirst
  <2>2. asked'[i] = asked[i] /\ \A j \in 1..(i - 1) : asked'[j] = asked[j]
    BY <1>4, <1>5
  <2>3. (First(i, p) /\ MadeAs(p, asked[i]))'
    BY <1>1, <2>1, <2>2 DEF First, MadeAs
  <2> QED
    BY <2>3
<1> QED
  BY <1>7, <1>8, <1>9, <1>10 DEF ConfigInv

\* A call of seed() makes the next file asked for, unless it is there.
LEMMA SeedOneKeeps == ASSUME ConfigInv, ConfigTypes', SeedOne PROVE ConfigInv'
<1> DEFINE s == job[1]
           n == Len(asked)
           m == Len(job)
<1>1. /\ ConfigTypes /\ s.path \in Paths /\ seed(s.path, s.size) /\ job # <<>>
      /\ m_readtype' = IF exists(s.path) THEN m_readtype
                       ELSE [m_readtype EXCEPT ![m_fd_last'] = s.type]
      /\ job' = Tail(job) /\ NoGo' = NoGo /\ asked' = asked
      /\ s.size \in FileSizes /\ s.type \in ReadTypes
  BY SeedOneStep DEF ConfigInv
<1>2. /\ m \in Nat \ {0} /\ n \in Nat /\ m <= n
      /\ Len(job') = m - 1 /\ \A k \in 1..(m - 1) : job'[k] = job[k + 1]
  BY <1>1, JobHead, Lengths DEF ConfigInv, JobIsRest
<1>3. Done = n - m /\ Done' = Done + 1 /\ Done \in Nat /\ Done + 1 \in 1..n
  BY <1>1, <1>2 DEF Done
<1>4. /\ s.path = asked[Done + 1].path /\ s.type = asked[Done + 1].type
      /\ asked[Done + 1].size \in FileSizes => s.size = asked[Done + 1].size
  <2>1. 1 \in 1..Len(job)
    BY <1>2
  <2> QED
    BY <2>1 DEF ConfigInv, JobIsRest
<1>5. TooLong \notin Paths /\ s.path # TooLong
  BY <1>1, ConfigAssumption
<1> HIDE DEF s, n, m
<1>6. JobIsRest'
  <2>1. ASSUME NEW k \in 1..(m - 1)
        PROVE  /\ job'[k].path = asked'[Done' + k].path
               /\ job'[k].type = asked'[Done' + k].type
               /\ asked'[Done' + k].size \in FileSizes => job'[k].size = asked'[Done' + k].size
    <3>1. k + 1 \in 1..Len(job) /\ Done' + k = Done + (k + 1) /\ job'[k] = job[k + 1]
      <4>1. Done' + k = Done + (k + 1)
        BY <1>2, <1>3
      <4>2. k + 1 \in 1..m /\ job'[k] = job[k + 1]
        BY <1>2
      <4> QED
        BY <4>1, <4>2 DEF m
    <3>2. /\ job[k + 1].path = asked[Done + (k + 1)].path
          /\ job[k + 1].type = asked[Done + (k + 1)].type
          /\ asked[Done + (k + 1)].size \in FileSizes => job[k + 1].size = asked[Done + (k + 1)].size
      BY <3>1 DEF ConfigInv, JobIsRest
    <3> QED
      BY <1>1, <3>1, <3>2
  <2>2. Len(job') = m - 1 /\ Len(job') <= Len(asked')
    BY <1>1, <1>2 DEF n
  <2> QED
    BY <2>1, <2>2 DEF JobIsRest
<1>7. TooLongLast'
  <2> SUFFICES ASSUME NEW k \in 1..(m - 1), NEW l \in 1..(m - 1), k < l, job'[k].path = TooLong
               PROVE  job'[l].path = TooLong
    BY <1>2 DEF TooLongLast
  <2>1. k + 1 \in 1..Len(job) /\ l + 1 \in 1..Len(job) /\ k + 1 < l + 1
    BY <1>2 DEF m
  <2>2. job[k + 1].path = TooLong
    BY <1>2
  <2>3. job[l + 1].path = TooLong
    BY <2>1, <2>2 DEF ConfigInv, TooLongLast
  <2> QED
    BY <1>2, <2>3
<1>8. \/ exists(s.path) /\ m_files' = m_files /\ stub' = stub /\ m_readtype' = m_readtype
      \/ /\ ~exists(s.path)
         /\ m_files' = [m_files EXCEPT ![s.path] = m_fd_last + 1]
         /\ stub' = [stub EXCEPT ![m_fd_last + 1] = [BlankStub EXCEPT !.m_size = s.size,
                                                                     !.st_size = toOff(s.size)]]
         /\ m_readtype' = [m_readtype EXCEPT ![m_fd_last + 1] = s.type]
  BY <1>1 DEF seed, NextFd
<1>9. /\ m_files \in [Paths -> Inodes \cup {NoStub}] /\ stub \in [Inodes -> Stub]
      /\ m_readtype \in [Inodes -> ReadTypes] /\ m_fd_last \in Nat /\ m_fd_last + 1 \in Inodes
      /\ \A p \in Paths : m_files[p] \in 0..m_fd_last
  <2>1. ConfigTypes /\ m_fd_last < MaxFd
    BY <1>1 DEF seed, NextFd
  <2> QED
    BY <2>1, FSAssumption DEF ConfigTypes, ConfigTypeOK, FSInv, FSTypeOK, HandedOut, Inodes
<1>10. \A p \in Paths : m_files'[p] # NoStub <=> exists(p) \/ p = s.path
  <2>1. m_fd_last + 1 # NoStub
    BY <1>9 DEF NoStub
  <2> QED
    BY <1>1, <1>8, <1>9, <2>1 DEF exists
<1>11. \A p \in Paths : exists(p) => /\ m_files'[p] = m_files[p]
                                     /\ stub'[m_files[p]] = stub[m_files[p]]
                                     /\ m_readtype'[m_files[p]] = m_readtype[m_files[p]]
  <2> SUFFICES ASSUME NEW p \in Paths, exists(p), ~exists(s.path)
               PROVE  /\ m_files'[p] = m_files[p]
                      /\ stub'[m_files[p]] = stub[m_files[p]]
                      /\ m_readtype'[m_files[p]] = m_readtype[m_files[p]]
    BY <1>8
  <2>1. p # s.path /\ m_files[p] # m_fd_last + 1 /\ m_files[p] \in Inodes
    BY <1>9 DEF exists
  <2> QED
    BY <1>8, <1>9, <2>1
<1>12. DoneMade'
  <2> SUFFICES ASSUME NEW i \in 1..(Done + 1)
               PROVE  /\ asked[i].path # TooLong => m_files'[asked[i].path] # NoStub
                      /\ NoGo = 0 => asked[i].path # TooLong
    BY <1>1, <1>3 DEF DoneMade, exists
  <2>1. CASE i = Done + 1
    BY <1>1, <1>4, <1>5, <1>10, <2>1
  <2>2. CASE i \in 1..Done
    <3>1. /\ asked[i].path # TooLong => exists(asked[i].path)
          /\ NoGo = 0 => asked[i].path # TooLong
      BY <2>2 DEF ConfigInv, DoneMade
    <3>2. asked[i].path \in Targets
      <4>1. i \in 1..Len(asked)
        BY <1>2, <1>3, <2>2 DEF n
      <4>2. asked[i] \in Requests
        BY <1>1, <4>1, Lengths
      <4> QED
        BY <4>2 DEF Requests
    <3> QED
      BY <1>10, <3>1, <3>2 DEF Targets
  <2> QED
    BY <1>3, <2>1, <2>2
<1>13. MadeForFirst'
  <2> SUFFICES ASSUME NEW p \in Paths, m_files'[p] # NoStub
               PROVE  \E i \in 1..(Done + 1) : First(i, p)' /\ (MadeAs(p, asked[i]))'
    BY <1>3 DEF MadeForFirst, exists
  <2>1. CASE exists(p)
    <3>1. PICK i \in 1..Done : First(i, p) /\ MadeAs(p, asked[i])
      BY <2>1 DEF ConfigInv, MadeForFirst
    <3>2. First(i, p)' /\ (MadeAs(p, asked[i]))'
      BY <1>1, <1>11, <2>1, <3>1 DEF First, MadeAs
    <3> QED
      BY <1>3, <3>2
  <2>2. CASE ~exists(p)
    <3>1. p = s.path /\ ~exists(s.path)
      BY <1>10, <2>2
    <3>2. \A j \in 1..Done : asked[j].path # p
      BY <1>1, <1>5, <2>2, <3>1 DEF ConfigInv, DoneMade
    <3>3. PICK i \in 1..(Done + 1) : i = Done + 1
      BY <1>3
    <3>4. First(i, p)'
      <4>1. i - 1 = Done
        BY <1>3, <3>3
      <4>2. asked[i].path = p /\ \A j \in 1..(i - 1) : asked[j].path # p
        BY <1>4, <3>1, <3>2, <3>3, <4>1
      <4> QED
        BY <1>1, <4>2 DEF First
    <3>5. /\ m_files'[p] = m_fd_last + 1 /\ m_readtype'[m_fd_last + 1] = s.type
          /\ stub'[m_fd_last + 1] = [BlankStub EXCEPT !.m_size = s.size, !.st_size = toOff(s.size)]
      BY <1>8, <1>9, <3>1
    <3>6. stub'[m_fd_last + 1].m_size = s.size /\ stub'[m_fd_last + 1].st_size = toOff(s.size)
      BY <3>5 DEF BlankStub
    <3>7. asked[i].size \in 0..OffMax => toOff(s.size) = asked[i].size
      <4>1. asked[i].size \in 0..OffMax => asked[i].size \in FileSizes /\ asked[i].size <= OffMax
        BY FSAssumption, ConfigAssumption
      <4>2. asked[i].size \in FileSizes => s.size = asked[i].size
        BY <1>4, <3>3
      <4> QED
        BY <4>1, <4>2, ToOffType
    <3>8. (MadeAs(p, asked[i]))'
      BY <1>1, <1>4, <3>3, <3>5, <3>6, <3>7 DEF MadeAs
    <3> QED
      BY <3>4, <3>8
  <2> QED
    BY <2>1, <2>2
<1> QED
  BY <1>6, <1>7, <1>12, <1>13 DEF ConfigInv

LEMMA ConfigInvNext == ASSUME SinglesPlain, ConfigInv, [Configure]_configvars PROVE ConfigInv'
<1>1. ConfigTypes /\ ConfigTypes'
  BY ConfigTypesNext DEF ConfigInv
<1>2. CASE SeedTooLong
  <2>1. job # <<>> /\ Head(job).path = TooLong /\ Reject
    BY <1>2 DEF SeedTooLong
  <2>2. Len(job) \in Nat \ {0} /\ job[1].path = TooLong
    BY <1>1, <2>1, JobHead
  <2>3. \A k \in 1..Len(job) : job[k].path = TooLong
    BY <2>2 DEF ConfigInv, TooLongLast
  <2> QED
    BY <1>1, <2>1, <2>3, RejectKeeps
<1>3. CASE Reject /\ job = <<>>
  <2>1. \A k \in 1..Len(job) : job[k].path = TooLong
    BY <1>3, EmptySeq
  <2> QED
    BY <1>1, <1>3, <2>1, RejectKeeps
<1>4. ASSUME NEW a \in SeedArgs, ReadLine, ~seedRejected(a), Accept(CallsOf(a), Promised(a))
      PROVE  ConfigInv'
  BY <1>1, <1>4, SeedfileTypes, SeedfileMatches, AcceptKeeps DEF ReadLine
<1>5. ASSUME NEW path \in DefaultsArgs, ReadLine, Accept(create_defaults(path), create_defaults(path))
      PROVE  ConfigInv'
  BY <1>1, <1>5, DefaultsMatch, AcceptKeeps DEF ReadLine
<1> QED
  BY <1>1, <1>2, <1>3, <1>4, <1>5, SeedOneKeeps, QuietKeeps, ConfigStep

\* A first request is the one that FirstFor() chooses.
LEMMA FirstIsChosen ==
    ASSUME ConfigTypes, NEW i \in 1..Len(asked), NEW p, First(i, p)
    PROVE  FirstFor(p) = asked[i]
<1>1. DOMAIN asked = 1..Len(asked) /\ Len(asked) \in Nat
  BY Lengths
<1>2. \A j \in DOMAIN asked : First(j, p) => j = i
  <2> SUFFICES ASSUME NEW j \in 1..Len(asked), First(j, p) PROVE j = i
    BY <1>1
  <2>1. ~(i \in 1..(j - 1)) /\ ~(j \in 1..(i - 1))
    BY DEF First
  <2> QED
    BY <1>1, <2>1
<1> DEFINE c == CHOOSE j \in DOMAIN asked : First(j, p)
<1>3. c = i
  <2>1. c \in DOMAIN asked /\ First(c, p)
    BY <1>1
  <2> QED
    BY <1>2, <2>1
<1>4. FirstFor(p) = asked[c]
  BY DEF FirstFor, First
<1> QED
  BY <1>3, <1>4

\* What the invariant means once a handler is done, and for the sizes at any time.
LEMMA ConfigInvMeans ==
    ConfigInv => SeedNamesAsDocumented /\ SeedSizesAsDocumented /\ CleanMeansComplete
<1> SUFFICES ASSUME ConfigInv
             PROVE  SeedNamesAsDocumented /\ SeedSizesAsDocumented /\ CleanMeansComplete
  OBVIOUS
<1>1. ConfigTypes /\ DOMAIN asked = 1..Len(asked) /\ Len(asked) \in Nat /\ Len(job) \in Nat
  BY Lengths DEF ConfigInv
<1>2. Done \in Int /\ Done <= Len(asked) /\ (job = <<>> => Done = Len(asked))
  <2>1. job = <<>> => Len(job) = 0
    OBVIOUS
  <2>2. Len(asked) \in Nat /\ Len(job) \in Nat
    BY <1>1
  <2>3. Len(asked) - Len(job) \in Int /\ Len(asked) - Len(job) <= Len(asked)
    BY <2>2
  <2>4. Len(job) = 0 => Len(asked) - Len(job) = Len(asked)
    BY <2>2
  <2> QED
    BY <2>1, <2>3, <2>4 DEF Done
<1>3. \A p \in Paths : exists(p) =>
          \E i \in 1..Len(asked) : First(i, p) /\ MadeAs(p, asked[i])
  <2>1. \A i \in 1..Done : i \in 1..Len(asked)
    <3>1. Done \in Int /\ Done <= Len(asked) /\ Len(asked) \in Nat
      BY <1>1, <1>2
    <3> QED
      BY <3>1
  <2> QED
    BY <2>1 DEF ConfigInv, MadeForFirst
<1>4. SeedNamesAsDocumented
  BY <1>1, <1>2, <1>3 DEF ConfigInv, DoneMade, SeedNamesAsDocumented, First
<1>5. CleanMeansComplete
  BY <1>1, <1>2 DEF ConfigInv, DoneMade, CleanMeansComplete
<1>6. SeedSizesAsDocumented
  <2> SUFFICES ASSUME NEW p \in Paths, exists(p)
               PROVE  MadeAs(p, FirstFor(p))
    BY DEF SeedSizesAsDocumented, MadeAs
  <2>1. PICK i \in 1..Len(asked) : First(i, p) /\ MadeAs(p, asked[i])
    BY <1>3
  <2>2. FirstFor(p) = asked[i]
    BY <1>1, <2>1, FirstIsChosen
  <2> QED
    BY <2>1, <2>2
<1> QED
  BY <1>4, <1>5, <1>6

\* For any configuration file in which numbered paths have a count of more than
\* one: the files made are those the accepted directives ask for
\* (cfg_seedfile(), create_defaults() and seed(), over Configure()'s loop).
THEOREM SeedNames == SinglesPlain => (ConfigSpec => []SeedNamesAsDocumented)
<1> SUFFICES ASSUME SinglesPlain PROVE ConfigSpec => []SeedNamesAsDocumented
  OBVIOUS
<1>1. ConfigInv /\ [Configure]_configvars => ConfigInv'
  BY ConfigInvNext
<1> QED
  BY <1>1, ConfigInvInit, ConfigInvMeans, PTL DEF ConfigSpec

\* They have the fill pattern of the first directive that asks for them, its
\* size for reads, if 64 bits can hold it, and for Stat, if an off_t can (the
\* arithmetic of cfg_seedfile(), the cast and the map::insert in seed()).
THEOREM SeedSizes == SinglesPlain => (ConfigSpec => []SeedSizesAsDocumented)
<1> SUFFICES ASSUME SinglesPlain PROVE ConfigSpec => []SeedSizesAsDocumented
  OBVIOUS
<1>1. ConfigInv /\ [Configure]_configvars => ConfigInv'
  BY ConfigInvNext
<1> QED
  BY <1>1, ConfigInvInit, ConfigInvMeans, PTL DEF ConfigSpec

\* If Configure() returns 0, every file asked for is there (NoGo is never
\* cleared, and a loop given up half way sets it).
THEOREM CleanComplete == SinglesPlain => (ConfigSpec => []CleanMeansComplete)
<1> SUFFICES ASSUME SinglesPlain PROVE ConfigSpec => []CleanMeansComplete
  OBVIOUS
<1>1. ConfigInv /\ [Configure]_configvars => ConfigInv'
  BY ConfigInvNext
<1> QED
  BY <1>1, ConfigInvInit, ConfigInvMeans, PTL DEF ConfigSpec
=============================================================================
