------------------------- MODULE XrdBlackholeConfig -------------------------
(***************************************************************************)
(* Configure() and the directive handlers cfg_* of XrdBlackholeOss.cc: the *)
(* configuration file is read line by line into an empty namespace, and    *)
(* the storage system is handed to XRootD when it ends.                    *)
(*                                                                         *)
(* A line is a directive with its argument already split into words.  The  *)
(* path argument of seedfile is a record: text is the path as written,     *)
(* expand what snprintf() makes of it for 0, 1, 2, ..., <<>> if it has no  *)
(* format specifier.                                                       *)
(***************************************************************************)
EXTENDS BlackholeFS, Sequences

CONSTANTS
    Word,           \* 2^64: unsigned long and unsigned long long wrap here
    Kilo,           \* 1024
    MaxLines,       \* bound on the directives of a configuration file
    SpeedArgs,      \* the arguments of writespeedMiBps
    ReadtypeArgs,   \* the arguments of readtype
    DefaultsArgs,   \* the arguments of defaultspath: the three paths made of one
    SeedArgs        \* the arguments of seedfile

NoNumber == <<>>        \* a word strtoul() finds no digits in, or no word; else <<n>>
TooLong  == "too long"  \* an expansion that does not fit the buffer
ReadTypes == {"zeros", "random"}
NoSuffix  == ""         \* the size is in bytes
Suffixes  == {NoSuffix, "k", "m", "g", "t"}

ASSUME ConfigAssumption ==
    /\ Word \in Nat \ {0}
    /\ Kilo \in Nat \ {0}
    /\ IntMax > 0
    /\ MaxLines \in Nat
    /\ FileSizes = 0..(Word - 1)
    /\ Word = 2 * (OffMax + 1)
    /\ 10 * Kilo * Kilo * Kilo <= OffMax
    /\ TooLong \notin Paths
    /\ SpeedArgs \subseteq Seq(Int)
    /\ DefaultsArgs \subseteq [1..3 -> Paths]
    /\ \A a \in SeedArgs : /\ a.path.text \in Paths
                           /\ a.path.expand \in Seq(Paths \cup {TooLong})
                           /\ a.size \in Seq(Int)
                           /\ a.count \in Seq(Int)

VARIABLES
    m_readtype,         \* inode -> Stub::m_readtype
    m_writespeedMiBs,   \* 0 is unlimited
    NoGo,               \* Configure()'s result
    job,                \* the seed() calls the directive being read has left
    lines,              \* the number of directives read
    served,             \* the constructor has returned
    asked               \* history: the files the accepted directives ask for

cfgvars == <<m_readtype, m_writespeedMiBs, NoGo, job, lines, served>>
configvars == <<fsvars, cfgvars, asked>>

ConfigInit ==
    /\ FSInit
    /\ m_readtype = [i \in Inodes |-> "zeros"]
    /\ m_writespeedMiBs = 0
    /\ NoGo = 0
    /\ job = <<>>
    /\ lines = 0
    /\ served = FALSE
    /\ asked = <<>>

-----------------------------------------------------------------------------
\* strtoul() and strtoull(): a minus sign negates in the unsigned type, and
\* only a value of too large a magnitude is ERANGE.
parses(word) == word # NoNumber /\ -Word < word[1] /\ word[1] < Word
strtoull(word) == word[1] % Word

\* The next line of the file is a directive.
ReadLine ==
    /\ ~served
    /\ job = <<>>
    /\ lines < MaxLines
    /\ lines' = lines + 1
    /\ UNCHANGED served

\* A handler returns false.
Reject ==
    /\ NoGo' = 1
    /\ job' = <<>>
    /\ UNCHANGED <<fsvars, m_readtype, m_writespeedMiBs, asked>>

\* Mutant of cfg_writespeedMiBps: the value is not checked against INT_MAX.
cfg_writespeedMiBps_unchecked(word) ==
    /\ ReadLine
    /\ \/ ~parses(word) /\ Reject
       \/ /\ parses(word)
          /\ m_writespeedMiBs' = strtoull(word)
          /\ UNCHANGED <<fsvars, m_readtype, NoGo, job, asked>>

cfg_writespeedMiBps(word) ==
    /\ ReadLine
    /\ \/ /\ ~(parses(word) /\ strtoull(word) < IntMax)
          /\ Reject
       \/ /\ parses(word)
          /\ strtoull(word) < IntMax
          /\ m_writespeedMiBs' = strtoull(word)
          /\ UNCHANGED <<fsvars, m_readtype, NoGo, job, asked>>

\* m_readtype of XrdBlackholeOss is only ever "zeros", and only logged.
cfg_readtype(type) ==
    /\ ReadLine
    /\ IF type = "zeros" THEN UNCHANGED <<fsvars, m_readtype, m_writespeedMiBs, NoGo, job, asked>>
       ELSE Reject

\* Mutant of Accept: the result is that of the last directive.
Accept_clears(calls, promised) ==
    /\ job' = calls
    /\ asked' = asked \o promised
    /\ NoGo' = 0
    /\ UNCHANGED <<fsvars, m_readtype, m_writespeedMiBs>>

\* A directive is accepted: the seed() calls it makes, and the files its
\* documentation promises.
Accept(calls, promised) ==
    /\ job' = calls
    /\ asked' = asked \o promised
    /\ UNCHANGED <<fsvars, m_readtype, m_writespeedMiBs, NoGo>>

\* create_defaults(): one file of 1 MiB, one of 1 GiB, one of 10 GiB.
create_defaults(path) ==
    LET size == <<Kilo * Kilo, Kilo * Kilo * Kilo, 10 * Kilo * Kilo * Kilo>>
    IN  [i \in 1..3 |-> [path |-> path[i], size |-> size[i], type |-> "zeros"]]

cfg_defaultspath(path) ==
    /\ ReadLine
    /\ \/ path = <<>> /\ Reject
       \/ path # <<>> /\ Accept(create_defaults(path), create_defaults(path))

\* The power of 1024 a suffix stands for.
Unit(suffix) ==
    CASE suffix = NoSuffix -> 1
      [] suffix = "k" -> Kilo
      [] suffix = "m" -> Kilo * Kilo
      [] suffix = "g" -> Kilo * Kilo * Kilo
      [] suffix = "t" -> Kilo * Kilo * Kilo * Kilo

\* Mutant of seedSize: the multiplication loses one power.
seedSize_K(a) == (strtoull(a.size) * (IF a.suffix = NoSuffix THEN 1 ELSE Kilo)) % Word

\* size *= 1024ULL ... wraps.
seedSize(a) == (strtoull(a.size) * Unit(a.suffix)) % Word

Count(a) == strtoull(a.count)

\* Every check cfg_seedfile makes before it creates a file.
seedRejected(a) ==
    \/ ~parses(a.size)
    \/ a.suffix \notin Suffixes
    \/ ~parses(a.count) \/ Count(a) = 0
    \/ a.type \notin ReadTypes
    \/ Count(a) > 1 /\ a.path.expand = <<>>

\* expand is long enough for the count, and larger numbers, as far as an int
\* holds them, do not get shorter: past an expansion that does not fit, none does.
ASSUME SeedAssumption ==
    \A a \in SeedArgs :
        /\ ~seedRejected(a) /\ a.path.expand # <<>> => Count(a) <= Len(a.path.expand)
        /\ \A i, j \in DOMAIN a.path.expand :
              i < j /\ a.path.expand[i] = TooLong => a.path.expand[j] = TooLong

\* Mutant of seedPaths: the loop makes one file less.
seedPaths_short(a) ==
    IF Count(a) = 1 THEN <<a.path.text>> ELSE SubSeq(a.path.expand, 1, Count(a) - 1)

\* With count=1 the path is taken as it is written.
seedPaths(a) ==
    IF Count(a) = 1 THEN <<a.path.text>> ELSE SubSeq(a.path.expand, 1, Count(a))

\* What docs/configuration.md promises: N files, numbered by expanding the
\* format specifier if there is one, each of exactly the size written.
Promised(a) ==
    [i \in 1..Count(a) |->
        [path |-> IF a.path.expand = <<>> THEN a.path.text ELSE a.path.expand[i],
         size |-> a.size[1] * Unit(a.suffix),
         type |-> a.type]]

cfg_seedfile(a) ==
    /\ ReadLine
    /\ \/ seedRejected(a) /\ Reject
       \/ /\ ~seedRejected(a)
          /\ Accept([i \in DOMAIN seedPaths(a) |->
                        [path |-> seedPaths(a)[i], size |-> seedSize(a), type |-> a.type]],
                    Promised(a))

\* One turn of the loop, and one call of seed().
SeedOne ==
    LET s == Head(job)
    IN  /\ job # <<>>
        /\ s.path # TooLong
        /\ seed(s.path, s.size)
        /\ m_readtype' = IF exists(s.path) THEN m_readtype
                         ELSE [m_readtype EXCEPT ![m_fd_last'] = s.type]
        /\ job' = Tail(job)
        /\ UNCHANGED <<m_writespeedMiBs, NoGo, lines, served, asked>>

\* A path too long ends the loop; the files already made stay.
SeedTooLong ==
    /\ job # <<>>
    /\ Head(job).path = TooLong
    /\ Reject
    /\ UNCHANGED <<lines, served>>

\* The file cannot be opened, or reading it ends with an error.
ReadError ==
    /\ ~served
    /\ job = <<>>
    /\ lines' = MaxLines
    /\ Reject
    /\ UNCHANGED served

\* The end of the file: the constructor drops Configure()'s result.
Serve ==
    /\ ~served
    /\ job = <<>>
    /\ served' = TRUE
    /\ UNCHANGED <<fsvars, m_readtype, m_writespeedMiBs, NoGo, job, lines, asked>>

Configure ==
    \/ \E word \in SpeedArgs : cfg_writespeedMiBps(word)
    \/ \E type \in ReadtypeArgs : cfg_readtype(type)
    \/ \E path \in DefaultsArgs \cup {<<>>} : cfg_defaultspath(path)
    \/ \E a \in SeedArgs : cfg_seedfile(a)
    \/ SeedOne
    \/ SeedTooLong
    \/ ReadError
    \/ Serve

ConfigSpec == ConfigInit /\ [][Configure]_configvars

-----------------------------------------------------------------------------
ConfigTypeOK ==
    /\ FSTypeOK
    /\ m_readtype \in [Inodes -> ReadTypes]
    /\ m_writespeedMiBs \in 0..(IntMax - 1)
    /\ NoGo \in {0, 1}
    /\ lines \in 0..MaxLines
    /\ served \in BOOLEAN

\* A path with a format specifier comes with a count of more than one.  (With
\* count=1 the code takes the specifier for part of the name.)
SinglesPlain ==
    \A a \in SeedArgs : ~seedRejected(a) /\ Count(a) = 1 => a.path.expand = <<>>

\* The first request for path p among those made so far.
FirstFor(p) ==
    LET i == CHOOSE i \in DOMAIN asked :
                 asked[i].path = p /\ \A j \in 1..(i - 1) : asked[j].path # p
    IN  asked[i]

\* Every file an accepted directive asks for exists when its handler is done, up
\* to the one whose name no longer fits, and no other file does: the count=
\* loop makes exactly the documented names.
SeedNamesAsDocumented ==
    job = <<>> =>
        /\ \A i \in DOMAIN asked : asked[i].path # TooLong => exists(asked[i].path)
        /\ \A p \in Paths : exists(p) => \E i \in DOMAIN asked : asked[i].path = p

\* A file has the size and the fill pattern written in the first directive that
\* names it, however many later ones name it again: reads go by it if it is one
\* the word can hold, and Stat reports it if it is one an off_t can.
SeedSizesAsDocumented ==
    \A p \in Paths : exists(p) /\ (\E i \in DOMAIN asked : asked[i].path = p) =>
        LET s == stub[m_files[p]] IN
        /\ FirstFor(p).size \in FileSizes => s.m_size = FirstFor(p).size
        /\ FirstFor(p).size \in 0..OffMax => s.st_size = FirstFor(p).size
        /\ m_readtype[m_files[p]] = FirstFor(p).type

\* A result of 0 means that all of the file took effect: every file an accepted
\* directive asks for is there, the last of a numbered family included.  A loop
\* given up half way is reported, and no later success hides it.
CleanMeansComplete ==
    NoGo = 0 /\ job = <<>> =>
        \A i \in DOMAIN asked : asked[i].path # TooLong /\ exists(asked[i].path)
=============================================================================
