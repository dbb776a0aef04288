-------------------------- MODULE DiskStreamProofs --------------------------
(* Proofs about DiskStream: for files, buffers and pages of any size, what   *)
(* was appended is what a scan gets, no buffer is given away while the I/O   *)
(* thread works on it, and no assertion fails.                               *)
EXTENDS DiskStream, FiniteSetTheorems, SequenceTheorems, WellFoundedInduction, TLAPS

-----------------------------------------------------------------------------
(* A file and the sequence of items it stands for *)

Cells == Items \cup {NULL}
Disks == [file : Seq(Cells), seek : Nat, pos : Nat, bytes : Nat, page : [1..PageSize -> Cells]]

\* The file has all of D, which may be followed by the rest of a page.
Complete(d, D) == Len(D) <= Len(d.file) /\ \A k \in 1..Len(D) : d.file[k] = D[k]

\* While it is appended to, the file has the whole pages of D, and the page in
\* memory has the rest.
Carried(d, D) ==
    /\ d.pos = Len(D) /\ d.bytes = Len(D) /\ Rounded(Len(D)) <= Len(d.file)
    /\ \A k \in 1..Rounded(Len(D)) : d.file[k] = D[k]
    /\ \A k \in Rounded(Len(D)) + 1..Len(D) : d.page[k - Rounded(Len(D))] = D[k]
Holds(d, D) == Carried(d, D) /\ d.seek = Rounded(Len(D))

\* Before it is rewound the page in memory is flushed, perhaps more than once.
Flushing(d, D) ==
    /\ Carried(d, D)
    /\ \/ d.seek = Rounded(Len(D))
       \/ Complete(d, D) /\ Len(D) <= d.seek /\ d.seek <= Len(d.file) /\ Len(D) % PageSize > 0

\* While it is read, the page in memory is the one that ends behind the last
\* item that was read.
PageEnd(n) == IF n % PageSize = 0 THEN n ELSE Rounded(n) + PageSize
Reads(d, D) ==
    /\ d.bytes = Len(D) /\ d.pos \in 0..Len(D) /\ Complete(d, D)
    /\ d.seek = IF Len(d.file) <= PageEnd(d.pos) THEN Len(d.file) ELSE PageEnd(d.pos)
    /\ \A k \in 1..Len(D) : k > Rounded(d.pos) /\ k <= PageEnd(d.pos) =>
           d.page[k - Rounded(d.pos)] = D[k]

-----------------------------------------------------------------------------
(* The inductive invariant *)

Work == queue = 1 \/ io = "busy"
ScanPcs == {"scan", "reading", "consume", "reset"}
WritePcs == {"fill", "append", "spill", "spillBatch", "merged"}
Rewinds == {"rewind", "flush", "done"}
Reading == {"scan", "reading", "consume"}
PcInv ==
    /\ kind = "updates" => pc \in {"fill", "append", "spill", "flushing", "reset"} \cup Rewinds \cup Reading
    /\ kind = "edges" => pc \in Rewinds \cup Reading
    /\ kind = "vertices" => pc \in {"load", "prepare", "work", "store", "storing"} \cup Rewinds
    /\ kind = "ingested" => pc \in {"ingest", "flushing", "merge", "append", "spillBatch", "merged"}
                                      \cup Rewinds \cup Reading
One(held) == IF held THEN 1 ELSE 0
Holders == Pool \cup {NULL}

\* Where the main thread is.
Place ==
    /\ kind \in {"updates", "edges", "vertices", "ingested"} /\ superPartitions \in SuperPartitionCounts
    /\ kind = "ingested" => superPartitions = 1
    /\ kind = "vertices" => superPartitions > 1
    /\ PcInv
    /\ cycle \in 0..Cycles + 1 /\ (cycle = Cycles + 1 => pc = "done")
    /\ superp \in Supers /\ i \in Supers

\* The types of the other variables but for the contents of buffers and files.
Fields ==
    /\ {cache, buf, batch} \subseteq Holders
    /\ request \in IF kind = "vertices" THEN {State, NULL} ELSE Holders
    /\ requestSuperp \in Supers \cup {APPEND}
    /\ {writeOp, oneShot, flushComplete, eofFlag} \subseteq BOOLEAN
    /\ queue \in 0..1 /\ io \in {"idle", "busy", "late"} /\ (io = "busy" => queue = 0)
    /\ uptodate \in [Buffers -> BOOLEAN] /\ dirty \in [Buffers -> BOOLEAN]
    /\ refcount \in [Buffers -> Int] /\ refcount[State] <= 0
    /\ startPos \in Nat
    /\ fatal = "no"
\* What the I/O thread has been asked to do, and where the main thread is then.
RequestInv ==
    /\ \A b \in Buffers : ~uptodate[b] <=> Work /\ b = request
    /\ kind = "edges" => ~writeOp
    /\ oneShot <=> kind = "vertices" /\ Work
    /\ Work /\ request = NULL => pc = "flushing" /\ writeOp
    /\ pc \in {"flush", "merge", "reset"} => request = NULL
    /\ pc = "flushing" => request = NULL /\ requestSuperp = APPEND /\ (flushComplete <=> ~Work)
    /\ flushComplete \/ pc = "flushing"
    /\ io = "late" => flushComplete /\ (kind = "vertices" => request # NULL /\ ~Work)
    /\ pc = "reading" => request # NULL
    /\ kind # "vertices" /\ request # NULL =>
         IF writeOp THEN pc \in {"rewind", "ingest", "done"} \cup WritePcs /\ requestSuperp = APPEND
         ELSE pc \in {"scan", "reading", "consume"} /\ requestSuperp = superp
    /\ kind = "vertices" /\ Work =>
         /\ IF writeOp THEN pc = "storing" /\ dirty[State] ELSE pc = "prepare" /\ cycle > 0
         /\ requestSuperp = superp

\* Who has which buffer.
HolderInv ==
    /\ kind = "vertices" => cache = NULL
    /\ cache # NULL => /\ superPartitions = 1 /\ pc \notin {"reading", "flush", "flushing"}
                       /\ request = NULL \/ pc \in {"spill", "spillBatch"}
                       /\ pc \in {"scan", "consume"} => requestSuperp # APPEND
                       /\ pc = "consume" => eofFlag /\ buf = cache
    /\ pc \in {"spill", "spillBatch"} => cache # NULL /\ request = cache
    /\ pc \in {"append", "spill", "consume"} => buf # NULL
    /\ pc \in {"append", "spill"} => buf \notin {request, cache}
    /\ pc = "consume" => buf # request
    /\ pc = "append" /\ kind = "ingested" => request = NULL /\ cache = NULL
    /\ pc \in {"merge", "spillBatch"} => batch # NULL
    /\ batch # NULL =>
         /\ kind = "ingested" /\ batch \notin {request, cache}
         /\ pc \in {"rewind", "flush", "flushing", "scan", "reading", "consume", "merge", "spillBatch"}
         /\ pc = "consume" => buf # batch

\* Every buffer has the references that the stream has taken.
RefInv ==
    \A b \in Pool :
        refcount[b] = One(b \in {request, cache})
                      + One(b = buf /\ pc \in {"append", "spill", "consume"}) + One(b = batch)

\* A buffer is dirty until it is written or dropped.
DirtyInv ==
    \A b \in Pool : dirty[b] <=> \/ b = buf /\ pc \in {"append", "spill"}
                                 \/ b = request /\ writeOp /\ ~uptodate[b]
                                 \/ b = cache /\ DiskEmpty

\* Where data is on its way to the files the next request is an append.
AppendInv ==
    /\ pc \in WritePcs => requestSuperp = APPEND
    /\ kind = "updates" /\ pc = "rewind" => requestSuperp = APPEND
    /\ cache # NULL =>
         \/ DiskEmpty
         \/ pc \in {"spill", "spillBatch"}
         \/ kind # "ingested" /\ requestSuperp # APPEND
    /\ kind # "vertices" /\ request # NULL =>
         IF writeOp THEN superPartitions = 1 /\ uptodate[request] => disk[0].bytes > 0
         ELSE disk[superp].bytes > 0
    /\ pc = "spill" /\ ~uptodate[request] => DiskEmpty

\* Buffers: what is to be written is not empty.
OfFirst(t) == \A k \in 1..Len(t) : t[k][1] = 0
ContentInv ==
    /\ content \in [Buffers -> Seq(Items)] /\ \A b \in Buffers : Len(content[b]) <= BufferSize
    /\ kind # "vertices" /\ request # NULL /\ writeOp => content[request] # <<>>
    /\ cache # NULL => content[cache] # <<>>
    /\ pc \in {"append", "spill"} => content[buf] # <<>>
    /\ batch # NULL => content[batch] # <<>>
    /\ superPartitions = 1 => \A b \in Buffers : OfFirst(content[b])

\* The sequence in the file of s, as far as the main thread has come with it.
Tail_(s, D) ==
    \/ requestSuperp = APPEND /\ kind # "edges" /\ Flushing(disk[s], D[s])
    \/ (requestSuperp # APPEND \/ disk[s].pos = 0) /\ Reads(disk[s], D[s])
Writing == Work /\ writeOp /\ request # NULL
FileInv(D) ==
    /\ disk \in [Supers -> Disks]
    /\ \A s \in Supers :
        /\ disk[s].pos <= disk[s].bytes /\ disk[s].bytes = Len(D[s])
        /\ superPartitions = 1 => OfFirst(D[s])
        /\ pc \in WritePcs \/ Writing => Holds(disk[s], D[s])
        /\ pc \in {"ingest", "rewind"} => Tail_(s, D)
        /\ pc \in {"flush", "flushing"} =>
             IF s < i THEN disk[s].pos = 0 /\ Reads(disk[s], D[s]) ELSE Tail_(s, D)
        /\ pc = "flushing" /\ flushComplete /\ s = i => Complete(disk[s], D[s])
        /\ pc \in ScanPcs \cup {"merge"} =>
             /\ Reads(disk[s], D[s])
             /\ requestSuperp = APPEND \/ s > superp => disk[s].pos = 0
             /\ kind = "updates" /\ s < superp => disk[s].bytes = 0
             /\ pc = "merge" /\ cache = NULL => disk[s].pos = disk[s].bytes

\* s followed by t, where the proofs need not know more.
Join(s, t) == s \o t

\* The items of s are those with the numbers behind m.
Numbered(s, m) == s = [k \in 1..Len(s) |-> <<0, 0, m + k>>]

\* What was given to the stream and is in no file yet.
ToWrite(s) == IF request # NULL /\ writeOp /\ ~uptodate[request] THEN Substream(content[request], s) ELSE <<>>
Cached == IF cache \notin {NULL, request} /\ DiskEmpty THEN content[cache] ELSE <<>>
ToAppend(s) == IF pc \in {"append", "spill"} THEN Substream(content[buf], s)
               ELSE IF pc = "spillBatch" THEN content[batch] ELSE <<>>
Unwritten(s) == Join(ToWrite(s), Join(Cached, ToAppend(s)))

\* What was given to the stream is in the files and the buffers, in order or,
\* when it was ingested, once.
SentInv(D) ==
    /\ sent \in [Supers -> Seq(Items)] /\ \A s \in Supers : Len(sent[s]) <= MaxItems
    /\ kind # "ingested" => \A s \in Supers : sent[s] = Join(D[s], Unwritten(s))
    /\ kind = "ingested" =>
         LET all == Join(D[0], Unwritten(0))
         IN /\ IsInjective(all) /\ ToSet(all) = ToSet(sent[0])
            /\ Numbered(sent[0], 0)
            /\ batch # NULL /\ pc # "spillBatch" =>
                 /\ Numbered(content[batch], Len(sent[0]))
                 /\ Len(sent[0]) + Len(content[batch]) <= MaxItems
            /\ cache = NULL /\ (request # NULL \/ disk[0].bytes > 0) => Len(all) > BufferSize
            /\ pc = "spillBatch" =>
                 /\ Len(content[cache]) = BufferSize
                 /\ disk[0].bytes = IF uptodate[request] THEN BufferSize ELSE 0

\* What a scan has got, and what it is about to get from the buffers, is what
\* was read of the file.
ToGet == Join(IF pc = "consume" THEN content[buf] ELSE <<>>,
              IF request # NULL /\ uptodate[request] THEN content[request] ELSE <<>>)
GotInv(D) ==
    /\ got \in [Supers -> Seq(Items)]
    /\ \A s \in Supers :
         IF pc \in ScanPcs /\ s = superp
         THEN IF cache = NULL THEN Join(got[s], ToGet) = SubSeq(D[s], 1, disk[s].pos)
              ELSE got[s] = IF eofFlag /\ pc # "consume" THEN content[cache] ELSE <<>>
         ELSE got[s] = <<>>
    /\ pc = "reading" /\ startPos = 0 => got[superp] = <<>>
    /\ cache # NULL /\ ~DiskEmpty /\ pc \notin {"spill", "spillBatch"} => content[cache] = D[0]

StreamData(D) == D \in [Supers -> Seq(Items)] /\ FileInv(D) /\ SentInv(D) /\ GotInv(D)

\* The vertices of a super partition are in its file when they were stored, and
\* in memory when they were loaded.
VertexInv ==
    /\ disk \in [Supers -> Disks]
    /\ {sent, got} \subseteq [Supers -> Seq(Items)]
    /\ \A s \in Supers :
         /\ disk[s].pos = 0 /\ disk[s].bytes = 0 /\ got[s] = <<>>
         /\ sent[s] = <<>> \/ \E c \in 0..Cycles : sent[s] = << <<s, c, 1>> >>
         /\ Len(disk[s].file) <= 1
         /\ ~(pc = "storing" /\ s = superp /\ Work) => disk[s].file = sent[s]
         /\ cycle > 0 \/ s < superp => sent[s] # <<>>
    /\ pc = "store" => content[State] = << <<superp, cycle, 1>> >>
    /\ pc = "storing" => content[State] = sent[superp] /\ sent[superp] # <<>>
    /\ pc \in {"prepare", "work"} /\ cycle > 0 /\ ~Work => content[State] = sent[superp]

Data == IF kind = "vertices" THEN VertexInv ELSE \E D : StreamData(D)

\* What the two threads know of each other, and the data.
Threads == Place /\ Fields /\ RequestInv /\ HolderInv /\ RefInv /\ DirtyInv /\ AppendInv
IInv == Threads /\ ContentInv /\ Data

-----------------------------------------------------------------------------
(* Numbers, pages and sequences *)

\* What the assumptions say of the constants.
LEMMA Basics ==
  /\ NumBuffers \in Nat \ {0} /\ BufferSize \in Nat \ {0} /\ PageSize \in Nat \ {0}
  /\ MaxItems \in Nat \ {0} /\ Cycles \in Nat \ {0} /\ SuperPartitionCounts \subseteq Nat \ {0}
  /\ NULL \notin Buffers /\ NULL \notin Items /\ NULL \notin Pool /\ APPEND \notin Nat
  /\ Pool \subseteq Nat \ {0} /\ Pool \subseteq Buffers /\ State \in Buffers /\ State \notin Pool
  /\ NULL # State
<1>1. /\ NumBuffers \in Nat \ {0} /\ BufferSize \in Nat \ {0} /\ PageSize \in Nat \ {0}
      /\ MaxItems \in Nat \ {0} /\ Cycles \in Nat \ {0} /\ SuperPartitionCounts \subseteq Nat \ {0}
  BY SizesAssumption
<1>2. NULL \notin Buffers /\ NULL \notin Items /\ APPEND \notin Nat
  BY NullAssumption
<1>3. /\ Pool \subseteq Nat \ {0} /\ Pool \subseteq Buffers
      /\ State \in Buffers /\ State \notin Pool
  BY <1>1 DEF Pool, Buffers, State
<1>4. QED
  BY <1>1, <1>2, <1>3

\* The least element of a set of numbers is one of them.
LEMMA MinIn ==
  ASSUME NEW S \in SUBSET Nat, S # {}
  PROVE  Min(S) \in S /\ \A y \in S : Min(S) <= y
<1> DEFINE R == {p \in Nat \X Nat : p[1] < p[2]}
<1>1. IsWellFoundedOn(R, Nat)
  BY NatLessThanWellFounded DEF OpToRel
<1> HIDE DEF R
<1>2. PICK x \in S : \A y \in S : <<y, x>> \notin R
  BY <1>1, WFMin
<1>3. ASSUME NEW y \in S, y < x PROVE FALSE
  <2>1. <<y, x>> \in R
    BY <1>3 DEF R
  <2>2. QED
    BY <1>2, <2>1
<1>5. \A y \in S : x <= y
  BY <1>3
<1>4. QED
  BY <1>5 DEF Min

\* The lesser and the larger of two numbers.
LEMMA OfTwo ==
  ASSUME NEW a \in Nat, NEW b \in Nat
  PROVE  /\ Min({a, b}) = IF a <= b THEN a ELSE b
         /\ Max({a, b}) = IF a <= b THEN b ELSE a
<1>1. /\ Min({a, b}) \in {a, b} /\ Min({a, b}) <= a /\ Min({a, b}) <= b
  BY DEF Min
<1>2. /\ Max({a, b}) \in {a, b} /\ Max({a, b}) >= a /\ Max({a, b}) >= b
  BY DEF Max
<1>3. QED
  BY <1>1, <1>2

\* Division with a remainder.
LEMMA Division ==
  ASSUME NEW a \in Nat, NEW b \in Nat \ {0}
  PROVE  /\ a \div b \in Nat /\ a % b \in 0..b - 1
         /\ a = b * (a \div b) + (a % b)
OBVIOUS

\* There is only one quotient and remainder.
LEMMA DivisionUnique ==
  ASSUME NEW n \in Nat, NEW b \in Nat \ {0}, NEW q \in Nat, NEW r \in 0..b - 1, n = b * q + r
  PROVE  n \div b = q /\ n % b = r
<1>1. (b * q + r) \div b = q /\ (b * q + r) % b = r
  OBVIOUS
<1>2. QED
  BY <1>1

\* A part of it is no larger than the number.
LEMMA QuotientIsLess ==
  ASSUME NEW a \in Nat, NEW b \in Nat \ {0}
  PROVE  a \div b \in Nat /\ a \div b <= a
<1>1. a \div b \in Nat /\ a = b * (a \div b) + (a % b) /\ a % b \in Nat
  BY Division
<1>2. b * (a \div b) >= a \div b
  BY <1>1
<1>3. QED
  BY <1>1, <1>2

\* The items on whole pages, and those on the last one.
LEMMA Pages ==
  ASSUME NEW n \in Nat
  PROVE  /\ Rounded(n) \in Nat /\ n % PageSize \in 0..PageSize - 1
         /\ n = Rounded(n) + (n % PageSize)
         /\ Rounded(n) = PageSize * (n \div PageSize) /\ n \div PageSize \in Nat
         /\ PageEnd(n) \in Nat /\ n <= PageEnd(n) /\ PageEnd(n) <= Rounded(n) + PageSize
<1>1. PageSize \in Nat \ {0}
  BY Basics
<1>2. n \div PageSize \in Nat /\ n % PageSize \in 0..PageSize - 1
      /\ n = PageSize * (n \div PageSize) + (n % PageSize)
  BY <1>1, Division
<1>3. Rounded(n) = PageSize * (n \div PageSize) /\ Rounded(n) \in Nat
  BY <1>1, <1>2 DEF Rounded
<1>4. QED
  BY <1>1, <1>2, <1>3 DEF PageEnd

\* What is written behind the last item: it stays on its page, ends it, or
\* begins at the start of one.
LEMMA SamePage ==
  ASSUME NEW n \in Nat, NEW m \in Nat, (n % PageSize) + m < PageSize
  PROVE  Rounded(n + m) = Rounded(n) /\ (n + m) % PageSize = (n % PageSize) + m
<1> DEFINE q == n \div PageSize
           r == (n % PageSize) + m
<1>1. PageSize \in Nat \ {0}
  BY Basics
<1>2. q \in Nat /\ r \in 0..PageSize - 1 /\ n + m = PageSize * q + r
  <2>1. /\ n \div PageSize \in Nat /\ n % PageSize \in 0..PageSize - 1
        /\ n = Rounded(n) + (n % PageSize) /\ Rounded(n) = PageSize * (n \div PageSize)
    BY Pages
  <2>2. n = PageSize * q + (n % PageSize)
    BY <2>1
  <2> HIDE DEF q
  <2>3. q \in Nat
    BY <2>1 DEF q
  <2>4. QED
    BY <1>1, <2>1, <2>2, <2>3
<1> HIDE DEF q, r
<1>3. (n + m) \div PageSize = q /\ (n + m) % PageSize = r
  BY <1>1, <1>2, DivisionUnique
<1>4. QED
  BY <1>3 DEF Rounded, q, r

\* Behind whole pages, pages are counted anew.
LEMMA NextPages ==
  ASSUME NEW n \in Nat, NEW m \in Nat, n % PageSize = 0
  PROVE  /\ Rounded(n + m) = n + Rounded(m) /\ (n + m) % PageSize = m % PageSize
         /\ Rounded(n) = n
<1>1. PageSize \in Nat \ {0}
  BY Basics
<1>2. PICK a \in Nat : n = PageSize * a
  <2>1. n \div PageSize \in Nat /\ n = Rounded(n) + (n % PageSize)
        /\ Rounded(n) = PageSize * (n \div PageSize) /\ Rounded(n) \in Nat
    BY Pages
  <2>2. n = PageSize * (n \div PageSize)
    BY <1>1, <2>1
  <2>3. QED
    BY <1>1, <2>1, <2>2
<1>3. PICK b \in Nat, r \in 0..PageSize - 1 :
          m = PageSize * b + r /\ Rounded(m) = PageSize * b /\ m % PageSize = r
  <2>1. m \div PageSize \in Nat /\ m = Rounded(m) + (m % PageSize)
        /\ Rounded(m) = PageSize * (m \div PageSize) /\ m % PageSize \in 0..PageSize - 1
    BY Pages
  <2>2. QED
    BY <1>1, <2>1
<1>4. n + m = PageSize * (a + b) + r /\ a + b \in Nat /\ n + m \in Nat
  BY <1>1, <1>2, <1>3
<1>5. (n + m) \div PageSize = a + b /\ (n + m) % PageSize = r
  <2> DEFINE c == a + b
  <2>1. c \in Nat /\ n + m = PageSize * c + r /\ n + m \in Nat
    BY <1>4
  <2> HIDE DEF c
  <2>2. (n + m) \div PageSize = c /\ (n + m) % PageSize = r
    BY <1>1, <2>1, DivisionUnique
  <2>3. QED
    BY <2>2 DEF c
<1>6. Rounded(n + m) = (a + b) * PageSize
  BY <1>5 DEF Rounded
<1>7. Rounded(n + m) = n + Rounded(m)
  BY <1>1, <1>2, <1>3, <1>6
<1>8. Rounded(n) = n
  <2>1. n = Rounded(n) + (n % PageSize) /\ Rounded(n) \in Nat
    BY Pages
  <2>2. QED
    BY <1>1, <2>1
<1>9. QED
  BY <1>3, <1>5, <1>7, <1>8

\* Items that fill the last page.
LEMMA PageFull ==
  ASSUME NEW n \in Nat, NEW m \in Nat, (n % PageSize) + m = PageSize
  PROVE  (n + m) % PageSize = 0 /\ n + m = Rounded(n) + PageSize /\ Rounded(n + m) = n + m
<1>1. PageSize \in Nat \ {0}
  BY Basics
<1>2. /\ n \div PageSize \in Nat /\ n = Rounded(n) + (n % PageSize)
      /\ Rounded(n) = PageSize * (n \div PageSize) /\ Rounded(n) \in Nat
  BY Pages
<1>3. PICK q \in Nat : n \div PageSize = q
  BY <1>2
<1>4. n + m = PageSize * q + PageSize /\ n + m = Rounded(n) + PageSize
  BY <1>1, <1>2, <1>3
<1>5. n + m = PageSize * (q + 1) + 0 /\ q + 1 \in Nat /\ n + m \in Nat /\ 0 \in 0..PageSize - 1
  BY <1>1, <1>4
<1>6. (n + m) % PageSize = 0
  <2> DEFINE c == q + 1
  <2>1. n + m = PageSize * c + 0 /\ c \in Nat /\ n + m \in Nat /\ 0 \in 0..PageSize - 1
    BY <1>5
  <2> HIDE DEF c
  <2>2. QED
    BY <1>1, <2>1, DivisionUnique
<1>7. n + m = Rounded(n + m) + ((n + m) % PageSize) /\ Rounded(n + m) \in Nat
  BY <1>5, Pages
<1>8. QED
  BY <1>1, <1>4, <1>6, <1>7

\* A function on 1..n is a sequence.
LEMMA SequenceOf ==
  ASSUME NEW S, NEW n \in Nat, NEW f \in [1..n -> S]
  PROVE  f \in Seq(S) /\ Len(f) = n
<1>1. f \in Seq(S)
  BY SeqDef
<1>2. Len(f) \in Nat /\ DOMAIN f = 1..Len(f) /\ DOMAIN f = 1..n
  BY <1>1, LenProperties
<1>3. QED
  BY <1>1, <1>2

-----------------------------------------------------------------------------
(* Files *)

\* write() at the file offset: data is at the offset, what is in front of it and behind it stays.
LEMMA PutFileIs ==
  ASSUME NEW d \in Disks, NEW data \in Seq(Cells), d.seek <= Len(d.file)
  PROVE  LET e == PutFile(d, data)
         IN /\ e \in Disks /\ e.seek = d.seek + Len(data)
            /\ e.pos = d.pos /\ e.bytes = d.bytes /\ e.page = d.page
            /\ Len(e.file) = IF Len(d.file) <= e.seek THEN e.seek ELSE Len(d.file)
            /\ \A k \in 1..d.seek : e.file[k] = d.file[k]
            /\ \A k \in 1..Len(data) : e.file[d.seek + k] = data[k]
<1> DEFINE last == d.seek + Len(data)
           len == Max({Len(d.file), last})
           f == [k \in 1..len |->
                   IF k > d.seek /\ k <= last THEN data[k - d.seek] ELSE d.file[k]]
           e == PutFile(d, data)
<1>1. /\ d.file \in Seq(Cells) /\ d.seek \in Nat /\ d.pos \in Nat /\ d.bytes \in Nat
      /\ d.page \in [1..PageSize -> Cells]
  BY DEF Disks
<1>2. Len(d.file) \in Nat /\ Len(data) \in Nat
  BY <1>1, LenProperties
<1>3. last \in Nat
  BY <1>1, <1>2
<1>4. len = IF Len(d.file) <= last THEN last ELSE Len(d.file)
  BY <1>2, <1>3, OfTwo
<1>5. e = [d EXCEPT !.seek = last, !.file = f]
  BY DEF PutFile
<1>6. \A k \in 1..len : f[k] \in Cells
  <2> SUFFICES ASSUME NEW k \in 1..len PROVE f[k] \in Cells
    OBVIOUS
  <2>1. CASE k > d.seek /\ k <= last
    <3>1. k - d.seek \in 1..Len(data)
      BY <1>1, <1>2, <1>4, <2>1
    <3>2. QED
      BY <2>1, <3>1, ElementOfSeq
  <2>2. CASE ~(k > d.seek /\ k <= last)
    <3>1. k \in 1..Len(d.file)
      BY <1>1, <1>2, <1>4, <2>2
    <3>2. QED
      BY <1>1, <2>2, <3>1, ElementOfSeq
  <2>3. QED
    BY <2>1, <2>2
<1>7. len \in Nat /\ f \in [1..len -> Cells]
  <2>1. len \in Nat
    BY <1>2, <1>3, <1>4
  <2>2. QED
    BY <1>6, <2>1
<1>8. f \in Seq(Cells) /\ Len(f) = len
  <2> HIDE DEF f, len
  <2>1. QED
    BY <1>7, SequenceOf
<1>9. \A k \in 1..d.seek : f[k] = d.file[k]
  BY <1>1, <1>2, <1>3, <1>4
<1>10. \A k \in 1..Len(data) : f[d.seek + k] = data[k]
  <2> SUFFICES ASSUME NEW k \in 1..Len(data) PROVE f[d.seek + k] = data[k]
    OBVIOUS
  <2>1. d.seek + k \in 1..len /\ d.seek + k > d.seek /\ d.seek + k <= last
    BY <1>1, <1>2, <1>3, <1>4
  <2>2. (d.seek + k) - d.seek = k
    BY <1>1
  <2> HIDE DEF len, last
  <2>3. f[d.seek + k] = data[(d.seek + k) - d.seek]
    BY <2>1
  <2>4. QED
    BY <2>2, <2>3
<1> HIDE DEF f, len
<1>11. /\ e.file = f /\ e.seek = last /\ e.pos = d.pos /\ e.bytes = d.bytes /\ e.page = d.page
       /\ e \in Disks
  BY <1>1, <1>3, <1>5, <1>8 DEF Disks
<1>12. QED
  BY <1>4, <1>8, <1>9, <1>10, <1>11

\* Items that fit are copied to the page behind the offset.
LEMMA OntoIs ==
  ASSUME NEW page \in [1..PageSize -> Cells], NEW offset \in Nat, NEW data \in Seq(Cells),
         offset + Len(data) <= PageSize
  PROVE  LET p == Onto(page, offset, data)
         IN /\ p \in [1..PageSize -> Cells]
            /\ \A k \in 1..Len(data) : p[offset + k] = data[k]
            /\ \A k \in 1..offset : p[k] = page[k]
            /\ data = <<>> => p = page
<1> DEFINE p == Onto(page, offset, data)
<1>1. PageSize \in Nat \ {0}
  BY Basics
<1>2. Len(data) \in Nat /\ DOMAIN data = 1..Len(data)
  BY LenProperties
<1>3. p = [k \in 1..PageSize |-> IF k - offset \in 1..Len(data) THEN data[k - offset] ELSE page[k]]
  BY <1>2 DEF Onto
<1>4. \A k \in 1..PageSize : p[k] \in Cells
  BY <1>2, <1>3, ElementOfSeq
<1>5. p \in [1..PageSize -> Cells]
  BY <1>3, <1>4
<1>6. \A k \in 1..Len(data) : p[offset + k] = data[k]
  <2> SUFFICES ASSUME NEW k \in 1..Len(data) PROVE p[offset + k] = data[k]
    OBVIOUS
  <2>1. offset + k \in 1..PageSize /\ (offset + k) - offset = k
    BY <1>1, <1>2
  <2> HIDE DEF p
  <2>2. p[offset + k] = IF (offset + k) - offset \in 1..Len(data)
                        THEN data[(offset + k) - offset] ELSE page[offset + k]
    BY <1>3, <2>1
  <2>3. QED
    BY <2>1, <2>2
<1>7. \A k \in 1..offset : p[k] = page[k]
  <2> SUFFICES ASSUME NEW k \in 1..offset PROVE p[k] = page[k]
    OBVIOUS
  <2>1. k \in 1..PageSize /\ k - offset \notin 1..Len(data)
    BY <1>1, <1>2
  <2> HIDE DEF p
  <2>2. QED
    BY <1>3, <2>1
<1>8. data = <<>> => p = page
  <2> SUFFICES ASSUME data = <<>> PROVE p = page
    OBVIOUS
  <2>1. Len(data) = 0
    BY EmptySeq
  <2>2. \A k \in 1..PageSize : k - offset \notin 1..Len(data)
    BY <2>1
  <2> HIDE DEF p
  <2>3. \A k \in 1..PageSize : p[k] = page[k]
    BY <1>3, <2>2
  <2>4. p = [k \in 1..PageSize |-> p[k]] /\ page = [k \in 1..PageSize |-> page[k]]
    BY <1>5
  <2>5. QED
    BY <2>3, <2>4
<1>9. QED
  BY <1>5, <1>6, <1>7, <1>8

\* Parts of a sequence of items.
LEMMA SubSeqIs ==
  ASSUME NEW S, NEW D \in Seq(S), NEW a \in Nat, NEW b \in Nat, b <= Len(D), a <= b
  PROVE  LET t == SubSeq(D, a + 1, b)
         IN /\ t \in Seq(S) /\ Len(t) = b - a
            /\ \A k \in 1..b - a : t[k] = D[a + k]
<1>1. Len(D) \in Nat
  BY LenProperties
<1>2. \A k \in a + 1..b : D[k] \in S
  BY <1>1, ElementOfSeq
<1>3. /\ SubSeq(D, a + 1, b) \in Seq(S)
      /\ Len(SubSeq(D, a + 1, b)) = IF a + 1 <= b THEN b - (a + 1) + 1 ELSE 0
      /\ \A k \in 1..b - (a + 1) + 1 : SubSeq(D, a + 1, b)[k] = D[a + 1 + k - 1]
  BY <1>2, SubSeqProperties
<1>4. \A k \in 1..b - a : SubSeq(D, a + 1, b)[k] = D[a + k]
  <2> TAKE k \in 1..b - a
  <2>1. k \in 1..b - (a + 1) + 1 /\ a + 1 + k - 1 = a + k
    OBVIOUS
  <2>2. QED
    BY <1>3, <2>1
<1>5. QED
  BY <1>3, <1>4

\* What is left when r of m items from h on are written.
LEMMA RestLength ==
  ASSUME NEW l \in Nat, NEW h \in Nat, NEW m \in Nat, NEW r \in Nat, NEW w,
         l = h + m, r <= m, w = h + r
  PROVE  l - w = m - r /\ w - h = r /\ w \in Nat
  OBVIOUS

\* From the end of a page on: whole pages are written, the rest is put on the
\* page in memory.
LEMMA WriteRest ==
  ASSUME NEW d \in Disks, NEW E \in Seq(Items), NEW data \in Seq(Items), NEW h \in 0..Len(data),
         NEW n \in Nat, n % PageSize = 0, Len(E) = n + (Len(data) - h),
         d.seek = n, n <= Len(d.file), \A k \in 1..n : d.file[k] = E[k],
         \A k \in 1..Len(data) - h : E[n + k] = data[h + k]
  PROVE  LET whole == h + Rounded(Len(data) - h)
             d3 == PutFile(d, SubSeq(data, h + 1, whole))
             w == [d3 EXCEPT !.pos = Len(E), !.bytes = Len(E),
                             !.page = Onto(@, 0, SubSeq(data, whole + 1, Len(data)))]
         IN w \in Disks /\ Holds(w, E)
<1> DEFINE m == Len(data) - h
           whole == h + Rounded(m)
           body == SubSeq(data, h + 1, whole)
           rest == SubSeq(data, whole + 1, Len(data))
           d3 == PutFile(d, body)
           p == Onto(d3.page, 0, rest)
           w == [d3 EXCEPT !.pos = Len(E), !.bytes = Len(E), !.page = p]
<1>1. PageSize \in Nat \ {0}
  BY Basics
<1>2. /\ Len(data) \in Nat /\ Len(E) \in Nat /\ m \in Nat /\ h \in Nat
      /\ Len(data) = h + m /\ Len(E) = n + m
      /\ \A k \in 1..m : E[n + k] = data[h + k]
  BY LenProperties
<1> HIDE DEF m
<1>3. /\ Rounded(m) \in Nat /\ m % PageSize \in 0..PageSize - 1
      /\ m = Rounded(m) + (m % PageSize)
  BY <1>2, Pages
<1>4. Rounded(n + m) = n + Rounded(m)
  BY <1>2, NextPages
<1>5. /\ whole \in Nat /\ h <= whole /\ whole <= Len(data) /\ whole - h = Rounded(m)
      /\ Len(data) - whole < PageSize /\ Len(data) - whole = m - Rounded(m)
      /\ Rounded(Len(E)) = n + Rounded(m) /\ Rounded(Len(E)) \in Nat
  <2> DEFINE r == m % PageSize
  <2>1. r \in 0..PageSize - 1 /\ m = Rounded(m) + r
    BY <1>3
  <2> HIDE DEF r
  <2>2. Rounded(m) \in Nat /\ Rounded(m) <= m /\ m - Rounded(m) = r /\ r < PageSize
    BY <1>1, <1>2, <1>3, <2>1
  <2>3. whole = h + Rounded(m)
    OBVIOUS
  <2> HIDE DEF whole
  <2>4. Len(data) - whole = m - Rounded(m) /\ whole - h = Rounded(m) /\ whole \in Nat
    BY <1>2, <2>2, <2>3, RestLength
  <2>5. h <= whole /\ whole <= Len(data) /\ Len(data) - whole < PageSize
    BY <1>1, <1>2, <2>2, <2>3
  <2>6. Rounded(Len(E)) = n + Rounded(m) /\ Rounded(Len(E)) \in Nat
    BY <1>2, <1>4, <2>2
  <2>7. QED
    BY <2>4, <2>5, <2>6
<1> HIDE DEF whole
<1>6. data \in Seq(Cells)
  BY SeqMonotonic DEF Cells
<1>7. body \in Seq(Cells) /\ Len(body) = Rounded(m) /\ \A k \in 1..Rounded(m) : body[k] = data[h + k]
  <2>1. /\ body \in Seq(Cells) /\ Len(body) = whole - h
        /\ \A k \in 1..whole - h : body[k] = data[h + k]
    BY <1>2, <1>5, <1>6, SubSeqIs
  <2>2. QED
    BY <1>5, <2>1
<1>8. /\ rest \in Seq(Cells) /\ Len(rest) = m - Rounded(m)
      /\ \A k \in 1..m - Rounded(m) : rest[k] = data[whole + k]
  <2>1. /\ rest \in Seq(Cells) /\ Len(rest) = Len(data) - whole
        /\ \A k \in 1..Len(data) - whole : rest[k] = data[whole + k]
    BY <1>2, <1>5, <1>6, SubSeqIs
  <2>2. QED
    BY <1>5, <2>1
<1> HIDE DEF body, rest
<1>9. /\ d3 \in Disks /\ d3.seek = n + Rounded(m) /\ d3.page = d.page
      /\ Len(d3.file) >= n + Rounded(m)
      /\ \A k \in 1..n : d3.file[k] = E[k]
      /\ \A k \in 1..Rounded(m) : d3.file[n + k] = data[h + k]
  <2>1. /\ d3 \in Disks /\ d3.seek = d.seek + Len(body) /\ d3.page = d.page
        /\ Len(d3.file) = IF Len(d.file) <= d3.seek THEN d3.seek ELSE Len(d.file)
        /\ \A k \in 1..d.seek : d3.file[k] = d.file[k]
        /\ \A k \in 1..Len(body) : d3.file[d.seek + k] = body[k]
    BY <1>7, PutFileIs
  <2>2. Len(d.file) \in Nat
    BY LenProperties DEF Disks
  <2> HIDE DEF d3
  <2>3. QED
    BY SMTT(40), <1>3, <1>7, <2>1, <2>2
<1>10. d3.page \in [1..PageSize -> Cells]
  BY <1>9 DEF Disks
<1>11. p \in [1..PageSize -> Cells] /\ \A k \in 1..m - Rounded(m) : p[k] = data[whole + k]
  <2>1. 0 + Len(rest) <= PageSize
    BY <1>1, <1>5, <1>8
  <2>2. p \in [1..PageSize -> Cells] /\ \A k \in 1..Len(rest) : p[0 + k] = rest[k]
    BY <1>8, <1>10, <2>1, OntoIs
  <2> HIDE DEF p
  <2>3. \A k \in 1..Len(rest) : 0 + k = k
    BY <1>2, <1>3, <1>8
  <2>4. QED
    BY <1>8, <2>2, <2>3
<1> HIDE DEF d3, p
<1>12. /\ w \in Disks /\ w.file = d3.file /\ w.seek = d3.seek /\ w.pos = Len(E) /\ w.bytes = Len(E)
       /\ w.page = p
  BY <1>2, <1>9, <1>11 DEF Disks
<1>13. \A k \in 1..Rounded(Len(E)) : d3.file[k] = E[k]
  <2> TAKE k \in 1..Rounded(Len(E))
  <2>1. CASE k <= n
    BY <1>9, <2>1
  <2>2. CASE k > n
    <3>1. PICK j \in 1..Rounded(m) : k = n + j
      <4>1. k \in 1..n + Rounded(m)
        BY <1>5
      <4>2. k - n \in 1..Rounded(m) /\ k = n + (k - n)
        BY <1>2, <1>3, <2>2, <4>1
      <4>3. QED
        BY <4>2
    <3>2. j \in 1..m
      BY <1>2, <1>3, <1>5
    <3>3. QED
      BY <1>2, <1>9, <3>1, <3>2
  <2>3. QED
    BY <1>5, <2>1, <2>2
<1>14. \A k \in Rounded(Len(E)) + 1..Len(E) : p[k - Rounded(Len(E))] = E[k]
  <2> TAKE k \in Rounded(Len(E)) + 1..Len(E)
  <2>1. k \in n + Rounded(m) + 1..n + m
    BY <1>2, <1>5
  <2>2. PICK j \in 1..m - Rounded(m) : k = n + Rounded(m) + j
    <3>1. k - (n + Rounded(m)) \in 1..m - Rounded(m) /\ k = n + Rounded(m) + (k - (n + Rounded(m)))
      BY <1>2, <1>3, <2>1
    <3>2. QED
      BY <3>1
  <2>3. /\ Rounded(m) + j \in 1..m /\ k = n + (Rounded(m) + j) /\ whole + j = h + (Rounded(m) + j)
        /\ k - Rounded(Len(E)) = j
    <3>1. whole = h + Rounded(m)
      BY DEF whole
    <3>2. Rounded(m) + j \in 1..m /\ k = n + (Rounded(m) + j)
      BY <1>2, <1>3, <2>2
    <3>3. whole + j = h + (Rounded(m) + j)
      BY <1>2, <1>3, <3>1
    <3>4. k - Rounded(Len(E)) = j
      <4>1. PICK b \in Nat : b = Rounded(Len(E)) /\ b = n + Rounded(m)
        BY <1>5
      <4>2. k = b + j /\ j \in Nat
        BY <1>2, <1>3, <2>2, <4>1
      <4>3. (b + j) - b = j
        BY <4>2
      <4>4. QED
        BY <4>1, <4>2, <4>3
    <3>5. QED
      BY <3>2, <3>3, <3>4
  <2>4. p[j] = data[whole + j] /\ E[n + (Rounded(m) + j)] = data[h + (Rounded(m) + j)]
    BY <1>2, <1>11, <2>2, <2>3
  <2>5. QED
    BY <2>3, <2>4
<1>15. Holds(w, E)
  <2> HIDE DEF w
  <2>1. QED
    BY <1>2, <1>5, <1>9, <1>12, <1>13, <1>14 DEF Holds, Carried
<1>16. QED
  BY <1>12, <1>15 DEF d3, p, body, rest, whole, m

\* do_write_IO appends to what the file and the page in memory hold.
LEMMA WriteAppends ==
  ASSUME NEW d \in Disks, NEW D \in Seq(Items), NEW data \in Seq(Items), Holds(d, D)
  PROVE  Write(d, data) \in Disks /\ Holds(Write(d, data), D \o data)
<1> DEFINE n == Len(D)
           m == Len(data)
           E == D \o data
           o == d.pos % PageSize
           head == IF o = 0 THEN 0 ELSE Min({PageSize - o, m})
           d1 == [d EXCEPT !.page = Onto(@, o, SubSeq(data, 1, head))]
           d2 == IF head > 0 /\ o + head = PageSize THEN PutFile(d1, d1.page) ELSE d1
           whole == head + Rounded(m - head)
           d3 == PutFile(d2, SubSeq(data, head + 1, whole))
           rest == SubSeq(data, whole + 1, m)
           w == Write(d, data)
<1>1. PageSize \in Nat \ {0}
  BY Basics
<1>2. n \in Nat /\ m \in Nat
  BY LenProperties
<1>3. /\ d.file \in Seq(Cells) /\ d.seek \in Nat /\ d.pos \in Nat /\ d.bytes \in Nat
      /\ d.page \in [1..PageSize -> Cells] /\ Len(d.file) \in Nat
  BY LenProperties DEF Disks
<1>4. /\ d.pos = n /\ d.bytes = n /\ Rounded(n) <= Len(d.file) /\ d.seek = Rounded(n)
      /\ \A k \in 1..Rounded(n) : d.file[k] = D[k]
      /\ \A k \in Rounded(n) + 1..n : d.page[k - Rounded(n)] = D[k]
  BY DEF Holds, Carried
<1>5. /\ E \in Seq(Items) /\ Len(E) = n + m
      /\ \A k \in 1..n : E[k] = D[k]
      /\ \A k \in 1..m : E[n + k] = data[k]
  <2>1. /\ E \in Seq(Items) /\ Len(E) = n + m
        /\ \A k \in 1..n + m : E[k] = IF k <= n THEN D[k] ELSE data[k - n]
    BY ConcatProperties
  <2>2. \A k \in 1..m : E[n + k] = data[k]
    <3> TAKE k \in 1..m
    <3>1. n + k \in 1..n + m /\ ~(n + k <= n) /\ (n + k) - n = k
      BY <1>2
    <3>2. E[n + k] = data[(n + k) - n]
      BY <2>1, <3>1
    <3>3. QED
      BY <3>1, <3>2
  <2>3. QED
    BY <1>2, <2>1, <2>2
<1>6. o \in 0..PageSize - 1 /\ n = Rounded(n) + o /\ Rounded(n) \in Nat
  BY <1>1, <1>2, <1>4, Pages
<1>7. w = [d3 EXCEPT !.pos = @ + m, !.bytes = @ + m, !.page = Onto(@, 0, rest)]
  BY DEF Write
<1>8. data \in Seq(Cells)
  BY SeqMonotonic DEF Cells
<1> SUFFICES w \in Disks /\ Holds(w, E)
  OBVIOUS
<1> HIDE DEF n, m, E, o, w, head, d1, d2, whole, d3, rest
<1>9. ASSUME NEW x \in Disks, NEW h \in 0..m, head = h, d2 = x, x.pos = n, x.bytes = n,
             (n + h) % PageSize = 0, x.seek = n + h, n + h <= Len(x.file),
             \A k \in 1..n + h : x.file[k] = E[k]
      PROVE  w \in Disks /\ Holds(w, E)
  <2>1. d3.pos = n /\ d3.bytes = n
    <3> DEFINE y == SubSeq(data, h + 1, h + Rounded(m - h))
    <3>1. d3 = PutFile(x, y)
      BY <1>9 DEF d3, whole
    <3>2. PutFile(x, y).pos = n /\ PutFile(x, y).bytes = n
      BY <1>9 DEF PutFile, Disks
    <3>3. QED
      BY <3>1, <3>2
  <2>2. w = [d3 EXCEPT !.pos = Len(E), !.bytes = Len(E), !.page = Onto(@, 0, rest)]
    BY <1>5, <1>7, <2>1
  <2>3. \A k \in 1..m - h : E[(n + h) + k] = data[h + k]
    <3> TAKE k \in 1..m - h
    <3>1. h + k \in 1..m /\ n + (h + k) = (n + h) + k
      BY <1>2
    <3>2. QED
      BY <1>5, <3>1
  <2>4. Len(E) = (n + h) + (m - h) /\ n + h \in Nat /\ h \in Nat
    BY <1>2, <1>5
  <2> DEFINE g == n + h
             whole1 == h + Rounded(m - h)
             e3 == PutFile(x, SubSeq(data, h + 1, whole1))
             v == [e3 EXCEPT !.pos = Len(E), !.bytes = Len(E),
                             !.page = Onto(@, 0, SubSeq(data, whole1 + 1, m))]
  <2>5. /\ g \in Nat /\ g % PageSize = 0 /\ Len(E) = g + (m - h) /\ x.seek = g /\ g <= Len(x.file)
        /\ \A k \in 1..g : x.file[k] = E[k]
        /\ \A k \in 1..m - h : E[g + k] = data[h + k]
    BY <1>9, <2>3, <2>4
  <2> HIDE DEF g
  <2>6. v \in Disks /\ Holds(v, E)
    BY ZenonT(40), <1>5, <2>5, WriteRest DEF m
  <2>7. v = w
    BY <1>9, <2>2 DEF d3, whole, rest
  <2>8. QED
    BY <2>6, <2>7
<1>10. CASE o = 0
  <2>1. head = 0 /\ d2 = d1
    BY <1>10 DEF head, d2
  <2>2. SubSeq(data, 1, 0) = <<>>
    BY SubSeqEmpty
  <2>3. d1 = d
    <3>1. <<>> \in Seq(Cells) /\ 0 + Len(<<>>) <= PageSize /\ 0 \in Nat
      BY <1>1, EmptySeq
    <3>2. Onto(d.page, 0, <<>>) = d.page
      BY <1>3, <3>1, OntoIs
    <3>3. d1 = [d EXCEPT !.page = d.page]
      BY <1>10, <2>1, <2>2, <3>2 DEF d1
    <3>4. QED
      BY <3>3 DEF Disks
  <2>4. n = Rounded(n) /\ n + 0 = n /\ 0 \in 0..m
    BY <1>2, <1>6, <1>10
  <2>5. d.seek = n + 0 /\ n + 0 <= Len(d.file) /\ (n + 0) % PageSize = 0
        /\ \A k \in 1..n + 0 : d.file[k] = E[k]
    BY <1>4, <1>5, <1>10, <2>4 DEF o
  <2>6. QED
    BY <1>4, <1>9, <2>1, <2>3, <2>4, <2>5
<1>11. CASE o > 0 /\ o + m < PageSize
  <2>1. head = m
    <3>1. PageSize - o \in Nat /\ ~(PageSize - o <= m)
      BY <1>1, <1>2, <1>6, <1>11
    <3>2. Min({PageSize - o, m}) = m
      BY <1>2, <3>1, OfTwo
    <3>3. QED
      BY <1>6, <1>11, <3>2 DEF head
  <2>2. SubSeq(data, 1, m) = data
    BY SubSeqFull DEF m
  <2> DEFINE p == Onto(d.page, o, data)
  <2>3. d2 = [d EXCEPT !.page = p]
    <3>1. ~(head > 0 /\ o + head = PageSize)
      BY <1>1, <1>2, <1>6, <1>11, <2>1
    <3>2. QED
      BY <2>1, <2>2, <3>1 DEF d1, d2
  <2>4. /\ p \in [1..PageSize -> Cells]
        /\ \A k \in 1..m : p[o + k] = data[k]
        /\ \A k \in 1..o : p[k] = d.page[k]
    <3>1. o \in Nat /\ o + Len(data) <= PageSize
      BY <1>1, <1>2, <1>6, <1>11 DEF m
    <3>2. QED
      BY <1>3, <1>8, <3>1, OntoIs DEF m
  <2> HIDE DEF p
  <2>5. d2 \in Disks /\ d2.seek = Rounded(n) /\ d2.file = d.file /\ d2.page = p
        /\ d2.pos = n /\ d2.bytes = n
    BY <1>3, <1>4, <2>3, <2>4 DEF Disks
  <2>6. whole = m
    <3>1. m - head = 0
      BY <1>2, <2>1
    <3>2. Rounded(0) = 0
      BY <1>1 DEF Rounded
    <3>3. whole = m + Rounded(m - m) /\ m - m = 0
      BY <1>2, <2>1 DEF whole
    <3>4. QED
      BY <1>2, <3>2, <3>3
  <2>7. SubSeq(data, head + 1, whole) = <<>> /\ rest = <<>>
    <3>1. m + 1 \in Int /\ m \in Int /\ m < m + 1
      BY <1>2
    <3>2. SubSeq(data, m + 1, m) = <<>>
      BY <3>1, SubSeqEmpty
    <3>3. QED
      BY <2>1, <2>6, <3>2 DEF rest
  <2>8. <<>> \in Seq(Cells) /\ Len(<<>>) = 0
    BY EmptySeq
  <2>9. /\ d3 \in Disks /\ d3.seek = Rounded(n) /\ d3.page = p /\ d3.pos = n /\ d3.bytes = n
        /\ Len(d3.file) = Len(d.file) /\ \A k \in 1..Rounded(n) : d3.file[k] = D[k]
    <3>1. d2.seek <= Len(d2.file)
      BY <1>4, <2>5
    <3>2. d3 = PutFile(d2, <<>>) /\ d2 \in Disks /\ <<>> \in Seq(Cells)
      BY <2>5, <2>7, <2>8 DEF d3
    <3>3. /\ d3 \in Disks /\ d3.seek = d2.seek + Len(<<>>) /\ d3.page = d2.page
          /\ d3.pos = d2.pos /\ d3.bytes = d2.bytes
          /\ Len(d3.file) = IF Len(d2.file) <= d3.seek THEN d3.seek ELSE Len(d2.file)
          /\ \A k \in 1..d2.seek : d3.file[k] = d2.file[k]
      BY <3>1, <3>2, PutFileIs
    <3>4. d3.seek = Rounded(n) /\ Len(d3.file) = Len(d.file)
      BY <1>3, <1>4, <1>6, <2>5, <2>8, <3>3
    <3>5. QED
      BY <1>4, <2>5, <3>3, <3>4
  <2>10. Onto(p, 0, <<>>) = p
    <3>1. 0 + Len(<<>>) <= PageSize /\ 0 \in Nat
      BY <1>1, <2>8
    <3>2. QED
      BY <2>4, <2>8, <3>1, OntoIs
  <2>11. w = [d3 EXCEPT !.pos = n + m, !.bytes = n + m, !.page = p]
    <3>1. QED
      BY <1>7, <2>7, <2>9, <2>10
  <2>12. w \in Disks /\ w.pos = n + m /\ w.bytes = n + m /\ w.page = p /\ w.file = d3.file
         /\ w.seek = Rounded(n)
    <3>1. n + m \in Nat
      BY <1>2
    <3>2. QED
      BY <2>4, <2>9, <2>11, <3>1 DEF Disks
  <2>13. Rounded(n + m) = Rounded(n)
    <3>1. (n % PageSize) + m < PageSize
      BY <1>4, <1>11 DEF o
    <3>2. QED
      BY <1>2, <3>1, SamePage
  <2>14. \A k \in Rounded(n) + 1..n + m : p[k - Rounded(n)] = E[k]
    <3> TAKE k \in Rounded(n) + 1..n + m
    <3>1. CASE k <= n
      <4>1. k - Rounded(n) \in 1..o /\ k \in Rounded(n) + 1..n /\ k \in 1..n
        BY <1>2, <1>6, <3>1
      <4>2. QED
        BY <1>4, <1>5, <2>4, <4>1
    <3>2. CASE k > n
      <4>1. k - n \in 1..m /\ k - Rounded(n) = o + (k - n) /\ k = n + (k - n)
        BY <1>2, <1>6, <3>2
      <4>2. E[n + (k - n)] = data[k - n] /\ p[o + (k - n)] = data[k - n]
        BY <1>5, <2>4, <4>1
      <4>3. QED
        BY <4>1, <4>2
    <3>3. QED
      BY <1>2, <1>6, <3>1, <3>2
  <2>15. \A k \in 1..Rounded(n) : d3.file[k] = E[k]
    <3>1. \A k \in 1..Rounded(n) : k \in 1..n
      BY <1>2, <1>6
    <3>2. QED
      BY <1>5, <2>9, <3>1
  <2>16. Holds(w, E)
    <3>1. QED
      BY <1>4, <1>5, <2>9, <2>12, <2>13, <2>14, <2>15 DEF Holds, Carried
  <2>17. QED
    BY <2>12, <2>16
<1>12. CASE o > 0 /\ PageSize <= o + m
  <2> DEFINE h == PageSize - o
             p == Onto(d.page, o, SubSeq(data, 1, h))
             c1 == [d EXCEPT !.page = p]
             c2 == PutFile(c1, p)
  <2>1. h \in Nat /\ h > 0 /\ h <= m /\ o + h = PageSize /\ n + h = Rounded(n) + PageSize
    BY <1>1, <1>2, <1>6, <1>12
  <2>2. head = h
    <3>1. Min({h, m}) = h
      BY <1>2, <2>1, OfTwo
    <3>2. QED
      BY <1>12, <3>1 DEF head
  <2>3. /\ SubSeq(data, 1, h) \in Seq(Cells) /\ Len(SubSeq(data, 1, h)) = h
        /\ \A k \in 1..h : SubSeq(data, 1, h)[k] = data[k]
    <3> HIDE DEF h
    <3>1. /\ SubSeq(data, 0 + 1, h) \in Seq(Cells) /\ Len(SubSeq(data, 0 + 1, h)) = h - 0
          /\ \A k \in 1..h - 0 : SubSeq(data, 0 + 1, h)[k] = data[0 + k]
      BY <1>8, <2>1, SubSeqIs DEF m
    <3>2. QED
      BY <2>1, <3>1
  <2> HIDE DEF h
  <2>4. /\ p \in [1..PageSize -> Cells]
        /\ \A k \in 1..h : p[o + k] = data[k]
        /\ \A k \in 1..o : p[k] = d.page[k]
    <3>1. o + Len(SubSeq(data, 1, h)) <= PageSize /\ o \in Nat
      BY <1>1, <1>6, <2>1, <2>3
    <3>2. /\ p \in [1..PageSize -> Cells]
          /\ \A k \in 1..Len(SubSeq(data, 1, h)) : p[o + k] = SubSeq(data, 1, h)[k]
          /\ \A k \in 1..o : p[k] = d.page[k]
      BY <1>3, <2>3, <3>1, OntoIs
    <3> HIDE DEF p
    <3>3. QED
      BY <2>3, <3>2
  <2>5. d1 = c1 /\ d1.page = p
    BY <1>3, <2>2 DEF Disks, d1
  <2>6. d2 = c2
    BY <2>1, <2>2, <2>5 DEF d2
  <2> HIDE DEF p
  <2>7. /\ c1 \in Disks /\ c1.seek = Rounded(n) /\ c1.file = d.file /\ c1.pos = n /\ c1.bytes = n
    BY <1>3, <1>4, <2>4 DEF Disks
  <2>8. p \in Seq(Cells) /\ Len(p) = PageSize
    BY <1>1, <2>4, SequenceOf
  <2> HIDE DEF c1
  <2>9. /\ c2 \in Disks /\ c2.seek = Rounded(n) + PageSize /\ c2.pos = n /\ c2.bytes = n
        /\ Len(c2.file) >= Rounded(n) + PageSize
        /\ \A k \in 1..Rounded(n) : c2.file[k] = d.file[k]
        /\ \A k \in 1..PageSize : c2.file[Rounded(n) + k] = p[k]
    <3>1. c1.seek <= Len(c1.file)
      BY <1>4, <2>7
    <3>2. /\ c2 \in Disks /\ c2.seek = c1.seek + Len(p) /\ c2.pos = c1.pos /\ c2.bytes = c1.bytes
          /\ Len(c2.file) = IF Len(c1.file) <= c2.seek THEN c2.seek ELSE Len(c1.file)
          /\ \A k \in 1..c1.seek : c2.file[k] = c1.file[k]
          /\ \A k \in 1..Len(p) : c2.file[c1.seek + k] = p[k]
      BY <2>7, <2>8, <3>1, PutFileIs
    <3> HIDE DEF c2
    <3>3. Len(c2.file) >= Rounded(n) + PageSize
      BY <1>1, <1>3, <1>6, <2>7, <2>8, <3>2
    <3>4. QED
      BY <2>7, <2>8, <3>2, <3>3
  <2> HIDE DEF c2
  <2>10. \A k \in 1..n + h : c2.file[k] = E[k]
    <3> TAKE k \in 1..n + h
    <3>1. CASE k <= Rounded(n)
      <4>1. k \in 1..Rounded(n) /\ k \in 1..n
        BY <1>2, <1>6, <2>1, <3>1
      <4>2. QED
        BY <1>4, <1>5, <2>9, <4>1
    <3>2. CASE k > Rounded(n) /\ k <= n
      <4>1. k - Rounded(n) \in 1..o /\ k \in Rounded(n) + 1..n /\ k \in 1..n
            /\ k = Rounded(n) + (k - Rounded(n)) /\ k - Rounded(n) \in 1..PageSize
        BY <1>1, <1>2, <1>6, <3>2
      <4>2. c2.file[Rounded(n) + (k - Rounded(n))] = p[k - Rounded(n)]
        BY <2>9, <4>1
      <4>3. p[k - Rounded(n)] = d.page[k - Rounded(n)] /\ d.page[k - Rounded(n)] = D[k] /\ E[k] = D[k]
        BY <1>4, <1>5, <2>4, <4>1
      <4>4. QED
        BY <4>1, <4>2, <4>3
    <3>3. CASE k > n
      <4>1. k - n \in 1..h /\ k = n + (k - n) /\ o + (k - n) \in 1..PageSize
            /\ k = Rounded(n) + (o + (k - n)) /\ k - n \in 1..m
        BY SMTT(40), <1>1, <1>2, <1>6, <2>1, <3>3
      <4>2. c2.file[Rounded(n) + (o + (k - n))] = p[o + (k - n)]
        BY <2>9, <4>1
      <4>3. p[o + (k - n)] = data[k - n] /\ E[n + (k - n)] = data[k - n]
        BY <1>5, <2>4, <4>1
      <4>4. QED
        BY <4>1, <4>2, <4>3
    <3>4. QED
      BY <1>2, <1>6, <2>1, <3>1, <3>2, <3>3
  <2>11. (n + h) % PageSize = 0
    <3>1. (n % PageSize) + h = PageSize
      BY <1>4, <2>1 DEF o
    <3>2. QED
      BY <1>2, <2>1, <3>1, PageFull
  <2>12. c2.seek = n + h /\ n + h <= Len(c2.file) /\ h \in 0..m
    BY <1>2, <2>1, <2>9
  <2>13. QED
    BY <1>9, <2>2, <2>6, <2>9, <2>10, <2>11, <2>12
<1>13. QED
  BY <1>1, <1>2, <1>6, <1>10, <1>11, <1>12

\* Parts of a file that are next to each other.
LEMMA Adjacent ==
  ASSUME NEW D \in Seq(Items), NEW a \in Nat \ {0}, NEW b \in Nat, NEW e \in Nat \ {0}, NEW c \in Nat,
         e = b + 1, a <= e, b <= c, c <= Len(D)
  PROVE  SubSeq(D, a, b) \o SubSeq(D, e, c) = SubSeq(D, a, c)
<1>1. Len(D) \in Nat
  BY LenProperties
<1>2. a \in 1..Len(D) + 1 /\ b \in a - 1..Len(D) /\ c \in b..Len(D)
  BY <1>1
<1>3. QED
  BY <1>2, ConcatAdjacentSubSeq

\* Items of a file or a page that are items of D.
LEMMA SameItems ==
  ASSUME NEW D \in Seq(Items), NEW f \in Seq(Cells), NEW a \in Nat, NEW c \in Nat, NEW n \in Nat,
         a + n <= Len(f), c + n <= Len(D), \A k \in 1..n : f[a + k] = D[c + k]
  PROVE  SubSeq(f, a + 1, a + n) = SubSeq(D, c + 1, c + n)
<1> DEFINE x == SubSeq(f, a + 1, a + n)
           y == SubSeq(D, c + 1, c + n)
<1>1. /\ a + n \in Nat /\ a <= a + n /\ (a + n) - a = n
      /\ c + n \in Nat /\ c <= c + n /\ (c + n) - c = n
  OBVIOUS
<1>2. x \in Seq(Cells) /\ Len(x) = n /\ \A k \in 1..n : x[k] = f[a + k]
  <2>1. x \in Seq(Cells) /\ Len(x) = (a + n) - a /\ \A k \in 1..(a + n) - a : x[k] = f[a + k]
    BY <1>1, SubSeqIs
  <2>2. QED
    BY <1>1, <2>1
<1>3. y \in Seq(Cells) /\ Len(y) = n /\ \A k \in 1..n : y[k] = D[c + k]
  <2>1. D \in Seq(Cells)
    BY SeqMonotonic DEF Cells
  <2>2. y \in Seq(Cells) /\ Len(y) = (c + n) - c /\ \A k \in 1..(c + n) - c : y[k] = D[c + k]
    BY <1>1, <2>1, SubSeqIs
  <2>3. QED
    BY <1>1, <2>2
<1> HIDE DEF x, y
<1>4. x = y
  BY <1>2, <1>3, SeqEqual
<1>5. QED
  BY <1>4 DEF x, y

\* Items of a file that holds D are items of D.
LEMMA SubSeqOfFile ==
  ASSUME NEW D \in Seq(Items), NEW f \in Seq(Cells), NEW a \in Nat, NEW b \in Nat,
         a <= b, b <= Len(D), b <= Len(f), \A k \in 1..Len(D) : f[k] = D[k]
  PROVE  SubSeq(f, a + 1, b) = SubSeq(D, a + 1, b)
<1> DEFINE n == b - a
<1>1. Len(D) \in Nat
  BY LenProperties
<1>2. n \in Nat /\ a + n = b
  OBVIOUS
<1> HIDE DEF n
<1>3. \A k \in 1..n : a + k \in 1..Len(D)
  BY <1>1, <1>2
<1>4. \A k \in 1..n : f[a + k] = D[a + k]
  BY <1>3
<1>5. SubSeq(f, a + 1, a + n) = SubSeq(D, a + 1, a + n)
  BY <1>2, <1>4, SameItems
<1>6. QED
  BY <1>2, <1>5

\* From the end of a page on: whole pages are read, and the page that the last
\* items are on is kept in memory.
LEMMA ReadRest ==
  ASSUME NEW d \in Disks, NEW D \in Seq(Items), NEW a \in Nat, NEW m \in Nat,
         a % PageSize = 0, d.seek = a, a + m <= Len(D), Complete(d, D)
  PROVE  LET whole == Rounded(m)
             tail == m - whole
             next == FileAt(d, d.seek + whole, PageSize)
             page == IF tail = 0 THEN d.page ELSE Onto(d.page, 0, next)
             b == a + m
         IN /\ FileAt(d, d.seek, whole) \o SubSeq(page, 1, tail) = SubSeq(D, a + 1, b)
            /\ page \in [1..PageSize -> Cells]
            /\ Min({Len(d.file), d.seek + whole + (IF tail = 0 THEN 0 ELSE PageSize)})
                 = IF Len(d.file) <= PageEnd(b) THEN Len(d.file) ELSE PageEnd(b)
            /\ \A k \in 1..Len(D) : k > Rounded(b) /\ k <= PageEnd(b) => page[k - Rounded(b)] = D[k]
<1> DEFINE whole == Rounded(m)
           tail == m - whole
           next == FileAt(d, d.seek + whole, PageSize)
           page == IF tail = 0 THEN d.page ELSE Onto(d.page, 0, next)
           b == a + m
           c == a + whole
           L == Len(d.file)
           stop == d.seek + whole + (IF tail = 0 THEN 0 ELSE PageSize)
<1>1. PageSize \in Nat \ {0}
  BY Basics
<1>2. /\ d.file \in Seq(Cells) /\ d.page \in [1..PageSize -> Cells]
      /\ L \in Nat /\ Len(D) \in Nat
  BY LenProperties DEF Disks
<1>3. Len(D) <= L /\ \A k \in 1..Len(D) : d.file[k] = D[k]
  BY DEF Complete
<1>4. /\ whole \in Nat /\ whole <= m /\ tail \in Nat /\ tail < PageSize
      /\ m = whole + tail
  <2> DEFINE r == m % PageSize
  <2>1. Rounded(m) \in Nat /\ r \in 0..PageSize - 1 /\ m = Rounded(m) + r
    BY Pages
  <2> HIDE DEF r
  <2>2. QED
    BY <1>1, <2>1
<1>5. Rounded(b) = c /\ b % PageSize = tail
  <2>1. Rounded(a + m) = a + Rounded(m) /\ (a + m) % PageSize = m % PageSize
    BY NextPages
  <2>2. m % PageSize = tail
    <3> DEFINE r == m % PageSize
    <3>1. Rounded(m) \in Nat /\ r \in 0..PageSize - 1 /\ m = Rounded(m) + r
      BY Pages
    <3> HIDE DEF r
    <3>2. r = tail
      BY <1>1, <3>1
    <3>3. QED
      BY <3>2 DEF r
  <2>3. QED
    BY <2>1, <2>2
<1> SUFFICES /\ FileAt(d, d.seek, whole) \o SubSeq(page, 1, tail) = SubSeq(D, a + 1, b)
             /\ page \in [1..PageSize -> Cells]
             /\ Min({L, stop}) = IF L <= PageEnd(b) THEN L ELSE PageEnd(b)
             /\ \A k \in 1..Len(D) : k > Rounded(b) /\ k <= PageEnd(b) => page[k - Rounded(b)] = D[k]
  OBVIOUS
<1> HIDE DEF whole, tail, next, page, L, b, c, stop
<1>6. c \in Nat /\ a <= c /\ c <= b /\ b = c + tail /\ b \in Nat /\ b <= Len(D) /\ b <= L
  BY <1>2, <1>3, <1>4 DEF b, c
<1>7. FileAt(d, d.seek, whole) = SubSeq(D, a + 1, c)
  <2>1. Min({c, L}) = c
    BY <1>2, <1>6, OfTwo
  <2>2. FileAt(d, d.seek, whole) = SubSeq(d.file, a + 1, c)
    BY <2>1 DEF FileAt, c, L
  <2>3. QED
    BY <1>2, <1>3, <1>6, <2>2, SubSeqOfFile DEF L
<1>8. CASE tail = 0
  <2>1. page = d.page /\ SubSeq(page, 1, tail) = <<>>
    BY <1>8, SubSeqEmpty DEF page
  <2>2. b = c /\ PageEnd(b) = b /\ stop = b
    BY <1>4, <1>5, <1>6, <1>8 DEF PageEnd, stop, c
  <2>3. FileAt(d, d.seek, whole) \o SubSeq(page, 1, tail) = SubSeq(D, a + 1, b)
    <3>1. SubSeq(D, a + 1, b) \in Seq(Items)
      BY <1>2, <1>6, SubSeqIs
    <3>2. QED
      BY <1>7, <2>1, <2>2, <3>1, ConcatEmptySeq
  <2>4. Min({L, stop}) = IF L <= PageEnd(b) THEN L ELSE PageEnd(b)
    BY <1>2, <1>6, <2>2, OfTwo
  <2>5. \A k \in 1..Len(D) : ~(k > Rounded(b) /\ k <= PageEnd(b))
    BY <1>5, <1>6, <2>2
  <2>6. QED
    BY <1>2, <2>1, <2>3, <2>4, <2>5
<1>9. CASE tail > 0
  <2> DEFINE e == IF L <= c + PageSize THEN L ELSE c + PageSize
  <2>1. PageEnd(b) = c + PageSize /\ stop = c + PageSize
    BY <1>1, <1>4, <1>5, <1>6, <1>9 DEF PageEnd, stop, c
  <2>2. e \in Nat /\ c <= e /\ e <= L /\ e - c <= PageSize /\ b <= e
    BY <1>1, <1>2, <1>4, <1>6
  <2>3. Min({c + PageSize, L}) = e /\ Min({L, c + PageSize}) = e
    <3>1. c + PageSize \in Nat
      BY <1>1, <1>6
    <3>2. QED
      BY <1>2, <3>1, OfTwo
  <2>4. next = SubSeq(d.file, c + 1, e)
    BY <2>3 DEF next, FileAt, c, L
  <2> HIDE DEF e
  <2>5. next \in Seq(Cells) /\ Len(next) = e - c /\ \A k \in 1..e - c : next[k] = d.file[c + k]
    BY SMTT(40), <1>2, <1>6, <2>2, <2>4, SubSeqIs DEF L
  <2>6. page = Onto(d.page, 0, next)
    BY <1>9 DEF page
  <2>7. page \in [1..PageSize -> Cells] /\ \A k \in 1..e - c : page[k] = d.file[c + k]
    <3>1. 0 + Len(next) <= PageSize /\ 0 \in Nat
      BY <1>1, <1>6, <2>2, <2>5
    <3>2. /\ Onto(d.page, 0, next) \in [1..PageSize -> Cells]
          /\ \A k \in 1..Len(next) : Onto(d.page, 0, next)[0 + k] = next[k]
      BY <1>2, <2>5, <3>1, OntoIs
    <3>3. \A k \in 1..e - c : k \in 1..Len(next) /\ 0 + k = k
      BY <1>6, <2>2, <2>5
    <3>4. QED
      BY <2>5, <2>6, <3>2, <3>3
  <2>8. \A k \in 1..Len(D) : k > Rounded(b) /\ k <= PageEnd(b) => page[k - Rounded(b)] = D[k]
    <3> SUFFICES ASSUME NEW k \in 1..Len(D), k > c, k <= c + PageSize PROVE page[k - c] = D[k]
      BY <1>5, <2>1
    <3>1. k - c \in 1..e - c /\ c + (k - c) = k
      BY <1>1, <1>2, <1>3, <1>6, <2>2 DEF e
    <3>2. QED
      BY <1>3, <2>7, <3>1
  <2>9. SubSeq(page, 1, tail) = SubSeq(D, c + 1, b)
    <3>1. page \in Seq(Cells) /\ Len(page) = PageSize
      BY <1>1, <2>7, SequenceOf
    <3>2. 0 + tail <= Len(page) /\ c + tail <= Len(D) /\ 0 \in Nat /\ 0 + 1 = 1 /\ 0 + tail = tail
      BY <1>1, <1>4, <1>6, <3>1
    <3>3. \A k \in 1..tail : page[0 + k] = D[c + k]
      <4> TAKE k \in 1..tail
      <4>1. 0 + k = k /\ c + k \in 1..Len(D) /\ k \in 1..e - c
        BY <1>2, <1>4, <1>6, <2>2
      <4>2. QED
        BY <1>3, <2>7, <4>1
    <3>4. SubSeq(page, 0 + 1, 0 + tail) = SubSeq(D, c + 1, c + tail)
      BY <1>4, <1>6, <3>1, <3>2, <3>3, SameItems
    <3>5. QED
      BY <1>6, <3>2, <3>4
  <2>10. FileAt(d, d.seek, whole) \o SubSeq(page, 1, tail) = SubSeq(D, a + 1, b)
    <3>1. SubSeq(D, a + 1, c) \o SubSeq(D, c + 1, b) = SubSeq(D, a + 1, b)
      <4>1. a + 1 \in Nat \ {0} /\ c + 1 \in Nat \ {0} /\ a + 1 <= c + 1
        BY <1>6
      <4>2. QED
        BY SMTT(40), <1>6, <4>1, Adjacent
    <3>2. QED
      BY <1>7, <2>9, <3>1
  <2>11. Min({L, stop}) = IF L <= PageEnd(b) THEN L ELSE PageEnd(b)
    BY <2>1, <2>3 DEF e
  <2>12. QED
    BY <2>7, <2>8, <2>10, <2>11
<1>10. tail = 0 \/ tail > 0
  BY <1>4
<1>11. QED
  BY <1>8, <1>9, <1>10

\* read(): the items that were asked for, or up to the end, and where they end.
LEMMA ReadGets ==
  ASSUME NEW d \in Disks, NEW D \in Seq(Items), Reads(d, D)
  PROVE  LET n == ReadSize(d)
             r == Read(d)
         IN /\ n \in Nat /\ n <= BufferSize /\ d.pos + n <= Len(D)
            /\ d.pos < Len(D) => n > 0
            /\ r.data = SubSeq(D, d.pos + 1, d.pos + n)
            /\ r.disk \in Disks /\ r.disk.pos = d.pos + n /\ r.disk.bytes = d.bytes
            /\ Reads(r.disk, D)
<1> DEFINE n == ReadSize(d)
           o == d.pos % PageSize
           L == Len(d.file)
           head == IF o = 0 THEN 0 ELSE Min({PageSize - o, n})
           whole == Rounded(n - head)
           tail == n - head - whole
           next == FileAt(d, d.seek + whole, PageSize)
           page == IF tail = 0 THEN d.page ELSE Onto(d.page, 0, next)
           seek == Min({L, d.seek + whole + (IF tail = 0 THEN 0 ELSE PageSize)})
           data == SubSeq(d.page, o + 1, o + head) \o FileAt(d, d.seek, whole) \o SubSeq(page, 1, tail)
           x == [d EXCEPT !.pos = @ + n, !.page = page, !.seek = seek]
           q == d.pos + n
<1>1. PageSize \in Nat \ {0} /\ BufferSize \in Nat \ {0}
  BY Basics
<1>2. /\ d.file \in Seq(Cells) /\ d.seek \in Nat /\ d.pos \in Nat /\ d.bytes \in Nat
      /\ d.page \in [1..PageSize -> Cells] /\ L \in Nat /\ Len(D) \in Nat
  BY LenProperties DEF Disks
<1>3. /\ d.bytes = Len(D) /\ d.pos <= Len(D) /\ Len(D) <= L
      /\ \A k \in 1..Len(D) : d.file[k] = D[k]
      /\ d.seek = IF L <= PageEnd(d.pos) THEN L ELSE PageEnd(d.pos)
      /\ \A k \in 1..Len(D) : k > Rounded(d.pos) /\ k <= PageEnd(d.pos) => d.page[k - Rounded(d.pos)] = D[k]
  BY <1>2 DEF Reads, Complete
<1>18. d.bytes = Len(D) /\ d.pos <= Len(D) /\ Len(D) <= L
  BY <1>3
<1>4. n \in Nat /\ n <= BufferSize /\ d.pos + n <= Len(D) /\ (d.pos < Len(D) => n > 0)
  <2>1. d.bytes - d.pos \in Nat
    BY <1>2, <1>3
  <2>2. n = IF d.bytes - d.pos <= BufferSize THEN d.bytes - d.pos ELSE BufferSize
    BY <1>1, <2>1, OfTwo DEF ReadSize
  <2> HIDE DEF n
  <2>3. QED
    BY <1>1, <1>2, <1>3, <2>2
<1>5. o \in 0..PageSize - 1 /\ d.pos = Rounded(d.pos) + o /\ Rounded(d.pos) \in Nat
  BY <1>1, <1>2, Pages
<1>6. Read(d).data = data /\ Read(d).disk = x
  BY DEF Read
<1>7. o = 0 => PageEnd(d.pos) = d.pos
  BY DEF PageEnd
<1>8. o > 0 => PageEnd(d.pos) = Rounded(d.pos) + PageSize
  BY DEF PageEnd
<1> SUFFICES data = SubSeq(D, d.pos + 1, q) /\ x \in Disks /\ Reads(x, D)
             /\ x.pos = q /\ x.bytes = d.bytes
  <2> HIDE DEF data, x, n
  <2>1. QED
    BY <1>4, <1>6 DEF n
<1> HIDE DEF n, o, L, head, whole, tail, next, page, seek, data, x, q
<1>9. q \in Nat /\ q <= Len(D) /\ q <= L
  BY <1>2, <1>3, <1>4 DEF q
<1>10. PageEnd(q) \in Nat
  BY <1>9, Pages
<1>11. ASSUME data = SubSeq(D, d.pos + 1, q), page \in [1..PageSize -> Cells],
              seek = IF L <= PageEnd(q) THEN L ELSE PageEnd(q),
              \A k \in 1..Len(D) : k > Rounded(q) /\ k <= PageEnd(q) => page[k - Rounded(q)] = D[k]
       PROVE  data = SubSeq(D, d.pos + 1, q) /\ x \in Disks /\ Reads(x, D)
              /\ x.pos = q /\ x.bytes = d.bytes
  <2>1. seek \in Nat
    BY <1>2, <1>10, <1>11
  <2>2. x = [d EXCEPT !.pos = q, !.page = page, !.seek = seek]
    BY DEF x, q
  <2>3. /\ x \in Disks /\ x.pos = q /\ x.bytes = d.bytes /\ x.file = d.file /\ x.page = page
        /\ x.seek = seek
    BY <1>2, <1>9, <1>11, <2>1, <2>2 DEF Disks
  <2>4. Reads(x, D)
    BY <1>2, <1>3, <1>9, <1>11, <2>3 DEF Reads, Complete, L
  <2>5. QED
    BY <1>11, <2>3, <2>4
<1>12. ASSUME NEW h \in 0..n, head = h, (d.pos + h) % PageSize = 0, d.seek = d.pos + h,
              SubSeq(d.page, o + 1, o + h) = SubSeq(D, d.pos + 1, d.pos + h)
       PROVE  data = SubSeq(D, d.pos + 1, q) /\ x \in Disks /\ Reads(x, D)
              /\ x.pos = q /\ x.bytes = d.bytes
  <2> DEFINE a == d.pos + h
             m == n - h
  <2>1. a \in Nat /\ m \in Nat /\ a + m = q /\ a + m <= Len(D) /\ a % PageSize = 0 /\ d.seek = a
    <3>1. h \in Nat /\ h <= n
      BY <1>4
    <3>2. a \in Nat /\ m \in Nat /\ a + m = q
      BY <1>2, <1>4, <3>1 DEF q
    <3>3. a + m <= Len(D)
      BY <1>9, <3>2
    <3>4. a % PageSize = 0 /\ d.seek = a
      BY <1>12
    <3>5. QED
      BY <3>2, <3>3, <3>4
  <2>2. whole = Rounded(m) /\ tail = m - Rounded(m)
    BY <1>12 DEF whole, tail
  <2>3. Complete(d, D)
    BY DEF Reads
  <2> HIDE DEF a, m
  <2>4. /\ FileAt(d, d.seek, whole) \o SubSeq(page, 1, tail) = SubSeq(D, a + 1, a + m)
        /\ page \in [1..PageSize -> Cells]
        /\ seek = IF L <= PageEnd(a + m) THEN L ELSE PageEnd(a + m)
        /\ \A k \in 1..Len(D) : k > Rounded(a + m) /\ k <= PageEnd(a + m)
                                   => page[k - Rounded(a + m)] = D[k]
    <3> DEFINE w1 == Rounded(m)
               t1 == m - w1
               next1 == FileAt(d, d.seek + w1, PageSize)
               page1 == IF t1 = 0 THEN d.page ELSE Onto(d.page, 0, next1)
    <3>1. /\ FileAt(d, d.seek, w1) \o SubSeq(page1, 1, t1) = SubSeq(D, a + 1, a + m)
          /\ page1 \in [1..PageSize -> Cells]
          /\ Min({Len(d.file), d.seek + w1 + (IF t1 = 0 THEN 0 ELSE PageSize)})
               = IF Len(d.file) <= PageEnd(a + m) THEN Len(d.file) ELSE PageEnd(a + m)
          /\ \A k \in 1..Len(D) : k > Rounded(a + m) /\ k <= PageEnd(a + m)
                                     => page1[k - Rounded(a + m)] = D[k]
      <4>1. d \in Disks /\ D \in Seq(Items) /\ a % PageSize = 0 /\ d.seek = a /\ a + m <= Len(D)
        BY <2>1
      <4>2. QED
        BY <2>1, <2>3, <4>1, ReadRest
    <3>2. page = page1 /\ whole = w1 /\ tail = t1
      BY <2>2 DEF page, next
    <3> HIDE DEF page1, w1, t1
    <3>3. QED
      BY <3>1, <3>2 DEF seek, L
  <2>5. /\ FileAt(d, d.seek, whole) \o SubSeq(page, 1, tail) = SubSeq(D, a + 1, q)
        /\ page \in [1..PageSize -> Cells]
        /\ seek = IF L <= PageEnd(q) THEN L ELSE PageEnd(q)
        /\ \A k \in 1..Len(D) : k > Rounded(q) /\ k <= PageEnd(q) => page[k - Rounded(q)] = D[k]
    BY <2>1, <2>4
  <2>6. data = SubSeq(D, d.pos + 1, q)
    <3>1. SubSeq(d.page, o + 1, o + head) = SubSeq(D, d.pos + 1, a)
      BY <1>12 DEF a
    <3>2. /\ SubSeq(D, d.pos + 1, a) \in Seq(Cells)
          /\ FileAt(d, d.seek, whole) \in Seq(Cells)
          /\ SubSeq(page, 1, tail) \in Seq(Cells)
      <4>1. h \in Nat /\ d.pos <= a /\ a <= Len(D)
        BY <1>2, <1>4, <1>9, <2>1 DEF a
      <4>2. D \in Seq(Cells)
        BY SeqMonotonic DEF Cells
      <4>3. SubSeq(D, d.pos + 1, a) \in Seq(Cells)
        BY <1>2, <2>1, <4>1, <4>2, SubSeqIs
      <4>4. whole \in Nat /\ whole <= m /\ tail \in Nat /\ tail <= PageSize
        <5> DEFINE r == m % PageSize
        <5>1. Rounded(m) \in Nat /\ r \in 0..PageSize - 1 /\ m = Rounded(m) + r
          BY <2>1, Pages
        <5> HIDE DEF r
        <5>2. QED
          BY <1>1, <2>1, <2>2, <5>1
      <4>5. a + whole \in Nat /\ a <= a + whole /\ a + whole <= L
        <5>1. a + m <= L
          BY <1>2, <1>18, <2>1
        <5>2. QED
          BY <1>2, <2>1, <4>4, <5>1
      <4>6. FileAt(d, d.seek, whole) = SubSeq(d.file, a + 1, a + whole)
        <5>1. Min({a + whole, L}) = a + whole
          BY <1>2, <4>5, OfTwo
        <5>2. QED
          BY <2>1, <5>1 DEF FileAt, L
      <4>7. FileAt(d, d.seek, whole) \in Seq(Cells)
        BY <1>2, <2>1, <4>5, <4>6, SubSeqIs DEF L
      <4>8. page \in Seq(Cells) /\ Len(page) = PageSize
        BY <1>1, <2>5, SequenceOf
      <4>9. SubSeq(page, 0 + 1, tail) \in Seq(Cells)
        BY <4>4, <4>8, SubSeqIs
      <4>10. 0 + 1 = 1
        OBVIOUS
      <4>11. QED
        BY <4>3, <4>7, <4>9, <4>10
    <3>3. data = SubSeq(D, d.pos + 1, a) \o (FileAt(d, d.seek, whole) \o SubSeq(page, 1, tail))
      <4> DEFINE u == SubSeq(D, d.pos + 1, a)
                 v == FileAt(d, d.seek, whole)
                 z == SubSeq(page, 1, tail)
      <4>1. data = (u \o v) \o z
        BY <3>1 DEF data
      <4>2. u \in Seq(Cells) /\ v \in Seq(Cells) /\ z \in Seq(Cells)
        BY <3>2
      <4> HIDE DEF u, v, z
      <4>3. (u \o v) \o z = u \o (v \o z)
        BY <4>2, ConcatAssociative
      <4>4. QED
        BY <4>1, <4>3 DEF u, v, z
    <3>4. d.pos <= a /\ a <= q
      BY <1>2, <1>4, <2>1 DEF a, q
    <3>5. SubSeq(D, d.pos + 1, a) \o SubSeq(D, a + 1, q) = SubSeq(D, d.pos + 1, q)
      <4>1. d.pos + 1 \in Nat \ {0} /\ a + 1 \in Nat \ {0} /\ d.pos + 1 <= a + 1
        BY <1>2, <2>1, <3>4
      <4> DEFINE f == d.pos + 1
                 e == a + 1
      <4>2. a \in Nat /\ q \in Nat /\ a <= q /\ q <= Len(D) /\ e = a + 1
            /\ f \in Nat \ {0} /\ e \in Nat \ {0} /\ f <= e
        BY <1>9, <2>1, <3>4, <4>1
      <4> HIDE DEF e, f
      <4>3. SubSeq(D, f, a) \o SubSeq(D, e, q) = SubSeq(D, f, q)
        BY <4>2, Adjacent
      <4>4. QED
        BY <4>3 DEF e, f
    <3>6. QED
      BY <2>5, <3>3, <3>5
  <2>7. QED
    BY <1>11, <2>5, <2>6
<1>13. CASE o = 0
  <2>1. head = 0 /\ 0 \in 0..n
    BY <1>4, <1>13 DEF head
  <2>2. d.pos + 0 = d.pos /\ o + 0 = 0 /\ d.seek = d.pos + 0 /\ (d.pos + 0) % PageSize = 0
    BY <1>2, <1>3, <1>7, <1>13 DEF o
  <2>3. SubSeq(d.page, o + 1, o + 0) = <<>>
    BY <1>13, <2>2, SubSeqEmpty
  <2>4. SubSeq(D, d.pos + 1, d.pos + 0) = <<>>
    BY <1>2, <2>2, SubSeqEmpty
  <2>5. QED
    BY <1>12, <2>1, <2>2, <2>3, <2>4
<1>14. ASSUME o > 0, NEW h \in 0..n, o + h <= PageSize
       PROVE  SubSeq(d.page, o + 1, o + h) = SubSeq(D, d.pos + 1, d.pos + h)
  <2>1. d.page \in Seq(Cells) /\ Len(d.page) = PageSize
    BY <1>1, <1>2, SequenceOf
  <2>2. h \in Nat /\ o \in Nat /\ d.pos + h <= Len(D)
    BY <1>2, <1>4, <1>5
  <2>3. \A k \in 1..h : d.page[o + k] = D[d.pos + k]
    <3> TAKE k \in 1..h
    <3>1. /\ d.pos + k \in 1..Len(D) /\ d.pos + k > Rounded(d.pos) /\ d.pos + k <= PageEnd(d.pos)
          /\ (d.pos + k) - Rounded(d.pos) = o + k
      <4>1. d.pos + k \in 1..Len(D) /\ k \in Nat /\ k >= 1 /\ k <= h
        BY <1>2, <2>2
      <4>2. d.pos + k > Rounded(d.pos) /\ (d.pos + k) - Rounded(d.pos) = o + k
        BY <1>2, <1>5, <2>2, <4>1
      <4>3. o + k <= PageSize
        BY <1>1, <1>14, <2>2, <4>1
      <4>4. d.pos + k <= PageEnd(d.pos)
        BY <1>1, <1>2, <1>5, <1>8, <1>14, <2>2, <4>1, <4>3
      <4>5. QED
        BY <4>1, <4>2, <4>4
    <3>2. QED
      BY <1>3, <3>1
  <2>4. o + h <= Len(d.page)
    BY <1>14, <2>1
  <2>5. QED
    <3> DEFINE f == d.page
               p == d.pos
    <3>1. f \in Seq(Cells) /\ p \in Nat /\ o + h <= Len(f) /\ p + h <= Len(D)
          /\ \A k \in 1..h : f[o + k] = D[p + k]
      BY <1>2, <2>1, <2>2, <2>3, <2>4
    <3> HIDE DEF f, p
    <3>2. SubSeq(f, o + 1, o + h) = SubSeq(D, p + 1, p + h)
      BY ZenonT(40), <2>2, <3>1, SameItems
    <3>3. QED
      BY <3>2 DEF f, p
<1>15. CASE o > 0 /\ o + n < PageSize
  <2>1. head = n
    <3>1. PageSize - o \in Nat /\ (~(PageSize - o <= n) \/ n = PageSize - o)
      BY <1>1, <1>4, <1>5, <1>15
    <3>2. PageSize - o \in Nat
      BY <1>1, <1>5
    <3>3. Min({PageSize - o, n}) = n
      BY <1>4, <3>1, <3>2, OfTwo
    <3>4. QED
      BY <1>15, <3>3 DEF head
  <2>2. whole = 0 /\ tail = 0
    <3>1. n - head = 0 /\ Rounded(0) = 0
      BY <1>1, <1>4, <2>1 DEF Rounded
    <3>2. QED
      BY <3>1 DEF whole, tail
  <2>3. PageEnd(q) = PageEnd(d.pos) /\ Rounded(q) = Rounded(d.pos)
    <3>1. Rounded(d.pos + n) = Rounded(d.pos) /\ (d.pos + n) % PageSize = (d.pos % PageSize) + n
      BY <1>2, <1>4, <1>15, SamePage DEF o
    <3>2. Rounded(q) = Rounded(d.pos) /\ q % PageSize = o + n
      BY <3>1 DEF q, o
    <3>3. o + n # 0
      BY <1>4, <1>5, <1>15
    <3>4. PageEnd(q) = Rounded(q) + PageSize
      BY <3>2, <3>3 DEF PageEnd
    <3>5. QED
      BY <1>8, <1>15, <3>2, <3>4
  <2>4. page = d.page /\ seek = d.seek
    <3>1. d.seek + 0 + 0 = d.seek /\ (L <= d.seek => L = d.seek)
      BY <1>2, <1>3
    <3>2. Min({L, d.seek}) = d.seek
      BY <1>2, <3>1, OfTwo
    <3>3. QED
      BY <2>2, <3>1, <3>2 DEF page, seek
  <2>5. data = SubSeq(D, d.pos + 1, q)
    <3>1. SubSeq(d.page, o + 1, o + n) = SubSeq(D, d.pos + 1, q)
      <4>1. n \in 0..n /\ o + n <= PageSize /\ o > 0
        BY <1>1, <1>4, <1>5, <1>15
      <4>2. QED
        BY <1>14, <4>1 DEF q
    <3>2. SubSeq(D, d.pos + 1, q) \in Seq(Cells)
      <4>1. D \in Seq(Cells) /\ d.pos <= q
        BY <1>2, <1>4, SeqMonotonic DEF Cells, q
      <4>2. QED
        BY <1>2, <1>9, <4>1, SubSeqIs
    <3>3. SubSeq(page, 1, 0) = <<>>
      BY SubSeqEmpty
    <3>4. FileAt(d, d.seek, 0) = <<>>
      <4>1. Min({d.seek + 0, L}) = d.seek
        <5>1. d.seek + 0 = d.seek /\ d.seek <= L
          BY <1>2, <1>3
        <5>2. QED
          BY <1>2, <5>1, OfTwo
      <4>2. FileAt(d, d.seek, 0) = SubSeq(d.file, d.seek + 1, d.seek)
        BY <4>1 DEF FileAt, L
      <4>3. QED
        BY <1>2, <4>2, SubSeqEmpty
    <3>5. data = SubSeq(D, d.pos + 1, q) \o <<>> \o <<>>
      BY <2>1, <2>2, <3>1, <3>3, <3>4 DEF data
    <3>6. QED
      BY <3>2, <3>5, ConcatEmptySeq
  <2>6. QED
    BY <1>2, <1>3, <1>11, <2>3, <2>4, <2>5
<1>16. CASE o > 0 /\ PageSize <= o + n
  <2> DEFINE h == PageSize - o
  <2>1. h \in 0..n /\ h \in Nat /\ o + h = PageSize /\ d.pos + h = Rounded(d.pos) + PageSize
        /\ o + h <= PageSize
    BY <1>1, <1>2, <1>4, <1>5, <1>16
  <2>2. head = h
    <3>1. h <= n
      BY <1>4, <2>1
    <3>2. Min({h, n}) = h
      BY <1>4, <2>1, <3>1, OfTwo
    <3>3. QED
      BY <1>16, <3>2 DEF head
  <2> HIDE DEF h
  <2>3. (d.pos + h) % PageSize = 0
    <3>1. (d.pos % PageSize) + h = PageSize
      BY <2>1 DEF o
    <3>2. QED
      BY <1>2, <2>1, <3>1, PageFull
  <2>4. d.seek = d.pos + h
    <3>1. PageEnd(d.pos) = d.pos + h /\ d.pos + h <= L
      BY <1>2, <1>3, <1>4, <1>8, <1>16, <2>1
    <3>2. d.seek = IF L <= d.pos + h THEN L ELSE d.pos + h
      BY <1>3, <3>1
    <3>3. QED
      BY <1>2, <2>1, <3>1, <3>2
  <2>5. SubSeq(d.page, o + 1, o + h) = SubSeq(D, d.pos + 1, d.pos + h)
    BY <1>14, <1>16, <2>1
  <2>6. QED
    BY <1>12, <2>1, <2>2, <2>3, <2>4, <2>5
<1>17. QED
  BY <1>1, <1>4, <1>5, <1>13, <1>15, <1>16

\* flush_one: afterwards the file has everything, also when it is done again.
LEMMA FlushCompletes ==
  ASSUME NEW d \in Disks, NEW D \in Seq(Items), Flushing(d, D)
  PROVE  LET e == Flushed(d)
         IN /\ e \in Disks /\ e.pos = d.pos /\ e.bytes = d.bytes
            /\ Flushing(e, D) /\ Complete(e, D)
<1> DEFINE e == Flushed(d)
           n == Len(D)
           o == d.pos % PageSize
<1>1. PageSize \in Nat \ {0}
  BY Basics
<1>2. /\ d.file \in Seq(Cells) /\ d.seek \in Nat /\ d.page \in [1..PageSize -> Cells]
      /\ Len(d.file) \in Nat /\ n \in Nat
  BY LenProperties DEF Disks
<1>3. /\ d.pos = n /\ d.bytes = n /\ Rounded(n) <= Len(d.file)
      /\ \A k \in 1..Rounded(n) : d.file[k] = D[k]
      /\ \A k \in Rounded(n) + 1..n : d.page[k - Rounded(n)] = D[k]
  BY DEF Flushing, Carried
<1>4. o \in 0..PageSize - 1 /\ n = Rounded(n) + o /\ Rounded(n) \in Nat
  BY <1>1, <1>2, <1>3, Pages
<1> SUFFICES /\ e \in Disks /\ e.pos = d.pos /\ e.bytes = d.bytes
             /\ Flushing(e, D) /\ Complete(e, D)
  OBVIOUS
<1>5. CASE ~(d.pos % PageSize > 0)
  <2>1. e = d
    BY <1>5 DEF Flushed
  <2>2. Rounded(n) = n
    BY <1>1, <1>2, <1>4, <1>5
  <2>3. Complete(d, D)
    BY <1>3, <2>2 DEF Complete
  <2>4. QED
    BY <2>1, <2>3
<1>6. CASE d.pos % PageSize > 0
  <2>1. e = PutFile(d, d.page)
    BY <1>6 DEF Flushed
  <2>2. d.page \in Seq(Cells) /\ Len(d.page) = PageSize
    BY <1>1, <1>2, SequenceOf
  <2>3. /\ d.seek <= Len(d.file) /\ n < d.seek + PageSize
        /\ d.seek = Rounded(n) \/ (Complete(d, D) /\ n <= d.seek)
    BY <1>1, <1>2, <1>3, <1>4 DEF Flushing
  <2> HIDE DEF o, n, e
  <2>4. /\ e \in Disks /\ e.seek = d.seek + PageSize
        /\ e.pos = d.pos /\ e.bytes = d.bytes /\ e.page = d.page
        /\ Len(e.file) = IF Len(d.file) <= e.seek THEN e.seek ELSE Len(d.file)
        /\ \A k \in 1..d.seek : e.file[k] = d.file[k]
        /\ \A k \in 1..PageSize : e.file[d.seek + k] = d.page[k]
    BY <2>1, <2>2, <2>3, PutFileIs
  <2>5. n <= Len(e.file) /\ e.seek <= Len(e.file) /\ n <= e.seek
    BY <1>1, <1>2, <2>3, <2>4
  <2>6. \A k \in 1..n : e.file[k] = D[k]
    <3>1. CASE d.seek = Rounded(n)
      <4> TAKE k \in 1..n
      <4>1. CASE k <= Rounded(n)
        BY <1>2, <1>3, <1>4, <2>4, <3>1, <4>1
      <4>2. CASE k > Rounded(n)
        <5>1. k - Rounded(n) \in 1..PageSize /\ Rounded(n) + (k - Rounded(n)) = k
              /\ k \in Rounded(n) + 1..n
          BY <1>1, <1>2, <1>4, <4>2
        <5>2. QED
          BY <1>3, <2>4, <3>1, <5>1
      <4>3. QED
        BY <1>2, <1>4, <4>1, <4>2
    <3>2. CASE Complete(d, D) /\ n <= d.seek
      <4>1. \A k \in 1..n : d.file[k] = D[k]
        BY <3>2 DEF Complete, n
      <4>2. \A k \in 1..n : k \in 1..d.seek
        BY <1>2, <3>2
      <4>3. QED
        BY <2>4, <4>1, <4>2
    <3>3. QED
      BY <2>3, <3>1, <3>2
  <2>7. Complete(e, D)
    BY <2>5, <2>6 DEF Complete, n
  <2>8. Carried(e, D)
    <3>1. Rounded(n) <= Len(e.file)
      <4>1. Len(e.file) \in Nat /\ Rounded(n) <= n
        BY <1>1, <1>2, <1>4, <2>4, LenProperties DEF Disks
      <4>2. QED
        BY <1>2, <1>4, <2>5, <4>1
    <3>2. \A k \in 1..Rounded(n) : k \in 1..n
      BY <1>1, <1>2, <1>4
    <3>3. \A k \in 1..Rounded(n) : e.file[k] = D[k]
      BY <2>6, <3>2
    <3>4. QED
      BY <1>3, <2>4, <3>1, <3>3 DEF Carried, n
  <2>9. n % PageSize > 0
    BY <1>3, <1>6
  <2>10. Flushing(e, D)
    BY <2>5, <2>7, <2>8, <2>9 DEF Flushing, n
  <2>11. QED
    BY <2>4, <2>7, <2>10
<1>7. QED
  BY <1>5, <1>6

\* A file that is about to be appended to can be flushed.
LEMMA HoldsFlushing ==
  ASSUME NEW d, NEW D, Holds(d, D)
  PROVE  Flushing(d, D)
BY DEF Holds, Flushing

\* The item at which nothing has been read.
LEMMA AtStart == Rounded(0) = 0 /\ PageEnd(0) = 0 /\ 0 % PageSize = 0
<1>1. PageSize \in Nat \ {0}
  BY Basics
<1>2. 0 % PageSize = 0 /\ 0 \div PageSize = 0
  BY <1>1
<1>3. Rounded(0) = 0
  BY <1>1, <1>2 DEF Rounded
<1>4. QED
  BY <1>2, <1>3 DEF PageEnd

\* rewind_file
LEMMA RewoundReads ==
  ASSUME NEW d \in Disks, NEW D \in Seq(Items), Complete(d, D), d.bytes = Len(D)
  PROVE  LET e == [d EXCEPT !.seek = 0, !.pos = 0]
         IN e \in Disks /\ Reads(e, D) /\ e.pos = 0 /\ e.bytes = d.bytes
<1> DEFINE e == [d EXCEPT !.seek = 0, !.pos = 0]
<1>1. /\ e \in Disks /\ e.file = d.file /\ e.seek = 0 /\ e.pos = 0 /\ e.bytes = d.bytes
      /\ e.page = d.page
  BY DEF Disks
<1> HIDE DEF e
<1>2. Len(D) \in Nat /\ Len(d.file) \in Nat
  BY LenProperties DEF Disks
<1>3. Complete(e, D) /\ e.bytes = Len(D) /\ e.pos \in 0..Len(D)
  BY <1>1, <1>2 DEF Complete
<1>4. e.seek = IF Len(e.file) <= PageEnd(e.pos) THEN Len(e.file) ELSE PageEnd(e.pos)
  BY <1>1, <1>2, AtStart
<1>5. \A k \in 1..Len(D) : ~(k > Rounded(e.pos) /\ k <= PageEnd(e.pos))
  BY <1>1, <1>2, AtStart
<1>6. Reads(e, D)
  BY <1>3, <1>4, <1>5 DEF Reads
<1>7. QED
  BY <1>1, <1>6 DEF e

\* A file of a stream that has nothing on disk can be read and appended to.
LEMMA NothingHeld ==
  ASSUME NEW d \in Disks, d.pos = 0, d.bytes = 0, d.seek = 0
  PROVE  Holds(d, <<>>) /\ Reads(d, <<>>)
<1>1. Len(<<>>) = 0 /\ Len(d.file) \in Nat
  BY EmptySeq, LenProperties DEF Disks
<1>2. \A k \in 1..0 : FALSE
  OBVIOUS
<1>3. \A k \in 0 + 1..0 : FALSE
  OBVIOUS
<1>4. Holds(d, <<>>)
  BY <1>1, <1>2, <1>3, AtStart DEF Holds, Carried
<1>5. d.seek = IF Len(d.file) <= PageEnd(d.pos) THEN Len(d.file) ELSE PageEnd(d.pos)
  BY <1>1, AtStart
<1>6. Complete(d, <<>>) /\ d.pos \in 0..Len(<<>>)
  BY <1>1, <1>2 DEF Complete
<1>7. Reads(d, <<>>)
  BY <1>1, <1>2, <1>5, <1>6 DEF Reads
<1>8. QED
  BY <1>4, <1>7

\* A file that has nothing of a stream.
LEMMA EmptyFile ==
  ASSUME NEW d \in Disks, NEW D \in Seq(Items), d.bytes = 0, Flushing(d, D) \/ Reads(d, D)
  PROVE  D = <<>> /\ d.pos = 0 /\ d.seek = 0 /\ Holds(d, D) /\ Reads(d, D)
<1>1. Len(D) = 0 /\ d.pos = 0
  BY DEF Flushing, Carried, Reads
<1>2. D = <<>>
  BY <1>1, EmptySeq
<1>3. Len(d.file) \in Nat
  BY LenProperties DEF Disks
<1>4. d.seek = 0
  BY <1>1, <1>3, AtStart DEF Flushing, Reads
<1>5. QED
  BY <1>1, <1>2, <1>4, NothingHeld

\* disk_pos at the end of a file that was read to the end, or is appended to.
LEMMA ToEndHolds ==
  ASSUME NEW d \in Disks, NEW D \in Seq(Items), (Reads(d, D) /\ d.pos = d.bytes) \/ Holds(d, D)
  PROVE  ToEnd(d) \in Disks /\ Holds(ToEnd(d), D) /\ ToEnd(d).bytes = d.bytes
<1> DEFINE e == ToEnd(d)
           n == Len(D)
<1>1. n \in Nat /\ Len(d.file) \in Nat /\ d.bytes = n /\ d.pos = n
  BY LenProperties DEF Disks, Reads, Holds, Carried
<1>2. Rounded(n) \in Nat /\ Rounded(n) <= n /\ n <= PageEnd(n)
  <2> HIDE DEF n, e
  <2> DEFINE o == n % PageSize
  <2>1. /\ Rounded(n) \in Nat /\ n % PageSize \in 0..PageSize - 1
        /\ n = Rounded(n) + (n % PageSize) /\ n <= PageEnd(n)
    BY <1>1, Pages
  <2>2. PageSize \in Nat \ {0}
    BY Basics
  <2>3. Rounded(n) \in Nat /\ o \in Nat /\ n = Rounded(n) + o
    BY <2>1, <2>2
  <2> HIDE DEF o
  <2>4. QED
    BY <1>1, <2>1, <2>3
<1>3. /\ e \in Disks /\ e.file = d.file /\ e.seek = Rounded(n) /\ e.pos = n /\ e.bytes = n
      /\ e.page = d.page
  BY <1>1, <1>2 DEF Disks, ToEnd
<1> HIDE DEF e, n
<1>4. /\ Rounded(n) <= Len(d.file)
      /\ \A k \in 1..Rounded(n) : d.file[k] = D[k]
      /\ \A k \in Rounded(n) + 1..n : d.page[k - Rounded(n)] = D[k]
  <2>1. CASE Holds(d, D)
    BY <2>1 DEF Holds, Carried, n
  <2>2. CASE Reads(d, D)
    <3>1. /\ n <= Len(d.file) /\ \A k \in 1..n : d.file[k] = D[k]
          /\ \A k \in 1..n : k > Rounded(n) /\ k <= PageEnd(n) => d.page[k - Rounded(n)] = D[k]
      BY <1>1, <2>2 DEF Reads, Complete, n
    <3>2. PageEnd(n) \in Nat
      BY <1>1, Pages
    <3>3. \A k \in Rounded(n) + 1..n : k \in 1..n /\ k > Rounded(n) /\ k <= PageEnd(n)
      BY <1>1, <1>2, <3>2
    <3>4. \A k \in 1..Rounded(n) : k \in 1..n
      BY <1>1, <1>2
    <3>5. QED
      BY <1>1, <1>2, <3>1, <3>3, <3>4
  <2>3. QED
    BY <2>1, <2>2
<1>5. Holds(e, D)
  BY <1>3, <1>4 DEF Holds, Carried, n
<1>6. QED
  BY <1>1, <1>3, <1>5 DEF e

-----------------------------------------------------------------------------
(* The parts of a buffer *)

\* A buffer of a stream with one super partition is one part.
LEMMA SubstreamIsAll ==
  ASSUME NEW data \in Seq(Items), OfFirst(data)
  PROVE  Substream(data, 0) = data
<1> DEFINE before(n) == Cardinality({k \in DOMAIN data : data[k][1] < n})
<1>1. Len(data) \in Nat /\ DOMAIN data = 1..Len(data)
  BY LenProperties
<1>2. {k \in DOMAIN data : data[k][1] < 0} = {}
  BY <1>1 DEF OfFirst
<1>3. {k \in DOMAIN data : data[k][1] < 1} = 1..Len(data)
  <2>1. \A k \in 1..Len(data) : data[k][1] = 0 /\ 0 < 1
    BY DEF OfFirst
  <2>2. \A k \in 1..Len(data) : data[k][1] < 1
    BY <2>1
  <2>3. QED
    BY <1>1, <2>2
<1>4. before(0) = 0
  BY <1>2, FS_EmptySet
<1>5. before(1) = Len(data)
  <2>1. Cardinality(1..Len(data)) = Len(data)
    BY <1>1, FS_Interval
  <2>2. QED
    BY <1>3, <2>1
<1>6. Substream(data, 0) = SubSeq(data, 1, Len(data))
  <2>1. Substream(data, 0) = SubSeq(data, before(0) + 1, before(0 + 1))
    BY DEF Substream
  <2>2. 0 + 1 = 1
    OBVIOUS
  <2> HIDE DEF before
  <2>3. QED
    BY <1>4, <1>5, <2>1, <2>2
<1>7. QED
  BY <1>6, SubSeqFull

\* The index that make_index returns says where the parts are.
LEMMA FilledParts ==
  ASSUME superPartitions \in Nat \ {0}, superPartitions \in SuperPartitionCounts, cycle \in 0..Cycles,
         NEW cut \in [0..superPartitions -> 0..BufferSize], cut[0] = 0,
         \A s \in 0..superPartitions : \A t \in 0..superPartitions : s <= t => cut[s] <= cut[t],
         \A s \in Supers : Len(sent[s]) \in Nat /\ Len(sent[s]) + (cut[s + 1] - cut[s]) <= MaxItems
  PROVE  LET size(s) == cut[s + 1] - cut[s]
             item(s, k) == <<s, cycle, Len(sent[s]) + k>>
             home(k) == CHOOSE s \in Supers : cut[s] < k /\ k <= cut[s + 1]
             data == [k \in 1..cut[superPartitions] |-> item(home(k), k - cut[home(k)])]
         IN /\ data \in Seq(Items) /\ Len(data) = cut[superPartitions]
            /\ superPartitions = 1 => OfFirst(data)
            /\ \A s \in Supers : /\ size(s) \in Nat
                                 /\ [k \in 1..size(s) |-> item(s, k)] \in Seq(Items)
                                 /\ Len([k \in 1..size(s) |-> item(s, k)]) = size(s)
                                 /\ Substream(data, s) = [k \in 1..size(s) |-> item(s, k)]
<1> DEFINE N == superPartitions
           size(s) == cut[s + 1] - cut[s]
           item(s, k) == <<s, cycle, Len(sent[s]) + k>>
           home(k) == CHOOSE s \in Supers : cut[s] < k /\ k <= cut[s + 1]
           data == [k \in 1..cut[N] |-> item(home(k), k - cut[home(k)])]
           before(n) == Cardinality({k \in DOMAIN data : data[k][1] < n})
<1>1. /\ BufferSize \in Nat /\ MaxItems \in Nat /\ Cycles \in Nat
      /\ N \in Nat \ {0} /\ Supers = 0..N - 1
  BY Basics DEF Supers
<1>2. \A s \in 0..N : cut[s] \in Nat /\ cut[s] <= BufferSize
  BY <1>1
<1>3. \A s \in Supers : s \in 0..N /\ s + 1 \in 0..N /\ cut[s] <= cut[s + 1] /\ cut[s + 1] <= cut[N]
  <2> TAKE s \in Supers
  <2>1. s \in 0..N /\ s + 1 \in 0..N /\ N \in 0..N /\ s <= s + 1 /\ s + 1 <= N
    BY <1>1
  <2>2. QED
    BY <2>1
<1>4. \A s \in Supers : size(s) \in Nat /\ Len(sent[s]) \in Nat /\ Len(sent[s]) + size(s) <= MaxItems
  BY <1>2, <1>3
<1>5. ASSUME NEW k \in 1..cut[N] PROVE \E s \in Supers : cut[s] < k /\ k <= cut[s + 1]
  <2> DEFINE S == {n \in 0..N : k <= cut[n]}
  <2>1. S \in SUBSET Nat /\ N \in S
    BY <1>1, <1>2
  <2>2. S # {}
    BY <2>1
  <2> DEFINE m == Min(S)
  <2>3. m \in S /\ \A y \in S : m <= y
    BY <2>1, <2>2, MinIn
  <2> HIDE DEF m
  <2>4. m \in 0..N /\ k <= cut[m] /\ m # 0
    BY <1>1, <1>2, <2>3
  <2>5. m - 1 \in Supers /\ m - 1 \in 0..N /\ ~(m <= m - 1) /\ (m - 1) + 1 = m
    BY <1>1, <2>4
  <2>6. ~(k <= cut[m - 1])
    BY <2>3, <2>5
  <2>7. cut[m - 1] < k
    BY <1>2, <2>5, <2>6
  <2>8. QED
    BY <2>4, <2>5, <2>7
<1>6. \A k \in 1..cut[N] : home(k) \in Supers /\ cut[home(k)] < k /\ k <= cut[home(k) + 1]
  BY <1>5
<1>7. ASSUME NEW k \in 1..cut[N], NEW s \in Supers, cut[s] < k, k <= cut[s + 1]
      PROVE  home(k) = s
  <2> DEFINE h == home(k)
  <2>1. h \in Supers /\ cut[h] < k /\ k <= cut[h + 1]
    BY <1>6
  <2> HIDE DEF h
  <2>2. ASSUME h < s PROVE FALSE
    <3>1. h + 1 \in 0..N /\ s \in 0..N /\ h + 1 <= s
      BY <1>1, <2>1, <2>2
    <3>2. cut[h + 1] <= cut[s] /\ cut[h + 1] \in Nat /\ cut[s] \in Nat
      BY <1>2, <3>1
    <3>3. QED
      BY <1>7, <2>1, <3>2
  <2>3. ASSUME s < h PROVE FALSE
    <3>1. s + 1 \in 0..N /\ h \in 0..N /\ s + 1 <= h
      BY <1>1, <2>1, <2>3
    <3>2. cut[s + 1] <= cut[h] /\ cut[s + 1] \in Nat /\ cut[h] \in Nat
      BY <1>2, <3>1
    <3>3. QED
      BY <1>7, <2>1, <3>2
  <2>4. h \in Nat /\ s \in Nat
    BY <1>1, <2>1
  <2>5. h = s
    BY <2>2, <2>3, <2>4
  <2>6. QED
    BY <2>5 DEF h
<1> HIDE DEF home
<1>8. ASSUME NEW k \in 1..cut[N]
      PROVE  data[k] = <<home(k), cycle, Len(sent[home(k)]) + (k - cut[home(k)])>>
             /\ data[k] \in Items /\ data[k][1] = home(k)
  <2> DEFINE h == home(k)
             l == Len(sent[h])
  <2>1. h \in Supers /\ cut[h] < k /\ k <= cut[h + 1]
    BY <1>6
  <2> HIDE DEF h
  <2>2. l \in Nat /\ l + size(h) <= MaxItems /\ cut[h] \in Nat /\ cut[h + 1] \in Nat
    BY <1>2, <1>3, <1>4, <2>1
  <2>3. l + (k - cut[h]) \in 1..MaxItems
    <3> DEFINE a == cut[h]
               b == cut[h + 1]
    <3>1. a \in Nat /\ b \in Nat /\ a < k /\ k <= b /\ l \in Nat /\ l + (b - a) <= MaxItems
      BY <2>1, <2>2
    <3> HIDE DEF a, b, l
    <3>2. l + (k - a) \in 1..MaxItems
      BY <1>1, <3>1
    <3>3. QED
      BY <3>2 DEF a
  <2>4. h \in UNION {0..n : n \in SuperPartitionCounts}
    <3>1. h \in 0..N
      BY <1>3, <2>1
    <3>2. QED
      BY <3>1
  <2>5. data[k] = <<h, cycle, l + (k - cut[h])>>
    BY DEF h
  <2> HIDE DEF l, data
  <2>6. data[k] \in Items
    BY <2>3, <2>4, <2>5 DEF Items
  <2>7. data[k][1] = h
    BY <2>5
  <2>8. QED
    BY <2>5, <2>6, <2>7 DEF h, l
<1>9. data \in Seq(Items) /\ Len(data) = cut[N] /\ DOMAIN data = 1..cut[N]
  <2>1. cut[N] \in Nat
    BY <1>1, <1>2
  <2>2. data \in [1..cut[N] -> Items]
    BY <1>8
  <2> HIDE DEF data
  <2>3. QED
    BY <2>1, <2>2, SequenceOf
<1> HIDE DEF data
<1>10. N = 1 => OfFirst(data)
  <2>1. \A k \in 1..cut[N] : data[k][1] \in 0..N - 1
    BY <1>1, <1>6, <1>8
  <2>2. QED
    BY <1>9, <2>1 DEF OfFirst
<1>11. ASSUME NEW n \in 0..N PROVE before(n) = cut[n]
  <2>1. ASSUME NEW k \in 1..cut[N] PROVE data[k][1] < n <=> k <= cut[n]
    <3> DEFINE h == home(k)
    <3>1. h \in Supers /\ cut[h] < k /\ k <= cut[h + 1] /\ data[k][1] = h
      BY <1>6, <1>8
    <3> HIDE DEF h
    <3>2. CASE h < n
      <4>1. h + 1 \in 0..N /\ h + 1 <= n
        BY <1>1, <3>1, <3>2
      <4>2. cut[h + 1] <= cut[n] /\ cut[h + 1] \in Nat /\ cut[n] \in Nat
        BY <1>2, <4>1
      <4>3. QED
        BY <3>1, <3>2, <4>2
    <3>3. CASE n <= h
      <4>1. h \in 0..N
        BY <1>3, <3>1
      <4>2. cut[n] <= cut[h] /\ cut[h] \in Nat /\ cut[n] \in Nat
        BY <1>2, <3>3, <4>1
      <4>3. ~(h < n)
        BY <1>1, <3>1, <3>3
      <4>4. QED
        BY <3>1, <4>2, <4>3
    <3>4. QED
      BY <1>1, <3>1, <3>2, <3>3
  <2>2. cut[n] \in Nat /\ cut[n] <= cut[N] /\ cut[N] \in Nat
    <3>1. N \in 0..N /\ n <= N
      BY <1>1
    <3>2. QED
      BY <1>2, <3>1
  <2>3. {k \in DOMAIN data : data[k][1] < n} = 1..cut[n]
    BY <1>9, <2>1, <2>2
  <2>4. Cardinality(1..cut[n]) = cut[n]
    BY <2>2, FS_Interval
  <2>5. QED
    BY <2>3, <2>4
<1>12. ASSUME NEW s \in Supers
       PROVE  /\ size(s) \in Nat
              /\ [k \in 1..size(s) |-> item(s, k)] \in Seq(Items)
              /\ Len([k \in 1..size(s) |-> item(s, k)]) = size(s)
              /\ Substream(data, s) = [k \in 1..size(s) |-> item(s, k)]
  <2> DEFINE t == [k \in 1..size(s) |-> item(s, k)]
             u == SubSeq(data, cut[s] + 1, cut[s + 1])
             l == Len(sent[s])
  <2>1. /\ cut[s] \in Nat /\ cut[s + 1] \in Nat /\ cut[s] <= cut[s + 1] /\ cut[s + 1] <= cut[N]
        /\ cut[N] \in Nat /\ size(s) \in Nat /\ l \in Nat /\ l + size(s) <= MaxItems
    BY <1>1, <1>2, <1>3, <1>4
  <2>2. Substream(data, s) = u
    <3>1. before(s) = cut[s] /\ before(s + 1) = cut[s + 1]
      BY <1>3, <1>11
    <3>2. QED
      BY <3>1 DEF Substream
  <2>3. \A k \in 1..size(s) : item(s, k) \in Items
    <3> TAKE k \in 1..size(s)
    <3>1. l + k \in 1..MaxItems
      BY SMTT(40), <1>1, <2>1
    <3>2. s \in UNION {0..n : n \in SuperPartitionCounts}
      <4>1. s \in 0..N
        BY <1>3
      <4>2. QED
        BY <4>1
    <3>3. QED
      BY <3>1, <3>2 DEF Items
  <2>4. t \in [1..size(s) -> Items]
    BY <2>3
  <2>5. t \in Seq(Items) /\ Len(t) = size(s)
    <3> HIDE DEF t, size
    <3>1. QED
      BY <2>1, <2>4, SequenceOf
  <2>6. /\ u \in Seq(Items) /\ Len(u) = cut[s + 1] - cut[s]
        /\ \A k \in 1..cut[s + 1] - cut[s] : u[k] = data[cut[s] + k]
    <3> DEFINE a == cut[s]
               b == cut[s + 1]
    <3>1. data \in Seq(Items) /\ a \in Nat /\ b \in Nat /\ b <= Len(data) /\ a <= b
      BY <1>9, <2>1
    <3> HIDE DEF a, b
    <3>2. /\ SubSeq(data, a + 1, b) \in Seq(Items) /\ Len(SubSeq(data, a + 1, b)) = b - a
          /\ \A k \in 1..b - a : SubSeq(data, a + 1, b)[k] = data[a + k]
      BY <3>1, SubSeqIs
    <3>3. QED
      BY <3>2 DEF a, b
  <2>7. \A k \in 1..size(s) : u[k] = t[k]
    <3> TAKE k \in 1..size(s)
    <3>1. cut[s] + k \in 1..cut[N] /\ cut[s] < cut[s] + k /\ cut[s] + k <= cut[s + 1]
          /\ (cut[s] + k) - cut[s] = k
      BY SMTT(40), <2>1
    <3>2. home(cut[s] + k) = s
      BY <1>7, <3>1
    <3>3. data[cut[s] + k] = <<s, cycle, l + k>>
      <4> DEFINE j == cut[s] + k
      <4>1. j \in 1..cut[N] /\ home(j) = s /\ j - cut[s] = k
        BY <3>1, <3>2
      <4> HIDE DEF j
      <4>2. data[j] = <<home(j), cycle, Len(sent[home(j)]) + (j - cut[home(j)])>>
        BY <1>8, <4>1
      <4>3. QED
        BY <4>1, <4>2 DEF j
    <3>4. u[k] = data[cut[s] + k]
      BY <2>6
    <3>5. QED
      BY <3>3, <3>4
  <2> HIDE DEF u, t
  <2>8. u = t
    BY <2>5, <2>6, <2>7, SeqEqual
  <2>9. QED
    BY <2>1, <2>2, <2>5, <2>8 DEF t
<1>13. QED
  BY <1>9, <1>10, <1>12 DEF data, home

-----------------------------------------------------------------------------
(* What the control invariants say at a step *)

\* A buffer that get_buffer returns is nobody's.
LEMMA FreeBuffer ==
  ASSUME Fields, RequestInv, RefInv, DirtyInv, HolderInv, FreeBuffers # {}
  PROVE  /\ Min(FreeBuffers) \in Pool /\ Min(FreeBuffers) # NULL /\ Min(FreeBuffers) # State
         /\ refcount[Min(FreeBuffers)] = 0
         /\ Min(FreeBuffers) \notin {request, cache, batch}
         /\ pc \in {"append", "spill", "consume"} => Min(FreeBuffers) # buf
         /\ uptodate[Min(FreeBuffers)] /\ ~dirty[Min(FreeBuffers)]
<1>1. FreeBuffers \in SUBSET Nat /\ FreeBuffers \subseteq Pool
  BY Basics DEF FreeBuffers
<1>2. PICK b : b = Min(FreeBuffers)
  OBVIOUS
<1>3. b \in FreeBuffers
  BY <1>1, <1>2, MinIn
<1>4. b \in Pool /\ refcount[b] = 0
  BY <1>1, <1>3 DEF FreeBuffers
<1>5. b # NULL /\ b # State /\ b \in Buffers
  BY <1>4, Basics
<1>6. /\ One(b \in {request, cache}) = 0 /\ One(b = batch) = 0
      /\ One(b = buf /\ pc \in {"append", "spill", "consume"}) = 0
  BY <1>4 DEF RefInv, One
<1>7. b \notin {request, cache, batch} /\ ~(b = buf /\ pc \in {"append", "spill", "consume"})
  BY <1>6 DEF One
<1>8. uptodate[b] /\ ~dirty[b]
  BY <1>4, <1>5, <1>7 DEF RequestInv, DirtyInv
<1>9. QED
  BY <1>2, <1>4, <1>5, <1>7, <1>8

\* The main thread finds no request under way when it has waited for the last.
LEMMA NoWork ==
  ASSUME Fields, RequestInv, RequestDone, pc # "flushing"
  PROVE  ~Work /\ queue = 0 /\ io # "busy" /\ \A b \in Buffers : uptodate[b]
<1>1. ~Work
  <2>1. request = NULL \/ request \in Buffers
    BY Basics DEF Fields, Holders
  <2>2. CASE request = NULL
    BY <2>2 DEF RequestInv
  <2>3. CASE request # NULL
    BY <2>1, <2>3 DEF RequestInv, RequestDone
  <2>4. QED
    BY <2>2, <2>3
<1>2. queue = 0 /\ io # "busy"
  BY <1>1 DEF Work, Fields
<1>3. \A b \in Buffers : uptodate[b]
  BY <1>1 DEF RequestInv
<1>4. QED
  BY <1>1, <1>2, <1>3

\* A buffer without work under way can be dropped.
LEMMA DropsBuffer ==
  ASSUME Fields, NEW b \in Pool, uptodate[b], ~dirty[b]
  PROVE  /\ DropError(b) = "no" /\ Dropped(b) \in [Buffers -> Int]
         /\ Dropped(b)[State] = refcount[State] /\ Dropped(b)[b] = refcount[b] - 1
         /\ \A c \in Pool : c # b => Dropped(b)[c] = refcount[c]
BY Basics DEF Fields, DropError, Dropped

\* A step that leaves a stream's buffers to their holders.
LEMMA TakesBuffer ==
  ASSUME Fields, NEW b \in Pool, NEW n \in Int
  PROVE  LET r == [refcount EXCEPT ![b] = n]
         IN /\ r \in [Buffers -> Int] /\ r[b] = n /\ r[State] = refcount[State]
            /\ \A c \in Pool : c # b => r[c] = refcount[c]
BY Basics DEF Fields

\* The types of the files, of their contents and of the histories.
LEMMA Types ==
  ASSUME IInv
  PROVE  /\ disk \in [Supers -> Disks] /\ content \in [Buffers -> Seq(Items)]
         /\ sent \in [Supers -> Seq(Items)] /\ got \in [Supers -> Seq(Items)]
         /\ \A s \in Supers : /\ disk[s].file \in Seq(Cells) /\ disk[s].seek \in Nat /\ disk[s].pos \in Nat
                              /\ disk[s].bytes \in Nat /\ disk[s].page \in [1..PageSize -> Cells]
                              /\ disk[s].pos <= disk[s].bytes
<1>1. /\ disk \in [Supers -> Disks] /\ sent \in [Supers -> Seq(Items)] /\ got \in [Supers -> Seq(Items)]
      /\ \A s \in Supers : disk[s].pos <= disk[s].bytes
  <2>1. CASE kind = "vertices"
    BY <2>1 DEF IInv, Data, VertexInv
  <2>2. CASE kind # "vertices"
    BY <2>2 DEF IInv, Data, StreamData, FileInv, SentInv, GotInv
  <2>3. QED
    BY <2>1, <2>2
<1>2. content \in [Buffers -> Seq(Items)]
  BY DEF IInv, ContentInv
<1>3. \A s \in Supers : disk[s] \in Disks
  BY <1>1
<1>4. QED
  BY <1>1, <1>2, <1>3 DEF Disks

\* There is a first super partition.
LEMMA FirstSuper ==
  ASSUME Place
  PROVE  /\ superPartitions \in Nat \ {0} /\ Supers \subseteq Nat /\ 0 \in Supers
         /\ superp \in Supers /\ i \in Supers /\ superp + 1 # 0
         /\ superPartitions = 1 => Supers = {0} /\ superp = 0 /\ i = 0
<1>1. superPartitions \in Nat \ {0} /\ superp \in Supers /\ i \in Supers
  BY Basics DEF Place
<1>2. QED
  BY <1>1 DEF Supers

\* A part of a buffer is a sequence of items.
LEMMA SubstreamIn ==
  ASSUME NEW data \in Seq(Items), NEW s \in Nat
  PROVE  Substream(data, s) \in Seq(Items)
<1> DEFINE B(n) == {k \in DOMAIN data : data[k][1] < n}
<1>1. Len(data) \in Nat /\ DOMAIN data = 1..Len(data) /\ \A k \in 1..Len(data) : data[k] \in Items
  BY LenProperties, ElementOfSeq
<1>2. \A k \in 1..Len(data) : data[k][1] \in Nat
  BY <1>1, Basics DEF Items
<1>3. IsFiniteSet(1..Len(data)) /\ Cardinality(1..Len(data)) = Len(data)
  <2>1. IsFiniteSet(1..Len(data))
    BY <1>1, FS_Interval
  <2>2. \A n \in Nat : Cardinality(1..n) = n
    BY FS_Interval
  <2>3. QED
    BY <1>1, <2>1, <2>2
<1>4. B(s) \subseteq B(s + 1) /\ B(s + 1) \subseteq 1..Len(data)
  BY <1>1, <1>2
<1>5. IsFiniteSet(B(s + 1))
  BY <1>3, <1>4, FS_Subset
<1>6. /\ Cardinality(B(s)) \in Nat /\ Cardinality(B(s + 1)) \in Nat
      /\ Cardinality(B(s)) <= Cardinality(B(s + 1)) /\ Cardinality(B(s + 1)) <= Len(data)
  <2>1. IsFiniteSet(B(s))
    BY <1>4, <1>5, FS_Subset
  <2>2. Cardinality(B(s)) <= Cardinality(B(s + 1))
    BY <1>4, <1>5, FS_Subset
  <2>3. Cardinality(B(s + 1)) <= Cardinality(1..Len(data))
    BY <1>3, <1>4, FS_Subset
  <2>4. QED
    BY <1>3, <1>5, <2>1, <2>2, <2>3, FS_CardinalityType
<1>7. PICK x, y : x = Cardinality(B(s)) /\ y = Cardinality(B(s + 1))
  OBVIOUS
<1>8. Substream(data, s) = SubSeq(data, x + 1, y)
  BY <1>7 DEF Substream
<1>9. x + 1 \in 1..Len(data) + 1 /\ y \in (x + 1) - 1..Len(data)
  BY <1>1, <1>6, <1>7
<1>10. QED
  BY <1>8, <1>9, SubSeqProperties

\* Sequences that follow one another.
LEMMA Joins ==
  ASSUME NEW s \in Seq(Items), NEW t \in Seq(Items)
  PROVE  /\ Join(s, t) \in Seq(Items) /\ Len(Join(s, t)) = Len(s) + Len(t)
         /\ Join(s, <<>>) = s /\ Join(<<>>, s) = s
         /\ <<>> \in Seq(Items) /\ Len(s) \in Nat
BY ConcatProperties, ConcatEmptySeq DEF Join

\* Sequences can be put together in any order of the steps.
LEMMA JoinAssociative ==
  ASSUME NEW s \in Seq(Items), NEW t \in Seq(Items), NEW u \in Seq(Items)
  PROVE  Join(Join(s, t), u) = Join(s, Join(t, u))
BY ConcatAssociative DEF Join

\* What was given to the stream stays where it is.
LEMMA SentKept ==
  ASSUME NEW D, SentInv(D), Place,
         UNCHANGED <<kind, superPartitions, sent>>,
         \A s \in Supers : Unwritten(s)' = Unwritten(s),
         batch' # NULL /\ pc' # "spillBatch" =>
           batch # NULL /\ pc # "spillBatch" /\ content'[batch'] = content[batch],
         kind = "ingested" /\ cache' = NULL /\ (request' # NULL \/ disk'[0].bytes > 0) =>
           cache = NULL /\ (request # NULL \/ disk[0].bytes > 0),
         pc' = "spillBatch" => /\ pc = "spillBatch" /\ content'[cache'] = content[cache]
                               /\ uptodate'[request'] = uptodate[request] /\ disk'[0].bytes = disk[0].bytes
  PROVE  SentInv(D)'
<1>1. Supers' = Supers
  BY DEF Supers
<1>2. kind = "ingested" => 0 \in Supers /\ Unwritten(0)' = Unwritten(0)
  BY FirstSuper
<1>3. (sent \in [Supers -> Seq(Items)] /\ \A s \in Supers : Len(sent[s]) <= MaxItems)'
  BY <1>1 DEF SentInv
<1>4. (kind # "ingested" => \A s \in Supers : sent[s] = Join(D[s], Unwritten(s)))'
  BY <1>1 DEF SentInv
<1>5. ASSUME kind = "ingested"
      PROVE  LET all == Join(D[0], Unwritten(0))'
             IN /\ IsInjective(all) /\ ToSet(all) = ToSet(sent'[0])
                /\ Numbered(sent'[0], 0)
                /\ batch' # NULL /\ pc' # "spillBatch" =>
                     /\ Numbered(content'[batch'], Len(sent'[0]))
                     /\ Len(sent'[0]) + Len(content'[batch']) <= MaxItems
                /\ cache' = NULL /\ (request' # NULL \/ disk'[0].bytes > 0) => Len(all) > BufferSize
                /\ pc' = "spillBatch" =>
                     /\ Len(content'[cache']) = BufferSize
                     /\ disk'[0].bytes = IF uptodate'[request'] THEN BufferSize ELSE 0
  <2>1. PICK all : all = Join(D[0], Unwritten(0)) /\ all = Join(D[0], Unwritten(0))'
    BY <1>2, <1>5
  <2>2. sent' = sent
    OBVIOUS
  <2>3. IsInjective(all) /\ ToSet(all) = ToSet(sent[0]) /\ Numbered(sent[0], 0)
    BY <1>5, <2>1 DEF SentInv
  <2>4. ASSUME batch' # NULL /\ pc' # "spillBatch"
        PROVE  /\ Numbered(content'[batch'], Len(sent'[0]))
               /\ Len(sent'[0]) + Len(content'[batch']) <= MaxItems
    <3>1. /\ Numbered(content[batch], Len(sent[0]))
          /\ Len(sent[0]) + Len(content[batch]) <= MaxItems
      BY <1>5, <2>4 DEF SentInv
    <3>2. content'[batch'] = content[batch]
      BY <2>4
    <3>3. QED
      BY <2>2, <3>1, <3>2
  <2>5. cache' = NULL /\ (request' # NULL \/ disk'[0].bytes > 0) => Len(all) > BufferSize
    BY <1>5, <2>1 DEF SentInv
  <2>6. pc' = "spillBatch" => /\ Len(content'[cache']) = BufferSize
                              /\ disk'[0].bytes = IF uptodate'[request'] THEN BufferSize ELSE 0
    BY <1>5 DEF SentInv
  <2>7. QED
    BY <2>1, <2>2, <2>3, <2>4, <2>5, <2>6
<1>6. QED
  BY <1>3, <1>4, <1>5 DEF SentInv

\* Whether there is data on disk depends on the files alone.
LEMMA EmptyKept ==
  ASSUME UNCHANGED <<disk, superPartitions>>
  PROVE  DiskEmpty' <=> DiskEmpty
BY DEF DiskEmpty, Supers

\* The vertices stay where they are.
LEMMA VerticesKept ==
  ASSUME VertexInv, UNCHANGED <<superPartitions, disk, sent, got, content, cycle, superp>>,
         Work' <=> Work,
         pc' = pc \/ (~Work /\ pc' \notin {"store", "storing", "prepare", "work"})
  PROVE  VertexInv'
<1>1. Supers' = Supers
  BY DEF Supers
<1>2. (disk \in [Supers -> Disks] /\ {sent, got} \subseteq [Supers -> Seq(Items)])'
  BY <1>1 DEF VertexInv
<1>3. ASSUME NEW s \in Supers
      PROVE  /\ disk'[s].pos = 0 /\ disk'[s].bytes = 0 /\ got'[s] = <<>>
             /\ sent'[s] = <<>> \/ \E c \in 0..Cycles : sent'[s] = << <<s, c, 1>> >>
             /\ Len(disk'[s].file) <= 1
             /\ ~(pc' = "storing" /\ s = superp' /\ Work') => disk'[s].file = sent'[s]
             /\ cycle' > 0 \/ s < superp' => sent'[s] # <<>>
  <2>1. /\ disk[s].pos = 0 /\ disk[s].bytes = 0 /\ got[s] = <<>>
        /\ sent[s] = <<>> \/ \E c \in 0..Cycles : sent[s] = << <<s, c, 1>> >>
        /\ Len(disk[s].file) <= 1
        /\ ~(pc = "storing" /\ s = superp /\ Work) => disk[s].file = sent[s]
        /\ cycle > 0 \/ s < superp => sent[s] # <<>>
    BY DEF VertexInv
  <2>2. disk' = disk /\ sent' = sent /\ got' = got /\ cycle' = cycle /\ superp' = superp
    OBVIOUS
  <2>3. pc = "storing" /\ s = superp /\ Work => pc' = "storing" /\ s = superp' /\ Work'
    OBVIOUS
  <2>4. QED
    BY <2>1, <2>2, <2>3
<1>4. QED
  BY <1>1, <1>2, <1>3 DEF VertexInv

\* What is on its way to the files are sequences of items.
LEMMA UnwrittenIn ==
  ASSUME Place, Fields, HolderInv, content \in [Buffers -> Seq(Items)]
  PROVE  /\ Cached \in Seq(Items)
         /\ \A s \in Supers : ToWrite(s) \in Seq(Items) /\ ToAppend(s) \in Seq(Items)
<1>1. <<>> \in Seq(Items)
  OBVIOUS
<1>2. request \in Buffers \cup {NULL} /\ cache \in Buffers \cup {NULL} /\ buf \in Buffers \cup {NULL}
      /\ batch \in Buffers \cup {NULL} /\ Supers \subseteq Nat
  BY FirstSuper, Basics DEF Fields, Holders
<1>3. Cached \in Seq(Items)
  BY <1>1, <1>2 DEF Cached
<1>4. ASSUME NEW s \in Supers
      PROVE  ToWrite(s) \in Seq(Items) /\ ToAppend(s) \in Seq(Items)
  <2>1. \A b \in Buffers : Substream(content[b], s) \in Seq(Items)
    BY <1>2, SubstreamIn
  <2>2. ToWrite(s) \in Seq(Items)
    BY <1>1, <1>2, <2>1 DEF ToWrite
  <2>3. (pc \in {"append", "spill"} => buf \in Buffers) /\ (pc = "spillBatch" => batch \in Buffers)
    BY <1>2 DEF HolderInv
  <2>4. ToAppend(s) \in Seq(Items)
    BY <1>1, <2>1, <2>3 DEF ToAppend
  <2>5. QED
    BY <2>2, <2>4
<1>5. QED
  BY <1>3, <1>4

\* The buffer that Fill fills has, one behind the other, the parts for the super partitions.
LEMMA FillDoes ==
  ASSUME Place, \A s \in Supers : sent[s] \in Seq(Items), Fill, cycle \in 0..Cycles
  PROVE  \E data \in Seq(Items), part \in [Supers -> Seq(Items)] :
            /\ content' = [content EXCEPT ![Min(FreeBuffers)] = data]
            /\ sent' = [s \in Supers |-> sent[s] \o part[s]]
            /\ data # <<>> /\ Len(data) <= BufferSize /\ (superPartitions = 1 => OfFirst(data))
            /\ \A s \in Supers : Substream(data, s) = part[s] /\ Len(sent[s]) + Len(part[s]) <= MaxItems
<1>1. /\ superPartitions \in Nat \ {0} /\ superPartitions \in SuperPartitionCounts /\ Supers = 0..superPartitions - 1
      /\ MaxItems \in Nat /\ BufferSize \in Nat
  BY FirstSuper, Basics DEF Supers, Place
<1> DEFINE size(cut, s) == cut[s + 1] - cut[s]
           item(s, k) == <<s, cycle, Len(sent[s]) + k>>
           home(cut, k) == CHOOSE s \in Supers : cut[s] < k /\ k <= cut[s + 1]
           data(cut) == [k \in 1..cut[superPartitions] |-> item(home(cut, k), k - cut[home(cut, k)])]
           part(cut, s) == [k \in 1..size(cut, s) |-> item(s, k)]
<1>2. PICK cut \in [0..superPartitions -> 0..BufferSize] :
         /\ cut[0] = 0 /\ cut[superPartitions] > 0
         /\ \A s, t \in 0..superPartitions : s <= t => cut[s] <= cut[t]
         /\ \A s \in Supers : Len(sent[s]) + size(cut, s) <= MaxItems \div superPartitions
         /\ sent' = [s \in Supers |-> sent[s] \o part(cut, s)]
         /\ content' = [content EXCEPT ![Min(FreeBuffers)] = data(cut)]
  BY DEF Fill
<1>3. PICK most \in Nat : most = MaxItems \div superPartitions /\ most <= MaxItems
  BY <1>1, QuotientIsLess
<1>4. ASSUME NEW s \in Supers PROVE Len(sent[s]) \in Nat /\ Len(sent[s]) + (cut[s + 1] - cut[s]) <= MaxItems
  <2>1. Len(sent[s]) + (cut[s + 1] - cut[s]) <= most
    BY <1>2, <1>3
  <2>2. Len(sent[s]) \in Nat
    OBVIOUS
  <2>3. s \in 0..superPartitions /\ s + 1 \in 0..superPartitions
    BY <1>1
  <2>4. cut[s] \in Nat /\ cut[s + 1] \in Nat
    BY <1>1, <2>3
  <2>5. most <= MaxItems
    BY <1>3
  <2>6. MaxItems \in Nat
    BY <1>1
  <2>7. Len(sent[s]) + (cut[s + 1] - cut[s]) <= most
    BY <2>1
  <2> HIDE DEF size, item, home, data, part
  <2>8. QED
    BY <2>2, <2>4, <2>5, <2>6, <2>7
<1>5. /\ data(cut) \in Seq(Items) /\ Len(data(cut)) = cut[superPartitions]
      /\ superPartitions = 1 => OfFirst(data(cut))
      /\ \A s \in Supers : /\ size(cut, s) \in Nat /\ part(cut, s) \in Seq(Items)
                           /\ Len(part(cut, s)) = size(cut, s) /\ Substream(data(cut), s) = part(cut, s)
  BY <1>1, <1>2, <1>4, FilledParts
<1> HIDE DEF size, item, home, data, part
<1>6. PICK d, p : d = data(cut) /\ p = [s \in Supers |-> part(cut, s)]
  OBVIOUS
<1>7. d \in Seq(Items) /\ p \in [Supers -> Seq(Items)]
  BY <1>5, <1>6
<1>8. content' = [content EXCEPT ![Min(FreeBuffers)] = d]
  BY <1>2, <1>6
<1>9. sent' = [s \in Supers |-> sent[s] \o p[s]]
  BY <1>2, <1>6
<1>10. d # <<>> /\ Len(d) <= BufferSize
  <2>1. Len(d) = cut[superPartitions] /\ cut[superPartitions] \in 0..BufferSize /\ cut[superPartitions] > 0
    BY <1>1, <1>2, <1>5, <1>6
  <2>2. QED
    BY <1>1, <1>7, <2>1, EmptySeq
<1>11. superPartitions = 1 => OfFirst(d)
  BY <1>5, <1>6
<1>12. \A s \in Supers : Substream(d, s) = p[s] /\ Len(sent[s]) + Len(p[s]) <= MaxItems
  BY <1>4, <1>5, <1>6 DEF size
<1>13. QED
  BY <1>7, <1>8, <1>9, <1>10, <1>11, <1>12

\* A sequence of parts is extended by extending its last part.
LEMMA LastPart ==
  ASSUME NEW a \in Seq(Items), NEW b \in Seq(Items), NEW c \in Seq(Items), NEW e \in Seq(Items)
  PROVE  Join(Join(a, Join(b, c)), e) = Join(a, Join(b, Join(c, e)))
<1>1. Join(b, c) \in Seq(Items)
  BY Joins
<1>2. Join(Join(a, Join(b, c)), e) = Join(a, Join(Join(b, c), e))
  BY <1>1, JoinAssociative
<1>3. Join(Join(b, c), e) = Join(b, Join(c, e))
  BY JoinAssociative
<1>4. QED
  BY <1>2, <1>3

\* Nothing of a sequence.
LEMMA NothingOf ==
  ASSUME NEW D \in Seq(Items)
  PROVE  SubSeq(D, 1, 0) = <<>>
<1>1. SubSeq(D, 0 + 1, 0) \in Seq(Items) /\ Len(SubSeq(D, 0 + 1, 0)) = 0 - 0
  <2>1. Len(D) \in Nat
    OBVIOUS
  <2>2. QED
    BY <2>1, SubSeqIs
<1>2. QED
  BY <1>1, EmptySeq

\* Only the empty sequence has no items.
LEMMA JoinEmpty ==
  ASSUME NEW s \in Seq(Items), NEW t \in Seq(Items), Join(s, t) = <<>>
  PROVE  s = <<>> /\ t = <<>>
<1>1. Len(s) + Len(t) = Len(<<>>) /\ Len(s) \in Nat /\ Len(t) \in Nat
  BY Joins
<1>2. Len(s) = 0 /\ Len(t) = 0
  BY <1>1
<1>3. QED
  BY <1>2, EmptySeq

\* What a scan is about to get are items.
LEMMA ToGetIn ==
  ASSUME Fields, HolderInv, content \in [Buffers -> Seq(Items)]
  PROVE  ToGet \in Seq(Items)
<1>1. <<>> \in Seq(Items)
  OBVIOUS
<1>2. (request # NULL => request \in Buffers) /\ (pc = "consume" => buf \in Buffers)
  BY Basics DEF Fields, Holders, HolderInv
<1>3. QED
  BY <1>1, <1>2, Joins DEF ToGet

\* The batch that Ingest takes are the next numbers.
LEMMA IngestDoes ==
  ASSUME Place, kind = "ingested", sent[0] \in Seq(Items), Len(sent[0]) <= MaxItems, Ingest
  PROVE  \E data \in Seq(Items) :
            /\ content' = [content EXCEPT ![Min(FreeBuffers)] = data]
            /\ data # <<>> /\ Len(data) <= BufferSize /\ OfFirst(data)
            /\ Numbered(data, Len(sent[0]))
            /\ Len(sent[0]) + Len(data) <= MaxItems
<1>1. BufferSize \in Nat /\ MaxItems \in Nat /\ Cycles \in Nat /\ Len(sent[0]) \in Nat
      /\ superPartitions \in Nat \ {0} /\ superPartitions \in SuperPartitionCounts
  BY FirstSuper, Basics DEF Place
<1>2. PICK len \in Nat : len = Len(sent[0])
  BY <1>1
<1>3. PICK n \in 1..Min({BufferSize, MaxItems - len}) :
         content' = [content EXCEPT ![Min(FreeBuffers)] = [k \in 1..n |-> <<0, 0, len + k>>]]
  BY <1>2 DEF Ingest
<1>4. n \in Nat \ {0} /\ n <= BufferSize /\ len + n <= MaxItems
  <2>1. MaxItems - len \in Nat
    BY <1>1, <1>2
  <2>2. Min({BufferSize, MaxItems - len}) = IF BufferSize <= MaxItems - len THEN BufferSize ELSE MaxItems - len
    BY <1>1, <2>1, OfTwo
  <2>3. QED
    BY <1>1, <2>1, <2>2
<1>5. PICK data : data = [k \in 1..n |-> <<0, 0, len + k>>]
  OBVIOUS
<1>6. \A k \in 1..n : <<0, 0, len + k>> \in Items
  <2>1. 0 \in UNION {0..m : m \in SuperPartitionCounts} /\ 0 \in 0..Cycles
    BY <1>1
  <2>2. \A k \in 1..n : len + k \in 1..MaxItems
    BY <1>1, <1>4
  <2>3. QED
    BY <2>1, <2>2 DEF Items
<1>7. data \in [1..n -> Items]
  BY <1>5, <1>6
<1>8. data \in Seq(Items) /\ Len(data) = n
  BY <1>4, <1>7, SequenceOf
<1>9. data # <<>>
  BY <1>4, <1>8
<1>10. OfFirst(data)
  BY <1>5, <1>8 DEF OfFirst
<1>11. Numbered(data, Len(sent[0]))
  BY <1>2, <1>5, <1>8 DEF Numbered
<1>12. QED
  BY <1>2, <1>3, <1>4, <1>5, <1>8, <1>9, <1>10, <1>11

\* The items of two sequences that follow one another.
LEMMA JoinItems ==
  ASSUME NEW s \in Seq(Items), NEW t \in Seq(Items)
  PROVE  \A k \in 1..Len(s) + Len(t) : Join(s, t)[k] = IF k <= Len(s) THEN s[k] ELSE t[k - Len(s)]
BY ConcatProperties DEF Join

\* When the numbers that come next are put behind what is there, in two parts of
\* any order, every number is there once.
LEMMA MergedOnce ==
  ASSUME NEW all \in Seq(Items), NEW given \in Seq(Items), NEW data \in Seq(Items), NEW cut \in 0..Len(data),
         IsInjective(all), ToSet(all) = ToSet(given),
         Numbered(given, 0), Numbered(data, Len(given)),
         NEW x, x = Join(Join(all, SubSeq(data, cut + 1, Len(data))), SubSeq(data, 1, cut)),
         NEW y, y = Join(given, data)
  PROVE  /\ x \in Seq(Items) /\ IsInjective(x) /\ ToSet(x) = ToSet(y) /\ Len(x) = Len(all) + Len(data)
         /\ Numbered(y, 0)
<1>1. PICK p \in Nat, m \in Nat, n \in Nat : p = Len(all) /\ m = Len(given) /\ n = Len(data)
  OBVIOUS
<1>2. cut \in Nat /\ cut <= n
  BY <1>1
<1>3. PICK last, first : last = SubSeq(data, cut + 1, n) /\ first = SubSeq(data, 1, cut)
  OBVIOUS
<1>4. last \in Seq(Items) /\ Len(last) = n - cut /\ \A k \in 1..n - cut : last[k] = data[cut + k]
  <2>1. cut <= n /\ n <= Len(data)
    BY <1>1, <1>2
  <2>2. SubSeq(data, cut + 1, n) \in Seq(Items) /\ Len(SubSeq(data, cut + 1, n)) = n - cut
        /\ \A k \in 1..n - cut : SubSeq(data, cut + 1, n)[k] = data[cut + k]
    BY <1>1, <1>2, <2>1, SubSeqIs
  <2>3. QED
    BY <1>3, <2>2
<1>5. first \in Seq(Items) /\ Len(first) = cut /\ \A k \in 1..cut : first[k] = data[k]
  <2>1. first = SubSeq(data, 0 + 1, cut)
    BY <1>3
  <2>2. SubSeq(data, 0 + 1, cut) \in Seq(Items) /\ Len(SubSeq(data, 0 + 1, cut)) = cut - 0
        /\ \A k \in 1..cut - 0 : SubSeq(data, 0 + 1, cut)[k] = data[0 + k]
    BY <1>1, <1>2, SubSeqIs
  <2>3. QED
    BY <1>2, <2>1, <2>2
<1>6. PICK w : w = Join(all, last)
  OBVIOUS
<1>7. w \in Seq(Items) /\ Len(w) = p + (n - cut)
      /\ \A k \in 1..p + (n - cut) : w[k] = IF k <= p THEN all[k] ELSE last[k - p]
  <2>1. \A k \in 1..Len(all) + Len(last) : Join(all, last)[k] = IF k <= Len(all) THEN all[k] ELSE last[k - Len(all)]
    BY <1>4, JoinItems
  <2>2. Join(all, last) \in Seq(Items) /\ Len(Join(all, last)) = Len(all) + Len(last)
    BY <1>4, Joins
  <2>3. QED
    BY <1>1, <1>4, <1>6, <2>1, <2>2
<1>8. x = Join(w, first)
  BY <1>1, <1>3, <1>6
<1>9. x \in Seq(Items) /\ Len(x) = p + n /\ DOMAIN x = 1..p + n
      /\ \A k \in 1..p + n : x[k] = IF k <= p + (n - cut) THEN w[k] ELSE first[k - (p + (n - cut))]
  <2>1. x \in Seq(Items) /\ Len(x) = (p + (n - cut)) + cut
        /\ \A k \in 1..(p + (n - cut)) + cut : x[k] = IF k <= p + (n - cut) THEN w[k] ELSE first[k - (p + (n - cut))]
    <3>1. \A k \in 1..Len(w) + Len(first) : Join(w, first)[k] = IF k <= Len(w) THEN w[k] ELSE first[k - Len(w)]
      BY <1>5, <1>7, JoinItems
    <3>2. Join(w, first) \in Seq(Items) /\ Len(Join(w, first)) = Len(w) + Len(first)
      BY <1>5, <1>7, Joins
    <3>3. Len(w) = p + (n - cut) /\ Len(first) = cut
      BY <1>5, <1>7
    <3>4. QED
      BY <1>8, <3>1, <3>2, <3>3
  <2>2. (p + (n - cut)) + cut = p + n
    BY <1>1, <1>2
  <2>3. QED
    BY <2>1, <2>2
<1>10. ASSUME NEW k \in 1..n PROVE data[k] = <<0, 0, m + k>>
  BY <1>1 DEF Numbered
<1>11. ASSUME NEW k \in 1..m PROVE given[k] = <<0, 0, k>>
  BY <1>1 DEF Numbered
<1>12. ASSUME NEW k \in 1..p PROVE x[k] = all[k] /\ \E j \in 1..m : all[k] = <<0, 0, j>>
  <2>1. x[k] = all[k]
    <3>1. k \in 1..p + n /\ k <= p + (n - cut) /\ k \in 1..p + (n - cut) /\ k <= p
      BY <1>1, <1>2
    <3>2. x[k] = w[k]
      BY <1>9, <3>1
    <3>3. w[k] = all[k]
      BY <1>7, <3>1
    <3>4. QED
      BY <3>2, <3>3
  <2>2. all[k] \in ToSet(all)
    <3>1. k \in DOMAIN all
      BY <1>1
    <3>2. QED
      BY <3>1 DEF ToSet
  <2>3. PICK j \in 1..m : all[k] = given[j]
    <3>1. all[k] \in ToSet(given) /\ DOMAIN given = 1..m
      BY <1>1, <2>2
    <3>2. QED
      BY <3>1 DEF ToSet
  <2>4. QED
    BY <1>11, <2>1, <2>3
<1> DEFINE g(k) == IF k <= p + (n - cut) THEN cut + (k - p) ELSE k - (p + (n - cut))
<1>13. ASSUME NEW k \in p + 1..p + n PROVE g(k) \in 1..n /\ x[k] = <<0, 0, m + g(k)>>
  <2>1. CASE k <= p + (n - cut)
    <3>1. k \in 1..p + n /\ k \in 1..p + (n - cut) /\ ~(k <= p) /\ k - p \in 1..n - cut /\ cut + (k - p) \in 1..n
      BY <1>1, <1>2, <2>1
    <3>2. x[k] = last[k - p]
      BY <1>7, <1>9, <2>1, <3>1
    <3>3. last[k - p] = data[cut + (k - p)]
      BY <1>4, <3>1
    <3>4. QED
      BY <1>10, <2>1, <3>1, <3>2, <3>3
  <2>2. CASE ~(k <= p + (n - cut))
    <3>1. k \in 1..p + n /\ k - (p + (n - cut)) \in 1..cut /\ k - (p + (n - cut)) \in 1..n
      BY <1>1, <1>2, <2>2
    <3>2. x[k] = first[k - (p + (n - cut))]
      BY <1>9, <2>2, <3>1
    <3>3. first[k - (p + (n - cut))] = data[k - (p + (n - cut))]
      BY <1>5, <3>1
    <3>4. QED
      BY <1>10, <2>2, <3>1, <3>2, <3>3
  <2>3. QED
    BY <2>1, <2>2
<1>14. ASSUME NEW a \in p + 1..p + n, NEW b \in p + 1..p + n, g(a) = g(b) PROVE a = b
  BY <1>1, <1>2, <1>14
<1>15. ASSUME NEW j \in 1..n PROVE \E k \in p + 1..p + n : g(k) = j
  <2>1. CASE j > cut
    <3>1. p + (j - cut) \in p + 1..p + n /\ g(p + (j - cut)) = j
      BY <1>1, <1>2, <2>1
    <3>2. QED
      BY <3>1
  <2>2. CASE ~(j > cut)
    <3>1. p + (n - cut) + j \in p + 1..p + n /\ g(p + (n - cut) + j) = j
      BY <1>1, <1>2, <2>2
    <3>2. QED
      BY <3>1
  <2>3. QED
    BY <2>1, <2>2
<1> HIDE DEF g
<1>16. IsInjective(x)
  <2>1. SUFFICES ASSUME NEW a \in 1..p + n, NEW b \in 1..p + n, x[a] = x[b] PROVE a = b
    BY <1>9 DEF IsInjective
  <2>2. (a \in 1..p \/ a \in p + 1..p + n) /\ (b \in 1..p \/ b \in p + 1..p + n)
    BY <1>1
  <2>3. CASE a \in 1..p /\ b \in 1..p
    <3>1. all[a] = all[b]
      BY <1>12, <2>1, <2>3
    <3>2. QED
      BY <1>1, <2>3, <3>1 DEF IsInjective
  <2>4. CASE a \in 1..p /\ b \in p + 1..p + n
    <3>1. PICK j \in 1..m : x[a] = <<0, 0, j>>
      BY <1>12, <2>4
    <3>2. x[b] = <<0, 0, m + g(b)>> /\ g(b) \in 1..n
      BY <1>13, <2>4
    <3>3. j = m + g(b)
      BY <2>1, <3>1, <3>2
    <3>4. QED
      BY <1>1, <3>1, <3>2, <3>3
  <2>5. CASE b \in 1..p /\ a \in p + 1..p + n
    <3>1. PICK j \in 1..m : x[b] = <<0, 0, j>>
      BY <1>12, <2>5
    <3>2. x[a] = <<0, 0, m + g(a)>> /\ g(a) \in 1..n
      BY <1>13, <2>5
    <3>3. j = m + g(a)
      BY <2>1, <3>1, <3>2
    <3>4. QED
      BY <1>1, <3>1, <3>2, <3>3
  <2>6. CASE a \in p + 1..p + n /\ b \in p + 1..p + n
    <3>1. x[a] = <<0, 0, m + g(a)>> /\ g(a) \in 1..n /\ x[b] = <<0, 0, m + g(b)>> /\ g(b) \in 1..n
      BY <1>13, <2>6
    <3>2. m + g(a) = m + g(b)
      BY <2>1, <3>1
    <3>3. g(a) = g(b)
      BY <1>1, <3>1, <3>2
    <3>4. QED
      BY <1>14, <2>6, <3>3
  <2>7. QED
    BY <2>2, <2>3, <2>4, <2>5, <2>6
<1>17. y \in Seq(Items) /\ Len(y) = m + n /\ DOMAIN y = 1..m + n
       /\ \A k \in 1..m + n : y[k] = <<0, 0, k>>
  <2>1. y \in Seq(Items) /\ Len(y) = m + n
        /\ \A k \in 1..m + n : y[k] = IF k <= m THEN given[k] ELSE data[k - m]
    BY <1>1, Joins, JoinItems
  <2>2. ASSUME NEW k \in 1..m + n PROVE y[k] = <<0, 0, k>>
    <3>1. CASE k <= m
      <4>1. k \in 1..m
        BY <1>1, <3>1
      <4>2. QED
        BY <1>11, <2>1, <3>1, <4>1
    <3>2. CASE ~(k <= m)
      <4>1. k - m \in 1..n /\ m + (k - m) = k
        BY <1>1, <3>2
      <4>2. y[k] = data[k - m]
        BY <2>1, <3>2
      <4>3. QED
        BY <1>10, <4>1, <4>2
    <3>3. QED
      BY <3>1, <3>2
  <2>3. QED
    BY <2>1, <2>2
<1>18. Numbered(y, 0)
  <2>1. y = [k \in 1..m + n |-> y[k]]
    BY <1>17
  <2>2. QED
    BY <1>17, <2>1 DEF Numbered
<1>19. ToSet(x) = {x[k] : k \in 1..p + n} /\ ToSet(y) = {y[k] : k \in 1..m + n}
  BY <1>9, <1>17 DEF ToSet
<1>20. ToSet(all) = {all[k] : k \in 1..p} /\ ToSet(given) = {given[k] : k \in 1..m}
  BY SMTT(40), <1>1 DEF ToSet
<1>21. ToSet(x) \subseteq ToSet(y)
  <2>1. SUFFICES ASSUME NEW k \in 1..p + n PROVE \E j \in 1..m + n : x[k] = y[j]
    BY <1>19
  <2>2. CASE k \in 1..p
    <3>1. PICK j \in 1..m : x[k] = <<0, 0, j>>
      BY <1>12, <2>2
    <3>2. j \in 1..m + n
      BY <1>1
    <3>3. QED
      BY <1>17, <3>1, <3>2
  <2>3. CASE k \in p + 1..p + n
    <3>1. x[k] = <<0, 0, m + g(k)>> /\ g(k) \in 1..n
      BY <1>13, <2>3
    <3>2. m + g(k) \in 1..m + n
      BY <1>1, <3>1
    <3>3. QED
      BY <1>17, <3>1, <3>2
  <2>4. QED
    BY <1>1, <2>2, <2>3
<1>22. ToSet(y) \subseteq ToSet(x)
  <2>1. SUFFICES ASSUME NEW j \in 1..m + n PROVE \E k \in 1..p + n : x[k] = <<0, 0, j>>
    BY <1>17, <1>19
  <2>2. CASE j <= m
    <3>1. j \in 1..m
      BY <1>1, <2>2
    <3>2. given[j] \in ToSet(all)
      BY <1>20, <3>1
    <3>3. PICK k \in 1..p : all[k] = given[j]
      BY <1>20, <3>2
    <3>4. k \in 1..p + n
      BY <1>1
    <3>5. QED
      BY <1>11, <1>12, <3>1, <3>3, <3>4
  <2>3. CASE ~(j <= m)
    <3>1. j - m \in 1..n /\ m + (j - m) = j
      BY <1>1, <2>3
    <3>2. PICK k \in p + 1..p + n : g(k) = j - m
      BY <1>15, <3>1
    <3>3. k \in 1..p + n
      BY <1>1
    <3>4. QED
      BY <1>13, <3>1, <3>2, <3>3
  <2>4. QED
    BY <2>2, <2>3
<1>23. ToSet(x) = ToSet(y)
  BY <1>21, <1>22
<1>24. QED
  BY <1>1, <1>9, <1>16, <1>18, <1>23

\* The same when they are put there as a whole.
LEMMA MergedWhole ==
  ASSUME NEW all \in Seq(Items), NEW given \in Seq(Items), NEW data \in Seq(Items),
         IsInjective(all), ToSet(all) = ToSet(given),
         Numbered(given, 0), Numbered(data, Len(given)),
         NEW x, x = Join(all, data), NEW y, y = Join(given, data)
  PROVE  /\ x \in Seq(Items) /\ IsInjective(x) /\ ToSet(x) = ToSet(y) /\ Len(x) = Len(all) + Len(data)
         /\ Numbered(y, 0) /\ y \in Seq(Items) /\ Len(y) = Len(given) + Len(data)
<1>1. 0 \in 0..Len(data)
  OBVIOUS
<1>2. SubSeq(data, 0 + 1, Len(data)) = data
  BY SubSeqFull
<1>3. SubSeq(data, 1, 0) = <<>>
  BY NothingOf
<1>4. Join(all, data) \in Seq(Items) /\ Join(Join(all, data), <<>>) = Join(all, data)
  BY Joins
<1>5. x = Join(Join(all, SubSeq(data, 0 + 1, Len(data))), SubSeq(data, 1, 0))
  BY <1>2, <1>3, <1>4
<1>6. /\ x \in Seq(Items) /\ IsInjective(x) /\ ToSet(x) = ToSet(y) /\ Len(x) = Len(all) + Len(data)
      /\ Numbered(y, 0)
  BY <1>1, <1>5, MergedOnce
<1>7. y \in Seq(Items) /\ Len(y) = Len(given) + Len(data)
  BY Joins
<1>8. QED
  BY <1>6, <1>7

-----------------------------------------------------------------------------
(* The steps of the main thread: append, rewind and reset *)

\* The workers fill an output buffer and make_index sorts it.  Its effect on
\* the control.
LEMMA FillThreads ==
  ASSUME IInv, Fill
  PROVE  Threads'
<1>1. Threads
  BY DEF IInv
<1>2. PICK b : b = Min(FreeBuffers)
  OBVIOUS
<1>3. /\ b \in Pool /\ b # NULL /\ b # State /\ refcount[b] = 0
      /\ b \notin {request, cache, batch} /\ uptodate[b] /\ ~dirty[b]
  BY <1>1, <1>2, FreeBuffer DEF Threads, Fill
<1>4. /\ pc = "fill" /\ pc' = "append" /\ buf' = b
      /\ dirty' = [dirty EXCEPT ![b] = TRUE] /\ refcount' = [refcount EXCEPT ![b] = 1]
      /\ UNCHANGED <<use, cycle, superp, i, startPos, streamVars, disk, queue, io, uptodate, got, fatal>>
  BY <1>2 DEF Fill, At
<1>5. kind = "updates" /\ batch = NULL
  BY <1>1, <1>4 DEF Threads, Place, PcInv, Rewinds, Reading, HolderInv
<1>6. Place'
  BY <1>1, <1>4, <1>5 DEF Threads, Place, PcInv, Supers, use
<1>7. Fields'
  BY <1>1, <1>3, <1>4, Basics DEF Threads, Fields, Holders, Supers, streamVars, use
<1>8. RequestInv'
  BY <1>1, <1>4 DEF Threads, RequestInv, Work, WritePcs, streamVars, use
<1>9. HolderInv'
  BY <1>1, <1>3, <1>4, <1>5 DEF Threads, HolderInv, streamVars, use
<1>10. RefInv'
  <2>1. \A c \in Pool : refcount[c] = One(c \in {request, cache})
    BY <1>1, <1>4, <1>5, Basics DEF Threads, RefInv, One
  <2>2. \A c \in Pool : refcount'[c] = One(c \in {request, cache}) + One(c = b)
    <3>1. refcount' \in [Buffers -> Int] /\ refcount'[b] = 1 /\ \A c \in Pool : c # b => refcount'[c] = refcount[c]
      BY <1>1, <1>3, <1>4, TakesBuffer DEF Threads
    <3>2. \A c \in Pool : refcount[c] \in Int
      BY <2>1 DEF One
    <3>3. QED
      BY <1>3, <2>1, <3>1, <3>2 DEF One
  <2>3. request' = request /\ cache' = cache /\ batch' = NULL /\ buf' = b
    BY <1>4, <1>5 DEF use, streamVars
  <2>4. QED
    BY <1>4, <2>2, <2>3, Basics DEF RefInv, One
<1>11. DirtyInv'
  BY <1>1, <1>4, Basics DEF Threads, DirtyInv, Fields, DiskEmpty, streamVars, Supers, use
<1>12. AppendInv'
  BY <1>1, <1>4 DEF Threads, AppendInv, WritePcs, DiskEmpty, streamVars, Supers, use
<1>13. QED
  BY <1>6, <1>7, <1>8, <1>9, <1>10, <1>11, <1>12 DEF Threads

\* The same step: its effect on the buffers and files.
LEMMA FillData ==
  ASSUME IInv, Fill
  PROVE  ContentInv' /\ Data'
<1>1. Threads /\ ContentInv /\ Data
  BY DEF IInv
<1>2. Threads'
  BY FillThreads
<1>3. PICK b : b = Min(FreeBuffers)
  OBVIOUS
<1>4. /\ b \in Pool /\ b \in Buffers /\ b # NULL /\ b \notin {request, cache, batch}
  <2>1. FreeBuffers # {}
    BY DEF Fill
  <2>2. QED
    BY <1>1, <1>3, <2>1, FreeBuffer, Basics DEF Threads
<1>5. /\ pc = "fill" /\ pc' = "append" /\ buf' = b
      /\ UNCHANGED <<use, cycle, superp, i, startPos, streamVars, disk, queue, io, uptodate, got, fatal>>
  BY <1>3 DEF Fill, At
<1>6. kind = "updates" /\ batch = NULL /\ cycle \in 0..Cycles
  BY <1>1, <1>5, Basics DEF Threads, Place, PcInv, Rewinds, Reading, HolderInv
<1>7. PICK data \in Seq(Items), part \in [Supers -> Seq(Items)] :
         /\ content' = [content EXCEPT ![b] = data]
         /\ sent' = [s \in Supers |-> sent[s] \o part[s]]
         /\ data # <<>> /\ Len(data) <= BufferSize /\ (superPartitions = 1 => OfFirst(data))
         /\ \A s \in Supers : Substream(data, s) = part[s] /\ Len(sent[s]) + Len(part[s]) <= MaxItems
  <2>1. \A s \in Supers : sent[s] \in Seq(Items)
    BY Types
  <2>2. QED
    BY <1>1, <1>3, <1>6, <2>1, FillDoes DEF Threads
<1>8. /\ content' \in [Buffers -> Seq(Items)] /\ content'[b] = data
      /\ \A c \in Buffers : c # b => content'[c] = content[c]
  BY <1>4, <1>7, Types
<1>9. ContentInv'
  <2>1. \A c \in Buffers : Len(content'[c]) <= BufferSize /\ (superPartitions = 1 => OfFirst(content'[c]))
    BY <1>1, <1>7, <1>8 DEF ContentInv
  <2>2. (request # NULL => request \in Buffers) /\ (cache # NULL => cache \in Buffers)
    BY <1>1, Basics DEF Threads, Fields, Holders
  <2>3. QED
    BY <1>1, <1>5, <1>7, <1>8 DEF ContentInv, use, streamVars
<1>10. kind # "vertices" /\ kind' = kind
  BY <1>5, <1>6 DEF use
<1>11. PICK D : StreamData(D)
  BY <1>1, <1>10 DEF Data
<1>12. D \in [Supers -> Seq(Items)] /\ FileInv(D) /\ SentInv(D) /\ GotInv(D)
  BY <1>11 DEF StreamData
<1>13. (D \in [Supers -> Seq(Items)])'
  BY <1>12, <1>5 DEF Supers, use
<1>14. FileInv(D)'
  <2>1. UNCHANGED <<kind, superPartitions, disk, requestSuperp, request, writeOp, queue, io>>
    BY <1>5 DEF use, streamVars
  <2>2. QED
    BY <1>12, <1>5, <2>1 DEF FileInv, WritePcs, ScanPcs, Supers
<1>15. SentInv(D)'
  <2>1. UNCHANGED <<kind, superPartitions, request, writeOp, cache, uptodate, disk>> /\ Supers' = Supers
    BY <1>5 DEF use, streamVars, Supers
  <2>2. \A s \in Supers : ToWrite(s)' = ToWrite(s)
    <3>1. request # NULL => request \in Buffers /\ request # b
      BY <1>1, <1>4, Basics DEF Threads, Fields, Holders
    <3>2. QED
      BY <1>8, <2>1, <3>1 DEF ToWrite
  <2>3. Cached' = Cached
    <3>1. DiskEmpty' <=> DiskEmpty
      BY <2>1, EmptyKept
    <3>2. cache # NULL => cache \in Buffers /\ cache # b
      BY <1>1, <1>4, Basics DEF Threads, Fields, Holders
    <3>3. QED
      BY <1>8, <2>1, <3>1, <3>2 DEF Cached
  <2>4. \A s \in Supers : ToAppend(s) = <<>> /\ ToAppend(s)' = part[s]
    BY <1>5, <1>7, <1>8 DEF ToAppend
  <2>5. ASSUME NEW s \in Supers
        PROVE  /\ sent'[s] = Join(D[s], Unwritten(s)') /\ sent'[s] \in Seq(Items)
               /\ Len(sent'[s]) <= MaxItems
    <3>1. sent[s] = Join(D[s], Join(ToWrite(s), Join(Cached, <<>>))) /\ sent[s] \in Seq(Items)
      BY <1>12, <1>6, <2>4, Types DEF SentInv, Unwritten
    <3>2. sent'[s] = Join(sent[s], part[s]) /\ part[s] \in Seq(Items) /\ Len(sent[s]) + Len(part[s]) <= MaxItems
      BY <1>7 DEF Join
    <3>3. Unwritten(s)' = Join(ToWrite(s), Join(Cached, part[s]))
      BY <2>2, <2>3, <2>4 DEF Unwritten
    <3>4. D[s] \in Seq(Items) /\ ToWrite(s) \in Seq(Items) /\ Cached \in Seq(Items)
      BY <1>1, <1>12, UnwrittenIn, Types DEF Threads
    <3>5. Join(Cached, <<>>) = Cached
      BY <3>4, Joins
    <3>6. sent'[s] = Join(D[s], Unwritten(s)')
      BY <3>1, <3>2, <3>3, <3>4, <3>5, LastPart
    <3>7. sent'[s] \in Seq(Items) /\ Len(sent'[s]) = Len(sent[s]) + Len(part[s])
      BY <3>1, <3>2, Joins
    <3>8. QED
      BY <3>2, <3>6, <3>7
  <2>6. sent' \in [Supers -> Seq(Items)]
    <3>1. sent' = [s \in Supers |-> sent'[s]]
      BY <1>7
    <3>2. QED
      BY <2>5, <3>1
  <2>7. QED
    BY <1>6, <2>1, <2>5, <2>6 DEF SentInv
<1>16. GotInv(D)'
  <2>1. UNCHANGED <<superPartitions, disk, cache, got>> /\ Supers' = Supers
    BY <1>5 DEF use, streamVars, Supers
  <2>2. cache # NULL => content'[cache] = content[cache]
    BY <1>1, <1>4, <1>8, Basics DEF Threads, Fields, Holders
  <2>3. QED
    BY <1>12, <1>5, <2>1, <2>2 DEF GotInv, ScanPcs, DiskEmpty
<1>17. QED
  BY <1>9, <1>10, <1>13, <1>14, <1>15, <1>16 DEF Data, StreamData

\* Append: the first buffer of an empty stream is cached.  Its effect on the
\* control.
LEMMA AppendToCacheThreads ==
  ASSUME IInv, AppendToCache
  PROVE  Threads'
<1>1. Threads
  BY DEF IInv
<1>2. ~Work /\ queue = 0 /\ io # "busy" /\ \A b \in Buffers : uptodate[b]
  BY <1>1, NoWork DEF Threads, AppendToCache, At, Place, Fields
<1>3. request = NULL
  <2>1. superPartitions = 1 /\ disk[0].bytes = 0 /\ pc = "append" /\ kind # "vertices"
    <3>1. superPartitions = 1 /\ DiskEmpty /\ pc = "append"
      BY DEF AppendToCache, At, InMemory
    <3>2. disk[0].bytes = 0
      BY <3>1 DEF DiskEmpty, Supers
    <3>3. kind # "vertices"
      BY <1>1, <3>1 DEF Threads, Place
    <3>4. QED
      BY <3>1, <3>2, <3>3
  <2>2. SUFFICES ASSUME request # NULL PROVE FALSE
    OBVIOUS
  <2>3. request \in Buffers /\ uptodate[request]
    BY <1>1, <1>2, <2>2, Basics DEF Threads, Fields, Holders
  <2>4. writeOp
    BY <1>1, <2>1, <2>2 DEF Threads, RequestInv
  <2>5. QED
    BY <1>1, <2>1, <2>2, <2>3, <2>4 DEF Threads, AppendInv
<1>4. Place'
  BY <1>1, <1>3 DEF Threads, Place, AppendToCache, PcInv, Supers, At, AfterAppend, mainVars,
     Rewinds, Reading, use
<1>5. Fields'
  BY <1>1, <1>3 DEF Threads, Fields, AppendToCache, Supers, mainVars, bufferVars, use
<1>6. RequestInv'
  BY <1>1, <1>3 DEF Threads, RequestInv, AppendToCache, Work, At, AfterAppend, mainVars,
     bufferVars, use
<1>7. HolderInv'
  BY <1>1, <1>3 DEF Threads, HolderInv, AppendToCache, Place, At, InMemory, AfterAppend,
     mainVars, use
<1>8. RefInv'
  BY <1>1, <1>3, Basics DEF Threads, RefInv, AppendToCache, One, At, InMemory, AfterAppend,
     mainVars, bufferVars, use
<1>9. DirtyInv'
  BY <1>1, <1>3, Basics DEF Threads, DirtyInv, AppendToCache, DiskEmpty, At, InMemory, mainVars,
     bufferVars, Supers, use
<1>10. AppendInv'
  BY <1>1, <1>3 DEF Threads, AppendInv, AppendToCache, WritePcs, DiskEmpty, At, InMemory,
     mainVars, Supers, use
<1>11. QED
  BY <1>4, <1>5, <1>6, <1>7, <1>8, <1>9, <1>10 DEF Threads

\* The same step: its effect on the buffers and files.
LEMMA AppendToCacheData ==
  ASSUME IInv, AppendToCache
  PROVE  ContentInv' /\ Data'
<1>1. Threads /\ ContentInv /\ Data
  BY DEF IInv
<1>2. Threads'
  BY AppendToCacheThreads
<1>3. ContentInv'
  BY <1>1, <1>2 DEF Threads, ContentInv, AppendToCache, HolderInv, At, InMemory, AfterAppend,
     bufferVars
<1>4. kind # "vertices" /\ kind' = kind
  BY <1>1 DEF Threads, Place, PcInv, AppendToCache, Fields, RequestInv, HolderInv, RefInv,
     DirtyInv, AppendInv, Supers, Rewinds, Reading, At, RequestDone, InMemory, AfterAppend,
     mainVars, bufferVars, histVars, Holders, State, Buffers, Work, WritePcs, Pool, One,
     DiskEmpty, use
<1>5. PICK D : StreamData(D)
  BY <1>1, <1>4 DEF Data
<1>6. D \in [Supers -> Seq(Items)] /\ FileInv(D) /\ SentInv(D) /\ GotInv(D)
  BY <1>5 DEF StreamData
<1>7. (D \in [Supers -> Seq(Items)])'
  BY <1>1, <1>2, <1>4, <1>6 DEF Supers, AppendToCache, At, RequestDone, InMemory, AfterAppend,
     mainVars, bufferVars, histVars, DiskEmpty, use, Supers
<1>8. FileInv(D)'
  <2>1. pc \in WritePcs /\ pc' \in {"fill", "merged"} /\ UNCHANGED <<kind, superPartitions, disk>>
    BY <1>1, <1>2, <1>4 DEF Threads, AppendToCache, At, InMemory, AfterAppend, WritePcs, mainVars, use
  <2>2. QED
    BY <1>6, <2>1 DEF FileInv, Supers, WritePcs, ScanPcs
<1>9. SentInv(D)'
  <2>1. /\ request = NULL /\ pc = "append" /\ pc' \in {"fill", "merged"} /\ cache = NULL /\ cache' = buf
        /\ superPartitions = 1 /\ DiskEmpty /\ request' = NULL
        /\ UNCHANGED <<kind, superPartitions, sent, batch, content, uptodate, disk, buf>>
    BY <1>2 DEF Threads, Fields, AppendToCache, At, InMemory, AfterAppend, mainVars, use,
       histVars, bufferVars
  <2>2. buf \in Buffers /\ buf # NULL /\ batch = NULL /\ Supers = {0}
    BY <1>1, <2>1, FirstSuper, Basics DEF Threads, Fields, Holders, HolderInv
  <2>3. \A s \in Supers : Unwritten(s)' = Unwritten(s)
    <3>1. content[buf] \in Seq(Items) /\ OfFirst(content[buf])
      BY <1>1, <2>1, <2>2 DEF ContentInv
    <3>2. Substream(content[buf], 0) = content[buf]
      BY <3>1, SubstreamIsAll
    <3>3. DiskEmpty'
      BY <2>1, EmptyKept
    <3>4. Unwritten(0)' = Join(<<>>, Join(content[buf], <<>>))
      BY <2>1, <2>2, <3>3 DEF Unwritten, ToWrite, Cached, ToAppend
    <3>5. Unwritten(0) = Join(<<>>, Join(<<>>, content[buf]))
      BY <2>1, <3>2 DEF Unwritten, ToWrite, Cached, ToAppend
    <3>6. Unwritten(0)' = Unwritten(0)
      BY <3>1, <3>4, <3>5, Joins
    <3>7. QED
      BY <2>2, <3>6
  <2>4. QED
    BY <1>1, <1>6, <2>1, <2>2, <2>3, SentKept DEF Threads
<1>10. GotInv(D)'
  BY <1>1, <1>2, <1>6 DEF Threads, GotInv, AppendToCache, HolderInv, Supers, ScanPcs, DiskEmpty,
     At, InMemory, AfterAppend, histVars
<1>11. QED
  BY <1>3, <1>4, <1>7, <1>8, <1>9, <1>10 DEF Data, StreamData

\* Append: the cached buffer is to be written before the second one.  Its
\* effect on the control.
LEMMA AppendSpillThreads ==
  ASSUME IInv, AppendSpill
  PROVE  Threads'
<1>1. Threads
  BY DEF IInv
<1>2. Place'
  BY <1>1 DEF Threads, Place, AppendSpill, HolderInv, PcInv, Supers, At, mainVars, Rewinds,
     Reading, use
<1>3. Fields'
  BY <1>1 DEF Threads, Fields, AppendSpill, RequestInv, HolderInv, Holders, Supers, Buffers, At,
     Submit, mainVars, Work, AddWork, use
<1>4. RequestInv'
  BY <1>1 DEF Threads, RequestInv, AppendSpill, Place, Fields, HolderInv, AppendInv, Work,
     WritePcs, At, Submit, mainVars, PcInv, AddWork, use, Rewinds, Reading
<1>5. HolderInv'
  BY <1>1 DEF Threads, HolderInv, AppendSpill, At, Submit, mainVars, use
<1>6. RefInv'
  BY <1>1, Basics DEF Threads, RefInv, AppendSpill, HolderInv, Pool, At, Submit, mainVars, use
<1>7. DirtyInv'
  BY <1>1, Basics DEF Threads, DirtyInv, AppendSpill, Fields, HolderInv, AppendInv, At, Submit,
     mainVars, WritePcs
<1>8. AppendInv'
  BY <1>1 DEF Threads, AppendInv, AppendSpill, Fields, WritePcs, DiskEmpty, At, Submit,
     mainVars, Supers, Holders, Buffers, use
<1>9. QED
  BY <1>2, <1>3, <1>4, <1>5, <1>6, <1>7, <1>8 DEF Threads

\* The same step: its effect on the buffers and files.
LEMMA AppendSpillData ==
  ASSUME IInv, AppendSpill
  PROVE  ContentInv' /\ Data'
<1>1. Threads /\ ContentInv /\ Data
  BY DEF IInv
<1>2. Threads'
  BY AppendSpillThreads
<1>3. ContentInv'
  BY <1>1, <1>2 DEF Threads, ContentInv, AppendSpill, HolderInv, At, mainVars
<1>4. kind # "vertices" /\ kind' = kind
  BY <1>1 DEF Threads, AppendSpill, HolderInv, mainVars, use
<1>5. PICK D : StreamData(D)
  BY <1>1, <1>4 DEF Data
<1>6. D \in [Supers -> Seq(Items)] /\ FileInv(D) /\ SentInv(D) /\ GotInv(D)
  BY <1>5 DEF StreamData
<1>7. (D \in [Supers -> Seq(Items)])'
  BY <1>6 DEF Supers, AppendSpill, mainVars, use, Supers
<1>8. FileInv(D)'
  BY <1>1, <1>2, <1>6 DEF Threads, FileInv, AppendSpill, HolderInv, Supers, WritePcs, ScanPcs,
     At
<1>9. SentInv(D)'
  <2>1. /\ pc = "append" /\ pc' = "spill" /\ cache # NULL /\ request' = cache /\ writeOp' /\ cache' = cache
        /\ UNCHANGED <<kind, superPartitions, sent, batch, content, disk, buf>>
        /\ uptodate' = [uptodate EXCEPT ![cache] = FALSE]
    BY DEF AppendSpill, At, Submit, mainVars, use, histVars
  <2>2. /\ buf # NULL /\ buf # cache /\ batch = NULL /\ cache \in Buffers /\ request = NULL /\ Supers = {0}
        /\ kind # "ingested"
    BY <1>1, <2>1, FirstSuper, Basics DEF Threads, Fields, Holders, HolderInv
  <2>3. DiskEmpty
    BY <1>1, <2>1, <2>2 DEF Threads, AppendInv, WritePcs
  <2>4. \A s \in Supers : Unwritten(s)' = Unwritten(s)
    <3>1. content[cache] \in Seq(Items) /\ OfFirst(content[cache]) /\ Substream(content[buf], 0) \in Seq(Items)
      <4>1. content[cache] \in Seq(Items) /\ content[buf] \in Seq(Items) /\ superPartitions = 1
        BY <1>1, <2>1, <2>2, Basics DEF ContentInv, Threads, HolderInv, Fields, Holders
      <4>2. QED
        BY <1>1, <2>2, <4>1, SubstreamIn DEF ContentInv
    <3>2. Substream(content[cache], 0) = content[cache]
      BY <3>1, SubstreamIsAll
    <3>3. ~uptodate'[cache]
      BY <1>1, <2>1, <2>2, Types DEF Threads, Fields
    <3>4. Unwritten(0)' = Join(content[cache], Join(<<>>, Substream(content[buf], 0)))
      BY <2>1, <3>2, <3>3 DEF Unwritten, ToWrite, Cached, ToAppend
    <3>5. Unwritten(0) = Join(<<>>, Join(content[cache], Substream(content[buf], 0)))
      BY <2>1, <2>2, <2>3 DEF Unwritten, ToWrite, Cached, ToAppend
    <3>6. Join(content[cache], Substream(content[buf], 0)) \in Seq(Items)
      BY <3>1, Joins
    <3>7. Unwritten(0)' = Unwritten(0)
      BY <3>1, <3>4, <3>5, <3>6, Joins
    <3>8. QED
      BY <2>2, <3>7
  <2>5. QED
    BY <1>1, <1>6, <2>1, <2>4, SentKept DEF Threads
<1>10. GotInv(D)'
  BY <1>1, <1>2, <1>4, <1>6, Basics DEF Threads, GotInv, AppendSpill, Place, Fields, RequestInv,
     HolderInv, RefInv, DirtyInv, AppendInv, Supers, ScanPcs, Join, DiskEmpty, At, RequestDone,
     InMemory, Submit, mainVars, histVars, PcInv, Holders, State, Buffers, Work, WritePcs, Pool,
     One, AddWork, use, Rewinds, Reading
<1>11. QED
  BY <1>3, <1>4, <1>7, <1>8, <1>9, <1>10 DEF Data, StreamData

\* Append: the cached buffer is written, the second one is to be written
\* next.  Its effect on the control.
LEMMA AppendSpilledThreads ==
  ASSUME IInv, AppendSpilled
  PROVE  Threads'
<1>1. Threads
  BY DEF IInv
<1>2. ~Work /\ queue = 0 /\ io # "busy" /\ \A b \in Buffers : uptodate[b]
  BY <1>1, NoWork DEF Threads, AppendSpilled, At, RequestDone, Fields
<1>3. /\ request \in Pool /\ cache = request /\ buf \in Pool /\ buf # request /\ batch = NULL
      /\ kind # "vertices" /\ pc = "spill"
  BY <1>1 DEF AppendSpilled, At, Threads, Fields, HolderInv, Holders
<1>4. ~dirty[request]
  <2>1. superPartitions = 1 /\ 0 \in Supers /\ writeOp /\ request # NULL /\ uptodate[request]
    BY <1>1, <1>2, <1>3, Basics DEF Threads, HolderInv, RequestInv, Supers
  <2>2. ~DiskEmpty
    BY <1>1, <1>3, <2>1 DEF Threads, AppendInv, DiskEmpty
  <2>3. QED
    BY <1>1, <1>3, <2>1, <2>2 DEF Threads, DirtyInv
<1>5. refcount' \in [Buffers -> Int] /\ refcount'[State] <= 0
  BY <1>1, <1>3, <1>4, DropsBuffer DEF Threads, Fields, AppendSpilled
<1>6. DropError(request) = "no"
  BY <1>1, <1>2, <1>3, <1>4, Basics, DropsBuffer DEF Threads
<1>7. Place'
  BY <1>1, <1>3, Basics DEF Threads, Place, AppendSpilled, RequestInv, PcInv, Supers,
     AfterAppend, mainVars, use
<1>8. Fields'
  BY <1>1, <1>2, <1>3, <1>5, <1>6, Basics DEF Threads, Fields, AppendSpilled, Supers, Submit,
     mainVars, AddWork, use
<1>9. RequestInv'
  BY <1>1, <1>3, Basics DEF Threads, RequestInv, AppendSpilled, Fields, Work, WritePcs, Submit,
     AfterAppend, mainVars, AddWork, use
<1>10. HolderInv'
  BY <1>3 DEF HolderInv, AppendSpilled, AfterAppend, mainVars, use
<1>11. RefInv'
  <2>1. \A b \in Pool : refcount[b] = One(b = request) + One(b = buf)
    BY <1>1, <1>3, Basics DEF Threads, RefInv, One
  <2>2. request' = buf /\ cache' = NULL /\ buf' = buf /\ batch' = NULL
        /\ pc' \notin {"append", "spill", "consume"} /\ refcount' = Dropped(request)
    BY <1>3 DEF AppendSpilled, Submit, AfterAppend, mainVars, use
  <2>3. \A b \in Pool : refcount'[b] = One(b = buf)
    BY <1>1, <1>2, <1>3, <1>4, <2>1, <2>2, DropsBuffer, Basics DEF Threads, One
  <2>4. QED
    BY <1>3, <2>2, <2>3, Basics DEF RefInv, One
<1>12. DirtyInv'
  BY <1>1, <1>3, <1>4, Basics DEF Threads, DirtyInv, AppendSpilled, Fields, Submit, AfterAppend
<1>13. AppendInv'
  BY <1>1, <1>3, Basics DEF Threads, AppendInv, AppendSpilled, Fields, RequestInv, Submit,
     AfterAppend
<1>14. QED
  BY <1>7, <1>8, <1>9, <1>10, <1>11, <1>12, <1>13 DEF Threads

\* The same step: its effect on the buffers and files.
LEMMA AppendSpilledData ==
  ASSUME IInv, AppendSpilled
  PROVE  ContentInv' /\ Data'
<1>1. Threads /\ ContentInv /\ Data
  BY DEF IInv
<1>2. Threads'
  BY AppendSpilledThreads
<1>3. ContentInv'
  BY <1>1, <1>2 DEF Threads, ContentInv, AppendSpilled, HolderInv, At, Submit, AfterAppend
<1>4. kind # "vertices" /\ kind' = kind
  BY <1>1 DEF Threads, AppendSpilled, HolderInv, At, mainVars, use
<1>5. PICK D : StreamData(D)
  BY <1>1, <1>4 DEF Data
<1>6. D \in [Supers -> Seq(Items)] /\ FileInv(D) /\ SentInv(D) /\ GotInv(D)
  BY <1>5 DEF StreamData
<1>7. (D \in [Supers -> Seq(Items)])'
  BY <1>6 DEF Supers, AppendSpilled, mainVars, use
<1>8. FileInv(D)'
  BY <1>1, <1>6 DEF Threads, FileInv, AppendSpilled, RequestInv, HolderInv, Supers, ScanPcs, At,
     AfterAppend, mainVars, use
<1>9. SentInv(D)'
  <2>1. /\ pc = "spill" /\ uptodate[request] /\ pc' \in {"fill", "merged"} /\ request' = buf /\ writeOp' /\ cache' = NULL
        /\ UNCHANGED <<kind, superPartitions, sent, batch, content, disk, buf>>
        /\ uptodate' = [uptodate EXCEPT ![buf] = FALSE]
    BY DEF AppendSpilled, At, Submit, AfterAppend, mainVars, use, histVars
  <2>2. /\ buf # NULL /\ buf \in Buffers /\ buf # cache /\ batch = NULL /\ cache \in Buffers /\ request = cache
        /\ Supers = {0} /\ kind # "ingested"
    BY <1>1, <2>1, FirstSuper, Basics DEF Threads, Fields, Holders, HolderInv, Place, PcInv,
       Rewinds, Reading
  <2>3. \A s \in Supers : Unwritten(s)' = Unwritten(s)
    <3>1. Substream(content[buf], 0) \in Seq(Items)
      <4>1. content[buf] \in Seq(Items)
        BY <1>1, <2>2 DEF ContentInv
      <4>2. QED
        BY <2>2, <4>1, SubstreamIn
    <3>2. ~uptodate'[buf]
      BY <1>1, <2>1, <2>2 DEF Threads, Fields
    <3>3. Unwritten(0)' = Join(Substream(content[buf], 0), Join(<<>>, <<>>))
      BY <2>1, <2>2, <3>2 DEF Unwritten, ToWrite, Cached, ToAppend
    <3>4. Unwritten(0) = Join(<<>>, Join(<<>>, Substream(content[buf], 0)))
      BY <2>1, <2>2 DEF Unwritten, ToWrite, Cached, ToAppend
    <3>5. <<>> \in Seq(Items) /\ Join(<<>>, <<>>) = <<>> /\ Join(<<>>, Substream(content[buf], 0)) = Substream(content[buf], 0)
      BY <3>1, Joins
    <3>6. Unwritten(0)' = Unwritten(0)
      BY <3>1, <3>3, <3>4, <3>5, Joins
    <3>7. QED
      BY <2>2, <3>6
  <2>4. QED
    BY <1>1, <1>6, <2>1, <2>2, <2>3, SentKept DEF Threads
<1>10. GotInv(D)'
  BY <1>6 DEF GotInv, AppendSpilled, Supers, ScanPcs, At, AfterAppend, mainVars, histVars, use
<1>11. QED
  BY <1>3, <1>4, <1>7, <1>8, <1>9, <1>10 DEF Data, StreamData

\* Append: the buffer is to be written to the files.  Its effect on the
\* control.
LEMMA AppendToDiskThreads ==
  ASSUME IInv, AppendToDisk
  PROVE  Threads'
<1>1. Threads
  BY DEF IInv
<1>2. ~Work /\ queue = 0 /\ io # "busy" /\ \A b \in Buffers : uptodate[b]
  BY <1>1, NoWork DEF Threads, AppendToDisk, At, Fields
<1>3. /\ request \in Holders /\ cache = NULL /\ buf \in Pool /\ buf # request /\ batch = NULL
      /\ kind # "vertices" /\ pc = "append" /\ (request # NULL => request \in Pool /\ ~dirty[request])
  BY <1>1, <1>2, Basics DEF AppendToDisk, At, Threads, Place, Fields, HolderInv, PcInv, Rewinds,
     Reading, Holders, DirtyInv
<1>4. fatal' = "no"
  BY <1>1, <1>2, <1>3, DropsBuffer, Basics DEF AppendToDisk, At, Threads
<1>5. refcount' \in [Buffers -> Int] /\ refcount'[State] <= 0
  BY <1>1, <1>2, <1>3, DropsBuffer, Basics DEF AppendToDisk, Threads, Fields
<1>6. Place'
  BY <1>1 DEF Threads, Place, AppendToDisk, PcInv, Supers, At, AfterAppend, mainVars, Rewinds,
     Reading, use
<1>7. Fields'
  BY <1>1, <1>2, <1>3, <1>4, <1>5, Basics DEF Threads, Fields, AppendToDisk, Supers, Submit,
     mainVars, AddWork, use
<1>8. RequestInv'
  BY <1>1, <1>2, <1>3, Basics DEF Threads, RequestInv, AppendToDisk, Place, Fields, AppendInv,
     Work, WritePcs, Submit, AfterAppend, mainVars, PcInv, AddWork, use, Rewinds, Reading
<1>9. HolderInv'
  BY <1>3 DEF HolderInv, AppendToDisk, AfterAppend, mainVars, use
<1>10. RefInv'
  <2>1. \A b \in Pool : refcount[b] = One(b = request) + One(b = buf)
    BY <1>1, <1>3, Basics DEF Threads, RefInv, One
  <2>2. request' = buf /\ cache' = NULL /\ buf' = buf /\ batch' = NULL
        /\ pc' \notin {"append", "spill", "consume"}
    BY <1>3 DEF AppendToDisk, Submit, AfterAppend, mainVars, use
  <2>3. \A b \in Pool : refcount'[b] = One(b = buf)
    <3>1. CASE request = NULL
      BY <1>3, <2>1, <3>1, Basics DEF AppendToDisk, One
    <3>2. CASE request # NULL
      <4>1. refcount' = Dropped(request)
        BY <3>2 DEF AppendToDisk
      <4>2. QED
        <5>1. /\ Dropped(request)[request] = refcount[request] - 1
              /\ \A c \in Pool : c # request => Dropped(request)[c] = refcount[c]
          BY <1>1, <1>2, <1>3, <3>2, DropsBuffer, Basics DEF Threads
        <5>2. QED
          BY <2>1, <4>1, <5>1 DEF One
    <3>3. QED
      BY <3>1, <3>2
  <2>4. QED
    BY <1>3, <2>2, <2>3, Basics DEF RefInv, One
<1>11. DirtyInv'
  BY <1>1, <1>3, Basics DEF Threads, DirtyInv, AppendToDisk, Fields, Submit, AfterAppend, Supers
<1>12. AppendInv'
  BY <1>1, <1>3, Basics DEF Threads, AppendInv, AppendToDisk, Fields, WritePcs, Submit,
     AfterAppend
<1>13. QED
  BY <1>6, <1>7, <1>8, <1>9, <1>10, <1>11, <1>12 DEF Threads

\* The same step: its effect on the buffers and files.
LEMMA AppendToDiskData ==
  ASSUME IInv, AppendToDisk
  PROVE  ContentInv' /\ Data'
<1>1. Threads /\ ContentInv /\ Data
  BY DEF IInv
<1>2. Threads'
  BY AppendToDiskThreads
<1>3. ContentInv'
  BY <1>1 DEF ContentInv, AppendToDisk, At, Submit, mainVars, use
<1>4. kind # "vertices" /\ kind' = kind
  BY <1>1 DEF Threads, Place, PcInv, AppendToDisk, Rewinds, At, mainVars, use
<1>5. PICK D : StreamData(D)
  BY <1>1, <1>4 DEF Data
<1>6. D \in [Supers -> Seq(Items)] /\ FileInv(D) /\ SentInv(D) /\ GotInv(D)
  BY <1>5 DEF StreamData
<1>7. (D \in [Supers -> Seq(Items)])'
  BY <1>6 DEF Supers, AppendToDisk, mainVars, use, Supers
<1>8. FileInv(D)'
  BY <1>6 DEF FileInv, AppendToDisk, Supers, WritePcs, ScanPcs, At, AfterAppend, mainVars, use
<1>9. SentInv(D)'
  <2>1. /\ pc = "append" /\ RequestDone /\ cache = NULL /\ cache' = NULL /\ pc' \in {"fill", "merged"}
        /\ request' = buf /\ writeOp'
        /\ UNCHANGED <<kind, superPartitions, sent, batch, content, disk, buf>>
        /\ uptodate' = [uptodate EXCEPT ![buf] = FALSE]
    BY DEF AppendToDisk, At, Submit, AfterAppend, mainVars, use, histVars
  <2>2. buf # NULL /\ buf \in Buffers /\ batch = NULL
    BY <1>1, <2>1, Basics DEF Threads, Fields, Holders, HolderInv
  <2>3. Supers \subseteq Nat /\ Supers' = Supers /\ (kind = "ingested" => Supers = {0} /\ superPartitions = 1)
    BY <1>1, <2>1, FirstSuper DEF Threads, Place, Supers
  <2>4. ~DiskEmpty \/ superPartitions # 1
    BY DEF AppendToDisk, InMemory
  <2>5. kind = "ingested" => disk[0].bytes > 0
    BY <2>3, <2>4, Types DEF DiskEmpty
  <2>6. ASSUME NEW s \in Supers PROVE Unwritten(s)' = Unwritten(s)
    <3>1. Substream(content[buf], s) \in Seq(Items)
      <4>1. content[buf] \in Seq(Items) /\ s \in Nat
        BY <1>1, <2>2, <2>3 DEF ContentInv
      <4>2. QED
        BY <4>1, SubstreamIn
    <3>2. ~uptodate'[buf]
      BY <1>1, <2>1, <2>2 DEF Threads, Fields
    <3>3. Unwritten(s)' = Join(Substream(content[buf], s), Join(<<>>, <<>>))
      BY <2>1, <2>2, <3>2 DEF Unwritten, ToWrite, Cached, ToAppend
    <3>4. request # NULL => uptodate[request]
      BY <2>1 DEF RequestDone
    <3>5. Unwritten(s) = Join(<<>>, Join(<<>>, Substream(content[buf], s)))
      BY <2>1, <3>4 DEF Unwritten, ToWrite, Cached, ToAppend
    <3>6. <<>> \in Seq(Items) /\ Join(<<>>, <<>>) = <<>> /\ Join(<<>>, Substream(content[buf], s)) = Substream(content[buf], s)
      BY <3>1, Joins
    <3>7. QED
      BY <3>1, <3>3, <3>5, <3>6, Joins
  <2>7. QED
    BY <1>1, <1>6, <2>1, <2>5, <2>6, SentKept DEF Threads
<1>10. GotInv(D)'
  BY <1>6 DEF GotInv, AppendToDisk, Supers, ScanPcs, At, AfterAppend, mainVars, histVars,
     Holders, use
<1>11. QED
  BY <1>3, <1>4, <1>7, <1>8, <1>9, <1>10 DEF Data, StreamData

\* The superstep has no more updates.  Its effect on the control.
LEMMA EndFillThreads ==
  ASSUME IInv, EndFill
  PROVE  Threads'
<1>1. Threads
  BY DEF IInv
<1>2. Place'
  BY <1>1 DEF Threads, Place, EndFill, PcInv, Supers, At, mainVars, Rewinds, use
<1>3. Fields'
  BY <1>1 DEF Threads, Fields, EndFill, Supers, mainVars, streamVars, bufferVars, use
<1>4. RequestInv'
  BY <1>1 DEF Threads, RequestInv, EndFill, Work, At, mainVars, streamVars, bufferVars, use
<1>5. HolderInv'
  BY <1>1 DEF Threads, HolderInv, EndFill, At, mainVars, streamVars, use
<1>6. RefInv'
  BY <1>1 DEF Threads, RefInv, EndFill, RequestInv, At, mainVars, streamVars, bufferVars, use
<1>7. DirtyInv'
  BY <1>1 DEF Threads, DirtyInv, EndFill, DiskEmpty, At, mainVars, streamVars, bufferVars,
     Supers, use
<1>8. AppendInv'
  BY <1>1 DEF Threads, AppendInv, EndFill, WritePcs, DiskEmpty, At, mainVars, streamVars,
     bufferVars, Supers, use
<1>9. QED
  BY <1>2, <1>3, <1>4, <1>5, <1>6, <1>7, <1>8 DEF Threads

\* The same step: its effect on the buffers and files.
LEMMA EndFillData ==
  ASSUME IInv, EndFill
  PROVE  ContentInv' /\ Data'
<1>1. Threads /\ ContentInv /\ Data
  BY DEF IInv
<1>2. Threads'
  BY EndFillThreads
<1>3. ContentInv'
  BY <1>1 DEF ContentInv, EndFill, mainVars, streamVars, bufferVars, use
<1>4. kind # "vertices" /\ kind' = kind
  BY <1>1 DEF Threads, Place, PcInv, EndFill, Rewinds, At, mainVars, use
<1>5. PICK D : StreamData(D)
  BY <1>1, <1>4 DEF Data
<1>6. D \in [Supers -> Seq(Items)] /\ FileInv(D) /\ SentInv(D) /\ GotInv(D)
  BY <1>5 DEF StreamData
<1>7. (D \in [Supers -> Seq(Items)])'
  BY <1>6 DEF Supers, EndFill, mainVars, use
<1>8. FileInv(D)'
  <2>1. requestSuperp = APPEND /\ kind = "updates" /\ pc = "fill" /\ pc' = "rewind"
    BY <1>1 DEF EndFill, At, Threads, Place, PcInv, Rewinds, Reading, AppendInv, WritePcs
  <2>2. \A s \in Supers : Holds(disk[s], D[s])
    BY <1>6, <2>1 DEF FileInv, WritePcs
  <2>3. \A s \in Supers : Flushing(disk[s], D[s])
    BY <2>2, HoldsFlushing
  <2>4. UNCHANGED <<disk, mainVars, streamVars, queue, io>>
    BY DEF EndFill
  <2>5. QED
    BY <1>6, <2>1, <2>2, <2>3, <2>4 DEF FileInv, Tail_, ScanPcs, Supers, use, mainVars,
       streamVars
<1>9. SentInv(D)'
  <2>1. \A s \in Supers : ToWrite(s)' = ToWrite(s)
    BY DEF ToWrite, EndFill, streamVars, bufferVars
  <2>2. Cached' = Cached
    <3>1. DiskEmpty' <=> DiskEmpty
      BY EmptyKept DEF EndFill, mainVars, use
    <3>2. QED
      BY <3>1 DEF Cached, EndFill, streamVars, bufferVars
  <2>3. \A s \in Supers : ToAppend(s)' = ToAppend(s)
    BY DEF ToAppend, EndFill, At
  <2>4. UNCHANGED <<kind, superPartitions, sent>>
    BY DEF EndFill, mainVars, histVars, use
  <2>5. /\ batch' # NULL /\ pc' # "spillBatch" =>
              batch # NULL /\ pc # "spillBatch" /\ content'[batch'] = content[batch]
        /\ kind = "ingested" /\ cache' = NULL /\ (request' # NULL \/ disk'[0].bytes > 0) =>
              cache = NULL /\ (request # NULL \/ disk[0].bytes > 0)
        /\ pc' = "spillBatch" => /\ pc = "spillBatch" /\ content'[cache'] = content[cache]
                                 /\ uptodate'[request'] = uptodate[request] /\ disk'[0].bytes = disk[0].bytes
    BY DEF EndFill, At, mainVars, streamVars, bufferVars, use
  <2>6. \A s \in Supers : Unwritten(s)' = Unwritten(s)
    BY <2>1, <2>2, <2>3 DEF Unwritten
  <2>7. QED
    BY <1>1, <1>6, <2>4, <2>5, <2>6, SentKept DEF Threads
<1>10. GotInv(D)'
  BY <1>6 DEF GotInv, EndFill, Supers, ScanPcs, DiskEmpty, At, mainVars, streamVars, bufferVars,
     histVars, use
<1>11. QED
  BY <1>3, <1>4, <1>7, <1>8, <1>9, <1>10 DEF Data, StreamData

\* Rewind: all that was appended is in the cached buffer.  Its effect on the
\* control.
LEMMA RewindCachedThreads ==
  ASSUME IInv, RewindCached
  PROVE  Threads'
<1>1. Threads
  BY DEF IInv
<1>2. request = NULL
  BY <1>1 DEF Threads, HolderInv, RewindCached, At
<1>3. requestSuperp' \in Supers \cup {APPEND} /\ fatal' = "no"
  BY <1>1, <1>2, FirstSuper DEF Threads, Fields, RewindCached
<1>4. Place'
  BY <1>1, <1>3, Basics DEF Threads, Place, RewindCached, PcInv, Supers, At, AfterRewind, use,
     Reading
<1>5. Fields'
  BY <1>1, <1>2, <1>3, Basics DEF Threads, Fields, RewindCached, Place, RequestInv, HolderInv,
     RefInv, DirtyInv, AppendInv, Holders, State, Supers, Buffers, At, AfterRewind, use,
     bufferVars, histVars, PcInv, Work, WritePcs, Pool, One, DiskEmpty, Rewinds, Reading
<1>6. RequestInv'
  BY <1>1, <1>3 DEF Threads, RequestInv, RewindCached, Work, At, AfterRewind, use, bufferVars
<1>7. HolderInv'
  BY <1>1, Basics DEF Threads, HolderInv, RewindCached, At, AfterRewind, use
<1>8. RefInv'
  BY <1>1, <1>3 DEF Threads, RefInv, RewindCached, At, AfterRewind, use, bufferVars
<1>9. DirtyInv'
  BY <1>1, <1>3 DEF Threads, DirtyInv, RewindCached, DiskEmpty, At, AfterRewind, use,
     bufferVars, Supers
<1>10. AppendInv'
  BY <1>1, <1>3 DEF Threads, AppendInv, RewindCached, WritePcs, DiskEmpty, At, AfterRewind, use,
     Supers
<1>11. QED
  BY <1>4, <1>5, <1>6, <1>7, <1>8, <1>9, <1>10 DEF Threads

\* The same step: its effect on the buffers and files.
LEMMA RewindCachedData ==
  ASSUME IInv, RewindCached
  PROVE  ContentInv' /\ Data'
<1>1. Threads /\ ContentInv /\ Data
  BY DEF IInv
<1>2. Threads'
  BY RewindCachedThreads
<1>3. /\ cache # NULL /\ superPartitions = 1 /\ request = NULL /\ pc = "rewind" /\ pc' = "scan" /\ superp' = 0
      /\ eofFlag' = FALSE /\ requestSuperp' = (IF requestSuperp = APPEND THEN 0 ELSE requestSuperp)
  BY <1>1 DEF Threads, HolderInv, RewindCached, At, AfterRewind
<1>4. ContentInv'
  BY <1>1, <1>3 DEF ContentInv, RewindCached, use, bufferVars
<1>5. kind # "vertices" /\ kind' = kind
  BY <1>1, <1>3 DEF Threads, HolderInv, RewindCached, use
<1>6. PICK D : StreamData(D)
  BY <1>1, <1>5 DEF Data
<1>7. D \in [Supers -> Seq(Items)] /\ FileInv(D) /\ SentInv(D) /\ GotInv(D)
  BY <1>6 DEF StreamData
<1>8. (D \in [Supers -> Seq(Items)])'
  BY <1>3, <1>7 DEF Supers, RewindCached, use
<1>9. FileInv(D)'
  <2>1. Supers = {0} /\ Supers' = {0} /\ requestSuperp' # APPEND
    BY <1>3, Basics DEF Supers, RewindCached, use
  <2>2. disk[0] \in Disks /\ D[0] \in Seq(Items) /\ Tail_(0, D)
    BY <1>7, <1>3, <2>1 DEF FileInv
  <2>3. Reads(disk[0], D[0])
    <3>1. CASE DiskEmpty
      <4>1. disk[0].bytes = 0
        BY <2>1, <3>1 DEF DiskEmpty
      <4>2. QED
        BY <2>2, <4>1, EmptyFile DEF Tail_
    <3>2. CASE ~DiskEmpty
      BY <1>1, <1>3, <2>2, <3>2 DEF Threads, AppendInv, Tail_
    <3>3. QED
      BY <3>1, <3>2
  <2>4. UNCHANGED <<disk, use, queue, io, request, writeOp>>
    BY DEF RewindCached
  <2>5. QED
    BY <1>7, <1>3, <2>1, <2>3, <2>4 DEF FileInv, Writing, WritePcs
<1>10. SentInv(D)'
  <2>1. \A s \in Supers : ToWrite(s)' = ToWrite(s)
    BY <1>3 DEF ToWrite, RewindCached
  <2>2. Cached' = Cached
    <3>1. DiskEmpty' <=> DiskEmpty
      BY EmptyKept DEF RewindCached, At, AfterRewind, use, bufferVars, histVars
    <3>2. QED
      BY <3>1, <1>3 DEF Cached, RewindCached, bufferVars
  <2>3. \A s \in Supers : ToAppend(s)' = ToAppend(s)
    BY <1>3 DEF ToAppend
  <2>4. UNCHANGED <<kind, superPartitions, sent>>
    BY <1>3 DEF RewindCached, use, histVars
  <2>5. /\ batch' # NULL /\ pc' # "spillBatch" =>
              batch # NULL /\ pc # "spillBatch" /\ content'[batch'] = content[batch]
        /\ kind = "ingested" /\ cache' = NULL /\ (request' # NULL \/ disk'[0].bytes > 0) =>
              cache = NULL /\ (request # NULL \/ disk[0].bytes > 0)
        /\ pc' = "spillBatch" => /\ pc = "spillBatch" /\ content'[cache'] = content[cache]
                                 /\ uptodate'[request'] = uptodate[request] /\ disk'[0].bytes = disk[0].bytes
    BY <1>3 DEF RewindCached, use, bufferVars
  <2>6. \A s \in Supers : Unwritten(s)' = Unwritten(s)
    BY <2>1, <2>2, <2>3 DEF Unwritten
  <2>7. QED
    BY <1>1, <1>7, <2>4, <2>5, <2>6, SentKept DEF Threads
<1>11. GotInv(D)'
  <2>1. UNCHANGED <<superPartitions, got, cache, disk, content>> /\ superp' = 0
    BY <1>3 DEF RewindCached, use, bufferVars, histVars
  <2>2. DiskEmpty' <=> DiskEmpty
    BY <2>1, EmptyKept
  <2>3. \A s \in Supers : got[s] = <<>>
    BY <1>3, <1>7 DEF GotInv, ScanPcs
  <2>4. QED
    BY <1>3, <1>7, <2>1, <2>2, <2>3 DEF GotInv, Supers, ScanPcs
<1>12. QED
  BY <1>4, <1>5, <1>8, <1>9, <1>10, <1>11 DEF Data, StreamData

\* Rewind: the last write has ended and the stream is on disk.  Its effect
\* on the control.
LEMMA RewindDiskThreads ==
  ASSUME IInv, ~Overtakes', RewindDisk
  PROVE  Threads'
<1>1. Threads
  BY DEF IInv
<1>2. ~Work /\ queue = 0 /\ io # "busy" /\ \A b \in Buffers : uptodate[b]
  BY <1>1, NoWork DEF Threads, RewindDisk, At, Fields
<1>3. pc = "rewind" /\ cache = NULL
  BY DEF RewindDisk, At
<1>4. request \in Pool => ~dirty[request]
  BY <1>1, <1>2, <1>3, Basics DEF Threads, DirtyInv
<1>5. request \in Pool \cup {State, NULL}
  BY <1>1, Basics DEF Threads, Place, Fields, Holders
<1>6. fatal' = "no" /\ refcount' \in [Buffers -> Int] /\ refcount'[State] <= 0
  <2>1. CASE request = NULL
    BY <1>1, <2>1 DEF RewindDisk, Threads, Place, Fields
  <2>2. CASE request = State
    <3>1. refcount \in [Buffers -> Int] /\ refcount[State] <= 0 /\ State \in Buffers /\ State # NULL
      BY <1>1, Basics DEF Threads, Fields
    <3>2. DropError(State) = "no"
      BY <3>1 DEF DropError
    <3>3. Dropped(State) \in [Buffers -> Int] /\ Dropped(State)[State] = refcount[State] - 1
      BY <3>1 DEF Dropped
    <3>4. refcount' = Dropped(State) /\ fatal' = DropError(State)
      BY <2>2, <3>1 DEF RewindDisk
    <3>5. QED
      BY <3>1, <3>2, <3>3, <3>4
  <2>3. CASE request \in Pool
    BY <1>1, <1>2, <1>4, <2>3, DropsBuffer, Basics DEF RewindDisk, Threads, Fields
  <2>4. QED
    BY <1>5, <2>1, <2>2, <2>3
<1>7. Place'
  BY <1>1, Basics DEF Threads, Place, RewindDisk, PcInv, Supers, At, use, Rewinds
<1>8. Fields'
  BY <1>1, <1>2, <1>3, <1>4, <1>5, <1>6, Basics DEF Threads, Fields, RewindDisk, Place,
     RequestInv, HolderInv, RefInv, DirtyInv, AppendInv, Holders, State, Supers, Buffers, At,
     RequestDone, use, histVars, PcInv, Work, WritePcs, Pool, One, DiskEmpty, Rewinds, Reading
<1>9. RequestInv'
  BY <1>1, <1>2, <1>3 DEF Overtakes, Threads, RequestInv, RewindDisk, Work, use
<1>10. HolderInv'
  BY <1>1 DEF Threads, HolderInv, RewindDisk, use
<1>11. RefInv'
  <2>1. \A b \in Pool : refcount[b] = One(b = request) + One(b = batch)
    BY <1>1, <1>3, Basics DEF Threads, RefInv, One
  <2>2. request' = NULL /\ cache' = NULL /\ batch' = batch /\ pc' \notin {"append", "spill", "consume"}
    BY <1>3 DEF RewindDisk, use
  <2>3. \A b \in Pool : refcount'[b] = One(b = batch)
    <3>1. CASE request = NULL
      BY <2>1, <3>1, Basics DEF RewindDisk, One
    <3>2. CASE request # NULL
      <4>1. refcount' = [refcount EXCEPT ![request] = @ - 1]
        BY <3>2 DEF RewindDisk, Dropped
      <4>2. refcount \in [Buffers -> Int] /\ request \in Buffers
        BY <1>1, <1>5, <3>2, Basics DEF Threads, Fields
      <4>3. QED
        BY <2>1, <4>1, <4>2, Basics DEF One
    <3>3. QED
      BY <3>1, <3>2
  <2>4. QED
    BY <2>2, <2>3, Basics DEF RefInv, One
<1>12. DirtyInv'
  BY <1>1, <1>4, Basics DEF Threads, DirtyInv, RewindDisk, At
<1>13. AppendInv'
  BY DEF AppendInv, RewindDisk, WritePcs
<1>14. QED
  BY <1>7, <1>8, <1>9, <1>10, <1>11, <1>12, <1>13 DEF Threads

\* The same step: its effect on the buffers and files.
LEMMA RewindDiskData ==
  ASSUME IInv, ~Overtakes', RewindDisk
  PROVE  ContentInv' /\ Data'
<1>1. Threads /\ ContentInv /\ Data
  BY DEF IInv
<1>2. Threads'
  BY RewindDiskThreads
<1>3. ContentInv'
  BY <1>1 DEF ContentInv, RewindDisk, use
<1>4. ASSUME kind = "vertices"
      PROVE  VertexInv' /\ kind' = "vertices"
  <2>1. VertexInv /\ kind' = kind
    BY <1>1, <1>4 DEF Data, RewindDisk, use
  <2>2. ~Work /\ ~Work'
    <3>1. ~Work
      BY <1>1, NoWork DEF RewindDisk, At, Threads
    <3>2. QED
      BY <3>1 DEF RewindDisk, Work
  <2>3. UNCHANGED <<superPartitions, disk, sent, got, content, cycle, superp>> /\ pc' = "flush"
    BY DEF RewindDisk, use, histVars
  <2>4. QED
    BY <1>4, <2>1, <2>2, <2>3, VerticesKept
<1>5. ASSUME kind # "vertices"
      PROVE  (\E D : StreamData(D))' /\ kind' # "vertices"
  <2>1. PICK D : StreamData(D)
    BY <1>1, <1>5 DEF Data
  <2>2. D \in [Supers -> Seq(Items)] /\ FileInv(D) /\ SentInv(D) /\ GotInv(D)
    BY <2>1 DEF StreamData
  <2>3. (D \in [Supers -> Seq(Items)])'
    BY <2>2 DEF Supers, RewindDisk, use
  <2>4. FileInv(D)'
    <3>1. /\ pc = "rewind" /\ pc' = "flush" /\ i' = 0 /\ request' = NULL
          /\ UNCHANGED <<superPartitions, disk, requestSuperp, kind>>
      BY DEF RewindDisk, At, use
    <3>2. ASSUME NEW s \in Supers PROVE ~(s < 0) /\ Tail_(s, D) /\ Tail_(s, D)'
      <4>1. Tail_(s, D)
        BY <2>2, <3>1 DEF FileInv
      <4>2. QED
        BY <1>1, <3>1, <4>1, FirstSuper DEF Threads, Tail_
    <3>3. Supers' = Supers
      BY <3>1 DEF Supers
    <3>4. QED
      BY <2>2, <3>1, <3>2, <3>3 DEF FileInv, Writing, WritePcs, ScanPcs
  <2>5. SentInv(D)'
    <3>1. \A s \in Supers : ToWrite(s)' = ToWrite(s)
      BY DEF ToWrite, RewindDisk, RequestDone
    <3>2. Cached' = Cached
      <4>1. DiskEmpty' <=> DiskEmpty
        BY EmptyKept DEF RewindDisk, At, RequestDone, use, histVars
      <4>2. QED
        BY DEF Cached, RewindDisk
    <3>3. \A s \in Supers : ToAppend(s)' = ToAppend(s)
      BY DEF ToAppend, RewindDisk, At
    <3>4. UNCHANGED <<kind, superPartitions, sent>>
      BY DEF RewindDisk, use, histVars
    <3>5. /\ batch' # NULL /\ pc' # "spillBatch" =>
                batch # NULL /\ pc # "spillBatch" /\ content'[batch'] = content[batch]
          /\ kind = "ingested" /\ cache' = NULL /\ (request' # NULL \/ disk'[0].bytes > 0) =>
                cache = NULL /\ (request # NULL \/ disk[0].bytes > 0)
          /\ pc' = "spillBatch" => /\ pc = "spillBatch" /\ content'[cache'] = content[cache]
                                   /\ uptodate'[request'] = uptodate[request] /\ disk'[0].bytes = disk[0].bytes
      BY DEF RewindDisk, At, use
    <3>6. \A s \in Supers : Unwritten(s)' = Unwritten(s)
      BY <3>1, <3>2, <3>3 DEF Unwritten
    <3>7. QED
      BY <1>1, <2>2, <3>4, <3>5, <3>6, SentKept DEF Threads
  <2>6. GotInv(D)'
    BY <2>2 DEF GotInv, RewindDisk, Supers, ScanPcs, At, use, histVars
  <2>7. kind' # "vertices"
    BY <1>5 DEF RewindDisk, use, At, RequestDone, histVars
  <2>8. QED
    BY <2>3, <2>4, <2>5, <2>6, <2>7 DEF StreamData
<1>6. QED
  BY <1>3, <1>4, <1>5 DEF Data

\* Rewind: the last page of a file has to be flushed.  Its effect on the
\* control.
LEMMA StartFlushThreads ==
  ASSUME IInv, ~Overtakes', StartFlush
  PROVE  Threads'
<1>1. Threads
  BY DEF IInv
<1>2. pc = "flush" /\ request = NULL /\ kind \notin {"vertices", "edges"} /\ requestSuperp = APPEND
  <2>1. pc = "flush" /\ requestSuperp = APPEND /\ disk[i].pos > 0
    BY DEF StartFlush, At, NeedsFlush
  <2>2. kind # "vertices"
    BY <2>1, FirstSuper DEF IInv, Threads, Data, VertexInv
  <2>3. kind # "edges"
    <3>1. SUFFICES ASSUME kind = "edges" PROVE FALSE
      OBVIOUS
    <3>2. PICK D : FileInv(D)
      BY <2>2 DEF IInv, Data, StreamData
    <3>3. Tail_(i, D)
      BY <1>1, <2>1, <3>2 DEF Threads, Place, FileInv
    <3>4. QED
      BY <2>1, <3>1, <3>3 DEF Tail_
  <2>4. QED
    BY <1>1, <2>1, <2>2, <2>3 DEF Threads, RequestInv
<1>3. ~Work /\ queue = 0 /\ io # "busy"
  BY <1>1, <1>2, NoWork DEF Threads, StartFlush, At, Fields, RequestDone
<1>4. Place'
  BY <1>1, <1>2 DEF Threads, Place, StartFlush, PcInv, Supers, mainVars, use
<1>5. Fields'
  <2>1. /\ {cache', buf', batch'} \subseteq Holders /\ request' \in IF kind' = "vertices" THEN {State, NULL} ELSE Holders
    BY <1>1 DEF Threads, Fields, StartFlush, mainVars, use
  <2>2. requestSuperp' \in Supers' \cup {APPEND} /\ {writeOp', oneShot', flushComplete', eofFlag'} \subseteq BOOLEAN
    BY <1>1, <1>2, <1>3, Basics DEF Threads, Fields, Holders, Supers, StartFlush, At,
       NeedsFlush, AddWork, mainVars, bufferVars, histVars, use
  <2>3. queue' \in 0..1 /\ io' \in {"idle", "busy", "late"} /\ (io' = "busy" => queue' = 0)
    BY <1>1, <1>3 DEF Threads, Fields, StartFlush, AddWork
  <2>4. uptodate' \in [Buffers -> BOOLEAN] /\ dirty' \in [Buffers -> BOOLEAN]
    BY <1>1 DEF Threads, Fields, StartFlush, bufferVars
  <2>5. refcount' \in [Buffers -> Int] /\ refcount'[State] <= 0 /\ startPos' \in Nat /\ fatal' = "no"
    BY <1>1 DEF Threads, Fields, StartFlush, mainVars, bufferVars
  <2>6. QED
    BY <2>1, <2>2, <2>3, <2>4, <2>5 DEF Fields
<1>6. RequestInv'
  BY <1>1, <1>2, <1>3, Basics DEF Overtakes, Threads, RequestInv, StartFlush, Work, AddWork, mainVars,
     bufferVars, use
<1>7. HolderInv'
  BY <1>1 DEF Threads, HolderInv, StartFlush, At, mainVars, use
<1>8. RefInv'
  BY <1>1 DEF Threads, RefInv, StartFlush, At, mainVars, bufferVars, use
<1>9. DirtyInv'
  BY <1>1, <1>2, Basics DEF Threads, DirtyInv, StartFlush, HolderInv, bufferVars
<1>10. AppendInv'
  BY <1>1, <1>2 DEF Threads, AppendInv, StartFlush, HolderInv
<1>11. QED
  BY <1>4, <1>5, <1>6, <1>7, <1>8, <1>9, <1>10 DEF Threads

\* The same step: its effect on the buffers and files.
LEMMA StartFlushData ==
  ASSUME IInv, ~Overtakes', StartFlush
  PROVE  ContentInv' /\ Data'
<1>1. Threads /\ ContentInv /\ Data
  BY DEF IInv
<1>2. Threads'
  BY StartFlushThreads
<1>3. ContentInv'
  BY <1>1 DEF Threads, ContentInv, StartFlush, RequestInv, At, mainVars, bufferVars, use
<1>4. kind # "vertices" /\ kind' = kind
  <2>1. pc' = "flushing" /\ kind' = kind
    BY DEF StartFlush, mainVars, use
  <2>2. QED
    BY <1>2, <2>1 DEF Threads, Place, PcInv, Rewinds
<1>5. PICK D : StreamData(D)
  BY <1>1, <1>4 DEF Data
<1>6. D \in [Supers -> Seq(Items)] /\ FileInv(D) /\ SentInv(D) /\ GotInv(D)
  BY <1>5 DEF StreamData
<1>7. (D \in [Supers -> Seq(Items)])'
  BY <1>6 DEF Supers, StartFlush, mainVars, use
<1>8. FileInv(D)'
  BY <1>2, <1>6 DEF Threads, FileInv, StartFlush, RequestInv, Supers, WritePcs, Writing, Tail_,
     ScanPcs, At, mainVars, use
<1>9. SentInv(D)'
  <2>1. \A s \in Supers : ToWrite(s)' = ToWrite(s)
    BY <1>2 DEF Threads, RequestInv, ToWrite, StartFlush
  <2>2. Cached' = Cached
    <3>1. DiskEmpty' <=> DiskEmpty
      BY EmptyKept DEF StartFlush, mainVars, use
    <3>2. QED
      BY <1>2 DEF Threads, HolderInv, Cached, StartFlush
  <2>3. \A s \in Supers : ToAppend(s)' = ToAppend(s)
    BY DEF ToAppend, StartFlush, At
  <2>4. UNCHANGED <<kind, superPartitions, sent>>
    BY DEF StartFlush, mainVars, histVars, use
  <2>5. /\ batch' # NULL /\ pc' # "spillBatch" =>
              batch # NULL /\ pc # "spillBatch" /\ content'[batch'] = content[batch]
        /\ kind = "ingested" /\ cache' = NULL /\ (request' # NULL \/ disk'[0].bytes > 0) =>
              cache = NULL /\ (request # NULL \/ disk[0].bytes > 0)
        /\ pc' = "spillBatch" => /\ pc = "spillBatch" /\ content'[cache'] = content[cache]
                                 /\ uptodate'[request'] = uptodate[request] /\ disk'[0].bytes = disk[0].bytes
    BY DEF StartFlush, At, mainVars, bufferVars, use
  <2>6. \A s \in Supers : Unwritten(s)' = Unwritten(s)
    BY <2>1, <2>2, <2>3 DEF Unwritten
  <2>7. QED
    BY <1>1, <1>6, <2>4, <2>5, <2>6, SentKept DEF Threads
<1>10. GotInv(D)'
  BY <1>2, <1>6 DEF Threads, GotInv, StartFlush, HolderInv, RefInv, Supers, ScanPcs, At,
     mainVars, histVars, use
<1>11. QED
  BY <1>3, <1>4, <1>7, <1>8, <1>9, <1>10 DEF Data, StreamData

\* Rewind_file for the next of the files.  Its effect on the control.
LEMMA RewindFileThreads ==
  ASSUME IInv, RewindFile
  PROVE  Threads'
<1>1. Threads
  BY DEF IInv
<1>2. Place'
  BY <1>1, Basics DEF Threads, Place, RewindFile, PcInv, Supers, At, AfterRewind, use, Rewinds,
     Reading
<1>3. Fields'
  BY <1>1 DEF Threads, Fields, RewindFile, Supers, use, bufferVars
<1>4. RequestInv'
  BY <1>1 DEF Threads, RequestInv, RewindFile, Work, At, AfterRewind, use, bufferVars
<1>5. HolderInv'
  BY <1>1 DEF Threads, HolderInv, RewindFile, At, AfterRewind, use
<1>6. RefInv'
  BY <1>1 DEF Threads, RefInv, RewindFile, At, AfterRewind, use, bufferVars
<1>7. DirtyInv'
  BY <1>1, Basics DEF Threads, DirtyInv, RewindFile, HolderInv, At, AfterRewind, bufferVars
<1>8. AppendInv'
  BY <1>1 DEF Threads, AppendInv, RewindFile, RequestInv, HolderInv, At, AfterRewind
<1>9. QED
  BY <1>2, <1>3, <1>4, <1>5, <1>6, <1>7, <1>8 DEF Threads

\* The same step: its effect on the buffers and files.
LEMMA RewindFileData ==
  ASSUME IInv, RewindFile
  PROVE  ContentInv' /\ Data'
<1>1. Threads /\ ContentInv /\ Data
  BY DEF IInv
<1>2. Threads'
  BY RewindFileThreads
<1>3. /\ pc \in {"flush", "flushing"} /\ pc' \in {"flush", "scan", "load"}
      /\ request = NULL /\ cache = NULL /\ ~Work /\ i \in Supers /\ Supers = 0..superPartitions - 1
      /\ superPartitions \in Nat \ {0}
  <2>1. pc \in {"flush", "flushing"} /\ pc' \in {"flush", "scan", "load"}
    BY DEF RewindFile, At, AfterRewind
  <2>2. request = NULL /\ cache = NULL
    BY <1>1, <2>1 DEF Threads, RequestInv, HolderInv
  <2>3. pc = "flush" \/ flushComplete
    BY <2>1 DEF RewindFile, At
  <2>4. ~Work
    BY <1>1, <2>1, <2>2, <2>3 DEF Threads, RequestInv
  <2>5. QED
    BY <1>1, <2>1, <2>2, <2>4, FirstSuper DEF Threads, Supers
<1>4. /\ disk' = [disk EXCEPT ![i].seek = 0, ![i].pos = 0]
      /\ UNCHANGED <<use, cycle, buf, startPos, request, cache, writeOp, oneShot, flushComplete,
                   eofFlag, queue, io, bufferVars, histVars, fatal>>
      /\ \/ i < superPartitions - 1 /\ i' = i + 1 /\ pc' = "flush" /\ UNCHANGED <<superp, requestSuperp>>
         \/ i = superPartitions - 1 /\ requestSuperp' = APPEND /\ superp' = 0 /\ pc' \in {"load", "scan"}
            /\ i' = i
  <2>1. i < superPartitions - 1 \/ i = superPartitions - 1
    BY <1>3
  <2>2. QED
    BY <2>1 DEF RewindFile, AfterRewind
<1>5. Supers' = Supers
  BY <1>4 DEF Supers, use
<1>6. ~Work' /\ request' = NULL /\ cache' = NULL
  BY <1>3, <1>4 DEF Work
<1>7. ASSUME disk \in [Supers -> Disks]
      PROVE  /\ disk' \in [Supers -> Disks] /\ \A s \in Supers : disk'[s].bytes = disk[s].bytes /\ disk'[s].file = disk[s].file
             /\ \A s \in Supers : s # i => disk'[s] = disk[s]
             /\ disk'[i] = [disk[i] EXCEPT !.seek = 0, !.pos = 0] /\ disk'[i].pos = 0
  <2>1. disk[i] \in Disks
    BY <1>3, <1>7
  <2>2. [disk[i] EXCEPT !.seek = 0, !.pos = 0] \in Disks
    BY <2>1 DEF Disks
  <2>3. disk'[i] = [disk[i] EXCEPT !.seek = 0, !.pos = 0]
    BY <1>3, <1>4, <1>7, <2>1 DEF Disks
  <2>4. disk'[i].bytes = disk[i].bytes /\ disk'[i].file = disk[i].file /\ disk'[i].pos = 0
    BY <2>1, <2>3 DEF Disks
  <2>5. \A s \in Supers : s # i => disk'[s] = disk[s]
    BY <1>4, <1>7
  <2>6. DOMAIN disk' = Supers /\ disk' = [s \in Supers |-> disk'[s]]
    BY <1>4, <1>7
  <2>7. \A s \in Supers : disk'[s] \in Disks
    BY <1>7, <2>2, <2>3, <2>5
  <2>8. disk' \in [Supers -> Disks]
    BY <2>6, <2>7
  <2>9. QED
    BY <2>3, <2>4, <2>5, <2>8
<1>8. ContentInv'
  BY <1>1 DEF ContentInv, RewindFile, NeedsFlush, AfterRewind, use, bufferVars
<1>9. ASSUME kind = "vertices"
      PROVE  VertexInv' /\ kind' = "vertices"
  <2>1. VertexInv
    BY <1>1, <1>9 DEF Data
  <2>2. /\ disk' \in [Supers -> Disks] /\ \A s \in Supers : disk'[s].bytes = disk[s].bytes /\ disk'[s].file = disk[s].file
        /\ \A s \in Supers : disk'[s].pos = disk[s].pos
    BY <1>7, <2>1 DEF VertexInv
  <2>3. UNCHANGED <<sent, got, content, cycle, kind>>
    BY <1>4 DEF use, bufferVars, histVars
  <2>4. /\ pc \notin {"storing", "store", "prepare", "work"} /\ pc' \notin {"storing", "store", "prepare", "work"}
        /\ superp' = superp \/ superp' = 0
    BY <1>3, <1>4
  <2>5. ASSUME NEW s \in Supers
        PROVE  /\ disk'[s].pos = 0 /\ disk'[s].bytes = 0 /\ got'[s] = <<>>
               /\ sent'[s] = <<>> \/ \E c \in 0..Cycles : sent'[s] = << <<s, c, 1>> >>
               /\ Len(disk'[s].file) <= 1
               /\ disk'[s].file = sent'[s]
               /\ cycle' > 0 \/ s < superp' => sent'[s] # <<>>
    <3>1. /\ disk[s].pos = 0 /\ disk[s].bytes = 0 /\ got[s] = <<>>
          /\ sent[s] = <<>> \/ \E c \in 0..Cycles : sent[s] = << <<s, c, 1>> >>
          /\ Len(disk[s].file) <= 1
          /\ disk[s].file = sent[s]
          /\ cycle > 0 \/ s < superp => sent[s] # <<>>
      BY <2>1, <2>4 DEF VertexInv
    <3>2. s < superp' => s < superp
      BY <1>3, <2>4
    <3>3. QED
      BY <2>2, <2>3, <3>1, <3>2
  <2>6. {sent', got'} \subseteq [Supers -> Seq(Items)]
    BY <2>1, <2>3 DEF VertexInv
  <2>7. QED
    BY <1>5, <1>9, <2>2, <2>3, <2>4, <2>5, <2>6 DEF VertexInv
<1>10. ASSUME kind # "vertices"
      PROVE  (\E D : StreamData(D))' /\ kind' # "vertices"
  <2>1. PICK D : StreamData(D)
    BY <1>1, <1>10 DEF Data
  <2>2. D \in [Supers -> Seq(Items)] /\ FileInv(D) /\ SentInv(D) /\ GotInv(D)
    BY <2>1 DEF StreamData
  <2>3. (D \in [Supers -> Seq(Items)])'
    BY <2>2 DEF Supers, RewindFile, use
  <2>4. FileInv(D)'
    <3>1. disk \in [Supers -> Disks] /\ kind' = kind /\ superPartitions' = superPartitions
      BY <2>2, <1>4 DEF FileInv, use
    <3>2. disk[i] \in Disks /\ D[i] \in Seq(Items) /\ disk[i].bytes = Len(D[i])
      BY <2>2, <1>3 DEF FileInv
    <3>3. Complete(disk[i], D[i])
      <4>1. CASE pc = "flushing"
        <5>1. flushComplete
          BY <4>1 DEF RewindFile, At
        <5>2. QED
          BY <2>2, <1>3, <4>1, <5>1 DEF FileInv
      <4>2. CASE pc = "flush"
        <5>1. Tail_(i, D) /\ ~NeedsFlush /\ disk[i].pos \in Nat
          <6>1. ~(i < i)
            BY <1>3
          <6>2. QED
            BY <2>2, <1>3, <4>2 DEF FileInv, RewindFile, At, Disks
        <5>2. CASE Reads(disk[i], D[i])
          BY <5>2 DEF Reads
        <5>3. CASE requestSuperp = APPEND /\ Flushing(disk[i], D[i])
          <6>1. disk[i].pos = disk[i].bytes
            BY <5>3 DEF Flushing, Carried
          <6>2. disk[i].bytes = 0
            BY <3>2, <5>1, <5>3, <6>1 DEF NeedsFlush, Disks
          <6>3. Reads(disk[i], D[i])
            BY <3>2, <5>3, <6>2, EmptyFile
          <6>4. QED
            BY <6>3 DEF Reads
        <5>4. QED
          BY <5>1, <5>2, <5>3 DEF Tail_
      <4>3. QED
        BY <1>3, <4>1, <4>2
    <3>4. Reads(disk'[i], D[i]) /\ disk'[i].pos = 0
      BY <1>7, <3>1, <3>2, <3>3, RewoundReads
    <3>5. ASSUME NEW s \in Supers
          PROVE  /\ disk'[s].pos <= disk'[s].bytes /\ disk'[s].bytes = Len(D[s])
                 /\ (superPartitions = 1 => OfFirst(D[s]))
                 /\ s < i \/ s = i => disk'[s].pos = 0 /\ Reads(disk'[s], D[s])
                 /\ s > i /\ pc' = "flush" => Tail_(s, D)'
      <4>1. /\ disk[s].pos <= disk[s].bytes /\ disk[s].bytes = Len(D[s]) /\ disk[s].bytes \in Nat
            /\ (superPartitions = 1 => OfFirst(D[s]))
            /\ s < i => disk[s].pos = 0 /\ Reads(disk[s], D[s])
            /\ ~(s < i) => Tail_(s, D)
        BY <2>2, <1>3, <3>1 DEF FileInv, Disks
      <4>2. disk'[s].bytes = disk[s].bytes /\ (s # i => disk'[s] = disk[s])
        BY <1>7, <3>1
      <4>3. disk'[s].pos <= disk'[s].bytes
        BY <3>4, <4>1, <4>2
      <4>4. s < i \/ s = i => disk'[s].pos = 0 /\ Reads(disk'[s], D[s])
        BY <1>3, <3>4, <4>1, <4>2
      <4>5. ASSUME s > i, pc' = "flush" PROVE Tail_(s, D)'
        <5>1. disk'[s] = disk[s] /\ Tail_(s, D) /\ requestSuperp' = requestSuperp
          BY <1>3, <1>4, <4>1, <4>2, <4>5
        <5>2. QED
          BY <3>1, <5>1 DEF Tail_
      <4>6. QED
        BY <4>1, <4>2, <4>3, <4>4, <4>5
    <3>6. ~(pc' \in WritePcs \/ Writing') /\ pc' \notin {"ingest", "rewind", "flushing", "merge"}
      BY <1>3, <1>6 DEF WritePcs, Writing
    <3>7. ASSUME NEW s \in Supers, pc' = "flush"
          PROVE  IF s < i' THEN disk'[s].pos = 0 /\ Reads(disk'[s], D[s]) ELSE Tail_(s, D)'
      <4>1. i' = i + 1
        BY <1>4, <3>7
      <4>2. (s < i' => s < i \/ s = i) /\ (~(s < i') => s > i)
        BY <1>3, <4>1
      <4>3. QED
        BY <3>5, <3>7, <4>2
    <3>8. ASSUME NEW s \in Supers, pc' = "scan"
          PROVE  Reads(disk'[s], D[s]) /\ disk'[s].pos = 0 /\ ~(s < superp')
      <4>1. i = superPartitions - 1 /\ superp' = 0
        BY <1>4, <3>8
      <4>2. s < i \/ s = i
        BY <1>3, <4>1
      <4>3. ~(s < superp')
        BY <1>3, <4>1
      <4>4. QED
        BY <3>5, <4>2, <4>3
    <3>9. pc' = "flush" \/ pc' = "scan" \/ pc' = "load"
      BY <1>3
    <3>10. disk' \in [Supers -> Disks]
      BY <1>7, <3>1
    <3>11. QED
      BY <1>5, <3>1, <3>5, <3>6, <3>7, <3>8, <3>9, <3>10 DEF FileInv, ScanPcs
  <2>5. SentInv(D)'
    <3>1. \A s \in Supers : disk'[s].bytes = disk[s].bytes
      BY <2>2, <1>7 DEF FileInv
    <3>2. /\ UNCHANGED <<kind, superPartitions, sent, batch, content, uptodate>> /\ 0 \in Supers
          /\ pc # "spillBatch"
      BY <1>3, <1>4 DEF use, bufferVars, histVars
    <3>3. \A s \in Supers : Unwritten(s)' = Unwritten(s)
      BY <1>3, <1>6 DEF Unwritten, ToWrite, Cached, ToAppend
    <3>4. disk'[0].bytes = disk[0].bytes
      BY <3>1, <3>2
    <3>5. QED
      BY <1>1, <2>2, <1>3, <1>6, <3>2, <3>3, <3>4, SentKept DEF Threads
  <2>6. GotInv(D)'
    <3>1. got' = got /\ \A s \in Supers : got[s] = <<>>
      BY <2>2, <1>3, <1>4 DEF GotInv, histVars, ScanPcs
    <3>2. ASSUME pc' = "scan"
          PROVE  /\ superp' \in Supers
                 /\ Join(got'[superp'], ToGet') = SubSeq(D[superp'], 1, disk'[superp'].pos)
      <4>1. superp' = 0 /\ 0 \in Supers /\ i = superPartitions - 1
        BY <1>1, <1>4, <3>2, FirstSuper DEF Threads
      <4>2. disk'[0].pos = 0
        <5>1. disk \in [Supers -> Disks]
          BY <2>2 DEF FileInv
        <5>2. CASE i = 0
          BY <1>7, <5>1, <5>2
        <5>3. CASE i # 0
          <6>1. 0 < i
            BY <1>3, <5>3
          <6>2. disk[0].pos = 0
            BY <2>2, <1>3, <4>1, <6>1 DEF FileInv
          <6>3. QED
            BY <1>7, <4>1, <5>1, <5>3, <6>2
        <5>4. QED
          BY <5>2, <5>3
      <4>3. D[0] \in Seq(Items) /\ <<>> \in Seq(Items)
        BY <2>2, <4>1
      <4>4. ToGet' = <<>>
        BY <1>6, <3>2, <4>3, Joins DEF ToGet
      <4>5. Join(got'[0], ToGet') = <<>>
        BY <3>1, <4>1, <4>3, <4>4, Joins
      <4>6. SubSeq(D[0], 1, disk'[0].pos) = <<>>
        BY <4>2, <4>3, NothingOf
      <4>7. QED
        BY <4>1, <4>5, <4>6
    <3>3. pc' # "reading" /\ cache' = NULL /\ (pc' \in ScanPcs => pc' = "scan")
      BY <1>3, <1>6 DEF ScanPcs
    <3>4. got' \in [Supers -> Seq(Items)]
      BY <2>2, <3>1 DEF GotInv
    <3>5. QED
      BY <1>5, <3>1, <3>2, <3>3, <3>4 DEF GotInv
  <2>7. kind' # "vertices"
    BY <1>10 DEF RewindFile, use
  <2>8. QED
    BY <2>3, <2>4, <2>5, <2>6, <2>7 DEF StreamData
<1>11. QED
  BY <1>8, <1>9, <1>10 DEF Data

\* Reset: the cached buffer is given back, the file is truncated.  Its
\* effect on the control.
LEMMA ResetThreads ==
  ASSUME IInv, Reset
  PROVE  Threads'
<1>1. Threads
  BY DEF IInv
<1>2. ~Work /\ queue = 0 /\ io # "busy" /\ \A b \in Buffers : uptodate[b]
  BY <1>1, NoWork DEF Threads, Reset, At, Place, Fields
<1>3. pc = "reset" /\ request = NULL /\ kind = "updates" /\ batch = NULL
  BY <1>1 DEF Threads, RequestInv, Place, Fields, PcInv, Rewinds, Reading, Reset, At, HolderInv
<1>4. cache # NULL => cache \in Pool /\ uptodate[cache]
  BY <1>1, <1>2, Basics DEF Threads, Place, Fields, Holders
<1>5. fatal' = "no"
  BY <1>3, <1>4 DEF Reset
<1>6. Advance("scan", "fill") /\ cycle # Cycles + 1
  BY <1>1, <1>3 DEF Threads, Place, Reset
<1>7. refcount' \in [Buffers -> Int] /\ refcount'[State] <= 0
  <2>1. refcount \in [Buffers -> Int] /\ refcount[State] <= 0 /\ State \in Buffers
    BY <1>1, Basics DEF Threads, Fields
  <2>2. refcount' = [b \in Buffers |-> refcount[b] - (IF b = cache THEN 1 ELSE 0)]
    BY <1>3, Basics DEF Reset
  <2>3. QED
    BY <2>1, <2>2
<1>8. /\ cache' = NULL /\ request' = NULL /\ requestSuperp' = APPEND /\ eofFlag' = FALSE
      /\ dirty' = [b \in Buffers |-> dirty[b] /\ b # cache] /\ pc' \in {"scan", "done", "fill"}
      /\ UNCHANGED <<use, i, buf, startPos, writeOp, oneShot, flushComplete, queue, io, uptodate>>
  BY <1>3 DEF Reset, Advance
<1>9. Place'
  <2>1. /\ superPartitions \in Nat \ {0} /\ superp \in 0..superPartitions - 1 /\ cycle \in 0..Cycles
        /\ Cycles \in Nat \ {0} /\ i \in 0..superPartitions - 1
    BY <1>1, <1>6, Basics DEF Threads, Place, Supers
  <2>2. /\ superp' \in 0..superPartitions - 1 /\ cycle' \in 0..Cycles + 1 /\ (cycle' = Cycles + 1 => pc' = "done")
        /\ pc' \in {"scan", "done", "fill"}
    BY <1>6, <2>1 DEF Advance
  <2>3. UNCHANGED <<kind, superPartitions, i>>
    BY DEF Reset, use
  <2>4. QED
    BY <1>1, <1>3, <2>2, <2>3 DEF Threads, Place, PcInv, Rewinds, Reading, Supers
<1>10. Fields'
  <2>1. /\ {cache', buf', batch'} \subseteq Holders /\ request' \in IF kind' = "vertices" THEN {State, NULL} ELSE Holders
    BY <1>1, <1>3, <1>8 DEF Threads, Fields, use
  <2>2. requestSuperp' \in Supers' \cup {APPEND} /\ {writeOp', oneShot', flushComplete', eofFlag'} \subseteq BOOLEAN
    BY <1>1, <1>2, <1>3, <1>4, <1>5, <1>6, <1>7, <1>8, Basics DEF Threads, Fields, Holders,
       Supers, vars, mainVars, streamVars, bufferVars, histVars, use
  <2>3. queue' \in 0..1 /\ io' \in {"idle", "busy", "late"} /\ (io' = "busy" => queue' = 0)
    BY <1>1, <1>8 DEF Threads, Fields
  <2>4. uptodate' \in [Buffers -> BOOLEAN] /\ dirty' \in [Buffers -> BOOLEAN]
    BY <1>1, <1>8 DEF Threads, Fields
  <2>5. refcount' \in [Buffers -> Int] /\ refcount'[State] <= 0 /\ startPos' \in Nat /\ fatal' = "no"
    BY <1>1, <1>5, <1>7, <1>8 DEF Threads, Fields
  <2>6. QED
    BY <2>1, <2>2, <2>3, <2>4, <2>5 DEF Fields
<1>11. RequestInv'
  BY <1>1, <1>3, <1>8 DEF Threads, RequestInv, Work, use
<1>12. HolderInv'
  BY <1>3, <1>8 DEF HolderInv, use
<1>13. RefInv'
  <2>1. \A b \in Pool : refcount[b] = One(b = cache)
    BY <1>1, <1>3, Basics DEF Threads, RefInv, One
  <2>2. \A b \in Pool : refcount'[b] = 0
    <3>1. \A b \in Pool : refcount'[b] = refcount[b] - (IF b = cache THEN 1 ELSE 0)
      BY <1>3, Basics DEF Reset
    <3>2. QED
      BY <2>1, <3>1 DEF One
  <2>3. request' = NULL /\ cache' = NULL /\ batch' = NULL /\ pc' \notin {"append", "spill", "consume"}
    BY <1>3 DEF Reset, Advance, use
  <2>4. QED
    BY <2>2, <2>3, Basics DEF RefInv, One
<1>14. DirtyInv'
  BY <1>1, <1>3, <1>8, Basics DEF Threads, DirtyInv, Fields, RequestInv
<1>15. AppendInv'
  BY <1>8 DEF AppendInv
<1>16. QED
  BY <1>9, <1>10, <1>11, <1>12, <1>13, <1>14, <1>15 DEF Threads

\* The same step: its effect on the buffers and files.
LEMMA ResetData ==
  ASSUME IInv, Reset
  PROVE  ContentInv' /\ Data'
<1>1. Threads /\ ContentInv /\ Data
  BY DEF IInv
<1>2. Threads'
  BY ResetThreads
<1>3. ~Work /\ queue = 0 /\ pc = "reset" /\ request = NULL /\ kind = "updates" /\ kind' = "updates" /\ batch = NULL
  <2>1. ~Work /\ queue = 0
    BY <1>1, NoWork DEF Threads, Reset, At, Place, Fields
  <2>2. pc = "reset" /\ request = NULL /\ kind = "updates" /\ batch = NULL
    BY <1>1 DEF Threads, RequestInv, Place, Fields, PcInv, Rewinds, Reading, Reset, At,
       HolderInv
  <2>3. QED
    BY <2>1, <2>2 DEF Reset, use
<1>4. /\ cache' = NULL /\ request' = NULL /\ requestSuperp' = APPEND
      /\ UNCHANGED <<use, i, buf, startPos, writeOp, oneShot, flushComplete, queue, io, uptodate, content>>
      /\ disk' = [disk EXCEPT ![superp] = IF @.bytes = 0 THEN [@ EXCEPT !.pos = 0]
                                          ELSE [EmptyDisk EXCEPT !.page = disk[superp].page]]
      /\ sent' = [sent EXCEPT ![superp] = <<>>] /\ got' = [got EXCEPT ![superp] = <<>>]
  BY <1>3 DEF Reset
<1>5. /\ superPartitions \in Nat \ {0} /\ Supers = 0..superPartitions - 1 /\ superp \in Supers /\ Supers' = Supers
      /\ superPartitions' = superPartitions
  BY <1>1, <1>4, FirstSuper DEF Threads, Supers, use
<1>6. \/ superp < superPartitions - 1 /\ superp' = superp + 1 /\ pc' = "scan"
      \/ superp = superPartitions - 1 /\ superp' = 0 /\ pc' \in {"done", "fill"}
  <2>1. superp < superPartitions - 1 \/ superp = superPartitions - 1
    BY <1>5
  <2>2. QED
    BY <2>1 DEF Reset, Advance
<1>7. ~Work'
  BY <1>3, <1>4 DEF Work
<1>8. ContentInv'
  <2>1. UNCHANGED <<content, superPartitions, batch>> /\ request' = NULL /\ cache' = NULL /\ pc' \notin {"append", "spill"}
    BY <1>4, <1>6 DEF use
  <2>2. QED
    BY <1>1, <2>1 DEF ContentInv
<1>9. kind # "vertices" /\ kind' = kind
  BY <1>3
<1>10. PICK D : StreamData(D)
  BY <1>1, <1>9 DEF Data
<1>11. D \in [Supers -> Seq(Items)] /\ FileInv(D) /\ SentInv(D) /\ GotInv(D)
  BY <1>10 DEF StreamData
<1>12. PICK E : E = [D EXCEPT ![superp] = <<>>]
  OBVIOUS
<1>13. E[superp] = <<>> /\ \A s \in Supers : s # superp => E[s] = D[s]
  BY <1>5, <1>11, <1>12
<1>14. \A s \in Supers : disk[s] \in Disks /\ Reads(disk[s], D[s]) /\ (s < superp => disk[s].bytes = 0) /\ (s > superp => disk[s].pos = 0)
  BY <1>3, <1>5, <1>11 DEF FileInv, ScanPcs
<1>15. disk'[superp] \in Disks /\ disk'[superp].pos = 0 /\ disk'[superp].bytes = 0 /\ disk'[superp].seek = 0
  <2>1. disk[superp] \in Disks /\ D[superp] \in Seq(Items) /\ disk \in [Supers -> Disks] /\ Reads(disk[superp], D[superp])
    BY <1>5, <1>14, <1>11 DEF FileInv
  <2>2. CASE disk[superp].bytes = 0
    <3>1. disk'[superp] = [disk[superp] EXCEPT !.pos = 0]
      BY <1>4, <1>5, <2>1, <2>2
    <3>2. disk[superp].seek = 0
      BY <2>1, <2>2, EmptyFile
    <3>3. [disk[superp] EXCEPT !.pos = 0] \in Disks
      BY <2>1 DEF Disks
    <3>4. disk'[superp].pos = 0 /\ disk'[superp].bytes = 0 /\ disk'[superp].seek = 0
      BY <2>1, <2>2, <3>1, <3>2 DEF Disks
    <3>5. QED
      BY <3>1, <3>3, <3>4
  <2>3. CASE disk[superp].bytes # 0
    <3>1. disk'[superp] = [EmptyDisk EXCEPT !.page = disk[superp].page]
      BY <1>4, <1>5, <2>1, <2>3
    <3>2. <<>> \in Seq(Cells)
      OBVIOUS
    <3>3. disk'[superp] = [file |-> <<>>, seek |-> 0, pos |-> 0, bytes |-> 0, page |-> disk[superp].page]
      BY <3>1 DEF EmptyDisk
    <3>4. disk[superp].page \in [1..PageSize -> Cells]
      BY <2>1 DEF Disks
    <3>5. QED
      BY <3>2, <3>3, <3>4 DEF Disks
  <2>4. QED
    BY <2>2, <2>3
<1>16. Holds(disk'[superp], <<>>) /\ Reads(disk'[superp], <<>>)
  BY <1>15, NothingHeld
<1>17. \A s \in Supers : s # superp => disk'[s] = disk[s]
  BY <1>4, <1>11 DEF FileInv
<1>18. disk' \in [Supers -> Disks]
  <2>1. disk' = [s \in Supers |-> disk'[s]]
    BY <1>4, <1>11 DEF FileInv
  <2>2. \A s \in Supers : disk'[s] \in Disks
    BY <1>14, <1>15, <1>17
  <2>3. QED
    BY <2>1, <2>2
<1>19. ASSUME NEW s \in Supers
      PROVE  /\ Reads(disk'[s], E[s]) /\ (s < superp \/ s = superp => disk'[s].bytes = 0 /\ Holds(disk'[s], E[s]))
             /\ disk'[s].pos = 0
  <2>1. CASE s = superp
    BY <1>13, <1>15, <1>16, <2>1
  <2>2. CASE s < superp
    <3>1. s # superp
      BY <1>5, <2>2
    <3>2. disk[s] \in Disks /\ Reads(disk[s], D[s]) /\ disk[s].bytes = 0 /\ D[s] \in Seq(Items)
      BY <1>14, <1>11, <2>2
    <3>3. Holds(disk[s], D[s]) /\ disk[s].pos = 0
      BY <3>2, EmptyFile
    <3>4. QED
      BY <1>13, <1>17, <3>1, <3>2, <3>3
  <2>3. CASE s > superp
    <3>1. s # superp /\ ~(s < superp)
      BY <1>5, <2>3
    <3>2. QED
      BY <1>13, <1>14, <1>17, <2>3, <3>1
  <2>4. QED
    BY <1>5, <2>1, <2>2, <2>3
<1>20. (E \in [Supers -> Seq(Items)])'
  BY <1>11, <1>12, <1>5
<1>21. FileInv(E)'
  <2>1. ASSUME NEW s \in Supers
        PROVE  /\ disk'[s].pos <= disk'[s].bytes /\ disk'[s].bytes = Len(E[s])
               /\ (superPartitions = 1 => OfFirst(E[s]))
    <3>1. disk'[s].bytes = Len(E[s]) /\ disk'[s].pos <= disk'[s].bytes
      <4>1. Reads(disk'[s], E[s]) /\ disk'[s].pos = 0 /\ disk'[s] \in Disks
        BY <1>18, <1>19
      <4>2. QED
        BY <4>1 DEF Reads, Disks
    <3>2. superPartitions = 1 => OfFirst(E[s])
      <4>1. OfFirst(<<>>)
        BY DEF OfFirst
      <4>2. superPartitions = 1 => OfFirst(D[s])
        BY <1>11 DEF FileInv
      <4>3. QED
        BY <1>13, <4>1, <4>2
    <3>3. QED
      BY <3>1, <3>2
  <2>2. ~Writing' /\ pc' \notin {"ingest", "rewind", "flush", "flushing", "merge"}
    BY <1>4, <1>6 DEF Writing
  <2>3. ASSUME NEW s \in Supers, pc' \in WritePcs PROVE Holds(disk'[s], E[s])
    <3>1. s < superp \/ s = superp
      BY <1>5, <1>6, <2>3 DEF WritePcs
    <3>2. QED
      BY <1>19, <3>1
  <2>4. ASSUME NEW s \in Supers, pc' \in ScanPcs, s < superp' PROVE disk'[s].bytes = 0
    <3>1. s < superp \/ s = superp
      BY <1>5, <1>6, <2>4 DEF ScanPcs
    <3>2. QED
      BY <1>19, <3>1
  <2>5. QED
    BY <1>4, <1>5, <1>18, <1>19, <2>1, <2>2, <2>3, <2>4 DEF FileInv
<1>22. SentInv(E)'
  <2>1. ASSUME NEW s \in Supers
        PROVE  sent'[s] = Join(E[s], Unwritten(s)') /\ sent'[s] \in Seq(Items) /\ Len(sent'[s]) <= MaxItems
    <3>1. <<>> \in Seq(Items) /\ Join(<<>>, <<>>) = <<>>
      BY <1>11, Joins
    <3>2. Unwritten(s)' = <<>>
      BY <1>4, <1>6, <3>1 DEF Unwritten, ToWrite, Cached, ToAppend
    <3>3. CASE s = superp
      <4>1. sent'[s] = <<>> /\ E[s] = <<>>
        BY <1>4, <1>5, <1>13, <1>11, <3>3 DEF SentInv
      <4>2. Len(<<>>) <= MaxItems
        BY Basics
      <4>3. QED
        BY <3>1, <3>2, <4>1, <4>2
    <3>4. CASE s # superp
      <4>1. cache = NULL
        BY <1>1, <1>5, <3>4, FirstSuper DEF Threads, HolderInv
      <4>2. Unwritten(s) = <<>>
        BY <1>3, <3>1, <4>1 DEF Unwritten, ToWrite, Cached, ToAppend
      <4>3. sent[s] = Join(D[s], <<>>) /\ Len(sent[s]) <= MaxItems /\ sent[s] \in Seq(Items)
        BY <1>3, <1>11, <4>2 DEF SentInv
      <4>4. sent'[s] = sent[s] /\ E[s] = D[s]
        BY <1>4, <1>13, <1>11, <3>4 DEF SentInv
      <4>5. QED
        BY <3>2, <4>3, <4>4
    <3>5. QED
      BY <3>3, <3>4
  <2>2. sent' \in [Supers -> Seq(Items)]
    <3>1. sent' = [s \in Supers |-> sent'[s]]
      BY <1>4, <1>11 DEF SentInv
    <3>2. QED
      BY <2>1, <3>1
  <2>3. QED
    BY <1>3, <1>5, <2>1, <2>2 DEF SentInv
<1>23. GotInv(E)'
  <2>1. \A s \in Supers : got'[s] = <<>>
    BY <1>3, <1>4, <1>5, <1>11 DEF GotInv, ScanPcs
  <2>2. got' \in [Supers -> Seq(Items)]
    <3>1. got' = [s \in Supers |-> got'[s]]
      BY <1>4, <1>11 DEF GotInv
    <3>2. <<>> \in Seq(Items)
      OBVIOUS
    <3>3. QED
      BY <2>1, <3>1, <3>2
  <2>3. ASSUME NEW s \in Supers, pc' \in ScanPcs
        PROVE  Join(got'[s], ToGet') = SubSeq(E[s], 1, disk'[s].pos)
    <3>1. <<>> \in Seq(Items) /\ Join(<<>>, <<>>) = <<>> /\ E[s] \in Seq(Items)
      <4>1. <<>> \in Seq(Items)
        OBVIOUS
      <4>2. E[s] \in Seq(Items)
        BY <1>13, <1>11, <4>1
      <4>3. QED
        BY <4>1, <4>2, Joins
    <3>2. ToGet' = <<>>
      BY <1>4, <1>6, <3>1 DEF ToGet
    <3>3. SubSeq(E[s], 1, disk'[s].pos) = <<>>
      BY <1>19, <3>1, NothingOf
    <3>4. QED
      BY <2>1, <3>1, <3>2, <3>3
  <2>4. pc' # "reading" /\ cache' = NULL
    BY <1>4, <1>6
  <2>5. QED
    BY <1>5, <2>1, <2>2, <2>3, <2>4 DEF GotInv
<1>24. QED
  BY <1>8, <1>9, <1>20, <1>21, <1>22, <1>23 DEF Data, StreamData

-----------------------------------------------------------------------------
(* The steps of the main thread: scans *)

\* Next_chunk of a stream with a cached buffer.  Its effect on the control.
LEMMA ReadCachedThreads ==
  ASSUME IInv, ReadCached
  PROVE  Threads'
<1>1. Threads
  BY DEF IInv
<1>2. Place'
  BY <1>1 DEF Threads, Place, ReadCached, HolderInv, PcInv, Supers, At, use, Reading
<1>3. Fields'
  BY <1>1, Basics DEF Threads, Fields, ReadCached, HolderInv, Holders, Supers, At, use, Pool
<1>4. RequestInv'
  BY <1>1 DEF Threads, RequestInv, ReadCached, HolderInv, Work, At, use
<1>5. HolderInv'
  BY <1>1 DEF Threads, HolderInv, ReadCached, At, use
<1>6. RefInv'
  BY <1>1, Basics DEF Threads, RefInv, ReadCached, Fields, HolderInv, One, At, use, Supers
<1>7. DirtyInv'
  BY <1>1 DEF Threads, DirtyInv, ReadCached, HolderInv, DiskEmpty, At, use, Supers
<1>8. AppendInv'
  BY <1>1 DEF Threads, AppendInv, ReadCached, HolderInv, WritePcs, DiskEmpty, At, use, Supers
<1>9. QED
  BY <1>2, <1>3, <1>4, <1>5, <1>6, <1>7, <1>8 DEF Threads

\* The same step: its effect on the buffers and files.
LEMMA ReadCachedData ==
  ASSUME IInv, ReadCached
  PROVE  ContentInv' /\ Data'
<1>1. Threads /\ ContentInv /\ Data
  BY DEF IInv
<1>2. Threads'
  BY ReadCachedThreads
<1>3. ContentInv'
  BY <1>1, <1>2 DEF Threads, ContentInv, ReadCached, Fields, use
<1>4. kind # "vertices" /\ kind' = kind
  BY <1>1 DEF Threads, ReadCached, HolderInv, At, use
<1>5. PICK D : StreamData(D)
  BY <1>1, <1>4 DEF Data
<1>6. D \in [Supers -> Seq(Items)] /\ FileInv(D) /\ SentInv(D) /\ GotInv(D)
  BY <1>5 DEF StreamData
<1>7. (D \in [Supers -> Seq(Items)])'
  BY <1>1, <1>2, <1>4, <1>6 DEF Supers, ReadCached, At, StreamEof, use, histVars, Eof
<1>8. FileInv(D)'
  BY <1>2, <1>6 DEF Threads, FileInv, ReadCached, Fields, RequestInv, AppendInv, Supers,
     Writing, ScanPcs, At, use
<1>9. SentInv(D)'
  <2>1. \A s \in Supers : ToWrite(s)' = ToWrite(s)
    BY <1>2 DEF Threads, Fields, ToWrite, ReadCached
  <2>2. Cached' = Cached
    <3>1. DiskEmpty' <=> DiskEmpty
      BY EmptyKept DEF ReadCached, At, StreamEof, use, histVars, Eof
    <3>2. QED
      BY <3>1, <1>2 DEF Threads, HolderInv, Cached, ReadCached
  <2>3. \A s \in Supers : ToAppend(s)' = ToAppend(s)
    BY <1>1, <1>2, <1>4, <1>6, Basics DEF Threads, ToAppend, ReadCached, At, StreamEof, use,
       histVars, Eof
  <2>4. UNCHANGED <<kind, superPartitions, sent>>
    BY <1>1, <1>2, <1>4, <1>6, Basics DEF ReadCached, At, StreamEof, use, histVars, Eof
  <2>5. /\ batch' # NULL /\ pc' # "spillBatch" =>
              batch # NULL /\ pc # "spillBatch" /\ content'[batch'] = content[batch]
        /\ kind = "ingested" /\ cache' = NULL /\ (request' # NULL \/ disk'[0].bytes > 0) =>
              cache = NULL /\ (request # NULL \/ disk[0].bytes > 0)
        /\ pc' = "spillBatch" => /\ pc = "spillBatch" /\ content'[cache'] = content[cache]
                                 /\ uptodate'[request'] = uptodate[request] /\ disk'[0].bytes = disk[0].bytes
    BY <1>1, <1>2, <1>4, <1>6, Basics DEF Threads, ReadCached, At, StreamEof, use, histVars, Eof
  <2>6. \A s \in Supers : Unwritten(s)' = Unwritten(s)
    BY <2>1, <2>2, <2>3 DEF Unwritten
  <2>7. QED
    BY <1>1, <1>6, <2>4, <2>5, <2>6, SentKept DEF Threads
<1>10. GotInv(D)'
  BY <1>2, <1>6 DEF Threads, GotInv, ReadCached, Fields, Supers, DiskEmpty, At, StreamEof, use,
     histVars
<1>11. QED
  BY <1>3, <1>4, <1>7, <1>8, <1>9, <1>10 DEF Data, StreamData

\* Next_chunk makes the first request of a scan.  Its effect on the control.
LEMMA ReadFirstThreads ==
  ASSUME IInv, ReadFirst
  PROVE  Threads'
<1>1. Threads
  BY DEF IInv
<1>2. /\ pc = "scan" /\ ~StreamEof /\ cache = NULL /\ pc' = "reading" /\ startPos' = disk[superp].pos
      /\ UNCHANGED <<use, cycle, superp, i, buf, cache, oneShot, flushComplete, eofFlag, disk, io,
                     content, dirty, histVars, fatal>>
  BY DEF ReadFirst, At
<1>3. kind # "vertices" /\ cycle # Cycles + 1
  BY <1>1, <1>2 DEF Threads, Place, PcInv, Rewinds
<1>4. superp \in Supers /\ startPos' \in Nat /\ disk[superp].bytes \in Nat /\ disk[superp].pos <= disk[superp].bytes
  BY <1>1, <1>2, Types, FirstSuper DEF Threads
<1>5. PICK b : b = Min(FreeBuffers)
  OBVIOUS
<1>6. ASSUME request = NULL
      PROVE  /\ b \in Pool /\ b # NULL /\ b # State /\ refcount[b] = 0
             /\ b \notin {request, cache, batch} /\ uptodate[b] /\ ~dirty[b]
             /\ ~Work /\ queue = 0 /\ io # "busy" /\ \A c \in Buffers : uptodate[c]
             /\ request' = b /\ writeOp' = FALSE /\ requestSuperp' = superp /\ queue' = 1
             /\ uptodate' = [uptodate EXCEPT ![b] = FALSE] /\ refcount' = [refcount EXCEPT ![b] = 1]
             /\ disk[superp].bytes > 0
  <2>1. /\ FreeBuffers # {} /\ Submit(b, FALSE) /\ refcount' = [refcount EXCEPT ![request'] = 1]
        /\ requestSuperp' = superp
    BY <1>5, <1>6 DEF ReadFirst
  <2>2. /\ b \in Pool /\ b # NULL /\ b # State /\ refcount[b] = 0
        /\ b \notin {request, cache, batch} /\ uptodate[b] /\ ~dirty[b]
    BY <1>1, <1>5, <2>1, FreeBuffer DEF Threads
  <2>3. ~Work /\ queue = 0 /\ io # "busy" /\ \A c \in Buffers : uptodate[c]
    BY <1>1, <1>2, <1>6, NoWork DEF Threads, RequestDone
  <2>4. disk[superp].pos # disk[superp].bytes
    BY <1>2, <1>6 DEF StreamEof, Eof
  <2>5. io # "busy"
    BY <1>1, <1>2, <2>3 DEF Threads, Fields
  <2>6. disk[superp].bytes > 0
    BY <1>1, <1>4, <2>4, Types, FirstSuper DEF Threads
  <2>7. QED
    BY <2>1, <2>2, <2>3, <2>5, <2>6 DEF Submit, AddWork
<1>7. ASSUME request # NULL
      PROVE  ~writeOp /\ requestSuperp = superp
             /\ UNCHANGED <<request, requestSuperp, writeOp, uptodate, queue, refcount>>
  BY <1>1, <1>2, <1>3, <1>7 DEF ReadFirst, Threads, RequestInv, WritePcs
<1>8. queue' \in 0..1 /\ (io' = "busy" => queue' = 0)
  <2>1. CASE request = NULL
    <3>1. io # "busy" /\ queue' = 1
      BY <1>6, <2>1
    <3>2. io' = io
      BY <1>2
    <3>3. QED
      BY <3>1, <3>2
  <2>2. CASE request # NULL
    BY <1>1, <1>2, <1>7, <2>2 DEF Threads, Fields
  <2>3. QED
    BY <2>1, <2>2
<1>9. refcount' \in [Buffers -> Int] /\ refcount'[State] <= 0
  <2>1. CASE request = NULL
    <3>1. refcount' = [refcount EXCEPT ![b] = 1] /\ b \in Pool
      BY <1>6, <2>1
    <3>2. QED
      BY <1>1, <3>1, Basics DEF Threads, Fields
  <2>2. CASE request # NULL
    BY <1>1, <1>7, <2>2 DEF Threads, Fields
  <2>3. QED
    BY <2>1, <2>2
<1>10. Place'
  BY <1>1, <1>2, <1>3 DEF Threads, Place, PcInv, Supers, Reading, use
<1>11. Fields'
  <2>1. /\ {cache', buf', batch'} \subseteq Holders /\ request' \in IF kind' = "vertices" THEN {State, NULL} ELSE Holders
    BY ZenonT(40), <1>1, <1>2, <1>3, <1>4, <1>5, <1>6, <1>7, <1>8, <1>9, Basics DEF Threads, Fields,
       Holders, Supers, vars, mainVars, streamVars, bufferVars, histVars, use
  <2>2. requestSuperp' \in Supers' \cup {APPEND} /\ {writeOp', oneShot', flushComplete', eofFlag'} \subseteq BOOLEAN
    BY <1>1, <1>2, <1>3, <1>4, <1>5, <1>6, <1>7, <1>8, <1>9, Basics DEF Threads, Fields,
       Holders, Supers, vars, mainVars, streamVars, bufferVars, histVars, use
  <2>3. queue' \in 0..1 /\ io' \in {"idle", "busy", "late"} /\ (io' = "busy" => queue' = 0)
    BY <1>1, <1>2, <1>8 DEF Threads, Fields
  <2>4. uptodate' \in [Buffers -> BOOLEAN] /\ dirty' \in [Buffers -> BOOLEAN]
    BY <1>1, <1>2, <1>3, <1>4, <1>5, <1>6, <1>7, <1>8, <1>9, Basics DEF Threads, Fields,
       Holders, Supers, vars, mainVars, streamVars, bufferVars, histVars, use
  <2>5. refcount' \in [Buffers -> Int] /\ refcount'[State] <= 0 /\ startPos' \in Nat /\ fatal' = "no"
    BY <1>1, <1>2, <1>4, <1>9 DEF Threads, Fields
  <2>6. QED
    BY <2>1, <2>2, <2>3, <2>4, <2>5 DEF Fields
<1>12. RequestInv'
  <2>1. CASE request = NULL
    BY <1>2, <1>3, <1>6, <2>1, <1>1 DEF Threads, Fields, RequestInv, Work, use
  <2>2. CASE request # NULL
    BY <1>1, <1>2, <1>7, <2>2 DEF Threads, RequestInv, Work, use
  <2>3. QED
    BY <2>1, <2>2
<1>13. HolderInv'
  BY <1>1, <1>2, <1>3, <1>4, <1>5, <1>6, <1>7, <1>8, <1>9, Basics DEF Threads, HolderInv, vars,
     Place, Fields, RequestInv, RefInv, DirtyInv, AppendInv, mainVars, streamVars, bufferVars,
     histVars, PcInv, Supers, Holders, State, Buffers, Work, WritePcs, Pool, One, DiskEmpty,
     use, Rewinds, Reading
<1>14. RefInv'
  <2>1. \A c \in Pool : refcount[c] = One(c = request) + One(c = batch)
    BY <1>1, <1>2, Basics DEF Threads, RefInv, One
  <2>2. \A c \in Pool : refcount'[c] = One(c = request') + One(c = batch)
    <3>1. CASE request = NULL
      <4>1. \A c \in Pool : refcount[c] = One(c = batch) /\ refcount[c] \in Int
        BY <2>1, <3>1, Basics DEF One
      <4>2. refcount'[b] = 1 /\ \A c \in Pool : c # b => refcount'[c] = refcount[c]
        BY <1>1, <1>6, <3>1, TakesBuffer DEF Threads
      <4>3. request' = b /\ b # batch
        BY <1>6, <3>1
      <4>4. QED
        BY <4>1, <4>2, <4>3 DEF One
    <3>2. CASE request # NULL
      BY <1>7, <2>1, <3>2
    <3>3. QED
      BY <3>1, <3>2
  <2>3. cache' = NULL /\ batch' = batch /\ pc' \notin {"append", "spill", "consume"}
    BY <1>2 DEF use
  <2>4. QED
    BY <2>2, <2>3, Basics DEF RefInv, One
<1>15. DirtyInv'
  BY <1>1, <1>2, <1>3, <1>4, <1>5, <1>6, <1>7, <1>8, <1>9, Basics DEF Threads, DirtyInv, vars,
     Place, Fields, RequestInv, HolderInv, RefInv, AppendInv, Pool, DiskEmpty, mainVars,
     streamVars, bufferVars, histVars, PcInv, Supers, Holders, State, Buffers, Work, WritePcs,
     One, use, Rewinds, Reading
<1>16. AppendInv'
  <2>1. request' # NULL /\ ~writeOp' /\ cache' = NULL /\ pc' = "reading" /\ UNCHANGED <<disk, superp, kind>>
    <3>1. request' # NULL /\ ~writeOp'
      <4>1. CASE request = NULL
        BY <1>6, <4>1
      <4>2. CASE request # NULL
        BY <1>7, <4>2
      <4>3. QED
        BY <4>1, <4>2
    <3>2. QED
      BY <1>2, <3>1 DEF use
  <2>2. disk[superp].bytes > 0
    BY <1>1, <1>3, <1>6, <1>7 DEF Threads, AppendInv
  <2>3. QED
    BY <2>1, <2>2 DEF AppendInv, WritePcs
<1>17. QED
  BY <1>10, <1>11, <1>12, <1>13, <1>14, <1>15, <1>16 DEF Threads

\* The same step: its effect on the buffers and files.
LEMMA ReadFirstData ==
  ASSUME IInv, ReadFirst
  PROVE  ContentInv' /\ Data'
<1>1. Threads /\ ContentInv /\ Data
  BY DEF IInv
<1>2. Threads'
  BY ReadFirstThreads
<1>3. /\ pc = "scan" /\ pc' = "reading" /\ cache = NULL /\ cache' = NULL /\ startPos' = disk[superp].pos
      /\ UNCHANGED <<use, cycle, superp, i, disk, content, histVars, eofFlag>>
  BY DEF ReadFirst, At
<1>4. /\ superp \in Supers /\ superp # APPEND /\ superPartitions' = superPartitions /\ kind' = kind /\ batch' = batch
      /\ Supers' = Supers /\ (kind = "ingested" => superp = 0) /\ Supers \subseteq Nat
  BY <1>1, <1>3, Basics DEF Threads, Place, use, Supers
<1>5. request' # NULL /\ ~writeOp' /\ requestSuperp' = superp /\ disk[superp].bytes > 0 /\ kind # "vertices"
  <2>1. kind # "vertices"
    BY <1>1, <1>3 DEF Threads, Place, PcInv, Rewinds
  <2>2. request' # NULL /\ ~writeOp' /\ requestSuperp' = superp'
    BY <1>2, <1>3, <1>4, <2>1 DEF Threads, RequestInv, WritePcs
  <2>3. disk'[superp'].bytes > 0
    BY <1>2, <1>4, <2>1, <2>2 DEF Threads, AppendInv
  <2>4. QED
    BY <1>3, <2>1, <2>2, <2>3
<1>6. request = NULL => ~uptodate'[request']
  <2>1. SUFFICES ASSUME request = NULL PROVE ~uptodate'[request']
    OBVIOUS
  <2>2. Submit(Min(FreeBuffers), FALSE) /\ FreeBuffers # {}
    BY <2>1 DEF ReadFirst
  <2>3. Min(FreeBuffers) \in Buffers
    BY <1>1, <2>2, FreeBuffer, Basics DEF Threads
  <2>4. uptodate \in [Buffers -> BOOLEAN]
    BY <1>1 DEF Threads, Fields
  <2>5. QED
    BY <2>2, <2>3, <2>4 DEF Submit
<1>7. request # NULL => request' = request /\ uptodate' = uptodate /\ ~writeOp
  <2>1. SUFFICES ASSUME request # NULL PROVE request' = request /\ uptodate' = uptodate /\ ~writeOp
    OBVIOUS
  <2>2. request' = request /\ uptodate' = uptodate /\ writeOp' = writeOp
    BY <2>1 DEF ReadFirst
  <2>3. QED
    BY <1>5, <2>2
<1>8. ContentInv'
  <2>1. UNCHANGED <<content, superPartitions, batch, cache>> /\ ~writeOp' /\ pc' \notin {"append", "spill"}
    BY <1>3, <1>4, <1>5
  <2>2. QED
    BY <1>1, <1>3, <2>1 DEF ContentInv
<1>9. kind # "vertices" /\ kind' = kind
  BY <1>4, <1>5
<1>10. PICK D : StreamData(D)
  BY <1>1, <1>9 DEF Data
<1>11. D \in [Supers -> Seq(Items)] /\ FileInv(D) /\ SentInv(D) /\ GotInv(D)
  BY <1>10 DEF StreamData
<1>12. (D \in [Supers -> Seq(Items)])'
  BY <1>11, <1>4
<1>13. FileInv(D)'
  <2>1. UNCHANGED <<kind, superPartitions, disk, superp, cache>>
    BY <1>3, <1>4
  <2>2. ~Writing' /\ requestSuperp' # APPEND
    BY <1>4, <1>5 DEF Writing
  <2>3. QED
    BY <1>11, <1>3, <1>4, <2>2 DEF FileInv, ScanPcs, WritePcs
<1>14. SentInv(D)'
  <2>1. \A s \in Supers : Unwritten(s)' = Unwritten(s)
    BY <1>3, <1>5, <1>7 DEF Unwritten, ToWrite, Cached, ToAppend
  <2>2. UNCHANGED <<kind, superPartitions, sent, batch, content, disk, cache>> /\ pc # "spillBatch" /\ pc' # "spillBatch"
    BY <1>3, <1>4 DEF histVars
  <2>3. kind = "ingested" => disk[0].bytes > 0 /\ cache = NULL
    BY <1>3, <1>4, <1>5
  <2>4. QED
    BY <1>1, <1>11, <2>1, <2>2, <2>3, SentKept DEF Threads
<1>15. GotInv(D)'
  <2>1. ToGet' = ToGet
    BY <1>3, <1>6, <1>7 DEF ToGet
  <2>2. UNCHANGED <<superPartitions, got, disk, cache, superp>>
    BY <1>3, <1>4 DEF histVars
  <2>3. startPos' = 0 => got[superp] = <<>>
    <3>1. SUFFICES ASSUME disk[superp].pos = 0 PROVE got[superp] = <<>>
      BY <1>3
    <3>2. Join(got[superp], ToGet) = SubSeq(D[superp], 1, 0)
      BY <1>11, <1>3, <1>4, <3>1 DEF GotInv, ScanPcs
    <3>3. SubSeq(D[superp], 1, 0) = <<>>
      BY <1>11, <1>4, NothingOf
    <3>4. got[superp] \in Seq(Items) /\ ToGet \in Seq(Items)
      BY <1>1, <1>11, <1>4, ToGetIn DEF GotInv, Threads, ContentInv
    <3>5. QED
      BY <3>2, <3>3, <3>4, JoinEmpty
  <2>4. QED
    BY <1>11, <1>3, <1>4, <2>1, <2>2, <2>3 DEF GotInv, ScanPcs
<1>16. QED
  BY <1>8, <1>9, <1>12, <1>13, <1>14, <1>15 DEF Data, StreamData

\* Next_chunk takes the part that was read and makes a request for the next.
\* Its effect on the control.
LEMMA ReadAheadThreads ==
  ASSUME IInv, ReadAhead
  PROVE  Threads'
<1>1. Threads
  BY DEF IInv
<1>2. /\ pc = "reading" /\ uptodate[request] /\ ~Eof(superp) /\ FreeBuffers # {} /\ pc' = "consume"
      /\ UNCHANGED <<use, cycle, superp, i, startPos, requestSuperp, cache, oneShot, flushComplete,
                     eofFlag, disk, io, content, dirty, histVars, fatal>>
  BY DEF ReadAhead, At
<1>3. /\ kind # "vertices" /\ cycle # Cycles + 1 /\ cache = NULL /\ request \in Pool /\ ~writeOp /\ requestSuperp = superp
      /\ batch # request /\ request # NULL
  BY <1>1, <1>2 DEF Threads, Place, Fields, PcInv, Rewinds, HolderInv, RequestInv, WritePcs,
     Holders
<1>4. ~Work /\ queue = 0 /\ io # "busy" /\ \A c \in Buffers : uptodate[c]
  <2>1. ~Work /\ queue = 0 /\ io # "busy" /\ \A c \in Buffers : uptodate[c]
    BY <1>1, <1>2, NoWork DEF Threads, RequestDone
  <2>2. QED
    BY <1>1, <1>2, <2>1 DEF Threads, Fields
<1>5. PICK b : b = Min(FreeBuffers)
  OBVIOUS
<1>6. /\ b \in Pool /\ b # NULL /\ b # State /\ refcount[b] = 0
      /\ b \notin {request, cache, batch} /\ uptodate[b] /\ ~dirty[b]
  BY <1>1, <1>2, <1>5, FreeBuffer DEF Threads
<1>7. /\ request' = b /\ writeOp' = FALSE /\ buf' = request /\ queue' = 1
      /\ uptodate' = [uptodate EXCEPT ![b] = FALSE] /\ refcount' = [refcount EXCEPT ![b] = 1]
  BY <1>4, <1>5 DEF ReadAhead, Submit, AddWork
<1>8. Place'
  BY <1>1, <1>2, <1>3 DEF Threads, Place, PcInv, Supers, Reading, use
<1>9. Fields'
  <2>1. /\ {cache', buf', batch'} \subseteq Holders /\ request' \in IF kind' = "vertices" THEN {State, NULL} ELSE Holders
    BY <1>1, <1>2, <1>3, <1>6, <1>7 DEF Threads, Fields, Holders, use
  <2>2. requestSuperp' \in Supers' \cup {APPEND} /\ {writeOp', oneShot', flushComplete', eofFlag'} \subseteq BOOLEAN
    BY <1>1, <1>2, <1>3, <1>4, <1>5, <1>6, <1>7, Basics DEF Threads, Fields, Holders, Supers,
       vars, mainVars, streamVars, bufferVars, histVars, use
  <2>3. queue' \in 0..1 /\ io' \in {"idle", "busy", "late"} /\ (io' = "busy" => queue' = 0)
    BY <1>1, <1>2, <1>4, <1>7 DEF Threads, Fields
  <2>4. uptodate' \in [Buffers -> BOOLEAN] /\ dirty' \in [Buffers -> BOOLEAN]
    BY <1>1, <1>2, <1>6, <1>7, Basics DEF Threads, Fields
  <2>5. refcount' \in [Buffers -> Int] /\ refcount'[State] <= 0 /\ startPos' \in Nat /\ fatal' = "no"
    BY <1>1, <1>2, <1>6, <1>7, Basics DEF Threads, Fields
  <2>6. QED
    BY <2>1, <2>2, <2>3, <2>4, <2>5 DEF Fields
<1>10. RequestInv'
  BY <1>1, <1>2, <1>3, <1>6, <1>7 DEF Threads, RequestInv, Fields, Work, use
<1>11. HolderInv'
  BY <1>1, <1>2, <1>3, <1>6, <1>7 DEF Threads, HolderInv, use
<1>12. RefInv'
  <2>1. \A c \in Pool : refcount[c] = One(c = request) + One(c = batch)
    BY <1>1, <1>2, <1>3, Basics DEF Threads, RefInv, One
  <2>2. \A c \in Pool : refcount[c] \in Int
    BY <2>1 DEF One
  <2>3. refcount'[b] = 1 /\ \A c \in Pool : c # b => refcount'[c] = refcount[c]
    BY <1>1, <1>6, <1>7, TakesBuffer DEF Threads
  <2>4. \A c \in Pool : refcount'[c] = One(c = b) + One(c = request) + One(c = batch)
    BY <1>3, <1>6, <2>1, <2>2, <2>3 DEF One
  <2>5. request' = b /\ cache' = NULL /\ buf' = request /\ batch' = batch /\ pc' = "consume"
    BY <1>2, <1>3, <1>7 DEF use
  <2>6. QED
    BY <2>4, <2>5, Basics DEF RefInv, One
<1>13. DirtyInv'
  BY <1>1, <1>2, <1>3, <1>7, Basics DEF Threads, DirtyInv
<1>14. AppendInv'
  BY <1>1, <1>2, <1>3 DEF Threads, AppendInv, Place, WritePcs, Supers, use
<1>15. QED
  BY <1>8, <1>9, <1>10, <1>11, <1>12, <1>13, <1>14 DEF Threads

\* The same step: its effect on the buffers and files.
LEMMA ReadAheadData ==
  ASSUME IInv, ReadAhead
  PROVE  ContentInv' /\ Data'
<1>1. Threads /\ ContentInv /\ Data
  BY DEF IInv
<1>2. Threads'
  BY ReadAheadThreads
<1>3. /\ pc = "reading" /\ uptodate[request] /\ pc' = "consume" /\ buf' = request /\ ~writeOp'
      /\ UNCHANGED <<use, cycle, superp, i, disk, content, histVars, requestSuperp, cache, startPos>>
  BY DEF ReadAhead, At, Submit
<1>4. /\ superp \in Supers /\ superp # APPEND /\ superPartitions' = superPartitions /\ kind' = kind /\ batch' = batch
      /\ Supers' = Supers /\ Supers \subseteq Nat
  BY <1>1, <1>3, Basics DEF Threads, Place, use, Supers
<1>5. /\ kind # "vertices" /\ request \in Buffers /\ request # NULL /\ ~writeOp /\ requestSuperp = superp /\ cache = NULL
  BY <1>1, <1>3, Basics DEF Threads, Place, Fields, PcInv, Rewinds, HolderInv, RequestInv,
     WritePcs, Holders
<1>6. ~uptodate'[request']
  <2>1. Submit(Min(FreeBuffers), FALSE) /\ FreeBuffers # {}
    BY DEF ReadAhead
  <2>2. Min(FreeBuffers) \in Buffers
    BY <1>1, <2>1, FreeBuffer, Basics DEF Threads
  <2>3. uptodate \in [Buffers -> BOOLEAN]
    BY <1>1 DEF Threads, Fields
  <2>4. QED
    BY <2>1, <2>2, <2>3 DEF Submit
<1>7. ContentInv'
  <2>1. UNCHANGED <<content, superPartitions, batch, cache>> /\ ~writeOp' /\ pc' \notin {"append", "spill"}
    BY <1>3, <1>4
  <2>2. QED
    BY <1>1, <2>1 DEF ContentInv
<1>8. kind # "vertices" /\ kind' = kind
  BY <1>4, <1>5
<1>9. PICK D : StreamData(D)
  BY <1>1, <1>8 DEF Data
<1>10. D \in [Supers -> Seq(Items)] /\ FileInv(D) /\ SentInv(D) /\ GotInv(D)
  BY <1>9 DEF StreamData
<1>11. (D \in [Supers -> Seq(Items)])'
  BY <1>10, <1>4
<1>12. FileInv(D)'
  <2>1. UNCHANGED <<kind, superPartitions, disk, superp, cache, requestSuperp>>
    BY <1>3, <1>4
  <2>2. ~Writing'
    BY <1>3 DEF Writing
  <2>3. QED
    BY <1>10, <1>3, <1>4, <2>2 DEF FileInv, ScanPcs, WritePcs
<1>13. SentInv(D)'
  <2>1. \A s \in Supers : Unwritten(s)' = Unwritten(s)
    BY <1>3, <1>5 DEF Unwritten, ToWrite, Cached, ToAppend
  <2>2. UNCHANGED <<kind, superPartitions, sent, batch, content, disk, cache>> /\ pc # "spillBatch" /\ pc' # "spillBatch"
    BY <1>3, <1>4 DEF histVars
  <2>3. QED
    BY <1>1, <1>10, <1>5, <2>1, <2>2, SentKept DEF Threads
<1>14. GotInv(D)'
  <2>1. ToGet' = ToGet
    <3>1. <<>> \in Seq(Items) /\ content[request] \in Seq(Items)
      BY <1>5, Types
    <3>2. ToGet = Join(<<>>, content[request])
      BY <1>3, <1>5 DEF ToGet
    <3>3. ToGet' = Join(content[request], <<>>)
      BY <1>3, <1>6 DEF ToGet
    <3>4. QED
      BY <3>1, <3>2, <3>3, Joins
  <2>2. UNCHANGED <<superPartitions, got, disk, cache, superp>>
    BY <1>3, <1>4 DEF histVars
  <2>3. QED
    BY <1>10, <1>3, <1>4, <1>5, <2>1, <2>2 DEF GotInv, ScanPcs
<1>15. QED
  BY <1>7, <1>8, <1>11, <1>12, <1>13, <1>14 DEF Data, StreamData

\* Next_chunk takes the last part, and keeps it when it was the only one.
\* Its effect on the control.
LEMMA ReadLastThreads ==
  ASSUME IInv, ReadLast
  PROVE  Threads'
<1>1. Threads
  BY DEF IInv
<1>2. pc = "reading" /\ uptodate[request] /\ Eof(superp) /\ buf' = request /\ request' = NULL /\ pc' = "consume"
  BY DEF ReadLast, At
<1>3. /\ kind # "vertices" /\ cycle # Cycles + 1 /\ cache = NULL /\ request \in Pool /\ ~writeOp /\ requestSuperp = superp
      /\ batch # request /\ request # NULL
  BY <1>1, <1>2 DEF Threads, Place, Fields, PcInv, Rewinds, HolderInv, RequestInv, WritePcs,
     Holders
<1>4. ~Work /\ queue = 0 /\ io # "busy" /\ \A c \in Buffers : uptodate[c]
  <2>1. ~Work /\ queue = 0 /\ io # "busy" /\ \A c \in Buffers : uptodate[c]
    BY <1>1, <1>2, NoWork DEF Threads, RequestDone
  <2>2. QED
    BY <1>1, <1>2, <2>1 DEF Threads, Fields
<1>5. refcount[request] \in Int /\ request \in Buffers
  BY <1>1, <1>3, Basics DEF Threads, Fields
<1>6. kind = "ingested" => startPos # 0
  <2>1. SUFFICES ASSUME kind = "ingested", startPos = 0 PROVE FALSE
    OBVIOUS
  <2>2. PICK D : StreamData(D)
    BY <1>3 DEF IInv, Data
  <2>3. superp = 0 /\ 0 \in Supers /\ D[0] \in Seq(Items) /\ content[request] \in Seq(Items)
    BY <1>1, <1>5, <2>1, <2>2, FirstSuper, Types DEF Threads, Place, StreamData
  <2>4. got[0] = <<>> /\ Join(got[0], ToGet) = SubSeq(D[0], 1, disk[0].pos)
    BY <1>2, <1>3, <2>1, <2>2, <2>3 DEF StreamData, GotInv, ScanPcs
  <2>5. ToGet = content[request]
    BY <1>2, <1>3, <2>3, Joins DEF ToGet
  <2>6. disk[0].pos = Len(D[0])
    BY <1>2, <2>2, <2>3 DEF Eof, StreamData, FileInv
  <2>7. Len(content[request]) = Len(D[0])
    <3>1. Join(<<>>, content[request]) = SubSeq(D[0], 1, Len(D[0]))
      BY <2>4, <2>5, <2>6
    <3>2. Join(<<>>, content[request]) = content[request]
      BY <2>3, Joins
    <3>3. Len(SubSeq(D[0], 1, Len(D[0]))) = Len(D[0])
      BY <2>3, SubSeqFull
    <3>4. QED
      BY <3>1, <3>2, <3>3
  <2>8. Unwritten(0) = <<>>
    <3>1. Join(<<>>, Join(<<>>, <<>>)) = <<>>
      BY <2>3, Joins
    <3>2. QED
      BY <1>2, <1>3, <3>1 DEF Unwritten, ToWrite, Cached, ToAppend
  <2>9. Join(D[0], Unwritten(0)) = D[0]
    BY <2>3, <2>8, Joins
  <2>10. Len(D[0]) > BufferSize
    <3>1. disk[0].bytes > 0
      BY <1>1, <1>3, <2>3 DEF Threads, AppendInv
    <3>2. QED
      BY <1>3, <2>1, <2>2, <2>9 DEF StreamData, SentInv
  <2>11. Len(content[request]) <= BufferSize
    BY <1>5 DEF IInv, ContentInv
  <2>12. QED
    BY <2>3, <2>7, <2>10, <2>11, Basics
<1>7. Place'
  BY <1>1, <1>3 DEF Threads, Place, ReadLast, PcInv, Supers, use, Reading
<1>8. Fields'
  <2>1. /\ {cache', buf', batch'} \subseteq Holders /\ request' \in IF kind' = "vertices" THEN {State, NULL} ELSE Holders
    BY <1>1, <1>3 DEF Threads, Fields, ReadLast, use
  <2>2. requestSuperp' \in Supers' \cup {APPEND} /\ {writeOp', oneShot', flushComplete', eofFlag'} \subseteq BOOLEAN
    BY <1>1, <1>2, <1>3, <1>4, <1>5, <1>6, Basics DEF Threads, Fields, Holders, Supers,
       ReadLast, At, Eof, use, histVars
  <2>3. queue' \in 0..1 /\ io' \in {"idle", "busy", "late"} /\ (io' = "busy" => queue' = 0)
    BY <1>1 DEF Threads, Fields, Supers, ReadLast, use
  <2>4. uptodate' \in [Buffers -> BOOLEAN] /\ dirty' \in [Buffers -> BOOLEAN]
    BY <1>1 DEF Threads, Fields, ReadLast
  <2>5. refcount' \in [Buffers -> Int] /\ refcount'[State] <= 0 /\ startPos' \in Nat /\ fatal' = "no"
    BY <1>1, <1>3, Basics DEF Threads, Fields, ReadLast
  <2>6. QED
    BY <2>1, <2>2, <2>3, <2>4, <2>5 DEF Fields
<1>9. RequestInv'
  BY <1>1, <1>2, <1>3, <1>4, <1>5 DEF Threads, RequestInv, ReadLast, Work, At, use
<1>10. HolderInv'
  BY <1>1, <1>3, Basics DEF Threads, HolderInv, ReadLast, Place, use, Supers
<1>11. RefInv'
  BY <1>1, <1>3, Basics DEF Threads, RefInv, ReadLast, Fields, One, At, use
<1>12. DirtyInv'
  BY <1>1, <1>3 DEF Threads, DirtyInv, ReadLast, Place, AppendInv, DiskEmpty, At, use, Supers
<1>13. AppendInv'
  BY <1>1, <1>3, <1>6, Basics DEF Threads, AppendInv, ReadLast, Place, WritePcs, use, Supers
<1>14. QED
  BY <1>7, <1>8, <1>9, <1>10, <1>11, <1>12, <1>13 DEF Threads

\* The same step: its effect on the buffers and files.
LEMMA ReadLastData ==
  ASSUME IInv, ReadLast
  PROVE  ContentInv' /\ Data'
<1>1. Threads /\ ContentInv /\ Data
  BY DEF IInv
<1>2. Threads'
  BY ReadLastThreads
<1>3. /\ pc = "reading" /\ uptodate[request] /\ Eof(superp) /\ pc' = "consume" /\ buf' = request /\ request' = NULL
      /\ UNCHANGED <<use, cycle, superp, i, disk, content, histVars, requestSuperp, writeOp, startPos, uptodate>>
      /\ IF superPartitions = 1 /\ startPos = 0 THEN cache' = request /\ eofFlag' = TRUE ELSE UNCHANGED cache
  BY DEF ReadLast, At
<1>4. /\ superp \in Supers /\ superp # APPEND /\ superPartitions' = superPartitions /\ kind' = kind /\ batch' = batch
      /\ Supers' = Supers /\ Supers \subseteq Nat
  BY <1>1, <1>3, Basics DEF Threads, Place, use, Supers
<1>5. /\ kind # "vertices" /\ request \in Buffers /\ request # NULL /\ ~writeOp /\ requestSuperp = superp /\ cache = NULL
      /\ disk[superp].bytes > 0
  <2>1. /\ kind # "vertices" /\ request \in Buffers /\ request # NULL /\ ~writeOp /\ requestSuperp = superp /\ cache = NULL
    BY <1>1, <1>3, Basics DEF Threads, Place, Fields, PcInv, Rewinds, HolderInv, RequestInv,
       WritePcs, Holders
  <2>2. disk[superp].bytes > 0
    BY <1>1, <2>1 DEF Threads, AppendInv
  <2>3. QED
    BY <2>1, <2>2
<1>6. <<>> \in Seq(Items) /\ content[request] \in Seq(Items) /\ ToGet = content[request]
  <2>1. <<>> \in Seq(Items) /\ content[request] \in Seq(Items)
    BY <1>5, Types
  <2>2. ToGet = Join(<<>>, content[request])
    BY <1>3, <1>5 DEF ToGet
  <2>3. QED
    BY <2>1, <2>2, Joins
<1>7. ASSUME NEW D, StreamData(D), superPartitions = 1, startPos = 0
      PROVE  content[request] = D[0] /\ got[0] = <<>> /\ content[request] # <<>>
  <2>1. superp = 0 /\ 0 \in Supers /\ D[0] \in Seq(Items)
    BY <1>1, <1>4, <1>7, FirstSuper DEF Threads, StreamData
  <2>2. got[0] = <<>> /\ Join(got[0], ToGet) = SubSeq(D[0], 1, disk[0].pos)
    BY <1>3, <1>5, <1>7, <2>1 DEF StreamData, GotInv, ScanPcs
  <2>3. disk[0].pos = Len(D[0]) /\ Len(D[0]) > 0
    BY <1>3, <1>5, <1>7, <2>1 DEF Eof, StreamData, FileInv
  <2>4. content[request] = D[0]
    <3>1. Join(<<>>, content[request]) = content[request]
      BY <1>6, Joins
    <3>2. SubSeq(D[0], 1, Len(D[0])) = D[0]
      BY <2>1, SubSeqFull
    <3>3. QED
      BY <1>6, <2>2, <2>3, <3>1, <3>2
  <2>5. Len(<<>>) = 0
    OBVIOUS
  <2>6. QED
    BY <2>2, <2>3, <2>4, <2>5
<1>8. ContentInv'
  <2>1. UNCHANGED <<content, superPartitions, batch>> /\ request' = NULL /\ pc' \notin {"append", "spill"}
    BY <1>3, <1>4
  <2>2. cache' # NULL => content[cache'] # <<>>
    <3>1. SUFFICES ASSUME cache' # NULL PROVE content[cache'] # <<>>
      OBVIOUS
    <3>2. superPartitions = 1 /\ startPos = 0 /\ cache' = request
      BY <1>3, <1>5, <3>1
    <3>3. PICK D : StreamData(D)
      BY <1>1, <1>5 DEF Data
    <3>4. QED
      BY <1>7, <3>2, <3>3
  <2>3. QED
    BY <1>1, <2>1, <2>2 DEF ContentInv
<1>9. kind # "vertices" /\ kind' = kind
  BY <1>4, <1>5
<1>10. PICK D : StreamData(D)
  BY <1>1, <1>9 DEF Data
<1>11. D \in [Supers -> Seq(Items)] /\ FileInv(D) /\ SentInv(D) /\ GotInv(D)
  BY <1>10 DEF StreamData
<1>12. (D \in [Supers -> Seq(Items)])'
  BY <1>11, <1>4
<1>13. FileInv(D)'
  <2>1. UNCHANGED <<kind, superPartitions, disk, superp, requestSuperp>>
    BY <1>3, <1>4
  <2>2. ~Writing'
    BY <1>3, <1>5 DEF Writing
  <2>3. QED
    BY <1>11, <1>3, <1>4, <2>2 DEF FileInv, ScanPcs, WritePcs
<1>14. SentInv(D)'
  <2>1. \A s \in Supers : Unwritten(s)' = Unwritten(s)
    <3>1. ~DiskEmpty /\ ~DiskEmpty'
      BY <1>3, <1>4, <1>5 DEF DiskEmpty
    <3>2. QED
      BY <1>3, <3>1 DEF Unwritten, ToWrite, Cached, ToAppend
  <2>2. UNCHANGED <<kind, superPartitions, sent, batch, content, disk>> /\ pc # "spillBatch" /\ pc' # "spillBatch"
    BY <1>3, <1>4 DEF histVars
  <2>3. QED
    BY <1>1, <1>11, <1>5, <2>1, <2>2, SentKept DEF Threads
<1>15. GotInv(D)'
  <2>1. UNCHANGED <<superPartitions, got, disk, superp, startPos, content>>
    BY <1>3, <1>4 DEF histVars
  <2>2. ToGet' = ToGet
    <3>1. ToGet' = Join(content[request], <<>>)
      BY <1>3 DEF ToGet
    <3>2. QED
      BY <1>6, <3>1, Joins
  <2>3. CASE cache' = NULL
    BY <1>11, <1>3, <1>4, <1>5, <2>1, <2>2, <2>3 DEF GotInv, ScanPcs
  <2>4. CASE cache' # NULL
    <3>1. superPartitions = 1 /\ startPos = 0 /\ cache' = request
      BY <1>3, <1>5, <2>4
    <3>2. content[request] = D[0] /\ got[0] = <<>> /\ superp = 0
      <4>1. StreamData(D)
        BY <1>11 DEF StreamData
      <4>2. superp = 0
        BY <1>1, <3>1, FirstSuper DEF Threads
      <4>3. QED
        BY <1>7, <3>1, <4>1, <4>2
    <3>3. QED
      BY <1>3, <1>4, <1>11, <2>1, <2>4, <3>1, <3>2 DEF GotInv, ScanPcs
  <2>5. QED
    BY <2>3, <2>4
<1>16. QED
  BY <1>8, <1>9, <1>12, <1>13, <1>14, <1>15 DEF Data, StreamData

\* The workers have processed the part.  Its effect on the control.
LEMMA ConsumeThreads ==
  ASSUME IInv, Consume
  PROVE  Threads'
<1>1. Threads
  BY DEF IInv
<1>2. /\ pc = "consume" /\ refcount' = Dropped(buf) /\ fatal' = DropError(buf) /\ buf' = NULL /\ pc' = "scan"
      /\ UNCHANGED <<use, cycle, superp, i, startPos, streamVars, disk, queue, io, content, uptodate, dirty, sent>>
  BY DEF Consume, At
<1>3. buf \in Pool /\ buf # request /\ buf # batch
  BY <1>1, <1>2 DEF Threads, Fields, HolderInv, Holders
<1>4. uptodate[buf]
  BY <1>1, <1>3, Basics DEF Threads, RequestInv
<1>5. kind \notin {"vertices"} /\ cycle # Cycles + 1
  BY <1>1, <1>2 DEF Threads, Place, PcInv, Rewinds
<1>6. \A b \in Pool : refcount[b] = One(b \in {request, cache}) + One(b = buf) + One(b = batch)
  BY <1>1, <1>2 DEF Threads, RefInv, One
<1>7. DropError(buf) = "no"
  <2>1. CASE buf = cache
    <3>1. refcount[buf] = 2
      BY <1>3, <1>6, <2>1 DEF One
    <3>2. QED
      BY <3>1 DEF DropError
  <2>2. CASE buf # cache
    <3>1. ~dirty[buf]
      BY <1>1, <1>2, <1>3, <2>2 DEF Threads, DirtyInv
    <3>2. QED
      BY <1>4, <3>1 DEF DropError
  <2>3. QED
    BY <2>1, <2>2
<1>8. /\ refcount' \in [Buffers -> Int] /\ refcount'[State] <= 0
      /\ refcount'[buf] = refcount[buf] - 1 /\ \A b \in Pool : b # buf => refcount'[b] = refcount[b]
  BY <1>1, <1>2, <1>3, Basics DEF Threads, Fields, Dropped
<1>9. Place'
  BY <1>1, <1>2, <1>5 DEF Threads, Place, PcInv, Supers, Reading, use
<1>10. Fields'
  BY <1>1, <1>2, <1>7, <1>8 DEF Threads, Fields, HolderInv, Supers, streamVars, use
<1>11. RequestInv'
  BY <1>1, <1>2 DEF Threads, RequestInv, Work, WritePcs, streamVars, use
<1>12. HolderInv'
  BY <1>1, <1>2 DEF Threads, HolderInv, streamVars, use
<1>13. RefInv'
  <2>1. \A b \in Pool : refcount'[b] = One(b \in {request, cache}) + One(b = batch)
    BY <1>6, <1>8 DEF One
  <2>2. UNCHANGED <<request, cache, batch>> /\ pc' = "scan"
    BY <1>2 DEF use, streamVars
  <2>3. QED
    BY <2>1, <2>2 DEF RefInv, One
<1>14. DirtyInv'
  BY <1>1, <1>2 DEF Threads, DirtyInv, DiskEmpty, streamVars, Supers, use
<1>15. AppendInv'
  BY <1>1, <1>2 DEF Threads, AppendInv, WritePcs, DiskEmpty, streamVars, Supers, use
<1>16. QED
  BY <1>9, <1>10, <1>11, <1>12, <1>13, <1>14, <1>15 DEF Threads

\* The same step: its effect on the buffers and files.
LEMMA ConsumeData ==
  ASSUME IInv, Consume
  PROVE  ContentInv' /\ Data'
<1>1. Threads /\ ContentInv /\ Data
  BY DEF IInv
<1>2. Threads'
  BY ConsumeThreads
<1>3. ContentInv'
  BY <1>1 DEF ContentInv, Consume, use, streamVars
<1>4. kind # "vertices" /\ kind' = kind
  BY <1>1 DEF Threads, Place, PcInv, Consume, Rewinds, At, use
<1>5. PICK D : StreamData(D)
  BY <1>1, <1>4 DEF Data
<1>6. D \in [Supers -> Seq(Items)] /\ FileInv(D) /\ SentInv(D) /\ GotInv(D)
  BY <1>5 DEF StreamData
<1>7. (D \in [Supers -> Seq(Items)])'
  BY <1>6 DEF Supers, Consume, use
<1>8. FileInv(D)'
  BY <1>2, <1>6 DEF Threads, FileInv, Consume, RequestInv, Supers, WritePcs, Writing, ScanPcs,
     At, use, streamVars
<1>9. SentInv(D)'
  <2>1. \A s \in Supers : ToWrite(s)' = ToWrite(s)
    BY DEF ToWrite, Consume, streamVars
  <2>2. Cached' = Cached
    <3>1. DiskEmpty' <=> DiskEmpty
      BY EmptyKept DEF Consume, At, use, streamVars
    <3>2. QED
      BY <3>1 DEF Cached, Consume, streamVars
  <2>3. \A s \in Supers : ToAppend(s)' = ToAppend(s)
    BY DEF ToAppend, Consume, At
  <2>4. UNCHANGED <<kind, superPartitions, sent>>
    BY DEF Consume, use
  <2>5. /\ batch' # NULL /\ pc' # "spillBatch" =>
              batch # NULL /\ pc # "spillBatch" /\ content'[batch'] = content[batch]
        /\ kind = "ingested" /\ cache' = NULL /\ (request' # NULL \/ disk'[0].bytes > 0) =>
              cache = NULL /\ (request # NULL \/ disk[0].bytes > 0)
        /\ pc' = "spillBatch" => /\ pc = "spillBatch" /\ content'[cache'] = content[cache]
                                 /\ uptodate'[request'] = uptodate[request] /\ disk'[0].bytes = disk[0].bytes
    BY DEF Consume, At, use, streamVars
  <2>6. \A s \in Supers : Unwritten(s)' = Unwritten(s)
    BY <2>1, <2>2, <2>3 DEF Unwritten
  <2>7. QED
    BY <1>1, <1>6, <2>4, <2>5, <2>6, SentKept DEF Threads
<1>10. GotInv(D)'
  <2>1. /\ pc = "consume" /\ pc' = "scan" /\ got' = [got EXCEPT ![superp] = Join(@, content[buf])]
        /\ UNCHANGED <<kind, superPartitions, superp, cache, content, request, uptodate, disk, eofFlag>>
    BY DEF Consume, At, use, streamVars, Join
  <2>2. superp \in Supers /\ Supers' = Supers /\ buf \in Buffers /\ (cache # NULL => eofFlag /\ buf = cache)
    BY <1>1, <2>1, FirstSuper, Basics DEF Threads, Fields, HolderInv, Holders, Supers
  <2>3. <<>> \in Seq(Items) /\ content[buf] \in Seq(Items) /\ got[superp] \in Seq(Items)
    BY <2>2, Types
  <2>4. got'[superp] = Join(got[superp], content[buf]) /\ \A s \in Supers : s # superp => got'[s] = got[s]
    BY <2>1, <2>2, <1>6 DEF GotInv
  <2>5. got' \in [Supers -> Seq(Items)]
    <3>1. Join(got[superp], content[buf]) \in Seq(Items)
      BY <2>3, Joins
    <3>2. QED
      BY <2>1, <2>2, <3>1, <1>6 DEF GotInv
  <2>6. CASE cache = NULL
    <3>1. PICK y : y = IF request # NULL /\ uptodate[request] THEN content[request] ELSE <<>>
      OBVIOUS
    <3>2. y \in Seq(Items)
      <4>1. request # NULL => request \in Buffers
        BY <1>1, Basics DEF Threads, Fields, Holders
      <4>2. QED
        BY <2>3, <3>1, <4>1, Types
    <3>3. ToGet = Join(content[buf], y)
      BY <2>1, <3>1 DEF ToGet
    <3>4. ToGet' = Join(<<>>, y)
      BY <2>1, <3>1 DEF ToGet
    <3>5. Join(got'[superp], ToGet') = Join(got[superp], ToGet)
      <4>1. Join(<<>>, y) = y
        BY <3>2, Joins
      <4>2. QED
        BY <2>3, <2>4, <3>2, <3>3, <3>4, <4>1, JoinAssociative
    <3>6. Join(got[superp], ToGet) = SubSeq(D[superp], 1, disk[superp].pos)
      BY <1>6, <2>1, <2>2, <2>6 DEF GotInv, ScanPcs
    <3>7. QED
      BY <1>6, <2>1, <2>2, <2>5, <2>6, <3>5 DEF GotInv, ScanPcs
  <2>7. CASE cache # NULL
    <3>1. got[superp] = <<>>
      BY <1>6, <2>1, <2>2, <2>7 DEF GotInv, ScanPcs
    <3>2. got'[superp] = content[cache]
      BY <2>2, <2>3, <2>4, <2>7, <3>1, Joins
    <3>3. DiskEmpty' <=> DiskEmpty
      BY <2>1, EmptyKept
    <3>4. QED
      BY <1>6, <2>1, <2>2, <2>5, <2>7, <3>2, <3>3 DEF GotInv, ScanPcs
  <2>8. QED
    BY <2>6, <2>7
<1>11. QED
  BY <1>3, <1>4, <1>7, <1>8, <1>9, <1>10 DEF Data, StreamData

\* The scan of a super partition is at its end.  Its effect on the control.
LEMMA ScanEndThreads ==
  ASSUME IInv, ScanEnd
  PROVE  Threads'
<1>1. Threads
  BY DEF IInv
<1>2. pc = "scan" /\ kind # "vertices" /\ cycle # Cycles + 1
  BY <1>1 DEF ScanEnd, At, Threads, Place, PcInv, Rewinds
<1>3. Place'
  <2>1. /\ superPartitions \in Nat \ {0} /\ superp \in 0..superPartitions - 1 /\ cycle \in 0..Cycles
        /\ Cycles \in Nat \ {0} /\ i \in 0..superPartitions - 1
    BY <1>1, <1>2, Basics DEF Threads, Place, Supers
  <2>2. /\ superp' \in 0..superPartitions - 1 /\ cycle' \in 0..Cycles + 1 /\ (cycle' = Cycles + 1 => pc' = "done")
        /\ kind = "updates" => pc' = "reset"
        /\ kind = "edges" => pc' \in {"scan", "done", "rewind"}
        /\ kind \notin {"updates", "edges"} => pc' \in {"ingest", "merge"}
    <3>1. CASE kind = "updates"
      BY <2>1, <3>1 DEF ScanEnd
    <3>2. CASE kind = "edges"
      BY <2>1, <3>2 DEF ScanEnd, Advance
    <3>3. CASE kind \notin {"updates", "edges"}
      BY <2>1, <3>3 DEF ScanEnd
    <3>4. QED
      BY <3>1, <3>2, <3>3
  <2>3. UNCHANGED <<kind, superPartitions, i>>
    BY DEF ScanEnd, use
  <2>4. QED
    BY <1>1, <1>2, <2>2, <2>3 DEF Threads, Place, PcInv, Rewinds, Supers
<1>4. Fields'
  BY <1>1 DEF Threads, Fields, ScanEnd, Supers, use, streamVars, bufferVars
<1>5. RequestInv'
  BY <1>1 DEF Threads, RequestInv, ScanEnd, HolderInv, Work, WritePcs, At, StreamEof, Advance,
     use, streamVars, bufferVars
<1>6. HolderInv'
  BY <1>1 DEF Threads, HolderInv, ScanEnd, At, Advance, use, streamVars, DiskEmpty, Eof,
     Rewinds, Reading
<1>7. RefInv'
  BY <1>1 DEF Threads, RefInv, ScanEnd, At, Advance, use, streamVars, bufferVars, Holders,
     State, Buffers, Work, WritePcs, DiskEmpty, Eof, Rewinds, Reading
<1>8. DirtyInv'
  BY <1>1 DEF Threads, DirtyInv, ScanEnd, AppendInv, DiskEmpty, At, Advance, use, streamVars,
     bufferVars, Supers, Buffers
<1>9. AppendInv'
  BY <1>1 DEF Threads, AppendInv, ScanEnd, RequestInv, HolderInv, WritePcs, DiskEmpty, At,
     StreamEof, Advance, use, streamVars, Supers
<1>10. QED
  BY <1>3, <1>4, <1>5, <1>6, <1>7, <1>8, <1>9 DEF Threads

\* The same step: its effect on the buffers and files.
LEMMA ScanEndData ==
  ASSUME IInv, ScanEnd
  PROVE  ContentInv' /\ Data'
<1>1. Threads /\ ContentInv /\ Data
  BY DEF IInv
<1>2. Threads'
  BY ScanEndThreads
<1>3. /\ pc = "scan" /\ StreamEof
      /\ UNCHANGED <<use, i, buf, startPos, streamVars, disk, queue, io, bufferVars, sent, fatal>>
      /\ UNCHANGED <<kind, superPartitions, batch, request, requestSuperp, cache, writeOp, eofFlag, content, uptodate>>
  BY DEF ScanEnd, At, use, streamVars, bufferVars
<1>4. /\ superp \in Supers /\ superp # APPEND /\ Supers' = Supers /\ Supers = 0..superPartitions - 1
      /\ superPartitions \in Nat \ {0} /\ (kind = "ingested" => superPartitions = 1) /\ kind \in {"updates", "edges", "ingested"}
  BY <1>1, <1>3, Basics DEF Threads, Place, Supers, PcInv, Rewinds
<1>5. \/ /\ kind = "updates" /\ pc' = "reset" /\ UNCHANGED <<superp, got>>
      \/ /\ kind = "edges" /\ superp < superPartitions - 1 /\ superp' = superp + 1 /\ pc' = "scan"
         /\ got' = [got EXCEPT ![superp] = <<>>]
      \/ /\ kind = "edges" /\ superp = superPartitions - 1 /\ superp' = 0 /\ pc' \in {"rewind", "done"}
         /\ got' = [got EXCEPT ![superp] = <<>>]
      \/ /\ kind = "ingested" /\ superp' = superp /\ pc' \in {"ingest", "merge"}
         /\ got' = [got EXCEPT ![superp] = <<>>]
  <2>1. superp < superPartitions - 1 \/ superp = superPartitions - 1
    BY <1>4
  <2>2. QED
    BY <1>4, <2>1 DEF ScanEnd, Advance
<1>6. cache = NULL => request = NULL /\ Eof(superp)
  <2>1. SUFFICES ASSUME cache = NULL PROVE request = NULL /\ Eof(superp)
    OBVIOUS
  <2>2. ~(request # NULL /\ requestSuperp = superp) /\ Eof(superp)
    BY <1>3, <2>1 DEF StreamEof
  <2>3. request # NULL => requestSuperp = superp
    BY <1>1, <1>3, <1>4 DEF Threads, RequestInv, WritePcs
  <2>4. QED
    BY <2>2, <2>3
<1>7. ~Writing /\ ~Writing'
  <2>1. request = NULL \/ ~writeOp
    BY <1>1, <1>3, <1>4 DEF Threads, RequestInv, WritePcs
  <2>2. QED
    BY <1>3, <2>1 DEF Writing
<1>8. ContentInv'
  BY <1>1, <1>3, <1>5 DEF ContentInv, AppendInv, DiskEmpty, Eof, Rewinds, Reading
<1>9. kind # "vertices" /\ kind' = kind
  BY <1>3, <1>4
<1>10. PICK D : StreamData(D)
  BY <1>1, <1>9 DEF Data
<1>11. D \in [Supers -> Seq(Items)] /\ FileInv(D) /\ SentInv(D) /\ GotInv(D)
  BY <1>10 DEF StreamData
<1>12. (D \in [Supers -> Seq(Items)])'
  BY <1>11, <1>4
<1>13. FileInv(D)'
  <2>1. disk' = disk /\ disk \in [Supers -> Disks]
    BY <1>3, <1>11 DEF FileInv
  <2>2. ASSUME NEW s \in Supers
        PROVE  /\ disk[s].pos <= disk[s].bytes /\ disk[s].bytes = Len(D[s])
               /\ (superPartitions = 1 => OfFirst(D[s]))
               /\ Reads(disk[s], D[s])
               /\ requestSuperp = APPEND \/ s > superp => disk[s].pos = 0
               /\ kind = "updates" /\ s < superp => disk[s].bytes = 0
    BY <1>3, <1>11 DEF FileInv, ScanPcs
  <2>3. ~(pc' \in WritePcs \/ Writing') /\ pc' \in {"reset", "scan", "rewind", "done", "ingest", "merge"}
    BY <1>5, <1>7 DEF WritePcs
  <2>4. ASSUME NEW s \in Supers, pc' \in {"ingest", "rewind"} PROVE Tail_(s, D)'
    BY <1>3, <2>1, <2>2 DEF Tail_
  <2>5. ASSUME NEW s \in Supers, pc' \in ScanPcs \cup {"merge"}
        PROVE  /\ requestSuperp' = APPEND \/ s > superp' => disk'[s].pos = 0
               /\ kind' = "updates" /\ s < superp' => disk'[s].bytes = 0
               /\ pc' = "merge" /\ cache' = NULL => disk'[s].pos = disk'[s].bytes
    <3>1. s > superp' => s > superp
      BY <1>4, <1>5, <2>5 DEF ScanPcs
    <3>2. kind' = "updates" => superp' = superp
      BY <1>3, <1>5
    <3>3. pc' = "merge" /\ cache' = NULL => disk'[s].pos = disk'[s].bytes
      <4>1. SUFFICES ASSUME pc' = "merge", cache' = NULL PROVE disk'[s].pos = disk'[s].bytes
        OBVIOUS
      <4>2. s = superp /\ cache = NULL
        BY <1>3, <1>4, <1>5, <4>1
      <4>3. QED
        BY <1>6, <2>1, <4>2 DEF Eof
    <3>4. QED
      BY <1>3, <2>1, <2>2, <3>1, <3>2, <3>3
  <2>6. QED
    BY <1>3, <1>4, <2>1, <2>2, <2>3, <2>4, <2>5 DEF FileInv
<1>14. SentInv(D)'
  <2>1. \A s \in Supers : ToWrite(s)' = ToWrite(s)
    BY <1>3 DEF ToWrite
  <2>2. Cached' = Cached
    <3>1. DiskEmpty' <=> DiskEmpty
      BY EmptyKept DEF ScanEnd, use
    <3>2. QED
      BY <3>1, <1>3 DEF Cached
  <2>3. \A s \in Supers : ToAppend(s)' = ToAppend(s)
    BY <1>5 DEF ToAppend, ScanEnd, At
  <2>4. UNCHANGED <<kind, superPartitions, sent>>
    BY DEF ScanEnd, use
  <2>5. /\ batch' # NULL /\ pc' # "spillBatch" =>
              batch # NULL /\ pc # "spillBatch" /\ content'[batch'] = content[batch]
        /\ kind = "ingested" /\ cache' = NULL /\ (request' # NULL \/ disk'[0].bytes > 0) =>
              cache = NULL /\ (request # NULL \/ disk[0].bytes > 0)
        /\ pc' = "spillBatch" => /\ pc = "spillBatch" /\ content'[cache'] = content[cache]
                                 /\ uptodate'[request'] = uptodate[request] /\ disk'[0].bytes = disk[0].bytes
    BY <1>3, <1>5
  <2>6. \A s \in Supers : Unwritten(s)' = Unwritten(s)
    BY <2>1, <2>2, <2>3 DEF Unwritten
  <2>7. QED
    BY <1>1, <1>11, <2>4, <2>5, <2>6, SentKept DEF Threads
<1>15. GotInv(D)'
  <2>1. got' \in [Supers -> Seq(Items)] /\ \A s \in Supers : s # superp => got'[s] = <<>>
    <3>1. <<>> \in Seq(Items)
      OBVIOUS
    <3>2. got \in [Supers -> Seq(Items)] /\ \A s \in Supers : s # superp => got[s] = <<>>
      BY <1>3, <1>11 DEF GotInv, ScanPcs
    <3>3. QED
      BY <1>5, <3>1, <3>2
  <2>2. kind # "updates" => \A s \in Supers : got'[s] = <<>>
    BY <1>4, <1>5, <2>1, <1>11 DEF GotInv
  <2>3. cache' # NULL /\ ~DiskEmpty' /\ pc' \notin {"spill", "spillBatch"} => content'[cache'] = D[0]
    <3>1. DiskEmpty' <=> DiskEmpty
      BY <1>3, EmptyKept
    <3>2. QED
      BY <1>3, <3>1, <1>11 DEF GotInv
  <2>4. CASE kind = "updates"
    <3>1. ToGet' = ToGet
      BY <1>3, <1>5, <2>4 DEF ToGet
    <3>2. pc' = "reset" /\ superp' = superp /\ got' = got
      BY <1>5, <2>4
    <3>3. QED
      BY <1>3, <1>4, <1>11, <2>1, <2>3, <3>1, <3>2 DEF GotInv, ScanPcs
  <2>5. CASE pc' \notin ScanPcs
    BY <1>3, <1>4, <1>5, <2>1, <2>2, <2>3, <2>5 DEF GotInv, ScanPcs
  <2>6. CASE pc' = "scan"
    <3>1. superp < superPartitions - 1 /\ superp' = superp + 1 /\ kind = "edges"
      BY <1>5, <2>6
    <3>2. superp' \in Supers /\ superp' > superp
      BY <1>4, <3>1
    <3>3. cache = NULL
      BY <1>1, <1>4, <3>1 DEF Threads, HolderInv
    <3>4. disk[superp'].pos = 0 /\ D[superp'] \in Seq(Items) /\ <<>> \in Seq(Items)
      BY <1>3, <3>2, <1>11 DEF FileInv, ScanPcs
    <3>5. ToGet' = <<>>
      BY <1>3, <1>6, <2>6, <3>3, <3>4, Joins DEF ToGet
    <3>6. Join(got'[superp'], ToGet') = SubSeq(D[superp'], 1, disk'[superp'].pos)
      BY <1>3, <2>2, <3>1, <3>2, <3>4, <3>5, Joins, NothingOf
    <3>7. QED
      BY <1>3, <1>4, <2>1, <2>2, <3>1, <3>3, <3>6 DEF GotInv
  <2>7. QED
    BY <1>5, <2>4, <2>5, <2>6 DEF ScanPcs
<1>16. QED
  BY <1>8, <1>9, <1>12, <1>13, <1>14, <1>15 DEF Data, StreamData

-----------------------------------------------------------------------------
(* The steps of the main thread: ingest *)

\* Ingest takes a batch from the shared segment.  Its effect on the control.
LEMMA IngestThreads ==
  ASSUME IInv, Ingest
  PROVE  Threads'
<1>1. Threads
  BY DEF IInv
<1>2. PICK b : b = Min(FreeBuffers)
  OBVIOUS
<1>3. /\ pc = "ingest" /\ pc' = "rewind" /\ batch' = b /\ refcount' = [refcount EXCEPT ![b] = 1]
      /\ UNCHANGED <<kind, superPartitions, cycle, superp, i, buf, startPos, streamVars, disk, queue, io,
                     uptodate, dirty, histVars, fatal>>
  BY <1>2 DEF Ingest, At
<1>4. /\ b \in Pool /\ b # NULL /\ b # State /\ refcount[b] = 0
      /\ b \notin {request, cache, batch} /\ uptodate[b] /\ ~dirty[b]
  BY <1>1, <1>2, FreeBuffer DEF Threads, Ingest
<1>5. kind = "ingested" /\ batch = NULL /\ cycle # Cycles + 1
  BY <1>1, <1>3 DEF Threads, Place, PcInv, Rewinds, Reading, HolderInv
<1>6. Place'
  BY <1>1, <1>3 DEF Threads, Place, PcInv, Supers, Rewinds
<1>7. Fields'
  BY <1>1, <1>3, <1>4, Basics DEF Threads, Fields, Holders, Supers, streamVars
<1>8. RequestInv'
  BY <1>1, <1>3 DEF Threads, RequestInv, Work, streamVars
<1>9. HolderInv'
  BY <1>1, <1>3, <1>4, <1>5 DEF Threads, HolderInv, streamVars
<1>10. RefInv'
  <2>1. \A c \in Pool : refcount[c] = One(c \in {request, cache})
    BY <1>1, <1>3, <1>5, Basics DEF Threads, RefInv, One
  <2>2. refcount'[b] = 1 /\ \A c \in Pool : c # b => refcount'[c] = refcount[c]
    BY <1>1, <1>3, <1>4, TakesBuffer DEF Threads
  <2>3. \A c \in Pool : refcount'[c] = One(c \in {request, cache}) + One(c = b)
    BY <1>4, <2>1, <2>2 DEF One
  <2>4. UNCHANGED <<request, cache, buf>> /\ batch' = b /\ pc' = "rewind"
    BY <1>3 DEF streamVars
  <2>5. QED
    BY <2>3, <2>4 DEF RefInv, One
<1>11. DirtyInv'
  BY <1>1, <1>3 DEF Threads, DirtyInv, Pool, DiskEmpty, streamVars, Supers
<1>12. AppendInv'
  BY <1>1, <1>3, <1>5 DEF Threads, AppendInv, WritePcs, DiskEmpty, streamVars, Supers
<1>13. QED
  BY <1>6, <1>7, <1>8, <1>9, <1>10, <1>11, <1>12 DEF Threads

\* The same step: its effect on the buffers and files.
LEMMA IngestData ==
  ASSUME IInv, Ingest
  PROVE  ContentInv' /\ Data'
<1>1. Threads /\ ContentInv /\ Data
  BY DEF IInv
<1>2. Threads'
  BY IngestThreads
<1>3. PICK b : b = Min(FreeBuffers)
  OBVIOUS
<1>4. b \in Pool /\ b \in Buffers /\ b # NULL /\ b \notin {request, cache, batch} /\ uptodate[b]
  <2>1. FreeBuffers # {}
    BY DEF Ingest
  <2>2. QED
    BY <1>1, <1>3, <2>1, FreeBuffer, Basics DEF Threads
<1>5. /\ pc = "ingest" /\ pc' = "rewind" /\ batch' = b
      /\ UNCHANGED <<kind, superPartitions, cycle, superp, i, buf, startPos, streamVars, disk, queue, io,
                   uptodate, dirty, histVars, fatal>>
      /\ UNCHANGED <<request, cache, writeOp, requestSuperp, sent, got>>
  BY <1>3 DEF Ingest, At, streamVars, histVars
<1>6. kind = "ingested" /\ batch = NULL /\ Supers' = Supers /\ Supers = {0} /\ superPartitions = 1
  BY <1>1, <1>5 DEF Threads, Place, PcInv, Rewinds, Reading, HolderInv, Supers
<1>7. PICK data \in Seq(Items) :
         /\ content' = [content EXCEPT ![b] = data]
         /\ data # <<>> /\ Len(data) <= BufferSize /\ OfFirst(data)
         /\ Numbered(data, Len(sent[0]))
         /\ Len(sent[0]) + Len(data) <= MaxItems
  <2>1. PICK D : StreamData(D)
    BY <1>1, <1>6 DEF Data
  <2>2. sent[0] \in Seq(Items) /\ Len(sent[0]) <= MaxItems
    BY <1>6, <2>1 DEF StreamData, SentInv
  <2>3. QED
    BY <1>1, <1>3, <1>6, <2>2, IngestDoes DEF Threads
<1>8. /\ content' \in [Buffers -> Seq(Items)] /\ content'[b] = data
      /\ \A c \in Buffers : c # b => content'[c] = content[c]
  BY <1>4, <1>7, Types
<1>9. /\ request # NULL => request \in Buffers /\ content'[request] = content[request]
      /\ cache # NULL => cache \in Buffers /\ content'[cache] = content[cache]
  BY <1>1, <1>4, <1>8, Basics DEF Threads, Fields, Holders
<1>10. ContentInv'
  <2>1. \A c \in Buffers : Len(content'[c]) <= BufferSize /\ OfFirst(content'[c])
    BY <1>1, <1>6, <1>7, <1>8 DEF ContentInv
  <2>2. QED
    BY <1>1, <1>5, <1>7, <1>8 DEF ContentInv
<1>11. kind # "vertices" /\ kind' = kind
  BY <1>5, <1>6
<1>12. PICK D : StreamData(D)
  BY <1>1, <1>11 DEF Data
<1>13. D \in [Supers -> Seq(Items)] /\ FileInv(D) /\ SentInv(D) /\ GotInv(D)
  BY <1>12 DEF StreamData
<1>14. (D \in [Supers -> Seq(Items)])'
  BY <1>13, <1>6
<1>15. FileInv(D)'
  <2>1. Writing' <=> Writing
    BY <1>5 DEF Writing, Work
  <2>2. QED
    BY <1>13, <1>5, <1>6, <2>1 DEF FileInv, Tail_, WritePcs, ScanPcs
<1>16. SentInv(D)'
  <2>1. \A s \in Supers : Unwritten(s)' = Unwritten(s)
    <3>1. DiskEmpty' <=> DiskEmpty
      BY <1>5, EmptyKept
    <3>2. \A s \in Supers : ToWrite(s)' = ToWrite(s)
      BY <1>5, <1>9 DEF ToWrite
    <3>3. Cached' = Cached
      BY <1>5, <1>9, <3>1 DEF Cached
    <3>4. \A s \in Supers : ToAppend(s)' = ToAppend(s)
      BY <1>5 DEF ToAppend
    <3>5. QED
      BY <3>2, <3>3, <3>4 DEF Unwritten
  <2>2. PICK all : all = Join(D[0], Unwritten(0)) /\ all = Join(D[0], Unwritten(0)')
    BY <1>6, <2>1
  <2>3. /\ IsInjective(all) /\ ToSet(all) = ToSet(sent[0])
        /\ Numbered(sent[0], 0)
        /\ cache = NULL /\ (request # NULL \/ disk[0].bytes > 0) => Len(all) > BufferSize
    BY <1>13, <1>6, <2>2 DEF SentInv
  <2>4. /\ Numbered(content'[batch'], Len(sent[0]))
        /\ Len(sent[0]) + Len(content'[batch']) <= MaxItems
    BY <1>5, <1>7, <1>8
  <2>5. QED
    BY <1>13, <1>5, <1>6, <2>2, <2>4 DEF SentInv
<1>17. GotInv(D)'
  <2>1. DiskEmpty' <=> DiskEmpty
    BY <1>5, EmptyKept
  <2>2. QED
    BY <1>13, <1>5, <1>6, <1>9, <2>1 DEF GotInv, ScanPcs
<1>18. QED
  BY <1>10, <1>11, <1>14, <1>15, <1>16, <1>17 DEF Data, StreamData

\* There are no more batches.  Its effect on the control.
LEMMA IngestEofThreads ==
  ASSUME IInv, IngestEof
  PROVE  Threads'
<1>1. Threads
  BY DEF IInv
<1>2. Place'
  BY <1>1 DEF Threads, Place, IngestEof, PcInv, Supers, mainVars, Rewinds, use
<1>3. Fields'
  BY <1>1 DEF Threads, Fields, IngestEof, Supers, mainVars, streamVars, bufferVars, use
<1>4. RequestInv'
  BY <1>1 DEF Threads, RequestInv, IngestEof, Work, At, mainVars, streamVars, bufferVars, use
<1>5. HolderInv'
  BY <1>1 DEF Threads, HolderInv, IngestEof, At, mainVars, streamVars, use
<1>6. RefInv'
  BY <1>1 DEF Threads, RefInv, IngestEof, RequestInv, At, mainVars, streamVars, bufferVars, use
<1>7. DirtyInv'
  BY <1>1 DEF Threads, DirtyInv, IngestEof, DiskEmpty, At, mainVars, streamVars, bufferVars,
     Supers, use
<1>8. AppendInv'
  BY <1>1 DEF Threads, AppendInv, IngestEof, WritePcs, DiskEmpty, At, mainVars, streamVars,
     bufferVars, Supers, use
<1>9. QED
  BY <1>2, <1>3, <1>4, <1>5, <1>6, <1>7, <1>8 DEF Threads

\* The same step: its effect on the buffers and files.
LEMMA IngestEofData ==
  ASSUME IInv, IngestEof
  PROVE  ContentInv' /\ Data'
<1>1. Threads /\ ContentInv /\ Data
  BY DEF IInv
<1>2. Threads'
  BY IngestEofThreads
<1>3. ContentInv'
  BY <1>1 DEF ContentInv, IngestEof, mainVars, streamVars, bufferVars, use
<1>4. kind # "vertices" /\ kind' = kind
  BY <1>1 DEF Threads, Place, PcInv, IngestEof, Rewinds, At, mainVars, use
<1>5. PICK D : StreamData(D)
  BY <1>1, <1>4 DEF Data
<1>6. D \in [Supers -> Seq(Items)] /\ FileInv(D) /\ SentInv(D) /\ GotInv(D)
  BY <1>5 DEF StreamData
<1>7. (D \in [Supers -> Seq(Items)])'
  BY <1>6 DEF Supers, IngestEof, mainVars, use
<1>8. FileInv(D)'
  BY <1>1, <1>2, <1>6, Basics DEF Threads, FileInv, IngestEof, Fields, RequestInv, Supers,
     WritePcs, Writing, ScanPcs, At, mainVars, bufferVars, Holders, use, Reading
<1>9. SentInv(D)'
  <2>1. \A s \in Supers : ToWrite(s)' = ToWrite(s)
    BY DEF ToWrite, IngestEof, streamVars, bufferVars
  <2>2. Cached' = Cached
    <3>1. DiskEmpty' <=> DiskEmpty
      BY EmptyKept DEF IngestEof, mainVars, use
    <3>2. QED
      BY <3>1 DEF Cached, IngestEof, streamVars, bufferVars
  <2>3. \A s \in Supers : ToAppend(s)' = ToAppend(s)
    BY DEF ToAppend, IngestEof, At
  <2>4. UNCHANGED <<kind, superPartitions, sent>>
    BY DEF IngestEof, mainVars, histVars, use
  <2>5. /\ batch' # NULL /\ pc' # "spillBatch" =>
              batch # NULL /\ pc # "spillBatch" /\ content'[batch'] = content[batch]
        /\ kind = "ingested" /\ cache' = NULL /\ (request' # NULL \/ disk'[0].bytes > 0) =>
              cache = NULL /\ (request # NULL \/ disk[0].bytes > 0)
        /\ pc' = "spillBatch" => /\ pc = "spillBatch" /\ content'[cache'] = content[cache]
                                 /\ uptodate'[request'] = uptodate[request] /\ disk'[0].bytes = disk[0].bytes
    BY DEF IngestEof, At, mainVars, streamVars, bufferVars, use
  <2>6. \A s \in Supers : Unwritten(s)' = Unwritten(s)
    BY <2>1, <2>2, <2>3 DEF Unwritten
  <2>7. QED
    BY <1>1, <1>6, <2>4, <2>5, <2>6, SentKept DEF Threads
<1>10. GotInv(D)'
  BY <1>6 DEF GotInv, IngestEof, Supers, ScanPcs, DiskEmpty, At, mainVars, streamVars,
     bufferVars, histVars, use
<1>11. QED
  BY <1>3, <1>4, <1>7, <1>8, <1>9, <1>10 DEF Data, StreamData

\* Merge_ingest: the stream is empty, the batch is appended to it.  Its
\* effect on the control.
LEMMA MergeEmptyThreads ==
  ASSUME IInv, MergeEmpty
  PROVE  Threads'
<1>1. Threads
  BY DEF IInv
<1>2. Place'
  BY <1>1 DEF Threads, Place, MergeEmpty, HolderInv, PcInv, Supers, Merging, AppendBatch, At
<1>3. Fields'
  BY <1>1 DEF Threads, Fields, MergeEmpty, HolderInv, Holders, Buffers, Merging, AppendBatch, At
<1>4. RequestInv'
  BY <1>1, Basics DEF Threads, RequestInv, MergeEmpty, Place, Fields, HolderInv, RefInv,
     DirtyInv, AppendInv, Buffers, Work, WritePcs, State, Merging, DiskEmpty, Sent, AppendBatch,
     PcInv, Supers, Holders, Pool, One, At, Rewinds, Reading
<1>5. HolderInv'
  BY <1>1 DEF Threads, HolderInv, MergeEmpty, Merging, AppendBatch, At
<1>6. RefInv'
  BY <1>1, Basics DEF Threads, RefInv, MergeEmpty, One, Merging, AppendBatch, At
<1>7. DirtyInv'
  BY <1>1, Basics DEF Threads, DirtyInv, MergeEmpty, Fields, Merging, AppendBatch, At
<1>8. AppendInv'
  BY DEF AppendInv, MergeEmpty, DiskEmpty, Merging, Supers
<1>9. QED
  BY <1>2, <1>3, <1>4, <1>5, <1>6, <1>7, <1>8 DEF Threads

\* The same step: its effect on the buffers and files.
LEMMA MergeEmptyData ==
  ASSUME IInv, MergeEmpty
  PROVE  ContentInv' /\ Data'
<1>1. Threads /\ ContentInv /\ Data
  BY DEF IInv
<1>2. Threads'
  BY MergeEmptyThreads
<1>3. /\ pc = "merge" /\ pc' = "append" /\ cache = NULL /\ request = NULL /\ DiskEmpty /\ cache' = NULL /\ request' = NULL
      /\ buf' = batch /\ batch' = NULL /\ requestSuperp' = APPEND /\ sent' = [sent EXCEPT ![0] = Join(@, content[batch])]
      /\ UNCHANGED <<kind, superPartitions, superp, content, uptodate, disk, got>>
  BY DEF MergeEmpty, Merging, At, AppendBatch, Sent, Join
<1>4. kind = "ingested" /\ batch # NULL /\ batch \in Buffers /\ Supers = {0} /\ Supers' = {0} /\ superPartitions = 1
  BY <1>1, <1>3, FirstSuper, Basics DEF Threads, Place, Fields, Holders, PcInv, Rewinds,
     Reading, HolderInv, Supers
<1>5. content[batch] \in Seq(Items) /\ OfFirst(content[batch]) /\ content[batch] # <<>> /\ disk[0].bytes = 0
  BY <1>1, <1>3, <1>4 DEF ContentInv, DiskEmpty
<1>6. ContentInv'
  BY <1>1, <1>3, <1>4, <1>5 DEF ContentInv
<1>7. kind # "vertices" /\ kind' = kind
  BY <1>3, <1>4
<1>8. PICK D : StreamData(D)
  BY <1>1, <1>7 DEF Data
<1>9. D \in [Supers -> Seq(Items)] /\ FileInv(D) /\ SentInv(D) /\ GotInv(D)
  BY <1>8 DEF StreamData
<1>10. disk[0] \in Disks /\ D[0] \in Seq(Items) /\ Reads(disk[0], D[0])
  BY <1>9, <1>3, <1>4 DEF FileInv
<1>11. D[0] = <<>> /\ Holds(disk[0], D[0])
  BY <1>5, <1>10, EmptyFile
<1>12. (D \in [Supers -> Seq(Items)])'
  BY <1>9, <1>4
<1>13. FileInv(D)'
  BY <1>9, <1>3, <1>4, <1>11 DEF FileInv
<1>14. SentInv(D)'
  <2>1. <<>> \in Seq(Items) /\ Join(<<>>, <<>>) = <<>> /\ Join(<<>>, content[batch]) = content[batch]
    BY <1>5, <1>10, Joins
  <2>2. Unwritten(0) = <<>>
    BY <1>3, <2>1 DEF Unwritten, ToWrite, Cached, ToAppend
  <2>3. Unwritten(0)' = content[batch]
    <3>1. Substream(content[batch], 0) = content[batch]
      BY <1>5, SubstreamIsAll
    <3>2. QED
      BY <1>3, <2>1, <3>1 DEF Unwritten, ToWrite, Cached, ToAppend
  <2>4. /\ sent[0] \in Seq(Items) /\ Numbered(sent[0], 0) /\ ToSet(<<>>) = ToSet(sent[0]) /\ IsInjective(<<>>)
        /\ Numbered(content[batch], Len(sent[0])) /\ Len(sent[0]) + Len(content[batch]) <= MaxItems
    BY <1>9, <1>3, <1>4, <1>11, <2>1, <2>2 DEF SentInv
  <2>5. sent'[0] = Join(sent[0], content[batch]) /\ sent' = [s \in {0} |-> sent'[0]]
    BY <1>9, <1>3, <1>4 DEF SentInv
  <2>6. PICK all : all = Join(D[0], Unwritten(0)') /\ all = Join(<<>>, content[batch])
    BY <1>11, <2>3
  <2>7. /\ all \in Seq(Items) /\ IsInjective(all) /\ ToSet(all) = ToSet(sent'[0]) /\ Numbered(sent'[0], 0)
        /\ sent'[0] \in Seq(Items) /\ Len(sent'[0]) = Len(sent[0]) + Len(content[batch])
    <3>1. PICK given, data, old, now : given = sent[0] /\ data = content[batch] /\ old = <<>> /\ now = sent'[0]
      OBVIOUS
    <3>2. given \in Seq(Items) /\ data \in Seq(Items) /\ old \in Seq(Items)
      BY <1>5, <1>10, <2>1, <2>4, <3>1
    <3>3. IsInjective(old) /\ ToSet(old) = ToSet(given) /\ Numbered(given, 0) /\ Numbered(data, Len(given))
      BY <2>4, <3>1
    <3>4. all = Join(old, data) /\ now = Join(given, data)
      BY <2>5, <2>6, <3>1
    <3>5. /\ all \in Seq(Items) /\ IsInjective(all) /\ ToSet(all) = ToSet(now) /\ Len(all) = Len(old) + Len(data)
          /\ Numbered(now, 0) /\ now \in Seq(Items) /\ Len(now) = Len(given) + Len(data)
      BY <3>2, <3>3, <3>4, MergedWhole
    <3>6. QED
      BY <3>1, <3>5
  <2>8. sent' \in [Supers -> Seq(Items)] /\ Len(sent'[0]) <= MaxItems
    BY <1>4, <2>4, <2>5, <2>7
  <2>9. QED
    BY <1>3, <1>4, <1>5, <2>6, <2>7, <2>8 DEF SentInv
<1>15. GotInv(D)'
  BY <1>9, <1>3, <1>4 DEF GotInv, ScanPcs
<1>16. QED
  BY <1>6, <1>7, <1>12, <1>13, <1>14, <1>15 DEF Data, StreamData

\* Merge_ingest: the batch goes to the cached buffer, as far as it fits.
\* Its effect on the control.
LEMMA MergeCachedThreads ==
  ASSUME IInv, MergeCached
  PROVE  Threads'
<1>1. Threads
  BY DEF IInv
<1>2. /\ pc = "merge" /\ cache # NULL /\ requestSuperp' = APPEND
      /\ UNCHANGED <<kind, superPartitions, cycle, superp, i, buf, startPos, cache, oneShot, flushComplete,
                     eofFlag, disk, io, dirty, got>>
  BY DEF MergeCached, Merging, At
<1>3. /\ kind = "ingested" /\ cycle # Cycles + 1 /\ request = NULL /\ batch \in Pool /\ cache \in Pool
      /\ batch # cache
  BY <1>1, <1>2 DEF Threads, Place, Fields, HolderInv, Holders
<1>4. ~Work /\ queue = 0 /\ io # "busy" /\ \A b \in Buffers : uptodate[b]
  <2>1. ~Work /\ queue = 0 /\ io # "busy" /\ \A b \in Buffers : uptodate[b]
    BY <1>1, <1>2, <1>3, NoWork DEF Threads, RequestDone
  <2>2. QED
    BY <1>1, <1>2, <2>1 DEF Threads, Fields
<1>5. superPartitions = 1 /\ DiskEmpty
  BY <1>1, <1>2, <1>3 DEF Threads, HolderInv, AppendInv
<1>6. \A b \in Pool : refcount[b] = One(b = cache) + One(b = batch)
  BY <1>1, <1>2, <1>3, Basics DEF Threads, RefInv, One
<1>7. \A b \in Pool : dirty[b] <=> b = cache
  BY <1>1, <1>2, <1>3, <1>5, Basics DEF Threads, DirtyInv
<1>8. \/ /\ request' = cache /\ writeOp' = TRUE /\ uptodate' = [uptodate EXCEPT ![cache] = FALSE] /\ queue' = 1
         /\ pc' = "spillBatch" /\ batch' = batch /\ refcount' = refcount /\ fatal' = fatal
      \/ /\ refcount' = Dropped(batch) /\ fatal' = DropError(batch) /\ batch' = NULL /\ pc' = "merged"
         /\ request' = NULL /\ UNCHANGED <<writeOp, uptodate, queue>>
  BY <1>3, <1>4 DEF MergeCached, Submit, AddWork
<1>9. /\ refcount' \in [Buffers -> Int] /\ refcount'[State] <= 0 /\ fatal' = "no"
      /\ \A b \in Pool : refcount'[b] = One(b = cache) + One(b = batch')
  <2>1. CASE batch' = batch
    BY <1>1, <1>3, <1>6, <1>8, <2>1, Basics DEF Threads, Fields
  <2>2. CASE batch' # batch
    <3>1. refcount' = Dropped(batch) /\ fatal' = DropError(batch) /\ batch' = NULL
      BY <1>8, <2>2
    <3>2. uptodate[batch] /\ ~dirty[batch]
      BY <1>3, <1>4, <1>7, Basics
    <3>3. /\ DropError(batch) = "no" /\ Dropped(batch) \in [Buffers -> Int]
          /\ Dropped(batch)[State] = refcount[State] /\ Dropped(batch)[batch] = refcount[batch] - 1
          /\ \A c \in Pool : c # batch => Dropped(batch)[c] = refcount[c]
      BY <1>1, <1>3, <3>2, DropsBuffer DEF Threads
    <3>4. QED
      BY <1>1, <1>6, <3>1, <3>3, Basics DEF Threads, Fields, One
  <2>3. QED
    BY <2>1, <2>2
<1>10. Place'
  BY <1>1, <1>2, <1>3, <1>8 DEF Threads, Place, PcInv, Supers
<1>11. Fields'
  <2>1. /\ {cache', buf', batch'} \subseteq Holders /\ request' \in IF kind' = "vertices" THEN {State, NULL} ELSE Holders
    BY <1>1, <1>2, <1>3, <1>8 DEF Threads, Fields
  <2>2. requestSuperp' \in Supers' \cup {APPEND} /\ {writeOp', oneShot', flushComplete', eofFlag'} \subseteq BOOLEAN
    BY <1>1, <1>2, <1>3, <1>4, <1>5, <1>6, <1>7, <1>8, <1>9, Basics DEF Threads, Fields,
       Holders, Supers, vars, mainVars, streamVars, bufferVars, histVars, use
  <2>3. queue' \in 0..1 /\ io' \in {"idle", "busy", "late"} /\ (io' = "busy" => queue' = 0)
    BY <1>1, <1>2, <1>4, <1>8 DEF Threads, Fields
  <2>4. uptodate' \in [Buffers -> BOOLEAN] /\ dirty' \in [Buffers -> BOOLEAN]
    BY <1>1, <1>2, <1>3, <1>4, <1>5, <1>6, <1>7, <1>8, <1>9, Basics DEF Threads, Fields,
       Holders, Supers, vars, mainVars, streamVars, bufferVars, histVars, use
  <2>5. refcount' \in [Buffers -> Int] /\ refcount'[State] <= 0 /\ startPos' \in Nat /\ fatal' = "no"
    BY <1>1, <1>2, <1>9 DEF Threads, Fields
  <2>6. QED
    BY <2>1, <2>2, <2>3, <2>4, <2>5 DEF Fields
<1>12. RequestInv'
  <2>1. CASE pc' = "spillBatch"
    <3>1. /\ request' = cache /\ writeOp' = TRUE /\ uptodate' = [uptodate EXCEPT ![cache] = FALSE] /\ queue' = 1
      BY <1>8, <2>1
    <3>2. Work' /\ uptodate' \in [Buffers -> BOOLEAN] /\ \A b \in Buffers : ~uptodate'[b] <=> b = cache
      BY <1>1, <1>3, <1>4, <3>1, Basics DEF Threads, Fields, Work
    <3>3. QED
      BY <1>1, <1>2, <1>3, <2>1, <3>1, <3>2 DEF Threads, RequestInv, WritePcs
  <2>2. CASE pc' # "spillBatch"
    <3>1. pc' = "merged" /\ request' = NULL /\ UNCHANGED <<writeOp, uptodate, queue>>
      BY <1>8, <2>2
    <3>2. ~Work' /\ \A b \in Buffers : uptodate'[b]
      BY <1>2, <1>4, <3>1 DEF Work
    <3>3. QED
      BY <1>1, <1>2, <3>1, <3>2 DEF Threads, RequestInv
  <2>3. QED
    BY <2>1, <2>2
<1>13. HolderInv'
  BY <1>1, <1>2, <1>8 DEF Threads, HolderInv
<1>14. RefInv'
  <2>1. \A b \in Pool : One(b \in {request', cache'}) = One(b = cache)
    BY <1>2, <1>8, Basics DEF One
  <2>2. pc' \notin {"append", "spill", "consume"}
    BY <1>8
  <2>3. QED
    BY <1>9, <2>1, <2>2 DEF RefInv, One
<1>15. DirtyInv'
  BY <1>1, <1>2, <1>3, <1>7, <1>8 DEF Threads, DirtyInv, DiskEmpty, Supers
<1>16. AppendInv'
  <2>1. DiskEmpty' /\ requestSuperp' = APPEND /\ pc' \in {"spillBatch", "merged"}
    BY <1>2, <1>5, <1>8 DEF DiskEmpty, Supers
  <2>2. request' # NULL => writeOp' /\ ~uptodate'[request']
    BY <1>1, <1>3, <1>8, Basics DEF Threads, Fields
  <2>3. QED
    BY <1>2, <1>3, <2>1, <2>2 DEF AppendInv, WritePcs
<1>17. QED
  BY <1>10, <1>11, <1>12, <1>13, <1>14, <1>15, <1>16 DEF Threads

\* The same step: its effect on the buffers and files.
LEMMA MergeCachedData ==
  ASSUME IInv, MergeCached
  PROVE  ContentInv' /\ Data'
<1>1. Threads /\ ContentInv /\ Data
  BY DEF IInv
<1>2. Threads'
  BY MergeCachedThreads
<1>3. /\ pc = "merge" /\ cache # NULL /\ cache' = cache /\ requestSuperp' = APPEND
      /\ sent' = [sent EXCEPT ![0] = Join(@, content[batch])]
      /\ UNCHANGED <<kind, superPartitions, superp, disk, got>>
  BY DEF MergeCached, Merging, At, Sent, Join
<1>4. /\ kind = "ingested" /\ request = NULL /\ batch \in Pool /\ cache \in Pool /\ batch # cache
      /\ superPartitions = 1 /\ DiskEmpty /\ Supers = {0} /\ Supers' = {0} /\ disk[0].bytes = 0 /\ superp = 0
  <2>1. /\ kind = "ingested" /\ request = NULL /\ batch \in Pool /\ cache \in Pool /\ batch # cache
    BY <1>1, <1>3 DEF Threads, Fields, HolderInv, Holders
  <2>2. superPartitions = 1 /\ DiskEmpty
    BY <1>1, <1>3, <2>1 DEF Threads, HolderInv, AppendInv
  <2>3. Supers = {0} /\ Supers' = {0} /\ superp = 0
    BY <1>1, <1>3, <2>2, FirstSuper DEF Threads, Supers
  <2>4. QED
    BY <2>1, <2>2, <2>3 DEF DiskEmpty
<1>5. /\ content \in [Buffers -> Seq(Items)] /\ \A b \in Buffers : Len(content[b]) <= BufferSize /\ OfFirst(content[b])
      /\ content[cache] # <<>> /\ content[batch] # <<>> /\ batch # NULL /\ batch \in Buffers /\ cache \in Buffers
      /\ \A b \in Buffers : uptodate[b]
  <2>1. batch # NULL /\ batch \in Buffers /\ cache \in Buffers
    BY <1>4, Basics
  <2>2. \A b \in Buffers : uptodate[b]
    BY <1>1, <1>4, <2>1, Basics DEF Threads, RequestInv
  <2>3. QED
    BY <1>1, <1>3, <1>4, <2>1, <2>2 DEF ContentInv
<1>6. PICK data, old, cut :
        /\ data = content[batch] /\ old = content[cache] /\ cut \in 0..Len(data)
        /\ content' = [content EXCEPT ![cache] = Join(old, SubSeq(data, cut + 1, Len(data))),
                                      ![batch] = SubSeq(data, 1, cut)]
        /\ Len(old) + (Len(data) - cut) <= BufferSize
        /\ IF cut > 0
           THEN /\ Len(old) + (Len(data) - cut) = BufferSize
                /\ request' = cache /\ writeOp' = TRUE /\ uptodate' = [uptodate EXCEPT ![cache] = FALSE]
                /\ pc' = "spillBatch" /\ batch' = batch
           ELSE pc' = "merged" /\ batch' = NULL /\ request' = NULL /\ uptodate' = uptodate /\ writeOp' = writeOp
  <2>1. PICK data, old, n, m, space : /\ data = content[batch] /\ old = content[cache] /\ n = Len(data) /\ m = Len(old)
                                      /\ space = Min({BufferSize - m, n})
    OBVIOUS
  <2>2. n \in Nat /\ m \in Nat /\ m <= BufferSize /\ BufferSize \in Nat /\ BufferSize - m \in Nat
    <3>1. n \in Nat /\ m \in Nat /\ m <= BufferSize
      BY <1>5, <2>1
    <3>2. QED
      BY <3>1, Basics
  <2>3. space = IF BufferSize - m <= n THEN BufferSize - m ELSE n
    BY <2>1, <2>2, OfTwo
  <2>4. PICK cut : cut = n - space
    OBVIOUS
  <2>5. cut \in 0..n /\ m + (n - cut) <= BufferSize /\ (cut > 0 => m + (n - cut) = BufferSize) /\ (space < n <=> cut > 0)
    BY <2>2, <2>3, <2>4
  <2>6. content' = [content EXCEPT ![cache] = @ \o SubSeq(content[batch], n - space + 1, n),
                                   ![batch] = SubSeq(@, 1, n - space)]
        /\ IF space < n
           THEN Submit(cache, TRUE) /\ pc' = "spillBatch" /\ UNCHANGED <<batch, refcount, fatal>>
           ELSE /\ refcount' = Dropped(batch) /\ fatal' = DropError(batch)
                /\ batch' = NULL
                /\ pc' = "merged" /\ UNCHANGED <<request, writeOp, uptodate, queue>>
    BY <2>1 DEF MergeCached
  <2>7. content' = [content EXCEPT ![cache] = Join(old, SubSeq(data, cut + 1, n)), ![batch] = SubSeq(data, 1, cut)]
    BY <1>4, <1>5, <2>1, <2>4, <2>6 DEF Join
  <2>8. IF cut > 0
        THEN /\ request' = cache /\ writeOp' = TRUE /\ uptodate' = [uptodate EXCEPT ![cache] = FALSE]
             /\ pc' = "spillBatch" /\ batch' = batch
        ELSE pc' = "merged" /\ batch' = NULL /\ request' = NULL /\ uptodate' = uptodate /\ writeOp' = writeOp
    BY <1>4, <2>5, <2>6 DEF Submit
  <2>9. QED
    BY <2>1, <2>5, <2>7, <2>8
<1>7. PICK n, m, c, front, back :
        /\ n \in Nat /\ m \in Nat /\ c \in Nat
        /\ n = Len(data) /\ m = Len(old) /\ c = cut /\ c <= n
        /\ front = SubSeq(data, 1, cut) /\ back = SubSeq(data, cut + 1, Len(data))
  <2>1. Len(data) \in Nat /\ Len(old) \in Nat
    BY <1>5, <1>6
  <2>2. cut \in 0..Len(data)
    BY <1>6
  <2>3. cut \in Nat /\ cut <= Len(data)
    BY <2>1, <2>2
  <2>4. QED
    BY <2>1, <2>3
<1>8. /\ data \in Seq(Items) /\ old \in Seq(Items) /\ OfFirst(data) /\ OfFirst(old) /\ old # <<>> /\ data # <<>>
      /\ m # 0 /\ n # 0 /\ n <= BufferSize /\ m + (n - c) <= BufferSize /\ (c > 0 => m + (n - c) = BufferSize)
  <2>1. data \in Seq(Items) /\ old \in Seq(Items) /\ OfFirst(data) /\ OfFirst(old) /\ old # <<>> /\ data # <<>>
        /\ n <= BufferSize
    BY <1>5, <1>6, <1>7
  <2>2. m # 0 /\ n # 0
    BY <1>7, <2>1, EmptySeq
  <2>3. m + (n - c) <= BufferSize /\ (c > 0 => m + (n - c) = BufferSize)
    BY <1>6, <1>7
  <2>4. QED
    BY <2>1, <2>2, <2>3
<1>9. front \in Seq(Items) /\ Len(front) = c /\ OfFirst(front)
  <2>1. /\ SubSeq(data, 0 + 1, c) \in Seq(Items) /\ Len(SubSeq(data, 0 + 1, c)) = c - 0
        /\ \A k \in 1..c - 0 : SubSeq(data, 0 + 1, c)[k] = data[0 + k]
    BY <1>7, <1>8, SubSeqIs
  <2>2. front \in Seq(Items) /\ Len(front) = c /\ \A k \in 1..c : front[k] = data[k]
    BY <1>7, <2>1
  <2>3. QED
    BY <1>7, <1>8, <2>2 DEF OfFirst
<1>10. back \in Seq(Items) /\ Len(back) = n - c /\ OfFirst(back)
  <2>1. back \in Seq(Items) /\ Len(back) = n - c /\ \A k \in 1..n - c : back[k] = data[c + k]
    BY <1>7, <1>8, SubSeqIs
  <2>2. \A k \in 1..n - c : c + k \in 1..n
    BY <1>7
  <2>3. QED
    BY <1>7, <1>8, <2>1, <2>2 DEF OfFirst
<1>11. PICK new : new = Join(old, back)
  OBVIOUS
<1>12. new \in Seq(Items) /\ Len(new) = m + (n - c) /\ OfFirst(new) /\ new # <<>>
  <2>1. new \in Seq(Items) /\ Len(new) = m + (n - c)
    BY <1>7, <1>8, <1>10, <1>11, Joins
  <2>2. OfFirst(new)
    <3> SUFFICES ASSUME NEW k \in 1..Len(new) PROVE new[k][1] = 0
      BY DEF OfFirst
    <3>1. k \in 1..Len(old) + Len(back)
      BY <1>7, <1>10, <2>1
    <3>2. new[k] = IF k <= Len(old) THEN old[k] ELSE back[k - Len(old)]
      BY <1>8, <1>10, <1>11, <3>1, JoinItems
    <3>3. IF k <= m THEN k \in 1..m ELSE k - m \in 1..n - c
      BY <1>7, <2>1
    <3>4. CASE k <= m
      <4>1. k \in 1..Len(old) /\ new[k] = old[k]
        BY <1>7, <3>2, <3>3, <3>4
      <4>2. QED
        BY <1>8, <4>1 DEF OfFirst
    <3>5. CASE ~(k <= m)
      <4>1. k - m \in 1..Len(back) /\ new[k] = back[k - m]
        BY <1>7, <1>10, <3>2, <3>3, <3>5
      <4>2. QED
        BY <1>10, <4>1 DEF OfFirst
    <3>6. QED
      BY <3>4, <3>5
  <2>3. Len(new) # 0
    BY <1>7, <1>8, <2>1
  <2>4. QED
    BY <2>1, <2>2, <2>3, EmptySeq
<1>13. content' = [content EXCEPT ![cache] = new, ![batch] = front]
  BY <1>6, <1>7, <1>11
<1>14. /\ content' \in [Buffers -> Seq(Items)] /\ content'[cache] = new /\ content'[batch] = front
       /\ \A b \in Buffers : b # cache /\ b # batch => content'[b] = content[b]
  BY <1>4, <1>5, <1>9, <1>12, <1>13
<1>15. ContentInv'
  <2>1. \A b \in Buffers : Len(content'[b]) <= BufferSize
    <3>1. Len(front) <= BufferSize /\ Len(new) <= BufferSize
      BY <1>7, <1>8, <1>9, <1>12, Basics
    <3>2. QED
      BY <1>5, <1>14, <3>1
  <2>2. \A b \in Buffers : OfFirst(content'[b])
    BY <1>5, <1>9, <1>12, <1>14
  <2>3. batch' # NULL => batch' = batch /\ content'[batch] # <<>>
    <3>1. batch' # NULL => batch' = batch /\ c > 0
      BY <1>6, <1>7
    <3>2. c > 0 => front # <<>>
      <4>1. ASSUME front = <<>> PROVE c = 0
        BY <4>1, <1>7, <1>9, EmptySeq
      <4>2. QED
        BY <4>1, <1>7
    <3>3. QED
      BY <1>14, <3>1, <3>2
  <2>4. (request' # NULL => request' = cache) /\ pc' \in {"spillBatch", "merged"}
    BY <1>6
  <2>5. content'[cache] # <<>>
    BY <1>12, <1>14
  <2>6. QED
    BY <1>3, <1>14, <2>1, <2>2, <2>3, <2>4, <2>5 DEF ContentInv
<1>16. kind # "vertices" /\ kind' = kind
  BY <1>3, <1>4
<1>17. PICK D : StreamData(D)
  BY <1>1, <1>16 DEF Data
<1>18. D \in [Supers -> Seq(Items)] /\ FileInv(D) /\ SentInv(D) /\ GotInv(D)
  BY <1>17 DEF StreamData
<1>19. D[0] = <<>> /\ disk[0] \in Disks /\ Holds(disk[0], D[0]) /\ disk[0].pos = disk[0].bytes /\ disk[0].bytes = Len(D[0])
  <2>1. disk[0] \in Disks /\ D[0] \in Seq(Items) /\ Reads(disk[0], D[0]) /\ disk[0].bytes = Len(D[0])
    BY <1>18, <1>3, <1>4 DEF FileInv
  <2>2. D[0] = <<>> /\ disk[0].pos = 0 /\ Holds(disk[0], D[0])
    BY <1>4, <2>1, EmptyFile
  <2>3. QED
    BY <1>4, <2>1, <2>2
<1>20. (D \in [Supers -> Seq(Items)])'
  BY <1>18, <1>4
<1>21. FileInv(D)'
  <2>1. pc' \in {"spillBatch", "merged"}
    BY <1>6
  <2>2. disk \in [Supers -> Disks] /\ disk' = disk
    BY <1>18, <1>3 DEF FileInv
  <2>3. disk[0].pos <= disk[0].bytes
    BY <1>18, <1>4 DEF FileInv
  <2>4. superPartitions = 1 => OfFirst(D[0])
    BY <1>18, <1>4 DEF FileInv
  <2>5. QED
    BY <1>4, <1>19, <2>1, <2>2, <2>4 DEF FileInv, ScanPcs
<1>22. SentInv(D)'
  <2>1. <<>> \in Seq(Items) /\ Join(<<>>, <<>>) = <<>> /\ Join(old, <<>>) = old /\ Join(<<>>, old) = old
        /\ Join(new, <<>>) = new /\ Join(<<>>, front) = front /\ Join(<<>>, new) = new
    BY <1>8, <1>9, <1>12, Joins
  <2>2. Unwritten(0) = old
    <3>1. ToWrite(0) = <<>> /\ Cached = old /\ ToAppend(0) = <<>>
      BY <1>3, <1>4, <1>6 DEF ToWrite, Cached, ToAppend
    <3>2. QED
      BY <2>1, <3>1 DEF Unwritten
  <2>3. PICK given, now, rest : given = sent[0] /\ now = sent'[0] /\ rest = Unwritten(0)'
    OBVIOUS
  <2>4. /\ given \in Seq(Items) /\ Numbered(given, 0) /\ IsInjective(old) /\ ToSet(old) = ToSet(given)
        /\ Numbered(data, Len(given)) /\ Len(given) + Len(data) <= MaxItems
    <3>1. Join(D[0], Unwritten(0)) = old
      BY <1>19, <2>1, <2>2
    <3>2. /\ IsInjective(Join(D[0], Unwritten(0))) /\ ToSet(Join(D[0], Unwritten(0))) = ToSet(sent[0])
          /\ Numbered(sent[0], 0) /\ Numbered(content[batch], Len(sent[0]))
          /\ Len(sent[0]) + Len(content[batch]) <= MaxItems
      BY <1>18, <1>3, <1>4, <1>5 DEF SentInv
    <3>3. sent[0] \in Seq(Items)
      BY <1>18, <1>4 DEF SentInv
    <3>4. QED
      BY <1>6, <2>3, <3>1, <3>2, <3>3
  <2>5. now = Join(given, data) /\ sent' = [s \in {0} |-> now]
    BY <1>18, <1>3, <1>4, <1>6, <2>3 DEF SentInv
  <2>6. DiskEmpty'
    BY <1>3, <1>4, EmptyKept
  <2>7. rest = Join(new, front)
    <3>1. CASE cut > 0
      <4>1. /\ request' = cache /\ writeOp' = TRUE /\ pc' = "spillBatch" /\ batch' = batch
            /\ uptodate'[cache] = FALSE
        BY <1>1, <1>5, <1>6, <3>1 DEF Threads, Fields
      <4>2. ToWrite(0)' = new
        <5>1. Substream(new, 0) = new
          BY <1>12, SubstreamIsAll
        <5>2. QED
          BY <1>3, <1>14, <4>1, <5>1 DEF ToWrite
      <4>3. Cached' = <<>> /\ ToAppend(0)' = front
        BY <1>3, <1>14, <4>1 DEF Cached, ToAppend
      <4>4. QED
        BY <2>1, <2>3, <4>2, <4>3 DEF Unwritten
    <3>2. CASE ~(cut > 0)
      <4>1. pc' = "merged" /\ request' = NULL
        BY <1>6, <3>2
      <4>2. ToWrite(0)' = <<>> /\ Cached' = new /\ ToAppend(0)' = <<>>
        BY <1>3, <1>14, <2>6, <4>1 DEF ToWrite, Cached, ToAppend
      <4>3. front = <<>>
        <5>1. c = 0
          BY <1>7, <3>2
        <5>2. QED
          BY <1>9, <5>1, EmptySeq
      <4>4. QED
        BY <2>1, <2>3, <4>2, <4>3 DEF Unwritten
    <3>3. QED
      BY <3>1, <3>2
  <2>8. PICK x : x = Join(D[0], rest) /\ x = rest /\ x = Join(new, front)
    <3>1. Join(new, front) \in Seq(Items)
      BY <1>9, <1>12, Joins
    <3>2. Join(<<>>, Join(new, front)) = Join(new, front)
      BY <3>1, Joins
    <3>3. QED
      BY <1>19, <2>7, <3>2
  <2>9. x = Join(Join(old, SubSeq(data, cut + 1, Len(data))), SubSeq(data, 1, cut))
    BY <1>7, <1>11, <2>8
  <2>10. cut \in 0..Len(data)
    BY <1>6
  <2>11. x \in Seq(Items) /\ IsInjective(x) /\ ToSet(x) = ToSet(now) /\ Numbered(now, 0)
    BY <1>8, <2>4, <2>5, <2>9, <2>10, MergedOnce
  <2>12. now \in Seq(Items) /\ Len(now) <= MaxItems
    <3>1. now \in Seq(Items) /\ Len(now) = Len(given) + Len(data)
      BY <1>8, <2>4, <2>5, Joins
    <3>2. QED
      BY <2>4, <3>1
  <2>13. sent' \in [Supers -> Seq(Items)] /\ \A s \in {0} : Len(sent'[s]) <= MaxItems
    BY <1>4, <2>5, <2>12
  <2>14. pc' = "spillBatch" => /\ Len(content'[cache']) = BufferSize
                               /\ disk'[0].bytes = 0 /\ ~uptodate'[request']
    <3>1. pc' = "spillBatch" => c > 0 /\ request' = cache /\ uptodate' = [uptodate EXCEPT ![cache] = FALSE]
      BY <1>6, <1>7
    <3>2. QED
      BY <1>1, <1>3, <1>4, <1>5, <1>8, <1>12, <1>14, <3>1 DEF Threads, Fields
  <2>15. batch' = NULL \/ pc' = "spillBatch"
    BY <1>6
  <2>16. Join(D[0], Unwritten(0)') = x
    BY <2>3, <2>8
  <2>17. LET all == Join(D[0], Unwritten(0)')
         IN /\ IsInjective(all) /\ ToSet(all) = ToSet(sent'[0])
            /\ Numbered(sent'[0], 0)
    BY <2>3, <2>11, <2>16
  <2>18. QED
    BY <1>3, <1>4, <2>13, <2>14, <2>15, <2>17 DEF SentInv
<1>23. GotInv(D)'
  <2>1. pc' \in {"spillBatch", "merged"} /\ DiskEmpty'
    BY <1>3, <1>4, <1>6, EmptyKept
  <2>2. QED
    BY <1>18, <1>3, <1>4, <2>1 DEF GotInv, ScanPcs
<1>24. QED
  BY <1>15, <1>16, <1>20, <1>21, <1>22, <1>23 DEF Data, StreamData

\* Merge_ingest: the cached buffer is written, the rest of the batch
\* follows.  Its effect on the control.
LEMMA MergeSpilledThreads ==
  ASSUME IInv, MergeSpilled
  PROVE  Threads'
<1>1. Threads
  BY DEF IInv
<1>2. /\ pc = "spillBatch" /\ uptodate[request] /\ pc' = "append"
      /\ refcount' = Dropped(request) /\ fatal' = DropError(request)
      /\ request' = NULL /\ cache' = NULL /\ buf' = batch /\ batch' = NULL
      /\ dirty' = [dirty EXCEPT ![batch] = TRUE]
      /\ UNCHANGED <<kind, superPartitions, cycle, superp, i, startPos, requestSuperp, writeOp, oneShot,
                     flushComplete, eofFlag, queue, io, content, uptodate, histVars>>
  BY DEF MergeSpilled, AppendBatch, At
<1>3. /\ kind = "ingested" /\ cycle # Cycles + 1 /\ request = cache /\ batch \in Pool /\ cache \in Pool
      /\ batch # cache /\ superPartitions = 1 /\ requestSuperp = APPEND /\ writeOp
  BY <1>1, <1>2 DEF Threads, Place, Fields, RequestInv, HolderInv, Holders
<1>4. ~Work /\ queue = 0 /\ io # "busy" /\ \A b \in Buffers : uptodate[b]
  <2>1. ~Work /\ queue = 0 /\ io # "busy" /\ \A b \in Buffers : uptodate[b]
    BY <1>1, <1>2, <1>3, NoWork DEF Threads, RequestDone
  <2>2. QED
    BY <1>1, <1>2, <2>1 DEF Threads, Fields
<1>5. \A b \in Pool : refcount[b] = One(b = cache) + One(b = batch)
  BY <1>1, <1>2, <1>3 DEF Threads, RefInv, One
<1>6. ~DiskEmpty
  <2>1. 0 \in Supers /\ cache # NULL
    BY <1>1, <1>3, FirstSuper, Basics DEF Threads
  <2>2. disk[0].bytes > 0
    BY <1>1, <1>2, <1>3, <2>1 DEF Threads, AppendInv
  <2>3. QED
    BY <2>1, <2>2 DEF DiskEmpty
<1>7. \A b \in Pool : ~dirty[b]
  BY <1>1, <1>2, <1>6 DEF Threads, DirtyInv
<1>8. /\ DropError(cache) = "no" /\ Dropped(cache) \in [Buffers -> Int]
      /\ Dropped(cache)[State] = refcount[State] /\ Dropped(cache)[cache] = refcount[cache] - 1
      /\ \A c \in Pool : c # cache => Dropped(cache)[c] = refcount[c]
  BY <1>1, <1>2, <1>3, <1>7, DropsBuffer DEF Threads
<1>9. /\ refcount' \in [Buffers -> Int] /\ refcount'[State] <= 0 /\ fatal' = "no"
      /\ \A b \in Pool : refcount'[b] = One(b = batch)
  <2>1. refcount' = Dropped(cache) /\ fatal' = DropError(cache) /\ refcount[State] <= 0
    BY <1>1, <1>2, <1>3 DEF Threads, Fields
  <2>2. \A b \in Pool : refcount'[b] = One(b = batch)
    BY <1>3, <1>5, <1>8, <2>1 DEF One
  <2>3. QED
    BY <1>8, <2>1, <2>2
<1>10. dirty' \in [Buffers -> BOOLEAN] /\ \A b \in Pool : dirty'[b] <=> b = batch
  BY <1>1, <1>2, <1>3, <1>7, Basics DEF Threads, Fields
<1>11. Place'
  BY <1>1, <1>2, <1>3 DEF Threads, Place, PcInv, Supers
<1>12. Fields'
  BY <1>1, <1>2, <1>9, <1>10 DEF Threads, Fields, Holders, Supers, One
<1>13. RequestInv'
  BY <1>1, <1>2, <1>3, <1>4 DEF Threads, RequestInv, Work
<1>14. HolderInv'
  BY <1>1, <1>2 DEF Threads, HolderInv
<1>15. RefInv'
  BY <1>2, <1>3, <1>9, Basics DEF RefInv, One
<1>16. DirtyInv'
  BY <1>2, <1>3, <1>10, Basics DEF DirtyInv
<1>17. AppendInv'
  BY <1>2, <1>3 DEF AppendInv
<1>18. QED
  BY <1>11, <1>12, <1>13, <1>14, <1>15, <1>16, <1>17 DEF Threads

\* The same step: its effect on the buffers and files.
LEMMA MergeSpilledData ==
  ASSUME IInv, MergeSpilled
  PROVE  ContentInv' /\ Data'
<1>1. Threads /\ ContentInv /\ Data
  BY DEF IInv
<1>2. Threads'
  BY MergeSpilledThreads
<1>3. /\ pc = "spillBatch" /\ pc' = "append" /\ uptodate[request] /\ cache' = NULL /\ request' = NULL
      /\ buf' = batch /\ batch' = NULL
      /\ disk' = [s \in Supers |-> ToEnd(disk[s])]
      /\ UNCHANGED <<kind, superPartitions, superp, requestSuperp, content, uptodate, sent, got>>
  BY DEF MergeSpilled, At, AppendBatch, histVars
<1>4. kind = "ingested" /\ batch # NULL /\ batch \in Buffers /\ Supers = {0} /\ Supers' = {0} /\ superPartitions = 1
      /\ cache = request /\ requestSuperp = APPEND
  BY <1>1, <1>3, FirstSuper, Basics DEF Threads, Place, Fields, Holders, PcInv, Rewinds,
     Reading, HolderInv, Supers, AppendInv, WritePcs
<1>5. content[batch] \in Seq(Items) /\ OfFirst(content[batch]) /\ content[batch] # <<>>
  BY <1>1, <1>3, <1>4 DEF ContentInv
<1>6. ContentInv'
  BY <1>1, <1>3, <1>4, <1>5 DEF ContentInv
<1>7. kind # "vertices" /\ kind' = kind
  BY <1>3, <1>4
<1>8. PICK D : StreamData(D)
  BY <1>1, <1>7 DEF Data
<1>9. D \in [Supers -> Seq(Items)] /\ FileInv(D) /\ SentInv(D) /\ GotInv(D)
  BY <1>8 DEF StreamData
<1>10. disk[0] \in Disks /\ D[0] \in Seq(Items) /\ Holds(disk[0], D[0]) /\ disk[0].bytes = Len(D[0])
  BY <1>9, <1>3, <1>4 DEF FileInv, WritePcs
<1>11. disk'[0] \in Disks /\ Holds(disk'[0], D[0]) /\ disk'[0].bytes = disk[0].bytes
  <2>1. disk'[0] = ToEnd(disk[0])
    BY <1>3, <1>4
  <2>2. QED
    BY <1>10, <2>1, ToEndHolds
<1>12. (D \in [Supers -> Seq(Items)])'
  BY <1>9, <1>4
<1>13. FileInv(D)'
  <2>1. disk' \in [Supers -> Disks]
    BY <1>3, <1>4, <1>11
  <2>2. disk'[0].pos = disk'[0].bytes /\ disk'[0].bytes = Len(D[0]) /\ Len(D[0]) \in Nat
    BY <1>10, <1>11 DEF Holds, Carried
  <2>3. superPartitions = 1 => OfFirst(D[0])
    BY <1>9, <1>4 DEF FileInv
  <2>4. QED
    BY <1>3, <1>4, <1>11, <2>1, <2>2, <2>3 DEF FileInv, WritePcs, ScanPcs
<1>14. SentInv(D)'
  <2>1. <<>> \in Seq(Items) /\ Join(<<>>, <<>>) = <<>> /\ Join(<<>>, content[batch]) = content[batch]
    BY <1>5, <1>10, Joins
  <2>2. Unwritten(0) = content[batch]
    BY <1>3, <1>4, <2>1 DEF Unwritten, ToWrite, Cached, ToAppend
  <2>3. Unwritten(0)' = content[batch]
    <3>1. Substream(content[batch], 0) = content[batch]
      BY <1>5, SubstreamIsAll
    <3>2. QED
      BY <1>3, <1>4, <2>1, <3>1 DEF Unwritten, ToWrite, Cached, ToAppend
  <2>4. PICK all : all = Join(D[0], Unwritten(0)) /\ all = Join(D[0], Unwritten(0)') /\ all = Join(D[0], content[batch])
    BY <2>2, <2>3
  <2>5. /\ IsInjective(all) /\ ToSet(all) = ToSet(sent[0]) /\ Numbered(sent[0], 0) /\ disk[0].bytes = BufferSize
    BY <1>9, <1>3, <1>4, <2>4 DEF SentInv
  <2>6. Len(all) > BufferSize
    <3>1. Len(all) = Len(D[0]) + Len(content[batch]) /\ Len(content[batch]) \in Nat
      BY <1>5, <1>10, <2>4, Joins
    <3>2. Len(content[batch]) # 0
      BY <1>5, EmptySeq
    <3>3. Len(D[0]) = BufferSize /\ BufferSize \in Nat
      BY <1>10, <2>5, Basics
    <3>4. QED
      BY <3>1, <3>2, <3>3
  <2>7. QED
    BY <1>9, <1>3, <1>4, <2>4, <2>6 DEF SentInv
<1>15. GotInv(D)'
  BY <1>9, <1>3, <1>4 DEF GotInv, ScanPcs
<1>16. QED
  BY <1>6, <1>7, <1>12, <1>13, <1>14, <1>15 DEF Data, StreamData

\* Merge_ingest: the batch is to be written to the file.  Its effect on the
\* control.
LEMMA MergeOnDiskThreads ==
  ASSUME IInv, MergeOnDisk
  PROVE  Threads'
<1>1. Threads
  BY DEF IInv
<1>2. Place'
  BY <1>1 DEF Threads, Place, MergeOnDisk, RequestInv, HolderInv, PcInv, Supers, Merging,
     AppendBatch, At
<1>3. Fields'
  BY <1>1 DEF Threads, Fields, MergeOnDisk, RequestInv, HolderInv, Holders, Buffers, Merging,
     AppendBatch, At
<1>4. RequestInv'
  BY <1>1 DEF Threads, RequestInv, MergeOnDisk, Work, Merging, AppendBatch, Pool, At
<1>5. HolderInv'
  BY <1>1 DEF Threads, HolderInv, MergeOnDisk, RequestInv, Merging, AppendBatch, At
<1>6. RefInv'
  BY <1>1, Basics DEF Threads, RefInv, MergeOnDisk, RequestInv, One, Merging, AppendBatch,
     State, Work, WritePcs, At
<1>7. DirtyInv'
  BY <1>1, Basics DEF Threads, DirtyInv, MergeOnDisk, Fields, RequestInv, Merging, AppendBatch,
     At
<1>8. AppendInv'
  BY <1>1 DEF Threads, AppendInv, MergeOnDisk, RequestInv, Merging, AppendBatch, At
<1>9. QED
  BY <1>2, <1>3, <1>4, <1>5, <1>6, <1>7, <1>8 DEF Threads

\* The same step: its effect on the buffers and files.
LEMMA MergeOnDiskData ==
  ASSUME IInv, MergeOnDisk
  PROVE  ContentInv' /\ Data'
<1>1. Threads /\ ContentInv /\ Data
  BY DEF IInv
<1>2. Threads'
  BY MergeOnDiskThreads
<1>3. /\ pc = "merge" /\ pc' = "append" /\ cache = NULL /\ cache' = NULL /\ request' = request /\ ~DiskEmpty
      /\ buf' = batch /\ batch' = NULL /\ requestSuperp' = APPEND /\ sent' = [sent EXCEPT ![0] = Join(@, content[batch])]
      /\ disk' = [s \in Supers |-> ToEnd(disk[s])]
      /\ UNCHANGED <<kind, superPartitions, superp, content, uptodate, got>>
  BY DEF MergeOnDisk, Merging, At, AppendBatch, Sent, Join
<1>4. kind = "ingested" /\ batch # NULL /\ batch \in Buffers /\ Supers = {0} /\ Supers' = {0} /\ superPartitions = 1
      /\ request = NULL
  BY <1>1, <1>3, FirstSuper, Basics DEF Threads, Place, Fields, Holders, PcInv, Rewinds,
     Reading, HolderInv, Supers, RequestInv
<1>5. content[batch] \in Seq(Items) /\ OfFirst(content[batch]) /\ content[batch] # <<>> /\ disk[0].bytes > 0
  <2>1. disk[0].bytes \in Nat /\ disk[0].bytes # 0
    BY <1>3, <1>4, Types DEF DiskEmpty
  <2>2. QED
    BY <1>1, <1>3, <1>4, <2>1 DEF ContentInv
<1>6. ContentInv'
  BY <1>1, <1>3, <1>4, <1>5 DEF ContentInv
<1>7. kind # "vertices" /\ kind' = kind
  BY <1>3, <1>4
<1>8. PICK D : StreamData(D)
  BY <1>1, <1>7 DEF Data
<1>9. D \in [Supers -> Seq(Items)] /\ FileInv(D) /\ SentInv(D) /\ GotInv(D)
  BY <1>8 DEF StreamData
<1>10. disk[0] \in Disks /\ D[0] \in Seq(Items) /\ Reads(disk[0], D[0]) /\ disk[0].pos = disk[0].bytes
  BY <1>9, <1>3, <1>4 DEF FileInv
<1>11. disk'[0] \in Disks /\ Holds(disk'[0], D[0]) /\ disk'[0].bytes = disk[0].bytes
  <2>1. disk'[0] = ToEnd(disk[0])
    BY <1>3, <1>4
  <2>2. QED
    BY <1>10, <2>1, ToEndHolds
<1>12. (D \in [Supers -> Seq(Items)])'
  BY <1>9, <1>4
<1>13. FileInv(D)'
  <2>1. disk' \in [Supers -> Disks]
    BY <1>3, <1>4, <1>11
  <2>2. disk'[0].pos = disk'[0].bytes /\ disk'[0].bytes = Len(D[0]) /\ Len(D[0]) \in Nat
    <3>1. disk'[0].pos = Len(D[0]) /\ disk'[0].bytes = Len(D[0])
      BY <1>11 DEF Holds, Carried
    <3>2. Len(D[0]) \in Nat
      BY <1>10
    <3>3. QED
      BY <3>1, <3>2
  <2>3. superPartitions = 1 => OfFirst(D[0])
    BY <1>9, <1>4 DEF FileInv
  <2>4. QED
    BY <1>3, <1>4, <1>11, <2>1, <2>2, <2>3 DEF FileInv, WritePcs, ScanPcs
<1>14. SentInv(D)'
  <2>1. <<>> \in Seq(Items) /\ Join(<<>>, <<>>) = <<>> /\ Join(<<>>, content[batch]) = content[batch] /\ Join(D[0], <<>>) = D[0]
    BY <1>5, <1>10, Joins
  <2>2. Unwritten(0) = <<>>
    BY <1>3, <1>4, <2>1 DEF Unwritten, ToWrite, Cached, ToAppend
  <2>3. Unwritten(0)' = content[batch]
    <3>1. Substream(content[batch], 0) = content[batch]
      BY <1>5, SubstreamIsAll
    <3>2. QED
      BY <1>3, <1>4, <2>1, <3>1 DEF Unwritten, ToWrite, Cached, ToAppend
  <2>4. /\ sent[0] \in Seq(Items) /\ Numbered(sent[0], 0) /\ ToSet(D[0]) = ToSet(sent[0]) /\ IsInjective(D[0])
        /\ Numbered(content[batch], Len(sent[0])) /\ Len(sent[0]) + Len(content[batch]) <= MaxItems
        /\ Len(D[0]) > BufferSize
    BY <1>9, <1>3, <1>4, <1>5, <2>1, <2>2 DEF SentInv
  <2>5. sent'[0] = Join(sent[0], content[batch]) /\ sent' = [s \in {0} |-> sent'[0]]
    BY <1>9, <1>3, <1>4 DEF SentInv
  <2>6. PICK all : all = Join(D[0], Unwritten(0)') /\ all = Join(D[0], content[batch])
    BY <2>3
  <2>7. /\ all \in Seq(Items) /\ IsInjective(all) /\ ToSet(all) = ToSet(sent'[0]) /\ Numbered(sent'[0], 0)
        /\ sent'[0] \in Seq(Items) /\ Len(sent'[0]) = Len(sent[0]) + Len(content[batch])
        /\ Len(all) = Len(D[0]) + Len(content[batch])
    <3>1. PICK given, data, old, now : given = sent[0] /\ data = content[batch] /\ old = D[0] /\ now = sent'[0]
      OBVIOUS
    <3>2. given \in Seq(Items) /\ data \in Seq(Items) /\ old \in Seq(Items)
      BY <1>5, <1>10, <2>1, <2>4, <3>1
    <3>3. IsInjective(old) /\ ToSet(old) = ToSet(given) /\ Numbered(given, 0) /\ Numbered(data, Len(given))
      BY <2>4, <3>1
    <3>4. all = Join(old, data) /\ now = Join(given, data)
      BY <2>5, <2>6, <3>1
    <3>5. /\ all \in Seq(Items) /\ IsInjective(all) /\ ToSet(all) = ToSet(now) /\ Len(all) = Len(old) + Len(data)
          /\ Numbered(now, 0) /\ now \in Seq(Items) /\ Len(now) = Len(given) + Len(data)
      BY <3>2, <3>3, <3>4, MergedWhole
    <3>6. QED
      BY <3>1, <3>5
  <2>8. sent' \in [Supers -> Seq(Items)] /\ Len(sent'[0]) <= MaxItems
    BY <1>4, <2>4, <2>5, <2>7
  <2>9. Len(all) > BufferSize
    <3>1. Len(content[batch]) \in Nat /\ Len(D[0]) \in Nat /\ BufferSize \in Nat
      BY <1>5, <1>10, Basics
    <3>2. Len(D[0]) > BufferSize
      BY <2>4
    <3>3. Len(all) = Len(D[0]) + Len(content[batch])
      BY <2>7
    <3>4. PICK m, n, k : m \in Nat /\ n \in Nat /\ m = Len(D[0]) /\ n = Len(content[batch]) /\ k = Len(all)
      BY <3>1
    <3>5. m \in Nat /\ n \in Nat /\ m > BufferSize /\ k = m + n
      BY <3>2, <3>3, <3>4
    <3>6. k > BufferSize
      BY <3>1, <3>5
    <3>7. QED
      BY <3>4, <3>6
  <2>10. QED
    BY <1>3, <1>4, <2>6, <2>7, <2>8, <2>9 DEF SentInv
<1>15. GotInv(D)'
  BY <1>9, <1>3, <1>4 DEF GotInv, ScanPcs
<1>16. QED
  BY <1>6, <1>7, <1>12, <1>13, <1>14, <1>15 DEF Data, StreamData

\* The batch is merged and the program goes on.  Its effect on the control.
LEMMA MergedThreads ==
  ASSUME IInv, Merged
  PROVE  Threads'
<1>1. Threads
  BY DEF IInv
<1>2. Place'
  BY <1>1 DEF Threads, Place, Merged, PcInv, Supers, At, mainVars, Rewinds, Reading, use
<1>3. Fields'
  BY <1>1 DEF Threads, Fields, Merged, Supers, mainVars, streamVars, bufferVars, use
<1>4. RequestInv'
  BY <1>1 DEF Threads, RequestInv, Merged, Work, At, mainVars, streamVars, bufferVars, use
<1>5. HolderInv'
  BY <1>1 DEF Threads, HolderInv, Merged, At, mainVars, streamVars, use
<1>6. RefInv'
  BY <1>1 DEF Threads, RefInv, Merged, RequestInv, At, mainVars, streamVars, bufferVars, use
<1>7. DirtyInv'
  BY <1>1 DEF Threads, DirtyInv, Merged, DiskEmpty, At, mainVars, streamVars, bufferVars,
     Supers, use
<1>8. AppendInv'
  BY <1>1 DEF Threads, AppendInv, Merged, WritePcs, DiskEmpty, At, mainVars, streamVars,
     bufferVars, Supers, use
<1>9. QED
  BY <1>2, <1>3, <1>4, <1>5, <1>6, <1>7, <1>8 DEF Threads

\* The same step: its effect on the buffers and files.
LEMMA MergedData ==
  ASSUME IInv, Merged
  PROVE  ContentInv' /\ Data'
<1>1. Threads /\ ContentInv /\ Data
  BY DEF IInv
<1>2. Threads'
  BY MergedThreads
<1>3. ContentInv'
  BY <1>1 DEF ContentInv, Merged, mainVars, streamVars, bufferVars, use
<1>4. kind # "vertices" /\ kind' = kind
  BY <1>1 DEF Threads, Place, PcInv, Merged, Rewinds, At, mainVars, use
<1>5. PICK D : StreamData(D)
  BY <1>1, <1>4 DEF Data
<1>6. D \in [Supers -> Seq(Items)] /\ FileInv(D) /\ SentInv(D) /\ GotInv(D)
  BY <1>5 DEF StreamData
<1>7. (D \in [Supers -> Seq(Items)])'
  BY <1>6 DEF Supers, Merged, mainVars, use
<1>8. FileInv(D)'
  <2>1. requestSuperp = APPEND /\ kind = "ingested" /\ pc = "merged" /\ pc' \in {"rewind", "ingest"}
    BY <1>1 DEF Merged, At, Threads, Place, PcInv, Rewinds, Reading, AppendInv, WritePcs
  <2>2. \A s \in Supers : Holds(disk[s], D[s])
    BY <1>6, <2>1 DEF FileInv, WritePcs
  <2>3. \A s \in Supers : Flushing(disk[s], D[s])
    BY <2>2, HoldsFlushing
  <2>4. UNCHANGED <<disk, mainVars, streamVars, queue, io>>
    BY DEF Merged
  <2>5. QED
    BY <1>6, <2>1, <2>2, <2>3, <2>4 DEF FileInv, Tail_, ScanPcs, Supers, use, mainVars,
       streamVars
<1>9. SentInv(D)'
  <2>1. \A s \in Supers : ToWrite(s)' = ToWrite(s)
    BY DEF ToWrite, Merged, streamVars, bufferVars
  <2>2. Cached' = Cached
    <3>1. DiskEmpty' <=> DiskEmpty
      BY EmptyKept DEF Merged, mainVars, use
    <3>2. QED
      BY <3>1 DEF Cached, Merged, streamVars, bufferVars
  <2>3. \A s \in Supers : ToAppend(s)' = ToAppend(s)
    BY DEF ToAppend, Merged, At
  <2>4. UNCHANGED <<kind, superPartitions, sent>>
    BY DEF Merged, mainVars, histVars, use
  <2>5. /\ batch' # NULL /\ pc' # "spillBatch" =>
              batch # NULL /\ pc # "spillBatch" /\ content'[batch'] = content[batch]
        /\ kind = "ingested" /\ cache' = NULL /\ (request' # NULL \/ disk'[0].bytes > 0) =>
              cache = NULL /\ (request # NULL \/ disk[0].bytes > 0)
        /\ pc' = "spillBatch" => /\ pc = "spillBatch" /\ content'[cache'] = content[cache]
                                 /\ uptodate'[request'] = uptodate[request] /\ disk'[0].bytes = disk[0].bytes
    BY DEF Merged, At, mainVars, streamVars, bufferVars, use
  <2>6. \A s \in Supers : Unwritten(s)' = Unwritten(s)
    BY <2>1, <2>2, <2>3 DEF Unwritten
  <2>7. QED
    BY <1>1, <1>6, <2>4, <2>5, <2>6, SentKept DEF Threads
<1>10. GotInv(D)'
  BY <1>6 DEF GotInv, Merged, Supers, ScanPcs, DiskEmpty, At, mainVars, streamVars, bufferVars,
     histVars, use
<1>11. QED
  BY <1>3, <1>4, <1>7, <1>8, <1>9, <1>10 DEF Data, StreamData

-----------------------------------------------------------------------------
(* The steps of the main thread: the vertices *)

\* State_iter: the vertices of a super partition are to be loaded.  Its
\* effect on the control.
LEMMA LoadThreads ==
  ASSUME IInv, ~Overtakes', Load
  PROVE  Threads'
<1>1. Threads
  BY DEF IInv
<1>2. kind = "vertices" /\ pc = "load" /\ cycle # Cycles + 1
  BY <1>1 DEF Load, At, Threads, Place, PcInv, Rewinds, Reading
<1>3. ~Work /\ queue = 0 /\ io # "busy" /\ \A b \in Buffers : uptodate[b]
  <2>1. ~Work
    BY <1>1, <1>2 DEF Threads, RequestInv
  <2>2. QED
    BY <1>1, <2>1 DEF Threads, RequestInv, Fields, Work
<1>4. oneShot' \in BOOLEAN /\ writeOp' \in BOOLEAN /\ requestSuperp' \in Supers \cup {APPEND}
  <2>1. CASE cycle = 0
    BY <1>1, <2>1 DEF Load, Threads, Fields
  <2>2. CASE cycle # 0
    BY <1>1, <2>2 DEF Load, OneShot, Submit, Threads, Place
  <2>3. QED
    BY <2>1, <2>2
<1>5. Place'
  BY <1>1, <1>2 DEF Threads, Place, Load, PcInv, Supers, mainVars, use
<1>6. Fields'
  <2>1. /\ {cache', buf', batch'} \subseteq Holders /\ request' \in IF kind' = "vertices" THEN {State, NULL} ELSE Holders
    BY <1>1, <1>2 DEF Threads, Fields, Load, OneShot, mainVars, Submit, use
  <2>2. requestSuperp' \in Supers' \cup {APPEND} /\ {writeOp', oneShot', flushComplete', eofFlag'} \subseteq BOOLEAN
    BY <1>1, <1>4 DEF Threads, Fields, Supers, Load, mainVars, use
  <2>3. queue' \in 0..1 /\ io' \in {"idle", "busy", "late"} /\ (io' = "busy" => queue' = 0)
    BY <1>1, <1>3 DEF Threads, Fields, Load, At, OneShot, Submit, AddWork
  <2>4. uptodate' \in [Buffers -> BOOLEAN] /\ dirty' \in [Buffers -> BOOLEAN]
    BY <1>1, <1>2, <1>3, <1>4, Basics DEF Threads, Fields, Holders, Supers, Load, At, OneShot,
       mainVars, histVars, Submit, use, AddWork
  <2>5. refcount' \in [Buffers -> Int] /\ refcount'[State] <= 0 /\ startPos' \in Nat /\ fatal' = "no"
    BY <1>1 DEF Threads, Fields, Load, mainVars
  <2>6. QED
    BY <2>1, <2>2, <2>3, <2>4, <2>5 DEF Fields
<1>7. RequestInv'
  BY <1>1, <1>2, <1>3, Basics DEF Overtakes, Threads, RequestInv, Load, Place, Fields, Work, OneShot, mainVars,
     Submit, use, AddWork
<1>8. HolderInv'
  BY <1>1, <1>2 DEF Threads, HolderInv, Load, mainVars, use
<1>9. RefInv'
  BY <1>1, <1>2, <1>3, <1>4, Basics DEF Threads, RefInv, Load, Place, Fields, RequestInv,
     HolderInv, DirtyInv, AppendInv, Pool, One, At, State, OneShot, mainVars, histVars, PcInv,
     Supers, Holders, Buffers, Work, WritePcs, DiskEmpty, Submit, use, Rewinds, Reading, AddWork
<1>10. DirtyInv'
  BY <1>1, <1>2, <1>3, Basics DEF Threads, DirtyInv, Load, HolderInv, OneShot, Submit
<1>11. AppendInv'
  BY <1>1, <1>2 DEF Threads, AppendInv, Load, HolderInv, WritePcs, mainVars, use
<1>12. QED
  BY <1>5, <1>6, <1>7, <1>8, <1>9, <1>10, <1>11 DEF Threads

\* The same step: its effect on the buffers and files.
LEMMA LoadVertices ==
  ASSUME IInv, ~Overtakes', Load
  PROVE  ContentInv' /\ Data'
<1>1. Threads /\ ContentInv /\ Data
  BY DEF IInv
<1>2. Threads'
  BY LoadThreads
<1>3. /\ pc = "load" /\ pc' = "prepare" /\ kind = "vertices" /\ (cycle > 0 => Work')
      /\ UNCHANGED <<kind, superPartitions, batch, cache, cycle, superp, disk, content, sent, got>>
  <2>1. /\ pc = "load" /\ pc' = "prepare"
        /\ UNCHANGED <<kind, superPartitions, batch, cache, cycle, superp, disk, content, sent, got>>
    BY DEF Load, At, mainVars, use, histVars
  <2>2. kind = "vertices"
    BY <1>1, <2>1 DEF Threads, Place, PcInv, Rewinds, Reading
  <2>3. cycle > 0 => Work'
    <3>1. cycle \in Nat /\ queue \in 0..1 /\ (io = "busy" => queue = 0)
      BY <1>1, Basics DEF Threads, Place, Fields
    <3>2. cycle > 0 => queue' = 1 \/ io' = "busy"
      <4>1. SUFFICES ASSUME cycle > 0 PROVE queue' = 1 \/ io' = "busy"
        OBVIOUS
      <4>2. uptodate[State] /\ AddWork
        BY <3>1, <4>1 DEF Load, OneShot, Submit
      <4>3. cycle > 0 /\ At("load")
        BY <4>1 DEF Load
      <4>4. queue = 0
        <5>1. pc = "load"
          BY <2>1
        <5>2. ~Work
          BY <1>1, <2>2, <5>1 DEF Threads, RequestInv
        <5>3. QED
          BY <3>1, <5>2 DEF Work
      <4>5. QED
        BY <4>2, <4>4 DEF AddWork
    <3>3. QED
      BY <3>2 DEF Work
  <2>4. QED
    BY <2>1, <2>2, <2>3
<1>4. ContentInv'
  <2>1. batch = NULL /\ cache = NULL
    BY <1>1, <1>3 DEF Threads, HolderInv
  <2>2. QED
    BY <1>1, <1>3, <2>1 DEF ContentInv
<1>5. kind = "vertices" /\ VertexInv /\ kind' = kind
  BY <1>1, <1>3 DEF Data
<1>6. VertexInv'
  <2>1. VertexInv /\ Supers' = Supers
    BY <1>1, <1>3 DEF Data, Supers
  <2>2. QED
    BY <1>3, <2>1 DEF VertexInv
<1>7. QED
  BY <1>4, <1>5, <1>6 DEF Data

\* State_iter: the vertices have been loaded.  Its effect on the control.
LEMMA PrepareThreads ==
  ASSUME IInv, Prepare
  PROVE  Threads'
<1>1. Threads
  BY DEF IInv
<1>2. Place'
  BY <1>1 DEF Threads, Place, Prepare, PcInv, Supers, At, mainVars, Rewinds, Reading, use
<1>3. Fields'
  BY <1>1 DEF Threads, Fields, Prepare, Supers, mainVars, streamVars, bufferVars, use
<1>4. RequestInv'
  BY <1>1, Basics DEF Threads, RequestInv, Prepare, Fields, Work, WritePcs, State, At, mainVars,
     streamVars, bufferVars, use
<1>5. HolderInv'
  BY <1>1 DEF Threads, HolderInv, Prepare, At, mainVars, streamVars, use
<1>6. RefInv'
  BY <1>1 DEF Threads, RefInv, Prepare, At, mainVars, streamVars, bufferVars, use
<1>7. DirtyInv'
  BY <1>1 DEF Threads, DirtyInv, Prepare, DiskEmpty, At, mainVars, streamVars, bufferVars,
     Supers, use
<1>8. AppendInv'
  BY <1>1 DEF Threads, AppendInv, Prepare, RequestInv, WritePcs, DiskEmpty, At, mainVars,
     streamVars, Supers, use
<1>9. QED
  BY <1>2, <1>3, <1>4, <1>5, <1>6, <1>7, <1>8 DEF Threads

\* The same step: its effect on the buffers and files.
LEMMA PrepareVertices ==
  ASSUME IInv, Prepare
  PROVE  ContentInv' /\ Data'
<1>1. Threads /\ ContentInv /\ Data
  BY DEF IInv
<1>2. Threads'
  BY PrepareThreads
<1>3. ContentInv'
  BY <1>1 DEF ContentInv, Prepare, mainVars, streamVars, bufferVars, use
<1>4. kind = "vertices" /\ VertexInv /\ kind' = kind
  BY <1>1 DEF Data, Threads, Place, PcInv, Prepare, Rewinds, Reading, At, mainVars, use
<1>5. VertexInv'
  BY <1>4 DEF VertexInv, Prepare, Fields, RequestInv, HolderInv, RefInv, DirtyInv, AppendInv,
     Supers, Work, State, At, mainVars, streamVars, bufferVars, histVars, Holders, Buffers,
     WritePcs, Pool, One, DiskEmpty, use, Rewinds, Reading
<1>6. QED
  BY <1>3, <1>4, <1>5 DEF Data

\* The superstep changes the vertices.  Its effect on the control.
LEMMA ComputeThreads ==
  ASSUME IInv, Compute
  PROVE  Threads'
<1>1. Threads
  BY DEF IInv
<1>2. Place'
  BY <1>1 DEF Threads, Place, Compute, PcInv, Supers, At, mainVars, Rewinds, Reading, use
<1>3. Fields'
  BY <1>1 DEF Threads, Fields, Compute, Supers, mainVars, streamVars, use
<1>4. RequestInv'
  BY <1>1 DEF Threads, RequestInv, Compute, Work, WritePcs, At, mainVars, streamVars, use
<1>5. HolderInv'
  BY <1>1 DEF Threads, HolderInv, Compute, At, mainVars, streamVars, use
<1>6. RefInv'
  BY <1>1 DEF Threads, RefInv, Compute, At, mainVars, streamVars, use
<1>7. DirtyInv'
  BY <1>1 DEF Threads, DirtyInv, Compute, DiskEmpty, At, mainVars, streamVars, Supers, use
<1>8. AppendInv'
  BY <1>1 DEF Threads, AppendInv, Compute, WritePcs, DiskEmpty, At, mainVars, streamVars,
     Supers, use
<1>9. QED
  BY <1>2, <1>3, <1>4, <1>5, <1>6, <1>7, <1>8 DEF Threads

\* The same step: its effect on the buffers and files.
LEMMA ComputeVertices ==
  ASSUME IInv, Compute
  PROVE  ContentInv' /\ Data'
<1>1. Threads /\ ContentInv /\ Data
  BY DEF IInv
<1>2. Threads'
  BY ComputeThreads
<1>3. /\ pc = "work" /\ pc' = "store" /\ content' = [content EXCEPT ![State] = << <<superp, cycle, 1>> >>]
      /\ UNCHANGED <<kind, superPartitions, batch, cache, cycle, superp, disk, sent, got>>
  BY DEF Compute, At, mainVars, streamVars, use, histVars
<1>4. kind = "vertices" /\ batch = NULL /\ cache = NULL /\ superPartitions # 1 /\ Supers' = Supers
  BY <1>1, <1>3 DEF Threads, Place, PcInv, Rewinds, Reading, HolderInv, Supers
<1>5. content \in [Buffers -> Seq(Items)] /\ \A b \in Buffers : Len(content[b]) <= BufferSize
  BY <1>1 DEF ContentInv
<1>6. PICK data : data = << <<superp, cycle, 1>> >>
  OBVIOUS
<1>7. data \in Seq(Items) /\ Len(data) = 1
  <2>1. superPartitions \in SuperPartitionCounts /\ superPartitions \in Nat /\ superp \in 0..superPartitions
    BY <1>1, Basics DEF Threads, Place, Supers
  <2>2. superp \in UNION {0..n : n \in SuperPartitionCounts}
    BY <2>1
  <2>3. cycle \in 0..Cycles /\ 1 \in 1..MaxItems
    BY <1>1, <1>3, Basics DEF Threads, Place
  <2>4. <<superp, cycle, 1>> \in Items
    BY <2>2, <2>3 DEF Items
  <2>5. QED
    BY <1>6, <2>4
<1>8. content' \in [Buffers -> Seq(Items)] /\ content'[State] = data /\ \A b \in Buffers : Len(content'[b]) <= BufferSize
  BY <1>3, <1>5, <1>6, <1>7, Basics
<1>9. ContentInv'
  BY <1>3, <1>4, <1>8 DEF ContentInv
<1>10. kind = "vertices" /\ VertexInv /\ kind' = kind
  BY <1>1, <1>3, <1>4 DEF Data
<1>11. VertexInv'
  <2>1. VertexInv
    BY <1>1, <1>4 DEF Data
  <2>2. QED
    BY <1>3, <1>4, <1>6, <1>8, <2>1 DEF VertexInv
<1>12. QED
  BY <1>9, <1>10, <1>11 DEF Data

\* State_iter: the vertices are to be stored.  Its effect on the control.
LEMMA StoreThreads ==
  ASSUME IInv, ~Overtakes', Store
  PROVE  Threads'
<1>1. Threads
  BY DEF IInv
<1>2. Place'
  BY <1>1, Basics DEF Threads, Place, Store, Fields, RequestInv, HolderInv, RefInv, DirtyInv,
     AppendInv, PcInv, Supers, At, State, OneShot, mainVars, Holders, Buffers, Work, WritePcs,
     Pool, One, DiskEmpty, Rewinds, Reading, Submit, use, AddWork
<1>3. Fields'
  BY <1>1, Basics DEF Threads, Fields, Store, Place, RequestInv, HolderInv, RefInv, DirtyInv,
     AppendInv, Holders, State, Supers, Buffers, At, OneShot, mainVars, PcInv, Work, WritePcs,
     Pool, One, DiskEmpty, Submit, use, Rewinds, Reading, AddWork
<1>4. RequestInv'
  <2>1. pc = "store" /\ uptodate[State] /\ kind = "vertices" /\ State \in Buffers /\ State # NULL
    BY <1>1, Basics DEF Threads, Store, At, Place, PcInv, Rewinds, Reading
  <2>2. ~Work /\ queue = 0 /\ \A b \in Buffers : uptodate[b]
    BY <1>1, <2>1 DEF Threads, RequestInv, Fields, Work
  <2>3. /\ request' = State /\ writeOp' = TRUE /\ oneShot' = TRUE /\ requestSuperp' = superp /\ queue' = 1
        /\ uptodate' = [uptodate EXCEPT ![State] = FALSE] /\ dirty' = [dirty EXCEPT ![State] = TRUE]
        /\ pc' = "storing"
        /\ UNCHANGED <<kind, superp, cycle, flushComplete, io>>
    BY <2>2 DEF Store, OneShot, Submit, AddWork, mainVars, use
  <2>4. Work' /\ ~uptodate'[State] /\ dirty'[State]
    BY <1>1, <2>1, <2>3 DEF Work, Threads, Fields
  <2>5. io # "late"
    BY <2>1, <2>3, <2>4 DEF Overtakes
  <2>6. \A b \in Buffers : ~uptodate'[b] <=> Work' /\ b = request'
    BY <1>1, <2>1, <2>2, <2>3, <2>4 DEF Threads, Fields
  <2>7. QED
    BY <1>1, <2>1, <2>3, <2>4, <2>5, <2>6 DEF Threads, RequestInv, WritePcs
<1>5. HolderInv'
  BY <1>1, Basics DEF Threads, HolderInv, Store, Place, Fields, RequestInv, RefInv, DirtyInv,
     AppendInv, At, State, OneShot, mainVars, PcInv, Supers, Holders, Buffers, Work, WritePcs,
     Pool, One, DiskEmpty, Submit, use, Rewinds, Reading, AddWork
<1>6. RefInv'
  BY <1>1, Basics DEF Threads, RefInv, Store, Place, Fields, RequestInv, HolderInv, DirtyInv,
     AppendInv, Pool, One, At, State, OneShot, mainVars, PcInv, Supers, Holders, Buffers, Work,
     WritePcs, DiskEmpty, Submit, use, Rewinds, Reading, AddWork
<1>7. DirtyInv'
  BY <1>1, Basics DEF Threads, DirtyInv, Store, Place, Fields, RequestInv, HolderInv, RefInv,
     AppendInv, Pool, DiskEmpty, At, State, OneShot, mainVars, PcInv, Supers, Holders, Buffers,
     Work, WritePcs, One, Submit, use, Rewinds, Reading, AddWork
<1>8. AppendInv'
  BY <1>1, Basics DEF Threads, AppendInv, Store, Place, Fields, RequestInv, HolderInv, RefInv,
     DirtyInv, WritePcs, DiskEmpty, At, State, OneShot, mainVars, PcInv, Supers, Holders,
     Buffers, Work, Pool, One, Submit, use, Rewinds, Reading, AddWork
<1>9. QED
  BY <1>2, <1>3, <1>4, <1>5, <1>6, <1>7, <1>8 DEF Threads

\* The same step: its effect on the buffers and files.
LEMMA StoreVertices ==
  ASSUME IInv, ~Overtakes', Store
  PROVE  ContentInv' /\ Data'
<1>1. Threads /\ ContentInv /\ Data
  BY DEF IInv
<1>2. Threads'
  BY StoreThreads
<1>3. /\ pc = "store" /\ pc' = "storing" /\ sent' = [sent EXCEPT ![superp] = content[State]] /\ AddWork /\ uptodate[State]
      /\ UNCHANGED <<kind, superPartitions, batch, cache, cycle, superp, disk, content, got>>
  BY DEF Store, At, mainVars, use, OneShot, Submit
<1>4. /\ kind = "vertices" /\ batch = NULL /\ cache = NULL /\ superPartitions # 1 /\ Supers' = Supers /\ VertexInv
      /\ superp \in Supers /\ cycle \in 0..Cycles /\ State \in Buffers
  <2>1. kind = "vertices" /\ superPartitions # 1 /\ superp \in Supers /\ cycle \in 0..Cycles
    BY <1>1, <1>3, Basics DEF Threads, Place, PcInv, Rewinds, Reading
  <2>2. batch = NULL /\ cache = NULL
    BY <1>1, <2>1 DEF Threads, HolderInv
  <2>3. VertexInv /\ Supers' = Supers
    BY <1>1, <1>3, <2>1 DEF Data, Supers
  <2>4. QED
    BY <2>1, <2>2, <2>3, Basics
<1>5. Work'
  <2>1. ~Work
    BY <1>1, <1>3, <1>4 DEF Threads, RequestInv
  <2>2. queue = 0
    BY <1>1, <2>1 DEF Threads, Fields, Work
  <2>3. QED
    BY <1>3, <2>2 DEF AddWork, Work
<1>6. content[State] = << <<superp, cycle, 1>> >> /\ content[State] \in Seq(Items)
  BY <1>1, <1>3, <1>4 DEF VertexInv, ContentInv
<1>7. content[State] # <<>>
  BY <1>6
<1>8. ContentInv'
  BY <1>1, <1>3, <1>4 DEF ContentInv
<1>9. kind = "vertices" /\ VertexInv /\ kind' = kind
  BY <1>3, <1>4
<1>10. VertexInv'
  <2>1. sent \in [Supers -> Seq(Items)] /\ got \in [Supers -> Seq(Items)] /\ disk \in [Supers -> Disks]
    BY <1>4 DEF VertexInv
  <2>2. /\ sent' \in [Supers -> Seq(Items)] /\ sent'[superp] = content[State]
        /\ \A s \in Supers : s # superp => sent'[s] = sent[s]
    BY <1>3, <1>4, <1>6, <2>1
  <2>3. ASSUME NEW s \in Supers
        PROVE  /\ disk'[s].pos = 0 /\ disk'[s].bytes = 0 /\ got'[s] = <<>>
               /\ sent'[s] = <<>> \/ \E c \in 0..Cycles : sent'[s] = << <<s, c, 1>> >>
               /\ Len(disk'[s].file) <= 1
               /\ ~(pc' = "storing" /\ s = superp' /\ Work') => disk'[s].file = sent'[s]
               /\ cycle' > 0 \/ s < superp' => sent'[s] # <<>>
    <3>1. /\ disk[s].pos = 0 /\ disk[s].bytes = 0 /\ got[s] = <<>>
          /\ sent[s] = <<>> \/ \E c \in 0..Cycles : sent[s] = << <<s, c, 1>> >>
          /\ Len(disk[s].file) <= 1 /\ disk[s].file = sent[s]
          /\ cycle > 0 \/ s < superp => sent[s] # <<>>
      BY <1>3, <1>4 DEF VertexInv
    <3>2. CASE s = superp
      <4>1. sent'[s] = << <<s, cycle, 1>> >> /\ sent'[s] # <<>>
        BY <1>6, <1>7, <2>2, <3>2
      <4>2. QED
        BY <1>3, <1>4, <1>5, <3>1, <3>2, <4>1
    <3>3. CASE s # superp
      BY <1>3, <1>4, <2>2, <3>1, <3>3
    <3>4. QED
      BY <3>2, <3>3
  <2>4. QED
    BY <1>3, <1>4, <1>7, <2>1, <2>2, <2>3 DEF VertexInv
<1>11. QED
  BY <1>8, <1>9, <1>10 DEF Data

\* State_iter: the vertices have been stored.  Its effect on the control.
LEMMA StoredThreads ==
  ASSUME IInv, Stored
  PROVE  Threads'
<1>1. Threads
  BY DEF IInv
<1>2. Place'
  BY <1>1, Basics DEF Threads, Place, Stored, Fields, RequestInv, HolderInv, RefInv, DirtyInv,
     AppendInv, PcInv, Supers, At, State, Advance, use, streamVars, bufferVars, histVars,
     Holders, Buffers, Work, WritePcs, Pool, One, DiskEmpty, Rewinds, Reading
<1>3. Fields'
  BY <1>1, Basics DEF Threads, Fields, Stored, Place, RequestInv, HolderInv, RefInv, DirtyInv,
     AppendInv, Holders, State, Supers, Buffers, At, Advance, use, streamVars, bufferVars,
     histVars, PcInv, Work, WritePcs, Pool, One, DiskEmpty, Rewinds, Reading
<1>4. RequestInv'
  BY <1>1, Basics DEF Threads, RequestInv, Stored, Place, Fields, HolderInv, RefInv, DirtyInv,
     AppendInv, Buffers, Work, WritePcs, State, At, Advance, use, streamVars, bufferVars,
     histVars, PcInv, Supers, Holders, Pool, One, DiskEmpty, Rewinds, Reading
<1>5. HolderInv'
  BY <1>1, Basics DEF Threads, HolderInv, Stored, Place, Fields, RequestInv, RefInv, DirtyInv,
     AppendInv, At, State, Advance, use, streamVars, bufferVars, histVars, PcInv, Supers,
     Holders, Buffers, Work, WritePcs, Pool, One, DiskEmpty, Rewinds, Reading
<1>6. RefInv'
  BY <1>1, Basics DEF Threads, RefInv, Stored, Place, Fields, RequestInv, HolderInv, DirtyInv,
     AppendInv, Pool, One, At, State, Advance, use, streamVars, bufferVars, histVars, PcInv,
     Supers, Holders, Buffers, Work, WritePcs, DiskEmpty, Rewinds, Reading
<1>7. DirtyInv'
  BY <1>1, Basics DEF Threads, DirtyInv, Stored, Place, Fields, RequestInv, HolderInv, RefInv,
     AppendInv, Pool, DiskEmpty, At, State, Advance, use, streamVars, bufferVars, histVars,
     PcInv, Supers, Holders, Buffers, Work, WritePcs, One, Rewinds, Reading
<1>8. AppendInv'
  BY <1>1, Basics DEF Threads, AppendInv, Stored, Place, Fields, RequestInv, HolderInv, RefInv,
     DirtyInv, WritePcs, DiskEmpty, At, State, Advance, use, streamVars, bufferVars, histVars,
     PcInv, Supers, Holders, Buffers, Work, Pool, One, Rewinds, Reading
<1>9. QED
  BY <1>2, <1>3, <1>4, <1>5, <1>6, <1>7, <1>8 DEF Threads

\* The same step: its effect on the buffers and files.
LEMMA StoredVertices ==
  ASSUME IInv, Stored
  PROVE  ContentInv' /\ Data'
<1>1. Threads /\ ContentInv /\ Data
  BY DEF IInv
<1>2. Threads'
  BY StoredThreads
<1>3. /\ pc = "storing" /\ uptodate[State] /\ Advance("load", "rewind")
      /\ UNCHANGED <<kind, superPartitions, batch, cache, disk, content, sent, got, request, queue, io>>
  BY DEF Stored, At, use, streamVars, bufferVars, histVars
<1>4. /\ kind = "vertices" /\ batch = NULL /\ cache = NULL /\ superPartitions # 1 /\ Supers' = Supers /\ VertexInv
      /\ superp \in Supers /\ cycle \in Nat /\ superPartitions \in Nat
  <2>1. kind = "vertices" /\ superPartitions # 1 /\ superp \in Supers /\ cycle \in Nat /\ superPartitions \in Nat
    BY <1>1, <1>3, Basics DEF Threads, Place, PcInv, Rewinds, Reading
  <2>2. batch = NULL /\ cache = NULL
    BY <1>1, <2>1 DEF Threads, HolderInv
  <2>3. VertexInv /\ Supers' = Supers
    BY <1>1, <1>3, <2>1 DEF Data, Supers
  <2>4. QED
    BY <2>1, <2>2, <2>3
<1>5. ~Work /\ ~Work'
  <2>1. request \in {State, NULL} /\ State \in Buffers
    BY <1>1, <1>4, Basics DEF Threads, Fields
  <2>2. Work => request = State
    BY <1>1, <1>3, <2>1 DEF Threads, RequestInv
  <2>3. ~Work
    BY <1>1, <1>3, <2>1, <2>2 DEF Threads, RequestInv
  <2>4. QED
    BY <1>3, <2>3 DEF Work
<1>6. \/ superp < superPartitions - 1 /\ superp' = superp + 1 /\ pc' = "load" /\ cycle' = cycle
      \/ superp = superPartitions - 1 /\ superp' = 0 /\ cycle' = cycle + 1 /\ pc' \in {"done", "rewind"}
  <2>1. superp <= superPartitions - 1
    BY <1>4 DEF Supers
  <2>2. superp \in Int /\ superPartitions - 1 \in Int
    BY <1>4 DEF Supers
  <2>3. superp < superPartitions - 1 \/ superp = superPartitions - 1
    BY <2>1, <2>2
  <2>4. QED
    BY <1>3, <2>3 DEF Advance
<1>7. ContentInv'
  <2>1. pc' \in {"load", "done", "rewind"}
    BY <1>6
  <2>2. QED
    BY <1>1, <1>3, <1>4, <2>1 DEF ContentInv
<1>8. kind = "vertices" /\ VertexInv /\ kind' = kind
  BY <1>3, <1>4
<1>9. VertexInv'
  <2>1. /\ disk \in [Supers -> Disks] /\ {sent, got} \subseteq [Supers -> Seq(Items)]
        /\ sent[superp] # <<>>
    BY <1>3, <1>4 DEF VertexInv
  <2>2. ASSUME NEW s \in Supers
        PROVE  /\ disk[s].pos = 0 /\ disk[s].bytes = 0 /\ got[s] = <<>>
               /\ sent[s] = <<>> \/ \E c \in 0..Cycles : sent[s] = << <<s, c, 1>> >>
               /\ Len(disk[s].file) <= 1 /\ disk[s].file = sent[s]
               /\ cycle' > 0 \/ s < superp' => sent[s] # <<>>
    <3>1. /\ disk[s].pos = 0 /\ disk[s].bytes = 0 /\ got[s] = <<>>
          /\ sent[s] = <<>> \/ \E c \in 0..Cycles : sent[s] = << <<s, c, 1>> >>
          /\ Len(disk[s].file) <= 1 /\ disk[s].file = sent[s]
      BY <1>4, <1>5 DEF VertexInv
    <3>2. s < superp => sent[s] # <<>>
      BY <1>4 DEF VertexInv
    <3>3. cycle > 0 => sent[s] # <<>>
      BY <1>4 DEF VertexInv
    <3>4. s \in Nat /\ superp \in Nat /\ s <= superPartitions - 1
      BY <1>4 DEF Supers
    <3>5. cycle' > 0 \/ s < superp' => cycle > 0 \/ s < superp \/ s = superp
      BY <1>4, <1>6, <3>4
    <3>6. QED
      BY <2>1, <3>1, <3>2, <3>3, <3>5
  <2>3. pc' \in {"load", "done", "rewind"}
    BY <1>6
  <2>4. QED
    BY <1>3, <1>4, <1>5, <2>1, <2>2, <2>3 DEF VertexInv
<1>10. QED
  BY <1>7, <1>8, <1>9 DEF Data

-----------------------------------------------------------------------------
(* The steps of the I/O thread *)

\* Get_work: the I/O thread takes the request.  Its effect on the control.
LEMMA TakeThreads ==
  ASSUME IInv, Take
  PROVE  Threads'
<1>1. Threads
  BY DEF IInv
<1>2. Place'
  BY <1>1, Basics DEF Threads, Place, Take, Fields, RequestInv, HolderInv, RefInv, DirtyInv,
     AppendInv, PcInv, Supers, mainVars, streamVars, bufferVars, histVars, Holders, State,
     Buffers, Work, WritePcs, Pool, One, DiskEmpty, Rewinds, Reading, use
<1>3. Fields'
  BY <1>1, Basics DEF Threads, Fields, Take, Place, RequestInv, HolderInv, RefInv, DirtyInv,
     AppendInv, Holders, State, Supers, Buffers, mainVars, streamVars, bufferVars, histVars,
     PcInv, Work, WritePcs, Pool, One, DiskEmpty, use, Rewinds, Reading
<1>4. RequestInv'
  BY <1>1, Basics DEF Threads, RequestInv, Take, Place, Fields, HolderInv, RefInv, DirtyInv,
     AppendInv, Buffers, Work, WritePcs, State, mainVars, streamVars, bufferVars, histVars,
     PcInv, Supers, Holders, Pool, One, DiskEmpty, use, Rewinds, Reading
<1>5. HolderInv'
  BY <1>1, Basics DEF Threads, HolderInv, Take, Place, Fields, RequestInv, RefInv, DirtyInv,
     AppendInv, mainVars, streamVars, bufferVars, histVars, PcInv, Supers, Holders, State,
     Buffers, Work, WritePcs, Pool, One, DiskEmpty, use, Rewinds, Reading
<1>6. RefInv'
  BY <1>1, Basics DEF Threads, RefInv, Take, Place, Fields, RequestInv, HolderInv, DirtyInv,
     AppendInv, Pool, One, mainVars, streamVars, bufferVars, histVars, PcInv, Supers, Holders,
     State, Buffers, Work, WritePcs, DiskEmpty, use, Rewinds, Reading
<1>7. DirtyInv'
  BY <1>1, Basics DEF Threads, DirtyInv, Take, Place, Fields, RequestInv, HolderInv, RefInv,
     AppendInv, Pool, DiskEmpty, mainVars, streamVars, bufferVars, histVars, PcInv, Supers,
     Holders, State, Buffers, Work, WritePcs, One, use, Rewinds, Reading
<1>8. AppendInv'
  BY <1>1, Basics DEF Threads, AppendInv, Take, Place, Fields, RequestInv, HolderInv, RefInv,
     DirtyInv, WritePcs, DiskEmpty, mainVars, streamVars, bufferVars, histVars, PcInv, Supers,
     Holders, State, Buffers, Work, Pool, One, use, Rewinds, Reading
<1>9. QED
  BY <1>2, <1>3, <1>4, <1>5, <1>6, <1>7, <1>8 DEF Threads

\* The same step: its effect on the buffers and files.
LEMMA TakeData ==
  ASSUME IInv, Take
  PROVE  ContentInv' /\ Data'
<1>1. Threads /\ ContentInv /\ Data
  BY DEF IInv
<1>2. Threads'
  BY TakeThreads
<1>3. ContentInv'
  BY <1>1, <1>2, Basics DEF Threads, ContentInv, Take, Place, Fields, RequestInv, HolderInv,
     RefInv, DirtyInv, AppendInv, Buffers, mainVars, streamVars, bufferVars, histVars, PcInv,
     Supers, Holders, State, Work, WritePcs, Pool, One, DiskEmpty, use, Rewinds, Reading
<1>4. ASSUME kind = "vertices"
      PROVE  VertexInv' /\ kind' = "vertices"
  <2>1. VertexInv /\ kind' = kind
    BY <1>1, <1>4 DEF Data, Take, mainVars, use
  <2>2. Work' /\ Work
    BY <1>1 DEF Take, Threads, Fields, Work
  <2>3. UNCHANGED <<superPartitions, disk, sent, got, content, cycle, superp, pc>>
    BY DEF Take, mainVars, use, bufferVars, histVars
  <2>4. QED
    BY <1>4, <2>1, <2>2, <2>3, VerticesKept
<1>5. ASSUME kind # "vertices"
      PROVE  (\E D : StreamData(D))' /\ kind' # "vertices"
  <2>1. PICK D : StreamData(D)
    BY <1>1, <1>5 DEF Data
  <2>2. D \in [Supers -> Seq(Items)] /\ FileInv(D) /\ SentInv(D) /\ GotInv(D)
    BY <2>1 DEF StreamData
  <2>3. (D \in [Supers -> Seq(Items)])'
    BY <1>1, <1>2, <1>5, <2>2 DEF Supers, Take, mainVars, streamVars, bufferVars, histVars, use
  <2>4. FileInv(D)'
    BY <1>1, <1>2, <1>5, <2>2, Basics DEF Threads, FileInv, Take, Place, Fields, RequestInv,
       HolderInv, RefInv, DirtyInv, AppendInv, Supers, WritePcs, Writing, Tail_, ScanPcs,
       mainVars, streamVars, bufferVars, histVars, PcInv, Holders, State, Buffers, Work, Pool,
       One, DiskEmpty, use, Rewinds, Reading
  <2>5. SentInv(D)'
    <3>1. \A s \in Supers : ToWrite(s)' = ToWrite(s)
      BY <1>1, <1>2, <1>5, <2>2, Basics DEF Threads, RequestInv, Fields, ToWrite, Take, mainVars,
         streamVars, bufferVars, histVars, use
    <3>2. Cached' = Cached
      <4>1. DiskEmpty' <=> DiskEmpty
        BY EmptyKept DEF Take, mainVars, streamVars, bufferVars, histVars, use
      <4>2. QED
        BY <4>1, <1>1, <1>2, <1>5, <2>2, Basics DEF Threads, HolderInv, Cached, Take, mainVars,
           streamVars, bufferVars, histVars, use
    <3>3. \A s \in Supers : ToAppend(s)' = ToAppend(s)
      BY <1>1, <1>2, <1>5, <2>2, Basics DEF Threads, ToAppend, Take, mainVars, streamVars,
         bufferVars, histVars, use
    <3>4. UNCHANGED <<kind, superPartitions, sent>>
      BY <1>1, <1>2, <1>5, <2>2, Basics DEF Take, mainVars, streamVars, bufferVars, histVars, use
    <3>5. /\ batch' # NULL /\ pc' # "spillBatch" =>
                batch # NULL /\ pc # "spillBatch" /\ content'[batch'] = content[batch]
          /\ kind = "ingested" /\ cache' = NULL /\ (request' # NULL \/ disk'[0].bytes > 0) =>
                cache = NULL /\ (request # NULL \/ disk[0].bytes > 0)
          /\ pc' = "spillBatch" => /\ pc = "spillBatch" /\ content'[cache'] = content[cache]
                                   /\ uptodate'[request'] = uptodate[request] /\ disk'[0].bytes = disk[0].bytes
      BY <1>1, <1>2, <1>5, <2>2, Basics DEF Threads, Take, mainVars, streamVars, bufferVars,
         histVars, use
    <3>6. \A s \in Supers : Unwritten(s)' = Unwritten(s)
      BY <3>1, <3>2, <3>3 DEF Unwritten
    <3>7. QED
      BY <1>1, <2>2, <3>4, <3>5, <3>6, SentKept DEF Threads
  <2>6. GotInv(D)'
    <3>1. UNCHANGED <<superPartitions, superp, pc, cache, got, content, request, uptodate, disk, eofFlag, buf, startPos>>
      BY DEF Take, mainVars, use, bufferVars, histVars, streamVars
    <3>2. QED
      BY <3>1, <2>2 DEF GotInv, ToGet, DiskEmpty, Supers
  <2>7. kind' # "vertices"
    BY <1>5 DEF Take, use, mainVars, streamVars, bufferVars, histVars
  <2>8. QED
    BY <2>3, <2>4, <2>5, <2>6, <2>7 DEF StreamData
<1>6. QED
  BY <1>3, <1>4, <1>5 DEF Data

\* Read_operator fills the buffer from the file.  Its effect on the control.
LEMMA DoReadThreads ==
  ASSUME IInv, DoRead
  PROVE  Threads'
<1>1. Threads
  BY DEF IInv
<1>2. io = "busy" /\ fatal = "no" /\ Work /\ ~writeOp /\ ~oneShot
  BY DEF DoRead, Served, Work
<1>3. kind # "vertices" /\ request # NULL /\ requestSuperp = superp /\ queue = 0
  BY <1>1, <1>2 DEF Threads, RequestInv, Fields
<1>4. request \in Pool /\ pc \in {"scan", "reading", "consume"} /\ request \in Buffers /\ superp \in Supers
  BY <1>1, <1>2, Basics DEF Threads, RequestInv, Fields, Place, Holders
<1>5. Lost = "no"
  BY <1>1, <1>3, FirstSuper, Basics DEF Threads, Lost
<1>6. /\ io' = "idle" /\ disk' = [disk EXCEPT ![superp] = Read(disk[superp]).disk]
      /\ content' = [content EXCEPT ![request] = Read(disk[superp]).data]
      /\ uptodate' = [uptodate EXCEPT ![request] = TRUE]
      /\ UNCHANGED <<pc, mainVars, streamVars, queue, dirty, refcount, histVars, fatal>>
  BY <1>3, <1>5 DEF DoRead
<1>7. ~Work' /\ \A b \in Buffers : uptodate'[b]
  BY <1>1, <1>3, <1>6 DEF Threads, RequestInv, Fields, Work
<1>8. \A s \in Supers : disk'[s].bytes = disk[s].bytes
  <2>1. Read(disk[superp]).disk.bytes = disk[superp].bytes
    BY <1>4, Types DEF Read, Disks
  <2>2. QED
    BY <1>6, <2>1, Types
<1>9. DiskEmpty' <=> DiskEmpty
  BY <1>6, <1>8 DEF DiskEmpty, Supers, mainVars, use
<1>10. Place'
  BY <1>1, <1>6 DEF Threads, Place, PcInv, Supers, mainVars, use
<1>11. Fields'
  BY <1>1, <1>4, <1>6 DEF Threads, Fields, Supers, mainVars, streamVars, use
<1>12. RequestInv'
  BY <1>1, <1>2, <1>3, <1>4, <1>6, <1>7 DEF Threads, RequestInv, mainVars, streamVars
<1>13. HolderInv'
  BY <1>1, <1>6 DEF Threads, HolderInv, mainVars, streamVars, use
<1>14. RefInv'
  BY <1>1, <1>6 DEF Threads, RefInv, DirtyInv, mainVars, streamVars, use
<1>15. DirtyInv'
  <2>1. \A b \in Pool : dirty'[b] <=> dirty[b]
    BY <1>6
  <2>2. UNCHANGED <<buf, pc, request, writeOp, cache>>
    BY <1>6 DEF mainVars, streamVars
  <2>3. QED
    BY <1>1, <1>2, <1>9, <2>1, <2>2 DEF Threads, DirtyInv
<1>16. AppendInv'
  <2>1. UNCHANGED <<kind, superPartitions, pc, requestSuperp, request, writeOp, cache, superp>>
    BY <1>6 DEF mainVars, streamVars, use
  <2>2. QED
    BY <1>1, <1>2, <1>4, <1>8, <1>9, <2>1 DEF Threads, AppendInv
<1>17. QED
  BY <1>10, <1>11, <1>12, <1>13, <1>14, <1>15, <1>16 DEF Threads

\* The same step: its effect on the buffers and files.
LEMMA DoReadData ==
  ASSUME IInv, DoRead
  PROVE  ContentInv' /\ Data'
<1>1. Threads /\ ContentInv /\ Data
  BY DEF IInv
<1>2. Threads'
  BY DoReadThreads
<1>3. /\ io = "busy" /\ ~writeOp /\ ~oneShot /\ io' = "idle"
      /\ UNCHANGED <<kind, superPartitions, cycle, superp, i, pc, request, cache, requestSuperp, writeOp, startPos,
                     eofFlag, sent, got, batch, buf>>
  BY DEF DoRead, Served, mainVars, use, streamVars, histVars
<1>4. /\ kind # "vertices" /\ Supers' = Supers /\ superp \in Supers /\ request \in Pool /\ request \in Buffers
      /\ request # NULL /\ pc \in Reading /\ requestSuperp = superp /\ superp # APPEND /\ cache = NULL
      /\ ~uptodate[request] /\ batch # request /\ (pc = "consume" => buf \in Buffers /\ buf # request)
      /\ (superPartitions = 1 => superp = 0) /\ (kind = "ingested" => Supers = {0})
  <2>1. Work /\ kind # "vertices" /\ request # NULL
    BY <1>1, <1>3 DEF Threads, RequestInv, Work
  <2>2. request \in Pool /\ request \in Buffers /\ superp \in Supers /\ superp # APPEND /\ Supers' = Supers
        /\ (superPartitions = 1 => superp = 0 /\ Supers = {0}) /\ (kind = "ingested" => superPartitions = 1)
    BY <1>1, <1>3, <2>1, FirstSuper, Basics DEF Threads, Fields, Holders, Supers, Place
  <2>3. pc \in Reading /\ requestSuperp = superp /\ ~uptodate[request]
    BY <1>1, <1>3, <2>1, <2>2 DEF Threads, RequestInv, Reading
  <2>4. cache = NULL /\ batch # request /\ (pc = "consume" => buf \in Buffers /\ buf # request)
    BY <1>1, <2>1, <2>3, Basics DEF Threads, HolderInv, Reading, Fields, Holders
  <2>5. QED
    BY <2>1, <2>2, <2>3, <2>4
<1>5. PICK r : /\ r = Read(disk[superp])
               /\ content' = [content EXCEPT ![request] = r.data]
               /\ disk' = [disk EXCEPT ![superp] = r.disk]
               /\ uptodate' = [uptodate EXCEPT ![request] = TRUE]
  <2>1. Lost = "no"
    BY <1>4 DEF Lost
  <2>2. QED
    BY <1>4, <2>1 DEF DoRead
<1>6. ASSUME NEW D, StreamData(D)
      PROVE  \E n \in Nat : /\ n <= BufferSize /\ disk[superp].pos + n <= Len(D[superp])
                            /\ disk[superp].pos < Len(D[superp]) => n > 0
                            /\ r.data = SubSeq(D[superp], disk[superp].pos + 1, disk[superp].pos + n)
                            /\ r.disk \in Disks /\ r.disk.pos = disk[superp].pos + n
                            /\ r.disk.bytes = disk[superp].bytes /\ Reads(r.disk, D[superp])
  <2>1. disk[superp] \in Disks /\ D[superp] \in Seq(Items) /\ Reads(disk[superp], D[superp])
    BY <1>4, <1>6 DEF StreamData, FileInv, ScanPcs, Reading
  <2>2. LET n == ReadSize(disk[superp])
        IN /\ n \in Nat /\ n <= BufferSize /\ disk[superp].pos + n <= Len(D[superp])
           /\ disk[superp].pos < Len(D[superp]) => n > 0
           /\ r.data = SubSeq(D[superp], disk[superp].pos + 1, disk[superp].pos + n)
           /\ r.disk \in Disks /\ r.disk.pos = disk[superp].pos + n
           /\ r.disk.bytes = disk[superp].bytes /\ Reads(r.disk, D[superp])
    BY <1>5, <2>1, ReadGets
  <2>3. QED
    BY <2>2
<1>7. ContentInv'
  <2>1. PICK D : StreamData(D)
    BY <1>1, <1>4 DEF Data
  <2>2. PICK n \in Nat : /\ n <= BufferSize /\ disk[superp].pos + n <= Len(D[superp])
                         /\ r.data = SubSeq(D[superp], disk[superp].pos + 1, disk[superp].pos + n)
    BY <1>6, <2>1
  <2>3. PICK p, data : p = disk[superp].pos /\ data = r.data
    OBVIOUS
  <2>4. p \in Nat /\ D[superp] \in Seq(Items)
    <3>1. disk[superp] \in Disks /\ D[superp] \in Seq(Items)
      BY <1>4, <2>1 DEF StreamData, FileInv
    <3>2. QED
      BY <2>3, <3>1 DEF Disks
  <2>5. p + n \in Nat /\ p <= p + n /\ p + n <= Len(D[superp]) /\ (p + n) - p = n
        /\ data = SubSeq(D[superp], p + 1, p + n)
    <3>1. p + n <= Len(D[superp]) /\ data = SubSeq(D[superp], p + 1, p + n)
      BY <2>2, <2>3
    <3>2. p + n \in Nat /\ p <= p + n /\ (p + n) - p = n
      BY <2>4
    <3>3. QED
      BY <3>1, <3>2
  <2>6. data \in Seq(Items) /\ Len(data) = n /\ \A k \in 1..n : data[k] = D[superp][p + k]
    <3>1. data \in Seq(Items) /\ Len(data) = (p + n) - p /\ \A k \in 1..(p + n) - p : data[k] = D[superp][p + k]
      BY <2>4, <2>5, SubSeqIs
    <3>2. QED
      BY <2>5, <3>1
  <2>7. superPartitions = 1 => OfFirst(data)
    <3>1. superPartitions = 1 => OfFirst(D[superp])
      BY <1>4, <2>1 DEF StreamData, FileInv
    <3>2. \A k \in 1..n : p + k \in 1..Len(D[superp])
      BY <2>4, <2>5
    <3>3. QED
      BY <2>6, <3>1, <3>2 DEF OfFirst
  <2>8. content' = [content EXCEPT ![request] = data]
    BY <1>5, <2>3
  <2>9. content \in [Buffers -> Seq(Items)] /\ \A b \in Buffers : Len(content[b]) <= BufferSize
    BY <1>1 DEF ContentInv
  <2>10. content' \in [Buffers -> Seq(Items)] /\ content'[request] = data
         /\ \A b \in Buffers : b # request => content'[b] = content[b]
    BY <1>4, <2>6, <2>8, <2>9
  <2>11. \A b \in Buffers : Len(content'[b]) <= BufferSize
    BY <2>2, <2>6, <2>9, <2>10
  <2>12. batch # NULL => content'[batch] # <<>>
    <3>1. batch # NULL => batch \in Buffers
      BY <1>1, Basics DEF Threads, Fields, Holders
    <3>2. QED
      BY <1>1, <1>4, <2>10, <3>1 DEF ContentInv
  <2>13. superPartitions = 1 => \A b \in Buffers : OfFirst(content'[b])
    BY <1>1, <2>7, <2>10 DEF ContentInv
  <2>14. QED
    BY <1>3, <1>4, <2>10, <2>11, <2>12, <2>13 DEF ContentInv, Reading
<1>8. kind # "vertices" /\ kind' = kind
  BY <1>3, <1>4
<1>9. PICK D : StreamData(D)
  BY <1>1, <1>8 DEF Data
<1>10. D \in [Supers -> Seq(Items)] /\ FileInv(D) /\ SentInv(D) /\ GotInv(D)
  BY <1>9 DEF StreamData
<1>11. PICK n \in Nat : /\ n <= BufferSize /\ disk[superp].pos + n <= Len(D[superp])
                         /\ r.data = SubSeq(D[superp], disk[superp].pos + 1, disk[superp].pos + n)
                         /\ r.disk \in Disks /\ r.disk.pos = disk[superp].pos + n
                         /\ r.disk.bytes = disk[superp].bytes /\ Reads(r.disk, D[superp])
  <2>1. StreamData(D)
    BY <1>10 DEF StreamData
  <2>2. QED
    BY <1>6, <2>1
<1>12. PICK old, new : old = disk[superp] /\ new = r.disk
  OBVIOUS
<1>13. disk' = [disk EXCEPT ![superp] = new] /\ disk \in [Supers -> Disks] /\ new \in Disks
  BY <1>10, <1>5, <1>11, <1>12 DEF FileInv
<1>14. /\ disk' \in [Supers -> Disks] /\ disk'[superp] = new /\ new.bytes = old.bytes /\ Reads(new, D[superp])
       /\ \A s \in Supers : s # superp => disk'[s] = disk[s]
       /\ \A s \in Supers : disk'[s].bytes = disk[s].bytes
  BY <1>4, <1>11, <1>12, <1>13
<1>15. D[superp] \in Seq(Items) /\ Len(D[superp]) \in Nat /\ old.pos \in Nat /\ old.pos + n <= Len(D[superp])
       /\ r.data = SubSeq(D[superp], old.pos + 1, old.pos + n) /\ new.pos = old.pos + n
  <2>1. D[superp] \in Seq(Items) /\ old \in Disks
    BY <1>10, <1>4, <1>12 DEF FileInv
  <2>2. QED
    BY <1>11, <1>12, <2>1 DEF Disks
<1>16. r.data \in Seq(Items) /\ \A b \in Buffers : b # request => content'[b] = content[b]
  <2>1. content \in [Buffers -> Seq(Items)]
    BY <1>1 DEF ContentInv
  <2>2. old.pos + n \in Nat /\ old.pos <= old.pos + n
    BY <1>15
  <2>3. r.data \in Seq(Items)
    BY ZenonT(40), <1>15, <2>2, SubSeqIs
  <2>4. QED
    BY <1>4, <1>5, <2>1, <2>3
<1>17. (D \in [Supers -> Seq(Items)])'
  BY <1>10, <1>4
<1>18. FileInv(D)'
  <2>1. \A s \in Supers : /\ disk[s].bytes = Len(D[s]) /\ Reads(disk[s], D[s]) /\ disk[s].pos <= disk[s].bytes
                          /\ superPartitions = 1 => OfFirst(D[s])
                          /\ requestSuperp = APPEND \/ s > superp => disk[s].pos = 0
                          /\ kind = "updates" /\ s < superp => disk[s].bytes = 0
    BY <1>10, <1>4 DEF FileInv, ScanPcs, Reading
  <2>2. \A s \in Supers : Reads(disk'[s], D[s]) /\ disk'[s].bytes = Len(D[s])
    BY <1>4, <2>1, <1>14
  <2>3. \A s \in Supers : disk'[s].pos <= disk'[s].bytes
    BY <2>2 DEF Reads
  <2>4. \A s \in Supers : /\ requestSuperp = APPEND \/ s > superp => disk'[s].pos = 0
                          /\ kind = "updates" /\ s < superp => disk'[s].bytes = 0
    <3>1. superp \in Nat /\ superp # APPEND
      BY <1>1, <1>4, FirstSuper DEF Threads
    <3>2. \A s \in Supers : s > superp => s # superp
      BY <3>1
    <3>3. QED
      BY <1>4, <2>1, <1>14, <3>2
  <2>5. QED
    BY <1>3, <1>4, <1>14, <2>1, <2>3, <2>4 DEF FileInv, WritePcs, Reading, Writing
<1>19. SentInv(D)'
  <2>1. \A s \in Supers : ToWrite(s)' = ToWrite(s)
    BY <1>3 DEF ToWrite
  <2>2. Cached' = Cached
    BY <1>3, <1>4 DEF Cached
  <2>3. \A s \in Supers : ToAppend(s)' = ToAppend(s)
    BY <1>3, <1>4 DEF ToAppend, Reading
  <2>4. UNCHANGED <<kind, superPartitions, sent>>
    BY <1>3
  <2>5. /\ batch' # NULL /\ pc' # "spillBatch" =>
              batch # NULL /\ pc # "spillBatch" /\ content'[batch'] = content[batch]
        /\ kind = "ingested" /\ cache' = NULL /\ (request' # NULL \/ disk'[0].bytes > 0) =>
              cache = NULL /\ (request # NULL \/ disk[0].bytes > 0)
        /\ pc' = "spillBatch" => /\ pc = "spillBatch" /\ content'[cache'] = content[cache]
                                 /\ uptodate'[request'] = uptodate[request] /\ disk'[0].bytes = disk[0].bytes
    <3>1. kind = "ingested" => disk'[0].bytes = disk[0].bytes
      BY <1>4, <1>14
    <3>2. batch # NULL => batch \in Buffers /\ content'[batch] = content[batch]
      BY <1>1, <1>4, <1>16, Basics DEF Threads, Fields, Holders
    <3>3. pc # "spillBatch"
      BY <1>4 DEF Reading
    <3>4. QED
      BY <1>3, <3>1, <3>2, <3>3
  <2>6. \A s \in Supers : Unwritten(s)' = Unwritten(s)
    BY <2>1, <2>2, <2>3 DEF Unwritten
  <2>7. QED
    BY <1>1, <1>10, <2>4, <2>5, <2>6, SentKept DEF Threads
<1>20. GotInv(D)'
  <2>1. PICK given, file : given = got[superp] /\ file = D[superp]
    OBVIOUS
  <2>2. given \in Seq(Items) /\ file \in Seq(Items) /\ <<>> \in Seq(Items)
    BY <1>10, <1>4, <2>1, <1>15 DEF GotInv
  <2>3. PICK b : b = IF pc = "consume" THEN content[buf] ELSE <<>>
    OBVIOUS
  <2>4. b \in Seq(Items) /\ b = IF pc' = "consume" THEN content'[buf'] ELSE <<>>
    BY <1>1, <1>3, <1>4, <2>3, <1>16 DEF ContentInv
  <2>5. ToGet = b
    BY <1>4, <2>3, <2>4, Joins DEF ToGet
  <2>6. ToGet' = Join(b, r.data)
    <3>1. request' = request /\ uptodate'[request] /\ content'[request] = r.data
      BY <1>1, <1>3, <1>4, <1>5 DEF Threads, Fields, ContentInv
    <3>2. QED
      BY <1>4, <2>4, <3>1 DEF ToGet
  <2>7. Join(given, b) = SubSeq(file, 1, old.pos)
    BY <1>10, <1>4, <2>1, <2>5, <1>12 DEF GotInv, ScanPcs, Reading
  <2>8. Join(given, ToGet') = SubSeq(file, 1, new.pos)
    <3>1. Join(given, Join(b, r.data)) = Join(Join(given, b), r.data)
      BY ZenonT(40), <2>2, <2>4, <1>16, JoinAssociative
    <3>2. PICK a \in Nat, e \in Nat \ {0}, c \in Nat : a = old.pos /\ e = old.pos + 1 /\ c = old.pos + n
      BY <1>15
    <3>3. a <= c /\ c <= Len(file) /\ 1 <= e /\ 1 \in Nat \ {0} /\ e = a + 1
      <4>1. c <= Len(D[superp])
        BY <1>15, <3>2
      <4>2. e = a + 1 /\ c = a + n
        BY <3>2
      <4>3. a <= c /\ 1 <= e /\ 1 \in Nat \ {0}
        BY <4>2
      <4>4. QED
        BY <2>1, <4>1, <4>2, <4>3
    <3>4. SubSeq(file, 1, a) \o SubSeq(file, e, c) = SubSeq(file, 1, c)
      BY <2>2, <3>3, Adjacent
    <3>5. Join(SubSeq(file, 1, old.pos), r.data) = SubSeq(file, 1, new.pos)
      BY <2>1, <1>15, <3>2, <3>4 DEF Join
    <3>6. QED
      BY <2>6, <2>7, <3>1, <3>5
  <2>9. got \in [Supers -> Seq(Items)] /\ (pc = "reading" /\ startPos = 0 => got[superp] = <<>>)
        /\ \A s \in Supers : s # superp => got[s] = <<>>
    BY <1>10, <1>4 DEF GotInv, ScanPcs, Reading
  <2>10. Join(got[superp], ToGet') = SubSeq(D[superp], 1, disk'[superp].pos)
    BY <2>1, <2>8, <1>14
  <2>11. got' = got /\ superp' = superp /\ cache' = NULL /\ pc' = pc /\ startPos' = startPos /\ Supers' = Supers
    BY <1>3, <1>4
  <2>12. QED
    BY <1>4, <2>9, <2>10, <2>11 DEF GotInv, ScanPcs, Reading
<1>21. QED
  BY <1>7, <1>8, <1>17, <1>18, <1>19, <1>20 DEF Data, StreamData

\* Read_operator loads the vertices.  Its effect on the control.
LEMMA DoReadOneShotThreads ==
  ASSUME IInv, DoReadOneShot
  PROVE  Threads'
<1>1. Threads
  BY DEF IInv
<1>2. Place'
  BY <1>1 DEF Threads, Place, DoReadOneShot, PcInv, Supers, mainVars, use
<1>3. Fields'
  BY <1>1, Basics DEF Threads, Fields, DoReadOneShot, Place, RequestInv, HolderInv, RefInv,
     DirtyInv, AppendInv, Holders, State, Supers, Buffers, Served, mainVars, histVars, PcInv,
     Work, WritePcs, Pool, One, DiskEmpty, use, Rewinds, Reading
<1>4. RequestInv'
  BY <1>1 DEF Threads, RequestInv, DoReadOneShot, Fields, Work, Served, mainVars, use
<1>5. HolderInv'
  BY <1>1 DEF Threads, HolderInv, DoReadOneShot, mainVars, use
<1>6. RefInv'
  BY <1>1 DEF Threads, RefInv, DoReadOneShot, mainVars, histVars, Holders, State, Buffers, Work,
     WritePcs, DiskEmpty, use, Rewinds, Reading
<1>7. DirtyInv'
  BY <1>1, Basics DEF Threads, DirtyInv, DoReadOneShot, RequestInv, HolderInv
<1>8. AppendInv'
  BY <1>1, Basics DEF Threads, AppendInv, DoReadOneShot, Place, RequestInv, mainVars, Supers,
     use
<1>9. QED
  BY <1>2, <1>3, <1>4, <1>5, <1>6, <1>7, <1>8 DEF Threads

\* The same step: its effect on the buffers and files.
LEMMA DoReadOneShotVertices ==
  ASSUME IInv, DoReadOneShot
  PROVE  ContentInv' /\ Data'
<1>1. Threads /\ ContentInv /\ Data
  BY DEF IInv
<1>2. Threads'
  BY DoReadOneShotThreads
<1>3. /\ io = "busy" /\ ~writeOp /\ oneShot /\ io' = "idle"
      /\ UNCHANGED <<kind, superPartitions, batch, cache, cycle, superp, pc, sent, got, queue, request, buf>>
  BY DEF DoReadOneShot, Served, mainVars, use, histVars
<1>4. /\ kind = "vertices" /\ batch = NULL /\ cache = NULL /\ superPartitions # 1 /\ Supers' = Supers /\ VertexInv
      /\ superp \in Supers /\ pc = "prepare" /\ cycle > 0 /\ requestSuperp = superp /\ request = State /\ ~Work'
      /\ State \in Buffers
  <2>1. Work /\ kind = "vertices"
    BY <1>1, <1>3 DEF Threads, RequestInv, Work
  <2>2. superPartitions # 1 /\ superp \in Supers
    BY <1>1, <2>1, Basics DEF Threads, Place
  <2>3. batch = NULL /\ cache = NULL
    BY <1>1, <2>1 DEF Threads, HolderInv
  <2>4. VertexInv /\ Supers' = Supers
    BY <1>1, <1>3, <2>1 DEF Data, Supers
  <2>5. request = State /\ State \in Buffers /\ pc = "prepare" /\ cycle > 0 /\ requestSuperp = superp
    BY <1>1, <1>3, Basics DEF Threads, Fields, RequestInv
  <2>6. ~Work'
    BY <1>1, <1>3 DEF Threads, Fields, Work
  <2>7. QED
    BY <2>1, <2>2, <2>3, <2>4, <2>5, <2>6
<1>5. PICK f : f = disk[superp].file /\ f = sent[superp] /\ f \in Seq(Items) /\ f # <<>>
               /\ \E c \in 0..Cycles : f = << <<superp, c, 1>> >>
  BY <1>4 DEF VertexInv
<1>6. f = <<f[1]>> /\ Len(f) = 1
  BY <1>5
<1>7. content' = [content EXCEPT ![State] = f]
  BY <1>4, <1>5, <1>6 DEF DoReadOneShot
<1>8. content \in [Buffers -> Seq(Items)] /\ \A b \in Buffers : Len(content[b]) <= BufferSize
  BY <1>1 DEF ContentInv
<1>9. content' \in [Buffers -> Seq(Items)] /\ content'[State] = f /\ \A b \in Buffers : Len(content'[b]) <= BufferSize
  <2>1. f \in Seq(Items) /\ State \in Buffers
    BY <1>4, <1>5
  <2>2. /\ content' \in [Buffers -> Seq(Items)] /\ content'[State] = f
        /\ \A b \in Buffers : b # State => content'[b] = content[b]
    BY <1>7, <1>8, <2>1
  <2>3. Len(f) <= BufferSize
    BY <1>6, Basics
  <2>4. QED
    BY <1>8, <2>2, <2>3
<1>10. PICK n \in Nat : disk' = [disk EXCEPT ![superp].seek = n]
  <2>1. 1 \in Nat /\ Len(f) \in Nat
    BY <1>6
  <2>2. Min({1, Len(f)}) \in Nat
    BY <2>1, OfTwo
  <2>3. QED
    BY <1>4, <1>5, <2>2 DEF DoReadOneShot
<1>11. ContentInv'
  BY <1>3, <1>4, <1>9 DEF ContentInv
<1>12. kind = "vertices" /\ VertexInv /\ kind' = kind
  BY <1>3, <1>4
<1>13. VertexInv'
  <2>1. disk \in [Supers -> Disks]
    BY <1>4 DEF VertexInv
  <2>2. PICK e : e = [disk[superp] EXCEPT !.seek = n]
    OBVIOUS
  <2>3. e \in Disks /\ e.pos = disk[superp].pos /\ e.bytes = disk[superp].bytes /\ e.file = disk[superp].file
    BY <1>4, <2>1, <2>2 DEF Disks
  <2>4. disk' \in [Supers -> Disks] /\ disk'[superp] = e /\ \A s \in Supers : s # superp => disk'[s] = disk[s]
    BY <1>4, <1>10, <2>1, <2>2, <2>3
  <2>5. \A s \in Supers : /\ disk'[s].pos = disk[s].pos /\ disk'[s].bytes = disk[s].bytes
                          /\ disk'[s].file = disk[s].file
    BY <2>3, <2>4
  <2>6. /\ {sent, got} \subseteq [Supers -> Seq(Items)]
        /\ \A s \in Supers :
             /\ disk[s].pos = 0 /\ disk[s].bytes = 0 /\ got[s] = <<>>
             /\ sent[s] = <<>> \/ \E c \in 0..Cycles : sent[s] = << <<s, c, 1>> >>
             /\ Len(disk[s].file) <= 1 /\ disk[s].file = sent[s]
             /\ cycle > 0 \/ s < superp => sent[s] # <<>>
    BY <1>4 DEF VertexInv
  <2>7. QED
    BY <1>3, <1>4, <1>5, <1>9, <2>4, <2>5, <2>6 DEF VertexInv
<1>14. QED
  BY <1>11, <1>12, <1>13 DEF Data

\* Write_operator appends the buffer to the files.  Its effect on the
\* control.
LEMMA DoWriteThreads ==
  ASSUME IInv, DoWrite
  PROVE  Threads'
<1>1. Threads
  BY DEF IInv
<1>2. io = "busy" /\ fatal = "no" /\ Work /\ writeOp /\ request # NULL /\ ~oneShot
  BY DEF DoWrite, Served, Work
<1>3. /\ kind # "vertices" /\ requestSuperp = APPEND /\ queue = 0 /\ request \in Pool /\ request \in Buffers
      /\ pc \in {"rewind", "ingest", "done"} \cup WritePcs /\ ~uptodate[request]
  BY <1>1, <1>2, Basics DEF Threads, RequestInv, Fields, Holders
<1>4. dirty[request]
  BY <1>1, <1>2, <1>3 DEF Threads, DirtyInv
<1>5. /\ io' = "late" /\ fatal' = "no" /\ disk' = [s \in Supers |-> Write(disk[s], Substream(content[request], s))]
      /\ dirty' = [dirty EXCEPT ![request] = FALSE]
      /\ uptodate' = [uptodate EXCEPT ![request] = TRUE]
      /\ UNCHANGED <<pc, mainVars, streamVars, queue, content, refcount, histVars>>
  BY <1>2, <1>4 DEF DoWrite, CleanError, streamVars
<1>6. ~Work' /\ \A b \in Buffers : uptodate'[b]
  BY <1>1, <1>3, <1>5 DEF Threads, RequestInv, Fields, Work
<1>7. \A s \in Supers : disk'[s].bytes = disk[s].bytes + Len(Substream(content[request], s))
  <2> SUFFICES ASSUME NEW s \in Supers PROVE disk'[s].bytes = disk[s].bytes + Len(Substream(content[request], s))
    OBVIOUS
  <2>1. DOMAIN disk[s] = {"file", "seek", "pos", "bytes", "page"}
    BY Types DEF Disks
  <2>2. QED
    BY <1>5, <2>1 DEF Write, PutFile
<1>8. superPartitions = 1 => disk'[0].bytes > 0 /\ ~DiskEmpty'
  <2>1. SUFFICES ASSUME superPartitions = 1 PROVE disk'[0].bytes > 0 /\ ~DiskEmpty'
    OBVIOUS
  <2>2. 0 \in Supers /\ content[request] \in Seq(Items) /\ content[request] # <<>> /\ OfFirst(content[request])
    BY <1>2, <1>3, <2>1, FirstSuper DEF IInv, Threads, ContentInv
  <2>3. Len(Substream(content[request], 0)) \in Nat /\ Len(Substream(content[request], 0)) # 0
    BY <2>2, SubstreamIsAll, EmptySeq
  <2>4. disk'[0].bytes > 0
    <3>1. disk'[0].bytes = disk[0].bytes + Len(Substream(content[request], 0)) /\ disk[0].bytes \in Nat
      BY <1>7, <2>2, Types
    <3>2. QED
      BY <2>3, <3>1
  <2>5. 0 \in Supers'
    BY <1>5, <2>2 DEF Supers, mainVars, use
  <2>6. QED
    BY <2>4, <2>5 DEF DiskEmpty
<1>9. cache # NULL => superPartitions = 1 /\ request = cache /\ pc \in {"spill", "spillBatch"}
  BY <1>1, <1>2 DEF Threads, HolderInv
<1>10. UNCHANGED <<kind, superPartitions, pc, buf, requestSuperp, request, writeOp, cache, superp>>
  BY <1>5 DEF mainVars, streamVars, use
<1>11. Place'
  BY <1>1, <1>5 DEF Threads, Place, PcInv, Supers, mainVars, use
<1>12. Fields'
  BY <1>1, <1>3, <1>5 DEF Threads, Fields, mainVars, streamVars, use
<1>13. RequestInv'
  BY <1>1, <1>2, <1>5, <1>6, <1>10 DEF Threads, RequestInv, streamVars
<1>14. HolderInv'
  BY <1>1, <1>5, <1>9, <1>10 DEF Threads, HolderInv, mainVars, use
<1>15. RefInv'
  BY <1>1, <1>5 DEF Threads, RefInv, mainVars, streamVars, histVars, Holders, State, Buffers,
     Work, WritePcs, DiskEmpty, use
<1>16. DirtyInv'
  <2>1. \A b \in Pool : dirty'[b] <=> dirty[b] /\ b # request
    BY <1>1, <1>5, Basics DEF Threads, Fields
  <2>2. pc \in {"append", "spill"} => buf # request
    BY <1>1 DEF Threads, HolderInv
  <2>3. QED
    BY <1>1, <1>6, <1>8, <1>9, <1>10, <2>1, <2>2, Basics DEF Threads, DirtyInv
<1>17. AppendInv'
  BY <1>2, <1>3, <1>6, <1>8, <1>9, <1>10 DEF AppendInv
<1>18. QED
  BY <1>11, <1>12, <1>13, <1>14, <1>15, <1>16, <1>17 DEF Threads

\* The same step: its effect on the buffers and files.
LEMMA DoWriteData ==
  ASSUME IInv, DoWrite
  PROVE  ContentInv' /\ Data'
<1>1. Threads /\ ContentInv /\ Data
  BY DEF IInv
<1>2. Threads'
  BY DoWriteThreads
<1>3. /\ io = "busy" /\ writeOp /\ request # NULL /\ ~oneShot /\ io' = "late"
      /\ disk' = [s \in Supers |-> Write(disk[s], Substream(content[request], s))]
      /\ uptodate' = [uptodate EXCEPT ![request] = TRUE]
      /\ UNCHANGED <<kind, superPartitions, superp, i, pc, request, cache, requestSuperp, writeOp, startPos,
                     eofFlag, flushComplete, content, sent, got, batch, buf, queue>>
  BY DEF DoWrite, Served, mainVars, use, histVars
<1>4. /\ kind \notin {"vertices", "edges"} /\ Supers' = Supers /\ request \in Pool /\ request \in Buffers
      /\ pc \in {"rewind", "ingest", "done"} \cup WritePcs /\ requestSuperp = APPEND
      /\ ~uptodate[request] /\ cache \in {NULL, request} /\ (cache # NULL => pc \in {"spill", "spillBatch"})
      /\ Writing /\ ~Work' /\ uptodate'[request] /\ Supers \subseteq Nat
      /\ (superPartitions = 1 => Supers = {0}) /\ (kind = "ingested" => superPartitions = 1)
      /\ (pc = "spillBatch" => request = cache /\ batch # NULL /\ kind = "ingested")
  <2>1. Work /\ Writing /\ kind \notin {"vertices", "edges"}
    BY <1>1, <1>3 DEF Threads, RequestInv, Work, Writing
  <2>2. request \in Pool /\ request \in Buffers /\ Supers' = Supers /\ Supers \subseteq Nat
        /\ (superPartitions = 1 => Supers = {0}) /\ (kind = "ingested" => superPartitions = 1)
    BY <1>1, <1>3, <2>1, FirstSuper, Basics DEF Threads, Fields, Holders, Supers, Place
  <2>3. pc \in {"rewind", "ingest", "done"} \cup WritePcs /\ requestSuperp = APPEND /\ ~uptodate[request]
    BY <1>1, <1>3, <2>1, <2>2 DEF Threads, RequestInv
  <2>4. cache \in {NULL, request} /\ (cache # NULL => pc \in {"spill", "spillBatch"})
        /\ (pc = "spillBatch" => request = cache /\ batch # NULL /\ kind = "ingested")
    BY <1>1, <1>3, <2>1 DEF Threads, HolderInv
  <2>5. ~Work' /\ uptodate'[request]
    BY <1>1, <1>3, <2>2 DEF Threads, Fields, Work
  <2>6. QED
    BY <2>1, <2>2, <2>3, <2>4, <2>5
<1>5. PICK data : data = content[request]
  OBVIOUS
<1>6. PICK part : part = [s \in Supers |-> Substream(data, s)]
  OBVIOUS
<1>7. data \in Seq(Items) /\ part \in [Supers -> Seq(Items)] /\ (superPartitions = 1 => part[0] = data /\ OfFirst(data))
  <2>1. data \in Seq(Items) /\ (superPartitions = 1 => OfFirst(data))
    BY <1>1, <1>4, <1>5 DEF ContentInv
  <2>2. \A s \in Supers : Substream(data, s) \in Seq(Items)
    BY <1>4, <2>1, SubstreamIn
  <2>3. superPartitions = 1 => Substream(data, 0) = data
    BY <2>1, SubstreamIsAll
  <2>4. QED
    BY <1>4, <1>6, <2>1, <2>2, <2>3
<1>8. ContentInv'
  BY <1>1, <1>3, <1>4 DEF ContentInv
<1>9. kind # "vertices" /\ kind' = kind
  BY <1>3, <1>4
<1>10. PICK D : StreamData(D)
  BY <1>1, <1>9 DEF Data
<1>11. D \in [Supers -> Seq(Items)] /\ FileInv(D) /\ SentInv(D) /\ GotInv(D)
  BY <1>10 DEF StreamData
<1>12. PICK E : E = [s \in Supers |-> Join(D[s], part[s])]
  OBVIOUS
<1>13. \A s \in Supers :
         /\ E[s] = Join(D[s], part[s]) /\ D[s] \in Seq(Items) /\ part[s] \in Seq(Items) /\ E[s] \in Seq(Items)
         /\ Len(E[s]) = Len(D[s]) + Len(part[s])
  <2>1. \A s \in Supers : D[s] \in Seq(Items) /\ part[s] \in Seq(Items) /\ E[s] = Join(D[s], part[s])
    BY <1>11, <1>12, <1>7
  <2>2. QED
    BY <2>1, Joins
<1>14. \A s \in Supers : disk'[s] \in Disks /\ Holds(disk'[s], E[s])
  <2> SUFFICES ASSUME NEW s \in Supers
               PROVE  disk'[s] \in Disks /\ Holds(disk'[s], E[s])
    OBVIOUS
  <2>1. disk[s] \in Disks /\ Holds(disk[s], D[s])
    BY <1>11, <1>4 DEF FileInv
  <2>2. disk'[s] = Write(disk[s], part[s])
    BY <1>3, <1>5, <1>6
  <2>3. E[s] = D[s] \o part[s]
    BY <1>13 DEF Join
  <2>4. D[s] \in Seq(Items) /\ part[s] \in Seq(Items)
    BY <1>13
  <2>5. Write(disk[s], part[s]) \in Disks /\ Holds(Write(disk[s], part[s]), D[s] \o part[s])
    BY <2>1, <2>4, WriteAppends
  <2>6. QED
    BY <2>2, <2>3, <2>5
<1>15. \A s \in Supers : disk'[s].pos = Len(E[s]) /\ disk'[s].bytes = Len(E[s]) /\ Len(E[s]) \in Nat
  <2> SUFFICES ASSUME NEW s \in Supers
               PROVE  disk'[s].pos = Len(E[s]) /\ disk'[s].bytes = Len(E[s]) /\ Len(E[s]) \in Nat
    OBVIOUS
  <2>1. Len(E[s]) \in Nat
    BY <1>13
  <2>2. QED
    BY <1>14, <2>1 DEF Holds, Carried
<1>16. disk' \in [Supers -> Disks]
  BY <1>3, <1>14
<1>17. (E \in [Supers -> Seq(Items)])'
  <2>1. \A s \in Supers : D[s] \in Seq(Items) /\ part[s] \in Seq(Items)
    BY <1>11, <1>7
  <2>2. \A s \in Supers : Join(D[s], part[s]) \in Seq(Items)
    BY <2>1, Joins
  <2>3. QED
    BY <1>12, <1>4, <2>2
<1>18. FileInv(E)'
  <2>1. superPartitions = 1 => \A s \in Supers : OfFirst(E[s])
    <3> SUFFICES ASSUME superPartitions = 1 PROVE OfFirst(E[0])
      BY <1>4
    <3>1. 0 \in Supers
      BY <1>4
    <3>2. PICK old, new : old = D[0] /\ new = E[0]
      OBVIOUS
    <3>3. /\ old \in Seq(Items) /\ OfFirst(old) /\ OfFirst(data) /\ new \in Seq(Items) /\ new = Join(old, data)
          /\ Len(new) = Len(old) + Len(data) /\ Len(old) \in Nat /\ Len(data) \in Nat
      <4>1. OfFirst(old)
        BY <1>11, <3>1, <3>2 DEF FileInv
      <4>2. OfFirst(data) /\ part[0] = data
        BY <1>7
      <4>3. /\ old \in Seq(Items) /\ new \in Seq(Items) /\ new = Join(old, data)
            /\ Len(new) = Len(old) + Len(data)
        BY <1>13, <3>1, <3>2, <4>2
      <4>4. Len(old) \in Nat /\ Len(data) \in Nat
        BY <1>7, <4>3
      <4>5. QED
        BY <4>1, <4>2, <4>3, <4>4
    <3>4. SUFFICES ASSUME NEW k \in 1..Len(new) PROVE new[k][1] = 0
      BY <3>2 DEF OfFirst
    <3>5. k \in 1..Len(old) + Len(data)
      BY <3>3
    <3>6. new[k] = IF k <= Len(old) THEN old[k] ELSE data[k - Len(old)]
      BY <1>7, <3>3, <3>5, JoinItems
    <3>7. CASE k <= Len(old)
      <4>1. k \in 1..Len(old) /\ new[k] = old[k]
        BY <3>3, <3>5, <3>6, <3>7
      <4>2. QED
        BY <3>3, <4>1 DEF OfFirst
    <3>8. CASE ~(k <= Len(old))
      <4>1. k - Len(old) \in 1..Len(data) /\ new[k] = data[k - Len(old)]
        BY <3>3, <3>5, <3>6, <3>8
      <4>2. QED
        BY <3>3, <4>1 DEF OfFirst
    <3>9. QED
      BY <3>7, <3>8
  <2>2. \A s \in Supers : Flushing(disk'[s], E[s])
    BY <1>14, HoldsFlushing
  <2>3. \A s \in Supers : disk'[s].pos <= disk'[s].bytes /\ disk'[s].bytes = Len(E[s])
    BY <1>15
  <2>4. pc' \notin ScanPcs \cup {"merge", "flush", "flushing"}
    BY <1>3, <1>4 DEF WritePcs, ScanPcs
  <2>5. requestSuperp' = APPEND /\ kind' # "edges"
    BY <1>3, <1>4
  <2>6. \A s \in Supers : Tail_(s, E)'
    BY <2>2, <2>5 DEF Tail_
  <2>7. QED
    BY <1>3, <1>4, <1>14, <2>1, <2>3, <2>4, <2>6 DEF FileInv
<1>19. SentInv(E)'
  <2>1. \A s \in Supers : Join(E[s], Unwritten(s)') = Join(D[s], Unwritten(s))
    <3> SUFFICES ASSUME NEW s \in Supers
                 PROVE  Join(E[s], Unwritten(s)') = Join(D[s], Unwritten(s))
      OBVIOUS
    <3>1. PICK last : last = ToAppend(s) /\ last \in Seq(Items)
      BY <1>1, UnwrittenIn DEF Threads, ContentInv
    <3>2. ToWrite(s) = part[s] /\ ToWrite(s)' = <<>>
      BY <1>3, <1>4, <1>5, <1>6 DEF ToWrite
    <3>3. Cached = <<>> /\ Cached' = <<>> /\ ToAppend(s)' = last
      BY <1>3, <1>4, <3>1 DEF Cached, ToAppend
    <3>4. Unwritten(s) = Join(part[s], last) /\ Unwritten(s)' = last
      BY <3>1, <3>2, <3>3, Joins DEF Unwritten
    <3>5. Join(Join(D[s], part[s]), last) = Join(D[s], Join(part[s], last))
      BY <1>13, <3>1, JoinAssociative
    <3>6. QED
      BY <1>13, <3>4, <3>5
  <2>2. sent' = sent /\ sent \in [Supers -> Seq(Items)] /\ \A s \in Supers : Len(sent[s]) <= MaxItems
    BY <1>11, <1>3 DEF SentInv
  <2>3. kind # "ingested" => \A s \in Supers : sent[s] = Join(E[s], Unwritten(s)')
    BY <1>11, <2>1 DEF SentInv
  <2>4. ASSUME kind = "ingested"
        PROVE  LET all == Join(E[0], Unwritten(0)')
               IN /\ IsInjective(all) /\ ToSet(all) = ToSet(sent[0])
                  /\ Numbered(sent[0], 0)
                  /\ batch # NULL /\ pc # "spillBatch" =>
                       /\ Numbered(content[batch], Len(sent[0]))
                       /\ Len(sent[0]) + Len(content[batch]) <= MaxItems
                  /\ cache = NULL => Len(all) > BufferSize
                  /\ pc = "spillBatch" => Len(content[cache]) = BufferSize /\ disk'[0].bytes = BufferSize
    <3>1. PICK all : all = Join(E[0], Unwritten(0)') /\ all = Join(D[0], Unwritten(0))
      BY <1>4, <2>1, <2>4
    <3>2. /\ IsInjective(all) /\ ToSet(all) = ToSet(sent[0]) /\ Numbered(sent[0], 0)
          /\ cache = NULL => Len(all) > BufferSize
      BY <1>11, <1>3, <2>4, <3>1 DEF SentInv
    <3>3. batch # NULL /\ pc # "spillBatch" => /\ Numbered(content[batch], Len(sent[0]))
                                               /\ Len(sent[0]) + Len(content[batch]) <= MaxItems
      BY <1>11, <2>4 DEF SentInv
    <3>4. ASSUME pc = "spillBatch"
          PROVE  Len(content[cache]) = BufferSize /\ disk'[0].bytes = BufferSize
      <4>1. Len(content[cache]) = BufferSize /\ disk[0].bytes = 0
        BY <1>11, <1>4, <2>4, <3>4 DEF SentInv
      <4>2. 0 \in Supers /\ part[0] = data /\ data = content[cache]
        BY <1>4, <1>5, <1>7, <2>4, <3>4
      <4>3. Len(D[0]) = 0
        BY <1>11, <4>1, <4>2 DEF FileInv
      <4>4. Len(E[0]) = BufferSize
        <5>1. Len(E[0]) = Len(D[0]) + Len(part[0])
          BY <1>13, <4>2
        <5>2. Len(part[0]) = BufferSize
          BY <4>1, <4>2
        <5>3. QED
          BY <4>3, <5>1, <5>2, Basics
      <4>5. QED
        BY <1>15, <4>1, <4>2, <4>4
    <3>5. QED
      BY <3>1, <3>2, <3>3, <3>4
  <2>5. kind' = kind /\ batch' = batch /\ pc' = pc /\ content' = content /\ cache' = cache /\ Supers' = Supers
        /\ uptodate'[request'] = TRUE
    BY <1>3, <1>4
  <2>6. QED
    BY <2>2, <2>3, <2>4, <2>5 DEF SentInv
<1>20. GotInv(E)'
  <2>1. pc' \notin ScanPcs /\ (cache' # NULL => pc' \in {"spill", "spillBatch"}) /\ pc' # "reading"
    BY <1>3, <1>4 DEF WritePcs, ScanPcs
  <2>2. got' = got /\ Supers' = Supers /\ got \in [Supers -> Seq(Items)] /\ \A s \in Supers : got[s] = <<>>
    BY <1>11, <1>3, <1>4 DEF GotInv, WritePcs, ScanPcs
  <2>3. QED
    BY <2>1, <2>2 DEF GotInv
<1>21. QED
  BY <1>8, <1>9, <1>17, <1>18, <1>19, <1>20 DEF Data, StreamData

\* Write_operator stores the vertices.  Its effect on the control.
LEMMA DoWriteOneShotThreads ==
  ASSUME IInv, DoWriteOneShot
  PROVE  Threads'
<1>1. Threads
  BY DEF IInv
<1>2. io = "busy" /\ fatal = "no" /\ Work /\ writeOp /\ request # NULL /\ oneShot
  BY DEF DoWriteOneShot, Served, Work
<1>3. /\ kind = "vertices" /\ requestSuperp = superp /\ queue = 0 /\ request = State /\ request \in Buffers
      /\ pc = "storing" /\ dirty[State] /\ request \notin Pool
  BY <1>1, <1>2, Basics DEF Threads, RequestInv, Fields
<1>4. /\ io' = "late" /\ fatal' = "no" /\ oneShot' = FALSE
      /\ disk' = [disk EXCEPT ![superp] = PutFile([@ EXCEPT !.seek = 0], content[request])]
      /\ dirty' = [dirty EXCEPT ![request] = FALSE]
      /\ uptodate' = [uptodate EXCEPT ![request] = TRUE]
      /\ UNCHANGED <<pc, mainVars, request, requestSuperp, cache, writeOp, flushComplete, eofFlag, queue, content,
                     refcount, histVars>>
  BY <1>2, <1>3 DEF DoWriteOneShot, CleanError
<1>5. ~Work' /\ \A b \in Buffers : uptodate'[b]
  BY <1>1, <1>3, <1>4 DEF Threads, RequestInv, Fields, Work
<1>6. cache = NULL
  BY <1>1, <1>3 DEF Threads, HolderInv
<1>7. Place'
  BY <1>1, <1>4 DEF Threads, Place, PcInv, Supers, mainVars, use
<1>8. Fields'
  BY <1>1, <1>2, <1>3, <1>4, <1>5, <1>6, Basics DEF Threads, Fields, vars, Place, RequestInv,
     HolderInv, RefInv, DirtyInv, AppendInv, Holders, State, Supers, Buffers, mainVars,
     streamVars, bufferVars, histVars, PcInv, Work, WritePcs, Pool, One, DiskEmpty, use,
     Rewinds, Reading
<1>9. RequestInv'
  BY <1>1, <1>2, <1>3, <1>4, <1>5 DEF Threads, RequestInv, mainVars, use
<1>10. HolderInv'
  BY <1>1, <1>4 DEF Threads, HolderInv, mainVars, use
<1>11. RefInv'
  BY <1>1, <1>4 DEF Threads, RefInv, mainVars, use
<1>12. DirtyInv'
  <2>1. \A b \in Pool : dirty'[b] = dirty[b] /\ b # request
    BY <1>1, <1>3, <1>4, Basics DEF Threads, Fields
  <2>2. UNCHANGED <<pc, buf, cache, request>>
    BY <1>4 DEF mainVars, use
  <2>3. QED
    BY <1>1, <1>6, <2>1, <2>2, Basics DEF Threads, DirtyInv
<1>13. AppendInv'
  BY <1>1, <1>3, <1>4, <1>6 DEF Threads, AppendInv, mainVars, use
<1>14. QED
  BY <1>7, <1>8, <1>9, <1>10, <1>11, <1>12, <1>13 DEF Threads

\* The same step: its effect on the buffers and files.
LEMMA DoWriteOneShotVertices ==
  ASSUME IInv, DoWriteOneShot
  PROVE  ContentInv' /\ Data'
<1>1. Threads /\ ContentInv /\ Data
  BY DEF IInv
<1>2. Threads'
  BY DoWriteOneShotThreads
<1>3. /\ io = "busy" /\ writeOp /\ oneShot /\ io' = "late" /\ request # NULL
      /\ disk' = [disk EXCEPT ![requestSuperp] = PutFile([@ EXCEPT !.seek = 0], content[request])]
      /\ UNCHANGED <<kind, superPartitions, batch, cache, cycle, superp, pc, sent, got, queue, request, buf, content>>
  BY DEF DoWriteOneShot, Served, mainVars, use, histVars
<1>4. /\ kind = "vertices" /\ batch = NULL /\ cache = NULL /\ superPartitions # 1 /\ Supers' = Supers /\ VertexInv
      /\ superp \in Supers /\ pc = "storing" /\ requestSuperp = superp /\ request = State /\ ~Work'
  <2>1. Work /\ kind = "vertices"
    BY <1>1, <1>3 DEF Threads, RequestInv, Work
  <2>2. superPartitions # 1 /\ superp \in Supers
    BY <1>1, <2>1, Basics DEF Threads, Place
  <2>3. batch = NULL /\ cache = NULL
    BY <1>1, <2>1 DEF Threads, HolderInv
  <2>4. VertexInv /\ Supers' = Supers
    BY <1>1, <1>3, <2>1 DEF Data, Supers
  <2>5. request = State /\ pc = "storing" /\ requestSuperp = superp
    BY <1>1, <1>3 DEF Threads, Fields, RequestInv
  <2>6. ~Work'
    BY <1>1, <1>3 DEF Threads, Fields, Work
  <2>7. QED
    BY <2>1, <2>2, <2>3, <2>4, <2>5, <2>6
<1>5. PICK data : /\ data = content[State] /\ data = sent[superp] /\ data \in Seq(Items)
                  /\ \E c \in 0..Cycles : data = << <<superp, c, 1>> >>
  BY <1>4 DEF VertexInv
<1>6. Len(data) = 1 /\ data \in Seq(Cells)
  BY <1>5, SeqMonotonic DEF Cells
<1>7. PICK d, e : d = [disk[superp] EXCEPT !.seek = 0] /\ e = PutFile(d, data)
  OBVIOUS
<1>8. disk \in [Supers -> Disks] /\ disk[superp].pos = 0 /\ disk[superp].bytes = 0 /\ Len(disk[superp].file) <= 1
  BY <1>4 DEF VertexInv
<1>9. /\ d \in Disks /\ d.seek = 0 /\ d.pos = 0 /\ d.bytes = 0 /\ d.file = disk[superp].file /\ Len(d.file) \in Nat
  <2>1. disk[superp] \in Disks
    BY <1>4, <1>8
  <2>2. d \in Disks /\ d.seek = 0 /\ d.pos = 0 /\ d.bytes = 0 /\ d.file = disk[superp].file
    BY <1>7, <1>8, <2>1 DEF Disks
  <2>3. Len(d.file) \in Nat
    BY <2>2, LenProperties DEF Disks
  <2>4. QED
    BY <2>2, <2>3
<1>10. e \in Disks /\ e.pos = 0 /\ e.bytes = 0 /\ e.file = data
  <2>1. /\ e \in Disks /\ e.seek = d.seek + Len(data) /\ e.pos = d.pos /\ e.bytes = d.bytes
        /\ Len(e.file) = IF Len(d.file) <= e.seek THEN e.seek ELSE Len(d.file)
        /\ \A k \in 1..Len(data) : e.file[d.seek + k] = data[k]
    <3>1. d.seek <= Len(d.file)
      BY <1>9
    <3>2. QED
      BY <1>6, <1>7, <1>9, <3>1, PutFileIs
  <2>2. e.seek = 1 /\ Len(e.file) = 1
    BY <1>6, <1>8, <1>9, <2>1
  <2>3. e.file[1] = data[1]
    BY <1>6, <1>9, <2>1
  <2>4. e.file \in Seq(Cells)
    BY <2>1 DEF Disks
  <2>5. e.file = data
    BY <1>6, <2>2, <2>3, <2>4, SeqEqual
  <2>6. QED
    BY <1>9, <2>1, <2>5
<1>11. disk' = [disk EXCEPT ![superp] = e]
  BY <1>3, <1>4, <1>5, <1>7
<1>12. ContentInv'
  BY <1>1, <1>3, <1>4 DEF ContentInv
<1>13. kind = "vertices" /\ VertexInv /\ kind' = kind
  BY <1>3, <1>4
<1>14. VertexInv'
  <2>1. disk' \in [Supers -> Disks] /\ disk'[superp] = e /\ \A s \in Supers : s # superp => disk'[s] = disk[s]
    BY <1>4, <1>8, <1>10, <1>11
  <2>2. ASSUME NEW s \in Supers
        PROVE  /\ disk'[s].pos = 0 /\ disk'[s].bytes = 0 /\ got[s] = <<>>
               /\ sent[s] = <<>> \/ \E c \in 0..Cycles : sent[s] = << <<s, c, 1>> >>
               /\ Len(disk'[s].file) <= 1 /\ disk'[s].file = sent[s]
               /\ cycle > 0 \/ s < superp => sent[s] # <<>>
    <3>1. /\ got[s] = <<>> /\ disk[s].pos = 0 /\ disk[s].bytes = 0
          /\ sent[s] = <<>> \/ \E c \in 0..Cycles : sent[s] = << <<s, c, 1>> >>
          /\ Len(disk[s].file) <= 1 /\ (s # superp => disk[s].file = sent[s])
          /\ cycle > 0 \/ s < superp => sent[s] # <<>>
      BY <1>4 DEF VertexInv
    <3>2. CASE s = superp
      <4>1. disk'[s].pos = 0 /\ disk'[s].bytes = 0 /\ disk'[s].file = sent[s] /\ Len(disk'[s].file) <= 1
        <5>1. disk'[s] = e /\ data = sent[s] /\ Len(data) <= 1
          BY <1>5, <1>6, <2>1, <3>2
        <5>2. QED
          BY <1>10, <5>1
      <4>2. QED
        BY <3>1, <4>1
    <3>3. CASE s # superp
      <4>1. disk'[s] = disk[s]
        BY <2>1, <3>3
      <4>2. QED
        BY <3>1, <3>3, <4>1
    <3>4. QED
      BY <3>2, <3>3
  <2>3. /\ {sent, got} \subseteq [Supers -> Seq(Items)]
        /\ content[State] = sent[superp] /\ sent[superp] # <<>>
    BY <1>4 DEF VertexInv
  <2>4. QED
    BY <1>3, <1>4, <2>1, <2>2, <2>3 DEF VertexInv
<1>15. QED
  BY <1>12, <1>13, <1>14 DEF Data

\* Write_operator announces the end of the write.  Its effect on the
\* control.
LEMMA FinishWriteThreads ==
  ASSUME IInv, FinishWrite
  PROVE  /\ Threads' /\ uptodate' = uptodate /\ fatal' = fatal /\ (Work' <=> Work)
         /\ kind # "vertices" => dirty' = dirty
<1>1. Threads
  BY DEF IInv
<1>2. /\ io = "late" /\ io' = "idle" /\ flushComplete' = TRUE
      /\ UNCHANGED <<pc, kind, superPartitions, batch, cycle, superp, i, buf, startPos, request,
                     requestSuperp, cache, writeOp, oneShot, eofFlag, disk, queue, content, refcount>>
  BY DEF FinishWrite, mainVars, use
<1>3. flushComplete /\ (kind = "vertices" => request = State /\ ~Work)
  BY <1>1, <1>2 DEF Threads, RequestInv, Fields
<1>4. uptodate' = uptodate /\ fatal' = fatal
  <2>1. CASE kind # "vertices"
    BY <2>1 DEF FinishWrite
  <2>2. CASE kind = "vertices"
    <3>1. State \in Buffers /\ State # NULL
      BY Basics
    <3>2. uptodate[State] /\ uptodate \in [Buffers -> BOOLEAN]
      BY <1>1, <1>3, <2>2, <3>1 DEF Threads, RequestInv, Fields
    <3>3. uptodate' = [uptodate EXCEPT ![State] = TRUE] /\ fatal' = fatal
      BY <1>3, <2>2, <3>1 DEF FinishWrite
    <3>4. QED
      BY <3>2, <3>3
  <2>3. QED
    BY <2>1, <2>2
<1>5. /\ kind # "vertices" => dirty' = dirty
      /\ kind = "vertices" => dirty' = [dirty EXCEPT ![State] = FALSE]
  BY <1>3, Basics DEF FinishWrite
<1>6. Work' <=> Work
  BY <1>2 DEF Work
<1>7. dirty' \in [Buffers -> BOOLEAN] /\ \A b \in Pool : dirty'[b] = dirty[b]
  <2>1. dirty \in [Buffers -> BOOLEAN] /\ State \notin Pool /\ Pool \subseteq Buffers
    BY <1>1, Basics DEF Threads, Fields
  <2>2. QED
    BY <1>5, <2>1
<1>8. Place'
  BY <1>1, <1>2 DEF Threads, Place, PcInv, Supers, Rewinds, Reading
<1>9. Fields'
  BY <1>1, <1>2, <1>4, <1>7 DEF Threads, Fields, Holders, Supers
<1>10. RequestInv'
  <2>1. kind = "vertices" /\ Work => dirty'[State] = dirty[State]
    BY <1>3
  <2>2. \A b \in Buffers : ~uptodate'[b] <=> Work' /\ b = request'
    BY <1>1, <1>2, <1>4, <1>6 DEF Threads, RequestInv
  <2>3. QED
    BY <1>1, <1>2, <1>3, <1>6, <2>1, <2>2 DEF Threads, RequestInv, WritePcs
<1>11. HolderInv'
  BY <1>1, <1>2 DEF Threads, HolderInv
<1>12. RefInv'
  BY <1>1, <1>2 DEF Threads, RefInv
<1>13. DiskEmpty' <=> DiskEmpty
  BY <1>2, EmptyKept
<1>14. DirtyInv'
  BY <1>1, <1>2, <1>4, <1>7, <1>13 DEF Threads, DirtyInv
<1>15. AppendInv'
  BY <1>1, <1>2, <1>4, <1>13 DEF Threads, AppendInv, WritePcs
<1>16. QED
  BY <1>4, <1>5, <1>6, <1>8, <1>9, <1>10, <1>11, <1>12, <1>14, <1>15 DEF Threads

\* The same step: its effect on the buffers and files.
LEMMA FinishWriteData ==
  ASSUME IInv, FinishWrite
  PROVE  ContentInv' /\ Data'
<1>1. Threads /\ ContentInv /\ Data
  BY DEF IInv
<1>2. Threads' /\ uptodate' = uptodate /\ (Work' <=> Work)
  BY FinishWriteThreads
<1>3. ContentInv'
  BY <1>1, <1>2 DEF Threads, ContentInv, FinishWrite, Fields, mainVars, use
<1>4. ASSUME kind = "vertices"
      PROVE  VertexInv' /\ kind' = "vertices"
  <2>1. VertexInv /\ kind' = kind
    BY <1>1, <1>4 DEF Data, FinishWrite, mainVars, use
  <2>2. Work' <=> Work
    BY <1>2
  <2>3. UNCHANGED <<superPartitions, disk, sent, got, content, cycle, superp, pc>>
    BY DEF FinishWrite, mainVars, use, histVars
  <2>4. QED
    BY <1>4, <2>1, <2>2, <2>3, VerticesKept
<1>5. ASSUME kind # "vertices"
      PROVE  (\E D : StreamData(D))' /\ kind' # "vertices"
  <2>1. PICK D : StreamData(D)
    BY <1>1, <1>5 DEF Data
  <2>2. D \in [Supers -> Seq(Items)] /\ FileInv(D) /\ SentInv(D) /\ GotInv(D)
    BY <2>1 DEF StreamData
  <2>3. (D \in [Supers -> Seq(Items)])'
    BY <1>5, <2>2 DEF Supers, FinishWrite, mainVars, use
  <2>4. FileInv(D)'
    BY SMTT(40), <1>1, <1>2, <1>5, <2>2, Basics DEF Threads, FileInv, FinishWrite, Place, Fields,
       RequestInv, HolderInv, RefInv, DirtyInv, AppendInv, Supers, WritePcs, Writing, Tail_,
       ScanPcs, mainVars, histVars, PcInv, Holders, State, Buffers, Work, Pool, One, DiskEmpty,
       use, Rewinds, Reading
  <2>5. SentInv(D)'
    <3>1. \A s \in Supers : ToWrite(s)' = ToWrite(s)
      BY <1>5 DEF ToWrite, FinishWrite
    <3>2. Cached' = Cached
      <4>1. DiskEmpty' <=> DiskEmpty
        BY EmptyKept DEF FinishWrite, mainVars, histVars, use
      <4>2. QED
        BY <4>1, <1>5 DEF Cached, FinishWrite
    <3>3. \A s \in Supers : ToAppend(s)' = ToAppend(s)
      BY <1>5 DEF ToAppend, FinishWrite, mainVars, use
    <3>4. UNCHANGED <<kind, superPartitions, sent>>
      BY <1>5 DEF FinishWrite, mainVars, histVars, use
    <3>5. /\ batch' # NULL /\ pc' # "spillBatch" =>
                batch # NULL /\ pc # "spillBatch" /\ content'[batch'] = content[batch]
          /\ kind = "ingested" /\ cache' = NULL /\ (request' # NULL \/ disk'[0].bytes > 0) =>
                cache = NULL /\ (request # NULL \/ disk[0].bytes > 0)
          /\ pc' = "spillBatch" => /\ pc = "spillBatch" /\ content'[cache'] = content[cache]
                                   /\ uptodate'[request'] = uptodate[request] /\ disk'[0].bytes = disk[0].bytes
      BY <1>5 DEF FinishWrite, mainVars, use
    <3>6. \A s \in Supers : Unwritten(s)' = Unwritten(s)
      BY <3>1, <3>2, <3>3 DEF Unwritten
    <3>7. QED
      BY <1>1, <2>2, <3>4, <3>5, <3>6, SentKept DEF Threads
  <2>6. GotInv(D)'
    <3>1. UNCHANGED <<kind, superPartitions, pc, superp, cache, eofFlag, startPos, disk, request, buf,
                      content, got>>
      BY DEF FinishWrite, mainVars, histVars, use
    <3>2. ToGet' = ToGet
      BY <1>2, <3>1 DEF ToGet
    <3>3. DiskEmpty' <=> DiskEmpty
      BY <3>1, EmptyKept
    <3>4. QED
      BY <2>2, <3>1, <3>2, <3>3 DEF GotInv, Supers
  <2>7. kind' # "vertices"
    BY <1>5 DEF FinishWrite, use, mainVars, histVars
  <2>8. QED
    BY <2>3, <2>4, <2>5, <2>6, <2>7 DEF StreamData
<1>6. QED
  BY <1>3, <1>4, <1>5 DEF Data

\* Flush_operator flushes the last pages of all files.  Its effect on the
\* control.
LEMMA DoFlushThreads ==
  ASSUME IInv, DoFlush
  PROVE  Threads'
<1>1. Threads
  BY DEF IInv
<1>2. Place'
  BY <1>1 DEF Threads, Place, DoFlush, PcInv, Supers, mainVars, use
<1>3. Fields'
  BY <1>1 DEF Threads, Fields, DoFlush, Supers, mainVars, bufferVars, use
<1>4. RequestInv'
  BY <1>1, Basics DEF Threads, RequestInv, DoFlush, Fields, Work, Served, mainVars, bufferVars,
     use
<1>5. HolderInv'
  BY <1>1 DEF Threads, HolderInv, DoFlush, mainVars, use
<1>6. RefInv'
  BY <1>1 DEF Threads, RefInv, DoFlush, mainVars, bufferVars, use
<1>7. DirtyInv'
  BY <1>1, Basics DEF Threads, DirtyInv, DoFlush, RequestInv, HolderInv, Served, bufferVars,
     Work
<1>8. AppendInv'
  BY <1>1 DEF Threads, AppendInv, DoFlush, RequestInv, HolderInv, Served, Work
<1>9. QED
  BY <1>2, <1>3, <1>4, <1>5, <1>6, <1>7, <1>8 DEF Threads

\* The same step: its effect on the buffers and files.
LEMMA DoFlushData ==
  ASSUME IInv, DoFlush
  PROVE  ContentInv' /\ Data'
<1>1. Threads /\ ContentInv /\ Data
  BY DEF IInv
<1>2. Threads'
  BY DoFlushThreads
<1>3. /\ io = "busy" /\ request = NULL /\ request' = NULL /\ flushComplete' = TRUE /\ io' = "idle"
      /\ disk' = [s \in Supers |-> Flushed(disk[s])]
      /\ UNCHANGED <<kind, superPartitions, superp, i, pc, cache, requestSuperp, writeOp, content, uptodate,
                     sent, got, batch, buf, queue>>
  BY DEF DoFlush, Served, mainVars, use, bufferVars, histVars
<1>4. pc = "flushing" /\ requestSuperp = APPEND /\ cache = NULL /\ kind # "vertices" /\ Supers' = Supers
  BY <1>1, <1>3 DEF Threads, RequestInv, HolderInv, Work, Supers
<1>5. ContentInv'
  BY <1>1, <1>3, <1>4 DEF ContentInv
<1>6. kind # "vertices" /\ kind' = kind
  BY <1>3, <1>4
<1>7. PICK D : StreamData(D)
  BY <1>1, <1>6 DEF Data
<1>8. D \in [Supers -> Seq(Items)] /\ FileInv(D) /\ SentInv(D) /\ GotInv(D)
  BY <1>7 DEF StreamData
<1>9. \A s \in Supers :
         /\ disk'[s] \in Disks /\ disk'[s].pos = disk[s].pos /\ disk'[s].bytes = disk[s].bytes
         /\ disk[s].pos = 0 => disk'[s] = disk[s]
         /\ Flushing(disk[s], D[s]) => Flushing(disk'[s], D[s]) /\ Complete(disk'[s], D[s])
  <2> SUFFICES ASSUME NEW s \in Supers
               PROVE  /\ disk'[s] \in Disks /\ disk'[s].pos = disk[s].pos /\ disk'[s].bytes = disk[s].bytes
                      /\ disk[s].pos = 0 => disk'[s] = disk[s]
                      /\ Flushing(disk[s], D[s]) => Flushing(disk'[s], D[s]) /\ Complete(disk'[s], D[s])
    OBVIOUS
  <2>1. disk[s] \in Disks /\ D[s] \in Seq(Items) /\ disk'[s] = Flushed(disk[s])
    BY <1>8, <1>3 DEF FileInv
  <2>2. disk[s].pos = 0 => Flushed(disk[s]) = disk[s]
    BY AtStart DEF Flushed
  <2>3. Flushing(disk[s], D[s]) => /\ disk'[s] \in Disks /\ disk'[s].pos = disk[s].pos
                                   /\ disk'[s].bytes = disk[s].bytes
                                   /\ Flushing(disk'[s], D[s]) /\ Complete(disk'[s], D[s])
    BY <2>1, FlushCompletes
  <2>4. Flushing(disk[s], D[s]) \/ disk[s].pos = 0
    BY <1>8, <1>4 DEF FileInv, Tail_
  <2>5. QED
    BY <2>1, <2>2, <2>3, <2>4
<1>10. (D \in [Supers -> Seq(Items)])'
  BY <1>8, <1>4
<1>11. FileInv(D)'
  <2>1. disk' \in [Supers -> Disks]
    BY <1>3, <1>9
  <2>2. ASSUME NEW s \in Supers
        PROVE  /\ disk'[s].pos <= disk'[s].bytes /\ disk'[s].bytes = Len(D[s])
               /\ superPartitions = 1 => OfFirst(D[s])
               /\ IF s < i THEN disk'[s].pos = 0 /\ Reads(disk'[s], D[s]) ELSE Tail_(s, D)'
               /\ s = i => Complete(disk'[s], D[s])
    <3>1. /\ disk[s].pos <= disk[s].bytes /\ disk[s].bytes = Len(D[s])
          /\ superPartitions = 1 => OfFirst(D[s])
          /\ IF s < i THEN disk[s].pos = 0 /\ Reads(disk[s], D[s]) ELSE Tail_(s, D)
      BY <1>8, <1>4 DEF FileInv
    <3>2. i \in Nat
      BY <1>1, FirstSuper DEF Threads
    <3>3. CASE s < i
      BY <1>9, <3>1, <3>2, <3>3
    <3>4. CASE ~(s < i)
      <4>1. Tail_(s, D)
        BY <3>1, <3>4
      <4>2. CASE kind # "edges" /\ Flushing(disk[s], D[s])
        BY <1>3, <1>4, <1>9, <3>1, <4>2 DEF Tail_
      <4>3. CASE disk[s].pos = 0 /\ Reads(disk[s], D[s])
        <5>1. disk'[s] = disk[s] /\ Complete(disk[s], D[s])
          BY <1>9, <4>3 DEF Reads
        <5>2. QED
          BY <1>3, <3>1, <3>4, <4>3, <5>1 DEF Tail_
      <4>4. QED
        BY <1>4, <4>1, <4>2, <4>3 DEF Tail_
    <3>5. QED
      BY <3>3, <3>4
  <2>3. ~Writing'
    BY <1>3 DEF Writing
  <2>4. QED
    BY <1>3, <1>4, <2>1, <2>2, <2>3 DEF FileInv, WritePcs, ScanPcs
<1>12. SentInv(D)'
  <2>1. \A s \in Supers : ToWrite(s)' = ToWrite(s)
    BY <1>3 DEF ToWrite
  <2>2. Cached' = Cached
    BY <1>3, <1>4 DEF Cached
  <2>3. \A s \in Supers : ToAppend(s)' = ToAppend(s)
    BY <1>3 DEF ToAppend
  <2>4. UNCHANGED <<kind, superPartitions, sent>>
    BY <1>3
  <2>5. /\ batch' # NULL /\ pc' # "spillBatch" =>
              batch # NULL /\ pc # "spillBatch" /\ content'[batch'] = content[batch]
        /\ kind = "ingested" /\ cache' = NULL /\ (request' # NULL \/ disk'[0].bytes > 0) =>
              cache = NULL /\ (request # NULL \/ disk[0].bytes > 0)
        /\ pc' = "spillBatch" => /\ pc = "spillBatch" /\ content'[cache'] = content[cache]
                                 /\ uptodate'[request'] = uptodate[request] /\ disk'[0].bytes = disk[0].bytes
    <3>1. kind = "ingested" => 0 \in Supers
      BY <1>1, FirstSuper DEF Threads
    <3>2. QED
      BY <1>3, <1>4, <1>9, <3>1
  <2>6. \A s \in Supers : Unwritten(s)' = Unwritten(s)
    BY <2>1, <2>2, <2>3 DEF Unwritten
  <2>7. QED
    BY <1>1, <1>8, <2>4, <2>5, <2>6, SentKept DEF Threads
<1>13. GotInv(D)'
  BY <1>8, <1>3, <1>4 DEF GotInv, ScanPcs
<1>14. QED
  BY <1>5, <1>6, <1>10, <1>11, <1>12, <1>13 DEF Data, StreamData

-----------------------------------------------------------------------------
(* The invariant is inductive *)

\* The first states: nothing was given to the stream, or the files hold its edges.
LEMMA InitData ==
  ASSUME Init
  PROVE  ContentInv /\ Data
<1>1. /\ superPartitions \in SuperPartitionCounts /\ superPartitions \in Nat \ {0}
      /\ (kind = "vertices" => superPartitions > 1) /\ (kind = "ingested" => superPartitions = 1)
      /\ batch = NULL /\ cycle = 0 /\ superp = 0 /\ request = NULL /\ requestSuperp = APPEND /\ cache = NULL
      /\ queue = 0 /\ io = "idle"
      /\ content = [b \in Buffers |-> <<>>] /\ got = [s \in Supers |-> <<>>]
  BY Basics DEF Init
<1>2. Supers \subseteq Nat /\ \A s \in Supers : s < superPartitions
  BY <1>1 DEF Supers
<1>3. pc = IF kind = "updates" THEN "fill" ELSE IF kind = "edges" THEN "rewind"
           ELSE IF kind = "vertices" THEN "load" ELSE "ingest"
  <2>1. kind \in {"updates", "edges", "vertices", "ingested"}
    BY KindsAssumption DEF Init
  <2>2. QED
    BY <2>1 DEF Init
<1>4. kind \in {"updates", "edges", "vertices", "ingested"}
  BY KindsAssumption DEF Init
<1>5. PICK size :
        /\ size \in [Supers -> 0..MaxItems] /\ (kind # "edges" => \A s \in Supers : size[s] = 0)
        /\ sent = [s \in Supers |-> [k \in 1..size[s] |-> <<s, 0, k>>]]
        /\ disk = [s \in Supers |-> [EmptyDisk EXCEPT !.file = sent[s], !.bytes = size[s]]]
  <2>1. PICK size \in IF kind = "edges" THEN [Supers -> 0..MaxItems \div superPartitions] ELSE {[s \in Supers |-> 0]} :
         /\ sent = [s \in Supers |-> [k \in 1..size[s] |-> <<s, 0, k>>]]
         /\ disk = [s \in Supers |-> [EmptyDisk EXCEPT !.file = sent[s], !.bytes = size[s]]]
    BY DEF Init
  <2>2. PICK q : q = MaxItems \div superPartitions
    OBVIOUS
  <2>3. q \in Nat /\ q <= MaxItems /\ MaxItems \in Nat
    BY <1>1, <2>2, QuotientIsLess, Basics
  <2>4. kind = "edges" => size \in [Supers -> 0..q]
    BY <2>1, <2>2
  <2>5. kind = "edges" => size \in [Supers -> 0..MaxItems]
    BY <2>3, <2>4
  <2>6. kind # "edges" => size = [s \in Supers |-> 0]
    BY <2>1
  <2>7. kind # "edges" => size \in [Supers -> 0..MaxItems] /\ \A s \in Supers : size[s] = 0
    BY <2>3, <2>6
  <2>8. QED
    BY <2>1, <2>5, <2>7
<1>6. \A s \in Supers : /\ sent[s] \in Seq(Items) /\ Len(sent[s]) = size[s] /\ size[s] \in Nat /\ size[s] <= MaxItems
                        /\ \A k \in 1..size[s] : sent[s][k] = <<s, 0, k>>
  <2> SUFFICES ASSUME NEW s \in Supers
               PROVE  /\ sent[s] \in Seq(Items) /\ Len(sent[s]) = size[s] /\ size[s] \in Nat /\ size[s] <= MaxItems
                      /\ \A k \in 1..size[s] : sent[s][k] = <<s, 0, k>>
    OBVIOUS
  <2>1. PICK n \in Nat : n = size[s] /\ n <= MaxItems
    <3>1. size[s] \in 0..MaxItems
      BY <1>5
    <3>2. size[s] \in Nat /\ size[s] <= MaxItems
      BY <3>1, Basics
    <3>3. QED
      BY <3>2
  <2>2. sent[s] = [k \in 1..n |-> <<s, 0, k>>]
    BY <1>5, <2>1
  <2>3. \A k \in 1..n : <<s, 0, k>> \in Items
    <3>1. s \in UNION {0..m : m \in SuperPartitionCounts}
      BY <1>1, <1>2
    <3>2. 0 \in 0..Cycles /\ \A k \in 1..n : k \in 1..MaxItems
      BY <2>1, Basics
    <3>3. QED
      BY <3>1, <3>2 DEF Items
  <2>4. sent[s] \in [1..n -> Items]
    BY <2>2, <2>3
  <2>5. sent[s] \in Seq(Items) /\ Len(sent[s]) = n
    BY <2>4, SequenceOf
  <2>6. QED
    BY <2>1, <2>2, <2>5
<1>7. sent \in [Supers -> Seq(Items)]
  BY <1>5, <1>6
<1>8. \A s \in Supers : /\ disk[s] \in Disks /\ disk[s].file = sent[s] /\ disk[s].seek = 0 /\ disk[s].pos = 0
                        /\ disk[s].bytes = size[s]
  <2> SUFFICES ASSUME NEW s \in Supers
               PROVE  /\ disk[s] \in Disks /\ disk[s].file = sent[s] /\ disk[s].seek = 0 /\ disk[s].pos = 0
                      /\ disk[s].bytes = size[s]
    OBVIOUS
  <2>1. EmptyDisk.page \in [1..PageSize -> Cells]
    BY DEF EmptyDisk, Cells
  <2>2. sent[s] \in Seq(Cells) /\ size[s] \in Nat
    BY <1>6, SeqMonotonic DEF Cells
  <2>3. PICK file, bytes : file = sent[s] /\ bytes = size[s]
    OBVIOUS
  <2>4. disk[s] = [file |-> file, seek |-> 0, pos |-> 0, bytes |-> bytes, page |-> EmptyDisk.page]
    BY <1>5, <2>3 DEF EmptyDisk
  <2>5. QED
    BY <2>1, <2>2, <2>3, <2>4 DEF Disks
<1>9. disk \in [Supers -> Disks]
  BY <1>5, <1>8
<1>10. \A s \in Supers : kind # "edges" => sent[s] = <<>>
  BY <1>5, <1>6, EmptySeq
<1>11. ContentInv
  <2>1. \A b \in Buffers : content[b] = <<>>
    BY <1>1
  <2>2. <<>> \in Seq(Items) /\ Len(<<>>) = 0 /\ Len(<<>>) <= BufferSize
    BY Basics
  <2>3. OfFirst(<<>>)
    BY <2>2 DEF OfFirst
  <2>4. content \in [Buffers -> Seq(Items)]
    BY <1>1, <2>2
  <2>5. QED
    BY <1>1, <1>3, <2>1, <2>2, <2>3, <2>4 DEF ContentInv
<1>12. got \in [Supers -> Seq(Items)] /\ \A s \in Supers : got[s] = <<>>
  <2>1. <<>> \in Seq(Items)
    OBVIOUS
  <2>2. QED
    BY <1>1, <2>1
<1>13. ~Work
  BY <1>1 DEF Work
<1>14. ASSUME kind = "vertices"
       PROVE  VertexInv
  <2>1. \A s \in Supers : disk[s].bytes = 0 /\ disk[s].file = <<>> /\ sent[s] = <<>> /\ Len(disk[s].file) <= 1
    <3>1. \A s \in Supers : size[s] = 0 /\ sent[s] = <<>>
      BY <1>5, <1>10, <1>14
    <3>2. \A s \in Supers : disk[s].bytes = 0 /\ disk[s].file = <<>>
      BY <1>8, <3>1
    <3>3. Len(<<>>) <= 1
      OBVIOUS
    <3>4. QED
      BY <3>1, <3>2, <3>3
  <2>2. pc = "load" /\ ~(cycle > 0) /\ \A s \in Supers : ~(s < superp)
    BY <1>1, <1>2, <1>3, <1>14
  <2>3. QED
    BY <1>7, <1>8, <1>9, <1>12, <1>13, <2>1, <2>2 DEF VertexInv
<1>15. ASSUME kind # "vertices"
       PROVE  StreamData(sent)
  <2>1. \A s \in Supers : Reads(disk[s], sent[s]) /\ (kind # "edges" => Holds(disk[s], sent[s]))
    <3> SUFFICES ASSUME NEW s \in Supers
                 PROVE  Reads(disk[s], sent[s]) /\ (kind # "edges" => Holds(disk[s], sent[s]))
      OBVIOUS
    <3>1. PICK d, D : d = disk[s] /\ D = sent[s]
      OBVIOUS
    <3>2. /\ d \in Disks /\ D \in Seq(Items) /\ d.file = D /\ d.bytes = Len(D) /\ d.seek = 0 /\ d.pos = 0
          /\ Len(D) \in Nat
      BY <1>6, <1>8, <3>1
    <3>3. Complete(d, D)
      BY <3>2 DEF Complete
    <3>4. PICK e : e = [d EXCEPT !.seek = 0, !.pos = 0]
      OBVIOUS
    <3>5. e = d
      BY <3>2, <3>4 DEF Disks
    <3>6. Reads(d, D)
      BY ZenonT(40), <3>2, <3>3, <3>4, <3>5, RewoundReads
    <3>7. kind # "edges" => Holds(d, D)
      <4>1. SUFFICES ASSUME kind # "edges" PROVE Holds(d, D)
        OBVIOUS
      <4>2. D = <<>> /\ d.bytes = 0
        BY <1>10, <3>1, <3>2, <4>1
      <4>3. QED
        BY <3>2, <3>6, <4>2, EmptyFile
    <3>8. QED
      BY <3>1, <3>6, <3>7
  <2>2. FileInv(sent)
    <3>1. superPartitions = 1 => \A s \in Supers : OfFirst(sent[s])
      <4>1. superPartitions = 1 => \A s \in Supers : s = 0
        BY <1>2
      <4>2. QED
        BY <1>6, <4>1 DEF OfFirst
    <3>2. \A s \in Supers : disk[s].pos = 0 /\ disk[s].pos <= disk[s].bytes /\ disk[s].bytes = Len(sent[s])
      BY <1>6, <1>8
    <3>3. \A s \in Supers : Tail_(s, sent)
      BY <2>1, <3>2 DEF Tail_
    <3>4. pc \in WritePcs => kind # "edges"
      BY <1>3 DEF WritePcs
    <3>5. ~Writing /\ pc \in {"fill", "rewind", "ingest"}
      BY <1>1, <1>3, <1>4, <1>15 DEF Writing
    <3>6. QED
      BY <1>9, <2>1, <3>1, <3>2, <3>3, <3>4, <3>5 DEF FileInv, ScanPcs
  <2>3. \A s \in Supers : Unwritten(s) = <<>>
    <3>1. <<>> \in Seq(Items)
      OBVIOUS
    <3>2. \A s \in Supers : ToWrite(s) = <<>> /\ Cached = <<>> /\ ToAppend(s) = <<>>
      BY <1>1, <1>3 DEF ToWrite, Cached, ToAppend
    <3>3. QED
      BY <3>1, <3>2, Joins DEF Unwritten
  <2>4. \A s \in Supers : sent[s] = Join(sent[s], Unwritten(s))
    BY <1>6, <2>3, Joins
  <2>5. SentInv(sent)
    <3>1. \A s \in Supers : Len(sent[s]) <= MaxItems
      BY <1>6
    <3>2. ASSUME kind = "ingested"
          PROVE  LET all == Join(sent[0], Unwritten(0))
                 IN /\ IsInjective(all) /\ ToSet(all) = ToSet(sent[0])
                    /\ Numbered(sent[0], 0) /\ disk[0].bytes = 0
      <4>1. 0 \in Supers
        BY <1>1 DEF Supers
      <4>2. sent[0] = <<>> /\ Join(sent[0], Unwritten(0)) = <<>> /\ disk[0].bytes = 0
        BY <1>5, <1>8, <1>10, <2>4, <3>2, <4>1
      <4>3. IsInjective(<<>>)
        BY DEF IsInjective
      <4>4. Numbered(<<>>, 0)
        BY DEF Numbered
      <4>5. QED
        BY <4>2, <4>3, <4>4
    <3>3. pc # "spillBatch"
      BY <1>3
    <3>4. QED
      BY <1>1, <1>7, <2>4, <3>1, <3>2, <3>3 DEF SentInv
  <2>6. GotInv(sent)
    BY <1>1, <1>3, <1>12 DEF GotInv, ScanPcs
  <2>7. QED
    BY <1>7, <2>2, <2>5, <2>6 DEF StreamData
<1>16. QED
  BY <1>11, <1>14, <1>15 DEF Data

\* The first states: no request and no buffer in use.
LEMMA InitThreads ==
  ASSUME Init
  PROVE  Threads
<1>1. /\ superPartitions \in SuperPartitionCounts /\ superPartitions \in Nat \ {0}
      /\ (kind = "vertices" => superPartitions > 1) /\ (kind = "ingested" => superPartitions = 1)
      /\ batch = NULL /\ cycle = 0 /\ superp = 0 /\ i = 0 /\ buf = NULL /\ startPos = 0
      /\ request = NULL /\ requestSuperp = APPEND /\ cache = NULL
      /\ writeOp = FALSE /\ oneShot = FALSE /\ flushComplete = TRUE /\ eofFlag = FALSE
      /\ queue = 0 /\ io = "idle" /\ fatal = "no"
      /\ uptodate = [b \in Buffers |-> TRUE] /\ dirty = [b \in Buffers |-> FALSE]
      /\ refcount = [b \in Buffers |-> 0]
  BY Basics DEF Init
<1>2. kind \in {"updates", "edges", "vertices", "ingested"}
  BY KindsAssumption DEF Init
<1>3. pc = IF kind = "updates" THEN "fill" ELSE IF kind = "edges" THEN "rewind"
           ELSE IF kind = "vertices" THEN "load" ELSE "ingest"
  BY <1>2 DEF Init
<1>4. 0 \in Supers
  BY <1>1 DEF Supers
<1>5. Place
  BY <1>1, <1>2, <1>3, <1>4, Basics DEF Place, PcInv, Rewinds
<1>6. Fields
  <2>1. /\ uptodate \in [Buffers -> BOOLEAN] /\ dirty \in [Buffers -> BOOLEAN]
        /\ refcount \in [Buffers -> Int] /\ refcount[State] <= 0
    BY <1>1, Basics
  <2>2. /\ {cache, buf, batch} \subseteq Holders
        /\ request \in IF kind = "vertices" THEN {State, NULL} ELSE Holders
    BY <1>1 DEF Holders
  <2>3. /\ requestSuperp \in Supers \cup {APPEND}
        /\ {writeOp, oneShot, flushComplete, eofFlag} \subseteq BOOLEAN
        /\ queue \in 0..1 /\ io \in {"idle", "busy", "late"} /\ (io = "busy" => queue = 0)
        /\ startPos \in Nat /\ fatal = "no"
    <3>1. writeOp \in BOOLEAN /\ oneShot \in BOOLEAN /\ flushComplete \in BOOLEAN /\ eofFlag \in BOOLEAN
      BY <1>1
    <3>2. {writeOp, oneShot, flushComplete, eofFlag} \subseteq BOOLEAN
      BY <3>1, Zenon
    <3>3. queue \in 0..1 /\ io \in {"idle", "busy", "late"} /\ (io = "busy" => queue = 0) /\ startPos \in Nat
      BY <1>1
    <3>4. QED
      BY <1>1, <3>2, <3>3
  <2>4. QED
    BY <2>1, <2>2, <2>3 DEF Fields
<1>7. RequestInv
  BY <1>1, <1>3, Basics DEF RequestInv, Work
<1>8. HolderInv
  BY <1>1, <1>3 DEF HolderInv
<1>9. RefInv
  BY <1>1, <1>3, Basics DEF RefInv, One
<1>10. DirtyInv
  BY <1>1, <1>3, Basics DEF DirtyInv
<1>11. AppendInv
  BY <1>1, <1>3 DEF AppendInv, WritePcs
<1>12. QED
  BY <1>5, <1>6, <1>7, <1>8, <1>9, <1>10, <1>11 DEF Threads

\* A step that changes nothing.
LEMMA StutterKeeps ==
  ASSUME IInv, UNCHANGED vars
  PROVE  IInv'
<1>1. UNCHANGED <<pc, kind, superPartitions, batch, cycle, superp, i, buf, startPos, request, requestSuperp, cache, writeOp, oneShot, flushComplete, eofFlag, disk, queue, io, content, uptodate, dirty, refcount, sent, got, fatal>>
  BY DEF vars, mainVars, use, streamVars, bufferVars, histVars
<1>2. Place'
  BY <1>1 DEF IInv, Threads, Place, PcInv, Supers, Rewinds, Reading
<1>3. Fields'
  BY <1>1 DEF IInv, Threads, Fields, Holders, Supers
<1>4. RequestInv'
  BY <1>1 DEF IInv, Threads, RequestInv, Work, WritePcs
<1>5. HolderInv'
  BY <1>1 DEF IInv, Threads, HolderInv
<1>6. RefInv'
  BY <1>1 DEF IInv, Threads, RefInv
<1>7. DirtyInv'
  BY <1>1 DEF IInv, Threads, DirtyInv, DiskEmpty, Supers
<1>8. AppendInv'
  BY <1>1 DEF IInv, Threads, AppendInv, DiskEmpty, Supers, WritePcs
<1>9. ContentInv'
  BY <1>1 DEF IInv, Threads, ContentInv
<1>10. CASE kind = "vertices"
  <2>1. VertexInv'
    BY <1>1, <1>10, VerticesKept DEF IInv, Data, Work
  <2>2. QED
    BY <1>1, <1>2, <1>3, <1>4, <1>5, <1>6, <1>7, <1>8, <1>9, <1>10, <2>1 DEF IInv, Threads, Data
<1>11. CASE kind # "vertices"
  <2>1. PICK D : StreamData(D)
    BY <1>11 DEF IInv, Data
  <2>2. D \in [Supers -> Seq(Items)] /\ FileInv(D) /\ SentInv(D) /\ GotInv(D) /\ Place
    BY <2>1 DEF StreamData, IInv, Threads
  <2>3. (D \in [Supers -> Seq(Items)])' /\ Supers' = Supers
    BY <1>1, <2>2 DEF Supers
  <2>4. FileInv(D)'
    BY <1>1, <2>2, <2>3 DEF FileInv, Tail_, Writing, Work
  <2>5. SentInv(D)'
    <3>1. DiskEmpty' <=> DiskEmpty
      BY <1>1, EmptyKept
    <3>2. \A s \in Supers : ToWrite(s)' = ToWrite(s) /\ ToAppend(s)' = ToAppend(s)
      BY <1>1 DEF ToWrite, ToAppend
    <3>3. Cached' = Cached
      BY <1>1, <3>1 DEF Cached
    <3>4. \A s \in Supers : Unwritten(s)' = Unwritten(s)
      BY <3>2, <3>3 DEF Unwritten
    <3>5. QED
      BY <1>1, <2>2, <3>4, SentKept
  <2>6. GotInv(D)'
    <3>1. DiskEmpty' <=> DiskEmpty
      BY <1>1, EmptyKept
    <3>2. ToGet' = ToGet
      BY <1>1 DEF ToGet
    <3>3. QED
      BY <1>1, <2>2, <2>3, <3>1, <3>2 DEF GotInv
  <2>7. QED
    BY <1>1, <1>2, <1>3, <1>4, <1>5, <1>6, <1>7, <1>8, <1>9, <1>11, <2>3, <2>4, <2>5, <2>6
       DEF IInv, Threads, Data, StreamData
<1>12. QED
  BY <1>10, <1>11

\* Every step of one of the threads keeps the invariant.
LEMMA StepKeeps ==
  ASSUME IInv, Next, Main => ~Overtakes'
  PROVE  IInv'
<1>0. (Operation /\ ~Overtakes') \/ Service
  <2>1. Main => Operation
    BY DEF Main
  <2>2. QED
    BY <2>1 DEF Next, IOThread
<1>1. CASE Fill
  BY <1>1, FillThreads, FillData DEF IInv
<1>2. CASE AppendToCache
  BY <1>2, AppendToCacheThreads, AppendToCacheData DEF IInv
<1>3. CASE AppendSpill
  BY <1>3, AppendSpillThreads, AppendSpillData DEF IInv
<1>4. CASE AppendSpilled
  BY <1>4, AppendSpilledThreads, AppendSpilledData DEF IInv
<1>5. CASE AppendToDisk
  BY <1>5, AppendToDiskThreads, AppendToDiskData DEF IInv
<1>6. CASE EndFill
  BY <1>6, EndFillThreads, EndFillData DEF IInv
<1>7. CASE RewindCached
  BY <1>7, RewindCachedThreads, RewindCachedData DEF IInv
<1>8. CASE RewindDisk /\ ~Overtakes'
  BY <1>8, RewindDiskThreads, RewindDiskData DEF IInv
<1>9. CASE StartFlush /\ ~Overtakes'
  BY <1>9, StartFlushThreads, StartFlushData DEF IInv
<1>10. CASE RewindFile
  BY <1>10, RewindFileThreads, RewindFileData DEF IInv
<1>11. CASE Reset
  BY <1>11, ResetThreads, ResetData DEF IInv
<1>12. CASE ReadCached
  BY <1>12, ReadCachedThreads, ReadCachedData DEF IInv
<1>13. CASE ReadFirst
  BY <1>13, ReadFirstThreads, ReadFirstData DEF IInv
<1>14. CASE ReadAhead
  BY <1>14, ReadAheadThreads, ReadAheadData DEF IInv
<1>15. CASE ReadLast
  BY <1>15, ReadLastThreads, ReadLastData DEF IInv
<1>16. CASE Consume
  BY <1>16, ConsumeThreads, ConsumeData DEF IInv
<1>17. CASE ScanEnd
  BY <1>17, ScanEndThreads, ScanEndData DEF IInv
<1>18. CASE Ingest
  BY <1>18, IngestThreads, IngestData DEF IInv
<1>19. CASE IngestEof
  BY <1>19, IngestEofThreads, IngestEofData DEF IInv
<1>20. CASE MergeEmpty
  BY <1>20, MergeEmptyThreads, MergeEmptyData DEF IInv
<1>21. CASE MergeCached
  BY <1>21, MergeCachedThreads, MergeCachedData DEF IInv
<1>22. CASE MergeSpilled
  BY <1>22, MergeSpilledThreads, MergeSpilledData DEF IInv
<1>23. CASE MergeOnDisk
  BY <1>23, MergeOnDiskThreads, MergeOnDiskData DEF IInv
<1>24. CASE Merged
  BY <1>24, MergedThreads, MergedData DEF IInv
<1>25. CASE Load /\ ~Overtakes'
  BY <1>25, LoadThreads, LoadVertices DEF IInv
<1>26. CASE Prepare
  BY <1>26, PrepareThreads, PrepareVertices DEF IInv
<1>27. CASE Compute
  BY <1>27, ComputeThreads, ComputeVertices DEF IInv
<1>28. CASE Store /\ ~Overtakes'
  BY <1>28, StoreThreads, StoreVertices DEF IInv
<1>29. CASE Stored
  BY <1>29, StoredThreads, StoredVertices DEF IInv
<1>30. CASE Take
  BY <1>30, TakeThreads, TakeData DEF IInv
<1>31. CASE DoRead
  BY <1>31, DoReadThreads, DoReadData DEF IInv
<1>32. CASE DoReadOneShot
  BY <1>32, DoReadOneShotThreads, DoReadOneShotVertices DEF IInv
<1>33. CASE DoWrite
  BY <1>33, DoWriteThreads, DoWriteData DEF IInv
<1>34. CASE DoWriteOneShot
  BY <1>34, DoWriteOneShotThreads, DoWriteOneShotVertices DEF IInv
<1>35. CASE FinishWrite
  BY <1>35, FinishWriteThreads, FinishWriteData DEF IInv
<1>36. CASE DoFlush
  BY <1>36, DoFlushThreads, DoFlushData DEF IInv
<1>37. QED
  BY <1>0, <1>1, <1>2, <1>3, <1>4, <1>5, <1>6, <1>7, <1>8, <1>9, <1>10, <1>11, <1>12, <1>13, <1>14,
     <1>15, <1>16, <1>17, <1>18, <1>19, <1>20, <1>21, <1>22, <1>23, <1>24, <1>25, <1>26, <1>27,
     <1>28, <1>29, <1>30, <1>31, <1>32, <1>33, <1>34, <1>35, <1>36
  DEF Operation, Service

\* The inductive invariant holds in every reachable state: of whatever the main
\* thread does between disk_stream's calls and the I/O thread does with its
\* requests, for every use of a stream and any number of super partitions,
\* buffers and items, until the main thread asks for a flush or a one-shot request
\* between the stores with which the I/O thread announces the end of a write.
THEOREM Inductive ==
  Spec => [](~overtaken => IInv)
<1>1. Init => (~overtaken => IInv)
  BY InitThreads, InitData DEF IInv
<1>2. (~overtaken => IInv) /\ [Next]_vars => (~overtaken => IInv)'
  <2> SUFFICES ASSUME ~overtaken => IInv, [Next]_vars, ~overtaken'
               PROVE  IInv'
    OBVIOUS
  <2>1. CASE Next
    <3>1. IInv /\ (Main => ~Overtakes')
      BY <2>1 DEF Next, Main, IOThread
    <3>2. QED
      BY <2>1, <3>1, StepKeeps
  <2>2. CASE UNCHANGED vars
    BY <2>2, StutterKeeps DEF vars
  <2>3. QED
    BY <2>1, <2>2
<1>3. QED
  BY <1>1, <1>2, PTL DEF Spec

-----------------------------------------------------------------------------
(* What it implies *)

\* What is in front of a sequence.
LEMMA FrontOf ==
  ASSUME NEW s \in Seq(Items), NEW t \in Seq(Items), NEW x, x = Join(s, t)
  PROVE  /\ IsPrefix(s, x)
         /\ IsInjective(x) => IsInjective(s)
         /\ ToSet(s) \subseteq ToSet(x)
<1>1. PICK m \in Nat, n \in Nat : m = Len(s) /\ n = Len(t)
  OBVIOUS
<1>2. x \in Seq(Items) /\ Len(x) = m + n
  BY <1>1, Joins
<1>3. \A k \in 1..m : k \in 1..m + n /\ x[k] = s[k]
  <2> SUFFICES ASSUME NEW k \in 1..m PROVE k \in 1..m + n /\ x[k] = s[k]
    OBVIOUS
  <2>1. k \in 1..m + n /\ k \in 1..Len(s) + Len(t) /\ k <= Len(s)
    BY <1>1
  <2>2. QED
    BY <2>1, JoinItems
<1>4. IsPrefix(s, x)
  <2>1. Len(s) <= Len(x)
    BY <1>1, <1>2
  <2>2. SubSeq(s, 1, Len(s)) = s
    BY SubSeqFull
  <2>3. SubSeq(x, 0 + 1, m) \in Seq(Items) /\ Len(SubSeq(x, 0 + 1, m)) = m - 0
        /\ \A k \in 1..m - 0 : SubSeq(x, 0 + 1, m)[k] = x[0 + k]
    <3>1. m <= Len(x)
      BY <1>1, <1>2
    <3>2. QED
      BY <1>2, <3>1, SubSeqIs
  <2>4. PICK f : f = SubSeq(x, 1, m)
    OBVIOUS
  <2>5. f \in Seq(Items) /\ Len(f) = m /\ \A k \in 1..m : f[k] = x[k]
    BY <2>3, <2>4
  <2>6. f = s
    <3>1. Len(f) = Len(s) /\ \A k \in 1..Len(f) : f[k] = s[k]
      BY <1>1, <1>3, <2>5
    <3>2. QED
      BY <2>5, <3>1, SeqEqual
  <2>7. QED
    BY <1>1, <2>1, <2>2, <2>4, <2>6 DEF IsPrefix
<1>5. DOMAIN s = 1..m /\ DOMAIN x = 1..m + n
  BY <1>1, <1>2
<1>6. IsInjective(x) => IsInjective(s)
  BY <1>3, <1>5 DEF IsInjective
<1>7. ToSet(s) \subseteq ToSet(x)
  BY <1>3, <1>5 DEF ToSet
<1>8. QED
  BY <1>4, <1>6, <1>7

\* What a scan has got of a super partition is in front of what was given to the
\* stream for it, as it lies in the files and buffers, and at its end is all of it.
LEMMA GotIsFront ==
  ASSUME IInv, NEW D, StreamData(D), kind # "vertices", NEW s \in Supers
  PROVE  \E rest \in Seq(Items) :
            /\ Join(D[s], Unwritten(s)) = Join(got[s], rest)
            /\ s = superp /\ pc \in {"scan", "reset"} /\ StreamEof => rest = <<>>
<1>1. Threads /\ ContentInv /\ FileInv(D) /\ SentInv(D) /\ GotInv(D) /\ D \in [Supers -> Seq(Items)]
  BY DEF IInv, StreamData
<1>2. PICK file, given, last :
        /\ file = D[s] /\ given = got[s] /\ last = Unwritten(s)
        /\ file \in Seq(Items) /\ given \in Seq(Items) /\ last \in Seq(Items)
  <2>1. Unwritten(s) \in Seq(Items)
    BY <1>1, UnwrittenIn, Joins DEF Unwritten, Threads, ContentInv
  <2>2. QED
    BY <1>1, <2>1 DEF GotInv
<1>3. <<>> \in Seq(Items) /\ Join(file, last) \in Seq(Items) /\ Join(<<>>, Join(file, last)) = Join(file, last)
  <2>1. Join(file, last) \in Seq(Items)
    BY <1>2, Joins
  <2>2. QED
    BY <2>1, Joins
<1>4. CASE ~(pc \in ScanPcs /\ s = superp)
  <2>1. given = <<>>
    BY <1>1, <1>2, <1>4 DEF GotInv
  <2>2. ~(s = superp /\ pc \in {"scan", "reset"})
    BY <1>4 DEF ScanPcs
  <2>3. QED
    BY <1>2, <1>3, <2>1, <2>2
<1>5. CASE pc \in ScanPcs /\ s = superp /\ cache = NULL
  <2>1. Join(given, ToGet) = SubSeq(file, 1, disk[s].pos)
    BY <1>1, <1>2, <1>5 DEF GotInv
  <2>2. PICK p \in Nat, n \in Nat : p = disk[s].pos /\ n = Len(file) /\ p <= n /\ disk[s].bytes = n
    <3>1. disk[s] \in Disks /\ disk[s].pos <= disk[s].bytes /\ disk[s].bytes = Len(file)
      BY <1>1, <1>2 DEF FileInv
    <3>2. QED
      BY <1>2, <3>1 DEF Disks
  <2>3. PICK next, tail : next = ToGet /\ tail = SubSeq(file, p + 1, n) /\ next \in Seq(Items) /\ tail \in Seq(Items)
    <3>1. ToGet \in Seq(Items)
      BY <1>1, ToGetIn DEF Threads, ContentInv
    <3>2. SubSeq(file, p + 1, n) \in Seq(Items)
      BY <1>2, <2>2, SubSeqIs
    <3>3. QED
      BY <3>1, <3>2
  <2>4. Join(Join(given, next), tail) = file
    <3>1. PICK e \in Nat \ {0} : e = p + 1 /\ 1 <= e /\ 1 \in Nat \ {0}
      BY <2>2
    <3>2. SubSeq(file, 1, p) \o SubSeq(file, e, n) = SubSeq(file, 1, n)
      <4>1. e = p + 1 /\ p <= n /\ n <= Len(file)
        BY <2>2, <3>1
      <4>2. QED
        BY <1>2, <3>1, <4>1, Adjacent
    <3>3. SubSeq(file, 1, n) = file
      BY <1>2, <2>2, SubSeqFull
    <3>4. QED
      BY <2>1, <2>2, <2>3, <3>1, <3>2, <3>3 DEF Join
  <2>5. Join(file, last) = Join(given, Join(next, Join(tail, last)))
    <3>1. PICK front : front = Join(given, next) /\ front \in Seq(Items) /\ Join(tail, last) \in Seq(Items)
      BY <1>2, <2>3, Joins
    <3>2. Join(Join(front, tail), last) = Join(front, Join(tail, last))
      <4>1. front \in Seq(Items) /\ tail \in Seq(Items) /\ last \in Seq(Items)
        BY <1>2, <2>3, <3>1
      <4>2. QED
        BY <4>1, JoinAssociative
    <3>3. Join(Join(given, next), Join(tail, last)) = Join(given, Join(next, Join(tail, last)))
      BY <1>2, <2>3, <3>1, JoinAssociative
    <3>4. QED
      BY <2>4, <3>1, <3>2, <3>3
  <2>6. Join(next, Join(tail, last)) \in Seq(Items)
    <3>1. Join(tail, last) \in Seq(Items)
      BY <1>2, <2>3, Joins
    <3>2. QED
      BY <2>3, <3>1, Joins
  <2>7. ASSUME pc \in {"scan", "reset"}, StreamEof
        PROVE  Join(next, Join(tail, last)) = <<>>
    <3>1. p = n /\ ~(request # NULL /\ requestSuperp = superp)
      BY <1>5, <2>2, <2>7 DEF StreamEof, Eof
    <3>2. request = NULL
      BY <1>1, <2>7, <3>1 DEF Threads, RequestInv, WritePcs
    <3>3. next = <<>>
      BY <1>3, <2>3, <2>7, <3>2, Joins DEF ToGet
    <3>4. tail = <<>>
      <4>1. Len(tail) = n - p
        <5>1. file \in Seq(Items) /\ p \in Nat /\ n \in Nat /\ p <= n /\ n <= Len(file)
          BY <1>2, <2>2
        <5>2. Len(SubSeq(file, p + 1, n)) = n - p
          BY <5>1, SubSeqIs
        <5>3. QED
          BY <2>3, <5>2
      <4>2. Len(tail) = 0
        <5>1. n - p = 0
          BY <2>2, <3>1
        <5>2. QED
          BY <4>1, <5>1
      <4>3. QED
        BY <2>3, <4>2, EmptySeq
    <3>5. last = <<>>
      <4>1. ToWrite(s) = <<>> /\ Cached = <<>> /\ ToAppend(s) = <<>>
        BY <1>5, <2>7, <3>2 DEF ToWrite, Cached, ToAppend
      <4>2. QED
        BY <1>2, <1>3, <4>1, Joins DEF Unwritten
    <3>6. QED
      BY <1>3, <3>3, <3>4, <3>5, Joins
  <2>8. QED
    BY <1>2, <2>5, <2>6, <2>7
<1>6. CASE pc \in ScanPcs /\ s = superp /\ cache # NULL
  <2>1. given = IF eofFlag /\ pc # "consume" THEN content[cache] ELSE <<>>
    BY <1>1, <1>2, <1>6 DEF GotInv
  <2>2. superPartitions = 1 /\ request = NULL /\ s = 0 /\ 0 \in Supers /\ cache \in Buffers
    <3>1. superPartitions = 1 /\ request = NULL /\ cache \in Buffers
      BY <1>1, <1>6, Basics DEF Threads, HolderInv, ScanPcs, Fields, Holders
    <3>2. QED
      BY <1>1, <3>1, FirstSuper DEF Threads
  <2>3. PICK cached : cached = content[cache] /\ cached \in Seq(Items)
    BY <1>1, <2>2 DEF ContentInv
  <2>4. Join(file, last) = cached
    <3>1. ToWrite(s) = <<>> /\ ToAppend(s) = <<>>
      BY <1>6, <2>2 DEF ToWrite, ToAppend, ScanPcs
    <3>2. CASE DiskEmpty
      <4>1. Cached = cached
        BY <1>6, <2>2, <2>3, <3>2 DEF Cached
      <4>2. last = cached
        <5>1. Join(cached, <<>>) = cached /\ Join(<<>>, cached) = cached
          BY <2>3, Joins
        <5>2. QED
          BY <1>2, <3>1, <4>1, <5>1 DEF Unwritten
      <4>3. file = <<>>
        <5>1. disk[s].bytes = 0 /\ disk[s].bytes = Len(file)
          BY <1>1, <1>2, <3>2 DEF FileInv, DiskEmpty
        <5>2. Len(file) = 0
          BY <5>1
        <5>3. QED
          BY <1>2, <5>2, EmptySeq
      <4>4. QED
        BY <2>3, <4>2, <4>3, Joins
    <3>3. CASE ~DiskEmpty
      <4>1. Cached = <<>>
        BY <3>3 DEF Cached
      <4>2. last = <<>>
        BY <1>2, <1>3, <3>1, <4>1, Joins DEF Unwritten
      <4>3. file = cached
        BY <1>1, <1>2, <1>6, <2>2, <2>3, <3>3 DEF GotInv, ScanPcs
      <4>4. QED
        BY <1>2, <4>2, <4>3, Joins
    <3>4. QED
      BY <3>2, <3>3
  <2>5. CASE given = cached
    <3>1. Join(file, last) = Join(given, <<>>)
      BY <1>2, <2>4, <2>5, Joins
    <3>2. QED
      BY <1>2, <1>3, <3>1
  <2>6. CASE given # cached
    <3>1. given = <<>> /\ ~(eofFlag /\ pc # "consume")
      BY <2>1, <2>3, <2>6
    <3>2. ~(pc \in {"scan", "reset"} /\ StreamEof)
      BY <1>6, <3>1 DEF StreamEof
    <3>3. QED
      BY <1>2, <1>3, <3>1, <3>2
  <2>7. QED
    BY <2>5, <2>6
<1>7. QED
  BY <1>4, <1>5, <1>6

\* The invariant says where everything that was appended is; so a scan gets it.
LEMMA InvariantDelivers ==
  ASSUME IInv
  PROVE  Delivered
<1>1. Threads
  BY DEF IInv
<1>2. superp \in Supers /\ (kind = "ingested" => superp = 0 /\ 0 \in Supers)
  BY <1>1, FirstSuper DEF Threads, Place
<1>3. CASE kind = "vertices"
  <2>1. pc \notin {"scan", "reset"}
    BY <1>1, <1>3 DEF Threads, Place, PcInv, Rewinds
  <2>2. ASSUME NEW s \in Supers PROVE IsPrefix(got[s], sent[s])
    <3>1. got[s] = <<>> /\ sent[s] \in Seq(Items)
      BY <1>3 DEF IInv, Data, VertexInv
    <3>2. <<>> \in Seq(Items) /\ sent[s] = Join(<<>>, sent[s])
      BY <3>1, Joins
    <3>3. IsPrefix(<<>>, sent[s])
      BY <3>1, <3>2, FrontOf
    <3>4. QED
      BY <3>1, <3>3
  <2>3. QED
    BY <1>3, <2>1, <2>2 DEF Delivered
<1>4. CASE kind # "vertices"
  <2>1. PICK D : StreamData(D)
    BY <1>4 DEF IInv, Data
  <2>2. got \in [Supers -> Seq(Items)] /\ SentInv(D)
    BY <2>1 DEF StreamData, GotInv
  <2>3. CASE kind # "ingested"
    <3>1. ASSUME NEW s \in Supers
          PROVE  /\ IsPrefix(got[s], sent[s])
                 /\ s = superp /\ pc \in {"scan", "reset"} /\ StreamEof => got[s] = sent[s]
      <4>1. PICK rest \in Seq(Items) :
               /\ Join(D[s], Unwritten(s)) = Join(got[s], rest)
               /\ s = superp /\ pc \in {"scan", "reset"} /\ StreamEof => rest = <<>>
        BY <1>4, <2>1, GotIsFront
      <4>2. sent[s] = Join(got[s], rest) /\ got[s] \in Seq(Items)
        BY <2>2, <2>3, <4>1 DEF SentInv
      <4>3. IsPrefix(got[s], sent[s])
        BY <4>2, FrontOf
      <4>4. rest = <<>> => got[s] = sent[s]
        BY <4>2, Joins
      <4>5. QED
        BY <4>1, <4>3, <4>4
    <3>2. QED
      BY <1>2, <2>3, <3>1 DEF Delivered
  <2>4. CASE kind = "ingested"
    <3>1. PICK rest \in Seq(Items) :
             /\ Join(D[0], Unwritten(0)) = Join(got[0], rest)
             /\ pc \in {"scan", "reset"} /\ StreamEof => rest = <<>>
      BY <1>2, <1>4, <2>1, <2>4, GotIsFront
    <3>2. PICK all, given : all = Join(D[0], Unwritten(0)) /\ given = got[0] /\ all = Join(given, rest)
      BY <3>1
    <3>3. given \in Seq(Items) /\ IsInjective(all) /\ ToSet(all) = ToSet(sent[0])
      BY <1>2, <2>2, <2>4, <3>2 DEF SentInv
    <3>4. IsInjective(given) /\ ToSet(given) \subseteq ToSet(all)
      BY <3>2, <3>3, FrontOf
    <3>5. rest = <<>> => given = all
      BY <3>2, <3>3, Joins
    <3>6. /\ IsInjective(got[0]) /\ ToSet(got[0]) \subseteq ToSet(sent[0])
          /\ pc \in {"scan", "reset"} /\ StreamEof => ToSet(got[0]) = ToSet(sent[0])
      BY <3>1, <3>2, <3>3, <3>4, <3>5
    <3>7. QED
      BY <2>4, <3>6 DEF Delivered
  <2>5. QED
    BY <2>3, <2>4
<1>5. QED
  BY <1>3, <1>4

\* What a scan gets of a super partition is, in order, the first of what was
\* appended for it (ingest: nothing twice), and all of it when the scan ends,
\* whether append kept it in a cached buffer, the I/O thread wrote it to the
\* files page by page, or next_chunk kept the last part in memory.
THEOREM ScansDeliver ==
  Spec => []Delivered
<1>1. (~overtaken => IInv) => Delivered
  BY InvariantDelivers DEF Delivered
<1>2. QED
  BY <1>1, Inductive, PTL

\* Two buffers, and one for a batch, are enough.
LEMMA BuffersSuffice ==
  ASSUME IInv, NumBuffers >= 2
  PROVE  NeverOutOfBuffers
<1>1. Threads /\ NumBuffers \in Nat
  BY Basics DEF IInv
<1>2. SUFFICES ASSUME \/ pc = "fill"
                      \/ pc = "scan" /\ cache = NULL /\ request = NULL
                      \/ pc = "ingest"
                      \/ pc = "reading" /\ uptodate[request]
               PROVE  FreeBuffers # {}
  BY DEF NeverOutOfBuffers, At
<1>3. pc \notin {"append", "spill", "consume", "spillBatch"}
  BY <1>2
<1>4. cache = NULL \/ request = NULL
  BY <1>1, <1>3 DEF Threads, HolderInv
<1>5. PICK held : {request, cache} \subseteq {held, NULL}
  BY <1>4
<1>6. \A b \in Pool : b # held /\ b # batch => refcount[b] = 0
  <2> SUFFICES ASSUME NEW b \in Pool, b # held, b # batch PROVE refcount[b] = 0
    OBVIOUS
  <2>1. b \notin {request, cache} /\ b # NULL
    BY <1>5, Basics
  <2>2. refcount[b] = One(b \in {request, cache})
                      + One(b = buf /\ pc \in {"append", "spill", "consume"}) + One(b = batch)
    BY <1>1 DEF Threads, RefInv
  <2>3. QED
    BY <1>3, <2>1, <2>2 DEF One
<1>7. CASE kind = "ingested"
  <2>1. 1 \in Pool /\ 2 \in Pool /\ 3 \in Pool
    BY <1>1 DEF Pool
  <2>2. PICK b \in {1, 2, 3} : b # held /\ b # batch
    OBVIOUS
  <2>3. b \in FreeBuffers
    BY <1>6, <1>7, <2>1, <2>2 DEF FreeBuffers
  <2>4. QED
    BY <2>3
<1>8. CASE kind # "ingested"
  <2>1. 1 \in Pool /\ 2 \in Pool /\ 1 <= NumBuffers /\ 2 <= NumBuffers
    BY <1>1 DEF Pool
  <2>2. batch = NULL
    BY <1>1, <1>8 DEF Threads, HolderInv
  <2>3. PICK b \in {1, 2} : b # held
    OBVIOUS
  <2>4. b \in FreeBuffers
    BY <1>6, <2>1, <2>2, <2>3, Basics DEF FreeBuffers
  <2>5. QED
    BY <2>4
<1>9. QED
  BY <1>7, <1>8

\* The invariant has the types of all the variables.
LEMMA InvariantTypes ==
  ASSUME IInv
  PROVE  TypeOK
<1>1. Threads /\ ContentInv
  BY DEF IInv
<1>2. /\ cycle \in 0..Cycles + 1 /\ superp \in Supers /\ i \in Supers /\ queue \in 0..2
      /\ io \in {"idle", "busy", "late"} /\ requestSuperp \in Supers \cup {APPEND}
  BY <1>1 DEF Threads, Place, Fields
<1>3. {request, cache, buf, batch} \subseteq Buffers \cup {NULL}
  BY <1>1, Basics DEF Threads, Fields, Holders
<1>4. \A b \in Buffers : content[b] \in Seq(Items) /\ Len(content[b]) <= BufferSize
  BY <1>1 DEF ContentInv
<1>5. ASSUME NEW s \in Supers
      PROVE  /\ Len(disk[s].page) = PageSize
             /\ disk[s].pos \in 0..disk[s].bytes
             /\ sent[s] \in Seq(Items)
  <2>1. /\ disk[s].pos \in Nat /\ disk[s].bytes \in Nat /\ disk[s].page \in [1..PageSize -> Cells]
        /\ disk[s].pos <= disk[s].bytes /\ sent[s] \in Seq(Items)
    BY Types
  <2>2. Len(disk[s].page) = PageSize
    BY <2>1, SequenceOf, Basics
  <2>3. QED
    BY <2>1, <2>2
<1>6. ASSUME NEW s \in Supers
      PROVE  Len(sent[s]) <= MaxItems
  <2>1. CASE kind = "vertices"
    <3>1. sent[s] = <<>> \/ \E c \in 0..Cycles : sent[s] = << <<s, c, 1>> >>
      BY <2>1 DEF IInv, Data, VertexInv
    <3>2. CASE sent[s] = <<>>
      BY <3>2, Basics
    <3>3. CASE sent[s] # <<>>
      <4>1. PICK item : sent[s] = <<item>>
        BY <3>1, <3>3
      <4>2. Len(<<item>>) = 1
        OBVIOUS
      <4>3. QED
        BY <4>1, <4>2, Basics
    <3>4. QED
      BY <3>2, <3>3
  <2>2. CASE kind # "vertices"
    BY <2>2 DEF IInv, Data, StreamData, SentInv
  <2>3. QED
    BY <2>1, <2>2
<1>7. pc \in {"scan", "reading"} /\ request # NULL => requestSuperp = superp
  <2>1. pc \in {"scan", "reading"} => kind # "vertices"
    BY <1>1 DEF Threads, Place, PcInv, Rewinds
  <2>2. QED
    BY <1>1, <2>1 DEF Threads, RequestInv, WritePcs
<1>8. QED
  BY <1>2, <1>3, <1>4, <1>5, <1>6, <1>7 DEF TypeOK

\* The invariant implies what is checked of the stream.
LEMMA InvariantOfStream ==
  ASSUME IInv, NumBuffers >= 2
  PROVE  StreamInv
<1>1. Threads
  BY DEF IInv
<1>2. StateLoaded
  <2>1. pc = "work" => kind = "vertices"
    BY <1>1 DEF Threads, Place, PcInv, Rewinds, Reading
  <2>2. kind = "vertices" /\ pc = "work" => ~Work
    BY <1>1 DEF Threads, RequestInv
  <2>3. kind = "vertices" => VertexInv
    BY DEF IInv, Data
  <2>4. QED
    BY <2>1, <2>2, <2>3 DEF StateLoaded, VertexInv
<1>3. QueuedOnce
  <2>1. queue \in 0..1 /\ (io = "busy" => queue = 0)
    BY <1>1 DEF Threads, Fields
  <2>2. QED
    BY <2>1 DEF QueuedOnce
<1>4. NoAssertionFails
  BY <1>1 DEF Threads, Fields, NoAssertionFails
<1>5. QED
  BY <1>2, <1>3, <1>4, InvariantTypes, BuffersSuffice DEF StreamInv

\* With at least two buffers get_buffer never waits in vain, no assertion of the
\* stream and the buffer manager fails, the I/O thread has one request at most,
\* and a superstep finds the vertices in memory that were stored before, until the
\* main thread overtakes the I/O thread.
THEOREM StreamIsSafe ==
  ASSUME NumBuffers >= 2
  PROVE  Spec => [](~overtaken => StreamInv)
<1>1. (~overtaken => IInv) => (~overtaken => StreamInv)
  BY InvariantOfStream
<1>2. QED
  BY <1>1, Inductive, PTL

\* While the I/O thread works on a buffer the main thread neither changes it nor
\* makes another request.
LEMMA MainLeavesBuffer ==
  ASSUME IInv, Operation, NEW b \in Pool, ~uptodate[b]
  PROVE  /\ request' = request /\ kind' = kind /\ flushComplete' = flushComplete
         /\ content'[b] = content[b] /\ dirty'[b] = dirty[b]
<1>1. Threads /\ content \in [Buffers -> Seq(Items)] /\ dirty \in [Buffers -> BOOLEAN] /\ b \in Buffers /\ b # State
      /\ b # NULL
  BY Basics DEF IInv, ContentInv, Threads, Fields
<1>2. Work /\ b = request /\ request # NULL
  BY <1>1 DEF Threads, RequestInv
<1>3. kind # "vertices" /\ request \in Pool
  BY <1>1, <1>2 DEF Threads, Fields
<1>4. pc \notin {"flush", "merge", "reset", "flushing", "load", "store"} /\ ~RequestDone
  BY <1>1, <1>2, <1>3 DEF Threads, RequestInv, RequestDone, Place, PcInv, Rewinds, Reading
<1>5. batch # b /\ (FreeBuffers # {} => Min(FreeBuffers) # b)
  BY <1>1, <1>2, FreeBuffer DEF Threads, HolderInv
<1>6. CASE Fill
  BY <1>1, <1>2, <1>3, <1>4, <1>5, <1>6 DEF Fill, At, Supers, use, streamVars
<1>7. CASE AppendToCache
  BY <1>1, <1>2, <1>3, <1>4, <1>5, <1>7 DEF AppendToCache, At, InMemory, AfterAppend, mainVars,
     bufferVars, histVars, use
<1>8. CASE AppendSpill
  BY <1>1, <1>2, <1>3, <1>4, <1>5, <1>8 DEF AppendSpill, At, InMemory, Submit, mainVars,
     histVars, AddWork, use
<1>9. CASE AppendSpilled
  BY <1>1, <1>2, <1>3, <1>4, <1>5, <1>9 DEF AppendSpilled, At, Submit, AfterAppend, mainVars,
     histVars, AddWork, use
<1>10. CASE AppendToDisk
  BY <1>1, <1>2, <1>3, <1>4, <1>5, <1>10 DEF AppendToDisk, At, InMemory, Submit, AfterAppend,
     mainVars, histVars, AddWork, use
<1>11. CASE EndFill
  BY <1>1, <1>2, <1>3, <1>4, <1>5, <1>11 DEF EndFill, At, mainVars, streamVars, bufferVars,
     histVars, use
<1>12. CASE RewindCached
  BY <1>1, <1>2, <1>3, <1>4, <1>5, <1>12 DEF RewindCached, At, AfterRewind, use, bufferVars,
     histVars
<1>13. CASE RewindDisk
  BY <1>1, <1>2, <1>3, <1>4, <1>5, <1>13 DEF RewindDisk, At, use, histVars
<1>14. CASE StartFlush
  BY <1>1, <1>2, <1>3, <1>4, <1>5, <1>14 DEF StartFlush, At, NeedsFlush, AddWork, mainVars,
     bufferVars, histVars, use
<1>15. CASE RewindFile
  BY <1>1, <1>2, <1>3, <1>4, <1>5, <1>15 DEF RewindFile, At, NeedsFlush, AfterRewind, use,
     bufferVars, histVars
<1>16. CASE Reset
  BY <1>1, <1>2, <1>3, <1>4, <1>5, <1>16 DEF Reset, At, Advance, use
<1>17. CASE ReadCached
  BY <1>1, <1>2, <1>3, <1>4, <1>5, <1>17 DEF ReadCached, At, use, histVars
<1>18. CASE ReadFirst
  BY <1>1, <1>2, <1>3, <1>4, <1>5, <1>18 DEF ReadFirst, At, Submit, use, histVars, AddWork
<1>19. CASE ReadAhead
  BY <1>1, <1>2, <1>3, <1>4, <1>5, <1>19 DEF ReadAhead, At, Submit, use, histVars, AddWork
<1>20. CASE ReadLast
  BY <1>1, <1>2, <1>3, <1>4, <1>5, <1>20 DEF ReadLast, At, use, histVars
<1>21. CASE Consume
  BY <1>1, <1>2, <1>3, <1>4, <1>5, <1>21 DEF Consume, At, use, streamVars
<1>22. CASE ScanEnd
  BY <1>1, <1>2, <1>3, <1>4, <1>5, <1>22 DEF ScanEnd, At, Advance, use, streamVars, bufferVars
<1>23. CASE Ingest
  BY <1>1, <1>2, <1>3, <1>4, <1>5, <1>23 DEF Ingest, At, streamVars, histVars
<1>24. CASE IngestEof
  BY <1>1, <1>2, <1>3, <1>4, <1>5, <1>24 DEF IngestEof, At, mainVars, streamVars, bufferVars,
     histVars, use
<1>25. CASE MergeEmpty
  BY <1>1, <1>2, <1>3, <1>4, <1>5, <1>25 DEF MergeEmpty, Merging, Sent, AppendBatch, At
<1>26. CASE MergeCached
  BY <1>1, <1>2, <1>3, <1>4, <1>5, <1>26 DEF MergeCached, Merging, Submit, Sent, At, AddWork
<1>27. CASE MergeSpilled
  BY <1>1, <1>2, <1>3, <1>4, <1>5, <1>27 DEF MergeSpilled, At, AppendBatch, histVars
<1>28. CASE MergeOnDisk
  BY <1>1, <1>2, <1>3, <1>4, <1>5, <1>28 DEF MergeOnDisk, Merging, Sent, AppendBatch, At
<1>29. CASE Merged
  BY <1>1, <1>2, <1>3, <1>4, <1>5, <1>29 DEF Merged, At, mainVars, streamVars, bufferVars,
     histVars, use
<1>30. CASE Load
  BY <1>1, <1>2, <1>3, <1>4, <1>5, <1>30 DEF Load, At, State, OneShot, mainVars, histVars,
     Submit, use, AddWork
<1>31. CASE Prepare
  BY <1>1, <1>2, <1>3, <1>4, <1>5, <1>31 DEF Prepare, At, State, mainVars, streamVars,
     bufferVars, histVars, use
<1>32. CASE Compute
  BY <1>1, <1>2, <1>3, <1>4, <1>5, <1>32 DEF Compute, At, State, mainVars, streamVars, histVars,
     use
<1>33. CASE Store
  BY <1>1, <1>2, <1>3, <1>4, <1>5, <1>33 DEF Store, At, State, OneShot, mainVars, Submit, use,
     AddWork
<1>34. CASE Stored
  BY <1>1, <1>2, <1>3, <1>4, <1>5, <1>34 DEF Stored, At, State, Advance, use, streamVars,
     bufferVars, histVars
<1>35. QED
  BY <1>6, <1>7, <1>8, <1>9, <1>10, <1>11, <1>12, <1>13, <1>14, <1>15, <1>16, <1>17, <1>18,
     <1>19, <1>20, <1>21, <1>22, <1>23, <1>24, <1>25, <1>26, <1>27, <1>28, <1>29, <1>30, <1>31,
     <1>32, <1>33, <1>34 DEF
     Operation

\* A buffer that the I/O thread is to fill or to write (uptodate is false) keeps
\* its reference, and the main thread neither changes what is in it nor marks it;
\* that includes the step with which the main thread overtakes the I/O thread.
THEOREM BusyBuffersStay ==
  Spec => [][~overtaken => BusyHeld]_vars
<1>1. ASSUME IInv, Next, NEW b \in Pool, ~uptodate[b]
      PROVE  /\ refcount'[b] > 0
             /\ (Main => content'[b] = content[b] /\ dirty'[b] = dirty[b])
  <2>1. b = request /\ b \in Buffers /\ b # NULL /\ Work
    BY <1>1, Basics DEF IInv, Threads, RequestInv
  <2>2. Main => /\ request' = request /\ kind' = kind /\ flushComplete' = flushComplete
                /\ content'[b] = content[b] /\ dirty'[b] = dirty[b]
    BY <1>1, MainLeavesBuffer DEF Main
  <2>3. Main => ~Overtakes'
    <3>1. kind # "vertices" /\ flushComplete
      BY <1>1, <2>1, Basics DEF IInv, Threads, Fields, RequestInv
    <3>2. QED
      BY <2>2, <3>1 DEF Overtakes
  <2>4. request' = request
    <3>1. CASE Service
      BY <3>1 DEF Service, Take, DoRead, DoReadOneShot, DoWrite, DoWriteOneShot, FinishWrite,
         DoFlush, streamVars
    <3>2. QED
      BY <1>1, <2>2, <3>1 DEF Next, IOThread
  <2>5. IInv'
    BY <1>1, <2>3, StepKeeps
  <2>6. refcount'[b] > 0
    <3>1. refcount'[b] = One(b \in {request', cache'})
                         + One(b = buf' /\ pc' \in {"append", "spill", "consume"}) + One(b = batch')
      BY <2>5 DEF IInv, Threads, RefInv
    <3>2. One(b \in {request', cache'}) = 1
      BY <2>1, <2>4 DEF One
    <3>3. QED
      BY <3>1, <3>2 DEF One
  <2>7. QED
    BY <2>2, <2>6
<1>2. ASSUME ~overtaken => IInv, [Next]_vars
      PROVE  [~overtaken => BusyHeld]_vars
  BY <1>1, <1>2 DEF BusyHeld
<1>3. QED
  BY <1>2, Inductive, PTL DEF Spec
=============================================================================
