---------------------------- MODULE LoggerProofs ----------------------------
(***************************************************************************)
(* Proofs about module Logger, for any size of the ring and of the entries, *)
(* any number of readers and any contents.                                  *)
(***************************************************************************)
EXTENDS Logger, WellFoundedInduction, TLAPS

(* The setting of the theorems about whole entries and about wake-ups: the  *)
(* offset that a failed write goes back to is read before the mutex is      *)
(* taken, so a second writer may have moved on from it.                     *)
OneWriter == \A v, w \in Writers : v = w

\* Every byte of the ring belongs to an entry that has been begun.
BytesInv ==
    /\ Len(lens) <= MaxEntries
    /\ \A i \in Offsets : buffer[i][1] <= Len(lens)

\* The state of the file of a reader that is inside read().
FilesInv == \A r \in Readers : reading[r] # "idle" => r \in open

\* With one writer a failed write goes back to where the write began.
OrigInv == OneWriter => \A w \in Writers : writing[w] = "lock" => orig[w] = w_off

\* The inductive invariant.
LoggerInv ==
    /\ LoggerTypeOK
    /\ BytesInv
    /\ FilesInv
    /\ OrigInv
    /\ OneWriter => NoSleepOnEntries

(* What the ring holds, with one writer: the offsets d bytes back from      *)
(* w_off, for d in D, start whole entries that follow each other up to      *)
(* w_off, and the start head and the readers stand on such offsets.         *)
Dist(c) == logger_offset(w_off - c)

EntryBack(d, e) ==
    /\ e \in whole /\ lens[e] <= d
    /\ \A k \in 0..(lens[e] - 1) : buffer[logger_offset(w_off - d + k)] = <<e, k>>

Chain(D) ==
    /\ 0 \in D
    /\ \A d \in D \ {0} : \E e \in whole : EntryBack(d, e) /\ d - lens[e] \in D

ChainInv ==
    \E D \in SUBSET Offsets :
        /\ Chain(D)
        /\ Dist(head) \in D
        /\ \A r \in open : Dist(r_off[r]) \in D

----------------------------------------------------------------------------
(* A set of natural numbers that is not empty has a least element.  Proofs  *)
(* by induction below look at the least counterexample.                     *)
LEMMA LeastElement ==
    ASSUME NEW T, T \subseteq Nat, T # {}
    PROVE  \E x \in T : \A y \in T : x <= y
<1> DEFINE R == OpToRel(<, Nat)
<1>1. IsWellFoundedOn(R, Nat)
  BY NatLessThanWellFounded
<1>2. \E x \in T : \A y \in T : ~ (<<y, x>> \in R)
  <2> HIDE DEF R
  <2>. QED  BY <1>1, WFMin
<1>3. PICK x \in T : \A y \in T : ~ (<<y, x>> \in R)
  BY <1>2
<1>4. \A y \in T : y < x => <<y, x>> \in R
  BY DEF OpToRel
<1> HIDE DEF R
<1>5. \A y \in T : ~(y < x) /\ y \in Nat
  BY <1>3, <1>4
<1>. QED  BY <1>5

(* A walk that always goes forward and ends at n or beyond is well defined. *)
LEMMA WalkExists ==
    ASSUME NEW n \in Nat, NEW s \in [0..(n - 1) -> Nat], \A d \in 0..(n - 1) : s[d] > d
    PROVE  \E g : g = [d \in 0..(n - 1) |-> IF s[d] < n THEN g[s[d]] ELSE s[d]]
<1> DEFINE Walk(g, k) == g = [d \in (n - k)..(n - 1) |-> IF s[d] < n THEN g[s[d]] ELSE s[d]]
           T == {k \in 0..n : ~ \E g : Walk(g, k)}
<1>1. SUFFICES ASSUME T # {} PROVE FALSE
  <2>1. n \in 0..n /\ n - n = 0
    OBVIOUS
  <2>2. T = {} => \E g : Walk(g, n)
    BY <2>1
  <2>. QED  BY <2>1, <2>2
<1>2. PICK k \in T : \A j \in T : k <= j
  <2>1. T \subseteq Nat
    OBVIOUS
  <2> HIDE DEF T
  <2>. QED  BY <1>1, <2>1, LeastElement
<1>3. k \in 0..n /\ ~ \E g : Walk(g, k)
  BY <1>2
<1>4. CASE k = 0
  <2>1. (n - k)..(n - 1) = {}
    BY <1>4
  <2>2. Walk([d \in (n - k)..(n - 1) |-> 0], k)
    BY <2>1
  <2>. QED  BY <1>3, <2>2
<1>5. CASE k # 0
  <2>1. k - 1 \in 0..n /\ k - 1 \notin T
    BY <1>2, <1>3, <1>5
  <2>2. PICK g : Walk(g, k - 1)
    BY <2>1
  <2> DEFINE h == [d \in (n - k)..(n - 1) |->
                     IF d = n - k THEN IF s[d] < n THEN g[s[d]] ELSE s[d] ELSE g[d]]
  <2>3. ASSUME NEW d \in (n - k)..(n - 1)
        PROVE  h[d] = IF s[d] < n THEN h[s[d]] ELSE s[d]
    <3>1. d \in 0..(n - 1) /\ s[d] \in Nat /\ s[d] > d
      BY <1>3
    <3>2. s[d] < n => h[s[d]] = g[s[d]]
      BY <1>3, <3>1
    <3>3. d # n - k => d \in (n - (k - 1))..(n - 1)
      BY <1>3
    <3>4. d # n - k => g[d] = IF s[d] < n THEN g[s[d]] ELSE s[d]
      BY <2>2, <3>3
    <3>. QED  BY <3>1, <3>2, <3>4
  <2>4. h = [d \in (n - k)..(n - 1) |-> h[d]]
    OBVIOUS
  <2>5. Walk(h, k)
    <3> HIDE DEF h
    <3>. QED  BY <2>3, <2>4
  <2>. QED  BY <1>3, <2>5
<1>. QED  BY <1>4, <1>5

(* A walk that stays in P and takes steps of at most b there ends in P,     *)
(* less than b beyond n.                                                    *)
LEMMA WalkEnds ==
    ASSUME NEW n \in Nat, NEW b \in Nat, NEW s \in [0..(n - 1) -> Nat], NEW g, NEW P,
           \A d \in 0..(n - 1) : s[d] > d /\ (d \in P => s[d] \in P /\ s[d] <= d + b),
           g = [d \in 0..(n - 1) |-> IF s[d] < n THEN g[s[d]] ELSE s[d]]
    PROVE  \A d \in 0..(n - 1) : d \in P => g[d] \in P /\ g[d] \in n..(n + b - 1)
<1> DEFINE Bad == {d \in 0..(n - 1) : d \in P /\ ~(g[d] \in P /\ g[d] \in n..(n + b - 1))}
           T == {n - d : d \in Bad}
<1>1. SUFFICES ASSUME Bad # {} PROVE FALSE
  OBVIOUS
<1>2. PICK t \in T : \A j \in T : t <= j
  <2>0. \A d \in Bad : n - d \in Nat /\ n - d \in T
    OBVIOUS
  <2>1. T \subseteq Nat /\ T # {}
    <3> HIDE DEF Bad
    <3>. QED  BY <1>1, <2>0
  <2> HIDE DEF T
  <2>. QED  BY <2>1, LeastElement
<1>3. PICK d \in Bad : t = n - d
  BY <1>2
<1>4. d \in 0..(n - 1) /\ s[d] \in Nat /\ s[d] > d /\ s[d] <= d + b /\ s[d] \in P
  OBVIOUS
<1>5. g[d] = IF s[d] < n THEN g[s[d]] ELSE s[d]
  BY <1>4
<1>6. CASE s[d] < n
  <2>1. s[d] \in Bad
    BY <1>4, <1>5, <1>6
  <2>2. n - s[d] \in T
    BY <2>1
  <2>3. n - d <= n - s[d]
    BY <1>2, <1>3, <2>2
  <2>. QED  BY <1>4, <2>3
<1>7. CASE ~(s[d] < n)
  BY <1>4, <1>5, <1>7
<1>. QED  BY <1>6, <1>7

----------------------------------------------------------------------------
(* A product with a natural number is monotonic.                            *)
LEMMA Monotonic ==
    ASSUME NEW a \in Int, NEW b \in Int, NEW n \in Nat, a <= b PROVE n * a <= n * b
  OBVIOUS

(* Remainders of numbers that are less than one ring above the ring.        *)
LEMMA WrapUp ==
    ASSUME NEW x \in Int, NEW n \in Nat \ {0}, 0 <= x, x < n + n
    PROVE  x % n = IF x < n THEN x ELSE x - n
<1>1. PICK q \in Int : q = x \div n
  OBVIOUS
<1>2. x % n \in 0..(n - 1) /\ x = n * q + (x % n)
  BY <1>1
<1>3. /\ q <= -1 => n * q <= n * (-1) /\ n * (-1) = -n
      /\ q >= 2 => n * 2 <= n * q /\ n * 2 = n + n
      /\ n * 0 = 0 /\ n * 1 = n
  BY Monotonic
<1>4. q \in {0, 1}
  <2>1. ~(q <= -1) /\ ~(q >= 2)
    BY <1>2, <1>3
  <2>. QED  BY <2>1
<1>. QED  BY <1>2, <1>3, <1>4

(* Remainders of numbers that are less than one ring below the ring.        *)
LEMMA WrapDown ==
    ASSUME NEW x \in Int, NEW n \in Nat \ {0}, -n <= x, x < n
    PROVE  x % n = IF 0 <= x THEN x ELSE x + n
<1>1. PICK q \in Int : q = x \div n
  OBVIOUS
<1>2. x % n \in 0..(n - 1) /\ x = n * q + (x % n)
  BY <1>1
<1>3. /\ q <= -2 => n * q <= n * (-2) /\ n * (-2) = -n - n
      /\ q >= 1 => n * 1 <= n * q /\ n * 1 = n
      /\ n * 0 = 0 /\ n * (-1) = -n
  BY Monotonic
<1>4. q \in {-1, 0}
  <2>1. ~(q <= -2) /\ ~(q >= 1)
    BY <1>2, <1>3
  <2>. QED  BY <2>1
<1>. QED  BY <1>2, <1>3, <1>4

(* A remainder is an offset of the ring.                                    *)
LEMMA ModType == ASSUME NEW x \in Int, NEW n \in Nat \ {0} PROVE x % n \in 0..(n - 1)
  OBVIOUS

(* The constants, as numbers.                                               *)
LEMMA LoggerConstants ==
    /\ HeaderLen \in Nat /\ HeaderLen >= 2 /\ MaxPayload \in Nat \ {0}
    /\ EntryMaxLen \in Nat /\ EntryMaxLen = HeaderLen + MaxPayload
    /\ Size \in Nat \ {0} /\ Size >= 2 * EntryMaxLen
    /\ MaxEntries \in Nat /\ Requests \subseteq Nat
  BY LoggerAssumption DEF EntryMaxLen

(* An offset that has been wrapped is an offset.                            *)
LEMMA OffsetType ==
    ASSUME NEW x \in Int PROVE logger_offset(x) \in Offsets /\ x % Size \in Offsets
  BY ModType, LoggerConstants DEF logger_offset, Offsets

(* An entry of a write has a payload, cut to the longest.                   *)
LEMMA EntryLenType ==
    ASSUME NEW n \in Nat, n > 0 PROVE EntryLen(n) \in (HeaderLen + 1)..EntryMaxLen
  BY LoggerConstants DEF EntryLen

(* What get_entry_len reads covers at least the header, whatever the bytes  *)
(* are; bytes that hold no length may read as any __u16.                    *)
LongestRead == EntryMaxLen + 65535

LEMMA ReadLenType ==
    ASSUME LoggerTypeOK, BytesInv, NEW o \in Offsets
    PROVE  get_entry_len(o) \in HeaderLen..LongestRead
<1>1. /\ buffer[o] \in Byte /\ buffer[logger_offset(o + 1)] \in Byte
      /\ buffer[o][1] <= Len(lens)
  <2>1. o + 1 \in Int
    BY LoggerConstants DEF Offsets
  <2>2. logger_offset(o + 1) \in Offsets
    BY <2>1, OffsetType
  <2>. QED  BY <2>2 DEF LoggerTypeOK, BytesInv
<1>2. \A b, c \in Byte : Junk(b, c) \in Nat /\ Junk(b, c) < 65536
  BY JunkAssumption
<1>3. get_entry_len(o) = LenOf(buffer[o], buffer[logger_offset(o + 1)])
  BY DEF get_entry_len
<1>4. SUFFICES ASSUME NEW b \in Byte, NEW c \in Byte, b[1] <= Len(lens)
               PROVE  LenOf(b, c) \in HeaderLen..LongestRead
  BY <1>1, <1>3
<1>5. Junk(b, c) \in Nat /\ Junk(b, c) < 65536
  BY <1>2
<1>6. b[1] \in 0..MaxEntries
  BY DEF Byte
<1>7. ASSUME NEW e \in 0..MaxEntries, e <= Len(lens), e # NoEntry
      PROVE  lens[e] \in (HeaderLen + 1)..EntryMaxLen
  <2>1. lens \in Seq((HeaderLen + 1)..EntryMaxLen) /\ Len(lens) \in Nat
    BY DEF LoggerTypeOK
  <2>. QED  BY <1>7, <2>1, LoggerConstants DEF NoEntry
<1>8. b[1] # NoEntry => lens[b[1]] \in (HeaderLen + 1)..EntryMaxLen
  BY <1>4, <1>6, <1>7
<1>9. LenOf(b, c) \in {lens[b[1]], HeaderLen + Junk(b, c)} /\ (b[1] = NoEntry => LenOf(b, c) = HeaderLen + Junk(b, c))
  BY DEF LenOf
<1>. QED  BY <1>5, <1>8, <1>9, LoggerConstants DEF LongestRead

(* get_next_entry stops at least len bytes on.  If what it reads on its way *)
(* through P is never more than b, it stops in P, less than b beyond len.   *)
LEMMA NextEntry ==
    ASSUME LoggerTypeOK, BytesInv, NEW off \in Offsets, NEW len \in 1..EntryMaxLen,
           NEW b \in Nat, NEW P, 0 \in P,
           \A c \in 0..(len - 1) : c \in P =>
               LET nr == get_entry_len(logger_offset(off + c)) IN c + nr \in P /\ nr <= b
    PROVE  \E d \in len..(len + b - 1) :
               d \in P /\ get_next_entry(off, len) = logger_offset(off + d)
<1> DEFINE s == [c \in 0..(len - 1) |-> c + get_entry_len(logger_offset(off + c))]
<1>1. len \in Nat \ {0} /\ EntryMaxLen \in Nat /\ off \in Nat
  BY LoggerConstants DEF Offsets
<1>2. ASSUME NEW c \in 0..(len - 1)
      PROVE  /\ s[c] = c + get_entry_len(logger_offset(off + c))
             /\ s[c] \in Nat /\ s[c] > c
             /\ c \in P => s[c] \in P /\ s[c] <= c + b
  <2> DEFINE nr == get_entry_len(logger_offset(off + c))
  <2>1. logger_offset(off + c) \in Offsets
    BY <1>1, OffsetType
  <2>2. nr \in HeaderLen..LongestRead
    BY <2>1, ReadLenType
  <2>3. s[c] = c + nr /\ (c \in P => c + nr \in P /\ nr <= b)
    OBVIOUS
  <2> HIDE DEF s, nr
  <2>4. s[c] \in Nat /\ s[c] > c /\ (c \in P => s[c] \in P /\ s[c] <= c + b)
    BY <1>1, <2>2, <2>3, LoggerConstants DEF LongestRead
  <2>. QED  BY <2>3, <2>4 DEF nr
<1>3. s \in [0..(len - 1) -> Nat]
  BY <1>2
<1> DEFINE Walk(g) == g = [c \in 0..(len - 1) |-> IF s[c] < len THEN g[s[c]] ELSE s[c]]
           walk == CHOOSE g : Walk(g)
<1>4. Walk(walk)
  <2>1. \E g : Walk(g)
    <3> HIDE DEF s
    <3>. QED  BY <1>1, <1>2, <1>3, WalkExists
  <2> HIDE DEF Walk
  <2>. QED  BY <2>1
<1>5. walk[0] \in P /\ walk[0] \in len..(len + b - 1)
  <2>1. \A c \in 0..(len - 1) : c \in P => walk[c] \in P /\ walk[c] \in len..(len + b - 1)
    <3> HIDE DEF s, walk
    <3>. QED  BY <1>1, <1>2, <1>3, <1>4, WalkEnds
  <2> HIDE DEF walk
  <2>. QED  BY <1>1, <2>1
<1>6. get_next_entry(off, len) = logger_offset(off + walk[0])
  BY DEF get_next_entry
<1> HIDE DEF walk
<1>. QED  BY <1>5, <1>6

(* A write of len bytes at w crosses an offset c exactly if the bytes from  *)
(* c to w leave no room for it.                                             *)
LEMMA CrossedWhenFull ==
    ASSUME NEW w \in Offsets, NEW c \in Offsets, NEW len \in 1..EntryMaxLen
    PROVE  clock_interval(w, logger_offset(w + len), c) <=> ((w - c) % Size) + len >= Size
<1>1. /\ w \in 0..(Size - 1) /\ c \in 0..(Size - 1) /\ len \in Nat /\ 0 < len /\ 2 * len <= Size
      /\ Size \in Nat \ {0}
  BY LoggerConstants DEF Offsets
<1>2. (w - c) % Size = IF 0 <= w - c THEN w - c ELSE w - c + Size
  <2>1. w - c \in Int /\ -Size <= w - c /\ w - c < Size
    BY <1>1
  <2>. QED  BY <1>1, <2>1, WrapDown
<1>3. (w + len) % Size = IF w + len < Size THEN w + len ELSE (w + len) - Size
  <2> DEFINE x == w + len
  <2>1. x \in Int /\ 0 <= x /\ x < Size + Size
    BY <1>1
  <2>2. x % Size = IF x < Size THEN x ELSE x - Size
    <3> HIDE DEF x
    <3>. QED  BY <1>1, <2>1, WrapUp
  <2>. QED  BY <2>2
<1>. QED  BY <1>1, <1>2, <1>3 DEF clock_interval, logger_offset

(* A reader moved on by d bytes, less than the ring, has moved d bytes.     *)
LEMMA MovedBy ==
    ASSUME NEW c \in Offsets, NEW d \in 0..(Size - 1)
    PROVE  (logger_offset(c + d) - c) % Size = d
<1>1. c \in 0..(Size - 1) /\ Size \in Nat \ {0}
  BY LoggerConstants DEF Offsets
<1>2. (c + d) % Size = IF c + d < Size THEN c + d ELSE (c + d) - Size
  <2> DEFINE x == c + d
  <2>1. x \in Int /\ 0 <= x /\ x < Size + Size
    BY <1>1
  <2>2. x % Size = IF x < Size THEN x ELSE x - Size
    <3> HIDE DEF x
    <3>. QED  BY <1>1, <2>1, WrapUp
  <2>. QED  BY <2>2
<1>3. d % Size = d /\ (d - Size) % Size = d
  <2>1. d - Size \in Int /\ -Size <= d - Size /\ d - Size < 0
    BY <1>1
  <2>. QED  BY <1>1, <2>1, WrapDown
<1>4. ((c + d) % Size) - c \in {d, d - Size}
  BY <1>1, <1>2
<1>. QED  BY <1>1, <1>3, <1>4 DEF logger_offset

(* What fix_up_readers does to an offset c for a write of len bytes.        *)
Pulled(c, len) ==
    IF clock_interval(w_off, logger_offset(w_off + len), c) THEN get_next_entry(c, len) ELSE c

(* An offset stays while there is room for the write.                       *)
LEMMA PulledBy ==
    ASSUME LoggerTypeOK, BytesInv, NEW c \in Offsets, NEW len \in 1..EntryMaxLen
    PROVE  /\ Pulled(c, len) \in Offsets
           /\ ((w_off - c) % Size) + len < Size => Pulled(c, len) = c
           /\ c = w_off => Pulled(c, len) = c
<1>1. w_off \in Offsets /\ c \in Int /\ w_off \in Int /\ Size \in Nat \ {0} /\ EntryMaxLen \in Nat
      /\ len \in Nat \ {0} /\ 2 * len <= Size /\ c \in 0..(Size - 1)
  BY LoggerConstants DEF LoggerTypeOK, Offsets
<1>2. (w_off - c) % Size \in Nat
  BY <1>1, ModType
<1>3. (c - c) % Size = 0
  <2>1. c - c = 0
    BY <1>1
  <2>. QED  BY <1>1, <2>1, WrapDown
<1>4. c = w_off => ((w_off - c) % Size) + len < Size
  BY <1>1, <1>3
<1>5. CASE clock_interval(w_off, logger_offset(w_off + len), c)
  <2>1. ((w_off - c) % Size) + len >= Size
    BY <1>1, <1>5, CrossedWhenFull
  <2>2. ASSUME NEW k \in 0..(len - 1)
        PROVE  LET nr == get_entry_len(logger_offset(c + k)) IN
               k + nr \in Nat /\ nr <= LongestRead
    <3>1. logger_offset(c + k) \in Offsets
      BY <1>1, OffsetType
    <3>2. get_entry_len(logger_offset(c + k)) \in HeaderLen..LongestRead
      BY <3>1, ReadLenType
    <3>. QED  BY <1>1, <3>2, LoggerConstants
  <2>3. LongestRead \in Nat /\ 0 \in Nat
    BY <1>1 DEF LongestRead
  <2>4. PICK d \in len..(len + LongestRead - 1) : get_next_entry(c, len) = logger_offset(c + d)
    BY <2>2, <2>3, NextEntry
  <2>5. logger_offset(c + d) \in Offsets
    <3>1. c + d \in Int
      BY <1>1, <2>3
    <3>. QED  BY <3>1, OffsetType
  <2>6. Pulled(c, len) = logger_offset(c + d)
    BY <1>5, <2>4 DEF Pulled
  <2>. QED  BY <1>1, <1>2, <1>4, <2>1, <2>5, <2>6
<1>6. CASE ~clock_interval(w_off, logger_offset(w_off + len), c)
  BY <1>6 DEF Pulled
<1>. QED  BY <1>5, <1>6

(* What a critical section of a write leaves in the ring: n bytes of a new  *)
(* entry of length len, and offsets that were moved out of its way.         *)
LEMMA WriteEffect ==
    ASSUME LoggerTypeOK, BytesInv, Len(lens) < MaxEntries,
           NEW len \in (HeaderLen + 1)..EntryMaxLen, NEW n \in 0..len,
           lens' = Append(lens, len), fix_up_readers(len),
           buffer' = Copied(Len(lens) + 1, n)
    PROVE  /\ lens' \in Seq((HeaderLen + 1)..EntryMaxLen)
           /\ Len(lens') = Len(lens) + 1 /\ lens'[Len(lens')] = len
           /\ buffer' \in [Offsets -> Byte]
           /\ BytesInv'
           /\ head' \in Offsets
           /\ r_off' \in [Readers -> Offsets]
           /\ \A r \in open : r_off'[r] = Pulled(r_off[r], len)
<1>1. /\ lens \in Seq((HeaderLen + 1)..EntryMaxLen) /\ Len(lens) \in Nat /\ MaxEntries \in Nat
      /\ len \in 1..EntryMaxLen /\ EntryMaxLen \in Nat /\ Size \in Nat \ {0}
      /\ w_off \in Int /\ head \in Offsets /\ r_off \in [Readers -> Offsets] /\ open \subseteq Readers
  <2>1. /\ lens \in Seq((HeaderLen + 1)..EntryMaxLen) /\ w_off \in Offsets
        /\ head \in Offsets /\ r_off \in [Readers -> Offsets] /\ open \subseteq Readers
    BY DEF LoggerTypeOK
  <2>2. w_off \in Int /\ Len(lens) \in Nat
    BY <2>1, LoggerConstants DEF Offsets
  <2>. QED  BY <2>1, <2>2, LoggerConstants
<1>2. /\ lens' \in Seq((HeaderLen + 1)..EntryMaxLen)
      /\ Len(lens') = Len(lens) + 1 /\ lens'[Len(lens')] = len
  BY <1>1
<1> DEFINE e == Len(lens) + 1
<1>3. e \in 0..MaxEntries /\ e = Len(lens')
  BY <1>1, <1>2
<1>4. ASSUME NEW i \in Offsets
      PROVE  /\ Copied(e, n)[i] \in Byte
             /\ Copied(e, n)[i][1] <= e
  <2> DEFINE k == (i - w_off) % Size
  <2>1. k \in Nat
    <3>1. i - w_off \in Int
      BY <1>1 DEF Offsets
    <3>2. k \in Offsets
      BY <3>1, OffsetType
    <3>. QED  BY <1>1, <3>2 DEF Offsets
  <2>2. Copied(e, n)[i] = IF k < n THEN <<e, k>> ELSE buffer[i]
    BY DEF Copied
  <2>3. buffer[i] \in Byte /\ buffer[i][1] <= Len(lens)
    BY DEF LoggerTypeOK, BytesInv
  <2> HIDE DEF k
  <2>4. CASE k < n
    <3>1. k \in 0..EntryMaxLen
      BY <1>1, <2>1, <2>4
    <3>2. Copied(e, n)[i] = <<e, k>>
      BY <2>2, <2>4
    <3> HIDE DEF e
    <3>. QED  BY <1>3, <3>1, <3>2 DEF Byte
  <2>5. CASE ~(k < n)
    BY <1>1, <2>2, <2>3, <2>5 DEF Byte
  <2>. QED  BY <2>4, <2>5
<1>5. buffer' \in [Offsets -> Byte]
  BY <1>4 DEF Copied
<1>6. BytesInv'
  BY <1>3, <1>4 DEF BytesInv, Offsets
<1>7. /\ head' = Pulled(head, len)
      /\ r_off' = [r \in Readers |-> IF r \in open THEN Pulled(r_off[r], len) ELSE r_off[r]]
  BY DEF fix_up_readers, Pulled
<1>8. Pulled(head, len) \in Offsets /\ \A r \in Readers : Pulled(r_off[r], len) \in Offsets
  BY <1>1, PulledBy
<1>. QED  BY <1>1, <1>2, <1>5, <1>6, <1>7, <1>8

----------------------------------------------------------------------------
(* The log as it is when the module is loaded.                              *)
LEMMA LoggerInvInit == LoggerInit => LoggerInv
<1> SUFFICES ASSUME LoggerInit PROVE LoggerInv
  OBVIOUS
<1>1. /\ 0 \in Offsets /\ 0 \in 0..MaxEntries /\ 0 \in 0..EntryMaxLen /\ NoEntry = 0
      /\ MaxEntries \in Nat /\ 0 \in Garbage..MaxEntries
  BY LoggerConstants DEF Offsets, NoEntry, Garbage
<1>2. <<NoEntry, 0>> \in Byte
  BY <1>1 DEF Byte
<1>3. lens \in Seq((HeaderLen + 1)..EntryMaxLen) /\ Len(lens) = 0
  BY DEF LoggerInit
<1>4. LoggerTypeOK
  BY <1>1, <1>2, <1>3 DEF LoggerInit, LoggerTypeOK
<1>5. BytesInv
  BY <1>1, <1>3 DEF LoggerInit, BytesInv
<1>. QED  BY <1>4, <1>5 DEF LoggerInit, LoggerInv, FilesInv, OrigInv, NoSleepOnEntries

(* A task enters or leaves logger_aio_write outside the mutex.              *)
LEMMA WriterStep ==
    ASSUME LoggerInv, NEW w \in Writers,
           logger_aio_write(w) \/ write_nothing(w) \/ wake_up_interruptible(w)
    PROVE  LoggerInv'
<1>1. LoggerTypeOK'
  <2>1. 0 \in Offsets
    BY LoggerConstants DEF Offsets
  <2>. QED
    BY <2>1 DEF LoggerInv, LoggerTypeOK, logger_aio_write, write_nothing, wake_up_interruptible
<1>2. BytesInv' /\ FilesInv'
  BY DEF LoggerInv, BytesInv, FilesInv, logger_aio_write, write_nothing, wake_up_interruptible
<1>3. OrigInv'
  BY DEF LoggerInv, LoggerTypeOK, OrigInv, logger_aio_write, write_nothing, wake_up_interruptible
<1>4. ASSUME OneWriter PROVE NoSleepOnEntries'
  <2>1. \A v \in Writers : v = w
    BY <1>4 DEF OneWriter
  <2>2. CASE wake_up_interruptible(w)
    BY <2>2 DEF wake_up_interruptible, NoSleepOnEntries
  <2>3. CASE logger_aio_write(w) \/ write_nothing(w)
    <3>1. writing[w] # "wake" /\ UNCHANGED <<waiting, reading, r_off, w_off>>
      BY <2>3 DEF logger_aio_write, write_nothing
    <3>. QED  BY <1>4, <2>1, <3>1 DEF LoggerInv, NoSleepOnEntries
  <2>. QED  BY <2>2, <2>3
<1>. QED  BY <1>1, <1>2, <1>3, <1>4 DEF LoggerInv, OneWriter

(* A write that succeeds has yet to wake the readers.                       *)
LEMMA WriteStep ==
    ASSUME LoggerInv, NEW w \in Writers, NEW n \in Requests, do_write_log(w, n)
    PROVE  LoggerInv'
<1> DEFINE len == EntryLen(n)
<1>1. len \in (HeaderLen + 1)..EntryMaxLen /\ len \in 0..len
  <2>1. n \in Nat /\ n > 0
    BY LoggerConstants DEF do_write_log
  <2>2. len \in (HeaderLen + 1)..EntryMaxLen
    BY <2>1, EntryLenType
  <2> HIDE DEF len
  <2>. QED  BY <2>2, LoggerConstants
<1>2. /\ writing[w] = "lock" /\ Len(lens) < MaxEntries
      /\ lens' = Append(lens, len) /\ fix_up_readers(len) /\ buffer' = Copied(Len(lens) + 1, len)
      /\ w_off' = logger_offset(w_off + len) /\ whole' = whole \cup {Len(lens) + 1}
      /\ writing' = [writing EXCEPT ![w] = "wake"] /\ orig' = [orig EXCEPT ![w] = 0]
      /\ UNCHANGED <<open, reading, waiting, got>>
  BY DEF do_write_log
<1> HIDE DEF len
<1>3. LoggerTypeOK /\ BytesInv
  BY DEF LoggerInv
<1>4. /\ lens' \in Seq((HeaderLen + 1)..EntryMaxLen) /\ Len(lens') = Len(lens) + 1
      /\ buffer' \in [Offsets -> Byte]
      /\ BytesInv' /\ head' \in Offsets /\ r_off' \in [Readers -> Offsets]
  BY <1>1, <1>2, <1>3, WriteEffect
<1>5. 0 \in Offsets /\ w_off' \in Offsets
  <2>1. w_off + len \in Int /\ 0 \in Offsets
    BY <1>1, <1>3, LoggerConstants DEF LoggerTypeOK, Offsets
  <2>. QED  BY <1>2, <2>1, OffsetType
<1>6. whole' \subseteq 1..Len(lens')
  <2>1. Len(lens) \in Nat /\ whole \subseteq 1..Len(lens)
    BY <1>3 DEF LoggerTypeOK
  <2>2. \A e \in whole \cup {Len(lens) + 1} : e \in 1..(Len(lens) + 1)
    BY <2>1
  <2>. QED  BY <1>2, <1>4, <2>2
<1>7. LoggerTypeOK'
  BY <1>2, <1>3, <1>4, <1>5, <1>6 DEF LoggerTypeOK, Offsets
<1>8. FilesInv'
  BY <1>2 DEF LoggerInv, FilesInv
<1>9. OrigInv'
  BY <1>2, <1>3 DEF OrigInv, OneWriter, LoggerTypeOK
<1>10. NoSleepOnEntries'
  BY <1>2, <1>3 DEF NoSleepOnEntries, LoggerTypeOK
<1>. QED  BY <1>4, <1>7, <1>8, <1>9, <1>10 DEF LoggerInv

(* A write that fails wakes nobody: it goes back to where it began, and the *)
(* readers that had read everything are still there.                        *)
LEMMA FailStep ==
    ASSUME LoggerInv, NEW w \in Writers, NEW n \in Requests, NEW p \in 0..MaxPayload,
           do_write_log_from_user_fails(w, n, p)
    PROVE  LoggerInv'
<1> DEFINE len == EntryLen(n)
<1>1. len \in (HeaderLen + 1)..EntryMaxLen /\ HeaderLen + p \in 0..len
  <2>1. n \in Nat /\ n > 0 /\ p \in 0..(len - HeaderLen)
    BY LoggerConstants DEF do_write_log_from_user_fails
  <2>2. len \in (HeaderLen + 1)..EntryMaxLen
    BY <2>1, EntryLenType
  <2> HIDE DEF len
  <2>. QED  BY <2>1, <2>2, LoggerConstants
<1>2. /\ writing[w] = "lock" /\ Len(lens) < MaxEntries
      /\ lens' = Append(lens, len) /\ fix_up_readers(len)
      /\ buffer' = Copied(Len(lens) + 1, HeaderLen + p) /\ w_off' = orig[w]
      /\ writing' = [writing EXCEPT ![w] = "idle"] /\ orig' = [orig EXCEPT ![w] = 0]
      /\ UNCHANGED <<open, reading, waiting, whole, got>>
  BY DEF do_write_log_from_user_fails
<1> HIDE DEF len
<1>3. LoggerTypeOK /\ BytesInv
  BY DEF LoggerInv
<1>4. /\ lens' \in Seq((HeaderLen + 1)..EntryMaxLen) /\ Len(lens') = Len(lens) + 1
      /\ buffer' \in [Offsets -> Byte]
      /\ BytesInv' /\ head' \in Offsets /\ r_off' \in [Readers -> Offsets]
      /\ \A r \in open : r_off'[r] = Pulled(r_off[r], len)
  BY <1>1, <1>2, <1>3, WriteEffect
<1>5. 0 \in Offsets /\ w_off' \in Offsets
  BY <1>2, <1>3, LoggerConstants DEF LoggerTypeOK, Offsets
<1>6. whole' \subseteq 1..Len(lens')
  <2>1. Len(lens) \in Nat /\ whole \subseteq 1..Len(lens)
    BY <1>3 DEF LoggerTypeOK
  <2>. QED  BY <1>2, <1>4, <2>1
<1>7. LoggerTypeOK'
  BY <1>2, <1>3, <1>4, <1>5, <1>6 DEF LoggerTypeOK, Offsets
<1>8. FilesInv'
  BY <1>2 DEF LoggerInv, FilesInv
<1>9. OrigInv'
  BY <1>2, <1>3 DEF OrigInv, OneWriter, LoggerTypeOK
<1>10. ASSUME OneWriter PROVE NoSleepOnEntries'
  <2>1. w_off' = w_off /\ \A v \in Writers : writing[v] # "wake"
    BY <1>2, <1>10 DEF LoggerInv, OrigInv, OneWriter
  <2>2. ASSUME NEW r \in waiting, reading[r] = "asleep" PROVE r_off'[r] = w_off
    <3>1. r_off[r] = w_off /\ r \in open /\ w_off \in Offsets
      BY <1>3, <1>10, <2>1, <2>2 DEF LoggerInv, LoggerTypeOK, FilesInv, NoSleepOnEntries
    <3>2. len \in 1..EntryMaxLen
      BY <1>1, LoggerConstants
    <3>3. Pulled(r_off[r], len) = r_off[r]
      BY <1>3, <3>1, <3>2, PulledBy
    <3>. QED  BY <1>4, <3>1, <3>3
  <2>. QED  BY <1>2, <2>1, <2>2 DEF NoSleepOnEntries
<1>. QED  BY <1>4, <1>7, <1>8, <1>9, <1>10 DEF LoggerInv, OneWriter

(* A file is opened or closed: nobody sleeps on it.                         *)
LEMMA OpenStep ==
    ASSUME LoggerInv, NEW r \in Readers, logger_open(r) \/ logger_release(r)
    PROVE  LoggerInv'
<1>1. /\ reading[r] = "idle" /\ \E o \in {head, 0} : r_off' = [r_off EXCEPT ![r] = o]
      /\ open' \in {open \cup {r}, open \ {r}} /\ got' = [got EXCEPT ![r] = NoEntry]
      /\ UNCHANGED <<buffer, w_off, reading, head, waiting, writing, orig, lens, whole>>
  BY DEF LoggerInv, FilesInv, logger_open, logger_release
<1>2. head \in Offsets /\ 0 \in Offsets /\ NoEntry \in Garbage..MaxEntries
  BY LoggerConstants DEF LoggerInv, LoggerTypeOK, Offsets, NoEntry, Garbage
<1>3. LoggerTypeOK'
  BY <1>1, <1>2 DEF LoggerInv, LoggerTypeOK, Offsets
<1>4. BytesInv' /\ OrigInv'
  BY <1>1 DEF LoggerInv, BytesInv, OrigInv
<1>5. FilesInv'
  BY <1>1 DEF LoggerInv, FilesInv
<1>6. ASSUME OneWriter PROVE NoSleepOnEntries'
  <2>1. \A q \in waiting : reading[q] = "asleep" => r_off'[q] = r_off[q]
    BY <1>1 DEF LoggerInv, LoggerTypeOK
  <2>. QED  BY <1>1, <1>6, <2>1 DEF LoggerInv, NoSleepOnEntries
<1>. QED  BY <1>3, <1>4, <1>5, <1>6 DEF LoggerInv, OneWriter

(* A step of read() that returns no entry: it sleeps only if it finds that  *)
(* there is nothing to read, with itself on the queue already.              *)
LEMMA ReadStep ==
    ASSUME LoggerInv, NEW r \in Readers,
           \/ logger_read(r) \/ read_check(r) \/ read_gives_up(r)
           \/ read_signal(r) \/ read_fails(r) \/ read_raced(r)
    PROVE  LoggerInv'
<1> USE DEF logger_read, read_check, read_gives_up, read_signal, read_fails, read_raced
<1>1. UNCHANGED <<buffer, w_off, head, r_off, open, writing, orig, lens, whole, got>>
  OBVIOUS
<1>2. /\ waiting' \in {waiting, waiting \cup {r}, waiting \ {r}}
      /\ \/ reading' = reading /\ waiting' = waiting \ {r}
         \/ \E s \in {"idle", "start", "check", "read"} : reading' = [reading EXCEPT ![r] = s]
         \/ w_off = r_off[r] /\ reading' = [reading EXCEPT ![r] = "asleep"]
  OBVIOUS
<1>3. r \in open
  BY DEF LoggerInv, FilesInv
<1> USE DEF LoggerInv
<1>4. LoggerTypeOK'
  BY <1>1, <1>2 DEF LoggerTypeOK, Offsets
<1>5. BytesInv' /\ OrigInv'
  BY <1>1 DEF BytesInv, OrigInv
<1>6. FilesInv'
  BY <1>1, <1>2, <1>3 DEF FilesInv, LoggerTypeOK
<1>7. ASSUME OneWriter PROVE NoSleepOnEntries'
  <2>1. ASSUME NEW q \in waiting', reading'[q] = "asleep", r_off[q] # w_off
        PROVE  q \in waiting /\ reading[q] = "asleep"
    BY <1>2, <2>1 DEF LoggerTypeOK
  <2>. QED  BY <1>1, <1>7, <2>1 DEF NoSleepOnEntries
<1>. QED  BY <1>4, <1>5, <1>6, <1>7 DEF OneWriter

(* An entry is returned to the caller.                                      *)
LEMMA ReturnStep ==
    ASSUME LoggerInv, NEW r \in Readers, do_read_log_to_user(r)
    PROVE  LoggerInv'
<1> DEFINE nr == get_entry_len(r_off[r])
           e == EntryAt(r_off[r], nr)
           o == logger_offset(r_off[r] + nr)
<1>1. /\ got' = [got EXCEPT ![r] = e] /\ r_off' = [r_off EXCEPT ![r] = o]
      /\ reading' = [reading EXCEPT ![r] = "idle"]
      /\ UNCHANGED <<buffer, w_off, head, open, waiting, writing, orig, lens, whole>>
  BY DEF do_read_log_to_user
<1>2. LoggerTypeOK /\ BytesInv
  BY DEF LoggerInv
<1>3. r_off[r] \in Offsets /\ nr \in HeaderLen..LongestRead
  BY <1>2, ReadLenType DEF LoggerTypeOK
<1>4. o \in Offsets
  <2> HIDE DEF nr
  <2>1. r_off[r] + nr \in Int
    BY <1>3, LoggerConstants DEF Offsets, LongestRead
  <2>. QED  BY <2>1, OffsetType
<1>5. e \in Garbage..MaxEntries
  <2>1. e \in whole \/ e = Garbage
    <3> HIDE DEF nr
    <3>. QED  BY DEF EntryAt
  <2>2. \A k \in whole : k \in 1..Len(lens)
    BY <1>2 DEF LoggerTypeOK
  <2>3. Len(lens) \in Nat /\ Len(lens) <= MaxEntries /\ MaxEntries \in Nat
    BY <1>2, LoggerConstants DEF LoggerTypeOK, BytesInv
  <2> HIDE DEF e
  <2>. QED  BY <2>1, <2>2, <2>3 DEF Garbage
<1> HIDE DEF nr, e, o
<1>6. LoggerTypeOK'
  BY <1>1, <1>2, <1>4, <1>5 DEF LoggerTypeOK, Offsets
<1>7. BytesInv' /\ OrigInv'
  BY <1>1 DEF LoggerInv, BytesInv, OrigInv
<1>8. FilesInv'
  BY <1>1, <1>2 DEF LoggerInv, FilesInv, LoggerTypeOK
<1>9. ASSUME OneWriter PROVE NoSleepOnEntries'
  <2>1. \A q \in waiting : reading'[q] = "asleep" => reading[q] = "asleep" /\ r_off'[q] = r_off[q]
    BY <1>1, <1>2 DEF LoggerTypeOK
  <2>. QED  BY <1>1, <1>9, <2>1 DEF LoggerInv, NoSleepOnEntries
<1>. QED  BY <1>6, <1>7, <1>8, <1>9 DEF LoggerInv, OneWriter

(* A flush leaves nothing to read for any file that is open.                *)
LEMMA FlushStep == ASSUME LoggerInv, logger_flush PROVE LoggerInv'
<1>1. /\ r_off' = [r \in Readers |-> IF r \in open THEN w_off ELSE r_off[r]] /\ head' = w_off
      /\ UNCHANGED <<buffer, w_off, open, reading, waiting, writing, orig, lens, whole, got>>
  BY DEF logger_flush
<1>2. LoggerTypeOK'
  BY <1>1 DEF LoggerInv, LoggerTypeOK, Offsets
<1>3. BytesInv' /\ OrigInv' /\ FilesInv'
  BY <1>1 DEF LoggerInv, BytesInv, OrigInv, FilesInv
<1>4. NoSleepOnEntries'
  BY <1>1 DEF LoggerInv, LoggerTypeOK, FilesInv, NoSleepOnEntries
<1>. QED  BY <1>2, <1>3, <1>4 DEF LoggerInv

(* Every step preserves the invariant.                                      *)
LEMMA LoggerInvNext == ASSUME LoggerInv, [LoggerNext]_loggerVars PROVE LoggerInv'
<1>1. CASE UNCHANGED loggerVars
  BY <1>1 DEF loggerVars, LoggerInv, LoggerTypeOK, BytesInv, FilesInv, OrigInv,
     NoSleepOnEntries, Offsets, OneWriter
<1>2. ASSUME NEW w \in Writers,
             logger_aio_write(w) \/ write_nothing(w) \/ wake_up_interruptible(w)
      PROVE  LoggerInv'
  BY <1>2, WriterStep
<1>3. ASSUME NEW w \in Writers, NEW n \in Requests, do_write_log(w, n)
      PROVE  LoggerInv'
  BY <1>3, WriteStep
<1>4. ASSUME NEW w \in Writers, NEW n \in Requests, NEW p \in 0..MaxPayload,
             do_write_log_from_user_fails(w, n, p)
      PROVE  LoggerInv'
  BY <1>4, FailStep
<1>5. ASSUME NEW r \in Readers, logger_open(r) \/ logger_release(r)
      PROVE  LoggerInv'
  BY <1>5, OpenStep
<1>6. ASSUME NEW r \in Readers,
             \/ read_gives_up(r) \/ read_signal(r) \/ read_fails(r) \/ ReaderStep(r)
      PROVE  LoggerInv'
  BY <1>6, ReadStep, ReturnStep DEF ReaderStep
<1>7. CASE logger_flush
  BY <1>7, FlushStep
<1>. QED  BY <1>1, <1>2, <1>3, <1>4, <1>5, <1>6, <1>7 DEF LoggerNext

(* The invariant holds throughout.                                          *)
LEMMA LoggerInvariant == LoggerSafety => []LoggerInv
<1>1. LoggerInit => LoggerInv
  BY LoggerInvInit
<1>2. LoggerInv /\ [LoggerNext]_loggerVars => LoggerInv'
  BY LoggerInvNext
<1>. QED  BY <1>1, <1>2, PTL DEF LoggerSafety

----------------------------------------------------------------------------
(* The remainder of a number at most one ring off the ring.                 *)
LEMMA OffsetCases ==
    ASSUME NEW x \in Int, -Size <= x, x < Size + Size
    PROVE  logger_offset(x) = IF x < 0 THEN x + Size ELSE IF x < Size THEN x ELSE x - Size
<1>1. Size \in Nat \ {0}
  BY LoggerConstants
<1>2. CASE 0 <= x
  <2>1. x % Size = IF x < Size THEN x ELSE x - Size
    BY <1>1, <1>2, WrapUp
  <2>. QED  BY <1>1, <1>2, <2>1 DEF logger_offset
<1>3. CASE x < 0
  <2>1. x % Size = IF 0 <= x THEN x ELSE x + Size
    BY <1>1, <1>3, WrapDown
  <2>. QED  BY <1>1, <1>3, <2>1 DEF logger_offset
<1>. QED  BY <1>2, <1>3

(* A reader that moves on by k bytes comes k bytes closer to w.             *)
LEMMA StepBack ==
    ASSUME NEW w \in Offsets, NEW c \in Offsets, NEW k \in 0..logger_offset(w - c)
    PROVE  /\ logger_offset(c + k) \in Offsets
           /\ logger_offset(c + k) = logger_offset(w - logger_offset(w - c) + k)
           /\ logger_offset(w - logger_offset(c + k)) = logger_offset(w - c) - k
<1>1. w \in 0..(Size - 1) /\ c \in 0..(Size - 1) /\ Size \in Nat \ {0}
  BY LoggerConstants DEF Offsets
<1> DEFINE d == logger_offset(w - c)
<1>2. d = IF w - c < 0 THEN w - c + Size ELSE w - c
  BY <1>1, OffsetCases
<1> HIDE DEF d
<1>3. k \in 0..d /\ d \in 0..(Size - 1)
  BY <1>1, <1>2 DEF d
<1>4. logger_offset(c + k) = IF c + k < Size THEN c + k ELSE c + k - Size
  BY <1>1, <1>3, OffsetCases
<1>5. logger_offset(w - d + k) = IF w - d + k < 0 THEN w - d + k + Size ELSE w - d + k
  BY <1>1, <1>3, OffsetCases
<1> DEFINE x == logger_offset(c + k)
<1>6. x \in 0..(Size - 1) /\ x = logger_offset(w - d + k)
  BY <1>1, <1>2, <1>3, <1>4, <1>5
<1>7. x = IF c + k < Size THEN c + k ELSE c + k - Size
  BY <1>4
<1> HIDE DEF x
<1>8. logger_offset(w - x) = IF w - x < 0 THEN w - x + Size ELSE w - x
  BY <1>1, <1>6, OffsetCases
<1>9. logger_offset(w - x) = d - k
  <2>1. x \in 0..(Size - 1)
    BY <1>6
  <2>2. CASE c <= w
    BY <1>1, <1>2, <1>3, <1>7, <1>8, <2>1, <2>2
  <2>3. CASE w < c
    BY <1>1, <1>2, <1>3, <1>7, <1>8, <2>1, <2>3
  <2>. QED  BY <1>1, <2>2, <2>3
<1>. QED  BY <1>6, <1>9 DEF x, d, Offsets

(* A write of len bytes leaves c behind by len bytes more.                  *)
LEMMA StepOn ==
    ASSUME NEW w \in Offsets, NEW c \in Offsets, NEW len \in 0..(Size - 1),
           logger_offset(w - c) + len < Size
    PROVE  logger_offset(logger_offset(w + len) - c) = logger_offset(w - c) + len
<1>1. w \in 0..(Size - 1) /\ c \in 0..(Size - 1) /\ Size \in Nat \ {0}
  BY LoggerConstants DEF Offsets
<1>2. logger_offset(w - c) = IF w - c < 0 THEN w - c + Size ELSE w - c
  BY <1>1, OffsetCases
<1> DEFINE v == logger_offset(w + len)
<1>3. v = IF w + len < Size THEN w + len ELSE w + len - Size
  BY <1>1, OffsetCases
<1>4. v \in 0..(Size - 1)
  BY <1>1, <1>3
<1> HIDE DEF v
<1>5. logger_offset(v - c) = IF v - c < 0 THEN v - c + Size ELSE v - c
  BY <1>1, <1>4, OffsetCases
<1>. QED  BY <1>1, <1>2, <1>3, <1>4, <1>5 DEF v

(* The same byte, seen from before and after a write of len bytes.          *)
LEMMA SameByte ==
    ASSUME NEW w \in Offsets, NEW len \in 0..(Size - 1), NEW d \in 0..(Size - 1),
           d + len < Size, NEW k \in 0..(d + len)
    PROVE  logger_offset(logger_offset(w + len) - (d + len) + k) = logger_offset(w - d + k)
<1>1. w \in 0..(Size - 1) /\ Size \in Nat \ {0}
  BY LoggerConstants DEF Offsets
<1> DEFINE v == logger_offset(w + len)
<1>2. v = IF w + len < Size THEN w + len ELSE w + len - Size
  BY <1>1, OffsetCases
<1>3. v \in 0..(Size - 1)
  BY <1>1, <1>2
<1> HIDE DEF v
<1> DEFINE x == w - d + k
           y == v - (d + len) + k
<1>4. /\ x \in Int /\ y \in Int /\ -Size <= x /\ x < Size + Size
      /\ -Size <= y /\ y < Size + Size /\ (y = x \/ y = x - Size)
  BY <1>1, <1>2, <1>3
<1> HIDE DEF x, y
<1>5. /\ logger_offset(x) = IF x < 0 THEN x + Size ELSE IF x < Size THEN x ELSE x - Size
      /\ logger_offset(y) = IF y < 0 THEN y + Size ELSE IF y < Size THEN y ELSE y - Size
  BY <1>4, OffsetCases
<1>6. logger_offset(x) = logger_offset(y)
  BY <1>1, <1>4, <1>5
<1>. QED  BY <1>6 DEF v, x, y

(* A byte d - k bytes back from w is not among the n that are written.      *)
LEMMA KeptByte ==
    ASSUME NEW w \in Offsets, NEW d \in 0..(Size - 1), NEW k \in 0..(d - 1),
           NEW n \in Nat, d + n <= Size
    PROVE  /\ logger_offset(w - d + k) \in Offsets
           /\ ~(logger_offset(logger_offset(w - d + k) - w) < n)
<1>1. w \in 0..(Size - 1) /\ Size \in Nat \ {0}
  BY LoggerConstants DEF Offsets
<1> DEFINE x == logger_offset(w - d + k)
<1>2. x = IF w - d + k < 0 THEN w - d + k + Size ELSE w - d + k
  BY <1>1, OffsetCases
<1>3. x \in 0..(Size - 1)
  BY <1>1, <1>2
<1> HIDE DEF x
<1>4. logger_offset(x - w) = IF x - w < 0 THEN x - w + Size ELSE x - w
  BY <1>1, <1>3, OffsetCases
<1>5. ~(logger_offset(x - w) < n)
  BY <1>1, <1>2, <1>3, <1>4
<1>. QED  BY <1>3, <1>5 DEF x, Offsets

(* The length of an entry that has been begun does not change.              *)
LEMMA LensType ==
    ASSUME LoggerTypeOK, NEW e \in whole, NEW len \in (HeaderLen + 1)..EntryMaxLen
    PROVE  /\ e \in Nat \ {0} /\ lens[e] \in (HeaderLen + 1)..EntryMaxLen
           /\ Append(lens, len)[e] = lens[e]
<1>1. lens \in Seq((HeaderLen + 1)..EntryMaxLen) /\ whole \subseteq 1..Len(lens)
  BY DEF LoggerTypeOK
<1>2. e \in 1..Len(lens) /\ Len(lens) \in Nat
  BY <1>1
<1> DEFINE S == (HeaderLen + 1)..EntryMaxLen
<1>3. lens \in Seq(S) /\ len \in S
  BY <1>1
<1> HIDE DEF S
<1>4. lens[e] \in S /\ Append(lens, len)[e] = lens[e]
  BY <1>2, <1>3
<1>5. e \in Nat \ {0}
  BY <1>2
<1>. QED  BY <1>4, <1>5 DEF S

(* With one writer get_entry_len reads the length of an entry wherever a    *)
(* reader stands.                                                           *)
LEMMA EntryRead ==
    ASSUME LoggerTypeOK, NEW D \in SUBSET Offsets, Chain(D), NEW c \in Offsets,
           Dist(c) \in D \ {0}
    PROVE  LET nr == get_entry_len(c) IN
           /\ nr \in (HeaderLen + 1)..EntryMaxLen /\ nr <= Dist(c) /\ Dist(c) - nr \in D
           /\ EntryAt(c, nr) # Garbage
<1> DEFINE d == Dist(c)
<1>1. PICK e \in whole : EntryBack(d, e) /\ d - lens[e] \in D
  BY DEF Chain
<1>2. /\ e \in Nat \ {0} /\ lens[e] \in (HeaderLen + 1)..EntryMaxLen
      /\ w_off \in Offsets /\ lens[e] <= d /\ d \in Offsets
  <2>1. w_off \in Offsets
    BY DEF LoggerTypeOK
  <2>2. HeaderLen + 1 \in (HeaderLen + 1)..EntryMaxLen
    BY LoggerConstants
  <2>3. lens[e] \in (HeaderLen + 1)..EntryMaxLen /\ e \in Nat \ {0}
    BY <2>2, LensType
  <2>. QED  BY <1>1, <2>1, <2>3 DEF EntryBack
<1>3. d = logger_offset(w_off - c) /\ d \in Nat /\ HeaderLen \in Nat /\ HeaderLen >= 2
      /\ EntryMaxLen \in Nat
  BY <1>2, LoggerConstants DEF Dist, Offsets
<1> HIDE DEF d
<1>4. ASSUME NEW k \in 0..(lens[e] - 1) PROVE buffer[logger_offset(c + k)] = <<e, k>>
  <2>1. k \in 0..d
    BY <1>2, <1>3
  <2>2. logger_offset(c + k) = logger_offset(w_off - d + k)
    BY <1>2, <1>3, <2>1, StepBack
  <2>. QED  BY <1>1, <2>2 DEF EntryBack
<1>5. buffer[c] = <<e, 0>> /\ buffer[logger_offset(c + 1)] = <<e, 1>>
  <2>1. 0 \in 0..(lens[e] - 1) /\ 1 \in 0..(lens[e] - 1)
    BY <1>2, <1>3
  <2>2. logger_offset(c + 0) = c
    <3>1. c \in 0..(Size - 1) /\ Size \in Nat \ {0} /\ c + 0 = c
      BY LoggerConstants DEF Offsets
    <3>2. logger_offset(c) = c
      BY <3>1, OffsetCases
    <3>. QED  BY <3>1, <3>2
  <2>3. buffer[logger_offset(c + 0)] = <<e, 0>> /\ buffer[logger_offset(c + 1)] = <<e, 1>>
    BY <1>4, <2>1
  <2>. QED  BY <2>2, <2>3
<1>6. get_entry_len(c) = lens[e]
  BY <1>2, <1>5 DEF get_entry_len, LenOf, NoEntry
<1>7. EntryAt(c, lens[e]) = e
  BY <1>1, <1>4, <1>5 DEF EntryAt
<1>. QED  BY <1>1, <1>2, <1>6, <1>7 DEF Garbage, d

(* fix_up_readers moves a reader from entry to entry, out of the way of the *)
(* write and less than one entry too far.                                   *)
LEMMA ChainPull ==
    ASSUME LoggerTypeOK, BytesInv, NEW D \in SUBSET Offsets, Chain(D), NEW c \in Offsets,
           Dist(c) \in D, NEW len \in 1..EntryMaxLen
    PROVE  /\ Dist(Pulled(c, len)) \in D /\ Dist(Pulled(c, len)) + len < Size
           /\ (Pulled(c, len) - c) % Size < len + EntryMaxLen
<1> DEFINE d == Dist(c)
<1>1. /\ w_off \in Offsets /\ Size \in Nat \ {0} /\ EntryMaxLen \in Nat /\ 2 * len <= Size
      /\ len \in Nat \ {0} /\ c \in Int /\ d \in 0..(Size - 1)
  <2>1. w_off \in Offsets /\ d \in Offsets
    BY DEF LoggerTypeOK
  <2> HIDE DEF d
  <2>. QED  BY <2>1, LoggerConstants DEF Offsets
<1>2. clock_interval(w_off, logger_offset(w_off + len), c) <=> d + len >= Size
  BY <1>1, CrossedWhenFull DEF Dist, logger_offset
<1> HIDE DEF d
<1>3. CASE d + len < Size
  <2>1. Pulled(c, len) = c
    BY <1>1, <1>2, <1>3 DEF Pulled
  <2>2. (c - c) % Size = 0
    <3>1. c - c = 0
      BY <1>1
    <3>. QED  BY <1>1, <3>1, WrapDown
  <2>. QED  BY <1>1, <1>3, <2>1, <2>2 DEF d
<1>4. CASE d + len >= Size
  <2> DEFINE P == {m \in 0..d : d - m \in D}
  <2>1. 0 \in P
    BY <1>1 DEF d
  <2>2. ASSUME NEW m \in 0..(len - 1), m \in P
        PROVE  LET nr == get_entry_len(logger_offset(c + m)) IN m + nr \in P /\ nr <= EntryMaxLen
    <3> DEFINE o == logger_offset(c + m)
    <3>1. m \in 0..d /\ d - m \in D /\ d - m # 0
      BY <1>1, <1>4, <2>2
    <3>2. o \in Offsets /\ Dist(o) = d - m
      BY <1>1, <3>1, StepBack DEF Dist, d
    <3> DEFINE nr == get_entry_len(o)
    <3> HIDE DEF o
    <3>3. nr \in (HeaderLen + 1)..EntryMaxLen /\ nr <= Dist(o) /\ Dist(o) - nr \in D
      BY <3>1, <3>2, EntryRead
    <3> HIDE DEF nr
    <3>4. m + nr \in 0..d /\ d - (m + nr) = Dist(o) - nr /\ nr <= EntryMaxLen
      BY <1>1, <3>1, <3>2, <3>3, LoggerConstants
    <3>5. m + nr \in P
      BY <3>3, <3>4
    <3>. QED  BY <3>4, <3>5 DEF nr, o
  <2> HIDE DEF P
  <2>3. PICK m \in len..(len + EntryMaxLen - 1) :
            m \in P /\ get_next_entry(c, len) = logger_offset(c + m)
    BY <1>1, <2>1, <2>2, NextEntry
  <2>4. Pulled(c, len) = logger_offset(c + m)
    BY <1>2, <1>4, <2>3 DEF Pulled
  <2>5. m \in 0..d /\ d - m \in D /\ m \in 0..(Size - 1)
    BY <1>1, <2>3 DEF P
  <2>6. Dist(logger_offset(c + m)) = d - m
    BY <1>1, <2>5, StepBack DEF Dist, d
  <2>7. (logger_offset(c + m) - c) % Size = m
    BY <2>5, MovedBy
  <2>. QED  BY <1>1, <2>3, <2>4, <2>5, <2>6, <2>7
<1>. QED  BY <1>1, <1>3, <1>4

(* An entry that starts far enough back keeps its bytes and its length.     *)
LEMMA EntryKept ==
    ASSUME LoggerTypeOK, NEW d \in Offsets, NEW e \in whole, EntryBack(d, e),
           NEW len \in (HeaderLen + 1)..EntryMaxLen, NEW n \in 0..len, d + len < Size,
           lens' = Append(lens, len), buffer' = Copied(Len(lens) + 1, n)
    PROVE  /\ lens'[e] = lens[e] /\ lens[e] \in Nat \ {0} /\ lens[e] <= d
           /\ \A k \in 0..(lens[e] - 1) : buffer'[logger_offset(w_off - d + k)] = <<e, k>>
<1>1. w_off \in Offsets
  BY DEF LoggerTypeOK
<1>2. /\ lens'[e] = lens[e] /\ lens[e] \in Nat \ {0} /\ lens[e] <= d
      /\ Size \in Nat \ {0} /\ d \in 0..(Size - 1) /\ len \in Nat
  <2>1. lens[e] \in (HeaderLen + 1)..EntryMaxLen /\ lens'[e] = lens[e]
    BY LensType
  <2>. QED  BY <2>1, LoggerConstants DEF EntryBack, Offsets
<1>3. ASSUME NEW k \in 0..(lens[e] - 1)
      PROVE  buffer'[logger_offset(w_off - d + k)] = <<e, k>>
  <2> DEFINE o == logger_offset(w_off - d + k)
  <2>1. k \in 0..(d - 1) /\ n \in Nat /\ d + n <= Size
    BY <1>2
  <2>2. o \in Offsets /\ ~(logger_offset(o - w_off) < n)
    BY <1>1, <1>2, <2>1, KeptByte
  <2>3. buffer[o] = <<e, k>>
    BY DEF EntryBack
  <2> HIDE DEF o
  <2>4. buffer'[o] = buffer[o]
    BY <2>2 DEF Copied, logger_offset
  <2>. QED  BY <2>3, <2>4 DEF o
<1>. QED  BY <1>2, <1>3

(* What the critical section of a write does to the chain, whether it fails *)
(* and goes back or succeeds and adds its entry.                            *)
LEMMA ChainWrite ==
    ASSUME LoggerTypeOK, BytesInv, ChainInv, NEW len \in (HeaderLen + 1)..EntryMaxLen,
           NEW n \in 0..len, Len(lens) < MaxEntries, open' = open,
           lens' = Append(lens, len), fix_up_readers(len), buffer' = Copied(Len(lens) + 1, n),
           \/ w_off' = w_off /\ whole' = whole
           \/ /\ w_off' = logger_offset(w_off + len) /\ n = len
              /\ whole' = whole \cup {Len(lens) + 1}
    PROVE  /\ ChainInv'
           /\ \A r \in open : (r_off'[r] - r_off[r]) % Size < len + EntryMaxLen
<1> PICK D \in SUBSET Offsets :
          Chain(D) /\ Dist(head) \in D /\ \A r \in open : Dist(r_off[r]) \in D
  BY DEF ChainInv
<1> PICK K : K = {d \in D : d + len < Size}
  OBVIOUS
<1>1. /\ w_off \in Offsets /\ head \in Offsets /\ r_off \in [Readers -> Offsets]
      /\ open \subseteq Readers /\ whole \subseteq 1..Len(lens) /\ Len(lens) \in Nat
  BY DEF LoggerTypeOK
<1>2. /\ Size \in Nat \ {0} /\ len \in 1..EntryMaxLen /\ len \in 1..(Size - 1)
      /\ D \subseteq 0..(Size - 1)
  BY LoggerConstants DEF Offsets
<1>3. /\ head' = Pulled(head, len)
      /\ \A r \in open : r_off'[r] = Pulled(r_off[r], len)
  <2>1. /\ head' = Pulled(head, len)
        /\ r_off' = [r \in Readers |-> IF r \in open THEN Pulled(r_off[r], len) ELSE r_off[r]]
    BY DEF fix_up_readers, Pulled
  <2>. QED  BY <1>1, <2>1
<1>4. ASSUME NEW c \in Offsets, Dist(c) \in D
      PROVE  /\ Pulled(c, len) \in Offsets /\ Dist(Pulled(c, len)) \in K
             /\ (Pulled(c, len) - c) % Size < len + EntryMaxLen
  BY <1>2, <1>4, ChainPull, PulledBy
<1>5. \A r \in open : (r_off'[r] - r_off[r]) % Size < len + EntryMaxLen
  BY <1>1, <1>3, <1>4
<1>6. /\ head' \in Offsets /\ Dist(head') \in K
      /\ \A r \in open : r_off'[r] \in Offsets /\ Dist(r_off'[r]) \in K
  BY <1>1, <1>3, <1>4
<1>7. ASSUME NEW d \in K, d # 0
      PROVE  \E e \in whole :
                /\ lens'[e] = lens[e] /\ lens[e] \in Nat \ {0} /\ lens[e] <= d
                /\ d - lens[e] \in K
                /\ \A k \in 0..(lens[e] - 1) : buffer'[logger_offset(w_off - d + k)] = <<e, k>>
  <2>1. d \in D \ {0} /\ d + len < Size /\ d \in Offsets
    BY <1>7
  <2>2. PICK e \in whole : EntryBack(d, e) /\ d - lens[e] \in D
    BY <2>1 DEF Chain
  <2>3. /\ lens'[e] = lens[e] /\ lens[e] \in Nat \ {0} /\ lens[e] <= d
        /\ \A k \in 0..(lens[e] - 1) : buffer'[logger_offset(w_off - d + k)] = <<e, k>>
    BY <2>1, <2>2, EntryKept
  <2>4. d - lens[e] \in K
    BY <1>2, <2>1, <2>2, <2>3
  <2>. QED  BY <2>3, <2>4
<1>8. 0 \in K
  BY <1>2 DEF Chain
<1>9. K \subseteq D /\ \A d \in K : d \in 0..(Size - 1) /\ d + len < Size
  BY <1>2
<1>10. CASE w_off' = w_off /\ whole' = whole
  <2>1. Chain(K)'
    <3>1. ASSUME NEW d \in K, d # 0
          PROVE  \E e \in whole' : EntryBack(d, e)' /\ (d - lens[e] \in K)'
      BY <1>7, <1>10, <3>1 DEF EntryBack
    <3>. QED  BY <1>8, <3>1 DEF Chain
  <2>2. Dist(head)' \in K /\ \A r \in open' : Dist(r_off[r])' \in K
    BY <1>6, <1>10 DEF Dist
  <2>3. K \in SUBSET Offsets
    BY <1>9
  <2>. QED  BY <1>5, <2>1, <2>2, <2>3 DEF ChainInv, Offsets
<1>11. CASE /\ w_off' = logger_offset(w_off + len) /\ n = len
            /\ whole' = whole \cup {Len(lens) + 1}
  <2>0. PICK new \in Nat : new = Len(lens) + 1
    BY <1>1
  <2>2. PICK M \in SUBSET Offsets : M = {0} \cup {d + len : d \in K}
    <3> DEFINE S == {0} \cup {d + len : d \in K}
    <3>1. \A d \in K : d + len \in 0..(Size - 1)
      BY <1>2, <1>9
    <3>2. S \in SUBSET Offsets
      BY <1>2, <3>1 DEF Offsets
    <3> HIDE DEF S
    <3>3. \E M \in SUBSET Offsets : M = S
      BY <3>2
    <3>. QED  BY <3>3 DEF S
  <2>1. /\ \A d \in K : d + len \in M
        /\ 0 \in M /\ \A x \in M : x # 0 => \E d \in K : x = d + len
    BY <2>2
  <2>3. ASSUME NEW d \in K, NEW k \in 0..(d + len)
        PROVE  logger_offset(w_off' - (d + len) + k) = logger_offset(w_off - d + k)
    <3>1. d \in 0..(Size - 1) /\ d + len < Size /\ len \in 0..(Size - 1) /\ w_off \in Offsets
      BY <1>1, <1>2, <1>9
    <3>2. logger_offset(logger_offset(w_off + len) - (d + len) + k) = logger_offset(w_off - d + k)
      BY <3>1, SameByte
    <3>. QED  BY <1>11, <3>2
  <2>4. \E e \in whole' : EntryBack(len, e)' /\ (len - lens[e] \in M)'
    <3>1. new \in whole' /\ lens'[new] = len
      <4>1. lens \in Seq((HeaderLen + 1)..EntryMaxLen)
        BY DEF LoggerTypeOK
      <4>. QED  BY <1>11, <2>0, <4>1
    <3>2. ASSUME NEW k \in 0..(len - 1)
          PROVE  buffer'[logger_offset(w_off' - len + k)] = <<new, k>>
      <4> DEFINE o == logger_offset(w_off + k)
      <4>1. k \in 0..(Size - 1) /\ w_off + k \in Int /\ k \in 0..(0 + len) /\ k < n
            /\ w_off \in Int /\ 0 + len = len /\ w_off - 0 + k = w_off + k
        BY <1>1, <1>2, <1>11 DEF Offsets
      <4>2. o \in Offsets /\ (o - w_off) % Size = k
        BY <1>1, <4>1, MovedBy, OffsetType
      <4>3. logger_offset(w_off' - len + k) = o
        <5>1. logger_offset(w_off' - (0 + len) + k) = logger_offset(w_off - 0 + k)
          BY <1>8, <2>3, <4>1
        <5>. QED  BY <4>1, <5>1
      <4> HIDE DEF o
      <4>4. buffer'[o] = <<new, k>>
        BY <2>0, <4>1, <4>2 DEF Copied
      <4>. QED  BY <4>3, <4>4
    <3>3. len <= len /\ len - len = 0 /\ 0 \in M
      BY <1>2, <2>1
    <3>4. EntryBack(len, new)'
      BY <3>1, <3>2, <3>3 DEF EntryBack
    <3>5. (len - lens[new] \in M)'
      BY <3>1, <3>3
    <3>. QED  BY <3>1, <3>4, <3>5
  <2>5. ASSUME NEW d \in K, d # 0, NEW x \in M, x = d + len
        PROVE  \E e \in whole' : EntryBack(x, e)' /\ (x - lens[e] \in M)'
    <3>1. PICK e \in whole :
                /\ lens'[e] = lens[e] /\ lens[e] \in Nat \ {0} /\ lens[e] <= d
                /\ d - lens[e] \in K
                /\ \A k \in 0..(lens[e] - 1) : buffer'[logger_offset(w_off - d + k)] = <<e, k>>
      BY <1>7, <2>5
    <3>2. x - lens[e] \in M /\ e \in whole' /\ lens[e] <= x
      <4>1. x - lens[e] = (d - lens[e]) + len /\ lens[e] <= x
        BY <1>2, <1>9, <2>5, <3>1
      <4>. QED  BY <1>11, <2>1, <3>1, <4>1
    <3>3. ASSUME NEW k \in 0..(lens[e] - 1)
          PROVE  buffer'[logger_offset(w_off' - x + k)] = <<e, k>>
      <4>1. k \in 0..(d + len)
        BY <1>2, <1>9, <3>1
      <4>2. logger_offset(w_off' - x + k) = logger_offset(w_off - d + k)
        BY <2>3, <2>5, <4>1
      <4>. QED  BY <3>1, <4>2
    <3>4. EntryBack(x, e)'
      BY <3>1, <3>2, <3>3 DEF EntryBack
    <3>. QED  BY <3>1, <3>2, <3>4
  <2>6. Chain(M)'
    <3>1. ASSUME NEW x \in M, x # 0
          PROVE  \E e \in whole' : EntryBack(x, e)' /\ (x - lens[e] \in M)'
      <4>1. PICK d \in K : x = d + len
        BY <2>1, <3>1
      <4>2. CASE d = 0
        <5>1. x = len
          BY <1>2, <4>1, <4>2
        <5>. QED  BY <2>4, <5>1
      <4>3. CASE d # 0
        BY <2>5, <4>1, <4>3
      <4>. QED  BY <4>2, <4>3
    <3>. QED  BY <2>1, <3>1 DEF Chain
  <2>7. ASSUME NEW c \in Offsets, Dist(c) \in K
        PROVE  logger_offset(w_off' - c) \in M
    <3>1. Dist(c) + len < Size /\ Dist(c) + len \in M /\ len \in 0..(Size - 1)
      <4> DEFINE d == Dist(c)
      <4>1. d \in K
        BY <2>7
      <4> HIDE DEF d
      <4>2. d + len < Size /\ d + len \in M /\ len \in 0..(Size - 1)
        BY <1>2, <1>9, <2>1, <4>1
      <4>. QED  BY <4>2 DEF d
    <3>2. logger_offset(w_off' - c) = Dist(c) + len
      BY <1>1, <1>11, <3>1, StepOn DEF Dist
    <3>. QED  BY <3>1, <3>2
  <2>8. Dist(head)' \in M /\ \A r \in open' : Dist(r_off[r])' \in M
    BY <1>6, <2>7 DEF Dist
  <2>. QED  BY <1>5, <2>2, <2>6, <2>8 DEF ChainInv, Offsets
<1>. QED  BY <1>10, <1>11

(* A step that writes nothing keeps the chain if head and the readers stay  *)
(* on it.                                                                   *)
LEMMA ChainFrame ==
    ASSUME NEW D \in SUBSET Offsets, Chain(D), UNCHANGED <<buffer, w_off, lens, whole>>,
           Dist(head') \in D, \A r \in open' : Dist(r_off'[r]) \in D
    PROVE  ChainInv'
<1>1. Chain(D)'
  BY DEF Chain, EntryBack
<1>2. Dist(head)' \in D /\ \A r \in open' : Dist(r_off[r])' \in D
  BY DEF Dist
<1>. QED  BY <1>1, <1>2 DEF ChainInv, Offsets

\* What is kept with one writer, besides LoggerInv.
WholeInv == ChainInv /\ ReadsWholeEntries

LEMMA WholeInit == ASSUME LoggerInit PROVE WholeInv
<1>1. /\ w_off = 0 /\ head = 0 /\ open = {} /\ got = [r \in Readers |-> NoEntry]
  BY DEF LoggerInit
<1>2. {0} \in SUBSET Offsets /\ Dist(head) = 0
  <2>1. Size \in Nat \ {0} /\ Size > 0
    BY LoggerConstants
  <2>2. logger_offset(0) = 0
    BY <2>1, OffsetCases
  <2>. QED  BY <1>1, <2>1, <2>2 DEF Dist, Offsets
<1>3. Chain({0})
  BY DEF Chain
<1>4. ReadsWholeEntries
  <2>1. NoEntry # Garbage
    BY DEF NoEntry, Garbage
  <2>2. \A r \in Readers : got[r] = NoEntry
    BY <1>1
  <2>. QED  BY <2>1, <2>2 DEF ReadsWholeEntries
<1>. QED  BY <1>1, <1>2, <1>3, <1>4 DEF WholeInv, ChainInv

\* What a write may take from a reader.
LossStep ==
    \A r \in open : Len(lens') > Len(lens) =>
        (r_off'[r] - r_off[r]) % Size < lens'[Len(lens')] + EntryMaxLen

(* A write that succeeds adds its entry to the chain; one that fails cuts   *)
(* the chain short of the bytes it has touched.                             *)
LEMMA WholeWrite ==
    ASSUME OneWriter, LoggerInv, WholeInv,
           NEW w \in Writers, NEW n \in Requests, NEW p \in 0..MaxPayload,
           do_write_log(w, n) \/ do_write_log_from_user_fails(w, n, p)
    PROVE  WholeInv' /\ LossStep
<1> DEFINE len == EntryLen(n)
<1>1. /\ n > 0 /\ Len(lens) < MaxEntries /\ lens' = Append(lens, len) /\ fix_up_readers(len)
      /\ open' = open /\ got' = got
      /\ \/ /\ buffer' = Copied(Len(lens) + 1, len) /\ w_off' = logger_offset(w_off + len)
            /\ whole' = whole \cup {Len(lens) + 1}
         \/ /\ p \in 0..(len - HeaderLen) /\ buffer' = Copied(Len(lens) + 1, HeaderLen + p)
            /\ w_off' = w_off /\ whole' = whole
  BY DEF do_write_log, do_write_log_from_user_fails, LoggerInv, OrigInv
<1>2. len \in (HeaderLen + 1)..EntryMaxLen /\ LoggerTypeOK /\ BytesInv
  BY <1>1, EntryLenType, LoggerConstants DEF LoggerInv
<1> HIDE DEF len
<1>3. PICK k \in 0..len :
        /\ buffer' = Copied(Len(lens) + 1, k)
        /\ \/ w_off' = w_off /\ whole' = whole
           \/ /\ w_off' = logger_offset(w_off + len) /\ k = len
              /\ whole' = whole \cup {Len(lens) + 1}
  <2>1. len \in 0..len /\ (p \in 0..(len - HeaderLen) => HeaderLen + p \in 0..len)
    BY <1>2, LoggerConstants
  <2>. QED  BY <1>1, <2>1
<1>4. /\ ChainInv'
      /\ \A r \in open : (r_off'[r] - r_off[r]) % Size < len + EntryMaxLen
  BY <1>1, <1>2, <1>3, ChainWrite DEF WholeInv
<1>5. lens'[Len(lens')] = len
  BY <1>1, <1>2, <1>3, WriteEffect
<1>6. ReadsWholeEntries'
  BY <1>1 DEF WholeInv, ReadsWholeEntries
<1>. QED  BY <1>4, <1>5, <1>6 DEF WholeInv, LossStep

(* Where a reader goes that returns an entry: to the next one.              *)
LEMMA WholeRead ==
    ASSUME LoggerInv, WholeInv, NEW r \in Readers, do_read_log_to_user(r)
    PROVE  WholeInv'
<1> DEFINE c == r_off[r]
           nr == get_entry_len(c)
<1>1. /\ reading[r] = "read" /\ w_off # c
      /\ got' = [got EXCEPT ![r] = EntryAt(c, nr)]
      /\ r_off' = [r_off EXCEPT ![r] = logger_offset(c + nr)]
      /\ UNCHANGED <<buffer, w_off, head, open, waiting, writing, orig, lens, whole>>
  BY DEF do_read_log_to_user
<1>2. /\ LoggerTypeOK /\ r \in open /\ c \in Offsets /\ w_off \in Offsets
      /\ r_off \in [Readers -> Offsets] /\ open \subseteq Readers
      /\ got \in [Readers -> Garbage..MaxEntries]
  BY <1>1 DEF LoggerInv, LoggerTypeOK, FilesInv
<1> PICK D \in SUBSET Offsets :
          Chain(D) /\ Dist(head) \in D /\ \A q \in open : Dist(r_off[q]) \in D
  BY DEF WholeInv, ChainInv
<1>3. Dist(c) \in D \ {0}
  <2>1. Dist(c) \in D
    BY <1>2
  <2>2. w_off \in 0..(Size - 1) /\ c \in 0..(Size - 1) /\ Size \in Nat \ {0}
    BY <1>2, LoggerConstants DEF Offsets
  <2> HIDE DEF c
  <2>3. logger_offset(w_off - c) = IF w_off - c < 0 THEN w_off - c + Size ELSE w_off - c
    BY <2>2, OffsetCases
  <2>4. Dist(c) # 0
    BY <1>1, <2>2, <2>3 DEF Dist
  <2>. QED  BY <2>1, <2>4
<1> HIDE DEF c
<1>4. /\ nr \in (HeaderLen + 1)..EntryMaxLen /\ nr <= Dist(c) /\ Dist(c) - nr \in D
      /\ EntryAt(c, nr) # Garbage
  BY <1>2, <1>3, EntryRead
<1> HIDE DEF nr
<1>5. Dist(logger_offset(c + nr)) = Dist(c) - nr
  <2>1. Dist(c) \in Nat /\ HeaderLen \in Nat /\ EntryMaxLen \in Nat
    <3>1. Dist(c) \in Offsets
      BY <1>3
    <3>. QED  BY <3>1, LoggerConstants DEF Offsets
  <2>2. nr \in 0..Dist(c)
    BY <1>4, <2>1
  <2>. QED  BY <1>2, <2>2, StepBack DEF Dist
<1>6. \A q \in open' : Dist(r_off'[q]) \in D
  BY <1>1, <1>2, <1>4, <1>5
<1>7. ChainInv'
  BY <1>1, <1>6, ChainFrame
<1>8. ReadsWholeEntries'
  BY <1>1, <1>2, <1>4 DEF WholeInv, ReadsWholeEntries
<1>. QED  BY <1>7, <1>8 DEF WholeInv

(* Every step keeps the chain, and no write takes too much.                 *)
LEMMA WholeNext ==
    ASSUME OneWriter, LoggerInv, WholeInv, [LoggerNext]_loggerVars
    PROVE  WholeInv' /\ (Len(lens') > Len(lens) => LossStep)
<1> PICK D \in SUBSET Offsets :
          Chain(D) /\ Dist(head) \in D /\ \A q \in open : Dist(r_off[q]) \in D
  BY DEF WholeInv, ChainInv
<1>1. /\ r_off \in [Readers -> Offsets] /\ open \subseteq Readers /\ w_off \in Offsets
      /\ got \in [Readers -> Garbage..MaxEntries]
  BY DEF LoggerInv, LoggerTypeOK
<1>2. CASE UNCHANGED <<buffer, w_off, head, r_off, open, lens, whole, got>>
  <2>1. ChainInv'
    BY <1>2, ChainFrame
  <2>. QED  BY <1>2, <2>1 DEF WholeInv, ReadsWholeEntries, LossStep
<1>3. ASSUME NEW w \in Writers, NEW n \in Requests, NEW p \in 0..MaxPayload,
             do_write_log(w, n) \/ do_write_log_from_user_fails(w, n, p)
      PROVE  WholeInv' /\ LossStep
  BY <1>3, WholeWrite
<1>4. ASSUME NEW r \in Readers, logger_open(r) \/ logger_release(r)
      PROVE  WholeInv' /\ UNCHANGED lens
  <2>1. /\ UNCHANGED <<buffer, w_off, head, lens, whole>>
        /\ \/ open' = open \cup {r} /\ r_off' = [r_off EXCEPT ![r] = head]
           \/ open' = open \ {r} /\ r_off' = [r_off EXCEPT ![r] = 0]
        /\ got' = [got EXCEPT ![r] = NoEntry]
    BY <1>4 DEF logger_open, logger_release
  <2>2. \A q \in open' : Dist(r_off'[q]) \in D
    BY <1>1, <2>1
  <2>3. ChainInv'
    BY <2>1, <2>2, ChainFrame
  <2>4. ReadsWholeEntries'
    BY <1>1, <2>1 DEF WholeInv, ReadsWholeEntries, NoEntry, Garbage
  <2>. QED  BY <2>1, <2>3, <2>4 DEF WholeInv
<1>5. ASSUME NEW r \in Readers, do_read_log_to_user(r)
      PROVE  WholeInv' /\ UNCHANGED lens
  <2>1. WholeInv'
    BY <1>5, WholeRead
  <2>. QED  BY <1>5, <2>1 DEF do_read_log_to_user
<1>6. ASSUME logger_flush
      PROVE  WholeInv' /\ UNCHANGED lens
  <2>1. /\ UNCHANGED <<buffer, w_off, open, lens, whole, got>> /\ head' = w_off
        /\ r_off' = [r \in Readers |-> IF r \in open THEN w_off ELSE r_off[r]]
    BY <1>6 DEF logger_flush
  <2>2. Dist(w_off) = 0
    <3>1. w_off - w_off = 0 /\ Size \in Nat \ {0} /\ Size > 0
      BY <1>1, LoggerConstants DEF Offsets
    <3>2. logger_offset(0) = 0
      BY <3>1, OffsetCases
    <3>. QED  BY <3>1, <3>2 DEF Dist
  <2>3. Dist(head') \in D /\ \A q \in open' : Dist(r_off'[q]) \in D
    BY <1>1, <2>1, <2>2 DEF Chain
  <2>4. ChainInv'
    BY <2>1, <2>3, ChainFrame
  <2>. QED  BY <2>1, <2>4 DEF WholeInv, ReadsWholeEntries
<1>7. 0 \in 0..MaxPayload /\ ~(Len(lens) > Len(lens))
  <2>1. Len(lens) \in Nat
    BY DEF LoggerInv, LoggerTypeOK
  <2>. QED  BY <2>1, LoggerConstants
<1>8. \/ UNCHANGED <<buffer, w_off, head, r_off, open, lens, whole, got>>
      \/ \E w \in Writers, n \in Requests :
            \/ do_write_log(w, n)
            \/ \E p \in 0..MaxPayload : do_write_log_from_user_fails(w, n, p)
      \/ \E r \in Readers : logger_open(r) \/ logger_release(r) \/ do_read_log_to_user(r)
      \/ logger_flush
  BY DEF LoggerNext, loggerVars, logger_aio_write, write_nothing, wake_up_interruptible,
     read_gives_up, read_signal, read_fails, ReaderStep, logger_read, read_check, read_raced
<1>. QED  BY <1>2, <1>3, <1>4, <1>5, <1>6, <1>7, <1>8

(* What a step does to the readers whose files are open.                    *)
RoomStep ==
    \A r \in open :
        /\ Len(lens') > Len(lens)
        /\ ((w_off - r_off[r]) % Size) + lens'[Len(lens')] < Size
        => r_off'[r] = r_off[r]

(* fix_up_readers moves a reader only if it must.                           *)
LEMMA WriteLoses ==
    ASSUME LoggerInv, NEW w \in Writers, NEW n \in Requests, NEW p \in 0..MaxPayload,
           do_write_log(w, n) \/ do_write_log_from_user_fails(w, n, p)
    PROVE  RoomStep
<1> DEFINE len == EntryLen(n)
<1>1. /\ n > 0 /\ Len(lens) < MaxEntries /\ lens' = Append(lens, len) /\ fix_up_readers(len)
      /\ \/ buffer' = Copied(Len(lens) + 1, len)
         \/ p \in 0..(len - HeaderLen) /\ buffer' = Copied(Len(lens) + 1, HeaderLen + p)
  BY DEF do_write_log, do_write_log_from_user_fails
<1>2. len \in (HeaderLen + 1)..EntryMaxLen /\ LoggerTypeOK /\ BytesInv
  BY <1>1, EntryLenType, LoggerConstants DEF LoggerInv
<1> HIDE DEF len
<1>3. PICK k \in 0..len : buffer' = Copied(Len(lens) + 1, k)
  <2>1. len \in 0..len /\ (p \in 0..(len - HeaderLen) => HeaderLen + p \in 0..len)
    BY <1>2, LoggerConstants
  <2>. QED  BY <1>1, <2>1
<1>4. lens'[Len(lens')] = len /\ \A r \in open : r_off'[r] = Pulled(r_off[r], len)
  BY <1>1, <1>2, <1>3, WriteEffect
<1>5. ASSUME NEW r \in open, ((w_off - r_off[r]) % Size) + len < Size
      PROVE  r_off'[r] = r_off[r]
  <2>1. r_off[r] \in Offsets /\ len \in 1..EntryMaxLen
    BY <1>2, LoggerConstants DEF LoggerTypeOK
  <2>. QED  BY <1>2, <1>4, <1>5, <2>1, PulledBy
<1>. QED  BY <1>4, <1>5 DEF RoomStep

(* Only a write can take entries away that way.                             *)
LEMMA RoomNext == ASSUME LoggerInv, [LoggerNext]_loggerVars PROVE RoomStep
<1>1. CASE lens' = lens
  <2>1. Len(lens) \in Nat
    BY DEF LoggerInv, LoggerTypeOK
  <2>. QED  BY <1>1, <2>1 DEF RoomStep
<1>2. CASE lens' # lens
  <2>1. PICK w \in Writers, n \in Requests : \/ do_write_log(w, n)
                     \/ \E p \in 0..MaxPayload : do_write_log_from_user_fails(w, n, p)
    BY <1>2 DEF LoggerNext, loggerVars, logger_aio_write, write_nothing,
       wake_up_interruptible, logger_open, logger_release, read_gives_up, read_signal,
       read_fails, ReaderStep, logger_read, read_check, do_read_log_to_user, read_raced,
       logger_flush
  <2>2. 0 \in 0..MaxPayload
    BY LoggerConstants
  <2>. QED  BY <2>1, <2>2, WriteLoses
<1>. QED  BY <1>1, <1>2

----------------------------------------------------------------------------
(* Whatever is written, by however many tasks, whichever writes fail, and   *)
(* whatever the bytes that get_entry_len takes for a length mean, the       *)
(* offsets of the log stay inside the ring.                                 *)
THEOREM LoggerTypeCorrect == LoggerSafety => []LoggerTypeOK
<1>1. LoggerInv => LoggerTypeOK
  BY DEF LoggerInv
<1>. QED  BY <1>1, LoggerInvariant, PTL

(* fix_up_readers takes entries from a reader only when the ring is full    *)
(* for it, for any number of writers and whatever they left in the ring.    *)
THEOREM NoNeedlessLoss == LoggerSafety => LostOnlyWhenFull
<1>1. LoggerInv /\ [LoggerNext]_loggerVars => [RoomStep]_loggerVars
  BY RoomNext
<1>2. LoggerSafety => [][RoomStep]_loggerVars
  BY <1>1, LoggerInvariant, PTL DEF LoggerSafety
<1>. QED  BY <1>2 DEF LostOnlyWhenFull, RoomStep

(* With one writer every read() returns one whole entry, however the        *)
(* entries wrap, readers are overtaken and writes fail, and whatever        *)
(* lengths the bytes of a torn entry would mean: logger_read's "exactly one *)
(* log entry" for any ring.                                                 *)
THEOREM ReadsAreWhole == OneWriter => (LoggerSafety => []ReadsWholeEntries)
<1> SUFFICES ASSUME OneWriter PROVE LoggerSafety => []ReadsWholeEntries
  OBVIOUS
<1>1. LoggerInit => WholeInv
  BY WholeInit
<1>2. LoggerInv /\ WholeInv /\ [LoggerNext]_loggerVars => WholeInv'
  BY WholeNext
<1>3. WholeInv => ReadsWholeEntries
  BY DEF WholeInv
<1>. QED  BY <1>1, <1>2, <1>3, LoggerInvariant, PTL DEF LoggerSafety

(* With one writer a write takes less than one entry more than its own      *)
(* length from a reader (get_next_entry, "at least 'len' bytes after        *)
(* 'off'").                                                                 *)
THEOREM LossesAreBounded == OneWriter => (LoggerSafety => LossIsBounded)
<1> SUFFICES ASSUME OneWriter PROVE LoggerSafety => LossIsBounded
  OBVIOUS
<1>1. LoggerInit => WholeInv
  BY WholeInit
<1>2. LoggerInv /\ WholeInv /\ [LoggerNext]_loggerVars => WholeInv'
  BY WholeNext
<1>3. LoggerInv /\ WholeInv /\ [LoggerNext]_loggerVars => [LossStep]_loggerVars
  BY WholeNext DEF LossStep
<1>4. LoggerSafety => [][LossStep]_loggerVars
  BY <1>1, <1>2, <1>3, LoggerInvariant, PTL DEF LoggerSafety
<1>. QED  BY <1>4 DEF LossIsBounded, LossStep

(* With one writer no reader sleeps in logger_read on an entry that it      *)
(* could read, unless the writer is about to wake it.                       *)
THEOREM NoWakeUpIsLost == LoggerSafety => [](OneWriter => NoSleepOnEntries)
<1>1. LoggerInv => (OneWriter => NoSleepOnEntries)
  BY DEF LoggerInv
<1>. QED  BY <1>1, LoggerInvariant, PTL
=============================================================================
