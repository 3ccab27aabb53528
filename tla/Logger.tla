------------------------------- MODULE Logger -------------------------------
(***************************************************************************)
(* The Android log, drivers/staging/android/logger.c: a ring of bytes that  *)
(* writers fill with entries of different lengths, readers that follow at   *)
(* their own offsets, and the head where new readers start.                 *)
(*                                                                          *)
(* A byte of the ring is a pair <<e, k>>, byte k of entry e; an entry is    *)
(* named by its place in the order of the writes.  The first two bytes of   *)
(* an entry hold its length.  What is done under log->mutex is one action;  *)
(* what logger_aio_write and logger_read do before, between and after the   *)
(* critical sections are actions of their own.                              *)
(***************************************************************************)
EXTENDS Integers, Sequences

CONSTANTS Readers,      \* files open for reading
          Writers,      \* tasks that write
          Size,         \* log->size
          HeaderLen,    \* sizeof(struct logger_entry)
          MaxPayload,   \* LOGGER_ENTRY_MAX_PAYLOAD
          Requests,     \* how many bytes a task asks to write
          Junk(_, _),   \* the __u16 that two bytes which hold no length read as
          MaxEntries    \* bound: entries ever begun

EntryMaxLen == HeaderLen + MaxPayload
Byte == (0..MaxEntries) \X (0..EntryMaxLen)

(* DEFINE_LOGGER_DEVICE asks for a power of two greater than the longest    *)
(* entry; that length is itself a power of two, so two entries fit.         *)
ASSUME LoggerAssumption ==
    /\ HeaderLen \in Nat /\ HeaderLen >= 2
    /\ MaxPayload \in Nat \ {0}
    /\ Size \in Nat /\ Size >= 2 * EntryMaxLen
    /\ Requests \subseteq Nat
    /\ MaxEntries \in Nat

ASSUME JunkAssumption == \A b, c \in Byte : Junk(b, c) \in Nat /\ Junk(b, c) < 65536

VARIABLES
    buffer,     \* the ring: which byte of which entry each offset holds
    w_off,      \* offset of the next write
    head,       \* offset where a new reader starts
    r_off,      \* offset of each reader
    open,       \* the list log->readers
    reading,    \* stage of a reader in logger_read
    waiting,    \* readers on log->wq in state TASK_INTERRUPTIBLE
    writing,    \* stage of a writer in logger_aio_write
    orig,       \* the offset a writer goes back to when its write fails
    lens,       \* length of each entry begun, header included
    whole,      \* entries written to their last byte
    got         \* history: the entry a reader's last read() returned

loggerVars == <<buffer, w_off, head, r_off, open, reading, waiting, writing,
                orig, lens, whole, got>>

Offsets == 0..(Size - 1)
logger_offset(n) == n % Size
NoEntry == 0
Garbage == -1       \* what is returned when the bytes read are no entry

\* What the bytes b and c mean as the length of a payload, with the header.
LenOf(b, c) ==
    IF b[1] # NoEntry /\ b[2] = 0 /\ c = <<b[1], 1>> THEN lens[b[1]]
    ELSE HeaderLen + Junk(b, c)

\* Faulty variant: the length of an entry is not read around the end.
LenBeforeEnd(off) == LenOf(buffer[off], IF off + 1 < Size THEN buffer[off + 1] ELSE <<NoEntry, 0>>)

\* The two bytes of the length may lie on both sides of the ring's end.
get_entry_len(off) == LenOf(buffer[off], buffer[logger_offset(off + 1)])

\* Faulty variant: an entry is passed over that ends exactly at len.
PassesOneMore(off, len) ==
    LET walk[count \in 0..len] ==
          LET next == count + get_entry_len(logger_offset(off + count)) IN
          IF next <= len THEN walk[next] ELSE next
    IN logger_offset(off + walk[0])

\* The first entry at least len bytes after off; count is how far the loop is.
get_next_entry(off, len) ==
    LET walk[count \in 0..(len - 1)] ==
          LET next == count + get_entry_len(logger_offset(off + count)) IN
          IF next < len THEN walk[next] ELSE next
    IN logger_offset(off + walk[0])

\* Faulty variant: a reader at the start of the line is crossed as well.
CrossesStart(a, b, c) ==
    IF b < a THEN a <= c \/ b >= c ELSE a <= c /\ b >= c

clock_interval(a, b, c) ==
    IF b < a THEN a < c \/ b >= c ELSE a < c /\ b >= c

\* Faulty variant: the start head is left where it is.
FixesOnlyReaders(len) ==
    LET new == logger_offset(w_off + len)
        Pull(c) == IF clock_interval(w_off, new, c) THEN get_next_entry(c, len) ELSE c IN
    /\ head' = head
    /\ r_off' = [r \in Readers |-> IF r \in open THEN Pull(r_off[r]) ELSE r_off[r]]

fix_up_readers(len) ==
    LET new == logger_offset(w_off + len)
        Pull(c) == IF clock_interval(w_off, new, c) THEN get_next_entry(c, len) ELSE c IN
    /\ head' = Pull(head)
    /\ r_off' = [r \in Readers |-> IF r \in open THEN Pull(r_off[r]) ELSE r_off[r]]

\* The ring after n bytes of entry e were copied to it from w_off on.
Copied(e, n) ==
    [i \in Offsets |-> LET k == (i - w_off) % Size IN IF k < n THEN <<e, k>> ELSE buffer[i]]

----------------------------------------------------------------------------
LoggerInit ==
    /\ buffer = [i \in Offsets |-> <<NoEntry, 0>>]
    /\ w_off = 0 /\ head = 0
    /\ r_off = [r \in Readers |-> 0]
    /\ open = {}
    /\ reading = [r \in Readers |-> "idle"]
    /\ waiting = {}
    /\ writing = [w \in Writers |-> "idle"]
    /\ orig = [w \in Writers |-> 0]
    /\ lens = <<>>
    /\ whole = {}
    /\ got = [r \in Readers |-> NoEntry]

\* file_get_log and the first reads of logger_aio_write, without the mutex.
logger_aio_write(w) ==
    /\ writing[w] = "idle"
    /\ orig' = [orig EXCEPT ![w] = w_off]
    /\ writing' = [writing EXCEPT ![w] = "lock"]
    /\ UNCHANGED <<buffer, w_off, head, r_off, open, reading, waiting, lens, whole, got>>

\* A write of no bytes returns before it takes the mutex.
write_nothing(w) ==
    /\ writing[w] = "lock"
    /\ 0 \in Requests
    /\ writing' = [writing EXCEPT ![w] = "idle"]
    /\ orig' = [orig EXCEPT ![w] = 0]
    /\ UNCHANGED <<buffer, w_off, head, r_off, open, reading, waiting, lens, whole, got>>

\* Faulty variant: the payload is not cut.
UncutLen(n) == HeaderLen + n

\* The payload is cut to the longest that an entry may hold.
EntryLen(n) == HeaderLen + IF n <= MaxPayload THEN n ELSE MaxPayload

\* The critical section of a write whose segments can all be read.
do_write_log(w, n) ==
    LET len == EntryLen(n) IN
    /\ writing[w] = "lock" /\ n > 0 /\ Len(lens) < MaxEntries
    /\ lens' = Append(lens, len)
    /\ fix_up_readers(len)
    /\ buffer' = Copied(Len(lens) + 1, len)
    /\ w_off' = logger_offset(w_off + len)
    /\ whole' = whole \cup {Len(lens) + 1}
    /\ writing' = [writing EXCEPT ![w] = "wake"]
    /\ orig' = [orig EXCEPT ![w] = 0]
    /\ UNCHANGED <<open, reading, waiting, got>>

(* The critical section of a write that fails after p bytes of its payload  *)
(* were copied or cleared: the readers have been moved, the header is in    *)
(* the ring, nobody is woken.                                               *)
do_write_log_from_user_fails(w, n, p) ==
    /\ writing[w] = "lock" /\ n > 0 /\ Len(lens) < MaxEntries
    /\ p \in 0..(EntryLen(n) - HeaderLen)
    /\ lens' = Append(lens, EntryLen(n))
    /\ fix_up_readers(EntryLen(n))
    /\ buffer' = Copied(Len(lens) + 1, HeaderLen + p)
    /\ w_off' = orig[w]
    /\ writing' = [writing EXCEPT ![w] = "idle"]
    /\ orig' = [orig EXCEPT ![w] = 0]
    /\ UNCHANGED <<open, reading, waiting, whole, got>>

\* Faulty variant: a reader that sleeps is not woken.
WakesNobody(w) ==
    /\ writing[w] = "wake"
    /\ writing' = [writing EXCEPT ![w] = "idle"]
    /\ UNCHANGED <<buffer, w_off, head, r_off, open, reading, waiting, orig, lens, whole, got>>

wake_up_interruptible(w) ==
    /\ writing[w] = "wake"
    /\ waiting' = {}
    /\ writing' = [writing EXCEPT ![w] = "idle"]
    /\ UNCHANGED <<buffer, w_off, head, r_off, open, reading, orig, lens, whole, got>>

----------------------------------------------------------------------------
logger_open(r) ==
    /\ r \notin open
    /\ open' = open \cup {r}
    /\ r_off' = [r_off EXCEPT ![r] = head]
    /\ got' = [got EXCEPT ![r] = NoEntry]
    /\ UNCHANGED <<buffer, w_off, head, reading, waiting, writing, orig, lens, whole>>

logger_release(r) ==
    /\ r \in open
    /\ reading[r] = "idle"
    /\ open' = open \ {r}
    /\ r_off' = [r_off EXCEPT ![r] = 0]
    /\ got' = [got EXCEPT ![r] = NoEntry]
    /\ UNCHANGED <<buffer, w_off, head, reading, waiting, writing, orig, lens, whole>>

\* read() is called, or its loop goes round: prepare_to_wait.  A mutex that
\* is contended only makes the loop go round once more.
logger_read(r) ==
    /\ r \in open
    /\ \/ reading[r] \in {"idle", "start"}
       \/ reading[r] = "asleep" /\ r \notin waiting
    /\ reading' = [reading EXCEPT ![r] = "check"]
    /\ waiting' = waiting \cup {r}
    /\ UNCHANGED <<buffer, w_off, head, r_off, open, writing, orig, lens, whole, got>>

\* The test of the loop; schedule() lets the task sleep while it is waiting.
read_check(r) ==
    /\ reading[r] = "check"
    /\ IF w_off # r_off[r]
         THEN reading' = [reading EXCEPT ![r] = "read"] /\ waiting' = waiting \ {r}
         ELSE reading' = [reading EXCEPT ![r] = "asleep"] /\ UNCHANGED waiting
    /\ UNCHANGED <<buffer, w_off, head, r_off, open, writing, orig, lens, whole, got>>

\* O_NONBLOCK, or a signal, ends a read of a log with nothing to read.
read_gives_up(r) ==
    /\ reading[r] = "check" /\ w_off = r_off[r]
    /\ reading' = [reading EXCEPT ![r] = "idle"]
    /\ waiting' = waiting \ {r}
    /\ UNCHANGED <<buffer, w_off, head, r_off, open, writing, orig, lens, whole, got>>

\* A signal makes a sleeping reader runnable.
read_signal(r) ==
    /\ reading[r] = "asleep"
    /\ waiting' = waiting \ {r}
    /\ UNCHANGED <<buffer, w_off, head, r_off, open, reading, writing, orig, lens, whole, got>>

\* The entry whose bytes lie at the n offsets from off on.
EntryAt(off, n) ==
    LET e == buffer[off][1] IN
    IF /\ e \in whole /\ lens[e] = n
       /\ \A k \in 0..(n - 1) : buffer[logger_offset(off + k)] = <<e, k>>
    THEN e ELSE Garbage

\* The second critical section of logger_read, with do_read_log_to_user.
do_read_log_to_user(r) ==
    LET nr == get_entry_len(r_off[r]) IN
    /\ reading[r] = "read"
    /\ w_off # r_off[r]
    /\ got' = [got EXCEPT ![r] = EntryAt(r_off[r], nr)]
    /\ r_off' = [r_off EXCEPT ![r] = logger_offset(@ + nr)]
    /\ reading' = [reading EXCEPT ![r] = "idle"]
    /\ UNCHANGED <<buffer, w_off, head, open, waiting, writing, orig, lens, whole>>

\* The caller's buffer is too short or cannot be written.
read_fails(r) ==
    /\ reading[r] = "read"
    /\ w_off # r_off[r]
    /\ reading' = [reading EXCEPT ![r] = "idle"]
    /\ UNCHANGED <<buffer, w_off, head, r_off, open, waiting, writing, orig, lens, whole, got>>

read_raced(r) ==
    /\ reading[r] = "read"
    /\ w_off = r_off[r]
    /\ reading' = [reading EXCEPT ![r] = "start"]
    /\ UNCHANGED <<buffer, w_off, head, r_off, open, waiting, writing, orig, lens, whole, got>>

\* LOGGER_FLUSH_LOG
logger_flush ==
    /\ r_off' = [r \in Readers |-> IF r \in open THEN w_off ELSE r_off[r]]
    /\ head' = w_off
    /\ UNCHANGED <<buffer, w_off, open, reading, waiting, writing, orig, lens, whole, got>>

ReaderStep(r) == logger_read(r) \/ read_check(r) \/ do_read_log_to_user(r) \/ read_raced(r)

LoggerNext ==
    \/ \E w \in Writers :
          \/ logger_aio_write(w) \/ write_nothing(w) \/ wake_up_interruptible(w)
          \/ \E n \in Requests :
                \/ do_write_log(w, n)
                \/ \E p \in 0..MaxPayload : do_write_log_from_user_fails(w, n, p)
    \/ \E r \in Readers :
          \/ logger_open(r) \/ logger_release(r) \/ read_gives_up(r)
          \/ read_signal(r) \/ read_fails(r) \/ ReaderStep(r)
    \/ logger_flush

\* A task inside read() runs when it can, and a writer finishes its call.
LoggerFairness ==
    /\ \A r \in Readers :
          /\ WF_loggerVars(reading[r] # "idle" /\ logger_read(r))
          /\ WF_loggerVars(read_check(r))
          /\ WF_loggerVars(do_read_log_to_user(r))
          /\ WF_loggerVars(read_raced(r))
    /\ \A w \in Writers : WF_loggerVars(wake_up_interruptible(w))

LoggerSafety == LoggerInit /\ [][LoggerNext]_loggerVars
LoggerSpec == LoggerSafety /\ LoggerFairness

----------------------------------------------------------------------------
LoggerTypeOK ==
    /\ buffer \in [Offsets -> Byte]
    /\ w_off \in Offsets /\ head \in Offsets
    /\ r_off \in [Readers -> Offsets]
    /\ open \subseteq Readers
    /\ reading \in [Readers -> {"idle", "start", "check", "asleep", "read"}]
    /\ waiting \subseteq Readers
    /\ writing \in [Writers -> {"idle", "lock", "wake"}]
    /\ orig \in [Writers -> Offsets]
    /\ lens \in Seq((HeaderLen + 1)..EntryMaxLen)
    /\ whole \subseteq 1..Len(lens)
    /\ got \in [Readers -> Garbage..MaxEntries]

\* The entries from off to w_off, one after the other; Garbage at the first
\* offset that is not the start of a whole entry.
Unread(off) ==
    LET chain[d \in Offsets] ==
          LET o == logger_offset(w_off - d)
              nr == get_entry_len(o) IN
          IF d = 0 THEN <<>>
          ELSE IF nr > d \/ EntryAt(o, nr) = Garbage THEN <<Garbage>>
          ELSE <<EntryAt(o, nr)>> \o chain[d - nr]
    IN chain[(w_off - off) % Size]

(* The log implements LogQueue: every reader gets every entry written since *)
(* it opened, whole, once and in order, except the oldest ones that a write *)
(* or a flush took away, wherever the entries wrap and whichever writes     *)
(* fail.  It is what logger_read says: "Atomically reads exactly one log    *)
(* entry".                                                                  *)
Queue == INSTANCE LogQueue WITH
    Entries <- 1..MaxEntries,
    log <- SelectSeq([i \in 1..MaxEntries |-> i], LAMBDA e : e \in whole),
    unread <- [r \in Readers |-> IF r \in open THEN Unread(r_off[r]) ELSE <<>>]
LogIsQueue == Queue!QueueSpec

(* logger_read: "Atomically reads exactly one log entry".  What a read()    *)
(* returns is an entry as it was written, whatever was overwritten since.   *)
ReadsWholeEntries == \A r \in Readers : got[r] # Garbage

(* A reader loses entries to a write only when the ring has no room for     *)
(* them: the bytes it has yet to read and the new entry would fill the ring.*)
LostOnlyWhenFull ==
    [][\A r \in open :
          /\ Len(lens') > Len(lens)
          /\ ((w_off - r_off[r]) % Size) + lens'[Len(lens')] < Size
          => r_off'[r] = r_off[r]]_loggerVars

(* A write takes less than one entry more than its own length from a reader *)
(* (get_next_entry: "the first valid entry at least 'len' bytes after       *)
(* 'off'").                                                                 *)
LossIsBounded ==
    [][\A r \in open : Len(lens') > Len(lens) =>
          (r_off'[r] - r_off[r]) % Size < lens'[Len(lens')] + EntryMaxLen]_loggerVars

(* No wake-up is lost: a reader does not sleep on entries it could read,    *)
(* except while a writer has yet to call wake_up_interruptible.             *)
NoSleepOnEntries ==
    \A r \in waiting : reading[r] = "asleep" /\ r_off[r] # w_off =>
        \E w \in Writers : writing[w] = "wake"

(* A reader inside read() returns once there is something for it to read,   *)
(* unless a flush takes it away again.                                      *)
BlockedReaderReturns ==
    \A r \in Readers :
        reading[r] # "idle" /\ r_off[r] # w_off
            ~> reading[r] = "idle" \/ r_off[r] = w_off
=============================================================================
