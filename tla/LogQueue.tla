------------------------------ MODULE LogQueue ------------------------------
(***************************************************************************)
(* What drivers/staging/android/logger.c promises the readers of a log.     *)
(* The log is the sequence of all entries ever written.  An open reader has *)
(* a queue of entries yet to read, oldest first and without a gap up to the *)
(* newest; a write adds its entry to every queue and may drop the oldest    *)
(* ones; a read returns the oldest entry, whole.                            *)
(***************************************************************************)
EXTENDS Naturals, Sequences

CONSTANTS Readers, Entries, NoEntry

VARIABLES log,      \* the entries written so far
          open,     \* the readers that have the log open
          unread,   \* the entries a reader has yet to read
          got       \* the entry a reader's last read() returned

queueVars == <<log, open, unread, got>>

QueueInit ==
    /\ log = <<>>
    /\ open = {}
    /\ unread = [r \in Readers |-> <<>>]
    /\ got = [r \in Readers |-> NoEntry]

From(s, i) == SubSeq(s, i, Len(s))
IsSuffix(s, t) == \E i \in 1..(Len(t) + 1) : s = From(t, i)

QueueWrite(e) ==
    /\ log' = Append(log, e)
    /\ \A r \in open :
          \E i \in 1..(Len(unread[r]) + 1) : unread'[r] = Append(From(unread[r], i), e)
    /\ \A r \in Readers \ open : unread'[r] = <<>>
    /\ UNCHANGED <<open, got>>

\* Oldest entries are given up: by a write that fails, or by a flush.
QueueDrop ==
    /\ \A r \in Readers : IsSuffix(unread'[r], unread[r])
    /\ UNCHANGED <<log, open, got>>

QueueRead(r) ==
    /\ unread[r] # <<>>
    /\ got' = [got EXCEPT ![r] = Head(unread[r])]
    /\ unread' = [unread EXCEPT ![r] = Tail(@)]
    /\ UNCHANGED <<log, open>>

\* A reader that opens the log finds its latest entries.
QueueOpen(r) ==
    /\ open' = open \cup {r}
    /\ IsSuffix(unread'[r], log)
    /\ unread' = [unread EXCEPT ![r] = unread'[r]]
    /\ got' = [got EXCEPT ![r] = NoEntry]
    /\ UNCHANGED log

QueueClose(r) ==
    /\ open' = open \ {r}
    /\ unread' = [unread EXCEPT ![r] = <<>>]
    /\ got' = [got EXCEPT ![r] = NoEntry]
    /\ UNCHANGED log

QueueNext ==
    \/ \E e \in Entries : QueueWrite(e)
    \/ QueueDrop
    \/ \E r \in Readers : QueueRead(r) \/ QueueOpen(r) \/ QueueClose(r)

QueueSpec == QueueInit /\ [][QueueNext]_queueVars
=============================================================================
