--------------------------- MODULE CommandOutput ---------------------------
(***************************************************************************)
(* What processes.py keeps of one output stream of a command, and how it   *)
(* is read: the first bytes in a head buffer, the last in a rolling tail;  *)
(* polls advance a cursor, read_output pages with offsets.  A byte is      *)
(* named by its position in the stream.                                    *)
(***************************************************************************)
EXTENDS Naturals, FiniteSetsExt

CONSTANTS HeadLimit,  \* head_buffer_limit
          TailLimit,  \* buffer_limit - head_buffer_limit
          PageLimit,  \* the limit of a read_output request
          MaxChunk, MaxBytes  \* bounds: bytes per append, bytes in all

ASSUME OutputLimits == /\ HeadLimit \in Nat /\ TailLimit \in Nat \ {0} /\ PageLimit \in Nat \ {0}
                       /\ MaxChunk \in Nat \ {0} /\ MaxBytes \in Nat

VARIABLES buf,     \* [head, start, total]: retained are 0..head-1 and start..total-1
          cursor,  \* the polling cursor
          offset,  \* where the paging reader is
          polled, missed,  \* history: positions polls returned, and reported as omitted
          paged, skipped   \* history: the same of the paging reader

outputVars == <<buf, cursor, offset, polled, missed, paged, skipped>>

Positions(a, b) == {i \in 0..MaxBytes : a <= i /\ i < b}
Lesser(a, b) == IF a < b THEN a ELSE b
Greater(a, b) == IF a > b THEN a ELSE b
Retained == Positions(0, buf.head) \cup Positions(buf.start, buf.total)

OutputInit ==
  /\ buf = [head |-> 0, start |-> 0, total |-> 0]
  /\ cursor = 0 /\ offset = 0
  /\ polled = {} /\ missed = {} /\ paged = {} /\ skipped = {}

\* The tail drops its oldest bytes beyond its limit.
Trimmed(start, total) == IF total - start > TailLimit THEN total - TailLimit ELSE start

\* A reader thread appends a chunk.
AppendChunk(n) ==
  /\ buf.total + n <= MaxBytes
  /\ buf' = [head |-> Lesser(HeadLimit, buf.head + n), total |-> buf.total + n,
             start |-> Trimmed(buf.start, buf.total + n)]
  /\ UNCHANGED <<cursor, offset, polled, missed, paged, skipped>>

\* snapshot_since_cursor: what the tail holds of the bytes after the cursor, of
\* which an answer too small for them shows the end and says it is truncated.
Snapshot ==
  /\ polled' = polled \cup Positions(Greater(cursor, buf.start), buf.total)
  /\ missed' = missed \cup Positions(cursor, buf.start)
  /\ cursor' = buf.total
  /\ UNCHANGED <<buf, offset, paged, skipped>>

\* (A wrong variant of Page: the bytes between head and tail are taken for there.)
PageIntoGap(requested) == [at |-> requested, next |-> Lesser(buf.total, requested + PageLimit)]

\* read_output: the bytes from `at' up to `next', from the tail if it has the
\* offset, from the head if that has it, else from the start of the tail.
Page(requested) ==
  LET at == IF requested >= buf.start \/ requested < buf.head THEN requested ELSE buf.start
      end == IF requested >= buf.start \/ requested >= buf.head THEN buf.total ELSE buf.head
  IN [at |-> at, next |-> IF at >= end THEN at ELSE Lesser(end, at + PageLimit)]

\* The caller asks for the next page, at the offset it was given.
ReadPage ==
  LET page == Page(offset)
  IN /\ offset < buf.total
     /\ paged' = paged \cup (Positions(page.at, page.next) \cap Retained)
     /\ skipped' = skipped \cup Positions(offset, page.at)
     /\ offset' = page.next
     /\ UNCHANGED <<buf, cursor, polled, missed>>

OutputNext == Snapshot \/ ReadPage \/ \E n \in 1..MaxChunk : AppendChunk(n)
OutputSpec == OutputInit /\ [][OutputNext]_outputVars

OutputTypeOK ==
  /\ buf \in [head : 0..HeadLimit, start : 0..MaxBytes, total : 0..MaxBytes]
  /\ cursor \in 0..MaxBytes /\ offset \in 0..MaxBytes

\* Polling and paging account for every byte of the stream exactly once: up to
\* the cursor and the offset each byte was either returned or reported as
\* omitted; paging omits only what neither buffer holds, and nothing that can
\* still be read is skipped (snapshot_since_cursor, read_output, _trim).
OutputAccounted ==
  /\ polled \cup missed = Positions(0, cursor) /\ polled \cap missed = {}
  /\ paged \cup skipped = Positions(0, offset) /\ paged \cap skipped = {}
  /\ skipped \cap Retained = {}
  /\ offset <= buf.total /\ cursor <= buf.total

=============================================================================
