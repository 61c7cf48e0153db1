----------------------------- MODULE FileSinks -----------------------------
(***************************************************************************)
(* internal/sinks: the JSONL log of each lane behind a bufio.Writer, which *)
(* a mutex makes atomic.  Times, sizes and bytes are abstracted: a line is *)
(* two chunks, the second with its newline, the writer holds BufChunks of  *)
(* them, and the flush after 100 ms happens or not.                        *)
(***************************************************************************)
EXTENDS Integers, Sequences

CONSTANT BufChunks      \* size of the bufio.Writer, 1 MiB in the code

ASSUME SinkAssumption == BufChunks \in Nat \ {0, 1}

LaneNames == {"S", "V"}

VARIABLES
    buf,        \* per lane: chunks in the bufio.Writer
    file,       \* per lane: chunks in the file
    closed      \* per lane: Close was called

sinks == <<buf, file, closed>>

Empty == [l \in LaneNames |-> <<>>]

\* NewSBatchFileSink, NewVEnvFileSink: the file is opened for appending.
SinksOpen ==
    /\ buf' = Empty
    /\ closed' = [l \in LaneNames |-> FALSE]
    /\ UNCHANGED file

SinksInit == buf = Empty /\ file = Empty /\ closed = [l \in LaneNames |-> FALSE]

Line(rec) == <<[rec |-> rec, half |-> 1], [rec |-> rec, half |-> 2]>>
Lines(recs) == [j \in 1..(2 * Len(recs)) |-> Line(recs[(j + 1) \div 2])[IF j % 2 = 1 THEN 1 ELSE 2]]

\* n chunks of all go to the file, the others stay in the buffer.
Settle(l, all, n) ==
    /\ file' = [file EXCEPT ![l] = @ \o SubSeq(all, 1, n)]
    /\ buf' = [buf EXCEPT ![l] = SubSeq(all, n + 1, Len(all))]
    /\ UNCHANGED closed

\* Faulty variant: the buffer takes what it has no room for.
Write_NoOverflow(l, recs) ==
    \/ closed[l] /\ UNCHANGED sinks
    \/ /\ ~closed[l]
       /\ LET all == buf[l] \o Lines(recs)
          IN \E n \in {0, Len(all)} : Settle(l, all, n)

\* OnSBatches, Append, AppendAll.  A full buffer goes to the file as it is, also with
\* half a line at its end.  After Close nothing reaches the file.
Write(l, recs) ==
    \/ closed[l] /\ UNCHANGED sinks
    \/ /\ ~closed[l]
       /\ LET all == buf[l] \o Lines(recs)
              full == BufChunks * ((Len(all) - 1) \div BufChunks)
          IN \E n \in {full, Len(all)} : Settle(l, all, n)

\* Flush fails on a closed file.
SinkFlush(l) == IF closed[l] THEN UNCHANGED sinks ELSE Settle(l, buf[l], Len(buf[l]))

SinkClose(l) ==
    /\ file' = [file EXCEPT ![l] = @ \o buf[l]]
    /\ buf' = [buf EXCEPT ![l] = <<>>]
    /\ closed' = [closed EXCEPT ![l] = TRUE]

\* Does the file end in half a line?
Torn(l) == file[l] # <<>> /\ file[l][Len(file[l])].half = 1

\* ReadAllSLog, ReadAllVLog: the records on lines that parse.
ReadAll(l) ==
    LET f == file[l]
        whole == {j \in 1..(Len(f) - 1) :
                     /\ f[j].half = 1 /\ f[j + 1].half = 2
                     /\ j > 1 => f[j - 1].half = 2}
    IN [j \in whole |-> f[j].rec]

\* Every variable keeps its type; no more than its size is in a bufio.Writer.
SinksTypeOK ==
    \A l \in LaneNames :
        Len(buf[l]) <= BufChunks /\ closed[l] \in BOOLEAN
=============================================================================
