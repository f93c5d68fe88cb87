------------------------- MODULE TimeExpiringBuffer -------------------------
(***************************************************************************)
(* TimeExpiringBuffer (src/time_expiring_buffer.rs): a queue of entries    *)
(* that know their thread and the time they were pushed.  A time is an     *)
(* Instant, in ticks of the clock since the profiler's start.              *)
(***************************************************************************)
EXTENDS Naturals, Sequences

BufferEntry(Tid, Value) == [tid : Tid, created_at : Nat, value : Value]

\* A faulty variant: push_front.
PushFrontAt(buffer, value, created_at, tid) ==
  <<[tid |-> tid, created_at |-> created_at, value |-> value]>> \o buffer

\* push_back, which reads the clock, is PushBackAt with the time it reads.
PushBackAt(buffer, value, created_at, tid) ==
  Append(buffer, [tid |-> tid, created_at |-> created_at, value |-> value])

Expired(entry, now, entry_lifetime) == now - entry.created_at > entry_lifetime

\* Entries go from the front, up to the first one that has not expired.
RemoveExpired(buffer, now, entry_lifetime) ==
  LET kept == CHOOSE n \in 1 .. Len(buffer) + 1 :
                /\ \A i \in 1 .. n - 1 : Expired(buffer[i], now, entry_lifetime)
                /\ n <= Len(buffer) => ~Expired(buffer[n], now, entry_lifetime)
  IN SubSeq(buffer, kept, Len(buffer))

\* A faulty variant: the iterator forgets to filter.
IterAll(buffer, tid) == buffer

\* iter_thread's filter: the thread's entries, in their order.
IterThread(buffer, tid) ==
  LET own[n \in 0 .. Len(buffer)] ==
        IF n = 0 THEN <<>>
        ELSE IF buffer[n].tid = tid THEN Append(own[n - 1], buffer[n])
        ELSE own[n - 1]
  IN  own[Len(buffer)]
=============================================================================
