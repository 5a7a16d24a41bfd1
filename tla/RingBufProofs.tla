--------------------------- MODULE RingBufProofs ---------------------------
(***************************************************************************)
(* The safety of the ring buffer for every size, word, byte set and set of *)
(* request lengths, provided nobody resets the buffer under a running      *)
(* rb_read.                                                                *)
(***************************************************************************)
EXTENDS RingBuf, SequenceTheorems, TLAPS

(* The mutex is held exactly in the critical sections.                     *)
LockInv ==
  /\ (lock = "r") <=> (rpc = "sized")
  /\ (lock = "w") <=> (wpc = "locked")

(* Inside its critical section the reader knows what is there to take.     *)
ReaderInv ==
  /\ rpc \in {"lock", "sized", "signal", "wait"} => rlen > 0
  /\ rpc = "sized" => /\ rsize <= fill_cnt /\ rsize <= rlen
                      /\ rsize = 0 => ~CanRead
WriterInv == wpc \in {"lock", "locked", "signal", "wait"} => wlen > 0

IInv == /\ TypeOK /\ PointersAgree /\ LockInv /\ ReaderInv /\ WriterInv
        /\ ReaderWakes /\ WriterWakes /\ NotBothAsleep

-----------------------------------------------------------------------------
LEMMA WholeWordsRange ==
  ASSUME NEW n \in Nat PROVE WholeWords(n) \in 0..n
BY ConstAssumption DEF WholeWords

LEMMA SlotRange ==
  ASSUME NEW x \in 0..(2 * Size - 1) PROVE Slot(x) \in 0..(Size - 1)
BY ConstAssumption DEF Slot

LEMMA ChunkType ==
  ASSUME NEW m \in [0..(Size - 1) -> Byte],
         NEW p \in 0..Size, NEW n \in 0..Size
  PROVE  /\ Chunk(m, p, n) \in Seq(Byte) /\ Len(Chunk(m, p, n)) = n
         /\ \A i \in 1..n : Chunk(m, p, n)[i] = m[Slot(p + i - 1)]
<1>1. \A i \in 1..n : Slot(p + i - 1) \in 0..(Size - 1)
  BY SlotRange, ConstAssumption
<1>2. Chunk(m, p, n) \in [1..n -> Byte]
  BY <1>1 DEF Chunk
<1>3. \A i \in 1..n : Chunk(m, p, n)[i] = m[Slot(p + i - 1)]
  BY DEF Chunk
<1>4. n \in Nat
  BY ConstAssumption
<1>5. Chunk(m, p, n) \in Seq(Byte) /\ Len(Chunk(m, p, n)) = n
  BY <1>2, <1>4
<1>6. QED
  BY <1>3, <1>5

LEMMA StoredType ==
  ASSUME NEW m \in [0..(Size - 1) -> Byte], NEW p \in 0..Size,
         NEW n \in 0..Size, NEW d \in [1..n -> Byte]
  PROVE  /\ Stored(m, p, d) \in [0..(Size - 1) -> Byte]
         /\ \A s \in 0..(Size - 1) :
              Stored(m, p, d)[s] = IF Distance(p, s) < n
                                   THEN d[Distance(p, s) + 1] ELSE m[s]
<1>1. d \in Seq(Byte) /\ Len(d) = n
  BY ConstAssumption
<1>2. \A s \in 0..(Size - 1) : Distance(p, s) \in Nat
  BY ConstAssumption DEF Distance, Slot
<1>3. \A s \in 0..(Size - 1) : Distance(p, s) < n => d[Distance(p, s) + 1] \in Byte
  BY <1>2, ConstAssumption
<1>4. QED
  BY <1>1, <1>3 DEF Stored

-----------------------------------------------------------------------------
LEMMA InitInv == Init => IInv
<1> SUFFICES ASSUME Init PROVE IInv
  OBVIOUS
<1>1. TypeOK
  BY ConstAssumption DEF Init, TypeOK, DataOK, FlagsOK, ReaderOK, WriterOK
<1>2. PointersAgree
  BY ConstAssumption DEF Init, PointersAgree, Slot
<1>3. QED
  BY <1>1, <1>2 DEF Init, IInv, LockInv, ReaderInv, WriterInv, ReaderWakes,
     WriterWakes, NotBothAsleep

(* What a copy out of and into the memory does.                            *)
LEMMA RdCopyStep ==
  ASSUME IInv, RdCopy
  PROVE  /\ rsize \in 1..fill_cnt /\ rsize <= rlen
         /\ fill_cnt' = fill_cnt - rsize
         /\ p_r' = Advance(p_r, rsize) /\ p_w' = p_w /\ buf' = buf
BY ConstAssumption DEF IInv, RdCopy, U32, ReaderInv, TypeOK, DataOK, ReaderOK

LEMMA WrCopyStep ==
  ASSUME IInv, WrCopy
  PROVE  \E n \in 1..(Size - fill_cnt) : \E d \in [1..n -> Byte] :
            /\ n <= wlen /\ buf' = Stored(buf, p_w, d)
            /\ wlen' = wlen - n /\ wtotal' = wtotal + n
            /\ fill_cnt' = fill_cnt + n
            /\ p_w' = Advance(p_w, n) /\ p_r' = p_r
<1> DEFINE n == IF wlen < rb_bytes_available THEN wlen ELSE rb_bytes_available
<1>1. rb_bytes_available = Size - fill_cnt
  BY ConstAssumption DEF rb_bytes_available, U32, IInv, TypeOK, DataOK
<1>2. n \in 1..(Size - fill_cnt) /\ n <= wlen
  BY <1>1, ConstAssumption DEF WrCopy, WriterInv, IInv, TypeOK, DataOK,
     WriterOK
<1>3. /\ \E d \in [1..n -> Byte] : buf' = Stored(buf, p_w, d)
      /\ wlen' = wlen - n /\ wtotal' = wtotal + n
      /\ fill_cnt' = fill_cnt + n
      /\ p_w' = Advance(p_w, n) /\ p_r' = p_r
  BY DEF WrCopy
<1>4. QED
  BY <1>2, <1>3

LEMMA NextData == ASSUME IInv, Next PROVE DataOK'
<1>0. DataOK
  BY DEF IInv, TypeOK
<1>1. CASE RdCopy
  <2>1. p_r' \in 0..Size /\ fill_cnt' \in 0..Size
    BY <1>0, <1>1, RdCopyStep, ConstAssumption, SMTT(30) DEF Advance, DataOK
  <2>2. out' \in Seq(Byte)
    BY <1>0, <1>1, RdCopyStep, ChunkType, ConstAssumption DEF RdCopy, DataOK
  <2>3. QED
    BY <1>0, <1>1, <2>1, <2>2, RdCopyStep DEF DataOK
<1>2. CASE WrCopy
  <2>1. PICK n \in 1..(Size - fill_cnt) : \E d \in [1..n -> Byte] :
           /\ n <= wlen /\ buf' = Stored(buf, p_w, d)
           /\ wlen' = wlen - n /\ wtotal' = wtotal + n
           /\ fill_cnt' = fill_cnt + n
           /\ p_w' = Advance(p_w, n) /\ p_r' = p_r
    BY <1>2, WrCopyStep
  <2>2. p_w' \in 0..Size /\ fill_cnt' \in 0..Size
    BY <1>0, <2>1, ConstAssumption DEF Advance, DataOK
  <2>3. buf' \in [0..(Size - 1) -> Byte]
    BY <1>0, <2>1, StoredType, ConstAssumption DEF DataOK
  <2>4. QED
    BY <1>0, <1>2, <2>1, <2>2, <2>3 DEF WrCopy, DataOK
<1>3. CASE RdExit
  BY <1>0, <1>3 DEF RdExit, DataOK
<1>4. CASE Reset
  BY <1>0, <1>4, ConstAssumption DEF Reset, DataOK
<1>5. CASE UNCHANGED data
  BY <1>0, <1>5 DEF data, DataOK
<1>6. QED
  BY <1>1, <1>2, <1>3, <1>4, <1>5
  DEF Next, Reader, Writer, Control, Calls, RdSize, RdEmpty, RdSignal, RdWake,
      WrLock, WrFull, WrSignal, WrWake, WrExit, DoneGive, RdCall, WrCall,
      AbortReadGive, AbortWriteFlag, AbortWriteGive, UnblockGive, DoneFlag,
      AbortReadFlag, UnblockFlag, RdTimeout, WrTimeout

LEMMA NextFlags == ASSUME FlagsOK, Next PROVE FlagsOK'
<1> USE DEF FlagsOK, flags, sems
<1>1. CASE Reader
  BY <1>1, ZenonT(40) DEF Reader, RdSize, RdEmpty, RdCopy, RdSignal, RdWake, RdExit
<1>2. CASE Writer
  BY <1>2, ZenonT(40) DEF Writer, WrLock, WrFull, WrCopy, WrSignal, WrWake, WrExit, DoneGive
<1>3. CASE Control
  BY <1>3 DEF Control, AbortReadGive, AbortWriteFlag, AbortWriteGive, UnblockGive
<1>4. CASE Calls
  BY <1>4, ZenonT(40) DEF Calls, RdCall, WrCall, DoneFlag, AbortReadFlag, UnblockFlag, Reset
<1>5. CASE RdTimeout \/ WrTimeout
  BY <1>5 DEF RdTimeout, WrTimeout
<1>6. QED
  BY <1>1, <1>2, <1>3, <1>4, <1>5 DEF Next

LEMMA NextReader == ASSUME IInv, Next PROVE ReaderOK'
<1>0. ReaderOK
  BY DEF IInv, TypeOK
<1>1. CASE RdCopy
  <2>1. rlen' \in Nat /\ rtotal' \in Nat
    BY <1>0, <1>1, RdCopyStep DEF RdCopy, ReaderOK
  <2>2. QED
    BY <1>0, <1>1, <2>1 DEF RdCopy, ReaderOK
<1>2. CASE RdSize
  <2>1. fill_cnt \in Nat
    BY ConstAssumption DEF IInv, TypeOK, DataOK
  <2>2. rsize' \in Nat
    BY <1>0, <1>2, <2>1, WholeWordsRange DEF RdSize, ReaderOK
  <2>3. QED
    BY <1>0, <1>2, <2>2 DEF RdSize, ReaderOK
<1>3. CASE RdEmpty \/ RdSignal \/ RdWake \/ RdTimeout
  BY <1>0, <1>3 DEF RdEmpty, RdSignal, RdWake, RdTimeout, ReaderOK
<1>4. CASE RdExit \/ RdCall
  BY <1>0, <1>4, ConstAssumption DEF RdExit, RdCall, ReaderOK
<1>5. CASE UNCHANGED rdvars
  BY <1>0, <1>5 DEF rdvars, ReaderOK
<1>6. QED
  BY <1>1, <1>2, <1>3, <1>4, <1>5
  DEF Next, Reader, Writer, Control, Calls, WrLock, WrFull, WrCopy, WrSignal,
      WrWake, WrExit, DoneGive, WrCall, AbortReadGive, AbortWriteFlag,
      AbortWriteGive, UnblockGive, DoneFlag, AbortReadFlag, UnblockFlag, Reset,
      WrTimeout

LEMMA NextWriter == ASSUME IInv, Next PROVE WriterOK'
<1>0. WriterOK
  BY DEF IInv, TypeOK
<1>1. CASE WrCopy
  <2>1. PICK n \in 1..(Size - fill_cnt) :
           n <= wlen /\ wlen' = wlen - n /\ wtotal' = wtotal + n
    BY <1>1, WrCopyStep
  <2>2. wlen' \in Nat /\ wtotal' \in Nat
    BY <1>0, <2>1, ConstAssumption DEF WriterOK, IInv, TypeOK, DataOK
  <2>3. wpc' \in {"exit", "lock"} /\ wret' = wret
    BY <1>1 DEF WrCopy
  <2>4. QED
    BY <1>0, <2>2, <2>3 DEF WriterOK
<1>2. CASE WrLock \/ WrFull \/ WrSignal \/ WrWake \/ WrTimeout
  BY <1>0, <1>2 DEF WrLock, WrFull, WrSignal, WrWake, WrTimeout, WriterOK
<1>3. CASE WrExit \/ WrCall \/ DoneFlag \/ DoneGive
  BY <1>0, <1>3, ConstAssumption
  DEF WrExit, WrCall, DoneFlag, DoneGive, WriterOK
<1>4. CASE UNCHANGED wrvars
  BY <1>0, <1>4 DEF wrvars, WriterOK
<1>5. QED
  BY <1>1, <1>2, <1>3, <1>4
  DEF Next, Reader, Writer, Control, Calls, RdSize, RdEmpty, RdCopy, RdSignal,
      RdWake, RdExit, RdCall, AbortReadGive, AbortWriteFlag, AbortWriteGive,
      UnblockGive, AbortReadFlag, UnblockFlag, Reset, RdTimeout

(* Only the two copies and a reset move a pointer or the count.            *)
LEMMA NextPointers == ASSUME IInv, Next PROVE PointersAgree'
<1>0. /\ p_r \in 0..Size /\ p_w \in 0..Size /\ fill_cnt \in 0..Size
      /\ PointersAgree
  BY DEF IInv, TypeOK, DataOK
<1>1. CASE RdCopy
  <2>1. /\ rsize \in 1..fill_cnt /\ fill_cnt' = fill_cnt - rsize
        /\ p_r' = Advance(p_r, rsize) /\ p_w' = p_w
    BY <1>1, RdCopyStep
  <2>2. QED
    BY <1>0, <2>1, ConstAssumption DEF PointersAgree, Slot, Advance
<1>2. CASE WrCopy
  <2>1. PICK n \in 1..(Size - fill_cnt) :
           fill_cnt' = fill_cnt + n /\ p_w' = Advance(p_w, n) /\ p_r' = p_r
    BY <1>2, WrCopyStep
  <2>2. QED
    BY <1>0, <2>1, ConstAssumption DEF PointersAgree, Slot, Advance
<1>3. CASE Reset
  BY <1>3, ConstAssumption DEF Reset, PointersAgree, Slot
<1>4. CASE UNCHANGED <<p_r, p_w, fill_cnt>>
  BY <1>0, <1>4 DEF PointersAgree, Slot
<1>5. CASE Reader /\ ~RdCopy
  BY <1>4, <1>5 DEF Reader, RdSize, RdEmpty, RdSignal, RdWake, RdExit, data
<1>6. CASE Writer /\ ~WrCopy
  BY <1>4, <1>6 DEF Writer, WrLock, WrFull, WrSignal, WrWake, WrExit, DoneGive,
     data
<1>7. CASE Control
  BY <1>4, <1>7 DEF Control, AbortReadGive, AbortWriteFlag, AbortWriteGive,
     UnblockGive, data
<1>8. CASE Calls /\ ~Reset
  BY <1>4, <1>8 DEF Calls, RdCall, WrCall, DoneFlag, AbortReadFlag, UnblockFlag,
     data
<1>9. CASE RdTimeout \/ WrTimeout
  BY <1>4, <1>9 DEF RdTimeout, WrTimeout, data
<1>10. QED
  BY <1>1, <1>2, <1>3, <1>5, <1>6, <1>7, <1>8, <1>9 DEF Next

-----------------------------------------------------------------------------
(* Critical sections exclude each other: LockInv needs no other invariant. *)
LEMMA NextLock == ASSUME LockInv, Next PROVE LockInv'
<1> USE DEF LockInv, rdvars, wrvars
<1>1. CASE Reader
  BY <1>1 DEF Reader, RdSize, RdEmpty, RdCopy, RdSignal, RdWake, RdExit
<1>2. CASE Writer
  BY <1>2 DEF Writer, WrLock, WrFull, WrCopy, WrSignal, WrWake, WrExit, DoneGive
<1>3. CASE Control
  BY <1>3 DEF Control, AbortReadGive, AbortWriteFlag, AbortWriteGive, UnblockGive
<1>4. CASE Calls
  BY <1>4 DEF Calls, RdCall, WrCall, DoneFlag, AbortReadFlag, UnblockFlag, Reset
<1>5. CASE RdTimeout \/ WrTimeout
  BY <1>5 DEF RdTimeout, WrTimeout
<1>6. QED
  BY <1>1, <1>2, <1>3, <1>4, <1>5 DEF Next

(* Between the reader's lock and unlock nobody changes fill_cnt: the       *)
(* writer is kept out by the lock, a reset by the assumption.              *)
LEMMA NextReaderInv ==
  ASSUME ~ResetWhileReading, IInv, Next PROVE ReaderInv'
<1>0. ReaderInv /\ ReaderOK /\ LockInv /\ fill_cnt \in Nat
  BY ConstAssumption DEF IInv, TypeOK, DataOK
<1>1. CASE RdSize
  <2>1. rlen > 0 /\ rlen \in Nat /\ fill_cnt' = fill_cnt /\ rlen' = rlen
    BY <1>0, <1>1 DEF RdSize, ReaderInv, ReaderOK, data
  <2>2. WholeWords(fill_cnt) \in 0..fill_cnt
    BY <1>0, WholeWordsRange
  <2>3. rpc' = "sized" /\ CanRead' = CanRead
    BY <1>1, <2>1 DEF RdSize, CanRead, WholeWords
  <2>4. /\ rsize' <= fill_cnt /\ rsize' <= rlen
        /\ rsize' = 0 => ~CanRead
    BY <1>0, <1>1, <2>1, <2>2 DEF RdSize, CanRead
  <2>5. QED
    BY <2>1, <2>3, <2>4 DEF ReaderInv
<1>2. CASE RdCopy
  BY <1>0, <1>2, RdCopyStep DEF RdCopy, ReaderInv, ReaderOK
<1>3. CASE RdEmpty \/ RdSignal \/ RdWake \/ RdTimeout \/ RdExit
  BY <1>0, <1>3 DEF RdEmpty, RdSignal, RdWake, RdTimeout, RdExit, ReaderInv
<1>4. CASE RdCall
  BY <1>4, ConstAssumption DEF RdCall, ReaderInv
<1>5. CASE rpc # "sized" /\ UNCHANGED rdvars
  BY <1>0, <1>5 DEF ReaderInv, rdvars
<1>6. CASE UNCHANGED <<fill_cnt, rdvars>>
  BY <1>0, <1>6 DEF ReaderInv, rdvars, CanRead, WholeWords
<1>7. CASE WrCopy \/ Reset
  BY <1>0, <1>5, <1>7 DEF WrCopy, Reset, LockInv
<1>8. QED
  BY <1>1, <1>2, <1>3, <1>4, <1>6, <1>7
  DEF Next, Reader, Writer, Control, Calls, WrLock, WrFull, WrSignal, WrWake,
      WrExit, DoneGive, WrCall, AbortReadGive, AbortWriteFlag, AbortWriteGive,
      UnblockGive, DoneFlag, AbortReadFlag, UnblockFlag, WrTimeout, data

LEMMA NextWriterInv == ASSUME IInv, Next PROVE WriterInv'
<1>0. WriterInv
  BY DEF IInv
<1>1. CASE WrCopy
  <2>1. PICK n \in 1..(Size - fill_cnt) : n <= wlen /\ wlen' = wlen - n
    BY <1>1, WrCopyStep
  <2>2. wlen \in Nat /\ fill_cnt \in 0..Size
    BY DEF IInv, TypeOK, WriterOK, DataOK
  <2>3. wpc' = IF wlen' = 0 THEN "exit" ELSE "lock"
    BY <1>1 DEF WrCopy
  <2>4. QED
    BY <2>1, <2>2, <2>3, ConstAssumption DEF WriterInv
<1>2. CASE WrLock \/ WrFull \/ WrSignal \/ WrWake \/ WrTimeout \/ WrExit
  BY <1>0, <1>2
  DEF WrLock, WrFull, WrSignal, WrWake, WrTimeout, WrExit, WriterInv
<1>3. CASE WrCall \/ DoneFlag \/ DoneGive
  BY <1>0, <1>3, ConstAssumption DEF WrCall, DoneFlag, DoneGive, WriterInv
<1>4. CASE UNCHANGED wrvars
  BY <1>0, <1>4 DEF wrvars, WriterInv
<1>5. QED
  BY <1>1, <1>2, <1>3, <1>4
  DEF Next, Reader, Writer, Control, Calls, RdSize, RdEmpty, RdCopy, RdSignal,
      RdWake, RdExit, RdCall, AbortReadGive, AbortWriteFlag, AbortWriteGive,
      UnblockGive, AbortReadFlag, UnblockFlag, Reset, RdTimeout

-----------------------------------------------------------------------------
(* No lost wake-up of the reader.  Its invariant is written over the parts *)
(* a step can change: what there is to read, and who owes a give.          *)
LEMMA NextReaderWakes ==
  ASSUME ~ResetWhileReading, IInv, Next PROVE ReaderWakes'
<1>0. ReaderWakes /\ ReaderInv /\ LockInv
  BY DEF IInv
<1>1. CASE RdEmpty
  BY <1>0, <1>1
  DEF RdEmpty, ReaderWakes, ReaderInv, CanRead, WholeWords, data, flags
<1>2. CASE RdSignal
  BY <1>0, <1>2
  DEF RdSignal, ReaderWakes, CanRead, WholeWords, data, flags, wrvars
<1>3. CASE RdCall \/ RdSize \/ RdCopy \/ RdWake \/ RdTimeout \/ RdExit
  BY <1>3
  DEF RdCall, RdSize, RdCopy, RdWake, RdTimeout, RdExit, ReaderWakes
<1>4. CASE WrCopy
  <2>1. PICK n \in 1..(Size - fill_cnt) : wtotal' = wtotal + n
    BY <1>4, WrCopyStep
  <2>2. wtotal \in Nat /\ Size - fill_cnt \in Nat
    BY ConstAssumption DEF IInv, TypeOK, WriterOK, DataOK
  <2>3. wtotal' > 0
    BY <2>1, <2>2
  <2>4. /\ wpc = "locked" /\ wpc' \in {"exit", "lock"}
        /\ UNCHANGED <<rpc, can_read, cpc, is_done_write, abort_read,
                       unblock_reader_flag>>
    BY <1>4 DEF WrCopy, rdvars, flags, sems
  <2>5. QED
    BY <1>0, <2>3, <2>4 DEF ReaderWakes
<1>5. CASE WrLock \/ WrFull \/ WrWake \/ WrTimeout
  BY <1>0, <1>5 DEF WrLock, WrFull, WrWake, WrTimeout, ReaderWakes, CanRead,
     WholeWords, data, flags, sems, rdvars
<1>6. CASE WrCall \/ DoneFlag
  BY <1>0, <1>6 DEF WrCall, DoneFlag, ReaderWakes, CanRead, WholeWords, data,
     flags, sems, rdvars
<1>7. CASE WrSignal \/ DoneGive \/ AbortReadGive \/ UnblockGive
  BY <1>7 DEF WrSignal, DoneGive, AbortReadGive, UnblockGive, ReaderWakes
<1>8. CASE WrExit
  <2>1. wtotal \in Nat
    BY DEF IInv, TypeOK, WriterOK
  <2>2. QED
    BY <1>0, <1>8, <2>1 DEF WrExit, ReaderWakes, CanRead, WholeWords, data,
       flags, rdvars
<1>9. CASE AbortWriteFlag \/ AbortWriteGive
  BY <1>0, <1>9 DEF AbortWriteFlag, AbortWriteGive, ReaderWakes, CanRead,
     WholeWords, data, flags, sems, rdvars, wrvars
<1>10. CASE AbortReadFlag \/ UnblockFlag
  BY <1>0, <1>10 DEF AbortReadFlag, UnblockFlag, ReaderWakes, CanRead,
     WholeWords, data, flags, sems, rdvars, wrvars
<1>11. CASE Reset
  BY <1>11 DEF Reset, ReaderWakes, rdvars
<1>12. QED
  BY <1>1, <1>2, <1>3, <1>4, <1>5, <1>6, <1>7, <1>8, <1>9, <1>10, <1>11
  DEF Next, Reader, Writer, Control, Calls

LEMMA NextWriterWakes ==
  ASSUME IInv, Next PROVE WriterWakes'
<1>0. WriterWakes /\ LockInv
  BY DEF IInv
<1>1. CASE WrFull
  <2>1. fill_cnt = Size
    BY <1>1, ConstAssumption
    DEF WrFull, rb_bytes_available, U32, IInv, TypeOK, DataOK
  <2>2. QED
    BY <1>0, <1>1, <2>1, ConstAssumption
    DEF WrFull, WriterWakes, data, flags, rdvars
<1>2. CASE WrSignal
  BY <1>0, <1>2 DEF WrSignal, WriterWakes, data, flags, rdvars
<1>3. CASE WrCall \/ WrLock \/ WrWake \/ WrTimeout \/ WrExit
  BY <1>3 DEF WrCall, WrLock, WrWake, WrTimeout, WrExit, WriterWakes
<1>4. CASE WrCopy \/ DoneFlag \/ DoneGive
  BY <1>4 DEF WrCopy, DoneFlag, DoneGive, WriterWakes
<1>5. CASE RdCopy
  <2>1. rtotal' > 0
    BY <1>5, RdCopyStep, ConstAssumption
    DEF RdCopy, IInv, TypeOK, ReaderOK, DataOK
  <2>2. /\ rpc = "sized" /\ rpc' \in {"exit", "lock"}
        /\ UNCHANGED <<wpc, can_write, cpc, abort_write>>
    BY <1>5 DEF RdCopy, wrvars, flags, sems
  <2>3. QED
    BY <1>0, <2>1, <2>2 DEF WriterWakes
<1>6. CASE RdCall \/ RdSize \/ RdEmpty \/ RdWake \/ RdTimeout
  BY <1>0, <1>6 DEF RdCall, RdSize, RdEmpty, RdWake, RdTimeout, WriterWakes,
     data, flags, sems, wrvars
<1>7. CASE RdSignal \/ AbortWriteGive
  BY <1>7 DEF RdSignal, AbortWriteGive, WriterWakes
<1>8. CASE RdExit
  BY <1>0, <1>8 DEF RdExit, WriterWakes, wrvars, IInv, TypeOK, ReaderOK
<1>9. CASE AbortWriteFlag \/ AbortReadFlag \/ UnblockFlag
  BY <1>0, <1>9 DEF AbortWriteFlag, AbortReadFlag, UnblockFlag, WriterWakes,
     data, sems, rdvars, wrvars
<1>10. CASE AbortReadGive \/ UnblockGive
  BY <1>0, <1>10 DEF AbortReadGive, UnblockGive, WriterWakes, data, flags,
     rdvars, wrvars
<1>11. CASE Reset
  BY <1>11 DEF Reset, WriterWakes, wrvars
<1>12. QED
  BY <1>1, <1>2, <1>3, <1>4, <1>5, <1>6, <1>7, <1>8, <1>9, <1>10, <1>11
  DEF Next, Reader, Writer, Control, Calls

(* Each side gives the other's semaphore last before it sleeps.            *)
LEMMA NextNotBothAsleep ==
  ASSUME NotBothAsleep, Next PROVE NotBothAsleep'
<1> USE DEF NotBothAsleep, rdvars, wrvars, sems
<1>1. CASE Reader
  BY <1>1 DEF Reader, RdSize, RdEmpty, RdCopy, RdSignal, RdWake, RdExit
<1>2. CASE Writer
  BY <1>2 DEF Writer, WrLock, WrFull, WrCopy, WrSignal, WrWake, WrExit, DoneGive
<1>3. CASE Control
  BY <1>3 DEF Control, AbortReadGive, AbortWriteFlag, AbortWriteGive, UnblockGive
<1>4. CASE Calls
  BY <1>4 DEF Calls, RdCall, WrCall, DoneFlag, AbortReadFlag, UnblockFlag, Reset
<1>5. CASE RdTimeout \/ WrTimeout
  BY <1>5 DEF RdTimeout, WrTimeout
<1>6. QED
  BY <1>1, <1>2, <1>3, <1>4, <1>5 DEF Next

-----------------------------------------------------------------------------
(* All invariants of the ring buffer, inductively.                         *)
THEOREM Invariance ==
  ASSUME ~ResetWhileReading PROVE Spec => []IInv
<1>1. Init => IInv
  BY InitInv
<1>2. IInv /\ [Next]_vars => IInv'
  <2> SUFFICES ASSUME IInv, [Next]_vars PROVE IInv'
    OBVIOUS
  <2>1. CASE Next
    <3>1. TypeOK' /\ PointersAgree' /\ LockInv'
      BY <2>1, NextData, NextFlags, NextReader, NextWriter, NextPointers,
         NextLock DEF IInv, TypeOK
    <3>2. ReaderInv' /\ WriterInv'
      BY <2>1, NextReaderInv, NextWriterInv
    <3>3. ReaderWakes' /\ WriterWakes' /\ NotBothAsleep'
      BY <2>1, NextReaderWakes, NextWriterWakes, NextNotBothAsleep DEF IInv
    <3>4. QED
      BY <3>1, <3>2, <3>3 DEF IInv
  <2>2. CASE UNCHANGED vars
    BY <2>2 DEF vars, data, flags, sems, rdvars, wrvars, IInv, TypeOK, DataOK,
       FlagsOK, ReaderOK, WriterOK, PointersAgree, Slot, LockInv, ReaderInv,
       WriterInv, ReaderWakes, WriterWakes, NotBothAsleep, CanRead, WholeWords
  <2>3. QED
    BY <2>1, <2>2
<1>3. QED
  BY <1>1, <1>2, PTL DEF Spec

(* Types hold and fill_cnt never wraps, whatever the sizes.                *)
THEOREM TypeCorrect ==
  ASSUME ~ResetWhileReading PROVE Spec => []TypeOK
<1>1. IInv => TypeOK
  BY DEF IInv
<1>2. QED
  BY <1>1, Invariance, PTL

(* The two pointers and the count always agree.                            *)
THEOREM PointersCorrect ==
  ASSUME ~ResetWhileReading PROVE Spec => []PointersAgree
<1>1. IInv => PointersAgree
  BY DEF IInv
<1>2. QED
  BY <1>1, Invariance, PTL

(* A reader that sleeps although it could take something has its semaphore *)
(* given, or somebody is about to give it.                                 *)
THEOREM ReaderWoken ==
  ASSUME ~ResetWhileReading PROVE Spec => []ReaderWakes
<1>1. IInv => ReaderWakes
  BY DEF IInv
<1>2. QED
  BY <1>1, Invariance, PTL

(* The same of a writer that sleeps although there is space.               *)
THEOREM WriterWoken ==
  ASSUME ~ResetWhileReading PROVE Spec => []WriterWakes
<1>1. IInv => WriterWakes
  BY DEF IInv
<1>2. QED
  BY <1>1, Invariance, PTL

(* The two sides never sleep together.                                     *)
THEOREM OneAwake ==
  ASSUME ~ResetWhileReading PROVE Spec => []NotBothAsleep
<1>1. IInv => NotBothAsleep
  BY DEF IInv
<1>2. QED
  BY <1>1, Invariance, PTL

-----------------------------------------------------------------------------
(* The mask of rb_read leaves less than a word.                            *)
LEMMA WholeWordsRest ==
  ASSUME NEW n \in Nat, WholeWords(n) = 0 PROVE n < Word
<1>1. n % Word < Word /\ n % Word \in Nat
  BY ConstAssumption
<1>2. n = n % Word
  BY <1>1 DEF WholeWords
<1>3. QED
  BY <1>1, <1>2

(* When rb_read decides that there is nothing more to come, what is left   *)
(* is less than a word, whatever was written and set since it took the     *)
(* lock.                                                                   *)
THEOREM NoWordLost ==
  ASSUME ~ResetWhileReading PROVE Spec => DoneLosesNoWord
<1>1. ASSUME IInv, Next, rret' = RB_DONE, rret # RB_DONE
      PROVE  is_done_write /\ fill_cnt < Word
  <2>1. RdEmpty /\ is_done_write
    <3>1. CASE Reader
      BY <1>1, <3>1 DEF Reader, RdSize, RdEmpty, RdCopy, RdSignal, RdWake, RdExit,
         RB_OK, RB_DONE, RB_ABORT, RB_TIMEOUT
    <3>2. CASE UNCHANGED rdvars
      BY <1>1, <3>2 DEF rdvars
    <3>3. CASE RdCall \/ RdTimeout
      BY <1>1, <3>3 DEF RdCall, RdTimeout, RB_OK, RB_DONE, RB_TIMEOUT
    <3>4. QED
      BY <1>1, <3>1, <3>2, <3>3
      DEF Next, Writer, Control, Calls, WrLock, WrFull, WrCopy, WrSignal, WrWake,
          WrExit, DoneGive, WrCall, AbortReadGive, AbortWriteFlag, AbortWriteGive,
          UnblockGive, DoneFlag, AbortReadFlag, UnblockFlag, Reset, WrTimeout
  <2>2. fill_cnt \in Nat /\ ~CanRead
    BY <1>1, <2>1, ConstAssumption DEF RdEmpty, IInv, ReaderInv, TypeOK, DataOK
  <2>3. WholeWords(fill_cnt) \in 0..fill_cnt /\ ~(WholeWords(fill_cnt) > 0)
    BY <2>2, WholeWordsRange DEF CanRead
  <2>4. WholeWords(fill_cnt) = 0
    BY <2>2, <2>3
  <2>5. QED
    BY <2>1, <2>2, <2>4, WholeWordsRest
<1>2. IInv /\ [Next]_vars =>
        [(rret' = RB_DONE /\ rret # RB_DONE) => is_done_write /\ fill_cnt < Word]_vars
  BY <1>1
<1>3. QED
  BY <1>2, Invariance, PTL DEF Spec, DoneLosesNoWord

-----------------------------------------------------------------------------
(* The queue a reader sees: taking n bytes leaves the rest of it, ...      *)
LEMMA ReadIsPrefix ==
  ASSUME NEW m \in [0..(Size - 1) -> Byte], NEW p \in 0..Size,
         NEW f \in 0..Size, NEW n \in 1..f
  PROVE  /\ Chunk(m, p, n) = SubSeq(Chunk(m, p, f), 1, n)
         /\ Chunk(m, Advance(p, n), f - n) = SubSeq(Chunk(m, p, f), n + 1, f)
<1> DEFINE q == Chunk(m, p, f)
<1>0. /\ f \in Int /\ n \in Int /\ n \in 0..Size /\ f - n \in 0..Size
      /\ Advance(p, n) \in 0..Size
  BY ConstAssumption DEF Advance
<1>1. q \in Seq(Byte) /\ Len(q) = f /\ \A i \in 1..f : q[i] = m[Slot(p + i - 1)]
  BY ChunkType
<1> HIDE DEF q
<1>2. Chunk(m, p, n) = SubSeq(q, 1, n)
  <2>1. /\ Chunk(m, p, n) \in Seq(Byte) /\ Len(Chunk(m, p, n)) = n
        /\ \A i \in 1..n : Chunk(m, p, n)[i] = m[Slot(p + i - 1)]
    BY <1>0, ChunkType
  <2>2. /\ SubSeq(q, 1, n) \in Seq(Byte) /\ Len(SubSeq(q, 1, n)) = n
        /\ \A i \in 1..n : SubSeq(q, 1, n)[i] = q[i]
    BY <1>0, <1>1
  <2>3. ASSUME NEW i \in 1..n PROVE SubSeq(q, 1, n)[i] = Chunk(m, p, n)[i]
    <3>1. i \in 1..f
      BY <1>0
    <3>2. QED
      BY <1>1, <2>1, <2>2, <3>1
  <2>4. QED
    BY <2>1, <2>2, <2>3, SeqEqual
<1>3. Chunk(m, Advance(p, n), f - n) = SubSeq(q, n + 1, f)
  <2> DEFINE r == Chunk(m, Advance(p, n), f - n)
  <2>1. /\ r \in Seq(Byte) /\ Len(r) = f - n
        /\ \A i \in 1..(f - n) : r[i] = m[Slot(Advance(p, n) + i - 1)]
    BY <1>0, ChunkType
  <2>2. /\ SubSeq(q, n + 1, f) \in Seq(Byte)
        /\ Len(SubSeq(q, n + 1, f)) = f - n
        /\ \A i \in 1..(f - n) : SubSeq(q, n + 1, f)[i] = q[n + i]
    BY <1>0, <1>1
  <2>3. \A i \in 1..(f - n) : Slot(Advance(p, n) + i - 1) = Slot(p + (n + i) - 1)
    BY ConstAssumption DEF Slot, Advance
  <2>4. ASSUME NEW i \in 1..(f - n) PROVE SubSeq(q, n + 1, f)[i] = r[i]
    <3>1. n + i \in 1..f
      BY <1>0
    <3>2. q[n + i] = m[Slot(p + (n + i) - 1)]
      BY <1>1, <3>1
    <3>3. QED
      BY <2>1, <2>2, <2>3, <3>2
  <2> HIDE DEF r
  <2>5. r = SubSeq(q, n + 1, f)
    BY <2>1, <2>2, <2>4, SeqEqual
  <2>6. QED
    BY <2>5 DEF r
<1>4. QED
  BY <1>2, <1>3 DEF q

(* ... and storing a chunk behind it that fits appends the chunk.          *)
LEMMA WriteAppends ==
  ASSUME NEW m \in [0..(Size - 1) -> Byte], NEW p \in 0..Size,
         NEW w \in 0..Size, NEW f \in 0..Size,
         Slot(w) = Slot(Slot(p) + f),
         NEW n \in 1..(Size - f), NEW d \in [1..n -> Byte]
  PROVE  Chunk(Stored(m, w, d), p, f + n) = Chunk(m, p, f) \o d
<1> DEFINE m2 == Stored(m, w, d)
           q == Chunk(m, p, f)
           r == Chunk(m2, p, f + n)
<1>0. n \in 0..Size /\ f + n \in 0..Size /\ n \in Nat
  BY ConstAssumption
<1>1. /\ m2 \in [0..(Size - 1) -> Byte]
      /\ \A s \in 0..(Size - 1) :
           m2[s] = IF Distance(w, s) < n THEN d[Distance(w, s) + 1] ELSE m[s]
  BY <1>0, StoredType, ZenonT(40)
<1>2. q \in Seq(Byte) /\ Len(q) = f /\ \A i \in 1..f : q[i] = m[Slot(p + i - 1)]
  BY ChunkType
<1> HIDE DEF m2
<1>3. /\ r \in Seq(Byte) /\ Len(r) = f + n
      /\ \A i \in 1..(f + n) : r[i] = m2[Slot(p + i - 1)]
  BY <1>0, <1>1, ChunkType
<1> HIDE DEF q, r
<1>4. d \in Seq(Byte) /\ Len(d) = n
  BY <1>0
<1>5. /\ q \o d \in Seq(Byte) /\ Len(q \o d) = f + n
      /\ \A i \in 1..(f + n) : (q \o d)[i] = IF i <= f THEN q[i] ELSE d[i - f]
  <2>1. /\ q \o d \in Seq(Byte) /\ Len(q \o d) = Len(q) + Len(d)
        /\ \A i \in 1..(Len(q) + Len(d)) :
             (q \o d)[i] = IF i <= Len(q) THEN q[i] ELSE d[i - Len(q)]
    BY <1>2, <1>4, ConcatProperties, Zenon
  <2>2. QED
    BY <1>2, <1>4, <2>1
<1>6. ASSUME NEW i \in 1..(f + n) PROVE r[i] = (q \o d)[i]
  <2>1. Slot(p + i - 1) \in 0..(Size - 1)
    BY <1>0, ConstAssumption DEF Slot
  <2>2. CASE i <= f
    <3>1. ~ (Distance(w, Slot(p + i - 1)) < n)
      BY <2>2, ConstAssumption DEF Distance, Slot
    <3>2. QED
      BY <1>1, <1>2, <1>3, <1>5, <2>1, <2>2, <3>1
  <2>3. CASE ~(i <= f)
    <3>1. Distance(w, Slot(p + i - 1)) = i - f - 1
      BY <2>3, ConstAssumption DEF Distance, Slot
    <3>2. i - f - 1 < n /\ (i - f - 1) + 1 = i - f
      BY <1>0, <2>3, ConstAssumption
    <3>3. m2[Slot(p + i - 1)] = d[i - f]
      BY <1>1, <2>1, <3>1, <3>2
    <3>4. (q \o d)[i] = d[i - f]
      BY <1>5, <2>3, ConstAssumption
    <3>5. QED
      BY <1>3, <3>3, <3>4
  <2>4. QED
    BY <2>2, <2>3
<1>7. r = q \o d
  BY <1>3, <1>5, <1>6, SeqEqual
<1>8. QED
  BY <1>7 DEF q, r, m2

(* Every step of the ring buffer is a step of the byte queue or a stutter. *)
LEMMA StepRefines ==
  ASSUME IInv, Next
  PROVE  [Fifo!Put \/ Fifo!Get \/ Fifo!Take \/ Fifo!Clear]_<<Contents, out>>
<1>0. DataOK /\ PointersAgree
  BY DEF IInv, TypeOK
<1>1. Len(Contents) = fill_cnt
  BY <1>0, ChunkType DEF DataOK, Contents
<1>2. CASE RdCopy
  <2>1. /\ rsize \in 1..fill_cnt /\ fill_cnt' = fill_cnt - rsize
        /\ p_r' = Advance(p_r, rsize) /\ buf' = buf
    BY <1>2, RdCopyStep
  <2>2. out' = SubSeq(Contents, 1, rsize)
    BY <1>0, <1>2, <2>1, ReadIsPrefix DEF RdCopy, DataOK, Contents
  <2>3. Contents' = SubSeq(Contents, rsize + 1, fill_cnt)
    BY <1>0, <2>1, ReadIsPrefix DEF DataOK, Contents
  <2>4. Fifo!Get
    BY <1>1, <2>1, <2>2, <2>3 DEF Fifo!Get
  <2>5. QED
    BY <2>4
<1>3. CASE WrCopy
  <2>1. PICK n \in 1..(Size - fill_cnt) : \E d \in [1..n -> Byte] :
           /\ n <= wlen /\ buf' = Stored(buf, p_w, d)
           /\ wlen' = wlen - n /\ wtotal' = wtotal + n
           /\ fill_cnt' = fill_cnt + n
           /\ p_w' = Advance(p_w, n) /\ p_r' = p_r
    BY <1>3, WrCopyStep
  <2>2. PICK d \in [1..n -> Byte] : buf' = Stored(buf, p_w, d)
    BY <2>1
  <2>3. Contents' = Contents \o d
    <3>1. Contents' = Chunk(Stored(buf, p_w, d), p_r, fill_cnt + n)
      BY <2>1, <2>2 DEF Contents
    <3>2. /\ buf \in [0..(Size - 1) -> Byte] /\ p_r \in 0..Size
          /\ p_w \in 0..Size /\ fill_cnt \in 0..Size
          /\ Slot(p_w) = Slot(Slot(p_r) + fill_cnt)
      BY <1>0 DEF DataOK, PointersAgree
    <3>3. QED
      BY <3>1, <3>2, WriteAppends DEF Contents
  <2>4. Fifo!Put
    BY <1>1, <1>3, <2>1, <2>2, <2>3 DEF Fifo!Put, WrCopy
  <2>5. QED
    BY <2>4
<1>4. CASE Reset
  <2>1. Contents' = <<>>
    BY <1>4 DEF Reset, Contents, Chunk
  <2>2. QED
    BY <1>4, <2>1 DEF Reset, Fifo!Clear
<1>5. CASE RdExit
  BY <1>5 DEF RdExit, Fifo!Take, Contents, Chunk, Slot
<1>6. CASE UNCHANGED data
  BY <1>6 DEF data, Contents, Chunk, Slot
<1>7. QED
  BY <1>2, <1>3, <1>4, <1>5, <1>6
  DEF Next, Reader, Writer, Control, Calls, RdSize, RdEmpty, RdSignal, RdWake,
      WrLock, WrFull, WrSignal, WrWake, WrExit, DoneGive, RdCall, WrCall,
      AbortReadGive, AbortWriteFlag, AbortWriteGive, UnblockGive, DoneFlag,
      AbortReadFlag, UnblockFlag, RdTimeout, WrTimeout

(* The ring buffer implements the byte queue.                              *)
THEOREM Refinement ==
  ASSUME ~ResetWhileReading PROVE Spec => FifoSpec
<1>1. Init => Fifo!Init
  BY DEF Init, Fifo!Init, Contents, Chunk
<1>2. IInv /\ [Next]_vars
        => [Fifo!Put \/ Fifo!Get \/ Fifo!Take \/ Fifo!Clear]_<<Contents, out>>
  <2> SUFFICES ASSUME IInv, [Next]_vars
      PROVE  [Fifo!Put \/ Fifo!Get \/ Fifo!Take \/ Fifo!Clear]_<<Contents, out>>
    OBVIOUS
  <2>1. CASE Next
    BY <2>1, StepRefines
  <2>2. CASE UNCHANGED vars
    BY <2>2 DEF vars, data, Contents, Chunk, Slot
  <2>3. QED
    BY <2>1, <2>2
<1>3. QED
  BY <1>1, <1>2, Invariance, PTL DEF Spec, FifoSpec, Fifo!Spec
=============================================================================
