------------------------------ MODULE RingBuf ------------------------------
(***************************************************************************)
(* The byte ring buffer that connects two elements of an audio pipeline,   *)
(* components/bk_audio/audio_pipeline/ringbuf.c.                           *)
(*                                                                         *)
(* One task writes, one task reads, a third one (the application, in       *)
(* audio_element_stop) aborts.  rb_read and rb_write are modelled step by  *)
(* step: a task switch can happen wherever `pc' changes.  The bytes of a   *)
(* critical section move in one step, since the mutex is held around them; *)
(* the flags are not protected by it and are set at any moment.            *)
(*                                                                         *)
(* Pointers are offsets from p_o.  The wrap test of the code is            *)
(* `p + n > p_o + size', so an offset of `size' is a legal value and stands *)
(* for the same byte as offset 0.                                          *)
(***************************************************************************)
EXTENDS Integers, Sequences

CONSTANTS
  Byte,             \* the values of a byte (two are enough to see an order)
  Size,             \* block_size * n_blocks
  Word,             \* reads come in multiples of this: 4 in the code
  UMod,             \* modulus of uint32_t
  Lens,             \* the lengths callers ask for
  ResetWhileReading \* does a writer reset the buffer under a running rb_read?

ASSUME ConstAssumption ==
  /\ Size \in Nat \ {0, 1}           \* rb_create refuses block_size < 2
  /\ Word \in Nat \ {0}
  /\ UMod \in Nat /\ UMod > 2 * Size
  /\ Lens \subseteq Nat \ {0}
  /\ ResetWhileReading \in BOOLEAN
  /\ Byte # {}

RB_OK == 0
RB_DONE == -2
RB_ABORT == -3
RB_TIMEOUT == -4

VARIABLES
  buf,                   \* the bytes at p_o
  p_r, p_w, fill_cnt,
  is_done_write, abort_read, abort_write, unblock_reader_flag,
  lock,                  \* holder of the mutex: "r", "w" or "free"
  can_read, can_write,   \* the binary semaphores: is a token there?
  rpc, rlen, rsize, rtotal, rret,  \* rb_read: pc, buf_len, read_size, ...
  out,                   \* the bytes the last copy handed to the reader
  wpc, wlen, wtotal, wret,         \* rb_write, rb_done_write
  cpc                    \* rb_abort / rb_unblock_reader in the application

rdvars  == <<rpc, rlen, rsize, rtotal, rret>>
wrvars  == <<wpc, wlen, wtotal, wret>>
flags   == <<is_done_write, abort_read, abort_write, unblock_reader_flag>>
data    == <<buf, p_r, p_w, fill_cnt, out>>
sems    == <<can_read, can_write>>
vars    == <<data, flags, lock, sems, rdvars, wrvars, cpc>>

-----------------------------------------------------------------------------
(* Offsets and 32-bit counts.                                              *)
Slot(x) == IF x >= Size THEN x - Size ELSE x      \* the byte an offset denotes
AdvanceNoRemainder(p, n) == IF p + n > Size THEN 0 ELSE p + n      \* mutant
Advance(p, n) == IF p + n > Size THEN p + n - Size ELSE p + n
U32(x) == IF x < 0 THEN x + UMod ELSE x

rb_bytes_available_plus1 == U32(Size - fill_cnt) + 1               \* mutant
rb_bytes_available == U32(Size - fill_cnt)

(* The mask 0xfffffffc: less than rb_read asked for comes in whole words.  *)
WholeWords(n) == n - (n % Word)

(* The n bytes of memory m from offset p on, and m after d is copied to p. *)
Chunk(m, p, n) == [i \in 1..n |-> m[Slot(p + i - 1)]]
Distance(p, s) == IF s >= Slot(p) THEN s - Slot(p) ELSE s + Size - Slot(p)
Stored(m, p, d) ==
  [s \in 0..(Size - 1) |->
     IF Distance(p, s) < Len(d) THEN d[Distance(p, s) + 1] ELSE m[s]]

-----------------------------------------------------------------------------
Init ==                                                      \* rb_create
  /\ \E b \in Byte : buf = [s \in 0..(Size - 1) |-> b]     \* audio_calloc
  /\ p_r = 0 /\ p_w = 0 /\ fill_cnt = 0
  /\ is_done_write = FALSE /\ unblock_reader_flag = FALSE
  /\ abort_read = FALSE /\ abort_write = FALSE
  /\ lock = "free" /\ can_read = FALSE /\ can_write = FALSE
  /\ rpc = "idle" /\ rlen = 0 /\ rsize = 0 /\ rtotal = 0 /\ rret = RB_OK
  /\ out = <<>>
  /\ wpc = "idle" /\ wlen = 0 /\ wtotal = 0 /\ wret = RB_OK
  /\ cpc = "idle"

-----------------------------------------------------------------------------
(* rb_read                                                                 *)
RdCall ==
  /\ rpc = "idle"
  /\ \E n \in Lens : rlen' = n
  /\ rpc' = "lock" /\ rret' = RB_OK
  /\ UNCHANGED <<data, flags, lock, sems, rsize, rtotal, wrvars, cpc>>

\* mutant: read_size is not capped by fill_cnt
RdSizeUncapped ==
  /\ rpc = "lock" /\ lock = "free"
  /\ lock' = "r" /\ rpc' = "sized"
  /\ rsize' = IF fill_cnt = 0 THEN 0 ELSE rlen
  /\ UNCHANGED <<data, flags, sems, rlen, rtotal, rret, wrvars, cpc>>

\* mutant: a done writer ends the read before its last bytes are taken
RdSizeDoneFirst ==
  /\ rpc = "lock" /\ lock = "free"
  /\ lock' = "r" /\ rpc' = "sized"
  /\ rsize' = IF fill_cnt >= rlen THEN rlen
              ELSE IF is_done_write THEN 0
              ELSE WholeWords(fill_cnt)
  /\ UNCHANGED <<data, flags, sems, rlen, rtotal, rret, wrvars, cpc>>

\* Takes the lock and computes read_size, testing is_done_write a first time.
RdSize ==
  /\ rpc = "lock" /\ lock = "free"
  /\ lock' = "r" /\ rpc' = "sized"
  /\ rsize' = IF fill_cnt >= rlen THEN rlen
              ELSE IF WholeWords(fill_cnt) = 0 /\ is_done_write THEN fill_cnt
              ELSE WholeWords(fill_cnt)
  /\ UNCHANGED <<data, flags, sems, rlen, rtotal, rret, wrvars, cpc>>

\* Nothing to take: leave with a code, or go and wait.  The flags are read
\* again here; they may have been set since RdSize.
RdEmpty ==
  /\ rpc = "sized" /\ rsize = 0
  /\ lock' = "free"
  /\ \/ /\ is_done_write
        /\ rret' = RB_DONE /\ rpc' = "exit"
     \/ /\ ~is_done_write /\ abort_read
        /\ rret' = RB_ABORT /\ rpc' = "exit"
     \/ /\ ~is_done_write /\ ~abort_read /\ unblock_reader_flag
        /\ rret' = RB_TIMEOUT /\ rpc' = "exit"
     \/ /\ ~is_done_write /\ ~abort_read /\ ~unblock_reader_flag
        /\ rpc' = "signal" /\ UNCHANGED rret
  /\ UNCHANGED <<data, flags, sems, rlen, rsize, rtotal, wrvars, cpc>>

RdCopy ==
  /\ rpc = "sized" /\ rsize # 0
  /\ out' = Chunk(buf, p_r, rsize)
  /\ p_r' = Advance(p_r, rsize)
  /\ rlen' = rlen - rsize
  /\ fill_cnt' = U32(fill_cnt - rsize)
  /\ rtotal' = rtotal + rsize
  /\ lock' = "free"
  /\ rpc' = IF rlen' = 0 THEN "exit" ELSE "lock"
  /\ UNCHANGED <<buf, p_w, flags, sems, rsize, rret, wrvars, cpc>>

\* mutant: the reader waits without releasing can_write
RdSignalNoGive ==
  /\ rpc = "signal"
  /\ rpc' = "wait"
  /\ UNCHANGED <<data, flags, lock, sems, rlen, rsize, rtotal, rret, wrvars, cpc>>

RdSignal ==
  /\ rpc = "signal"
  /\ can_write' = TRUE /\ rpc' = "wait"
  /\ UNCHANGED <<data, flags, lock, can_read, rlen, rsize, rtotal, rret,
                 wrvars, cpc>>

RdWake ==
  /\ rpc = "wait" /\ can_read
  /\ can_read' = FALSE /\ rpc' = "lock"
  /\ UNCHANGED <<data, flags, lock, can_write, rlen, rsize, rtotal, rret,
                 wrvars, cpc>>

\* ticks_to_wait expired; never under portMAX_DELAY.
RdTimeout ==
  /\ rpc = "wait" /\ ~can_read
  /\ rret' = RB_TIMEOUT /\ rpc' = "exit"
  /\ UNCHANGED <<data, flags, lock, sems, rlen, rsize, rtotal, wrvars, cpc>>

\* read_err: signal the writer, drop a pending unblock, return.
RdExit ==
  /\ rpc = "exit"
  /\ can_write' = (can_write \/ rtotal > 0)
  /\ unblock_reader_flag' = FALSE
  /\ rret' = IF rret # RB_ABORT /\ rtotal > 0 THEN RB_OK ELSE rret
  /\ rpc' = "idle" /\ rlen' = 0 /\ rsize' = 0 /\ rtotal' = 0 /\ out' = <<>>
  /\ UNCHANGED <<buf, p_r, p_w, fill_cnt, is_done_write, abort_read,
                 abort_write, lock, can_read, wrvars, cpc>>

-----------------------------------------------------------------------------
(* rb_write                                                                *)
WrCall ==
  /\ wpc = "idle"
  /\ \E n \in Lens : wlen' = n
  /\ wpc' = "lock" /\ wret' = RB_OK
  /\ UNCHANGED <<data, flags, lock, sems, rdvars, wtotal, cpc>>

WrLock ==
  /\ wpc = "lock" /\ lock = "free"
  /\ lock' = "w" /\ wpc' = "locked"
  /\ UNCHANGED <<data, flags, sems, rdvars, wlen, wtotal, wret, cpc>>

WrFull ==
  /\ wpc = "locked" /\ rb_bytes_available = 0
  /\ lock' = "free"
  /\ \/ /\ is_done_write
        /\ wret' = RB_DONE /\ wpc' = "exit"
     \/ /\ ~is_done_write /\ abort_write
        /\ wret' = RB_ABORT /\ wpc' = "exit"
     \/ /\ ~is_done_write /\ ~abort_write
        /\ wpc' = "signal" /\ UNCHANGED wret
  /\ UNCHANGED <<data, flags, sems, rdvars, wlen, wtotal, cpc>>

WrCopy ==
  LET n == IF wlen < rb_bytes_available THEN wlen ELSE rb_bytes_available IN
  /\ wpc = "locked" /\ rb_bytes_available # 0
  /\ \E d \in [1..n -> Byte] : buf' = Stored(buf, p_w, d)
  /\ p_w' = Advance(p_w, n)
  /\ wlen' = wlen - n
  /\ fill_cnt' = fill_cnt + n
  /\ wtotal' = wtotal + n
  /\ lock' = "free"
  /\ wpc' = IF wlen' = 0 THEN "exit" ELSE "lock"
  /\ UNCHANGED <<p_r, out, flags, sems, rdvars, wret, cpc>>

\* mutant: the writer waits without releasing can_read
WrSignalNoGive ==
  /\ wpc = "signal"
  /\ wpc' = "wait"
  /\ UNCHANGED <<data, flags, lock, sems, rdvars, wlen, wtotal, wret, cpc>>

WrSignal ==
  /\ wpc = "signal"
  /\ can_read' = TRUE /\ wpc' = "wait"
  /\ UNCHANGED <<data, flags, lock, can_write, rdvars, wlen, wtotal, wret, cpc>>

WrWake ==
  /\ wpc = "wait" /\ can_write
  /\ can_write' = FALSE /\ wpc' = "lock"
  /\ UNCHANGED <<data, flags, lock, can_read, rdvars, wlen, wtotal, wret, cpc>>

WrTimeout ==
  /\ wpc = "wait" /\ ~can_write
  /\ wret' = RB_TIMEOUT /\ wpc' = "exit"
  /\ UNCHANGED <<data, flags, lock, sems, rdvars, wlen, wtotal, cpc>>

WrExit ==
  /\ wpc = "exit"
  /\ can_read' = (can_read \/ wtotal > 0)
  /\ wret' = IF wret # RB_ABORT /\ wtotal > 0 THEN RB_OK ELSE wret
  /\ wpc' = "idle" /\ wlen' = 0 /\ wtotal' = 0
  /\ UNCHANGED <<data, flags, lock, can_write, rdvars, cpc>>

-----------------------------------------------------------------------------
(* rb_done_write, called by the writing task after its last rb_write       *)
(* (audio_element_process_running): the flag first, then the semaphore.    *)
DoneFlag ==
  /\ wpc = "idle"
  /\ is_done_write' = TRUE /\ wpc' = "done"
  /\ UNCHANGED <<data, abort_read, abort_write, unblock_reader_flag, lock, sems,
                 rdvars, wlen, wtotal, wret, cpc>>

\* mutant: rb_done_write only sets the flag
DoneGiveNot ==
  /\ wpc = "done" /\ wpc' = "idle"
  /\ UNCHANGED <<data, flags, lock, sems, rdvars, wlen, wtotal, wret, cpc>>

DoneGive ==
  /\ wpc = "done"
  /\ can_read' = TRUE /\ wpc' = "idle"
  /\ UNCHANGED <<data, flags, lock, can_write, rdvars, wlen, wtotal, wret, cpc>>

(* rb_abort = rb_abort_read, then rb_abort_write.                          *)
AbortReadFlag ==
  /\ cpc = "idle"
  /\ abort_read' = TRUE /\ cpc' = "ar"
  /\ UNCHANGED <<data, is_done_write, abort_write, unblock_reader_flag, lock,
                 sems, rdvars, wrvars>>

\* mutant: rb_abort_read only sets the flag
AbortReadGiveNot ==
  /\ cpc = "ar" /\ cpc' = "aw"
  /\ UNCHANGED <<data, flags, lock, sems, rdvars, wrvars>>

AbortReadGive ==
  /\ cpc = "ar"
  /\ can_read' = TRUE /\ cpc' = "aw"
  /\ UNCHANGED <<data, flags, lock, can_write, rdvars, wrvars>>

AbortWriteFlag ==
  /\ cpc = "aw"
  /\ abort_write' = TRUE /\ cpc' = "awg"
  /\ UNCHANGED <<data, is_done_write, abort_read, unblock_reader_flag, lock,
                 sems, rdvars, wrvars>>

AbortWriteGive ==
  /\ cpc = "awg"
  /\ can_write' = TRUE /\ cpc' = "idle"
  /\ UNCHANGED <<data, flags, lock, can_read, rdvars, wrvars>>

(* rb_unblock_reader                                                       *)
UnblockFlag ==
  /\ cpc = "idle"
  /\ unblock_reader_flag' = TRUE /\ cpc' = "ub"
  /\ UNCHANGED <<data, is_done_write, abort_read, abort_write, lock, sems,
                 rdvars, wrvars>>

\* mutant: rb_unblock_reader only sets the flag
UnblockGiveNot ==
  /\ cpc = "ub" /\ cpc' = "idle"
  /\ UNCHANGED <<data, flags, lock, sems, rdvars, wrvars>>

UnblockGive ==
  /\ cpc = "ub"
  /\ can_read' = TRUE /\ cpc' = "idle"
  /\ UNCHANGED <<data, flags, lock, can_write, rdvars, wrvars>>

(* rb_reset takes no lock and leaves the semaphores as they are.  It runs  *)
(* in the writing task (audio_element_on_cmd_resume) or in the application *)
(* between two runs of the pipeline; only the former can meet a reader.    *)
Reset ==
  /\ wpc = "idle" /\ cpc = "idle"
  /\ rpc = "idle" \/ ResetWhileReading
  /\ p_r' = 0 /\ p_w' = 0 /\ fill_cnt' = 0
  /\ is_done_write' = FALSE /\ unblock_reader_flag' = FALSE
  /\ abort_read' = FALSE /\ abort_write' = FALSE
  /\ UNCHANGED <<buf, out, lock, sems, rdvars, wrvars, cpc>>

-----------------------------------------------------------------------------
Reader == RdSize \/ RdEmpty \/ RdCopy \/ RdSignal \/ RdWake \/ RdExit
Writer == \/ WrLock \/ WrFull \/ WrCopy \/ WrSignal \/ WrWake \/ WrExit
          \/ DoneGive
Control == AbortReadGive \/ AbortWriteFlag \/ AbortWriteGive \/ UnblockGive
Calls == RdCall \/ WrCall \/ DoneFlag \/ AbortReadFlag \/ UnblockFlag \/ Reset

Next == Reader \/ Writer \/ Control \/ Calls \/ RdTimeout \/ WrTimeout

Spec == Init /\ [][Next]_vars

(* FreeRTOS runs every ready task sooner or later, and hands the mutex to  *)
(* the task that waits for it.  Nothing makes a caller call, or a timeout  *)
(* come.                                                                   *)
FairSpec == /\ Spec
            /\ WF_vars(Reader) /\ SF_vars(RdSize)
            /\ WF_vars(Writer) /\ SF_vars(WrLock)
            /\ WF_vars(Control)

-----------------------------------------------------------------------------
DataOK ==
  /\ buf \in [0..(Size - 1) -> Byte] /\ out \in Seq(Byte)
  /\ p_r \in 0..Size /\ p_w \in 0..Size /\ fill_cnt \in 0..Size
FlagsOK ==
  /\ is_done_write \in BOOLEAN /\ unblock_reader_flag \in BOOLEAN
  /\ abort_read \in BOOLEAN /\ abort_write \in BOOLEAN
  /\ lock \in {"free", "r", "w"}
  /\ can_read \in BOOLEAN /\ can_write \in BOOLEAN
  /\ cpc \in {"idle", "ar", "aw", "awg", "ub"}
ReaderOK ==
  /\ rpc \in {"idle", "lock", "sized", "signal", "wait", "exit"}
  /\ rlen \in Nat /\ rsize \in Nat /\ rtotal \in Nat
  /\ rret \in {RB_OK, RB_DONE, RB_ABORT, RB_TIMEOUT}
WriterOK ==
  /\ wpc \in {"idle", "lock", "locked", "signal", "wait", "exit", "done"}
  /\ wlen \in Nat /\ wtotal \in Nat
  /\ wret \in {RB_OK, RB_DONE, RB_ABORT, RB_TIMEOUT}

(* Types; in particular the 32-bit fill_cnt never wraps below zero.        *)
TypeOK == DataOK /\ FlagsOK /\ ReaderOK /\ WriterOK

(* The two pointers and the fill count, which are updated separately, tell *)
(* the same story: the write pointer is fill_cnt bytes after the read      *)
(* pointer, around the end of the memory.                                  *)
PointersAgree ==
  /\ fill_cnt <= Size
  /\ Slot(p_w) = Slot(Slot(p_r) + fill_cnt)

(* rb_bytes_filled is "the number of bytes that have filled the            *)
(* ringbuffer", in particular no more than it holds (ringbuf.h:89).        *)
FillWithinSize == fill_cnt <= Size

(* What rb_read and rb_write move is a first-in first-out queue: no byte   *)
(* is lost, repeated, reordered or overwritten before it is read.          *)
Contents == Chunk(buf, p_r, fill_cnt)
Fifo == INSTANCE ByteFifo WITH Capacity <- Size, queue <- Contents
FifoSpec == Fifo!Spec

(* No wake-up of the reader is lost: while it sits on an empty can_read,   *)
(* whatever would let it go on is followed by a give that is still to come. *)
CanRead == fill_cnt >= rlen \/ WholeWords(fill_cnt) > 0
ReaderWakes ==
  (rpc \in {"signal", "wait"} /\ ~can_read) =>
     /\ CanRead => /\ wpc \in {"lock", "locked", "signal", "exit"}
                   /\ wpc # "signal" => wtotal > 0
     /\ is_done_write => wpc = "done"
     /\ abort_read => cpc = "ar"
     /\ unblock_reader_flag => cpc = "ub"

(* Nor one of the writer.                                                  *)
WriterWakes ==
  (wpc \in {"signal", "wait"} /\ ~can_write) =>
     /\ fill_cnt < Size => /\ rpc \in {"lock", "sized", "signal", "exit"}
                           /\ rpc # "signal" => rtotal > 0
     /\ abort_write => cpc = "awg"

(* Reader and writer never both sleep, each waiting for the other.         *)
NotBothAsleep ==
  ~ (rpc = "wait" /\ ~can_read /\ wpc = "wait" /\ ~can_write)

(* rb_read answers RB_DONE only when the writer is done, and leaves at     *)
(* most the bytes of an incomplete word.                                   *)
DoneLosesNoWord ==
  [][(rret' = RB_DONE /\ rret # RB_DONE) =>
       is_done_write /\ fill_cnt < Word]_vars

(* rb_abort frees a reader and a writer, whatever they wait for.           *)
AbortEnds == /\ (abort_read /\ rpc # "idle") ~> (rpc = "idle")
             /\ (abort_write /\ wpc # "idle") ~> (wpc = "idle")

(* Once the writer is done the reader gets the rest and leaves; so does a  *)
(* reader that rb_unblock_reader addresses.                                *)
DoneEnds == (is_done_write /\ rpc # "idle") ~> (rpc = "idle")
UnblockEnds == (unblock_reader_flag /\ rpc # "idle") ~> (rpc = "idle")

(* Two elements that keep calling exchange their data: every rb_read gets  *)
(* what it asked for and every rb_write is rid of what it brought, without *)
(* any timeout.  The writer calls again whenever it is not stopped.        *)
KeepCalling == WF_vars(RdCall) /\ SF_vars(WrCall)
Exchange == KeepCalling => /\ (rpc # "idle") ~> (rpc = "idle")
                           /\ (wpc # "idle") ~> (wpc = "idle")
=============================================================================
