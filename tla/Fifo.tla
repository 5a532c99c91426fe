-------------------------------- MODULE Fifo --------------------------------
(***************************************************************************)
(* fifo.v as operators on a record, and the two byte/word adapters between *)
(* a FIFO and the CPU (tx_cpu_buf.v, rx_cpu_buf.v).  The depth is 32 in    *)
(* the source; bytes are members of a set.                                 *)
(***************************************************************************)
EXTENDS Integers

CONSTANTS DEPTH, Byte

ASSUME FifoAssumption == DEPTH \in Nat \ {0} /\ Byte # {}

AnyByte == CHOOSE b \in Byte : TRUE

FifoStates ==
  [ram : [0..DEPTH-1 -> Byte], wr_ptr : 0..DEPTH-1, rd_ptr : 0..DEPTH-1,
   full : BOOLEAN]
FifoInit ==
  [ram |-> [i \in 0..DEPTH-1 |-> AnyByte], wr_ptr |-> 0, rd_ptr |-> 0,
   full |-> FALSE]

q(f) == f.ram[f.rd_ptr]
usedw(f) == (f.wr_ptr - f.rd_ptr) % DEPTH       (* 0 when full             *)
empty(f) == f.wr_ptr = f.rd_ptr /\ ~f.full
length(f) == usedw(f) + (IF f.full THEN DEPTH ELSE 0)

\* mutant: the pointers do not wrap
Plus1Wide(ptr) == ptr + 1

Plus1(ptr) == (ptr + 1) % DEPTH
sclr(f) == [f EXCEPT !.wr_ptr = 0, !.rd_ptr = 0, !.full = FALSE]

FifoClock(f, rdreq, wrreq, data) ==
  LET do_write == wrreq /\ ~f.full
      do_read == rdreq /\ ~empty(f)
  IN  [ram |-> IF do_write THEN [f.ram EXCEPT ![f.wr_ptr] = data] ELSE f.ram,
       wr_ptr |-> IF do_write THEN Plus1(f.wr_ptr) ELSE f.wr_ptr,
       rd_ptr |-> IF do_read THEN Plus1(f.rd_ptr) ELSE f.rd_ptr,
       full |-> ~do_read /\ (f.full \/ (do_write /\ Plus1(f.wr_ptr) = f.rd_ptr))]

----------------------------------------------------------------------------
(* An adapter: the upper byte leaves first.                                *)
BufStates == [u : Byte, l : Byte, u_full : BOOLEAN, l_full : BOOLEAN]
BufInit == [u |-> AnyByte, l |-> AnyByte, u_full |-> FALSE, l_full |-> FALSE]
BufClear(b) == [b EXCEPT !.u_full = FALSE, !.l_full = FALSE]
buf_len(b) == IF ~b.u_full THEN 0 ELSE IF b.l_full THEN 2 ELSE 1

\* mutant: an occupied upper byte is never being taken
TxBufClockBlind(b, wr_byte, wr_word, fifo_has_space, data) ==
  IF wr_byte
  THEN IF b.u_full
       THEN [b EXCEPT !.l = data[1], !.l_full = TRUE]
       ELSE [b EXCEPT !.u = data[1], !.u_full = TRUE]
  ELSE IF wr_word
  THEN [u |-> data[1], l |-> data[2], u_full |-> TRUE, l_full |-> TRUE]
  ELSE IF fifo_has_space /\ b.u_full
  THEN [b EXCEPT !.u = b.l, !.u_full = b.l_full, !.l_full = FALSE]
  ELSE b

(* data = <<D15-D8, D7-D0>>                                                *)
TxBufClock(b, wr_byte, wr_word, fifo_has_space, data) ==
  IF wr_byte
  THEN IF ~fifo_has_space /\ b.u_full
       THEN [b EXCEPT !.l = data[1], !.l_full = TRUE]
       ELSE [b EXCEPT !.u = data[1], !.u_full = TRUE]
  ELSE IF wr_word
  THEN [u |-> data[1], l |-> data[2], u_full |-> TRUE, l_full |-> TRUE]
  ELSE IF fifo_has_space /\ b.u_full
  THEN [b EXCEPT !.u = b.l, !.u_full = b.l_full, !.l_full = FALSE]
  ELSE b

\* mutant: a byte read forgets that the FIFO may have nothing to follow with
RxBufClockStale(b, rd_byte, rd_word, fifo_has_data, data) ==
  IF rd_byte
  THEN [b EXCEPT !.u = IF b.l_full THEN b.l ELSE data,
                 !.u_full = TRUE, !.l_full = FALSE]
  ELSE IF rd_word
  THEN BufClear(b)
  ELSE IF ~b.u_full
  THEN [b EXCEPT !.u = data, !.u_full = fifo_has_data]
  ELSE IF ~b.l_full
  THEN [b EXCEPT !.l = data, !.l_full = fifo_has_data]
  ELSE b

RxBufClock(b, rd_byte, rd_word, fifo_has_data, data) ==
  IF rd_byte
  THEN [b EXCEPT !.u = IF b.l_full THEN b.l ELSE data,
                 !.u_full = b.l_full \/ fifo_has_data, !.l_full = FALSE]
  ELSE IF rd_word
  THEN BufClear(b)
  ELSE IF ~b.u_full
  THEN [b EXCEPT !.u = data, !.u_full = fifo_has_data]
  ELSE IF ~b.l_full
  THEN [b EXCEPT !.l = data, !.l_full = fifo_has_data]
  ELSE b
=============================================================================
