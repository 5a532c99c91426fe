---------------------------- MODULE SdPathProofs ----------------------------
(***************************************************************************)
(* Bytes keep their order on the way between core and card, and a status   *)
(* that says so means that all is done: SdPath for every depth of the      *)
(* FIFOs, every number of bits to a byte, every divider and length, and    *)
(* resets at any time.  The pointers of a FIFO are a queue (FifoStep); the *)
(* inductive invariant says which byte each place of the path holds, how   *)
(* many are still to come, and what the driver's last status still stands  *)
(* for while the path goes on moving.                                      *)
(***************************************************************************)
EXTENDS SdPath, TLAPS

Within == {"S1", "S2", "S3", "S4", "S5", "S6"}      (* a cycle not over yet *)

(* The synchronised strobes follow the core's cycle: a write's comes in    *)
(* S6, a read's in S4, and no strobe of one cycle is left for the next.    *)
StrobesTimed ==
  /\ s # "SW" /\ (s = "S4" => ~sd_dtack_n)
  /\ wr_sync[1] <=> s \in {"S5", "S6", "S7"} /\ ~op.rw
  /\ s \in {"S6", "S7"} => (wr_sync[2] <=> ~op.rw)
  /\ s \in {"S1", "S2", "S3", "S4", "S5"} => ~wr_sync[2]
  /\ s = "S6" => ~wr_sync[3]
  /\ s = "S7" => (wr_sync[3] <=> ~op.rw)
  /\ rd_sync[1] <=> s \in {"S3", "S4", "S5", "S6", "S7"} /\ op.rw
  /\ s \in {"S4", "S5", "S6", "S7"} => (rd_sync[2] <=> op.rw)
  /\ s \in {"S1", "S2", "S3"} => ~rd_sync[2]
  /\ s = "S4" => ~rd_sync[3]
  /\ s \in {"S5", "S6", "S7"} => (rd_sync[3] <=> op.rw)
  /\ s = "S0" => (wr_sync[2] => wr_sync[3]) /\ (rd_sync[2] => rd_sync[3])

(* A cycle that has begun is still one the driver may make.                *)
Writing == op.reg = "DATA" /\ ~op.rw
Reading == op.reg = "DATA" /\ op.rw
OpAllowed ==
  s \in Within =>
    /\ Writing => Sends /\ Bytes(op) <= tx_credit
    /\ Reading => Bytes(op) <= rx_credit
    /\ op.reg \in {"SHIFT_CTRL", "CLKDIV"} => idle /\ unread = 0

-----------------------------------------------------------------------------
(* The byte k places behind the head of a FIFO; a FIFO or an adapter that  *)
(* holds the bytes from number n on.                                       *)
One(b) == IF b THEN 1 ELSE 0
Slot(f, k) == IF f.rd_ptr + k < DEPTH THEN f.rd_ptr + k ELSE f.rd_ptr + k - DEPTH
At(f, k) == f.ram[Slot(f, k)]
FifoOK(f) == f \in FifoStates /\ (f.full => f.wr_ptr = f.rd_ptr)
Holds(f, n) == \A k \in 0..length(f)-1 : At(f, k) = Num(n + k)
BufOK(b, n) == /\ b.l_full => b.u_full
               /\ b.u_full => b.u = Num(n) /\ (b.l_full => b.l = Num(n + 1))

-----------------------------------------------------------------------------
(* Out: sr, in_reg, the FIFO and the adapter hold, in this order, what the *)
(* driver wrote and the shifter has not sent, without a gap.               *)
OutBit == One(state = "SHIFTING" /\ Sends)
OutLen == OutBit + One(in_full)
TxChain ==
  /\ OutBit = 1 => sr = sent
  /\ in_full => in_reg = Num(sent + OutBit)
  /\ FifoOK(tx_fifo) /\ Holds(tx_fifo, sent + OutLen)
  /\ BufOK(tx_cb, sent + OutLen + length(tx_fifo))
  /\ tx_next = Num(sent + OutLen + tx_len)
  /\ pending = OutLen + tx_len
  /\ ~Sends => pending = 0
  /\ {sent, tx_next} \subseteq Byte

(* In: what the core has taken off the adapter but not latched yet, then   *)
(* the adapter, the FIFO, out_reg and sr hold what came from the card.     *)
Taken == IF s \in {"S5", "S6"} /\ Reading THEN Bytes(op) ELSE 0
Base == want + Taken
InLen == One(state = "UNLOAD") + One(out_full)
RxChain ==
  /\ BufOK(rx_cb, Base)
  /\ FifoOK(rx_fifo) /\ Holds(rx_fifo, Base + buf_len(rx_cb))
  /\ out_full => out_reg = Num(Base + rx_len)
  /\ state = "UNLOAD" => sr = Num(Base + rx_len + One(out_full))
  /\ card_next = Num(Base + rx_len + InLen)
  /\ s \in {"S5", "S6"} /\ Reading =>
       /\ DATA_OUT[1] = "data" /\ DATA_OUT[2] = want
       /\ op.word => DATA_OUT[3] = Num(want + 1)
  /\ {card_next, want} \subseteq Byte

(* What the driver has not read is in the path or is still to come, and a  *)
(* receive command counts down to the end; at rest the shifter's counters  *)
(* are at 0.                                                               *)
Awaited == IF mode = "RX" THEN due ELSE IF mode = "BOTH" THEN pending ELSE 0
Counted ==
  /\ unread = Taken + Awaited + InLen + rx_len
  /\ mode # "RX" => due = 0
  /\ mode = "RX" => IF set_rx_length THEN due = new_rx_length
                    ELSE rx_length = due + One(state = "UNLOAD")
  /\ mode = "RX" /\ state = "SHIFTING" => due >= 1
  /\ mode = "RX" /\ set_rx_length => due >= 1
  /\ due <= 8191
  /\ set_rx_length => s = "S7" /\ state = "IDLE" /\ ~idle
  /\ state = "UNLOAD" => Receives
  /\ state # "SHIFTING" => clk_count = 0 /\ bit_count = 0 /\ ~SCLK

-----------------------------------------------------------------------------
(* A status that is under way, or that the driver goes by, promises room   *)
(* in the adapter and the FIFO until it is used up, although bytes go on   *)
(* moving from the one to the other ...                                    *)
Done == state = "IDLE" /\ pending = 0 /\ due = 0
StatusPending == s \in {"S5", "S6"} /\ op.reg = "STATUS"
TxRoom ==
  /\ tx_len + tx_credit <= DEPTH + 2
  /\ s # "S7" /\ tx_credit >= 1 => ~tx_cb.l_full
  /\ s \notin {"S7", "S0"} /\ tx_credit >= 2 => ~tx_cb.u_full
  /\ StatusPending =>
       /\ Shown("tx_full") \/ tx_len <= DEPTH + 1
       /\ Shown("tx_empty") => tx_len <= DEPTH
       /\ Shown("tx_half") => tx_len < HALF

(* ... and promises bytes in the adapter, which the FIFO refills.          *)
RxReady ==
  LET c == rx_credit - Taken IN
  /\ c >= 0 /\ c <= rx_len
  /\ s # "S5" /\ c >= 1 => rx_cb.u_full
  /\ s \notin {"S5", "S6"} /\ c >= 2 => rx_cb.l_full
  /\ StatusPending =>
       /\ Shown("rx_empty") \/ rx_cb.u_full
       /\ Shown("rx_full") => rx_cb.l_full
       /\ Shown("rx_half") => rx_len >= HALF /\ (s = "S6" => rx_cb.u_full)

(* A byte may be on its way only in front of an empty place: the adapter   *)
(* is not full behind an empty FIFO, nor the FIFO behind an empty register *)
(* of a shifter at rest; so a shifter at rest behind an empty adapter is   *)
(* done.  Each holds from a fixed state of the bus cycle after a write on. *)
Began == state = "SHIFTING" /\ clk_count = 0 /\ bit_count = 0 /\ ~SCLK
Drained ==
  /\ s # "S7" /\ tx_cb.u_full => ~empty(tx_fifo) \/ in_full
  /\ s \notin {"S7", "S0"} /\ ~empty(tx_fifo) => in_full \/ Began
  /\ s \notin {"S7", "S0", "S1"} /\ Sends /\ state = "IDLE" => ~in_full
  /\ s \notin {"S7", "S0"} /\ mode = "RX" /\ state = "IDLE" => due = 0
  /\ idle => Done
  /\ StatusPending => DATA_OUT[1] = "status"
                      /\ (~Shown("busy") /\ Shown("tx_empty") => Done)

-----------------------------------------------------------------------------
(* Numbers modulo CYCLE, pointers modulo DEPTH.                            *)

LEMMA Constants ==
  /\ CYCLE \in Nat \ {0} /\ HALF \in Nat \ {0} /\ DEPTH \in Nat \ {0} /\ BITS \in Nat \ {0}
  /\ Byte = 0..CYCLE-1 /\ AnyByte \in Byte
<1>1. CYCLE \in Nat \ {0} /\ HALF \in Nat \ {0} /\ DEPTH \in Nat \ {0} /\ BITS \in Nat \ {0}
  BY SdPathAssumption, FifoAssumption, ShifterAssumption
<1>2. Byte = 0..CYCLE-1
  BY SdPathAssumption
<1>3. AnyByte \in Byte
  BY FifoAssumption DEF AnyByte
<1> QED BY <1>1, <1>2, <1>3

LEMMA ModRange == \A n \in Int, d \in Nat \ {0} : n % d \in 0..d-1
OBVIOUS

LEMMA ModNat == \A n \in Int, d \in Nat \ {0} : n % d \in Nat
BY ModRange

LEMMA ModUnique ==
  ASSUME NEW d \in Nat \ {0}, NEW k \in Int, NEW r \in 0..d-1
  PROVE  (d * k + r) % d = r
OBVIOUS

LEMMA Distributes ==
  ASSUME NEW d \in Int, NEW j \in Int, NEW k \in Int
  PROVE  d * (j + k) = d * j + d * k
OBVIOUS

LEMMA Carried ==
  ASSUME NEW d \in Int, NEW a \in Int, NEW b \in Int, NEW j \in Int, NEW k \in Int,
         NEW m \in Int, NEW r \in Int, a = d * j + m, m + b = d * k + r
  PROVE  a + b = d * (j + k) + r
<1>1. d * (j + k) = d * j + d * k /\ d * j \in Int /\ d * k \in Int
  BY Distributes
<1> DEFINE dj == d * j  dk == d * k
<1>2. a = dj + m /\ m + b = dk + r /\ dj \in Int /\ dk \in Int
  BY <1>1
<1> HIDE DEF dj, dk
<1>3. a + b = (dj + dk) + r
  BY <1>2
<1> QED BY <1>1, <1>3 DEF dj, dk

LEMMA NumAdd ==
  ASSUME NEW a \in Nat, NEW b \in Nat
  PROVE  Num(Num(a) + b) = Num(a + b)
<1> DEFINE d == CYCLE
           r == (Num(a) + b) % d
           k == (Num(a) + b) \div d
<1>1. d \in Nat \ {0}
  BY Constants
<1> HIDE DEF d
<1>2. a = d * (a \div d) + Num(a) /\ a \div d \in Int /\ Num(a) \in 0..d-1
  BY <1>1 DEF Num, d
<1>3. Num(a) + b = d * k + r /\ k \in Int /\ r \in 0..d-1
  BY <1>1, <1>2
<1> HIDE DEF r, k
<1>4. a + b = d * ((a \div d) + k) + r
  <2>1. d \in Int /\ a \in Int /\ b \in Int /\ a \div d \in Int /\ Num(a) \in Int /\ r \in Int
    BY <1>1, <1>2, <1>3
  <2> QED BY <1>2, <1>3, <2>1, Carried
<1>5. (a + b) % d = r
  <2>1. (a \div d) + k \in Int
    BY <1>2, <1>3
  <2> QED BY <1>1, <1>3, <1>4, <2>1, ModUnique
<1> QED BY <1>5 DEF Num, d, r

LEMMA NumIn ==
  /\ \A n \in Nat : Num(n) \in Byte
  /\ \A n \in Byte : Num(n) = n
<1>1. \A n \in Nat : Num(n) \in Byte
  BY Constants, ModRange DEF Num
<1>2. ASSUME NEW n \in Byte PROVE Num(n) = n
  BY Constants DEF Num
<1> QED BY <1>1, <1>2

LEMMA Wrapped ==
  ASSUME NEW d \in Nat \ {0}, NEW x \in Int, -d <= x, x < 2 * d
  PROVE  x % d = IF x < 0 THEN x + d ELSE IF x < d THEN x ELSE x - d
<1>1. CASE x < 0
  <2>1. x + d \in 0..d-1 /\ x = d * (-1) + (x + d)
    BY <1>1
  <2>2. (d * (-1) + (x + d)) % d = x + d
    BY <2>1, ModUnique
  <2> QED BY <1>1, <2>1, <2>2
<1>2. CASE x >= 0 /\ x < d
  BY <1>2
<1>3. CASE x >= d
  <2>1. x - d \in 0..d-1 /\ x = d * 1 + (x - d)
    BY <1>3
  <2>2. (d * 1 + (x - d)) % d = x - d
    BY <2>1, ModUnique
  <2> QED BY <1>3, <2>1, <2>2
<1> QED BY <1>1, <1>2, <1>3


-----------------------------------------------------------------------------
(* The FIFO and the adapters, whatever they are used for.                  *)

LEMMA Depth == DEPTH \in Nat \ {0} /\ DEPTH \in Int /\ DEPTH >= 1
BY FifoAssumption

Distance(w, r) == IF w < r THEN w - r + DEPTH ELSE w - r
Next1(p) == IF p = DEPTH - 1 THEN 0 ELSE p + 1

LEMMA Pointers ==
  /\ \A w, r \in 0..DEPTH-1 : (w - r) % DEPTH = Distance(w, r)
  /\ \A p \in 0..DEPTH-1 : Plus1(p) = Next1(p)
<1> DEFINE d == DEPTH
<1>1. d \in Nat \ {0} /\ d \in Int
  BY Depth
<1> HIDE DEF d
<1>2. ASSUME NEW w \in 0..d-1, NEW r \in 0..d-1
      PROVE  (w - r) % d = IF w < r THEN w - r + d ELSE w - r
  <2>1. w - r \in Int /\ -d <= w - r /\ w - r < 2 * d /\ w - r < d /\ (w < r <=> w - r < 0)
    BY <1>1
  <2> DEFINE x == w - r
  <2> HIDE DEF x
  <2>2. x \in Int /\ -d <= x /\ x < 2 * d
    BY <2>1 DEF x
  <2>3. x % d = IF x < 0 THEN x + d ELSE IF x < d THEN x ELSE x - d
    BY <1>1, <2>2, Wrapped
  <2> QED BY <2>1, <2>3 DEF x
<1>3. ASSUME NEW p \in 0..d-1
      PROVE  (p + 1) % d = IF p = d - 1 THEN 0 ELSE p + 1
  <2>1. CASE p = d - 1
    BY <1>1, <2>1
  <2>2. CASE p # d - 1
    <3>1. p + 1 \in 0..d-1 /\ p \in Int
      BY <1>1, <2>2
    <3>2. (d * 0 + (p + 1)) % d = p + 1
      BY <1>1, <3>1, ModUnique
    <3> QED BY <1>1, <2>2, <3>1, <3>2
  <2> QED BY <2>1, <2>2
<1> QED BY <1>2, <1>3 DEF d, Distance, Plus1, Next1

(* The pointers of a ring, one clock on.                                   *)
LEMMA Ring ==
  ASSUME NEW d \in Int, d >= 1, NEW w \in Int, NEW r \in Int, NEW w2 \in Int, NEW r2 \in Int,
         NEW fl \in BOOLEAN, NEW fl2 \in BOOLEAN, NEW put \in BOOLEAN, NEW get \in BOOLEAN,
         NEW len \in Int, NEW len2 \in Int,
         0 <= w, w < d, 0 <= r, r < d, fl => w = r /\ ~put, w = r /\ ~fl => ~get,
         w2 = IF put THEN IF w = d - 1 THEN 0 ELSE w + 1 ELSE w,
         r2 = IF get THEN IF r = d - 1 THEN 0 ELSE r + 1 ELSE r,
         fl2 <=> ~get /\ (fl \/ (put /\ w2 = r)),
         len = IF fl THEN d ELSE IF w < r THEN w - r + d ELSE w - r,
         len2 = IF fl2 THEN d ELSE IF w2 < r2 THEN w2 - r2 + d ELSE w2 - r2
  PROVE  /\ 0 <= w2 /\ w2 < d /\ 0 <= r2 /\ r2 < d /\ (fl2 => w2 = r2)
         /\ 0 <= len /\ len <= d /\ 0 <= len2 /\ len2 <= d
         /\ len2 = len + (IF put THEN 1 ELSE 0) - (IF get THEN 1 ELSE 0)
OBVIOUS

LEMMA FifoFacts ==
  ASSUME NEW f, FifoOK(f)
  PROVE  /\ f.wr_ptr \in 0..DEPTH-1 /\ f.rd_ptr \in 0..DEPTH-1 /\ f.full \in BOOLEAN
         /\ f.ram \in [0..DEPTH-1 -> Byte]
         /\ length(f) = IF f.full THEN DEPTH
                        ELSE IF f.wr_ptr < f.rd_ptr THEN f.wr_ptr - f.rd_ptr + DEPTH
                        ELSE f.wr_ptr - f.rd_ptr
         /\ length(f) \in 0..DEPTH
         /\ empty(f) <=> length(f) = 0
         /\ f.full <=> length(f) = DEPTH
         /\ q(f) \in Byte /\ (~empty(f) => q(f) = At(f, 0))
         /\ \A k \in 0..DEPTH-1 : Slot(f, k) \in 0..DEPTH-1
<1>1. /\ f.wr_ptr \in 0..DEPTH-1 /\ f.rd_ptr \in 0..DEPTH-1 /\ f.full \in BOOLEAN
      /\ f.ram \in [0..DEPTH-1 -> Byte] /\ (f.full => f.wr_ptr = f.rd_ptr)
  BY DEF FifoOK, FifoStates
<1>2. usedw(f) = Distance(f.wr_ptr, f.rd_ptr)
  BY <1>1, Pointers DEF usedw
<1>3. length(f) = IF f.full THEN DEPTH ELSE usedw(f)
  BY <1>1, <1>2, Depth DEF length, Distance
<1>4. q(f) \in Byte
  BY <1>1 DEF q
<1>5. At(f, 0) = q(f)
  BY <1>1, Depth DEF At, Slot, q
<1>6. \A k \in 0..DEPTH-1 : Slot(f, k) \in 0..DEPTH-1
  BY <1>1, Depth DEF Slot
<1>7. empty(f) <=> length(f) = 0
  BY <1>1, <1>2, <1>3, Depth DEF empty, Distance
<1>8. f.full <=> length(f) = DEPTH
  BY <1>1, <1>2, <1>3, Depth DEF Distance
<1>9. length(f) \in 0..DEPTH
  BY <1>1, <1>2, <1>3, Depth DEF Distance
<1> QED BY <1>1, <1>2, <1>3, <1>4, <1>5, <1>6, <1>7, <1>8, <1>9 DEF Distance

(* What a clock does to a FIFO: it takes the oldest and appends.           *)
LEMMA FifoStep ==
  ASSUME NEW f, FifoOK(f), NEW rdreq \in BOOLEAN, NEW wrreq \in BOOLEAN, NEW data \in Byte,
         NEW g, g = FifoClock(f, rdreq, wrreq, data),
         NEW put, put = One(wrreq /\ ~f.full), NEW get, get = One(rdreq /\ ~empty(f))
  PROVE  /\ FifoOK(g)
         /\ length(g) = length(f) + put - get
         /\ \A k \in 0..length(g)-1 :
              At(g, k) = IF k + get < length(f) THEN At(f, k + get) ELSE data
<1> DEFINE do_write == wrreq /\ ~f.full
           do_read == rdreq /\ ~empty(f)
<1>1. /\ f.wr_ptr \in 0..DEPTH-1 /\ f.rd_ptr \in 0..DEPTH-1 /\ f.full \in BOOLEAN
      /\ f.ram \in [0..DEPTH-1 -> Byte]
      /\ length(f) = IF f.full THEN DEPTH
                     ELSE IF f.wr_ptr < f.rd_ptr THEN f.wr_ptr - f.rd_ptr + DEPTH
                     ELSE f.wr_ptr - f.rd_ptr
      /\ empty(f) <=> length(f) = 0
      /\ f.full => f.wr_ptr = f.rd_ptr
  BY FifoFacts DEF FifoOK
<1>3. /\ g.ram = IF do_write THEN [f.ram EXCEPT ![f.wr_ptr] = data] ELSE f.ram
      /\ g.wr_ptr = IF do_write THEN Next1(f.wr_ptr) ELSE f.wr_ptr
      /\ g.rd_ptr = IF do_read THEN Next1(f.rd_ptr) ELSE f.rd_ptr
      /\ g.full <=> ~do_read /\ (f.full \/ (do_write /\ g.wr_ptr = f.rd_ptr))
      /\ g.full \in BOOLEAN
  <2>1. Plus1(f.wr_ptr) = Next1(f.wr_ptr) /\ Plus1(f.rd_ptr) = Next1(f.rd_ptr)
    BY <1>1, Pointers
  <2>2. /\ g.ram = IF do_write THEN [f.ram EXCEPT ![f.wr_ptr] = data] ELSE f.ram
        /\ g.wr_ptr = IF do_write THEN Plus1(f.wr_ptr) ELSE f.wr_ptr
        /\ g.rd_ptr = IF do_read THEN Plus1(f.rd_ptr) ELSE f.rd_ptr
        /\ g.full = (~do_read /\ (f.full \/ (do_write /\ Plus1(f.wr_ptr) = f.rd_ptr)))
    BY DEF FifoClock
  <2> QED BY <2>1, <2>2
<1>4. /\ g.wr_ptr \in 0..DEPTH-1 /\ g.rd_ptr \in 0..DEPTH-1
      /\ g.full => g.wr_ptr = g.rd_ptr
  <2> HIDE DEF do_write, do_read
  <2> QED BY <1>1, <1>3, Depth DEF Next1, do_write
<1>5. put = (IF do_write THEN 1 ELSE 0) /\ get = (IF do_read THEN 1 ELSE 0)
  BY DEF One
<1>6. FifoOK(g)
  <2>1. g.ram \in [0..DEPTH-1 -> Byte]
    BY <1>1, <1>3
  <2>2. g = [ram |-> g.ram, wr_ptr |-> g.wr_ptr, rd_ptr |-> g.rd_ptr, full |-> g.full]
    BY DEF FifoClock
  <2> QED BY <1>3, <1>4, <2>1, <2>2 DEF FifoOK, FifoStates
<1>7. /\ length(g) = IF g.full THEN DEPTH
                     ELSE IF g.wr_ptr < g.rd_ptr THEN g.wr_ptr - g.rd_ptr + DEPTH
                     ELSE g.wr_ptr - g.rd_ptr
      /\ length(f) \in 0..DEPTH /\ length(g) \in 0..DEPTH
  BY <1>6, FifoFacts
<1>8. do_write \in BOOLEAN /\ do_read \in BOOLEAN /\ (f.full => ~do_write)
      /\ (f.wr_ptr = f.rd_ptr /\ ~f.full => ~do_read)
  BY <1>1 DEF empty
<1>9. length(g) = length(f) + put - get
  <2> DEFINE w == f.wr_ptr  r == f.rd_ptr  fl == f.full  len == length(f)
             w2 == g.wr_ptr  r2 == g.rd_ptr  fl2 == g.full  len2 == length(g)  d == DEPTH
  <2>1. /\ w \in Int /\ r \in Int /\ w2 \in Int /\ r2 \in Int /\ len \in Int /\ len2 \in Int
        /\ d \in Int /\ d >= 1
        /\ 0 <= w /\ w < d /\ 0 <= r /\ r < d /\ (fl => w = r) /\ fl \in BOOLEAN /\ fl2 \in BOOLEAN
    BY <1>1, <1>3, <1>4, <1>7, Depth
  <2>2. /\ w2 = IF do_write THEN IF w = d - 1 THEN 0 ELSE w + 1 ELSE w
        /\ r2 = IF do_read THEN IF r = d - 1 THEN 0 ELSE r + 1 ELSE r
        /\ fl2 <=> ~do_read /\ (fl \/ (do_write /\ w2 = r))
    BY <1>3 DEF Next1
  <2>3. /\ len = IF fl THEN d ELSE IF w < r THEN w - r + d ELSE w - r
        /\ len2 = IF fl2 THEN d ELSE IF w2 < r2 THEN w2 - r2 + d ELSE w2 - r2
    BY <1>1, <1>7
  <2> HIDE DEF do_write, do_read, w, r, fl, len, w2, r2, fl2, len2, d
  <2>4. len2 = len + (IF do_write THEN 1 ELSE 0) - (IF do_read THEN 1 ELSE 0)
    <3>1. (fl => ~do_write) /\ (w = r /\ ~fl => ~do_read)
      BY <1>8 DEF fl, w, r
    <3> QED BY <1>8, <2>1, <2>2, <2>3, <3>1, Ring, SMTT(30)
  <2> QED BY <1>5, <2>4 DEF len, len2
<1>10. ASSUME NEW k \in 0..length(g)-1
       PROVE  At(g, k) = IF k + get < length(f) THEN At(f, k + get) ELSE data
  <2>1. k \in Int /\ 0 <= k /\ k < length(g) /\ get \in {0, 1} /\ put \in {0, 1}
    BY <1>5, <1>7
  <2>2. Slot(g, k) = Slot(f, k + get)
    <3>1. g.rd_ptr = IF get = 1 THEN Next1(f.rd_ptr) ELSE f.rd_ptr
      BY <1>3, <1>5
    <3>2. k \in 0..DEPTH-1 /\ f.rd_ptr \in 0..DEPTH-1
      BY <1>1, <1>7, <2>1, Depth
    <3>3. CASE get = 0
      BY <2>1, <3>1, <3>3 DEF Slot
    <3>4. CASE get = 1
      <4> DEFINE r == f.rd_ptr  d == DEPTH
      <4>1. d \in Int /\ r \in 0..d-1 /\ k \in 0..d-1
        BY <3>2, Depth
      <4>2. g.rd_ptr = IF r = d - 1 THEN 0 ELSE r + 1
        BY <3>1, <3>4 DEF Next1
      <4>3. Slot(g, k) = IF g.rd_ptr + k < d THEN g.rd_ptr + k ELSE g.rd_ptr + k - d
        BY DEF Slot
      <4>4. Slot(f, k + get) = IF r + (k + 1) < d THEN r + (k + 1) ELSE r + (k + 1) - d
        BY <3>4 DEF Slot
      <4> HIDE DEF r, d
      <4> QED BY <4>1, <4>2, <4>3, <4>4
    <3> QED BY <2>1, <3>3, <3>4
  <2>3. CASE k + get < length(f)
    <3>1. Slot(f, k + get) \in 0..DEPTH-1
      BY <1>1, <1>7, <2>1, <2>3, Depth, SMTT(30) DEF Slot
    <3>2. ~f.full => Slot(f, k + get) # f.wr_ptr
      BY <1>1, <1>7, <2>1, <2>3, Depth, SMTT(30) DEF Slot
    <3>3. g.ram[Slot(f, k + get)] = f.ram[Slot(f, k + get)]
      BY <1>1, <1>3, <3>1, <3>2
    <3> QED BY <2>2, <2>3, <3>3 DEF At
  <2>4. CASE ~(k + get < length(f))
    <3>1. do_write /\ ~f.full /\ k + get = length(f)
      BY <1>5, <1>7, <1>9, <2>1, <2>4
    <3>2. Slot(f, k + get) = f.wr_ptr
      <4>1. k + get = length(f)
        BY <3>1
      <4> HIDE DEF do_write, do_read
      <4> QED BY <1>1, <3>1, <4>1, Depth DEF Slot
    <3>3. g.ram[f.wr_ptr] = data
      BY <1>1, <1>3, <3>1
    <3> QED BY <2>2, <2>4, <3>2, <3>3 DEF At
  <2> QED BY <2>3, <2>4
<1> QED BY <1>6, <1>9, <1>10

(* Numbered bytes stay numbered.                                           *)
LEMMA HoldsStep ==
  ASSUME NEW f, FifoOK(f), NEW rdreq \in BOOLEAN, NEW wrreq \in BOOLEAN, NEW data \in Byte,
         NEW g, g = FifoClock(f, rdreq, wrreq, data),
         NEW put, put = One(wrreq /\ ~f.full), NEW get, get = One(rdreq /\ ~empty(f)),
         NEW n \in Nat, Holds(f, n), put = 1 => data = Num(n + length(f))
  PROVE  /\ FifoOK(g) /\ length(g) = length(f) + put - get
         /\ Holds(g, n + get)
<1>1. FifoOK(g) /\ length(g) = length(f) + put - get
  BY FifoStep
<1>2. ASSUME NEW k \in 0..length(g)-1
      PROVE  At(g, k) = Num(n + get + k)
  <2>1. At(g, k) = IF k + get < length(f) THEN At(f, k + get) ELSE data
    BY FifoStep, <1>2
  <2>2. /\ length(f) \in Nat /\ length(g) \in Nat /\ put \in {0, 1} /\ get \in {0, 1}
        /\ k \in Nat /\ k < length(g) /\ length(g) = length(f) + put - get
    BY <1>1, <1>2, FifoFacts DEF One
  <2>3. CASE k + get < length(f)
    <3>1. k + get \in 0..length(f)-1
      BY <2>2, <2>3
    <3>2. At(f, k + get) = Num(n + (k + get)) /\ n + (k + get) = n + get + k
      BY <2>2, <3>1 DEF Holds
    <3> QED BY <2>1, <2>3, <3>2
  <2>4. CASE ~(k + get < length(f))
    <3>1. put = 1 /\ n + length(f) = n + get + k
      BY <2>2, <2>4
    <3> QED BY <2>1, <2>4, <3>1
  <2> QED BY <2>3, <2>4
<1> QED BY <1>1, <1>2 DEF Holds

LEMMA BufCount ==
  ASSUME NEW b \in BufStates
  PROVE  /\ ~b.u_full => buf_len(b) = 0
         /\ b.u_full /\ ~b.l_full => buf_len(b) = 1
         /\ b.u_full /\ b.l_full => buf_len(b) = 2
BY DEF buf_len, BufStates

LEMMA BufFacts ==
  ASSUME NEW b \in BufStates, NEW n, BufOK(b, n)
  PROVE  /\ b.u_full \in BOOLEAN /\ b.l_full \in BOOLEAN /\ b.u \in Byte /\ b.l \in Byte
         /\ buf_len(b) \in 0..2
         /\ b.u_full <=> buf_len(b) >= 1
         /\ b.l_full <=> buf_len(b) = 2
BY DEF BufStates, BufOK, buf_len

(* The adapter in front of the transmit FIFO: written by the core, emptied *)
(* into the FIFO in the same clock.                                        *)
LEMMA TxBufStep ==
  ASSUME NEW b \in BufStates, NEW p \in Nat, BufOK(b, p), NEW space \in BOOLEAN,
         NEW byte \in BOOLEAN, NEW word \in BOOLEAN, NEW data, data[1] \in Byte, data[2] \in Byte,
         NEW put \in {0, 1}, put = 1 <=> space /\ b.u_full,
         NEW n \in 0..2, NEW len, len = buf_len(b),
         byte => ~word /\ n = 1 /\ ~b.l_full /\ data[1] = Num(p + len),
         word => n = 2 /\ ~b.u_full /\ data[1] = Num(p) /\ data[2] = Num(p + 1),
         ~byte /\ ~word => n = 0,
         NEW c, c = TxBufClock(b, byte, word, space, data)
  PROVE  /\ c \in BufStates /\ BufOK(c, p + put)
         /\ buf_len(c) = len + n - put
         /\ n = 0 => /\ c.l_full => ~space /\ b.l_full
                     /\ c.u_full => b.l_full \/ (~space /\ b.u_full)
<1>1. /\ b.u_full \in BOOLEAN /\ b.l_full \in BOOLEAN /\ b.u \in Byte /\ b.l \in Byte
      /\ b = [u |-> b.u, l |-> b.l, u_full |-> b.u_full, l_full |-> b.l_full]
      /\ b.l_full => b.u_full
  BY DEF BufStates, BufOK
<1>2. p + 0 = p /\ p + 1 + 0 = p + 1 /\ len \in 0..2
  BY <1>1 DEF buf_len
<1>b. (~b.u_full => len = 0) /\ (b.u_full /\ ~b.l_full => len = 1) /\ (b.u_full /\ b.l_full => len = 2)
  BY BufCount
<1>3. CASE byte /\ ~space /\ b.u_full
  <2>1. c = [u |-> b.u, l |-> data[1], u_full |-> TRUE, l_full |-> TRUE]
    BY <1>1, <1>3 DEF TxBufClock
  <2>2. c.u = b.u /\ c.l = data[1] /\ c.u_full = TRUE /\ c.l_full = TRUE
    BY <2>1
  <2>3. c \in BufStates
    BY <1>1, <2>1 DEF BufStates
  <2>4. put = 0 /\ len = 1 /\ n = 1 /\ buf_len(c) = 2
    <3>1. put = 0 /\ len = 1 /\ n = 1
      BY <1>1, <1>b, <1>3, <2>2
    <3>2. (~c.u_full => buf_len(c) = 0) /\ (c.u_full /\ ~c.l_full => buf_len(c) = 1) /\ (c.u_full /\ c.l_full => buf_len(c) = 2)
      BY <2>3, BufCount
    <3> QED BY <1>1, <1>2, <1>b, <1>3, <2>2, <3>1, <3>2
  <2>5. BufOK(c, p)
    <3>1. c.l = Num(p + 1) /\ c.u = Num(p)
      BY <1>1, <1>3, <2>2, <2>4 DEF BufOK
    <3> QED BY <2>2, <3>1 DEF BufOK
  <2> QED BY <1>2, <2>3, <2>4, <2>5
<1>4. CASE byte /\ ~(~space /\ b.u_full)
  <2>1. c = [u |-> data[1], l |-> b.l, u_full |-> TRUE, l_full |-> b.l_full]
    BY <1>1, <1>4 DEF TxBufClock
  <2>0. ~b.l_full
    BY <1>4, Zenon
  <2>2. c.u = data[1] /\ c.u_full = TRUE /\ c.l_full = b.l_full /\ ~c.l_full
    <3>1. c.u = data[1] /\ c.u_full = TRUE /\ c.l_full = b.l_full
      BY <2>1
    <3> QED BY <2>0, <3>1
  <2>3. c \in BufStates
    BY <1>1, <2>1 DEF BufStates
  <2>4. put = len /\ n = 1 /\ buf_len(c) = 1
    <3>1. put = len /\ n = 1
      BY <1>1, <1>b, <1>4, <2>2
    <3>2. (~c.u_full => buf_len(c) = 0) /\ (c.u_full /\ ~c.l_full => buf_len(c) = 1) /\ (c.u_full /\ c.l_full => buf_len(c) = 2)
      BY <2>3, BufCount
    <3> QED BY <1>1, <1>2, <1>b, <1>4, <2>2, <3>1, <3>2
  <2>5. BufOK(c, p + put)
    BY <1>4, <2>2, <2>4 DEF BufOK
  <2> QED BY <1>2, <2>3, <2>4, <2>5
<1>5. CASE ~byte /\ word
  <2>1. c = [u |-> data[1], l |-> data[2], u_full |-> TRUE, l_full |-> TRUE]
    BY <1>1, <1>5 DEF TxBufClock
  <2>2. c.u = data[1] /\ c.l = data[2] /\ c.u_full = TRUE /\ c.l_full = TRUE
    BY <2>1
  <2>3. c \in BufStates
    BY <1>1, <2>1 DEF BufStates
  <2>4. put = 0 /\ len = 0 /\ n = 2 /\ buf_len(c) = 2
    <3>1. put = 0 /\ len = 0 /\ n = 2
      BY <1>1, <1>b, <1>5, <2>2
    <3>2. (~c.u_full => buf_len(c) = 0) /\ (c.u_full /\ ~c.l_full => buf_len(c) = 1) /\ (c.u_full /\ c.l_full => buf_len(c) = 2)
      BY <2>3, BufCount
    <3> QED BY <1>1, <1>2, <1>b, <1>5, <2>2, <3>1, <3>2
  <2>5. BufOK(c, p)
    BY <1>5, <2>2 DEF BufOK
  <2> QED BY <1>2, <2>3, <2>4, <2>5
<1>6. CASE ~byte /\ ~word /\ space /\ b.u_full
  <2>1. c = [u |-> b.l, l |-> b.l, u_full |-> b.l_full, l_full |-> FALSE]
    BY <1>1, <1>6 DEF TxBufClock
  <2>2. c.u = b.l /\ c.u_full = b.l_full /\ c.l_full = FALSE
    BY <2>1
  <2>3. c \in BufStates
    BY <1>1, <2>1 DEF BufStates
  <2>4. put = 1 /\ n = 0 /\ buf_len(c) = len - 1
    <3>1. put = 1 /\ n = 0
      BY <1>1, <1>b, <1>6, <2>2
    <3>2. (~c.u_full => buf_len(c) = 0) /\ (c.u_full /\ ~c.l_full => buf_len(c) = 1) /\ (c.u_full /\ c.l_full => buf_len(c) = 2)
      BY <2>3, BufCount
    <3>3. CASE b.l_full
      <4>1. c.u_full /\ ~c.l_full
        BY <2>2, <3>3
      <4>2. len = 2 /\ buf_len(c) = 1
        BY <1>b, <1>6, <3>2, <3>3, <4>1
      <4> QED BY <3>1, <4>2
    <3>4. CASE ~b.l_full
      <4>1. ~c.u_full
        BY <2>2, <3>4
      <4>2. len = 1 /\ buf_len(c) = 0
        BY <1>b, <1>6, <3>2, <3>4, <4>1
      <4> QED BY <3>1, <4>2
    <3> QED BY <3>3, <3>4
  <2>5. BufOK(c, p + 1)
    BY <1>1, <1>6, <2>2 DEF BufOK
  <2>6. n = 0 => /\ c.l_full => ~space /\ b.l_full
                 /\ c.u_full => b.l_full \/ (~space /\ b.u_full)
    <3>1. ~c.l_full /\ (c.u_full => b.l_full)
      BY <2>2
    <3> QED BY <3>1
  <2>7. c \in BufStates /\ BufOK(c, p + put) /\ buf_len(c) = len + n - put
    <3>1. BufOK(c, p + put)
      BY <2>4, <2>5, Zenon
    <3>2. buf_len(c) = len + n - put
      BY <1>2, <2>4
    <3> QED BY <2>3, <3>1, <3>2
  <2> QED BY <2>6, <2>7, Zenon
<1>7. CASE ~byte /\ ~word /\ ~(space /\ b.u_full)
  <2>1. c = b
    BY <1>7 DEF TxBufClock
  <2>2. put = 0 /\ n = 0
    BY <1>7
  <2> QED BY <1>1, <1>2, <1>7, <2>1, <2>2
<1> QED BY <1>3, <1>4, <1>5, <1>6, <1>7

(* The adapter behind the receive FIFO: filled from it, popped by the core.*)
LEMMA RxBufStep ==
  ASSUME NEW b \in BufStates, NEW p \in Nat, BufOK(b, p), NEW has \in BOOLEAN,
         NEW byte \in BOOLEAN, NEW word \in BOOLEAN, NEW data \in Byte,
         NEW pop \in {0, 1}, pop = 1 <=> ~b.l_full /\ has,
         NEW n \in 0..2, NEW len, len = buf_len(b), has => data = Num(p + len),
         byte => ~word /\ n = 1 /\ b.u_full, word => n = 2 /\ b.l_full,
         ~byte /\ ~word => n = 0,
         NEW c, c = RxBufClock(b, byte, word, has, data)
  PROVE  /\ c \in BufStates /\ BufOK(c, p + n)
         /\ buf_len(c) = len + pop - n
         /\ n = 0 => /\ b.u_full \/ has => c.u_full
                     /\ b.l_full \/ (b.u_full /\ has) => c.l_full
<1>1. /\ b.u_full \in BOOLEAN /\ b.l_full \in BOOLEAN /\ b.u \in Byte /\ b.l \in Byte
      /\ b = [u |-> b.u, l |-> b.l, u_full |-> b.u_full, l_full |-> b.l_full]
      /\ b.l_full => b.u_full
  BY DEF BufStates, BufOK
<1>2. p + 0 = p /\ len \in 0..2
  BY <1>1 DEF buf_len
<1>b. (~b.u_full => len = 0) /\ (b.u_full /\ ~b.l_full => len = 1) /\ (b.u_full /\ b.l_full => len = 2)
  BY BufCount
<1>3. CASE byte
  <2>1. c = [u |-> IF b.l_full THEN b.l ELSE data, l |-> b.l, u_full |-> b.l_full \/ has,
             l_full |-> FALSE]
    BY <1>1, <1>3 DEF RxBufClock
  <2>2. /\ c.u = (IF b.l_full THEN b.l ELSE data) /\ c.l_full = FALSE
        /\ c.u_full \in BOOLEAN /\ (c.u_full <=> b.l_full \/ has)
    BY <1>1, <2>1
  <2>3. c \in BufStates
    BY <1>1, <2>1 DEF BufStates
  <2>4. n = 1 /\ buf_len(c) = len + pop - 1
    <3>1. n = 1
      BY <1>1, <1>b, <1>3, <2>2
    <3>2. (~c.u_full => buf_len(c) = 0) /\ (c.u_full /\ ~c.l_full => buf_len(c) = 1) /\ (c.u_full /\ c.l_full => buf_len(c) = 2)
      BY <2>3, BufCount
    <3>3. CASE b.l_full
      <4>1. len = 2 /\ pop = 0 /\ c.u_full /\ ~c.l_full
        BY <1>1, <1>b, <2>2, <3>3
      <4> QED BY <3>1, <3>2, <4>1
    <3>4. CASE ~b.l_full /\ has
      <4>1. len = 1 /\ pop = 1 /\ c.u_full /\ ~c.l_full
        BY <1>1, <1>3, <1>b, <2>2, <3>4
      <4>2. buf_len(c) = 1 /\ n = 1
        BY <3>1, <3>2, <4>1
      <4> QED BY <4>1, <4>2
    <3>5. CASE ~b.l_full /\ ~has
      <4>1. len = 1 /\ pop = 0 /\ ~c.u_full
        BY <1>1, <1>3, <1>b, <2>2, <3>5
      <4>2. buf_len(c) = 0 /\ n = 1
        BY <3>1, <3>2, <4>1
      <4> QED BY <4>1, <4>2
    <3> QED BY <3>3, <3>4, <3>5
  <2>5. c.u_full => c.u = Num(p + 1)
    <3>1. CASE b.l_full
      BY <1>1, <2>2, <3>1 DEF BufOK
    <3>2. CASE ~b.l_full
      <4>1. len = 1
        BY <1>1, <1>3, <3>2, BufCount
      <4> QED BY <2>2, <3>2, <4>1
    <3> QED BY <3>1, <3>2
  <2> QED BY <2>2, <2>3, <2>4, <2>5 DEF BufOK
<1>4. CASE ~byte /\ word
  <2>1. c = [u |-> b.u, l |-> b.l, u_full |-> FALSE, l_full |-> FALSE]
    BY <1>1, <1>4 DEF RxBufClock, BufClear
  <2>2. c.u_full = FALSE /\ c.l_full = FALSE
    BY <2>1
  <2>3. c \in BufStates
    BY <1>1, <2>1 DEF BufStates
  <2>4. n = 2 /\ pop = 0 /\ len = 2 /\ buf_len(c) = 0
    <3>1. n = 2 /\ pop = 0 /\ len = 2
      BY <1>1, <1>b, <1>4, <2>2
    <3>2. (~c.u_full => buf_len(c) = 0) /\ (c.u_full /\ ~c.l_full => buf_len(c) = 1) /\ (c.u_full /\ c.l_full => buf_len(c) = 2)
      BY <2>3, BufCount
    <3> QED BY <1>1, <1>2, <1>b, <1>4, <2>2, <3>1, <3>2
  <2> QED BY <2>2, <2>3, <2>4 DEF BufOK
<1>5. CASE ~byte /\ ~word /\ ~b.u_full
  <2>1. c = [u |-> data, l |-> b.l, u_full |-> has, l_full |-> b.l_full]
    BY <1>1, <1>5 DEF RxBufClock
  <2>2. c.u = data /\ c.u_full = has /\ ~c.l_full /\ c.l_full \in BOOLEAN
    BY <1>1, <1>5, <2>1
  <2>3. c \in BufStates
    BY <1>1, <2>1 DEF BufStates
  <2>4. n = 0 /\ len = 0 /\ buf_len(c) = pop
    <3>1. n = 0 /\ len = 0
      BY <1>1, <1>b, <1>5, <2>2
    <3>2. (~c.u_full => buf_len(c) = 0) /\ (c.u_full /\ ~c.l_full => buf_len(c) = 1) /\ (c.u_full /\ c.l_full => buf_len(c) = 2)
      BY <2>3, BufCount
    <3> QED BY <1>1, <1>2, <1>b, <1>5, <2>2, <3>1, <3>2
  <2>5. BufOK(c, p)
    BY <1>2, <2>2, <2>4 DEF BufOK
  <2> QED BY <1>1, <1>2, <1>5, <2>2, <2>3, <2>4, <2>5
<1>6. CASE ~byte /\ ~word /\ b.u_full /\ ~b.l_full
  <2>1. c = [u |-> b.u, l |-> data, u_full |-> b.u_full, l_full |-> has]
    BY <1>1, <1>6 DEF RxBufClock
  <2>2. c.u = b.u /\ c.l = data /\ c.u_full = TRUE /\ c.l_full = has
    BY <1>1, <1>6, <2>1
  <2>3. c \in BufStates
    BY <1>1, <2>1 DEF BufStates
  <2>4. n = 0 /\ len = 1 /\ buf_len(c) = 1 + pop
    <3>1. n = 0 /\ len = 1
      BY <1>1, <1>b, <1>6, <2>2
    <3>2. (~c.u_full => buf_len(c) = 0) /\ (c.u_full /\ ~c.l_full => buf_len(c) = 1) /\ (c.u_full /\ c.l_full => buf_len(c) = 2)
      BY <2>3, BufCount
    <3> QED BY <1>1, <1>2, <1>b, <1>6, <2>2, <3>1, <3>2
  <2>5. BufOK(c, p)
    BY <1>2, <1>6, <2>2, <2>4 DEF BufOK
  <2> QED BY <1>1, <1>2, <1>6, <2>2, <2>3, <2>4, <2>5
<1>7. CASE ~byte /\ ~word /\ b.u_full /\ b.l_full
  <2>1. c = b
    BY <1>7 DEF RxBufClock
  <2>2. n = 0 /\ pop = 0
    BY <1>7
  <2> QED BY <1>1, <1>2, <1>7, <2>1, <2>2
<1> QED BY <1>3, <1>4, <1>5, <1>6, <1>7

-----------------------------------------------------------------------------
(* The bus cycle and its strobes.                                          *)

IInv == /\ SdPathTypeOK /\ StrobesTimed /\ OpAllowed /\ TxChain /\ RxChain /\ Counted
        /\ TxRoom /\ RxReady /\ Drained

Regs == {"STATUS", "DATA", "SHIFT_CTRL", "CLKDIV"}
States == {"S0", "S1", "S2", "S3", "S4", "SW", "S5", "S6", "S7"}

OpShape(o) ==
  /\ o.reg \in Regs /\ o.rw \in BOOLEAN /\ o.word \in BOOLEAN /\ o.mode \in Modes
  /\ o.len \in Nat /\ o.len < 8192 /\ (o.reg \in {"STATUS", "DATA"} => o.len = 0)
  /\ o.reg = "STATUS" => o.rw
  /\ o.reg \in {"SHIFT_CTRL", "CLKDIV"} => ~o.rw
  /\ o.reg = "SHIFT_CTRL" => IF o.mode = "RX" THEN o.len >= 1 ELSE o.len = 0
  /\ o.reg = "CLKDIV" => o.len \in ClkDivs

LEMMA OpFacts ==
  ASSUME NEW o \in Ops
  PROVE  /\ o.reg \in Regs /\ o.rw \in BOOLEAN /\ o.word \in BOOLEAN /\ o.mode \in Modes
         /\ o.len \in Nat /\ o.len < 8192 /\ (o.reg \in {"STATUS", "DATA"} => o.len = 0)
         /\ o.reg = "STATUS" => o.rw
         /\ o.reg \in {"SHIFT_CTRL", "CLKDIV"} => ~o.rw
         /\ o.reg = "SHIFT_CTRL" => IF o.mode = "RX" THEN o.len >= 1 ELSE o.len = 0
         /\ o.reg = "CLKDIV" => o.len \in ClkDivs
<1>1. OpShape(o)
  <2>1. CASE o = Op("STATUS", TRUE, TRUE)
    BY <2>1 DEF Op, Regs, Modes, OpShape
  <2>2. CASE o \in DataOps
    <3>1. PICK rw \in BOOLEAN, word \in BOOLEAN : o = Op("DATA", rw, word)
      BY <2>2 DEF DataOps
    <3> QED BY <3>1 DEF Op, Regs, Modes, OpShape
  <2>3. CASE o \in CommandOps
    <3>1. PICK m \in Modes, n \in Nat :
            n < 8192 /\ o = Command(m, n) /\ IF m = "RX" THEN n >= 1 ELSE n = 0
      <4>1. CASE o \in {Command(m, 0) : m \in Modes \ {"RX"}}
        BY <4>1
      <4>2. CASE o \in {Command("RX", n) : n \in Lengths}
        <5>1. PICK n \in Lengths : o = Command("RX", n)
          BY <4>2
        <5>2. n \in Nat /\ 1 <= n /\ n < 8192
          <6>1. \A k \in Lengths : k \in Nat /\ 1 <= k /\ k < 8192
            BY SdPathAssumption, ZenonT(40)
          <6> QED BY <6>1
        <5> QED BY <5>1, <5>2 DEF Modes
      <4> QED BY <2>3, <4>1, <4>2 DEF CommandOps
    <3>2. o = [reg |-> "SHIFT_CTRL", rw |-> FALSE, word |-> TRUE, mode |-> m, len |-> n]
      <4>1. o = [Op("SHIFT_CTRL", FALSE, TRUE) EXCEPT !.mode = m, !.len = n]
        BY <3>1 DEF Command
      <4> QED BY <4>1 DEF Op
    <3> QED BY <3>1, <3>2 DEF Regs, OpShape
  <2>4. CASE o \in DividerOps
    <3>1. PICK n \in ClkDivs : o = Divider(n)
      BY <2>4 DEF DividerOps
    <3>2. o = [reg |-> "CLKDIV", rw |-> FALSE, word |-> TRUE, mode |-> "STOP", len |-> n]
      BY <3>1 DEF Divider, Op
    <3>3. n \in Nat /\ n < 8192
      <4>1. ClkDivs \subseteq 0..255
        BY SdPathAssumption, Zenon
      <4> QED BY <4>1
    <3> QED BY <3>2, <3>3 DEF Regs, Modes, OpShape
  <2>5. o = Op("STATUS", TRUE, TRUE) \/ o \in DataOps \/ o \in CommandOps \/ o \in DividerOps
    BY DEF Ops
  <2> QED BY <2>1, <2>2, <2>3, <2>4, <2>5
<1> QED BY <1>1 DEF OpShape

LEMMA NoOpFacts == NoOp \in Ops /\ NoOp.reg = "STATUS" /\ NoOp.rw
BY DEF NoOp, Ops, Op

LEMMA BusTypes ==
  ASSUME SdPathTypeOK
  PROVE  /\ s \in States /\ op \in Ops /\ sd_dtack_n \in BOOLEAN
         /\ wr_sync = <<wr_sync[1], wr_sync[2], wr_sync[3]>>
         /\ rd_sync = <<rd_sync[1], rd_sync[2], rd_sync[3]>>
         /\ {wr_sync[1], wr_sync[2], wr_sync[3], rd_sync[1], rd_sync[2], rd_sync[3]} \subseteq BOOLEAN
<1>1. s \in States
  BY DEF SdPathTypeOK, Successor, States
<1>2. wr_sync \in BOOLEAN \X BOOLEAN \X BOOLEAN /\ rd_sync \in BOOLEAN \X BOOLEAN \X BOOLEAN
      /\ op \in Ops /\ sd_dtack_n \in BOOLEAN
  BY DEF SdPathTypeOK
<1> QED BY <1>1, <1>2

(* A write strobe comes on the last clock of its cycle, a read strobe on   *)
(* the clock the core samples the acknowledge.                             *)
LEMMA Strobes ==
  ASSUME SdPathTypeOK, StrobesTimed
  PROVE  /\ wr_strobe <=> s = "S6" /\ ~op.rw
         /\ rd_strobe <=> s = "S4" /\ op.rw
         /\ wr_strobe \in BOOLEAN /\ rd_strobe \in BOOLEAN
         /\ s # "SW"
<1>1. /\ s \in States /\ op.rw \in BOOLEAN
      /\ wr_sync[2] \in BOOLEAN /\ wr_sync[3] \in BOOLEAN
      /\ rd_sync[2] \in BOOLEAN /\ rd_sync[3] \in BOOLEAN
  BY BusTypes, OpFacts
<1>2. wr_strobe <=> s = "S6" /\ ~op.rw
  BY <1>1 DEF StrobesTimed, wr_strobe, States
<1>3. rd_strobe <=> s = "S4" /\ op.rw
  BY <1>1 DEF StrobesTimed, rd_strobe, States
<1> QED BY <1>1, <1>2, <1>3 DEF StrobesTimed, wr_strobe, rd_strobe

Moves ==
  /\ s = "S0" => (s' = "S0" /\ op' = op) \/ (s' = "S1" /\ op' \in Ops /\ Allowed(op'))
  /\ s = "S1" => s' = "S2" /\ op' = op
  /\ s = "S2" => s' = "S3" /\ op' = op
  /\ s = "S3" => s' = "S4" /\ op' = op
  /\ s = "S4" => s' = "S5" /\ op' = op
  /\ s = "S5" => s' = "S6" /\ op' = op
  /\ s = "S6" => s' = "S7" /\ op' = op
  /\ s = "S7" => s' = "S0" /\ op' = NoOp

LEMMA BusMoves ==
  ASSUME SdPathTypeOK, StrobesTimed, Clock
  PROVE  Moves /\ s' \in States /\ op' \in Ops
<1>1. s \in States /\ op \in Ops /\ s # "SW" /\ (s = "S4" => ~sd_dtack_n)
  BY BusTypes DEF StrobesTimed
<1>2. CASE CoreIdle
  BY <1>1, <1>2 DEF CoreIdle, Moves, States
<1>3. CASE CoreStart
  BY <1>1, <1>3 DEF CoreStart, Moves, States
<1>4. CASE CoreAdvance
  BY <1>1, <1>4 DEF CoreAdvance, Moves, States, Successor
<1>5. CASE CoreSample
  BY <1>1, <1>5 DEF CoreSample, Moves, States
<1>6. CASE CoreRelease
  BY <1>1, <1>6, NoOpFacts DEF CoreRelease, Moves, States
<1> QED BY <1>2, <1>3, <1>4, <1>5, <1>6 DEF Clock

LEMMA BusCameFrom ==
  ASSUME SdPathTypeOK, StrobesTimed, Clock
  PROVE  /\ s' \notin {"S0", "S1"} => op' = op
         /\ (s' = "S0" => s \in {"S0", "S7"}) /\ (s' = "S1" => s = "S0")
         /\ (s' = "S2" <=> s = "S1") /\ (s' = "S3" <=> s = "S2")
         /\ (s' = "S4" <=> s = "S3") /\ (s' = "S5" <=> s = "S4")
         /\ (s' = "S6" <=> s = "S5") /\ (s' = "S7" <=> s = "S6") /\ s' # "SW"
         /\ s \in {"S0", "S1", "S2", "S3", "S4", "S5", "S6", "S7"}
<1>1. Moves
  BY BusMoves
<1>2. s \in {"S0", "S1", "S2", "S3", "S4", "S5", "S6", "S7"}
  BY BusTypes DEF States, StrobesTimed
<1> QED BY <1>1, <1>2 DEF Moves

LEMMA StrobesStep ==
  ASSUME SdPathTypeOK, StrobesTimed, Clock
  PROVE  /\ StrobesTimed' /\ sd_dtack_n' \in BOOLEAN /\ sd_enabled' \in BOOLEAN
         /\ wr_sync' \in BOOLEAN \X BOOLEAN \X BOOLEAN
         /\ rd_sync' \in BOOLEAN \X BOOLEAN \X BOOLEAN
<1>1. Moves /\ s \in States /\ s # "SW" /\ op \in Ops
  BY BusMoves, BusTypes DEF StrobesTimed
<1>2. op.rw \in BOOLEAN /\ op'.rw \in BOOLEAN /\ NoOp.rw
  BY <1>1, BusMoves, OpFacts, NoOpFacts
<1>3. /\ wr_access \in BOOLEAN /\ rd_access \in BOOLEAN /\ as_n \in BOOLEAN
      /\ wr_access <=> s \in {"S4", "S5", "S6"} /\ ~op.rw
      /\ rd_access <=> s \in {"S2", "S3", "S4", "S5", "S6"} /\ op.rw
      /\ as_n <=> s \notin {"S2", "S3", "S4", "S5", "S6"}
  BY <1>1, <1>2 DEF wr_access, rd_access, ACCESS, ds_n, as_n, States
<1>4. /\ wr_sync' = <<wr_access, wr_sync[1], wr_sync[2]>>
      /\ rd_sync' = <<rd_access, rd_sync[1], rd_sync[2]>>
      /\ sd_dtack_n' = as_n /\ sd_enabled' = (sd_enabled \/ wr_access)
  BY DEF Clock, CardClock, StrobeClock, Sync
<1>5. /\ wr_sync[1] \in BOOLEAN /\ wr_sync[2] \in BOOLEAN
      /\ rd_sync[1] \in BOOLEAN /\ rd_sync[2] \in BOOLEAN
  BY BusTypes
<1>6. /\ wr_sync' \in BOOLEAN \X BOOLEAN \X BOOLEAN
      /\ rd_sync' \in BOOLEAN \X BOOLEAN \X BOOLEAN
      /\ sd_dtack_n' \in BOOLEAN /\ sd_enabled' \in BOOLEAN
  BY <1>3, <1>4, <1>5
<1>7. /\ (wr_sync[1])' = wr_access /\ (wr_sync[2])' = wr_sync[1] /\ (wr_sync[3])' = wr_sync[2]
      /\ (rd_sync[1])' = rd_access /\ (rd_sync[2])' = rd_sync[1] /\ (rd_sync[3])' = rd_sync[2]
  BY <1>4
<1>8. StrobesTimed'
  <2> DEFINE w1 == (wr_sync[1])'  w2 == (wr_sync[2])'  w3 == (wr_sync[3])'
             r1 == (rd_sync[1])'  r2 == (rd_sync[2])'  r3 == (rd_sync[3])'
  <2>1. /\ w1 <=> s \in {"S4", "S5", "S6"} /\ ~op.rw
        /\ w2 <=> s \in {"S5", "S6", "S7"} /\ ~op.rw
        /\ s \in {"S6", "S7"} => (w3 <=> ~op.rw)
        /\ s \in {"S1", "S2", "S3", "S4", "S5"} => ~w3
        /\ r1 <=> s \in {"S2", "S3", "S4", "S5", "S6"} /\ op.rw
        /\ r2 <=> s \in {"S3", "S4", "S5", "S6", "S7"} /\ op.rw
        /\ s \in {"S4", "S5", "S6", "S7"} => (r3 <=> op.rw)
        /\ s \in {"S1", "S2", "S3"} => ~r3
    <3>1. /\ w1 <=> s \in {"S4", "S5", "S6"} /\ ~op.rw
          /\ r1 <=> s \in {"S2", "S3", "S4", "S5", "S6"} /\ op.rw
      BY <1>3, <1>7
    <3>2. w2 <=> s \in {"S5", "S6", "S7"} /\ ~op.rw
      BY <1>5, <1>7 DEF StrobesTimed
    <3>3. r2 <=> s \in {"S3", "S4", "S5", "S6", "S7"} /\ op.rw
      BY <1>5, <1>7 DEF StrobesTimed
    <3>4. /\ s \in {"S6", "S7"} => (w3 <=> ~op.rw)
          /\ s \in {"S1", "S2", "S3", "S4", "S5"} => ~w3
      BY <1>5, <1>7 DEF StrobesTimed
    <3>5. /\ s \in {"S4", "S5", "S6", "S7"} => (r3 <=> op.rw)
          /\ s \in {"S1", "S2", "S3"} => ~r3
      BY <1>5, <1>7 DEF StrobesTimed
    <3> QED BY <3>1, <3>2, <3>3, <3>4, <3>5
  <2>2. s' = "S4" => ~sd_dtack_n'
    BY <1>1, <1>3, <1>4 DEF Moves, States
  <2> DEFINE rw == op.rw  rw2 == op'.rw
  <2>3. /\ s' # "SW"
        /\ s' \notin {"S0", "S1"} => (rw2 <=> rw)
        /\ s' = "S0" => s \in {"S0", "S7"}
        /\ (s' = "S1" => s = "S0") /\ (s' = "S2" => s = "S1")
        /\ (s' = "S3" => s = "S2") /\ (s' = "S4" => s = "S3")
        /\ (s' = "S5" => s = "S4") /\ (s' = "S6" => s = "S5")
        /\ s' = "S7" => s = "S6"
    BY <1>1 DEF Moves, States
  <2> HIDE DEF w1, w2, w3, r1, r2, r3, rw, rw2
  <2>4. /\ w1 <=> s' \in {"S5", "S6", "S7"} /\ ~rw2
        /\ s' \in {"S6", "S7"} => (w2 <=> ~rw2)
        /\ s' \in {"S1", "S2", "S3", "S4", "S5"} => ~w2
        /\ s' = "S6" => ~w3
        /\ s' = "S7" => (w3 <=> ~rw2)
    <3>1. w1 <=> s' \in {"S5", "S6", "S7"} /\ ~rw2
      <4>1. s \in {"S4", "S5", "S6"} <=> s' \in {"S5", "S6", "S7"}
        BY <1>1, <2>3 DEF Moves, States
      <4> QED BY <2>1, <2>3, <4>1 DEF rw
    <3>2. s' \in {"S6", "S7"} => (w2 <=> ~rw2)
      BY <2>1, <2>3 DEF rw
    <3>3. s' \in {"S1", "S2", "S3", "S4", "S5"} => ~w2
      BY <2>1, <2>3 DEF rw
    <3>4. s' = "S6" => ~w3
      BY <2>1, <2>3 DEF rw
    <3>5. s' = "S7" => (w3 <=> ~rw2)
      BY <2>1, <2>3 DEF rw
    <3> QED BY <3>1, <3>2, <3>3, <3>4, <3>5
  <2>5. /\ r1 <=> s' \in {"S3", "S4", "S5", "S6", "S7"} /\ rw2
        /\ s' \in {"S4", "S5", "S6", "S7"} => (r2 <=> rw2)
        /\ s' \in {"S1", "S2", "S3"} => ~r2
        /\ s' = "S4" => ~r3
        /\ s' \in {"S5", "S6", "S7"} => (r3 <=> rw2)
    <3>1. r1 <=> s' \in {"S3", "S4", "S5", "S6", "S7"} /\ rw2
      <4>1. s \in {"S2", "S3", "S4", "S5", "S6"} <=> s' \in {"S3", "S4", "S5", "S6", "S7"}
        BY <1>1, <2>3 DEF Moves, States
      <4> QED BY <2>1, <2>3, <4>1 DEF rw
    <3>2. s' \in {"S4", "S5", "S6", "S7"} => (r2 <=> rw2)
      BY <2>1, <2>3 DEF rw
    <3>3. s' \in {"S1", "S2", "S3"} => ~r2
      BY <2>1, <2>3 DEF rw
    <3>4. s' = "S4" => ~r3
      BY <2>1, <2>3 DEF rw
    <3>5. s' \in {"S5", "S6", "S7"} => (r3 <=> rw2)
      BY <2>1, <2>3 DEF rw
    <3> QED BY <3>1, <3>2, <3>3, <3>4, <3>5
  <2>6. s' = "S0" => (w2 => w3) /\ (r2 => r3)
    BY <1>1, <2>1, <2>3 DEF States
  <2> QED BY <2>2, <2>3, <2>4, <2>5, <2>6 DEF StrobesTimed, w1, w2, w3, r1, r2, r3, rw2
<1> QED BY <1>6, <1>8

-----------------------------------------------------------------------------
(* What a clock does to the two ends, whatever the driver is about.        *)

Put == IF DataWritten THEN Bytes(op) ELSE 0            (* by the core       *)
Got == IF s = "S4" /\ Reading THEN Bytes(op) ELSE 0    (* by the core       *)
TookIn == One(shifter_tx_wr_req)                       (* by the shifter    *)
Gave == One(rx_fifo_wr_req)                            (* by the shifter    *)
Sent == One(ByteDone /\ Sends)
Came == One(ByteDone /\ Receives)

LEMMA Ones == \A b \in BOOLEAN : One(b) \in {0, 1} /\ (One(b) = 1 <=> b)
BY DEF One

LEMMA TypeFacts ==
  ASSUME SdPathTypeOK
  PROVE  /\ state \in {"IDLE", "RESTART", "SHIFTING", "UNLOAD"} /\ mode \in Modes
         /\ rx_length \in Nat /\ clk_count \in Nat /\ bit_count \in 0..BITS-1
         /\ SCLK \in BOOLEAN /\ in_full \in BOOLEAN /\ out_full \in BOOLEAN
         /\ in_reg \in Byte /\ sr \in Byte /\ out_reg \in Byte
         /\ tx_cb \in BufStates /\ rx_cb \in BufStates
         /\ clk_div \in ClkDivs /\ new_rx_length \in Nat /\ pending \in Nat /\ due \in Nat
         /\ tx_credit \in Nat /\ rx_credit \in Nat /\ unread \in Nat
         /\ set_rx_length \in BOOLEAN /\ sd_enabled \in BOOLEAN /\ idle \in BOOLEAN
<1>1. ShifterTypeOK
  BY DEF SdPathTypeOK
<1>2. /\ state \in {"IDLE", "RESTART", "SHIFTING", "UNLOAD"}
      /\ rx_length \in Nat /\ clk_count \in Nat /\ bit_count \in 0..BITS-1
      /\ SCLK \in BOOLEAN /\ in_full \in BOOLEAN /\ out_full \in BOOLEAN
      /\ in_reg \in Byte /\ sr \in Byte /\ out_reg \in Byte
  BY <1>1 DEF ShifterTypeOK
<1>3. /\ tx_cb \in BufStates /\ rx_cb \in BufStates /\ mode \in Modes
      /\ clk_div \in ClkDivs /\ new_rx_length \in Nat /\ pending \in Nat /\ due \in Nat
      /\ tx_credit \in Nat /\ rx_credit \in Nat /\ unread \in Nat
      /\ set_rx_length \in BOOLEAN /\ sd_enabled \in BOOLEAN /\ idle \in BOOLEAN
  BY DEF SdPathTypeOK
<1> QED BY <1>2, <1>3

LEMMA Counts ==
  ASSUME SdPathTypeOK
  PROVE  /\ OutBit \in {0, 1} /\ OutLen \in 0..2 /\ InLen \in 0..2 /\ Taken \in 0..2
         /\ Put \in 0..2 /\ Got \in 0..2 /\ Bytes(op) \in 1..2
         /\ TookIn \in {0, 1} /\ (TookIn = 1 <=> ~in_full /\ ~empty(tx_fifo))
         /\ Gave \in {0, 1} /\ (Gave = 1 <=> out_full /\ ~rx_fifo.full)
         /\ Sent \in {0, 1} /\ (Sent = 1 <=> ByteDone /\ Sends)
         /\ Came \in {0, 1} /\ (Came = 1 <=> ByteDone /\ Receives)
BY DEF OutBit, OutLen, InLen, Taken, Put, Got, Bytes, TookIn, Gave, Sent, Came, One,
       shifter_tx_wr_req, rx_fifo_wr_req

LEMMA TxFacts ==
  ASSUME SdPathTypeOK, TxChain
  PROVE  /\ FifoOK(tx_fifo) /\ Holds(tx_fifo, sent + OutLen)
         /\ BufOK(tx_cb, sent + OutLen + length(tx_fifo))
         /\ sent \in Nat /\ sent \in Byte /\ tx_next \in Byte /\ tx_next \in Nat
         /\ sent + OutLen \in Nat /\ sent + OutLen + length(tx_fifo) \in Nat
         /\ length(tx_fifo) \in 0..DEPTH /\ buf_len(tx_cb) \in 0..2
         /\ tx_len = length(tx_fifo) + buf_len(tx_cb) /\ tx_len \in Nat
         /\ empty(tx_fifo) <=> length(tx_fifo) = 0
         /\ tx_fifo.full <=> length(tx_fifo) = DEPTH
         /\ tx_cb.u_full <=> buf_len(tx_cb) >= 1
         /\ tx_cb.l_full <=> buf_len(tx_cb) = 2
         /\ tx_fifo.full \in BOOLEAN /\ tx_cb.u_full \in BOOLEAN /\ tx_cb.l_full \in BOOLEAN
         /\ tx_cb.u \in Byte /\ q(tx_fifo) \in Byte
         /\ ~empty(tx_fifo) => q(tx_fifo) = Num(sent + OutLen)
<1>1. /\ FifoOK(tx_fifo) /\ Holds(tx_fifo, sent + OutLen)
      /\ BufOK(tx_cb, sent + OutLen + length(tx_fifo))
      /\ sent \in Byte /\ tx_next \in Byte
  BY DEF TxChain
<1>2. sent \in Nat /\ tx_next \in Nat /\ OutLen \in Nat
  BY <1>1, Constants, Counts
<1>3. /\ length(tx_fifo) \in 0..DEPTH
      /\ empty(tx_fifo) <=> length(tx_fifo) = 0
      /\ tx_fifo.full <=> length(tx_fifo) = DEPTH
      /\ tx_fifo.full \in BOOLEAN /\ q(tx_fifo) \in Byte
      /\ ~empty(tx_fifo) => q(tx_fifo) = At(tx_fifo, 0)
  BY <1>1, FifoFacts
<1>4. /\ buf_len(tx_cb) \in 0..2
      /\ tx_cb.u_full <=> buf_len(tx_cb) >= 1
      /\ tx_cb.l_full <=> buf_len(tx_cb) = 2
      /\ tx_cb.u_full \in BOOLEAN /\ tx_cb.l_full \in BOOLEAN /\ tx_cb.u \in Byte
  BY <1>1, TypeFacts, BufFacts
<1>5. ~empty(tx_fifo) => q(tx_fifo) = Num(sent + OutLen)
  <2>1. ~empty(tx_fifo) => 0 \in 0..length(tx_fifo)-1
    BY <1>3
  <2>2. ~empty(tx_fifo) => At(tx_fifo, 0) = Num(sent + OutLen + 0)
    BY <1>1, <2>1 DEF Holds
  <2>3. sent + OutLen + 0 = sent + OutLen
    BY <1>2
  <2> QED BY <1>3, <2>2, <2>3
<1>6. tx_len = length(tx_fifo) + buf_len(tx_cb) /\ tx_len \in Nat
  BY <1>3, <1>4, Depth DEF tx_len
<1>7. sent + OutLen \in Nat /\ sent + OutLen + length(tx_fifo) \in Nat
  BY <1>2, <1>3, Depth
<1> QED BY <1>1, <1>2, <1>3, <1>4, <1>5, <1>6, <1>7

LEMMA RxFacts ==
  ASSUME SdPathTypeOK, RxChain
  PROVE  /\ FifoOK(rx_fifo) /\ Holds(rx_fifo, Base + buf_len(rx_cb)) /\ BufOK(rx_cb, Base)
         /\ want \in Nat /\ want \in Byte /\ card_next \in Byte /\ card_next \in Nat
         /\ Base \in Nat /\ Base + buf_len(rx_cb) \in Nat /\ Base + rx_len \in Nat
         /\ length(rx_fifo) \in 0..DEPTH /\ buf_len(rx_cb) \in 0..2
         /\ rx_len = length(rx_fifo) + buf_len(rx_cb) /\ rx_len \in Nat
         /\ empty(rx_fifo) <=> length(rx_fifo) = 0
         /\ rx_fifo.full <=> length(rx_fifo) = DEPTH
         /\ rx_cb.u_full <=> buf_len(rx_cb) >= 1
         /\ rx_cb.l_full <=> buf_len(rx_cb) = 2
         /\ rx_fifo.full \in BOOLEAN /\ rx_cb.u_full \in BOOLEAN /\ rx_cb.l_full \in BOOLEAN
         /\ empty(rx_fifo) \in BOOLEAN /\ q(rx_fifo) \in Byte
         /\ ~empty(rx_fifo) => q(rx_fifo) = Num(Base + buf_len(rx_cb))
<1>1. /\ FifoOK(rx_fifo) /\ Holds(rx_fifo, Base + buf_len(rx_cb)) /\ BufOK(rx_cb, Base)
      /\ want \in Byte /\ card_next \in Byte
  BY DEF RxChain
<1>2. want \in Nat /\ card_next \in Nat /\ Base \in Nat
  BY <1>1, Constants, Counts DEF Base
<1>3. /\ length(rx_fifo) \in 0..DEPTH
      /\ empty(rx_fifo) <=> length(rx_fifo) = 0
      /\ rx_fifo.full <=> length(rx_fifo) = DEPTH
      /\ rx_fifo.full \in BOOLEAN /\ q(rx_fifo) \in Byte
      /\ ~empty(rx_fifo) => q(rx_fifo) = At(rx_fifo, 0)
  BY <1>1, FifoFacts
<1>4. /\ buf_len(rx_cb) \in 0..2
      /\ rx_cb.u_full <=> buf_len(rx_cb) >= 1
      /\ rx_cb.l_full <=> buf_len(rx_cb) = 2
      /\ rx_cb.u_full \in BOOLEAN /\ rx_cb.l_full \in BOOLEAN
  BY <1>1, TypeFacts, BufFacts
<1>5. ~empty(rx_fifo) => q(rx_fifo) = Num(Base + buf_len(rx_cb))
  <2>1. ~empty(rx_fifo) => 0 \in 0..length(rx_fifo)-1
    BY <1>3
  <2>2. ~empty(rx_fifo) => At(rx_fifo, 0) = Num(Base + buf_len(rx_cb) + 0)
    BY <1>1, <2>1 DEF Holds
  <2>3. Base + buf_len(rx_cb) + 0 = Base + buf_len(rx_cb)
    BY <1>2, <1>4
  <2> QED BY <1>3, <2>2, <2>3
<1>6. rx_len = length(rx_fifo) + buf_len(rx_cb) /\ rx_len \in Nat
  BY <1>3, <1>4, Depth DEF rx_len
<1>7. Base + buf_len(rx_cb) \in Nat /\ Base + rx_len \in Nat
  BY <1>2, <1>4, <1>6
<1>8. empty(rx_fifo) \in BOOLEAN
  BY DEF empty
<1> QED BY <1>1, <1>2, <1>3, <1>4, <1>5, <1>6, <1>7, <1>8

LEMMA DataStrobes ==
  ASSUME SdPathTypeOK, StrobesTimed
  PROVE  /\ DataWritten <=> s = "S6" /\ Writing
         /\ Strobed(wr_strobe, FALSE) <=> DataWritten /\ ~op.word
         /\ Strobed(wr_strobe, TRUE) <=> DataWritten /\ op.word
         /\ Strobed(rd_strobe, FALSE) <=> s = "S4" /\ Reading /\ ~op.word
         /\ Strobed(rd_strobe, TRUE) <=> s = "S4" /\ Reading /\ op.word
         /\ {Strobed(wr_strobe, FALSE), Strobed(wr_strobe, TRUE),
             Strobed(rd_strobe, FALSE), Strobed(rd_strobe, TRUE)} \subseteq BOOLEAN
         /\ op.word \in BOOLEAN /\ op.rw \in BOOLEAN
<1>1. op.word \in BOOLEAN /\ op.rw \in BOOLEAN
  BY BusTypes, OpFacts
<1>2. /\ wr_strobe <=> s = "S6" /\ ~op.rw
      /\ rd_strobe <=> s = "S4" /\ op.rw
  BY Strobes
<1>3. DataWritten <=> s = "S6" /\ Writing
  BY DEF DataWritten, Writing
<1>4. s = "S6" /\ ~op.rw => ~ds_n
  BY <1>1 DEF ds_n
<1>5. s = "S4" /\ op.rw => ~ds_n
  BY <1>1 DEF ds_n
<1>6. /\ Strobed(wr_strobe, FALSE) <=> DataWritten /\ ~op.word
      /\ Strobed(wr_strobe, TRUE) <=> DataWritten /\ op.word
  BY <1>1, <1>2, <1>3, <1>4 DEF Strobed, Writing
<1>7. /\ Strobed(rd_strobe, FALSE) <=> s = "S4" /\ Reading /\ ~op.word
      /\ Strobed(rd_strobe, TRUE) <=> s = "S4" /\ Reading /\ op.word
  BY <1>1, <1>2, <1>5 DEF Strobed, Reading
<1>8. {Strobed(wr_strobe, FALSE), Strobed(wr_strobe, TRUE),
       Strobed(rd_strobe, FALSE), Strobed(rd_strobe, TRUE)} \subseteq BOOLEAN
  BY DEF Strobed
<1> QED BY <1>1, <1>3, <1>6, <1>7, <1>8

(* A write finds room in the adapter.                                      *)
LEMMA WriteFits ==
  ASSUME SdPathTypeOK, StrobesTimed, OpAllowed, TxChain, TxRoom, DataWritten
  PROVE  /\ Sends /\ Bytes(op) <= tx_credit
         /\ ~tx_cb.l_full /\ (op.word => ~tx_cb.u_full)
         /\ D_IN[1] \in Byte /\ D_IN[1] = Num(sent + OutLen + tx_len)
         /\ D_IN[2] \in Byte /\ D_IN[2] = Num(sent + OutLen + tx_len + 1)
<1>1. s = "S6" /\ Writing /\ op.word \in BOOLEAN /\ op.rw \in BOOLEAN
  BY DataStrobes
<1>2. Sends /\ Bytes(op) <= tx_credit
  BY <1>1 DEF OpAllowed, Within
<1>3. /\ tx_credit \in Nat
      /\ tx_credit >= 1 => ~tx_cb.l_full
      /\ tx_credit >= 2 => ~tx_cb.u_full
  BY <1>1, TypeFacts DEF TxRoom
<1>4. tx_credit >= 1 /\ (op.word => tx_credit >= 2)
  BY <1>1, <1>2, <1>3 DEF Bytes
<1>5. D_IN = <<Num(tx_next), Num(tx_next + 1)>>
  BY <1>1 DEF D_IN, ds_n, Writing
<1>6. /\ tx_next = Num(sent + OutLen + tx_len)
      /\ sent + OutLen + tx_len \in Nat /\ tx_next \in Nat /\ tx_next \in Byte
  BY TxFacts DEF TxChain
<1>7. Num(tx_next) = Num(sent + OutLen + tx_len)
  BY <1>6, NumIn
<1>8. Num(tx_next + 1) = Num(sent + OutLen + tx_len + 1)
  BY <1>6, NumAdd
<1>9. Num(tx_next) \in Byte /\ Num(tx_next + 1) \in Byte
  BY <1>6, NumIn
<1> QED BY <1>2, <1>3, <1>4, <1>5, <1>7, <1>8, <1>9

LEMMA TxClockStep ==
  ASSUME SdPathTypeOK, StrobesTimed, OpAllowed, TxChain, TxRoom, Clock
  PROVE  /\ tx_cb' \in BufStates /\ FifoOK(tx_fifo)'
         /\ (tx_len)' = tx_len + Put - TookIn
         /\ length(tx_fifo)' = length(tx_fifo) + One(~tx_fifo.full /\ tx_cb.u_full) - TookIn
         /\ Holds(tx_fifo', sent + OutLen + TookIn)
         /\ BufOK(tx_cb', sent + OutLen + TookIn + length(tx_fifo)')
         /\ Put = 0 => /\ tx_cb'.l_full => tx_fifo.full /\ tx_cb.l_full
                       /\ tx_cb'.u_full => tx_cb.l_full \/ (tx_fifo.full /\ tx_cb.u_full)
<1> DEFINE n == sent + OutLen
           p == n + length(tx_fifo)
           put == One(tx_fifo_wr_req /\ ~tx_fifo.full)
           get == One(shifter_tx_wr_req /\ ~empty(tx_fifo))
           byte == Strobed(wr_strobe, FALSE)
           word == Strobed(wr_strobe, TRUE)
           space == ~tx_fifo.full
           len == buf_len(tx_cb)
<1>1. /\ tx_cb' = TxBufClock(tx_cb, byte, word, space, D_IN)
      /\ tx_fifo' = FifoClock(tx_fifo, shifter_tx_wr_req, tx_fifo_wr_req, tx_cb.u)
  BY DEF Clock, CardClock, TxClock
<1>2. /\ FifoOK(tx_fifo) /\ Holds(tx_fifo, n) /\ BufOK(tx_cb, p) /\ n \in Nat /\ p \in Nat
      /\ length(tx_fifo) \in Nat /\ len \in 0..2 /\ tx_len = length(tx_fifo) + len
      /\ tx_fifo.full \in BOOLEAN /\ tx_cb.u_full \in BOOLEAN /\ tx_cb.u \in Byte
      /\ tx_cb.l_full \in BOOLEAN /\ tx_cb \in BufStates
      /\ (tx_cb.u_full => len >= 1) /\ (~tx_cb.u_full => len = 0)
      /\ (~tx_cb.l_full => len <= 1)
  BY TxFacts, TypeFacts, Depth
<1>3. /\ shifter_tx_wr_req \in BOOLEAN /\ tx_fifo_wr_req \in BOOLEAN /\ in_full \in BOOLEAN
      /\ tx_fifo_wr_req <=> space /\ tx_cb.u_full
      /\ space \in BOOLEAN /\ byte \in BOOLEAN /\ word \in BOOLEAN
  BY <1>2, TypeFacts, DataStrobes DEF shifter_tx_wr_req, tx_fifo_wr_req
<1>4. /\ put \in {0, 1} /\ (put = 1 <=> space /\ tx_cb.u_full)
      /\ get \in {0, 1} /\ get = TookIn /\ put = One(~tx_fifo.full /\ tx_cb.u_full)
  BY <1>2, <1>3 DEF One, TookIn, shifter_tx_wr_req, tx_fifo_wr_req
<1>5. put = 1 => tx_cb.u = Num(n + length(tx_fifo))
  BY <1>2, <1>4 DEF BufOK
<1>6. FifoOK(tx_fifo') /\ Holds(tx_fifo', n + get)
      /\ length(tx_fifo') = length(tx_fifo) + put - get
  <2> HIDE DEF n, p, space, len, byte, word
  <2> QED BY <1>1, <1>2, <1>3, <1>5, HoldsStep
<1>7. length(tx_fifo') \in Nat
  BY <1>6, FifoFacts, Depth
<1>8. /\ byte <=> DataWritten /\ ~op.word
      /\ word <=> DataWritten /\ op.word
      /\ op.word \in BOOLEAN
  BY DataStrobes
<1>9. /\ byte => ~word /\ Put = 1 /\ ~tx_cb.l_full /\ D_IN[1] = Num(p + len)
      /\ word => Put = 2 /\ ~tx_cb.u_full /\ D_IN[1] = Num(p) /\ D_IN[2] = Num(p + 1)
      /\ ~byte /\ ~word => Put = 0
      /\ D_IN[1] \in Byte /\ D_IN[2] \in Byte /\ Put \in 0..2
  <2>1. CASE ~DataWritten
    <3>1. D_IN[1] \in Byte /\ D_IN[2] \in Byte
      <4>1. tx_next \in Nat /\ tx_next + 1 \in Nat
        BY TxFacts
      <4>2. Num(tx_next) \in Byte /\ Num(tx_next + 1) \in Byte /\ AnyByte \in Byte
        BY <4>1, NumIn, Constants
      <4> QED BY <4>2 DEF D_IN
    <3> HIDE DEF n, p, len, byte, word
    <3> QED BY <1>8, <2>1, <3>1 DEF Put
  <2>2. CASE DataWritten
    <3>1. /\ ~tx_cb.l_full /\ (op.word => ~tx_cb.u_full)
          /\ D_IN[1] \in Byte /\ D_IN[1] = Num(n + tx_len)
          /\ D_IN[2] \in Byte /\ D_IN[2] = Num(n + tx_len + 1)
      BY <2>2, WriteFits
    <3>2. n + tx_len = p + len
      BY <1>2
    <3>3. Put = IF op.word THEN 2 ELSE 1
      BY <2>2 DEF Put, Bytes
    <3>4. op.word => n + tx_len = p /\ n + tx_len + 1 = p + 1
      BY <1>2, <3>1
    <3> HIDE DEF n, p, len, byte, word
    <3>5. D_IN[1] = Num(p + len)
      BY <3>1, <3>2
    <3>6. op.word => D_IN[1] = Num(p) /\ D_IN[2] = Num(p + 1)
      BY <3>1, <3>4
    <3> QED BY <1>8, <2>2, <3>1, <3>3, <3>5, <3>6
  <2> QED BY <2>1, <2>2
<1>10. /\ tx_cb' \in BufStates /\ BufOK(tx_cb', p + put)
       /\ buf_len(tx_cb') = len + Put - put
       /\ Put = 0 => /\ tx_cb'.l_full => ~space /\ tx_cb.l_full
                     /\ tx_cb'.u_full => tx_cb.l_full \/ (~space /\ tx_cb.u_full)
  <2> DEFINE b == tx_cb  data == D_IN  k == Put  c == tx_cb'
  <2>1. /\ b \in BufStates /\ p \in Nat /\ BufOK(b, p) /\ space \in BOOLEAN
        /\ byte \in BOOLEAN /\ word \in BOOLEAN /\ data[1] \in Byte /\ data[2] \in Byte
        /\ put \in {0, 1} /\ (put = 1 <=> space /\ b.u_full) /\ k \in 0..2 /\ len = buf_len(b)
    BY <1>2, <1>3, <1>4, <1>9
  <2>2. /\ byte => ~word /\ k = 1 /\ ~b.l_full /\ data[1] = Num(p + len)
        /\ word => k = 2 /\ ~b.u_full /\ data[1] = Num(p) /\ data[2] = Num(p + 1)
        /\ ~byte /\ ~word => k = 0
        /\ c = TxBufClock(b, byte, word, space, data)
    BY <1>1, <1>9
  <2> HIDE DEF n, p, space, byte, word, put, len, b, data, k, c
  <2>3. /\ c \in BufStates /\ BufOK(c, p + put)
        /\ buf_len(c) = len + k - put
        /\ k = 0 => /\ c.l_full => ~space /\ b.l_full
                    /\ c.u_full => b.l_full \/ (~space /\ b.u_full)
    BY <2>1, <2>2, TxBufStep, SMTT(30)
  <2> QED BY <2>3 DEF b, k, c
<1>11. p + put = n + get + length(tx_fifo')
  BY <1>2, <1>4, <1>6
<1>12. (tx_len)' = tx_len + Put - TookIn
  <2>1. (tx_len)' = length(tx_fifo') + buf_len(tx_cb')
    BY DEF tx_len
  <2> QED BY <1>2, <1>4, <1>6, <1>7, <1>9, <1>10, <2>1
<1>13. BufOK(tx_cb', n + get + length(tx_fifo'))
  BY <1>10, <1>11
<1>14. FifoOK(tx_fifo') /\ Holds(tx_fifo', n + TookIn) /\ BufOK(tx_cb', n + TookIn + length(tx_fifo'))
       /\ length(tx_fifo') = length(tx_fifo) + One(~tx_fifo.full /\ tx_cb.u_full) - TookIn
  BY <1>4, <1>6, <1>13
<1> QED BY <1>10, <1>12, <1>14

(* A read finds what it asks for in the adapter.                           *)
LEMMA ReadFinds ==
  ASSUME SdPathTypeOK, StrobesTimed, OpAllowed, RxChain, RxReady, s = "S4", Reading
  PROVE  /\ Bytes(op) <= rx_credit /\ rx_credit <= rx_len
         /\ rx_cb.u_full /\ (op.word => rx_cb.l_full)
<1>1. op.word \in BOOLEAN /\ op.rw \in BOOLEAN /\ rx_credit \in Nat
  BY BusTypes, OpFacts, TypeFacts
<1>2. Bytes(op) <= rx_credit
  BY DEF OpAllowed, Within
<1>3. Taken = 0
  BY DEF Taken
<1>4. /\ rx_credit <= rx_len
      /\ rx_credit >= 1 => rx_cb.u_full
      /\ rx_credit >= 2 => rx_cb.l_full
  BY <1>1, <1>3 DEF RxReady
<1>5. rx_credit >= 1 /\ (op.word => rx_credit >= 2)
  BY <1>1, <1>2 DEF Bytes
<1> QED BY <1>2, <1>4, <1>5

LEMMA RxClockStep ==
  ASSUME SdPathTypeOK, StrobesTimed, OpAllowed, RxChain, RxReady, Clock
  PROVE  /\ rx_cb' \in BufStates /\ FifoOK(rx_fifo)'
         /\ (rx_len)' = rx_len + Gave - Got
         /\ BufOK(rx_cb', Base + Got)
         /\ Holds(rx_fifo', Base + Got + buf_len(rx_cb)')
         /\ Got = 0 => /\ rx_cb.u_full \/ ~empty(rx_fifo) => rx_cb'.u_full
                       /\ rx_cb.l_full \/ (rx_cb.u_full /\ ~empty(rx_fifo)) => rx_cb'.l_full
<1> DEFINE n == Base + buf_len(rx_cb)
           put == One(rx_fifo_wr_req /\ ~rx_fifo.full)
           get == One(rx_fifo_rd_req /\ ~empty(rx_fifo))
           byte == Strobed(rd_strobe, FALSE)
           word == Strobed(rd_strobe, TRUE)
           has == ~empty(rx_fifo)
           len == buf_len(rx_cb)
<1>1. /\ rx_cb' = RxBufClock(rx_cb, byte, word, has, q(rx_fifo))
      /\ rx_fifo' = FifoClock(rx_fifo, rx_fifo_rd_req, rx_fifo_wr_req, out_reg)
  BY DEF Clock, CardClock, RxClock
<1>2. /\ FifoOK(rx_fifo) /\ Holds(rx_fifo, n) /\ BufOK(rx_cb, Base) /\ n \in Nat /\ Base \in Nat
      /\ length(rx_fifo) \in Nat /\ len \in 0..2 /\ rx_len = length(rx_fifo) + len
      /\ rx_fifo.full \in BOOLEAN /\ rx_cb.u_full \in BOOLEAN /\ q(rx_fifo) \in Byte
      /\ rx_cb.l_full \in BOOLEAN /\ rx_cb \in BufStates /\ has \in BOOLEAN
      /\ out_reg \in Byte /\ out_full \in BOOLEAN
      /\ has => q(rx_fifo) = Num(Base + len)
      /\ (rx_cb.u_full => len >= 1) /\ (rx_cb.l_full => len = 2)
  BY RxFacts, TypeFacts, Depth
<1>3. /\ rx_fifo_rd_req \in BOOLEAN /\ rx_fifo_wr_req \in BOOLEAN
      /\ rx_fifo_rd_req <=> ~rx_cb.l_full /\ has
      /\ byte \in BOOLEAN /\ word \in BOOLEAN
  BY <1>2, DataStrobes DEF rx_fifo_rd_req, rx_fifo_wr_req
<1>4. /\ get \in {0, 1} /\ (get = 1 <=> ~rx_cb.l_full /\ has)
      /\ put \in {0, 1} /\ put = Gave /\ (put = 1 => out_full)
  BY <1>2, <1>3 DEF One, Gave, rx_fifo_wr_req, rx_fifo_rd_req
<1>5. put = 1 => out_reg = Num(n + length(rx_fifo))
  <2>1. out_full => out_reg = Num(Base + rx_len)
    BY DEF RxChain
  <2>2. Base + rx_len = n + length(rx_fifo)
    BY <1>2
  <2> QED BY <1>4, <2>1, <2>2
<1>6. FifoOK(rx_fifo') /\ Holds(rx_fifo', n + get)
      /\ length(rx_fifo') = length(rx_fifo) + put - get
  <2> HIDE DEF n, has, len, byte, word
  <2> QED BY <1>1, <1>2, <1>3, <1>5, HoldsStep
<1>7. length(rx_fifo') \in Nat
  BY <1>6, FifoFacts, Depth
<1>8. /\ byte <=> s = "S4" /\ Reading /\ ~op.word
      /\ word <=> s = "S4" /\ Reading /\ op.word
      /\ op.word \in BOOLEAN
  BY DataStrobes
<1>9. /\ byte => ~word /\ Got = 1 /\ rx_cb.u_full
      /\ word => Got = 2 /\ rx_cb.l_full
      /\ ~byte /\ ~word => Got = 0
      /\ Got \in 0..2
  <2> HIDE DEF byte, word
  <2>1. CASE ~(s = "S4" /\ Reading)
    BY <1>8, <2>1 DEF Got
  <2>2. CASE s = "S4" /\ Reading
    <3>1. rx_cb.u_full /\ (op.word => rx_cb.l_full)
      BY <2>2, ReadFinds
    <3>2. Got = IF op.word THEN 2 ELSE 1
      BY <2>2 DEF Got, Bytes
    <3> QED BY <1>8, <2>2, <3>1, <3>2
  <2> QED BY <2>1, <2>2
<1>10. /\ rx_cb' \in BufStates /\ BufOK(rx_cb', Base + Got)
       /\ buf_len(rx_cb') = len + get - Got
       /\ Got = 0 => /\ rx_cb.u_full \/ has => rx_cb'.u_full
                     /\ rx_cb.l_full \/ (rx_cb.u_full /\ has) => rx_cb'.l_full
  <2> DEFINE b == rx_cb  data == q(rx_fifo)  k == Got  c == rx_cb'  p == Base
  <2>1. /\ b \in BufStates /\ p \in Nat /\ BufOK(b, p) /\ has \in BOOLEAN
        /\ byte \in BOOLEAN /\ word \in BOOLEAN /\ data \in Byte
        /\ get \in {0, 1} /\ (get = 1 <=> ~b.l_full /\ has) /\ k \in 0..2 /\ len = buf_len(b)
        /\ has => data = Num(p + len)
    BY <1>2, <1>3, <1>4, <1>9
  <2>2. /\ byte => ~word /\ k = 1 /\ b.u_full
        /\ word => k = 2 /\ b.l_full
        /\ ~byte /\ ~word => k = 0
        /\ c = RxBufClock(b, byte, word, has, data)
    BY <1>1, <1>9
  <2> HIDE DEF n, p, has, byte, word, get, len, b, data, k, c
  <2>3. /\ c \in BufStates /\ BufOK(c, p + k)
        /\ buf_len(c) = len + get - k
        /\ k = 0 => /\ b.u_full \/ has => c.u_full
                    /\ b.l_full \/ (b.u_full /\ has) => c.l_full
    BY <2>1, <2>2, RxBufStep
  <2> QED BY <2>3 DEF b, k, c, p
<1>11. Base + Got + buf_len(rx_cb') = n + get
  BY <1>2, <1>4, <1>9, <1>10
<1>12. (rx_len)' = rx_len + Gave - Got
  <2>1. (rx_len)' = length(rx_fifo') + buf_len(rx_cb')
    BY DEF rx_len
  <2> QED BY <1>2, <1>4, <1>6, <1>7, <1>9, <1>10, <2>1
<1>13. Holds(rx_fifo', Base + Got + buf_len(rx_cb'))
  BY <1>6, <1>11
<1> QED BY <1>6, <1>10, <1>12, <1>13

-----------------------------------------------------------------------------
(* The shifter.                                                            *)

LEMMA ModeFacts ==
  ASSUME SdPathTypeOK
  PROVE  /\ mode \in {"STOP", "RX", "TX", "BOTH"}
         /\ Sends <=> mode \in {"TX", "BOTH"}
         /\ Receives <=> mode \in {"RX", "BOTH"}
         /\ ByteDone \in BOOLEAN /\ (ByteDone => state = "SHIFTING")
BY TypeFacts DEF Modes, Sends, Receives, ByteDone, LastBit, HalfPeriod

LEMMA ShifterTypes ==
  ASSUME SdPathTypeOK, TxChain, RxChain, Clock
  PROVE  ShifterTypeOK'
<1>1. /\ state \in {"IDLE", "RESTART", "SHIFTING", "UNLOAD"}
      /\ rx_length \in Nat /\ clk_count \in Nat /\ bit_count \in 0..BITS-1
      /\ SCLK \in BOOLEAN /\ in_full \in BOOLEAN /\ out_full \in BOOLEAN
      /\ in_reg \in Byte /\ sr \in Byte /\ out_reg \in Byte /\ new_rx_length \in Nat
  BY TypeFacts
<1>2. q(tx_fifo) \in Byte /\ miso \in Byte /\ AnyByte \in Byte
  BY TxFacts, RxFacts, NumIn, Constants DEF miso
<1>3. shifter_tx_wr_req \in BOOLEAN /\ rx_fifo_wr_req \in BOOLEAN
  BY <1>1, RxFacts DEF shifter_tx_wr_req, rx_fifo_wr_req
<1>4. CASE Begins
  BY <1>1, <1>2, <1>3, <1>4 DEF Begins, Begin, TakeIn, ShifterTypeOK
<1>5. CASE Shifts
  <2>1. (clk_count + 1) % 256 \in Nat /\ (bit_count + 1) % BITS \in 0..BITS-1
    <3>1. 256 \in Nat \ {0} /\ BITS \in Nat \ {0} /\ clk_count + 1 \in Int /\ bit_count + 1 \in Int
      BY <1>1, Constants
    <3>2. (clk_count + 1) % 256 \in 0..256-1 /\ (bit_count + 1) % BITS \in 0..BITS-1
      BY <3>1, ModRange
    <3> QED BY <3>2
  <2>2. /\ clk_count' \in Nat /\ bit_count' \in 0..BITS-1
    BY <1>1, <1>5, <2>1 DEF Shifts, Shift
  <2>3. SCLK' \in BOOLEAN /\ in_full' \in BOOLEAN /\ out_full' \in BOOLEAN
    BY <1>5, Zenon DEF Shifts, Shift
  <2>4. state' \in {"IDLE", "RESTART", "SHIFTING", "UNLOAD"} /\ rx_length' \in Nat
    BY <1>1, <1>5 DEF Shifts, Shift
  <2>5. in_reg' \in Byte /\ sr' \in Byte /\ out_reg' \in Byte
    BY <1>1, <1>2, <1>5 DEF Shifts, Shift, TakeIn
  <2> QED BY <2>2, <2>3, <2>4, <2>5 DEF ShifterTypeOK
<1>6. CASE Unloads
  <2>1. (rx_length - 1) % 8192 \in Nat
    <3>1. 8192 \in Nat \ {0} /\ rx_length - 1 \in Int
      BY <1>1
    <3> QED BY <3>1, ModNat
  <2>2. rx_length' \in Nat
    BY <1>1, <1>6, <2>1 DEF Unloads, Unload
  <2>3. state' \in {"IDLE", "RESTART", "SHIFTING", "UNLOAD"}
    BY <1>1, <1>6 DEF Unloads, Unload
  <2>4. in_full' \in BOOLEAN /\ out_full' \in BOOLEAN
    BY <1>1, <1>3, <1>6, ZenonT(40) DEF Unloads, Unload
  <2>5. in_reg' \in Byte /\ sr' \in Byte /\ out_reg' \in Byte
    BY <1>1, <1>2, <1>6 DEF Unloads, Unload, TakeIn
  <2>6. clk_count' \in Nat /\ bit_count' \in 0..BITS-1 /\ SCLK' \in BOOLEAN
    BY <1>1, <1>6 DEF Unloads, Unload
  <2> QED BY <2>2, <2>3, <2>4, <2>5, <2>6 DEF ShifterTypeOK
<1> QED BY <1>4, <1>5, <1>6 DEF Clock

(* What the shifter takes in.                                              *)
LEMMA TakesIn ==
  ASSUME SdPathTypeOK, TxChain, Clock
  PROVE  /\ in_full' \in BOOLEAN
         /\ in_reg' = IF TookIn = 1 THEN q(tx_fifo) ELSE in_reg
         /\ TookIn = 1 => ~in_full /\ in_full'
         /\ in_full' => in_full \/ TookIn = 1
         /\ in_full /\ ~in_full' => state \in {"IDLE", "RESTART"} /\ Sends /\ state' = "SHIFTING"
<1>1. /\ in_full \in BOOLEAN /\ shifter_tx_wr_req \in BOOLEAN
      /\ TookIn = 1 <=> ~in_full /\ ~empty(tx_fifo)
      /\ TookIn = 1 <=> shifter_tx_wr_req
  BY TypeFacts, Counts DEF shifter_tx_wr_req
<1>2. in_reg' = IF TookIn = 1 THEN q(tx_fifo) ELSE in_reg
  BY <1>1 DEF Clock, Begins, Begin, Shifts, Shift, Unloads, Unload, TakeIn
<1>3. CASE Begins
  <2>1. /\ in_full' = (~(Sends /\ in_full) /\ (in_full \/ shifter_tx_wr_req))
        /\ state \in {"IDLE", "RESTART"}
        /\ Sends /\ in_full => state' = "SHIFTING"
    BY <1>3, ModeFacts DEF Begins, Begin
  <2> QED BY <1>1, <1>2, <2>1
<1>4. CASE Shifts \/ Unloads
  <2>1. in_full' = (in_full \/ shifter_tx_wr_req)
    BY <1>4 DEF Shifts, Shift, Unloads, Unload
  <2> QED BY <1>1, <1>2, <2>1
<1> QED BY <1>3, <1>4 DEF Clock

(* The bytes in the shifter, one clock on.                                 *)
LEMMA TxShifts ==
  ASSUME SdPathTypeOK, TxChain, Clock, mode' = mode
  PROVE  /\ OutBit' \in {0, 1} /\ (OutLen)' = OutLen + TookIn - Sent
         /\ sent' = IF Sent = 1 THEN Num(sent + 1) ELSE sent
         /\ (OutBit)' = 1 => sr' = sent'
         /\ in_full' => in_reg' = Num(sent' + (OutBit)')
<1>1. /\ in_full \in BOOLEAN /\ in_full' \in BOOLEAN
      /\ in_reg' = IF TookIn = 1 THEN q(tx_fifo) ELSE in_reg
      /\ TookIn = 1 => ~in_full /\ in_full'
      /\ in_full' => in_full \/ TookIn = 1
      /\ in_full /\ ~in_full' => state \in {"IDLE", "RESTART"} /\ Sends /\ state' = "SHIFTING"
      /\ TookIn \in {0, 1} /\ Sent \in {0, 1} /\ (Sent = 1 <=> ByteDone /\ Sends)
      /\ TookIn = 1 => q(tx_fifo) = Num(sent + OutLen)
      /\ sent \in Nat /\ sent \in Byte /\ Num(sent) = sent /\ Num(Num(sent + 1)) = Num(sent + 1)
  BY TypeFacts, TakesIn, Counts, TxFacts, NumIn
<1>2. /\ (Sends)' = Sends /\ Sends \in BOOLEAN
      /\ OutBit = IF state = "SHIFTING" /\ Sends THEN 1 ELSE 0
      /\ (OutBit)' = IF state' = "SHIFTING" /\ Sends THEN 1 ELSE 0
      /\ OutLen = OutBit + (IF in_full THEN 1 ELSE 0)
      /\ (OutLen)' = (OutBit)' + (IF in_full' THEN 1 ELSE 0)
  BY DEF Sends, OutBit, OutLen, One
<1>3. sent' = IF Sent = 1 THEN Num(sent + 1) ELSE sent
  BY <1>1 DEF Clock, Count
<1>4. /\ OutBit = 1 => sr = sent
      /\ in_full => in_reg = Num(sent + OutBit)
  BY DEF TxChain
<1>5. sent + 0 = sent /\ Num(sent + 1) + 0 = Num(sent + 1)
  <2>1. Num(sent + 1) \in Nat
    BY <1>1, NumIn, Constants
  <2> QED BY <1>1, <2>1
<1>6. CASE Begins
  <2>1. /\ state \in {"IDLE", "RESTART"}
        /\ Sends => (state' = "SHIFTING" <=> in_full)
        /\ Sends /\ in_full => sr' = in_reg
        /\ in_full' = (~(Sends /\ in_full) /\ (in_full \/ shifter_tx_wr_req))
    BY <1>6, ModeFacts DEF Begins, Begin
  <2>2. OutBit = 0 /\ Sent = 0 /\ sent' = sent
    BY <1>1, <1>2, <1>3, <2>1, ModeFacts
  <2>3. CASE Sends /\ in_full
    <3>0. ~in_full'
      BY <2>1, <2>3, Zenon
    <3>1. (OutBit)' = 1 /\ (OutLen)' = 1 /\ OutLen = 1 /\ TookIn = 0 /\ ~in_full'
      BY <1>1, <1>2, <2>1, <2>2, <2>3, <3>0
    <3>2. sr' = sent
      BY <1>1, <1>4, <1>5, <2>1, <2>2, <2>3
    <3> QED BY <1>3, <2>2, <3>1, <3>2
  <2>4. CASE ~(Sends /\ in_full)
    <3>1. (OutBit)' = 0 /\ (in_full' <=> in_full \/ TookIn = 1)
      BY <1>1, <1>2, <2>1, <2>4
    <3>2. (OutLen)' = OutLen + TookIn
      BY <1>1, <1>2, <2>2, <3>1
    <3>3. in_full' => in_reg' = Num(sent + 0)
      <4>1. CASE in_full
        BY <1>1, <1>4, <2>2, <4>1
      <4>2. CASE ~in_full
        BY <1>1, <1>2, <2>2, <4>2
      <4> QED BY <1>1, <4>1, <4>2
    <3> QED BY <1>1, <1>2, <1>3, <2>2, <3>1, <3>2, <3>3
  <2> QED BY <2>3, <2>4
<1>7. CASE Shifts /\ ~ByteDone
  <2>1. state = "SHIFTING" /\ state' = state /\ sr' = sr
    BY <1>7 DEF Shifts, Shift, ByteDone
  <2>2. Sent = 0 /\ sent' = sent /\ (OutBit)' = OutBit /\ OutBit \in {0, 1}
    BY <1>1, <1>2, <1>3, <1>7, <2>1
  <2>3. in_full' <=> in_full \/ TookIn = 1
    BY <1>1, <2>1
  <2>4. (OutLen)' = OutLen + TookIn
    BY <1>1, <1>2, <2>2, <2>3
  <2>5. in_full' => in_reg' = Num(sent + OutBit)
    <3>1. CASE in_full
      BY <1>1, <1>4, <2>2, <3>1
    <3>2. CASE ~in_full
      <4>1. OutLen = OutBit
        BY <1>2, <2>2, <3>2
      <4> QED BY <1>1, <2>3, <3>2, <4>1
    <3> QED BY <1>1, <3>1, <3>2
  <2> QED BY <1>1, <1>2, <1>3, <1>4, <2>1, <2>2, <2>4, <2>5
<1>8. CASE Shifts /\ ByteDone
  <2>1. state = "SHIFTING" /\ state' # "SHIFTING"
    BY <1>8 DEF Shifts, Shift, ByteDone
  <2>2. (OutBit)' = 0 /\ OutBit = Sent
    BY <1>1, <1>2, <1>8, <2>1
  <2>3. in_full' <=> in_full \/ TookIn = 1
    BY <1>1, <2>1
  <2>4. (OutLen)' = OutLen + TookIn - Sent
    BY <1>1, <1>2, <2>2, <2>3
  <2>5. in_full' => in_reg' = Num(sent + OutBit)
    <3>1. CASE in_full
      BY <1>1, <1>4, <2>2, <3>1
    <3>2. CASE ~in_full
      <4>1. OutLen = OutBit
        BY <1>1, <1>2, <2>2, <3>2
      <4> QED BY <1>1, <2>3, <3>2, <4>1
    <3> QED BY <1>1, <3>1, <3>2
  <2>6. Num(sent + OutBit) = Num(sent' + (OutBit)')
    <3>1. CASE Sent = 1
      BY <1>1, <1>3, <1>5, <2>2, <3>1
    <3>2. CASE Sent = 0
      BY <1>1, <1>3, <1>5, <2>2, <3>2
    <3> QED BY <1>1, <3>1, <3>2
  <2> QED BY <1>1, <1>3, <2>2, <2>4, <2>5, <2>6
<1>9. CASE Unloads
  <2>1. state = "UNLOAD" /\ state' # "SHIFTING"
    BY <1>9 DEF Unloads, Unload
  <2>2. OutBit = 0 /\ (OutBit)' = 0 /\ Sent = 0 /\ sent' = sent
    BY <1>1, <1>2, <1>3, <2>1, ModeFacts
  <2>3. in_full' <=> in_full \/ TookIn = 1
    BY <1>1, <2>1
  <2>4. (OutLen)' = OutLen + TookIn
    BY <1>1, <1>2, <2>2, <2>3
  <2>5. in_full' => in_reg' = Num(sent + 0)
    <3>1. CASE in_full
      BY <1>1, <1>4, <2>2, <3>1
    <3>2. CASE ~in_full
      BY <1>1, <1>2, <2>2, <3>2
    <3> QED BY <1>1, <3>1, <3>2
  <2> QED BY <1>1, <1>2, <1>3, <2>2, <2>4, <2>5
<1>10. Begins \/ Shifts \/ Unloads
  BY DEF Clock
<1> QED BY <1>6, <1>7, <1>8, <1>9, <1>10

LEMMA RxShifts ==
  ASSUME SdPathTypeOK, RxChain, Clock
  PROVE  /\ out_full' \in BOOLEAN /\ (InLen)' = InLen + Came - Gave
         /\ card_next' = IF Came = 1 THEN Num(card_next + 1) ELSE card_next
         /\ out_full' => out_reg' = Num(Base + rx_len + Gave)
         /\ state' = "UNLOAD" => sr' = Num(Base + rx_len + Gave + One(out_full'))
<1> DEFINE p == Base + rx_len
<1>1. /\ out_full \in BOOLEAN /\ rx_fifo_wr_req \in BOOLEAN
      /\ Gave \in {0, 1} /\ (Gave = 0 <=> ~rx_fifo_wr_req) /\ (Gave = 1 => out_full)
      /\ Came \in {0, 1} /\ (Came = 1 <=> ByteDone /\ Receives)
      /\ p \in Nat /\ card_next \in Nat /\ Num(card_next) = card_next
  BY TypeFacts, Counts, RxFacts, NumIn DEF rx_fifo_wr_req
<1>2. /\ InLen = (IF state = "UNLOAD" THEN 1 ELSE 0) + (IF out_full THEN 1 ELSE 0)
      /\ (InLen)' = (IF state' = "UNLOAD" THEN 1 ELSE 0) + (IF out_full' THEN 1 ELSE 0)
      /\ One(out_full') = (IF out_full' THEN 1 ELSE 0)
  BY DEF InLen, One
<1>3. card_next' = IF Came = 1 THEN Num(card_next + 1) ELSE card_next
  BY <1>1 DEF Clock, Count
<1>4. /\ out_full => out_reg = Num(p)
      /\ state = "UNLOAD" => sr = Num(p + (IF out_full THEN 1 ELSE 0))
      /\ card_next = Num(p + InLen)
  BY DEF RxChain, One
<1> HIDE DEF p
<1>5. p + 0 = p /\ p + 0 + 1 = p + 1 /\ p + 1 + 0 = p + 1
  BY <1>1
<1>6. CASE Begins
  <2>1. /\ state \in {"IDLE", "RESTART"} /\ state' \in {"IDLE", "SHIFTING"}
        /\ out_full' = (out_full /\ ~rx_fifo_wr_req) /\ out_reg' = out_reg
    BY <1>6 DEF Begins, Begin
  <2>2. Came = 0
    BY <1>1, <2>1, ModeFacts
  <2>3. out_full' \in BOOLEAN /\ (out_full' <=> out_full /\ Gave = 0)
    <3>1. out_full' \in BOOLEAN /\ (out_full' <=> out_full /\ ~rx_fifo_wr_req)
      BY <2>1, Zenon
    <3> QED BY <1>1, <3>1
  <2>4. (InLen)' = InLen + Came - Gave
    BY <1>1, <1>2, <2>1, <2>2, <2>3
  <2>5. out_full' => out_reg' = Num(p + Gave)
    BY <1>4, <1>5, <2>1, <2>3
  <2> QED BY <1>3, <2>1, <2>3, <2>4, <2>5 DEF p
<1>7. CASE Shifts
  <2>1. /\ state = "SHIFTING"
        /\ state' = IF ByteDone THEN IF mode \in {"RX", "BOTH"} THEN "UNLOAD" ELSE "RESTART" ELSE state
        /\ ByteDone => sr' = miso
        /\ out_full' = (out_full /\ ~rx_fifo_wr_req) /\ out_reg' = out_reg
    BY <1>7 DEF Shifts, Shift, ByteDone
  <2>2. state' = "UNLOAD" <=> Came = 1
    BY <1>1, <2>1 DEF Receives
  <2>3. out_full' \in BOOLEAN /\ (out_full' <=> out_full /\ Gave = 0)
    <3>1. out_full' \in BOOLEAN /\ (out_full' <=> out_full /\ ~rx_fifo_wr_req)
      BY <2>1, Zenon
    <3> QED BY <1>1, <3>1
  <2>4. (InLen)' = InLen + Came - Gave
    BY <1>1, <1>2, <2>1, <2>2, <2>3
  <2>5. out_full' => out_reg' = Num(p + Gave)
    BY <1>4, <1>5, <2>1, <2>3
  <2>6. state' = "UNLOAD" => sr' = Num(p + Gave + One(out_full'))
    <3>1. p + InLen = p + Gave + One(out_full')
      BY <1>1, <1>2, <2>1, <2>3
    <3>2. state' = "UNLOAD" => sr' = card_next
      BY <1>1, <2>1, <2>2 DEF miso
    <3> QED BY <1>4, <3>1, <3>2
  <2> QED BY <1>3, <2>3, <2>4, <2>5, <2>6 DEF p
<1>8. CASE Unloads
  <2>1. /\ state = "UNLOAD" /\ sr' = sr
        /\ out_full => state' = state /\ out_reg' = out_reg /\ out_full' = ~rx_fifo_wr_req
        /\ ~out_full => out_reg' = sr /\ out_full' = TRUE /\ state' = "RESTART"
    BY <1>8 DEF Unloads, Unload
  <2>2. Came = 0
    BY <1>1, <2>1, ModeFacts
  <2>3. CASE out_full
    <3>1. out_full' \in BOOLEAN /\ (out_full' <=> Gave = 0) /\ state' = "UNLOAD" /\ out_reg' = out_reg
      <4>1. out_full' \in BOOLEAN /\ (out_full' <=> ~rx_fifo_wr_req)
        BY <2>1, <2>3, Zenon
      <4> QED BY <1>1, <2>1, <2>3, <4>1
    <3>2. (InLen)' = InLen + Came - Gave
      BY <1>1, <1>2, <2>1, <2>2, <2>3, <3>1
    <3>3. out_full' => out_reg' = Num(p + Gave)
      BY <1>4, <1>5, <2>3, <3>1
    <3>4. sr' = Num(p + Gave + One(out_full'))
      <4>1. p + 1 = p + Gave + One(out_full')
        BY <1>1, <1>2, <3>1
      <4>2. sr' = Num(p + 1)
        BY <1>4, <2>1, <2>3
      <4> QED BY <4>1, <4>2
    <3> QED BY <1>3, <3>1, <3>2, <3>3, <3>4 DEF p
  <2>4. CASE ~out_full
    <3>1. out_full' \in BOOLEAN /\ out_full' /\ Gave = 0 /\ state' = "RESTART"
      BY <1>1, <2>1, <2>4
    <3>2. (InLen)' = InLen + Came - Gave
      BY <1>1, <1>2, <2>1, <2>2, <2>4, <3>1
    <3>3. out_reg' = Num(p + Gave)
      <4>1. out_reg' = sr /\ sr = Num(p + 0)
        BY <1>4, <2>1, <2>4
      <4> QED BY <1>5, <3>1, <4>1
    <3> QED BY <1>3, <3>1, <3>2, <3>3 DEF p
  <2> QED BY <2>3, <2>4
<1> QED BY <1>6, <1>7, <1>8 DEF Clock

-----------------------------------------------------------------------------
(* Commands, and what the driver has in hand.                              *)

LEMMA ControlStep ==
  ASSUME SdPathTypeOK, StrobesTimed, Clock
  PROVE  /\ clk_div' \in ClkDivs /\ mode' \in Modes
         /\ mode' = IF Commanded THEN op.mode ELSE mode
         /\ new_rx_length' = IF Commanded THEN op.len ELSE new_rx_length
         /\ set_rx_length' \in BOOLEAN /\ (set_rx_length' <=> Commanded)
         /\ new_rx_length' \in Nat
         /\ Commanded => s = "S6" /\ ~op.rw /\ ~DataWritten /\ op.len \in Nat /\ op.mode \in Modes
         /\ Commanded => IF op.mode = "RX" THEN op.len >= 1 ELSE op.len = 0
<1>1. /\ wr_strobe <=> s = "S6" /\ ~op.rw
      /\ wr_strobe \in BOOLEAN
  BY Strobes
<1>2. /\ op \in Ops /\ op.mode \in Modes /\ op.len \in Nat /\ op.rw \in BOOLEAN
      /\ op.reg \in {"SHIFT_CTRL", "CLKDIV"} => ~op.rw
      /\ op.reg = "SHIFT_CTRL" => IF op.mode = "RX" THEN op.len >= 1 ELSE op.len = 0
      /\ op.reg = "CLKDIV" => op.len \in ClkDivs
  BY BusTypes, OpFacts
<1>3. clk_div \in ClkDivs /\ mode \in Modes /\ new_rx_length \in Nat
  BY TypeFacts
<1>4. /\ Commanded \in BOOLEAN /\ (Commanded <=> wr_strobe /\ op.reg = "SHIFT_CTRL")
      /\ Commanded => ~DataWritten /\ s = "S6"
  BY <1>1, <1>2 DEF Commanded, DataWritten
<1>5. /\ clk_div' = IF wr_strobe /\ op.reg = "CLKDIV" THEN op.len ELSE clk_div
      /\ mode' = IF wr_strobe /\ op.reg = "SHIFT_CTRL" THEN op.mode ELSE mode
      /\ new_rx_length' = IF wr_strobe /\ op.reg = "SHIFT_CTRL" THEN op.len ELSE new_rx_length
      /\ set_rx_length' = (wr_strobe /\ op.reg = "SHIFT_CTRL")
  BY DEF Clock, CardClock, ControlClock
<1>6. set_rx_length' \in BOOLEAN /\ (set_rx_length' <=> Commanded)
  BY <1>4, <1>5
<1>7. /\ mode' = IF Commanded THEN op.mode ELSE mode
      /\ new_rx_length' = IF Commanded THEN op.len ELSE new_rx_length
  BY <1>4, <1>5
<1>8. clk_div' \in ClkDivs
  BY <1>2, <1>3, <1>5
<1>9. /\ Commanded => ~op.rw
      /\ Commanded => IF op.mode = "RX" THEN op.len >= 1 ELSE op.len = 0
  BY <1>2 DEF Commanded
<1> QED BY <1>2, <1>3, <1>4, <1>6, <1>7, <1>8, <1>9

(* A command comes when all is done and read, and nothing moves with it.   *)
LEMMA Quiet ==
  ASSUME SdPathTypeOK, TxChain, Done
  PROVE  /\ OutLen = 0 /\ OutBit = 0 /\ tx_len = 0 /\ ~in_full /\ empty(tx_fifo) /\ TookIn = 0
         /\ Sent = 0 /\ Came = 0 /\ ~ByteDone
<1>1. OutLen + tx_len = 0 /\ OutLen \in Nat /\ tx_len \in Nat /\ state = "IDLE"
      /\ OutBit \in {0, 1} /\ in_full \in BOOLEAN
  BY Counts, TxFacts, TypeFacts DEF Done, TxChain
<1>2. OutLen = 0 /\ tx_len = 0
  BY <1>1
<1>3. OutBit = 0 /\ ~in_full
  BY <1>1, <1>2 DEF OutLen, One
<1>4. empty(tx_fifo)
  BY <1>2, TxFacts
<1>5. ~ByteDone
  BY <1>1, ModeFacts
<1> QED BY <1>2, <1>3, <1>4, <1>5, Counts

(* Done stays done but for a write or a command.                           *)
LEMMA DoneStays ==
  ASSUME SdPathTypeOK, TxChain, Counted, Clock, Done, ~set_rx_length, ~DataWritten
  PROVE  /\ state' = "IDLE" /\ in_full' = FALSE /\ pending' = 0
         /\ ~Commanded => due' = 0
<1>1. /\ ~in_full /\ TookIn = 0 /\ ~ByteDone /\ state = "IDLE" /\ pending = 0 /\ due = 0
      /\ in_full \in BOOLEAN
  BY Quiet, TypeFacts DEF Done
<1>2. shifter_tx_wr_req = FALSE
  BY <1>1, Counts DEF shifter_tx_wr_req
<1>3. mode = "RX" => rx_length = 0
  BY <1>1, TypeFacts DEF Counted, One
<1>4. Begins
  BY <1>1 DEF Clock, Shifts, Shift, Unloads, Unload
<1>5. state' = "IDLE" /\ in_full' = FALSE
  BY <1>1, <1>2, <1>3, <1>4 DEF Begins, Begin
<1>6. pending' = 0
  <2>1. pending' = 0 + 0 - 0
    BY <1>1 DEF Clock, Driver
  <2> QED BY <2>1
<1>7. ~Commanded => due' = 0
  BY <1>1 DEF Clock, Driver
<1> QED BY <1>5, <1>6, <1>7

-----------------------------------------------------------------------------
(* The two chains of bytes, one clock on.                                  *)

LEMMA HoldsSame ==
  ASSUME NEW f, FifoOK(f), NEW a \in Nat, NEW b \in Nat,
         \A k \in Nat : Num(a + k) = Num(b + k), Holds(f, a)
  PROVE  Holds(f, b)
<1>1. length(f) \in Nat
  BY FifoFacts, Depth
<1>2. \A k \in 0..length(f)-1 : k \in Nat
  BY <1>1
<1> QED BY <1>2 DEF Holds

LEMMA BufSame ==
  ASSUME NEW c, NEW a \in Nat, NEW b \in Nat,
         \A k \in Nat : Num(a + k) = Num(b + k), BufOK(c, a)
  PROVE  BufOK(c, b)
<1>1. Num(a) = Num(b) /\ Num(a + 1) = Num(b + 1)
  <2>1. Num(a + 0) = Num(b + 0) /\ Num(a + 1) = Num(b + 1) /\ a + 0 = a /\ b + 0 = b
    OBVIOUS
  <2> QED BY <2>1
<1> QED BY <1>1 DEF BufOK

LEMMA CommandedDone ==
  ASSUME IInv, Commanded
  PROVE  Done /\ unread = 0 /\ ~set_rx_length /\ ~DataWritten /\ ~DataRead /\ s = "S6"
BY DEF IInv, Commanded, OpAllowed, Within, Drained, Counted, DataWritten, DataRead

LEMMA TxChainStep ==
  ASSUME IInv, Clock
  PROVE  TxChain'
<1> USE DEF IInv
<1>1. /\ tx_cb' \in BufStates /\ FifoOK(tx_fifo')
      /\ (tx_len)' = tx_len + Put - TookIn
      /\ Holds(tx_fifo', sent + OutLen + TookIn)
      /\ BufOK(tx_cb', sent + OutLen + TookIn + length(tx_fifo'))
  BY TxClockStep
<1>2. /\ sent \in Nat /\ sent \in Byte /\ OutLen \in Nat /\ TookIn \in {0, 1} /\ Sent \in {0, 1}
      /\ Put \in 0..2 /\ tx_len \in Nat /\ tx_next \in Nat /\ tx_next \in Byte
      /\ Sent = 1 <=> ByteDone /\ Sends
  BY Counts, TxFacts
<1>3. /\ (tx_len)' = length(tx_fifo') + buf_len(tx_cb') /\ length(tx_fifo') \in Nat
      /\ (tx_len)' \in Nat
  <2>1. length(tx_fifo') \in Nat
    BY <1>1, FifoFacts, Depth
  <2>2. buf_len(tx_cb') \in Nat
    BY <1>1, BufFacts
  <2> QED BY <2>1, <2>2 DEF tx_len
<1>4. pending' = pending + Put - Sent
  <2>1. pending' = pending + (IF DataWritten THEN Bytes(op) ELSE 0)
                           - (IF ByteDone /\ Sends THEN 1 ELSE 0)
    BY DEF Clock, Driver
  <2> QED BY <2>1 DEF Put, Sent, One
<1>5. /\ pending = OutLen + tx_len /\ (~Sends => pending = 0)
      /\ tx_next = Num(sent + OutLen + tx_len)
  BY DEF TxChain
<1>6. tx_next' = Num(sent + OutLen + tx_len + Put)
  <2>1. CASE DataWritten
    <3>1. tx_next' = Num(tx_next + Bytes(op)) /\ Put = Bytes(op)
      BY <2>1 DEF Clock, Driver, Put
    <3>2. sent + OutLen + tx_len \in Nat /\ Bytes(op) \in Nat
      BY <1>2, <3>1
    <3> QED BY <1>5, <3>1, <3>2, NumAdd
  <2>2. CASE ~DataWritten
    <3>1. tx_next' = tx_next /\ Put = 0
      BY <2>2 DEF Clock, Driver, Put
    <3>2. sent + OutLen + tx_len + Put = sent + OutLen + tx_len
      BY <1>2, <3>1
    <3> QED BY <1>5, <3>1, <3>2
  <2> QED BY <2>1, <2>2
<1>7. tx_next' \in Byte
  <2>1. sent + OutLen + tx_len + Put \in Nat
    BY <1>2
  <2> QED BY <1>6, <2>1, NumIn
<1>8. CASE Commanded
  <2>1. Done /\ ~set_rx_length /\ ~DataWritten /\ s = "S6"
    BY <1>8, CommandedDone
  <2>2. state' = "IDLE" /\ in_full' = FALSE /\ pending' = 0
    BY <2>1, DoneStays
  <2>3. OutLen = 0 /\ OutBit = 0 /\ tx_len = 0 /\ TookIn = 0 /\ Sent = 0 /\ ~ByteDone
    BY <2>1, Quiet
  <2>4. (OutBit)' = 0 /\ (OutLen)' = 0
    BY <2>2 DEF OutBit, OutLen, One
  <2>5. sent' = sent /\ Put = 0
    BY <2>1, <2>3 DEF Clock, Count, Put
  <2>6. (tx_len)' = 0 /\ sent' + (OutLen)' = sent + OutLen + TookIn
        /\ sent' + (OutLen)' + (tx_len)' = sent + OutLen + tx_len + Put
        /\ pending' = (OutLen)' + (tx_len)'
    BY <1>1, <1>2, <2>2, <2>3, <2>4, <2>5
  <2>7. /\ Holds(tx_fifo', sent' + (OutLen)')
        /\ BufOK(tx_cb', sent' + (OutLen)' + length(tx_fifo'))
    BY <1>1, <2>6
  <2>8. tx_next' = Num(sent' + (OutLen)' + (tx_len)')
    BY <1>6, <2>6
  <2> QED BY <1>1, <1>2, <1>7, <2>2, <2>4, <2>5, <2>6, <2>7, <2>8 DEF TxChain
<1>9. CASE ~Commanded
  <2>1. mode' = mode
    BY <1>9, ControlStep
  <2>2. /\ (OutLen)' = OutLen + TookIn - Sent
        /\ sent' = IF Sent = 1 THEN Num(sent + 1) ELSE sent
        /\ (OutBit)' = 1 => sr' = sent'
        /\ in_full' => in_reg' = Num(sent' + (OutBit)')
    BY <2>1, TxShifts
  <2>3. (OutLen)' \in Nat
    <3>1. (OutBit)' \in {0, 1}
      BY <2>1, TxShifts
    <3>2. (OutLen)' = (OutBit)' + (IF in_full' THEN 1 ELSE 0)
      BY DEF OutLen, One
    <3> DEFINE x == (OutBit)'  y == IF in_full' THEN 1 ELSE 0
    <3>3. x \in Int /\ x >= 0 /\ y \in Int /\ y >= 0
      BY <3>1
    <3> HIDE DEF x, y
    <3>4. x + y \in Nat
      BY <3>3
    <3> QED BY <3>2, <3>4 DEF x, y
  <2>4. sent' \in Nat /\ sent' \in Byte
    <3>1. sent + 1 \in Nat
      BY <1>2
    <3> QED BY <1>2, <2>2, <3>1, NumIn, Constants
  <2> DEFINE a == sent + OutLen + TookIn
             b == sent' + (OutLen)'
  <2>5. a \in Nat /\ b \in Nat
    <3>1. sent + OutLen \in Nat /\ TookIn \in Nat
      BY <1>2
    <3>2. sent + OutLen + TookIn \in Nat
      BY <3>1
    <3> DEFINE x == sent'  y == (OutLen)'
    <3>x. x \in Nat /\ y \in Nat
      BY <2>3, <2>4
    <3> HIDE DEF x, y
    <3>y. x + y \in Nat
      BY <3>x
    <3>3. sent' + (OutLen)' \in Nat
      BY <3>y DEF x, y
    <3> QED BY <3>2, <3>3
  <2>6. ASSUME NEW k \in Nat PROVE Num(a + k) = Num(b + k)
    <3>1. CASE Sent = 1
      <4>1. a + k = (sent + 1) + ((OutLen)' + k) /\ (OutLen)' + k \in Nat
        BY <1>2, <2>2, <2>3, <3>1
      <4>2. b + k = Num(sent + 1) + ((OutLen)' + k)
        BY <2>2, <2>3, <2>4, <3>1
      <4>3. sent + 1 \in Nat
        BY <1>2
      <4> HIDE DEF a, b
      <4> QED BY <4>1, <4>2, <4>3, NumAdd
    <3>2. CASE Sent = 0
      <4>1. a + k = b + k
        BY <1>2, <2>2, <2>3, <3>2
      <4> QED BY <4>1
    <3> QED BY <1>2, <3>1, <3>2
  <2>7. Holds(tx_fifo', b)
    <3> HIDE DEF a, b
    <3>1. Holds(tx_fifo', a)
      BY <1>1 DEF a
    <3> QED BY <1>1, <2>5, <2>6, <3>1, HoldsSame
  <2>8. BufOK(tx_cb', b + length(tx_fifo'))
    <3> DEFINE l == length(tx_fifo')  c == a + l  d == b + l
    <3>1. l \in Nat /\ c \in Nat /\ d \in Nat
      BY <1>3, <2>5
    <3>2. ASSUME NEW k \in Nat PROVE Num(c + k) = Num(d + k)
      <4> HIDE DEF l, a, b
      <4>1. l + k \in Nat /\ c + k = a + (l + k) /\ d + k = b + (l + k)
        BY <2>5, <3>1
      <4> HIDE DEF c, d
      <4> QED BY <2>6, <4>1
    <3>3. BufOK(tx_cb', c)
      BY <1>1
    <3> HIDE DEF c, d
    <3>4. BufOK(tx_cb', d)
      BY <3>1, <3>2, <3>3, BufSame
    <3> QED BY <3>4 DEF d
  <2>9. tx_next' = Num(b + (tx_len)')
    <3>1. a + (tx_len)' = sent + OutLen + tx_len + Put
      BY <1>1, <1>2
    <3> HIDE DEF a, b
    <3>2. Num(a + (tx_len)') = Num(b + (tx_len)')
      BY <1>3, <2>6
    <3> QED BY <1>6, <3>1, <3>2
  <2>10. pending' = (OutLen)' + (tx_len)'
    BY <1>1, <1>2, <1>4, <1>5, <2>2
  <2>11. ~(Sends)' => pending' = 0
    <3>1. (Sends)' <=> Sends
      BY <2>1 DEF Sends
    <3>2. ~Sends => Put = 0 /\ Sent = 0
      BY <1>2, WriteFits DEF Put
    <3> QED BY <1>4, <1>5, <3>1, <3>2
  <2> QED BY <1>1, <1>7, <2>2, <2>4, <2>7, <2>8, <2>9, <2>10, <2>11 DEF TxChain
<1> QED BY <1>8, <1>9

(* Where the core has got to, one clock on.                                *)
LEMMA BaseStep ==
  ASSUME IInv, Clock
  PROVE  /\ want' \in Nat /\ want' \in Byte /\ (Base)' \in Nat /\ (Taken)' \in 0..2
         /\ (Taken)' = Taken + Got - (IF DataRead THEN Bytes(op) ELSE 0)
         /\ \A k \in Nat : Num(Base + Got + k) = Num((Base)' + k)
<1> DEFINE tk == (Taken)'  w == want'
<1>1. Moves /\ s \in States /\ op \in Ops
  BY BusMoves, BusTypes DEF IInv
<1>2. /\ want \in Nat /\ want \in Byte /\ Base \in Nat /\ Base = want + Taken
      /\ Taken \in 0..2 /\ Got \in 0..2 /\ Bytes(op) \in 1..2
  BY RxFacts, Counts DEF IInv, Base
<1>3. want' = IF DataRead THEN Num(want + Bytes(op)) ELSE want
  BY DEF Clock, Driver
<1>4. /\ Got = IF s = "S4" /\ Reading THEN Bytes(op) ELSE 0
      /\ Taken = IF s \in {"S5", "S6"} /\ Reading THEN Bytes(op) ELSE 0
      /\ DataRead <=> s = "S6" /\ Reading
  BY DEF Got, Taken, DataRead, Reading
<1>5. s' \in {"S5", "S6"} <=> s \in {"S4", "S5"}
  BY BusCameFrom DEF IInv
<1>6. op' = op => (Bytes(op)' = Bytes(op) /\ ((Reading)' <=> Reading))
  BY DEF Bytes, Reading
<1>7. s \in {"S4", "S5"} => op' = op
  BY <1>1 DEF Moves
<1>8. tk = IF s \in {"S4", "S5"} /\ Reading THEN Bytes(op) ELSE 0
  <2>1. tk = IF s' \in {"S5", "S6"} /\ (Reading)' THEN Bytes(op)' ELSE 0
    BY DEF Taken
  <2> HIDE DEF tk
  <2> QED BY <1>5, <1>6, <1>7, <2>1
<1>9. (Base)' = w + tk
  BY DEF Base
<1> HIDE DEF tk, w
<1>10. tk = Taken + Got - (IF DataRead THEN Bytes(op) ELSE 0) /\ tk \in 0..2
  BY <1>2, <1>4, <1>8
<1>11. w \in Nat /\ w \in Byte
  <2>1. want + Bytes(op) \in Nat
    BY <1>2
  <2>2. Num(want + Bytes(op)) \in Byte /\ Num(want + Bytes(op)) \in Nat
    BY <2>1, NumIn, Constants
  <2> QED BY <1>2, <1>3, <2>2 DEF w
<1>12. w + tk \in Nat
  BY <1>10, <1>11
<1>13. ASSUME NEW k \in Nat PROVE Num(Base + Got + k) = Num(w + tk + k)
  <2>1. CASE DataRead
    <3>1. tk = 0 /\ Got = 0 /\ Taken = Bytes(op)
      BY <1>4, <1>8, <2>1
    <3>2. w = Num(Base)
      BY <1>2, <1>3, <2>1, <3>1 DEF w
    <3>3. Base + Got + k = Base + k /\ w + tk + k = w + k
      BY <1>2, <1>11, <3>1
    <3>4. Num(Num(Base) + k) = Num(Base + k)
      BY <1>2, NumAdd
    <3> QED BY <3>2, <3>3, <3>4
  <2>2. CASE ~DataRead
    <3>1. w = want
      BY <1>3, <2>2 DEF w
    <3>2. tk = Taken + Got
      BY <1>2, <1>10, <2>2
    <3>3. Base + Got + k = w + tk + k
      BY <1>2, <3>1, <3>2
    <3> QED BY <3>3
  <2> QED BY <2>1, <2>2
<1> QED BY <1>9, <1>10, <1>11, <1>12, <1>13 DEF w, tk

LEMMA LatchStep ==
  ASSUME IInv, Clock, s' \in {"S5", "S6"}, (Reading)'
  PROVE  /\ DATA_OUT'[1] = "data" /\ DATA_OUT'[2] = want'
         /\ op'.word => DATA_OUT'[3] = Num(want' + 1)
<1>1. Moves /\ s \in States /\ op \in Ops
  BY BusMoves, BusTypes DEF IInv
<1>2. s \in {"S4", "S5"} /\ op' = op
  BY BusCameFrom DEF IInv
<1>3. Reading /\ op.rw /\ op.reg = "DATA"
  BY <1>2 DEF Reading
<1>4. want' = want
  BY <1>2 DEF Clock, Driver, DataRead
<1>5. rd_strobe <=> s = "S4"
  BY <1>2, <1>3, Strobes DEF IInv
<1>6. CASE s = "S4"
  <2>1. DATA_OUT' = <<"data", rx_cb.u, rx_cb.l>>
    BY <1>3, <1>5, <1>6 DEF Clock, CardClock, ReadLatch
  <2>2. rx_cb.u_full /\ (op.word => rx_cb.l_full)
    BY <1>3, <1>6, ReadFinds DEF IInv
  <2>3. BufOK(rx_cb, want + 0)
    <3>1. Taken = 0
      BY <1>6 DEF Taken
    <3> QED BY <3>1, RxFacts DEF IInv, Base
  <2>4. want + 0 = want /\ Num(want) = want
    BY RxFacts, NumIn DEF IInv
  <2>5. rx_cb.u = want /\ (op.word => rx_cb.l = Num(want + 1))
    BY <2>2, <2>3, <2>4 DEF BufOK
  <2>6. DATA_OUT'[1] = "data" /\ DATA_OUT'[2] = rx_cb.u /\ DATA_OUT'[3] = rx_cb.l
    BY <2>1
  <2> QED BY <1>2, <1>4, <2>5, <2>6
<1>7. CASE s = "S5"
  <2>1. DATA_OUT' = DATA_OUT
    BY <1>5, <1>7 DEF Clock, CardClock, ReadLatch
  <2>2. /\ DATA_OUT[1] = "data" /\ DATA_OUT[2] = want
        /\ op.word => DATA_OUT[3] = Num(want + 1)
    BY <1>3, <1>7 DEF IInv, RxChain
  <2> QED BY <1>2, <1>4, <2>1, <2>2
<1> QED BY <1>2, <1>6, <1>7

LEMMA RxChainStep ==
  ASSUME IInv, Clock
  PROVE  RxChain'
<1>1. /\ rx_cb' \in BufStates /\ FifoOK(rx_fifo')
      /\ (rx_len)' = rx_len + Gave - Got
      /\ BufOK(rx_cb', Base + Got)
      /\ Holds(rx_fifo', Base + Got + buf_len(rx_cb'))
  BY RxClockStep DEF IInv
<1>2. /\ want' \in Nat /\ want' \in Byte /\ (Base)' \in Nat
      /\ \A k \in Nat : Num(Base + Got + k) = Num((Base)' + k)
  BY BaseStep
<1>3. /\ out_full' \in BOOLEAN /\ (InLen)' = InLen + Came - Gave
      /\ card_next' = IF Came = 1 THEN Num(card_next + 1) ELSE card_next
      /\ out_full' => out_reg' = Num(Base + rx_len + Gave)
      /\ state' = "UNLOAD" => sr' = Num(Base + rx_len + Gave + One(out_full'))
  BY RxShifts DEF IInv
<1>4. /\ Base \in Nat /\ rx_len \in Nat /\ InLen \in 0..2 /\ Got \in 0..2
      /\ Gave \in {0, 1} /\ Came \in {0, 1} /\ card_next \in Nat /\ card_next \in Byte
  BY RxFacts, Counts DEF IInv
<1>5. /\ (rx_len)' = length(rx_fifo') + buf_len(rx_cb') /\ length(rx_fifo') \in Nat
      /\ buf_len(rx_cb') \in Nat /\ (rx_len)' \in Nat
  <2>1. length(rx_fifo') \in Nat
    BY <1>1, FifoFacts, Depth
  <2>2. buf_len(rx_cb') \in Nat
    BY <1>1, BufFacts
  <2> QED BY <2>1, <2>2 DEF rx_len
<1> DEFINE a == Base + Got
           b == (Base)'
           l == (rx_len)'
           bl == buf_len(rx_cb')
           il == (InLen)'
           of == One(out_full')
<1>6. a \in Nat /\ b \in Nat /\ l \in Nat /\ bl \in Nat /\ il \in Nat /\ of \in Nat
  <2>1. il \in Nat
    <3>1. il = One(state' = "UNLOAD") + One(out_full')
      BY DEF InLen
    <3> QED BY <1>3, <3>1 DEF One
  <2>2. of \in Nat
    BY <1>3 DEF One
  <2>3. a \in Nat
    BY <1>4
  <2> QED BY <1>2, <1>5, <2>1, <2>2, <2>3
<1>7. \A k \in Nat : Num(a + k) = Num(b + k)
  BY <1>2
<1>8. /\ Base + rx_len + Gave = a + l
      /\ Base + rx_len + Gave + of = a + (l + of)
      /\ Base + rx_len + InLen + Came = a + (l + il)
  <2>1. l = rx_len + Gave - Got /\ il = InLen + Came - Gave
    BY <1>1, <1>3
  <2> HIDE DEF l, il, of
  <2> QED BY <1>4, <1>6, <2>1
<1>9. card_next' = Num(a + (l + il))
  <2>1. card_next = Num(Base + rx_len + InLen)
    BY DEF IInv, RxChain
  <2> DEFINE x == Base + rx_len + InLen
  <2>2. x \in Nat /\ x + 0 = x
    BY <1>4
  <2>3. card_next' = Num(x + Came)
    <3> HIDE DEF x
    <3>1. Num(Num(x) + 1) = Num(x + 1)
      BY <2>2, NumAdd
    <3>2. card_next = Num(x)
      BY <2>1 DEF x
    <3> QED BY <1>3, <1>4, <2>2, <3>1, <3>2
  <2> QED BY <1>8, <2>3
<1>10. BufOK(rx_cb', b)
  <2>1. BufOK(rx_cb', a)
    BY <1>1
  <2> HIDE DEF a, b
  <2> QED BY <1>6, <1>7, <2>1, BufSame
<1>11. Holds(rx_fifo', b + bl)
  <2> DEFINE c == a + bl  d == b + bl
  <2>1. Holds(rx_fifo', c)
    BY <1>1
  <2> HIDE DEF a, b, bl
  <2>2. c \in Nat /\ d \in Nat
    BY <1>6
  <2>3. ASSUME NEW k \in Nat PROVE Num(c + k) = Num(d + k)
    <3>1. bl + k \in Nat /\ c + k = a + (bl + k) /\ d + k = b + (bl + k)
      BY <1>6
    <3> HIDE DEF c, d
    <3> QED BY <1>7, <3>1
  <2> HIDE DEF c, d
  <2>4. Holds(rx_fifo', d)
    BY <1>1, <2>1, <2>2, <2>3, HoldsSame
  <2> QED BY <2>4 DEF d
<1>12. /\ out_full' => out_reg' = Num(b + l)
       /\ state' = "UNLOAD" => sr' = Num(b + l + of)
       /\ card_next' = Num(b + l + il)
  <2>1. out_full' => out_reg' = Num(a + l)
    BY <1>3, <1>8
  <2>2. state' = "UNLOAD" => sr' = Num(a + (l + of))
    BY <1>3, <1>8
  <2> HIDE DEF a, b, l, of, il
  <2>3. l + of \in Nat /\ l + il \in Nat /\ b + l + of = b + (l + of) /\ b + l + il = b + (l + il)
    BY <1>6
  <2>4. /\ Num(a + l) = Num(b + l) /\ Num(a + (l + of)) = Num(b + (l + of))
        /\ Num(a + (l + il)) = Num(b + (l + il))
    BY <1>6, <1>7, <2>3
  <2> QED BY <1>9, <2>1, <2>2, <2>3, <2>4
<1>13. s' \in {"S5", "S6"} /\ (Reading)' =>
         /\ DATA_OUT'[1] = "data" /\ DATA_OUT'[2] = want'
         /\ op'.word => DATA_OUT'[3] = Num(want' + 1)
  BY LatchStep
<1>14. card_next' \in Byte
  <2>1. l + il \in Nat /\ a + (l + il) \in Nat
    <3> HIDE DEF a, l, il
    <3> QED BY <1>6
  <2> QED BY <1>9, <2>1, NumIn
<1> QED BY <1>1, <1>2, <1>10, <1>11, <1>12, <1>13, <1>14 DEF RxChain

-----------------------------------------------------------------------------
(* What is still to come, one clock on.                                    *)

LEMMA AtRest ==
  ASSUME IInv, Clock, state' # "SHIFTING"
  PROVE  clk_count' = 0 /\ bit_count' = 0 /\ SCLK' = FALSE
<1>1. /\ state # "SHIFTING" => clk_count = 0 /\ bit_count = 0 /\ ~SCLK
      /\ SCLK \in BOOLEAN /\ bit_count \in 0..BITS-1
  BY TypeFacts DEF IInv, Counted
<1>2. CASE Begins \/ Unloads
  <2>1. state # "SHIFTING" /\ clk_count' = clk_count /\ bit_count' = bit_count /\ SCLK' = SCLK
    BY <1>2 DEF Begins, Begin, Unloads, Unload
  <2> QED BY <1>1, <2>1
<1>3. CASE Shifts
  <2>1. ByteDone
    BY <1>3 DEF Shifts, Shift, ByteDone
  <2>2. HalfPeriod(clk_div) /\ SCLK /\ bit_count = BITS - 1
    BY <2>1 DEF ByteDone, LastBit
  <2>3. clk_count' = 0 /\ SCLK' = (SCLK # HalfPeriod(clk_div)) /\ bit_count' = (bit_count + 1) % BITS
    BY <1>3, <2>2 DEF Shifts, Shift
  <2>4. SCLK' = FALSE
    <3>1. SCLK = TRUE /\ HalfPeriod(clk_div) = TRUE
      BY <1>1, <2>2 DEF HalfPeriod
    <3> QED BY <2>3, <3>1
  <2>5. (bit_count + 1) % BITS = 0
    <3>1. BITS \in Nat \ {0} /\ bit_count + 1 = BITS * 1 + 0 /\ 0 \in 0..BITS-1 /\ 1 \in Int
      BY <2>2, Constants
    <3> QED BY <3>1, ModUnique
  <2> QED BY <2>3, <2>4, <2>5
<1> QED BY <1>2, <1>3 DEF Clock

(* A receive command counts down to nothing.                               *)
LEMMA DueStep ==
  ASSUME IInv, Clock, ~Commanded
  PROVE  /\ due' = (IF mode = "RX" THEN due - Came ELSE due) /\ due' \in Nat
         /\ mode = "RX" => /\ rx_length' = due' + One(state' = "UNLOAD")
                           /\ state' = "SHIFTING" => due' >= 1
<1>1. /\ due \in Nat /\ due <= 8191 /\ rx_length \in Nat /\ new_rx_length \in Nat
      /\ Came \in {0, 1} /\ (Came = 1 <=> ByteDone /\ Receives) /\ (ByteDone => state = "SHIFTING")
      /\ set_rx_length \in BOOLEAN
  BY TypeFacts, Counts, ModeFacts DEF IInv, Counted
<1>2. /\ mode = "RX" => IF set_rx_length THEN due = new_rx_length
                        ELSE rx_length = due + One(state = "UNLOAD")
      /\ mode = "RX" /\ state = "SHIFTING" => due >= 1
      /\ mode = "RX" /\ set_rx_length => due >= 1
      /\ set_rx_length => state = "IDLE"
  BY DEF IInv, Counted
<1>3. due' = IF mode = "RX" THEN due - Came ELSE due
  <2>1. due' = IF ByteDone /\ mode = "RX" THEN due - 1 ELSE due
    BY DEF Clock, Driver
  <2>2. mode = "RX" => Receives
    BY DEF Receives
  <2> QED BY <1>1, <2>1, <2>2
<1>4. due' \in Nat
  BY <1>1, <1>2, <1>3
<1>5. ASSUME mode = "RX"
      PROVE  /\ rx_length' = due' + One(state' = "UNLOAD")
             /\ state' = "SHIFTING" => due' >= 1
  <2>1. CASE Begins
    <3>1. /\ state \in {"IDLE", "RESTART"}
          /\ state' = IF rx_length # 0 THEN "SHIFTING" ELSE "IDLE"
          /\ rx_length' = IF state = "IDLE" /\ set_rx_length THEN new_rx_length ELSE rx_length
      BY <1>5, <2>1 DEF Begins, Begin
    <3>2. due' = due /\ One(state' = "UNLOAD") = 0 /\ One(state = "UNLOAD") = 0
      BY <1>1, <1>3, <3>1 DEF One
    <3> QED BY <1>1, <1>2, <1>5, <3>1, <3>2
  <2>2. CASE Shifts
    <3>1. /\ state = "SHIFTING" /\ rx_length' = rx_length
          /\ state' = IF ByteDone THEN "UNLOAD" ELSE "SHIFTING"
      BY <1>5, <2>2 DEF Shifts, Shift, ByteDone
    <3>2. One(state' = "UNLOAD") = Came /\ One(state = "UNLOAD") = 0
      BY <1>1, <1>5, <3>1 DEF One, Receives
    <3> QED BY <1>1, <1>2, <1>3, <1>5, <3>1, <3>2
  <2>3. CASE Unloads /\ out_full
    <3>1. state = "UNLOAD" /\ state' = state /\ rx_length' = rx_length
      BY <2>3 DEF Unloads, Unload
    <3>2. due' = due /\ One(state' = "UNLOAD") = 1 /\ One(state = "UNLOAD") = 1
      BY <1>1, <1>3, <3>1 DEF One
    <3> QED BY <1>1, <1>2, <1>5, <3>1, <3>2
  <2>4. CASE Unloads /\ ~out_full
    <3>1. state = "UNLOAD" /\ state' = "RESTART" /\ rx_length' = (rx_length - 1) % 8192
      BY <1>5, <2>4 DEF Unloads, Unload
    <3>2. due' = due /\ One(state' = "UNLOAD") = 0 /\ One(state = "UNLOAD") = 1
      BY <1>1, <1>3, <3>1 DEF One
    <3>3. rx_length - 1 = due
      BY <1>1, <1>2, <1>5, <3>1, <3>2
    <3>4. due % 8192 = due
      BY <1>1
    <3> QED BY <1>1, <3>1, <3>2, <3>3, <3>4
  <2> QED BY <2>1, <2>2, <2>3, <2>4 DEF Clock
<1> QED BY <1>3, <1>4, <1>5

LEMMA UnloadReceives ==
  ASSUME IInv, Clock, state' = "UNLOAD"
  PROVE  Receives
<1>1. CASE Begins
  BY <1>1 DEF Begins, Begin
<1>2. CASE Shifts
  <2>1. state = "SHIFTING"
    BY <1>2 DEF Shifts, Shift
  <2> QED BY <1>2, <2>1 DEF Shifts, Shift, Receives
<1>3. CASE Unloads
  BY <1>3 DEF Unloads, Unload, IInv, Counted
<1> QED BY <1>1, <1>2, <1>3 DEF Clock

(* What the driver is still to read.                                       *)
LEMMA UnreadStep ==
  ASSUME IInv, Clock
  PROVE  unread' = (Taken)' + (Awaited)' + (InLen)' + (rx_len)'
<1> DEFINE tk == (Taken)'  aw == (Awaited)'  il == (InLen)'  l == (rx_len)'  u == unread'
           got == IF DataRead THEN Bytes(op) ELSE 0
<1>1. /\ Taken \in 0..2 /\ InLen \in 0..2 /\ rx_len \in Nat /\ unread \in Nat
      /\ Got \in 0..2 /\ Put \in 0..2 /\ Gave \in {0, 1} /\ Came \in {0, 1} /\ Sent \in {0, 1}
      /\ Bytes(op) \in 1..2 /\ due \in Nat /\ pending \in Nat
      /\ Came = 1 <=> ByteDone /\ Receives
      /\ Sent = 1 <=> ByteDone /\ Sends
  BY Counts, RxFacts, TypeFacts DEF IInv
<1>2. unread = Taken + Awaited + InLen + rx_len
  BY DEF IInv, Counted
<1>3. tk = Taken + Got - got
  BY BaseStep
<1>4. il = InLen + Came - Gave
  BY RxShifts DEF IInv
<1>5. l = rx_len + Gave - Got
  BY RxClockStep DEF IInv
<1>6. Awaited \in Nat /\ Awaited = IF mode = "RX" THEN due ELSE IF mode = "BOTH" THEN pending ELSE 0
  BY <1>1 DEF Awaited
<1>7. got \in 0..2
  BY <1>1
<1>8. CASE Commanded
  <2>1. Done /\ unread = 0 /\ ~set_rx_length /\ ~DataWritten /\ ~DataRead /\ s = "S6"
    BY <1>8, CommandedDone
  <2>2. Taken = 0 /\ Awaited = 0 /\ InLen = 0 /\ rx_len = 0
    BY <1>1, <1>2, <1>6, <2>1
  <2>3. Came = 0 /\ Got = 0 /\ got = 0
    BY <2>1, Quiet DEF IInv, Got
  <2>4. Gave = 0
    <3>1. ~out_full
      BY <2>2, TypeFacts DEF IInv, InLen, One
    <3> QED BY <1>1, <3>1, Counts DEF IInv
  <2>5. u = op.len
    BY <1>8 DEF Clock, Driver
  <2>6. aw = op.len
    <3>1. mode' = op.mode /\ (IF op.mode = "RX" THEN op.len >= 1 ELSE op.len = 0)
      BY <1>8, ControlStep DEF IInv
    <3>2. due' = op.len
      BY <1>8 DEF Clock, Driver
    <3>3. pending' = 0
      BY <2>1, DoneStays DEF IInv
    <3> QED BY <3>1, <3>2, <3>3 DEF Awaited
  <2>7. op.len \in Nat
    BY <1>8, ControlStep DEF IInv
  <2> HIDE DEF tk, aw, il, l, u, got
  <2>8. u = tk + aw + il + l
    BY <1>3, <1>4, <1>5, <2>2, <2>3, <2>4, <2>5, <2>6, <2>7
  <2> QED BY <2>8 DEF tk, aw, il, l, u
<1>9. CASE ~Commanded
  <2> DEFINE put == IF mode = "BOTH" THEN Put ELSE 0
  <2>1. mode' = mode
    BY <1>9, ControlStep DEF IInv
  <2>2. u = unread - got + put
    <3>1. u = IF DataRead THEN unread - Bytes(op)
              ELSE IF DataWritten /\ mode = "BOTH" THEN unread + Bytes(op) ELSE unread
      BY <1>9 DEF Clock, Driver
    <3>2. DataRead => ~DataWritten
      BY DEF DataRead, DataWritten
    <3>3. CASE DataRead
      BY <1>1, <3>1, <3>2, <3>3 DEF Put
    <3>4. CASE ~DataRead
      BY <1>1, <3>1, <3>4 DEF Put
    <3> QED BY <3>3, <3>4
  <2>3. aw = Awaited - Came + put
    <3>1. CASE mode = "RX"
      <4>1. due' = due - Came
        BY <1>9, <3>1, DueStep
      <4> QED BY <1>1, <1>6, <2>1, <3>1, <4>1 DEF Awaited
    <3>2. CASE mode = "BOTH"
      <4>1. Sent = Came
        BY <1>1, <3>2 DEF Sends, Receives
      <4>2. pending' = pending + Put - Sent
        <5>1. pending' = pending + (IF DataWritten THEN Bytes(op) ELSE 0)
                                 - (IF ByteDone /\ Sends THEN 1 ELSE 0)
          BY DEF Clock, Driver
        <5> QED BY <5>1 DEF Put, Sent, One
      <4>3. aw = pending'
        BY <2>1, <3>2 DEF Awaited
      <4> HIDE DEF aw
      <4> QED BY <1>1, <1>6, <3>2, <4>1, <4>2, <4>3
    <3>3. CASE mode \notin {"RX", "BOTH"}
      <4>1. Came = 0
        BY <1>1, <3>3 DEF Receives
      <4> QED BY <1>6, <2>1, <3>3, <4>1 DEF Awaited
    <3> QED BY <3>1, <3>2, <3>3
  <2>4. put \in 0..2
    BY <1>1
  <2> HIDE DEF tk, aw, il, l, u, got, put
  <2>5. u = tk + aw + il + l
    BY <1>1, <1>2, <1>3, <1>4, <1>5, <1>6, <1>7, <2>2, <2>3, <2>4
  <2> QED BY <2>5 DEF tk, aw, il, l, u
<1> QED BY <1>8, <1>9

LEMMA CountedStep ==
  ASSUME IInv, Clock
  PROVE  Counted'
<1>1. unread' = (Taken)' + (Awaited)' + (InLen)' + (rx_len)'
  BY UnreadStep
<1>2. state' # "SHIFTING" => clk_count' = 0 /\ bit_count' = 0 /\ ~SCLK'
  BY AtRest
<1>3. /\ set_rx_length' <=> Commanded
      /\ mode' = IF Commanded THEN op.mode ELSE mode
      /\ new_rx_length' = IF Commanded THEN op.len ELSE new_rx_length
      /\ Commanded => IF op.mode = "RX" THEN op.len >= 1 ELSE op.len = 0
  BY ControlStep DEF IInv
<1>4. CASE Commanded
  <2>1. Done /\ ~set_rx_length /\ ~DataWritten /\ s = "S6"
    BY <1>4, CommandedDone
  <2>2. state' = "IDLE"
    BY <2>1, DoneStays DEF IInv
  <2>3. s' = "S7"
    BY <2>1, BusCameFrom DEF IInv
  <2>4. due' = op.len /\ op.len \in Nat /\ op.len < 8192
    <3>1. op \in Ops
      BY BusTypes DEF IInv
    <3> QED BY <1>4, <3>1, OpFacts DEF Clock, Driver
  <2>5. idle' = FALSE
    BY <1>4 DEF Clock, Driver, StatusRead, Commanded
  <2> QED BY <1>1, <1>2, <1>3, <1>4, <2>2, <2>3, <2>4, <2>5 DEF Counted
<1>5. CASE ~Commanded
  <2>1. mode' = mode /\ ~set_rx_length' /\ new_rx_length' = new_rx_length
    BY <1>3, <1>5
  <2>2. /\ due' = (IF mode = "RX" THEN due - Came ELSE due) /\ due' \in Nat
        /\ mode = "RX" => /\ rx_length' = due' + One(state' = "UNLOAD")
                          /\ state' = "SHIFTING" => due' >= 1
    BY <1>5, DueStep
  <2>3. due \in Nat /\ due <= 8191 /\ (mode # "RX" => due = 0) /\ Came \in {0, 1}
    BY TypeFacts, Counts DEF IInv, Counted
  <2>4. due' <= 8191
    BY <2>2, <2>3
  <2>5. state' = "UNLOAD" => (Receives)'
    BY <2>1, UnloadReceives DEF Receives
  <2> QED BY <1>1, <1>2, <2>1, <2>2, <2>3, <2>4, <2>5 DEF Counted
<1> QED BY <1>4, <1>5

-----------------------------------------------------------------------------
(* What the status register shows and what the driver makes of it.         *)

LEMMA StatusBits ==
  /\ "busy" \in status <=> busy
  /\ "tx_half" \in status <=> tx_len < HALF
  /\ "rx_half" \in status <=> rx_len >= HALF
  /\ "tx_full" \in status <=> tx_cb.l_full
  /\ "tx_empty" \in status <=> ~tx_cb.u_full
  /\ "rx_full" \in status <=> rx_cb.l_full
  /\ "rx_empty" \in status <=> ~rx_cb.u_full
BY DEF status

LEMMA StatusLatch ==
  ASSUME IInv, Clock, (StatusPending)'
  PROVE  /\ op' = op /\ op.reg = "STATUS" /\ ~DataWritten /\ ~Commanded /\ Got = 0 /\ Put = 0
         /\ \/ s = "S4" /\ s' = "S5" /\ DATA_OUT' = <<"status", status>>
            \/ s = "S5" /\ s' = "S6" /\ StatusPending /\ DATA_OUT' = DATA_OUT
<1>1. s' \in {"S5", "S6"} /\ op'.reg = "STATUS"
  BY DEF StatusPending
<1>2. op' = op /\ op \in Ops
      /\ ((s = "S4" /\ s' = "S5") \/ (s = "S5" /\ s' = "S6"))
  BY <1>1, BusCameFrom, BusTypes DEF IInv
<1>3. op.reg = "STATUS" /\ op.rw
  BY <1>1, <1>2, OpFacts
<1>4. ~DataWritten /\ ~Commanded /\ Got = 0 /\ Put = 0
  BY <1>3 DEF DataWritten, Commanded, Got, Put, Reading
<1>5. rd_strobe <=> s = "S4"
  BY <1>2, <1>3, Strobes DEF IInv
<1>6. DATA_OUT' = IF ~rd_strobe THEN DATA_OUT
                  ELSE IF op.reg = "STATUS" THEN <<"status", status>>
                  ELSE <<"data", rx_cb.u, rx_cb.l>>
  BY DEF Clock, CardClock, ReadLatch
<1>7. s = "S4" => DATA_OUT' = <<"status", status>>
  BY <1>3, <1>5, <1>6
<1>8. s = "S5" => DATA_OUT' = DATA_OUT /\ StatusPending
  BY <1>3, <1>5, <1>6 DEF StatusPending
<1> QED BY <1>2, <1>3, <1>4, <1>7, <1>8

LEMMA MostIn ==
  ASSUME NEW S, S \subseteq {0, 1, 2, HALF}, 0 \in S
  PROVE  Most(S) \in S
<1>1. HALF \in Nat \ {0}
  BY Constants
<1>2. \E n \in S : \A k \in S : k <= n
  <2>1. CASE HALF \in S /\ HALF >= 2
    BY <1>1, <2>1
  <2>2. CASE ~(HALF \in S /\ HALF >= 2) /\ 2 \in S
    <3>1. \A k \in S : k <= 2
      BY <1>1, <2>2
    <3> QED BY <2>2, <3>1
  <2>3. CASE ~(HALF \in S /\ HALF >= 2) /\ 2 \notin S /\ 1 \in S
    <3>1. \A k \in S : k <= 1
      BY <1>1, <2>3
    <3> QED BY <2>3, <3>1
  <2>4. CASE ~(HALF \in S /\ HALF >= 2) /\ 2 \notin S /\ 1 \notin S
    <3>1. \A k \in S : k <= 0
      BY <1>1, <2>4
    <3> QED BY <3>1
  <2> QED BY <2>1, <2>2, <2>3, <2>4
<1> QED BY <1>2 DEF Most

LEMMA TxCreditStep ==
  ASSUME IInv, Clock
  PROVE  /\ tx_credit' \in Nat
         /\ \/ tx_credit' = 0
            \/ tx_credit' = tx_credit - Put /\ ~StatusRead
            \/ /\ StatusRead
               /\ \/ tx_credit' = 1 /\ ~Shown("tx_full")
                  \/ tx_credit' = 2 /\ Shown("tx_empty")
                  \/ tx_credit' = HALF /\ Shown("tx_half")
<1> DEFINE S == {0} \cup (IF Shown("tx_full") THEN {} ELSE {1})
                    \cup (IF Shown("tx_empty") THEN {2} ELSE {})
                    \cup (IF Shown("tx_half") THEN {HALF} ELSE {})
<1>1. tx_credit' = IF Commanded \/ ~Sends THEN 0
                   ELSE IF StatusRead THEN Most(S)
                   ELSE IF DataWritten THEN tx_credit - Bytes(op) ELSE tx_credit
  BY DEF Clock, Driver
<1>2. /\ S \subseteq {0, 1, 2, HALF} /\ 0 \in S
      /\ \A n \in S : n = 0 \/ (n = 1 /\ ~Shown("tx_full")) \/ (n = 2 /\ Shown("tx_empty"))
                      \/ (n = HALF /\ Shown("tx_half"))
  BY DEF Shown
<1>3. Most(S) \in S
  <2> HIDE DEF S
  <2> QED BY <1>2, MostIn
<1> HIDE DEF S
<1>4. HALF \in Nat /\ tx_credit \in Nat /\ Bytes(op) \in Nat
  BY Constants, TypeFacts, Counts DEF IInv
<1>5. CASE Commanded \/ ~Sends
  BY <1>1, <1>5
<1>6. CASE ~(Commanded \/ ~Sends) /\ StatusRead
  <2>1. tx_credit' \in S
    BY <1>1, <1>3, <1>6
  <2> QED BY <1>2, <1>4, <1>6, <2>1
<1>7. CASE ~(Commanded \/ ~Sends) /\ ~StatusRead /\ DataWritten
  <2>1. tx_credit' = tx_credit - Bytes(op) /\ Put = Bytes(op)
    BY <1>1, <1>7 DEF Put
  <2>2. Bytes(op) <= tx_credit
    BY <1>7, WriteFits DEF IInv
  <2> QED BY <1>4, <1>7, <2>1, <2>2
<1>8. CASE ~(Commanded \/ ~Sends) /\ ~StatusRead /\ ~DataWritten
  <2>1. tx_credit' = tx_credit /\ Put = 0
    BY <1>1, <1>8 DEF Put
  <2> QED BY <1>4, <1>8, <2>1
<1> QED BY <1>5, <1>6, <1>7, <1>8

LEMMA TxRoomStep ==
  ASSUME IInv, Clock
  PROVE  TxRoom'
<1>1. /\ s' = "S7" <=> s = "S6"
      /\ s' \notin {"S7", "S0"} => s \notin {"S6", "S7"}
      /\ s' # "S7" => Put = 0 /\ ~StatusRead
  <2>1. /\ s' = "S7" <=> s = "S6"
        /\ s' \notin {"S7", "S0"} => s \notin {"S6", "S7"}
    <3>1. /\ (s' = "S0" => s \in {"S0", "S7"}) /\ (s' = "S1" => s = "S0")
          /\ (s' = "S2" <=> s = "S1") /\ (s' = "S3" <=> s = "S2")
          /\ (s' = "S4" <=> s = "S3") /\ (s' = "S5" <=> s = "S4")
          /\ (s' = "S6" <=> s = "S5") /\ (s' = "S7" <=> s = "S6") /\ s' # "SW"
          /\ s' \in States
      BY BusCameFrom, BusMoves DEF IInv
    <3> QED BY <3>1 DEF States
  <2>2. s # "S6" => ~DataWritten /\ ~StatusRead
    BY DEF DataWritten, StatusRead
  <2> QED BY <2>1, <2>2 DEF Put
<1>2. /\ tx_credit' \in Nat
      /\ \/ tx_credit' = 0
         \/ tx_credit' = tx_credit - Put /\ ~StatusRead
         \/ /\ StatusRead
            /\ \/ tx_credit' = 1 /\ ~Shown("tx_full")
               \/ tx_credit' = 2 /\ Shown("tx_empty")
               \/ tx_credit' = HALF /\ Shown("tx_half")
  BY TxCreditStep
<1>3. /\ (tx_len)' = tx_len + Put - TookIn /\ tx_cb' \in BufStates
      /\ Put = 0 => /\ tx_cb'.l_full => tx_fifo.full /\ tx_cb.l_full
                    /\ tx_cb'.u_full => tx_cb.l_full \/ (tx_fifo.full /\ tx_cb.u_full)
  BY TxClockStep DEF IInv
<1>4. /\ tx_len \in Nat /\ TookIn \in {0, 1} /\ Put \in 0..2 /\ tx_credit \in Nat
      /\ tx_len = length(tx_fifo) + buf_len(tx_cb)
      /\ length(tx_fifo) \in 0..DEPTH /\ buf_len(tx_cb) \in 0..2
      /\ tx_fifo.full <=> length(tx_fifo) = DEPTH
      /\ tx_cb.u_full <=> buf_len(tx_cb) >= 1
      /\ tx_cb.l_full <=> buf_len(tx_cb) = 2
  BY TxFacts, Counts, TypeFacts DEF IInv
<1>5. /\ tx_len + tx_credit <= DEPTH + 2
      /\ s # "S7" /\ tx_credit >= 1 => ~tx_cb.l_full
      /\ s \notin {"S7", "S0"} /\ tx_credit >= 2 => ~tx_cb.u_full
      /\ StatusPending =>
           /\ Shown("tx_full") \/ tx_len <= DEPTH + 1
           /\ Shown("tx_empty") => tx_len <= DEPTH
           /\ Shown("tx_half") => tx_len < HALF
  BY DEF IInv, TxRoom
<1>6. HALF \in Nat \ {0} /\ DEPTH \in Nat \ {0} /\ 2 * HALF <= DEPTH + 3
  BY Constants, SdPathAssumption
<1>7. (tx_len)' + tx_credit' <= DEPTH + 2
  <2> DEFINE l == (tx_len)'  c == tx_credit'
  <2>1. l = tx_len + Put - TookIn /\ c \in Nat /\ l \in Int /\ Put \in Int /\ Put >= 0
        /\ TookIn \in Int /\ TookIn >= 0 /\ tx_len \in Int /\ tx_credit \in Int
        /\ DEPTH \in Int /\ HALF \in Int /\ l <= tx_len + Put
    <3>1. Put \in Int /\ Put >= 0 /\ TookIn \in Int /\ TookIn >= 0 /\ tx_len \in Int
          /\ tx_credit \in Int /\ DEPTH \in Int /\ HALF \in Int
      BY <1>4, <1>6
    <3>2. l = tx_len + Put - TookIn
      BY <1>3
    <3> HIDE DEF l
    <3>3. l \in Int /\ l <= tx_len + Put
      BY <3>1, <3>2
    <3> QED BY <1>2, <3>1, <3>2, <3>3
  <2> SUFFICES l + c <= DEPTH + 2
    OBVIOUS
  <2>2. StatusRead => StatusPending /\ Put = 0
    BY DEF StatusRead, StatusPending, Put, DataWritten
  <2>3. CASE c = 0
    <3>1. Put > 0 => tx_len + Put <= DEPTH + 2
      <4>1. DataWritten => Bytes(op) <= tx_credit
        BY WriteFits DEF IInv
      <4>2. Put > 0 => Put <= tx_credit
        BY <1>4, <4>1 DEF Put
      <4> QED BY <1>4, <1>5, <1>6, <4>2
    <3>2. tx_len <= DEPTH + 2
      BY <1>4, <2>1
    <3> HIDE DEF l, c
    <3>3. tx_len + Put <= DEPTH + 2
      BY <2>1, <3>1, <3>2
    <3> QED BY <2>1, <2>3, <3>3
  <2>4. CASE c = tx_credit - Put
    <3>1. tx_len + tx_credit <= DEPTH + 2
      BY <1>5
    <3> HIDE DEF l, c
    <3> QED BY <2>1, <2>4, <3>1
  <2>5. CASE StatusRead /\ \/ c = 1 /\ ~Shown("tx_full")
                           \/ c = 2 /\ Shown("tx_empty")
                           \/ c = HALF /\ Shown("tx_half")
    <3> HIDE DEF l, c
    <3>1. l <= tx_len
      BY <2>1, <2>2, <2>5
    <3>2. tx_len + c <= DEPTH + 2
      <4>1. 2 * HALF <= DEPTH + 3
        BY <1>6
      <4>2. CASE c = 1 /\ ~Shown("tx_full")
        BY <1>5, <2>1, <2>2, <2>5, <4>2
      <4>3. CASE c = 2 /\ Shown("tx_empty")
        BY <1>5, <2>1, <2>2, <2>5, <4>3
      <4>4. CASE c = HALF /\ Shown("tx_half")
        <5>1. tx_len < HALF
          BY <1>5, <2>2, <2>5, <4>4
        <5> QED BY <2>1, <4>1, <4>4, <5>1
      <4> QED BY <2>5, <4>2, <4>3, <4>4
    <3> QED BY <2>1, <3>1, <3>2
  <2> QED BY <1>2, <2>3, <2>4, <2>5
<1>8. s' # "S7" /\ tx_credit' >= 1 => ~tx_cb'.l_full
  <2> SUFFICES ASSUME s' # "S7", tx_cb'.l_full PROVE tx_credit' = 0
    BY <1>2
  <2>1. tx_fifo.full /\ tx_cb.l_full /\ Put = 0 /\ ~StatusRead
    BY <1>1, <1>3
  <2>2. tx_len = DEPTH + 2
    BY <1>4, <1>6, <2>1
  <2>3. tx_credit = 0
    BY <1>4, <1>5, <1>6, <2>2
  <2> QED BY <1>2, <2>1, <2>3
<1>9. s' \notin {"S7", "S0"} /\ tx_credit' >= 2 => ~tx_cb'.u_full
  <2> SUFFICES ASSUME s' \notin {"S7", "S0"}, tx_cb'.u_full PROVE ~(tx_credit' >= 2)
    OBVIOUS
  <2>1. (tx_cb.l_full \/ (tx_fifo.full /\ tx_cb.u_full)) /\ Put = 0 /\ ~StatusRead /\ s # "S7"
    BY <1>1, <1>3
  <2>2. tx_credit <= 1
    <3>1. CASE tx_cb.l_full
      BY <1>4, <1>5, <2>1, <3>1
    <3>2. CASE tx_fifo.full /\ tx_cb.u_full
      BY <1>4, <1>5, <1>6, <3>2
    <3> QED BY <2>1, <3>1, <3>2
  <2> QED BY <1>2, <1>4, <2>1, <2>2
<1>10. (StatusPending)' =>
         /\ "tx_full" \in DATA_OUT'[2] \/ (tx_len)' <= DEPTH + 1
         /\ "tx_empty" \in DATA_OUT'[2] => (tx_len)' <= DEPTH
         /\ "tx_half" \in DATA_OUT'[2] => (tx_len)' < HALF
  <2> SUFFICES ASSUME (StatusPending)'
               PROVE  /\ "tx_full" \in DATA_OUT'[2] \/ (tx_len)' <= DEPTH + 1
                      /\ "tx_empty" \in DATA_OUT'[2] => (tx_len)' <= DEPTH
                      /\ "tx_half" \in DATA_OUT'[2] => (tx_len)' < HALF
    OBVIOUS
  <2> DEFINE l == (tx_len)'
  <2>1. l \in Int /\ l <= tx_len
    <3>1. Put = 0
      BY StatusLatch
    <3> QED BY <1>3, <1>4, <3>1
  <2> HIDE DEF l
  <2>2. CASE s = "S4" /\ DATA_OUT' = <<"status", status>>
    <3>1. DATA_OUT'[2] = status
      BY <2>2
    <3>2. /\ "tx_half" \in status => l < HALF
          /\ "tx_full" \in status \/ l <= DEPTH + 1
          /\ "tx_empty" \in status => l <= DEPTH
      BY <1>4, <1>6, <2>1, StatusBits
    <3> QED BY <3>1, <3>2 DEF l
  <2>3. CASE StatusPending /\ DATA_OUT' = DATA_OUT
    <3>1. /\ "tx_full" \in DATA_OUT[2] \/ tx_len <= DEPTH + 1
          /\ "tx_empty" \in DATA_OUT[2] => tx_len <= DEPTH
          /\ "tx_half" \in DATA_OUT[2] => tx_len < HALF
      BY <1>5, <2>3 DEF Shown
    <3>2. /\ "tx_full" \in DATA_OUT[2] \/ l <= DEPTH + 1
          /\ "tx_empty" \in DATA_OUT[2] => l <= DEPTH
          /\ "tx_half" \in DATA_OUT[2] => l < HALF
      BY <1>4, <1>6, <2>1, <3>1
    <3> QED BY <2>3, <3>2 DEF l
  <2> QED BY <2>2, <2>3, StatusLatch
<1> QED BY <1>7, <1>8, <1>9, <1>10 DEF TxRoom, Shown

LEMMA RxCreditStep ==
  ASSUME IInv, Clock
  PROVE  /\ rx_credit' \in Int
         /\ \/ rx_credit' = 0 /\ Commanded
            \/ rx_credit' = rx_credit - (IF DataRead THEN Bytes(op) ELSE 0) /\ ~StatusRead /\ ~Commanded
            \/ /\ StatusRead
               /\ \/ rx_credit' = 0
                  \/ rx_credit' = 1 /\ ~Shown("rx_empty")
                  \/ rx_credit' = 2 /\ Shown("rx_full")
                  \/ rx_credit' = HALF /\ Shown("rx_half")
<1> DEFINE S == {0} \cup (IF Shown("rx_empty") THEN {} ELSE {1})
                    \cup (IF Shown("rx_full") THEN {2} ELSE {})
                    \cup (IF Shown("rx_half") THEN {HALF} ELSE {})
<1>1. rx_credit' = IF Commanded THEN 0
                   ELSE IF StatusRead THEN Most(S)
                   ELSE IF DataRead THEN rx_credit - Bytes(op) ELSE rx_credit
  BY DEF Clock, Driver
<1>2. /\ S \subseteq {0, 1, 2, HALF} /\ 0 \in S
      /\ \A n \in S : n = 0 \/ (n = 1 /\ ~Shown("rx_empty")) \/ (n = 2 /\ Shown("rx_full"))
                      \/ (n = HALF /\ Shown("rx_half"))
  BY DEF Shown
<1>3. Most(S) \in S
  <2> HIDE DEF S
  <2> QED BY <1>2, MostIn
<1> HIDE DEF S
<1>4. HALF \in Nat /\ rx_credit \in Nat /\ Bytes(op) \in Nat
  BY Constants, TypeFacts, Counts DEF IInv
<1>5. CASE Commanded
  BY <1>1, <1>5
<1>6. CASE ~Commanded /\ StatusRead
  <2>1. rx_credit' \in S
    BY <1>1, <1>3, <1>6
  <2> QED BY <1>2, <1>4, <1>6, <2>1
<1>7. CASE ~Commanded /\ ~StatusRead
  <2>1. rx_credit' = rx_credit - (IF DataRead THEN Bytes(op) ELSE 0)
    BY <1>1, <1>4, <1>7
  <2> QED BY <1>4, <1>7, <2>1
<1> QED BY <1>5, <1>6, <1>7

(* What a status showed to be there for the driver to read stays there.    *)
LEMMA RxReadyStep ==
  ASSUME IInv, Clock
  PROVE  RxReady'
<1> DEFINE c == rx_credit - Taken  c2 == rx_credit' - (Taken)'  l == (rx_len)'
           got == IF DataRead THEN Bytes(op) ELSE 0
           u2 == rx_cb'.u_full  l2 == rx_cb'.l_full
<1>1. /\ (s' = "S5" <=> s = "S4") /\ (s' = "S6" <=> s = "S5") /\ (s' = "S7" <=> s = "S6")
  BY BusCameFrom DEF IInv
<1>2. /\ rx_credit' \in Int
      /\ \/ rx_credit' = 0 /\ Commanded
         \/ rx_credit' = rx_credit - got /\ ~StatusRead /\ ~Commanded
         \/ /\ StatusRead
            /\ \/ rx_credit' = 0
               \/ rx_credit' = 1 /\ ~Shown("rx_empty")
               \/ rx_credit' = 2 /\ Shown("rx_full")
               \/ rx_credit' = HALF /\ Shown("rx_half")
  BY RxCreditStep
<1>3. /\ l = rx_len + Gave - Got /\ rx_cb' \in BufStates
      /\ Got = 0 => /\ rx_cb.u_full \/ ~empty(rx_fifo) => u2
                    /\ rx_cb.l_full \/ (rx_cb.u_full /\ ~empty(rx_fifo)) => l2
  BY RxClockStep DEF IInv
<1>4. /\ rx_len \in Nat /\ Gave \in {0, 1} /\ Got \in 0..2 /\ rx_credit \in Nat /\ Taken \in 0..2
      /\ rx_len = length(rx_fifo) + buf_len(rx_cb)
      /\ length(rx_fifo) \in 0..DEPTH /\ buf_len(rx_cb) \in 0..2
      /\ empty(rx_fifo) <=> length(rx_fifo) = 0
      /\ rx_cb.u_full <=> buf_len(rx_cb) >= 1
      /\ rx_cb.l_full <=> buf_len(rx_cb) = 2
      /\ got \in 0..2
  BY RxFacts, Counts, TypeFacts DEF IInv
<1>5. /\ c >= 0 /\ c <= rx_len
      /\ s # "S5" /\ c >= 1 => rx_cb.u_full
      /\ s \notin {"S5", "S6"} /\ c >= 2 => rx_cb.l_full
      /\ StatusPending =>
           /\ Shown("rx_empty") \/ rx_cb.u_full
           /\ Shown("rx_full") => rx_cb.l_full
           /\ Shown("rx_half") => rx_len >= HALF /\ (s = "S6" => rx_cb.u_full)
  BY DEF IInv, RxReady
<1>6. HALF \in Nat \ {0} /\ DEPTH \in Nat \ {0}
  BY Constants
<1>7. (Taken)' = Taken + Got - got /\ (Taken)' \in 0..2
  BY BaseStep
<1>8. /\ Got = 0 /\ rx_len >= 1 => u2
      /\ Got = 0 /\ rx_cb.u_full => u2
      /\ Got = 0 /\ rx_cb.u_full /\ rx_len >= 2 => l2
      /\ Got = 0 /\ rx_cb.l_full => l2 /\ u2
  <2> HIDE DEF u2, l2
  <2>1. rx_len >= 1 => rx_cb.u_full \/ ~empty(rx_fifo)
    BY <1>4, <1>6
  <2>2. rx_cb.u_full /\ rx_len >= 2 => rx_cb.l_full \/ ~empty(rx_fifo)
    BY <1>4, <1>6
  <2>3. rx_cb.l_full => rx_cb.u_full
    BY <1>4, <1>6
  <2> QED BY <1>3, <2>1, <2>2, <2>3
<1>9. /\ l \in Int /\ c \in Int /\ c2 \in Int /\ l >= 0 /\ Got <= c /\ (Got = 0 => l >= rx_len)
      /\ l - c2 >= (rx_len - Got) - c2
  <2>1. Got <= c
    <3>1. CASE s = "S4" /\ Reading
      <4>1. Bytes(op) <= rx_credit /\ Taken = 0 /\ Got = Bytes(op)
        BY <3>1, ReadFinds DEF IInv, Got, Taken
      <4> QED BY <1>4, <4>1
    <3>2. CASE ~(s = "S4" /\ Reading)
      <4>1. Got = 0
        BY <3>2 DEF Got
      <4> QED BY <1>4, <1>5, <4>1
    <3> QED BY <3>1, <3>2
  <2>2. c \in Int /\ c2 \in Int
    BY <1>2, <1>4, <1>7
  <2> HIDE DEF c, c2, l
  <2> QED BY <1>3, <1>4, <1>5, <2>1, <2>2
<1>10. CASE Commanded \/ StatusRead
  <2>1. s = "S6" /\ s' = "S7" /\ Got = 0 /\ ~(StatusPending)' /\ (Taken)' = 0
    BY <1>1, <1>10 DEF Commanded, StatusRead, Got, StatusPending, Taken
  <2>2. c2 = rx_credit'
    <3>1. rx_credit' \in Int
      BY <1>2
    <3>2. \A x \in Int : x - 0 = x
      OBVIOUS
    <3> QED BY <2>1, <3>1, <3>2
  <2>3. CASE c2 = 0
    BY <1>9, <2>1, <2>3 DEF RxReady
  <2>4. CASE StatusRead /\ c2 = 1 /\ ~Shown("rx_empty")
    <3>1. StatusPending
      BY <2>4 DEF StatusRead, StatusPending
    <3>2. rx_cb.u_full /\ rx_len >= 1
      BY <1>4, <1>5, <1>6, <2>4, <3>1
    <3>3. u2 /\ 1 <= l
      <4> HIDE DEF u2, l
      <4> QED BY <1>4, <1>8, <1>9, <2>1, <3>2
    <3> QED BY <2>1, <2>4, <3>3 DEF RxReady
  <2>5. CASE StatusRead /\ c2 = 2 /\ Shown("rx_full")
    <3>1. StatusPending
      BY <2>5 DEF StatusRead, StatusPending
    <3>2. rx_cb.l_full /\ rx_len >= 2
      BY <1>4, <1>5, <1>6, <2>5, <3>1
    <3>3. u2 /\ l2 /\ 2 <= l
      <4> HIDE DEF u2, l2, l
      <4> QED BY <1>4, <1>8, <1>9, <2>1, <3>2
    <3> QED BY <2>1, <2>5, <3>3 DEF RxReady
  <2>6. CASE StatusRead /\ c2 = HALF /\ Shown("rx_half")
    <3>1. StatusPending
      BY <2>6 DEF StatusRead, StatusPending
    <3>2. rx_cb.u_full /\ rx_len >= HALF
      BY <1>5, <2>1, <2>6, <3>1
    <3>3. u2 /\ (HALF >= 2 => l2) /\ HALF <= l /\ HALF >= 0
      <4> HIDE DEF u2, l2, l
      <4> QED BY <1>4, <1>6, <1>8, <1>9, <2>1, <3>2
    <3> QED BY <2>1, <2>6, <3>3 DEF RxReady
  <2> QED BY <1>2, <1>10, <2>2, <2>3, <2>4, <2>5, <2>6
<1>11. CASE ~Commanded /\ ~StatusRead
  <2>1. c2 = c - Got
    <3>1. rx_credit' = rx_credit - got
      BY <1>2, <1>11
    <3> HIDE DEF got
    <3> QED BY <1>4, <1>7, <3>1
  <2>2. c2 >= 0 /\ c2 <= l
    <3> HIDE DEF c, c2, l
    <3> QED BY <1>3, <1>4, <1>5, <1>9, <2>1
  <2>3. s # "S4" => Got = 0
    BY DEF Got
  <2>4. s' # "S5" /\ c2 >= 1 => u2
    <3> HIDE DEF c, c2, l, u2, l2
    <3>1. s # "S4" /\ c2 >= 1 => c >= 1 /\ rx_len >= 1 /\ Got = 0
      BY <1>4, <1>5, <1>9, <2>1, <2>3
    <3> QED BY <1>1, <1>8, <3>1
  <2>5. s' \notin {"S5", "S6"} /\ c2 >= 2 => l2
    <3> HIDE DEF c, c2, l, u2, l2
    <3>1. s # "S4" /\ c2 >= 2 => c >= 2 /\ c >= 1 /\ rx_len >= 2 /\ Got = 0
      BY <1>4, <1>5, <1>9, <2>1, <2>3
    <3>2. s \notin {"S4", "S5", "S6"} /\ c2 >= 2 => l2
      BY <1>5, <1>8, <3>1
    <3>3. s = "S6" /\ c2 >= 2 => l2
      BY <1>5, <1>8, <3>1
    <3> QED BY <1>1, <3>2, <3>3
  <2>6. (StatusPending)' =>
          /\ "rx_empty" \in DATA_OUT'[2] \/ u2
          /\ "rx_full" \in DATA_OUT'[2] => l2
          /\ "rx_half" \in DATA_OUT'[2] => l >= HALF /\ (s' = "S6" => u2)
    <3> SUFFICES ASSUME (StatusPending)'
                 PROVE  /\ "rx_empty" \in DATA_OUT'[2] \/ u2
                        /\ "rx_full" \in DATA_OUT'[2] => l2
                        /\ "rx_half" \in DATA_OUT'[2] => l >= HALF /\ (s' = "S6" => u2)
      OBVIOUS
    <3>1. Got = 0 /\ l >= rx_len
      <4>1. Got = 0
        BY StatusLatch
      <4> QED BY <1>9, <4>1
    <3> HIDE DEF c, c2, l, u2, l2
    <3>2. CASE s = "S4" /\ s' = "S5" /\ DATA_OUT' = <<"status", status>>
      <4>1. DATA_OUT'[2] = status
        BY <3>2
      <4>2. /\ "rx_empty" \in status \/ u2
            /\ "rx_full" \in status => l2
            /\ "rx_half" \in status => l >= HALF
        BY <1>4, <1>6, <1>8, <1>9, <3>1, StatusBits
      <4> QED BY <3>2, <4>1, <4>2
    <3>3. CASE s = "S5" /\ s' = "S6" /\ StatusPending /\ DATA_OUT' = DATA_OUT
      <4>1. /\ "rx_empty" \in DATA_OUT[2] \/ rx_cb.u_full
            /\ "rx_full" \in DATA_OUT[2] => rx_cb.l_full
            /\ "rx_half" \in DATA_OUT[2] => rx_len >= HALF
        BY <1>5, <3>3 DEF Shown
      <4>2. rx_len >= HALF => l >= HALF /\ rx_len >= 1
        BY <1>4, <1>6, <1>9, <3>1
      <4> QED BY <1>8, <3>1, <3>3, <4>1, <4>2
    <3> QED BY <3>2, <3>3, StatusLatch
  <2> QED BY <2>2, <2>4, <2>5, <2>6 DEF RxReady, Shown
<1> QED BY <1>10, <1>11

-----------------------------------------------------------------------------
(* What the card side drains, and what an idle status stands for.          *)

(* Nothing is left behind an adapter, a FIFO or a register that is empty.  *)
LEMMA DrainStep ==
  ASSUME IInv, Clock
  PROVE  /\ s' # "S7" /\ tx_cb'.u_full => ~empty(tx_fifo') \/ in_full'
         /\ s' \notin {"S7", "S0"} /\ ~empty(tx_fifo') => in_full' \/ (Began)'
         /\ s' \notin {"S7", "S0", "S1"} /\ (Sends)' /\ state' = "IDLE" => ~in_full'
         /\ s' \notin {"S7", "S0"} /\ mode' = "RX" /\ state' = "IDLE" => due' = 0
<1>1. /\ s' # "S7" => s # "S6" /\ Put = 0 /\ ~Commanded
      /\ s' \notin {"S7", "S0"} => s \notin {"S6", "S7"}
      /\ s' \notin {"S7", "S0", "S1"} => s \notin {"S6", "S7", "S0"}
  <2>1. /\ (s' = "S0" => s \in {"S0", "S7"}) /\ (s' = "S1" => s = "S0")
        /\ (s' = "S2" <=> s = "S1") /\ (s' = "S3" <=> s = "S2")
        /\ (s' = "S4" <=> s = "S3") /\ (s' = "S5" <=> s = "S4")
        /\ (s' = "S6" <=> s = "S5") /\ (s' = "S7" <=> s = "S6") /\ s' # "SW"
        /\ s' \in States
    BY BusCameFrom, BusMoves DEF IInv
  <2>2. s # "S6" => ~DataWritten /\ ~Commanded
    BY DEF DataWritten, Commanded
  <2>3. ~DataWritten => Put = 0
    BY DEF Put
  <2> QED BY <2>1, <2>2, <2>3 DEF States
<1>2. /\ length(tx_fifo') = length(tx_fifo) + One(~tx_fifo.full /\ tx_cb.u_full) - TookIn
      /\ FifoOK(tx_fifo')
      /\ (Put = 0 /\ tx_cb'.u_full) => tx_cb.l_full \/ (tx_fifo.full /\ tx_cb.u_full)
  BY TxClockStep DEF IInv
<1>3. /\ length(tx_fifo') \in 0..DEPTH /\ (empty(tx_fifo') <=> length(tx_fifo') = 0)
  BY <1>2, FifoFacts
<1>4. /\ length(tx_fifo) \in 0..DEPTH /\ DEPTH \in Nat \ {0}
      /\ empty(tx_fifo) <=> length(tx_fifo) = 0
      /\ tx_fifo.full <=> length(tx_fifo) = DEPTH
      /\ tx_fifo.full \in BOOLEAN /\ tx_cb.u_full \in BOOLEAN /\ tx_cb.l_full \in BOOLEAN
      /\ tx_cb.l_full => tx_cb.u_full
      /\ TookIn \in {0, 1} /\ (TookIn = 1 <=> ~in_full /\ ~empty(tx_fifo))
      /\ in_full \in BOOLEAN /\ set_rx_length \in BOOLEAN
  BY TxFacts, Counts, TypeFacts, Constants DEF IInv, BufOK
<1>5. /\ in_full' \in BOOLEAN
      /\ TookIn = 1 => in_full'
      /\ in_full' => in_full \/ TookIn = 1
      /\ in_full /\ ~in_full' => state \in {"IDLE", "RESTART"} /\ state' = "SHIFTING"
  BY TakesIn DEF IInv
<1>6. /\ s # "S7" /\ tx_cb.u_full => ~empty(tx_fifo) \/ in_full
      /\ s \notin {"S7", "S0"} /\ ~empty(tx_fifo) => in_full \/ Began
  BY DEF IInv, Drained
<1>7. s' # "S7" /\ tx_cb'.u_full => ~empty(tx_fifo') \/ in_full'
  <2> SUFFICES ASSUME s' # "S7", tx_cb'.u_full, ~in_full' PROVE length(tx_fifo') >= 1
    BY <1>3
  <2>1. TookIn = 0
    BY <1>4, <1>5
  <2>2. tx_fifo.full \/ (~tx_fifo.full /\ tx_cb.u_full)
    BY <1>1, <1>2, <1>4
  <2>3. length(tx_fifo) + One(~tx_fifo.full /\ tx_cb.u_full) >= 1
    BY <1>4, <2>2 DEF One
  <2> QED BY <1>2, <1>3, <1>4, <2>1, <2>3 DEF One
<1>8. s' \notin {"S7", "S0"} /\ ~empty(tx_fifo') => in_full' \/ (Began)'
  <2> SUFFICES ASSUME s' \notin {"S7", "S0"}, ~empty(tx_fifo'), ~in_full' PROVE (Began)'
    OBVIOUS
  <2>1. CASE in_full
    <3>1. state \in {"IDLE", "RESTART"} /\ state' = "SHIFTING"
      BY <1>5, <2>1
    <3>2. clk_count = 0 /\ bit_count = 0 /\ ~SCLK
      BY <3>1 DEF IInv, Counted
    <3>3. clk_count' = clk_count /\ bit_count' = bit_count /\ SCLK' = SCLK
      BY <3>1 DEF Clock, Begins, Begin, Shifts, Shift, Unloads, Unload
    <3> QED BY <3>1, <3>2, <3>3 DEF Began
  <2>2. CASE ~in_full
    <3>1. TookIn = 0 /\ empty(tx_fifo)
      BY <1>4, <1>5, <2>2
    <3>2. ~tx_cb.u_full
      BY <1>1, <1>6, <2>2, <3>1
    <3>3. length(tx_fifo') = 0
      BY <1>2, <1>4, <3>1, <3>2 DEF One
    <3> QED BY <1>3, <3>3
  <2> QED BY <2>1, <2>2
<1>9. ASSUME s' \notin {"S7", "S0"}, state' = "IDLE"
      PROVE  /\ mode' = mode /\ state \in {"IDLE", "RESTART"}
             /\ Sends => ~in_full
             /\ mode = "RX" => rx_length = 0 /\ ~set_rx_length
  <2>1. mode' = mode
    BY <1>1, <1>9, ControlStep DEF IInv
  <2>2. Begins
    <3>1. ~Shifts
      BY <1>9 DEF Shifts, Shift
    <3>2. ~Unloads
      BY <1>9 DEF Unloads, Unload
    <3> QED BY <3>1, <3>2 DEF Clock
  <2>3. /\ state \in {"IDLE", "RESTART"}
        /\ ~(mode = "RX" /\ rx_length # 0) /\ ~(mode \in {"TX", "BOTH"} /\ in_full)
    BY <1>9, <2>2 DEF Begins, Begin
  <2>4. ~set_rx_length
    BY <1>1, <1>9 DEF IInv, Counted
  <2> QED BY <2>1, <2>3, <2>4 DEF Sends
<1>10. s' \notin {"S7", "S0", "S1"} /\ (Sends)' /\ state' = "IDLE" => ~in_full'
  <2> SUFFICES ASSUME s' \notin {"S7", "S0", "S1"}, (Sends)', state' = "IDLE"
               PROVE  ~in_full'
    OBVIOUS
  <2>1. ~in_full /\ state \in {"IDLE", "RESTART"}
    BY <1>9 DEF Sends
  <2>2. empty(tx_fifo)
    BY <1>1, <1>6, <2>1 DEF Began
  <2> QED BY <1>4, <1>5, <2>1, <2>2
<1>11. s' \notin {"S7", "S0"} /\ mode' = "RX" /\ state' = "IDLE" => due' = 0
  <2> SUFFICES ASSUME s' \notin {"S7", "S0"}, mode' = "RX", state' = "IDLE"
               PROVE  due' = 0
    OBVIOUS
  <2>1. mode = "RX" /\ rx_length = 0 /\ ~set_rx_length /\ state \in {"IDLE", "RESTART"}
    BY <1>9
  <2>2. due = 0 /\ ~ByteDone
    <3>1. rx_length = due + One(state = "UNLOAD") /\ due \in Nat
      BY <2>1, TypeFacts DEF IInv, Counted
    <3>2. ~ByteDone
      BY <2>1, ModeFacts DEF IInv
    <3> QED BY <2>1, <3>1, <3>2 DEF One
  <2> QED BY <1>1, <2>2 DEF Clock, Driver
<1> QED BY <1>7, <1>8, <1>10, <1>11

LEMMA DrainedStep ==
  ASSUME IInv, Clock
  PROVE  Drained'
<1>1. ASSUME Done, ~DataWritten, ~Commanded, ~set_rx_length
      PROVE  (Done)'
  BY <1>1, DoneStays DEF IInv, Done
<1>2. set_rx_length => s = "S7" /\ ~idle
  BY DEF IInv, Counted
<1>3. idle' => (Done)'
  <2> SUFFICES ASSUME idle' PROVE (Done)'
    OBVIOUS
  <2>1. idle' = IF StatusRead THEN ~Shown("busy") /\ Shown("tx_empty")
                ELSE idle /\ ~DataWritten /\ ~Commanded
    BY DEF Clock, Driver
  <2>2. CASE StatusRead
    <3>1. StatusPending /\ s = "S6" /\ ~DataWritten /\ ~Commanded
      BY <2>2 DEF StatusRead, StatusPending, DataWritten, Commanded
    <3>2. ~Shown("busy") /\ Shown("tx_empty")
      BY <2>1, <2>2
    <3>3. Done
      BY <3>1, <3>2 DEF IInv, Drained
    <3> QED BY <1>1, <1>2, <3>1, <3>3
  <2>3. CASE ~StatusRead
    <3>1. idle /\ ~DataWritten /\ ~Commanded
      BY <2>1, <2>3
    <3>2. Done
      BY <3>1 DEF IInv, Drained
    <3> QED BY <1>1, <1>2, <3>1, <3>2
  <2> QED BY <2>2, <2>3
<1>4. ASSUME (StatusPending)'
      PROVE  /\ DATA_OUT'[1] = "status"
             /\ "busy" \notin DATA_OUT'[2] /\ "tx_empty" \in DATA_OUT'[2] => (Done)'
  <2>1. ~DataWritten /\ ~Commanded /\ s \in {"S4", "S5"} /\ ~set_rx_length
    BY <1>2, <1>4, StatusLatch
  <2>2. CASE s = "S4" /\ DATA_OUT' = <<"status", status>>
    <3>1. DATA_OUT'[1] = "status" /\ DATA_OUT'[2] = status
      BY <2>2
    <3> SUFFICES ASSUME "busy" \notin status, "tx_empty" \in status PROVE Done
      BY <1>1, <2>1, <3>1
    <3>2. state = "IDLE" /\ ~tx_cb.u_full
      BY StatusBits DEF busy
    <3>3. Sends => ~in_full /\ empty(tx_fifo)
      BY <2>2, <3>2 DEF IInv, Drained, Began
    <3>4. /\ pending = OutLen + tx_len /\ (~Sends => pending = 0)
      BY DEF IInv, TxChain
    <3>5. Sends => pending = 0
      <4> SUFFICES ASSUME Sends PROVE pending = 0
        OBVIOUS
      <4>1. OutLen = 0
        BY <3>2, <3>3 DEF OutLen, OutBit, One
      <4>2. tx_len = 0
        <5>1. length(tx_fifo) = 0 /\ buf_len(tx_cb) = 0 /\ tx_len = length(tx_fifo) + buf_len(tx_cb)
          BY <3>2, <3>3, TxFacts DEF IInv, buf_len
        <5> QED BY <5>1
      <4> QED BY <3>4, <4>1, <4>2
    <3>6. due = 0
      BY <2>2, <3>2 DEF IInv, Drained, Counted
    <3> QED BY <3>2, <3>4, <3>5, <3>6 DEF Done
  <2>3. CASE StatusPending /\ DATA_OUT' = DATA_OUT
    <3>1. /\ DATA_OUT[1] = "status"
          /\ "busy" \notin DATA_OUT[2] /\ "tx_empty" \in DATA_OUT[2] => Done
      BY <2>3 DEF IInv, Drained, Shown
    <3> QED BY <1>1, <2>1, <2>3, <3>1
  <2> QED BY <1>4, <2>2, <2>3, StatusLatch
<1> QED BY <1>3, <1>4, DrainStep DEF Drained, Shown

(* What the driver was allowed to start stays allowed to the end.          *)
LEMMA OpAllowedStep ==
  ASSUME IInv, Clock
  PROVE  OpAllowed'
<1> SUFFICES ASSUME s' \in Within
             PROVE  /\ (Writing)' => (Sends)' /\ Bytes(op') <= tx_credit'
                    /\ (Reading)' => Bytes(op') <= rx_credit'
                    /\ op'.reg \in {"SHIFT_CTRL", "CLKDIV"} => idle' /\ unread' = 0
  BY DEF OpAllowed
<1>1. /\ s' = "S1" => s = "S0" /\ Allowed(op')
      /\ s' # "S1" => s \in Within /\ op' = op
      /\ s # "S6"
  BY BusCameFrom, BusMoves DEF IInv, Within, Moves
<1>2. ~Commanded /\ ~StatusRead /\ ~DataRead /\ ~DataWritten
  BY <1>1 DEF Commanded, StatusRead, DataRead, DataWritten
<1>3. /\ mode' = mode
      /\ Sends => tx_credit' = tx_credit
      /\ rx_credit' = rx_credit /\ idle' = idle /\ unread' = unread
  <2>1. mode' = mode
    BY <1>2, ControlStep DEF IInv
  <2>2. idle \in BOOLEAN
    BY TypeFacts DEF IInv
  <2>3. Sends => tx_credit' = tx_credit
    BY <1>2 DEF Clock, Driver
  <2>4. rx_credit' = rx_credit /\ unread' = unread
    BY <1>2 DEF Clock, Driver
  <2>5. idle' = idle
    BY <1>2, <2>2 DEF Clock, Driver
  <2> QED BY <2>1, <2>3, <2>4, <2>5
<1>4. (Sends)' <=> Sends
  BY <1>3 DEF Sends
<1>5. CASE s' = "S1"
  BY <1>1, <1>3, <1>4, <1>5 DEF Allowed, Writing, Reading
<1>6. CASE s' # "S1"
  <2>1. /\ Writing => Sends /\ Bytes(op) <= tx_credit
        /\ Reading => Bytes(op) <= rx_credit
        /\ op.reg \in {"SHIFT_CTRL", "CLKDIV"} => idle /\ unread = 0
    BY <1>1, <1>6 DEF IInv, OpAllowed
  <2> QED BY <1>1, <1>3, <1>4, <1>6, <2>1 DEF Writing, Reading
<1> QED BY <1>5, <1>6

LEMMA TypesStep ==
  ASSUME IInv, Clock
  PROVE  SdPathTypeOK'
<1>1. ShifterTypeOK'
  BY ShifterTypes DEF IInv
<1>2. s' \in States /\ op' \in Ops
  BY BusMoves DEF IInv
<1>3. /\ sd_dtack_n' \in BOOLEAN /\ sd_enabled' \in BOOLEAN
      /\ wr_sync' \in BOOLEAN \X BOOLEAN \X BOOLEAN
      /\ rd_sync' \in BOOLEAN \X BOOLEAN \X BOOLEAN
  BY StrobesStep DEF IInv
<1>4. /\ set_rx_length' \in BOOLEAN /\ clk_div' \in ClkDivs /\ mode' \in Modes
      /\ new_rx_length' \in Nat
  BY ControlStep DEF IInv
<1>5. idle' \in BOOLEAN
  <2>1. idle \in BOOLEAN
    BY TypeFacts DEF IInv
  <2>2. idle' = IF StatusRead THEN ~Shown("busy") /\ Shown("tx_empty")
                ELSE idle /\ ~DataWritten /\ ~Commanded
    BY DEF Clock, Driver
  <2> QED BY <2>1, <2>2
<1>6. /\ tx_cb' \in BufStates /\ FifoOK(tx_fifo') /\ tx_fifo' \in FifoStates
      /\ rx_cb' \in BufStates /\ FifoOK(rx_fifo') /\ rx_fifo' \in FifoStates
  BY TxClockStep, RxClockStep DEF IInv, FifoOK
<1>7. (tx_len)' \in Nat /\ (rx_len)' \in Nat
  <2>1. /\ (tx_len)' = length(tx_fifo') + buf_len(tx_cb')
        /\ (rx_len)' = length(rx_fifo') + buf_len(rx_cb')
    BY DEF tx_len, rx_len
  <2>2. length(tx_fifo') \in Nat /\ length(rx_fifo') \in Nat
    BY <1>6, FifoFacts, Depth
  <2>3. buf_len(tx_cb') \in Nat /\ buf_len(rx_cb') \in Nat
    BY DEF buf_len
  <2> QED BY <2>1, <2>2, <2>3
<1>8. (OutLen)' \in Nat /\ (InLen)' \in Nat /\ (Taken)' \in Nat
  BY BaseStep DEF OutLen, OutBit, InLen, One
<1>9. pending' \in Nat
  <2>1. pending' = (OutLen)' + (tx_len)'
    BY TxChainStep DEF TxChain
  <2> DEFINE o == (OutLen)'  l == (tx_len)'
  <2>2. pending' = o + l /\ o \in Nat /\ l \in Nat
    BY <1>7, <1>8, <2>1
  <2> HIDE DEF o, l
  <2> QED BY <2>2
<1>10. due' \in Nat
  <2>1. CASE Commanded
    BY <2>1, ControlStep DEF IInv, Clock, Driver
  <2>2. CASE ~Commanded
    BY <2>2, DueStep
  <2> QED BY <2>1, <2>2
<1>11. tx_credit' \in Nat
  BY TxCreditStep
<1>12. rx_credit' \in Nat
  <2>1. rx_credit' \in Int /\ rx_credit' - (Taken)' >= 0
    BY RxCreditStep, RxReadyStep DEF RxReady
  <2> DEFINE t == (Taken)'
  <2>2. rx_credit' \in Int /\ rx_credit' - t >= 0 /\ t \in Nat
    BY <1>8, <2>1
  <2>3. \A x \in Int, y \in Nat : x - y >= 0 => x \in Nat
    OBVIOUS
  <2> HIDE DEF t
  <2> QED BY <2>2, <2>3
<1>13. unread' \in Nat
  <2>1. (Awaited)' \in Nat
    BY <1>9, <1>10 DEF Awaited
  <2> DEFINE t == (Taken)'  a == (Awaited)'  i == (InLen)'  l == (rx_len)'
  <2>2. unread' = t + a + i + l /\ t \in Nat /\ a \in Nat /\ i \in Nat /\ l \in Nat
    BY <1>7, <1>8, <2>1, UnreadStep
  <2> HIDE DEF t, a, i, l
  <2> QED BY <2>2
<1>14. s' \in {"S0", "S7"} \cup DOMAIN Successor \cup {"S4"}
  BY <1>2 DEF States, Successor
<1> QED BY <1>1, <1>2, <1>3, <1>4, <1>5, <1>6, <1>9, <1>10, <1>11, <1>12, <1>13, <1>14
        DEF SdPathTypeOK

LEMMA ClockKeeps ==
  ASSUME IInv, Clock
  PROVE  IInv'
<1>1. StrobesTimed'
  BY StrobesStep DEF IInv
<1> QED BY <1>1, TypesStep, OpAllowedStep, TxChainStep, RxChainStep, CountedStep, TxRoomStep,
           RxReadyStep, DrainedStep DEF IInv

-----------------------------------------------------------------------------
(* Power-up and reset leave the same behind: nothing.                      *)

Empty(b, f) ==
  /\ b \in BufStates /\ ~b.u_full /\ ~b.l_full
  /\ f \in FifoStates /\ f.wr_ptr = 0 /\ f.rd_ptr = 0 /\ ~f.full

Fresh ==
  /\ s = "S0" /\ op = NoOp /\ sd_dtack_n = TRUE /\ sd_enabled = FALSE
  /\ wr_sync = <<FALSE, FALSE, FALSE>> /\ rd_sync = <<FALSE, FALSE, FALSE>>
  /\ state = "IDLE" /\ in_full = FALSE /\ out_full = FALSE
  /\ clk_count = 0 /\ bit_count = 0 /\ SCLK = FALSE
  /\ rx_length \in Nat /\ in_reg \in Byte /\ sr \in Byte /\ out_reg \in Byte
  /\ Empty(tx_cb, tx_fifo) /\ Empty(rx_cb, rx_fifo)
  /\ clk_div \in ClkDivs /\ mode = "STOP" /\ new_rx_length \in Nat /\ set_rx_length = FALSE
  /\ tx_next = 0 /\ sent = 0 /\ card_next = 0 /\ want = 0 /\ pending = 0 /\ due = 0
  /\ tx_credit = 0 /\ rx_credit = 0 /\ idle = TRUE /\ unread = 0

LEMMA EmptyFacts ==
  ASSUME NEW b, NEW f, Empty(b, f), NEW n, NEW m
  PROVE  /\ FifoOK(f) /\ length(f) = 0 /\ buf_len(b) = 0 /\ empty(f)
         /\ Holds(f, n) /\ BufOK(b, m) /\ ~b.u_full /\ ~b.l_full
<1>1. FifoOK(f) /\ empty(f)
  BY DEF Empty, FifoOK, empty
<1>2. length(f) = 0
  BY <1>1, FifoFacts
<1>3. \A k \in 0..length(f)-1 : FALSE
  BY <1>2
<1>4. Holds(f, n)
  BY <1>3 DEF Holds
<1> QED BY <1>1, <1>2, <1>4 DEF Empty, buf_len, BufOK

LEMMA FreshInv ==
  ASSUME Fresh
  PROVE  IInv
<1>1. /\ length(tx_fifo) = 0 /\ buf_len(tx_cb) = 0 /\ ~tx_cb.u_full /\ ~tx_cb.l_full /\ empty(tx_fifo)
      /\ length(rx_fifo) = 0 /\ buf_len(rx_cb) = 0 /\ ~rx_cb.u_full /\ ~rx_cb.l_full
      /\ FifoOK(tx_fifo) /\ FifoOK(rx_fifo)
      /\ \A n : Holds(tx_fifo, n) /\ BufOK(tx_cb, n) /\ Holds(rx_fifo, n) /\ BufOK(rx_cb, n)
  BY EmptyFacts DEF Fresh
<1>2. tx_len = 0 /\ rx_len = 0
  BY <1>1 DEF tx_len, rx_len
<1>3. OutBit = 0 /\ OutLen = 0 /\ InLen = 0 /\ Taken = 0 /\ Base = 0 /\ ~Sends
  BY DEF Fresh, OutBit, OutLen, InLen, Taken, Base, One, Sends
<1>4. Num(0) = 0 /\ 0 \in Byte /\ BITS \in Nat \ {0} /\ DEPTH \in Nat \ {0}
  <2>1. 0 \in Byte
    BY Constants
  <2> QED BY <2>1, Constants, NumIn
<1>5. SdPathTypeOK
  <2>1. ShifterTypeOK
    <3>1. bit_count \in 0..BITS-1
      BY <1>4 DEF Fresh
    <3>2. /\ rx_length \in Nat /\ clk_count \in Nat
          /\ SCLK \in BOOLEAN /\ in_full \in BOOLEAN /\ out_full \in BOOLEAN
          /\ in_reg \in Byte /\ sr \in Byte /\ out_reg \in Byte
          /\ state \in {"IDLE", "RESTART", "SHIFTING", "UNLOAD"}
      BY DEF Fresh
    <3>3. /\ {rx_length, clk_count} \subseteq Nat /\ {SCLK, in_full, out_full} \subseteq BOOLEAN
          /\ {in_reg, sr, out_reg} \subseteq Byte
      BY <3>2
    <3> QED BY <3>1, <3>2, <3>3 DEF ShifterTypeOK
  <2>2. s \in {"S0", "S7"} \cup DOMAIN Successor \cup {"S4"} /\ op \in Ops
    BY NoOpFacts DEF Fresh
  <2>3. {sd_dtack_n, set_rx_length, sd_enabled, idle} \subseteq BOOLEAN
    BY DEF Fresh
  <2>4. {wr_sync, rd_sync} \subseteq BOOLEAN \X BOOLEAN \X BOOLEAN
    <3>1. <<FALSE, FALSE, FALSE>> \in BOOLEAN \X BOOLEAN \X BOOLEAN
      OBVIOUS
    <3>2. wr_sync = <<FALSE, FALSE, FALSE>> /\ rd_sync = <<FALSE, FALSE, FALSE>>
      BY DEF Fresh
    <3> QED BY <3>1, <3>2
  <2>5. {tx_cb, rx_cb} \subseteq BufStates /\ {tx_fifo, rx_fifo} \subseteq FifoStates
    BY DEF Fresh, Empty
  <2>6. clk_div \in ClkDivs /\ mode \in Modes
    BY DEF Fresh, Modes
  <2>7. {new_rx_length, pending, due, tx_credit, rx_credit, unread} \subseteq Nat
    BY DEF Fresh
  <2> QED BY <2>1, <2>2, <2>3, <2>4, <2>5, <2>6, <2>7 DEF SdPathTypeOK
<1>6. StrobesTimed
  BY DEF Fresh, StrobesTimed
<1>7. OpAllowed
  BY DEF Fresh, OpAllowed, Within
<1>8. TxChain
  <2>1. sent = 0 /\ tx_next = 0 /\ pending = 0 /\ ~in_full
    BY DEF Fresh
  <2>2. /\ tx_next = Num(sent + OutLen + tx_len) /\ pending = OutLen + tx_len
        /\ OutBit # 1 /\ {sent, tx_next} \subseteq Byte
    BY <1>2, <1>3, <1>4, <2>1
  <2> QED BY <1>1, <2>1, <2>2 DEF TxChain
<1>9. RxChain
  <2>1. want = 0 /\ card_next = 0 /\ ~out_full /\ state = "IDLE" /\ s = "S0"
    BY DEF Fresh
  <2>2. card_next = Num(Base + rx_len + InLen) /\ {card_next, want} \subseteq Byte
    BY <1>2, <1>3, <1>4, <2>1
  <2> QED BY <1>1, <2>1, <2>2 DEF RxChain
<1>10. Counted
  BY <1>2, <1>3 DEF Fresh, Counted, Awaited
<1>11. TxRoom
  BY <1>1, <1>2, <1>4 DEF Fresh, TxRoom, StatusPending
<1>12. RxReady
  BY <1>2, <1>3 DEF Fresh, RxReady, StatusPending
<1>13. Drained
  BY <1>1, <1>3 DEF Fresh, Drained, StatusPending, Done
<1> QED BY <1>5, <1>6, <1>7, <1>8, <1>9, <1>10, <1>11, <1>12, <1>13 DEF IInv

LEMMA Starts ==
  ASSUME Init
  PROVE  IInv
<1>1. AnyByte \in Byte /\ DEPTH \in Nat \ {0}
  BY Constants
<1>2. Empty(BufInit, FifoInit)
  BY <1>1 DEF Empty, BufInit, FifoInit, BufStates, FifoStates
<1>3. rx_length \in Nat
  <2>1. rx_length \in {0} \cup Lengths
    BY DEF Init, ShifterInit
  <2>2. \A n \in Lengths : n \in Nat /\ 1 <= n /\ n < 8192
    BY SdPathAssumption, ZenonT(40)
  <2> QED BY <2>1, <2>2
<1>4. Fresh
  BY <1>1, <1>2, <1>3 DEF Init, ShifterInit, Fresh
<1> QED BY <1>4, FreshInv

LEMMA ResetKeeps ==
  ASSUME IInv, Reset
  PROVE  IInv'
<1>1. /\ tx_cb \in BufStates /\ rx_cb \in BufStates /\ tx_fifo \in FifoStates /\ rx_fifo \in FifoStates
      /\ DEPTH \in Nat \ {0}
      /\ rx_length \in Nat /\ in_reg \in Byte /\ sr \in Byte /\ out_reg \in Byte
      /\ clk_div \in ClkDivs /\ new_rx_length \in Nat
  BY TypeFacts, Constants DEF IInv, SdPathTypeOK
<1>2. ASSUME NEW b \in BufStates, NEW f \in FifoStates
      PROVE  Empty(BufClear(b), sclr(f))
  <2> DEFINE c == BufClear(b)  g == sclr(f)
  <2>1. c \in BufStates /\ c.u_full = FALSE /\ c.l_full = FALSE
    <3>1. c = [b EXCEPT !.u_full = FALSE, !.l_full = FALSE]
      BY DEF BufClear
    <3> HIDE DEF c
    <3> QED BY <3>1 DEF BufStates
  <2>2. g \in FifoStates /\ g.wr_ptr = 0 /\ g.rd_ptr = 0 /\ g.full = FALSE
    <3>1. g = [f EXCEPT !.wr_ptr = 0, !.rd_ptr = 0, !.full = FALSE]
      BY DEF sclr
    <3>2. 0 \in 0..DEPTH-1
      BY <1>1
    <3> HIDE DEF g
    <3> QED BY <3>1, <3>2 DEF FifoStates
  <2> HIDE DEF c, g
  <2>3. Empty(c, g)
    BY <2>1, <2>2 DEF Empty
  <2> QED BY <2>3 DEF c, g
<1>3. Empty(tx_cb', tx_fifo') /\ Empty(rx_cb', rx_fifo')
  BY <1>1, <1>2 DEF Reset
<1>4. (Fresh)'
  BY <1>1, <1>3 DEF Fresh, Reset, ShifterReset
<1>5. (Fresh => IInv)'
  BY FreshInv, PTL
<1> QED BY <1>4, <1>5

LEMMA StutterKeeps ==
  ASSUME IInv, UNCHANGED vars
  PROVE  IInv'
<1> USE DEF vars, shifterVars, busVars, pathVars, ctrlVars, history, driverVars
<1>1. /\ (tx_len)' = tx_len /\ (rx_len)' = rx_len /\ (OutBit)' = OutBit /\ (OutLen)' = OutLen
      /\ (InLen)' = InLen /\ (Taken)' = Taken /\ (Base)' = Base /\ (Awaited)' = Awaited
      /\ (Sends)' = Sends /\ (Receives)' = Receives /\ (Writing)' = Writing /\ (Reading)' = Reading
      /\ (StatusPending)' = StatusPending /\ (Done)' = Done /\ (Began)' = Began
  BY DEF tx_len, rx_len, OutBit, OutLen, InLen, Taken, Base, Awaited, Sends, Receives, Writing,
         Reading, StatusPending, Done, Began
<1>2. SdPathTypeOK'
  BY DEF IInv, SdPathTypeOK, ShifterTypeOK
<1>3. StrobesTimed'
  BY DEF IInv, StrobesTimed
<1>4. OpAllowed'
  BY <1>1 DEF IInv, OpAllowed
<1>5. TxChain'
  BY <1>1 DEF IInv, TxChain
<1>6. RxChain'
  BY <1>1 DEF IInv, RxChain
<1>7. Counted'
  BY <1>1 DEF IInv, Counted
<1>8. TxRoom'
  BY <1>1 DEF IInv, TxRoom, Shown
<1>9. RxReady'
  BY <1>1 DEF IInv, RxReady, Shown
<1>10. Drained'
  BY <1>1 DEF IInv, Drained, Shown
<1> QED BY <1>2, <1>3, <1>4, <1>5, <1>6, <1>7, <1>8, <1>9, <1>10 DEF IInv

(* The inductive invariant holds of every behaviour.                       *)
THEOREM SdPathInductive == Spec => []IInv
<1>1. Init => IInv
  BY Starts
<1>2. IInv /\ [Next]_vars => IInv'
  BY ClockKeeps, ResetKeeps, StutterKeeps DEF Next
<1> QED BY <1>1, <1>2, PTL DEF Spec

(* Every byte goes out to the card in the order in which the driver wrote  *)
(* it, and every read of the data register latches the bytes that came in  *)
(* next, for every depth of the FIFOs, every length of a receive command,  *)
(* every clock divider and whenever a reset falls (sdcard.v, tx_cpu_buf.v, *)
(* rx_cpu_buf.v, fifo.v, shifter.v).                                       *)
THEOREM SdPathKeepsOrder == Spec => []BytesInOrder
<1>1. IInv => BytesInOrder
  <2> SUFFICES ASSUME IInv PROVE BytesInOrder
    OBVIOUS
  <2>1. TxInOrder
    BY DEF IInv, TxChain, TxInOrder, OutBit, One
  <2>2. RxInOrder
    BY DEF IInv, RxChain, RxInOrder, DataRead, Reading
  <2> QED BY <2>1, <2>2 DEF IInv, BytesInOrder
<1> QED BY <1>1, SdPathInductive, PTL

(* A status that shows the shifter idle and the adapter empty is true of   *)
(* the whole path, though it was put together from registers that empty    *)
(* one after the other: nothing written is still to be sent, a receive     *)
(* command has run to its end, and what is unread is waiting to be read    *)
(* (sdcard.v's status register, shifter.v's busy).                         *)
THEOREM SdPathStatusTrue == Spec => []StatusTrue
<1>1. IInv => StatusTrue
  <2> SUFFICES ASSUME IInv, StatusRead, ~Shown("busy"), Shown("tx_empty")
               PROVE  /\ pending = 0 /\ due = 0
                      /\ unread = rx_len + (IF out_full THEN 1 ELSE 0)
    BY DEF StatusTrue
  <2>1. StatusPending /\ op.reg # "DATA"
    BY DEF StatusRead, StatusPending
  <2>2. Done
    BY <2>1 DEF IInv, Drained
  <2>3. Taken = 0 /\ Awaited = 0 /\ InLen = (IF out_full THEN 1 ELSE 0) /\ rx_len \in Nat
    BY <2>1, <2>2, RxFacts DEF IInv, Done, Taken, Reading, Awaited, InLen, One
  <2>4. unread = Taken + Awaited + InLen + rx_len
    BY DEF IInv, Counted
  <2>5. unread = rx_len + (IF out_full THEN 1 ELSE 0)
    BY <2>3, <2>4
  <2> QED BY <2>2, <2>5 DEF Done
<1> QED BY <1>1, SdPathInductive, PTL
=============================================================================
