------------------------------ MODULE Shifter ------------------------------
(***************************************************************************)
(* shifter.v, the SPI shift register: a byte out and a byte in at a time,  *)
(* BITS of them (8 in the source), each bit two half periods of clk_div+1  *)
(* clocks.  A byte is one value: sr holds what goes out until the last bit *)
(* has been shifted, and what came in from then on.                        *)
(***************************************************************************)
EXTENDS Fifo

CONSTANT BITS

ASSUME ShifterAssumption == BITS \in Nat \ {0}

Modes == {"STOP", "RX", "TX", "BOTH"}

VARIABLES
  state, rx_length, clk_count, bit_count, SCLK,
  in_reg, in_full, sr, out_reg, out_full

shifterVars == <<state, rx_length, clk_count, bit_count, SCLK, in_reg, in_full,
                 sr, out_reg, out_full>>

ShifterTypeOK ==
  /\ state \in {"IDLE", "RESTART", "SHIFTING", "UNLOAD"}
  /\ {rx_length, clk_count} \subseteq Nat /\ bit_count \in 0..BITS-1
  /\ {SCLK, in_full, out_full} \subseteq BOOLEAN
  /\ {in_reg, sr, out_reg} \subseteq Byte

\* mutant: only the shifting itself counts as busy
busyShifting == state = "SHIFTING"
busy == state # "IDLE"

(* rx_length has no reset: it powers up with anything.                     *)
ShifterInit(lengths) ==
  /\ state = "IDLE" /\ in_full = FALSE /\ out_full = FALSE
  /\ clk_count = 0 /\ bit_count = 0 /\ SCLK = FALSE
  /\ rx_length \in lengths
  /\ in_reg = AnyByte /\ sr = AnyByte /\ out_reg = AnyByte

ShifterReset ==
  /\ state' = "IDLE" /\ in_full' = FALSE /\ out_full' = FALSE
  /\ clk_count' = 0 /\ bit_count' = 0 /\ SCLK' = FALSE
  /\ UNCHANGED <<rx_length, in_reg, sr, out_reg>>

TakeIn(wr_req, data_in) ==
  in_reg' = IF wr_req /\ ~in_full THEN data_in ELSE in_reg

(* IDLE, RESTART: a new length is accepted in IDLE only; then start.       *)
Begin(mode, set_rx_length, new_rx_length, wr_req, data_in, rd_req) ==
  LET rx == mode = "RX" /\ rx_length # 0
      tx == mode \in {"TX", "BOTH"} /\ in_full
  IN  /\ state \in {"IDLE", "RESTART"}
      /\ rx_length' = IF state = "IDLE" /\ set_rx_length
                      THEN new_rx_length ELSE rx_length
      /\ state' = IF rx \/ tx THEN "SHIFTING" ELSE "IDLE"
      /\ sr' = IF rx THEN AnyByte ELSE IF tx THEN in_reg ELSE sr
      /\ in_full' = (~tx /\ (in_full \/ wr_req))
      /\ TakeIn(wr_req, data_in) /\ out_full' = (out_full /\ ~rd_req)
      /\ UNCHANGED <<clk_count, bit_count, SCLK, out_reg>>

(* The last bit of a byte goes with the fall of SCLK.                      *)
HalfPeriod(clk_div) == state = "SHIFTING" /\ clk_count = clk_div
LastBit(clk_div) == HalfPeriod(clk_div) /\ SCLK /\ bit_count = BITS - 1

Shift(mode, clk_div, miso, wr_req, data_in, rd_req) ==
  /\ state = "SHIFTING"
  /\ clk_count' = IF HalfPeriod(clk_div) THEN 0 ELSE (clk_count + 1) % 256
  /\ SCLK' = (SCLK # HalfPeriod(clk_div))
  /\ bit_count' = IF HalfPeriod(clk_div) /\ SCLK THEN (bit_count + 1) % BITS
                  ELSE bit_count
  /\ IF LastBit(clk_div)
     THEN /\ sr' = miso
          /\ state' = IF mode \in {"RX", "BOTH"} THEN "UNLOAD" ELSE "RESTART"
     ELSE UNCHANGED <<sr, state>>
  /\ in_full' = (in_full \/ wr_req) /\ TakeIn(wr_req, data_in)
  /\ out_full' = (out_full /\ ~rd_req)
  /\ UNCHANGED <<rx_length, out_reg>>

Unload(mode, wr_req, data_in, rd_req) ==
  /\ state = "UNLOAD"
  /\ IF out_full
     THEN UNCHANGED <<state, out_reg, rx_length>> /\ out_full' = ~rd_req
     ELSE /\ out_reg' = sr /\ out_full' = TRUE /\ state' = "RESTART"
          /\ rx_length' = IF mode = "RX" THEN (rx_length - 1) % 8192 ELSE rx_length
  /\ in_full' = (in_full \/ wr_req) /\ TakeIn(wr_req, data_in)
  /\ UNCHANGED <<clk_count, bit_count, SCLK, sr>>
=============================================================================
