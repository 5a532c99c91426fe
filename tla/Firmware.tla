------------------------------ MODULE Firmware ------------------------------
(***************************************************************************)
(* The firmware of the TG68 gateware: the constructors and main run one    *)
(* after the other.  The C library keeps no state from one call to the     *)
(* next, so that it is enough to start with a call of it, any one, from    *)
(* _INIT_1_MemCheck, before the card driver starts (_INIT_3_SPI).          *)
(***************************************************************************)
EXTENDS SpiCard

CONSTANTS LOGW, SHORTLOGW, MAXMEMBIT, LibraryCalls

Lib == INSTANCE Library

VARIABLES
  call,               (* the call of the library that is running           *)
  result              (* what it has computed                              *)

firmwareVars == <<vars, call, result>>

Returned == [fn |-> "returned"]
NoResult == [nothing |-> TRUE]

Computed == {<<c, Lib!Compute(c)>> : c \in LibraryCalls}

FirmwareInit == Init /\ \E c \in Computed : call = c[1] /\ result = c[2]

LibraryReturns ==
  /\ call # Returned /\ call' = Returned /\ result' = NoResult
  /\ UNCHANGED vars

Driver == call = Returned /\ UNCHANGED <<call, result>>

FirmwareRuns == LibraryReturns \/ (Running /\ Driver)
FirmwareNext == FirmwareRuns \/ ((Insert \/ Call \/ CardFinishes) /\ Driver)
FirmwareSpec == FirmwareInit /\ [][FirmwareNext]_firmwareVars /\ WF_firmwareVars(FirmwareRuns)

-----------------------------------------------------------------------------
(* Every function computes what C, the card's and the boards' layouts and  *)
(* its callers make of it, for the arguments the firmware has: quotients   *)
(* by the radix of a number, the text of a format, tokens and numbers, the *)
(* size of memory and card, the lanes of a ROM, and what is read of a      *)
(* board, whose window may show something else than a DiagArea.            *)
LibraryRight == call # Returned => Lib!Right(call, result)
=============================================================================
