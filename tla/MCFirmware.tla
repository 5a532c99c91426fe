----------------------------- MODULE MCFirmware -----------------------------
(* The firmware with small calls of its library.                           *)
EXTENDS Firmware, Sequences, FiniteSets

SeqUpTo(S, n) == UNION {[1..k -> S] : k \in 0..n}

(* Every divisor that is a word.                                           *)
MCDivisions == [fn : {"divide"}, d : 1..15]

(* Zero has no padding, and a negative number no width: none of the        *)
(* firmware's formats has either.                                          *)
Ints == {d \in [zero : BOOLEAN, width : {0, 1, 5, 8}, conv : {"d", "u", "x"},
                val : {0, 9, 10, 4095, 32768, 65535}] :
           /\ d.val = 0 => d.width <= 1
           /\ d.conv = "d" /\ d.val >= 32768 => d.width = 0}
Texts == [zero : {FALSE}, width : {0}, conv : {"s"}, val : {<<>>, <<"a", "b">>}]
         \cup [zero : {FALSE}, width : {0}, conv : {"c"}, val : {"z"}]
Unsigned == {d \in Ints : d.conv # "d"}
MCPrints ==
  [fn : {"printf"}, ds : {<<a>> : a \in Ints \cup Texts}
                         \cup {<<a, b>> : a \in Ints \cup Texts, b \in {d \in Ints : d.width # 8} \cup Texts}]
  \cup [fn : {"snprintf"}, size : 1..9, ds : {<<a, b>> : a \in Texts, b \in {d \in Unsigned : d.width = 5}}]

MCStrings ==
  [fn : {"strtok"}, s : SeqUpTo({"a", "b", ",", ";"}, 5), delim : {{",", ";"}, {","}}]
  \cup [fn : {"strtol"}, base : {8, 10, 16}, s : SeqUpTo({" ", "-", "0", "7", "9", "A", "f"}, 4)]

(* 32 megabytes of memory, which the board has, and 64.                    *)
MCSizes ==
  [fn : {"memcheck"}, bits : {23, 24}]
  \cup [fn : {"csd"}, version : {1}, size : {0, 1, 3, 1023, 4095}, mult : 0..7, len : 9..11, rest : {0, 1}]
  \cup [fn : {"csd"}, version : {2}, size : {0, 255, 256, 65535, 65536}, rest : {0, 1}]

MCTools ==
  [fn : {"romgen"}, len : 0..9, wordsize : {1, 2, 4}, lanes : 1..3, swap : BOOLEAN, limit : {0, 3, 4, 8}]
  \cup [fn : {"cfgdump"}, wide : {"word", "byte", "registers"}, config : {64, 144},
        size : {0, 24, 454, 40000, 60000}, name : {0, 20, 22, 39990, 59990}]

MCLibraryCalls == MCDivisions \cup MCPrints \cup MCStrings \cup MCSizes \cup MCTools
=============================================================================
