----------------------------- MODULE MapromTool -----------------------------
(***************************************************************************)
(* The programs that use the turbomem board on the Amiga: diag_point       *)
(* (turbomem.c), which expansion.library calls while the machine boots,    *)
(* and the Shell tools maprom and TestAddTurboMem, which several Shells    *)
(* may run at once.  Between any two steps of one of them another may run, *)
(* or an interrupt, unless interrupts are off; and the machine may be      *)
(* reset.                                                                  *)
(*                                                                         *)
(* An address is a longword of the two ROM banks, the boot bank first; a   *)
(* word has as many values as two times HALF.                              *)
(***************************************************************************)
EXTENDS TurbomemAdd

CONSTANTS
  Shells, Diag,       (* the tasks: Shells, and the one that boots          *)
  LEN,                (* longwords in a bank                                *)
  HALF,               (* of the values of a longword: 2^31                  *)
  Roms, Noise,        (* contents: a ROM's, and the shadow's at power-up    *)
  Images,             (* where the control register's decode matches        *)
  Arms,               (* words with its key in the high byte -> the bits    *)
  MaxFaults,          (* words of a copy that go astray in the SDRAM        *)
  MaxResets

Addr == 0..2*LEN-1
Banks == {"boot", "ext"}
Bank(a) == IF a < LEN THEN "boot" ELSE "ext"
Words == 0..2*HALF-1
Tasks == Shells \cup {Diag}
Nobody == "nobody"
Controls == SUBSET {"load", "active"}
NotArming == {"no key"}

ASSUME SizeAssumption ==
  LEN \in Nat \ {0} /\ HALF \in Nat \ {0} /\ MaxFaults \in Nat /\ MaxResets \in Nat
ASSUME ContentAssumption ==
  /\ Roms \subseteq [Addr -> Words] /\ Noise \subseteq [Addr -> Words]
  /\ Images \subseteq Addr
ASSUME TaskAssumption == Nobody \notin Tasks /\ Diag \notin Shells
ASSUME KeyAssumption == Arms \in [Words -> Controls \cup {NotArming}]

VARIABLES
  rom, shadow,
  window,             (* is there a board with the status window?           *)
  ctrl,               (* its mapROM control register                        *)
  boot,               (* "cold", "diag", "up"                               *)
  tool,               (* each task: where it is, and its local variables    *)
  disabled,           (* who has interrupts off                             *)
  faults, resets,
  fooled              (* history: a check has passed over a collision       *)

boardVars == <<rom, shadow, window, ctrl>>
vars == <<boardVars, addVars, boot, tool, disabled, faults, resets, fooled>>

Zero == [b \in Banks |-> 0]
Rest == [at |-> "rest", k |-> 0, sum |-> Zero, got |-> Zero, word |-> 0]

Places == {"rest", "probe", "alloc", "find", "sum", "load", "read", "write",
           "close", "disable", "arm", "check", "decide", "enable", "exit", "done"}

Programs == [at : Places, k : 0..2*LEN, sum : [Banks -> Words], got : [Banks -> Words],
             word : Words]

ToolTypeOK ==
  /\ rom \in Roms /\ shadow \in [Addr -> Words] /\ window \in BOOLEAN
  /\ ctrl \in Controls /\ boot \in {"cold", "diag", "up"}
  /\ tool \in [Tasks -> Programs]
  /\ disabled \in Tasks \cup {Nobody}
  /\ faults \in 0..MaxFaults /\ resets \in 0..MaxResets /\ fooled \in BOOLEAN

Init ==
  /\ AddInit
  /\ rom \in Roms /\ shadow \in Noise /\ window \in BOOLEAN /\ ctrl = {}
  /\ boot = "cold" /\ tool = [t \in Tasks |-> Rest] /\ disabled = Nobody
  /\ faults = 0 /\ resets = 0 /\ fooled = FALSE

-----------------------------------------------------------------------------
(* The board.                                                              *)

Reads(a) == IF "active" \in ctrl THEN shadow[a] ELSE rom[a]

(* A write to the banks: into the shadow while LOAD is on; and into the    *)
(* control register, if address and word happen to look like it.           *)
Lands(a, w) ==
  \/ shadow' = (IF "load" \in ctrl THEN [shadow EXCEPT ![a] = w] ELSE shadow)
     /\ UNCHANGED faults
  \/ /\ faults < MaxFaults /\ faults' = faults + 1 /\ "load" \in ctrl
     /\ \/ UNCHANGED shadow
        \/ \E b \in Addr : shadow' = [shadow EXCEPT ![b] = w]
Looks(a, w) ==
  ctrl' = IF a \in Images /\ Arms[w] # NotArming THEN Arms[w] ELSE ctrl

-----------------------------------------------------------------------------
(* One step of task t: from a place in the program to the next.            *)

At(t, p) == /\ tool[t].at = p /\ disabled \in {Nobody, t}
Goes(t, p) == tool' = [tool EXCEPT ![t].at = p, ![t].k = 0]
Steady == UNCHANGED <<rom, window, boot, fold, old_exec, resets>>
Quiet == Steady /\ UNCHANGED fooled
Bus == UNCHANGED <<shadow, faults>>
Memory == UNCHANGED <<names, kept, no_mem>>
Only == Quiet /\ Memory

ctrl_write(bits) == ctrl' = bits /\ Bus

(* turbomem_add, called by diag_point and by TestAddTurboMem.  diag_point  *)
(* goes on to maprom_fill whatever it returns.                             *)
Probe(t) ==
  /\ At(t, "probe")
  /\ IF old_exec \/ ~Passes
     THEN Goes(t, IF t = Diag THEN "find" ELSE "exit") /\ UNCHANGED names
     ELSE IF t = Diag
     THEN Goes(t, "find") /\ AddMemList(<<"image", t>>)
     ELSE Goes(t, "alloc") /\ UNCHANGED names
  /\ UNCHANGED <<ctrl, disabled, kept, no_mem>> /\ Bus /\ Quiet

\* mutant: the Shell tool passes the literal on
AllocNameLiteral(t) ==
  /\ At(t, "alloc")
  /\ AddMemList(<<"text", t>>) /\ UNCHANGED no_mem
  /\ Goes(t, "exit") /\ UNCHANGED <<ctrl, disabled, kept>> /\ Bus /\ Quiet

AllocName(t) ==
  /\ At(t, "alloc")
  /\ \/ AddMemList(<<"heap", t>>) /\ UNCHANGED no_mem
     \/ AddMemList(<<"text", t>>) /\ no_mem' = TRUE
  /\ Goes(t, "exit") /\ UNCHANGED <<ctrl, disabled, kept>> /\ Bus /\ Quiet

(* find_board, and the check that mapROM is not active already, which      *)
(* maprom_fill does without.                                               *)
FindBoard(t) ==
  /\ At(t, "find")
  /\ Goes(t, IF window /\ (t = Diag \/ "active" \notin ctrl) THEN "sum" ELSE "exit")
  /\ UNCHANGED <<ctrl, disabled>> /\ Bus /\ Only

(* sum_bank, mr_sum: the sum so far rotated by a bit, and the next word,   *)
(* modulo the values of a word; at the head of a bank the sum is 0.        *)
rotated(s) == IF s < HALF THEN 2*s ELSE 2*(s - HALF) + 1
Mix(s, w) ==
  LET x == rotated(s) + w
  IN  IF x < 2*HALF THEN x ELSE x - 2*HALF
Folded(s, k, w) == Mix(IF k \in {0, LEN} THEN 0 ELSE s, w)

(* On to the next longword of the two banks, or to the next place.         *)
Further(p, next) ==
  IF p.k + 1 \in Addr THEN [p EXCEPT !.k = p.k + 1] ELSE [p EXCEPT !.k = 0, !.at = next]

(* Both banks are summed, a longword a step.                               *)
Sum(t) ==
  /\ At(t, "sum")
  /\ LET p == tool[t]
         s == [p.sum EXCEPT ![Bank(p.k)] = Folded(@, p.k, Reads(p.k))]
     IN  tool' = [tool EXCEPT ![t] = Further([p EXCEPT !.sum = s], "load")]
  /\ UNCHANGED <<ctrl, disabled>> /\ Bus /\ Only

Load(t) ==
  At(t, "load") /\ Goes(t, "read") /\ ctrl_write({"load"}) /\ UNCHANGED disabled /\ Only

(* copy_bank, mr_copy: the read and the write of a longword.               *)
CopyRead(t) ==
  /\ At(t, "read")
  /\ tool' = [tool EXCEPT ![t].word = Reads(tool[t].k), ![t].at = "write"]
  /\ UNCHANGED <<ctrl, disabled>> /\ Bus /\ Only

CopyWrite(t) ==
  /\ At(t, "write")
  /\ LET p == tool[t]
     IN  /\ Lands(p.k, p.word) /\ Looks(p.k, p.word)
         /\ tool' = [tool EXCEPT ![t] =
              [p EXCEPT !.word = 0, !.k = IF p.k + 1 \in Addr THEN p.k + 1 ELSE 0,
                        !.at = IF p.k + 1 \in Addr THEN "read" ELSE "close"]]
  /\ UNCHANGED disabled /\ Only

Close(t) ==
  At(t, "close") /\ Goes(t, "disable") /\ ctrl_write({}) /\ UNCHANGED disabled /\ Only

\* mutant: interrupts stay on
DisableNot(t) ==
  /\ At(t, "disable") /\ UNCHANGED disabled
  /\ Goes(t, "arm") /\ UNCHANGED ctrl /\ Bus /\ Only

Disable(t) ==
  /\ At(t, "disable") /\ disabled' = t
  /\ Goes(t, "arm") /\ UNCHANGED ctrl /\ Bus /\ Only

Arm(t) ==
  At(t, "arm") /\ Goes(t, "check") /\ ctrl_write({"active"}) /\ UNCHANGED disabled /\ Only

(* Both banks are summed again, with interrupts off.                       *)
Check(t) ==
  /\ At(t, "check")
  /\ LET p == tool[t]
         s == [p.got EXCEPT ![Bank(p.k)] = Folded(@, p.k, Reads(p.k))]
     IN  tool' = [tool EXCEPT ![t] = Further([p EXCEPT !.got = s], "decide")]
  /\ UNCHANGED <<ctrl, disabled>> /\ Bus /\ Only

\* mutant: the boot bank alone
badBoot(t) == {b \in {"boot"} : tool[t].got[b] # tool[t].sum[b]}

bad(t) == {b \in Banks : tool[t].got[b] # tool[t].sum[b]}

(* The sums after each word of contents c, and contents whose banks end in *)
(* the same sums with two words of a bank apart: what the check may miss.  *)
Sums(c) ==
  {f \in [Addr -> Words] : \A a \in Addr : f[a] = Folded(IF a = 0 THEN 0 ELSE f[a-1], a, c[a])}
Collide(c, d) ==
  /\ \E f \in Sums(c), g \in Sums(d) : f[LEN-1] = g[LEN-1] /\ f[2*LEN-1] = g[2*LEN-1]
  /\ \E a, b \in Addr : a # b /\ Bank(a) = Bank(b) /\ c[a] # d[a] /\ c[b] # d[b]

Fools(t) == fooled' = (fooled \/ (bad(t) = {} /\ Collide(rom, shadow)))

\* mutant: back early from a failure
DecideReturns(t) ==
  /\ At(t, "decide") /\ Goes(t, IF bad(t) # {} THEN "exit" ELSE "enable")
  /\ ctrl_write(IF bad(t) # {} THEN {} ELSE ctrl)
  /\ Fools(t) /\ UNCHANGED disabled /\ Steady /\ Memory

Decide(t) ==
  /\ At(t, "decide") /\ Goes(t, "enable")
  /\ ctrl_write(IF bad(t) # {} THEN {} ELSE ctrl)
  /\ Fools(t) /\ UNCHANGED disabled /\ Steady /\ Memory

Enable(t) ==
  /\ At(t, "enable") /\ disabled' = Nobody
  /\ Goes(t, "exit") /\ UNCHANGED ctrl /\ Bus /\ Only

(* diag_point returns 1, whatever happened: expansion.library would free   *)
(* the image if it returned 0.                                             *)
\* mutant: taken for an error code, 0 for success
returnsCount == IF names = {} THEN 1 ELSE 0

returns == 1

Exit(t) ==
  /\ At(t, "exit")
  /\ tool' = [tool EXCEPT ![t] = [Rest EXCEPT !.at = "done"]]
  /\ IF t = Diag THEN boot' = "up" /\ kept' = (returns # 0)
                 ELSE UNCHANGED <<boot, kept>>
  /\ UNCHANGED <<rom, window, ctrl, disabled, fold, old_exec, resets, fooled, names, no_mem>> /\ Bus

(* A Shell starts a program: maprom, maprom OFF, maprom STATUS, which      *)
(* reports the register, or TestAddTurboMem.                               *)
Starts(t, p) == boot = "up" /\ t # Diag /\ At(t, "rest") /\ Goes(t, p) /\ UNCHANGED disabled /\ Only
Maprom(t) == Starts(t, "find") /\ ctrl_write(ctrl)
TurnOff(t) == Starts(t, "exit") /\ ctrl_write(IF window THEN {} ELSE ctrl)
Status(t) == Starts(t, "exit") /\ ctrl_write(ctrl)
TestAddTurboMem(t) == Starts(t, "probe") /\ ctrl_write(ctrl)

(* expansion.library has copied the image and calls diag_point.            *)
BootDiag ==
  /\ boot = "cold" /\ boot' = "diag" /\ kept' = TRUE
  /\ tool' = [tool EXCEPT ![Diag].at = "probe"]
  /\ UNCHANGED <<boardVars, fold, old_exec, names, no_mem, disabled, faults, resets, fooled>>

(* The register and exec's lists go; ROM and SDRAM stay.                   *)
Reset ==
  /\ boot # "cold" /\ resets < MaxResets /\ resets' = resets + 1
  /\ boot' = "cold" /\ tool' = [t \in Tasks |-> Rest] /\ disabled' = Nobody
  /\ ctrl' = {} /\ names' = {} /\ kept' = FALSE /\ no_mem' = FALSE /\ fooled' = FALSE
  /\ UNCHANGED <<rom, shadow, window, fold, old_exec, faults>>

Step(t) ==
  \/ Probe(t) \/ AllocName(t) \/ FindBoard(t) \/ Sum(t) \/ Load(t)
  \/ CopyRead(t) \/ CopyWrite(t) \/ Close(t) \/ Disable(t) \/ Arm(t)
  \/ Check(t) \/ Decide(t) \/ Enable(t) \/ Exit(t)

Next ==
  \/ \E t \in Tasks : Step(t)
  \/ \E t \in Shells : Maprom(t) \/ TurnOff(t) \/ Status(t) \/ TestAddTurboMem(t)
  \/ BootDiag \/ Reset

Spec == Init /\ [][Next]_vars

(* exec gives every ready task its turn once interrupts are on again.      *)
FairSpec == Spec /\ \A t \in Tasks : WF_vars(Step(t))

-----------------------------------------------------------------------------
(* Properties.                                                             *)

(* No word of the ROM looks like the register's key where it would be      *)
(* taken for it.                                                           *)
Clean == \A a \in Images : Arms[rom[a]] = NotArming

(* Code in the ROM may run: an interrupt, the OS, another task; or Enable, *)
(* which is in the ROM too.                                                *)
RomRuns == disabled = Nobody \/ tool[disabled].at = "enable"

(* "From that instruction onwards every ROM fetch comes from the shadow,   *)
(* so if the shadow is wrong the next OS call executes garbage"            *)
(* (maprom.c:25-27): whenever ROM code may run from the shadow, the shadow *)
(* is the ROM - whatever it held, however many programs copy, check and    *)
(* switch off at once, wherever a reset or a stray write strikes - unless  *)
(* since the reset a check has taken a shadow with two words of a bank     *)
(* wrong whose checksums are the ROM's.                                    *)
RomServed ==
  ToolTypeOK /\ (Clean /\ ~fooled /\ RomRuns /\ "active" \in ctrl => shadow = rom)

(* Memory is added only if the window answers every probe from a cell of   *)
(* its own, and its name stays in memory that nobody frees, unless         *)
(* AllocMem has failed (turbomem.c:150-158, 208-220, 413-428).             *)
Alive(name) ==
  /\ name[1] = "image" => kept
  /\ name[1] = "text" => no_mem \/ tool[name[2]].at # "done"
MemoryAdded == AddTypeOK /\ (names # {} => Whole) /\ \A n \in names : Alive(n)

(* Every program that is started ends, unless the machine is reset; and it *)
(* leaves interrupts on.                                                   *)
ToolsEnd ==
  \A t \in Tasks : tool[t].at # "rest" ~> (tool[t].at \in {"rest", "done"} /\ disabled # t)
=============================================================================
