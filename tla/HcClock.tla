------------------------------- MODULE HcClock -------------------------------
(***************************************************************************)
(* The clock driver, src/hc32l13x/driver/src/sysctrl.c: which sources run, *)
(* which of them drives the CPU, and the registers on the way to HCLK.     *)
(*                                                                         *)
(* A call is the list of register operations it makes in order.  SYSCTRL0  *)
(* and SYSCTRL1 take one write after each _SysctrlUnlock; an interrupt can *)
(* come between the two, and calls Sysctrl_SetPeripheralGate or            *)
(* Sysctrl_SetFunc.  Frequencies are in MHz.                               *)
(***************************************************************************)
EXTENDS Integers, Sequences

CONSTANTS
  Source,   \* the sources on the board, of "RCH", "XTH", "RCL", "XTL", "PLL"
  Freq,     \* [Source \ {"RCH", "PLL"} -> Nat]: the fixed frequencies
  Trims,    \* the frequencies the application trims RCH to
  Muls,     \* the multipliers it asks of the PLL
  MaxPrs    \* bound: the largest HCLK_PRS it sets

Crystal == {"XTH", "XTL"} \cap Source

ASSUME SourceAssumption ==
  /\ {"RCH"} \subseteq Source /\ Source \subseteq {"RCH", "XTH", "RCL", "XTL", "PLL"}
  /\ Freq \in [Source \ {"RCH", "PLL"} -> Nat]
ASSUME TuningAssumption ==
  Trims \subseteq {4, 8, 16, 22, 24} /\ 4 \in Trims /\ Muls \subseteq 2 .. 12 /\ MaxPrs \in 0 .. 7

VARIABLES
  en,       \* the sources whose xx_EN is set
  stable,   \* those whose STABLE bit is set
  broken,   \* the crystals that do not start
  clksw,    \* SYSCTRL0.CLKSW
  prs,      \* SYSCTRL0.HCLK_PRS
  trim,     \* RCH_CR.TRIM, as the frequency it gives
  pll,      \* PLL_CR: DIVN and REFSEL
  gate,     \* PERI_CLKEN: of the gates, those open
  unlocked, \* SYSCTRL0 and SYSCTRL1 take a write
  core,     \* SystemCoreClock
  todo,     \* what the call in progress has yet to do
  pc,       \* where it is in the first of them
  temp,     \* u32Temp, or what SetBit has loaded
  wanted,   \* history: the gates as the calls of Sysctrl_SetPeripheralGate left them
  clobbered,\* history: an interrupt moved a gate while the main program holds a copy
  usurped,  \* history: in this call an interrupt wrote between an unlock and its write
  retuned,  \* history: HCLK's path changed since SystemCoreClockUpdate
  trimmed,  \* history: RCH was trimmed since Sysctrl_SetPLLFreq accepted a multiplier
  misused   \* history: this call was given a source it stops the CPU with

reg  == << en, stable, clksw, prs, trim, pll >>
main == << todo, pc, temp >>
hist == << wanted, clobbered, usurped, retuned, trimmed, misused >>
vars == << reg, broken, gate, unlocked, core, main, hist >>

Gate == {"GPIO", "ADC"}

\* The gate a source needs open while it is switched.
GateOf(s) == IF s \in Crystal THEN {"GPIO"} ELSE IF s = "PLL" THEN {"ADC"} ELSE {}

PllFreq == (IF pll.ref = "RCH" THEN trim ELSE Freq[pll.ref]) * pll.mul

\* What each value of HCLK_PRS divides by, SysctrlHclkDiv1 to SysctrlHclkDiv128.
HclkDiv == << 1, 2, 4, 8, 16, 32, 64, 128 >>

\* Sysctrl_GetHClkFreq with CLKSW at s.
HClkFreq(s) ==
  (IF s = "RCH" THEN trim ELSE IF s = "PLL" THEN PllFreq ELSE Freq[s]) \div HclkDiv[prs + 1]

Enable(s, b) == [op |-> "enable", src |-> s, on |-> b]
Switch(s)    == [op |-> "switch", src |-> s]
Div(n)       == [op |-> "div", prs |-> n]
SetGate(g, b) == [op |-> "gate", gate |-> g, on |-> b]

\* What Sysctrl_ClkDeInit switches off; the board may lack a source.
Off(s) == IF s \in Source THEN << Enable(s, FALSE) >> ELSE << >>
Offs == Off("XTH") \o Off("RCL") \o Off("XTL") \o Off("PLL")

\* The CPU executes as long as its clock runs.
Alive == clksw \in stable
Doing(o, p) == Alive /\ todo # << >> /\ todo[1].op = o /\ pc = p
Done == todo' = Tail(todo) /\ pc' = "begin"

-----------------------------------------------------------------------------
(* The hardware.                                                             *)

Starts(s) == s \notin broken /\ (s = "PLL" => pll.ref \in stable)

Stabilise ==
  /\ \E s \in en \ stable : Starts(s) /\ stable' = stable \cup {s}
  /\ UNCHANGED << en, clksw, prs, trim, pll, broken, gate, unlocked, core, main, hist >>

\* What still runs once only the sources of E are enabled.
Left(E) == {s \in stable \cap E : s = "PLL" => pll.ref \in E}

-----------------------------------------------------------------------------
(* The operations of the call in progress.                                   *)

Unlock ==
  /\ Alive /\ todo # << >> /\ pc = "begin" /\ todo[1].op # "gate"
  /\ unlocked' = TRUE
  /\ pc' = IF todo[1].op = "enable" THEN "save" ELSE "write"
  /\ UNCHANGED << reg, broken, gate, core, todo, temp, hist >>

\* Sysctrl_ClkSourceEnable keeps PERI_CLKEN and opens the gate it needs.
EnableSave ==
  /\ Doing("enable", "save")
  /\ temp' = gate
  /\ gate' = gate \cup GateOf(todo[1].src)
  /\ pc' = "write"
  /\ UNCHANGED << reg, broken, unlocked, core, todo, hist >>

\* Mutant: STABLE is waited for when the source is switched off, too.
EnableWaitAlways ==
  /\ Doing("enable", "write")
  /\ unlocked' = FALSE
  /\ en' = IF ~unlocked THEN en
           ELSE IF todo[1].on THEN en \cup {todo[1].src} ELSE en \ {todo[1].src}
  /\ stable' = Left(en')
  /\ pc' = "wait"
  /\ UNCHANGED << clksw, prs, trim, pll, broken, gate, core, todo, temp, hist >>

\* A locked register ignores the write.
EnableWrite ==
  /\ Doing("enable", "write")
  /\ unlocked' = FALSE
  /\ en' = IF ~unlocked THEN en
           ELSE IF todo[1].on THEN en \cup {todo[1].src} ELSE en \ {todo[1].src}
  /\ stable' = Left(en')
  /\ pc' = IF todo[1].on THEN "wait" ELSE "restore"
  /\ UNCHANGED << clksw, prs, trim, pll, broken, gate, core, todo, temp, hist >>

EnableWait ==
  /\ Doing("enable", "wait") /\ todo[1].src \in stable
  /\ pc' = "restore"
  /\ UNCHANGED << reg, broken, gate, unlocked, core, todo, temp, hist >>

\* Mutant: PERI_CLKEN is left as it is.
EnableNoRestore ==
  /\ Doing("enable", "restore")
  /\ temp' = {} /\ Done
  /\ UNCHANGED << reg, broken, gate, unlocked, core, hist >>

\* What an interrupt did to the gates since they were saved is undone.
EnableRestore ==
  /\ Doing("enable", "restore")
  /\ gate' = temp
  /\ wanted' = (IF clobbered THEN gate' ELSE wanted) /\ clobbered' = FALSE
  /\ temp' = {} /\ Done
  /\ UNCHANGED << reg, broken, unlocked, core, usurped, retuned, trimmed, misused >>

\* Mutant: SystemCoreClock is computed before the switch.
SwitchUpdateFirst ==
  /\ Doing("switch", "write")
  /\ clksw' = IF unlocked THEN todo[1].src ELSE clksw
  /\ unlocked' = FALSE
  /\ core' = HClkFreq(clksw) /\ retuned' = FALSE
  /\ Done
  /\ UNCHANGED << en, stable, prs, trim, pll, broken, gate, temp, wanted, clobbered, usurped,
                  trimmed, misused >>

\* Sysctrl_SysClkSwitch, with SystemCoreClockUpdate.
SwitchWrite ==
  /\ Doing("switch", "write")
  /\ clksw' = IF unlocked THEN todo[1].src ELSE clksw
  /\ unlocked' = FALSE
  /\ core' = HClkFreq(clksw') /\ retuned' = FALSE
  /\ Done
  /\ UNCHANGED << en, stable, prs, trim, pll, broken, gate, temp, wanted, clobbered, usurped,
                  trimmed, misused >>

\* Sysctrl_SetHCLKDiv.
DivWrite ==
  /\ Doing("div", "write")
  /\ prs' = IF unlocked THEN todo[1].prs ELSE prs
  /\ unlocked' = FALSE
  /\ retuned' = (retuned \/ prs' # prs)
  /\ Done
  /\ UNCHANGED << en, stable, clksw, trim, pll, broken, gate, core, temp, wanted, clobbered,
                  usurped, trimmed, misused >>

\* Sysctrl_SetPeripheralGate: SetBit loads the register and stores it.
GateLoad ==
  /\ Doing("gate", "begin")
  /\ temp' = gate
  /\ pc' = "store"
  /\ UNCHANGED << reg, broken, gate, unlocked, core, todo, hist >>

Moved(set, g, b) == IF b THEN set \cup {g} ELSE set \ {g}

GateStore ==
  /\ Doing("gate", "store")
  /\ gate' = Moved(temp, todo[1].gate, todo[1].on)
  /\ wanted' = (IF clobbered THEN gate' ELSE Moved(wanted, todo[1].gate, todo[1].on))
  /\ clobbered' = FALSE
  /\ temp' = {} /\ Done
  /\ UNCHANGED << reg, broken, unlocked, core, usurped, retuned, trimmed, misused >>

-----------------------------------------------------------------------------
(* The interrupt.                                                            *)

\* The main program will store PERI_CLKEN as it has read it.
Holding ==
  /\ todo # << >> /\ todo[1].op \in {"enable", "gate"}
  /\ pc \in {"write", "wait", "restore", "store"}

IsrGate ==
  /\ Alive
  /\ \E g \in Gate, b \in BOOLEAN :
       gate' = Moved(gate, g, b) /\ wanted' = Moved(wanted, g, b)
  /\ clobbered' = (clobbered \/ Holding)
  /\ UNCHANGED << reg, broken, unlocked, core, main, usurped, retuned, trimmed, misused >>

\* Sysctrl_SetFunc unlocks, writes, and leaves the registers locked.
IsrSetFunc ==
  /\ Alive
  /\ unlocked' = FALSE
  /\ usurped' = (usurped \/ unlocked)
  /\ UNCHANGED << reg, broken, gate, core, main, wanted, clobbered, retuned, trimmed, misused >>

-----------------------------------------------------------------------------
(* The calls of the main program, whichever sources it names.                *)

\* What the CPU's clock comes from.
InUse == {clksw} \cup (IF clksw = "PLL" THEN {pll.ref} ELSE {})

Idle == Alive /\ todo = << >>
Begin(ops) ==
  /\ Idle /\ todo' = ops /\ pc' = "begin" /\ temp' = {}
  /\ usurped' = FALSE
  /\ UNCHANGED << en, stable, clksw, prs, pll, broken, gate, unlocked, core, wanted, clobbered >>

\* None of the calls looks at what the CPU runs on.
ClkSourceEnable(s, b) ==
  /\ Begin(<< Enable(s, b) >>)
  /\ misused' = (~b /\ s \in InUse)
  /\ UNCHANGED << trim, retuned, trimmed >>

Sysctrl_SysClkSwitch(s) ==
  /\ Begin(<< Switch(s) >>)
  /\ misused' = (s \notin stable)
  /\ UNCHANGED << trim, retuned, trimmed >>

\* The dividers come last, after SystemCoreClock has been computed.
ClkInit(s, n) ==
  /\ Begin(<< Enable(s, TRUE), Switch(s), Div(n) >>)
  /\ misused' = FALSE /\ UNCHANGED << trim, retuned, trimmed >>

Sysctrl_SetHCLKDiv(n) ==
  /\ Begin(<< Div(n) >>)
  /\ misused' = FALSE /\ UNCHANGED << trim, retuned, trimmed >>

Sysctrl_SetPeripheralGate(g, b) ==
  /\ Begin(<< SetGate(g, b) >>)
  /\ misused' = FALSE /\ UNCHANGED << trim, retuned, trimmed >>

SetTrim(f) ==
  /\ trim' = f
  /\ retuned' = (retuned \/ f # trim) /\ trimmed' = (trimmed \/ f # trim)

Sysctrl_SetRCHTrim(f) ==
  /\ Idle /\ SetTrim(f) /\ misused' = FALSE
  /\ UNCHANGED << en, stable, clksw, prs, pll, broken, gate, unlocked, core, main, wanted,
                  clobbered, usurped >>

\* Mutant: the sources are switched off before RCH is switched to.
ClkDeInitOffFirst ==
  /\ Begin(<< Enable("RCH", TRUE) >> \o Offs \o << Switch("RCH"), Div(0) >>)
  /\ SetTrim(4) /\ misused' = FALSE

ClkDeInit ==
  /\ Begin(<< Enable("RCH", TRUE), Switch("RCH") >> \o Offs \o << Div(0) >>)
  /\ SetTrim(4) /\ misused' = FALSE

\* Sysctrl_SetPLLFreq writes DIVN and REFSEL: the PLL goes on if the reference it
\* now has runs.
SetPLL(r, m) ==
  /\ pll' = [ref |-> r, mul |-> m]
  /\ stable' = IF r \in stable THEN stable ELSE stable \ {"PLL"}
  /\ misused' = (clksw = "PLL" /\ r \notin stable)
  /\ retuned' = (retuned \/ (clksw = "PLL" /\ pll' # pll)) /\ trimmed' = FALSE
  /\ UNCHANGED << en, clksw, prs, trim, broken, gate, unlocked, core, main, wanted,
                  clobbered, usurped >>

\* Mutant: 22.12 and 24 MHz are held to the limit of 16 MHz.
SetPLLFreqLax(r, m) ==
  /\ Idle
  /\ r = "RCH" => (trim = 8 => m <= 6) /\ (trim \in {16, 22, 24} => m <= 3)
  /\ r # "RCH" => Freq[r] * m <= 48
  /\ SetPLL(r, m)

\* A refused multiplier changes nothing.
SetPLLFreq(r, m) ==
  /\ Idle
  /\ r = "RCH" => (trim = 8 => m <= 6) /\ (trim = 16 => m <= 3) /\ (trim \in {22, 24} => m <= 2)
  /\ r # "RCH" => Freq[r] * m <= 48
  /\ SetPLL(r, m)

-----------------------------------------------------------------------------
\* Out of reset: RCH at 4 MHz, undivided, everything else off; what DIVN holds
\* is not known.
Init ==
  /\ en = {"RCH"} /\ stable = {"RCH"} /\ broken \in SUBSET Crystal
  /\ clksw = "RCH" /\ prs = 0 /\ trim = 4 /\ pll \in [ref : {"RCH"}, mul : Muls]
  /\ gate = {} /\ unlocked = FALSE /\ core = 4
  /\ todo = << >> /\ pc = "begin" /\ temp = {}
  /\ wanted = {} /\ clobbered = FALSE /\ usurped = FALSE
  /\ retuned = FALSE /\ trimmed = FALSE /\ misused = FALSE

Step ==
  \/ Unlock \/ EnableSave \/ EnableWrite \/ EnableWait \/ EnableRestore
  \/ SwitchWrite \/ DivWrite \/ GateLoad \/ GateStore

Call ==
  \/ \E s \in Source, b \in BOOLEAN : ClkSourceEnable(s, b)
  \/ \E s \in Source : Sysctrl_SysClkSwitch(s)
  \/ \E s \in Source, n \in 0 .. MaxPrs : ClkInit(s, n)
  \/ \E n \in 0 .. MaxPrs : Sysctrl_SetHCLKDiv(n)
  \/ \E g \in Gate, b \in BOOLEAN : Sysctrl_SetPeripheralGate(g, b)
  \/ \E f \in Trims : Sysctrl_SetRCHTrim(f)
  \/ \E r \in {"RCH", "XTH"} \cap Source, m \in Muls : SetPLLFreq(r, m)
  \/ ClkDeInit

Next == Stabilise \/ Step \/ IsrGate \/ IsrSetFunc \/ Call

Spec == Init /\ [][Next]_vars

\* The main program goes on between interrupts, and a clock that starts at all
\* becomes stable; nothing has to call or to interrupt.
FairSpec == Spec /\ WF_vars(Step) /\ WF_vars(Stabilise)

-----------------------------------------------------------------------------
(* Properties.                                                               *)

Op == {Enable(s, b) : s \in Source, b \in BOOLEAN} \cup {Switch(s) : s \in Source}
      \cup {Div(n) : n \in 0 .. MaxPrs} \cup {SetGate(g, b) : g \in Gate, b \in BOOLEAN}

TypeOK ==
  /\ en \subseteq Source /\ stable \subseteq en /\ broken \subseteq Crystal
  /\ clksw \in Source /\ prs \in 0 .. MaxPrs /\ trim \in Trims /\ core \in Nat
  /\ pll \in [ref : {"RCH", "XTH"} \cap Source, mul : Muls]
  /\ gate \subseteq Gate /\ temp \subseteq Gate /\ wanted \subseteq Gate
  /\ todo \in Seq(Op)
  /\ pc \in {"begin", "save", "write", "wait", "restore", "store"}
  /\ unlocked \in BOOLEAN /\ clobbered \in BOOLEAN /\ usurped \in BOOLEAN
  /\ retuned \in BOOLEAN /\ trimmed \in BOOLEAN /\ misused \in BOOLEAN

\* The CPU's clock never stops under it, unless the call names the wrong source
\* (it switches to one that is not running, switches off the one the CPU runs on
\* or the reference of its PLL, or gives that PLL a reference that is not running),
\* or an interrupt took the unlock of a write: Sysctrl_ClkDeInit then switches
\* off the source the CPU still runs on.
RunningSourceOn == ~usurped /\ ~misused => clksw \in stable

\* Between calls PERI_CLKEN is what Sysctrl_SetPeripheralGate asked for, less what
\* an interrupt asked for while the main program held a copy of the register.
GatesRestored == todo = << >> => gate = wanted

\* SystemCoreClock, which the delays divide by, is HCLK unless the dividers, the
\* trim or the PLL have changed since the last switch.
CoreClockFresh == ~retuned => core = HClkFreq(clksw)

\* The PLL is within its 48 MHz (sysctrl.c:575) as long as RCH has not been
\* trimmed since the multiplier was checked against it.
PllWithinLimit == ~trimmed => PllFreq <= 48

\* A call returns, unless the CPU's clock stops, the source it waits for cannot
\* start (a broken crystal, a PLL without its reference), or an interrupt took the
\* unlock of its enable.
CallsReturn ==
  todo # << >> ~>
    \/ todo = << >>
    \/ ~Alive
    \/ pc = "wait" /\ ~Starts(todo[1].src)
    \/ pc = "wait" /\ todo[1].src \notin en /\ usurped

=============================================================================
