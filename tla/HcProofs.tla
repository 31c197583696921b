------------------------------ MODULE HcProofs ------------------------------
(***************************************************************************)
(* The HC32 drivers.  Flash, for every time-out: type correctness, that no *)
(* call does another call's operation, that Ok means done, and that the    *)
(* sectors are locked between calls.  Clocks, for every board and every    *)
(* choice of trims, multipliers and dividers: type correctness, that the   *)
(* source the CPU runs on stays on, that the gates are restored, and that  *)
(* SystemCoreClock and the PLL's limit hold until something is retuned.    *)
(***************************************************************************)
EXTENDS HcFlash, HcClock, SequenceTheorems, TLAPS

-----------------------------------------------------------------------------
(* The flash driver.                                                          *)

\* From where CR.OP has been read back as the call's own to the store.
Checked == flashPc = "store" \/ (flashPc \in {"unlock", "unlockWrite"} /\ ~UnlocksFirst(call))

\* From Flash_UnlockAll to the store.
Unlocked == flashPc = "store" \/ (flashPc \in {"op", "opWrite"} /\ UnlocksFirst(call))

\* Between the two loops on BUSY nothing starts the flash.
BeforeStore == flashPc \in {"op", "opWrite", "unlock", "unlockWrite", "store"}

\* What the three properties need to be inductive: what the store finds, what it
\* leaves behind, and whom an open sector at the next call is owed to.
FlashInv ==
  /\ OnlyWhatIsAsked
  /\ Checked => op = Mode(call)
  /\ BeforeStore => ~busy /\ started = "nothing"
  /\ Unlocked /\ ~unlockRobbed => open
  /\ flashPc \in {"wait", "lock", "lockWrite"} /\ ~unlockRobbed => started = Mode(call)
  /\ flashPc \in {"lock", "lockWrite"} => ~busy
  /\ started # "nothing" => busy \/ done = started
  /\ flashPc = "busy" => started = "nothing" /\ (open => timedOut \/ lockRobbed)
  /\ OkMeansDone
  /\ LockedBetweenCalls

\* Every call has an operation of its own, which is not reading.
LEMMA ModeType == \A c \in FlashCall : Mode(c) \in Modes /\ Mode(c) # "Read" /\ Mode(c) # "nothing"
BY DEF FlashCall, Mode, Modes

LEMMA FlashTypeInit == FlashInit => FlashTypeOK
<1> SUFFICES ASSUME FlashInit PROVE FlashTypeOK
  OBVIOUS
<1>1. 0 \in 0 .. TimeOut
  BY TimeOutAssumption
<1> QED BY <1>1 DEF FlashInit, FlashTypeOK, Modes

LEMMA FlashTypeStep == FlashTypeOK /\ [FlashNext]_flashVars => FlashTypeOK'
<1> SUFFICES ASSUME FlashTypeOK, [FlashNext]_flashVars PROVE FlashTypeOK'
  OBVIOUS
<1>1. TimeOut \in 0 .. TimeOut /\ (left # 0 => left - 1 \in 0 .. TimeOut)
  BY TimeOutAssumption DEF FlashTypeOK
<1>2. Mode(call) \in Modes
  BY ModeType DEF FlashTypeOK
<1> USE DEF FlashTypeOK, Goto, TimesOut, NoHistory
<1>3. CASE FlashBegin
  BY <1>1, <1>3 DEF FlashBegin
<1>4. CASE Busy
  BY <1>1, <1>4 DEF Busy
<1>5. CASE SetOp
  BY <1>1, <1>5 DEF SetOp
<1>6. CASE SetOpWrite
  BY <1>2, <1>6 DEF SetOpWrite
<1>7. CASE Bypass
  BY <1>7 DEF Bypass
<1>8. CASE UnlockWrite
  BY <1>1, <1>8 DEF UnlockWrite
<1>9. CASE Store
  <2>1. started' \in {"nothing"} \cup Modes /\ busy' \in BOOLEAN
    BY <1>9 DEF Store
  <2> QED BY <1>1, <1>9, <2>1 DEF Store
<1>10. CASE Wait
  BY <1>1, <1>10 DEF Wait
<1>11. CASE LockWrite
  BY <1>11 DEF LockWrite
<1>12. CASE Finish
  BY <1>12 DEF Finish
<1>13. CASE Interrupt
  BY <1>13 DEF Interrupt, flashHistory
<1>14. CASE UNCHANGED flashVars
  BY <1>14 DEF flashVars, flashHistory
<1> QED
  BY <1>3, <1>4, <1>5, <1>6, <1>7, <1>8, <1>9, <1>10, <1>11, <1>12, <1>13, <1>14 DEF FlashNext

LEMMA FlashInvStep == FlashTypeOK /\ FlashInv /\ [FlashNext]_flashVars => FlashInv'
<1> SUFFICES ASSUME FlashTypeOK, FlashInv, [FlashNext]_flashVars PROVE FlashInv'
  OBVIOUS
<1>1. call \in FlashCall /\ open \in BOOLEAN /\ bypass \in BOOLEAN /\ busy \in BOOLEAN
  BY DEF FlashTypeOK
<1> USE DEF FlashInv, OnlyWhatIsAsked, Checked, BeforeStore, Unlocked, OkMeansDone,
            LockedBetweenCalls, Goto, TimesOut, NoHistory
<1>2. CASE FlashBegin
  BY <1>2 DEF FlashBegin
<1>3. CASE Busy
  BY <1>3 DEF Busy
<1>4. CASE SetOp
  BY <1>4 DEF SetOp
<1>5. CASE SetOpWrite
  BY <1>5 DEF SetOpWrite
<1>6. CASE Bypass
  BY <1>6 DEF Bypass
<1>7. CASE UnlockWrite
  BY <1>1, <1>7 DEF UnlockWrite
<1>8. CASE Store
  <2>1. op = Mode(call) /\ ~busy /\ started = "nothing" /\ (~unlockRobbed => open)
    BY <1>8 DEF Store
  <2>2. /\ started' \in {"nothing", Mode(call)}
        /\ ~unlockRobbed => started' = Mode(call)
        /\ started' # "nothing" => busy'
    BY <1>1, <1>8, <2>1, ModeType DEF Store
  <2> QED BY <1>8, <2>2 DEF Store
<1>9. CASE Wait
  BY <1>9 DEF Wait
<1>10. CASE LockWrite
  BY <1>1, <1>10, ModeType DEF LockWrite
<1>11. CASE Finish
  BY <1>11 DEF Finish
<1>12. CASE Interrupt
  BY <1>12 DEF Interrupt, flashHistory
<1>13. CASE UNCHANGED flashVars
  BY <1>13 DEF flashVars, flashHistory
<1> QED
  BY <1>2, <1>3, <1>4, <1>5, <1>6, <1>7, <1>8, <1>9, <1>10, <1>11, <1>12, <1>13 DEF FlashNext

\* The inductive invariant of the flash driver, whatever its time-outs.
THEOREM FlashInvariance == FlashSpec => [](FlashTypeOK /\ FlashInv)
<1>1. FlashInit => FlashInv
  BY DEF FlashInit, FlashInv, OnlyWhatIsAsked, Checked, BeforeStore, Unlocked, OkMeansDone,
         LockedBetweenCalls
<1> QED BY <1>1, FlashTypeInit, FlashTypeStep, FlashInvStep, PTL DEF FlashSpec

\* Every variable of the flash driver keeps its type, for every time-out.
THEOREM FlashTypeCorrect == FlashSpec => []FlashTypeOK
BY FlashInvariance, PTL

\* Whatever interrupts come, and whatever mode an earlier time-out left in CR.OP,
\* no Flash_Write erases and no Flash_SectorErase erases the chip.
THEOREM NothingElse == FlashSpec => []OnlyWhatIsAsked
<1>1. FlashInv => OnlyWhatIsAsked
  BY DEF FlashInv
<1> QED BY <1>1, FlashInvariance, PTL

\* Ok from a call of flash.c means that the flash is idle and has finished what was
\* asked, unless an interrupt used up the bypass of that call's Flash_UnlockAll.
THEOREM FlashDone == FlashSpec => []OkMeansDone
<1>1. FlashInv => OkMeansDone
  BY DEF FlashInv
<1> QED BY <1>1, FlashInvariance, PTL

\* The sectors are locked whenever no call is in progress, unless one has timed out
\* since Flash_LockAll last ran or an interrupt used up the bypass of that run.
THEOREM Locked == FlashSpec => []LockedBetweenCalls
<1>1. FlashInv => LockedBetweenCalls
  BY DEF FlashInv
<1> QED BY <1>1, FlashInvariance, PTL

-----------------------------------------------------------------------------
(* The clock driver: the list of operations a call has yet to do.                              *)

IsOff(o) == o.op = "enable" /\ ~o.on

\* A call switches once, first of all or just after it has enabled the source.
Ordered ==
  /\ \A j, k \in 1 .. Len(todo) : todo[j].op = "switch" /\ todo[k].op = "switch" => j = k
  /\ \A k \in 1 .. Len(todo) :
       k > 1 /\ todo[k].op = "switch" => todo[k - 1] = Enable(todo[k].src, TRUE)

\* What a call switches off the CPU does not run on: not now, or not once the call
\* has switched to RCH.
Spared ==
  ~usurped /\ ~misused =>
    \A k \in 1 .. Len(todo) : IsOff(todo[k]) =>
      \/ todo[k].src # "RCH" /\ \E j \in 1 .. k - 1 : todo[j] = Switch("RCH")
      \/ todo[k].src \notin InUse /\ \A j \in 1 .. Len(todo) : todo[j].op # "switch"

\* Only an interrupt locks the registers between an unlock and its write.
Unlocking == pc \in {"save", "write"} /\ ~unlocked => usurped

\* The loop on STABLE has ended for a source the call has enabled and not yet left.
Waited ==
  todo # << >> =>
    /\ pc = "restore" /\ todo[1].op = "enable" /\ todo[1].on => todo[1].src \in stable
    /\ todo[1].op = "switch" => misused \/ todo[1].src \in stable

\* The PLL runs only as long as its reference does.
Referenced == "PLL" \in stable => pll.ref \in stable

\* The inductive strengthening of RunningSourceOn.
Powered == Ordered /\ Spared /\ Unlocking /\ Waited /\ Referenced /\ RunningSourceOn

\* The inductive strengthening of GatesRestored: the copy of PERI_CLKEN the main
\* program holds is what it will have to store, until an interrupt moves a gate.
Copied ==
  /\ ~Holding => gate = wanted /\ ~clobbered
  /\ Holding /\ ~clobbered => temp = wanted

-----------------------------------------------------------------------------
(* Types.                                                                    *)

\* What an operation is made of, by its kind.
LEMMA OpFields ==
  ASSUME NEW o \in Op
  PROVE  /\ o.op \in {"enable", "switch", "div", "gate"}
         /\ o.op = "enable" => o.src \in Source /\ o.on \in BOOLEAN /\ o = Enable(o.src, o.on)
         /\ o.op = "switch" => o.src \in Source /\ o = Switch(o.src)
         /\ o.op = "div" => o.prs \in 0 .. MaxPrs
         /\ o.op = "gate" => o.gate \in Gate /\ o.on \in BOOLEAN
<1>1. CASE o \in {Enable(s, b) : s \in Source, b \in BOOLEAN}
  BY <1>1 DEF Enable
<1>2. CASE o \in {Switch(s) : s \in Source}
  BY <1>2 DEF Switch
<1>3. CASE o \in {Div(n) : n \in 0 .. MaxPrs}
  BY <1>3 DEF Div
<1>4. CASE o \in {SetGate(g, b) : g \in Gate, b \in BOOLEAN}
  BY <1>4 DEF SetGate
<1> QED BY <1>1, <1>2, <1>3, <1>4 DEF Op

\* The operations the calls are made of.
LEMMA OpIn ==
  /\ \A s \in Source, b \in BOOLEAN : Enable(s, b) \in Op
  /\ \A s \in Source : Switch(s) \in Op
  /\ \A n \in 0 .. MaxPrs : Div(n) \in Op
  /\ \A g \in Gate, b \in BOOLEAN : SetGate(g, b) \in Op
BY DEF Op

\* Short lists.
LEMMA Singleton ==
  ASSUME NEW S, NEW x \in S
  PROVE  << x >> \in Seq(S) /\ Len(<< x >>) = 1 /\ << x >>[1] = x
OBVIOUS

LEMMA Triple ==
  ASSUME NEW S, NEW x \in S, NEW y \in S, NEW z \in S
  PROVE  /\ << x, y, z >> \in Seq(S) /\ Len(<< x, y, z >>) = 3
         /\ << x, y, z >>[1] = x /\ << x, y, z >>[2] = y /\ << x, y, z >>[3] = z
OBVIOUS

\* Two elements, a sequence, and one more.
Wrapped(l, h, m, t) ==
  /\ Len(l) = 3 + Len(m)
  /\ l[1] = h[1] /\ l[2] = h[2] /\ l[3 + Len(m)] = t[1]
  /\ \A k \in 3 .. 2 + Len(m) : l[k] = m[k - 2]

LEMMA Sandwich ==
  ASSUME NEW S, NEW h \in Seq(S), NEW m \in Seq(S), NEW t \in Seq(S),
         Len(h) = 2, Len(t) = 1
  PROVE  h \o m \o t \in Seq(S) /\ Wrapped(h \o m \o t, h, m, t)
<1>0. PICK l : l = h \o m \o t
  OBVIOUS
<1>1. Len(m) \in Nat
  BY LenProperties
<1>2. PICK g : g = h \o m
  OBVIOUS
<1>3. /\ g \in Seq(S) /\ Len(g) = 2 + Len(m)
      /\ \A i \in 1 .. 2 + Len(m) : g[i] = IF i <= 2 THEN h[i] ELSE m[i - 2]
  <2>1. /\ h \o m \in Seq(S) /\ Len(h \o m) = Len(h) + Len(m)
        /\ \A i \in 1 .. Len(h) + Len(m) :
             (h \o m)[i] = IF i <= Len(h) THEN h[i] ELSE m[i - Len(h)]
    BY ConcatProperties
  <2> QED BY <1>2, <2>1
<1>4. l = g \o t
  BY <1>0, <1>2
<1>5. /\ l \in Seq(S) /\ Len(l) = 3 + Len(m)
      /\ \A i \in 1 .. 3 + Len(m) :
           l[i] = IF i <= 2 + Len(m) THEN g[i] ELSE t[i - (2 + Len(m))]
  <2>1. /\ g \o t \in Seq(S) /\ Len(g \o t) = Len(g) + Len(t)
        /\ \A i \in 1 .. Len(g) + Len(t) :
             (g \o t)[i] = IF i <= Len(g) THEN g[i] ELSE t[i - Len(g)]
    BY <1>3, ConcatProperties
  <2> QED BY <1>1, <1>3, <1>4, <2>1
<1>6. l[1] = h[1] /\ l[2] = h[2]
  BY <1>1, <1>3, <1>5
<1>7. l[3 + Len(m)] = t[1]
  BY <1>1, <1>5
<1>8. \A k \in 3 .. 2 + Len(m) : l[k] = m[k - 2]
  BY <1>1, <1>3, <1>5
<1> QED BY <1>0, <1>5, <1>6, <1>7, <1>8 DEF Wrapped

\* Every operation of Offs switches off another source than RCH.
LEMMA OffsOff ==
  Offs \in Seq(Op) /\ \A k \in 1 .. Len(Offs) : IsOff(Offs[k]) /\ Offs[k].src # "RCH"
<1> DEFINE S == {o \in Op : IsOff(o) /\ o.src # "RCH"}
<1>1. \A s \in {"XTH", "RCL", "XTL", "PLL"} : Off(s) \in Seq(S)
  <2> TAKE s \in {"XTH", "RCL", "XTL", "PLL"}
  <2>1. CASE s \in Source
    <3>1. Enable(s, FALSE) \in S
      BY <2>1, OpIn DEF IsOff, Enable
    <3> HIDE DEF S
    <3>2. << Enable(s, FALSE) >> \in Seq(S)
      BY <3>1, Singleton
    <3> QED BY <2>1, <3>2 DEF Off
  <2>2. CASE s \notin Source
    BY <2>2 DEF Off
  <2> QED BY <2>1, <2>2
<1> HIDE DEF S
<1>2. Offs \in Seq(S)
  <2>1. Off("XTH") \in Seq(S) /\ Off("RCL") \in Seq(S)
    BY <1>1
  <2>2. Off("XTL") \in Seq(S) /\ Off("PLL") \in Seq(S)
    BY <1>1
  <2> QED BY <2>1, <2>2 DEF Offs
<1>3. S \subseteq Op
  BY DEF S
<1>4. Offs \in Seq(Op) /\ \A k \in 1 .. Len(Offs) : Offs[k] \in S
  BY <1>2, <1>3, SeqMonotonic, ElementOfSeq
<1> QED BY <1>4 DEF S

\* The list of Sysctrl_ClkDeInit, operation by operation.
LEMMA DeInitList ==
  ASSUME NEW list, list = << Enable("RCH", TRUE), Switch("RCH") >> \o Offs \o << Div(0) >>
  PROVE  /\ list \in Seq(Op) /\ Len(list) \in Nat /\ Len(list) >= 3
         /\ list[1] = Enable("RCH", TRUE) /\ list[2] = Switch("RCH")
         /\ \A k \in 3 .. Len(list) :
              list[k].op = "div" \/ (IsOff(list[k]) /\ list[k].src # "RCH")
<1>1. PICK e, w, d : e = Enable("RCH", TRUE) /\ w = Switch("RCH") /\ d = Div(0)
  OBVIOUS
<1>2. e \in Op /\ w \in Op /\ d \in Op /\ d.op = "div"
  <2>1. "RCH" \in Source /\ 0 \in 0 .. MaxPrs
    BY SourceAssumption, TuningAssumption
  <2>2. Div(0).op = "div"
    BY DEF Div
  <2> QED BY <1>1, <2>1, <2>2, OpIn
<1>3. PICK h, t : h = << e, w >> /\ t = << d >>
  OBVIOUS
<1>4. /\ h \in Seq(Op) /\ Len(h) = 2 /\ h[1] = e /\ h[2] = w
      /\ t \in Seq(Op) /\ Len(t) = 1 /\ t[1] = d
  BY <1>2, <1>3
<1>5. list = h \o Offs \o t
  BY <1>1, <1>3
<1>6. /\ list \in Seq(Op) /\ Len(Offs) \in Nat /\ Len(list) = 3 + Len(Offs)
      /\ list[1] = h[1] /\ list[2] = h[2] /\ list[3 + Len(Offs)] = t[1]
      /\ \A k \in 3 .. 2 + Len(Offs) : list[k] = Offs[k - 2]
  <2>1. h \in Seq(Op) /\ t \in Seq(Op) /\ Offs \in Seq(Op) /\ Len(h) = 2 /\ Len(t) = 1
    BY <1>4, OffsOff
  <2>2. h \o Offs \o t \in Seq(Op) /\ Wrapped(h \o Offs \o t, h, Offs, t)
    BY <2>1, Sandwich
  <2>3. Len(Offs) \in Nat
    BY <2>1, LenProperties
  <2> QED BY <1>5, <2>2, <2>3 DEF Wrapped
<1>7. ASSUME NEW k \in 3 .. Len(list)
      PROVE  list[k].op = "div" \/ (IsOff(list[k]) /\ list[k].src # "RCH")
  <2>1. CASE k = 3 + Len(Offs)
    BY <1>2, <1>4, <1>6, <2>1
  <2>2. CASE k # 3 + Len(Offs)
    <3>1. k \in 3 .. 2 + Len(Offs) /\ k - 2 \in 1 .. Len(Offs)
      BY <1>6, <2>2
    <3>2. list[k] = Offs[k - 2]
      BY <1>6, <3>1
    <3> QED BY <3>1, <3>2, OffsOff
  <2> QED BY <2>1, <2>2
<1>8. list[1] = Enable("RCH", TRUE) /\ list[2] = Switch("RCH")
  BY <1>1, <1>4, <1>6
<1>9. Len(list) \in Nat /\ Len(list) >= 3
  BY <1>6
<1> QED BY <1>6, <1>7, <1>8, <1>9

\* Every frequency is a number.
LEMMA Frequencies == TypeOK => PllFreq \in Nat /\ \A s \in Source : HClkFreq(s) \in Nat
<1> SUFFICES ASSUME TypeOK PROVE PllFreq \in Nat /\ \A s \in Source : HClkFreq(s) \in Nat
  OBVIOUS
<1>1. /\ trim \in Nat /\ pll.mul \in Nat /\ pll.ref \in {"RCH", "XTH"} \cap Source
      /\ prs \in 0 .. 7 /\ Freq \in [Source \ {"RCH", "PLL"} -> Nat]
  <2>1. Trims \subseteq Nat /\ Muls \subseteq Nat /\ MaxPrs \in 0 .. 7
    BY TuningAssumption
  <2>2. trim \in Trims /\ pll.mul \in Muls /\ pll.ref \in {"RCH", "XTH"} \cap Source
        /\ prs \in 0 .. MaxPrs
    BY DEF TypeOK
  <2>3. Freq \in [Source \ {"RCH", "PLL"} -> Nat]
    BY SourceAssumption
  <2>4. prs \in 0 .. 7
    BY <2>1, <2>2
  <2> QED BY <2>1, <2>2, <2>3, <2>4
<1>2. PllFreq \in Nat
  BY <1>1 DEF PllFreq
<1>3. HclkDiv[prs + 1] \in Nat \ {0}
  BY <1>1 DEF HclkDiv
<1>4. \A f \in Nat : f \div HclkDiv[prs + 1] \in Nat
  BY <1>3
<1>5. ASSUME NEW s \in Source PROVE HClkFreq(s) \in Nat
  <2>1. (IF s = "RCH" THEN trim ELSE IF s = "PLL" THEN PllFreq ELSE Freq[s]) \in Nat
    BY <1>1, <1>2
  <2> QED BY <1>4, <2>1 DEF HClkFreq
<1> QED BY <1>2, <1>5

\* Tail, and what it leaves of a list.
LEMMA Rest ==
  ASSUME TypeOK, todo # << >>
  PROVE  /\ todo[1] \in Op /\ Len(todo) \in Nat \ {0} /\ Tail(todo) \in Seq(Op)
         /\ Len(Tail(todo)) = Len(todo) - 1
         /\ \A k \in 1 .. Len(todo) - 1 : Tail(todo)[k] = todo[k + 1]
<1>1. todo \in Seq(Op)
  BY DEF TypeOK
<1>2. Len(todo) \in Nat \ {0}
  BY <1>1, EmptySeq
<1> QED BY <1>1, <1>2, ElementOfSeq, HeadTailProperties

LEMMA TypeInit == Init => TypeOK
<1> SUFFICES ASSUME Init PROVE TypeOK
  OBVIOUS
<1>1. pll \in [ref : {"RCH", "XTH"} \cap Source, mul : Muls]
  BY SourceAssumption DEF Init
<1>2. todo \in Seq(Op)
  BY DEF Init
<1>3. "RCH" \in Source /\ 0 \in 0 .. MaxPrs /\ 4 \in Trims
  BY SourceAssumption, TuningAssumption
<1> QED BY <1>1, <1>2, <1>3 DEF Init, TypeOK

LEMMA TypeStep == TypeOK /\ [Next]_vars => TypeOK'
<1> SUFFICES ASSUME TypeOK, [Next]_vars PROVE TypeOK'
  OBVIOUS
<1> USE DEF TypeOK, main, reg, hist
<1>1. todo # << >> => todo[1] \in Op /\ Tail(todo) \in Seq(Op)
  BY Rest
<1>2. \A E : Left(E) \subseteq E
  BY DEF Left
<1>3. \A set, g, b : set \subseteq Gate /\ g \in Gate => Moved(set, g, b) \subseteq Gate
  BY DEF Moved
<1>4. \A s \in Source : HClkFreq(s) \in Nat
  BY Frequencies
<1>5. CASE Stabilise
  BY <1>5 DEF Stabilise
<1>6. CASE Unlock
  BY <1>6 DEF Unlock
<1>7. CASE EnableSave
  <2>1. GateOf(todo[1].src) \subseteq Gate
    BY DEF GateOf, Gate
  <2> QED BY <1>7, <2>1 DEF EnableSave
<1>8. CASE EnableWrite
  <2>1. todo[1].src \in Source
    BY <1>1, <1>8, OpFields DEF EnableWrite, Doing
  <2>2. en' \subseteq Source /\ stable' \subseteq en'
    BY <1>2, <1>8, <2>1 DEF EnableWrite
  <2> QED BY <1>8, <2>2 DEF EnableWrite
<1>9. CASE EnableWait
  BY <1>9 DEF EnableWait
<1>10. CASE EnableRestore
  <2>1. wanted' \subseteq Gate /\ gate' \subseteq Gate
    BY <1>10 DEF EnableRestore
  <2> QED BY <1>1, <1>10, <2>1 DEF EnableRestore, Done, Doing
<1>11. CASE SwitchWrite
  <2>1. clksw' \in Source
    BY <1>1, <1>11, OpFields DEF SwitchWrite, Doing
  <2>2. core' \in Nat
    BY <1>4, <1>11, <2>1 DEF SwitchWrite
  <2> QED BY <1>1, <1>11, <2>1, <2>2 DEF SwitchWrite, Done, Doing
<1>12. CASE DivWrite
  <2>1. prs' \in 0 .. MaxPrs /\ retuned' \in BOOLEAN
    BY <1>1, <1>12, OpFields DEF DivWrite, Doing
  <2> QED BY <1>1, <1>12, <2>1 DEF DivWrite, Done, Doing
<1>13. CASE GateLoad
  BY <1>13 DEF GateLoad
<1>14. CASE GateStore
  <2>1. todo[1].gate \in Gate
    BY <1>1, <1>14, OpFields DEF GateStore, Doing
  <2>2. wanted' \subseteq Gate /\ gate' \subseteq Gate
    BY <1>3, <1>14, <2>1 DEF GateStore
  <2> QED BY <1>1, <1>14, <2>2 DEF GateStore, Done, Doing
<1>15. CASE IsrGate
  <2>1. wanted' \subseteq Gate /\ gate' \subseteq Gate
    BY <1>3, <1>15 DEF IsrGate
  <2>2. clobbered' \in BOOLEAN
    BY <1>15 DEF IsrGate, Holding
  <2> QED BY <1>15, <2>1, <2>2 DEF IsrGate
<1>16. CASE IsrSetFunc
  BY <1>16 DEF IsrSetFunc
<1>17. CASE Call
  <2>1. ASSUME NEW ops \in Seq(Op), Begin(ops),
               UNCHANGED << trim, retuned, trimmed >> \/ SetTrim(4), misused' \in BOOLEAN
        PROVE  TypeOK'
    <3>1. trim' \in Trims /\ retuned' \in BOOLEAN /\ trimmed' \in BOOLEAN
      BY <2>1, TuningAssumption DEF SetTrim
    <3> QED BY <2>1, <3>1 DEF Begin
  <2>2. ASSUME NEW s \in Source, NEW b \in BOOLEAN, ClkSourceEnable(s, b) PROVE TypeOK'
    <3>1. << Enable(s, b) >> \in Seq(Op)
      BY OpIn, Singleton
    <3> QED BY <2>1, <2>2, <3>1 DEF ClkSourceEnable
  <2>3. ASSUME NEW s \in Source, Sysctrl_SysClkSwitch(s) PROVE TypeOK'
    <3>1. << Switch(s) >> \in Seq(Op)
      BY OpIn, Singleton
    <3> QED BY <2>1, <2>3, <3>1 DEF Sysctrl_SysClkSwitch
  <2>4. ASSUME NEW s \in Source, NEW n \in 0 .. MaxPrs, ClkInit(s, n) PROVE TypeOK'
    <3>1. Enable(s, TRUE) \in Op /\ Switch(s) \in Op /\ Div(n) \in Op
      BY OpIn
    <3>2. << Enable(s, TRUE), Switch(s), Div(n) >> \in Seq(Op)
      BY <3>1, Triple
    <3> QED BY <2>1, <2>4, <3>2 DEF ClkInit
  <2>5. ASSUME NEW n \in 0 .. MaxPrs, Sysctrl_SetHCLKDiv(n) PROVE TypeOK'
    <3>1. << Div(n) >> \in Seq(Op)
      BY OpIn, Singleton
    <3> QED BY <2>1, <2>5, <3>1 DEF Sysctrl_SetHCLKDiv
  <2>6. ASSUME NEW g \in Gate, NEW b \in BOOLEAN, Sysctrl_SetPeripheralGate(g, b) PROVE TypeOK'
    <3>1. << SetGate(g, b) >> \in Seq(Op)
      BY OpIn, Singleton
    <3> QED BY <2>1, <2>6, <3>1 DEF Sysctrl_SetPeripheralGate
  <2>7. ASSUME NEW f \in Trims, Sysctrl_SetRCHTrim(f) PROVE TypeOK'
    BY <2>7 DEF Sysctrl_SetRCHTrim, SetTrim
  <2>8. ASSUME NEW r \in {"RCH", "XTH"} \cap Source, NEW m \in Muls, SetPLLFreq(r, m) PROVE TypeOK'
    <3>1. stable' \subseteq en /\ pll' \in [ref : {"RCH", "XTH"} \cap Source, mul : Muls]
      BY <2>8 DEF SetPLLFreq, SetPLL
    <3> QED BY <2>8, <3>1 DEF SetPLLFreq, SetPLL
  <2>9. ASSUME ClkDeInit PROVE TypeOK'
    <3>1. << Enable("RCH", TRUE), Switch("RCH") >> \o Offs \o << Div(0) >> \in Seq(Op)
      BY DeInitList
    <3> QED BY <2>1, <2>9, <3>1 DEF ClkDeInit
  <2> QED BY <1>17, <2>2, <2>4, <2>5, <2>6, <2>7, <2>8, <2>9, <2>3 DEF Call
<1>18. CASE UNCHANGED vars
  BY <1>18 DEF vars
<1> QED
  BY <1>5, <1>6, <1>7, <1>8, <1>9, <1>10, <1>11, <1>12, <1>13, <1>14, <1>15, <1>16, <1>17, <1>18
     DEF Next, Step

\* Every variable of the clock driver keeps its type, for every board and every
\* choice of trims, multipliers and dividers.
THEOREM ClockTypeCorrect == Spec => []TypeOK
BY TypeInit, TypeStep, PTL DEF Spec

-----------------------------------------------------------------------------
(* The gates.                                                                *)

\* Whoever stores PERI_CLKEN, the copy the main program holds stays what it has
\* to restore until an interrupt moves a gate.
LEMMA CopiedStep == Copied /\ [Next]_vars => Copied'
<1> SUFFICES ASSUME Copied, [Next]_vars PROVE Copied'
  OBVIOUS
<1> USE DEF Copied, main, reg, hist
<1>1. ASSUME pc' = "begin" PROVE ~Holding'
  BY <1>1 DEF Holding
<1>2. ASSUME UNCHANGED << gate, wanted, clobbered >>, pc' = "begin", ~Holding PROVE Copied'
  BY <1>1, <1>2
<1>3. ASSUME UNCHANGED << gate, wanted, clobbered, todo, temp >>, Holding' = Holding PROVE Copied'
  BY <1>3
<1>4. CASE Stabilise
  BY <1>3, <1>4 DEF Stabilise, Holding
<1>5. CASE Unlock
  BY <1>5 DEF Unlock, Holding
<1>6. CASE EnableSave
  BY <1>6 DEF EnableSave, Doing, Holding
<1>7. CASE EnableWrite
  BY <1>3, <1>7 DEF EnableWrite, Doing, Holding
<1>8. CASE EnableWait
  BY <1>3, <1>8 DEF EnableWait, Doing, Holding
<1>9. CASE EnableRestore
  <2>1. ~Holding' /\ clobbered' = FALSE
    BY <1>1, <1>9 DEF EnableRestore, Done
  <2>2. gate' = wanted'
    BY <1>9 DEF EnableRestore, Doing, Holding
  <2> QED BY <2>1, <2>2
<1>10. CASE SwitchWrite
  BY <1>2, <1>10 DEF SwitchWrite, Doing, Done, Holding
<1>11. CASE DivWrite
  BY <1>2, <1>11 DEF DivWrite, Doing, Done, Holding
<1>12. CASE GateLoad
  BY <1>12 DEF GateLoad, Doing, Holding
<1>13. CASE GateStore
  <2>1. ~Holding' /\ clobbered' = FALSE
    BY <1>1, <1>13 DEF GateStore, Done
  <2>2. gate' = wanted'
    BY <1>13 DEF GateStore, Doing, Holding
  <2> QED BY <2>1, <2>2
<1>14. CASE IsrGate
  <2>1. Holding' = Holding
    BY <1>14 DEF IsrGate, Holding
  <2> QED BY <1>14, <2>1 DEF IsrGate
<1>15. CASE IsrSetFunc
  BY <1>3, <1>15 DEF IsrSetFunc, Holding
<1>16. CASE Call
  <2>1. ASSUME NEW ops, Begin(ops) PROVE Copied'
    <3>1. ~Holding
      BY <2>1 DEF Begin, Idle, Holding
    <3> QED BY <1>2, <2>1, <3>1 DEF Begin
  <2>2. ASSUME NEW f, Sysctrl_SetRCHTrim(f) PROVE Copied'
    BY <1>3, <2>2 DEF Sysctrl_SetRCHTrim, Holding
  <2>3. ASSUME NEW r, NEW m, SetPLLFreq(r, m) PROVE Copied'
    BY <1>3, <2>3 DEF SetPLLFreq, SetPLL, Holding
  <2> QED BY <1>16, <2>1, <2>2, <2>3 DEF Call, ClkSourceEnable, Sysctrl_SysClkSwitch, ClkInit, Sysctrl_SetHCLKDiv,
             Sysctrl_SetPeripheralGate, ClkDeInit
<1>17. CASE UNCHANGED vars
  BY <1>3, <1>17 DEF vars, Holding
<1> QED
  BY <1>4, <1>5, <1>6, <1>7, <1>8, <1>9, <1>10, <1>11, <1>12, <1>13, <1>14, <1>15, <1>16, <1>17
     DEF Next, Step

\* PERI_CLKEN is what Sysctrl_SetPeripheralGate has asked for whenever no call is in
\* progress, except what an interrupt asked for while a call held its copy: what
\* Sysctrl_ClkSourceEnable opens for itself it closes, for every board.
THEOREM Gates == Spec => []GatesRestored
<1>1. Init => Copied
  BY DEF Init, Copied, Holding
<1>2. Copied => GatesRestored
  BY DEF Copied, Holding, GatesRestored
<1> QED BY <1>1, <1>2, CopiedStep, PTL DEF Spec

-----------------------------------------------------------------------------
(* The frequencies.                                                          *)

\* SystemCoreClock is HCLK, for every divider, trim and multiplier, unless one of
\* them has changed since Sysctrl_SysClkSwitch last computed it.
THEOREM CoreClock == Spec => []CoreClockFresh
<1>1. Init => CoreClockFresh
  <2> SUFFICES ASSUME Init PROVE CoreClockFresh
    OBVIOUS
  <2>1. HClkFreq(clksw) = 4 \div HclkDiv[0 + 1]
    BY DEF Init, HClkFreq
  <2>2. HclkDiv[0 + 1] = 1
    BY DEF HclkDiv
  <2> QED BY <2>1, <2>2 DEF Init, CoreClockFresh
<1>2. TypeOK /\ CoreClockFresh /\ [Next]_vars => CoreClockFresh'
  <2> SUFFICES ASSUME TypeOK, CoreClockFresh, [Next]_vars PROVE CoreClockFresh'
    OBVIOUS
  <2> USE DEF CoreClockFresh, main, reg, hist
  <2>1. ASSUME UNCHANGED << clksw, core, prs, trim, pll, retuned >> PROVE CoreClockFresh'
    BY <2>1 DEF HClkFreq, PllFreq
  <2>2. CASE Stabilise \/ Unlock \/ EnableSave \/ EnableWrite \/ EnableWait \/ EnableRestore
             \/ GateLoad \/ GateStore \/ IsrGate \/ IsrSetFunc \/ UNCHANGED vars
    BY <2>1, <2>2 DEF Stabilise, Unlock, EnableSave, EnableWrite, EnableWait, EnableRestore,
                      GateLoad, GateStore, IsrGate, IsrSetFunc, vars
  <2>3. CASE SwitchWrite
    BY <2>3 DEF SwitchWrite, HClkFreq, PllFreq
  <2>4. CASE DivWrite
    <3>1. retuned' \/ UNCHANGED << clksw, core, prs, trim, pll, retuned >>
      BY <2>4 DEF DivWrite, TypeOK
    <3> QED BY <2>1, <3>1
  <2>5. CASE Call
    <3>1. ASSUME NEW ops, Begin(ops), UNCHANGED << trim, retuned, trimmed >> PROVE CoreClockFresh'
      BY <2>1, <3>1 DEF Begin
    <3>2. ASSUME NEW f, SetTrim(f), UNCHANGED << clksw, core, prs, pll >> PROVE CoreClockFresh'
      <4>1. retuned' \/ UNCHANGED << clksw, core, prs, trim, pll, retuned >>
        BY <3>2 DEF SetTrim, TypeOK
      <4> QED BY <2>1, <4>1
    <3>3. ASSUME NEW f, Sysctrl_SetRCHTrim(f) PROVE CoreClockFresh'
      BY <3>2, <3>3 DEF Sysctrl_SetRCHTrim
    <3>4. ASSUME NEW r, NEW m, SetPLLFreq(r, m) PROVE CoreClockFresh'
      <4>1. /\ UNCHANGED << clksw, core, prs, trim >>
            /\ retuned' = (retuned \/ (clksw = "PLL" /\ pll' # pll))
        BY <3>4 DEF SetPLLFreq, SetPLL
      <4>2. CASE retuned'
        BY <4>2
      <4>3. CASE ~retuned'
        <5>1. ~retuned /\ (clksw # "PLL" \/ pll' = pll)
          BY <4>1, <4>3
        <5> QED BY <4>1, <5>1 DEF HClkFreq, PllFreq
      <4> QED BY <4>2, <4>3
    <3>5. ClkDeInit => CoreClockFresh'
      BY <3>2 DEF ClkDeInit, Begin
    <3> QED BY <2>5, <3>1, <3>3, <3>4, <3>5 DEF Call, ClkSourceEnable, Sysctrl_SysClkSwitch, ClkInit,
               Sysctrl_SetHCLKDiv, Sysctrl_SetPeripheralGate
  <2> QED BY <2>2, <2>3, <2>4, <2>5 DEF Next, Step
<1> QED BY <1>1, <1>2, TypeInit, TypeStep, PTL DEF Spec

\* For every trim, crystal and multiplier the PLL stays within its 48 MHz, unless
\* RCH is trimmed after Sysctrl_SetPLLFreq has checked the multiplier against it.
THEOREM PllLimit == Spec => []PllWithinLimit
<1>1. Init => PllWithinLimit
  <2> SUFFICES ASSUME Init PROVE PllFreq <= 48
    BY DEF PllWithinLimit
  <2>1. pll.ref = "RCH" /\ pll.mul \in 2 .. 12 /\ trim = 4
    BY TuningAssumption DEF Init
  <2> QED BY <2>1 DEF PllFreq
<1>2. TypeOK /\ PllWithinLimit /\ [Next]_vars => PllWithinLimit'
  <2> SUFFICES ASSUME TypeOK, PllWithinLimit, [Next]_vars PROVE PllWithinLimit'
    OBVIOUS
  <2> USE DEF PllWithinLimit, main, reg, hist
  <2>1. ASSUME UNCHANGED << trim, pll, trimmed >> PROVE PllWithinLimit'
    BY <2>1 DEF PllFreq
  <2>2. CASE Stabilise \/ Step \/ IsrGate \/ IsrSetFunc \/ UNCHANGED vars
    BY <2>1, <2>2 DEF Stabilise, Step, Unlock, EnableSave, EnableWrite, EnableWait, EnableRestore,
                      SwitchWrite, DivWrite, GateLoad, GateStore, IsrGate, IsrSetFunc, vars
  <2>3. CASE Call
    <3>1. ASSUME NEW ops, Begin(ops), UNCHANGED << trim, retuned, trimmed >> PROVE PllWithinLimit'
      BY <2>1, <3>1 DEF Begin
    <3>2. ASSUME NEW f, SetTrim(f), UNCHANGED pll PROVE PllWithinLimit'
      <4>1. trimmed' \/ UNCHANGED << trim, pll, trimmed >>
        BY <3>2 DEF SetTrim, TypeOK
      <4> QED BY <2>1, <4>1
    <3>3. ASSUME NEW f, Sysctrl_SetRCHTrim(f) PROVE PllWithinLimit'
      BY <3>2, <3>3 DEF Sysctrl_SetRCHTrim
    <3>4. ASSUME NEW r \in {"RCH", "XTH"} \cap Source, NEW m \in Muls, SetPLLFreq(r, m)
          PROVE  PllFreq' <= 48
      <4>1. /\ pll' = [ref |-> r, mul |-> m] /\ trim' = trim /\ m \in 2 .. 12
            /\ trim \in {4, 8, 16, 22, 24}
            /\ r = "RCH" => (trim = 8 => m <= 6) /\ (trim = 16 => m <= 3)
                            /\ (trim \in {22, 24} => m <= 2)
            /\ r # "RCH" => Freq[r] * m <= 48
        BY <3>4, TuningAssumption DEF SetPLLFreq, SetPLL, TypeOK
      <4>2. r = "RCH" => trim * m <= 48
        BY <4>1
      <4> QED BY <4>1, <4>2 DEF PllFreq
    <3>5. ClkDeInit => PllWithinLimit'
      BY <3>2 DEF ClkDeInit, Begin
    <3> QED BY <2>3, <3>1, <3>3, <3>4, <3>5 DEF Call, ClkSourceEnable, Sysctrl_SysClkSwitch, ClkInit,
               Sysctrl_SetHCLKDiv, Sysctrl_SetPeripheralGate
  <2> QED BY <2>2, <2>3 DEF Next
<1> QED BY <1>1, <1>2, TypeInit, TypeStep, PTL DEF Spec

-----------------------------------------------------------------------------
(* The clock the CPU runs on.                                                *)

\* What a call begins with: one operation, which switches off only what the CPU does not
\* run on and switches only to what runs, or has been given the wrong source; the three
\* of Sysctrl_ClkInit; or the list of Sysctrl_ClkDeInit.
LEMMA CallStep ==
  ASSUME TypeOK, Call
  PROVE  \/ UNCHANGED todo
         \/ /\ Len(todo') = 1
            /\ IsOff(todo'[1]) => misused' \/ todo'[1].src \notin InUse
            /\ todo'[1].op = "switch" => misused' \/ todo'[1].src \in stable
         \/ \E s \in Source :
              /\ Len(todo') = 3 /\ todo'[1] = Enable(s, TRUE) /\ todo'[2] = Switch(s)
              /\ todo'[3].op = "div"
         \/ /\ Len(todo') \in Nat /\ Len(todo') >= 3
            /\ todo'[1] = Enable("RCH", TRUE) /\ todo'[2] = Switch("RCH")
            /\ \A k \in 3 .. Len(todo') :
                 todo'[k].op = "div" \/ (IsOff(todo'[k]) /\ todo'[k].src # "RCH")
<1> DEFINE One == /\ Len(todo') = 1
                  /\ IsOff(todo'[1]) => misused' \/ todo'[1].src \notin InUse
                  /\ todo'[1].op = "switch" => misused' \/ todo'[1].src \in stable
           Three == \E s \in Source :
                      /\ Len(todo') = 3 /\ todo'[1] = Enable(s, TRUE) /\ todo'[2] = Switch(s)
                      /\ todo'[3].op = "div"
           Many == /\ Len(todo') \in Nat /\ Len(todo') >= 3
                   /\ todo'[1] = Enable("RCH", TRUE) /\ todo'[2] = Switch("RCH")
                   /\ \A k \in 3 .. Len(todo') :
                        todo'[k].op = "div" \/ (IsOff(todo'[k]) /\ todo'[k].src # "RCH")
<1>1. ASSUME NEW o, todo' = << o >>, IsOff(o) => misused' \/ o.src \notin InUse,
             o.op = "switch" => misused' \/ o.src \in stable
      PROVE  One
  <2>1. Len(todo') = 1 /\ todo'[1] = o
    BY <1>1
  <2> QED BY <1>1, <2>1
<1>2. ASSUME NEW s \in Source, NEW b \in BOOLEAN, ClkSourceEnable(s, b) PROVE One
  <2>1. Enable(s, b).op # "switch" /\ Enable(s, b).on = b /\ Enable(s, b).src = s
    BY DEF Enable
  <2>2. IsOff(Enable(s, b)) => misused' \/ s \notin InUse
    BY <1>2, <2>1 DEF IsOff, ClkSourceEnable
  <2> QED BY <1>1, <1>2, <2>1, <2>2 DEF ClkSourceEnable, Begin
<1>3. ASSUME NEW s \in Source, Sysctrl_SysClkSwitch(s) PROVE One
  <2>1. ~IsOff(Switch(s)) /\ Switch(s).src = s
    BY DEF Switch, IsOff
  <2>2. misused' \/ s \in stable
    BY <1>3 DEF Sysctrl_SysClkSwitch
  <2> QED BY <1>1, <1>3, <2>1, <2>2 DEF Sysctrl_SysClkSwitch, Begin
<1>4. ASSUME NEW n \in 0 .. MaxPrs, Sysctrl_SetHCLKDiv(n) PROVE One
  <2>1. Div(n).op # "switch" /\ ~IsOff(Div(n))
    BY DEF Div, IsOff
  <2> QED BY <1>1, <1>4, <2>1 DEF Sysctrl_SetHCLKDiv, Begin
<1>5. ASSUME NEW g \in Gate, NEW b \in BOOLEAN, Sysctrl_SetPeripheralGate(g, b) PROVE One
  <2>1. SetGate(g, b).op # "switch" /\ ~IsOff(SetGate(g, b))
    BY DEF SetGate, IsOff
  <2> QED BY <1>1, <1>5, <2>1 DEF Sysctrl_SetPeripheralGate, Begin
<1>6. ASSUME NEW s \in Source, NEW n \in 0 .. MaxPrs, ClkInit(s, n) PROVE Three
  <2>1. Enable(s, TRUE) \in Op /\ Switch(s) \in Op /\ Div(n) \in Op /\ Div(n).op = "div"
    BY OpIn DEF Div
  <2>2. todo' = << Enable(s, TRUE), Switch(s), Div(n) >>
    BY <1>6 DEF ClkInit, Begin
  <2>3. /\ Len(todo') = 3 /\ todo'[1] = Enable(s, TRUE) /\ todo'[2] = Switch(s)
        /\ todo'[3] = Div(n)
    BY <2>1, <2>2, Triple
  <2> QED BY <2>1, <2>3
<1>7. ASSUME ClkDeInit PROVE Many
  <2>1. todo' = << Enable("RCH", TRUE), Switch("RCH") >> \o Offs \o << Div(0) >>
    BY <1>7 DEF ClkDeInit, Begin
  <2> QED BY <2>1, DeInitList
<1>8. (\E f \in Trims : Sysctrl_SetRCHTrim(f)) => UNCHANGED todo
  BY DEF Sysctrl_SetRCHTrim, main
<1>9. (\E r \in {"RCH", "XTH"} \cap Source, m \in Muls : SetPLLFreq(r, m)) => UNCHANGED todo
  BY DEF SetPLLFreq, SetPLL, main
<1> HIDE DEF One, Three, Many
<1>10. UNCHANGED todo \/ One \/ Three \/ Many
  BY <1>2, <1>3, <1>4, <1>5, <1>6, <1>7, <1>8, <1>9 DEF Call
<1> QED BY <1>10 DEF One, Three, Many

\* A call that begins with a switch has been given a source that runs, or the wrong one.
LEMMA FirstSwitch ==
  ASSUME TypeOK, Call
  PROVE  UNCHANGED todo \/ (todo'[1].op = "switch" => misused' \/ todo'[1].src \in stable)
<1>1. \A s : Enable(s, TRUE).op # "switch"
  BY DEF Enable
<1> QED BY <1>1, CallStep, Zenon

\* No call switches twice, or after something else than enabling the source.
LEMMA OrderedStep == TypeOK /\ Ordered /\ [Next]_vars => Ordered'
<1> SUFFICES ASSUME TypeOK, Ordered, [Next]_vars PROVE Ordered'
  OBVIOUS
<1>1. CASE UNCHANGED todo
  BY <1>1 DEF Ordered
<1>2. CASE todo # << >> /\ todo' = Tail(todo)
  <2>1. /\ Len(todo') = Len(todo) - 1 /\ Len(todo) \in Nat
        /\ \A k \in 1 .. Len(todo) - 1 : todo'[k] = todo[k + 1]
    BY <1>2, Rest
  <2>2. \A k \in 1 .. Len(todo') : k + 1 \in 1 .. Len(todo) /\ todo'[k] = todo[k + 1]
    BY <2>1
  <2>3. ASSUME NEW j \in 1 .. Len(todo'), NEW k \in 1 .. Len(todo'),
               todo'[j].op = "switch", todo'[k].op = "switch"
        PROVE  j = k
    <3>1. j + 1 = k + 1
      BY <2>2, <2>3 DEF Ordered
    <3> QED BY <3>1
  <2>4. ASSUME NEW k \in 1 .. Len(todo'), k > 1, todo'[k].op = "switch"
        PROVE  todo'[k - 1] = Enable(todo'[k].src, TRUE)
    <3>1. PICK i \in 1 .. Len(todo) : i = k + 1
      BY <2>1, <2>4
    <3>2. i > 1 /\ i - 1 = k /\ todo'[k] = todo[i] /\ todo'[k - 1] = todo[i - 1]
      <4>1. k - 1 \in 1 .. Len(todo) - 1 /\ k - 1 + 1 = k /\ k \in 1 .. Len(todo) - 1
        BY <2>1, <2>4
      <4> QED BY <2>1, <2>4, <3>1, <4>1
    <3>3. todo[i - 1] = Enable(todo[i].src, TRUE)
      BY <2>4, <3>1, <3>2 DEF Ordered
    <3> QED BY <3>2, <3>3
  <2> QED BY <2>3, <2>4 DEF Ordered
<1>3. CASE Call
  <2>1. CASE Len(todo') = 1
    BY <2>1 DEF Ordered
  <2>2. ASSUME NEW s \in Source, NEW n \in Nat, Len(todo') = n, todo'[1] = Enable(s, TRUE),
               todo'[2] = Switch(s), \A k \in 3 .. n : todo'[k].op # "switch"
        PROVE  Ordered'
    <3>1. todo'[1].op # "switch" /\ todo'[2].src = s
      BY <2>2 DEF Enable, Switch
    <3>2. \A k \in 1 .. n : k = 1 \/ k = 2 \/ k \in 3 .. n
      OBVIOUS
    <3>3. \A k \in 1 .. n : todo'[k].op = "switch" => k = 2
      BY <2>2, <3>1, <3>2, Zenon
    <3>4. \A j, k \in 1 .. n : todo'[j].op = "switch" /\ todo'[k].op = "switch" => j = k
      BY <3>3
    <3>5. ASSUME NEW k \in 1 .. n, todo'[k].op = "switch"
          PROVE  todo'[k - 1] = Enable(todo'[k].src, TRUE)
      <4>1. k = 2 /\ k - 1 = 1
        BY <3>3, <3>5
      <4>2. todo'[1] = Enable(todo'[2].src, TRUE)
        BY <2>2, <3>1, Zenon
      <4> QED BY <4>1, <4>2
    <3> QED BY <2>2, <3>4, <3>5 DEF Ordered
  <2>3. ASSUME NEW s \in Source, Len(todo') = 3, todo'[1] = Enable(s, TRUE),
               todo'[2] = Switch(s), todo'[3].op = "div"
        PROVE  Ordered'
    <3>1. \A k \in 3 .. 3 : todo'[k].op # "switch"
      BY <2>3
    <3> QED BY <2>2, <2>3, <3>1
  <2>4. ASSUME Len(todo') \in Nat, todo'[1] = Enable("RCH", TRUE), todo'[2] = Switch("RCH"),
               \A k \in 3 .. Len(todo') :
                 todo'[k].op = "div" \/ (IsOff(todo'[k]) /\ todo'[k].src # "RCH")
        PROVE  Ordered'
    <3>1. \A k \in 3 .. Len(todo') : todo'[k].op # "switch"
      BY <2>4 DEF IsOff
    <3> QED BY <2>2, <2>4, <3>1, SourceAssumption
  <2> QED BY <1>1, <1>3, <2>1, <2>3, <2>4, CallStep
<1>4. UNCHANGED todo \/ (todo # << >> /\ todo' = Tail(todo)) \/ Call
  BY DEF Next, Step, Stabilise, Unlock, EnableSave, EnableWrite, EnableWait, EnableRestore,
         SwitchWrite, DivWrite, GateLoad, GateStore, IsrGate, IsrSetFunc, vars, main, Doing, Done
<1> QED BY <1>1, <1>2, <1>3, <1>4

\* What is switched off is not what the CPU runs on: when the list is begun, and once
\* its one switch, if it has one, has been made.
LEMMA SparedStep == TypeOK /\ Ordered /\ Spared /\ Unlocking /\ [Next]_vars => Spared'
<1> SUFFICES ASSUME TypeOK, Ordered, Spared, Unlocking, [Next]_vars, ~usurped', ~misused'
             PROVE  \A k \in 1 .. Len(todo') : IsOff(todo'[k]) =>
                      \/ todo'[k].src # "RCH" /\ \E j \in 1 .. k - 1 : todo'[j] = Switch("RCH")
                      \/ /\ todo'[k].src \notin InUse'
                         /\ \A j \in 1 .. Len(todo') : todo'[j].op # "switch"
  BY DEF Spared
<1>1. CASE UNCHANGED << todo, usurped, misused, clksw, pll >>
  BY <1>1 DEF Spared, InUse
<1>2. CASE todo = << >> /\ UNCHANGED todo
  BY <1>2
<1>3. CASE todo # << >> /\ todo' = Tail(todo) /\ todo[1].op # "switch"
           /\ UNCHANGED << usurped, misused, clksw, pll >>
  <2> TAKE k \in 1 .. Len(todo')
  <2> HAVE IsOff(todo'[k])
  <2>1. /\ Len(todo') = Len(todo) - 1 /\ Len(todo) \in Nat
        /\ \A i \in 1 .. Len(todo) - 1 : todo'[i] = todo[i + 1]
    BY <1>3, Rest
  <2>2. k + 1 \in 1 .. Len(todo) /\ todo'[k] = todo[k + 1]
    BY <2>1
  <2>3. CASE todo[k + 1].src # "RCH" /\ \E j \in 1 .. k + 1 - 1 : todo[j] = Switch("RCH")
    <3>1. PICK j \in 1 .. k : todo[j] = Switch("RCH")
      BY <2>2, <2>3
    <3>2. j # 1
      BY <1>3, <3>1 DEF Switch
    <3>3. j - 1 \in 1 .. k - 1 /\ todo'[j - 1] = todo[j]
      <4>1. j - 1 \in 1 .. Len(todo) - 1 /\ j - 1 + 1 = j
        BY <2>1, <2>2, <3>2
      <4> QED BY <2>1, <3>2, <4>1
    <3> QED BY <2>2, <2>3, <3>1, <3>3
  <2>4. CASE todo[k + 1].src \notin InUse /\ \A j \in 1 .. Len(todo) : todo[j].op # "switch"
    <3>1. \A j \in 1 .. Len(todo') : j + 1 \in 1 .. Len(todo) /\ todo'[j] = todo[j + 1]
      BY <2>1
    <3>2. InUse' = InUse
      BY <1>3 DEF InUse
    <3> QED BY <2>2, <2>4, <3>1, <3>2
  <2>5. ~usurped /\ ~misused
    BY <1>3
  <2> QED BY <2>2, <2>3, <2>4, <2>5 DEF Spared
<1>4. CASE SwitchWrite
  <2> TAKE k \in 1 .. Len(todo')
  <2> HAVE IsOff(todo'[k])
  <2>1. /\ todo # << >> /\ todo' = Tail(todo) /\ todo[1].op = "switch" /\ ~usurped
        /\ clksw' = todo[1].src /\ pll' = pll /\ ~misused
    BY <1>4 DEF SwitchWrite, Doing, Done, Unlocking
  <2>2. /\ Len(todo') = Len(todo) - 1 /\ Len(todo) \in Nat \ {0}
        /\ \A i \in 1 .. Len(todo) - 1 : todo'[i] = todo[i + 1]
    BY <2>1, Rest
  <2>3. k + 1 \in 1 .. Len(todo) /\ todo'[k] = todo[k + 1] /\ 1 \in 1 .. Len(todo)
    BY <2>2
  <2>4. ~\A j \in 1 .. Len(todo) : todo[j].op # "switch"
    BY <2>1, <2>3
  <2>5. todo[k + 1].src # "RCH" /\ \E j \in 1 .. Len(todo) : todo[j] = Switch("RCH")
    <3>1. todo[k + 1].src # "RCH" /\ \E j \in 1 .. k + 1 - 1 : todo[j] = Switch("RCH")
      BY <2>1, <2>3, <2>4 DEF Spared
    <3> QED BY <2>3, <3>1
  <2>6. todo[1] = Switch("RCH")
    <3>1. PICK j \in 1 .. Len(todo) : todo[j] = Switch("RCH")
      BY <2>5
    <3>2. todo[j].op = "switch"
      BY <3>1 DEF Switch
    <3> QED BY <2>1, <2>3, <3>1, <3>2 DEF Ordered
  <2>7. InUse' = {"RCH"}
    BY <2>1, <2>6 DEF InUse, Switch
  <2>8. \A j \in 1 .. Len(todo') : todo'[j].op # "switch"
    <3> TAKE j \in 1 .. Len(todo')
    <3>1. j + 1 \in 1 .. Len(todo) /\ todo'[j] = todo[j + 1] /\ j + 1 # 1
      BY <2>2
    <3> QED BY <2>1, <2>3, <3>1 DEF Ordered
  <2> QED BY <2>3, <2>5, <2>7, <2>8
<1>5. CASE Call
  <2>1. InUse' = InUse \/ UNCHANGED todo
    BY <1>5 DEF Call, ClkSourceEnable, Sysctrl_SysClkSwitch, ClkInit, Sysctrl_SetHCLKDiv, Sysctrl_SetPeripheralGate,
                Sysctrl_SetRCHTrim, SetPLLFreq, SetPLL, ClkDeInit, Begin, InUse, main
  <2>2. todo = << >>
    BY <1>5 DEF Call, ClkSourceEnable, Sysctrl_SysClkSwitch, ClkInit, Sysctrl_SetHCLKDiv, Sysctrl_SetPeripheralGate,
                Sysctrl_SetRCHTrim, SetPLLFreq, SetPLL, ClkDeInit, Begin, Idle
  <2>3. CASE UNCHANGED todo
    BY <1>2, <2>2, <2>3
  <2>4. CASE InUse' = InUse
    <3>1. CASE Len(todo') = 1 /\ (IsOff(todo'[1]) => misused' \/ todo'[1].src \notin InUse)
      <4>1. IsOff(todo'[1]) => todo'[1].op # "switch"
        BY DEF IsOff
      <4> QED BY <2>4, <3>1, <4>1
    <3>2. ASSUME NEW s \in Source, Len(todo') = 3, todo'[1] = Enable(s, TRUE),
                 todo'[2] = Switch(s), todo'[3].op = "div"
          PROVE  \A k \in 1 .. Len(todo') : ~IsOff(todo'[k])
      <4>1. ~IsOff(todo'[1]) /\ ~IsOff(todo'[2]) /\ ~IsOff(todo'[3])
        BY <3>2 DEF Enable, Switch, IsOff
      <4>2. \A k \in 1 .. Len(todo') : k = 1 \/ k = 2 \/ k = 3
        BY <3>2
      <4> QED BY <4>1, <4>2, Zenon
    <3>3. ASSUME Len(todo') \in Nat, Len(todo') >= 3, todo'[1] = Enable("RCH", TRUE),
                 todo'[2] = Switch("RCH"),
                 \A k \in 3 .. Len(todo') :
                   todo'[k].op = "div" \/ (IsOff(todo'[k]) /\ todo'[k].src # "RCH")
          PROVE  \A k \in 1 .. Len(todo') : IsOff(todo'[k]) =>
                   todo'[k].src # "RCH" /\ \E j \in 1 .. k - 1 : todo'[j] = Switch("RCH")
      <4> TAKE k \in 1 .. Len(todo')
      <4> HAVE IsOff(todo'[k])
      <4>1. ~IsOff(todo'[1]) /\ ~IsOff(todo'[2])
        BY <3>3 DEF Enable, Switch, IsOff
      <4>2. k \in 3 .. Len(todo') /\ 2 \in 1 .. k - 1
        <5>1. k # 1 /\ k # 2
          BY <4>1
        <5> QED BY <3>3, <5>1
      <4>3. todo'[k].op # "div"
        BY DEF IsOff
      <4> QED BY <3>3, <4>2, <4>3
    <3> QED BY <1>5, <2>3, <3>1, <3>2, <3>3, CallStep
  <2> QED BY <2>1, <2>3, <2>4
<1>6. CASE Stabilise \/ Unlock \/ EnableSave \/ EnableWrite \/ EnableWait
             \/ GateLoad \/ IsrGate \/ UNCHANGED vars
  BY <1>1, <1>6 DEF Stabilise, Unlock, EnableSave, EnableWrite, EnableWait,
              GateLoad, IsrGate, vars, main, reg, hist
<1>7. CASE IsrSetFunc
  <2>1. usurped' = usurped
    BY <1>7 DEF IsrSetFunc, TypeOK
  <2> QED BY <1>1, <1>7, <2>1 DEF IsrSetFunc, reg, main
<1>8. CASE EnableRestore \/ DivWrite \/ GateStore
  BY <1>3, <1>8 DEF EnableRestore, DivWrite, GateStore, Doing, Done, reg
<1> QED BY <1>4, <1>5, <1>6, <1>7, <1>8 DEF Next, Step

\* The first of a list's rest, when it switches, switches to what the one before it
\* has enabled.
LEMMA SwitchNext ==
  ASSUME TypeOK, Ordered, todo # << >>, Tail(todo) # << >>, Tail(todo)[1].op = "switch"
  PROVE  todo[1] = Enable(Tail(todo)[1].src, TRUE)
<1>1. Tail(todo) \in Seq(Op) /\ Len(Tail(todo)) = Len(todo) - 1 /\ Len(todo) \in Nat
      /\ \A k \in 1 .. Len(todo) - 1 : Tail(todo)[k] = todo[k + 1]
  BY Rest
<1>2. Len(Tail(todo)) \in Nat \ {0}
  BY <1>1, EmptySeq
<1>3. 2 \in 1 .. Len(todo) /\ Tail(todo)[1] = todo[2]
  <2>1. 1 \in 1 .. Len(todo) - 1 /\ 1 + 1 = 2
    BY <1>1, <1>2
  <2> QED BY <1>1, <2>1
<1>4. PICK k \in 1 .. Len(todo) : k = 2
  BY <1>3
<1>5. k > 1 /\ k - 1 = 1 /\ todo[k].op = "switch" /\ todo[k] = Tail(todo)[1]
  BY <1>3, <1>4
<1>6. todo[k - 1] = Enable(todo[k].src, TRUE)
  BY <1>5 DEF Ordered
<1> QED BY <1>5, <1>6

\* The registers stay unlocked from an unlock to its write, unless an interrupt writes.
LEMMA UnlockingStep == TypeOK /\ Unlocking /\ [Next]_vars => Unlocking'
<1> SUFFICES ASSUME TypeOK, Unlocking, [Next]_vars PROVE Unlocking'
  OBVIOUS
<1> USE DEF Unlocking, main, reg, hist
<1>1. CASE Stabilise \/ GateLoad \/ IsrGate \/ EnableSave \/ EnableWait \/ UNCHANGED vars
  BY <1>1 DEF Stabilise, GateLoad, IsrGate, EnableSave, EnableWait, vars, Doing
<1>2. CASE Unlock
  BY <1>2 DEF Unlock
<1>3. CASE EnableWrite
  BY <1>3 DEF EnableWrite
<1>4. CASE EnableRestore \/ SwitchWrite \/ DivWrite \/ GateStore
  BY <1>4 DEF EnableRestore, SwitchWrite, DivWrite, GateStore, Done
<1>5. CASE IsrSetFunc
  BY <1>5 DEF IsrSetFunc, TypeOK
<1>6. CASE Call
  <2>1. pc' = "begin" \/ UNCHANGED << pc, unlocked, usurped >>
    BY <1>6 DEF Call, ClkSourceEnable, Sysctrl_SysClkSwitch, ClkInit, Sysctrl_SetHCLKDiv, Sysctrl_SetPeripheralGate,
                Sysctrl_SetRCHTrim, SetPLLFreq, SetPLL, ClkDeInit, Begin
  <2> QED BY <2>1
<1> QED BY <1>1, <1>2, <1>3, <1>4, <1>5, <1>6 DEF Next, Step

\* A source waited for stays stable until the list has come to the switch to it.
LEMMA WaitedStep == TypeOK /\ Ordered /\ Waited /\ [Next]_vars => Waited'
<1> SUFFICES ASSUME TypeOK, Ordered, Waited, [Next]_vars PROVE Waited'
  OBVIOUS
<1> USE DEF Waited, main, reg, hist
<1>1. CASE Stabilise
  BY <1>1 DEF Stabilise
<1>2. CASE Unlock \/ EnableSave \/ GateLoad \/ IsrGate \/ IsrSetFunc \/ UNCHANGED vars
  BY <1>2 DEF Unlock, EnableSave, GateLoad, IsrGate, IsrSetFunc, vars, Doing
<1>3. CASE EnableWrite
  BY <1>3 DEF EnableWrite, Doing
<1>4. CASE EnableWait
  BY <1>4 DEF EnableWait, Doing
<1>5. CASE EnableRestore \/ SwitchWrite \/ DivWrite \/ GateStore
  <2> SUFFICES ASSUME todo' # << >>, todo'[1].op = "switch" PROVE todo'[1].src \in stable'
    BY <1>5 DEF EnableRestore, SwitchWrite, DivWrite, GateStore, Done
  <2>1. /\ todo # << >> /\ todo' = Tail(todo) /\ stable' = stable
        /\ todo[1].op = "enable" => pc = "restore"
    BY <1>5 DEF EnableRestore, SwitchWrite, DivWrite, GateStore, Doing, Done
  <2>2. todo[1] = Enable(todo'[1].src, TRUE)
    BY <2>1, SwitchNext
  <2>3. todo[1].op = "enable" /\ todo[1].on /\ todo[1].src = todo'[1].src
    BY <2>2 DEF Enable
  <2> QED BY <2>1, <2>3
<1>6. CASE Call
  <2>1. UNCHANGED todo \/ (pc' = "begin" /\ stable' = stable)
    BY <1>6 DEF Call, ClkSourceEnable, Sysctrl_SysClkSwitch, ClkInit, Sysctrl_SetHCLKDiv, Sysctrl_SetPeripheralGate,
                Sysctrl_SetRCHTrim, SetPLLFreq, SetPLL, ClkDeInit, Begin
  <2>2. UNCHANGED todo \/ (todo'[1].op = "switch" => misused' \/ todo'[1].src \in stable)
    BY <1>6, FirstSwitch
  <2>3. UNCHANGED todo => todo' = << >>
    BY <1>6 DEF Call, ClkSourceEnable, Sysctrl_SysClkSwitch, ClkInit, Sysctrl_SetHCLKDiv, Sysctrl_SetPeripheralGate,
                Sysctrl_SetRCHTrim, SetPLLFreq, SetPLL, ClkDeInit, Begin, Idle
  <2> QED BY <2>1, <2>2, <2>3
<1> QED BY <1>1, <1>2, <1>3, <1>4, <1>5, <1>6 DEF Next, Step

\* Whatever takes the PLL's reference away stops the PLL with it.
LEMMA ReferencedStep == TypeOK /\ Referenced /\ [Next]_vars => Referenced'
<1> SUFFICES ASSUME TypeOK, Referenced, [Next]_vars PROVE Referenced'
  OBVIOUS
<1> USE DEF Referenced, main, reg, hist
<1>1. CASE Stabilise
  <2>1. PICK s \in en \ stable : Starts(s) /\ stable' = stable \cup {s}
    BY <1>1 DEF Stabilise
  <2>2. pll' = pll
    BY <1>1 DEF Stabilise
  <2>3. s = "PLL" => pll.ref \in stable
    BY <2>1 DEF Starts
  <2> QED BY <2>1, <2>2, <2>3
<1>2. CASE EnableWrite
  <2>1. stable' = Left(en') /\ pll' = pll
    BY <1>2 DEF EnableWrite
  <2>2. "PLL" \in stable' => "PLL" \in stable /\ pll.ref \in en'
    BY <2>1 DEF Left
  <2>3. pll.ref # "PLL"
    BY DEF TypeOK
  <2> QED BY <2>1, <2>2, <2>3 DEF Left
<1>3. ASSUME NEW r \in {"RCH", "XTH"} \cap Source, NEW m \in Muls, SetPLLFreq(r, m)
      PROVE  Referenced'
  BY <1>3 DEF SetPLLFreq, SetPLL
<1>4. ASSUME UNCHANGED << stable, pll >> PROVE Referenced'
  BY <1>4
<1>5. CASE Call
  <2>1. (\E r \in {"RCH", "XTH"} \cap Source, m \in Muls : SetPLLFreq(r, m))
        \/ UNCHANGED << stable, pll >>
    BY <1>5 DEF Call, ClkSourceEnable, Sysctrl_SysClkSwitch, ClkInit, Sysctrl_SetHCLKDiv,
                Sysctrl_SetPeripheralGate, Sysctrl_SetRCHTrim, ClkDeInit, Begin
  <2> QED BY <1>3, <1>4, <2>1
<1>6. CASE Unlock \/ EnableSave \/ EnableWait \/ EnableRestore \/ SwitchWrite \/ DivWrite
             \/ GateLoad \/ GateStore \/ IsrGate \/ IsrSetFunc \/ UNCHANGED vars
  BY <1>4, <1>6 DEF Unlock, EnableSave, EnableWait, EnableRestore, SwitchWrite, DivWrite,
                    GateLoad, GateStore, IsrGate, IsrSetFunc, vars
<1> QED BY <1>1, <1>2, <1>5, <1>6 DEF Next, Step

\* No write switches off the source the CPU runs on or what that source needs, and
\* no switch goes to a source that does not run.
LEMMA RunningStep ==
  TypeOK /\ Ordered /\ Spared /\ Unlocking /\ Waited /\ Referenced /\ RunningSourceOn
  /\ [Next]_vars => RunningSourceOn'
<1> SUFFICES ASSUME TypeOK, Ordered, Spared, Unlocking, Waited, Referenced, RunningSourceOn,
                    [Next]_vars, ~usurped', ~misused'
             PROVE  clksw' \in stable'
  BY DEF RunningSourceOn
<1> USE DEF main, reg, hist
<1>1. CASE Stabilise
  BY <1>1 DEF Stabilise, RunningSourceOn
<1>2. CASE Unlock \/ EnableSave \/ EnableWait \/ EnableRestore \/ DivWrite \/ GateLoad
             \/ GateStore \/ IsrGate \/ UNCHANGED vars
  BY <1>2 DEF Unlock, EnableSave, EnableWait, EnableRestore, DivWrite, GateLoad, GateStore,
              IsrGate, vars, RunningSourceOn
<1>3. CASE IsrSetFunc
  BY <1>3 DEF IsrSetFunc, Alive
<1>4. CASE Call
  BY <1>4 DEF Call, ClkSourceEnable, Sysctrl_SysClkSwitch, ClkInit, Sysctrl_SetHCLKDiv, Sysctrl_SetPeripheralGate,
              Sysctrl_SetRCHTrim, SetPLLFreq, SetPLL, ClkDeInit, Begin, Idle, Alive
<1>5. CASE EnableWrite
  <2>1. /\ todo # << >> /\ todo[1].op = "enable" /\ clksw \in stable /\ ~usurped /\ unlocked
        /\ UNCHANGED << clksw, pll >> /\ stable' = Left(en') /\ ~misused
        /\ en' = IF todo[1].on THEN en \cup {todo[1].src} ELSE en \ {todo[1].src}
    BY <1>5 DEF EnableWrite, Doing, Alive, Unlocking
  <2>2. clksw \in en /\ (clksw = "PLL" => pll.ref \in en)
    BY <2>1 DEF TypeOK, Referenced
  <2>3. clksw \in en' /\ (clksw = "PLL" => pll.ref \in en')
    <3>1. CASE todo[1].on
      BY <2>1, <2>2, <3>1
    <3>2. CASE ~todo[1].on
      <4>1. 1 \in 1 .. Len(todo) /\ IsOff(todo[1])
        BY <2>1, <3>2, Rest DEF IsOff
      <4>2. ~\E j \in 1 .. 1 - 1 : todo[j] = Switch("RCH")
        OBVIOUS
      <4>3. todo[1].src \notin InUse
        BY <2>1, <4>1, <4>2 DEF Spared
      <4> QED BY <2>1, <2>2, <3>2, <4>3 DEF InUse
    <3> QED BY <3>1, <3>2
  <2> QED BY <2>1, <2>3 DEF Left
<1>6. CASE SwitchWrite
  <2>1. /\ todo # << >> /\ todo[1].op = "switch" /\ ~usurped /\ unlocked
        /\ clksw' = todo[1].src /\ stable' = stable /\ ~misused
    BY <1>6 DEF SwitchWrite, Doing, Unlocking
  <2> QED BY <2>1 DEF Waited
<1> QED BY <1>1, <1>2, <1>3, <1>4, <1>5, <1>6 DEF Next, Step

\* On every board, whatever crystals do not start and whatever calls and interrupts
\* come together: a call stops the CPU's clock only when it was itself given a source
\* that does not run, the source in use or the reference of the PLL in use, or when an
\* interrupt took the unlock of one of its writes.
THEOREM ClockRuns == Spec => []RunningSourceOn
<1>1. Init => Powered
  <2> SUFFICES ASSUME Init PROVE Powered
    OBVIOUS
  <2>1. todo = << >> /\ Len(todo) = 0
    BY DEF Init
  <2>2. Ordered /\ Spared
    BY <2>1 DEF Ordered, Spared
  <2> QED BY <2>1, <2>2
          DEF Init, Powered, Unlocking, Waited, Referenced, RunningSourceOn
<1>2. TypeOK /\ Powered /\ [Next]_vars => Powered'
  BY OrderedStep, SparedStep, UnlockingStep, WaitedStep, ReferencedStep, RunningStep DEF Powered
<1>3. Powered => RunningSourceOn
  BY DEF Powered
<1> QED BY <1>1, <1>2, <1>3, TypeInit, TypeStep, PTL DEF Spec

=============================================================================
