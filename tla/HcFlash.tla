------------------------------- MODULE HcFlash -------------------------------
(***************************************************************************)
(* Programming and erasing the HC32 flash, src/hc32l13x/driver/src/flash.c: *)
(* wait until it is idle, set CR.OP, unlock the sectors, store, wait, lock. *)
(*                                                                         *)
(* CR and SLOCK take one write after each FLASH_BYPASS.  An interrupt that *)
(* calls Flash_EnableIrq or Flash_DisableIrq between the two uses it up,   *)
(* and the main program's write is ignored: setting CR.OP is read back and *)
(* tried again, unlocking and locking are not.                             *)
(*                                                                         *)
(* What HcClock has too is named Flash... here, so that one proof module   *)
(* speaks of both drivers.                                                 *)
(***************************************************************************)
EXTENDS Naturals

CONSTANT TimeOut   \* FLASH_TIMEOUT_PGM and FLASH_TIMEOUT_ERASE, 0xFF

ASSUME TimeOutAssumption == TimeOut \in Nat

VARIABLES
  op,       \* CR.OP
  busy,     \* CR.BUSY
  bypass,   \* CR and SLOCK take a write
  open,     \* the sectors are unlocked in SLOCK
  flashPc,  \* the next statement of the call in progress, or "idle"
  call,     \* that call, or the last one
  left,     \* u32TimeOut
  last,     \* what the last call returned
  started,       \* history: the operation that this call's store started
  done,          \* history: the operation that the flash has finished for this call
  unlockRobbed,  \* history: an interrupt used up the bypass of this call's unlocking
  lockRobbed,    \* history: ... of the last locking
  timedOut       \* history: a call has timed out since the last locking

flashHistory == << started, done, unlockRobbed, lockRobbed, timedOut >>
flashVars == << op, busy, bypass, open, flashPc, call, left, last, flashHistory >>

\* "program" is Flash_WriteByte and Flash_WriteHalfWord, "word" Flash_WriteWord.
FlashCall == {"program", "word", "sector", "chip"}
Mode(c) == IF c \in {"program", "word"} THEN "Program"
           ELSE IF c = "sector" THEN "SectorErase" ELSE "ChipErase"
Modes == {"Read", "Program", "SectorErase", "ChipErase"}

\* Flash_WriteWord and Flash_SectorErase unlock before they set CR.OP.
UnlocksFirst(c) == c \in {"word", "sector"}

Goto(s) == flashPc' = s /\ UNCHANGED << last, timedOut >>
NoHistory == UNCHANGED << started, done, unlockRobbed, lockRobbed >>
TimesOut == flashPc' = "idle" /\ last' = "timeout" /\ timedOut' = TRUE

-----------------------------------------------------------------------------
\* A call with an address behind the flash's last returns at once; Flash_ChipErase
\* takes no address.
FlashBegin ==
  /\ flashPc = "idle"
  /\ call' \in FlashCall
  /\ left' = TimeOut
  /\ started' = "nothing" /\ done' = "nothing" /\ unlockRobbed' = FALSE
  /\ \/ Goto("busy")
     \/ call' # "chip" /\ last' = "invalid" /\ UNCHANGED << flashPc, timedOut >>
  /\ UNCHANGED << op, busy, bypass, open, lockRobbed >>

\* One turn of the loop before the operation.
Busy ==
  /\ flashPc = "busy"
  /\ \/ /\ ~busy /\ left' = TimeOut
        /\ Goto(IF UnlocksFirst(call) THEN "unlock" ELSE "op")
     \/ busy /\ left # 0 /\ left' = left - 1 /\ UNCHANGED << flashPc, last, timedOut >>
     \/ busy /\ left = 0 /\ UNCHANGED left /\ TimesOut
  /\ UNCHANGED << op, busy, bypass, open, call >> /\ NoHistory

\* Mutant: a time-out ends the loop and not the call.
SetOpGoesOn ==
  /\ flashPc = "op"
  /\ \/ /\ op = Mode(call) \/ left = 0
        /\ Goto(IF UnlocksFirst(call) THEN "store" ELSE "unlock")
        /\ UNCHANGED << bypass, left >>
     \/ op # Mode(call) /\ left # 0 /\ left' = left - 1 /\ bypass' = TRUE /\ Goto("opWrite")
  /\ UNCHANGED << op, busy, open, call >> /\ NoHistory

\* One turn of while(... != CR.OP), up to the write.
SetOp ==
  /\ flashPc = "op"
  /\ \/ /\ op = Mode(call)
        /\ Goto(IF UnlocksFirst(call) THEN "store" ELSE "unlock")
        /\ UNCHANGED << bypass, left >>
     \/ op # Mode(call) /\ left # 0 /\ left' = left - 1 /\ bypass' = TRUE /\ Goto("opWrite")
     \/ op # Mode(call) /\ left = 0 /\ TimesOut /\ UNCHANGED << bypass, left >>
  /\ UNCHANGED << op, busy, open, call >> /\ NoHistory

SetOpWrite ==
  /\ flashPc = "opWrite"
  /\ op' = IF bypass THEN Mode(call) ELSE op
  /\ bypass' = FALSE
  /\ Goto("op")
  /\ UNCHANGED << busy, open, call, left >> /\ NoHistory

\* The bypass of Flash_UnlockAll and Flash_LockAll.
Bypass ==
  /\ flashPc \in {"unlock", "lock"}
  /\ bypass' = TRUE
  /\ Goto(IF flashPc = "unlock" THEN "unlockWrite" ELSE "lockWrite")
  /\ UNCHANGED << op, busy, open, call, left >> /\ NoHistory

UnlockWrite ==
  /\ flashPc = "unlockWrite"
  /\ open' = (open \/ bypass)
  /\ unlockRobbed' = ~bypass
  /\ bypass' = FALSE
  /\ left' = TimeOut
  /\ Goto(IF UnlocksFirst(call) THEN "op" ELSE "store")
  /\ UNCHANGED << op, busy, call, started, done, lockRobbed >>

\* The store starts the operation, unless the sector is locked.
Store ==
  /\ flashPc = "store"
  /\ IF open /\ ~busy /\ op # "Read"
     THEN busy' = TRUE /\ started' = op
     ELSE UNCHANGED << busy, started >>
  /\ left' = TimeOut
  /\ Goto("wait")
  /\ UNCHANGED << op, bypass, open, call, done, unlockRobbed, lockRobbed >>

\* Mutant: the operation is not waited for.
WaitNot ==
  /\ flashPc = "wait"
  /\ Goto("lock")
  /\ UNCHANGED << op, busy, bypass, open, call, left >> /\ NoHistory

\* Mutant: the flash is locked only after an operation that timed out.
WaitNoLock ==
  /\ flashPc = "wait"
  /\ \/ ~busy /\ flashPc' = "idle" /\ last' = "ok" /\ UNCHANGED << left, timedOut >>
     \/ busy /\ left # 0 /\ left' = left - 1 /\ UNCHANGED << flashPc, last, timedOut >>
     \/ busy /\ left = 0 /\ Goto("lock") /\ UNCHANGED left
  /\ UNCHANGED << op, busy, bypass, open, call >> /\ NoHistory

\* One turn of the loop after the operation; a time-out skips the lock.
Wait ==
  /\ flashPc = "wait"
  /\ \/ ~busy /\ Goto("lock") /\ UNCHANGED left
     \/ busy /\ left # 0 /\ left' = left - 1 /\ UNCHANGED << flashPc, last, timedOut >>
     \/ busy /\ left = 0 /\ TimesOut /\ UNCHANGED left
  /\ UNCHANGED << op, busy, bypass, open, call >> /\ NoHistory

LockWrite ==
  /\ flashPc = "lockWrite"
  /\ open' = (open /\ ~bypass)
  /\ lockRobbed' = ~bypass
  /\ timedOut' = FALSE
  /\ bypass' = FALSE
  /\ flashPc' = "idle" /\ last' = "ok"
  /\ UNCHANGED << op, busy, call, left, started, done, unlockRobbed >>

-----------------------------------------------------------------------------
\* The flash finishes what it is doing.
Finish ==
  /\ busy
  /\ busy' = FALSE
  /\ done' = started
  /\ UNCHANGED << op, bypass, open, flashPc, call, left, last >>
  /\ UNCHANGED << started, unlockRobbed, lockRobbed, timedOut >>

\* Flash_EnableIrq or Flash_DisableIrq in a handler: its write takes the bypass.
Interrupt ==
  /\ bypass
  /\ bypass' = FALSE
  /\ UNCHANGED << op, busy, open, flashPc, call, left, last, flashHistory >>

FlashInit ==
  /\ op = "Read" /\ busy = FALSE /\ bypass = FALSE /\ open = FALSE
  /\ flashPc = "idle" /\ call \in FlashCall /\ left = 0 /\ last = "none"
  /\ started = "nothing" /\ done = "nothing"
  /\ unlockRobbed = FALSE /\ lockRobbed = FALSE /\ timedOut = FALSE

FlashNext ==
  \/ FlashBegin \/ Busy \/ SetOp \/ SetOpWrite \/ Bypass \/ UnlockWrite
  \/ Store \/ Wait \/ LockWrite
  \/ Finish \/ Interrupt

FlashSpec == FlashInit /\ [][FlashNext]_flashVars

-----------------------------------------------------------------------------
(* Properties.                                                               *)

FlashTypeOK ==
  /\ op \in Modes /\ started \in {"nothing"} \cup Modes /\ done \in {"nothing"} \cup Modes
  /\ busy \in BOOLEAN /\ bypass \in BOOLEAN /\ open \in BOOLEAN
  /\ unlockRobbed \in BOOLEAN /\ lockRobbed \in BOOLEAN /\ timedOut \in BOOLEAN
  /\ flashPc \in {"idle", "busy", "op", "opWrite", "unlock", "unlockWrite", "store", "wait",
             "lock", "lockWrite"}
  /\ call \in FlashCall /\ left \in 0 .. TimeOut
  /\ last \in {"none", "ok", "timeout", "invalid"}

\* Between calls the sectors are locked, unless a call has timed out since
\* Flash_LockAll last ran, or an interrupt used up the bypass of that locking.
\* The next call that gets as far as Flash_LockAll locks them again; one that
\* returns ErrorInvalidParameter or times out does not.
LockedBetweenCalls == flashPc = "idle" /\ open => timedOut \/ lockRobbed

\* When a call has returned Ok the flash is idle, and has finished what the call
\* asks, unless an interrupt used up the bypass of its unlocking.
OkMeansDone ==
  flashPc = "idle" /\ last = "ok" => ~busy /\ (unlockRobbed \/ done = Mode(call))

\* Whatever the interrupts do, and whatever mode an earlier call left in CR.OP, a
\* call never starts another operation than its own: no write erases the chip.
OnlyWhatIsAsked == started \in {"nothing", Mode(call)}

=============================================================================
