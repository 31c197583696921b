------------------------------- MODULE HyUart -------------------------------
(***************************************************************************)
(* Receiving in src/at32f4xx/hy_uart.c: HyUartCreate and HyUartDestroy,    *)
(* called by the main program for one UART, and its interrupt handler,     *)
(* which the interrupt controller runs between any two steps of the main   *)
(* program and, again and again, for as long as the UART requests it.      *)
(*                                                                         *)
(* Bytes are numbered in the order in which they arrive on the line.       *)
(***************************************************************************)
EXTENDS Naturals, Sequences

CONSTANTS
  Handle,     \* the heap blocks malloc can return
  NULL,
  MaxCreates, \* bound: calls of HyUartCreate that get a block
  MaxBytes    \* bound: bytes arriving

ASSUME HandleAssumption == NULL \notin Handle
ASSUME BoundAssumption  == {MaxCreates, MaxBytes} \subseteq Nat

VARIABLES
  context,  \* context_array[num]
  heap,     \* each block: "free", "raw" (allocated, uninitialised), "live"
  read_cb,  \* whether each block's config_save has a callback
  usart,    \* UEN, the receive interrupt enable, RDNE, the overrun flag, DR
  nvic,     \* the line is enabled in the NVIC
  isr,      \* the handler: "off", "read" (RDNE seen), "cb", "nothing" (to do)
  seen,     \* the handler's read of the status saw the overrun flag
  pc, cur,  \* the next statement of the API call in progress, its block
  creates,  \* blocks allocated
  arrived,  \* history: bytes that arrived
  received, \* history: the bytes passed to read_cb
  lost      \* history: the bytes that found DR full

main  == << pc, cur, creates >>
mem   == << context, heap, read_cb >>
bytes == << arrived, received, lost >>
vars  == << mem, usart, nvic, isr, seen, main, bytes >>

\* RDNE and the overrun flag share the line.
IrqPending == nvic /\ usart.rxie /\ (usart.rdne \/ usart.ore)

\* The main program executes.
Main == isr = "off" /\ ~IrqPending

Held == {h \in Handle : heap[h] = "live" /\ h # cur}

-----------------------------------------------------------------------------
(* HyUartCreate, one action per statement that the handler can observe.      *)

CreateAlloc(h, cb) ==
  /\ Main /\ pc = "idle" /\ heap[h] = "free" /\ creates < MaxCreates
  /\ heap' = [heap EXCEPT ![h] = "raw"]
  /\ read_cb' = [read_cb EXCEPT ![h] = cb]
  /\ cur' = h /\ pc' = "publish" /\ creates' = creates + 1
  /\ UNCHANGED << context, usart, nvic, isr, seen, bytes >>

CreatePublish ==
  /\ Main /\ pc = "publish"
  /\ context' = cur /\ pc' = "memcpy"
  /\ UNCHANGED << heap, read_cb, usart, nvic, isr, seen, cur, creates, bytes >>

\* HY_MEMCPY; _init_uart_gpio and _init_uart_func touch nothing modelled.
CreateMemcpy ==
  /\ Main /\ pc = "memcpy"
  /\ heap' = [heap EXCEPT ![cur] = "live"] /\ pc' = "nvic"
  /\ UNCHANGED << context, read_cb, usart, nvic, isr, seen, cur, creates, bytes >>

CreateNvic ==
  /\ Main /\ pc = "nvic"
  /\ nvic' = TRUE /\ pc' = "int"
  /\ UNCHANGED << mem, usart, isr, seen, cur, creates, bytes >>

CreateInt ==
  /\ Main /\ pc = "int"
  /\ usart' = [usart EXCEPT !.rxie = TRUE] /\ pc' = "cmd"
  /\ UNCHANGED << mem, nvic, isr, seen, cur, creates, bytes >>

CreateCmd ==
  /\ Main /\ pc = "cmd"
  /\ usart' = [usart EXCEPT !.uen = TRUE]
  /\ pc' = "idle" /\ cur' = NULL
  /\ UNCHANGED << mem, nvic, isr, seen, creates, bytes >>

-----------------------------------------------------------------------------
(* HyUartDestroy.  The UART and its line stay as they are.                   *)

\* Mutant: the entry is left in place.
DestroyKeepsEntry(h) ==
  /\ Main /\ pc = "idle" /\ h \in Held
  /\ cur' = h /\ pc' = "free"
  /\ UNCHANGED << mem, usart, nvic, isr, seen, creates, bytes >>

DestroyUnregister(h) ==
  /\ Main /\ pc = "idle" /\ h \in Held
  /\ context' = NULL
  /\ cur' = h /\ pc' = "free"
  /\ UNCHANGED << heap, read_cb, usart, nvic, isr, seen, creates, bytes >>

\* HY_FREE, which also sets the caller's handle to NULL.
DestroyFree ==
  /\ Main /\ pc = "free"
  /\ heap' = [heap EXCEPT ![cur] = "free"]
  /\ cur' = NULL /\ pc' = "idle"
  /\ UNCHANGED << context, read_cb, usart, nvic, isr, seen, creates, bytes >>

-----------------------------------------------------------------------------
(* The receiver, and the interrupt handler.                                  *)

\* A byte that finds DR full is dropped and leaves the overrun flag.
ByteArrives ==
  /\ usart.uen /\ arrived < MaxBytes
  /\ arrived' = arrived + 1
  /\ IF usart.rdne
     THEN usart' = [usart EXCEPT !.ore = TRUE] /\ lost' = lost \cup {arrived'}
     ELSE usart' = [usart EXCEPT !.rdne = TRUE, !.dr = arrived'] /\ UNCHANGED lost
  /\ UNCHANGED << mem, nvic, isr, seen, main, received >>

\* Mutant: the handler reads DR whichever flag raised the line.
AnyFlag == usart.rdne \/ usart.ore

\* USART_GetITStatus(USART_INT_RDNE), which reads the status register.
USART_GetITStatus == usart.rxie /\ usart.rdne

\* _uart_irq_handler up to its test of read_cb.
IsrEnter ==
  /\ isr = "off" /\ IrqPending
  /\ isr' = IF context # NULL /\ USART_GetITStatus /\ read_cb[context]
            THEN "read" ELSE "nothing"
  /\ seen' = (context # NULL /\ usart.ore)
  /\ UNCHANGED << mem, usart, nvic, main, bytes >>

\* Mutant: the callback is called without reading DR.
CallbackOnly ==
  /\ isr = "read"
  /\ isr' = "cb"
  /\ UNCHANGED << mem, usart, nvic, seen, main, bytes >>

\* USART_ReceiveData, and the call of read_cb.  Reading DR clears RDNE, and
\* the overrun flag if a read of the status has seen it.
IsrRead ==
  /\ isr = "read"
  /\ received' = Append(received, usart.dr)
  /\ usart' = [usart EXCEPT !.rdne = FALSE, !.ore = @ /\ ~seen]
  /\ isr' = "cb"
  /\ UNCHANGED << mem, nvic, seen, main, arrived, lost >>

IsrReturn ==
  /\ isr \in {"cb", "nothing"}
  /\ isr' = "off"
  /\ UNCHANGED << mem, usart, nvic, seen, main, bytes >>

-----------------------------------------------------------------------------
Init ==
  /\ context = NULL
  /\ heap = [h \in Handle |-> "free"] /\ read_cb = [h \in Handle |-> FALSE]
  /\ usart = [uen |-> FALSE, rxie |-> FALSE, rdne |-> FALSE, ore |-> FALSE, dr |-> 0]
  /\ nvic = FALSE /\ isr = "off" /\ seen = FALSE
  /\ pc = "idle" /\ cur = NULL /\ creates = 0
  /\ arrived = 0 /\ received = << >> /\ lost = {}

InCall == \/ CreatePublish \/ CreateMemcpy \/ CreateNvic \/ CreateInt \/ CreateCmd
          \/ DestroyFree

Call == \/ \E h \in Handle, cb \in BOOLEAN : CreateAlloc(h, cb)
        \/ \E h \in Handle : DestroyUnregister(h)

Handler == IsrEnter \/ IsrRead \/ IsrReturn

Next == Call \/ InCall \/ ByteArrives \/ Handler

\* The CPU runs: the handler whenever it is due, else the call in progress.
Fairness == WF_vars(InCall) /\ WF_vars(Handler)

Spec     == Init /\ [][Next]_vars
FairSpec == Spec /\ Fairness

-----------------------------------------------------------------------------
(* Properties.                                                               *)

TypeOK ==
  /\ context \in Handle \cup {NULL} /\ cur \in Handle \cup {NULL}
  /\ heap \in [Handle -> {"free", "raw", "live"}]
  /\ read_cb \in [Handle -> BOOLEAN]
  /\ usart \in [uen : BOOLEAN, rxie : BOOLEAN, rdne : BOOLEAN, ore : BOOLEAN, dr : Nat]
  /\ nvic \in BOOLEAN /\ seen \in BOOLEAN
  /\ isr \in {"off", "read", "cb", "nothing"}
  /\ pc \in {"idle", "publish", "memcpy", "nvic", "int", "cmd", "free"}
  /\ (pc = "idle") = (cur = NULL)
  /\ creates \in 0 .. MaxCreates /\ arrived \in 0 .. MaxBytes
  /\ received \in Seq(1 .. arrived) /\ lost \subseteq 1 .. arrived

\* The handler never finds a freed context registered, in whatever order contexts
\* are created and destroyed; it finds one whose config_save is not copied yet
\* only if an earlier HyUartCreate left the line enabled.
IsrReadsLiveContext ==
  isr = "off" /\ IrqPending /\ context # NULL =>
    heap[context] = "live" \/ (creates > 1 /\ heap[context] = "raw")

\* Every byte that arrived was passed to a callback, once and in order, or was
\* overrun, or waits in DR.
EveryByteAccounted ==
  /\ \A k \in 2 .. Len(received) : received[k - 1] < received[k]
  /\ \A b \in 1 .. arrived :
       \/ \E k \in 1 .. Len(received) : received[k] = b
       \/ b \in lost
       \/ usart.rdne /\ usart.dr = b

\* DR was read by a handler that saw no overrun, and one came in between: RDNE is
\* clear, the line stays up and USART_GetITStatus keeps sending the handler home.
Spin == nvic /\ usart.rxie /\ usart.ore /\ ~usart.rdne

\* Only the next byte gets the program out of that spin.
OnlyAByteEndsSpin == [][Spin /\ ~Spin' => arrived' = arrived + 1]_vars

\* A byte came for a context that is gone, or has no callback.
Storm ==
  /\ nvic /\ usart.rxie /\ usart.rdne /\ isr \in {"off", "nothing"}
  /\ IF context = NULL THEN TRUE ELSE ~read_cb[context]

\* A call of the API returns unless a byte is never taken or the overrun spin is on.
CallsReturn == pc # "idle" ~> (pc = "idle" \/ Storm \/ Spin)

=============================================================================
