------------------------------ MODULE EthProofs ------------------------------
(***************************************************************************)
(* Safety of the Ethernet port for every number of descriptors and every   *)
(* pool.  Reception: TypeOK, NoNullDescriptor, RingWindow, Conservation,   *)
(* and that the receiver implements the queue of module EthFifo.           *)
(* Transmission: TxTypeOK, TxRingWindow and WireFaithful, with a caller    *)
(* that overruns the ring as it likes.                                     *)
(*                                                                         *)
(* Both rings are chains of n descriptors, each naming the next and the    *)
(* last the first, as ETH_DMARxDescChainInit and ETH_DMATxDescChainInit    *)
(* build them, and both proofs rest on the facts about chains that come    *)
(* first.                                                                  *)
(***************************************************************************)
EXTENDS EthRx, EthTx, SequenceTheorems, FiniteSetTheorems, TLAPS

-----------------------------------------------------------------------------
(* Chains.                                                                   *)

Ix(n) == 0 .. n - 1

\* Buffer2NextDescAddr.
After(n, i) == IF i = n - 1 THEN 0 ELSE i + 1

\* How far i is from o along the chain.
From(n, o, i) == IF i >= o THEN i - o ELSE i - o + n

\* The set F runs from o up to d and stops there, or it is the whole chain.
Run(n, o, d, F) ==
  /\ \A i \in Ix(n) : From(n, o, i) < From(n, o, d) => i \in F
  /\ \/ \A i \in Ix(n) : From(n, o, i) >= From(n, o, d) => i \notin F
     \/ d = o /\ Ix(n) \subseteq F

\* A chain leads from a descriptor to a descriptor.
LEMMA AfterInChain == \A n \in Nat \ {0} : \A i \in Ix(n) : After(n, i) \in Ix(n)
BY DEF Ix, After

\* Distances along the chain are the indices again, each taken once.
LEMMA FromInChain ==
  \A n \in Nat \ {0} : \A o, i \in Ix(n) :
    From(n, o, i) \in Ix(n) /\ From(n, o, o) = 0 /\ (From(n, o, i) = 0 => i = o)
BY DEF Ix, From

\* Filling the descriptor at the end of the run makes it one longer, or the whole chain.
LEMMA RunFill ==
  ASSUME NEW n \in Nat \ {0}, NEW o \in Ix(n), NEW d \in Ix(n), NEW F,
         Run(n, o, d, F), d \notin F
  PROVE  Run(n, o, After(n, d), F \cup {d})
<1>1. \A i \in Ix(n) : i \in F <=> From(n, o, i) < From(n, o, d)
  BY DEF Run, Ix, From
<1>2. CASE From(n, o, d) = n - 1
  <2>1. After(n, d) = o
    BY <1>2 DEF Ix, From, After
  <2>2. \A i \in Ix(n) : i \in F \cup {d}
    BY <1>1, <1>2 DEF Ix, From
  <2> QED BY <2>1, <2>2 DEF Run
<1>3. CASE From(n, o, d) # n - 1
  <2>1. From(n, o, After(n, d)) = From(n, o, d) + 1
    BY <1>3 DEF Ix, From, After
  <2>2. \A i \in Ix(n) :
          From(n, o, i) < From(n, o, d) + 1 <=> From(n, o, i) < From(n, o, d) \/ i = d
    BY DEF Ix, From
  <2>3. \A i \in Ix(n) : From(n, o, i) < From(n, o, After(n, d)) <=> i \in F \cup {d}
    BY <1>1, <2>1, <2>2
  <2>4. \A i \in Ix(n) : From(n, o, i) >= From(n, o, After(n, d)) => i \notin F \cup {d}
    <3> TAKE i \in Ix(n)
    <3>1. From(n, o, i) \in Int /\ From(n, o, After(n, d)) \in Int
      BY AfterInChain DEF Ix, From
    <3> QED BY <2>3, <3>1
  <2> QED BY <2>3, <2>4 DEF Run
<1> QED BY <1>2, <1>3

\* Taking the descriptor at the start of the run makes it one shorter.
LEMMA RunTake ==
  ASSUME NEW n \in Nat \ {0}, NEW o \in Ix(n), NEW d \in Ix(n), NEW F,
         Run(n, o, d, F), o \in F
  PROVE  Run(n, After(n, o), d, F \ {o})
<1>1. CASE d = o
  <2>1. Ix(n) \subseteq F
    BY <1>1 DEF Run, Ix, From
  <2>2. \A i \in Ix(n) : From(n, After(n, o), i) < From(n, After(n, o), d) <=> i # o
    BY <1>1 DEF Ix, From, After
  <2>3. \A i \in Ix(n) : From(n, After(n, o), i) >= From(n, After(n, o), d) => i = o
    BY <1>1 DEF Ix, From, After
  <2> QED BY <2>1, <2>2, <2>3 DEF Run
<1>2. CASE d # o
  <2>1. \A i \in Ix(n) : From(n, o, i) >= From(n, o, d) => i \notin F
    BY <1>2 DEF Run
  <2>2. \A i \in Ix(n) : From(n, After(n, o), i) < From(n, After(n, o), d)
                         => i # o /\ From(n, o, i) < From(n, o, d)
    BY <1>2 DEF Ix, From, After
  <2>3. \A i \in Ix(n) : From(n, After(n, o), i) >= From(n, After(n, o), d)
                         => i = o \/ From(n, o, i) >= From(n, o, d)
    BY <1>2 DEF Ix, From, After
  <2> QED BY <2>1, <2>2, <2>3 DEF Run
<1> QED BY <1>1, <1>2

\* A start that moves on is one nearer to every descriptor but the one it leaves.
LEMMA FromNext ==
  \A n \in Nat \ {0} : \A o, i \in Ix(n) :
    From(n, After(n, o), i) = IF i = o THEN n - 1 ELSE From(n, o, i) - 1
BY DEF Ix, From, After

\* An end that moves on is one further from the start, or is back at it.
LEMMA FromAfter ==
  \A n \in Nat \ {0} : \A o, d \in Ix(n) :
    IF From(n, o, d) = n - 1 THEN After(n, d) = o
    ELSE From(n, o, After(n, d)) = From(n, o, d) + 1 /\ After(n, d) # o
BY DEF Ix, From, After

\* The descriptor furthest from the start is nearer than none.
LEMMA FromLast ==
  \A n \in Nat \ {0} : \A o, d, i \in Ix(n) :
    From(n, o, d) = n - 1 /\ i # d => From(n, o, i) < From(n, o, d)
BY DEF Ix, From

-----------------------------------------------------------------------------
(* Reception.                                                                 *)

\* low_level_input runs only for a descriptor the DMA has filled, and holds it
\* until it gives it back.
Taken ==
  /\ pc = "rx" => ~desc[get].own
  /\ InHand => ~desc[frame.desc].own /\ get = Next1(frame.desc)
  /\ pc # "fault"

\* RingWindow says which descriptors are filled only while one of them is not;
\* the induction needs to know too that a full ring has the DMA back at Oldest.
Window == Run(N, Oldest, dma, Filled)

-----------------------------------------------------------------------------
(* The chain.                                                                *)

\* The chain of module EthRx is that of module ChainLemmas.
LEMMA Chain == Index = Ix(N) /\ \A i \in Index : Next1(i) = After(N, i)
BY DEF Index, Ix, Next1, After

\* Buffer2NextDescAddr leads from a descriptor to a descriptor.
LEMMA NextInRing == \A i \in Index : Next1(i) \in Index
BY SizeAssumption DEF Index, Next1

-----------------------------------------------------------------------------
(* Type correctness.                                                         *)

\* Every step of the DMA and of the CPU keeps every variable's type.
LEMMA TypeStep == TypeOK /\ [Next]_vars => TypeOK'
<1> SUFFICES ASSUME TypeOK, [Next]_vars PROVE TypeOK'
  OBVIOUS
<1> USE BoundAssumption, NextInRing DEF TypeOK
<1>1. ASSUME NEW size \in 0 .. MaxSize, FrameArrives(size) PROVE TypeOK'
  <2>1. CASE desc[dma].own
    <3>1. Next1(dma) \in Index
      OBVIOUS
    <3>2. [own |-> FALSE, frame |-> arrived + 1, size |-> size]
            \in [own : BOOLEAN, frame : Nat, size : 0 .. MaxSize]
      OBVIOUS
    <3>3. desc' \in [Index -> [own : BOOLEAN, frame : Nat, size : 0 .. MaxSize]]
      BY <1>1, <2>1, <3>2 DEF FrameArrives, Store
    <3> QED BY <1>1, <2>1, <3>1, <3>3 DEF FrameArrives, Store, local
  <2>2. CASE ~desc[dma].own
    BY <1>1, <2>2 DEF FrameArrives, ring, local
  <2> QED BY <2>1, <2>2
<1>2. CASE DmaFetch
  BY <1>2 DEF DmaFetch, local
<1>3. CASE DmaSuspend
  BY <1>3 DEF DmaSuspend, local
<1>4. CASE Poll
  BY <1>4 DEF Poll, ring, local
<1>5. CASE RxPkt
  <2>1. Next1(get) \in Index /\ desc[get].size \in 0 .. MaxSize
    OBVIOUS
  <2>2. CASE desc[get].own
    BY <1>5, <2>2 DEF RxPkt, Resume
  <2>3. CASE ~desc[get].own
    BY <1>5, <2>1, <2>3 DEF RxPkt, ring
  <2> QED BY <2>2, <2>3
<1>6. CASE AllocCopy
  BY <1>6 DEF AllocCopy, Pbufs, ring
<1>7. CASE GiveBack
  BY <1>7 DEF GiveBack, local
<1>8. CASE ResumeReception
  BY <1>8 DEF ResumeReception, Resume, local
<1>9. CASE Input
  <2>1. Append(delivered, p.frame) \in Seq(Nat)
    OBVIOUS
  <2>2. p.pbufs \in Nat /\ [pbufs |-> 0, frame |-> 0] \in [pbufs : Nat, frame : Nat]
    OBVIOUS
  <2>3. CASE p.frame = 0
    BY <1>9, <2>2, <2>3 DEF Input, ring
  <2>4. CASE p.frame # 0
    <3>1. delivered' \in Seq(Nat)
      BY <1>9, <2>1, <2>4 DEF Input
    <3>2. pool' \in Nat /\ held' \in Nat
      <4>1. \/ held' = held + p.pbufs /\ pool' = pool
            \/ pool' = pool + p.pbufs /\ held' = held
        BY <1>9, <2>4, Zenon DEF Input
      <4>2. pool \in Nat /\ held \in Nat /\ p.pbufs \in Nat
        OBVIOUS
      <4> HIDE DEF TypeOK
      <4> QED BY <4>1, <4>2
    <3>3. dropped' \in Nat /\ pc' = "idle"
          /\ p' \in [pbufs : Nat, frame : Nat]
      BY <1>9, <2>2, <2>4 DEF Input
    <3>4. UNCHANGED << ring, get, frame, style, arrived >>
      BY <1>9 DEF Input
    <3> QED BY <3>1, <3>2, <3>3, <3>4 DEF ring
  <2> QED BY <2>3, <2>4
<1>10. CASE StackFree
  BY <1>10 DEF StackFree, ring, local
<1>11. CASE UNCHANGED vars
  BY <1>11 DEF vars
<1> QED
  BY <1>1, <1>2, <1>3, <1>4, <1>5, <1>6, <1>7, <1>8, <1>9, <1>10, <1>11 DEF Next, Cpu

\* ETH_DMARxDescChainInit leaves every variable with its type.
LEMMA TypeInit == Init => TypeOK
<1> SUFFICES ASSUME Init PROVE TypeOK
  OBVIOUS
<1>1. 0 \in Index /\ 0 \in 0 .. MaxSize
  BY SizeAssumption, BoundAssumption DEF Index
<1>2. desc \in [Index -> [own : BOOLEAN, frame : Nat, size : 0 .. MaxSize]]
  BY <1>1 DEF Init
<1>3. frame \in [desc : Index, size : 0 .. MaxSize] /\ p \in [pbufs : Nat, frame : Nat]
  BY <1>1 DEF Init
<1>4. delivered \in Seq(Nat)
  BY DEF Init
<1> QED BY <1>1, <1>2, <1>3, <1>4, BoundAssumption DEF Init, TypeOK

\* Every variable of the receive ring keeps its type, for every number of
\* descriptors and every pool.
THEOREM TypeCorrect == Spec => []TypeOK
BY TypeInit, TypeStep, PTL DEF Spec

-----------------------------------------------------------------------------
(* The descriptor in hand.                                                   *)

\* Neither the DMA nor the CPU gives away the descriptor that low_level_input is
\* about to take or has taken.
LEMMA TakenStep == TypeOK /\ Taken /\ [Next]_vars => Taken'
<1> SUFFICES ASSUME TypeOK, Taken, [Next]_vars PROVE Taken'
  OBVIOUS
<1>1. get \in Index /\ frame.desc \in Index
      /\ desc \in [Index -> [own : BOOLEAN, frame : Nat, size : 0 .. MaxSize]]
  BY DEF TypeOK
<1> USE DEF Taken, InHand
<1>2. ASSUME NEW size \in 0 .. MaxSize, FrameArrives(size) PROVE Taken'
  <2>1. \A i \in Index : ~desc[i].own => ~desc'[i].own
    BY <1>1, <1>2 DEF FrameArrives, Store, ring
  <2> QED BY <1>1, <1>2, <2>1 DEF FrameArrives, local
<1>3. CASE DmaFetch
  BY <1>3 DEF DmaFetch, local
<1>4. CASE DmaSuspend
  BY <1>4 DEF DmaSuspend, local
<1>5. CASE Poll
  BY <1>5 DEF Poll, PacketReady, ring, local
<1>6. CASE RxPkt
  <2>1. ~desc[get].own
    BY <1>6 DEF RxPkt
  <2> QED BY <1>6, <2>1 DEF RxPkt, ring
<1>7. CASE AllocCopy
  BY <1>7 DEF AllocCopy, ring
<1>8. CASE GiveBack
  BY <1>8 DEF GiveBack
<1>9. CASE ResumeReception
  BY <1>9 DEF ResumeReception
<1>10. CASE Input
  BY <1>10 DEF Input
<1>11. CASE StackFree
  BY <1>11 DEF StackFree, ring, local
<1>12. CASE UNCHANGED vars
  BY <1>12 DEF vars
<1> QED
  BY <1>2, <1>3, <1>4, <1>5, <1>6, <1>7, <1>8, <1>9, <1>10, <1>11, <1>12 DEF Next, Cpu

\* The inductive invariant behind NoNullDescriptor, with the types it needs.
LEMMA TakenAlways == Spec => [](TypeOK /\ Taken)
<1>1. Init => Taken
  BY DEF Init, Taken, InHand
<1> QED BY <1>1, TypeInit, TypeStep, TakenStep, PTL DEF Spec

\* A caller that asks first never has low_level_input write through the null
\* descriptor of ETH_RxPkt_ChainMode, however many descriptors there are: the
\* descriptor that was ready at the test is still the CPU's when it is taken.
THEOREM NoFault == Spec => []NoNullDescriptor
<1>1. Taken => NoNullDescriptor
  BY DEF Taken, NoNullDescriptor
<1> QED BY <1>1, TakenAlways, PTL

-----------------------------------------------------------------------------
(* The window.                                                               *)

\* The DMA and the CPU each move their own end of the run of filled descriptors.
LEMMA WindowStep == TypeOK /\ Taken /\ Window /\ [Next]_vars => Window'
<1> SUFFICES ASSUME TypeOK, Taken, Window, [Next]_vars PROVE Window'
  OBVIOUS
<1>1. get \in Index /\ dma \in Index /\ frame.desc \in Index /\ Oldest \in Index
      /\ desc \in [Index -> [own : BOOLEAN, frame : Nat, size : 0 .. MaxSize]]
  BY DEF TypeOK, Oldest
<1>2. ASSUME UNCHANGED << desc, dma >>, Oldest' = Oldest PROVE Window'
  BY <1>2 DEF Window, Run, From, Filled
<1>3. ASSUME NEW size \in 0 .. MaxSize, FrameArrives(size) PROVE Window'
  <2>1. Oldest' = Oldest
    BY <1>3 DEF FrameArrives, Oldest, InHand, local
  <2>2. CASE ~desc[dma].own
    BY <1>2, <1>3, <2>1, <2>2 DEF FrameArrives, ring
  <2>3. CASE desc[dma].own
    <3>1. Filled' = Filled \cup {dma}
      BY <1>1, <1>3, <2>3 DEF FrameArrives, Store, Filled
    <3>2. Run(N, Oldest, Next1(dma), Filled \cup {dma})
      BY <1>1, <2>3, Chain, SizeAssumption, RunFill DEF Window, Filled
    <3> QED BY <1>3, <2>1, <2>3, <3>1, <3>2 DEF FrameArrives, Store, Window, Run, From
  <2> QED BY <2>2, <2>3
<1>4. CASE DmaFetch
  BY <1>2, <1>4 DEF DmaFetch, Oldest, InHand, local
<1>5. CASE DmaSuspend
  BY <1>2, <1>5 DEF DmaSuspend, Oldest, InHand, local
<1>6. CASE Poll
  BY <1>2, <1>6 DEF Poll, Oldest, InHand, ring, local
<1>7. CASE RxPkt
  <2>1. ~desc[get].own
    BY <1>7 DEF RxPkt, Taken
  <2> QED BY <1>2, <1>7, <2>1 DEF RxPkt, Oldest, InHand, ring
<1>8. CASE AllocCopy
  BY <1>2, <1>8 DEF AllocCopy, Oldest, InHand, ring
<1>9. CASE GiveBack
  <2>1. Oldest = frame.desc /\ Oldest' = Next1(Oldest) /\ dma' = dma
    BY <1>9 DEF GiveBack, Oldest, InHand, Taken
  <2>2. Oldest \in Filled
    BY <1>1, <1>9, <2>1 DEF GiveBack, InHand, Taken, Filled
  <2>3. Filled' = Filled \ {Oldest}
    BY <1>1, <1>9, <2>1 DEF GiveBack, Filled
  <2>4. Run(N, Next1(Oldest), dma, Filled \ {Oldest})
    BY <1>1, <2>2, Chain, SizeAssumption, RunTake DEF Window
  <2> QED BY <2>1, <2>3, <2>4 DEF Window, Run, From
<1>10. CASE ResumeReception
  BY <1>2, <1>10 DEF ResumeReception, Oldest, InHand, local
<1>11. CASE Input
  BY <1>2, <1>11 DEF Input, Oldest, InHand, ring
<1>12. CASE StackFree
  BY <1>2, <1>12 DEF StackFree, Oldest, InHand, ring, local
<1>13. CASE UNCHANGED vars
  BY <1>2, <1>13 DEF vars, Oldest, InHand
<1> QED
  BY <1>3, <1>4, <1>5, <1>6, <1>7, <1>8, <1>9, <1>10, <1>11, <1>12, <1>13 DEF Next, Cpu

\* An empty ring is a run of no descriptors.
LEMMA WindowInit == Init => Window
<1> SUFFICES ASSUME Init PROVE Window
  OBVIOUS
<1>1. 0 \in Index /\ Oldest = 0 /\ dma = 0 /\ \A i \in Index : desc[i].own
  BY SizeAssumption DEF Init, Oldest, InHand, Index
<1>2. \A i \in Index : ~(From(N, 0, i) < From(N, 0, 0))
  BY <1>1, Chain, FromInChain, SizeAssumption DEF Index, From
<1> QED BY <1>1, <1>2, Chain DEF Window, Run, Filled

\* The descriptors the CPU owns are a run of the chain that ends where the DMA
\* is, for every number of descriptors: what the DMA fills next is never one that
\* low_level_input holds or has yet to read.
THEOREM OwnedRun == Spec => []RingWindow
<1>1. TypeOK /\ Taken /\ Window => RingWindow
  <2> SUFFICES ASSUME TypeOK, Taken, Window PROVE RingWindow
    OBVIOUS
  <2>1. Oldest \in Index /\ dma \in Index
    BY DEF TypeOK, Oldest
  <2>2. \A i \in Index : Dist(i) = From(N, Oldest, i) /\ From(N, Oldest, i) \in Int
    BY <2>1, SizeAssumption DEF Dist, From, Index
  <2> QED BY <2>1, <2>2, Chain, SizeAssumption DEF RingWindow, NoNullDescriptor, Window, Run, Taken, Filled
<1> QED BY <1>1, TakenAlways, WindowInit, WindowStep, PTL DEF Spec

-----------------------------------------------------------------------------
(* The queue.                                                                *)

\* The copy that low_level_input has yet to give the descriptor of is a true one.
TrueCopy == pc = "own" /\ p.frame # 0 => p.frame = desc[frame.desc].frame

\* The frames in the ring and in hand are a sequence.
Queued ==
  /\ Oldest \in Index /\ Count \in 0 .. N
  /\ Unread \in Seq(Nat) /\ Len(Unread) = Count
  /\ \A k \in 1 .. Count : Nth(k) \in Index /\ Unread[k] = desc[Nth(k)].frame
  /\ p.frame \in Nat /\ << p.frame >> \in Seq(Nat) /\ Waiting \in Seq(Nat)

\* It is one whatever the state of the ring.
LEMMA UnreadSeq == TypeOK => Queued
<1> SUFFICES ASSUME TypeOK PROVE Queued
  OBVIOUS
<1>1. Oldest \in Index /\ dma \in Index /\ p.frame \in Nat
      /\ desc \in [Index -> [own : BOOLEAN, frame : Nat, size : 0 .. MaxSize]]
  BY DEF TypeOK, Oldest
<1>2. Count \in 0 .. N
  BY <1>1, SizeAssumption DEF Count, Dist, Index
<1>3. \A k \in 1 .. Count : Nth(k) \in Index
  BY <1>1, <1>2, SizeAssumption DEF Nth, Index
<1>4. \A k \in 1 .. Count : desc[Nth(k)].frame \in Nat
  BY <1>1, <1>3
<1>5. Unread \in [1 .. Count -> Nat] /\ \A k \in 1 .. Count : Unread[k] = desc[Nth(k)].frame
  BY <1>4 DEF Unread
<1>6. Unread \in Seq(Nat)
  BY <1>2, <1>5, SeqDef
<1>7. Len(Unread) = Count
  BY <1>2, <1>5, <1>6, LenProperties
<1>8. << p.frame >> \in Seq(Nat)
  BY <1>1
<1>9. << p.frame >> \o Unread \in Seq(Nat)
  BY <1>6, <1>8, ConcatProperties
<1> QED BY <1>1, <1>2, <1>3, <1>5, <1>6, <1>7, <1>8, <1>9 DEF Waiting, Queued

\* Until the frame is copied nothing but low_level_input touches its descriptor.
LEMMA TrueCopyStep == TypeOK /\ Taken /\ TrueCopy /\ [Next]_vars => TrueCopy'
<1> SUFFICES ASSUME TypeOK, Taken, TrueCopy, [Next]_vars PROVE TrueCopy'
  OBVIOUS
<1> USE DEF TrueCopy
<1>1. get \in Index /\ dma \in Index /\ frame.desc \in Index
      /\ desc \in [Index -> [own : BOOLEAN, frame : Nat, size : 0 .. MaxSize]]
  BY DEF TypeOK
<1>2. ASSUME NEW size \in 0 .. MaxSize, FrameArrives(size) PROVE TrueCopy'
  <2>1. pc = "own" => desc'[frame.desc] = desc[frame.desc]
    BY <1>1, <1>2 DEF FrameArrives, Store, ring, Taken, InHand
  <2> QED BY <1>2, <2>1 DEF FrameArrives, local
<1>3. CASE DmaFetch
  BY <1>3 DEF DmaFetch, local
<1>4. CASE DmaSuspend
  BY <1>4 DEF DmaSuspend, local
<1>5. CASE Poll
  BY <1>5 DEF Poll
<1>6. CASE RxPkt
  BY <1>6 DEF RxPkt
<1>7. CASE AllocCopy
  BY <1>7 DEF AllocCopy, ring
<1>8. CASE GiveBack
  BY <1>8 DEF GiveBack
<1>9. CASE ResumeReception
  BY <1>9 DEF ResumeReception
<1>10. CASE Input
  BY <1>10 DEF Input
<1>11. CASE StackFree
  BY <1>11 DEF StackFree
<1>12. CASE UNCHANGED vars
  BY <1>12 DEF vars, ring, local
<1> QED
  BY <1>2, <1>3, <1>4, <1>5, <1>6, <1>7, <1>8, <1>9, <1>10, <1>11, <1>12 DEF Next, Cpu

\* A frame the DMA stores goes to the end of the queue.
LEMMA StoreAppends ==
  ASSUME TypeOK, TypeOK', Window, NEW size \in 0 .. MaxSize,
         FrameArrives(size), desc[dma].own
  PROVE  Waiting' = Append(Waiting, arrived + 1)
<1>1. Oldest \in Index /\ dma \in Index /\ arrived \in Nat
      /\ desc \in [Index -> [own : BOOLEAN, frame : Nat, size : 0 .. MaxSize]]
  BY DEF TypeOK, Oldest
<1>2. /\ desc' = [desc EXCEPT ![dma] = [own |-> FALSE, frame |-> arrived + 1, size |-> size]]
      /\ dma' = Next1(dma) /\ p' = p /\ Copied' = Copied /\ Oldest' = Oldest
  BY DEF FrameArrives, Store, local, Copied, Oldest, InHand
<1>3. dma # Oldest => ~desc[Oldest].own
  <2>1. dma # Oldest => From(N, Oldest, Oldest) < From(N, Oldest, dma)
    BY <1>1, SizeAssumption DEF From, Index
  <2> QED BY <1>1, <2>1, Chain DEF Window, Run, Filled
<1>4. Count = Dist(dma)
  BY <1>1, <1>3 DEF Count, Dist, Index
<1>5. Count \in 0 .. N - 1 /\ Nth(Count + 1) = dma /\ \A k \in 1 .. Count : Nth(k) # dma
  BY <1>1, <1>4, SizeAssumption DEF Dist, Nth, Index
<1>6. ~desc'[Oldest].own
  BY <1>1, <1>2, <1>3
<1>7. Count' = Count + 1
  <2>1. CASE Next1(dma) = Oldest
    BY <1>1, <1>2, <1>4, <1>6, <2>1, SizeAssumption DEF Count, Dist, Next1, Index
  <2>2. CASE Next1(dma) # Oldest
    BY <1>1, <1>2, <1>4, <1>6, <2>2, SizeAssumption DEF Count, Dist, Next1, Index
  <2> QED BY <2>1, <2>2
<1>8. \A k \in 1 .. Count + 1 : Nth(k)' = Nth(k)
  BY <1>2 DEF Nth
<1>9. Unread \in Seq(Nat) /\ Len(Unread) = Count /\ << p.frame >> \in Seq(Nat)
      /\ \A k \in 1 .. Count : Nth(k) \in Index /\ Unread[k] = desc[Nth(k)].frame
  BY UnreadSeq DEF Queued
<1>10. Unread' \in Seq(Nat) /\ Len(Unread') = Count + 1
  <2>1. Queued'
    BY UnreadSeq, PTL
  <2> QED BY <1>7, <2>1 DEF Queued
<1>11. \A k \in 1 .. Count + 1 : Unread'[k] = desc'[Nth(k)].frame
  BY <1>7, <1>8 DEF Unread
<1>12. \A k \in 1 .. Count : Unread'[k] = Unread[k]
  BY <1>1, <1>2, <1>5, <1>9, <1>11
<1>13. Unread'[Count + 1] = arrived + 1
  BY <1>1, <1>2, <1>5, <1>11
<1>14. Unread' = Append(Unread, arrived + 1)
  <2> DEFINE U == Append(Unread, arrived + 1)
  <2>1. U \in Seq(Nat) /\ Len(U) = Count + 1 /\ U[Count + 1] = arrived + 1
        /\ \A k \in 1 .. Count : U[k] = Unread[k]
    BY <1>1, <1>9, AppendProperties
  <2>2. \A k \in 1 .. Len(Unread') : Unread'[k] = U[k]
    BY <1>5, <1>10, <1>12, <1>13, <2>1
  <2> HIDE DEF U
  <2>3. Unread' = U
    BY <1>10, <2>1, <2>2, SeqEqual
  <2> QED BY <2>3 DEF U
<1>15. << p.frame >> \o Append(Unread, arrived + 1) = Append(<< p.frame >> \o Unread, arrived + 1)
  <2>1. Append(Unread, arrived + 1) = Unread \o << arrived + 1 >>
        /\ << arrived + 1 >> \in Seq(Nat) /\ << p.frame >> \o Unread \in Seq(Nat)
    BY <1>1, <1>9, AppendIsConcat, ConcatProperties
  <2>2. Append(<< p.frame >> \o Unread, arrived + 1)
          = (<< p.frame >> \o Unread) \o << arrived + 1 >>
    BY <1>1, <2>1, AppendIsConcat
  <2>3. (<< p.frame >> \o Unread) \o << arrived + 1 >>
          = << p.frame >> \o (Unread \o << arrived + 1 >>)
    BY <1>9, <2>1, ConcatAssociative
  <2> QED BY <2>1, <2>2, <2>3
<1> QED BY <1>2, <1>14, <1>15 DEF Waiting

\* Giving the descriptor back takes its frame, the oldest, out of the ring.
LEMMA TakeOldest ==
  ASSUME TypeOK, TypeOK', Taken, Window, GiveBack
  PROVE  /\ Unread # << >> /\ Unread' = Tail(Unread)
         /\ Head(Unread) = desc[frame.desc].frame
<1>1. get \in Index /\ dma \in Index /\ Oldest \in Index
      /\ desc \in [Index -> [own : BOOLEAN, frame : Nat, size : 0 .. MaxSize]]
  BY DEF TypeOK, Oldest
<1>2. /\ Oldest = frame.desc /\ ~desc[Oldest].own
      /\ desc' = [desc EXCEPT ![Oldest].own = TRUE]
      /\ dma' = dma /\ Oldest' = Next1(Oldest)
  BY DEF GiveBack, Oldest, InHand, Taken
<1>0. N \in Nat \ {0} /\ Oldest \in 0 .. N - 1 /\ dma \in 0 .. N - 1
  BY <1>1, SizeAssumption DEF Index
<1>3. \A i \in Index : desc'[i].frame = desc[i].frame
  BY <1>1, <1>2
<1>4. desc'[Oldest].own /\ \A i \in Index : i # Oldest => desc'[i].own = desc[i].own
  BY <1>1, <1>2
<1>5. Next1(Oldest) \in Index
  BY <1>1, NextInRing
<1>6. Count \in 1 .. N /\ Count' = Count - 1
  <2>1. CASE dma = Oldest
    <3>1. Count = N
      BY <1>2, <2>1 DEF Count
    <3>2. CASE Next1(Oldest) = Oldest
      <4>1. N = 1
        BY <1>0, <3>2 DEF Next1
      <4>2. Count' = 0
        BY <1>2, <1>4, <3>2 DEF Count
      <4> QED BY <3>1, <4>1, <4>2
    <3>3. CASE Next1(Oldest) # Oldest
      <4>1. Next1(Oldest) \in Filled
        <5>1. ~(From(N, Oldest, Oldest) >= From(N, Oldest, dma) => Oldest \notin Filled)
          BY <1>1, <1>2, <2>1, SizeAssumption DEF From, Filled, Index
        <5> QED BY <1>1, <1>5, <5>1, Chain DEF Window, Run
      <4>2. ~desc'[Next1(Oldest)].own
        BY <1>4, <1>5, <3>3, <4>1 DEF Filled
      <4>3. Count' = From(N, Next1(Oldest), dma)
        BY <1>2, <2>1, <3>3, <4>2 DEF Count, Dist, From
      <4>4. From(N, Next1(Oldest), dma) = N - 1
        BY <1>0, <2>1, <3>3 DEF From, Next1
      <4> QED BY <1>0, <3>1, <4>3, <4>4
    <3> QED BY <3>2, <3>3
  <2>2. CASE dma # Oldest
    <3>1. Count = Dist(dma) /\ Dist(dma) = From(N, Oldest, dma) /\ Dist(dma) \in 1 .. N - 1
      <4>1. Count = Dist(dma)
        BY <1>2, <2>2 DEF Count
      <4>2. Dist(dma) = From(N, Oldest, dma)
        BY DEF Dist, From
      <4>3. From(N, Oldest, dma) \in 1 .. N - 1
        BY <1>0, <2>2 DEF From
      <4> QED BY <4>1, <4>2, <4>3
    <3>2. Next1(Oldest) # Oldest /\ From(N, Oldest, Next1(Oldest)) = 1
      BY <1>0, <2>2 DEF Next1, From
    <3>3. desc'[Next1(Oldest)].own = desc[Next1(Oldest)].own
      BY <1>4, <1>5, <3>2
    <3>4. CASE dma = Next1(Oldest)
      <4>1. dma \notin Filled
        BY <1>1, <2>2, <3>1, Chain, SizeAssumption DEF Window, Run
      <4>2. desc'[Next1(Oldest)].own
        BY <1>1, <3>3, <3>4, <4>1 DEF Filled
      <4>3. Count' = 0
        BY <1>2, <4>2 DEF Count
      <4> QED BY <3>1, <3>2, <3>4, <4>3, SizeAssumption
    <3>5. CASE dma # Next1(Oldest)
      <4>1. Dist(dma) > 1
        BY <1>0, <2>2, <3>1, <3>5 DEF Dist, Next1
      <4>2. Next1(Oldest) \in Filled
        BY <1>1, <1>5, <3>1, <3>2, <4>1, Chain, SizeAssumption DEF Window, Run
      <4>3. Count' = Dist(dma)'
        BY <1>2, <3>3, <3>5, <4>2 DEF Count, Filled
      <4>4. Dist(dma)' = From(N, Next1(Oldest), dma)
        BY <1>2 DEF Dist, From
      <4>5. From(N, Next1(Oldest), dma) = From(N, Oldest, dma) - 1
        BY <1>0, <2>2, <3>5 DEF From, Next1
      <4> QED BY <3>1, <4>3, <4>4, <4>5, SizeAssumption
    <3> QED BY <3>4, <3>5
  <2> QED BY <2>1, <2>2
<1>7. \A k \in 1 .. Count - 1 : Nth(k)' = Nth(k + 1)
  <2> TAKE k \in 1 .. Count - 1
  <2>1. Nth(k)' = IF Next1(Oldest) + k - 1 < N THEN Next1(Oldest) + k - 1 ELSE Next1(Oldest) + k - 1 - N
    BY <1>2 DEF Nth
  <2>2. k \in Nat \ {0} /\ k + 1 <= N
    BY <1>0, <1>6
  <2> QED BY <1>0, <2>1, <2>2 DEF Nth, Next1
<1>8. Unread \in Seq(Nat) /\ Len(Unread) = Count
      /\ \A k \in 1 .. Count : Nth(k) \in Index /\ Unread[k] = desc[Nth(k)].frame
  BY UnreadSeq DEF Queued
<1>9. Unread' \in Seq(Nat) /\ Len(Unread') = Count - 1
  <2>1. Queued'
    BY UnreadSeq, PTL
  <2> QED BY <1>6, <2>1 DEF Queued
<1>10. \A k \in 1 .. Count - 1 : Unread'[k] = desc'[Nth(k)'].frame
  BY <1>6 DEF Unread
<1>11. \A k \in 1 .. Count - 1 : Unread'[k] = Unread[k + 1]
  <2> TAKE k \in 1 .. Count - 1
  <2>1. k + 1 \in 1 .. Count
    BY <1>6
  <2> QED BY <1>3, <1>7, <1>8, <1>10, <2>1
<1>12. Unread # << >>
  BY <1>6, <1>8, EmptySeq
<1>13. Unread' = Tail(Unread)
  <2> DEFINE T == Tail(Unread)
  <2>1. T \in Seq(Nat) /\ Len(T) = Count - 1 /\ \A k \in 1 .. Count - 1 : T[k] = Unread[k + 1]
    BY <1>6, <1>8, <1>12, HeadTailProperties
  <2>2. \A k \in 1 .. Len(Unread') : Unread'[k] = T[k]
    BY <1>6, <1>9, <1>11, <2>1
  <2> HIDE DEF T
  <2>3. Unread' = T
    BY <1>9, <2>1, <2>2, SeqEqual
  <2> QED BY <2>3 DEF T
<1>14. Head(Unread) = desc[frame.desc].frame
  <2>1. Nth(1) = Oldest
    BY <1>1, SizeAssumption DEF Nth, Index
  <2>2. Head(Unread) = Unread[1]
    BY <1>8, <1>12, HeadTailProperties
  <2> QED BY <1>2, <1>6, <1>8, <2>1, <2>2
<1> QED BY <1>12, <1>13, <1>14

\* The first frame of a queue is what is put before the others.
LEMMA FirstOfQueue ==
  ASSUME NEW q \in Seq(Nat), NEW x \in Nat
  PROVE  << x >> \o q # << >> /\ Head(<< x >> \o q) = x /\ Tail(<< x >> \o q) = q
<1> DEFINE s == << x >> \o q
<1>1. << x >> \in Seq(Nat) /\ Len(<< x >>) = 1 /\ Len(q) \in Nat
  BY LenProperties
<1>2. s \in Seq(Nat) /\ Len(s) = 1 + Len(q)
      /\ \A i \in 1 .. 1 + Len(q) : s[i] = IF i <= 1 THEN x ELSE q[i - 1]
  BY <1>1, ConcatProperties
<1> HIDE DEF s
<1>3. s # << >>
  BY <1>1, <1>2, EmptySeq
<1>4. Head(s) = x
  BY <1>1, <1>2, <1>3
<1>5. Tail(s) \in Seq(Nat) /\ Len(Tail(s)) = Len(q)
      /\ \A i \in 1 .. Len(q) : Tail(s)[i] = s[i + 1]
  BY <1>1, <1>2, <1>3, HeadTailProperties
<1>6. \A i \in 1 .. Len(Tail(s)) : Tail(s)[i] = q[i]
  <2> TAKE i \in 1 .. Len(Tail(s))
  <2>1. i + 1 \in 1 .. 1 + Len(q) /\ ~(i + 1 <= 1) /\ (i + 1) - 1 = i
    BY <1>1, <1>5
  <2>2. s[i + 1] = q[i]
    BY <1>2, <2>1
  <2> QED BY <1>5, <2>2
<1>7. Tail(s) = q
  BY <1>5, <1>6, SeqEqual
<1> QED BY <1>3, <1>4, <1>7 DEF s

\* Put before the rest, the first frame makes up the queue again.
LEMMA QueueAgain ==
  ASSUME NEW q \in Seq(Nat), q # << >>
  PROVE  << Head(q) >> \o Tail(q) = q
<1>1. Len(q) \in Nat \ {0} /\ Tail(q) \in Seq(Nat) /\ Len(Tail(q)) = Len(q) - 1
      /\ (\A i \in 1 .. Len(Tail(q)) : Tail(q)[i] = q[i + 1])
      /\ Head(q) = q[1] /\ Head(q) \in Nat
  BY EmptySeq, HeadTailProperties
<1> DEFINE s == << Head(q) >> \o Tail(q)
<1>2. << Head(q) >> \in Seq(Nat) /\ Len(<< Head(q) >>) = 1
  BY <1>1
<1>3. s \in Seq(Nat) /\ Len(s) = 1 + Len(Tail(q))
      /\ \A i \in 1 .. 1 + Len(Tail(q)) : s[i] = IF i <= 1 THEN << Head(q) >>[i] ELSE Tail(q)[i - 1]
  BY <1>1, <1>2, ConcatProperties
<1> HIDE DEF s
<1>4. \A i \in 1 .. Len(s) : s[i] = q[i]
  <2> TAKE i \in 1 .. Len(s)
  <2>1. CASE i = 1
    BY <1>1, <1>3, <2>1
  <2>2. CASE i # 1
    <3>1. i - 1 \in 1 .. Len(Tail(q)) /\ (i - 1) + 1 = i /\ ~(i <= 1)
      BY <1>1, <1>3, <2>2
    <3> QED BY <1>1, <1>3, <3>1
  <2> QED BY <2>1, <2>2
<1>5. s = q
  BY <1>1, <1>3, <1>4, SeqEqual
<1> QED BY <1>5 DEF s

\* Every step of the DMA and of the CPU is a step of the queue or none.
LEMMA QueueStep ==
  TypeOK /\ TypeOK' /\ Taken /\ Window /\ TrueCopy /\ [Next]_vars => [Fifo!Next]_(Fifo!vars)
<1> SUFFICES ASSUME TypeOK, TypeOK', Taken, Window, TrueCopy, [Next]_vars
             PROVE  Fifo!Next \/ UNCHANGED Fifo!vars
  BY DEF Fifo!vars
<1>1. Queued
  BY UnreadSeq
<1>2. /\ Oldest \in Index /\ dma \in Index /\ arrived \in Nat
      /\ desc \in [Index -> [own : BOOLEAN, frame : Nat, size : 0 .. MaxSize]]
  BY DEF TypeOK, Oldest
<1>3. ASSUME UNCHANGED << desc, dma >>, Oldest' = Oldest, Copied' = Copied, Copied => p' = p
      PROVE  Waiting' = Waiting
  <2>1. Count' = Count /\ \A k \in 1 .. Count : Nth(k)' = Nth(k)
    BY <1>3 DEF Count, Dist, Nth
  <2>2. Unread' = Unread
    BY <1>3, <2>1 DEF Unread
  <2> QED BY <1>3, <2>2 DEF Waiting
<1>4. ASSUME NEW size \in 0 .. MaxSize, FrameArrives(size) PROVE Fifo!Next
  <2>1. arrived' = arrived + 1 /\ delivered' = delivered
    BY <1>4 DEF FrameArrives
  <2>2. CASE desc[dma].own
    <3>1. Waiting' = Append(Waiting, arrived + 1)
      BY <1>4, <2>2, StoreAppends
    <3> QED BY <2>1, <3>1 DEF Fifo!Next, Fifo!Arrive
  <2>3. CASE ~desc[dma].own
    <3>1. Waiting' = Waiting
      BY <1>3, <1>4, <2>3 DEF FrameArrives, ring, local, Oldest, InHand, Copied
    <3>2. Count = N
      <4>1. dma \in Filled /\ From(N, Oldest, dma) >= From(N, Oldest, dma)
        BY <1>2, <2>3, SizeAssumption DEF Filled, From, Index
      <4>2. dma = Oldest
        BY <1>2, <4>1, Chain DEF Window, Run
      <4> QED BY <2>3, <4>2 DEF Count
    <3>3. Len(Waiting) >= N
      <4>1. CASE Copied
        <5>1. Len(<< p.frame >>) = 1 /\ Len(<< p.frame >> \o Unread) = Len(<< p.frame >>) + Len(Unread)
          BY <1>1, ConcatProperties DEF Queued
        <5> QED BY <1>1, <3>2, <4>1, <5>1, SizeAssumption DEF Queued, Waiting
      <4>2. CASE ~Copied
        BY <1>1, <3>2, <4>2, SizeAssumption DEF Queued, Waiting
      <4> QED BY <4>1, <4>2
    <3> QED BY <2>1, <3>1, <3>3 DEF Fifo!Next, Fifo!Arrive
  <2> QED BY <2>2, <2>3
<1>5. CASE DmaFetch
  BY <1>3, <1>5 DEF DmaFetch, Oldest, InHand, Copied, local, Fifo!vars
<1>6. CASE DmaSuspend
  BY <1>3, <1>6 DEF DmaSuspend, Oldest, InHand, Copied, local, Fifo!vars
<1>7. CASE Poll
  BY <1>3, <1>7 DEF Poll, Oldest, InHand, Copied, ring, local, Fifo!vars
<1>8. CASE RxPkt
  <2>1. ~desc[get].own
    BY <1>8 DEF RxPkt, Taken
  <2> QED BY <1>3, <1>8, <2>1 DEF RxPkt, Oldest, InHand, Copied, ring, Fifo!vars
<1>9. CASE AllocCopy
  BY <1>3, <1>9 DEF AllocCopy, Oldest, InHand, Copied, ring, Fifo!vars
<1>10. CASE GiveBack
  <2>1. Unread # << >> /\ Unread' = Tail(Unread) /\ Head(Unread) = desc[frame.desc].frame
    BY <1>10, TakeOldest
  <2>2. Waiting = Unread /\ UNCHANGED << arrived, delivered >> /\ p' = p
        /\ (Copied' <=> p.frame # 0)
    BY <1>10 DEF GiveBack, Copied, Waiting, local
  <2>3. CASE p.frame = 0
    BY <2>1, <2>2, <2>3 DEF Waiting, Fifo!Next, Fifo!Lose
  <2>4. CASE p.frame # 0
    <3>1. p.frame = Head(Unread)
      BY <1>10, <2>1, <2>4 DEF GiveBack, TrueCopy
    <3>2. << Head(Unread) >> \o Tail(Unread) = Unread
      <4>1. Unread \in Seq(Nat)
        BY <1>1 DEF Queued
      <4> QED BY <2>1, <4>1, QueueAgain
    <3>3. Waiting' = Waiting
      BY <2>1, <2>2, <2>4, <3>1, <3>2 DEF Waiting
    <3> QED BY <2>2, <3>3 DEF Fifo!vars
  <2> QED BY <2>3, <2>4
<1>11. CASE ResumeReception
  BY <1>3, <1>11 DEF ResumeReception, Oldest, InHand, Copied, local, Fifo!vars
<1>12. CASE Input
  <2>1. UNCHANGED << desc, dma, arrived >> /\ Oldest' = Oldest /\ ~Copied'
    BY <1>12 DEF Input, Oldest, InHand, Copied, ring
  <2>2. CASE p.frame = 0
    <3>1. ~Copied /\ delivered' = delivered
      BY <1>12, <2>2 DEF Input, Copied
    <3>2. Copied' = Copied
      BY <2>1, <3>1 DEF Copied
    <3>3. Waiting' = Waiting
      BY <1>3, <2>1, <3>1, <3>2
    <3> QED BY <2>1, <3>1, <3>3 DEF Fifo!vars
  <2>3. CASE p.frame # 0
    <3>1. Waiting = << p.frame >> \o Unread /\ delivered' = Append(delivered, p.frame)
      BY <1>12, <2>3 DEF Input, Copied, Waiting
    <3>2. Waiting' = Unread
      <4>1. Count' = Count /\ \A k \in 1 .. Count : Nth(k)' = Nth(k)
        BY <2>1 DEF Count, Dist, Nth
      <4> QED BY <2>1, <4>1 DEF Unread, Waiting
    <3>3. Waiting # << >> /\ Head(Waiting) = p.frame /\ Tail(Waiting) = Unread
      BY <1>1, <3>1, FirstOfQueue DEF Queued
    <3> QED BY <2>1, <3>1, <3>2, <3>3 DEF Fifo!Next, Fifo!Deliver
  <2> QED BY <2>2, <2>3
<1>13. CASE StackFree
  BY <1>3, <1>13 DEF StackFree, Oldest, InHand, Copied, ring, local, Fifo!vars
<1>14. CASE UNCHANGED vars
  BY <1>3, <1>14 DEF vars, Oldest, InHand, Copied, Fifo!vars
<1> QED
  BY <1>4, <1>5, <1>6, <1>7, <1>8, <1>9, <1>10, <1>11, <1>12, <1>13, <1>14 DEF Next, Cpu

\* An empty ring is an empty queue.
LEMMA QueueInit == Init => Fifo!Init
<1> SUFFICES ASSUME Init PROVE Fifo!Init
  OBVIOUS
<1>1. 0 \in Index /\ Oldest = 0 /\ ~Copied /\ \A i \in Index : desc[i].own
  BY SizeAssumption DEF Init, Oldest, InHand, Copied, Index
<1>2. Count = 0
  BY <1>1 DEF Count
<1>3. Queued
  BY TypeInit, UnreadSeq
<1>4. Unread = << >>
  BY <1>2, <1>3, EmptySeq DEF Queued
<1> QED BY <1>1, <1>4 DEF Waiting, Init, Fifo!Init

\* The ring of low_level_input, its copy into pbufs and its resumption of the DMA
\* implement the queue, for every number of descriptors and every pool.
THEOREM Implements == Spec => InOrder
<1>1. Init => Window /\ TrueCopy
  BY WindowInit DEF Init, TrueCopy
<1> QED
  BY <1>1, TypeInit, TypeStep, TakenAlways, WindowStep, TrueCopyStep, QueueStep, QueueInit, PTL
  DEF Spec, InOrder, Fifo!Spec

-----------------------------------------------------------------------------
(* Conservation.                                                             *)

\* Between two frames the local pbuf chain is empty.
EmptyHanded == pc \in {"idle", "rx", "alloc"} => p.pbufs = 0

\* The filled descriptors can be counted, one more or less at a time.
LEMMA FilledCount ==
  /\ IsFiniteSet(Filled) /\ Cardinality(Filled) \in Nat
  /\ \A i \in Index \ Filled : Cardinality(Filled \cup {i}) = Cardinality(Filled) + 1
  /\ \A i \in Filled : Cardinality(Filled \ {i}) = Cardinality(Filled) - 1
<1>1. IsFiniteSet(Index)
  BY SizeAssumption, FS_Interval DEF Index
<1>2. IsFiniteSet(Filled)
  BY <1>1, FS_Subset DEF Filled
<1> QED BY <1>2, FS_CardinalityType, FS_AddElement, FS_RemoveElement

\* A step moves a frame, or a pbuf, from one place to another.
LEMMA ConservationStep ==
  TypeOK /\ Taken /\ EmptyHanded /\ Conservation /\ [Next]_vars => EmptyHanded' /\ Conservation'
<1> SUFFICES ASSUME TypeOK, Taken, EmptyHanded, Conservation, [Next]_vars
             PROVE  EmptyHanded' /\ Conservation'
  OBVIOUS
<1>1. /\ get \in Index /\ dma \in Index /\ frame.desc \in Index /\ frame.size \in Nat
      /\ desc \in [Index -> [own : BOOLEAN, frame : Nat, size : 0 .. MaxSize]]
      /\ p \in [pbufs : Nat, frame : Nat] /\ pool \in Nat /\ held \in Nat /\ Pool \in Nat
      /\ arrived \in Nat /\ delivered \in Seq(Nat) /\ Len(delivered) \in Nat /\ dropped \in Nat
  BY BoundAssumption DEF TypeOK
<1>2. /\ Cardinality(Filled) \in Nat /\ arrived \in Nat /\ Len(delivered) \in Nat /\ dropped \in Nat
      /\ pool \in Nat /\ held \in Nat /\ p.pbufs \in Nat /\ Pool \in Nat
  BY <1>1, FilledCount
<1>2a. pool + held + p.pbufs = Pool
  BY DEF Conservation
<1>2b. arrived = Len(delivered) + dropped + Cardinality(Filled)
                 + (IF pc \in {"resume", "input"} THEN 1 ELSE 0)
  BY DEF Conservation
<1>3. ASSUME UNCHANGED << desc, arrived, delivered, dropped, pool, held, p >>,
             pc' \in {"resume", "input"} <=> pc \in {"resume", "input"},
             pc' \in {"idle", "rx", "alloc"} => pc \in {"idle", "rx", "alloc"}
      PROVE  EmptyHanded' /\ Conservation'
  BY <1>3 DEF EmptyHanded, Conservation, Filled
<1>4. ASSUME NEW size \in 0 .. MaxSize, FrameArrives(size)
      PROVE  EmptyHanded' /\ Conservation'
  <2>1. /\ UNCHANGED << pc, p, pool, held, delivered >> /\ arrived' = arrived + 1
    BY <1>4 DEF FrameArrives, local
  <2>2. CASE desc[dma].own
    <3>1. Filled' = Filled \cup {dma} /\ dma \in Index \ Filled /\ dropped' = dropped
      BY <1>1, <1>4, <2>2 DEF FrameArrives, Store, Filled
    <3>2. Cardinality(Filled') = Cardinality(Filled) + 1
      BY <3>1, FilledCount
    <3> QED BY <1>2, <2>1, <3>1, <3>2 DEF EmptyHanded, Conservation
  <2>3. CASE ~desc[dma].own
    <3>1. Filled' = Filled /\ dropped' = dropped + 1
      BY <1>4, <2>3 DEF FrameArrives, ring, Filled
    <3> QED BY <1>2, <2>1, <3>1 DEF EmptyHanded, Conservation
  <2> QED BY <2>2, <2>3
<1>5. CASE DmaFetch
  BY <1>3, <1>5 DEF DmaFetch, local
<1>6. CASE DmaSuspend
  BY <1>3, <1>6 DEF DmaSuspend, local
<1>7. CASE Poll
  BY <1>3, <1>7 DEF Poll, ring, local
<1>8. CASE RxPkt
  BY <1>3, <1>8 DEF RxPkt, Taken, ring
<1>9. CASE AllocCopy
  <2>1. /\ UNCHANGED << desc, arrived, delivered, dropped, held >> /\ Filled' = Filled
        /\ pc = "alloc" /\ pc' = "own" /\ p.pbufs = 0
    BY <1>9 DEF AllocCopy, ring, Filled, EmptyHanded
  <2>2. Pbufs(frame.size) \in Nat
    BY <1>1 DEF Pbufs
  <2>3. pool' + p'.pbufs = pool
    BY <1>1, <1>9, <2>2 DEF AllocCopy
  <2>4. pool' \in Nat /\ p'.pbufs \in Nat
    BY <1>1, <1>9, <2>2 DEF AllocCopy
  <2>5. pool' + held' + p'.pbufs = Pool
    BY <1>2, <1>2a, <2>1, <2>3, <2>4
  <2>6. Cardinality(Filled') = Cardinality(Filled)
    BY <2>1
  <2> QED BY <2>1, <2>5, <2>6 DEF EmptyHanded, Conservation
<1>10. CASE GiveBack
  <2>1. /\ UNCHANGED << arrived, delivered, dropped, pool, held, p >>
        /\ pc = "own" /\ pc' = "resume" /\ frame.desc \in Filled
        /\ Filled' = Filled \ {frame.desc}
    BY <1>1, <1>10 DEF GiveBack, Taken, InHand, Filled, local
  <2>2. Cardinality(Filled') = Cardinality(Filled) - 1
    BY <2>1, FilledCount
  <2> QED BY <1>2, <2>1, <2>2 DEF EmptyHanded, Conservation
<1>11. CASE ResumeReception
  BY <1>3, <1>11 DEF ResumeReception, local
<1>12. CASE Input
  <2>1. /\ UNCHANGED << desc, arrived >> /\ Filled' = Filled
        /\ pc = "input" /\ pc' = "idle" /\ p'.pbufs = 0
    BY <1>12 DEF Input, ring, Filled
  <2>2. Len(delivered') + dropped' = Len(delivered) + dropped + 1
    <3>1. Len(Append(delivered, p.frame)) = Len(delivered) + 1
      BY <1>1
    <3>2. \/ delivered' = Append(delivered, p.frame) /\ dropped' = dropped
          \/ delivered' = delivered /\ dropped' = dropped + 1
      BY <1>12, Zenon DEF Input
    <3> QED BY <1>2, <3>1, <3>2
  <2>3. pool' + held' = pool + held + p.pbufs
    <3>1. \/ pool' = pool + p.pbufs /\ held' = held
          \/ held' = held + p.pbufs /\ pool' = pool
      BY <1>12, Zenon DEF Input
    <3> QED BY <1>2, <3>1
  <2>4. pool' \in Nat /\ held' \in Nat /\ Len(delivered') \in Nat /\ dropped' \in Nat
    BY TypeStep DEF TypeOK
  <2>5. pool' + held' = Pool
    BY <1>2a, <2>3
  <2>6. arrived' = Len(delivered') + dropped' + Cardinality(Filled')
    BY <1>2, <1>2b, <2>1, <2>2, <2>4
  <2>7. Conservation'
    <3>0. Cardinality(Filled') \in Nat
      BY <1>2, <2>1
    <3>1. pool' + held' + p'.pbufs = Pool
      BY <2>1, <2>4, <2>5
    <3>2. Len(delivered') + dropped' \in Nat
      BY <2>4
    <3>3. arrived' = Len(delivered') + dropped' + Cardinality(Filled') + 0
      BY <2>6, <3>0, <3>2
    <3> QED BY <2>1, <3>1, <3>3 DEF Conservation
  <2> QED BY <2>1, <2>7 DEF EmptyHanded
<1>13. CASE StackFree
  <2>1. /\ UNCHANGED << pc, p, arrived, delivered, dropped >> /\ Filled' = Filled
        /\ held > 0 /\ held' = held - 1 /\ pool' = pool + 1
    BY <1>13 DEF StackFree, ring, local, Filled
  <2> QED BY <1>1, <2>1 DEF EmptyHanded, Conservation
<1>14. CASE UNCHANGED vars
  BY <1>3, <1>14 DEF vars
<1> QED
  BY <1>4, <1>5, <1>6, <1>7, <1>8, <1>9, <1>10, <1>11, <1>12, <1>13, <1>14 DEF Next, Cpu

\* Nothing is lost on the way from the MAC to the stack, for every ring, every pool
\* and every sequence of frames: a frame that arrived is delivered, counted as
\* dropped, in the ring or in the hands of low_level_input, and every pbuf is free,
\* kept by the stack or in its hands.
THEOREM NothingLost == Spec => []Conservation
<1>1. Init => EmptyHanded /\ Conservation
  <2> SUFFICES ASSUME Init PROVE EmptyHanded /\ Conservation
    OBVIOUS
  <2>1. Filled = {}
    BY DEF Init, Filled
  <2>2. Cardinality(Filled) = 0
    BY <2>1, FS_EmptySet
  <2> QED BY <2>2, BoundAssumption DEF Init, EmptyHanded, Conservation
<1> QED BY <1>1, TakenAlways, ConservationStep, PTL DEF Spec

-----------------------------------------------------------------------------
(* Transmission.                                                              *)

Owned == {i \in TxIndex : txDesc[i].own}

\* TxRingWindow says which descriptors the DMA owns only while it does not own them
\* all; the induction needs to know too that a full ring has Target back at txDma.
TxWindow == Run(TxN, txDma, Target, Owned)

\* The DMA sends only from a descriptor it owns.
Sends == txState = "send" => txDesc[txDma].own

-----------------------------------------------------------------------------
\* The chain of module EthTx is that of module ChainLemmas.
LEMMA TxChain == TxIndex = Ix(TxN) /\ \A i \in TxIndex : TxNext1(i) = After(TxN, i)
BY DEF TxIndex, Ix, TxNext1, After

\* Buffer2NextDescAddr leads from a descriptor to a descriptor.
LEMMA TxNextInRing == \A i \in TxIndex : TxNext1(i) \in TxIndex
BY TxSizeAssumption DEF TxIndex, TxNext1

\* ETH_DMATxDescChainInit leaves every variable with its type.
LEMMA TxTypeInit == TxInit => TxTypeOK
<1> SUFFICES ASSUME TxInit PROVE TxTypeOK
  OBVIOUS
<1>1. 0 \in TxIndex
  BY TxSizeAssumption DEF TxIndex
<1>2. txDesc \in [TxIndex -> [own : BOOLEAN, frame : Nat, whole : BOOLEAN]]
  BY DEF TxInit
<1>3. accepted \in Seq(Nat) /\ wire \in Seq(Nat)
  BY DEF TxInit
<1> QED BY <1>1, <1>2, <1>3 DEF TxInit, TxTypeOK

\* Every step of the DMA and of low_level_output keeps every variable's type.
LEMMA TxTypeStep == TxTypeOK /\ [TxNext]_txVars => TxTypeOK'
<1> SUFFICES ASSUME TxTypeOK, [TxNext]_txVars PROVE TxTypeOK'
  OBVIOUS
<1> USE TxNextInRing DEF TxTypeOK
<1>1. CASE TxFetch
  BY <1>1 DEF TxFetch, hist
<1>2. CASE TxSuspend
  BY <1>2 DEF TxSuspend, hist
<1>3. CASE DmaSent
  <2>1. Append(wire, sending) \in Seq(Nat)
    OBVIOUS
  <2>2. txDesc' \in [TxIndex -> [own : BOOLEAN, frame : Nat, whole : BOOLEAN]]
    BY <1>3 DEF DmaSent
  <2> QED BY <1>3, <2>1, <2>2 DEF DmaSent
<1>4. CASE CopyBegin
  <2>1. txDesc' \in [TxIndex -> [own : BOOLEAN, frame : Nat, whole : BOOLEAN]]
    <3>1. [own |-> txDesc[set].own, frame |-> calls + 1, whole |-> FALSE]
            \in [own : BOOLEAN, frame : Nat, whole : BOOLEAN]
      OBVIOUS
    <3> QED BY <1>4, <3>1 DEF CopyBegin
  <2>2. overrun' \in BOOLEAN
    BY <1>4 DEF CopyBegin
  <2> QED BY <1>4, <2>1, <2>2 DEF CopyBegin
<1>5. CASE CopyEnd
  BY <1>5 DEF CopyEnd, hist
<1>6. CASE TxPkt
  <2>1. Append(accepted, calls) \in Seq(Nat)
    OBVIOUS
  <2>2. CASE txDesc[set].own
    BY <1>6, <2>2 DEF TxPkt
  <2>3. CASE ~txDesc[set].own
    BY <1>6, <2>1, <2>3 DEF TxPkt
  <2> QED BY <2>2, <2>3
<1>7. CASE Kick
  BY <1>7 DEF Kick, hist
<1>8. CASE Advance
  BY <1>8 DEF Advance
<1>9. CASE UNCHANGED txVars
  BY <1>9 DEF txVars, hist
<1> QED
  BY <1>1, <1>2, <1>3, <1>4, <1>5, <1>6, <1>7, <1>8, <1>9 DEF TxNext, Dma, Output

\* Every variable of the transmit ring keeps its type, for every number of
\* descriptors.
THEOREM TxTypeCorrect == TxSpec => []TxTypeOK
BY TxTypeInit, TxTypeStep, PTL DEF TxSpec

-----------------------------------------------------------------------------
(* The window.                                                               *)

\* The DMA and low_level_output each move their own end of the run, and a frame
\* being sent keeps its descriptor.
LEMMA TxWindowStep == TxTypeOK /\ Sends /\ TxWindow /\ [TxNext]_txVars => Sends' /\ TxWindow'
<1> SUFFICES ASSUME TxTypeOK, Sends, TxWindow, [TxNext]_txVars PROVE Sends' /\ TxWindow'
  OBVIOUS
<1>1. txDma \in TxIndex /\ set \in TxIndex /\ Target \in TxIndex
      /\ txDesc \in [TxIndex -> [own : BOOLEAN, frame : Nat, whole : BOOLEAN]]
  BY TxNextInRing DEF TxTypeOK, Target
<1>2. ASSUME txDma' = txDma, Target' = Target, Owned' = Owned PROVE TxWindow'
  BY <1>2 DEF TxWindow, Run, From
<1>3. CASE TxFetch
  BY <1>2, <1>3 DEF TxFetch, Sends, Owned, Target, hist
<1>4. CASE TxSuspend
  BY <1>2, <1>4 DEF TxSuspend, Sends, Owned, Target, hist
<1>5. CASE DmaSent
  <2>1. txDma \in Owned /\ Owned' = Owned \ {txDma}
    BY <1>1, <1>5 DEF DmaSent, Sends, Owned
  <2>2. Run(TxN, TxNext1(txDma), Target, Owned \ {txDma})
    BY <1>1, <2>1, TxChain, TxSizeAssumption, RunTake DEF TxWindow
  <2>3. txDma' = TxNext1(txDma) /\ Target' = Target
    BY <1>5 DEF DmaSent, Target
  <2> QED BY <1>5, <2>1, <2>2, <2>3 DEF DmaSent, Sends, TxWindow, Run, From
<1>6. CASE CopyBegin
  <2>1. \A i \in TxIndex : txDesc'[i].own = txDesc[i].own
    BY <1>1, <1>6 DEF CopyBegin
  <2>2. Owned' = Owned /\ Target' = Target
    BY <1>6, <2>1 DEF CopyBegin, Owned, Target
  <2> QED BY <1>1, <1>2, <1>6, <2>1, <2>2 DEF CopyBegin, Sends
<1>7. CASE CopyEnd
  <2>1. \A i \in TxIndex : txDesc'[i].own = txDesc[i].own
    BY <1>1, <1>7 DEF CopyEnd
  <2>2. Owned' = Owned /\ Target' = Target
    BY <1>7, <2>1 DEF CopyEnd, Owned, Target
  <2> QED BY <1>1, <1>2, <1>7, <2>1, <2>2 DEF CopyEnd, Sends
<1>8. CASE TxPkt
  <2>1. Target = set
    BY <1>8 DEF TxPkt, Target
  <2>2. CASE txDesc[set].own
    BY <1>2, <1>8, <2>1, <2>2 DEF TxPkt, Sends, Owned, Target
  <2>3. CASE ~txDesc[set].own
    <3>1. Owned' = Owned \cup {set} /\ set \notin Owned
      BY <1>1, <1>8, <2>3 DEF TxPkt, Owned
    <3>2. Run(TxN, txDma, TxNext1(set), Owned \cup {set})
      BY <1>1, <2>1, <3>1, TxChain, TxSizeAssumption, RunFill DEF TxWindow
    <3>3. Target' = TxNext1(set) /\ txDma' = txDma
      BY <1>8, <2>3 DEF TxPkt, Target
    <3>4. Sends'
      BY <1>1, <1>8, <2>3 DEF TxPkt, Sends
    <3> QED BY <3>1, <3>2, <3>3, <3>4 DEF TxWindow, Run, From
  <2> QED BY <2>2, <2>3
<1>9. CASE Kick
  BY <1>2, <1>9 DEF Kick, Sends, Owned, Target, hist
<1>10. CASE Advance
  BY <1>2, <1>10 DEF Advance, Sends, Owned, Target
<1>11. CASE UNCHANGED txVars
  BY <1>2, <1>11 DEF txVars, Sends, Owned, Target
<1> QED
  BY <1>3, <1>4, <1>5, <1>6, <1>7, <1>8, <1>9, <1>10, <1>11 DEF TxNext, Dma, Output

\* The descriptors the DMA owns are a run of the chain from the one it is at up to
\* the one low_level_output fills next, for every number of descriptors: an overrun
\* spoils frames, but never makes the DMA skip a descriptor or send one twice.
THEOREM TxOwnedRun == TxSpec => []TxRingWindow
<1>1. TxInit => Sends /\ TxWindow
  <2> SUFFICES ASSUME TxInit PROVE Sends /\ TxWindow
    OBVIOUS
  <2>1. txDma = 0 /\ Target = 0 /\ \A i \in TxIndex : i \notin Owned
    BY DEF TxInit, Target, Owned
  <2>2. \A i \in TxIndex : ~(From(TxN, 0, i) < From(TxN, 0, 0))
    BY TxSizeAssumption DEF TxIndex, From
  <2> QED BY <2>1, <2>2, TxChain DEF TxInit, Sends, TxWindow, Run
<1>2. TxTypeOK /\ TxWindow => TxRingWindow
  <2> SUFFICES ASSUME TxTypeOK, TxWindow PROVE TxRingWindow
    OBVIOUS
  <2>1. txDma \in TxIndex /\ Target \in TxIndex
    BY TxNextInRing DEF TxTypeOK, Target
  <2>2. \A i \in TxIndex : TxDist(i) = From(TxN, txDma, i) /\ From(TxN, txDma, i) \in Int
    BY <2>1, TxSizeAssumption DEF TxDist, From, TxIndex
  <2> QED BY <2>1, <2>2, TxChain, TxSizeAssumption DEF TxRingWindow, TxWindow, Run, Owned
<1> QED BY <1>1, <1>2, TxTypeInit, TxTypeStep, TxWindowStep, PTL DEF TxSpec

-----------------------------------------------------------------------------
(* The frames in the window.                                                 *)

\* How many descriptors the DMA owns, and the place of the frame of one of them
\* among the frames accepted.
TxWaiting  == IF Target = txDma /\ txDesc[txDma].own THEN TxN ELSE From(TxN, txDma, Target)
Place(i) == Len(wire) + 1 + From(TxN, txDma, i)

\* What is accepted and not sent is what the DMA owns.
Counted == Len(accepted) = Len(wire) + TxWaiting

\* The frame of the call in progress is in a descriptor the CPU owns.
TxCopied ==
  txPc \in {"copy", "txpkt"} =>
    ~txDesc[set].own /\ txDesc[set].frame = calls /\ (txPc = "txpkt" => txDesc[set].whole)

\* Until a call finds the ring full, each descriptor of the window holds the frame
\* of its place, whole, and the DMA sends what its descriptor holds.
Faithful ==
  ~overrun =>
    /\ \A k \in 1 .. Len(wire) : wire[k] = accepted[k]
    /\ \A i \in TxIndex : txDesc[i].own => txDesc[i].whole /\ txDesc[i].frame = accepted[Place(i)]
    /\ txState = "send" => sending = txDesc[txDma].frame
    /\ TxCopied

\* Where From is, as numbers.
LEMMA Distances ==
  ASSUME TxTypeOK
  PROVE  /\ TxN \in Nat \ {0} /\ txDma \in Ix(TxN) /\ set \in Ix(TxN) /\ Target \in Ix(TxN)
         /\ Len(wire) \in Nat /\ Len(accepted) \in Nat
         /\ \A i \in TxIndex : i \in Ix(TxN) /\ From(TxN, txDma, i) \in 0 .. TxN - 1
         /\ \A i \in TxIndex : From(TxN, txDma, i) = 0 => i = txDma
         /\ From(TxN, txDma, txDma) = 0
<1>1. TxN \in Nat \ {0} /\ txDma \in Ix(TxN) /\ set \in Ix(TxN) /\ Target \in Ix(TxN)
  BY TxNextInRing, TxChain, TxSizeAssumption DEF TxTypeOK, Target
<1>2. \A i \in TxIndex : i \in Ix(TxN) /\ From(TxN, txDma, i) \in Ix(TxN)
                       /\ (From(TxN, txDma, i) = 0 => i = txDma)
  BY <1>1, TxChain, FromInChain
<1>3. From(TxN, txDma, txDma) = 0
  BY <1>1, FromInChain
<1> QED BY <1>1, <1>2, <1>3 DEF Ix, TxTypeOK

\* A frame the DMA owns has been accepted; a full ring leaves no descriptor out.
LEMMA PlaceAccepted ==
  ASSUME TxTypeOK, TxWindow, Counted
  PROVE  /\ \A i \in TxIndex : txDesc[i].own => Place(i) \in 1 .. Len(accepted)
         /\ txDesc[Target].own => Target = txDma
         /\ From(TxN, txDma, Target) = TxN - 1 => \A i \in TxIndex : i # Target => txDesc[i].own
<1>1. \A i \in TxIndex : txDesc[i].own => From(TxN, txDma, i) < TxWaiting
  <2>1. CASE Target = txDma /\ txDesc[txDma].own
    BY <2>1, Distances DEF TxWaiting
  <2>2. CASE ~(Target = txDma /\ txDesc[txDma].own)
    <3>1. \A i \in TxIndex : From(TxN, txDma, i) >= From(TxN, txDma, Target) => ~txDesc[i].own
      BY <2>2, TxChain, Distances DEF TxWindow, Run, Owned
    <3>2. TxWaiting = From(TxN, txDma, Target) /\ Target \in TxIndex
      BY <2>2, TxChain, Distances DEF TxWaiting
    <3> QED BY <3>1, <3>2, Distances
  <2> QED BY <2>1, <2>2
<1>2. TxWaiting \in Nat
  BY TxChain, Distances DEF TxWaiting
<1>3. \A i \in TxIndex : txDesc[i].own => Place(i) \in 1 .. Len(accepted)
  BY <1>1, <1>2, Distances DEF Place, Counted
<1>4. Target \in TxIndex
  BY TxChain, Distances
<1>5. txDesc[Target].own => Target = txDma
  BY <1>4, TxChain, Distances DEF TxWindow, Run, Owned
<1>6. ASSUME From(TxN, txDma, Target) = TxN - 1, NEW i \in TxIndex, i # Target PROVE txDesc[i].own
  <2>1. From(TxN, txDma, i) < From(TxN, txDma, Target)
    BY <1>4, <1>6, Distances, FromLast
  <2> QED BY <2>1, TxChain DEF TxWindow, Run, Owned
<1> QED BY <1>3, <1>5, <1>6

\* Sending takes the first frame of the window, and the others move up a place.
LEMMA SentStep ==
  ASSUME TxTypeOK, Sends, TxWindow, Counted, Faithful, DmaSent PROVE Counted' /\ Faithful'
<1> DEFINE o == TxNext1(txDma)
<1>1. /\ txDesc[txDma].own /\ txDma' = o /\ txDma \in TxIndex /\ o \in TxIndex
      /\ txDesc' = [txDesc EXCEPT ![txDma].own = FALSE] /\ Target' = Target
      /\ wire' = Append(wire, sending) /\ UNCHANGED << accepted, overrun, set, txPc, calls, sending >>
      /\ txState' = "fetch" /\ txState = "send"
  BY TxNextInRing DEF DmaSent, Sends, TxTypeOK, Target
<1>2. /\ Len(wire') = Len(wire) + 1 /\ wire'[Len(wire) + 1] = sending
      /\ \A k \in 1 .. Len(wire) : wire'[k] = wire[k]
  BY <1>1 DEF TxTypeOK
<1>3. \A i \in TxIndex : From(TxN, o, i) = IF i = txDma THEN TxN - 1 ELSE From(TxN, txDma, i) - 1
  BY Distances, TxChain, FromNext
<1>4. \A i \in TxIndex : txDesc'[i].own = (txDesc[i].own /\ i # txDma)
                       /\ txDesc'[i].whole = txDesc[i].whole /\ txDesc'[i].frame = txDesc[i].frame
  BY <1>1 DEF TxTypeOK
<1>5. Counted'
  <2>1. TxWaiting' = TxWaiting - 1
    <3>1. CASE Target = txDma
      <4>1. TxWaiting = TxN /\ From(TxN, o, Target) = TxN - 1
        BY <1>1, <1>3, <3>1 DEF TxWaiting
      <4>2. o = Target => ~txDesc'[o].own
        BY <1>1, <1>4, <3>1
      <4> QED BY <1>1, <4>1, <4>2 DEF TxWaiting, From
    <3>2. CASE Target # txDma
      <4>1. ~txDesc'[Target].own /\ Target \in TxIndex
        BY <1>4, <3>2, PlaceAccepted, TxChain, Distances
      <4>2. TxWaiting = From(TxN, txDma, Target) /\ From(TxN, o, Target) = From(TxN, txDma, Target) - 1
        BY <1>3, <3>2, <4>1 DEF TxWaiting
      <4> QED BY <1>1, <4>1, <4>2 DEF TxWaiting, From
    <3> QED BY <3>1, <3>2
  <2>2. TxWaiting \in Nat
    BY TxChain, Distances DEF TxWaiting
  <2> QED BY <1>1, <1>2, <2>1, <2>2, Distances DEF Counted
<1>6. ASSUME ~overrun PROVE Faithful'
  <2>1. Place(txDma) = Len(wire) + 1
    BY Distances DEF Place
  <2>2. sending = accepted[Len(wire) + 1]
    BY <1>1, <1>6, <2>1 DEF Faithful
  <2>3. \A k \in 1 .. Len(wire') : wire'[k] = accepted'[k]
    <3> TAKE k \in 1 .. Len(wire')
    <3>1. CASE k = Len(wire) + 1
      BY <1>1, <1>2, <2>2, <3>1
    <3>2. CASE k # Len(wire) + 1
      <4>1. k \in 1 .. Len(wire)
        BY <1>2, <3>2, Distances
      <4> QED BY <1>1, <1>2, <1>6, <4>1 DEF Faithful
    <3> QED BY <3>1, <3>2
  <2>4. ASSUME NEW i \in TxIndex, txDesc'[i].own
        PROVE  txDesc'[i].whole /\ txDesc'[i].frame = accepted'[Place(i)']
    <3>1. txDesc[i].own /\ i # txDma
      BY <1>4, <2>4
    <3>2. From(TxN, txDma', i) = From(TxN, txDma, i) - 1
      BY <1>1, <1>3, <3>1
    <3>3. Place(i)' = Place(i)
      <4>1. Place(i)' = Len(wire') + 1 + From(TxN, txDma', i)
        BY DEF Place, From
      <4> QED BY <1>2, <3>2, <4>1, Distances DEF Place
    <3> QED BY <1>1, <1>4, <1>6, <3>1, <3>3 DEF Faithful
  <2>5. TxCopied'
    <3>1. TxCopied /\ set \in TxIndex
      BY <1>6 DEF Faithful, TxTypeOK
    <3> QED BY <1>1, <1>4, <3>1 DEF TxCopied
  <2> QED BY <1>1, <2>3, <2>4, <2>5 DEF Faithful
<1> QED BY <1>1, <1>5, <1>6 DEF Faithful

\* Accepting puts a frame behind the window.
LEMMA AcceptStep ==
  ASSUME TxTypeOK, Sends, TxWindow, Counted, Faithful, TxPkt, ~txDesc[set].own
  PROVE  Counted' /\ Faithful'
<1> DEFINE e == TxNext1(set)
<1>1. /\ set \in TxIndex /\ Target = set /\ Target' = e /\ txPc = "txpkt" /\ txPc' = "kick"
      /\ txDesc' = [txDesc EXCEPT ![set].own = TRUE] /\ accepted' = Append(accepted, calls)
      /\ UNCHANGED << txDma, wire, txState, sending, overrun >>
  BY DEF TxPkt, Target, TxTypeOK
<1>2. /\ Len(accepted') = Len(accepted) + 1 /\ accepted'[Len(accepted) + 1] = calls
      /\ \A k \in 1 .. Len(accepted) : accepted'[k] = accepted[k]
  BY <1>1 DEF TxTypeOK
<1>3. TxWaiting = From(TxN, txDma, set)
  BY <1>1, Distances DEF TxWaiting
<1>4. \A i \in TxIndex : txDesc'[i].own = (txDesc[i].own \/ i = set)
                       /\ txDesc'[i].whole = txDesc[i].whole /\ txDesc'[i].frame = txDesc[i].frame
  BY <1>1 DEF TxTypeOK
<1>5. Counted'
  <2>1. TxWaiting' = From(TxN, txDma, set) + 1
    <3>1. CASE From(TxN, txDma, set) = TxN - 1
      <4>1. e = txDma
        BY <1>1, <3>1, Distances, TxChain, FromAfter
      <4>2. txDesc'[txDma].own
        BY <1>1, <1>4, <3>1, PlaceAccepted, TxChain, Distances
      <4>3. TxWaiting' = TxN
        BY <1>1, <4>1, <4>2 DEF TxWaiting
      <4> QED BY <3>1, <4>3, TxSizeAssumption
    <3>2. CASE From(TxN, txDma, set) # TxN - 1
      <4>1. e # txDma /\ From(TxN, txDma, e) = From(TxN, txDma, set) + 1
        BY <1>1, <3>2, Distances, TxChain, FromAfter
      <4> QED BY <1>1, <4>1 DEF TxWaiting, From
    <3> QED BY <3>1, <3>2
  <2> QED BY <1>1, <1>2, <1>3, <2>1, Distances DEF Counted
<1>6. ASSUME ~overrun PROVE Faithful'
  <2>1. \A k \in 1 .. Len(wire') : wire'[k] = accepted'[k]
    <3> TAKE k \in 1 .. Len(wire')
    <3>1. k \in 1 .. Len(accepted)
      BY <1>1, <1>3, Distances DEF Counted
    <3> QED BY <1>1, <1>2, <1>6, <3>1 DEF Faithful
  <2>2. ASSUME NEW i \in TxIndex, txDesc'[i].own
        PROVE  txDesc'[i].whole /\ txDesc'[i].frame = accepted'[Place(i)']
    <3>1. Place(i)' = Place(i)
      BY <1>1 DEF Place, From
    <3>2. CASE i = set
      <4>1. Place(i) = Len(accepted) + 1
        BY <1>3, <3>2, Distances DEF Place, Counted
      <4>2. txDesc[set].frame = calls /\ txDesc[set].whole
        BY <1>1, <1>6 DEF Faithful, TxCopied
      <4> QED BY <1>2, <1>4, <3>1, <3>2, <4>1, <4>2
    <3>3. CASE i # set
      <4>1. txDesc[i].own /\ Place(i) \in 1 .. Len(accepted)
        BY <1>4, <2>2, <3>3, PlaceAccepted
      <4> QED BY <1>2, <1>4, <1>6, <3>1, <4>1 DEF Faithful
    <3> QED BY <3>2, <3>3
  <2>3. (txState = "send" => sending = txDesc[txDma].frame)' /\ TxCopied'
    BY <1>1, <1>4, <1>6 DEF Faithful, TxCopied, TxTypeOK
  <2> QED BY <2>1, <2>2, <2>3 DEF Faithful
<1> QED BY <1>1, <1>5, <1>6 DEF Faithful

\* Every other step leaves the frames of the window where they are.
LEMMA FramesStep ==
  TxTypeOK /\ Sends /\ TxWindow /\ Counted /\ Faithful /\ [TxNext]_txVars => Counted' /\ Faithful'
<1> SUFFICES ASSUME TxTypeOK, Sends, TxWindow, Counted, Faithful, [TxNext]_txVars
             PROVE  Counted' /\ Faithful'
  OBVIOUS
<1>1. txDma \in TxIndex /\ set \in TxIndex /\ Target \in TxIndex
      /\ txDesc \in [TxIndex -> [own : BOOLEAN, frame : Nat, whole : BOOLEAN]]
  BY TxNextInRing DEF TxTypeOK, Target
<1>2. ASSUME UNCHANGED << txDma, accepted, wire >>, Target' = Target, txDesc'[txDma].own = txDesc[txDma].own
      PROVE  Counted' /\ \A i \in TxIndex : Place(i)' = Place(i)
  BY <1>2 DEF Counted, TxWaiting, Place, From
<1>3. CASE TxFetch
  <2>1. UNCHANGED << txDma, txDesc, accepted, wire, overrun, txPc, set, calls >> /\ Target' = Target
    BY <1>3 DEF TxFetch, hist, Target
  <2>2. ~overrun => (txState = "send" => sending = txDesc[txDma].frame)'
    BY <1>1, <1>3 DEF TxFetch, Faithful
  <2> QED BY <1>2, <2>1, <2>2 DEF Faithful, TxCopied
<1>4. CASE TxSuspend
  <2>1. /\ UNCHANGED << txDma, txDesc, accepted, wire, overrun, txPc, set, calls >> /\ Target' = Target
        /\ txState' # "send"
    BY <1>4 DEF TxSuspend, hist, Target
  <2> QED BY <1>2, <2>1 DEF Faithful, TxCopied
<1>5. CASE DmaSent
  BY <1>5, SentStep
<1>6. CASE CopyBegin
  <2>1. \A i \in TxIndex : txDesc'[i].own = txDesc[i].own /\ (i # set => txDesc'[i] = txDesc[i])
    BY <1>1, <1>6 DEF CopyBegin
  <2>2. UNCHANGED << txDma, accepted, wire, txState, set >> /\ Target' = Target
    BY <1>6 DEF CopyBegin, Target
  <2>3. ASSUME ~overrun' PROVE Faithful'
    <3>1. ~overrun /\ ~txDesc[set].own
      BY <1>6, <2>3 DEF CopyBegin
    <3>2. txState = "send" => txDma # set /\ sending' = sending
      BY <1>6, <3>1 DEF CopyBegin, Sends
    <3>3. TxCopied'
      BY <1>1, <1>6, <3>1 DEF CopyBegin, TxCopied
    <3> QED BY <1>1, <1>2, <2>1, <2>2, <3>1, <3>2, <3>3 DEF Faithful
  <2> QED BY <1>1, <1>2, <2>1, <2>2, <2>3 DEF Faithful
<1>7. CASE CopyEnd
  <2>1. \A i \in TxIndex : txDesc'[i].own = txDesc[i].own /\ txDesc'[i].frame = txDesc[i].frame
                         /\ (txDesc[i].whole => txDesc'[i].whole)
    BY <1>1, <1>7 DEF CopyEnd
  <2>2. UNCHANGED << txDma, accepted, wire, txState, set, overrun, calls >> /\ Target' = Target
    BY <1>7 DEF CopyEnd, Target, hist
  <2>3. ASSUME ~overrun PROVE Faithful'
    <3>1. ~txDesc[set].own /\ txDesc[set].frame = calls
      BY <1>7, <2>3 DEF CopyEnd, Faithful, TxCopied
    <3>2. txState = "send" => sending' = sending
      BY <1>7, <3>1 DEF CopyEnd, Sends
    <3>3. TxCopied'
      BY <1>1, <1>7, <2>1, <2>2, <3>1 DEF CopyEnd, TxCopied
    <3> QED BY <1>1, <1>2, <2>1, <2>2, <2>3, <3>2, <3>3 DEF Faithful
  <2> QED BY <1>1, <1>2, <2>1, <2>2, <2>3 DEF Faithful
<1>8. CASE TxPkt
  <2>1. CASE txDesc[set].own
    <3>1. /\ UNCHANGED << txDma, txDesc, accepted, wire, overrun, txState, sending >>
          /\ Target' = Target /\ txPc' = "idle"
      BY <1>8, <2>1 DEF TxPkt, Target
    <3> QED BY <1>2, <3>1 DEF Faithful, TxCopied
  <2>2. CASE ~txDesc[set].own
    BY <1>8, <2>2, AcceptStep
  <2> QED BY <2>1, <2>2
<1>9. CASE Kick
  <2>1. /\ UNCHANGED << txDma, txDesc, accepted, wire, overrun, sending >>
        /\ Target' = Target /\ txPc' = "advance" /\ (txState' = "send" => txState = "send")
    BY <1>9 DEF Kick, Target, hist
  <2> QED BY <1>2, <2>1 DEF Faithful, TxCopied
<1>10. CASE Advance
  <2>1. /\ UNCHANGED << txDma, txDesc, accepted, wire, overrun, txState, sending >>
        /\ Target' = Target /\ txPc' = "idle"
    BY <1>10 DEF Advance, Target
  <2> QED BY <1>2, <2>1 DEF Faithful, TxCopied
<1>11. CASE UNCHANGED txVars
  <2>1. /\ UNCHANGED << txDma, txDesc, accepted, wire, overrun, txPc, set, calls, txState, sending >>
        /\ Target' = Target
    BY <1>11 DEF txVars, hist, Target
  <2> QED BY <1>2, <2>1 DEF Faithful, TxCopied
<1> QED
  BY <1>3, <1>4, <1>5, <1>6, <1>7, <1>8, <1>9, <1>10, <1>11 DEF TxNext, Dma, Output

\* While no call has found the ring full, the wire carries exactly the frames
\* ETH_TxPkt_ChainMode took, in order and unmixed, for every number of descriptors
\* and however the DMA and low_level_output interleave.
THEOREM WireInOrder == TxSpec => []WireFaithful
<1>1. TxInit => Sends /\ TxWindow /\ Counted /\ Faithful
  <2> SUFFICES ASSUME TxInit PROVE Sends /\ TxWindow /\ Counted /\ Faithful
    OBVIOUS
  <2>1. /\ txDma = 0 /\ Target = 0 /\ wire = << >> /\ accepted = << >>
        /\ (\A i \in TxIndex : ~txDesc[i].own) /\ txState = "fetch" /\ txPc = "idle"
    BY DEF TxInit, Target
  <2>2. 0 \in TxIndex /\ From(TxN, 0, 0) = 0
    BY TxSizeAssumption DEF TxIndex, From
  <2>3. Sends /\ Faithful
    BY <2>1 DEF Sends, Faithful, TxCopied
  <2>4. Counted
    BY <2>1, <2>2 DEF Counted, TxWaiting
  <2>5. TxWindow
    <3>1. \A i \in TxIndex : ~(From(TxN, 0, i) < From(TxN, 0, 0))
      BY TxSizeAssumption DEF TxIndex, From
    <3> QED BY <2>1, <3>1, TxChain DEF TxWindow, Run, Owned
  <2> QED BY <2>3, <2>4, <2>5
<1>2. TxTypeOK /\ Counted /\ Faithful => WireFaithful
  <2> SUFFICES ASSUME TxTypeOK, Counted, Faithful, ~overrun PROVE IsPrefix(wire, accepted)
    BY DEF WireFaithful
  <2>1. TxWaiting \in Nat /\ Len(wire) \in Nat /\ Len(accepted) \in Nat
    BY TxChain, Distances DEF TxWaiting
  <2>2. Len(wire) <= Len(accepted)
    BY <2>1 DEF Counted
  <2>3. \A k \in 1 .. Len(wire) : wire[k] = accepted[k]
    BY DEF Faithful
  <2>4. SubSeq(wire, 1, Len(wire)) = SubSeq(accepted, 1, Len(wire))
    BY <2>1, <2>2, <2>3 DEF TxTypeOK
  <2> QED BY <2>2, <2>4 DEF IsPrefix
<1> QED BY <1>1, <1>2, TxTypeInit, TxTypeStep, TxWindowStep, FramesStep, PTL DEF TxSpec

=============================================================================
