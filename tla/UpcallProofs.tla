---------------------------- MODULE UpcallProofs ----------------------------
(***************************************************************************)
(* Proofs about module Upcall, for pages of any size and any depth of      *)
(* nesting: as long as no handler's stack has left the exception stack,    *)
(* page faults return exactly and the kernel writes each frame to the      *)
(* exception stack, below the others.                                      *)
(***************************************************************************)
EXTENDS Upcall, SequenceTheorems, TLAPS

-----------------------------------------------------------------------------
(***************************************************************************)
(* The inductive invariant                                                 *)
(***************************************************************************)
CodeAddr == {MAIN, UPCALL, HANDLER, PUSH, BAD}
ContextSet == [eip : CodeAddr, esp : Int, regs : [Reg -> Int], eflags : Int]
TrapSet == [context : ContextSet, frame : Int]
Word == USTACK \cup BELOW \cup UXSTACK

UpcallTypeOK ==
    /\ upcall \in {0, UPCALL, BAD}
    /\ below = FALSE
    /\ mem \in [Word -> Int]
    /\ Context \in ContextSet
    /\ trapped \in Seq(TrapSet)

Frame(i) == trapped[i].frame
Saved(i) == trapped[i].context

\* The frame at f holds the context k, of a fault that is not in page 1.
Holds(f, k) ==
    /\ mem[f + utf_fault_va] # LOW
    /\ \A r \in Reg : mem[f + utf_regs + r] = k.regs[r]
    /\ mem[f + utf_eip] = k.eip
    /\ mem[f + utf_eflags] = k.eflags
    /\ mem[f + utf_esp] = k.esp

\* The C handler called for the frame at f has its argument and its return
\* address, and %ebp and %esp of k are below them.
InHandler(k, f) ==
    /\ k.eip = HANDLER
    /\ k.regs[ebp] = f - 2
    /\ k.esp <= f - 2
    /\ f - 2 >= 2 * PGSIZE
    /\ mem[f - 1] = f
    /\ mem[f - 2] = RETURN

\* k is a context with i faults not returned from: of the program itself, or
\* of the upcall for fault i.
Level(k, i) ==
    \/ i = 0 /\ k.eip = MAIN /\ k.esp \in UserEsp
    \/ i > 0 /\ k.eip \in {UPCALL, BAD} /\ k.esp = Frame(i)
    \/ i > 0 /\ InHandler(k, Frame(i))
    \/ /\ i > 0 /\ k.eip = PUSH /\ k.esp = Frame(i)
       /\ k.regs[eax] = Saved(i).esp - 1
       /\ k.regs[ebx] = Saved(i).eip

\* Fault i, its frame and the stack of what it interrupted.
TrapOK(i) ==
    /\ Holds(Frame(i), Saved(i))
    /\ Level(Saved(i), i - 1)
    /\ Frame(i) = (IF i = 1 THEN UXSTACKTOP ELSE Saved(i).esp - 1) - UTrapframeSize

\* Every frame on the exception stack holds the context it interrupted, and
\* what runs now belongs to the last one.
UpcallInv ==
    /\ UpcallTypeOK
    /\ FramesApart
    /\ \A i \in 1 .. Len(trapped) : TrapOK(i)
    /\ Level(Context, Len(trapped))

UpcallIInv == restarts \in Nat /\ (restarts = 0 => UpcallInv)

-----------------------------------------------------------------------------
(***************************************************************************)
(* Frames and contexts                                                     *)
(***************************************************************************)

\* What SequencesExt's Front leaves of a sequence.
LEMMA FrontFacts ==
  ASSUME NEW S, NEW s \in Seq(S), Len(s) > 0
  PROVE  /\ Front(s) \in Seq(S) /\ Len(Front(s)) = Len(s) - 1
         /\ \A i \in 1 .. Len(s) - 1 : Front(s)[i] = s[i]
  <1>1. Len(s) \in Nat OBVIOUS
  <1>2. PICK n \in Int : n = Len(s) - 1 BY <1>1
  <1>3. \A i \in 1 .. n : s[i] \in S BY <1>1, <1>2
  <1>4. /\ SubSeq(s, 1, n) \in Seq(S)
        /\ Len(SubSeq(s, 1, n)) = IF 1 <= n THEN n - 1 + 1 ELSE 0
        /\ \A i \in 1 .. n - 1 + 1 : SubSeq(s, 1, n)[i] = s[1 + i - 1]
    BY <1>3, SubSeqProperties
  <1> QED BY <1>1, <1>2, <1>4 DEF Front

\* The two stacks are apart, and so is the page between them.
LEMMA Layout ==
  /\ PGSIZE \in Nat /\ PGSIZE >= 16 /\ UXSTACKTOP = 3 * PGSIZE
  /\ \A a \in Int : a \in UXSTACK <=> 2 * PGSIZE <= a /\ a < 3 * PGSIZE
  /\ \A a \in UserEsp : a \in Int /\ a - 1 \in USTACK /\ a \notin UXSTACK
  /\ \A a \in USTACK : a \in Int /\ a < PGSIZE
  /\ Word \subseteq Int
  BY UpcallAssumption DEF UXSTACKTOP, UXSTACK, USTACK, BELOW, Word

\* The frames lie in the exception stack, each below the one before.
LEMMA FrameRange ==
  ASSUME UpcallInv, NEW i \in 1 .. Len(trapped)
  PROVE  /\ Frame(i) \in Int /\ Saved(i) \in ContextSet
         /\ 2 * PGSIZE <= Frame(i) /\ Frame(i) + 13 <= UXSTACKTOP
         /\ \A j \in 1 .. i - 1 : Frame(i) + 13 < Frame(j)
  <1>1. /\ Len(trapped) \in Nat /\ DOMAIN trapped = 1 .. Len(trapped)
        /\ \A j \in 1 .. Len(trapped) : Frame(j) \in Int /\ Saved(j) \in ContextSet
    <2>1. trapped \in Seq(TrapSet)
      BY DEF UpcallInv, UpcallTypeOK
    <2>2. \A j \in 1 .. Len(trapped) : trapped[j] \in TrapSet BY <2>1
    <2> QED BY <2>1, <2>2 DEF Frame, Saved, TrapSet
  <1>2. /\ \A j \in 1 .. Len(trapped) : Frame(j) >= 2 * PGSIZE
        /\ \A j, k \in 1 .. Len(trapped) : j < k => Frame(k) + 13 < Frame(j)
    BY <1>1 DEF UpcallInv, FramesApart, Frame, UTrapframeSize
  <1>3. Frame(1) = UXSTACKTOP - 13
    BY <1>1 DEF UpcallInv, TrapOK, UTrapframeSize
  <1> QED BY <1>1, <1>2, <1>3, Layout

\* A context depends on nothing but the frame of its fault, and on the two
\* words of the call while the handler runs.
LEMMA LevelKept ==
  ASSUME NEW k, NEW i \in Nat, Level(k, i),
         i > 0 => trapped'[i] = trapped[i],
         i > 0 /\ k.eip = HANDLER => /\ mem'[Frame(i) - 1] = mem[Frame(i) - 1]
                                    /\ mem'[Frame(i) - 2] = mem[Frame(i) - 2]
  PROVE  Level(k, i)'
  BY DEF Level, InHandler, Frame, Saved

\* A fault not returned from is untouched by a write below its frame.
LEMMA TrapKept ==
  ASSUME UpcallInv, NEW i \in 1 .. Len(trapped), trapped'[i] = trapped[i],
         i > 1 => trapped'[i - 1] = trapped[i - 1],
         \A a \in UXSTACK : a >= Frame(i) => mem'[a] = mem[a]
  PROVE  TrapOK(i)'
  <1>1. /\ Frame(i) \in Int /\ Saved(i) \in ContextSet /\ i \in Int
        /\ 2 * PGSIZE <= Frame(i) /\ Frame(i) + 13 <= UXSTACKTOP
    BY FrameRange
  <1>2. Frame(i)' = Frame(i) /\ Saved(i)' = Saved(i) BY DEF Frame, Saved
  <1>3. ASSUME NEW o \in 0 .. 12 PROVE mem'[Frame(i) + o] = mem[Frame(i) + o]
    <2>1. Frame(i) + o \in Int /\ Frame(i) + o >= Frame(i) BY <1>1
    <2>2. Frame(i) + o \in UXSTACK BY <1>1, <2>1, Layout
    <2> QED BY <2>1, <2>2
  <1>5. Holds(Frame(i), Saved(i)) BY DEF UpcallInv, TrapOK
  <1>6. Holds(Frame(i), Saved(i))'
    <2>1. ASSUME NEW r \in Reg
          PROVE  mem'[Frame(i) + utf_regs + r] = mem[Frame(i) + utf_regs + r]
      <3>1. Frame(i) + utf_regs + r = Frame(i) + (2 + r) /\ 2 + r \in 0 .. 12
        BY <1>1 DEF utf_regs, Reg, ebp, ebx, eax
      <3> QED BY <1>3, <3>1
    <2>2. \A o \in {0, 10, 11, 12} : mem'[Frame(i) + o] = mem[Frame(i) + o]
      BY <1>3
    <2> QED
      BY <1>2, <1>5, <2>1, <2>2 DEF Holds, utf_fault_va, utf_eip, utf_eflags, utf_esp
  <1>7. PICK k : k = Saved(i) OBVIOUS
  <1>8. Level(k, i - 1)'
    <2>1. Level(k, i - 1) BY <1>7 DEF UpcallInv, TrapOK
    <2>2. CASE i = 1 BY <2>1, <2>2, LevelKept
    <2>3. CASE i > 1
      <3>1. i - 1 \in 1 .. Len(trapped) /\ i - 1 \in Nat BY <2>3
      <3>2. Frame(i) + 13 < Frame(i - 1) /\ Frame(i - 1) \in Int
            /\ Frame(i - 1) + 13 <= UXSTACKTOP
        BY <2>3, <3>1, FrameRange
      <3>3. /\ mem'[Frame(i - 1) - 1] = mem[Frame(i - 1) - 1]
            /\ mem'[Frame(i - 1) - 2] = mem[Frame(i - 1) - 2]
        <4>1. /\ Frame(i - 1) - 1 \in UXSTACK /\ Frame(i - 1) - 1 >= Frame(i)
              /\ Frame(i - 1) - 2 \in UXSTACK /\ Frame(i - 1) - 2 >= Frame(i)
          BY <1>1, <3>2, Layout
        <4> QED BY <4>1
      <3> QED BY <2>1, <2>3, <3>1, <3>3, LevelKept
    <2> QED BY <2>2, <2>3
  <1>9. Frame(i) = (IF i = 1 THEN UXSTACKTOP ELSE Saved(i).esp - 1) - UTrapframeSize
    BY DEF UpcallInv, TrapOK
  <1> QED BY <1>2, <1>6, <1>7, <1>8, <1>9 DEF TrapOK

-----------------------------------------------------------------------------
(***************************************************************************)
(* The steps                                                               *)
(***************************************************************************)
LEMMA InitUpcallInv == Init => UpcallInv
  <1> SUFFICES ASSUME Init PROVE UpcallInv OBVIOUS
  <1>1. trapped = << >> /\ Len(trapped) = 0 BY DEF Init
  <1>2. UpcallTypeOK
    <2>1. trapped \in Seq(TrapSet) BY <1>1
    <2>2. mem \in [Word -> Int] BY DEF Init, Word
    <2>3. Context \in ContextSet
      <3>1. esp \in Int BY Layout DEF Init
      <3>2. regs \in [Reg -> Int] BY DEF Init, Reg, ebp, ebx, eax
      <3> QED BY <3>1, <3>2 DEF Init, Context, ContextSet, CodeAddr
    <2> QED BY <2>1, <2>2, <2>3 DEF UpcallTypeOK, Init
  <1>3. FramesApart BY <1>1 DEF FramesApart
  <1>4. Level(Context, Len(trapped)) BY <1>1 DEF Init, Level, Context
  <1> QED BY <1>1, <1>2, <1>3, <1>4 DEF UpcallInv

\* A step that leaves the frames and their faults alone.
LEMMA SameTraps ==
  ASSUME UpcallInv, UNCHANGED <<upcall, trapped>>, below' = FALSE,
         mem' \in [Word -> Int], Context' \in ContextSet,
         \A i \in 1 .. Len(trapped), a \in UXSTACK : a >= Frame(i) => mem'[a] = mem[a],
         Level(Context, Len(trapped))'
  PROVE  UpcallInv'
  <1>1. UpcallTypeOK' BY DEF UpcallInv, UpcallTypeOK
  <1>2. FramesApart' BY DEF UpcallInv, FramesApart
  <1>3. ASSUME NEW i \in 1 .. Len(trapped) PROVE TrapOK(i)' BY TrapKept
  <1> QED BY <1>1, <1>2, <1>3 DEF UpcallInv

\* The environment is destroyed or stops.
LEMMA StopsUpcallInv ==
  ASSUME UpcallInv, UNCHANGED <<upcall, below, mem, cpuVars, trapped>>
  PROVE  UpcallInv'
  <1>1. Context' = Context BY DEF Context, cpuVars
  <1>2. Level(Context, Len(trapped))'
    BY <1>1 DEF UpcallInv, Level, InHandler, Frame, Saved
  <1> QED BY <1>1, <1>2, SameTraps DEF UpcallInv, UpcallTypeOK

\* user_mem_check refuses a frame that starts in the unmapped page below the
\* exception stack.
LEMMA CheckedFrame ==
  ASSUME below = FALSE, NEW f \in Int, f >= PGSIZE, NEW len, user_mem_check(f, len, {"W", "U"})
  PROVE  f >= 2 * PGSIZE
  <1> SUFFICES ASSUME f < 2 * PGSIZE PROVE FALSE BY Layout
  <1>1. f \div PGSIZE = 1 BY Layout
  <1>2. PagePerm(1) = {} BY DEF PagePerm
  <1> QED BY <1>1, <1>2 DEF user_mem_check

\* The kernel writes the frame of the interrupted context and nothing else.
LEMMA PushWrites ==
  ASSUME UpcallInv, NEW f \in UXSTACK, f + 13 <= UXSTACKTOP, NEW va \in Int,
         PushFrame(f, va), mem' # mem \/ trapped' # trapped
  PROVE  /\ mem' \in [Word -> Int]
         /\ \A a \in Word : a < f \/ a >= f + 13 => mem'[a] = mem[a]
         /\ mem'[f + utf_fault_va] = va
         /\ \A r \in Reg : mem'[f + utf_regs + r] = regs[r]
         /\ mem'[f + utf_eip] = eip
         /\ mem'[f + utf_eflags] = eflags
         /\ mem'[f + utf_esp] = esp
  <1> DEFINE utf(a) ==
            CASE a = utf_fault_va -> va
              [] a = utf_err      -> 0
              [] a - utf_regs \in Reg -> regs[a - utf_regs]
              [] a = utf_eip      -> eip
              [] a = utf_eflags   -> eflags
              [] a = utf_esp      -> esp
              [] OTHER            -> mem[f + a]
  <1>1. f \in Int /\ f >= 2 * PGSIZE /\ UXSTACKTOP = 3 * PGSIZE /\ Word \subseteq Int
        /\ PGSIZE \in Nat
    BY Layout DEF UXSTACK
  <1>2. mem \in [Word -> Int] /\ eip \in Int /\ esp \in Int /\ regs \in [Reg -> Int]
        /\ eflags \in Int
    BY DEF UpcallInv, UpcallTypeOK, Context, ContextSet, CodeAddr, MAIN, UPCALL, HANDLER,
           PUSH, BAD
  <1>3. mem' = [a \in Word |-> utf(a - f)]
    BY <1>2 DEF PushFrame, env_destroy, KernelFault
  <1>4. \A r \in Reg : r \in 0 .. 7 BY DEF Reg, ebp, ebx, eax
  <1>5. ASSUME NEW a \in Word, a < f \/ a >= f + 13 PROVE utf(a - f) = mem[a]
    <2>1. a \in Int BY <1>1
    <2>2. a - f - utf_regs \notin Reg BY <1>1, <1>4, <1>5, <2>1 DEF utf_regs
    <2>3. f + (a - f) = a BY <1>1, <2>1
    <2> QED
      BY <1>1, <1>5, <2>1, <2>2, <2>3
      DEF utf_fault_va, utf_err, utf_eip, utf_eflags, utf_esp
  <1>6. \A o \in 0 .. 12 : f + o \in Word
    <2>1. \A o \in 0 .. 12 : f + o \in UXSTACK BY <1>1, Layout
    <2> QED BY <2>1 DEF Word
  <1>7. ASSUME NEW o \in 0 .. 12 PROVE mem'[f + o] = utf(o)
    <2>1. PICK a : a = f + o OBVIOUS
    <2>2. a - f = o /\ a \in Word BY <1>1, <1>6, <2>1
    <2>3. mem'[a] = utf(a - f) BY <1>3, <2>2
    <2> HIDE DEF utf
    <2> QED BY <2>1, <2>2, <2>3
  <1>8. ASSUME NEW r \in Reg PROVE mem'[f + utf_regs + r] = regs[r]
    <2>1. PICK x : x = 2 + r OBVIOUS
    <2>2. x \in 2 .. 9 /\ x - utf_regs = r /\ f + utf_regs + r = f + x
      BY <1>1, <1>4, <2>1 DEF utf_regs
    <2>3. utf(x) = regs[r]
      BY <2>2 DEF utf_fault_va, utf_err, utf_eip, utf_eflags, utf_esp
    <2> HIDE DEF utf
    <2>4. mem'[f + x] = utf(x) BY <1>7, <2>2
    <2> QED BY <2>2, <2>3, <2>4
  <1>9. utf(0) = va /\ utf(10) = eip /\ utf(11) = eflags /\ utf(12) = esp
    <2>1. 0 - 2 \notin Reg /\ 10 - 2 \notin Reg /\ 11 - 2 \notin Reg /\ 12 - 2 \notin Reg
      BY DEF Reg, ebp, ebx, eax
    <2> QED
      BY <2>1 DEF utf_fault_va, utf_err, utf_regs, utf_eip, utf_eflags, utf_esp
  <1>10. ASSUME NEW a \in Word PROVE utf(a - f) \in Int
    <2>1. CASE a < f \/ a >= f + 13
      <3> HIDE DEF utf
      <3> QED BY <1>2, <1>5, <2>1
    <2>2. CASE a - f \in 0 .. 12
      <3>1. f + (a - f) = a BY <1>1
      <3> QED BY <1>2, <2>2, <3>1
    <2> QED BY <1>1, <2>1, <2>2
  <1> HIDE DEF utf
  <1>11. mem' \in [Word -> Int] BY <1>3, <1>10
  <1>12. \A a \in Word : a < f \/ a >= f + 13 => mem'[a] = mem[a] BY <1>3, <1>5
  <1> QED
    BY <1>7, <1>8, <1>9, <1>11, <1>12 DEF utf_fault_va, utf_eip, utf_eflags, utf_esp

\* A fault is pushed below the stack of the context it interrupts.
LEMMA PushUpcallInv ==
  ASSUME UpcallInv, NEW f \in Int, f >= PGSIZE, NEW va \in Int, va # LOW, PushFrame(f, va),
         f = (IF Len(trapped) = 0 THEN UXSTACKTOP ELSE esp - 1) - 13,
         Len(trapped) > 0 => esp \in UXSTACK
  PROVE  UpcallInv'
  <1>1. CASE env_destroy \/ KernelFault
    BY <1>1, StopsUpcallInv DEF env_destroy, KernelFault, pages
  <1>2. CASE /\ upcall # 0
             /\ user_mem_check(f, UXSTACKTOP - f, {"W", "U"})
             /\ eip' = upcall /\ esp' = f
             /\ trapped' = Append(trapped, [context |-> Context, frame |-> f])
             /\ UNCHANGED <<envVars, pages, regs, eflags>>
    <2>0. PICK n, k : n = Len(trapped) /\ k = Context OBVIOUS
    <2>1. /\ n \in Nat /\ trapped \in Seq(TrapSet) /\ k \in ContextSet /\ Level(k, n)
          /\ mem \in [Word -> Int]
      BY <2>0 DEF UpcallInv, UpcallTypeOK
    <2>2. esp \in Int /\ regs \in [Reg -> Int] /\ eflags \in Int
          /\ k = [eip |-> eip, esp |-> esp, regs |-> regs, eflags |-> eflags]
      BY <2>0, <2>1 DEF Context, ContextSet
    <2>3. n > 0 => /\ Frame(n) \in Int /\ esp <= Frame(n)
                   /\ Frame(n) + 13 <= UXSTACKTOP
                   /\ k.eip = HANDLER => esp <= Frame(n) - 2
                   /\ \A i \in 1 .. n - 1 : Frame(n) + 13 < Frame(i)
      <3> SUFFICES ASSUME n > 0
                   PROVE  /\ Frame(n) \in Int /\ esp <= Frame(n)
                          /\ Frame(n) + 13 <= UXSTACKTOP
                          /\ k.eip = HANDLER => esp <= Frame(n) - 2
                          /\ \A i \in 1 .. n - 1 : Frame(n) + 13 < Frame(i)
        OBVIOUS
      <3>1. n \in 1 .. Len(trapped) BY <2>0, <2>1
      <3>2. /\ Frame(n) \in Int /\ Frame(n) + 13 <= UXSTACKTOP
            /\ \A i \in 1 .. n - 1 : Frame(n) + 13 < Frame(i)
        BY <3>1, FrameRange
      <3>3. (k.esp = Frame(n) /\ k.eip # HANDLER) \/ k.esp <= Frame(n) - 2
        BY <2>1 DEF Level, InHandler, UPCALL, BAD, HANDLER, PUSH
      <3> QED BY <2>2, <3>2, <3>3
    <2>4. f >= 2 * PGSIZE /\ f + 13 <= UXSTACKTOP /\ f \in UXSTACK
      <3>1. f >= 2 * PGSIZE BY <1>2, CheckedFrame DEF UpcallInv, UpcallTypeOK
      <3>2. f + 13 <= UXSTACKTOP BY <2>0, <2>1, <2>2, <2>3, Layout
      <3> QED BY <3>1, <3>2, Layout
    <2>5. /\ Len(trapped') = n + 1 /\ trapped' \in Seq(TrapSet)
          /\ trapped'[n + 1] = [context |-> k, frame |-> f]
          /\ \A i \in 1 .. n : trapped'[i] = trapped[i]
      <3>1. PICK t : t = [context |-> Context, frame |-> f] OBVIOUS
      <3>2. t \in TrapSet BY <2>0, <2>1, <3>1 DEF TrapSet
      <3>3. trapped' = Append(trapped, t) BY <1>2, <3>1
      <3> QED BY <2>0, <2>1, <3>1, <3>2, <3>3
    <2>6. trapped' # trapped BY <2>0, <2>1, <2>5
    <2>7. /\ mem' \in [Word -> Int]
          /\ \A a \in Word : a < f \/ a >= f + 13 => mem'[a] = mem[a]
          /\ mem'[f + utf_fault_va] = va
          /\ \A r \in Reg : mem'[f + utf_regs + r] = regs[r]
          /\ mem'[f + utf_eip] = eip
          /\ mem'[f + utf_eflags] = eflags
          /\ mem'[f + utf_esp] = esp
      BY <2>4, <2>6, PushWrites
    <2>8. Frame(n + 1)' = f /\ Saved(n + 1)' = k BY <2>5 DEF Frame, Saved
    <2>9. ASSUME NEW i \in 1 .. n PROVE TrapOK(i)'
      <3>1. f + 13 < Frame(i) /\ Frame(i) \in Int
        <4>1. f + 13 < Frame(n) BY <2>0, <2>1, <2>2, <2>3
        <4>2. Frame(i) \in Int BY <2>0, FrameRange
        <4>3. i # n => Frame(n) + 13 < Frame(i) BY <2>1, <2>3
        <4>4. Frame(n) \in Int BY <2>1, <2>3
        <4> QED BY <4>1, <4>2, <4>3, <4>4
      <3>2. \A a \in UXSTACK : a >= Frame(i) => mem'[a] = mem[a]
        <4>1. \A a \in UXSTACK : a \in Word /\ a \in Int BY Layout DEF Word
        <4> QED BY <2>7, <3>1, <4>1
      <3>3. trapped'[i] = trapped[i] /\ (i > 1 => trapped'[i - 1] = trapped[i - 1])
        BY <2>1, <2>5
      <3> QED BY <2>0, <3>2, <3>3, TrapKept
    <2>10. TrapOK(n + 1)'
      <3>1. Holds(f, k)' BY <2>2, <2>7 DEF Holds
      <3>2. Level(k, n)'
        <4>1. n > 0 => trapped'[n] = trapped[n] BY <2>1, <2>5
        <4>2. ASSUME n > 0, k.eip = HANDLER
              PROVE  /\ mem'[Frame(n) - 1] = mem[Frame(n) - 1]
                     /\ mem'[Frame(n) - 2] = mem[Frame(n) - 2]
          <5>1. /\ Frame(n) - 1 \in Int /\ Frame(n) - 1 >= f + 13
                /\ Frame(n) - 2 \in Int /\ Frame(n) - 2 >= f + 13
                /\ Frame(n) - 1 < UXSTACKTOP
            <6>1. f = esp - 1 - 13 /\ esp <= Frame(n) - 2 /\ Frame(n) \in Int
                  /\ Frame(n) + 13 <= UXSTACKTOP
              BY <2>0, <2>3, <4>2
            <6> QED BY <2>2, <6>1, Layout
          <5>2. Frame(n) - 1 \in Word /\ Frame(n) - 2 \in Word
            <6>1. Frame(n) - 2 < UXSTACKTOP BY <2>3, <4>2, <5>1, Layout
            <6>2. Frame(n) - 1 \in UXSTACK BY <2>4, <5>1, Layout
            <6>3. Frame(n) - 2 \in UXSTACK BY <2>4, <5>1, <6>1, Layout
            <6> QED BY <6>2, <6>3 DEF Word
          <5> QED BY <2>7, <5>1, <5>2
        <4> QED BY <2>1, <4>1, <4>2, LevelKept
      <3>3. f = (IF n + 1 = 1 THEN UXSTACKTOP ELSE k.esp - 1) - UTrapframeSize
        BY <2>0, <2>1, <2>2 DEF UTrapframeSize
      <3>4. PICK j : j = n + 1 OBVIOUS
      <3>5. Frame(j)' = f /\ Saved(j)' = k /\ j - 1 = n BY <2>1, <2>8, <3>4
      <3>6. TrapOK(j)' BY <3>1, <3>2, <3>3, <3>4, <3>5 DEF TrapOK
      <3> QED BY <3>4, <3>6
    <2>11. FramesApart'
      <3>1. DOMAIN trapped' = 1 .. n + 1 BY <2>1, <2>5
      <3>2. \A i \in 1 .. n : /\ Frame(i) \in Int /\ Frame(i) >= 2 * PGSIZE
                               /\ trapped'[i].frame = Frame(i) /\ f + 13 < Frame(i)
                               /\ \A j \in 1 .. i - 1 : Frame(i) + 13 < Frame(j)
        <4>1. ASSUME NEW i \in 1 .. n
              PROVE  /\ Frame(i) \in Int /\ Frame(i) >= 2 * PGSIZE
                     /\ \A j \in 1 .. i - 1 : Frame(i) + 13 < Frame(j)
          <5>1. i \in 1 .. Len(trapped) BY <2>0
          <5> QED BY <5>1, FrameRange, Layout
        <4>2. ASSUME NEW i \in 1 .. n PROVE f + 13 < Frame(i)
          <5>1. f + 13 < Frame(n) /\ Frame(n) \in Int BY <2>0, <2>1, <2>2, <2>3
          <5>2. i # n => Frame(n) + 13 < Frame(i) BY <2>1, <2>3
          <5> QED BY <4>1, <5>1, <5>2
        <4> QED BY <2>5, <4>1, <4>2 DEF Frame
      <3>3. trapped'[n + 1].frame = f BY <2>5
      <3>4. ASSUME NEW i \in 1 .. n + 1 PROVE trapped'[i].frame >= 2 * PGSIZE
        BY <2>1, <2>4, <3>2, <3>3
      <3>5. ASSUME NEW i \in 1 .. n + 1, NEW j \in 1 .. n + 1, i < j
            PROVE  trapped'[j].frame + UTrapframeSize < trapped'[i].frame
        <4>1. CASE j = n + 1 BY <2>1, <3>2, <3>3, <3>5, <4>1 DEF UTrapframeSize
        <4>2. CASE j # n + 1
          <5>1. j \in 1 .. n /\ i \in 1 .. j - 1 /\ i \in 1 .. n BY <2>1, <3>5, <4>2
          <5> QED BY <3>2, <5>1 DEF UTrapframeSize
        <4> QED BY <4>1, <4>2
      <3> QED BY <3>1, <3>4, <3>5 DEF FramesApart
    <2>12. UpcallTypeOK'
      <3>1. upcall \in {UPCALL, BAD} /\ upcall' = upcall
        BY <1>2 DEF UpcallInv, UpcallTypeOK, envVars
      <3>2. Context' \in ContextSet
        BY <1>2, <2>2, <3>1 DEF Context, ContextSet, CodeAddr
      <3>3. below' = FALSE BY <1>2 DEF pages, UpcallInv, UpcallTypeOK
      <3> QED BY <2>5, <2>7, <3>1, <3>2, <3>3 DEF UpcallTypeOK
    <2>13. Level(Context, Len(trapped))'
      <3>1. upcall \in {UPCALL, BAD} BY <1>2 DEF UpcallInv, UpcallTypeOK
      <3>2. Context'.eip = upcall /\ Context'.esp = f BY <1>2 DEF Context
      <3> QED BY <2>1, <2>5, <2>8, <3>1, <3>2 DEF Level
    <2>14. \A i \in 1 .. n + 1 : TrapOK(i)' BY <2>1, <2>9, <2>10
    <2> QED BY <2>5, <2>11, <2>12, <2>13, <2>14 DEF UpcallInv
  <1> QED BY <1>1, <1>2 DEF PushFrame

\* The current context: its depth, and its frame if it is not the program's.
LEMMA Current ==
  ASSUME UpcallInv
  PROVE  /\ below = FALSE /\ Stack = UXSTACK
         /\ Len(trapped) \in Nat /\ esp \in Int /\ eflags \in Int /\ regs \in [Reg -> Int]
         /\ mem \in [Word -> Int] /\ eip \in CodeAddr
         /\ eip = MAIN <=> Len(trapped) = 0
         /\ Len(trapped) = 0 => esp \in UserEsp
         /\ Len(trapped) > 0 => /\ Len(trapped) \in 1 .. Len(trapped)
                                /\ esp <= Frame(Len(trapped))
                                /\ eip # HANDLER => esp = Frame(Len(trapped))
                                /\ eip = HANDLER => InHandler(Context, Frame(Len(trapped)))
  <1>1. Len(trapped) \in Nat /\ esp \in Int /\ eflags \in Int /\ regs \in [Reg -> Int]
        /\ mem \in [Word -> Int] /\ eip \in CodeAddr
    BY DEF UpcallInv, UpcallTypeOK, Context, ContextSet
  <1>6. below = FALSE /\ Stack = UXSTACK BY DEF UpcallInv, UpcallTypeOK, Stack
  <1>2. Context.eip = eip /\ Context.esp = esp BY DEF Context
  <1>3. Level(Context, Len(trapped)) BY DEF UpcallInv
  <1>4. CASE Len(trapped) = 0
    BY <1>1, <1>2, <1>3, <1>4, <1>6 DEF Level
  <1>5. CASE Len(trapped) > 0
    <2>1. Len(trapped) \in 1 .. Len(trapped) BY <1>1, <1>5
    <2>2. Frame(Len(trapped)) \in Int BY <2>1, FrameRange
    <2> QED
      BY <1>1, <1>2, <1>3, <1>5, <1>6, <2>1, <2>2
      DEF Level, InHandler, MAIN, UPCALL, HANDLER, PUSH, BAD
  <1>7. Len(trapped) = 0 \/ Len(trapped) > 0 BY <1>1
  <1> QED BY <1>4, <1>5, <1>7

\* Every page fault of the model, whatever it interrupts.
LEMMA FaultUpcallInv ==
  ASSUME UpcallInv, NEW va \in Int, va # LOW, page_fault_handler(va),
         eip = HANDLER => esp \in UXSTACK
  PROVE  UpcallInv'
  <1>1. PICK n : n = Len(trapped) OBVIOUS
  <1>2. n \in Nat /\ esp \in Int BY <1>1, Current
  <1>3. n = 0 => esp \notin UXSTACK BY <1>1, Current, Layout
  <1>4. n > 0 => esp \in UXSTACK
    <2> SUFFICES ASSUME n > 0, eip # HANDLER PROVE esp \in UXSTACK OBVIOUS
    <2>1. n \in 1 .. Len(trapped) /\ esp = Frame(n) BY <1>1, Current
    <2> QED BY <2>1, FrameRange, Layout
  <1>5. PICK f : f = (IF n = 0 THEN UXSTACKTOP ELSE esp - 1) - 13 OBVIOUS
  <1>6. f \in Int /\ f >= PGSIZE BY <1>2, <1>4, <1>5, Layout
  <1>7. PushFrame(f, va)
    <2>1. f = (IF esp \in UXSTACK THEN esp - 1 ELSE UXSTACKTOP) - UTrapframeSize
      BY <1>2, <1>3, <1>4, <1>5 DEF UTrapframeSize
    <2> QED BY <2>1 DEF page_fault_handler
  <1> QED BY <1>1, <1>4, <1>5, <1>6, <1>7, PushUpcallInv

\* The program runs.
LEMMA MainUpcallInv == ASSUME UpcallInv, Main PROVE UpcallInv'
  <1>1. /\ eip = MAIN /\ esp' \in UserEsp
        /\ UNCHANGED <<upcall, below, mem, eip, regs, eflags, trapped>>
    BY DEF Main, envVars
  <1>2. Len(trapped) = 0 BY <1>1, Current
  <1>3. Context' \in ContextSet BY <1>1, Current, Layout DEF Context, ContextSet
  <1>4. Level(Context, Len(trapped))' BY <1>1, <1>2 DEF Level, Context
  <1> QED BY <1>1, <1>3, <1>4, Current, SameTraps

\* The upcall calls the handler: two words below the frame.
LEMMA CallUpcallInv ==
  ASSUME UpcallInv, NEW m \in 0 .. MaxLocals, CallHandler(m)
  PROVE  UpcallInv'
  <1>0. PICK n : n = Len(trapped) OBVIOUS
  <1>1. /\ eip = UPCALL /\ esp - 2 \in UXSTACK
        /\ mem' = [mem EXCEPT ![esp - 1] = esp, ![esp - 2] = RETURN]
        /\ eip' = HANDLER /\ esp' = esp - 2 - m
        /\ regs' = [r \in Reg |-> IF r = ebp THEN esp - 2 ELSE 0]
        /\ eflags' = 0 /\ UNCHANGED <<upcall, below, trapped>>
    BY Current DEF CallHandler, envVars, pages
  <1>2. /\ n \in 1 .. Len(trapped) /\ n > 0 /\ esp = Frame(n) /\ esp \in Int
        /\ mem \in [Word -> Int]
    BY <1>0, <1>1, Current DEF MAIN, UPCALL, HANDLER
  <1>3. m \in Int /\ m >= 0 BY UpcallAssumption
  <1>4. esp + 13 <= UXSTACKTOP /\ 2 * PGSIZE <= esp BY <1>2, FrameRange
  <1>5. esp - 1 \in UXSTACK /\ esp - 2 >= 2 * PGSIZE /\ esp - 1 # esp - 2
    BY <1>1, <1>2, <1>4, Layout
  <1>6. /\ mem' \in [Word -> Int] /\ mem'[esp - 1] = esp /\ mem'[esp - 2] = RETURN
        /\ \A a \in UXSTACK : a >= esp => mem'[a] = mem[a]
    <2>1. esp - 1 \in Word /\ esp - 2 \in Word BY <1>1, <1>5 DEF Word
    <2>2. mem' \in [Word -> Int] BY <1>1, <1>2, <2>1 DEF RETURN
    <2>3. mem'[esp - 1] = esp /\ mem'[esp - 2] = RETURN BY <1>1, <1>2, <1>5, <2>1
    <2>4. ASSUME NEW a \in UXSTACK, a >= esp PROVE mem'[a] = mem[a]
      <3>1. a \in Word /\ a # esp - 1 /\ a # esp - 2
        BY <1>2, <2>4, Layout DEF Word
      <3> QED BY <1>1, <1>2, <3>1
    <2> QED BY <2>2, <2>3, <2>4
  <1>7. \A i \in 1 .. Len(trapped), a \in UXSTACK : a >= Frame(i) => mem'[a] = mem[a]
    <2>1. ASSUME NEW i \in 1 .. Len(trapped) PROVE Frame(i) >= esp /\ Frame(i) \in Int
      <3>1. Frame(i) \in Int BY FrameRange
      <3>2. i # n => Frame(n) + 13 < Frame(i) BY <1>0, <1>2, FrameRange
      <3> QED BY <1>2, <3>1, <3>2
    <2>2. ASSUME NEW i \in 1 .. Len(trapped), NEW a \in UXSTACK, a >= Frame(i)
          PROVE  mem'[a] = mem[a]
      <3>1. a \in Int BY Layout DEF UXSTACK
      <3>2. a >= esp BY <1>2, <2>1, <2>2, <3>1
      <3> QED BY <1>6, <3>2
    <2> QED BY <2>2
  <1>8. regs' \in [Reg -> Int] /\ regs'[ebp] = esp - 2
    BY <1>1, <1>2 DEF Reg, ebp
  <1>9. Context' \in ContextSet
    BY <1>1, <1>2, <1>3, <1>8 DEF Context, ContextSet, CodeAddr
  <1>10. InHandler(Context, Frame(n))'
    <2>1. Frame(n)' = esp BY <1>1, <1>2 DEF Frame
    <2>2. /\ Context'.eip = HANDLER /\ Context'.esp = esp - 2 - m
          /\ Context'.regs = regs'
      BY <1>1 DEF Context
    <2> QED BY <1>2, <1>3, <1>5, <1>6, <1>8, <2>1, <2>2 DEF InHandler
  <1>11. Level(Context, Len(trapped))'
    BY <1>0, <1>1, <1>2, <1>10 DEF Level
  <1> QED BY <1>1, <1>6, <1>7, <1>9, <1>11, Current, SameTraps

\* The handler returns to the upcall, which loads %eax and %ebx from the frame.
LEMMA ReturnsUpcallInv == ASSUME UpcallInv, HandlerReturns PROVE UpcallInv'
  <1>0. PICK n : n = Len(trapped) OBVIOUS
  <1>1. eip = HANDLER /\ esp' = regs[ebp] + 2 /\ eip' = PUSH
        /\ regs' = [regs EXCEPT ![eax] = mem[esp' + utf_esp] - 1, ![ebx] = mem[esp' + utf_eip]]
        /\ UNCHANGED <<upcall, mem, eflags, trapped>>
    BY DEF HandlerReturns, envVars
  <1>2. /\ n \in 1 .. Len(trapped) /\ n > 0 /\ InHandler(Context, Frame(n))
        /\ mem \in [Word -> Int] /\ regs \in [Reg -> Int] /\ eflags \in Int
    BY <1>0, <1>1, Current DEF MAIN, HANDLER
  <1>3. Frame(n) \in Int /\ Saved(n) \in ContextSet BY <1>2, FrameRange
  <1>4. esp' = Frame(n) BY <1>1, <1>2, <1>3 DEF InHandler, Context
  <1>5. mem[Frame(n) + utf_esp] = Saved(n).esp /\ mem[Frame(n) + utf_eip] = Saved(n).eip
    BY <1>2 DEF UpcallInv, TrapOK, Holds
  <1>6. Saved(n).esp \in Int /\ Saved(n).eip \in Int
    BY <1>3 DEF ContextSet, CodeAddr, MAIN, UPCALL, HANDLER, PUSH, BAD
  <1>7. /\ regs' \in [Reg -> Int]
        /\ regs'[eax] = Saved(n).esp - 1 /\ regs'[ebx] = Saved(n).eip
    <2>1. eax \in Reg /\ ebx \in Reg /\ eax # ebx BY DEF Reg, eax, ebx
    <2>2. regs' = [regs EXCEPT ![eax] = Saved(n).esp - 1, ![ebx] = Saved(n).eip]
      BY <1>1, <1>4, <1>5
    <2> QED BY <1>2, <1>6, <2>1, <2>2
  <1>8. Context' \in ContextSet
    BY <1>1, <1>2, <1>3, <1>4, <1>7 DEF Context, ContextSet, CodeAddr
  <1>9. Level(Context, Len(trapped))'
    <2>1. /\ Context'.eip = PUSH /\ Context'.esp = Frame(n)
          /\ Context'.regs = regs'
      BY <1>1, <1>4 DEF Context
    <2>2. Frame(n)' = Frame(n) /\ Saved(n)' = Saved(n) /\ Len(trapped)' = n
      BY <1>0, <1>1 DEF Frame, Saved
    <2> QED BY <1>2, <1>7, <2>1, <2>2 DEF Level
  <1>10. below' = FALSE
    <2>1. mem[regs[ebp] + 1] = Frame(n)
      <3>1. regs[ebp] + 1 = Frame(n) - 1 /\ mem[Frame(n) - 1] = Frame(n)
        BY <1>2, <1>3 DEF InHandler, Context
      <3> QED BY <3>1
    <2>2. mem[Frame(n) + utf_fault_va] # LOW BY <1>2 DEF UpcallInv, TrapOK, Holds
    <2> QED BY <2>1, <2>2, Current DEF HandlerReturns
  <1> QED BY <1>1, <1>2, <1>8, <1>9, <1>10, SameTraps

\* The upcall returns: what was interrupted continues exactly where it was.
LEMMA UnwindUpcallInv ==
  ASSUME UpcallInv, Unwind
  PROVE  UpcallInv' /\ Context' = Last(trapped).context
  <1>0. PICK n, f, k : n = Len(trapped) /\ f = Frame(n) /\ k = Saved(n) OBVIOUS
  <1>1. /\ eip = PUSH /\ UNCHANGED <<upcall, below>>
        /\ trapped' = IF trapped = << >> THEN << >> ELSE Front(trapped)
    BY DEF Unwind, envVars, pages
  <1>2. /\ n \in 1 .. Len(trapped) /\ n \in Nat /\ n > 0 /\ esp = f
        /\ mem \in [Word -> Int]
    BY <1>0, <1>1, Current DEF MAIN, PUSH, HANDLER
  <1>3. /\ f \in Int /\ k \in ContextSet /\ f >= 2 * PGSIZE /\ f + 13 <= UXSTACKTOP
        /\ \A j \in 1 .. n - 1 : f + 13 < Frame(j)
        /\ trapped \in Seq(TrapSet)
    BY <1>0, <1>2, FrameRange, Layout DEF UpcallInv, UpcallTypeOK
  <1>4. regs[eax] = k.esp - 1 /\ regs[ebx] = k.eip
    BY <1>0, <1>1, <1>2 DEF UpcallInv, Level, InHandler, Context, PUSH, UPCALL, BAD, HANDLER, MAIN
  <1>5. TrapOK(n) /\ Holds(f, k) /\ Level(k, n - 1)
    BY <1>0, <1>2 DEF UpcallInv, TrapOK
  <1>6. k.esp \in Int /\ k.eip \in Int /\ k.regs \in [Reg -> Int] /\ k.eflags \in Int
    BY <1>3 DEF ContextSet, CodeAddr, MAIN, UPCALL, HANDLER, PUSH, BAD
  <1>7. PICK a : a = k.esp - 1 OBVIOUS
  \* The return address goes to the user's stack, or to the free word above
  \* the frame.
  <1>8. /\ a \in Int /\ a \in Word /\ (a < f \/ a = f + 13)
        /\ n > 1 => a = f + 13
    <2>1. CASE n = 1
      <3>1. k.esp \in UserEsp BY <1>5, <2>1 DEF Level
      <3> QED BY <1>3, <1>7, <2>1, <3>1, Layout DEF Word
    <2>2. CASE n > 1
      <3>1. f = k.esp - 1 - 13 BY <1>0, <1>5, <2>2 DEF TrapOK, UTrapframeSize
      <3>2. a = f + 13 BY <1>3, <1>6, <1>7, <3>1
      <3>3. n - 1 \in 1 .. Len(trapped) /\ n - 1 \in 1 .. n - 1 BY <1>0, <1>2, <2>2
      <3>4. f + 13 < Frame(n - 1) /\ Frame(n - 1) + 13 <= UXSTACKTOP /\ Frame(n - 1) \in Int
        BY <1>3, <3>3, FrameRange
      <3>5. a \in UXSTACK BY <1>3, <3>2, <3>4, Layout
      <3> QED BY <1>3, <3>2, <3>5 DEF Word
    <2> QED BY <1>2, <2>1, <2>2
  <1>9. f + 12 \in Word
    <2>1. f + 12 \in UXSTACK BY <1>3, Layout
    <2> QED BY <2>1 DEF Word
  <1>10. PICK m : m = [mem EXCEPT ![a] = k.eip, ![f + 12] = a] OBVIOUS
  <1>11. /\ mem' = m
         /\ regs' = [r \in Reg |-> m[f + utf_regs + r]]
         /\ eflags' = m[f + utf_eflags]
         /\ eip' = m[m[f + 12]]
         /\ esp' = m[f + 12] + 1
    <2>1. m = [mem EXCEPT ![regs[eax]] = regs[ebx], ![esp + utf_esp] = regs[eax]]
      BY <1>2, <1>4, <1>7, <1>10 DEF utf_esp
    <2> QED BY <1>2, <2>1 DEF Unwind, utf_esp
  <1>12. /\ m \in [Word -> Int] /\ m[f + 12] = a /\ m[a] = k.eip
         /\ \A x \in Word : x # a /\ x # f + 12 => m[x] = mem[x]
    <2>1. a # f + 12 BY <1>3, <1>8
    <2> QED BY <1>2, <1>6, <1>8, <1>9, <1>10, <2>1
  <1>13. ASSUME NEW o \in 0 .. 11 PROVE m[f + o] = mem[f + o]
    <2>1. f + o \in UXSTACK /\ f + o # a /\ f + o # f + 12 BY <1>3, <1>8, Layout
    <2> QED BY <1>12, <2>1 DEF Word
  <1>14. esp' = k.esp /\ eip' = k.eip BY <1>6, <1>7, <1>11, <1>12
  <1>15. eflags' = k.eflags
    BY <1>5, <1>11, <1>13 DEF Holds, utf_eflags
  <1>16. regs' = k.regs
    <2>1. ASSUME NEW r \in Reg PROVE m[f + utf_regs + r] = k.regs[r]
      <3>1. PICK o : o = 2 + r OBVIOUS
      <3>2. o \in 0 .. 11 /\ f + utf_regs + r = f + o
        BY <1>3, <3>1 DEF utf_regs, Reg, ebp, ebx, eax
      <3>3. mem[f + utf_regs + r] = k.regs[r] BY <1>5 DEF Holds
      <3> QED BY <1>13, <3>2, <3>3
    <2> QED BY <1>6, <1>11, <2>1
  <1>17. Context' = k
    BY <1>3, <1>14, <1>15, <1>16 DEF Context, ContextSet
  <1>18. /\ Len(trapped') = n - 1 /\ trapped' \in Seq(TrapSet)
         /\ \A i \in 1 .. n - 1 : trapped'[i] = trapped[i]
    <2>1. trapped # << >> /\ Len(trapped) > 0 BY <1>0, <1>2
    <2>2. trapped' = Front(trapped) BY <1>1, <2>1
    <2> QED BY <1>0, <1>2, <1>3, <2>1, <2>2, FrontFacts
  <1>19. UpcallTypeOK'
    BY <1>1, <1>3, <1>11, <1>12, <1>17, <1>18 DEF UpcallInv, UpcallTypeOK
  <1>20. FramesApart'
    <2>1. DOMAIN trapped' = 1 .. n - 1 /\ DOMAIN trapped = 1 .. n
      BY <1>0, <1>3, <1>18
    <2>2. \A i \in 1 .. n - 1 : i \in 1 .. n BY <1>2
    <2> QED BY <1>18, <2>1, <2>2 DEF UpcallInv, FramesApart
  <1>21. ASSUME NEW i \in 1 .. n - 1 PROVE TrapOK(i)'
    <2>1. i \in 1 .. Len(trapped) BY <1>0, <1>2
    <2>2. f + 13 < Frame(i) /\ Frame(i) \in Int BY <1>3, <2>1, FrameRange
    <2>3. \A x \in UXSTACK : x >= Frame(i) => mem'[x] = mem[x]
      <3>1. ASSUME NEW x \in UXSTACK, x >= Frame(i) PROVE mem'[x] = mem[x]
        <4>1. x \in Word /\ x \in Int BY Layout DEF Word
        <4>2. x # a /\ x # f + 12 BY <1>3, <1>8, <2>2, <3>1, <4>1
        <4> QED BY <1>11, <1>12, <4>1, <4>2
      <3> QED BY <3>1
    <2>4. trapped'[i] = trapped[i] /\ (i > 1 => trapped'[i - 1] = trapped[i - 1])
      BY <1>2, <1>18
    <2> QED BY <2>1, <2>3, <2>4, TrapKept
  <1>22. Level(k, n - 1)'
    <2>1. PICK j \in Nat : j = n - 1 BY <1>2
    <2>2. j > 0 => trapped'[j] = trapped[j] BY <1>18, <2>1
    <2>3. ASSUME j > 0, k.eip = HANDLER
          PROVE  /\ mem'[Frame(j) - 1] = mem[Frame(j) - 1]
                 /\ mem'[Frame(j) - 2] = mem[Frame(j) - 2]
      <3>1. j \in 1 .. Len(trapped) /\ j \in 1 .. n - 1 /\ n > 1
        BY <1>0, <1>2, <2>1, <2>3
      <3>2. /\ f + 13 < Frame(j) /\ Frame(j) \in Int /\ Frame(j) + 13 <= UXSTACKTOP
        BY <1>3, <3>1, FrameRange
      <3>3. k.esp <= Frame(j) - 2
        BY <1>5, <2>1, <2>3 DEF Level, InHandler, UPCALL, BAD, PUSH, HANDLER
      <3>4. a <= Frame(j) - 3 /\ a = f + 13 BY <1>6, <1>7, <1>8, <3>1, <3>2, <3>3
      <3>5. Frame(j) - 1 \in UXSTACK /\ Frame(j) - 2 \in UXSTACK
        BY <1>3, <3>2, <3>4, Layout
      <3>6. /\ Frame(j) - 1 # a /\ Frame(j) - 1 # f + 12
            /\ Frame(j) - 2 # a /\ Frame(j) - 2 # f + 12
        BY <1>3, <3>2, <3>4
      <3> QED BY <1>11, <1>12, <3>5, <3>6 DEF Word
    <2>4. Level(k, j) BY <1>5, <2>1
    <2>5. Level(k, j)' BY <2>2, <2>3, <2>4, LevelKept
    <2> QED BY <2>1, <2>5
  <1>23. Level(Context, Len(trapped))'
    <2>1. PICK j : j = n - 1 OBVIOUS
    <2>2. Len(trapped)' = j /\ Level(k, j)' BY <1>18, <1>22, <2>1
    <2> QED BY <1>17, <2>2
  <1>24. UpcallInv' BY <1>18, <1>19, <1>20, <1>21, <1>23 DEF UpcallInv
  <1>25. Last(trapped).context = k BY <1>0 DEF Last, Saved
  <1> QED BY <1>17, <1>24, <1>25

-----------------------------------------------------------------------------
\* A fault at a place where the handler's variables, or the words of the call,
\* have left the page: the environment stops or a frame is put at the top.
LEMMA OverrunUpcallInv ==
  ASSUME UpcallInv, restarts = 0, CallFaults \/ Overrun
  PROVE  /\ restarts' = 0 => UpcallInv'
         /\ restarts' \in Nat
         /\ Len(trapped') < Len(trapped) => Context' = Last(trapped).context
  <1>1. PICK n : n = Len(trapped) OBVIOUS
  <1>2. n \in 1 .. Len(trapped) /\ n > 0 /\ esp \in Int /\ n \in Nat
    BY <1>1, Current DEF CallFaults, Overrun, MAIN, UPCALL, HANDLER
  <1>3. /\ Frame(n) \in Int /\ 2 * PGSIZE <= Frame(n) /\ Frame(n) + 13 <= UXSTACKTOP
    BY <1>2, FrameRange
  <1>4. ASSUME env_destroy \/ KernelFault
        PROVE  UpcallInv' /\ restarts' = 0 /\ trapped' = trapped
    BY <1>4, StopsUpcallInv DEF env_destroy, KernelFault, pages
  <1>5. CASE Overrun
    <2>1. trapped # << >> /\ Restart BY <1>1, <1>2, <1>5, Current DEF Overrun, Restart
    <2>2. \/ env_destroy \/ KernelFault
          \/ restarts' = restarts + 1 /\ \E t : trapped' = Append(trapped, t)
      BY <1>5, <2>1 DEF Overrun, page_fault_handler, PushFrame
    <2>3. CASE env_destroy \/ KernelFault BY <1>1, <1>2, <1>4, <2>3
    <2>4. CASE restarts' = restarts + 1 /\ \E t : trapped' = Append(trapped, t)
      <3>1. trapped \in Seq(TrapSet) BY DEF UpcallInv, UpcallTypeOK
      <3>2. Len(trapped') = Len(trapped) + 1 BY <2>4, <3>1
      <3> QED BY <1>1, <1>2, <2>4, <3>2
    <2> QED BY <2>2, <2>3, <2>4
  <1>6. CASE CallFaults
    <2>1. /\ eip = UPCALL /\ esp - 2 \notin UXSTACK /\ page_fault_handler(LOW)
          /\ below = FALSE
      BY <1>6, Current DEF CallFaults
    <2>2. esp = Frame(n) BY <1>1, <1>2, <2>1, Current DEF UPCALL, HANDLER
    <2>3. esp \in UXSTACK /\ esp - 14 < 2 * PGSIZE /\ esp - 14 >= PGSIZE
      BY <1>2, <1>3, <2>1, <2>2, Layout
    <2>4. PICK f \in Int : f = esp - 14 BY <1>2
    <2>5. PushFrame(f, LOW)
      <3>1. f = (IF esp \in UXSTACK THEN esp - 1 ELSE UXSTACKTOP) - UTrapframeSize
        BY <1>2, <2>3, <2>4 DEF UTrapframeSize
      <3> QED BY <2>1, <3>1 DEF page_fault_handler
    <2>6. ~user_mem_check(f, UXSTACKTOP - f, {"W", "U"})
      <3>1. f >= PGSIZE /\ ~(f >= 2 * PGSIZE) BY <2>3, <2>4, Layout
      <3> QED BY <2>1, <3>1, CheckedFrame
    <2>7. env_destroy BY <2>5, <2>6 DEF PushFrame
    <2> QED BY <1>1, <1>2, <1>4, <2>7
  <1> QED BY <1>5, <1>6

-----------------------------------------------------------------------------
LEMMA NextUpcallInv ==
  ASSUME UpcallInv, restarts = 0, [Next]_vars
  PROVE  /\ restarts' = 0 => UpcallInv'
         /\ restarts' \in Nat
         /\ Len(trapped') < Len(trapped) => Context' = Last(trapped).context
  <1>0. /\ Len(trapped) \in Nat /\ HEAP \in Int /\ STACK \in Int
        /\ HEAP # LOW /\ STACK # LOW /\ Stack = UXSTACK
    BY Current DEF HEAP, STACK, LOW
  <1>1. ASSUME NEW va \in Int, va # LOW, page_fault_handler(va),
               eip = HANDLER => esp \in UXSTACK
        PROVE  UpcallInv' /\ restarts' \in Nat /\ ~(Len(trapped') < Len(trapped))
    <2>1. UpcallInv' BY <1>1, FaultUpcallInv
    <2>2. trapped' = trapped \/ \E t : trapped' = Append(trapped, t)
      BY <1>1 DEF page_fault_handler, PushFrame, env_destroy, KernelFault
    <2>3. Len(trapped') >= Len(trapped)
      <3>1. trapped \in Seq(TrapSet) /\ trapped' \in Seq(TrapSet)
        BY <2>1 DEF UpcallInv, UpcallTypeOK
      <3> QED BY <2>2, <3>1
    <2>4. Len(trapped') \in Nat BY <2>1 DEF UpcallInv, UpcallTypeOK
    <2>5. restarts' \in Nat
      BY <1>1 DEF page_fault_handler, PushFrame, env_destroy, KernelFault
    <2> QED BY <1>0, <2>1, <2>3, <2>4, <2>5
  <1>2. CASE Main BY <1>0, <1>2, MainUpcallInv DEF Main
  <1>3. CASE DataFault BY <1>0, <1>1, <1>3 DEF DataFault, MAIN, HANDLER
  <1>4. CASE StackFault BY <1>0, <1>1, <1>4 DEF StackFault, MAIN, HANDLER
  <1>5. CASE BadUpcall BY <1>0, <1>1, <1>5 DEF BadUpcall, BAD, HANDLER
  <1>6. CASE \E m \in 0 .. MaxLocals : CallHandler(m)
    BY <1>0, <1>6, CallUpcallInv DEF CallHandler
  <1>7. CASE CallFaults \/ Overrun BY <1>7, OverrunUpcallInv
  <1>9. CASE HandlerReturns BY <1>0, <1>9, ReturnsUpcallInv DEF HandlerReturns
  <1>10. CASE PushFaults BY <1>0, <1>1, <1>10 DEF PushFaults, PUSH, HANDLER
  <1>11. CASE Unwind BY <1>11, UnwindUpcallInv DEF Unwind
  <1>12. CASE UNCHANGED vars
    BY <1>0, <1>12, StopsUpcallInv DEF vars, envVars, pages
  <1> QED
    BY <1>2, <1>3, <1>4, <1>5, <1>6, <1>7, <1>9, <1>10, <1>11, <1>12 DEF Next

\* A restart is never forgotten.
LEMMA RestartsGrow ==
  ASSUME restarts \in Nat, [Next]_vars
  PROVE  restarts' \in Nat /\ restarts' >= restarts
  <1>1. ASSUME NEW f, NEW va, PushFrame(f, va) PROVE restarts' \in Nat /\ restarts' >= restarts
    BY <1>1 DEF PushFrame, env_destroy, KernelFault
  <1> QED
    BY <1>1
    DEF Next, Main, DataFault, StackFault, BadUpcall, CallHandler, CallFaults, Overrun,
        HandlerReturns, PushFaults, Unwind, page_fault_handler, vars

\* As long as no frame was put at the top of the exception stack over others,
\* every frame on it holds the context it interrupted, what runs belongs to the
\* last one, and nothing it does disturbs the others (UpcallInv).
THEOREM UpcallInvariant == Spec => []UpcallIInv
  <1>1. Init => UpcallIInv BY InitUpcallInv DEF Init, UpcallIInv
  <1>2. UpcallIInv /\ [Next]_vars => UpcallIInv'
    BY NextUpcallInv, RestartsGrow DEF UpcallIInv
  <1> QED BY <1>1, <1>2, PTL DEF Spec

\* page_fault_handler never writes a frame below the exception stack page, nor
\* over a frame that is still needed, for any page size and depth of nesting,
\* as long as no handler's own stack has left the page; UpcallOverflow.cfg
\* shows what happens when one does.
THEOREM UpcallFramesOnXstack == Spec => []FramesOnXstack
  <1>1. UpcallIInv => FramesOnXstack BY DEF UpcallIInv, UpcallInv, FramesOnXstack
  <1> QED BY <1>1, UpcallInvariant, PTL

\* _pgfault_upcall restores exactly what the page fault interrupted, under the
\* same condition.
THEOREM UpcallUnwindExact == Spec => UnwindExact
  <1>1. UpcallIInv /\ [Next]_vars =>
          [restarts = 0 /\ Len(trapped') < Len(trapped) => Context' = Last(trapped).context]_vars
    BY NextUpcallInv DEF UpcallIInv
  <1> QED BY <1>1, UpcallInvariant, PTL DEF Spec, UnwindExact

=============================================================================
