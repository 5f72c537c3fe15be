-------------------------- MODULE VgaBufferProofs --------------------------
(***************************************************************************)
(* Printing never spins and never loses the interrupt flag, for every      *)
(* number of prints, message and screen size.  A print is cut off from     *)
(* handlers from Disable to Restore: that is the inductive invariant, with *)
(* what each of the three copies of the interrupt flag holds meanwhile.    *)
(***************************************************************************)
EXTENDS VgaBuffer, TLAPS

Labels == {"idle", "flag", "disable", "lock", "write", "restore"}
Critical == {"lock", "write", "restore"}

\* The part of TypeOK about the processor and the prints.
CpuOK ==
    /\ interrupts \in BOOLEAN /\ handling \in BOOLEAN /\ frame \in BOOLEAN
    /\ ambient \in BOOLEAN
    /\ pc \in [Contexts -> Labels]
    /\ saved \in [Contexts -> BOOLEAN]
    /\ msg \in [Contexts -> Messages \cup {NoMsg}]
    /\ lock \in Contexts \cup {NoOne}

\* The part about the writer.
WriterOK ==
    /\ column_position \in 0 .. BUFFER_WIDTH
    /\ DOMAIN chars = Rows /\ \A r \in Rows : DOMAIN chars[r] = Cols

\* Who may be where: kernel code is interrupted only outside the critical part.
Exclusion ==
    /\ ~handling => pc[Handler] = "idle"
    /\ handling => ~interrupts /\ pc[Main] \notin Critical
    /\ pc[Main] \in Critical => ~interrupts

\* The flag as kernel code set it is in `interrupts`, `saved` or `frame`.
Copies ==
    /\ handling => frame = ambient
    /\ ~handling /\ pc[Main] \notin Critical => interrupts = ambient
    /\ pc[Main] \in Critical \cup {"disable"} => saved[Main] = ambient
    /\ pc[Handler] \in Critical \cup {"disable"} => saved[Handler] = FALSE

\* WRITER is held exactly while its holder writes.
Holder ==
    /\ \A c \in Contexts : pc[c] = "write" => lock = c
    /\ lock \in Contexts => pc[lock] = "write"

IInv == CpuOK /\ WriterOK /\ Exclusion /\ Copies /\ Holder

\* The writer starts in the row.
LEMMA ColumnZero == 0 \in 0 .. BUFFER_WIDTH
BY SizeAssumption

\* The type invariant in two parts.
LEMMA TypeParts == TypeOK <=> CpuOK /\ WriterOK
BY DEF TypeOK, CpuOK, WriterOK, Labels

\* Every step keeps the types of the processor state.
LEMMA CpuStep == CpuOK /\ Next => CpuOK'
<1>. SUFFICES ASSUME CpuOK, Next PROVE CpuOK' OBVIOUS
<1>. USE DEF CpuOK, Labels, cpu, writer, ctx, Contexts, Main, Handler, NoOne, Running, At, GoTo
<1>1. ASSUME NEW c \in Contexts, NEW m \in Messages, Call(c, m) PROVE CpuOK'
  BY <1>1 DEF Call
<1>2. ASSUME NEW c \in Contexts, ReadFlag(c) PROVE CpuOK'
  BY <1>2 DEF ReadFlag
<1>3. ASSUME NEW c \in Contexts, Disable(c) PROVE CpuOK'
  BY <1>3 DEF Disable
<1>4. ASSUME NEW c \in Contexts, Lock(c) PROVE CpuOK'
  BY <1>4 DEF Lock
<1>5. ASSUME NEW c \in Contexts, WriteByte(c) PROVE CpuOK'
  BY <1>5 DEF WriteByte
<1>6. ASSUME NEW c \in Contexts, Unlock(c) PROVE CpuOK'
  BY <1>6 DEF Unlock
<1>7. ASSUME NEW c \in Contexts, Restore(c) PROVE CpuOK'
  BY <1>7 DEF Restore
<1>8. ASSUME NEW b \in BOOLEAN, SetInterrupts(b) PROVE CpuOK'
  BY <1>8 DEF SetInterrupts
<1>9. CASE Interrupt
  BY <1>9 DEF Interrupt, Enter
<1>10. CASE Breakpoint
  BY <1>10 DEF Breakpoint, Enter
<1>11. CASE Iret
  BY <1>11 DEF Iret
<1>. QED
  BY <1>1, <1>2, <1>3, <1>4, <1>5, <1>6, <1>7, <1>8, <1>9, <1>10, <1>11
  DEF Next, PrintStep

\* write_byte keeps the column within the row and the buffer in shape.
LEMMA WriterStep == WriterOK /\ Next => WriterOK'
<1>. SUFFICES ASSUME WriterOK, Next PROVE WriterOK' OBVIOUS
<1>. USE DEF WriterOK, cpu, writer, ctx
<1>1. ASSUME NEW c \in Contexts, NEW m \in Messages, Call(c, m) PROVE WriterOK'
  BY <1>1 DEF Call
<1>2. ASSUME NEW c \in Contexts, ReadFlag(c) PROVE WriterOK'
  BY <1>2 DEF ReadFlag
<1>3. ASSUME NEW c \in Contexts, Disable(c) PROVE WriterOK'
  BY <1>3 DEF Disable
<1>4. ASSUME NEW c \in Contexts, Lock(c) PROVE WriterOK'
  BY <1>4 DEF Lock
<1>5. ASSUME NEW c \in Contexts, WriteByte(c) PROVE WriterOK'
  <2>. DEFINE b == converted(msg[c].kind, Head(todo[c]))
  <2>1. write_byte(b) BY <1>5 DEF WriteByte
  <2>. HIDE DEF b
  <2>2. column_position' \in 0 .. BUFFER_WIDTH
    BY <2>1, SizeAssumption DEF write_byte
  <2>3. DOMAIN scrolled(chars) = Rows /\ \A r \in Rows : DOMAIN scrolled(chars)[r] = Cols
    BY SizeAssumption DEF scrolled, Rows
  <2>4. DOMAIN chars' = Rows /\ \A r \in Rows : DOMAIN chars'[r] = Cols
    BY <2>1, <2>3 DEF write_byte
  <2>. QED BY <2>2, <2>4
<1>6. ASSUME NEW c \in Contexts, Unlock(c) PROVE WriterOK'
  BY <1>6 DEF Unlock
<1>7. ASSUME NEW c \in Contexts, Restore(c) PROVE WriterOK'
  BY <1>7 DEF Restore
<1>8. ASSUME NEW b \in BOOLEAN, SetInterrupts(b) PROVE WriterOK'
  BY <1>8 DEF SetInterrupts
<1>9. CASE Interrupt
  BY <1>9 DEF Interrupt, Enter
<1>10. CASE Breakpoint
  BY <1>10 DEF Breakpoint, Enter
<1>11. CASE Iret
  BY <1>11 DEF Iret
<1>. QED
  BY <1>1, <1>2, <1>3, <1>4, <1>5, <1>6, <1>7, <1>8, <1>9, <1>10, <1>11
  DEF Next, PrintStep

\* No handler runs while kernel code is in the critical part.
LEMMA ExclusionStep == CpuOK /\ Exclusion /\ Copies /\ Next => Exclusion'
<1>. SUFFICES ASSUME CpuOK, Exclusion, Copies, Next PROVE Exclusion' OBVIOUS
<1>. USE DEF CpuOK, Exclusion, Copies, Critical, Labels, cpu, writer, ctx, Contexts, Main, Handler, NoOne, Running, At, GoTo
<1>1. ASSUME NEW c \in Contexts, NEW m \in Messages, Call(c, m) PROVE Exclusion'
  BY <1>1 DEF Call
<1>2. ASSUME NEW c \in Contexts, ReadFlag(c) PROVE Exclusion'
  BY <1>2 DEF ReadFlag
<1>3. ASSUME NEW c \in Contexts, Disable(c) PROVE Exclusion'
  <2>1. CASE c = Main
    <3>1. ~handling /\ pc[Main] = "disable" BY <1>3, <2>1 DEF Disable
    <3>2. saved[Main] = interrupts BY <3>1
    <3>3. ~interrupts' BY <1>3, <2>1, <3>2 DEF Disable
    <3>. QED BY <1>3, <2>1, <3>1, <3>3 DEF Disable
  <2>2. CASE c = Handler BY <1>3, <2>2 DEF Disable
  <2>. QED BY <2>1, <2>2
<1>4. ASSUME NEW c \in Contexts, Lock(c) PROVE Exclusion'
  BY <1>4 DEF Lock
<1>5. ASSUME NEW c \in Contexts, WriteByte(c) PROVE Exclusion'
  BY <1>5 DEF WriteByte
<1>6. ASSUME NEW c \in Contexts, Unlock(c) PROVE Exclusion'
  BY <1>6 DEF Unlock
<1>7. ASSUME NEW c \in Contexts, Restore(c) PROVE Exclusion'
  BY <1>7 DEF Restore
<1>8. ASSUME NEW b \in BOOLEAN, SetInterrupts(b) PROVE Exclusion'
  BY <1>8 DEF SetInterrupts
<1>9. CASE Interrupt
  BY <1>9 DEF Interrupt, Enter
<1>10. CASE Breakpoint
  BY <1>10 DEF Breakpoint, Enter
<1>11. CASE Iret
  BY <1>11 DEF Iret
<1>. QED
  BY <1>1, <1>2, <1>3, <1>4, <1>5, <1>6, <1>7, <1>8, <1>9, <1>10, <1>11
  DEF Next, PrintStep

\* Some copy of the flag is always the one kernel code set.
LEMMA CopiesStep == CpuOK /\ Exclusion /\ Copies /\ Next => Copies'
<1>. SUFFICES ASSUME CpuOK, Exclusion, Copies, Next PROVE Copies' OBVIOUS
<1>. USE DEF CpuOK, Exclusion, Copies, Critical, Labels, cpu, writer, ctx, Contexts, Main, Handler, NoOne, Running, At, GoTo
<1>1. ASSUME NEW c \in Contexts, NEW m \in Messages, Call(c, m) PROVE Copies'
  BY <1>1 DEF Call
<1>2. ASSUME NEW c \in Contexts, ReadFlag(c) PROVE Copies'
  BY <1>2 DEF ReadFlag
<1>3. ASSUME NEW c \in Contexts, Disable(c) PROVE Copies'
  BY <1>3 DEF Disable
<1>4. ASSUME NEW c \in Contexts, Lock(c) PROVE Copies'
  BY <1>4 DEF Lock
<1>5. ASSUME NEW c \in Contexts, WriteByte(c) PROVE Copies'
  BY <1>5 DEF WriteByte
<1>6. ASSUME NEW c \in Contexts, Unlock(c) PROVE Copies'
  BY <1>6 DEF Unlock
<1>7. ASSUME NEW c \in Contexts, Restore(c) PROVE Copies'
  BY <1>7 DEF Restore
<1>8. ASSUME NEW b \in BOOLEAN, SetInterrupts(b) PROVE Copies'
  BY <1>8 DEF SetInterrupts
<1>9. CASE Interrupt
  BY <1>9 DEF Interrupt, Enter
<1>10. CASE Breakpoint
  BY <1>10 DEF Breakpoint, Enter
<1>11. CASE Iret
  BY <1>11 DEF Iret
<1>. QED
  BY <1>1, <1>2, <1>3, <1>4, <1>5, <1>6, <1>7, <1>8, <1>9, <1>10, <1>11
  DEF Next, PrintStep

\* The lock is taken and dropped by the context that writes.
LEMMA HolderStep == CpuOK /\ Exclusion /\ Holder /\ Next => Holder'
<1>. SUFFICES ASSUME CpuOK, Exclusion, Holder, Next PROVE Holder' OBVIOUS
<1>. USE DEF CpuOK, Exclusion, Holder, Critical, Labels, cpu, writer, ctx, Contexts, Main, Handler, NoOne, Running, At, GoTo
<1>1. ASSUME NEW c \in Contexts, NEW m \in Messages, Call(c, m) PROVE Holder'
  BY <1>1 DEF Call
<1>2. ASSUME NEW c \in Contexts, ReadFlag(c) PROVE Holder'
  BY <1>2 DEF ReadFlag
<1>3. ASSUME NEW c \in Contexts, Disable(c) PROVE Holder'
  BY <1>3 DEF Disable
<1>4. ASSUME NEW c \in Contexts, Lock(c) PROVE Holder'
  BY <1>4 DEF Lock
<1>5. ASSUME NEW c \in Contexts, WriteByte(c) PROVE Holder'
  BY <1>5 DEF WriteByte
<1>6. ASSUME NEW c \in Contexts, Unlock(c) PROVE Holder'
  BY <1>6 DEF Unlock
<1>7. ASSUME NEW c \in Contexts, Restore(c) PROVE Holder'
  BY <1>7 DEF Restore
<1>8. ASSUME NEW b \in BOOLEAN, SetInterrupts(b) PROVE Holder'
  BY <1>8 DEF SetInterrupts
<1>9. CASE Interrupt
  BY <1>9 DEF Interrupt, Enter
<1>10. CASE Breakpoint
  BY <1>10 DEF Breakpoint, Enter
<1>11. CASE Iret
  BY <1>11 DEF Iret
<1>. QED
  BY <1>1, <1>2, <1>3, <1>4, <1>5, <1>6, <1>7, <1>8, <1>9, <1>10, <1>11
  DEF Next, PrintStep

-----------------------------------------------------------------------------
\* IInv holds in every reachable state.
THEOREM Inductive == Spec => []IInv
<1>1. Init => IInv
  <2>. SUFFICES ASSUME Init PROVE IInv OBVIOUS
  <2>. USE DEF Init, Contexts, Main, Handler, NoOne, Critical, Labels
  <2>1. CpuOK BY DEF CpuOK
  <2>2. WriterOK
    <3>1. column_position \in 0 .. BUFFER_WIDTH
      <4>1. column_position = 0 OBVIOUS
      <4>2. 0 \in 0 .. BUFFER_WIDTH BY ColumnZero
      <4>. QED BY <4>1, <4>2
    <3>2. DOMAIN chars = Rows BY ScreenAssumption DEF Rows
    <3>3. \A r \in Rows : DOMAIN chars[r] = Cols BY ScreenAssumption DEF Rows, Cols
    <3>. QED BY <3>1, <3>2, <3>3 DEF WriterOK
  <2>3. Exclusion BY DEF Exclusion
  <2>4. Copies BY DEF Copies
  <2>5. Holder BY DEF Holder
  <2>. QED BY <2>1, <2>2, <2>3, <2>4, <2>5 DEF IInv
<1>2. IInv /\ [Next]_vars => IInv'
  <2>. SUFFICES ASSUME IInv, [Next]_vars PROVE IInv' OBVIOUS
  <2>1. CASE Next
    BY <2>1, CpuStep, WriterStep, ExclusionStep, CopiesStep, HolderStep DEF IInv
  <2>2. CASE UNCHANGED vars
    BY <2>2 DEF IInv, vars, CpuOK, WriterOK, Exclusion, Copies, Holder
  <2>. QED BY <2>1, <2>2
<1>. QED BY <1>1, <1>2, PTL DEF Spec

\* The state of the processor and of Writer stays well-typed; in particular
\* write_byte never indexes past the end of a row.
THEOREM TypeCorrect == Spec => []TypeOK
<1>1. IInv => TypeOK BY TypeParts DEF IInv
<1>. QED BY <1>1, Inductive, PTL

\* WRITER.lock() in print and print_bytes never finds the lock taken.
THEOREM LockIsNeverContended == Spec => []NeverSpins
<1>1. IInv => NeverSpins
  BY DEF IInv, CpuOK, Exclusion, Holder, NeverSpins, Critical, Contexts, Main, Handler,
         NoOne
<1>. QED BY <1>1, Inductive, PTL

\* without_interrupts around print gives the interrupt flag back as it was, in
\* handlers and in the code they interrupt.
THEOREM FlagIsGivenBack == Spec => []FlagIsPreserved
<1>1. IInv => FlagIsPreserved
  BY DEF IInv, CpuOK, Exclusion, Copies, FlagIsPreserved, Critical, At, Running, Main,
         Handler
<1>. QED BY <1>1, Inductive, PTL
=============================================================================
