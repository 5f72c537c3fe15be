----------------------------- MODULE VgaBuffer -----------------------------
(***************************************************************************)
(* The text screen (vga_buffer.rs): print and print_bytes take the spin    *)
(* lock WRITER inside without_interrupts and write byte by byte to the     *)
(* last row of the buffer, which scrolls.  Kernel code prints, and so do   *)
(* interrupt and exception handlers, on the same single core: a handler    *)
(* that found the lock taken would spin for ever.                          *)
(***************************************************************************)
EXTENDS Integers, Sequences, FiniteSetsExt, SequencesExt

CONSTANTS
    BUFFER_HEIGHT, BUFFER_WIDTH,
    Printable,        \* the bytes 0x20..=0x7e
    Screen0,          \* what the bootloader left on the screen
    Messages,         \* [kind, text]: "fmt" for print, "bytes" for print_bytes
    MaxPrints         \* bound on the number of prints

ASSUME SizeAssumption ==
    /\ BUFFER_HEIGHT \in Nat \ {0} /\ BUFFER_WIDTH \in Nat \ {0}
    /\ MaxPrints \in Nat

ASSUME ScreenAssumption ==
    /\ DOMAIN Screen0 = 0 .. BUFFER_HEIGHT - 1
    /\ \A r \in DOMAIN Screen0 : DOMAIN Screen0[r] = 0 .. BUFFER_WIDTH - 1

NewLine == "\n"
Blank == " "
Block == "0xfe"

Main == "main"
Handler == "handler"
Contexts == {Main, Handler}
NoOne == "no one"

VARIABLES
    interrupts,       \* the interrupt flag
    handling,         \* a handler is running
    frame,            \* the flag the handler's iretq restores
    pc, saved, msg, todo,  \* per context: where it is in print, what it saved,
                           \* what it prints, and the bytes still to write
    lock,             \* who holds WRITER
    column_position, chars,
    \* history
    ambient,          \* the flag as the interrupted code last set it
    log               \* the messages in the order the lock was taken

cpu    == <<interrupts, handling, frame, ambient>>
writer == <<column_position, chars>>
ctx    == <<pc, saved, msg, todo>>
vars   == <<interrupts, handling, frame, pc, saved, msg, todo, lock,
            column_position, chars, ambient, log>>

Rows == 0 .. BUFFER_HEIGHT - 1
Cols == 0 .. BUFFER_WIDTH - 1
NoMsg == [kind |-> "bytes", text |-> <<>>]

Init ==
    /\ interrupts \in BOOLEAN /\ ambient = interrupts
    /\ handling = FALSE /\ frame = FALSE
    /\ pc = [c \in Contexts |-> "idle"]
    /\ saved = [c \in Contexts |-> FALSE]
    /\ msg = [c \in Contexts |-> NoMsg] /\ todo = [c \in Contexts |-> <<>>]
    /\ lock = NoOne
    /\ column_position = 0
    /\ chars = Screen0
    /\ log = <<>>

\* One core: a handler runs to its iretq before the interrupted code goes on.
Running(c) == c = IF handling THEN Handler ELSE Main

At(c, label) == Running(c) /\ pc[c] = label
GoTo(c, label) == pc' = [pc EXCEPT ![c] = label]

-----------------------------------------------------------------------------
\* Writer

\* The byte write_string passes on for b; print_bytes passes on every byte.
converted(kind, b) ==
    IF kind = "fmt" /\ b \notin Printable \cup {NewLine} THEN Block ELSE b

\* new_line: every row moves up, the last is cleared.
scrolled(screen) ==
    [r \in Rows |-> IF r = BUFFER_HEIGHT - 1 THEN [c \in Cols |-> Blank]
                    ELSE screen[r + 1]]

\* A mutated form of write_byte: new_line does not reset the column.
write_byte_wide(b) ==
    IF b = NewLine
    THEN chars' = scrolled(chars) /\ column_position' = column_position
    ELSE /\ chars' = [chars EXCEPT ![BUFFER_HEIGHT - 1][column_position] = b]
         /\ column_position' = column_position + 1

\* A mutated form of write_byte: a full row is left at once, not when the next
\* byte comes.
write_byte_eager(b) ==
    LET put == [chars EXCEPT ![BUFFER_HEIGHT - 1][column_position] = b]
        full == column_position + 1 = BUFFER_WIDTH
    IN  IF b = NewLine
        THEN chars' = scrolled(chars) /\ column_position' = 0
        ELSE /\ chars' = IF full THEN scrolled(put) ELSE put
             /\ column_position' = IF full THEN 0 ELSE column_position + 1

write_byte(b) ==
    LET wrap   == column_position >= BUFFER_WIDTH
        screen == IF wrap THEN scrolled(chars) ELSE chars
        col    == IF wrap THEN 0 ELSE column_position
    IN  IF b = NewLine
        THEN chars' = scrolled(chars) /\ column_position' = 0
        ELSE /\ chars' = [screen EXCEPT ![BUFFER_HEIGHT - 1][col] = b]
             /\ column_position' = col + 1

-----------------------------------------------------------------------------
\* print and print_bytes

Call(c, m) ==
    /\ At(c, "idle")
    /\ Len(log) < MaxPrints
    /\ msg' = [msg EXCEPT ![c] = m]
    /\ todo' = [todo EXCEPT ![c] = m.text]
    /\ GoTo(c, "flag")
    /\ UNCHANGED <<cpu, saved, lock, writer, log>>

\* without_interrupts: are_enabled, ...
ReadFlag(c) ==
    /\ At(c, "flag")
    /\ saved' = [saved EXCEPT ![c] = interrupts]
    /\ GoTo(c, "disable")
    /\ UNCHANGED <<cpu, msg, todo, lock, writer, log>>

\* A mutated form of Disable: interrupts stay on while the lock is held.
DisableMissing(c) ==
    /\ At(c, "disable")
    /\ GoTo(c, "lock")
    /\ UNCHANGED <<cpu, saved, msg, todo, lock, writer, log>>

\* ... disable if they were, ...
Disable(c) ==
    /\ At(c, "disable")
    /\ interrupts' = (interrupts /\ ~saved[c])
    /\ GoTo(c, "lock")
    /\ UNCHANGED <<handling, frame, ambient, saved, msg, todo, lock, writer, log>>

\* WRITER.lock(): takes it or goes round the spin loop.
Lock(c) ==
    /\ At(c, "lock")
    /\ IF lock = NoOne
       THEN lock' = c /\ log' = Append(log, msg[c]) /\ GoTo(c, "write")
       ELSE UNCHANGED <<lock, log, pc>>
    /\ UNCHANGED <<cpu, saved, msg, todo, writer>>

WriteByte(c) ==
    /\ At(c, "write")
    /\ todo[c] # <<>>
    /\ write_byte(converted(msg[c].kind, Head(todo[c])))
    /\ todo' = [todo EXCEPT ![c] = Tail(@)]
    /\ UNCHANGED <<cpu, pc, saved, msg, lock, log>>

\* The guard is dropped at the end of the closure.
Unlock(c) ==
    /\ At(c, "write")
    /\ todo[c] = <<>>
    /\ lock' = NoOne
    /\ GoTo(c, "restore")
    /\ UNCHANGED <<cpu, saved, msg, todo, writer, log>>

\* Mutated forms of Restore: interrupts are enabled whatever they were; they
\* are enabled by enable_interrupts_and_hlt, which leaves the CPU halted.
RestoreAlways(c) ==
    /\ At(c, "restore")
    /\ interrupts' = TRUE
    /\ GoTo(c, "idle")
    /\ UNCHANGED <<handling, frame, ambient, saved, msg, todo, lock, writer, log>>

RestoreHalts(c) ==
    /\ At(c, "restore")
    /\ interrupts' = (interrupts \/ saved[c])
    /\ IF saved[c] THEN UNCHANGED pc ELSE GoTo(c, "idle")
    /\ UNCHANGED <<handling, frame, ambient, saved, msg, todo, lock, writer, log>>

\* ... and enable if they were.
Restore(c) ==
    /\ At(c, "restore")
    /\ interrupts' = (interrupts \/ saved[c])
    /\ GoTo(c, "idle")
    /\ UNCHANGED <<handling, frame, ambient, saved, msg, todo, lock, writer, log>>

-----------------------------------------------------------------------------
\* Kernel code outside print changes the flag: enable_interrupts,
\* disable_interrupts, entry to and return from a system call.
SetInterrupts(b) ==
    /\ At(Main, "idle")
    /\ interrupts' = b /\ ambient' = b
    /\ UNCHANGED <<handling, frame, ctx, lock, writer, log>>

Enter ==
    /\ handling' = TRUE
    /\ frame' = interrupts
    /\ interrupts' = FALSE
    /\ UNCHANGED <<ambient, ctx, lock, writer, log>>

\* The timer or the keyboard, between any two instructions with the flag set.
Interrupt == ~handling /\ interrupts /\ Enter

\* int3 in kernel code, whose handler prints a string.
Breakpoint == At(Main, "idle") /\ Enter

\* iretq
Iret ==
    /\ At(Handler, "idle")
    /\ handling' = FALSE
    /\ interrupts' = frame
    /\ UNCHANGED <<frame, ambient, ctx, lock, writer, log>>

PrintStep(c) ==
    \/ ReadFlag(c) \/ Disable(c) \/ Lock(c) \/ WriteByte(c) \/ Unlock(c) \/ Restore(c)

Next ==
    \/ \E c \in Contexts : PrintStep(c) \/ \E m \in Messages : Call(c, m)
    \/ \E b \in BOOLEAN : SetInterrupts(b)
    \/ Interrupt \/ Breakpoint \/ Iret

Spec == Init /\ [][Next]_vars

\* A running handler goes on to its iretq, and interrupts do not come so fast
\* that the interrupted code never runs.
FairSpec ==
    /\ Spec
    /\ WF_vars(PrintStep(Handler)) /\ WF_vars(Iret)
    /\ SF_vars(PrintStep(Main))

-----------------------------------------------------------------------------
\* Reference: what a terminal shows of the bytes s

\* The position of the last newline before i; its paragraph starts there.
LineStart(s, i) == Max({0} \cup {j \in 1 .. i - 1 : s[j] = NewLine})

\* Rows a paragraph of n bytes takes.
RowsOf(n) == Max({1, (n + BUFFER_WIDTH - 1) \div BUFFER_WIDTH})

\* Rows of the paragraphs that end before i.
RowsBefore(s, i) ==
    MapThenSumSet(LAMBDA j : RowsOf(j - 1 - LineStart(s, j)),
                  {j \in 1 .. i - 1 : s[j] = NewLine})

\* The row, from the first ever used, and the column of byte i.
RowOf(s, i) == RowsBefore(s, i) + (i - 1 - LineStart(s, i)) \div BUFFER_WIDTH
ColOf(s, i) == (i - 1 - LineStart(s, i)) % BUFFER_WIDTH

\* The cell at column c of row n, counted from the first row used.
Cell(s, n, c) ==
    LET here == {i \in 1 .. Len(s) : s[i] # NewLine /\ RowOf(s, i) = n /\ ColOf(s, i) = c}
    IN  IF here # {} THEN s[CHOOSE i \in here : TRUE]
        ELSE IF n <= 0 THEN Screen0[BUFFER_HEIGHT - 1 + n][c]
        ELSE Blank

Render(s) ==
    LET end  == Len(s) + 1
        last == RowsBefore(s, end) + RowsOf(end - 1 - LineStart(s, end)) - 1
    IN  [r \in Rows |-> [c \in Cols |-> Cell(s, last - (BUFFER_HEIGHT - 1) + r, c)]]

\* A byte as print must show it: anything but printable ASCII is a block.
Shown(m) ==
    [i \in 1 .. Len(m.text) |->
        IF m.kind = "bytes" \/ m.text[i] \in Printable \cup {NewLine}
        THEN m.text[i] ELSE Block]

\* The messages in order, without what the holder of the lock has yet to write.
Written ==
    LET all == FlattenSeq([i \in 1 .. Len(log) |-> Shown(log[i])])
    IN  IF lock = NoOne THEN all ELSE SubSeq(all, 1, Len(all) - Len(todo[lock]))

-----------------------------------------------------------------------------
TypeOK ==
    /\ interrupts \in BOOLEAN /\ handling \in BOOLEAN /\ frame \in BOOLEAN
    /\ ambient \in BOOLEAN
    /\ pc \in [Contexts -> {"idle", "flag", "disable", "lock", "write", "restore"}]
    /\ saved \in [Contexts -> BOOLEAN]
    /\ msg \in [Contexts -> Messages \cup {NoMsg}]
    /\ lock \in Contexts \cup {NoOne}
    /\ column_position \in 0 .. BUFFER_WIDTH
    /\ DOMAIN chars = Rows /\ \A r \in Rows : DOMAIN chars[r] = Cols

\* The screen is the last rows of everything printed, each message whole and
\* in the order the lock was taken, whatever interrupted the printing.
ScreenShowsOutput == chars = Render(Written)

\* Nobody ever spins on WRITER: on a single core a handler that did would
\* wait for the code it interrupted.
NeverSpins == \A c \in Contexts : pc[c] = "lock" => lock = NoOne

\* print leaves the interrupt flag as it found it: off in a handler and in a
\* system call, on where it was on.
FlagIsPreserved ==
    /\ handling => ~interrupts
    /\ At(Main, "idle") => interrupts = ambient

\* Every print returns.
PrintsReturn == \A c \in Contexts : pc[c] # "idle" ~> pc[c] = "idle"
=============================================================================
