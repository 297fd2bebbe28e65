------------------------------ MODULE Console -------------------------------
(***************************************************************************)
(* Typing at the kernel monitor: the console's ring buffer (cons_intr,     *)
(* cons_getc in kern/console.c), the line editor that reads from it        *)
(* (lib/readline.c), and the screen it echoes to (cga_putc).               *)
(*                                                                         *)
(* Interrupts are off in the kernel, so input is only taken in when        *)
(* cons_getc polls the devices.  kbd_proc_data gives 0 for a key that      *)
(* makes no character.  One step of the reader is one turn of readline's   *)
(* loop that gets a character.                                             *)
(***************************************************************************)
EXTENDS Integers, Sequences, FiniteSets

CONSTANTS CONSBUFSIZE,   \* 512
          BUFLEN,        \* 1024, in lib/readline.c
          CRT_COLS, CRT_ROWS,
          Glyph,         \* characters from ' ' up that the screen shows
          MaxPending     \* bound on what waits in the two devices

CRT_SIZE == CRT_ROWS * CRT_COLS

ASSUME ConsoleAssumption ==
  /\ CONSBUFSIZE \in Nat \ {0} /\ BUFLEN \in Nat \ {0}
  /\ CRT_COLS \in Nat \ {0} /\ CRT_ROWS \in Nat \ {0}
  /\ BUFLEN <= CRT_SIZE - CRT_COLS   \* a line does not scroll off
  /\ MaxPending \in Nat
  /\ Glyph \cap {"del", "nl", "cr", "bs", "tab", "none"} = {}

(* '\x7f' is a character like another for the screen. *)
Visible == Glyph \cup {"del"}
Char == Visible \cup {"nl", "cr", "bs", "tab"}
Blank == " "

VARIABLES serial, kbd,    \* what the devices have waiting (0 from a key
                          \* without a character is "none")
          buf, rpos, wpos,          \* cons
          line, n,        \* readline: its buf, and i
          crt_pos, crt_buf,
          unread          \* what came in, is not yet returned and not lost

vars == <<serial, kbd, buf, rpos, wpos, line, n, crt_pos, crt_buf, unread>>

Init ==
  /\ serial = <<>> /\ kbd = <<>>
  /\ buf = [k \in 0 .. CONSBUFSIZE - 1 |-> "none"]
  /\ rpos = 0 /\ wpos = 0
  /\ line = [k \in 0 .. BUFLEN - 1 |-> "none"] /\ n = 0
  /\ crt_pos = 0
  /\ crt_buf = [k \in 0 .. CRT_SIZE - 1 |-> Blank]
  /\ unread = <<>>

------------------------------------------------------------------------------
(* The ring as a record, so that polling two devices is a composition. *)
Ring == [buf |-> buf, wpos |-> wpos]

Advance(pos) == IF pos + 1 = CONSBUFSIZE THEN 0 ELSE pos + 1

Stored(r, ch) ==
  [buf |-> [r.buf EXCEPT ![r.wpos] = ch], wpos |-> Advance(r.wpos)]

(* cons_intr(proc), proc having the characters of s to give. *)
cons_intr(r, s) ==
  LET after[k \in 0 .. Len(s)] ==
        IF k = 0 THEN r
        ELSE IF s[k] = "none" THEN after[k - 1] ELSE Stored(after[k - 1], s[k])
  IN  after[Len(s)]

(* cons_getc polls the serial port, then the keyboard. *)
Polled == cons_intr(cons_intr(Ring, serial), kbd)

------------------------------------------------------------------------------
Screen == [pos |-> crt_pos, buf |-> crt_buf]

(* Mutant: the screen scrolls one position late. *)
ScrollLate(s) ==
  IF s.pos > CRT_SIZE
  THEN [pos |-> s.pos - CRT_COLS,
        buf |-> [k \in DOMAIN s.buf |->
                   IF k < CRT_SIZE - CRT_COLS THEN s.buf[k + CRT_COLS]
                   ELSE Blank]]
  ELSE s

(* The end of cga_putc: past the last cell, everything moves up a row. *)
Scroll(s) ==
  IF s.pos >= CRT_SIZE
  THEN [pos |-> s.pos - CRT_COLS,
        buf |-> [k \in DOMAIN s.buf |->
                   IF k < CRT_SIZE - CRT_COLS THEN s.buf[k + CRT_COLS]
                   ELSE Blank]]
  ELSE s

RowStart(pos) == pos - (pos % CRT_COLS)

(* cga_putc of anything but a tab. *)
PutOne(s, ch) ==
  Scroll(
    CASE ch = "bs" /\ s.pos > 0 ->
           [pos |-> s.pos - 1, buf |-> [s.buf EXCEPT ![s.pos - 1] = Blank]]
      [] ch = "bs" /\ s.pos = 0 -> s
      [] ch = "nl" -> [s EXCEPT !.pos = RowStart(s.pos + CRT_COLS)]
      [] ch = "cr" -> [s EXCEPT !.pos = RowStart(s.pos)]
      [] OTHER -> [pos |-> s.pos + 1, buf |-> [s.buf EXCEPT ![s.pos] = ch]])

(* A tab is five spaces. *)
cga_putc(s, ch) ==
  IF ch # "tab" THEN PutOne(s, ch)
  ELSE Scroll(PutOne(PutOne(PutOne(PutOne(PutOne(s, Blank), Blank), Blank),
                            Blank), Blank))

------------------------------------------------------------------------------
(* The devices: a character comes in on the line, a key is pressed. *)
Pending == Len(serial) + Len(kbd)

SerialArrives(ch) ==
  /\ Pending < MaxPending
  /\ serial' = Append(serial, ch)
  /\ UNCHANGED <<kbd, buf, rpos, wpos, line, n, crt_pos, crt_buf, unread>>

KeyPressed(ch) ==
  /\ Pending < MaxPending
  /\ kbd' = Append(kbd, ch)
  /\ UNCHANGED <<serial, buf, rpos, wpos, line, n, crt_pos, crt_buf, unread>>

Echo(ch) == /\ crt_pos' = cga_putc(Screen, ch).pos
            /\ crt_buf' = cga_putc(Screen, ch).buf

Quiet == UNCHANGED <<crt_pos, crt_buf>>

Erases(ch) == ch \in {"bs", "del"} /\ n > 0

(* Mutant: the buffer may be filled to its last byte. *)
StoresFull(ch) == ~Erases(ch) /\ ch \in Visible /\ n < BUFLEN

Stores(ch) == ~Erases(ch) /\ ch \in Visible /\ n < BUFLEN - 1

Ends(ch) == ch \in {"nl", "cr"}

(* Mutant: a character is echoed before the test for room. *)
EditEchoFirst(ch) ==
  \/ Erases(ch) /\ Echo("bs") /\ n' = n - 1 /\ line' = line
  \/ Stores(ch) /\ Echo(ch) /\ line' = [line EXCEPT ![n] = ch] /\ n' = n + 1
  \/ Ends(ch) /\ Echo("nl") /\ line' = line /\ n' = 0
  \/ /\ ~Erases(ch) /\ ~Stores(ch) /\ ~Ends(ch)
     /\ (IF ch \in Visible THEN Echo(ch) ELSE Quiet) /\ UNCHANGED <<line, n>>

(* readline, given one character; at the end of a line the caller gets it  *)
(* and calls readline again.  What is neither erased, stored nor a newline *)
(* is ignored: a full buffer, '\b' at its start, other control characters. *)
Edit(ch) ==
  \/ Erases(ch) /\ Echo("bs") /\ n' = n - 1 /\ line' = line
  \/ Stores(ch) /\ Echo(ch) /\ line' = [line EXCEPT ![n] = ch] /\ n' = n + 1
  \/ Ends(ch) /\ Echo("nl") /\ line' = line /\ n' = 0
  \/ /\ ~Erases(ch) /\ ~Stores(ch) /\ ~Ends(ch)
     /\ Quiet /\ UNCHANGED <<line, n>>

(* What is left of the unread characters q when those of s come in: each   *)
(* goes to the end, a 0 is passed over, and with the one that takes the    *)
(* last free slot all are lost, for a full ring looks empty (rpos = wpos). *)
Kept(q, s) ==
  LET upto[k \in 0 .. Len(s)] ==
        IF k = 0 THEN q
        ELSE IF s[k] = "none" THEN upto[k - 1]
        ELSE IF Len(upto[k - 1]) + 1 = CONSBUFSIZE THEN <<>>
        ELSE Append(upto[k - 1], s[k])
  IN  upto[Len(s)]

(* The unread characters once the devices are polled. *)
Waiting == Kept(Kept(unread, serial), kbd)

(* Mutant: the write position is forgotten after a poll that found nothing *)
(* on the keyboard.                                                        *)
GetcharLosesSerial ==
  /\ rpos # Polled.wpos
  /\ buf' = Polled.buf
  /\ wpos' = cons_intr(Ring, kbd).wpos
  /\ serial' = <<>> /\ kbd' = <<>>
  /\ rpos' = Advance(rpos)
  /\ unread' = Tail(Waiting)
  /\ Edit(Polled.buf[rpos])

(* getchar: cons_getc until it returns a character, which readline gets. *)
Getchar ==
  /\ rpos # Polled.wpos
  /\ buf' = Polled.buf /\ wpos' = Polled.wpos
  /\ serial' = <<>> /\ kbd' = <<>>
  /\ rpos' = Advance(rpos)
  /\ unread' = Tail(Waiting)
  /\ Edit(Polled.buf[rpos])

(* A poll that leaves the ring empty, or looking so: cons_getc returns 0. *)
GetcNothing ==
  /\ rpos = Polled.wpos
  /\ serial' = <<>> /\ kbd' = <<>>
  /\ buf' = Polled.buf /\ wpos' = Polled.wpos
  /\ unread' = Waiting
  /\ UNCHANGED <<rpos, line, n, crt_pos, crt_buf>>

(* Kernel output between two lines: the prompt, a command's answer. *)
Cputchar(ch) ==
  /\ n = 0
  /\ Echo(ch)
  /\ UNCHANGED <<serial, kbd, buf, rpos, wpos, line, n, unread>>

Next ==
  \/ \E ch \in Char : SerialArrives(ch)
  \/ \E ch \in Char \cup {"none"} : KeyPressed(ch)
  \/ Getchar \/ GetcNothing
  \/ \E ch \in Char : Cputchar(ch)

Spec == Init /\ [][Next]_vars

------------------------------------------------------------------------------
TypeOK ==
  /\ serial \in Seq(Char) /\ kbd \in Seq(Char \cup {"none"})
  /\ buf \in [0 .. CONSBUFSIZE - 1 -> Char \cup {"none"}]
  /\ rpos \in 0 .. CONSBUFSIZE - 1 /\ wpos \in 0 .. CONSBUFSIZE - 1
  /\ line \in [0 .. BUFLEN - 1 -> Visible \cup {"none"}]
  /\ n \in 0 .. BUFLEN - 1
  /\ crt_pos \in 0 .. CRT_SIZE - 1
  /\ crt_buf \in [0 .. CRT_SIZE - 1 -> Visible \cup {Blank}]
  /\ unread \in Seq(Char)

(* cons is a queue: from rpos to wpos, around the end of the array, lie    *)
(* the characters cons_intr took in and cons_getc has not returned, in the *)
(* order they came.  They are lost only all together, when cons_intr fills *)
(* the last slot; never one of them, and none twice.                       *)
RingIsQueue ==
  unread = [k \in 1 .. (wpos - rpos) % CONSBUFSIZE |->
              buf[(rpos + k - 1) % CONSBUFSIZE]]

(* What readline will return is what stands on the screen before the       *)
(* cursor, through wrapped rows, scrolling, erasing and a full buffer.     *)
ScreenShowsLine ==
  /\ n <= crt_pos
  /\ \A k \in 0 .. n - 1 : crt_buf[crt_pos - n + k] = line[k]
=============================================================================
