------------------------------ MODULE Printing ------------------------------
(***************************************************************************)
(* vprintfmt of lib/printfmt.c and the three places its characters go:     *)
(* vsnprintf's buffer, the kernel's console (kern/printf.c) and the buffer *)
(* of user programs that is emptied by sys_cputs (lib/printf.c).  A step   *)
(* handles one character of the format (a run of digits counts as one) or  *)
(* puts out one character.                                                 *)
(*                                                                         *)
(* A format is a sequence of characters, which are strings of length one   *)
(* but for "nul", "ctl" (a control character) and whole error messages.    *)
(* Arguments are integers, or sequences of characters for %s.              *)
(***************************************************************************)
EXTENDS Routine, Sequences

CONSTANTS PrintCall,     \* the calls: [fmt, args]
          SnSize,        \* sizes n given to snprintf
          BufLen,        \* 256, in lib/printf.c
          MAXERROR,
          UintMod,       \* 2^32, for int and long
          UllMod         \* 2^64, for long long

ASSUME PrintAssumption ==
  /\ BufLen \in Nat /\ BufLen >= 2
  /\ UintMod \in Nat \ {0} /\ UllMod \in Nat /\ UintMod <= UllMod
  /\ SnSize \subseteq Int
  /\ \A call \in PrintCall :
       call.fmt \in Seq({call.fmt[k] : k \in DOMAIN call.fmt})

NullString == <<"NULL">>    \* a null pointer as the argument of %s

Sink == {"snprintf", "kernel", "user"}

PrintInit ==
  /\ job = "printf"
  /\ \E call \in PrintCall, sink \in Sink, n \in SnSize :
       /\ sink # "snprintf" => n = CHOOSE x \in SnSize : TRUE
       /\ st = [pc |-> "call", fmt |-> call.fmt, args |-> call.args, i |-> 1,
                sink |-> sink, n |-> n, buf |-> <<>>, cnt |-> 0, todo |-> <<>>,
                sent |-> <<>>, flushed |-> 0, out |-> <<>>, padc |-> " ", width |-> -1,
                precision |-> -1, lflag |-> 0, altflag |-> FALSE,
                num |-> [value |-> 0, base |-> 10, width |-> 0, text |-> <<>>],
                ret |-> 0]

------------------------------------------------------------------------------
(* sprintputch: count, and store while there is room for the terminator. *)
sprintputch(s, ch) ==
  [s EXCEPT !.cnt = @ + 1,
            !.buf = IF Len(@) < s.n - 1 THEN Append(@, ch) ELSE @]

(* putch of kern/printf.c: *cnt++ moves the pointer, not the count. *)
KernelPutch(s, ch) == [s EXCEPT !.sent = Append(@, ch)]

(* sys_cputs(b->buf, b->idx) *)
Flush(s) == [s EXCEPT !.sent = @ \o s.buf, !.flushed = Len(s.buf), !.buf = <<>>]

(* Mutant: the buffer is emptied, but only sent if it is full to the end. *)
UserPutchLoses(s, ch) ==
  LET b == [s EXCEPT !.buf = Append(@, ch), !.cnt = @ + 1]
  IN  IF Len(b.buf) = BufLen - 1 THEN [b EXCEPT !.buf = <<>>] ELSE b

(* putch of lib/printf.c. *)
UserPutch(s, ch) ==
  LET b == [s EXCEPT !.buf = Append(@, ch), !.cnt = @ + 1]
  IN  IF Len(b.buf) = BufLen - 1 THEN Flush(b) ELSE b

putch(s, ch) ==
  LET b == [s EXCEPT !.out = Append(@, ch)]
  IN  CASE s.sink = "snprintf" -> sprintputch(b, ch)
        [] s.sink = "kernel" -> KernelPutch(b, ch)
        [] s.sink = "user" -> UserPutch(b, ch)

(* The characters vprintfmt calls putch for next. *)
Put(s, chars) == [s EXCEPT !.todo = chars]

Pad(c, k) == IF k > 0 THEN [i \in 1 .. k |-> c] ELSE <<>>

------------------------------------------------------------------------------
HexDigit == <<"0", "1", "2", "3", "4", "5", "6", "7",
              "8", "9", "a", "b", "c", "d", "e", "f">>

Decimal == {HexDigit[k] : k \in 1 .. 10}

DigitValue(c) == CHOOSE k \in 0 .. 15 : HexDigit[k + 1] = c

ValueOf(digits, base) ==
  LET v[k \in 0 .. Len(digits)] ==
        IF k = 0 THEN 0 ELSE v[k - 1] * base + DigitValue(digits[k])
  IN  v[Len(digits)]

(* The digits printnum prints, most significant first. *)
Digits(num, base) ==
  LET f[k \in 0 .. num] ==
        IF k < base THEN <<HexDigit[k + 1]>>
        ELSE Append(f[k \div base], HexDigit[(k % base) + 1])
  IN  f[num]

printnum(num, base, width, padc) ==
  Pad(padc, width - Len(Digits(num, base))) \o Digits(num, base)

(* %d, %u, %o, %x, %p: sign, prefix and number. *)
Base(conv) == CASE conv \in {"d", "u"} -> 10 [] conv = "o" -> 8
                [] conv \in {"x", "p"} -> 16

Prefix(conv, arg) ==
  CASE conv = "d" /\ arg < 0 -> <<"-">>
    [] conv = "p" -> <<"0", "x">>
    [] OTHER -> <<>>

(* getuint: an argument read as unsigned. *)
getuint(arg, lflag) == arg % (IF lflag >= 2 THEN UllMod ELSE UintMod)

Number(s, conv) ==
  LET arg == Head(s.args)
      abs == CASE conv = "d" -> IF arg < 0 THEN -arg ELSE arg
               [] conv = "p" -> getuint(arg, 0)
               [] OTHER -> getuint(arg, s.lflag)
      text == printnum(abs, Base(conv), s.width, s.padc)
  IN  [Put(s, Prefix(conv, arg) \o text) EXCEPT
         !.args = Tail(@),
         !.num = [value |-> abs, base |-> Base(conv), width |-> s.width,
                  text |-> text]]

(* %s.  A negative precision is no limit; a character that altflag hides   *)
(* is "ctl".                                                               *)
String(s, arg) ==
  LET p == IF arg = NullString THEN <<"(", "n", "u", "l", "l", ")">> ELSE arg
      len == IF s.precision >= 0 /\ s.precision < Len(p)
             THEN s.precision ELSE Len(p)
      text == [k \in 1 .. len |->
                 IF s.altflag /\ p[k] = "ctl" THEN "?" ELSE p[k]]
      before == IF s.padc = "-" THEN <<>> ELSE Pad(s.padc, s.width - len)
      after == IF s.padc = "-" THEN Pad(" ", s.width - len) ELSE <<>>
  IN  Put(s, before \o text \o after)

(* %e: the text of the error, or its number by a format of its own. *)
Error(s, arg) ==
  LET err == IF arg < 0 THEN -arg ELSE arg
  IN  IF err >= MAXERROR \/ err = 0
      THEN Put(s, <<"error">> \o Digits(err, 10))
      ELSE Put(s, <<"message">>)

------------------------------------------------------------------------------
Ch(s) == IF s.i > Len(s.fmt) THEN "nul" ELSE s.fmt[s.i]

PrintStart ==
  /\ At("printf", "call")
  /\ Becomes(IF st.sink = "snprintf" /\ st.n < 1
             THEN [st EXCEPT !.pc = "done", !.ret = -3]      \* -E_INVAL
             ELSE [st EXCEPT !.pc = "text"])

PrintPutch ==
  /\ At("printf", "text") /\ st.todo # <<>>
  /\ Becomes(putch([st EXCEPT !.todo = Tail(@)], Head(st.todo)))

PrintText ==
  /\ At("printf", "text") /\ st.todo = <<>> /\ Ch(st) # "nul"
  /\ LET s == [st EXCEPT !.i = @ + 1]
     IN  Becomes(IF Ch(st) = "%"
                 THEN [s EXCEPT !.pc = "escape", !.padc = " ", !.width = -1,
                                !.precision = -1, !.lflag = 0,
                                !.altflag = FALSE]
                 ELSE Put(s, <<Ch(st)>>))

(* The end: the buffer is terminated, or what is left in it is sent. *)
PrintEnd ==
  /\ At("printf", "text") /\ st.todo = <<>> /\ Ch(st) = "nul"
  /\ LET s == [st EXCEPT !.pc = "done", !.ret = st.cnt]
     IN  Becomes(CASE st.sink = "snprintf" ->
                        [s EXCEPT !.buf = Append(@, "nul")]
                   [] st.sink = "user" -> Flush(s)
                   [] st.sink = "kernel" -> s)

(* process_precision *)
Given(s, k) == IF s.width < 0 THEN [s EXCEPT !.width = k]
               ELSE [s EXCEPT !.precision = k]

(* The flags, after which reswitch reads the next character. *)
PrintFlag ==
  /\ At("printf", "escape")
  /\ LET c == Ch(st)  s == [st EXCEPT !.i = @ + 1]
     IN  \/ c \in {"-", "0"} /\ Becomes([s EXCEPT !.padc = c])
         \/ c = "#" /\ Becomes([s EXCEPT !.altflag = TRUE])
         \/ c = "l" /\ Becomes([s EXCEPT !.lflag = @ + 1])
         \/ c = "." /\ Becomes([s EXCEPT !.width = IF @ < 0 THEN 0 ELSE @])
         \/ c = "*" /\ Becomes(Given([s EXCEPT !.args = Tail(@)],
                                     Head(st.args)))

(* A run of digits, the first of which is not 0. *)
PrintWidth ==
  /\ At("printf", "escape") /\ Ch(st) \in Decimal \ {"0"}
  /\ LET ends == {k \in st.i + 1 .. Len(st.fmt) + 1 :
                    /\ k > Len(st.fmt) \/ st.fmt[k] \notin Decimal
                    /\ \A x \in st.i .. k - 1 : st.fmt[x] \in Decimal}
         stop == CHOOSE k \in ends : TRUE
         value == ValueOf(SubSeq(st.fmt, st.i, stop - 1), 10)
     IN  Becomes(Given([st EXCEPT !.i = stop], value))

PrintConversion ==
  /\ At("printf", "escape")
  /\ LET c == Ch(st)
         s == [st EXCEPT !.i = @ + 1, !.pc = "text"]
         used == [s EXCEPT !.args = Tail(@)]
     IN  \/ c \in {"d", "u", "o", "x", "p"} /\ Becomes(Number(s, c))
         \/ c = "s" /\ Becomes(String(used, Head(st.args)))
         \/ c = "c" /\ Becomes(Put(used, <<Head(st.args)>>))
         \/ c = "e" /\ Becomes(Error(used, Head(st.args)))
         \/ c = "%" /\ Becomes(Put(s, <<"%">>))

KnownEscape ==
  {"-", "#", "l", ".", "*", "d", "u", "o", "x", "p", "s", "c", "e", "%"}

(* An unknown escape is printed as it stands: back to just after its '%'. *)
PrintUnknown ==
  /\ At("printf", "escape") /\ Ch(st) \notin KnownEscape \cup Decimal
  /\ LET percents == {k \in 1 .. st.i - 1 : st.fmt[k] = "%"}
         last == CHOOSE k \in percents : \A x \in percents : x <= k
     IN  Becomes(Put([st EXCEPT !.pc = "text", !.i = last + 1], <<"%">>))

PrintNext ==
  \/ PrintStart \/ PrintPutch \/ PrintText \/ PrintEnd \/ PrintFlag
  \/ PrintWidth \/ PrintConversion \/ PrintUnknown

PrintSpec == PrintInit /\ [][PrintNext]_routineVars

------------------------------------------------------------------------------
(* A printed number: padding up to the width, then digits of that value    *)
(* without a zero in front.                                                *)
NumberRight(num) ==
  \E k \in 0 .. Len(num.text) - 1 :
    LET digits == SubSeq(num.text, k + 1, Len(num.text))
    IN  /\ \A i \in DOMAIN digits :
             \E d \in 1 .. num.base : digits[i] = HexDigit[d]
        /\ ValueOf(digits, num.base) = num.value
        /\ Len(digits) > 1 => digits[1] # "0"
        /\ k = 0 \/ Len(num.text) = num.width

(* What arrives is what vprintfmt produced: snprintf keeps the start of it,*)
(* never writes past the n bytes it was given, terminates them and returns *)
(* the length of the whole; a user program's output gets out in pieces     *)
(* that fit its buffer, nothing lost between them and nothing left behind. *)
Delivered(s) ==
  /\ s.sink = "user" => s.flushed < BufLen /\ Len(s.buf) < BufLen
  /\ s.sink = "snprintf" /\ s.n >= 1 => Len(s.buf) <= s.n
  /\ s.pc = "done" =>
       /\ s.sink = "snprintf" /\ s.n >= 1 =>
            LET len == IF Len(s.out) < s.n THEN Len(s.out) ELSE s.n - 1
            IN  /\ s.buf = Append(SubSeq(s.out, 1, len), "nul")
                /\ s.ret = Len(s.out)
       /\ s.sink = "snprintf" /\ s.n < 1 => s.out = <<>> /\ s.ret < 0
       /\ s.sink = "kernel" => s.sent = s.out
       /\ s.sink = "user" => s.sent = s.out /\ s.ret = Len(s.out)

(* Numbers are printed right, whatever conversion, width and padding, and  *)
(* all that is printed arrives, in each of the three places.               *)
PrintedExactly ==
  job = "printf" =>
    /\ st.num.text # <<>> => NumberRight(st.num)
    /\ Delivered(st)

(* What C leaves to the caller of a function with variable arguments: an  *)
(* argument that vprintfmt reads as a number is there and is one.          *)
ArgsFit ==
  At("printf", "escape") /\ Ch(st) \in {"d", "u", "o", "x", "p", "e", "*"} =>
    st.args # <<>> /\ Head(st.args) \in Int
=============================================================================
