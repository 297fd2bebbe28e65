------------------------------- MODULE Monitor -------------------------------
(***************************************************************************)
(* runcmd of kern/monitor.c: a line is cut into words in place, and the    *)
(* first word looked up among the commands.  A step is one turn of the     *)
(* outer loop.  The line is a sequence of characters; what follows its end *)
(* is the terminator, "nul".  argv holds positions in the line.            *)
(***************************************************************************)
EXTENDS Routine, Sequences, FiniteSetsExt

CONSTANTS MAXARGS,      \* 16
          CmdLine,      \* the lines typed
          Command       \* the names in commands[], sequences of characters

ASSUME MonitorAssumption ==
  /\ MAXARGS \in Nat \ {0}
  /\ \A line \in CmdLine :
       line \in Seq({line[k] : k \in DOMAIN line} \ {"nul"})

WHITESPACE == {"\t", "\r", "\n", " "}

MonitorInit ==
  /\ job = "runcmd"
  /\ \E line \in CmdLine :
       st = [pc |-> "gobble", line |-> line, buf |-> Append(line, "nul"),
             p |-> 1, argv |-> <<>>, ran |-> <<>>, answer |-> "none"]

------------------------------------------------------------------------------
(* The first position from p on whose character is not whitespace, and the *)
(* first one whose character is in cs: the loops with strchr.              *)
SkipSpace(buf, p) == Min({k \in p .. Len(buf) : buf[k] \notin WHITESPACE})

FirstOf(buf, p, cs) == Min({k \in p .. Len(buf) : buf[k] \in cs})

(* Mutant: whitespace is stepped over but not cleared. *)
GobbleKeeps(buf, p, q) == buf

(* *buf++ = 0 over whitespace from p up to q. *)
Gobble(buf, p, q) ==
  [k \in DOMAIN buf |-> IF p <= k /\ k < q THEN "nul" ELSE buf[k]]

(* The string at position p of buf. *)
StringAt(buf, p) == SubSeq(buf, p, FirstOf(buf, p, {"nul"}) - 1)

NextWord ==
  /\ At("runcmd", "gobble")
  /\ LET q == SkipSpace(st.buf, st.p)
         s == [st EXCEPT !.buf = Gobble(@, st.p, q)]
     IN  Becomes(
           CASE s.buf[q] = "nul" -> [s EXCEPT !.pc = "lookup"]
             [] s.buf[q] # "nul" /\ Len(st.argv) = MAXARGS - 1 ->
                  [s EXCEPT !.pc = "done", !.answer = "too many"]
             [] OTHER ->
                  [s EXCEPT !.p = FirstOf(s.buf, q, WHITESPACE \cup {"nul"}),
                            !.argv = Append(@, q)])

(* strcmp with each name; an empty line does nothing. *)
LookupCommand ==
  /\ At("runcmd", "lookup")
  /\ LET words == [k \in DOMAIN st.argv |-> StringAt(st.buf, st.argv[k])]
     IN  Becomes([st EXCEPT
           !.pc = "done",
           !.ran = IF words # <<>> /\ words[1] \in Command THEN words ELSE <<>>,
           !.answer = CASE words = <<>> -> "nothing"
                        [] words # <<>> /\ words[1] \in Command -> "ran"
                        [] OTHER -> "unknown"])

MonitorNext == NextWord \/ LookupCommand

MonitorSpec == MonitorInit /\ [][MonitorNext]_routineVars

------------------------------------------------------------------------------
(* Where words start in a line: after whitespace, or at its beginning. *)
WordStarts(line) ==
  {k \in DOMAIN line : /\ line[k] \notin WHITESPACE
                       /\ k = 1 \/ line[k - 1] \in WHITESPACE}

WordFrom(line, k) ==
  LET ends == {x \in k .. Len(line) : line[x] \in WHITESPACE}
  IN  SubSeq(line, k, IF ends = {} THEN Len(line) ELSE Min(ends) - 1)

(* s has the numbers in S, in increasing order. *)
InOrder(s, S) ==
  /\ {s[k] : k \in DOMAIN s} = S
  /\ \A j, k \in DOMAIN s : j < k => s[j] < s[k]

Words(line) ==
  LET W == WordStarts(line)
      starts == CHOOSE s \in UNION {[1 .. n -> W] : n \in 0 .. Len(line)} :
                  InOrder(s, W)
  IN  [k \in DOMAIN starts |-> WordFrom(line, starts[k])]

(* A command runs exactly when the line's first word is its name and the   *)
(* line has fewer than MAXARGS words, and its argv are the words of the    *)
(* line, although they are cut out of the one buffer by the terminators    *)
(* that replace whitespace.                                                *)
ArgvIsWords ==
  At("runcmd", "done") =>
    LET words == Words(st.line)
        runs == /\ words # <<>> /\ words[1] \in Command
                /\ Len(words) < MAXARGS
    IN  /\ (st.answer = "ran") = runs
        /\ runs => st.ran = words
        /\ (st.answer = "too many") = (Len(words) >= MAXARGS)
=============================================================================
