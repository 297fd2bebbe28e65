----------------------------- MODULE MCRoutines -----------------------------
(***************************************************************************)
(* TLC instance of the kernel's sequential routines: a behaviour runs one  *)
(* of them, on one of its inputs.                                          *)
(***************************************************************************)
EXTENDS BootMem, StabSearch, UserMem, Keyboard, Traps, Printing, Monitor,
        BootLoader

Init ==
  \/ BootMemInit \/ StabInit \/ UserMemInit \/ KbdInit \/ TrapInit
  \/ PrintInit \/ MonitorInit \/ BootLoaderInit \/ IcodeInit

(* The steps of the routines that loop until they find or reach something. *)
LoopStep ==
  \/ StabNext \/ UserMemNext \/ PrintNext \/ MonitorNext \/ BootLoaderNext
  \/ IcodeNext

Next == LoopStep \/ BootMemNext \/ KbdNext \/ TrapNext \/ Idle

(* A processor inside the kernel, with interrupts off, goes on executing. *)
Spec == Init /\ [][Next]_routineVars /\ WF_routineVars(LoopStep)

(* They return: the search narrows although it steps to stabs of the right *)
(* type, the format is left behind although an unknown escape goes back in *)
(* it, and the loops over pages, words and sectors reach their end.        *)
RoutineEnds ==
  job \notin {"mem_init", "kbd", "trap"} ~> Returned

------------------------------------------------------------------------------
(* Machines around the sizes at which the arrays take another page, with   *)
(* all of memory mapped by entry_pgdir or not, and MPENTRY_PADDR in base   *)
(* memory or beyond the end of memory.                                     *)
Machines == [base : {7, 8}, ext : {0, 5, 12, 16}, ext16 : {0, 1, 2},
             end : {49, 56, 60}, mpentry : {16, 800}]

(* All ordered tables of four stabs from a first file on, and one that is  *)
(* like those compilers make.                                              *)
Stabs == [type : {"SO", "FUN", "SLINE"}, value : {0, 1, 3}, desc : {0}]

Stab(type, value, desc) == [type |-> type, value |-> value, desc |-> desc]

CompilerStabs ==
  <<Stab("other", 0, 0), Stab("SO", 2, 0), Stab("FUN", 2, 0),
    Stab("PSYM", 0, 0), Stab("SLINE", 0, 7), Stab("SOL", 3, 0),
    Stab("SLINE", 2, 8), Stab("other", 0, 0), Stab("FUN", 6, 0),
    Stab("SLINE", 0, 9), Stab("SO", 8, 0)>>

StabTables ==
  {t \in [0 .. 3 -> Stabs] :
     /\ t[0].value = 0 /\ t[1].type = "SO"
     /\ \A j, k \in 0 .. 3 :
          j < k /\ t[j].type = t[k].type => t[j].value <= t[k].value}
    \cup {[k \in 0 .. Len(CompilerStabs) - 1 |-> CompilerStabs[k + 1]]}

CompilerOnly == {[k \in 0 .. Len(CompilerStabs) - 1 |-> CompilerStabs[k + 1]]}

PteValues == {{}, {"P", "U"}, {"P", "U", "W"}}

(* Both Ctrl keys, a Shift key, the right Alt key, Del and its twin on the *)
(* number pad, and Caps Lock.                                              *)
Keys == {[code |-> c[1], e0 |-> c[2]] :
           c \in {<<29, FALSE>>, <<29, TRUE>>, <<42, FALSE>>,
                  <<56, TRUE>>, <<83, TRUE>>, <<83, FALSE>>, <<58, FALSE>>}}

Call(fmt, args) == [fmt |-> fmt, args |-> args]

PrintCalls ==
  {Call(<<"a", "b", "%", "5", "d", "c">>, <<42>>),
   Call(<<"%", "d", "%", "%">>, <<-7>>),
   Call(<<"%", "%", "%", "d">>, <<7>>),
   Call(<<"%", "0", "8", "x">>, <<1000>>),
   Call(<<"%", "#", "o", "%", "l", "u">>, <<9, -1>>),
   Call(<<"%", "l", "l", "x">>, <<-1>>),
   Call(<<"%", "p">>, <<255>>),
   Call(<<"%", "1", "2", "d">>, <<100>>),
   Call(<<"%", "-", "4", "s", "|">>, <<<<"h", "i">>>>),
   Call(<<"%", "4", "s">>, <<<<"h", "i">>>>),
   Call(<<"%", ".", "*", "s", "!">>, <<2, <<"a", "b", "c">>>>),
   Call(<<"%", "3", ".", "1", "s">>, <<<<"a", "b", "c">>>>),
   Call(<<"%", "#", "s">>, <<<<"a", "ctl">>>>),
   Call(<<"%", "s">>, <<NullString>>),
   Call(<<"%", "c", "%", "e", "%", "e">>, <<"z", -3, 99>>),
   Call(<<"%", "5", "q", "r">>, <<>>),
   Call(<<"a", "%">>, <<>>),
   Call(<<>>, <<>>)}

CmdLines == UNION {[1 .. n -> {" ", "a", "b"}] : n \in 0 .. 6}

Commands == {<<"a">>, <<"a", "b">>}

(* Images of up to two segments, and an empty header at address 0 in any   *)
(* place among them.                                                       *)
Headers == {h \in [pa : 4 .. 8, memsz : {0, 1, 3, 6}, filesz : {0, 1, 3},
                   offset : {4, 5, 8, 9, 14}] : WellFormed(<<h>>)}

EmptyHeader == [pa |-> 0, memsz |-> 0, filesz |-> 0, offset |-> 0]

ElfImages ==
  {[magic |-> TRUE, ph |-> <<>>], [magic |-> FALSE, ph |-> <<>>]}
    \cup {e \in [magic : {TRUE}, ph : Headers \X Headers] :
            WellFormed(e.ph) /\ Separate(e.ph)}
    \cup {[magic |-> TRUE, ph |-> ph] :
            ph \in {<<h, EmptyHeader>> : h \in Headers}
                     \cup {<<EmptyHeader, h>> : h \in Headers}}

(* Programs of up to two segments, in either order, some not to be loaded. *)
IcodeHeaders ==
  {h \in [pa : {0, 3, 8, 9}, memsz : {0, 1, 4, 7}, filesz : {0, 1, 4},
          offset : {0, 5}, load : BOOLEAN] : h.filesz <= h.memsz}

IcodeImages ==
  {[ph |-> <<>>]}
    \cup {e \in [ph : IcodeHeaders \X IcodeHeaders] : Untouching(e.ph)}
=============================================================================
