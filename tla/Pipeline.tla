------------------------------ MODULE Pipeline ------------------------------
(***************************************************************************)
(* The shell of tinyos_shell.c runs command lines: process_line() makes a  *)
(* process for each fragment of a pipeline, with pipes between them, out   *)
(* of the system calls of module Streams, and waits for all of them.       *)
(*                                                                         *)
(* The shell is process 0, fragment i is process i.  Each system call of   *)
(* the shell is a step; step says which one of process_line() is next:     *)
(*   prompt, save..., pipe, dupw, closew, exec, dupr, closer, wait.        *)
(* The programs are the ones of the shell that matter to a pipeline: those *)
(* that only write (Echo, Hanoi, Fibonacci), ones that copy standard input *)
(* to standard output (Capitalize, LowerCase, LineEnum) and one that reads *)
(* its input and then reports (WordCount).  fidopen() turns buffering off, *)
(* so they read and write one byte at a time.  Bytes are counted, not      *)
(* named.  A program that only writes may stand anywhere in a line.        *)
(***************************************************************************)
EXTENDS Integers, Sequences, FiniteSets

CONSTANTS MaxFrags,          \* bound on the fragments of a line
          MaxLines,          \* bound on the lines the shell is given
          EchoBytes,         \* what Echo, or another that only writes, writes
          PipelineBuffer     \* PIPE_BUFFER_SIZE

ASSUME PipelineAssumption ==
    /\ {MaxFrags, PipelineBuffer} \subseteq Nat \ {0}
    /\ {MaxLines, EchoBytes} \subseteq Nat

Shell == 0
Children == 1 .. MaxFrags

VARIABLES
    table,       \* the FCBs and the descriptor tables
    line,        \* the programs of the line that is processed
    lines,       \* lines given so far
    step, frag,  \* where the shell is in process_line()
    savein, saveout, piperead, pipewrite,   \* its local variables
    child,       \* "none", "run", "report" or "exited", for each fragment
    held,        \* bytes a program has still to write
    got,         \* bytes it has read
    content      \* bytes in each pipe

shellVars == <<line, lines, step, frag, savein, saveout, piperead, pipewrite>>
childVars == <<child, held, got, content>>
pipelineVars == <<table, shellVars, childVars>>

\* The shell needs descriptors 0 and 1, two to save them and two of a pipe;
\* the FCBs are those of the terminal, one to start each savefid() with, and
\* two for each pipe.
F == INSTANCE Streams WITH
        Procs <- {Shell} \cup Children, Init_pid <- Shell,
        MAX_FILES <- 2 * MaxFrags + 1, MAX_FILEID <- 6,
        MaxPipes <- MaxFrags, NTerminals <- 1,
        os <- table, inuse <- [p \in {Shell} \cup Children |-> 0]

\* boot_shell() opens the terminal twice, for the descriptors 0 and 1.
ShellTable ==
    F!sys_OpenTerminal(F!sys_OpenTerminal(F!EmptyTable, Shell, 0), Shell, 0)

\* Programs that read all of their input.
Filters == {"copy", "count"}
Programs == {"echo"} \cup Filters

\* The lines the shell is given: any programs in any order, but the first
\* one does not read the terminal.
Lines == {l \in UNION {[1 .. n -> Programs] : n \in 1 .. MaxFrags} : l[1] \notin Filters}

PipelineInit ==
    /\ table = ShellTable
    /\ line = <<>> /\ lines = 0
    /\ step = "prompt" /\ frag = 1
    /\ savein = F!NULL /\ saveout = F!NULL
    /\ piperead = F!NULL /\ pipewrite = F!NULL
    /\ child = [i \in Children |-> "none"]
    /\ held = [i \in Children |-> 0]
    /\ got = [i \in Children |-> 0]
    /\ content = [k \in F!Pipes |-> 0]

-----------------------------------------------------------------------------
(* The shell.                                                              *)

\* Shell() reads a line.  process_line() returns at once for an empty
\* fragment or an unknown command (the second disjunct).
ReadLine ==
    /\ step = "prompt" /\ lines < MaxLines
    /\ lines' = lines + 1
    /\ \/ \E l \in Lines : line' = l /\ step' = "save"
       \/ UNCHANGED <<line, step>>
    /\ UNCHANGED <<table, frag, savein, saveout, piperead, pipewrite, childVars>>

\* savefid(0): OpenNull() and Dup2().  The shell is alone here.
SaveInOpen ==
    /\ step = "save"
    /\ F!CanReserve(table, Shell, 1)
    /\ savein' = F!LowestFids(table, Shell, 1)[1]
    /\ table' = F!sys_OpenNull(table, Shell)
    /\ step' = "save_dup"
    /\ UNCHANGED <<line, lines, frag, saveout, piperead, pipewrite, childVars>>

SaveInDup ==
    /\ step = "save_dup"
    /\ table' = F!sys_Dup2(table, Shell, 0, savein)
    /\ step' = "save_out"
    /\ UNCHANGED <<line, lines, frag, savein, saveout, piperead, pipewrite, childVars>>

\* savefid(1)
SaveOutOpen ==
    /\ step = "save_out"
    /\ F!CanReserve(table, Shell, 1)
    /\ saveout' = F!LowestFids(table, Shell, 1)[1]
    /\ table' = F!sys_OpenNull(table, Shell)
    /\ step' = "save_out_dup"
    /\ UNCHANGED <<line, lines, frag, savein, piperead, pipewrite, childVars>>

SaveOutDup ==
    /\ step = "save_out_dup"
    /\ table' = F!sys_Dup2(table, Shell, 1, saveout)
    /\ step' = "pipe" /\ frag' = 1
    /\ UNCHANGED <<line, lines, savein, saveout, piperead, pipewrite, childVars>>

LastFrag == frag = Len(line)

\* The calls before Execute().  Pipe() is not tested for failure; the
\* tables are large enough here.
MakePipe ==
    /\ step = "pipe"
    /\ \/ /\ ~ LastFrag
          /\ F!CanReserve(table, Shell, 2)
          /\ \E k \in F!FreePipes(table) :
                /\ table' = F!sys_Pipe(table, Shell, k)
                /\ content' = [content EXCEPT ![k] = 0]
          /\ piperead' = F!LowestFids(table, Shell, 2)[1]
          /\ pipewrite' = F!LowestFids(table, Shell, 2)[2]
       \/ LastFrag /\ UNCHANGED <<table, content, piperead, pipewrite>>
    /\ step' = "dupw"
    /\ UNCHANGED <<line, lines, frag, savein, saveout, child, held, got>>

DupOut ==
    /\ step = "dupw"
    /\ table' = F!sys_Dup2(table, Shell, IF LastFrag THEN saveout ELSE pipewrite, 1)
    /\ step' = "closew"
    /\ UNCHANGED <<line, lines, frag, savein, saveout, piperead, pipewrite, childVars>>

\* Faulty variant: the shell keeps the write end of the pipe.
KeepOut ==
    /\ step = "closew"
    /\ table' = IF LastFrag THEN F!sys_Close(table, Shell, saveout) ELSE table
    /\ step' = "exec"
    /\ UNCHANGED <<line, lines, frag, savein, saveout, piperead, pipewrite, childVars>>

CloseOut ==
    /\ step = "closew"
    /\ table' = F!sys_Close(table, Shell, IF LastFrag THEN saveout ELSE pipewrite)
    /\ step' = "exec"
    /\ UNCHANGED <<line, lines, frag, savein, saveout, piperead, pipewrite, childVars>>

\* Execute(): the child inherits every descriptor of the shell.
Execute ==
    /\ step = "exec"
    /\ table' = F!Inherit(table, Shell, frag)
    /\ child' = [child EXCEPT ![frag] = "run"]
    /\ held' = [held EXCEPT ![frag] = IF line[frag] = "echo" THEN EchoBytes ELSE 0]
    /\ got' = [got EXCEPT ![frag] = 0]
    /\ step' = "dupr"
    /\ UNCHANGED <<line, lines, frag, savein, saveout, piperead, pipewrite, content>>

\* Faulty variant: the terminal is not put back on descriptor 0.
DupInPipe ==
    /\ step = "dupr"
    /\ table' = IF LastFrag THEN table ELSE F!sys_Dup2(table, Shell, piperead, 0)
    /\ step' = "closer"
    /\ UNCHANGED <<line, lines, frag, savein, saveout, piperead, pipewrite, childVars>>

DupIn ==
    /\ step = "dupr"
    /\ table' = F!sys_Dup2(table, Shell, IF LastFrag THEN savein ELSE piperead, 0)
    /\ step' = "closer"
    /\ UNCHANGED <<line, lines, frag, savein, saveout, piperead, pipewrite, childVars>>

CloseIn ==
    /\ step = "closer"
    /\ table' = F!sys_Close(table, Shell, IF LastFrag THEN savein ELSE piperead)
    /\ step' = IF LastFrag THEN "wait" ELSE "pipe"
    /\ frag' = IF LastFrag THEN 1 ELSE frag + 1
    /\ UNCHANGED <<line, lines, savein, saveout, piperead, pipewrite, childVars>>

\* WaitChild(child[i]), for one fragment after the other; at the end
\* process_line() returns.
Wait ==
    /\ step = "wait"
    /\ child[frag] = "exited"
    /\ child' = [child EXCEPT ![frag] = "none"]
    /\ frag' = IF LastFrag THEN 1 ELSE frag + 1
    /\ step' = IF LastFrag THEN "prompt" ELSE "wait"
    /\ line' = IF LastFrag THEN <<>> ELSE line
    /\ UNCHANGED <<table, lines, savein, saveout, piperead, pipewrite,
                   held, got, content>>

ShellStep == \/ SaveInOpen \/ SaveInDup \/ SaveOutOpen \/ SaveOutDup
             \/ MakePipe \/ DupOut \/ CloseOut \/ Execute
             \/ DupIn \/ CloseIn \/ Wait

-----------------------------------------------------------------------------
(* The programs.                                                           *)

StreamOf(i, f) == table.stream[table.FIDT[i][f]]

\* Pipes whose reader, writer is not NULL.
HasReader(k) == F!Reader(k) \in table.ends
HasWriter(k) == F!Writer(k) \in table.ends

\* fgetc(): Read() of one byte, which waits while the pipe is empty and has
\* a writer; or the end of the input.  A filter writes the byte before it
\* reads the next one.
ReadByte(i) ==
    LET k == StreamOf(i, 0)[2] IN
    /\ child[i] = "run" /\ line[i] \in Filters /\ held[i] = 0
    /\ content[k] > 0
    /\ content' = [content EXCEPT ![k] = @ - 1]
    /\ got' = [got EXCEPT ![i] = @ + 1]
    /\ held' = [held EXCEPT ![i] = IF line[i] = "copy" THEN 1 ELSE 0]
    /\ UNCHANGED <<table, shellVars, child>>

\* Faulty variant: a full pipe makes Write() return 0 instead of wait.
WriteByteNoWait(i) ==
    LET out == StreamOf(i, 1) IN
    /\ child[i] \in {"run", "report"} /\ held[i] > 0
    /\ held' = [held EXCEPT ![i] = @ - 1]
    /\ content' = IF out[1] = "writer" /\ HasReader(out[2]) /\ content[out[2]] < PipelineBuffer
                  THEN [content EXCEPT ![out[2]] = @ + 1] ELSE content
    /\ UNCHANGED <<table, shellVars, child, got>>

\* fputc(): Write() of one byte.  To a pipe without reader it fails, and the
\* byte is lost (tinyos_fid_write()); the terminal takes everything.
WriteByte(i) ==
    LET out == StreamOf(i, 1) IN
    /\ child[i] \in {"run", "report"} /\ held[i] > 0
    /\ held' = [held EXCEPT ![i] = @ - 1]
    /\ \/ /\ out = F!Terminal(0)
          /\ UNCHANGED content
       \/ /\ out[1] = "writer" /\ HasReader(out[2])
          /\ content[out[2]] < PipelineBuffer
          /\ content' = [content EXCEPT ![out[2]] = @ + 1]
       \/ /\ out[1] = "writer" /\ ~ HasReader(out[2])
          /\ UNCHANGED content
    /\ UNCHANGED <<table, shellVars, child, got>>

\* Read() returns 0: no bytes and no writer.
AtEnd(i) == LET k == StreamOf(i, 0)[2] IN content[k] = 0 /\ ~ HasWriter(k)

\* WordCount at the end of its input: a report, which is one byte here.
Report(i) ==
    /\ child[i] = "run" /\ line[i] = "count"
    /\ AtEnd(i)
    /\ child' = [child EXCEPT ![i] = "report"]
    /\ held' = [held EXCEPT ![i] = 1]
    /\ UNCHANGED <<table, shellVars, got, content>>

\* The program returns; Exit() closes its descriptors.
ProgramExit(i) ==
    /\ held[i] = 0
    /\ \/ child[i] = "run" /\ line[i] = "echo"
       \/ child[i] = "run" /\ line[i] = "copy" /\ AtEnd(i)
       \/ child[i] = "report"
    /\ child' = [child EXCEPT ![i] = "exited"]
    /\ table' = F!ExitFids(table, i)
    /\ UNCHANGED <<shellVars, held, got, content>>

ChildStep(i) == ReadByte(i) \/ WriteByte(i) \/ Report(i) \/ ProgramExit(i)

PipelineNext == ReadLine \/ ShellStep \/ \E i \in Children : ChildStep(i)

\* Processes that can run do.
PipelineFairness ==
    /\ WF_pipelineVars(ShellStep)
    /\ \A i \in Children : WF_pipelineVars(ChildStep(i))

-----------------------------------------------------------------------------
(* Properties.                                                             *)

(* At the prompt the shell has the terminal on 0 and 1 again and no other  *)
(* descriptor, no child holds one, and all other FCBs are free: a line     *)
(* leaks neither descriptors nor FCBs nor pipes.                           *)
ShellRestored ==
    step = "prompt" =>
        /\ \A p \in {Shell} \cup Children : \A f \in F!Fids :
              IF p = Shell /\ f \in {0, 1} THEN StreamOf(p, f) = F!Terminal(0)
                                           ELSE table.FIDT[p][f] = F!NULL
        /\ table.ends = {}
        /\ F!FilesSound

(* What fragment i of line l writes, in bytes: what the last program up to *)
(* it does that does not just copy.                                        *)
Sources(l, i) == {j \in 1 .. i : l[j] # "copy" /\ \A k \in j + 1 .. i : l[k] = "copy"}
OutputOf(l, i) ==
    LET source == CHOOSE j \in Sources(l, i) : TRUE
    IN  IF l[source] = "count" THEN 1 ELSE EchoBytes

(* Every byte that a program writes gets to the next one of the line, if   *)
(* that reads at all, whatever the speed of the processes: WordCount       *)
(* counts all of them.                                                     *)
AllBytesArrive ==
    step = "wait" =>
        \A i \in 2 .. Len(line) :
            child[i] = "exited" /\ line[i] \in Filters => got[i] = OutputOf(line, i - 1)

(* A program that writes more than a pipe holds to one that does not read  *)
(* is never done: the reader's exit does not break the pipe, because the   *)
(* writer itself has inherited the pipe's read end from the shell, as      *)
(* process_line() closes it only after Execute().                          *)
Jams(l) ==
    \E i \in 2 .. Len(l) : l[i] \notin Filters /\ OutputOf(l, i - 1) > PipelineBuffer

(* Every other line ends: each program of a pipeline sees the end of its   *)
(* input, because neither the shell nor a later child keeps a write end.   *)
(* And the condition is exact: a line of that kind never ends.             *)
LinesEnd ==
    /\ []<>(step = "prompt" \/ Jams(line))
    /\ [][Jams(line) => step' # "prompt"]_pipelineVars
=============================================================================
