----------------------------- MODULE InputFiles -----------------------------
(***************************************************************************)
(* The input of the simulator: read_config of os.c reads the configuration *)
(* file, and ld_routine calls load of loader.c for one row after the       *)
(* other.  Both read with fscanf and ignore its result, so what a file     *)
(* lacks is what its target held before.                                   *)
(*                                                                         *)
(* To fscanf a file is a sequence of tokens; a line has no meaning to it.  *)
(* Each action is one round of a loop, with all its conversions.           *)
(***************************************************************************)
EXTENDS Integers, Sequences, FiniteSets

CONSTANTS
    Texts,      \* the strings
    Configs,    \* configuration files to consider
    Disks       \* directories of process descriptions to consider

\* A token: its text, and its value as a number, or -1 if it is none.
Token == [text : Texts, num : Nat \cup {-1}]

\* The rows of processes begin behind the first "head" tokens.
Config == [tokens : Seq(Token), head : Nat]

ASSUME TextsAssumption == "?" \in Texts

\* Memory that was never written: any number.
Unset == -1

IsNumber(token) == token.num # -1

Opcodes == {"calc", "alloc", "malloc", "free", "read", "write"}

ASSUME ConfigsAssumption ==
    \A c \in Configs :
        /\ c \in Config
        /\ Len(c.tokens) >= 3
        /\ \A k \in 1..3 : IsNumber(c.tokens[k])

\* Every file begins with its two numbers: without them the size of the
\* process would be whatever malloc returned.
ASSUME DisksAssumption ==
    \A d \in Disks :
        /\ DOMAIN d \subseteq Texts
        /\ \A name \in DOMAIN d :
              /\ d[name] \in Seq(Token)
              /\ Len(d[name]) >= 2
              /\ IsNumber(d[name][1]) /\ IsNumber(d[name][2])

VARIABLES
    config,     \* the configuration file
    disk,       \* the process descriptions, by name
    phase,      \* what is being read
    pos,        \* tokens of the open file that were read
    rows,       \* ld_processes
    procBuf,    \* local proc of read_config
    name,       \* the file that load reads
    priority,   \* proc->priority of the process being loaded
    size,       \* its proc->code->size
    text,       \* its proc->code->text, as far as it was filled
    opcode,     \* local opcode of load
    pcbs        \* the processes that load returned

configVars == <<rows, procBuf>>
loadVars == <<name, priority, size, text, opcode>>
vars == <<config, disk, phase, pos, configVars, loadVars, pcbs>>

Row == [start : Int, name : Texts, prio : Int]
Inst == [op : Opcodes, args : [0..2 -> Int]]
Pcb == [pid : Nat, name : Texts, prio : Int, priority : Int, size : Nat,
        text : Seq(Inst)]
Phases == {"config", "rows", "next", "code", "exit"}

\* Types of all variables; no position lies behind the end of the open file.
TypeOK ==
    /\ config \in Configs
    /\ disk \in Disks
    /\ phase \in Phases
    /\ pos \in Nat
    /\ rows \in Seq(Row)
    /\ procBuf \in Texts
    /\ name \in Texts
    /\ priority \in Int
    /\ size \in Nat
    /\ text \in Seq(Inst)
    /\ opcode \in Texts
    /\ pcbs \in Seq(Pcb)
    /\ phase = "rows" => pos <= Len(config.tokens)
    /\ phase = "code" => name \in DOMAIN disk /\ pos <= Len(disk[name])

\* Local arrays that were never written hold anything ("?").
Init ==
    /\ config \in Configs
    /\ disk \in Disks
    /\ phase = "config"
    /\ pos = 0
    /\ rows = <<>>
    /\ procBuf = "?"
    /\ name = "?"
    /\ priority = 0
    /\ size = 0
    /\ text = <<>>
    /\ opcode = "?"
    /\ pcbs = <<>>

-----------------------------------------------------------------------------
(* fscanf: a format is a sequence of conversions "number" and "string".    *)

\* The first k conversions find what they need.
Converts(file, from, format, k) ==
    \A j \in 1..k : /\ from + j <= Len(file)
                    /\ format[j] = "number" => IsNumber(file[from + j])

\* The result of fscanf: it stops at the first conversion that fails, and
\* leaves the token there for the next call.
Converted(file, from, format) ==
    CHOOSE k \in 0..Len(format) :
        /\ Converts(file, from, format, k)
        /\ k < Len(format) => ~Converts(file, from, format, k + 1)

\* The target of conversion j: the number read, or what it was before.
Number(file, from, format, j, before) ==
    IF j <= Converted(file, from, format) THEN file[from + j].num ELSE before

\* Faulty variant: the buffer is emptied before it is read.
StringOrNothing(file, from, format, j, before) ==
    IF j <= Converted(file, from, format) THEN file[from + j].text ELSE ""

String(file, from, format, j, before) ==
    IF j <= Converted(file, from, format) THEN file[from + j].text ELSE before

-----------------------------------------------------------------------------
(* read_config.                                                            *)

NumProcesses == config.tokens[3].num

\* time_slot, num_cpus, num_processes.  The build has fixed memory sizes
\* (MM_FIXED_MEMSZ): a line with sizes is not skipped.
ReadHeader ==
    /\ phase = "config"
    /\ phase' = "rows"
    /\ pos' = 3
    /\ UNCHANGED <<config, disk, configVars, loadVars, pcbs>>

\* Faulty variant: the row is read without its priority.
RowFormatWithoutPrio == <<"number", "string">>

\* The format of a row in the MLQ_SCHED build.
RowFormat == <<"number", "string", "number">>

ReadRow ==
    /\ phase = "rows"
    /\ Len(rows) < NumProcesses
    /\ procBuf' = String(config.tokens, pos, RowFormat, 2, procBuf)
    /\ rows' = Append(rows,
                 [start |-> Number(config.tokens, pos, RowFormat, 1, Unset),
                  name |-> procBuf',
                  prio |-> Number(config.tokens, pos, RowFormat, 3, Unset)])
    /\ pos' = pos + Converted(config.tokens, pos, RowFormat)
    /\ UNCHANGED <<config, disk, phase, loadVars, pcbs>>

\* The loop ends; ld_routine starts with the first row.
RowsRead ==
    /\ phase = "rows"
    /\ Len(rows) >= NumProcesses
    /\ phase' = "next"
    /\ UNCHANGED <<config, disk, pos, configVars, loadVars, pcbs>>

-----------------------------------------------------------------------------
(* load, called by ld_routine for each row.                                *)

NextRow == rows[Len(pcbs) + 1]

\* fopen, and the header of the file.  opcode is not initialised: the stack
\* may still hold what the call before it left, or anything else ("?").
OpenProcess ==
    /\ phase = "next"
    /\ Len(pcbs) < Len(rows)
    /\ NextRow.name \in DOMAIN disk
    /\ name' = NextRow.name
    /\ pos' = 2
    /\ priority' = disk[name'][1].num
    /\ size' = disk[name'][2].num
    /\ text' = <<>>
    /\ opcode' \in {opcode, "?"}
    /\ phase' = "code"
    /\ UNCHANGED <<config, disk, configVars, pcbs>>

\* No such file: exit(1), in the middle of the simulation.
MissingFile ==
    /\ phase = "next"
    /\ Len(pcbs) < Len(rows)
    /\ NextRow.name \notin DOMAIN disk
    /\ phase' = "exit"
    /\ UNCHANGED <<config, disk, pos, configVars, loadVars, pcbs>>

File == disk[name]

\* The opcode of the next instruction: at the end of the file, the last one.
NextOpcode == IF pos < Len(File) THEN File[pos + 1].text ELSE opcode

\* Faulty variant: a word that is missing is counted.
OperandsBehind == pos + 1

\* Where its operands begin.
Operands == IF pos < Len(File) THEN pos + 1 ELSE pos

\* Faulty variant: READ and WRITE are read with two operands.
FormatOfTwo(op) ==
    [j \in 1..(CASE op = "calc" -> 0 [] op = "free" -> 1 [] OTHER -> 2) |-> "number"]

\* The operands that load reads after each opcode.
Format(op) ==
    [j \in 1..(CASE op = "calc" -> 0 [] op = "free" -> 1
                 [] op \in {"read", "write"} -> 3 [] OTHER -> 2) |-> "number"]

\* Faulty variant: the operand behind MALLOC is read as a string.
ExtraString == <<"string">>

\* MALLOC has no break: it goes on with the operand of FREE.
ExtraFormat == <<"number">>

\* Where the operands of the opcode end, without that.
OperandsEnd == Operands + Converted(File, Operands, Format(NextOpcode))

Extra ==
    IF NextOpcode = "malloc" THEN Converted(File, OperandsEnd, ExtraFormat) ELSE 0

\* One instruction: an operand that is missing is not written.
ReadInstruction ==
    /\ phase = "code"
    /\ Len(text) < size
    /\ NextOpcode \in Opcodes
    /\ opcode' = NextOpcode
    /\ text' = Append(text,
                 [op |-> NextOpcode,
                  args |-> [a \in 0..2 |->
                     IF a = 0 /\ Extra = 1 THEN File[OperandsEnd + 1].num
                     ELSE Number(File, Operands, Format(NextOpcode), a + 1, Unset)]])
    /\ pos' = OperandsEnd + Extra
    /\ UNCHANGED <<config, disk, phase, configVars, name, priority, size, pcbs>>

\* get_opcode does not know the word: exit(1).
UnknownOpcode ==
    /\ phase = "code"
    /\ Len(text) < size
    /\ NextOpcode \notin Opcodes
    /\ opcode' = NextOpcode
    /\ phase' = "exit"
    /\ UNCHANGED <<config, disk, pos, configVars, name, priority, size, text, pcbs>>

\* load returns; ld_routine sets prio and calls add_proc.
Loaded ==
    /\ phase = "code"
    /\ Len(text) >= size
    /\ pcbs' = Append(pcbs,
                 [pid |-> Len(pcbs) + 1, name |-> name, prio |-> NextRow.prio,
                  priority |-> priority, size |-> size, text |-> text])
    /\ phase' = "next"
    /\ UNCHANGED <<config, disk, pos, configVars, loadVars>>

\* All rows are loaded, or the program has ended.
Terminated ==
    /\ phase = "exit" \/ (phase = "next" /\ Len(pcbs) >= Len(rows))
    /\ UNCHANGED vars

Next ==
    \/ ReadHeader \/ ReadRow \/ RowsRead
    \/ OpenProcess \/ MissingFile \/ ReadInstruction \/ UnknownOpcode \/ Loaded
    \/ Terminated

Spec == Init /\ [][Next]_vars

-----------------------------------------------------------------------------
(* Properties.                                                             *)

\* The place of the i-th row in the file, and whether the file has it.
RowStart(i) == config.head + 3 * (i - 1)
HasRow(i) ==
    /\ RowStart(i) + 3 <= Len(config.tokens)
    /\ IsNumber(config.tokens[RowStart(i) + 1])
    /\ IsNumber(config.tokens[RowStart(i) + 3])

(***************************************************************************)
(* Process i is the one of row i of the configuration, with its start time *)
(* and its priority, as far as the file has rows, whatever the rows are    *)
(* called and however many of them are missing.                            *)
(***************************************************************************)
RowsAreProcesses ==
    \A i \in 1..Len(rows) :
        (\A j \in 1..i : HasRow(j)) =>
            rows[i] = [start |-> config.tokens[RowStart(i) + 1].num,
                       name |-> config.tokens[RowStart(i) + 2].text,
                       prio |-> config.tokens[RowStart(i) + 3].num]

\* The words of a process description that are not operands.
Words(file) == {k \in 3..Len(file) : ~IsNumber(file[k])}
WordsTo(file, w) == {k \in Words(file) : k <= w}
OperandCount(op) ==
    CASE op = "calc" -> 0 [] op = "free" -> 1 [] op \in {"alloc", "malloc"} -> 2
      [] op \in {"read", "write"} -> 3 [] OTHER -> 0

\* Every word is an opcode, followed by its operands and nothing else.
WellFormed(file) ==
    /\ Len(file) >= 3 => 3 \in Words(file)
    /\ \A k \in Words(file) :
          LET last == k + OperandCount(file[k].text)
          IN  /\ file[k].text \in Opcodes
              /\ last <= Len(file)
              /\ \A j \in (k + 1)..last : IsNumber(file[j])
              /\ last < Len(file) => last + 1 \in Words(file)

\* It has as many instructions as its header says, or more.
Complete(file) == file[2].num <= Cardinality(Words(file))

\* The instruction that begins with word k.
InstAt(file, k) ==
    [op |-> file[k].text,
     args |-> [a \in 0..2 |-> IF a < OperandCount(file[k].text)
                              THEN file[k + a + 1].num ELSE Unset]]

(***************************************************************************)
(* The code of a process is the first "size" instructions of its file, in  *)
(* order and with their operands, if the file is complete and well-formed: *)
(* in particular the missing break after MALLOC takes nothing from the     *)
(* instruction that follows.                                               *)
(***************************************************************************)
ProgramsAreRead ==
    \A i \in 1..Len(pcbs) :
        LET file == disk[pcbs[i].name]
        IN  WellFormed(file) /\ Complete(file) =>
                /\ pcbs[i].priority = file[1].num
                /\ Len(pcbs[i].text) = file[2].num
                /\ \A k \in Words(file) :
                      LET n == Cardinality(WordsTo(file, k))
                      IN  n <= file[2].num => pcbs[i].text[n] = InstAt(file, k)

\* Every row up to the last process names a file that is well-formed.
GoodInput ==
    \A i \in 1..NumProcesses :
        /\ HasRow(i)
        /\ config.tokens[RowStart(i) + 2].text \in DOMAIN disk
        /\ LET file == disk[config.tokens[RowStart(i) + 2].text]
           IN  WellFormed(file) /\ Complete(file)

(***************************************************************************)
(* The loader ends the whole simulation only if a row or a process file is *)
(* missing, short or ill-formed.                                           *)
(***************************************************************************)
GoodInputLoads == GoodInput => phase # "exit"

(***************************************************************************)
(* Once a row is incomplete, no later row is read: the token that stopped  *)
(* fscanf stops it again, and every later process runs the program of the  *)
(* row before it, as the expected outputs of short configurations show.    *)
(***************************************************************************)
FailedRowRepeats ==
    \A i \in 1..(Len(rows) - 1) :
        /\ rows[i].prio = Unset => rows[i + 1].start = Unset
        /\ rows[i + 1].start = Unset =>
              rows[i + 1] = [start |-> Unset, name |-> rows[i].name, prio |-> Unset]
=============================================================================
