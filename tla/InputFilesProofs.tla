-------------------------- MODULE InputFilesProofs --------------------------
(***************************************************************************)
(* Proofs of what read_config reads, for any configuration file, and of    *)
(* what load reads from any process description.                           *)
(***************************************************************************)
EXTENDS InputFiles, FiniteSetTheorems, TLAPS

-----------------------------------------------------------------------------
(* fscanf with up to three conversions.                                    *)

Formats == {f \in Seq({"number", "string"}) : Len(f) <= 3}

LEMMA ConvertedFacts ==
    ASSUME NEW file \in Seq(Token), NEW from \in 0..Len(file), NEW format \in Formats
    PROVE  /\ Converted(file, from, format) \in 0..Len(format)
           /\ Converts(file, from, format, Converted(file, from, format))
           /\ Converted(file, from, format) < Len(format) =>
                 ~Converts(file, from, format, Converted(file, from, format) + 1)
           /\ from + Converted(file, from, format) \in 0..Len(file)
<1> DEFINE C(k) == Converts(file, from, format, k)
           P(k) == C(k) /\ (k < Len(format) => ~C(k + 1))
<1>1. Len(format) \in 0..3 /\ Len(file) \in Nat /\ from \in Nat
  <2>1. format \in Seq({"number", "string"})
    BY DEF Formats
  <2>2. Len(format) <= 3
    BY DEF Formats
  <2>3. Len(format) \in Nat
    BY <2>1
  <2>4. Len(file) \in Nat
    OBVIOUS
  <2>5. from \in Nat
    BY <2>4
  <2>6. \A n \in Nat : n <= 3 => n \in 0..3
    OBVIOUS
  <2>7. Len(format) \in 0..3
    BY <2>2, <2>3, <2>6
  <2> QED  BY <2>4, <2>5, <2>7
<1>2. C(0)
  BY DEF Converts
<1>3. \E k \in 0..Len(format) : P(k)
  <2> HIDE DEF C
  <2>1. CASE Len(format) = 0
    BY <1>2, <2>1
  <2>2. CASE Len(format) = 1
    BY <1>2, <2>2
  <2>3. CASE Len(format) = 2
    BY <1>2, <2>3
  <2>4. CASE Len(format) = 3
    BY <1>2, <2>4
  <2> QED  BY <1>1, <2>1, <2>2, <2>3, <2>4
<1>4. /\ Converted(file, from, format) \in 0..Len(format)
      /\ P(Converted(file, from, format))
  <2>1. Converted(file, from, format) = CHOOSE k \in 0..Len(format) : P(k)
    BY DEF Converted
  <2> HIDE DEF P
  <2> QED  BY <1>3, <2>1
<1>5. ASSUME NEW k \in 0..Len(format), C(k) PROVE from + k \in 0..Len(file)
  BY <1>1, <1>5 DEF Converts
<1> QED  BY <1>4, <1>5

LEMMA Conversions ==
    ASSUME NEW file \in Seq(Token), NEW from \in 0..Len(file), NEW format \in Formats,
           NEW j \in 1..3
    PROVE  /\ j <= Converted(file, from, format) =>
                 from + j \in 1..Len(file) /\ file[from + j] \in Token
           /\ \A before \in Int : Number(file, from, format, j, before) \in Int
           /\ \A before \in Texts : String(file, from, format, j, before) \in Texts
<1> DEFINE c == Converted(file, from, format)
<1>1. c \in Nat /\ from + c <= Len(file) /\ from \in Nat /\ Len(file) \in Nat
  BY ConvertedFacts DEF Formats
<1> HIDE DEF c
<1>2. j <= c => from + j \in 1..Len(file) /\ file[from + j] \in Token
  BY <1>1
<1>3. j <= c => file[from + j].num \in Int /\ file[from + j].text \in Texts
  BY <1>2 DEF Token
<1> QED  BY <1>2, <1>3 DEF Number, String, c

LEMMA FormatsOfLoad ==
    /\ RowFormat \in Formats /\ Len(RowFormat) = 3
    /\ RowFormat[1] = "number" /\ RowFormat[2] = "string" /\ RowFormat[3] = "number"
    /\ ExtraFormat \in Formats /\ Len(ExtraFormat) = 1
    /\ \A op : Format(op) \in Formats
<1>1. ASSUME NEW n \in 0..3 PROVE [j \in 1..n |-> "number"] \in Formats
  <2>1. [j \in 1..n |-> "number"] \in [1..n -> {"number", "string"}]
    OBVIOUS
  <2>2. [j \in 1..n |-> "number"] \in Seq({"number", "string"})
    BY <2>1
  <2>3. Len([j \in 1..n |-> "number"]) = n
    OBVIOUS
  <2> QED  BY <2>2, <2>3 DEF Formats
<1>2. ASSUME NEW op PROVE Format(op) \in Formats
  <2> DEFINE n == CASE op = "calc" -> 0 [] op = "free" -> 1
                    [] op \in {"read", "write"} -> 3 [] OTHER -> 2
  <2>1. n \in 0..3
    OBVIOUS
  <2>2. Format(op) = [j \in 1..n |-> "number"]
    BY DEF Format
  <2> HIDE DEF n
  <2> QED  BY <1>1, <2>1, <2>2
<1>3. RowFormat \in Formats /\ ExtraFormat \in Formats
  BY DEF RowFormat, ExtraFormat, Formats
<1> QED  BY <1>2, <1>3 DEF RowFormat, ExtraFormat

-----------------------------------------------------------------------------
(* Types.                                                                  *)

\* A process is being loaded only for a row that there is.
Inv == TypeOK /\ (phase = "code" => Len(pcbs) < Len(rows))

LEMMA TypeStep ==
    ASSUME Inv, Next
    PROVE  Inv'
<1>1. /\ config \in Config /\ config.tokens \in Seq(Token) /\ Len(config.tokens) >= 3
      /\ \A n \in DOMAIN disk :
            /\ n \in Texts /\ disk[n] \in Seq(Token) /\ Len(disk[n]) >= 2
            /\ IsNumber(disk[n][1]) /\ IsNumber(disk[n][2])
  <2>1. config \in Config /\ Len(config.tokens) >= 3
    BY ConfigsAssumption DEF Inv, TypeOK
  <2>2. config.tokens \in Seq(Token)
    BY <2>1 DEF Config
  <2> QED  BY <2>1, <2>2, DisksAssumption DEF Inv, TypeOK
<1> USE DEF Inv, TypeOK, Phases, configVars, loadVars
<1>2. CASE ReadHeader
  BY <1>1, <1>2 DEF ReadHeader
<1>3. CASE ReadRow
  <2> DEFINE row == [start |-> Number(config.tokens, pos, RowFormat, 1, Unset),
                     name |-> procBuf',
                     prio |-> Number(config.tokens, pos, RowFormat, 3, Unset)]
  <2>1. pos \in 0..Len(config.tokens)
    BY <1>1, <1>3 DEF ReadRow
  <2>2. /\ Number(config.tokens, pos, RowFormat, 1, Unset) \in Int
        /\ Number(config.tokens, pos, RowFormat, 3, Unset) \in Int
        /\ procBuf' \in Texts
    <3>1. Unset \in Int
      BY DEF Unset
    <3> QED  BY <1>1, <1>3, <2>1, <3>1, Conversions, FormatsOfLoad DEF ReadRow
  <2>3. row \in Row
    BY <2>2 DEF Row
  <2>4. rows' \in Seq(Row)
    BY <1>3, <2>3 DEF ReadRow
  <2>5. pos' \in 0..Len(config.tokens)
    BY <1>1, <1>3, <2>1, ConvertedFacts, FormatsOfLoad DEF ReadRow
  <2> QED  BY <1>1, <1>3, <2>2, <2>4, <2>5 DEF ReadRow
<1>4. CASE RowsRead
  BY <1>1, <1>4 DEF RowsRead
<1>5. CASE OpenProcess
  <2>1. /\ name' \in DOMAIN disk /\ name' \in Texts /\ disk' = disk
        /\ pos' = 2 /\ pos' <= Len(disk[name'])
    BY <1>1, <1>5 DEF OpenProcess
  <2>2. disk[name'][1] \in Token /\ disk[name'][2] \in Token
    BY <1>1, <2>1
  <2>3. priority' \in Int /\ size' \in Nat
    BY <1>1, <1>5, <2>1, <2>2 DEF OpenProcess, Token, IsNumber
  <2>4. opcode' \in Texts /\ text' \in Seq(Inst)
    <3>1. opcode' \in {opcode, "?"} /\ text' = <<>>
      BY <1>5 DEF OpenProcess
    <3>2. opcode \in Texts /\ "?" \in Texts
      BY TextsAssumption DEF Inv, TypeOK
    <3>3. <<>> \in Seq(Inst)
      OBVIOUS
    <3> QED  BY <3>1, <3>2, <3>3
  <2>5. /\ phase' = "code" /\ Len(pcbs) < Len(rows)
        /\ UNCHANGED <<config, disk, configVars, pcbs>>
    BY <1>5 DEF OpenProcess
  <2> QED  BY <2>1, <2>3, <2>4, <2>5
<1>6. CASE MissingFile
  BY <1>6 DEF MissingFile
<1>7. CASE ReadInstruction
  <2>1. /\ File \in Seq(Token) /\ pos \in 0..Len(File)
    BY <1>1, <1>7 DEF ReadInstruction, File
  <2>2. NextOpcode \in Opcodes /\ NextOpcode \in Texts /\ Operands \in 0..Len(File)
    <3>1. CASE pos < Len(File)
      <4>1. File[pos + 1] \in Token
        BY <2>1, <3>1
      <4> QED  BY <1>7, <2>1, <3>1, <4>1 DEF ReadInstruction, NextOpcode, Operands, Token
    <3>2. CASE ~(pos < Len(File))
      BY <1>7, <2>1, <3>2 DEF ReadInstruction, NextOpcode, Operands
    <3> QED  BY <3>1, <3>2
  <2>3. OperandsEnd \in 0..Len(File)
    BY <2>1, <2>2, ConvertedFacts, FormatsOfLoad DEF OperandsEnd
  <2>4. /\ Extra \in {0, 1} /\ OperandsEnd + Extra \in 0..Len(File)
        /\ Extra = 1 => File[OperandsEnd + 1].num \in Int
    <3> DEFINE c == Converted(File, OperandsEnd, ExtraFormat)
    <3>1. c \in 0..1 /\ OperandsEnd + c \in 0..Len(File)
      BY <2>1, <2>3, ConvertedFacts, FormatsOfLoad
    <3>2. 1 <= c => File[OperandsEnd + 1] \in Token
      BY <2>1, <2>3, Conversions, FormatsOfLoad
    <3> QED  BY <2>3, <3>1, <3>2 DEF Extra, Token
  <2> DEFINE args == [a \in 0..2 |->
                        IF a = 0 /\ Extra = 1 THEN File[OperandsEnd + 1].num
                        ELSE Number(File, Operands, Format(NextOpcode), a + 1, Unset)]
  <2>5. ASSUME NEW a \in 0..2
        PROVE  Number(File, Operands, Format(NextOpcode), a + 1, Unset) \in Int
    <3>1. a + 1 \in 1..3 /\ Unset \in Int
      BY DEF Unset
    <3> QED  BY <2>1, <2>2, <3>1, Conversions, FormatsOfLoad
  <2>6. args \in [0..2 -> Int]
    BY <2>4, <2>5
  <2>7. text' = Append(text, [op |-> NextOpcode, args |-> args])
    BY <1>7 DEF ReadInstruction
  <2>8. [op |-> NextOpcode, args |-> args] \in Inst
    <3> HIDE DEF args
    <3> QED  BY <2>2, <2>6 DEF Inst
  <2>9. text' \in Seq(Inst)
    <3> HIDE DEF args
    <3> QED  BY <2>7, <2>8
  <2>10. pos' \in 0..Len(File) /\ opcode' \in Texts
    BY <1>7, <2>2, <2>4 DEF ReadInstruction
  <2>11. /\ UNCHANGED <<config, disk, phase, configVars, name, priority, size, pcbs>>
         /\ pos' \in Nat /\ pos' <= Len(disk[name])
    BY <1>7, <2>1, <2>10 DEF ReadInstruction, File
  <2> QED  BY <1>7, <2>9, <2>10, <2>11 DEF ReadInstruction
<1>8. CASE UnknownOpcode
  <2>1. File \in Seq(Token) /\ pos \in 0..Len(File)
    BY <1>1, <1>8 DEF UnknownOpcode, File
  <2>2. NextOpcode \in Texts
    <3>1. pos < Len(File) => File[pos + 1] \in Token
      BY <2>1
    <3> QED  BY <3>1 DEF NextOpcode, Token
  <2> QED  BY <1>8, <2>2 DEF UnknownOpcode
<1>9. CASE Loaded
  <2>1. NextRow \in Row
    BY <1>9 DEF Loaded, NextRow
  <2>2. [pid |-> Len(pcbs) + 1, name |-> name, prio |-> NextRow.prio,
         priority |-> priority, size |-> size, text |-> text] \in Pcb
    BY <2>1 DEF Pcb, Row
  <2>3. pcbs' \in Seq(Pcb)
    BY <1>9, <2>2 DEF Loaded
  <2> QED  BY <1>9, <2>3 DEF Loaded
<1>10. CASE Terminated
  BY <1>10 DEF Terminated, vars
<1> QED
  BY <1>2, <1>3, <1>4, <1>5, <1>6, <1>7, <1>8, <1>9, <1>10 DEF Next

LEMMA TypeInvariance == Spec => []Inv
<1>1. Init => Inv
  <2>1. <<>> \in Seq(Row) /\ <<>> \in Seq(Inst) /\ <<>> \in Seq(Pcb)
    OBVIOUS
  <2> QED  BY <2>1, TextsAssumption DEF Init, Inv, TypeOK, Phases
<1>2. Inv /\ [Next]_vars => Inv'
  <2>1. ASSUME Inv, UNCHANGED vars PROVE Inv'
    BY <2>1 DEF vars, configVars, loadVars, Inv, TypeOK
  <2> QED  BY <2>1, TypeStep
<1> QED  BY <1>1, <1>2, PTL DEF Spec

(***************************************************************************)
(* Whatever the files hold, every variable of the loader has its type, and *)
(* no read goes behind the end of the open file.                           *)
(***************************************************************************)
THEOREM TypeCorrect == Spec => []TypeOK
<1>1. Inv => TypeOK
  BY DEF Inv
<1> QED  BY <1>1, TypeInvariance, PTL

-----------------------------------------------------------------------------
(* The rows of the configuration.                                          *)

\* How ReadRow extends the rows, in words of the file alone.
LEMMA OneRow ==
    ASSUME Inv, ReadRow
    PROVE  /\ config.tokens \in Seq(Token) /\ pos \in 0..Len(config.tokens)
           /\ \E c \in 0..3 :
                 LET new == rows'[Len(rows) + 1]
                 IN  /\ Converts(config.tokens, pos, RowFormat, c)
                     /\ c < 3 => ~Converts(config.tokens, pos, RowFormat, c + 1)
                     /\ pos' = pos + c
                     /\ new.start = IF 1 <= c THEN config.tokens[pos + 1].num ELSE Unset
                     /\ new.name = IF 2 <= c THEN config.tokens[pos + 2].text ELSE procBuf
                     /\ new.prio = IF 3 <= c THEN config.tokens[pos + 3].num ELSE Unset
                     /\ new.name = procBuf'
                     /\ new = [start |-> new.start, name |-> new.name, prio |-> new.prio]
           /\ rows' \in Seq(Row) /\ Len(rows') = Len(rows) + 1
           /\ \A i \in 1..Len(rows) : rows'[i] = rows[i]
           /\ rows \in Seq(Row) /\ config' = config /\ phase = "rows" /\ phase' = "rows"
<1>1. config.tokens \in Seq(Token) /\ rows \in Seq(Row)
  <2>1. config \in Config
    BY ConfigsAssumption DEF Inv, TypeOK
  <2> QED  BY <2>1 DEF Config, Inv, TypeOK
<1>2. pos \in 0..Len(config.tokens)
  BY <1>1 DEF ReadRow, Inv, TypeOK
<1> DEFINE c == Converted(config.tokens, pos, RowFormat)
           new == [start |-> Number(config.tokens, pos, RowFormat, 1, Unset),
                   name |-> procBuf',
                   prio |-> Number(config.tokens, pos, RowFormat, 3, Unset)]
<1>3. /\ c \in 0..3 /\ Converts(config.tokens, pos, RowFormat, c)
      /\ c < 3 => ~Converts(config.tokens, pos, RowFormat, c + 1)
  BY <1>1, <1>2, ConvertedFacts, FormatsOfLoad
<1>4. /\ pos' = pos + c
      /\ procBuf' = IF 2 <= c THEN config.tokens[pos + 2].text ELSE procBuf
      /\ rows' = Append(rows, new)
      /\ config' = config /\ phase = "rows" /\ phase' = "rows"
  BY DEF ReadRow, String
<1>5. /\ new.start = IF 1 <= c THEN config.tokens[pos + 1].num ELSE Unset
      /\ new.prio = IF 3 <= c THEN config.tokens[pos + 3].num ELSE Unset
      /\ new.name = procBuf'
      /\ new = [start |-> new.start, name |-> new.name, prio |-> new.prio]
  BY DEF Number
<1>6. rows' \in Seq(Row)
  BY TypeStep DEF Next, Inv, TypeOK
<1>7. /\ rows'[Len(rows) + 1] = new /\ Len(rows') = Len(rows) + 1
      /\ \A i \in 1..Len(rows) : rows'[i] = rows[i]
  <2> HIDE DEF new
  <2> QED  BY <1>1, <1>4
<1> HIDE DEF new, c
<1> QED  BY <1>1, <1>2, <1>3, <1>4, <1>5, <1>6, <1>7

\* Only ReadRow changes the rows and the buffer, and what is behind "rows"
\* never comes back to it.
LEMMA RowsKept ==
    ASSUME Inv, Next, ~ReadRow
    PROVE  /\ UNCHANGED <<config, rows, procBuf>>
           /\ phase' \in {"config", "rows"} =>
                 (phase = "config" /\ pos' = 3) \/ (phase = phase' /\ pos' = pos)
BY DEF Next, ReadHeader, RowsRead, OpenProcess, MissingFile, ReadInstruction, UnknownOpcode, Loaded,
       Terminated, vars, configVars, loadVars, Inv, TypeOK, Phases

-----------------------------------------------------------------------------

\* The rows 1 to n are in the file.
AllRows(n) == \A j \in 1..n : HasRow(j)

RowAt(i) == [start |-> config.tokens[RowStart(i) + 1].num,
             name |-> config.tokens[RowStart(i) + 2].text,
             prio |-> config.tokens[RowStart(i) + 3].num]

\* What is read is right, and the position is behind what was read.
RowsInv ==
    /\ RowsAreProcesses
    /\ phase = "config" => rows = <<>>
    /\ phase = "rows" /\ AllRows(Len(rows)) => pos = 3 + 3 * Len(rows)

LEMMA RowsStep ==
    ASSUME Inv, RowsInv, ReadRow, config.head = 3
    PROVE  RowsInv'
<1> DEFINE n == Len(rows)
           file == config.tokens
<1>1. PICK c \in 0..3 :
         LET new == rows'[n + 1]
         IN  /\ Converts(file, pos, RowFormat, c)
             /\ c < 3 => ~Converts(file, pos, RowFormat, c + 1)
             /\ pos' = pos + c
             /\ new.start = IF 1 <= c THEN file[pos + 1].num ELSE Unset
             /\ new.name = IF 2 <= c THEN file[pos + 2].text ELSE procBuf
             /\ new.prio = IF 3 <= c THEN file[pos + 3].num ELSE Unset
             /\ new.name = procBuf'
             /\ new = [start |-> new.start, name |-> new.name, prio |-> new.prio]
  BY OneRow
<1>2. /\ file \in Seq(Token) /\ pos \in 0..Len(file) /\ Len(file) \in Nat
      /\ rows \in Seq(Row) /\ n \in Nat /\ Len(rows') = n + 1
      /\ \A i \in 1..n : rows'[i] = rows[i]
      /\ config' = config /\ phase = "rows" /\ phase' = "rows"
  BY OneRow
<1>3. ASSUME AllRows(n + 1)
      PROVE  c = 3 /\ pos = RowStart(n + 1) /\ pos' = 3 + 3 * (n + 1)
  <2>1. AllRows(n) /\ HasRow(n + 1)
    BY <1>2, <1>3 DEF AllRows
  <2>2. pos = 3 + 3 * n /\ RowStart(n + 1) = 3 + 3 * n
    BY <1>2, <2>1 DEF RowsInv, RowStart
  <2>3. pos + 3 <= Len(file) /\ IsNumber(file[pos + 1]) /\ IsNumber(file[pos + 3])
    BY <2>1, <2>2 DEF HasRow
  <2>4. \A k \in 1..3 : Converts(file, pos, RowFormat, k)
    <3>1. ASSUME NEW j \in 1..3
          PROVE  pos + j <= Len(file) /\ (RowFormat[j] = "number" => IsNumber(file[pos + j]))
      <4>1. pos + j <= Len(file)
        BY <1>2, <2>3
      <4>2. RowFormat[2] # "number"
        BY FormatsOfLoad
      <4> QED  BY <2>3, <4>1, <4>2
    <3> QED  BY <3>1 DEF Converts
  <2>5. c = 3
    <3>1. c < 3 => c + 1 \in 1..3
      OBVIOUS
    <3> QED  BY <1>1, <2>4, <3>1
  <2> QED  BY <1>1, <1>2, <2>2, <2>5
<1>4. ASSUME AllRows(n + 1) PROVE rows'[n + 1] = RowAt(n + 1)
  BY <1>1, <1>3, <1>4 DEF RowAt
<1>5. \A k : AllRows(k)' <=> AllRows(k)
  BY <1>2 DEF AllRows, HasRow, RowStart
<1>6. RowsAreProcesses'
  <2> SUFFICES ASSUME NEW i \in 1..(n + 1), AllRows(i) PROVE rows'[i] = RowAt(i)
    BY <1>2, <1>5 DEF RowsAreProcesses, AllRows, RowAt, RowStart
  <2>1. CASE i = n + 1
    BY <1>4, <2>1
  <2>2. CASE i # n + 1
    <3>1. i \in 1..n
      BY <1>2, <2>2
    <3> QED  BY <1>2, <3>1 DEF RowsInv, RowsAreProcesses, AllRows, RowAt
  <2> QED  BY <2>1, <2>2
<1> QED  BY <1>2, <1>3, <1>5, <1>6 DEF RowsInv

LEMMA RowsStay ==
    ASSUME Inv, RowsInv, Next, ~ReadRow
    PROVE  RowsInv'
<1>1. /\ UNCHANGED <<config, rows, procBuf>>
      /\ phase' \in {"config", "rows"} =>
            (phase = "config" /\ pos' = 3) \/ (phase = phase' /\ pos' = pos)
  BY RowsKept
<1> QED  BY <1>1 DEF RowsInv, RowsAreProcesses, AllRows, HasRow, RowStart

(***************************************************************************)
(* If nothing stands between the three numbers and the rows, process i is  *)
(* the one of row i, for every file and every number of processes: also in *)
(* a file with fewer or more rows than processes.  With the line of memory *)
(* sizes that the paging configurations have, the property fails.          *)
(***************************************************************************)
THEOREM RowsAreRead ==
    ASSUME \A c \in Configs : c.head = 3
    PROVE  Spec => []RowsAreProcesses
<1>1. Init => RowsInv
  BY DEF Init, RowsInv, RowsAreProcesses
<1>2. Inv /\ RowsInv /\ [Next]_vars => RowsInv'
  <2>1. ASSUME Inv, RowsInv, ReadRow PROVE RowsInv'
    <3>1. config.head = 3
      BY <2>1 DEF Inv, TypeOK
    <3> QED  BY <2>1, <3>1, RowsStep
  <2>2. ASSUME Inv, RowsInv, Next, ~ReadRow PROVE RowsInv'
    BY <2>2, RowsStay
  <2>3. ASSUME RowsInv, UNCHANGED vars PROVE RowsInv'
    BY <2>3 DEF vars, configVars, RowsInv, RowsAreProcesses, AllRows, HasRow, RowStart
  <2> QED  BY <2>1, <2>2, <2>3
<1>3. RowsInv => RowsAreProcesses
  BY DEF RowsInv
<1> QED  BY <1>1, <1>2, <1>3, TypeInvariance, PTL DEF Spec

-----------------------------------------------------------------------------
(* Rows that the file lacks.                                               *)

\* No number follows at pos.
Stopped == ~(pos + 1 <= Len(config.tokens) /\ IsNumber(config.tokens[pos + 1]))

\* The last row: procBuf holds its name, and if it is incomplete the file
\* stops before the next one.
LastRow ==
    /\ FailedRowRepeats
    /\ rows # <<>> => rows[Len(rows)].name = procBuf
    /\ phase = "config" => rows = <<>>
    /\ phase = "rows" /\ rows # <<>> /\ rows[Len(rows)].prio = Unset => Stopped

LEMMA LastRowStep ==
    ASSUME Inv, LastRow, ReadRow
    PROVE  LastRow'
<1> DEFINE n == Len(rows)
           file == config.tokens
<1>1. PICK c \in 0..3 :
         LET new == rows'[n + 1]
         IN  /\ Converts(file, pos, RowFormat, c)
             /\ c < 3 => ~Converts(file, pos, RowFormat, c + 1)
             /\ pos' = pos + c
             /\ new.start = IF 1 <= c THEN file[pos + 1].num ELSE Unset
             /\ new.name = IF 2 <= c THEN file[pos + 2].text ELSE procBuf
             /\ new.prio = IF 3 <= c THEN file[pos + 3].num ELSE Unset
             /\ new.name = procBuf'
             /\ new = [start |-> new.start, name |-> new.name, prio |-> new.prio]
  BY OneRow
<1>2. /\ file \in Seq(Token) /\ pos \in 0..Len(file) /\ Len(file) \in Nat
      /\ rows \in Seq(Row) /\ rows' \in Seq(Row) /\ n \in Nat /\ Len(rows') = n + 1
      /\ \A i \in 1..n : rows'[i] = rows[i]
      /\ config' = config /\ phase = "rows" /\ phase' = "rows"
  BY OneRow
<1>3. \A j \in 1..c : /\ pos + j <= Len(file)
                      /\ RowFormat[j] = "number" => IsNumber(file[pos + j])
  BY <1>1 DEF Converts
<1>4. ASSUME c < 3
      PROVE  ~(pos + (c + 1) <= Len(file)
               /\ (RowFormat[c + 1] = "number" => IsNumber(file[pos + (c + 1)])))
  <2> SUFFICES ASSUME pos + (c + 1) <= Len(file),
                      RowFormat[c + 1] = "number" => IsNumber(file[pos + (c + 1)])
               PROVE  Converts(file, pos, RowFormat, c + 1)
    BY <1>1, <1>4
  <2>1. \A j \in 1..(c + 1) : j \in 1..c \/ j = c + 1
    OBVIOUS
  <2> QED  BY <1>3, <2>1 DEF Converts
<1>5. rows'[n + 1].prio = Unset => Stopped'
  <2> SUFFICES ASSUME rows'[n + 1].prio = Unset
               PROVE  ~(pos' + 1 <= Len(file) /\ IsNumber(file[pos' + 1]))
    BY <1>2 DEF Stopped
  <2>1. c < 3
    <3>1. c = 3 => RowFormat[3] = "number" /\ IsNumber(file[pos + 3])
      BY <1>3, FormatsOfLoad
    <3> QED  BY <1>1, <3>1 DEF IsNumber, Unset
  <2>2. pos' + 1 = pos + (c + 1) /\ c + 1 \in 1..3
    BY <1>1, <1>2, <2>1
  <2> QED  BY <1>4, <2>1, <2>2
<1>6. rows'[n + 1].start = Unset => c = 0
  <2>1. 1 <= c => IsNumber(file[pos + 1])
    BY <1>3, FormatsOfLoad
  <2> QED  BY <1>1, <2>1 DEF IsNumber, Unset
<1>7. Stopped => c = 0
  <2>1. 1 <= c => pos + 1 <= Len(file) /\ IsNumber(file[pos + 1])
    BY <1>3, FormatsOfLoad
  <2> QED  BY <2>1 DEF Stopped
<1>8. n # 0 => rows # <<>> /\ rows[n].name = procBuf /\ n \in 1..n
  BY <1>2 DEF LastRow
<1>9. c = 0 => rows'[n + 1] = [start |-> Unset, name |-> procBuf, prio |-> Unset]
  BY <1>1
<1>10. ASSUME NEW i \in 1..n
       PROVE  /\ rows'[i].prio = Unset => rows'[i + 1].start = Unset
              /\ rows'[i + 1].start = Unset =>
                    rows'[i + 1] = [start |-> Unset, name |-> rows'[i].name, prio |-> Unset]
  <2>1. CASE i = n
    <3>1. rows'[n] = rows[n] /\ rows # <<>> /\ rows[n].name = procBuf
      BY <1>2, <1>8, <2>1
    <3>2. rows[n].prio = Unset => c = 0
      BY <1>2, <1>7, <3>1 DEF LastRow
    <3>3. c = 0 => rows'[n + 1].start = Unset
      BY <1>1
    <3> QED  BY <1>6, <1>9, <2>1, <3>1, <3>2, <3>3
  <2>2. CASE i # n
    <3>1. i \in 1..(n - 1) /\ i + 1 \in 1..n
      BY <1>2, <2>2
    <3>2. rows'[i] = rows[i] /\ rows'[i + 1] = rows[i + 1]
      BY <1>2, <3>1
    <3> QED  BY <3>1, <3>2 DEF LastRow, FailedRowRepeats
  <2> QED  BY <2>1, <2>2
<1>11. FailedRowRepeats'
  BY <1>2, <1>10 DEF FailedRowRepeats
<1>12. rows'[Len(rows')].name = procBuf'
  BY <1>1, <1>2
<1> QED  BY <1>2, <1>5, <1>11, <1>12 DEF LastRow

(***************************************************************************)
(* fscanf leaves the token that stops it, and read_config does not look at *)
(* its result: one incomplete row makes every row behind it a copy of its  *)
(* name without start time and priority, in every file.                    *)
(***************************************************************************)
THEOREM FailedRows == Spec => []FailedRowRepeats
<1>1. Init => LastRow
  BY DEF Init, LastRow, FailedRowRepeats
<1>2. Inv /\ LastRow /\ [Next]_vars => LastRow'
  <2>1. ASSUME Inv, LastRow, Next, ~ReadRow PROVE LastRow'
    <3>1. /\ UNCHANGED <<config, rows, procBuf>>
          /\ phase' \in {"config", "rows"} =>
                (phase = "config" /\ pos' = 3) \/ (phase = phase' /\ pos' = pos)
      BY <2>1, RowsKept
    <3> QED  BY <2>1, <3>1 DEF LastRow, FailedRowRepeats, Stopped
  <2>2. ASSUME LastRow, UNCHANGED vars PROVE LastRow'
    BY <2>2 DEF vars, configVars, LastRow, FailedRowRepeats, Stopped
  <2> QED  BY <2>1, <2>2, LastRowStep
<1>3. LastRow => FailedRowRepeats
  BY DEF LastRow
<1> QED  BY <1>1, <1>2, <1>3, TypeInvariance, PTL DEF Spec

-----------------------------------------------------------------------------
(* The instructions of a process description.                              *)

\* Counting the words up to a place of a file.
LEMMA CountedWords ==
    ASSUME NEW file \in Seq(Token), NEW j \in Int, NEW k \in Int, j <= k
    PROVE  /\ IsFiniteSet(WordsTo(file, j)) /\ Cardinality(WordsTo(file, j)) \in Nat
           /\ WordsTo(file, j) \subseteq WordsTo(file, k)
           /\ Cardinality(WordsTo(file, j)) <= Cardinality(WordsTo(file, k))
           /\ j \in Words(file) => Cardinality(WordsTo(file, j)) >= 1
           /\ k \in Words(file) /\ j < k =>
                 Cardinality(WordsTo(file, j)) < Cardinality(WordsTo(file, k))
<1>1. Words(file) \subseteq 3..Len(file) /\ Len(file) \in Int
  BY DEF Words
<1>2. IsFiniteSet(Words(file))
  BY <1>1, FS_Interval, FS_Subset
<1>3. \A l : IsFiniteSet(WordsTo(file, l)) /\ Cardinality(WordsTo(file, l)) \in Nat
  <2>1. \A l : WordsTo(file, l) \subseteq Words(file)
    BY DEF WordsTo
  <2> QED  BY <1>2, <2>1, FS_Subset, FS_CardinalityType
<1>4. WordsTo(file, j) \subseteq WordsTo(file, k)
  BY <1>1 DEF WordsTo
<1>5. Cardinality(WordsTo(file, j)) <= Cardinality(WordsTo(file, k))
  BY <1>3, <1>4, FS_Subset
<1>6. ASSUME j \in Words(file) PROVE Cardinality(WordsTo(file, j)) >= 1
  <2>1. j \in WordsTo(file, j)
    BY <1>6 DEF WordsTo
  <2>2. Cardinality(WordsTo(file, j)) # 0
    BY <1>3, <2>1, FS_EmptySet
  <2> QED  BY <1>3, <2>2
<1>7. ASSUME k \in Words(file), j < k
      PROVE  Cardinality(WordsTo(file, j)) < Cardinality(WordsTo(file, k))
  <2>1. k \in WordsTo(file, k) /\ k \notin WordsTo(file, j)
    BY <1>7 DEF WordsTo
  <2>2. Cardinality(WordsTo(file, k)) # Cardinality(WordsTo(file, j))
    BY <1>3, <1>4, <2>1, FS_Subset
  <2> QED  BY <1>3, <1>5, <2>2
<1> QED  BY <1>3, <1>4, <1>5, <1>6, <1>7

\* fscanf converts all of a format that the file satisfies, and nothing of
\* one whose first conversion fails.
LEMMA FullConversion ==
    ASSUME NEW file \in Seq(Token), NEW from \in 0..Len(file), NEW format \in Formats
    PROVE  /\ Converts(file, from, format, Len(format)) =>
                 Converted(file, from, format) = Len(format)
           /\ ~Converts(file, from, format, 1) => Converted(file, from, format) = 0
<1> DEFINE c == Converted(file, from, format)
<1>1. /\ c \in 0..Len(format) /\ Len(format) \in Nat /\ Converts(file, from, format, c)
      /\ c < Len(format) => ~Converts(file, from, format, c + 1)
  BY ConvertedFacts DEF Formats
<1> HIDE DEF c
<1>2. ASSUME Converts(file, from, format, Len(format)), c < Len(format)
      PROVE  Converts(file, from, format, c + 1)
  <2>1. \A i \in 1..(c + 1) : i \in 1..Len(format)
    BY <1>1, <1>2
  <2> QED  BY <1>2, <2>1 DEF Converts
<1>3. ASSUME c # 0 PROVE Converts(file, from, format, 1)
  <2>1. \A i \in 1..1 : i \in 1..c
    BY <1>1, <1>3
  <2> QED  BY <1>1, <2>1 DEF Converts
<1> QED  BY <1>1, <1>2, <1>3 DEF c

\* An opcode is read with the operands it has.
LEMMA FormatOfOpcode ==
    ASSUME NEW op \in Opcodes
    PROVE  /\ OperandCount(op) \in 0..3 /\ Len(Format(op)) = OperandCount(op)
           /\ op = "malloc" => OperandCount(op) = 2
<1> DEFINE n == CASE op = "calc" -> 0 [] op = "free" -> 1
                  [] op \in {"read", "write"} -> 3 [] OTHER -> 2
<1>1. n = OperandCount(op) /\ n \in 0..3 /\ (op = "malloc" => n = 2)
  BY DEF OperandCount, Opcodes
<1>2. Format(op) = [j \in 1..n |-> "number"]
  BY DEF Format
<1> HIDE DEF n
<1>3. Len([j \in 1..n |-> "number"]) = n
  BY <1>1
<1> QED  BY <1>1, <1>2, <1>3

\* In a well-formed file ReadInstruction takes the next word with its
\* operands, and stops before the word behind them.
LEMMA OneInstruction ==
    ASSUME Inv, ReadInstruction, WellFormed(File), pos + 1 \in Words(File)
    PROVE  LET last == pos + 1 + OperandCount(File[pos + 1].text)
           IN  /\ pos' = last
               /\ last < Len(File) => last + 1 \in Words(File)
               /\ WordsTo(File, last) = WordsTo(File, pos) \cup {pos + 1}
               /\ text' = Append(text, InstAt(File, pos + 1))
<1> DEFINE w == pos + 1
           op == File[w].text
           n == OperandCount(op)
           last == w + n
<1>1. /\ File \in Seq(Token) /\ pos \in 0..Len(File) /\ Len(File) \in Nat /\ pos \in Nat
  <2>1. name \in DOMAIN disk /\ pos \in Nat /\ pos <= Len(disk[name]) /\ disk \in Disks
    BY DEF ReadInstruction, Inv, TypeOK
  <2>2. disk[name] \in Seq(Token)
    BY <2>1, DisksAssumption
  <2>3. Len(disk[name]) \in Nat
    BY <2>2
  <2> QED  BY <2>1, <2>2, <2>3 DEF File
<1>2. w \in 3..Len(File) /\ ~IsNumber(File[w]) /\ pos < Len(File)
  BY <1>1 DEF Words
<1>3. /\ op \in Opcodes /\ last <= Len(File)
      /\ \A j \in (w + 1)..last : IsNumber(File[j])
      /\ last < Len(File) => last + 1 \in Words(File)
  BY DEF WellFormed
<1>4. n \in 0..3 /\ Len(Format(op)) = n /\ (op = "malloc" => n = 2) /\ Format(op) \in Formats
  BY <1>3, FormatOfOpcode, FormatsOfLoad
<1>5. NextOpcode = op /\ Operands = w
  BY <1>2 DEF NextOpcode, Operands
<1> HIDE DEF n, op
<1>6. last \in 0..Len(File) /\ w \in 0..Len(File)
  BY <1>1, <1>2, <1>3, <1>4
<1>7. Converted(File, w, Format(op)) = n
  <2>1. Converts(File, w, Format(op), n)
    <3>1. ASSUME NEW j \in 1..n PROVE w + j <= Len(File) /\ IsNumber(File[w + j])
      <4>1. w + j \in (w + 1)..last
        BY <1>2, <1>4
      <4> QED  BY <1>1, <1>2, <1>3, <1>4, <4>1
    <3> QED  BY <3>1 DEF Converts
  <2> QED  BY <1>1, <1>4, <1>6, <2>1, FullConversion
<1>8. OperandsEnd = last
  BY <1>5, <1>7 DEF OperandsEnd
<1>9. Extra = 0
  <2>1. ASSUME op = "malloc" PROVE Converted(File, last, ExtraFormat) = 0
    <3>1. ~Converts(File, last, ExtraFormat, 1)
      <4> SUFFICES ASSUME last + 1 <= Len(File), IsNumber(File[last + 1]) PROVE FALSE
        <5>1. 1 \in 1..1 /\ ExtraFormat[1] = "number"
          BY DEF ExtraFormat
        <5> QED  BY <5>1 DEF Converts
      <4>1. last < Len(File)
        BY <1>1, <1>6
      <4> QED  BY <1>3, <4>1 DEF Words
    <3> QED  BY <1>1, <1>6, <3>1, FormatsOfLoad, FullConversion
  <2> QED  BY <1>5, <1>8, <2>1 DEF Extra
<1>10. pos' = last
  BY <1>6, <1>8, <1>9 DEF ReadInstruction
<1>11. WordsTo(File, last) = WordsTo(File, pos) \cup {w}
  <2>1. ASSUME NEW k \in Words(File) PROVE k <= last <=> k <= pos \/ k = w
    <3>1. k \in 3..Len(File) /\ ~IsNumber(File[k])
      BY <2>1 DEF Words
    <3>2. k \notin (w + 1)..last
      BY <1>3, <3>1
    <3> QED  BY <1>1, <1>4, <3>1, <3>2
  <2> QED  BY <2>1 DEF WordsTo
<1>12. text' = Append(text, InstAt(File, w))
  <2> DEFINE args == [a \in 0..2 |->
                        IF a = 0 /\ Extra = 1 THEN File[OperandsEnd + 1].num
                        ELSE Number(File, Operands, Format(NextOpcode), a + 1, Unset)]
             inst == [a \in 0..2 |-> IF a < n THEN File[w + a + 1].num ELSE Unset]
  <2>1. ASSUME NEW a \in 0..2
        PROVE  Number(File, w, Format(op), a + 1, Unset)
                  = IF a < n THEN File[w + a + 1].num ELSE Unset
    <3>1. w + (a + 1) = w + a + 1 /\ (a + 1 <= n <=> a < n)
      BY <1>2, <1>4
    <3> QED  BY <1>7, <3>1 DEF Number
  <2>2. args = inst
    BY <1>5, <1>9, <2>1
  <2>3. text' = Append(text, [op |-> op, args |-> args])
    BY <1>5 DEF ReadInstruction
  <2>4. InstAt(File, w) = [op |-> op, args |-> inst]
    BY DEF InstAt, n, op
  <2> QED  BY <2>2, <2>3, <2>4
<1> QED  BY <1>3, <1>10, <1>11, <1>12 DEF n, op

\* The instructions of the first "pos" tokens of a file.
ReadTo(file, code, p) ==
    /\ Len(code) = Cardinality(WordsTo(file, p))
    /\ \A k \in WordsTo(file, p) : code[Cardinality(WordsTo(file, k))] = InstAt(file, k)

\* What load has read of a file that is complete and well-formed.
FileRead ==
    phase = "code" /\ WellFormed(File) /\ Complete(File) =>
        /\ size = File[2].num /\ priority = File[1].num
        /\ pos >= 2
        /\ pos < Len(File) => pos + 1 \in Words(File)
        /\ Len(text) <= size
        /\ ReadTo(File, text, pos)

ProgramsInv == ProgramsAreRead /\ FileRead

LEMMA FileOpened ==
    ASSUME Inv, phase = "code"
    PROVE  /\ File \in Seq(Token) /\ Len(File) \in Nat /\ Len(File) >= 2
           /\ pos \in 0..Len(File) /\ text \in Seq(Inst) /\ Len(text) \in Nat /\ size \in Nat
<1>1. name \in DOMAIN disk /\ disk \in Disks /\ pos \in Nat /\ pos <= Len(disk[name])
  BY DEF Inv, TypeOK
<1>2. disk[name] \in Seq(Token) /\ Len(disk[name]) >= 2
  BY <1>1, DisksAssumption
<1>3. Len(disk[name]) \in Nat /\ text \in Seq(Inst) /\ size \in Nat
  BY <1>2 DEF Inv, TypeOK
<1>4. Len(text) \in Nat
  BY <1>3
<1> QED  BY <1>1, <1>2, <1>3, <1>4 DEF File

\* While instructions are missing, load is at one of the words.
LEMMA WordFollows ==
    ASSUME Inv, FileRead, phase = "code", Len(text) < size, WellFormed(File), Complete(File)
    PROVE  pos < Len(File) /\ pos + 1 \in Words(File)
<1>1. /\ File \in Seq(Token) /\ Len(File) \in Nat /\ pos \in 0..Len(File)
      /\ Len(text) \in Nat /\ size \in Nat
  BY FileOpened
<1>2. /\ size = File[2].num /\ Len(text) = Cardinality(WordsTo(File, pos))
      /\ pos < Len(File) => pos + 1 \in Words(File)
      /\ size <= Cardinality(Words(File))
  BY DEF FileRead, ReadTo, Complete
<1>3. ASSUME pos = Len(File) PROVE FALSE
  <2>1. WordsTo(File, pos) = Words(File)
    BY <1>1, <1>3 DEF WordsTo, Words
  <2>2. Len(text) = Cardinality(Words(File)) /\ Cardinality(Words(File)) \in Nat
    BY <1>1, <1>2, <2>1
  <2> QED  BY <1>1, <1>2, <2>2
<1> QED  BY <1>1, <1>2, <1>3

LEMMA ReadInstructionStep ==
    ASSUME Inv, FileRead, ReadInstruction
    PROVE  FileRead'
<1>1. /\ UNCHANGED <<disk, name, size, priority, phase>> /\ phase = "code" /\ Len(text) < size
      /\ File' = File
  BY DEF ReadInstruction, File
<1> SUFFICES ASSUME WellFormed(File), Complete(File)
             PROVE  /\ size = File[2].num /\ priority = File[1].num
                    /\ pos' >= 2
                    /\ pos' < Len(File) => pos' + 1 \in Words(File)
                    /\ Len(text') <= size
                    /\ ReadTo(File, text', pos')
  BY <1>1 DEF FileRead
<1> DEFINE w == pos + 1
           last == w + OperandCount(File[w].text)
           n == Len(text)
<1>2. /\ File \in Seq(Token) /\ Len(File) \in Nat /\ pos \in 0..Len(File)
      /\ text \in Seq(Inst) /\ n \in Nat /\ size \in Nat
  BY <1>1, FileOpened
<1>3. /\ size = File[2].num /\ priority = File[1].num /\ pos >= 2
      /\ n = Cardinality(WordsTo(File, pos))
      /\ \A k \in WordsTo(File, pos) : text[Cardinality(WordsTo(File, k))] = InstAt(File, k)
  BY <1>1 DEF FileRead, ReadTo
<1>4. w \in Words(File) /\ File[w].text \in Opcodes
  BY <1>1, WordFollows DEF WellFormed
<1>5. /\ pos' = last
      /\ last < Len(File) => last + 1 \in Words(File)
      /\ WordsTo(File, last) = WordsTo(File, pos) \cup {w}
      /\ text' = Append(text, InstAt(File, w))
  BY <1>4, OneInstruction
<1>6. last \in Nat /\ last >= w
  BY <1>2, <1>4, FormatOfOpcode
<1>7. text' \in Seq(Inst)
  BY TypeStep DEF Next, Inv, TypeOK
<1> HIDE DEF last, n
<1>8. Len(text') = n + 1 /\ text'[n + 1] = InstAt(File, w) /\ \A i \in 1..n : text'[i] = text[i]
  BY <1>2, <1>5 DEF n
<1>9. Cardinality(WordsTo(File, last)) = n + 1 /\ Cardinality(WordsTo(File, w)) = n + 1
  <2>1. w \notin WordsTo(File, pos)
    BY <1>2 DEF WordsTo
  <2>2. Cardinality(WordsTo(File, pos) \cup {w}) = n + 1
    <3>1. IsFiniteSet(WordsTo(File, pos))
      BY <1>2, CountedWords
    <3> QED  BY <1>3, <2>1, <3>1, FS_AddElement
  <2>3. WordsTo(File, w) = WordsTo(File, pos) \cup {w}
    <3>1. \A k \in Words(File) : k \in Int
      BY DEF Words
    <3>2. \A k \in Words(File) : k <= w <=> k <= pos \/ k = w
      BY <1>2, <3>1
    <3> QED  BY <1>4, <3>2 DEF WordsTo
  <2> QED  BY <1>5, <2>2, <2>3
<1>10. ASSUME NEW k \in WordsTo(File, last)
       PROVE  text'[Cardinality(WordsTo(File, k))] = InstAt(File, k)
  <2>1. CASE k = w
    BY <1>8, <1>9, <2>1
  <2>2. CASE k # w
    <3>1. k \in WordsTo(File, pos)
      BY <1>5, <2>2
    <3>2. k \in Words(File) /\ k \in Int /\ k <= pos
      BY <3>1 DEF WordsTo, Words
    <3>3. Cardinality(WordsTo(File, k)) \in 1..n
      BY <1>2, <1>3, <3>2, CountedWords
    <3> QED  BY <1>3, <1>8, <3>1, <3>3
  <2> QED  BY <2>1, <2>2
<1>11. Len(text') <= size
  BY <1>1, <1>2, <1>8 DEF n
<1>12. ReadTo(File, text', pos')
  BY <1>5, <1>8, <1>9, <1>10 DEF ReadTo
<1>13. pos' >= 2
  BY <1>2, <1>3, <1>5, <1>6
<1>14. pos' < Len(File) => pos' + 1 \in Words(File)
  BY <1>5
<1> QED  BY <1>3, <1>11, <1>12, <1>13, <1>14

LEMMA OpenProcessStep ==
    ASSUME Inv, OpenProcess
    PROVE  FileRead'
<1>1. /\ disk' = disk /\ name' \in DOMAIN disk /\ pos' = 2 /\ text' = <<>>
      /\ priority' = disk[name'][1].num /\ size' = disk[name'][2].num /\ disk \in Disks
      /\ File' = disk[name']
  BY DEF OpenProcess, Inv, TypeOK, File
<1> DEFINE file == disk[name']
<1>2. file \in Seq(Token) /\ Len(file) >= 2 /\ IsNumber(file[2])
  BY <1>1, DisksAssumption
<1> HIDE DEF file
<1>3. Len(file) \in Nat /\ file[2] \in Token
  BY <1>2
<1>4. Len(text') <= size' /\ Len(text') = 0
  BY <1>1, <1>2, <1>3 DEF Token, IsNumber, file
<1>5. WordsTo(file, 2) = {}
  BY DEF WordsTo, Words
<1>6. ReadTo(file, text', 2)
  BY <1>4, <1>5, FS_EmptySet DEF ReadTo
<1>7. ASSUME WellFormed(file) PROVE 2 < Len(file) => 2 + 1 \in Words(file)
  <2>1. 2 < Len(file) => Len(file) >= 3
    BY <1>3
  <2> QED  BY <1>7, <2>1 DEF WellFormed
<1> QED  BY <1>1, <1>4, <1>6, <1>7 DEF FileRead, file

LEMMA FileReadStep ==
    ASSUME Inv, FileRead, Next
    PROVE  FileRead'
<1>1. ASSUME ~ReadInstruction, ~OpenProcess PROVE FileRead'
  <2>1. phase' # "code" \/ UNCHANGED <<disk, phase, pos, name, size, priority, text>>
    BY <1>1 DEF Next, ReadHeader, ReadRow, RowsRead, MissingFile, UnknownOpcode, Loaded,
                Terminated, vars, loadVars
  <2> QED  BY <2>1 DEF FileRead, File
<1> QED  BY <1>1, ReadInstructionStep, OpenProcessStep

LEMMA LoadedStep ==
    ASSUME Inv, ProgramsInv, Loaded
    PROVE  ProgramsAreRead'
<1> DEFINE pcb == [pid |-> Len(pcbs) + 1, name |-> name, prio |-> NextRow.prio,
                   priority |-> priority, size |-> size, text |-> text]
           n == Len(pcbs)
<1>1. /\ pcbs' = Append(pcbs, pcb) /\ disk' = disk /\ phase = "code" /\ Len(text) >= size
  BY DEF Loaded
<1>2. pcbs \in Seq(Pcb) /\ n \in Nat
  BY DEF Inv, TypeOK
<1>3. pcb.name = name /\ pcb.priority = priority /\ pcb.text = text
  OBVIOUS
<1> HIDE DEF pcb
<1>4. /\ Len(pcbs') = n + 1 /\ pcbs'[n + 1] = pcb
      /\ \A i \in 1..n : pcbs'[i] = pcbs[i]
  BY <1>1, <1>2
<1>5. ASSUME WellFormed(File), Complete(File)
      PROVE  /\ priority = File[1].num /\ Len(text) = File[2].num
             /\ \A k \in Words(File) :
                   LET c == Cardinality(WordsTo(File, k))
                   IN  c <= File[2].num => text[c] = InstAt(File, k)
  <2>1. /\ File \in Seq(Token) /\ Len(File) \in Nat /\ pos \in 0..Len(File)
        /\ Len(text) \in Nat /\ size \in Nat
    BY <1>1, FileOpened
  <2>2. /\ size = File[2].num /\ priority = File[1].num /\ Len(text) <= size
        /\ Len(text) = Cardinality(WordsTo(File, pos))
        /\ \A k \in WordsTo(File, pos) : text[Cardinality(WordsTo(File, k))] = InstAt(File, k)
    BY <1>1, <1>5 DEF ProgramsInv, FileRead, ReadTo
  <2>3. Len(text) = size
    BY <1>1, <2>1, <2>2
  <2>4. ASSUME NEW k \in Words(File), Cardinality(WordsTo(File, k)) <= File[2].num
        PROVE  k \in WordsTo(File, pos)
    <3>1. k \in Int
      BY DEF Words
    <3>2. ASSUME pos < k PROVE FALSE
      <4>1. /\ Cardinality(WordsTo(File, pos)) < Cardinality(WordsTo(File, k))
            /\ Cardinality(WordsTo(File, pos)) \in Nat
        BY <2>1, <3>1, <3>2, CountedWords
      <4>2. Cardinality(WordsTo(File, k)) \in Nat
        BY <2>1, <3>1, CountedWords
      <4> QED  BY <2>2, <2>3, <2>4, <4>1, <4>2
    <3> QED  BY <2>1, <3>1, <3>2 DEF WordsTo
  <2> QED  BY <2>2, <2>3, <2>4
<1> SUFFICES ASSUME NEW i \in 1..(n + 1), WellFormed(disk[pcbs'[i].name]),
                    Complete(disk[pcbs'[i].name])
             PROVE  LET file == disk[pcbs'[i].name]
                    IN  /\ pcbs'[i].priority = file[1].num
                        /\ Len(pcbs'[i].text) = file[2].num
                        /\ \A k \in Words(file) :
                              LET c == Cardinality(WordsTo(file, k))
                              IN  c <= file[2].num => pcbs'[i].text[c] = InstAt(file, k)
  BY <1>1, <1>4 DEF ProgramsAreRead
<1>6. CASE i = n + 1
  <2>1. pcbs'[i] = pcb /\ disk[pcbs'[i].name] = File
    BY <1>3, <1>4, <1>6 DEF File
  <2> QED  BY <1>3, <1>5, <2>1
<1>7. CASE i # n + 1
  <2>1. i \in 1..n /\ pcbs'[i] = pcbs[i]
    BY <1>2, <1>4, <1>7
  <2> QED  BY <2>1 DEF ProgramsInv, ProgramsAreRead
<1> QED  BY <1>6, <1>7

LEMMA ProgramsStep ==
    ASSUME Inv, ProgramsInv, Next
    PROVE  ProgramsInv'
<1>1. ASSUME ~Loaded PROVE ProgramsAreRead'
  <2>1. UNCHANGED <<disk, pcbs>>
    BY <1>1 DEF Next, ReadHeader, ReadRow, RowsRead, OpenProcess, MissingFile, ReadInstruction,
                UnknownOpcode, Terminated, vars
  <2> QED  BY <2>1 DEF ProgramsInv, ProgramsAreRead
<1> QED  BY <1>1, FileReadStep, LoadedStep DEF ProgramsInv

(***************************************************************************)
(* A process runs the first "size" instructions of its file, in order and  *)
(* each with its own operands, for every complete and well-formed file of  *)
(* any length and whatever the calls before left in opcode: the missing    *)
(* break after MALLOC and the ignored results of fscanf do no harm there.  *)
(***************************************************************************)
THEOREM ProgramsRead == Spec => []ProgramsAreRead
<1>1. Init => ProgramsInv
  BY DEF Init, ProgramsInv, ProgramsAreRead, FileRead
<1>2. Inv /\ ProgramsInv /\ [Next]_vars => ProgramsInv'
  <2>1. ASSUME ProgramsInv, UNCHANGED vars PROVE ProgramsInv'
    BY <2>1 DEF vars, loadVars, ProgramsInv, ProgramsAreRead, FileRead, File
  <2> QED  BY <2>1, ProgramsStep
<1>3. ProgramsInv => ProgramsAreRead
  BY DEF ProgramsInv
<1> QED  BY <1>1, <1>2, <1>3, TypeInvariance, PTL DEF Spec

-----------------------------------------------------------------------------
(* The end of the simulation by the loader.                                *)

\* There are no more rows than processes, and load reads the file of its row.
LoadsRows ==
    /\ Len(rows) <= NumProcesses
    /\ phase = "code" => name = NextRow.name

LoadsInv == RowsInv /\ FileRead /\ LoadsRows /\ GoodInputLoads

\* If the input is good, the next row names a good file.
LEMMA NextFileGood ==
    ASSUME Inv, RowsInv, LoadsRows, GoodInput, Len(pcbs) < Len(rows)
    PROVE  /\ NextRow.name \in DOMAIN disk
           /\ WellFormed(disk[NextRow.name]) /\ Complete(disk[NextRow.name])
<1> DEFINE i == Len(pcbs) + 1
<1>1. pcbs \in Seq(Pcb) /\ rows \in Seq(Row)
  BY DEF Inv, TypeOK
<1>2. i \in 1..Len(rows) /\ Len(rows) \in Nat
  BY <1>1
<1>3. NumProcesses \in Int
  <2>1. config \in Config /\ Len(config.tokens) >= 3
    BY ConfigsAssumption DEF Inv, TypeOK
  <2>2. config.tokens \in Seq(Token)
    BY <2>1 DEF Config
  <2>3. config.tokens[3] \in Token
    BY <2>1, <2>2
  <2> QED  BY <2>3 DEF Token, NumProcesses
<1>4. \A j \in 1..i : j \in 1..NumProcesses
  BY <1>2, <1>3 DEF LoadsRows
<1>5. \A j \in 1..i : HasRow(j)
  BY <1>4 DEF GoodInput
<1>6. rows[i].name = config.tokens[RowStart(i) + 2].text
  <2> HIDE DEF i
  <2>1. rows[i] = RowAt(i)
    BY <1>2, <1>5 DEF RowsInv, RowsAreProcesses, RowAt
  <2> QED  BY <2>1 DEF RowAt
<1>7. NextRow = rows[i] /\ i \in 1..i
  BY <1>2 DEF NextRow
<1> HIDE DEF i
<1> QED  BY <1>4, <1>6, <1>7 DEF GoodInput

LEMMA LoadsRowsStep ==
    ASSUME Inv, LoadsRows, Next
    PROVE  LoadsRows'
<1>1. rows \in Seq(Row) /\ rows' \in Seq(Row)
  BY TypeStep DEF Inv, TypeOK
<1>2. Len(rows') <= NumProcesses /\ NumProcesses' = NumProcesses
  <2>1. CASE ReadRow
    <3>1. config \in Config /\ Len(config.tokens) >= 3
      BY ConfigsAssumption DEF Inv, TypeOK
    <3>2. config.tokens \in Seq(Token)
      BY <3>1 DEF Config
    <3>3. config.tokens[3] \in Token
      BY <3>1, <3>2
    <3>4. NumProcesses \in Int
      BY <3>3 DEF Token, NumProcesses
    <3>5. Len(rows') = Len(rows) + 1 /\ config' = config /\ Len(rows) < NumProcesses
      BY <2>1, OneRow DEF ReadRow
    <3>6. Len(rows) \in Nat
      BY <1>1
    <3> QED  BY <3>4, <3>5, <3>6 DEF NumProcesses
  <2>2. CASE ~ReadRow
    BY <2>2, RowsKept DEF LoadsRows, NumProcesses
  <2> QED  BY <2>1, <2>2
<1>3. phase' = "code" => name' = NextRow'.name
  <2>1. CASE OpenProcess
    BY <2>1 DEF OpenProcess, NextRow, configVars
  <2>2. CASE ~OpenProcess
    <3>1. phase' # "code" \/ UNCHANGED <<phase, name, rows, pcbs>>
      BY <2>2 DEF Next, ReadHeader, ReadRow, RowsRead, MissingFile, ReadInstruction, UnknownOpcode,
                  Loaded, Terminated, vars, configVars, loadVars
    <3> QED  BY <3>1 DEF LoadsRows, NextRow
  <2> QED  BY <2>1, <2>2
<1> QED  BY <1>2, <1>3 DEF LoadsRows

LEMMA GoodInputStep ==
    ASSUME Inv, LoadsInv, Next
    PROVE  GoodInputLoads'
<1>1. UNCHANGED <<config, disk>>
  BY DEF Next, ReadHeader, ReadRow, RowsRead, OpenProcess, MissingFile, ReadInstruction,
         UnknownOpcode, Loaded, Terminated, vars
<1>2. GoodInput' = GoodInput
  BY <1>1 DEF GoodInput, NumProcesses, HasRow, RowStart
<1> SUFFICES ASSUME GoodInput PROVE phase' # "exit"
  BY <1>2 DEF GoodInputLoads
<1>3. phase # "exit"
  BY DEF LoadsInv, GoodInputLoads
<1>4. ASSUME MissingFile PROVE FALSE
  BY <1>4, NextFileGood DEF MissingFile, LoadsInv
<1>5. ASSUME UnknownOpcode PROVE FALSE
  <2>1. phase = "code" /\ Len(text) < size /\ NextOpcode \notin Opcodes
    BY <1>5 DEF UnknownOpcode
  <2>2. Len(pcbs) < Len(rows) /\ name = NextRow.name
    BY <2>1 DEF Inv, LoadsInv, LoadsRows
  <2>3. WellFormed(File) /\ Complete(File)
    BY <2>2, NextFileGood DEF LoadsInv, File
  <2>4. pos < Len(File) /\ pos + 1 \in Words(File)
    BY <2>1, <2>3, WordFollows DEF LoadsInv
  <2> QED  BY <2>1, <2>3, <2>4 DEF NextOpcode, WellFormed
<1>6. CASE ~MissingFile /\ ~UnknownOpcode
  BY <1>3, <1>6 DEF Next, ReadHeader, ReadRow, RowsRead, OpenProcess, ReadInstruction,
                    Loaded, Terminated, vars
<1> QED  BY <1>4, <1>5, <1>6

(***************************************************************************)
(* read_config and load never end the simulation over an input in which    *)
(* every row is there and names a complete and well-formed file, for any   *)
(* number of processes and files of any length.                            *)
(***************************************************************************)
THEOREM GoodInputIsLoaded ==
    ASSUME \A c \in Configs : c.head = 3
    PROVE  Spec => []GoodInputLoads
<1>1. Init => LoadsInv
  <2> SUFFICES ASSUME Init PROVE LoadsInv
    OBVIOUS
  <2>1. config \in Config /\ Len(config.tokens) >= 3 /\ IsNumber(config.tokens[3])
    BY ConfigsAssumption DEF Init
  <2>2. config.tokens \in Seq(Token)
    BY <2>1 DEF Config
  <2>3. config.tokens[3] \in Token
    BY <2>1, <2>2
  <2>4. NumProcesses \in Nat
    BY <2>1, <2>3 DEF Token, NumProcesses, IsNumber
  <2>5. rows = <<>> /\ phase = "config"
    BY DEF Init
  <2>6. Len(rows) = 0
    BY <2>5
  <2>7. LoadsRows
    BY <2>4, <2>5, <2>6 DEF LoadsRows
  <2> QED
    BY <2>5, <2>7 DEF LoadsInv, RowsInv, RowsAreProcesses, FileRead, GoodInputLoads
<1>2. Inv /\ LoadsInv /\ [Next]_vars => LoadsInv'
  <2>1. ASSUME Inv, LoadsInv, Next PROVE LoadsInv'
    <3>1. config.head = 3
      BY <2>1 DEF Inv, TypeOK
    <3>2. RowsInv'
      <4>1. CASE ReadRow
        BY <2>1, <3>1, <4>1, RowsStep DEF LoadsInv
      <4>2. CASE ~ReadRow
        BY <2>1, <4>2, RowsStay DEF LoadsInv
      <4> QED  BY <4>1, <4>2
    <3>3. FileRead'
      BY <2>1, FileReadStep DEF LoadsInv
    <3> QED  BY <2>1, <3>2, <3>3, LoadsRowsStep, GoodInputStep DEF LoadsInv
  <2>2. ASSUME LoadsInv, UNCHANGED vars PROVE LoadsInv'
    BY <2>2 DEF vars, configVars, loadVars, LoadsInv, RowsInv, RowsAreProcesses, AllRows, HasRow,
                RowStart, FileRead, File, LoadsRows, NumProcesses, NextRow, GoodInputLoads, GoodInput
  <2> QED  BY <2>1, <2>2
<1>3. LoadsInv => GoodInputLoads
  BY DEF LoadsInv
<1> QED  BY <1>1, <1>2, <1>3, TypeInvariance, PTL DEF Spec
=============================================================================
