---------------------------- MODULE MCInputFiles ----------------------------
(***************************************************************************)
(* Model values for InputFiles.  A process description has up to three     *)
(* lines, each an instruction, an unknown word, or an instruction with an  *)
(* operand too few or too many, under a header that says 2 or 3 lines.     *)
(* Every operand has another value, its place in the file, so that none    *)
(* can be taken for another.                                               *)
(***************************************************************************)
EXTENDS InputFiles

MCTexts == STRING

Numeral(n) == [text |-> "number", num |-> n]
Word(w) == [text |-> w, num |-> -1]

MCLines == {
    <<>>, <<"calc">>, <<"alloc", "", "">>, <<"malloc", "", "">>, <<"free", "">>,
    <<"write", "", "", "">>, <<"jump">>, <<"alloc", "">>, <<"malloc", "", "", "">>}

\* The file with this header and these words and operands.
MCFile(header, body) ==
    [k \in 1..(2 + Len(body)) |->
        CASE k = 1 -> Numeral(7)
          [] k = 2 -> Numeral(header)
          [] OTHER -> IF body[k - 2] = "" THEN Numeral(k) ELSE Word(body[k - 2])]

MCFiles == {MCFile(header, l1 \o l2 \o l3) :
                header \in {2, 3}, l1 \in MCLines, l2 \in MCLines, l3 \in MCLines}

\* The second file leaves READ in the buffer of the opcode.
MCSecond == MCFile(1, <<"read", "", "", "">>)

MCDisks == {[n \in {"p", "q"} |-> IF n = "p" THEN f ELSE MCSecond] : f \in MCFiles}

\* A configuration for n processes.
MCConfig(n, head, body) ==
    [tokens |-> <<Numeral(2), Numeral(1), Numeral(n)>> \o body, head |-> head]

MCRow(start, program, prio) == <<Numeral(start), Word(program), Numeral(prio)>>
MCLegacyRow(start, program) == <<Numeral(start), Word(program)>>

\* Complete, with a row too many, with rows missing, without priorities
\* (all, or the last), and with a program that does not exist.
MCConfigs == {
    MCConfig(2, 3, MCRow(0, "q", 5) \o MCRow(4, "p", 7)),
    MCConfig(1, 3, MCRow(1, "p", 5) \o MCRow(4, "q", 7)),
    MCConfig(3, 3, MCRow(0, "p", 5)),
    MCConfig(3, 3, MCLegacyRow(0, "q") \o MCLegacyRow(4, "p")),
    MCConfig(3, 3, MCRow(0, "q", 5) \o MCLegacyRow(4, "p")),
    MCConfig(2, 3, MCRow(0, "q", 5) \o MCRow(4, "x", 7))}

\* The line of memory sizes before the rows.
MCMemoryLine ==
    [k \in 1..6 |-> [text |-> "size", num |-> 100 * k]]

MCPagingConfigs == {
    MCConfig(2, 9, MCMemoryLine \o MCRow(0, "q", 0) \o MCRow(2, "p", 15))}
=============================================================================
